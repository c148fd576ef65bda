# Verification of Callipsos

TLA+ models of the Callipsos validation service, its policy engine and the two
agents that use it, the TLC configurations that check them on small instances,
and theorems about them that TLAPS checks for every value of the constants.

Paths are relative to the repository; `validate.rs:188` is line 188 of
`src/routes/validate.rs`, and bare file names are unique.

* [1 The system](#1-the-system)
* [2 Modules and how they correspond to the code](#2-modules-and-how-they-correspond-to-the-code)
* [3 Runs](#3-runs)
* [4 Bounds, and why they are enough](#4-bounds-and-why-they-are-enough)
* [5 Fairness](#5-fairness)
* [6 What is proved](#6-what-is-proved)
* [7 What is only model-checked](#7-what-is-only-model-checked)
* [8 Abstractions, and what is not modelled](#8-abstractions-and-what-is-not-modelled)
* [9 Disagreements between the code and what is said of it](#9-disagreements-between-the-code-and-what-is-said-of-it)
* [10 Plan](#10-plan)

To check a module: `tlc -config <X>.cfg <MC module>.tla`; to prove one:
`tlapm <Y>_proofs.tla`.

## 1 The system

Callipsos sits between an AI agent and a signing key. An agent proposes a
transaction; the API server judges it by the rules of the user's active
policies, asks a signing network (a Lit Action) for a signature if all of them
pass, records the verdict, and answers.

| Component | State | Operations | Talks to |
|---|---|---|---|
| Policy engine (`src/policy`) | none | `evaluate`: twelve rules, the verdict, three presets | called by the validate handler |
| Request conversion (`validate.rs`) | none | text and floats to amounts, scores, basis points; names to lower case | called by the validate handler |
| Validate service (`src/routes`, `src/main.rs`, `src/error.rs`) | one future per call in flight | `POST /validate`, `POST/GET/DELETE /policies`, `POST /users`, `/health` | database, signing provider |
| Persistence (`src/db`, `migrations`) | tables `users`, `policies`, `transaction_log`, `conversations`; a pool with a 10 s acquire timeout | one statement per operation, each atomic | - |
| Signing (`src/signing`, `lit-signer`) | none here; the network holds the key | `sign_verdict`: POST the Lit Action with the verdict | signing network |
| Telegram bot (`telegram_bot.rs`) | one handler per chat at work; nothing between updates except in the database | `/start`, `/reset`, messages with an agent loop of up to 20 turns, read-only commands | Telegram, model, API server, database |
| Agents' `validate_transaction` tool (both agents) | a running total of approved spending behind a lock | lock, submit, add, release | API server |
| Agents' `set_policy` tool (both agents) | none | check the arguments, round them into rules, POST a policy, tell the user | API server |
| Chaos agent (`chaos_agent.rs`) | one total for the life of the process | prompts from a console, tools one at a time | model, API server |
| ERC-8004 identity (`identity.rs`) | tokens on chain; an id in the environment | register at start if no id is configured, read reputation | chain, operator |
| Key encryption (`encrypt.rs`) | none | encrypt and decrypt a key | - |
| Audit log export (`export_agent_log.rs`) | none | the newest rows of the log as JSON, with counts of rules | database |

How they interact. Clients, the bot's tools and the chaos agent's tool reach the
server over HTTP. The server and the bot share the database: the bot deactivates
policies with SQL while the server loads them, and its agents create them
through the server. No transaction spans two statements anywhere, so every
`.await` between two queries is a point where anything else may happen.

What is hard, and what makes each part correct:

* **Engine and composition.** Twelve rules with optional evidence, decimals
  against floats, lists that may be empty. Correct: nothing passes without a
  rule that passed it; missing evidence never helps; one more policy never
  loosens; the presets are ordered; the conversions let nothing past a limit.
* **Validate service.** Six awaits, with deletion of policies, failing queries, a
  client that leaves, and a signing network that may sign late, fail, or never
  answer in between. Correct: an approval honours every policy that stood
  throughout; the key is used for approvals only; a verdict told is a verdict
  logged; a call ends.
* **Bot.** Two chats of the same user run handlers side by side on the same
  rows, each handler may fail at every await and leaves what it has stored.
  Correct: one conversation in use, the newest; a closed one stays closed; what
  `/reset` says is so; the model sees the conversation once and in order;
  history is bounded and keeps the newest.
* **Agents' `validate_transaction`.** A total that the tool keeps and the server
  relies on, answers that are lost, amounts finer than the cents that are reported,
  amounts that the server can read and the tool cannot (`1_00.00`). Correct: the total
  is the sum of the approvals that the tool heard of and could read; these keep the
  budget, and any other costs at most one budget more.
* **Agents' `set_policy`.** Limits are rounded on their way to the server while the
  user is told the unrounded ones; a POST may take effect when nobody waits for
  it any more, or after a `/reset`; the two agents' copies of the tools differ on
  purpose. Correct: what a user was told is set or cleared is what later calls are
  judged by, up to a rounding that can be stated; an agent can satisfy the rules
  of its own making. That success is announced only of what is stored does not hold
  of the bot (section 9): what the server *said* to be stored is stored, but the bot
  also announces what it never heard of.
* **Identity and the process.** A start may end between the registration it sent and
  the receipt, and the next start knows only what the operator copied from the
  logs; a stop takes every handler with it and leaves what they stored. Correct:
  the identity presented is the configured one, or else the token of this start's own
  registration; every token of the bot's stems from a start that had no id; what
  handlers keep true they keep true over restarts. That a configured id is the bot's
  own nobody checks: any number will do, and the one that `README.md:725` shows belongs
  to somebody else for any other key.

`PROJECT.json` lists all of these hazards at their lines, with the properties that
cover each.

## 2 Modules and how they correspond to the code

```
PolicyEngine <- RequestConversion <- PolicyComposition <- MCPolicyComposition
     |                 |---- ValidateService <- AuditExport <- MCValidateService
     |                 |        |   `-- INSTANCE ValidationGate (abstract)
     |                 |        |---- SharedPolicies <- MCSharedPolicies
     |                 `---- SetPolicy ---'
     |                          |
     |        AgentTools -------'
     |             |
     `---- AgentSpend <- MCAgentSpend
               `-- INSTANCE BudgetLedger (abstract)

BotSession <- MCBotSession
BotSession, AgentIdentity <- BotProcess <- MCBotProcess
```

An arrow points to the module that is extended. Proofs are in `X_proofs`, which
extends `X`: `PolicyComposition_proofs`, `ValidateService_proofs`, `SetPolicy_proofs`,
`AgentSpend_proofs`, `BotSession_proofs`; `SharedPolicies_proofs` extends those of
its two parts (and `ValidateService_proofs` extends `AuditExport` as well), `BotProcess_proofs` those of the session. `EngineLemmas`, on the
engine and the conversions, serves all of them but the bot's.

**`PolicyEngine`** is `src/policy` as operators. `Outcome(rule, tx, ctx)` is
`PolicyRule::evaluate`, one case per rule; `Evaluate` is `engine::evaluate` with its
early return for an empty list (`BlockedByEngine`); `Overflows` says when it panics,
by a sum or by a share written as a percentage; `SafetyFirst`, `Balanced` and
`BestYields` are the presets. A rule is a record of an id and a limit; rules come
out of deserialization unchecked, so limits range over all integers. Scores are
in units of 1/100000, fine enough to tell a decimal literal from the double that
stands for it: `Decimal::from_f64_retain(0.7)` is below 0.7, and `FromF64Retain`
says for each hundredth on which side its double lies.

**`RequestConversion`** is `convert_request`: which bodies are refused (`Convertible`)
and what the others become (`ToTransaction`, `ToContext`), with the lower-casing of
names and the truncation of the utilization to basis points.

**`PolicyComposition`** adds and removes policies around one request:
`AddPolicy` and `RemovePolicy` are what create and delete make of the list the
handler loads, and `Flatten` is its step 5.

**`ValidateService`** is the server. State: the tables (`users`, `policies`,
`txlog`), whether a signing provider is configured, and for each call the place
its handler waits at (`pc`) with its local variables. Each action is what runs
between two awaits: `Receive` (conversion, 400), `FindUser` (404),
`LoadAndEvaluate` (500 on rules that do not deserialize, a closed connection when
the evaluation panics, else the verdict), `SigningAnswered`/`SigningFailed`,
`LogAndReply`, and `LogAndLose` for an insertion whose outcome nobody learns.
`QueryFails` fails any query; `Abandon` drops the future wherever it waits.
`RunLitAction` happens in the network, whether or not the caller still waits:
that is how a signature can exist that no call knows of. `standing` is a history
variable: the policies active at arrival and never deleted since. `Init` also
starts from a database in use that holds a policy another version wrote.

**`ValidationGate`** is the abstract specification: decide once, use the key only
after an approval and at most once, record at most once, tell only what has been
recorded. `ValidateService` maps to it by
`decision <- verdict`, `keyUsed <- {c : lit[c] = "signed"}`,
`recorded <- txlog`, `told <- reply`.

**`BotSession`** is the bot's work on one user's rows. A handler is a record of
where it waits and what it holds; each action is one statement or one call:
`FindUser`, `CreateUser`; `ListPolicies`, `DeletePolicy` (one at a time, in any
order), `PoliciesDeleted`, `Deactivate`, `CreateConversation` (fails on the unique
index), `StoreWelcome`, `ClearFlag`, `Confirm`; `FindSession`, `StorePrompt`,
`LoadHistory`, `Think`, `RunTool`, `NextTurn`, `StoreReply`, `CountMessages`,
`TrimToRecent`, `SendReply`. `Abort` ends a handler at any place: an error that `?`
propagates, or the process stopping. The dispatcher runs the updates of one chat
in order and those of different chats side by side, which is why `Receive` needs
its own chat idle and no other.

**`AgentSpend`** is the `validate_transaction` tool of both agents with the
server's verdict computed by `PolicyEngine`. A message handler of the bot and a
chaos agent are both an agent with a total, and run one call at a time (the bot's
loop awaits each; the chaos agent's library does so by default). `Submit` takes the
lock, rounds the total to cents (half a cent may go either way, as no double stands
for it) and posts; `Judge` is the server; `Answer` adds and releases; `LoseAnswer`
releases without having heard. The server reads an amount as a decimal, the tool as
a float afterwards: an argument is `plain` if both can, and an approval that is not
plain is told but leaves the total alone (`SpentAfter`).

**`BudgetLedger`** is what that promises, as an abstract specification: per agent a
ledger in which a call is booked once, or missed for good, in one step that looks at
every limit. `AgentSpend` maps to it by `booked <- {c : told of a plain approval}`,
`missed <- {c : told of another}` and `spent <- spent`; its tool looks at a limit in
one step (in fact on another machine) and books in another, and nothing may come
between.

**`AgentTools`** has what the copies of the tools share: cents, the rounding of
`{:.2}`, and the portfolio each agent makes up.

**`AuditExport`** is a row of `agent_log.json` as a function of a row of the log, with
its two counts of rules; it extends `ValidateService`, whose log it reads.

**`SetPolicy`** is `set_policy` as operators: what it refuses (`Refuses`), the rules that
`build_rules_json` makes (`BuiltRules`: a set, as half a cent rounds either way; the
bot adds two rules on reasoning, the chaos agent does not), which of them the
server can read, and what `describe_rule` shows. `WithinTold` says what it means for
a body to keep to the arguments as the user was told them.

**`SharedPolicies`** composes the server with the agents that make and reset
policies: `CallSetPolicy` posts, `StorePolicy` and `RefusePolicy` are the server's part
at whatever time. `ToolTold` is a 201 that arrives, `ToolFails` an end of which nothing
is announced. The bot announces more than it has heard: in `ToolBreaks` the
connection breaks, in `MisreadArguments` nothing is even posted, and either way
`format_tool_result` says "Policy created successfully." (`claimed`); `AnnouncedTo` is
what a user has been told of, by either route. `FindForReset`, `DeactivateForReset`
(one by one), `ConfirmReset`, `AbortReset` are `/reset`, one per chat, on the table
itself; `PostPolicy` is any other client; `Ask` receives a call and remembers in
`known` what its user had been told by then. Everything else is `ValidateService`'s
own. A user's agent is the bot or the chaos agent (`chaosUsers`).

**`AgentIdentity`** is the start of the bot as far as it concerns its identity: `Boot`
reads the environment, `SendRegistration` / `SendFails`, `ReceiptArrives` / `ReceiptFails`,
`Connected`; `StopProcess` at any point. Around it the chain mines or reverts what was
sent, also when the sender is gone, others mint tokens, and the operator
edits the environment: any number for an id, from the logs or not, a mistyped one, or
none.

**`BotProcess`** puts the two together: handlers of `BotSession` work while the process
is up, and `Crash` stops the process and ends every handler where it is, with
what is stored left as it is.

**Faults.** An operator named `X_Something` above a definition `X`, with a comment
that starts "Fault:", is the form that `X` would take with a plausible bug (a
dropped guard, a missing reset, the wrong end of a sequence). No action uses it.
`PROJECT.json` names, for every property, the fault that violates it.

## 3 Runs

| Run | Module, configuration | Properties | Distinct states |
|---|---|---|---|
| `composition` | MCPolicyComposition, `PolicyComposition.cfg` | `TypeOK`, `PresetsNest`, `ApprovedMeansWithinLimits`, `BlocksOnlyForCause`, `ComposesStricter` | 50,058 |
| `score_at_floor` | MCPolicyComposition, `PC_ScoreAtFloorMeetsIt.cfg` | `ScoreAtFloorMeetsIt`: violated | |
| `one_call` | MCValidateService, `ValidateOneCall.cfg` | `TypeOK`, `ApprovalHonoursStandingPolicies`, `SigningPathIsGuarded`, `VerdictGivenIsLogged`, `RecordsStay`, `ImplementsGate`, `ExportTellsTheVerdict` | 266,712 |
| `unlogged` | MCValidateService, `ValidateUnlogged.cfg` | `EverySignatureIsLogged`: violated | |
| `hang` | MCValidateService, `ValidateHang.cfg` | `VerdictStillReturns`: violated | |
| `one_chat` | MCBotProcess, `BotOneChat.cfg` | `PromptAppearsOnce`, `ReplyIsKept`, `IdentityIsAccountedFor`, `MintsAreAccountedFor`, `HandlersGetOn`, `EndsOrHangsInOneCall` | 4,547,967 |
| `two_chats` | MCBotSession, `BotTwoChats.cfg` | `TypeOK`, `OnlyNewestIsActive`, `ResetClearsWhatStood`, `ClosedStaysClosed` | 1,256,236 |
| `fresh_start` | MCBotSession, `BotFreshStart.cfg` | `FreshStartStaysFresh`: violated | |
| `budget` | MCAgentSpend, `SpendBudget.cfg` | `TypeOK`, `BudgetHolds`, `TotalIsWhatWasCounted`, `ImplementsLedger` | 68,663 |
| `session_budget` | MCAgentSpend, `SpendSession.cfg` | `SessionWithinBudget`: violated | |
| `shared_policies` | MCSharedPolicies, `SharedPolicies.cfg` | `SharedTypeOK`, `ToldIsEnforced`, `OwnPolicyIsJudgeable`, `ResetIsHonoured`, `ShownIsEnforced` | 3,368,786 |
| `false_success` | MCSharedPolicies, `SharedSuccess.cfg` | `SuccessMeansCreated`: violated | |

* `composition` judges 618 requests at and on either side of every limit of the
  presets by every combination of two policies among the presets and five other
  lists. It shows that composition is monotone, that the presets are nested, and
  that an approval means every limit is met *as the client wrote the request*:
  the property's `WithinLimit` reads the body, not the converted context, so it is
  the conversions and the rules together that are checked. What the conversions
  cost shows in its statement: a utilization may exceed its ceiling by less than
  one basis point, since the code cuts the fraction off. `BlocksOnlyForCause` is the
  converse: a body that is within every limit is approved, unless the evaluation panics,
  and but for a unit of a float's precision and for allow-lists in capitals (`ClearlyWithin`): custom rules are
  stored as they come, while the names of a body are lower-cased.
* `one_call` has one call among creations and deletions of two policies of two
  users, failing queries, a client that leaves, and every behaviour of the
  signing network. It also shows that the service implements the gate, and that the
  two counts of an exported entry, which leave out rules that could not be evaluated, still
  tell why a call was blocked.
* `one_chat` sends four updates through one chat of a bot that is started up to
  twice, with or without an identity, each handler free to fail and the process
  free to stop anywhere: what failed handlers leave behind neither confuses the
  history nor pushes the newest reply out, every step of a handler brings it nearer
  to its end, it ends unless one single call to the model or the API server hangs,
  and the bot presents what was configured when it started or what this start has
  registered, although registrations are lost, mined late, or reverted, others mint,
  and the operator configures whatever he likes.
* `two_chats` has two chats of one user send two updates each, side by side.
* `budget` has three calls by a message handler and a chaos agent, with amounts
  that meet, overrun and miss the budget by half a cent, and one that the server reads
  and the tool does not. The total is what the tool could count, the budget holds of it
  to within half a cent, each approval that was not counted costs at most one budget
  more, and the tools implement the ledger.
* `shared_policies` has one user, of the bot or of the chaos agent, two policies
  made by the tool or by hand, resets, and one call. `ToldIsEnforced` holds of what was
  announced without the server's word too, with one exception that the code has: a
  policy that had not been stored when the call came. Arguments sit half a cent and
  half a hundredth between two roundings, bodies at the edges of both, so that
  the tolerance in `WithinTold` is the exact one; the hand-written list has a
  share of 1.5%, which `/policy` shows as 1%.

The runs that must be violated are in section 9.

## 4 Bounds, and why they are enough

* Policies (`PolicyIds`): two. The rules of all policies are one flat list, the
  outcome of a rule does not depend on the others, so two lists show every way
  in which lists can disagree; the theorems lift the bound.
* Calls of the server: one. Handlers share only the tables, and the only thing one
  writes there that another reads is policies and users, which the actions
  `CreatePolicy`, `DeletePolicy` and `CreateUser` write at any moment; the theorems
  hold for any number of calls.
* Rule lists and requests (`MCRuleLists`, `MCWires`): chosen so that each rule is
  the one that decides in some request, at its limit and just past it, with every
  optional field present and absent, and so that an addition overflows.
* `MaxUpdates` (updates per chat): four in one chat (a `/start` and three messages)
  overfill `Keep = 3` even when
  handlers fail before they trim; two in each of two chats suffice for a handler
  to outlive the conversation it began in, and for two resets or starts to
  interleave.
* `Keep` is 40 in the code, `MaxTurns` 20; small values reach the bound sooner, and
  nothing in the code compares them with anything else. `MaxCalls`
  bounds the tool calls of one turn, which the code does not.
* `Calls` of the agents: three; two fill the budget, the third must be refused.
* `MaxStarts` two: the second start meets what the first one left, be it a
  registration under way or an id in the logs. `MaxTokens` two: a token per start, or
  one of the bot's and one of somebody else's, which the environment may name as
  well. The theorems lift both.
* `shared_policies` has one user and two policies: what one user's policies do to
  another's calls is `one_call`'s matter. One chat: two resets at once are `two_chats`'
  matter. The theorems lift both bounds. `Cent = 2`
  makes the half cent that rounding is about an integer.
* `CHECK_DEADLOCK FALSE` is set for the bot, the agents' tool and `shared_policies`:
  with the bounded number of updates, starts, policies and calls used up, the
  model rightly stops.

Symmetry is used for the chats and the policies in `two_chats`, for the calls
in `budget` and for the policies in `shared_policies`, never in a run with a
liveness property.

## 5 Fairness

* `ValidateService!Fairness`: weak fairness of `FindUser`, `LoadAndEvaluate` and
  `LogAndReply` for each call. The runtime polls a future that can go on, and waiting for
  a connection ends after 10 seconds (`db/mod.rs`); that a statement, once it is sent,
  is answered or fails is an assumption on the database, which the code does not
  bound. It is there for `hang`: the violation does not come from a server or a
  database that stops, but from the signing network alone. Nothing is assumed of the signing network: its
  HTTP client has no timeout (`lit.rs:110`).
* `BotSession!Fairness`: weak fairness of the steps that wait for the database
  or Telegram (`OwnStep`), on the same assumption. Nothing is assumed of `Think` and `RunTool`, the calls to
  the model and the API server, which are made without a timeout.
* `BotProcess!ProcessFairness`: the same while the process is up. Nothing is assumed
  of the start (the chain is called without a timeout), the chain, the operator, or
  of the process being started again.
* `PolicyComposition`, `AgentSpend` and `SharedPolicies` have no liveness property and
  no fairness.

## 6 What is proved

The theorems hold for every value of the constants that satisfies the named
assumptions: `DecimalMaxAssumption`, `LowerAssumption` (lower-casing is
idempotent), `InputAssumption` (bodies and rule lists have their types),
`NoneIsNoNumber`, `VerdictAssumption` and `NoneAssumption` (`None` is no value of
another kind),
`CentAssumption`, `BoundsAssumption` (`Keep >= 2`, at least one turn and call),
`SpendAssumption`, `SharedAssumption` (the server's rule lists include what the tool
may post and can be read), `ListsAssumption` (a list of rules is finite),
`IdentityAssumption`. TLC evaluates each of them in the
runs.

| Theorem | Says |
|---|---|
| `PolicyComposition_proofs!PoliciesComposeStricter` | for any rules, policies, requests: one more policy never unblocks, one less never blocks while a rule is left |
| `PolicyComposition_proofs!PresetsAreNested` | what `safety_first` approves `balanced` approves, and what that approves `best_yields` approves |
| `PolicyComposition_proofs!ApprovalsAreWithinLimits` | what the engine approves keeps every limit as the client wrote the request |
| `EngineLemmas!PassMeansWithinLimit` | the same for each of the twelve rules and any body |
| `PolicyComposition_proofs!BlocksHaveACause` | the converse: a body that is within every limit with a unit to spare, and overflows no decimal, is approved |
| `EngineLemmas!ClearlyWithinPasses` | the same for each of the twelve rules and any body |
| `ValidateService_proofs!ServiceImplementsGate` | every step of the service is a step of the abstract gate, or none |
| `ValidateService_proofs!StandingPoliciesHonoured` | an approval passes every rule of every policy that stood throughout the call |
| `ValidateService_proofs!SigningGuarded` | what entered the signing path had a rule and passed all of them |
| `ValidateService_proofs!GivenVerdictLogged` | a verdict told is logged with the same results, a signature comes with approvals only |
| `ValidateService_proofs!RecordsAreFinal` | policies change only by being deactivated for good, log rows never |
| `ValidateService_proofs!RefusalsHaveACause` | a call is blocked only without rules, or by a rule that its body does not clearly keep |
| `ValidateService_proofs!ExportAgrees` | of the counts exported for a call, all rules passed exactly if it was approved |
| `AgentSpend_proofs!TotalIsCounted` | an agent's total is the sum of the approvals it was told and could read, each once |
| `AgentSpend_proofs!SpendingImplementsLedger` | every step of tools and server is a step of the abstract ledger, or none |
| `AgentSpend_proofs!SessionSpendIsBounded` | any `n` agents, as the messages of a session are, with `k` approvals among them that they could not count, are told of at most `n + k` limits, and half a cent for each agent |
| `AgentSpend_proofs!AskedBudgetIsKept` | if the rules in force contain what `set_policy` built from a daily budget, what an agent is told passes the amount the user named by at most a cent, and by that much again for each approval it could not count |
| `AgentSpend_proofs!BudgetIsKept` | what an agent counts of its approvals stays within every daily limit up to half a cent, and all it is told within one limit more for each that it could not count, for any calls and losses |
| `BotSession_proofs!OneConversationInUse` | no conversation but the newest is in use |
| `BotSession_proofs!ResetClears` | what stood when `/reset` arrived is inactive when it reports |
| `BotSession_proofs!HistoryIsKept` | a closed conversation never changes, one in use loses messages from the front only and down to `Keep` only |
| `BotSession_proofs!EveryStepGetsOn` | every step of a handler lowers a variant: no update keeps it going for ever, for any bounds of the agent's loop |
| `SetPolicy_proofs!PassMeansWithinTold` | for any arguments and either agent: a body that passes the rules built from them keeps to the arguments as told, up to the rounding |
| `SetPolicy_proofs!ShownIsNear` | a body that keeps to a rule keeps to what `/policy` shows of it, to the per cent |
| `SharedPolicies_proofs!ServerUnaffected` | the composition implements the server's own specification, so that all theorems about the server hold of it |
| `SharedPolicies_proofs!SharedServerIsGate` | beside agents and resets the server implements the gate, honours standing policies, refuses for a cause only and exports what it decided |
| `SharedPolicies_proofs!ToldEnforced` | whatever a user had been told was set, and is not deleted, an approval keeps to, unless the bot announced it without the server's word and it was not stored when the call came |
| `SharedPolicies_proofs!ResetHonoured` | no call made after a confirmed reset is judged by a policy that it found |
| `SharedPolicies_proofs!ShownEnforced` | what `/policy` shows of a policy that stood throughout the call, an approval keeps to |
| `SharedPolicies_proofs!OwnPolicyJudgeable` | a policy an agent made never lacks evidence in a body that the same agent's other tool sends |
| `BotProcess_proofs!SessionOutlivesRestarts` | the three theorems on the session hold over crashes and restarts |
| `BotProcess_proofs!HandlersGetOnOverRestarts` | the variant, over crashes and restarts |
| `BotProcess_proofs!PromptIsNotHistory` | with one chat, a prompt and its history are exactly what is stored |
| `BotProcess_proofs!ReplyIsStored` | with one chat, a reply sent is stored after its prompt, and the conversation is within its bound |
| `BotProcess_proofs!IdentityOrigin` | the bot presents the configured id, whosever it is, or else the token that this start has registered; what was registered or logged is its own |
| `BotProcess_proofs!MintsAreOurDoing` | each token of the bot's was minted for one start, which had found no id |
| `TypeCorrect` in four modules, `SharedTypeCorrect` | the type invariants |

How they go:

* **Composition.** `EngineLemmas` reduces `Evaluate`: a list approves exactly if it
  is not empty and each rule passes. Adding a policy makes the set of rules grow,
  so passing can only get harder; removing it is the converse, as long as the
  list does not become empty (then the engine blocks). For the presets
  each rule of the looser one follows from one of the stricter. What a pass says of
  the body on the wire takes a lemma per kind of conversion. The two directions leave a
  gap, `WithinLimit` without `ClearlyWithin`, and its extent is the point: one unit
  (a 1/100000th) on either side of a limit that is compared with a float, a confidence
  outside 0 to 1, and an allow-list that is not in lower case.
* **Validate service.** None of the safety properties is inductive by itself. The
  inductive invariant has `TypeOK` and six parts: `Untouched` (what a
  call has not reached is empty), `Unlogged` (no row before the insertion),
  `StandingPolicies` (a policy in `standing` is an active policy of the caller:
  deletion removes it from both), `ApprovedLoaded` (an approval rests on `loaded`, all of
  whose rules pass, and which contains what stands), `Guarded` and
  `VerdictGivenIsLogged`. The argument that matters: at the moment the policies are
  read, what stands is among what is read; afterwards `standing` only shrinks and
  the rules of a policy never change.
* **The gate.** The refinement maps each action to a step of the gate: a verdict to
  `Decide`, the Lit Action to the use of the key, the insertion to the record, an
  answer to what is told; all others stutter. It needs the inductive invariant
  (the key is used only after an approval) and `Evaluated`: a call has a
  verdict exactly from its evaluation on.
* **`set_policy`.** A list of rules is a concatenation with one part per argument, so a
  body that passes all of them passes the part of each argument; what is left
  is arithmetic per argument: a rounding moves a limit by half a step at most.
* **Shared policies.** Each composed step is a step of `ValidateService` or leaves it
  alone, given that posts hold rules the server knows (`PostsOK`); so the server's
  invariant carries over. Five parts are added: `StoredAsPosted` (a row is
  what was posted, and what the server said to be stored is one), `ResetsProgress` (a reset's
  list, less what is to be done, is inactive, and so is what was cleared),
  `KnownIsTrue` (what a call's user had from the server stands for the call or has been
  deactivated since, what the bot only claimed may be anything; neither turns into the
  other; what was cleared is never loaded), `LoadedOnce` (a call loads
  rules once, for a body that converts; also what `RefusalsHaveACause` needs) and
  `LoadedFrom` (what judged a call are the
  rules of rows of its user, which never change). For `OwnPolicyIsJudgeable` the
  rules an agent's tool builds are typed by agent: the chaos agent's never read the
  reasoning.
* **Bot.** `OnlyNewestIsActive` is inductive given `TypeOK`: an insertion happens only
  when none is active, and appends. `ResetClears` needs where a reset stands: before
  it lists, every policy that stood is active or inactive; while it deletes, those
  that stood and are still active are in its `todo`; after that none is left.
  Policies only ever go from unused to active to inactive (`PoliciesOnward`), so a
  concurrent handler can only help. `HistoryIsKept` has a lemma per statement that
  writes conversations.
* **Bot's process.** A step of the process is a step of the handlers, leaves them
  alone, or ends them all; `Idle` handlers owe nothing, so the session's invariants
  survive. With one chat, `MessageInv` follows a message through its handler: once
  the prompt is stored it is the last message; from the moment the history is
  loaded, history and prompt are the conversation; after the loop the last two are
  the prompt and its reply; and trimming, which keeps at least two, keeps them.
  It needs `OnlyNewestIsActive` to speak of *the* conversation in use. With two
  chats it does not hold, which is what `fresh_start` is about.
* **Identity.** `IdentityInv`: a registration belongs to one of the starts so far,
  which found no id (`TokensAreRegistered`, both ways: a mined one has a token of
  the bot's, and each of those has exactly one); a start about to register has
  not yet (`StartIsFresh`); ids in the logs
  are the bot's, and the id in use is the one found in the environment or the token of
  the current start (`IdsHaveOrigins`). Nothing is assumed of the operator.
* **Spend.** The inductive invariant adds `ShownIsCurrent` (while a call holds the
  lock, what it told the server is its agent's total but for half a cent at most) and
  `ApprovedWithinLimit` (an approved call plus the shown total is within
  every limit). The total only changes when the holder is told, and then by the
  amount that was judged with it, or not at all: half a cent of rounding never adds up.
  An approval that is not counted is by itself within every limit, so it costs one
  limit at most (`CappedTotal`), and since it leaves the total alone, no more than that.
* **The ledger.** Only an approval that is told maps to a step, `Book` or `Miss`. Its guard
  is about the total at that moment, while the server looked at the one shown;
  `ShownIsCurrent` closes the gap, which is all that the lock is for.
* **Sums.** `Total` is a fold over a set, of which the library states no
  facts that these provers can instantiate. They are proved here: a least counterexample
  takes the place of induction (`MinimalSubset`: a set of subsets of a finite set
  has a minimal one, as being a smaller finite set is well-founded). So
  `TallyExists` and `TalliesAgree` (there is exactly one function that sums as the
  fold does) give `SumOf`, and `TotalWithOneMore` what an element adds. Then
  `LedgerInv` is inductive: a call that is counted enters its agent's sum once and its
  amount enters the total once. `SessionSpendIsBounded` adds the holders up the
  same way; as each may reach its limit, which `session_budget` shows, it cannot be
  improved upon.
* **The export.** Counts are cardinalities, so that the rules loaded have to be finite
  in number: each policy has a finite list, and finitely many policies are stored at
  any time (`Stored`, by one creation at a time), however many ids there are. Then
  the number of passes is that of all rules just if no rule did anything else.
* **The variant.** `HandlersGetOn` compares pairs: the place (`Distance`), and within a
  loop what is left of it (`LoopLeft`): policies to delete, or turns and calls. It is
  the part of `EndsOrHangsInOneCall` that is about safety: if every step leads
  down, a handler that does not end is one that takes no step. It needs `todo` to be
  finite (`FiniteWork`): it is a set of policies in use, and each step uses one at most.

## 7 What is only model-checked

* Liveness (`EndsOrHangsInOneCall`): temporal reasoning from
  fairness needs `ENABLED`, which is beyond the prover. What `EndsOrHangsInOneCall`
  rests on, that a handler's steps lead to its end, is proved (`EveryStepGetsOn`).
* The six violations of section 9: they are behaviours, which TLC exhibits.

Every invariant, action property and refinement that a passing run checks is also
a theorem.

## 8 Abstractions, and what is not modelled

* Amounts are natural numbers of whatever unit an instance picks. The share of a
  portfolio is compared by multiplication; the 28 digits to which the code rounds
  its quotient are left out. Of the notations that the server's decimals are read from, the agents' tool
  tells apart those that a float is read from as well (`plain`). NaN and infinities do not occur: JSON has none. A body that does not
  deserialize (axum's 422) never reaches the handler and changes nothing.
* The asset and the target address take part in no rule and are left out. The
  order of the flattened rules decides only the order of the results, which the
  model keeps as a function by policy and position.
* Reads and rejected writes (`GET /policies`, `/health`, a duplicate user, an
  invalid policy) change nothing and are not actions. The bot's `/policy`, `/help`
  and `/reputation` only read. Redelivery of updates by Telegram after a restart is
  left out: an aborted handler is not run again.
* Users share no rows, so one user in `BotSession` and no cross-user traffic there.
  In that module policies are created by the agents' tool only, while its handler
  waits; other clients and posts that take effect later are in `SharedPolicies`,
  where `/reset` works on policies only, in any order.
* Money in `SetPolicy` is in fractions of a cent, shares in whole per cents (the tool's
  arguments are integers), the score in thousandths; a value locked is in whole dollars, as
  rules compare it with nothing else, so that the rounding of `min_tvl` to cents
  (`telegram_bot.rs:449`) changes nothing: arguments with fractions of a cent are left
  out there.
* The identity's start ends with the menu of commands (`set_my_commands`); when that
  fails, the process ends as in `StopProcess`. While the bot is up it reads neither
  chain nor environment, so what happens to them then is left until it is
  down. That a key of somebody else's is configured with the id is left out.
  `/reputation` shows the transaction that registered one fixed token, whichever the
  bot's is.
* The total of `AgentSpend` is exact: the error of a sum of doubles is far below
  half a cent for any number of calls a process will make.
* The export reads the newest rows up to a limit and writes a file; which rows, their
  order and the file are left out.
* Not modelled: the other calls of `identity.rs` (`set_agent_uri`, `owner_of`,
  `authorize_feedback`, `give_feedback`, `get_reputation`), which have no caller or
  only print; key encryption (the algebra of a library cipher that the binaries do not
  use); the splitting of long replies for Telegram (`telegram_bot.rs:1311`: strings;
  the reply is stored before, and `SendReply` may fail); the health route (no
  state); logging and message texts; the model.
* `src/signing/lit.rs:216` returns the key's own address as signer, where
  `design-tradeoffs.md:62` says it is always `None`; no property depends on it.

Behaviours seen in the code for which there is no property: exposures sent by the
tools are the constant 0.00 (`telegram_bot.rs:273`), so a share per protocol bounds
one transaction and not their sum; the chaos agent reports a portfolio of
10000.00 (`chaos_agent.rs:157`) while its prompt speaks of $1,000 (`:544`); a policy
that another chat's agent sets after `/reset` listed them survives a reset that says
they "have been cleared" (`telegram_bot.rs:728`); chats of a user share a
conversation, where `003_agent_memory.sql:13` speaks of one per chat.

## 9 Disagreements between the code and what is said of it

Each has a run in which TLC finds the property violated by what the code does.

* **`score_at_floor`**: a score of 0.70 fails a floor of 0.70, as its double is
  below; `design-tradeoffs.md:65` calls the long decimals "cosmetic".
* **`unlogged`**: the key signs before the row is written; a failed insertion or a
  dropped handler leaves a signature without a row; `README.md:61` says every attempt
  is logged.
* **`hang`**: a network that accepts the request and never answers holds the
  handler for ever; `README.md:275` says the verdict still returns.
* **`false_success`**: the bot takes every result of `set_policy` that does not start
  with "POLICY ERROR" for a success, also a connection that broke and arguments that it
  could not read; `telegram_bot.rs:1202` then tells the user "Policy created
  successfully." of a policy that does not exist.
* **`fresh_start`**: the reply to a message sent before `/reset` lands in the
  conversation that `/reset` created: "Clear everything and start fresh".
* **`session_budget`**: two messages spend a daily budget twice;
  `design-tradeoffs.md:110` says tracking within a session is correct. What does hold
  is `SessionSpendIsBounded`: one limit per message.

## 10 Plan

Done, in the order of importance: engine and conversions; composition; validate
service and its refinement of the abstract gate; bot session; agents' spending;
`set_policy` and the shared table of policies; identity, and the process under the
session; the export; the proofs of section 6.

Left:

1. The session with two chats *and* a process: the theorems cover it, the runs have
   two chats without and one chat with restarts, for the number of states.
2. Reads of `/policy` that race with writers, as a reader of its own, once its answer
   is more than the rows of one statement.
