----------------------------- MODULE AgentSpend -----------------------------
(***************************************************************************)
(* The validate_transaction tool of the two agents: the Telegram bot's     *)
(* (src/src/bin/telegram_bot.rs), with a tool and a daily total of its own *)
(* for every message it handles, and the chaos agent's                     *)
(* (src/src/bin/chaos_agent.rs), with one for the life of the process.     *)
(*                                                                         *)
(* The policy engine keeps no books: whether a daily budget holds depends  *)
(* on the total the tool supplies.  The total is a float that the tool     *)
(* reads off the amount by itself, after the server has read it as a       *)
(* decimal: what one of them reads the other may not.                      *)
(***************************************************************************)
EXTENDS PolicyEngine, AgentTools, FiniteSetsExt

CONSTANTS
  Agents,       (* Holders of a total: messages handled, or a chaos agent. *)
  ChaosAgents,  (* Those of them that are chaos agents.                    *)
  Calls,        (* Bounds the tool calls ever made.                        *)
  ToolArgs,     (* What the model may call the tool with.                  *)
  Rules,        (* The rules of the user's active policies.                *)
  Audited       (* aave-v3 and moonwell                                    *)

ASSUME SpendAssumption ==
  /\ ChaosAgents \subseteq Agents
  /\ ToolArgs \subseteq [protocol : Protocols, action : Actions \union {UnknownAction},
                         amount : Nat, plain : BOOLEAN,
                         reasoning : Optional(ReasoningTrace)]
  /\ \A i \in DOMAIN Rules : Rules[i] \in PolicyRule
  /\ Audited \subseteq Protocols
  /\ None \notin Calls

VARIABLES
  call,         (* What each call was made with, and by whom.              *)
  pc,           (* Where it stands.                                        *)
  shown,        (* The daily spend it told the server.                     *)
  server,       (* What the server made of it.                             *)
  lock,         (* The call that holds an agent's total, or None.          *)
  spent         (* An agent's total.                                       *)

vars == << call, pc, shown, server, lock, spent >>

-----------------------------------------------------------------------------
(* The request a call makes, and the context that the tool makes up.       *)

Kind(a) == IF a \in ChaosAgents THEN "chaos" ELSE "bot"

Tx(c) == [protocol |-> call[c].protocol, action |-> call[c].action,
          amount |-> call[c].amount]

(* What is held, what it is worth and how a protocol does are constants of *)
(* the program; the chaos agent never sends its reasoning.  The value      *)
(* locked is in dollars: it meets no other amount.                         *)
Context(c) ==
  [portfolio        |-> PortfolioOf(Kind(call[c].agent)),
   protocolExposure |-> 0,
   assetExposure    |-> 0,
   dailySpend       |-> shown[c],
   audited          |-> Audited,
   riskScore        |-> FromF64Retain(90),
   utilization      |-> 5000,
   tvl              |-> 500000000,
   reasoning        |-> IF Kind(call[c].agent) = "chaos" THEN None
                        ELSE call[c].reasoning]

Init ==
  /\ call   = [c \in Calls |-> None]
  /\ pc     = [c \in Calls |-> "idle"]
  /\ shown  = [c \in Calls |-> 0]
  /\ server = [c \in Calls |-> "nothing"]
  /\ lock   = [a \in Agents |-> None]
  /\ spent  = [a \in Agents |-> 0]

-----------------------------------------------------------------------------
CallsOf(a) == {c \in Calls : pc[c] # "idle" /\ call[c].agent = a}

(* The model asks for the tool.  The bot's loop runs one call at a time,   *)
(* and so does the library that runs the chaos agent, unless it is told    *)
(* otherwise.                                                              *)
Start(c, a, args) ==
  /\ pc[c] = "idle"
  /\ \A d \in CallsOf(a) : pc[d] \in {"told", "failed"}
  /\ call' = [call EXCEPT ![c] =
                [agent |-> a, protocol |-> args.protocol, action |-> args.action,
                 amount |-> args.amount, plain |-> args.plain,
                 reasoning |-> args.reasoning]]
  /\ pc' = [pc EXCEPT ![c] = "waiting"]
  /\ UNCHANGED << shown, server, lock, spent >>

Available(a) == lock[a] = None

(* The total is locked and read and the request sent: no await in between. *)
Submit(c) ==
  /\ pc[c] = "waiting"
  /\ Available(call[c].agent)
  /\ call[c].action # UnknownAction
  /\ \E total \in RoundedToCent(spent[call[c].agent]) :
       shown' = [shown EXCEPT ![c] = total]
  /\ lock' = [lock EXCEPT ![call[c].agent] = c]
  /\ server' = [server EXCEPT ![c] = "asked"]
  /\ pc' = [pc EXCEPT ![c] = "submitted"]
  /\ UNCHANGED << call, spent >>

(* An action of the model's own making ends the call, under the lock.      *)
RejectAction(c) ==
  /\ pc[c] = "waiting"
  /\ Available(call[c].agent)
  /\ call[c].action = UnknownAction
  /\ pc' = [pc EXCEPT ![c] = "failed"]
  /\ UNCHANGED << call, shown, server, lock, spent >>

(* POST /validate, as far as it is of interest here.                       *)
Judge(c) ==
  /\ server[c] = "asked"
  /\ server' = [server EXCEPT ![c] = Evaluate(Rules, Tx(c), Context(c)).decision]
  /\ UNCHANGED << call, pc, shown, lock, spent >>

(* Fault: the total is replaced.                                           *)
SpentAfter_Replaced(c) ==
  [spent EXCEPT ![call[c].agent] = call[c].amount]

(* Fault: what was blocked counts too.                                     *)
SpentAfter_AnyVerdict(c) ==
  [spent EXCEPT ![call[c].agent] = @ + call[c].amount]

(* An approved amount counts if a float can be read off it.  The server    *)
(* reads more than that: "1_00.00" is a hundred dollars to Decimal and     *)
(* nothing to f64, and its approval is told all the same.                  *)
SpentAfter(c) ==
  [spent EXCEPT ![call[c].agent] =
     @ + (IF server[c] = "approved" /\ call[c].plain THEN call[c].amount ELSE 0)]

(* Fault: the guard is not released.                                       *)
Released_Kept(c) == lock

(* The guard is dropped at the end of the call, however it ends.           *)
Released(c) == [lock EXCEPT ![call[c].agent] = None]

Answer(c) ==
  /\ pc[c] = "submitted"
  /\ server[c] \in {"approved", "blocked"}
  /\ spent' = SpentAfter(c)
  /\ lock' = Released(c)
  /\ pc' = [pc EXCEPT ![c] = "told"]
  /\ UNCHANGED << call, shown, server >>

(* An error status, a connection that breaks, a body that does not parse:  *)
(* the tool reports an error, and the server may have approved all the     *)
(* same, or do so yet.                                                     *)
LoseAnswer(c) ==
  /\ pc[c] = "submitted"
  /\ lock' = Released(c)
  /\ pc' = [pc EXCEPT ![c] = "failed"]
  /\ UNCHANGED << call, shown, server, spent >>

Next ==
  \/ \E c \in Calls, a \in Agents, args \in ToolArgs : Start(c, a, args)
  \/ \E c \in Calls :
       Submit(c) \/ RejectAction(c) \/ Judge(c) \/ Answer(c) \/ LoseAnswer(c)

Spec == Init /\ [][Next]_vars

-----------------------------------------------------------------------------
(* Properties *)

Call == [agent : Agents, protocol : Protocols,
         action : Actions \union {UnknownAction}, amount : Nat, plain : BOOLEAN,
         reasoning : Optional(ReasoningTrace)]

TypeOK ==
  /\ call \in [Calls -> Optional(Call)]
  /\ pc \in [Calls -> {"idle", "waiting", "submitted", "told", "failed"}]
  /\ shown \in [Calls -> Nat]
  /\ server \in [Calls -> {"nothing", "asked", "approved", "blocked"}]
  /\ lock \in [Agents -> Optional(Calls)]
  /\ spent \in [Agents -> Nat]
  /\ \A c \in Calls : pc[c] # "idle" => call[c] \in Call
  /\ \A c \in Calls : pc[c] \in {"idle", "waiting"} => server[c] = "nothing"
  /\ \A c \in Calls, a \in Agents :
       lock[a] = c <=> pc[c] = "submitted" /\ call[c].agent = a

Total(cs) == MapThenSumSet(LAMBDA c : call[c].amount, cs)

(* The approvals that reached an agent, and those of them that it counted. *)
Told(a)      == {c \in CallsOf(a) : pc[c] = "told" /\ server[c] = "approved"}
Counted(a)   == {c \in Told(a) : call[c].plain}
Uncounted(a) == Told(a) \ Counted(a)

(* An agent's total is what the approvals that it could count add up to,   *)
(* each once, whatever calls were blocked or lost between them.            *)
TotalIsWhatWasCounted ==
  \A a \in Agents : spent[a] = Total(Counted(a))

(* What an agent is told it may spend keeps every daily limit, up to the   *)
(* half cent lost in rounding the total, as long as it can count what it   *)
(* is told; every approval that it cannot costs at most one limit more.    *)
BudgetHolds ==
  \A a \in Agents : \A i \in DOMAIN Rules :
    Rules[i].id = "MaxDailySpend" =>
      /\ Counted(a) # {} => 2 * Total(Counted(a)) <= 2 * Rules[i].limit + Cent
      /\ Told(a) # {} =>
           2 * Total(Told(a))
             <= (1 + Cardinality(Uncounted(a))) * (2 * Rules[i].limit) + Cent

IsApproval(c) == pc[c] = "told" /\ server[c] = "approved"

(* The tool, its lock and the server between them keep an abstract ledger: *)
(* to look at every limit and to book what it allows, or to miss it for    *)
(* good, appear as one step, whatever answers are lost.                    *)
Ledger == INSTANCE BudgetLedger WITH
  booked  <- {c \in Calls : IsApproval(c) /\ call[c].plain},
  missed  <- {c \in Calls : IsApproval(c) /\ ~ call[c].plain},
  Amounts <- {args.amount : args \in ToolArgs},
  Limits  <- {Rules[i].limit :
                i \in {j \in DOMAIN Rules : Rules[j].id = "MaxDailySpend"}},
  Slack   <- Cent

ImplementsLedger == Ledger!Spec

(* A user who sends several messages in one session sees correct           *)
(* cumulative tracking (design-tradeoffs.md:110).  Does not hold, of       *)
(* amounts that every message counts: each starts from a total of zero.    *)
SessionWithinBudget ==
  \A i \in DOMAIN Rules :
    Rules[i].id = "MaxDailySpend" =>
      LET counted == {c \in Calls : /\ IsApproval(c) /\ call[c].plain
                                   /\ Kind(call[c].agent) = "bot"}
      IN  2 * Total(counted) <= 2 * Rules[i].limit + Cent

=============================================================================
