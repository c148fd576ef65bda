--------------------------- MODULE SharedPolicies ---------------------------
(***************************************************************************)
(* The agents and the API server over one table of policies: the set_policy*)
(* tool of either agent posts a policy and may lose the answer (which the  *)
(* bot takes for a success), the bot's /reset deactivates the policies of  *)
(* its user one by one, other clients post and delete as they like, and    *)
(* validate calls are judged meanwhile.                                    *)
(***************************************************************************)
EXTENDS ValidateService, SetPolicy

CONSTANTS
  Chats,        (* The chats of the bot: a user may have several.          *)
  ToolArgs,     (* The arguments set_policy may be called with.            *)
  HandWritten   (* The rule lists that other clients post.                 *)

(* What the tool of either agent may post.                                 *)
ToolLists ==
  UNION {BuiltRules(args, "bot") \union BuiltRules(args, "chaos") : args \in ToolArgs}

ASSUME SharedAssumption ==
  /\ ToolArgs \subseteq SetPolicyArgs
  /\ HandWritten \subseteq RuleLists
  /\ \A args \in ToolArgs, kind \in AgentKinds :
       ~ Refuses(args) =>
         \A l \in BuiltRules(args, kind) : Deserializable(l) => l \in RuleLists
  /\ None \notin [user : Users, args : ToolArgs,
                  rules : ToolLists,
                  server : {"sent", "stored", "refused"},
                  tool   : {"waiting", "told", "claimed", "failed"}]
  /\ None \notin [user : Users, found : SUBSET PolicyIds, todo : SUBSET PolicyIds]

VARIABLES
  chaosUsers,   (* The users of the chaos agent; the bot has the others.   *)
  posts,        (* The set_policy call that asks for a policy, if one does,*)
                (* by the id the policy has or will have.                  *)
  reset,        (* The /reset that runs in a chat: its user, the policies  *)
                (* it found active, and those of them still to be          *)
                (* deactivated.                                            *)
  cleared,      (* History: the policies a confirmed reset found.          *)
  known         (* History: the policies a call's user had been told were  *)
                (* set, or cleared, when the call was made.                *)

shared     == << chaosUsers, posts, reset, cleared, known >>
sharedVars == << vars, shared >>

Agent(u) == IF u \in chaosUsers THEN "chaos" ELSE "bot"

ToolMade(p) == posts[p] # None

-----------------------------------------------------------------------------
SharedInit ==
  /\ Init
  /\ chaosUsers \in SUBSET Users
  /\ posts   = [p \in PolicyIds |-> None]
  /\ reset   = [ch \in Chats |-> None]
  /\ cleared = {}
  /\ known   = [c \in Calls |-> [told |-> {}, cleared |-> {}]]

-----------------------------------------------------------------------------
(* The tool and its POST *)

(* A call of the tool for a policy that is not there yet, with the rules   *)
(* that stand for its arguments.                                           *)
ToolCall(p, u, args, server, tool) ==
  /\ policies[p] = None /\ posts[p] = None
  /\ ~ Refuses(args)
  /\ \E rules \in BuiltRules(args, Agent(u)) :
       posts' = [posts EXCEPT ![p] = [user |-> u, args |-> args, rules |-> rules,
                                      server |-> server, tool |-> tool]]
  /\ UNCHANGED << vars, chaosUsers, reset, cleared, known >>

(* The arguments are checked and the rules posted.                         *)
CallSetPolicy(p, u, args) == ToolCall(p, u, args, "sent", "waiting")

(* The arguments do not deserialize and nothing is posted, but the bot     *)
(* announces a success: see ToolBreaks.                                    *)
MisreadArguments(p, u, args) ==
  /\ Agent(u) = "bot"
  /\ ToolCall(p, u, args, "refused", "claimed")

(* The server stores what it can read.  It may do so when the tool no      *)
(* longer waits: the user has seen the call fail, or reset everything.     *)
StorePolicy(p) ==
  /\ ToolMade(p) /\ posts[p].server = "sent"
  /\ Deserializable(posts[p].rules)
  /\ CreatePolicy(p, posts[p].user, posts[p].rules)
  /\ posts' = [posts EXCEPT ![p].server = "stored"]
  /\ UNCHANGED << chaosUsers, reset, cleared, known >>

(* Unreadable rules, an unknown user, a failed query, a lost request.      *)
RefusePolicy(p) ==
  /\ ToolMade(p) /\ posts[p].server = "sent"
  /\ posts' = [posts EXCEPT ![p].server = "refused"]
  /\ UNCHANGED << vars, chaosUsers, reset, cleared, known >>

(* Fault: the status of the answer is not looked at.                       *)
ToolTold_AnyStatus(p) ==
  /\ ToolMade(p) /\ posts[p].server # "sent" /\ posts[p].tool = "waiting"
  /\ posts' = [posts EXCEPT ![p].tool = "told"]
  /\ UNCHANGED << vars, chaosUsers, reset, cleared, known >>

(* 201 Created: the user is told what has been set.                        *)
ToolTold(p) ==
  /\ ToolMade(p) /\ posts[p].server = "stored" /\ posts[p].tool = "waiting"
  /\ posts' = [posts EXCEPT ![p].tool = "told"]
  /\ UNCHANGED << vars, chaosUsers, reset, cleared, known >>

(* A broken connection, whatever becomes of the post: the bot's tool ends  *)
(* in "Tool error", and what does not start with "POLICY ERROR" the bot    *)
(* announces as "Policy created successfully."                             *)
ToolBreaks(p) ==
  /\ ToolMade(p) /\ posts[p].tool = "waiting"
  /\ Agent(posts[p].user) = "bot"
  /\ posts' = [posts EXCEPT ![p].tool = "claimed"]
  /\ UNCHANGED << vars, chaosUsers, reset, cleared, known >>

(* Nothing is announced: the server answered with another status, the      *)
(* connection of the chaos agent breaks, or the agent's process ends.      *)
ToolFails(p) ==
  /\ ToolMade(p) /\ posts[p].tool = "waiting"
  /\ posts' = [posts EXCEPT ![p].tool = "failed"]
  /\ UNCHANGED << vars, chaosUsers, reset, cleared, known >>

-----------------------------------------------------------------------------
(* /reset, of the bot, which works on the database itself                  *)

FindForReset(ch, u) ==
  /\ u \in users /\ Agent(u) = "bot" /\ reset[ch] = None
  /\ reset' = [reset EXCEPT ![ch] = [user  |-> u,
                                     found |-> ActivePoliciesOf(u),
                                     todo  |-> ActivePoliciesOf(u)]]
  /\ UNCHANGED << vars, chaosUsers, posts, cleared, known >>

(* The code takes them oldest first; here the order is free.               *)
DeactivateForReset(ch, p) ==
  /\ reset[ch] # None /\ p \in reset[ch].todo
  /\ DeletePolicy(p)
  /\ reset' = [reset EXCEPT ![ch].todo = @ \ {p}]
  /\ UNCHANGED << chaosUsers, posts, cleared, known >>

(* "Your policies and conversation history have been cleared."             *)
ConfirmReset(ch) ==
  /\ reset[ch] # None /\ reset[ch].todo = {}
  /\ cleared' = cleared \union reset[ch].found
  /\ reset' = [reset EXCEPT ![ch] = None]
  /\ UNCHANGED << vars, chaosUsers, posts, known >>

(* A query fails or the bot stops: what is done stays done.                *)
AbortReset(ch) ==
  /\ reset[ch] # None
  /\ reset' = [reset EXCEPT ![ch] = None]
  /\ UNCHANGED << vars, chaosUsers, posts, cleared, known >>

-----------------------------------------------------------------------------
(* The rest of the server *)

(* Other clients than the agents.                                          *)
PostPolicy(p, u, rules) ==
  /\ posts[p] = None
  /\ CreatePolicy(p, u, rules)
  /\ UNCHANGED shared

(* The policies whose success has been announced to a user.                *)
AnnouncedTo(u) ==
  {p \in PolicyIds : /\ ToolMade(p)
                     /\ posts[p].user = u
                     /\ posts[p].tool \in {"told", "claimed"}}

Ask(c, u, body) ==
  /\ Receive(c, u, body)
  /\ known' = [known EXCEPT ![c] = [told |-> AnnouncedTo(u), cleared |-> cleared]]
  /\ UNCHANGED << chaosUsers, posts, reset, cleared >>

SharedNext ==
  \/ \E p \in PolicyIds, u \in Users, args \in ToolArgs :
       CallSetPolicy(p, u, args) \/ MisreadArguments(p, u, args)
  \/ \E p \in PolicyIds :
       \/ StorePolicy(p) \/ RefusePolicy(p)
       \/ ToolTold(p)    \/ ToolBreaks(p)   \/ ToolFails(p)
  \/ \E ch \in Chats :
       \/ \E u \in Users : FindForReset(ch, u)
       \/ \E p \in PolicyIds : DeactivateForReset(ch, p)
       \/ ConfirmReset(ch) \/ AbortReset(ch)
  \/ \E p \in PolicyIds, u \in Users, rules \in HandWritten : PostPolicy(p, u, rules)
  \/ \E c \in Calls, u \in Users, body \in Wires : Ask(c, u, body)
  \/ /\ \/ \E u \in Users : CreateUser(u)
        \/ \E p \in PolicyIds : DeletePolicy(p)
        \/ \E c \in Calls : Handle(c) \/ RunLitAction(c) \/ Abandon(c)
     /\ UNCHANGED shared

SharedSpec == SharedInit /\ [][SharedNext]_sharedVars

-----------------------------------------------------------------------------
(* Properties *)

Post == [user   : Users,
         args   : {args \in ToolArgs : ~ Refuses(args)},
         rules  : ToolLists,
         server : {"sent", "stored", "refused"},
         tool   : {"waiting", "told", "claimed", "failed"}]

Reset == [user : Users, found : SUBSET PolicyIds, todo : SUBSET PolicyIds]

(* A post holds the rules that its agent makes of its arguments, the row   *)
(* holds what was posted, and the server's own word of success, unlike the *)
(* bot's, is given only of a row.                                          *)
SharedTypeOK ==
  /\ chaosUsers \subseteq Users
  /\ posts \in [PolicyIds -> Optional(Post)]
  /\ reset \in [Chats -> Optional(Reset)]
  /\ cleared \subseteq PolicyIds
  /\ known \in [Calls -> [told : SUBSET PolicyIds, cleared : SUBSET PolicyIds]]
  /\ \A p \in PolicyIds : ToolMade(p) =>
       /\ posts[p].rules \in BuiltRules(posts[p].args, Agent(posts[p].user))
       /\ posts[p].server = "stored" =>
            /\ policies[p] # None
            /\ policies[p].user = posts[p].user
            /\ policies[p].rules = posts[p].rules
       /\ posts[p].server # "stored" => policies[p] = None
       /\ posts[p].tool = "told" => posts[p].server = "stored"

IsApproved(c) == verdict[c] # None /\ verdict[c].decision = "approved"

(* Of every policy whose success had been announced to its user when a     *)
(* call was made, and that is not deleted since, an approval keeps to what *)
(* was asked for (for the bot that includes that the agent has reasoned),  *)
(* also when the announcement rests on no answer.  Only one that the       *)
(* server had not stored by then, so that its success was claimed of       *)
(* nothing, binds no approval.                                             *)
ToldIsEnforced ==
  \A c \in Calls : IsApproved(c) =>
    \A p \in known[c].told :
      \/ policies[p] # None /\ ~ policies[p].active
      \/ posts[p].tool = "claimed" /\ p \notin standing[c]
      \/ /\ WithinTold(posts[p].args, request[c].body)
         /\ Agent(request[c].user) = "bot" => Reasoned(request[c].body)

(* "Policy created successfully." (telegram_bot.rs:1202): whoever is told  *)
(* so has the policy.  Does not hold: the bot says it of every result that *)
(* does not start with "POLICY ERROR", among them a connection that broke  *)
(* and arguments it could not read.                                        *)
SuccessMeansCreated ==
  \A u \in Users : \A p \in AnnouncedTo(u) : policies[p] # None

(* Is this a body that the validate tool of the user's agent sends?        *)
SentByTool(u, w) ==
  /\ w.portfolio = PortfolioOf(Agent(u))
  /\ w.riskScore # None /\ w.utilization # None /\ w.tvl # None
  /\ IF Agent(u) = "bot" THEN w.reasoning # None ELSE w.reasoning = None

(* The two tools of an agent go together: a policy made by one never asks  *)
(* for evidence that the other does not send (as long as the bot's model   *)
(* gives its reasoning, as it is told to).                                 *)
OwnPolicyIsJudgeable ==
  \A c \in Calls :
    verdict[c] # None /\ SentByTool(request[c].user, request[c].body) =>
      \A p \in DOMAIN loaded[c] : ToolMade(p) =>
        \A i \in DOMAIN loaded[c][p] :
          Outcome(loaded[c][p][i], Tx(c), Context(c)) # "indeterminate"

(* What a confirmed reset found is out of force for good: no call made     *)
(* afterwards is judged by it, or approved on its strength.                *)
ResetIsHonoured ==
  \A c \in Calls : loaded[c] # None => DOMAIN loaded[c] \cap known[c].cleared = {}

(* What /policy shows of a policy is what it enforces: to the basis point  *)
(* for a policy that an agent made, to the per cent for any other.         *)
ShownIsEnforced ==
  \A c \in Calls : IsApproved(c) =>
    \A p \in standing[c] : \A i \in DOMAIN policies[p].rules :
      WithinLimit(AsShown(policies[p].rules[i], IF ToolMade(p) THEN 0 ELSE 99),
                  request[c].body)

=============================================================================
