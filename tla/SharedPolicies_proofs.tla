----------------------- MODULE SharedPolicies_proofs -----------------------
(***************************************************************************)
(* The agents' policies over the server, for any number of users, policies *)
(* and calls, any arguments of set_policy and any requests.                *)
(***************************************************************************)
EXTENDS SharedPolicies, ValidateService_proofs, SetPolicy_proofs

USE DEF database, call, Optional

-----------------------------------------------------------------------------
(* The server, in the company of the agents, takes the server's steps.     *)

PostsOK ==
  /\ chaosUsers \subseteq Users
  /\ posts \in [PolicyIds -> Optional(Post)]
  /\ \A p \in PolicyIds : ToolMade(p) =>
       posts[p].rules \in BuiltRules(posts[p].args, Agent(posts[p].user))

LEMMA PostsKept ==
  ASSUME PostsOK, [SharedNext]_sharedVars
  PROVE  PostsOK'
<1>1. ASSUME UNCHANGED << posts, chaosUsers >>
      PROVE  PostsOK'
  BY <1>1 DEF PostsOK, ToolMade, Agent
<1>2. ASSUME NEW p \in PolicyIds, NEW u \in Users, NEW args \in ToolArgs,
             NEW server \in {"sent", "refused"}, NEW tool \in {"waiting", "claimed"},
             ToolCall(p, u, args, server, tool)
      PROVE  PostsOK'
  <2>1. PICK rules \in BuiltRules(args, Agent(u)) :
          posts' = [posts EXCEPT ![p] = [user |-> u, args |-> args, rules |-> rules,
                                         server |-> server, tool |-> tool]]
    BY <1>2 DEF ToolCall
  <2>2. rules \in ToolLists
    BY DEF ToolLists, Agent
  <2>3. posts'[p] \in Post /\ posts' \in [PolicyIds -> Optional(Post)]
    BY <1>2, <2>1, <2>2 DEF PostsOK, Post, ToolCall
  <2>4. chaosUsers' = chaosUsers
    BY <1>2 DEF ToolCall
  <2>5. posts'[p].user = u /\ posts'[p].args = args /\ posts'[p].rules = rules
    BY <2>1 DEF PostsOK
  <2>6. \A q \in PolicyIds : q # p => posts'[q] = posts[q]
    BY <2>1 DEF PostsOK
  <2> QED
    BY <2>3, <2>4, <2>5, <2>6 DEF PostsOK, ToolMade, Agent
<1>3. ASSUME NEW p \in PolicyIds,
             \/ StorePolicy(p) \/ RefusePolicy(p)
             \/ ToolTold(p) \/ ToolBreaks(p) \/ ToolFails(p)
      PROVE  PostsOK'
  <2>1. /\ ToolMade(p) /\ chaosUsers' = chaosUsers
        /\ \/ \E s \in {"stored", "refused"} : posts' = [posts EXCEPT ![p].server = s]
           \/ \E t \in {"told", "claimed", "failed"} : posts' = [posts EXCEPT ![p].tool = t]
    BY <1>3 DEF StorePolicy, RefusePolicy, ToolTold, ToolBreaks, ToolFails
  <2>2. posts[p] \in Post
    BY <2>1 DEF PostsOK, ToolMade
  <2>3. /\ posts'[p] \in Post
        /\ posts'[p].user = posts[p].user /\ posts'[p].args = posts[p].args
        /\ posts'[p].rules = posts[p].rules
        /\ \A q \in PolicyIds : q # p => posts'[q] = posts[q]
        /\ posts' \in [PolicyIds -> Optional(Post)]
    BY <2>1, <2>2 DEF PostsOK, Post
  <2> QED
    BY <2>1, <2>3 DEF PostsOK, ToolMade, Agent
<1>4. CASE \E ch \in Chats :
             \/ \E u \in Users : FindForReset(ch, u)
             \/ \E p \in PolicyIds : DeactivateForReset(ch, p)
             \/ ConfirmReset(ch) \/ AbortReset(ch)
  BY <1>1, <1>4 DEF FindForReset, ConfirmReset, AbortReset, DeactivateForReset
<1>5. CASE \/ \E p \in PolicyIds, u \in Users, rules \in HandWritten : PostPolicy(p, u, rules)
           \/ \E c \in Calls, u \in Users, body \in Wires : Ask(c, u, body)
           \/ UNCHANGED shared
           \/ UNCHANGED sharedVars
  BY <1>1, <1>5 DEF PostPolicy, Ask, shared, sharedVars
<1> QED
  BY <1>2, <1>3, <1>4, <1>5 DEF SharedNext, CallSetPolicy, MisreadArguments

LEMMA StoredIsReadable ==
  ASSUME PostsOK, NEW p \in PolicyIds, StorePolicy(p)
  PROVE  posts[p].rules \in RuleLists /\ posts[p].user \in Users
<1>1. posts[p] \in Post
  BY DEF PostsOK, StorePolicy, ToolMade
<1>2. /\ posts[p].args \in ToolArgs /\ ~ Refuses(posts[p].args)
      /\ Agent(posts[p].user) \in AgentKinds
      /\ posts[p].rules \in BuiltRules(posts[p].args, Agent(posts[p].user))
      /\ Deserializable(posts[p].rules)
  BY <1>1 DEF PostsOK, Post, StorePolicy, Agent, AgentKinds
<1> QED
  BY <1>1, <1>2, SharedAssumption DEF Post

LEMMA SharedStep ==
  ASSUME PostsOK, [SharedNext]_sharedVars
  PROVE  [Next]_vars
<1>1. ASSUME NEW p \in PolicyIds, StorePolicy(p)
      PROVE  Next
  <2>1. CreatePolicy(p, posts[p].user, posts[p].rules)
    BY <1>1 DEF StorePolicy
  <2> QED
    BY <1>1, <2>1, StoredIsReadable DEF Next
<1>2. ASSUME NEW ch \in Chats,
             (\E u \in Users : FindForReset(ch, u)) \/ ConfirmReset(ch) \/ AbortReset(ch)
      PROVE  UNCHANGED vars
  BY <1>2 DEF FindForReset, ConfirmReset, AbortReset
<1>3. ASSUME NEW p \in PolicyIds, NEW ch \in Chats, DeactivateForReset(ch, p)
      PROVE  Next
  BY <1>3 DEF DeactivateForReset, Next
<1>4. ASSUME NEW p \in PolicyIds, NEW u \in Users, NEW rules \in HandWritten,
             PostPolicy(p, u, rules)
      PROVE  Next
  BY <1>4, SharedAssumption DEF PostPolicy, Next
<1>5. ASSUME NEW c \in Calls, NEW u \in Users, NEW body \in Wires, Ask(c, u, body)
      PROVE  Next
  BY <1>5 DEF Ask, Next
<1>6. ASSUME UNCHANGED sharedVars
      PROVE  UNCHANGED vars
  BY <1>6 DEF sharedVars
<1>7. ASSUME NEW p \in PolicyIds,
             \/ \E u \in Users, args \in ToolArgs :
                  CallSetPolicy(p, u, args) \/ MisreadArguments(p, u, args)
             \/ RefusePolicy(p) \/ ToolTold(p) \/ ToolBreaks(p) \/ ToolFails(p)
      PROVE  UNCHANGED vars
  BY <1>7 DEF CallSetPolicy, MisreadArguments, ToolCall, RefusePolicy,
              ToolTold, ToolBreaks, ToolFails
<1> QED
  BY <1>1, <1>2, <1>3, <1>4, <1>5, <1>6, <1>7 DEF SharedNext, Next

LEMMA PostsInvariance == SharedSpec => []PostsOK
<1>1. SharedInit => PostsOK
  BY DEF SharedInit, PostsOK, ToolMade
<1> QED
  BY <1>1, PostsKept, PTL DEF SharedSpec

(* Agents, tools and resets make the server take no step it does not take  *)
(* for other clients: all that is proved of the server holds beside them.  *)
THEOREM ServerUnaffected == SharedSpec => Spec
<1>1. SharedInit => Init
  BY DEF SharedInit
<1> QED
  BY <1>1, SharedStep, PostsInvariance, PTL DEF SharedSpec, Spec

(* Beside agents and resets the server is still the gate of ValidationGate,*)
(* an approval honours the policies that stand, set by tool or by hand, a  *)
(* refusal has a cause, and the export of the log tells what was decided.  *)
THEOREM SharedServerIsGate ==
  SharedSpec => /\ ImplementsGate
                /\ []ApprovalHonoursStandingPolicies
                /\ []RefusedForCause
                /\ []ExportTellsTheVerdict
  BY ServerUnaffected, ServiceImplementsGate, StandingPoliciesHonoured,
     RefusalsHaveACause, ExportAgrees, PTL

-----------------------------------------------------------------------------
(* More of what the server keeps to.                                       *)

(* What a call loads is active at that moment.                             *)
LEMMA LoadsActive ==
  ASSUME TypeOK, [Next]_vars, NEW c \in Calls
  PROVE  \/ loaded'[c] = loaded[c]
         \/ /\ pc[c] = "loading"
            /\ \A p \in DOMAIN loaded'[c] : policies[p] # None /\ policies[p].active
<1>1. ASSUME NEW d \in Calls, LoadAndEvaluate(d)
      PROVE  \/ loaded'[c] = loaded[c]
             \/ /\ pc[c] = "loading"
                /\ \A p \in DOMAIN loaded'[c] : policies[p] # None /\ policies[p].active
  BY <1>1 DEF TypeOK, LoadAndEvaluate, SelectedPolicies, ActivePoliciesOf
<1>2. CASE UNCHANGED loaded
  BY <1>2
<1> QED
  BY <1>1, <1>2 DEF Next, Handle, vars, CreateUser, CreatePolicy, DeletePolicy, Receive,
       FindUser, SigningAnswered, SigningFailed, LogAndReply, LogAndLose, QueryFails,
       RunLitAction, Abandon

(* A call under way keeps its request, and its standing policies unless    *)
(* they are deactivated.                                                   *)
LEMMA StandsUnlessDeactivated ==
  ASSUME TypeOK, [Next]_vars, NEW c \in Calls, pc[c] # "idle"
  PROVE  /\ pc'[c] # "idle"
         /\ request'[c] = request[c]
         /\ \A p \in standing[c] : p \in standing'[c] \/ ~ policies'[p].active
<1>1. ASSUME NEW d \in Calls, NEW u \in Users, NEW body \in Wires, Receive(d, u, body)
      PROVE  pc'[c] = pc[c] /\ request'[c] = request[c] /\ standing'[c] = standing[c]
  BY <1>1 DEF TypeOK, Receive, Goto, Answer
<1>2. ASSUME NEW q \in PolicyIds, DeletePolicy(q)
      PROVE  /\ pc'[c] = pc[c] /\ request'[c] = request[c]
             /\ \A p \in standing[c] : p \in standing'[c] \/ ~ policies'[p].active
  <2>1. policies[q] \in PolicyRow /\ policies' = [policies EXCEPT ![q] = Deactivated(@)]
    BY <1>2 DEF TypeOK, DeletePolicy
  <2>2. policies'[q].active = FALSE
    BY <2>1 DEF TypeOK, Deactivated, PolicyRow
  <2> QED
    BY <1>2, <2>2 DEF DeletePolicy
<1>3. ASSUME NEW d \in Calls, Handle(d) \/ RunLitAction(d) \/ Abandon(d)
      PROVE  pc'[c] # "idle" /\ UNCHANGED << request, standing >>
  BY <1>3 DEF TypeOK, Handle, FindUser, LoadAndEvaluate, SigningAnswered, SigningFailed,
              LogAndReply, LogAndLose, QueryFails, RunLitAction, Abandon, Goto, Answer
<1>4. CASE UNCHANGED << pc, request, standing >>
  BY <1>4
<1> QED
  BY <1>1, <1>2, <1>3, <1>4 DEF Next, vars, CreateUser, CreatePolicy

-----------------------------------------------------------------------------
(* A verdict comes of rules that rows of the call's user hold.             *)
LoadedFrom ==
  \A c \in Calls :
    verdict[c] # None =>
      \A p \in DOMAIN loaded[c] :
        /\ p \in PolicyIds /\ policies[p] # None
        /\ policies[p].user = request[c].user
        /\ policies[p].rules = loaded[c][p]

LEMMA LoadedFromStep ==
  ASSUME TypeOK, LoadedOnce, LoadedFrom, [Next]_vars, [RecordsKept]_vars
  PROVE  LoadedFrom'
<1>1. ASSUME NEW c \in Calls, loaded'[c] = loaded[c], verdict'[c] = verdict[c],
             verdict[c] # None => request'[c] = request[c]
      PROVE  verdict'[c] # None =>
               \A p \in DOMAIN loaded'[c] :
                 /\ p \in PolicyIds /\ policies'[p] # None
                 /\ policies'[p].user = request'[c].user
                 /\ policies'[p].rules = loaded'[c][p]
  <2>1. ASSUME NEW p \in PolicyIds, policies[p] # None
        PROVE  /\ policies'[p] # None
               /\ policies'[p].user = policies[p].user
               /\ policies'[p].rules = policies[p].rules
    BY <2>1 DEF RecordsKept, vars
  <2> QED
    BY <1>1, <2>1 DEF LoadedFrom
<1>2. ASSUME NEW d \in Calls, NEW u \in Users, NEW body \in Wires, Receive(d, u, body)
      PROVE  LoadedFrom'
  <2>1. /\ UNCHANGED << loaded, verdict >>
        /\ \A c \in Calls : c # d => request'[c] = request[c]
        /\ verdict[d] = None
    BY <1>2 DEF TypeOK, LoadedOnce, Receive
  <2> QED
    BY <1>1, <2>1 DEF LoadedFrom
<1>3. ASSUME NEW d \in Calls, LoadAndEvaluate(d)
      PROVE  LoadedFrom'
  <2> DEFINE rows  == ActivePoliciesOf(request[d].user)
             lists == [p \in rows |-> policies[p].rules]
  <2>1. /\ request' = request /\ policies' = policies
        /\ \A c \in Calls : c # d => loaded'[c] = loaded[c] /\ verdict'[c] = verdict[c]
        /\ \/ loaded'[d] = loaded[d] /\ verdict'[d] = verdict[d]
           \/ loaded'[d] = lists
    BY <1>3 DEF TypeOK, LoadAndEvaluate, SelectedPolicies
  <2>2. ASSUME loaded'[d] = lists
        PROVE  \A p \in DOMAIN loaded'[d] :
                 /\ p \in PolicyIds /\ policies'[p] # None
                 /\ policies'[p].user = request'[d].user
                 /\ policies'[p].rules = loaded'[d][p]
    BY <2>1, <2>2 DEF ActivePoliciesOf
  <2> HIDE DEF lists, rows
  <2> QED
    BY <1>1, <2>1, <2>2 DEF LoadedFrom
<1>4. ASSUME UNCHANGED << request, loaded, verdict >>
      PROVE  LoadedFrom'
  BY <1>1, <1>4 DEF LoadedFrom
<1>5. ASSUME NEW c \in Calls,
             \/ FindUser(c) \/ SigningAnswered(c) \/ SigningFailed(c)
             \/ LogAndReply(c) \/ LogAndLose(c) \/ QueryFails(c) \/ Abandon(c)
             \/ RunLitAction(c)
      PROVE  LoadedFrom'
  BY <1>4, <1>5 DEF FindUser, SigningAnswered, SigningFailed, LogAndReply, LogAndLose,
                    QueryFails, Abandon, RunLitAction, call
<1> QED
  BY <1>2, <1>3, <1>4, <1>5 DEF Next, Handle, CreateUser, CreatePolicy, DeletePolicy, vars

-----------------------------------------------------------------------------
(* The inductive invariant of the composition.                             *)

StoredAsPosted ==
  \A p \in PolicyIds : ToolMade(p) =>
    /\ posts[p].server = "stored" =>
         /\ policies[p] # None
         /\ policies[p].user = posts[p].user
         /\ policies[p].rules = posts[p].rules
    /\ posts[p].server # "stored" => policies[p] = None
    /\ posts[p].tool = "told" => posts[p].server = "stored"

Inactive(p) == policies[p] # None /\ ~ policies[p].active

(* A reset has deactivated what it found and has not still to do.          *)
ResetsProgress ==
  /\ reset \in [Chats -> Optional(Reset)]
  /\ cleared \subseteq PolicyIds
  /\ \A ch \in Chats : reset[ch] # None =>
       \A p \in reset[ch].found \ reset[ch].todo : Inactive(p)
  /\ \A p \in cleared : Inactive(p)

(* What a user had been told of when a call was made: what the server said *)
(* to be stored stands for the call, what the bot claimed may not exist.   *)
KnownIsTrue ==
  /\ known \in [Calls -> [told : SUBSET PolicyIds, cleared : SUBSET PolicyIds]]
  /\ \A c \in Calls :
       /\ known[c].cleared \subseteq cleared
       /\ pc[c] = "idle" => known[c].told = {}
       /\ \A p \in known[c].told :
            /\ ToolMade(p)
            /\ posts[p].user = request[c].user
            /\ \/ posts[p].tool = "claimed"
               \/ /\ posts[p].tool = "told"
                  /\ policies[p].active => p \in standing[c]
       /\ loaded[c] # None => DOMAIN loaded[c] \cap known[c].cleared = {}

AgentsInv ==
  StoredAsPosted /\ ResetsProgress /\ KnownIsTrue /\ LoadedOnce /\ LoadedFrom

(* What AgentsInv is inductive relative to.                                *)
Context0 == TypeOK /\ PostsOK /\ AgentsInv /\ [SharedNext]_sharedVars
              /\ [RecordsKept]_vars

LEMMA RowsKept ==
  ASSUME [RecordsKept]_vars, NEW p \in PolicyIds, policies[p] # None
  PROVE  /\ policies'[p] # None
         /\ policies'[p].user = policies[p].user
         /\ policies'[p].rules = policies[p].rules
         /\ policies'[p].active => policies[p].active
  BY DEF RecordsKept, vars

LEMMA StoredAsPostedStep ==
  ASSUME Context0
  PROVE  StoredAsPosted'
<1> USE DEF Context0, AgentsInv
<1>1. ASSUME NEW p \in PolicyIds, posts'[p] = posts[p],
             policies'[p] = policies[p] \/ policies[p] # None, ToolMade(p)'
      PROVE  /\ posts'[p].server = "stored" =>
                  /\ policies'[p] # None
                  /\ policies'[p].user = posts'[p].user
                  /\ policies'[p].rules = posts'[p].rules
             /\ posts'[p].server # "stored" => policies'[p] = None
             /\ posts'[p].tool = "told" => posts'[p].server = "stored"
  BY <1>1, RowsKept DEF StoredAsPosted, ToolMade
<1>2. ASSUME NEW q \in PolicyIds, NEW u \in Users, NEW args \in ToolArgs,
             CallSetPolicy(q, u, args) \/ MisreadArguments(q, u, args)
      PROVE  StoredAsPosted'
  <2>1. /\ posts'[q].server # "stored" /\ posts'[q].tool # "told"
        /\ \A p \in PolicyIds : p # q => posts'[p] = posts[p]
        /\ policies' = policies /\ policies[q] = None
    BY <1>2 DEF PostsOK, CallSetPolicy, MisreadArguments, ToolCall, vars
  <2> QED
    BY <1>1, <2>1 DEF StoredAsPosted
<1>3. ASSUME NEW q \in PolicyIds, StorePolicy(q)
      PROVE  StoredAsPosted'
  <2>1. posts[q] \in Post /\ policies[q] = None
    BY <1>3 DEF PostsOK, StorePolicy, ToolMade, CreatePolicy
  <2>2. /\ posts'[q] = [posts[q] EXCEPT !.server = "stored"]
        /\ \A p \in PolicyIds : p # q => posts'[p] = posts[p]
        /\ policies'[q] = [user |-> posts[q].user, rules |-> posts[q].rules,
                           active |-> TRUE]
        /\ \A p \in PolicyIds : p # q => policies'[p] = policies[p]
    BY <1>3 DEF PostsOK, TypeOK, StorePolicy, CreatePolicy
  <2>3. policies'[q] # None
    <3>1. posts[q].rules \in RuleLists /\ posts[q].user \in Users
      BY <1>3, StoredIsReadable
    <3>2. policies'[q] \in [user : Users, rules : RuleLists \union {Unreadable},
                            active : BOOLEAN]
      BY <2>2, <3>1
    <3> QED
      BY <3>2, InputAssumption
  <2>4. /\ posts'[q].user = posts[q].user /\ posts'[q].rules = posts[q].rules
        /\ posts'[q].server = "stored"
    BY <2>1, <2>2 DEF Post
  <2>5. policies'[q].user = posts'[q].user /\ policies'[q].rules = posts'[q].rules
    BY <2>2, <2>4
  <2> HIDE DEF Context0, AgentsInv
  <2> QED
    BY <1>1, <2>2, <2>3, <2>4, <2>5 DEF StoredAsPosted
<1>4. ASSUME NEW q \in PolicyIds,
             RefusePolicy(q) \/ ToolTold(q) \/ ToolBreaks(q) \/ ToolFails(q)
      PROVE  StoredAsPosted'
  <2>1. posts[q] \in Post /\ policies' = policies /\ ToolMade(q)
    BY <1>4 DEF PostsOK, RefusePolicy, ToolTold, ToolBreaks, ToolFails, ToolMade, vars
  <2>2. /\ \A p \in PolicyIds : p # q => posts'[p] = posts[p]
        /\ posts'[q].user = posts[q].user /\ posts'[q].rules = posts[q].rules
        /\ \/ posts[q].server = "sent" /\ posts'[q].server = "refused"
               /\ posts'[q].tool = posts[q].tool
           \/ posts[q].server = "stored" /\ posts'[q].server = "stored"
           \/ posts'[q].server = posts[q].server /\ posts'[q].tool # "told"
    BY <1>4, <2>1 DEF PostsOK, Post, RefusePolicy, ToolTold, ToolBreaks, ToolFails
  <2> QED
    BY <1>1, <2>1, <2>2 DEF StoredAsPosted
<1>5. ASSUME posts' = posts, NEW q \in PolicyIds,
             \A p \in PolicyIds : p # q => policies'[p] = policies[p],
             policies[q] # None \/ posts[q] = None
      PROVE  StoredAsPosted'
  BY <1>1, <1>5 DEF StoredAsPosted, ToolMade
<1>6. ASSUME posts' = posts, policies' = policies
      PROVE  StoredAsPosted'
  BY <1>1, <1>6 DEF StoredAsPosted
<1>7. ASSUME NEW ch \in Chats,
             (\E u \in Users : FindForReset(ch, u)) \/ ConfirmReset(ch) \/ AbortReset(ch)
      PROVE  StoredAsPosted'
  BY <1>6, <1>7 DEF FindForReset, ConfirmReset, AbortReset, vars
<1>8. ASSUME NEW p \in PolicyIds,
             \/ \E ch \in Chats : DeactivateForReset(ch, p)
             \/ DeletePolicy(p) /\ UNCHANGED shared
             \/ \E u \in Users, rules \in HandWritten : PostPolicy(p, u, rules)
      PROVE  StoredAsPosted'
  <2>1. posts' = posts /\ (policies[p] # None \/ posts[p] = None)
    BY <1>8 DEF DeactivateForReset, PostPolicy, DeletePolicy, shared
  <2>2. \A q \in PolicyIds : q # p => policies'[q] = policies[q]
    BY <1>8 DEF TypeOK, DeactivateForReset, PostPolicy, DeletePolicy, CreatePolicy
  <2> QED
    BY <1>5, <2>1, <2>2
<1>9. ASSUME NEW c \in Calls,
             \/ \E u \in Users, body \in Wires : Ask(c, u, body)
             \/ (Handle(c) \/ RunLitAction(c) \/ Abandon(c)) /\ UNCHANGED shared
      PROVE  StoredAsPosted'
  BY <1>6, <1>9 DEF Ask, Receive, shared, Handle, FindUser, LoadAndEvaluate, SigningAnswered,
       SigningFailed, LogAndReply, LogAndLose, QueryFails, RunLitAction, Abandon
<1>10. ASSUME \/ UNCHANGED sharedVars
              \/ \E u \in Users : CreateUser(u) /\ UNCHANGED shared
       PROVE  StoredAsPosted'
  BY <1>6, <1>10 DEF sharedVars, vars, shared, CreateUser
<1> QED
  BY <1>2, <1>3, <1>4, <1>7, <1>8, <1>9, <1>10 DEF SharedNext

LEMMA InactiveStays ==
  ASSUME [RecordsKept]_vars, NEW p \in PolicyIds, Inactive(p)
  PROVE  Inactive(p)'
  BY RowsKept DEF Inactive

LEMMA ResetsProgressStep ==
  ASSUME Context0
  PROVE  ResetsProgress'
<1> USE DEF Context0, AgentsInv
<1>0. \A p \in PolicyIds : Inactive(p) => Inactive(p)'
  BY InactiveStays
<1>1. ASSUME UNCHANGED << reset, cleared >>
      PROVE  ResetsProgress'
  BY <1>0, <1>1 DEF ResetsProgress, Reset
<1>2. ASSUME NEW ch \in Chats, NEW u \in Users, FindForReset(ch, u)
      PROVE  ResetsProgress'
  <2>1. /\ reset' = [reset EXCEPT ![ch] = [user  |-> u,
                                           found |-> ActivePoliciesOf(u),
                                           todo  |-> ActivePoliciesOf(u)]]
        /\ ActivePoliciesOf(u) \subseteq PolicyIds /\ cleared' = cleared
    BY <1>2 DEF FindForReset, ActivePoliciesOf
  <2>2. /\ reset'[ch].found \ reset'[ch].todo = {}
        /\ \A v \in Chats : v # ch => reset'[v] = reset[v]
        /\ reset' \in [Chats -> Optional(Reset)]
    BY <2>1 DEF ResetsProgress, Reset
  <2> QED
    BY <1>0, <2>1, <2>2 DEF ResetsProgress, Reset
<1>3. ASSUME NEW ch \in Chats, NEW p \in PolicyIds, DeactivateForReset(ch, p)
      PROVE  ResetsProgress'
  <2>1. /\ reset[ch] \in Reset
        /\ reset[ch] # None /\ cleared' = cleared
    BY <1>3 DEF ResetsProgress, Reset, DeactivateForReset
  <2>2. /\ reset'[ch] \in Reset
        /\ reset'[ch].found = reset[ch].found
        /\ reset'[ch].todo = reset[ch].todo \ {p}
        /\ \A v \in Chats : v # ch => reset'[v] = reset[v]
        /\ reset' \in [Chats -> Optional(Reset)]
    BY <1>3, <2>1 DEF ResetsProgress, Reset, DeactivateForReset
  <2>3. Inactive(p)'
    <3>1. policies[p] \in PolicyRow /\ policies'[p] = Deactivated(policies[p])
      BY <1>3 DEF TypeOK, DeactivateForReset, DeletePolicy
    <3>2. /\ Deactivated(policies[p]) \in PolicyRow
          /\ Deactivated(policies[p]).active = FALSE
      BY <3>1 DEF Deactivated, PolicyRow
    <3> QED
      BY <3>1, <3>2, InputAssumption DEF Inactive, PolicyRow
  <2> QED
    BY <1>0, <2>1, <2>2, <2>3 DEF ResetsProgress, Reset
<1>4. ASSUME NEW ch \in Chats, ConfirmReset(ch) \/ AbortReset(ch)
      PROVE  ResetsProgress'
  <2>1. /\ reset[ch] \in Reset
        /\ reset[ch] # None
        /\ reset' = [reset EXCEPT ![ch] = None]
        /\ \/ cleared' = cleared
           \/ reset[ch].todo = {} /\ cleared' = cleared \union reset[ch].found
    BY <1>4 DEF ResetsProgress, Reset, ConfirmReset, AbortReset
  <2>2. \A v \in Chats : reset'[v] = None \/ reset'[v] = reset[v]
    BY <2>1 DEF ResetsProgress, Reset
  <2>3. reset' \in [Chats -> Optional(Reset)]
    BY <2>1 DEF ResetsProgress, Reset
  <2>4. cleared' \subseteq PolicyIds /\ \A p \in cleared' : Inactive(p)
    BY <2>1 DEF ResetsProgress, Reset
  <2>5. \A p \in cleared' : Inactive(p)'
    BY <1>0, <2>4
  <2> QED
    BY <1>0, <2>2, <2>3, <2>4, <2>5 DEF ResetsProgress, Reset
<1>5. ASSUME NEW p \in PolicyIds,
             \/ \E u \in Users, args \in ToolArgs :
                  CallSetPolicy(p, u, args) \/ MisreadArguments(p, u, args)
             \/ StorePolicy(p) \/ RefusePolicy(p)
             \/ ToolTold(p) \/ ToolBreaks(p) \/ ToolFails(p)
             \/ \E u \in Users, rules \in HandWritten : PostPolicy(p, u, rules)
      PROVE  ResetsProgress'
  BY <1>1, <1>5 DEF CallSetPolicy, MisreadArguments, ToolCall, StorePolicy, RefusePolicy,
                    ToolTold, ToolBreaks, ToolFails, PostPolicy, shared
<1>6. CASE \/ \E c \in Calls, u \in Users, body \in Wires : Ask(c, u, body)
           \/ UNCHANGED shared
           \/ UNCHANGED sharedVars
  BY <1>1, <1>6 DEF Ask, shared, sharedVars
<1> QED
  BY <1>2, <1>3, <1>4, <1>5, <1>6 DEF SharedNext

(* Only Ask changes what is known; deletions leave policies standing that  *)
(* are active still, and what is cleared is never loaded again.            *)
LEMMA KnownIsTrueStep ==
  ASSUME Context0, ResetsProgress'
  PROVE  KnownIsTrue'
<1> USE DEF Context0, AgentsInv
<1>0. [Next]_vars
  BY SharedStep
<1>1. ASSUME NEW c \in Calls, NEW p \in known[c].told
      PROVE  /\ ToolMade(p)' /\ posts'[p].user = posts[p].user
             /\ posts'[p].tool = posts[p].tool /\ p \in PolicyIds
  <2>1. /\ ToolMade(p) /\ p \in PolicyIds /\ posts[p] \in Post
        /\ posts[p].tool # "waiting"
    BY <1>1 DEF KnownIsTrue, PostsOK, ToolMade
  <2>2. \/ posts'[p] = posts[p]
        \/ \E s \in {"stored", "refused"} : posts' = [posts EXCEPT ![p].server = s]
    <3>1. ASSUME NEW q \in PolicyIds, NEW u \in Users, NEW args \in ToolArgs,
                 CallSetPolicy(q, u, args) \/ MisreadArguments(q, u, args)
          PROVE  posts'[p] = posts[p]
      BY <2>1, <3>1 DEF CallSetPolicy, MisreadArguments, ToolCall, ToolMade, PostsOK
    <3>2. ASSUME NEW q \in PolicyIds, StorePolicy(q) \/ RefusePolicy(q)
          PROVE  \/ posts'[p] = posts[p]
                 \/ \E s \in {"stored", "refused"} : posts' = [posts EXCEPT ![p].server = s]
      BY <2>1, <3>2 DEF PostsOK, StorePolicy, RefusePolicy
    <3>3. ASSUME NEW q \in PolicyIds, ToolTold(q) \/ ToolBreaks(q) \/ ToolFails(q)
          PROVE  posts'[p] = posts[p]
      BY <2>1, <3>3 DEF PostsOK, ToolTold, ToolBreaks, ToolFails
    <3>4. ASSUME NEW ch \in Chats,
                 \/ \E u \in Users : FindForReset(ch, u)
                 \/ \E q \in PolicyIds : DeactivateForReset(ch, q)
                 \/ ConfirmReset(ch) \/ AbortReset(ch)
          PROVE  posts' = posts
      BY <3>4 DEF FindForReset, ConfirmReset, AbortReset, DeactivateForReset
    <3>5. CASE \/ \E q \in PolicyIds, u \in Users, rules \in HandWritten :
                    PostPolicy(q, u, rules)
               \/ \E d \in Calls, u \in Users, body \in Wires : Ask(d, u, body)
               \/ UNCHANGED shared \/ UNCHANGED sharedVars
      BY <3>5 DEF PostPolicy, Ask, shared, sharedVars
    <3> QED
      BY <2>1, <3>1, <3>2, <3>3, <3>4, <3>5 DEF SharedNext
  <2>3. CASE posts'[p] = posts[p]
    BY <2>1, <2>3 DEF ToolMade
  <2>4. ASSUME NEW s \in {"stored", "refused"}, posts' = [posts EXCEPT ![p].server = s]
        PROVE  /\ ToolMade(p)' /\ posts'[p].user = posts[p].user
               /\ posts'[p].tool = posts[p].tool
    <3>1. /\ posts'[p] \in Post /\ posts'[p].user = posts[p].user
          /\ posts'[p].tool = posts[p].tool
      BY <2>1, <2>4 DEF PostsOK, Post
    <3> QED
      BY <3>1, SharedAssumption DEF Post, ToolMade
  <2> QED
    BY <2>1, <2>2, <2>3, <2>4
<1>2. cleared \subseteq cleared'
  BY DEF SharedNext, CallSetPolicy, MisreadArguments, ToolCall, StorePolicy, RefusePolicy,
         ToolTold, ToolBreaks, ToolFails, FindForReset, ConfirmReset, AbortReset, DeactivateForReset, PostPolicy, Ask,
         shared, sharedVars
<1>3. ASSUME NEW c \in Calls, known'[c] = known[c]
      PROVE  /\ known'[c].cleared \subseteq cleared'
             /\ pc'[c] = "idle" => known'[c].told = {}
             /\ \A p \in known'[c].told :
                  /\ ToolMade(p)' /\ posts'[p].user = request'[c].user
                  /\ \/ posts'[p].tool = "claimed"
                     \/ /\ posts'[p].tool = "told"
                        /\ policies'[p].active => p \in standing'[c]
             /\ loaded'[c] # None => DOMAIN loaded'[c] \cap known'[c].cleared = {}
  <2>1. known'[c].cleared \subseteq cleared'
    BY <1>2, <1>3 DEF KnownIsTrue
  <2>2. pc'[c] = "idle" => known'[c].told = {}
    BY <1>0, <1>3, StandsUnlessDeactivated DEF KnownIsTrue
  <2>3. ASSUME NEW p \in known[c].told
        PROVE  /\ ToolMade(p)' /\ posts'[p].user = request'[c].user
               /\ \/ posts'[p].tool = "claimed"
                  \/ /\ posts'[p].tool = "told"
                     /\ policies'[p].active => p \in standing'[c]
    <3>1. /\ pc[c] # "idle" /\ posts[p].user = request[c].user
          /\ ToolMade(p) /\ p \in PolicyIds
          /\ \/ posts[p].tool = "claimed"
             \/ posts[p].tool = "told" /\ (policies[p].active => p \in standing[c])
      BY <2>3, <1>1 DEF KnownIsTrue
    <3>2. /\ request'[c] = request[c]
          /\ p \in standing[c] => p \in standing'[c] \/ ~ policies'[p].active
      BY <1>0, <3>1, StandsUnlessDeactivated
    <3>3. CASE posts[p].tool = "claimed"
      BY <1>1, <2>3, <3>1, <3>2, <3>3
    <3>4. CASE posts[p].tool = "told" /\ (policies[p].active => p \in standing[c])
      <4>1. policies[p] # None
        BY <3>1, <3>4 DEF StoredAsPosted
      <4>2. policies'[p].active => policies[p].active
        BY <3>1, <4>1, RowsKept
      <4> QED
        BY <1>1, <2>3, <3>1, <3>2, <3>4, <4>2
    <3> QED
      BY <3>1, <3>3, <3>4
  <2>4. loaded'[c] # None => DOMAIN loaded'[c] \cap known'[c].cleared = {}
    <3>1. CASE loaded'[c] = loaded[c]
      BY <1>3, <3>1 DEF KnownIsTrue
    <3>2. CASE \A p \in DOMAIN loaded'[c] : policies[p] # None /\ policies[p].active
      <4>1. \A p \in known[c].cleared : Inactive(p)
        BY DEF KnownIsTrue, ResetsProgress
      <4> QED
        BY <1>3, <3>2, <4>1 DEF Inactive
    <3> QED
      BY <1>0, <3>1, <3>2, LoadsActive
  <2> QED
    BY <1>3, <2>1, <2>2, <2>3, <2>4
<1>4. ASSUME known' = known
      PROVE  KnownIsTrue'
  BY <1>3, <1>4 DEF KnownIsTrue
<1>5. ASSUME NEW c \in Calls, NEW u \in Users, NEW body \in Wires, Ask(c, u, body)
      PROVE  KnownIsTrue'
  <2> DEFINE told == AnnouncedTo(u)
  <2>1. /\ known' = [known EXCEPT ![c] = [told |-> told, cleared |-> cleared]]
        /\ pc[c] = "idle" /\ request'[c].user = u /\ standing'[c] = ActivePoliciesOf(u)
        /\ UNCHANGED << posts, cleared, policies, loaded >>
        /\ pc'[c] # "idle"
    BY <1>5 DEF TypeOK, Ask, Receive, Goto, Answer
  <2>2. \A d \in Calls : d # c => known'[d] = known[d]
    BY <2>1 DEF KnownIsTrue
  <2>3. /\ known'[c] = [told |-> told, cleared |-> cleared]
        /\ known' \in [Calls -> [told : SUBSET PolicyIds, cleared : SUBSET PolicyIds]]
    BY <2>1 DEF KnownIsTrue, ResetsProgress, AnnouncedTo
  <2>4. ASSUME NEW p \in told
        PROVE  /\ ToolMade(p)' /\ posts'[p].user = request'[c].user
               /\ \/ posts'[p].tool = "claimed"
                  \/ /\ posts'[p].tool = "told"
                     /\ policies'[p].active => p \in standing'[c]
    <3>1. /\ p \in PolicyIds /\ ToolMade(p) /\ posts[p].user = u
          /\ posts[p].tool \in {"told", "claimed"}
      BY <2>4 DEF AnnouncedTo
    <3>2. posts[p].tool = "told" => policies[p] # None /\ policies[p].user = posts[p].user
      BY <3>1 DEF StoredAsPosted
    <3> QED
      BY <2>1, <3>1, <3>2 DEF ToolMade, ActivePoliciesOf
  <2>5. loaded'[c] = None /\ told \subseteq PolicyIds
    BY <2>1 DEF LoadedOnce, AnnouncedTo
  <2> HIDE DEF told
  <2> QED
    BY <1>3, <2>1, <2>2, <2>3, <2>4, <2>5 DEF KnownIsTrue
<1>6. ASSUME NEW p \in PolicyIds, NEW u \in Users,
             \/ \E args \in ToolArgs : CallSetPolicy(p, u, args) \/ MisreadArguments(p, u, args)
             \/ \E rules \in HandWritten : PostPolicy(p, u, rules)
      PROVE  KnownIsTrue'
  BY <1>4, <1>6 DEF CallSetPolicy, MisreadArguments, ToolCall, PostPolicy, shared
<1>7. ASSUME NEW p \in PolicyIds,
             \/ StorePolicy(p) \/ RefusePolicy(p)
             \/ ToolTold(p) \/ ToolBreaks(p) \/ ToolFails(p)
      PROVE  KnownIsTrue'
  BY <1>4, <1>7 DEF StorePolicy, RefusePolicy, ToolTold, ToolBreaks, ToolFails
<1>8. ASSUME NEW ch \in Chats,
             \/ \E u \in Users : FindForReset(ch, u)
             \/ \E p \in PolicyIds : DeactivateForReset(ch, p)
             \/ ConfirmReset(ch) \/ AbortReset(ch)
      PROVE  KnownIsTrue'
  BY <1>4, <1>8 DEF FindForReset, DeactivateForReset, ConfirmReset, AbortReset
<1>9. CASE UNCHANGED shared \/ UNCHANGED sharedVars
  BY <1>4, <1>9 DEF shared, sharedVars
<1> QED
  BY <1>5, <1>6, <1>7, <1>8, <1>9 DEF SharedNext

LEMMA SharedInvariance == SharedSpec => []AgentsInv
<1>1. SharedInit => AgentsInv
  <2> SUFFICES ASSUME SharedInit PROVE AgentsInv
    OBVIOUS
  <2>1. StoredAsPosted
    BY DEF SharedInit, StoredAsPosted, ToolMade
  <2>2. ResetsProgress
    BY DEF SharedInit, ResetsProgress
  <2>3. KnownIsTrue /\ LoadedOnce /\ LoadedFrom
    BY DEF SharedInit, Init, KnownIsTrue, LoadedOnce, LoadedFrom
  <2> QED
    BY <2>1, <2>2, <2>3 DEF AgentsInv
<1>2. Context0 => AgentsInv'
  BY StoredAsPostedStep, ResetsProgressStep, KnownIsTrueStep, LoadedOnceStep, LoadedFromStep,
     SharedStep DEF Context0, AgentsInv
<1>3. AgentsInv /\ TypeOK /\ PostsOK /\ [SharedNext]_sharedVars /\ [RecordsKept]_vars
        => AgentsInv'
  BY <1>2 DEF Context0
<1> QED
  BY <1>1, <1>3, ServerUnaffected, PostsInvariance, TypeCorrect, RecordsAreFinal, PTL
     DEF SharedSpec, RecordsStay

-----------------------------------------------------------------------------
(* What the runs check of the composition, for every instance.             *)

(* Posts and rows agree, and what the server said to be stored is stored;  *)
(* nothing follows from a success that the bot claims without its word.    *)
THEOREM SharedTypeCorrect == SharedSpec => []SharedTypeOK
<1>1. PostsOK /\ AgentsInv => SharedTypeOK
  BY DEF PostsOK, AgentsInv, StoredAsPosted, ResetsProgress, KnownIsTrue, SharedTypeOK
<1> QED
  BY <1>1, PostsInvariance, SharedInvariance, PTL

(* What a confirmed reset found judges no later call.                      *)
THEOREM ResetHonoured == SharedSpec => []ResetIsHonoured
<1>1. AgentsInv => ResetIsHonoured
  BY DEF AgentsInv, KnownIsTrue, ResetIsHonoured
<1> QED
  BY <1>1, SharedInvariance, PTL

(* A standing policy's rules pass, and the request is one that converts.   *)
LEMMA ApprovedPasses ==
  ASSUME IInv, LoadedOnce, NEW c \in Calls, IsApproved(c), NEW p \in standing[c]
  PROVE  /\ request[c].user \in Users
         /\ request[c].body \in WireRequest /\ Convertible(request[c].body)
         /\ p \in PolicyIds /\ policies[p].rules \in RuleLists
         /\ \A i \in DOMAIN policies[p].rules :
              Outcome(policies[p].rules[i], ToTransaction(request[c].body),
                      ToContext(request[c].body)) = "pass"
<1>1. pc[c] # "idle" /\ Convertible(request[c].body)
  BY DEF IsApproved, LoadedOnce
<1>2. /\ request[c].user \in Users /\ request[c].body \in WireRequest
      /\ p \in PolicyIds
  BY <1>1, InputAssumption DEF IInv, TypeOK
<1>3. AllPass(c) /\ StandingLoaded(c)
  BY DEF IInv, ApprovedLoaded, IsApproved
<1>4. /\ p \in DOMAIN loaded[c] /\ loaded[c][p] = policies[p].rules
  BY <1>3 DEF StandingLoaded
<1>5. \A i \in DOMAIN policies[p].rules : RulePasses(policies[p].rules[i], c)
  BY <1>3, <1>4 DEF AllPass
<1>6. policies[p].rules \in RuleLists
  <2>1. policies[p] # None /\ policies[p].rules # Unreadable
    BY <1>3 DEF IInv, StandingPolicies, StandingLoaded
  <2>2. policies[p] \in PolicyRow
    BY <1>2, <2>1 DEF IInv, TypeOK
  <2> QED
    BY <2>1, <2>2 DEF PolicyRow
<1> QED
  BY <1>1, <1>2, <1>5, <1>6 DEF RulePasses, Tx, Context

(* A policy whose success was announced to its user, and that is not       *)
(* deleted since, keeps every approval of a later call within what was     *)
(* asked for, unless the bot announced it without the server's word and    *)
(* the server had not stored it when the call came.                        *)
THEOREM ToldEnforced == SharedSpec => []ToldIsEnforced
<1>1. IInv /\ PostsOK /\ AgentsInv => ToldIsEnforced
  <2> SUFFICES ASSUME IInv, PostsOK, AgentsInv,
                      NEW c \in Calls, IsApproved(c), NEW p \in known[c].told,
                      ~ (policies[p] # None /\ ~ policies[p].active),
                      ~ (posts[p].tool = "claimed" /\ p \notin standing[c])
               PROVE  /\ WithinTold(posts[p].args, request[c].body)
                      /\ Agent(request[c].user) = "bot" => Reasoned(request[c].body)
    BY DEF ToldIsEnforced
  <2>1. /\ p \in PolicyIds /\ ToolMade(p) /\ posts[p].user = request[c].user
        /\ \/ posts[p].tool = "claimed"
           \/ posts[p].tool = "told" /\ (policies[p].active => p \in standing[c])
    BY DEF AgentsInv, KnownIsTrue, PostsOK
  <2>2. p \in standing[c]
    BY <2>1 DEF AgentsInv, StoredAsPosted
  <2>3. policies[p] # None
    BY <2>2 DEF IInv, StandingPolicies
  <2>4. policies[p].rules = posts[p].rules
    BY <2>1, <2>3 DEF AgentsInv, StoredAsPosted
  <2>5. /\ posts[p].args \in SetPolicyArgs /\ ~ Refuses(posts[p].args)
        /\ posts[p].rules \in BuiltRules(posts[p].args, Agent(posts[p].user))
        /\ Agent(posts[p].user) \in AgentKinds
    BY <2>1, SharedAssumption DEF PostsOK, ToolMade, Post, Agent, AgentKinds
  <2>6. /\ request[c].body \in WireRequest /\ Convertible(request[c].body)
        /\ \A i \in DOMAIN posts[p].rules :
             Outcome(posts[p].rules[i], ToTransaction(request[c].body),
                     ToContext(request[c].body)) = "pass"
    BY <2>2, <2>4, ApprovedPasses DEF AgentsInv
  <2> QED
    BY <2>1, <2>5, <2>6, PassMeansWithinTold
<1> QED
  BY <1>1, Invariance, ServerUnaffected, PostsInvariance, SharedInvariance, PTL

(* What /policy shows of a standing policy an approval keeps to.           *)
THEOREM ShownEnforced == SharedSpec => []ShownIsEnforced
<1>1. IInv /\ PostsOK /\ AgentsInv => ShownIsEnforced
  <2> SUFFICES ASSUME IInv, PostsOK, AgentsInv,
                      NEW c \in Calls, IsApproved(c), NEW p \in standing[c],
                      NEW i \in DOMAIN policies[p].rules
               PROVE  WithinLimit(AsShown(policies[p].rules[i],
                                          IF ToolMade(p) THEN 0 ELSE 99),
                                  request[c].body)
    BY DEF ShownIsEnforced
  <2> DEFINE w    == request[c].body
             rule == policies[p].rules[i]
  <2>1. /\ w \in WireRequest /\ Convertible(w)
        /\ p \in PolicyIds /\ policies[p].rules \in RuleLists
        /\ Outcome(rule, ToTransaction(w), ToContext(w)) = "pass"
    BY ApprovedPasses DEF AgentsInv
  <2>2. rule \in PolicyRule
    BY <2>1, InputAssumption
  <2>3. ToolMade(p) => rule \in ToolRule
    <3> SUFFICES ASSUME ToolMade(p) PROVE rule \in ToolRule
      OBVIOUS
    <3>1. posts[p] \in Post
      BY <2>1 DEF PostsOK, ToolMade
    <3>2. /\ posts[p].args \in SetPolicyArgs /\ ~ Refuses(posts[p].args)
          /\ posts[p].rules \in BuiltRules(posts[p].args, Agent(posts[p].user))
          /\ Agent(posts[p].user) \in AgentKinds
      BY <2>1, <3>1, SharedAssumption DEF PostsOK, Post, Agent, AgentKinds
    <3>3. posts[p].rules \in Seq(ToolRuleOf(Agent(posts[p].user)))
      BY <3>2, BuiltRulesBind
    <3>4. policies[p].rules = posts[p].rules
      <4>1. policies[p] # None
        BY DEF IInv, StandingPolicies
      <4> QED
        BY <2>1, <3>1, <4>1 DEF AgentsInv, StoredAsPosted, Post
    <3> QED
      BY <3>3, <3>4 DEF ToolRuleOf
  <2>4. WithinLimit(rule, w)
    BY <2>1, <2>2, PassMeansWithinLimit
  <2> QED
    BY <2>1, <2>2, <2>3, <2>4, ShownIsNear
<1> QED
  BY <1>1, Invariance, ServerUnaffected, PostsInvariance, SharedInvariance, PTL

(* A rule that an agent's tool builds finds what it reads in a body that   *)
(* the agent's other tool sends.                                           *)
LEMMA ToolRuleJudgeable ==
  ASSUME NEW u, NEW w \in WireRequest, Convertible(w), SentByTool(u, w),
         NEW rule \in ToolRuleOf(Agent(u))
  PROVE  Outcome(rule, ToTransaction(w), ToContext(w)) # "indeterminate"
<1> DEFINE tx  == ToTransaction(w)
           ctx == ToContext(w)
<1>1. ctx.portfolio # 0
  <2>1. 100 * Cent \in Nat \ {0}
    BY CentAssumption
  <2>2. 10000 * (100 * Cent) # 0 /\ 1000 * (100 * Cent) # 0
    BY <2>1
  <2>3. ctx.portfolio = PortfolioOf(Agent(u))
    BY DEF SentByTool, ToContext
  <2> QED
    BY <2>2, <2>3 DEF PortfolioOf, Dollar
<1>2. ctx.riskScore # None
  <2>1. w.riskScore \in 0 .. 100
    BY DEF SentByTool, Convertible
  <2>2. FromF64Retain(w.riskScore) \in Int
    BY <2>1 DEF FromF64Retain
  <2>3. ctx.riskScore = FromF64Retain(w.riskScore)
    BY DEF SentByTool, ToContext
  <2> QED
    BY <2>2, <2>3, NoneIsNoNumber
<1>3. ctx.utilization # None
  <2>1. ctx.utilization = w.utilization \div WireBps
    BY DEF SentByTool, ToContext, ToBps
  <2>2. w.utilization \in Int
    BY DEF SentByTool, WireRequest
  <2> QED
    BY <2>1, <2>2, NoneIsNoNumber DEF WireBps
<1>4. ctx.tvl # None
  BY DEF SentByTool, ToContext
<1>5. rule.id \in {"MinAlternativesConsidered", "MaxConfidenceThreshold"}
        => ctx.reasoning # None
  BY DEF SentByTool, ToContext, ToolRuleOf, Agent
<1>6. rule \in PolicyRule
  BY DEF ToolRuleOf, ToolRule
<1>7. \A ok \in BOOLEAN : Check(ok) # "indeterminate"
  BY DEF Check
<1>8. \A value, ok : value # None => Known(value, ok) = Check(ok)
  BY DEF Known
<1> HIDE DEF tx, ctx
<1>9. Outcome(rule, tx, ctx) # "indeterminate"
  BY <1>1, <1>2, <1>3, <1>4, <1>5, <1>6 DEF PolicyRule, Outcome, ShareCap, Known, Check
<1> QED
  BY <1>9 DEF tx, ctx

(* The policy an agent made never lacks the evidence for a verdict on what *)
(* the same agent asks about.                                              *)
THEOREM OwnPolicyJudgeable == SharedSpec => []OwnPolicyIsJudgeable
<1>1. TypeOK /\ PostsOK /\ AgentsInv => OwnPolicyIsJudgeable
  <2> SUFFICES ASSUME TypeOK, PostsOK, AgentsInv, NEW c \in Calls, verdict[c] # None,
                      SentByTool(request[c].user, request[c].body),
                      NEW p \in DOMAIN loaded[c], ToolMade(p),
                      NEW i \in DOMAIN loaded[c][p]
               PROVE  Outcome(loaded[c][p][i], Tx(c), Context(c)) # "indeterminate"
    BY DEF OwnPolicyIsJudgeable
  <2>1. /\ p \in PolicyIds /\ policies[p] # None
        /\ policies[p].user = request[c].user
        /\ policies[p].rules = loaded[c][p]
    BY DEF AgentsInv, LoadedFrom
  <2>2. posts[p].user = request[c].user /\ posts[p].rules = loaded[c][p]
    BY <2>1 DEF AgentsInv, StoredAsPosted
  <2>3. /\ posts[p].args \in SetPolicyArgs /\ ~ Refuses(posts[p].args)
        /\ posts[p].rules \in BuiltRules(posts[p].args, Agent(posts[p].user))
        /\ Agent(posts[p].user) \in AgentKinds
    BY <2>1, SharedAssumption DEF PostsOK, ToolMade, Post, Agent, AgentKinds
  <2>4. loaded[c][p] \in Seq(ToolRuleOf(Agent(request[c].user)))
    BY <2>2, <2>3, BuiltRulesBind
  <2>5. request[c].body \in WireRequest /\ Convertible(request[c].body)
    BY InputAssumption DEF TypeOK, AgentsInv, LoadedOnce
  <2>6. loaded[c][p][i] \in ToolRuleOf(Agent(request[c].user))
    BY <2>4
  <2> QED
    BY <2>5, <2>6, ToolRuleJudgeable DEF Tx, Context
<1> QED
  BY <1>1, TypeCorrect, ServerUnaffected, PostsInvariance, SharedInvariance, PTL

=============================================================================
