----------------------- MODULE ValidateService_proofs -----------------------
(***************************************************************************)
(* What the API server keeps true for any number of users, policies and    *)
(* calls, any rules and any requests.                                      *)
(***************************************************************************)
EXTENDS AuditExport, EngineLemmas, FiniteSetTheorems

USE DEF database, call, Optional, Locations

-----------------------------------------------------------------------------
(* The type invariant.                                                     *)

LEMMA EvaluateDecides ==
  ASSUME NEW rules, NEW tx, NEW ctx
  PROVE  Evaluate(rules, tx, ctx).decision \in {"approved", "blocked"}
  BY DEF Evaluate, BlockedByEngine, Decide

(* The steps of a call that only move it on, or answer it.                 *)
Moves(c) ==
  /\ \E to \in Locations : Goto(c, to)
  /\ \/ UNCHANGED reply
     \/ \E status \in {200, 400, 404, 500} : Answer(c, status)

LEMMA AnswerMoves ==
  ASSUME NEW c \in Calls, NEW status \in {200, 400, 404, 500}, Answer(c, status)
  PROVE  Moves(c)
<1>1. \E to \in Locations : Goto(c, to)
  <2>1. Goto(c, "answered")
    BY DEF Answer
  <2> QED
    BY <2>1
<1> QED
  BY <1>1 DEF Moves

LEMMA GotoMoves ==
  ASSUME NEW c \in Calls, NEW to \in Locations, Goto(c, to), UNCHANGED reply
  PROVE  Moves(c)
  BY DEF Moves

(* Such a step keeps the types of what it changes.                         *)
LEMMA MovesTypes ==
  ASSUME NEW c \in Calls, TypeOK, Moves(c)
  PROVE  /\ pc' \in [Calls -> Locations]
         /\ \A d \in Calls : d # c => pc'[d] = pc[d]
         /\ DOMAIN reply' = Calls
         /\ \A d \in Calls : reply'[d].status \in {0, 200, 400, 404, 500}
  BY DEF Moves, TypeOK, Goto, Answer

LEMMA TypeInit == Init => TypeOK
<1> SUFFICES ASSUME Init PROVE TypeOK
  OBVIOUS
<1>1. users \subseteq Users /\ policies \in [PolicyIds -> Optional(PolicyRow)]
  <2>1. CASE users = {} /\ policies = [p \in PolicyIds |-> None]
    BY <2>1
  <2>2. ASSUME NEW u \in Users, NEW old \in PolicyIds,
               users = {u},
               policies = [p \in PolicyIds |->
                             IF p = old
                               THEN [user |-> u, rules |-> Unreadable, active |-> TRUE]
                               ELSE None]
        PROVE  users \subseteq Users /\ policies \in [PolicyIds -> Optional(PolicyRow)]
    BY <2>2 DEF PolicyRow
  <2> QED
    BY <2>1, <2>2 DEF Init
<1> QED
  BY <1>1 DEF Init, TypeOK, NoReply

(* Types are kept by every step, which gives the type invariant.           *)
THEOREM TypeCorrect == Spec => []TypeOK
<1>1. Init => TypeOK
  BY TypeInit
<1>2. TypeOK /\ [Next]_vars => TypeOK'
  <2> SUFFICES ASSUME TypeOK, [Next]_vars PROVE TypeOK'
    OBVIOUS
  <2>1. ASSUME NEW u \in Users, CreateUser(u)
        PROVE  TypeOK'
    BY <2>1 DEF TypeOK, CreateUser
  <2>2. ASSUME NEW p \in PolicyIds, NEW u \in Users, NEW rules \in RuleLists,
               CreatePolicy(p, u, rules)
        PROVE  TypeOK'
    <3>1. policies' \in [PolicyIds -> Optional(PolicyRow)]
      BY <2>2 DEF TypeOK, CreatePolicy, PolicyRow
    <3> QED
      BY <2>2, <3>1 DEF TypeOK, CreatePolicy
  <2>3. ASSUME NEW p \in PolicyIds, DeletePolicy(p)
        PROVE  TypeOK'
    <3>1. policies[p] \in PolicyRow
      BY <2>3 DEF TypeOK, DeletePolicy
    <3>2. Deactivated(policies[p]) \in PolicyRow
      BY <3>1 DEF Deactivated, PolicyRow
    <3>3. policies' = [policies EXCEPT ![p] = Deactivated(policies[p])]
      BY <2>3 DEF DeletePolicy
    <3>4. policies' \in [PolicyIds -> Optional(PolicyRow)]
      BY <3>2, <3>3 DEF TypeOK
    <3> QED
      BY <2>3, <3>4 DEF TypeOK, DeletePolicy
  <2>4. ASSUME NEW c \in Calls, NEW u \in Users, NEW body \in Wires, Receive(c, u, body)
        PROVE  TypeOK'
    <3>0. Moves(c)
      BY <2>4, AnswerMoves, GotoMoves DEF Receive
    <3>1. /\ pc' \in [Calls -> Locations]
          /\ \A d \in Calls : d # c => pc'[d] = pc[d]
          /\ DOMAIN reply' = Calls
          /\ \A d \in Calls : reply'[d].status \in {0, 200, 400, 404, 500}
      BY <3>0, MovesTypes
    <3>2. request' \in [Calls -> Optional([user : Users, body : Wires])]
      BY <2>4 DEF TypeOK, Receive
    <3>3. request'[c] \in [user : Users, body : Wires]
      BY <2>4 DEF TypeOK, Receive
    <3>4. standing' \in [Calls -> SUBSET PolicyIds]
      BY <2>4 DEF TypeOK, Receive, ActivePoliciesOf
    <3>5. \A d \in Calls : d # c => request'[d] = request[d]
      BY <2>4 DEF TypeOK, Receive
    <3> QED
      BY <2>4, <3>1, <3>2, <3>3, <3>4, <3>5 DEF TypeOK, Receive
  <2>5. ASSUME NEW c \in Calls, FindUser(c)
        PROVE  TypeOK'
    <3>0. Moves(c)
      BY <2>5, AnswerMoves, GotoMoves DEF FindUser
    <3>1. /\ pc' \in [Calls -> Locations]
          /\ \A d \in Calls : d # c => pc'[d] = pc[d]
          /\ DOMAIN reply' = Calls
          /\ \A d \in Calls : reply'[d].status \in {0, 200, 400, 404, 500}
      BY <3>0, MovesTypes
    <3> QED
      BY <2>5, <3>1 DEF TypeOK, FindUser
  <2>6. ASSUME NEW c \in Calls, LoadAndEvaluate(c)
        PROVE  TypeOK'
    <3> DEFINE rows  == SelectedPolicies(request[c].user)
               lists == [p \in rows |-> policies[p].rules]
               v     == Evaluate(Flatten(lists), Tx(c), Context(c))
    <3>0. Moves(c)
      <4>1. CASE reply' = reply
        BY <2>6, <4>1, GotoMoves DEF LoadAndEvaluate, Answer
      <4>2. CASE Answer(c, 500)
        BY <4>2, AnswerMoves
      <4> QED
        BY <2>6, <4>1, <4>2 DEF LoadAndEvaluate
    <3>1. /\ pc' \in [Calls -> Locations]
          /\ \A d \in Calls : d # c => pc'[d] = pc[d]
          /\ DOMAIN reply' = Calls
          /\ \A d \in Calls : reply'[d].status \in {0, 200, 400, 404, 500}
      BY <3>0, MovesTypes
    <3>2. rows \subseteq PolicyIds
      BY DEF SelectedPolicies, ActivePoliciesOf
    <3>3. v.decision \in {"approved", "blocked"}
      BY EvaluateDecides
    <3>4. ASSUME \A p \in rows : policies[p].rules # Unreadable
          PROVE  \A p \in DOMAIN lists : lists[p] \in RuleLists
      BY <3>2, <3>4 DEF TypeOK, PolicyRow, SelectedPolicies, ActivePoliciesOf
    <3>5. \/ loaded' = loaded /\ verdict' = verdict
          \/ /\ \A p \in rows : policies[p].rules # Unreadable
             /\ loaded' = [loaded EXCEPT ![c] = lists]
             /\ verdict' = [verdict EXCEPT ![c] = v]
      BY <2>6 DEF LoadAndEvaluate
    <3>6. lit' \in [Calls -> {"idle", "asked", "signed", "refused"}]
      BY <2>6 DEF LoadAndEvaluate, TypeOK
    <3>7. DOMAIN lists = rows
      OBVIOUS
    <3> HIDE DEF rows, lists, v
    <3>8. /\ DOMAIN loaded' = Calls /\ DOMAIN verdict' = Calls
          /\ \A d \in Calls :
               /\ loaded'[d] # None =>
                    /\ DOMAIN loaded'[d] \subseteq PolicyIds
                    /\ \A p \in DOMAIN loaded'[d] : loaded'[d][p] \in RuleLists
               /\ verdict'[d] # None => verdict'[d].decision \in {"approved", "blocked"}
      BY <3>2, <3>3, <3>4, <3>5, <3>7 DEF TypeOK
    <3>9. UNCHANGED << users, policies, txlog, provider, request, signing, standing >>
      BY <2>6 DEF LoadAndEvaluate
    <3>10. pc[c] # "idle"
      BY <2>6 DEF LoadAndEvaluate
    <3> QED
      BY <3>1, <3>6, <3>8, <3>9, <3>10 DEF TypeOK
  <2>7. ASSUME NEW c \in Calls, SigningAnswered(c)
        PROVE  TypeOK'
    BY <2>7 DEF TypeOK, SigningAnswered, Goto
  <2>8. ASSUME NEW c \in Calls, SigningFailed(c)
        PROVE  TypeOK'
    BY <2>8 DEF TypeOK, SigningFailed, Goto
  <2>9. ASSUME NEW c \in Calls, LogAndReply(c) \/ LogAndLose(c)
        PROVE  TypeOK'
    <3>0. Moves(c)
      BY <2>9, AnswerMoves, GotoMoves DEF LogAndReply, LogAndLose
    <3>1. /\ pc' \in [Calls -> Locations]
          /\ \A d \in Calls : d # c => pc'[d] = pc[d]
          /\ DOMAIN reply' = Calls
          /\ \A d \in Calls : reply'[d].status \in {0, 200, 400, 404, 500}
      BY <3>0, MovesTypes
    <3> QED
      BY <2>9, <3>1 DEF TypeOK, LogAndReply, LogAndLose
  <2>10. ASSUME NEW c \in Calls, QueryFails(c) \/ Abandon(c)
        PROVE  TypeOK'
    <3>0. Moves(c)
      BY <2>10, AnswerMoves, GotoMoves DEF QueryFails, Abandon
    <3>1. /\ pc' \in [Calls -> Locations]
          /\ \A d \in Calls : d # c => pc'[d] = pc[d]
          /\ DOMAIN reply' = Calls
          /\ \A d \in Calls : reply'[d].status \in {0, 200, 400, 404, 500}
      BY <3>0, MovesTypes
    <3> QED
      BY <2>10, <3>1 DEF TypeOK, QueryFails, Abandon, AwaitsDatabase
  <2>11. ASSUME NEW c \in Calls, RunLitAction(c)
        PROVE  TypeOK'
    BY <2>11 DEF TypeOK, RunLitAction
  <2>12. CASE UNCHANGED vars
    BY <2>12 DEF TypeOK, vars
  <2> QED
    BY <2>1, <2>2, <2>3, <2>4, <2>5, <2>6, <2>7, <2>8, <2>9, <2>10, <2>11, <2>12
       DEF Next, Handle
<1> QED
  BY <1>1, <1>2, PTL DEF Spec

-----------------------------------------------------------------------------
(* The inductive invariant.  None of the safety properties is inductive:   *)
(* what a verdict was based on must be tied to what is in the tables now.  *)

(* A call has nothing to show before it is evaluated.                      *)
Untouched ==
  \A c \in Calls : pc[c] \in {"idle", "finding_user", "loading"} =>
    verdict[c] = None /\ lit[c] = "idle" /\ signing[c] = None

(* A call leaves no row and gets no answer before its end.                 *)
Unlogged ==
  \A c \in Calls :
    /\ pc[c] \notin {"answered", "dropped"} => txlog[c] = {}
    /\ reply[c].status # 0 => pc[c] = "answered"

StandingPolicies ==
  \A c \in Calls : \A p \in standing[c] :
    /\ policies[p] # None
    /\ policies[p].active
    /\ policies[p].user = request[c].user

(* The rules loaded are those of every standing policy, all readable.      *)
StandingLoaded(c) ==
  \A p \in standing[c] :
    /\ p \in DOMAIN loaded[c]
    /\ loaded[c][p] = policies[p].rules
    /\ policies[p].rules # Unreadable

(* Some rule was loaded, and all pass.                                     *)
AllPass(c) ==
  /\ \E p \in DOMAIN loaded[c] : DOMAIN loaded[c][p] # {}
  /\ \A p \in DOMAIN loaded[c] : \A i \in DOMAIN loaded[c][p] :
       RulePasses(loaded[c][p][i], c)

ApprovedLoaded ==
  \A c \in Calls :
    verdict[c] # None /\ verdict[c].decision = "approved" =>
      AllPass(c) /\ StandingLoaded(c)

Guarded ==
  \A c \in Calls :
    /\ lit[c] # "idle" => verdict[c].decision = "approved" /\ AllPass(c)
    /\ signing[c] # None => lit[c] = "signed"

IInv ==
  /\ TypeOK
  /\ Untouched
  /\ Unlogged
  /\ StandingPolicies
  /\ ApprovedLoaded
  /\ Guarded
  /\ VerdictGivenIsLogged

LEMMA SameRulesPass ==
  ASSUME NEW c \in Calls, AllPass(c), request'[c] = request[c], loaded'[c] = loaded[c]
  PROVE  AllPass(c)'
<1>1. Tx(c)' = Tx(c) /\ Context(c)' = Context(c)
  BY DEF Tx, Context
<1> QED
  BY <1>1 DEF AllPass, RulePasses

LEMMA SameRow ==
  ASSUME NEW c \in Calls, request'[c] = request[c], verdict'[c] = verdict[c]
  PROVE  LogRow(c)' = LogRow(c)
  BY DEF LogRow, Tx

(* A step that changes neither a request nor a verdict.                    *)
LEMMA UndecidedStep ==
  ASSUME TypeOK, ApprovedLoaded, Guarded,
         UNCHANGED << request, loaded, verdict >>,
         \A c \in Calls : lit'[c] # "idle" => lit[c] # "idle",
         \A c \in Calls : signing'[c] # None => lit'[c] = "signed",
         \A c \in Calls : StandingLoaded(c) => StandingLoaded(c)'
  PROVE  ApprovedLoaded' /\ Guarded'
<1>1. \A c \in Calls : AllPass(c) => AllPass(c)'
  BY SameRulesPass
<1>2. ApprovedLoaded'
  BY <1>1 DEF ApprovedLoaded
<1>3. Guarded'
  BY <1>1 DEF Guarded
<1> QED
  BY <1>2, <1>3

(* The tables of users and policies change; calls do not.                  *)
LEMMA TablesStep ==
  ASSUME IInv, TypeOK', UNCHANGED call, UNCHANGED << txlog, lit >>,
         StandingPolicies', \A c \in Calls : StandingLoaded(c) => StandingLoaded(c)'
  PROVE  IInv'
<1>1. Untouched' /\ Unlogged'
  BY DEF IInv, Untouched, Unlogged
<1>2. ApprovedLoaded' /\ Guarded'
  BY UndecidedStep DEF IInv, Guarded
<1>3. VerdictGivenIsLogged'
  BY SameRow DEF IInv, VerdictGivenIsLogged
<1> QED
  BY <1>1, <1>2, <1>3 DEF IInv

LEMMA CreateUserStep ==
  ASSUME IInv, TypeOK', NEW u \in Users, CreateUser(u)
  PROVE  IInv'
<1>1. StandingPolicies' /\ \A c \in Calls : StandingLoaded(c) => StandingLoaded(c)'
  BY DEF IInv, StandingPolicies, StandingLoaded, CreateUser
<1> QED
  BY <1>1, TablesStep DEF CreateUser

LEMMA CreatePolicyStep ==
  ASSUME IInv, TypeOK', NEW p \in PolicyIds, NEW u \in Users, NEW rules \in RuleLists,
         CreatePolicy(p, u, rules)
  PROVE  IInv'
<1>1. \A c \in Calls : \A q \in standing[c] : q # p /\ policies'[q] = policies[q]
  BY DEF IInv, TypeOK, StandingPolicies, CreatePolicy
<1>2. StandingPolicies' /\ \A c \in Calls : StandingLoaded(c) => StandingLoaded(c)'
  BY <1>1 DEF IInv, StandingPolicies, StandingLoaded, CreatePolicy
<1> QED
  BY <1>2, TablesStep DEF CreatePolicy

LEMMA DeletePolicyStep ==
  ASSUME IInv, TypeOK', NEW p \in PolicyIds, DeletePolicy(p)
  PROVE  IInv'
<1>1. \A c \in Calls : standing'[c] = standing[c] \ {p}
  BY DEF DeletePolicy
<1>2. \A q \in PolicyIds : q # p => policies'[q] = policies[q]
  BY DEF IInv, TypeOK, DeletePolicy
<1>3. \A c \in Calls : standing[c] \subseteq PolicyIds
  BY DEF IInv, TypeOK
<1>4. StandingPolicies' /\ \A c \in Calls : StandingLoaded(c) => StandingLoaded(c)'
  BY <1>1, <1>2, <1>3 DEF IInv, StandingPolicies, StandingLoaded, DeletePolicy
<1> QED
  BY <1>4, TablesStep DEF DeletePolicy

LEMMA ReceiveStep ==
  ASSUME IInv, TypeOK', NEW c \in Calls, NEW u \in Users, NEW body \in Wires,
         Receive(c, u, body)
  PROVE  IInv'
<1>1. /\ pc[c] = "idle" /\ request'[c].user = u
      /\ standing'[c] = ActivePoliciesOf(u)
      /\ \A d \in Calls : d # c => /\ pc'[d] = pc[d] /\ request'[d] = request[d]
                                   /\ standing'[d] = standing[d] /\ reply'[d] = reply[d]
      /\ pc'[c] = "finding_user" \/ (pc'[c] = "answered" /\ reply'[c].status = 400)
      /\ pc'[c] = "finding_user" => reply' = reply
      /\ UNCHANGED << policies, txlog, loaded, verdict, signing, lit >>
  <2>1. pc[c] = "idle" /\ UNCHANGED << policies, txlog, loaded, verdict, signing, lit >>
    BY DEF Receive
  <2>2. /\ request'[c].user = u
        /\ standing'[c] = ActivePoliciesOf(u)
        /\ \A d \in Calls : d # c => request'[d] = request[d] /\ standing'[d] = standing[d]
    BY DEF IInv, TypeOK, Receive
  <2>3. \/ pc' = [pc EXCEPT ![c] = "finding_user"] /\ reply' = reply
        \/ /\ pc' = [pc EXCEPT ![c] = "answered"]
           /\ reply' = [reply EXCEPT ![c] = [status |-> 400, verdict |-> verdict[c],
                                             signing |-> signing[c]]]
    BY DEF Receive, Goto, Answer
  <2>4. DOMAIN pc = Calls /\ DOMAIN reply = Calls
    BY DEF IInv, TypeOK
  <2>5. \A d \in Calls : d # c => pc'[d] = pc[d] /\ reply'[d] = reply[d]
    BY <2>3, <2>4
  <2>6. \/ pc'[c] = "finding_user" /\ reply' = reply
        \/ pc'[c] = "answered" /\ reply'[c].status = 400
    BY <2>3, <2>4
  <2> QED
    BY <2>1, <2>2, <2>5, <2>6
<1>2. verdict[c] = None /\ lit[c] = "idle" /\ signing[c] = None
  BY <1>1 DEF IInv, Untouched
<1>3. Untouched'
  BY <1>1, <1>2 DEF IInv, Untouched
<1>4. Unlogged'
  BY <1>1 DEF IInv, Unlogged
<1>5. StandingPolicies'
  BY <1>1 DEF IInv, StandingPolicies, ActivePoliciesOf
<1>6. \A d \in Calls : d # c => (AllPass(d) => AllPass(d)') /\ LogRow(d)' = LogRow(d)
                               /\ (StandingLoaded(d) => StandingLoaded(d)')
  BY <1>1, SameRulesPass, SameRow DEF StandingLoaded
<1>7. ApprovedLoaded'
  BY <1>1, <1>2, <1>6 DEF IInv, ApprovedLoaded
<1>8. Guarded'
  BY <1>1, <1>2, <1>6 DEF IInv, Guarded
<1>9. VerdictGivenIsLogged'
  <2>1. reply'[c].status # 200
    BY <1>1 DEF IInv, Unlogged
  <2> QED
    BY <1>1, <1>6, <2>1 DEF IInv, VerdictGivenIsLogged
<1> QED
  BY <1>3, <1>4, <1>5, <1>7, <1>8, <1>9 DEF IInv

(* A step that moves a call on, or answers it with an error.               *)
LEMMA MovesOnStep ==
  ASSUME IInv, TypeOK', NEW c \in Calls,
         FindUser(c) \/ SigningFailed(c) \/ QueryFails(c) \/ Abandon(c)
  PROVE  IInv'
<1>1. /\ \A d \in Calls : d # c => pc'[d] = pc[d] /\ reply'[d] = reply[d]
      /\ pc[c] \notin {"answered", "dropped"}
      /\ pc'[c] \in {"finding_user", "loading"} => pc[c] = "finding_user"
      /\ pc'[c] # "idle"
      /\ reply'[c] = reply[c] \/ (reply'[c].status # 200 /\ pc'[c] = "answered")
      /\ UNCHANGED << policies, txlog, request, loaded, verdict, signing, lit, standing >>
  <2>1. UNCHANGED << policies, txlog, request, loaded, verdict, signing, lit, standing >>
    BY DEF FindUser, SigningFailed, QueryFails, Abandon
  <2>2. /\ pc[c] \notin {"answered", "dropped"}
        /\ \/ reply' = reply /\ Goto(c, "loading") /\ pc[c] = "finding_user"
           \/ reply' = reply /\ Goto(c, "logging")
           \/ reply' = reply /\ Goto(c, "dropped")
           \/ \E status \in {404, 500} : Answer(c, status)
    BY DEF FindUser, SigningFailed, QueryFails, Abandon, AwaitsDatabase
  <2>3. DOMAIN pc = Calls /\ DOMAIN reply = Calls
    BY DEF IInv, TypeOK
  <2>4. \A d \in Calls : d # c => pc'[d] = pc[d] /\ reply'[d] = reply[d]
    BY <2>2, <2>3 DEF Goto, Answer
  <2>5. /\ pc'[c] \in {"finding_user", "loading"} => pc[c] = "finding_user"
        /\ pc'[c] # "idle"
        /\ reply'[c] = reply[c] \/ (reply'[c].status # 200 /\ pc'[c] = "answered")
    BY <2>2, <2>3 DEF Goto, Answer
  <2> QED
    BY <2>1, <2>2, <2>4, <2>5
<1>2. Untouched'
  BY <1>1 DEF IInv, Untouched
<1>3. Unlogged'
  BY <1>1 DEF IInv, Unlogged
<1>4. StandingPolicies' /\ \A d \in Calls : StandingLoaded(d) => StandingLoaded(d)'
  BY <1>1 DEF IInv, StandingPolicies, StandingLoaded
<1>5. ApprovedLoaded' /\ Guarded'
  BY <1>1, <1>4, UndecidedStep DEF IInv, Guarded
<1>6. VerdictGivenIsLogged'
  <2>1. \A d \in Calls : LogRow(d)' = LogRow(d)
    BY <1>1, SameRow
  <2>2. reply'[c].status # 200
    BY <1>1 DEF IInv, Unlogged
  <2> QED
    BY <1>1, <2>1, <2>2 DEF IInv, VerdictGivenIsLogged
<1> QED
  BY <1>2, <1>3, <1>4, <1>5, <1>6 DEF IInv

(* Where the rules that judge a request are read and evaluated.            *)
LEMMA LoadAndEvaluateStep ==
  ASSUME IInv, TypeOK', NEW c \in Calls, LoadAndEvaluate(c)
  PROVE  IInv'
<1> DEFINE rows  == SelectedPolicies(request[c].user)
           lists == [p \in rows |-> policies[p].rules]
           rules == Flatten(lists)
           v     == Evaluate(rules, Tx(c), Context(c))
<1>1. /\ pc[c] = "loading"
      /\ UNCHANGED << users, policies, txlog, provider, request, signing, standing >>
      /\ \/ UNCHANGED << loaded, verdict, lit >> /\ Answer(c, 500)
         \/ UNCHANGED << loaded, verdict, lit, reply >> /\ Goto(c, "dropped")
         \/ /\ \A p \in rows : policies[p].rules # Unreadable
            /\ loaded' = [loaded EXCEPT ![c] = lists]
            /\ verdict' = [verdict EXCEPT ![c] = v]
            /\ Goto(c, "signing") \/ Goto(c, "logging")
            /\ \/ lit' = lit
               \/ v.decision = "approved" /\ lit' = [lit EXCEPT ![c] = "asked"]
            /\ UNCHANGED reply
  BY DEF LoadAndEvaluate
<1>2. verdict[c] = None /\ lit[c] = "idle" /\ signing[c] = None /\ txlog[c] = {}
      /\ reply[c].status = 0
  BY <1>1 DEF IInv, Untouched, Unlogged
<1>3. /\ DOMAIN pc = Calls /\ DOMAIN reply = Calls /\ DOMAIN loaded = Calls
      /\ DOMAIN verdict = Calls /\ DOMAIN lit = Calls
  BY DEF IInv, TypeOK
<1> HIDE DEF lists, v
<1>4. \A d \in Calls : d # c => /\ pc'[d] = pc[d] /\ reply'[d] = reply[d]
                              /\ loaded'[d] = loaded[d] /\ verdict'[d] = verdict[d]
                              /\ lit'[d] = lit[d]
  BY <1>1, <1>3 DEF Goto, Answer
<1>5. pc'[c] \in {"answered", "dropped", "signing", "logging"}
  BY <1>1, <1>3 DEF Goto, Answer
<1>6. reply'[c] = reply[c] \/ (reply'[c].status = 500 /\ pc'[c] = "answered")
  BY <1>1, <1>3 DEF Goto, Answer
<1>7. \/ verdict'[c] = None /\ lit'[c] = "idle"
      \/ /\ \A p \in rows : policies[p].rules # Unreadable
         /\ loaded'[c] = lists
         /\ verdict'[c] = v
         /\ lit'[c] # "idle" => v.decision = "approved"
  BY <1>1, <1>2, <1>3
<1>8. ASSUME \A p \in rows : policies[p].rules # Unreadable,
             loaded'[c] = lists, v.decision = "approved"
      PROVE  AllPass(c)' /\ StandingLoaded(c)'
  <2>1. DOMAIN lists = rows /\ \A p \in rows : lists[p] = policies[p].rules
    BY DEF lists
  <2>2. \A p \in DOMAIN lists : \A i \in DOMAIN lists[p] : lists[p][i] \in PolicyRule
    <3>1. \A p \in DOMAIN lists : lists[p] \in RuleLists
      BY <1>8, <2>1 DEF IInv, TypeOK, PolicyRow, SelectedPolicies, ActivePoliciesOf
    <3> QED
      BY <3>1, InputAssumption
  <2>3. Approved(rules, Tx(c), Context(c))
    BY <1>8 DEF Approved, v
  <2>4. /\ \E p \in DOMAIN lists : DOMAIN lists[p] # {}
        /\ \A p \in DOMAIN lists : \A i \in DOMAIN lists[p] :
             Outcome(lists[p][i], Tx(c), Context(c)) = "pass"
    BY <2>2, <2>3, FlattenApproved
  <2>5. Tx(c)' = Tx(c) /\ Context(c)' = Context(c)
    BY <1>1 DEF Tx, Context
  <2>6. AllPass(c)'
    BY <1>8, <2>4, <2>5 DEF AllPass, RulePasses
  <2>7. \A p \in standing[c] : p \in rows
    BY <1>1 DEF IInv, TypeOK, StandingPolicies, SelectedPolicies, ActivePoliciesOf
  <2>8. StandingLoaded(c)'
    BY <1>1, <1>8, <2>1, <2>7 DEF StandingLoaded
  <2> QED
    BY <2>6, <2>8
<1>9. \A d \in Calls : d # c => (AllPass(d) => AllPass(d)') /\ LogRow(d)' = LogRow(d)
                               /\ (StandingLoaded(d) => StandingLoaded(d)')
  BY <1>1, <1>4, SameRulesPass, SameRow DEF StandingLoaded
<1>10. Untouched'
  BY <1>1, <1>4, <1>5 DEF IInv, Untouched
<1>11. Unlogged'
  BY <1>1, <1>2, <1>4, <1>5, <1>6 DEF IInv, Unlogged
<1>12. StandingPolicies'
  BY <1>1 DEF IInv, StandingPolicies
<1>13. ApprovedLoaded'
  BY <1>4, <1>7, <1>8, <1>9 DEF IInv, ApprovedLoaded
<1>14. Guarded'
  BY <1>1, <1>2, <1>4, <1>7, <1>8, <1>9 DEF IInv, Guarded
<1>15. VerdictGivenIsLogged'
  <2>1. reply'[c].status # 200
    BY <1>2, <1>6
  <2> QED
    BY <1>1, <1>4, <1>9, <2>1 DEF IInv, VerdictGivenIsLogged
<1> QED
  BY <1>10, <1>11, <1>12, <1>13, <1>14, <1>15 DEF IInv

LEMMA RunLitActionStep ==
  ASSUME IInv, TypeOK', NEW c \in Calls, RunLitAction(c)
  PROVE  IInv'
<1>1. /\ lit[c] = "asked"
      /\ \A d \in Calls : d # c => lit'[d] = lit[d]
      /\ UNCHANGED << policies, txlog, pc, request, loaded, verdict, signing, reply,
                      standing >>
  BY DEF IInv, TypeOK, RunLitAction
<1>2. signing[c] = None
  BY <1>1 DEF IInv, Guarded
<1>3. Untouched' /\ Unlogged'
  BY <1>1 DEF IInv, Untouched, Unlogged
<1>4. StandingPolicies' /\ \A d \in Calls : StandingLoaded(d) => StandingLoaded(d)'
  BY <1>1 DEF IInv, StandingPolicies, StandingLoaded
<1>5. ApprovedLoaded' /\ Guarded'
  <2>1. \A d \in Calls : lit'[d] # "idle" => lit[d] # "idle"
    BY <1>1
  <2>2. \A d \in Calls : signing'[d] # None => lit'[d] = "signed"
    BY <1>1, <1>2 DEF IInv, Guarded
  <2> QED
    BY <1>1, <1>4, <2>1, <2>2, UndecidedStep DEF IInv
<1>6. VerdictGivenIsLogged'
  <2>1. \A d \in Calls : LogRow(d)' = LogRow(d)
    BY <1>1, SameRow
  <2> QED
    BY <1>1, <1>2, <2>1 DEF IInv, VerdictGivenIsLogged
<1> QED
  BY <1>3, <1>4, <1>5, <1>6 DEF IInv

LEMMA SigningAnsweredStep ==
  ASSUME IInv, TypeOK', NEW c \in Calls, SigningAnswered(c)
  PROVE  IInv'
<1>1. /\ pc[c] = "signing" /\ lit[c] = "signed" /\ pc'[c] = "logging"
      /\ \A d \in Calls : d # c => pc'[d] = pc[d] /\ signing'[d] = signing[d]
      /\ UNCHANGED << policies, txlog, request, loaded, verdict, lit, reply, standing >>
  BY DEF IInv, TypeOK, SigningAnswered, Goto
<1>2. Untouched' /\ Unlogged'
  BY <1>1 DEF IInv, Untouched, Unlogged
<1>3. StandingPolicies' /\ \A d \in Calls : StandingLoaded(d) => StandingLoaded(d)'
  BY <1>1 DEF IInv, StandingPolicies, StandingLoaded
<1>4. ApprovedLoaded' /\ Guarded'
  <2>1. \A d \in Calls : signing'[d] # None => lit'[d] = "signed"
    BY <1>1 DEF IInv, Guarded
  <2> QED
    BY <1>1, <1>3, <2>1, UndecidedStep DEF IInv
<1>5. VerdictGivenIsLogged'
  <2>1. \A d \in Calls : LogRow(d)' = LogRow(d)
    BY <1>1, SameRow
  <2>2. reply'[c].status # 200
    BY <1>1 DEF IInv, Unlogged
  <2> QED
    BY <1>1, <2>1, <2>2 DEF IInv, VerdictGivenIsLogged
<1> QED
  BY <1>2, <1>3, <1>4, <1>5 DEF IInv

LEMMA LogStep ==
  ASSUME IInv, TypeOK', NEW c \in Calls, LogAndReply(c) \/ LogAndLose(c)
  PROVE  IInv'
<1>1. /\ pc[c] = "logging"
      /\ txlog' = [txlog EXCEPT ![c] = @ \union {LogRow(c)}]
      /\ UNCHANGED << policies, request, loaded, verdict, signing, lit, standing >>
      /\ \/ Answer(c, 200)
         \/ Answer(c, 500)
         \/ Goto(c, "dropped") /\ UNCHANGED reply
  BY DEF LogAndReply, LogAndLose
<1>2. DOMAIN pc = Calls /\ DOMAIN reply = Calls /\ DOMAIN txlog = Calls
  BY DEF IInv, TypeOK
<1>3. \A d \in Calls : d # c => /\ pc'[d] = pc[d] /\ reply'[d] = reply[d]
                              /\ txlog'[d] = txlog[d]
  BY <1>1, <1>2 DEF Goto, Answer
<1>4. /\ pc'[c] \in {"answered", "dropped"}
      /\ reply'[c] = reply[c] \/ pc'[c] = "answered"
      /\ reply'[c] = reply[c] \/ reply'[c].verdict = verdict[c]
      /\ reply'[c] = reply[c] \/ reply'[c].signing = signing[c]
  BY <1>1, <1>2 DEF Goto, Answer
<1>5. txlog[c] = {} /\ reply[c].status = 0
  BY <1>1 DEF IInv, Unlogged
<1>6. \A d \in Calls : LogRow(d)' = LogRow(d)
  BY <1>1, SameRow
<1>7. txlog'[c] = {LogRow(c)}
  BY <1>1, <1>2, <1>5
<1>8. Untouched'
  BY <1>1, <1>3, <1>4 DEF IInv, Untouched
<1>9. Unlogged'
  BY <1>3, <1>4, <1>5 DEF IInv, Unlogged
<1>10. StandingPolicies' /\ \A d \in Calls : StandingLoaded(d) => StandingLoaded(d)'
  BY <1>1 DEF IInv, StandingPolicies, StandingLoaded
<1>11. ApprovedLoaded' /\ Guarded'
  BY <1>1, <1>10, UndecidedStep DEF IInv, Guarded
<1>12. VerdictGivenIsLogged'
  <2>1. signing[c] # None => verdict[c].decision = "approved" /\ lit[c] = "signed"
    BY DEF IInv, Guarded
  <2> QED
    BY <1>1, <1>3, <1>4, <1>5, <1>6, <1>7, <2>1 DEF IInv, VerdictGivenIsLogged
<1> QED
  BY <1>8, <1>9, <1>10, <1>11, <1>12 DEF IInv

LEMMA Invariance == Spec => []IInv
<1>1. Init => IInv
  <2>1. Init => TypeOK
    BY TypeInit
  <2>2. Init => Untouched /\ Unlogged /\ StandingPolicies
    BY DEF Init, Untouched, Unlogged, StandingPolicies, NoReply
  <2>3. Init => ApprovedLoaded /\ Guarded /\ VerdictGivenIsLogged
    BY DEF Init, ApprovedLoaded, Guarded, VerdictGivenIsLogged, NoReply
  <2> QED
    BY <2>1, <2>2, <2>3 DEF IInv
<1>2. IInv /\ TypeOK' /\ [Next]_vars => IInv'
  <2> SUFFICES ASSUME IInv, TypeOK', [Next]_vars PROVE IInv'
    OBVIOUS
  <2>1. CASE UNCHANGED vars
    <3>1. UNCHANGED call /\ UNCHANGED << policies, txlog, lit, standing >>
      BY <2>1 DEF vars
    <3>2. StandingPolicies' /\ \A c \in Calls : StandingLoaded(c) => StandingLoaded(c)'
      BY <3>1 DEF IInv, StandingPolicies, StandingLoaded
    <3> QED
      BY <3>1, <3>2, TablesStep
  <2>2. CASE \E u \in Users : CreateUser(u)
    BY <2>2, CreateUserStep
  <2>3. CASE \E p \in PolicyIds, u \in Users, rules \in RuleLists : CreatePolicy(p, u, rules)
    BY <2>3, CreatePolicyStep
  <2>4. CASE \E p \in PolicyIds : DeletePolicy(p)
    BY <2>4, DeletePolicyStep
  <2>5. CASE \E c \in Calls, u \in Users, body \in Wires : Receive(c, u, body)
    BY <2>5, ReceiveStep
  <2>6. ASSUME NEW c \in Calls, Handle(c) \/ RunLitAction(c) \/ Abandon(c)
        PROVE  IInv'
    BY <2>6, MovesOnStep, LoadAndEvaluateStep, SigningAnsweredStep, LogStep,
       RunLitActionStep DEF Handle
  <2> QED
    BY <2>1, <2>2, <2>3, <2>4, <2>5, <2>6 DEF Next
<1> QED
  BY <1>1, <1>2, TypeCorrect, PTL DEF Spec

-----------------------------------------------------------------------------
(* An approved request passes every rule of every policy that stood since  *)
(* the call arrived, however policies came and went while it was handled.  *)
THEOREM StandingPoliciesHonoured == Spec => []ApprovalHonoursStandingPolicies
<1>1. IInv => ApprovalHonoursStandingPolicies
  BY DEF IInv, ApprovedLoaded, AllPass, StandingLoaded, ApprovalHonoursStandingPolicies
<1> QED
  BY <1>1, Invariance, PTL

(* Nothing but a request that passes all rules, and at least one, is sent  *)
(* to be signed.                                                           *)
THEOREM SigningGuarded == Spec => []SigningPathIsGuarded
<1>1. IInv => SigningPathIsGuarded
  BY DEF IInv, Guarded, AllPass, SigningPathIsGuarded
<1> QED
  BY <1>1, Invariance, PTL

(* A verdict that a client is given is the one on record, and a signature  *)
(* it is given is one the network made for an approval.                    *)
THEOREM GivenVerdictLogged == Spec => []VerdictGivenIsLogged
<1>1. IInv => VerdictGivenIsLogged
  BY DEF IInv
<1> QED
  BY <1>1, Invariance, PTL

(* Policies keep their rules and stay deactivated, log rows are final.     *)
THEOREM RecordsAreFinal == Spec => RecordsStay
<1>1. IInv /\ [Next]_vars => [RecordsKept]_vars
  <2> SUFFICES ASSUME IInv, Next PROVE RecordsKept
    OBVIOUS
  <2>1. CASE UNCHANGED << policies, txlog >>
    BY <2>1 DEF RecordsKept
  <2>2. ASSUME NEW p \in PolicyIds, NEW u \in Users, NEW rules \in RuleLists,
               CreatePolicy(p, u, rules)
        PROVE  RecordsKept
    BY <2>2 DEF RecordsKept, IInv, TypeOK, CreatePolicy
  <2>3. ASSUME NEW p \in PolicyIds, DeletePolicy(p)
        PROVE  RecordsKept
    <3>1. policies[p] \in PolicyRow
      BY <2>3 DEF IInv, TypeOK, DeletePolicy
    <3>2. /\ Deactivated(policies[p]) # None
          /\ Deactivated(policies[p]).user = policies[p].user
          /\ Deactivated(policies[p]).rules = policies[p].rules
          /\ Deactivated(policies[p]).active = FALSE
      BY <3>1, InputAssumption DEF Deactivated, PolicyRow
    <3>3. /\ policies'[p] = Deactivated(policies[p])
          /\ \A q \in PolicyIds : q # p => policies'[q] = policies[q]
          /\ txlog' = txlog
      BY <2>3 DEF IInv, TypeOK, DeletePolicy
    <3> QED
      BY <3>2, <3>3 DEF RecordsKept
  <2>4. ASSUME NEW c \in Calls, LogAndReply(c) \/ LogAndLose(c)
        PROVE  RecordsKept
    <3>1. txlog[c] = {}
      BY <2>4 DEF IInv, Unlogged, LogAndReply, LogAndLose
    <3>2. policies' = policies /\ \A d \in Calls : d # c => txlog'[d] = txlog[d]
      BY <2>4 DEF IInv, TypeOK, LogAndReply, LogAndLose
    <3> QED
      BY <3>1, <3>2 DEF RecordsKept
  <2>5. ASSUME NEW c \in Calls, Handle(c) \/ RunLitAction(c) \/ Abandon(c)
        PROVE  RecordsKept
    <3>1. LogAndReply(c) \/ LogAndLose(c) \/ UNCHANGED << policies, txlog >>
      BY <2>5 DEF Handle, FindUser, LoadAndEvaluate, SigningAnswered, SigningFailed,
                  QueryFails, RunLitAction, Abandon
    <3> QED
      BY <2>1, <2>4, <3>1
  <2> QED
    BY <2>1, <2>2, <2>3, <2>5 DEF Next, CreateUser, Receive
<1> QED
  BY <1>1, Invariance, PTL DEF Spec, RecordsStay

-----------------------------------------------------------------------------
(* The refinement.  What a call shows of itself changes only where the     *)
(* gate lets it: a step of one call leaves those of the others alone.      *)

(* A call that is to be evaluated has a body that converts, and from then  *)
(* on a verdict.                                                           *)
Evaluated ==
  \A c \in Calls :
    /\ pc[c] \in {"finding_user", "loading"} => Convertible(request[c].body)
    /\ pc[c] \in {"signing", "logging"} \/ lit[c] # "idle" => verdict[c] # None

LEMMA EvaluatedInit == Init => Evaluated
  BY DEF Init, Evaluated

LEMMA VerdictIsSome ==
  ASSUME IInv, Evaluated, NEW c \in Calls, pc[c] = "loading",
         NEW rows, rows = SelectedPolicies(request[c].user),
         \A p \in rows : policies[p].rules # Unreadable
  PROVE  Evaluate(Flatten([p \in rows |-> policies[p].rules]), Tx(c), Context(c)) # None
<1>1. rows \in SUBSET PolicyIds
  BY DEF SelectedPolicies, ActivePoliciesOf
<1>2. [p \in rows |-> policies[p].rules] \in [rows -> RuleLists]
  BY <1>1 DEF IInv, TypeOK, PolicyRow, SelectedPolicies, ActivePoliciesOf
<1>3. request[c].body \in Wires /\ Convertible(request[c].body)
  BY DEF IInv, TypeOK, Evaluated
<1> QED
  BY <1>1, <1>2, <1>3, VerdictAssumption DEF Tx, Context

(* What LoadAndEvaluate does to a call.                                    *)
LEMMA LoadAndEvaluateEffect ==
  ASSUME IInv, Evaluated, NEW c \in Calls, LoadAndEvaluate(c)
  PROVE  /\ pc[c] = "loading"
         /\ \/ /\ UNCHANGED << verdict, lit >>
               /\ Answer(c, 500) \/ (Goto(c, "dropped") /\ UNCHANGED reply)
            \/ \E v : /\ v # None /\ v.decision \in {"approved", "blocked"}
                      /\ verdict' = [verdict EXCEPT ![c] = v]
                      /\ lit' = lit \/ lit' = [lit EXCEPT ![c] = "asked"]
                      /\ Goto(c, "signing") \/ Goto(c, "logging")
                      /\ UNCHANGED reply
         /\ UNCHANGED << txlog, request >>
<1> DEFINE rows  == SelectedPolicies(request[c].user)
           lists == [p \in rows |-> policies[p].rules]
           v     == Evaluate(Flatten(lists), Tx(c), Context(c))
<1>1. pc[c] = "loading" /\ UNCHANGED << txlog, request >>
  BY DEF LoadAndEvaluate
<1>2. ASSUME \A p \in rows : policies[p].rules # Unreadable
      PROVE  v # None
  BY <1>1, <1>2, VerdictIsSome
<1>3. v.decision \in {"approved", "blocked"}
  BY EvaluateDecides
<1>4. \/ UNCHANGED << verdict, lit >> /\ Answer(c, 500)
      \/ UNCHANGED << verdict, lit, reply >> /\ Goto(c, "dropped")
      \/ /\ \A p \in rows : policies[p].rules # Unreadable
         /\ verdict' = [verdict EXCEPT ![c] = v]
         /\ lit' = lit \/ lit' = [lit EXCEPT ![c] = "asked"]
         /\ Goto(c, "signing") \/ Goto(c, "logging")
         /\ UNCHANGED reply
  BY DEF LoadAndEvaluate
<1> HIDE DEF v
<1> QED
  BY <1>1, <1>2, <1>3, <1>4

(* What a call shows depends on these four variables only.                 *)
LEMMA SameShown ==
  ASSUME NEW c \in Calls, verdict'[c] = verdict[c], txlog'[c] = txlog[c],
         reply'[c] = reply[c], lit'[c] = lit[c]
  PROVE  /\ Decision(c)' = Decision(c) /\ Recorded(c)' = Recorded(c)
         /\ Told(c)' = Told(c)
         /\ (lit[c] = "signed")' = (lit[c] = "signed")
<1>1. Decision(c)' = Decision(c)
  BY DEF Decision
<1>2. Recorded(c)' = Recorded(c)
  BY DEF Recorded
<1>3. Told(c)' = Told(c)
  BY DEF Told
<1> QED
  BY <1>1, <1>2, <1>3

(* A step that changes at most what one call shows.                        *)
OnlyShows(c) ==
  \A d \in Calls : d # c =>
    /\ Decision(d)' = Decision(d) /\ Recorded(d)' = Recorded(d) /\ Told(d)' = Told(d)
    /\ (lit[d] = "signed")' = (lit[d] = "signed")

KeepsKey(c) == (lit[c] = "signed")' = (lit[c] = "signed")

LEMMA GateStutters ==
  ASSUME NEW c \in Calls, OnlyShows(c), KeepsKey(c),
         Decision(c)' = Decision(c), Recorded(c)' = Recorded(c), Told(c)' = Told(c)
  PROVE  UNCHANGED Gate!vars
  BY DEF Gate!vars, OnlyShows, KeepsKey

LEMMA GateDecides ==
  ASSUME NEW c \in Calls, OnlyShows(c), KeepsKey(c),
         Decision(c) = "none", Told(c) = "nothing",
         Decision(c)' \in {"approved", "blocked"},
         Recorded(c)' = Recorded(c), Told(c)' = Told(c)
  PROVE  Gate!Next
<1>1. Gate!Decide(c, Decision(c)')
  BY DEF Gate!Decide, OnlyShows, KeepsKey
<1> QED
  BY <1>1 DEF Gate!Next

LEMMA GateUsesKey ==
  ASSUME NEW c \in Calls, OnlyShows(c),
         Decision(c) = "approved", lit[c] # "signed", lit'[c] = "signed",
         Decision(c)' = Decision(c), Recorded(c)' = Recorded(c), Told(c)' = Told(c)
  PROVE  Gate!Next
<1>1. Gate!UseKey(c)
  BY DEF Gate!UseKey, OnlyShows
<1> QED
  BY <1>1 DEF Gate!Next

LEMMA GateRecords ==
  ASSUME NEW c \in Calls, OnlyShows(c), KeepsKey(c),
         Decision(c) \in {"approved", "blocked"}, Recorded(c) = "none",
         Told(c) = "nothing", Told(c)' \in {Decision(c), "error", "nothing"},
         Decision(c)' = Decision(c), Recorded(c)' = Decision(c)
  PROVE  Gate!Next
<1>1. Gate!Record(c, Told(c)')
  BY DEF Gate!Record, OnlyShows, KeepsKey
<1> QED
  BY <1>1 DEF Gate!Next

LEMMA GateRefuses ==
  ASSUME NEW c \in Calls, OnlyShows(c), KeepsKey(c),
         Recorded(c) = "none", Told(c) = "nothing", Told(c)' = "error",
         Decision(c)' = Decision(c), Recorded(c)' = Recorded(c)
  PROVE  Gate!Next
<1>1. Gate!Refuse(c)
  BY DEF Gate!Refuse, OnlyShows, KeepsKey
<1> QED
  BY <1>1 DEF Gate!Next

(* A call that has not come to its end has recorded and told nothing.      *)
LEMMA UnendedShows ==
  ASSUME IInv, NEW c \in Calls, pc[c] \notin {"answered", "dropped"}
  PROVE  Recorded(c) = "none" /\ Told(c) = "nothing"
<1>1. txlog[c] = {} /\ reply[c].status = 0
  BY DEF IInv, Unlogged
<1> QED
  BY <1>1 DEF Recorded, Told

(* Answering a call with an error refuses it.                              *)
LEMMA ErrorRefuses ==
  ASSUME IInv, NEW c \in Calls, pc[c] \notin {"answered", "dropped"},
         NEW status \in {400, 404, 500}, Answer(c, status),
         UNCHANGED << txlog, verdict, lit >>
  PROVE  Gate!Next
<1>1. /\ \A d \in Calls : d # c => reply'[d] = reply[d]
      /\ reply'[c].status = status
  BY DEF IInv, TypeOK, Answer
<1>2. OnlyShows(c) /\ KeepsKey(c)
  BY <1>1, SameShown DEF OnlyShows, KeepsKey
<1>3. Decision(c)' = Decision(c) /\ Recorded(c)' = Recorded(c)
  BY DEF Decision, Recorded
<1>4. Told(c)' = "error"
  BY <1>1 DEF Told
<1> QED
  BY <1>2, <1>3, <1>4, UnendedShows, GateRefuses

LEMMA SilentStutters ==
  ASSUME UNCHANGED << txlog, verdict, lit, reply >>
  PROVE  UNCHANGED Gate!vars
<1>1. \A c \in Calls : /\ Decision(c)' = Decision(c) /\ Recorded(c)' = Recorded(c)
                       /\ Told(c)' = Told(c)
                       /\ (lit[c] = "signed")' = (lit[c] = "signed")
  BY SameShown
<1> QED
  BY <1>1 DEF Gate!vars

LEMMA LoadAndEvaluateRefines ==
  ASSUME IInv, Evaluated, NEW c \in Calls, LoadAndEvaluate(c)
  PROVE  Gate!Next \/ UNCHANGED Gate!vars
<1>1. pc[c] = "loading" /\ UNCHANGED << txlog, request >>
  BY LoadAndEvaluateEffect
<1>2. CASE UNCHANGED << verdict, lit >> /\ Answer(c, 500)
  BY <1>1, <1>2, ErrorRefuses
<1>3. CASE UNCHANGED << verdict, lit, reply >>
  BY <1>1, <1>3, SilentStutters
<1>4. ASSUME NEW v, v # None, v.decision \in {"approved", "blocked"},
             verdict' = [verdict EXCEPT ![c] = v],
             lit' = lit \/ lit' = [lit EXCEPT ![c] = "asked"],
             UNCHANGED reply
      PROVE  Gate!Next
  <2>1. verdict[c] = None /\ lit[c] = "idle"
    BY <1>1 DEF IInv, Untouched
  <2>2. /\ verdict'[c] = v /\ lit'[c] # "signed"
        /\ \A d \in Calls : d # c => verdict'[d] = verdict[d] /\ lit'[d] = lit[d]
    BY <1>4, <2>1 DEF IInv, TypeOK
  <2>3. OnlyShows(c)
    BY <1>1, <1>4, <2>2, SameShown DEF OnlyShows
  <2>4. KeepsKey(c)
    BY <2>1, <2>2 DEF KeepsKey
  <2>5. Decision(c) = "none" /\ Decision(c)' = v.decision
    BY <1>4, <2>1, <2>2 DEF Decision
  <2>6. Recorded(c)' = Recorded(c) /\ Told(c)' = Told(c)
    BY <1>1, <1>4 DEF Recorded, Told
  <2>7. Told(c) = "nothing"
    BY <1>1, UnendedShows
  <2> QED
    BY <1>4, <2>3, <2>4, <2>5, <2>6, <2>7, GateDecides
<1> QED
  BY <1>1, <1>2, <1>3, <1>4, LoadAndEvaluateEffect

LEMMA RunLitActionRefines ==
  ASSUME IInv, Evaluated, NEW c \in Calls, RunLitAction(c)
  PROVE  Gate!Next \/ UNCHANGED Gate!vars
<1>1. /\ lit[c] = "asked" /\ lit'[c] \in {"signed", "refused"}
      /\ \A d \in Calls : d # c => lit'[d] = lit[d]
      /\ UNCHANGED << txlog, verdict, reply >>
  BY DEF IInv, TypeOK, RunLitAction
<1>2. OnlyShows(c)
  BY <1>1, SameShown DEF OnlyShows
<1>3. Decision(c)' = Decision(c) /\ Recorded(c)' = Recorded(c) /\ Told(c)' = Told(c)
  BY <1>1 DEF Decision, Recorded, Told
<1>4. Decision(c) = "approved"
  BY <1>1 DEF IInv, Guarded, Evaluated, Decision
<1>5. CASE lit'[c] = "signed"
  BY <1>1, <1>2, <1>3, <1>4, <1>5, GateUsesKey
<1>6. CASE lit'[c] = "refused"
  <2>1. KeepsKey(c)
    BY <1>1, <1>6 DEF KeepsKey
  <2> QED
    BY <1>2, <1>3, <2>1, GateStutters
<1> QED
  BY <1>1, <1>5, <1>6

LEMMA LogRefines ==
  ASSUME IInv, Evaluated, NEW c \in Calls, LogAndReply(c) \/ LogAndLose(c)
  PROVE  Gate!Next
<1>1. /\ pc[c] = "logging"
      /\ txlog' = [txlog EXCEPT ![c] = @ \union {LogRow(c)}]
      /\ UNCHANGED << verdict, lit >>
      /\ \/ Answer(c, 200)
         \/ Answer(c, 500)
         \/ UNCHANGED reply
  BY DEF LogAndReply, LogAndLose
<1>2. txlog[c] = {} /\ reply[c].status = 0
  BY <1>1 DEF IInv, Unlogged
<1>3. /\ \A d \in Calls : d # c => reply'[d] = reply[d] /\ txlog'[d] = txlog[d]
      /\ txlog'[c] = {LogRow(c)}
      /\ \/ reply'[c].status = 200 /\ reply'[c].verdict = verdict[c]
         \/ reply'[c].status = 500
         \/ reply'[c].status = 0
  BY <1>1, <1>2 DEF IInv, TypeOK, Answer
<1>4. verdict[c] # None /\ verdict[c].decision \in {"approved", "blocked"}
  BY <1>1 DEF IInv, TypeOK, Evaluated
<1>5. OnlyShows(c) /\ KeepsKey(c)
  BY <1>1, <1>3, SameShown DEF OnlyShows, KeepsKey
<1>6. /\ Decision(c) = verdict[c].decision /\ Decision(c)' = Decision(c)
  BY <1>1, <1>4 DEF Decision
<1>7. Recorded(c)' = Decision(c)
  <2>1. (CHOOSE row \in {LogRow(c)} : TRUE) = LogRow(c)
    OBVIOUS
  <2>2. LogRow(c).verdict = verdict[c].decision
    BY DEF LogRow
  <2> QED
    BY <1>3, <1>6, <2>1, <2>2 DEF Recorded
<1>8. Told(c)' \in {Decision(c), "error", "nothing"}
  BY <1>3, <1>6 DEF Told
<1>9. Recorded(c) = "none" /\ Told(c) = "nothing"
  BY <1>1, UnendedShows
<1> QED
  BY <1>4, <1>5, <1>6, <1>7, <1>8, <1>9, GateRecords

LEMMA EvaluatedStep ==
  ASSUME IInv, Evaluated, [Next]_vars
  PROVE  Evaluated'
<1>0. /\ DOMAIN pc = Calls /\ DOMAIN verdict = Calls /\ DOMAIN lit = Calls
      /\ DOMAIN request = Calls
  BY DEF IInv, TypeOK
<1>1. CASE UNCHANGED << pc, lit, request, verdict >>
  BY <1>1 DEF Evaluated
<1>2. ASSUME NEW c \in Calls, NEW u \in Users, NEW body \in Wires, Receive(c, u, body)
      PROVE  Evaluated'
  <2>1. /\ UNCHANGED << verdict, lit >>
        /\ request' = [request EXCEPT ![c] = [user |-> u, body |-> body]]
        /\ \/ Convertible(body) /\ Goto(c, "finding_user")
           \/ Goto(c, "answered")
        /\ pc[c] = "idle"
    BY <1>2 DEF Receive, Answer
  <2>2. lit[c] = "idle"
    BY <2>1 DEF IInv, Untouched
  <2> QED
    BY <1>0, <2>1, <2>2 DEF Evaluated, Goto
<1>3. ASSUME NEW c \in Calls, LoadAndEvaluate(c)
      PROVE  Evaluated'
  <2>1. lit[c] = "idle"
    BY <1>3, LoadAndEvaluateEffect DEF IInv, Untouched
  <2>2. CASE /\ UNCHANGED << verdict, lit >>
             /\ Goto(c, "answered") \/ Goto(c, "dropped")
    BY <1>0, <1>3, <2>1, <2>2, LoadAndEvaluateEffect DEF Evaluated, Goto
  <2>3. ASSUME NEW v, v # None, verdict' = [verdict EXCEPT ![c] = v],
               lit' = lit \/ lit' = [lit EXCEPT ![c] = "asked"],
               Goto(c, "signing") \/ Goto(c, "logging")
        PROVE  Evaluated'
    <3>1. request' = request
      BY <1>3, LoadAndEvaluateEffect
    <3>2. pc'[c] \in {"signing", "logging"} /\ verdict'[c] # None
      BY <1>0, <2>3 DEF Goto
    <3>3. \A d \in Calls : d # c => pc'[d] = pc[d] /\ verdict'[d] = verdict[d] /\ lit'[d] = lit[d]
      BY <1>0, <2>3 DEF Goto
    <3> QED
      BY <3>1, <3>2, <3>3 DEF Evaluated
  <2> QED
    BY <1>3, <2>2, <2>3, LoadAndEvaluateEffect DEF Answer
<1>4. ASSUME NEW c \in Calls, RunLitAction(c)
      PROVE  Evaluated'
  BY <1>0, <1>4 DEF Evaluated, RunLitAction
<1>5. ASSUME NEW c \in Calls,
             \/ FindUser(c) \/ SigningAnswered(c) \/ SigningFailed(c) \/ LogAndReply(c)
             \/ LogAndLose(c) \/ QueryFails(c) \/ Abandon(c)
      PROVE  Evaluated'
  <2>1. /\ UNCHANGED << verdict, lit, request >>
        /\ \/ Goto(c, "loading") /\ pc[c] = "finding_user"
           \/ Goto(c, "logging") /\ pc[c] = "signing"
           \/ Goto(c, "answered")
           \/ Goto(c, "dropped")
    BY <1>5 DEF FindUser, SigningAnswered, SigningFailed, LogAndReply, LogAndLose,
                QueryFails, Abandon, Answer
  <2> QED
    BY <1>0, <2>1 DEF Evaluated, Goto
<1>6. ASSUME NEW p \in PolicyIds, NEW u \in Users, NEW rules \in RuleLists,
             CreatePolicy(p, u, rules)
      PROVE  Evaluated'
  BY <1>1, <1>6 DEF CreatePolicy
<1>7. CASE UNCHANGED vars
  BY <1>1, <1>7 DEF vars
<1> QED
  BY <1>1, <1>2, <1>3, <1>4, <1>5, <1>6, <1>7
     DEF Next, Handle, CreateUser, DeletePolicy

(* The server implements the abstract gate, for any number of calls: each  *)
(* step of the one is a step of the other or changes nothing it shows.     *)
THEOREM ServiceImplementsGate == Spec => ImplementsGate
<1>1. Init => Gate!Init
  BY DEF Init, Gate!Init, Decision, Recorded, Told, NoReply
<1>2. ASSUME IInv, Evaluated, [Next]_vars
      PROVE  Gate!Next \/ UNCHANGED Gate!vars
  <2>1. CASE UNCHANGED << txlog, verdict, lit, reply >>
    BY <2>1, SilentStutters
  <2>2. ASSUME NEW c \in Calls, NEW u \in Users, NEW body \in Wires, Receive(c, u, body)
        PROVE  Gate!Next \/ UNCHANGED Gate!vars
    <3>1. /\ pc[c] = "idle" /\ UNCHANGED << txlog, verdict, lit >>
          /\ Answer(c, 400) \/ UNCHANGED reply
      BY <2>2 DEF Receive
    <3>2. CASE Answer(c, 400)
      BY <1>2, <3>1, <3>2, ErrorRefuses
    <3> QED
      BY <2>1, <3>1, <3>2
  <2>3. ASSUME NEW c \in Calls, FindUser(c) \/ QueryFails(c)
        PROVE  Gate!Next \/ UNCHANGED Gate!vars
    <3>1. /\ pc[c] \notin {"answered", "dropped"} /\ UNCHANGED << txlog, verdict, lit >>
          /\ Answer(c, 404) \/ Answer(c, 500) \/ UNCHANGED reply
      BY <2>3 DEF FindUser, QueryFails, AwaitsDatabase
    <3>2. CASE Answer(c, 404) \/ Answer(c, 500)
      BY <1>2, <3>1, <3>2, ErrorRefuses
    <3> QED
      BY <2>1, <3>1, <3>2
  <2>4. ASSUME NEW c \in Calls, SigningAnswered(c) \/ SigningFailed(c) \/ Abandon(c)
        PROVE  Gate!Next \/ UNCHANGED Gate!vars
    BY <2>1, <2>4 DEF SigningAnswered, SigningFailed, Abandon
  <2>5. ASSUME NEW c \in Calls, Handle(c) \/ RunLitAction(c) \/ Abandon(c)
        PROVE  Gate!Next \/ UNCHANGED Gate!vars
    BY <1>2, <2>3, <2>4, <2>5, LoadAndEvaluateRefines, RunLitActionRefines, LogRefines
       DEF Handle
  <2>6. CASE \/ \E u \in Users : CreateUser(u)
             \/ \E p \in PolicyIds : DeletePolicy(p)
             \/ \E p \in PolicyIds, u \in Users, rules \in RuleLists :
                  CreatePolicy(p, u, rules)
             \/ UNCHANGED vars
    BY <2>1, <2>6 DEF CreateUser, DeletePolicy, CreatePolicy, vars
  <2> QED
    BY <1>2, <2>2, <2>5, <2>6 DEF Next
<1>3. IInv /\ Evaluated /\ [Next]_vars => Evaluated'
  BY EvaluatedStep
<1> QED
  BY <1>1, <1>2, <1>3, EvaluatedInit, Invariance, PTL DEF Spec, ImplementsGate, Gate!Spec

-----------------------------------------------------------------------------
(* The export.  Its counts say something of the verdict because each row   *)
(* holds one result per rule that was loaded: the verdict stays what the   *)
(* engine makes of the rules loaded, and there are finitely many of them,  *)
(* for the table never holds more than finitely many policies.             *)

Stored == {p \in PolicyIds : policies[p] # None}

JudgedByLoaded(c) ==
  /\ IsFiniteSet(DOMAIN loaded[c])
  /\ \A p \in DOMAIN loaded[c] : loaded[c][p] \in RuleLists
  /\ verdict[c] = Evaluate(Flatten(loaded[c]), Tx(c), Context(c))

RowsTell ==
  /\ IsFiniteSet(Stored)
  /\ \A c \in Calls : verdict[c] # None => JudgedByLoaded(c)
  /\ \A c \in Calls : \A row \in txlog[c] : row = LogRow(c) /\ verdict[c] # None

LEMMA StoredAtFirst ==
  ASSUME Init
  PROVE  IsFiniteSet(Stored)
<1>1. PICK old \in PolicyIds \union {None} : Stored \subseteq {old}
  BY DEF Init, Stored
<1> QED
  BY <1>1, FS_Singleton, FS_Subset

(* A request creates one policy at most.                                   *)
LEMMA StoredStep ==
  ASSUME TypeOK, IsFiniteSet(Stored), [Next]_vars
  PROVE  IsFiniteSet(Stored')
<1>1. CASE policies' = policies
  BY <1>1 DEF Stored
<1>2. ASSUME NEW p \in PolicyIds, \A q \in PolicyIds : q # p => policies'[q] = policies[q]
      PROVE  IsFiniteSet(Stored')
  <2>1. Stored' \subseteq Stored \union {p}
    BY <1>2 DEF Stored
  <2>2. IsFiniteSet(Stored \union {p})
    BY FS_AddElement
  <2> QED
    BY <2>1, <2>2, FS_Subset
<1>3. ASSUME NEW p \in PolicyIds, NEW u \in Users, NEW rules \in RuleLists,
             CreatePolicy(p, u, rules)
      PROVE  IsFiniteSet(Stored')
  BY <1>2, <1>3 DEF TypeOK, CreatePolicy
<1>4. ASSUME NEW p \in PolicyIds, DeletePolicy(p)
      PROVE  IsFiniteSet(Stored')
  BY <1>2, <1>4 DEF TypeOK, DeletePolicy
<1>5. ASSUME NEW c \in Calls, Handle(c) \/ RunLitAction(c) \/ Abandon(c)
      PROVE  policies' = policies
  BY <1>5 DEF Handle, FindUser, LoadAndEvaluate, SigningAnswered, SigningFailed,
              LogAndReply, LogAndLose, QueryFails, RunLitAction, Abandon
<1> QED
  BY <1>1, <1>3, <1>4, <1>5 DEF Next, CreateUser, Receive, vars

LEMMA SameJudged ==
  ASSUME NEW c \in Calls, request'[c] = request[c], loaded'[c] = loaded[c],
         verdict'[c] = verdict[c], JudgedByLoaded(c)
  PROVE  JudgedByLoaded(c)'
<1>1. Tx(c)' = Tx(c) /\ Context(c)' = Context(c)
  BY DEF Tx, Context
<1> QED
  BY <1>1 DEF JudgedByLoaded

(* A step that neither judges a call nor logs it.                          *)
LEMMA RowsUntouched ==
  ASSUME TypeOK, RowsTell, IsFiniteSet(Stored'),
         UNCHANGED << loaded, verdict, txlog >>,
         \A c \in Calls : request'[c] = request[c] \/ (verdict[c] = None /\ txlog[c] = {})
  PROVE  RowsTell'
<1>1. \A c \in Calls : verdict'[c] # None => JudgedByLoaded(c)'
  BY SameJudged DEF RowsTell
<1>2. \A c \in Calls : \A row \in txlog'[c] : row = LogRow(c)' /\ verdict'[c] # None
  BY SameRow DEF RowsTell
<1> QED
  BY <1>1, <1>2 DEF RowsTell

LEMMA RowsTellStep ==
  ASSUME IInv, Evaluated, RowsTell, [Next]_vars
  PROVE  RowsTell'
<1>0. IsFiniteSet(Stored')
  BY StoredStep DEF IInv, RowsTell
<1>1. CASE UNCHANGED << request, loaded, verdict, txlog >>
  BY <1>0, <1>1, RowsUntouched DEF IInv
<1>2. ASSUME NEW c \in Calls, NEW u \in Users, NEW body \in Wires, Receive(c, u, body)
      PROVE  RowsTell'
  <2>1. /\ pc[c] = "idle" /\ UNCHANGED << loaded, verdict, txlog >>
        /\ \A d \in Calls : d # c => request'[d] = request[d]
    BY <1>2 DEF IInv, TypeOK, Receive
  <2>2. verdict[c] = None /\ txlog[c] = {}
    BY <2>1 DEF IInv, Untouched, Unlogged
  <2> QED
    BY <1>0, <2>1, <2>2, RowsUntouched DEF IInv
<1>3. ASSUME NEW c \in Calls, LoadAndEvaluate(c)
      PROVE  RowsTell'
  <2>1. PICK ls : /\ ls = [p \in SelectedPolicies(request[c].user) |-> policies[p].rules]
                  /\ \/ UNCHANGED << loaded, verdict >>
                     \/ /\ \A p \in DOMAIN ls : ls[p] # Unreadable
                        /\ loaded' = [loaded EXCEPT ![c] = ls]
                        /\ verdict' = [verdict EXCEPT ![c] =
                                         Evaluate(Flatten(ls), Tx(c), Context(c))]
    BY <1>3 DEF LoadAndEvaluate
  <2>2. pc[c] = "loading" /\ UNCHANGED << request, txlog >>
    BY <1>3 DEF LoadAndEvaluate
  <2>3. CASE UNCHANGED << loaded, verdict >>
    BY <1>1, <2>2, <2>3
  <2>4. CASE /\ \A p \in DOMAIN ls : ls[p] # Unreadable
             /\ loaded' = [loaded EXCEPT ![c] = ls]
             /\ verdict' = [verdict EXCEPT ![c] =
                              Evaluate(Flatten(ls), Tx(c), Context(c))]
    <3>1. DOMAIN ls \subseteq Stored /\ \A p \in DOMAIN ls : ls[p] \in RuleLists
      BY <2>1, <2>4 DEF IInv, TypeOK, PolicyRow, SelectedPolicies, ActivePoliciesOf, Stored
    <3>2. IsFiniteSet(DOMAIN ls)
      BY <3>1, FS_Subset DEF RowsTell
    <3>3. Tx(c)' = Tx(c) /\ Context(c)' = Context(c)
      BY <2>2 DEF Tx, Context
    <3>4. /\ loaded'[c] = ls /\ verdict'[c] = Evaluate(Flatten(ls), Tx(c), Context(c))
          /\ \A d \in Calls : d # c => loaded'[d] = loaded[d] /\ verdict'[d] = verdict[d]
      BY <2>4 DEF IInv, TypeOK
    <3>5. JudgedByLoaded(c)'
      BY <3>1, <3>2, <3>3, <3>4 DEF JudgedByLoaded
    <3>6. \A d \in Calls : verdict'[d] # None => JudgedByLoaded(d)'
      BY <2>2, <3>4, <3>5, SameJudged DEF RowsTell
    <3>7. txlog[c] = {}
      BY <2>2 DEF IInv, Unlogged
    <3>8. \A d \in Calls : \A row \in txlog'[d] : row = LogRow(d)' /\ verdict'[d] # None
      BY <2>2, <3>4, <3>7, SameRow DEF RowsTell
    <3> QED
      BY <1>0, <3>6, <3>8 DEF RowsTell
  <2> QED
    BY <2>1, <2>3, <2>4
<1>4. ASSUME NEW c \in Calls, LogAndReply(c) \/ LogAndLose(c)
      PROVE  RowsTell'
  <2>1. /\ pc[c] = "logging" /\ UNCHANGED << request, loaded, verdict >>
        /\ txlog' = [txlog EXCEPT ![c] = @ \union {LogRow(c)}]
    BY <1>4 DEF LogAndReply, LogAndLose
  <2>2. verdict[c] # None
    BY <2>1 DEF Evaluated
  <2>3. \A d \in Calls : LogRow(d)' = LogRow(d)
    BY <2>1, SameRow
  <2>4. \A d \in Calls : \A row \in txlog'[d] : row = LogRow(d)' /\ verdict'[d] # None
    BY <2>1, <2>2, <2>3 DEF IInv, TypeOK, RowsTell
  <2>5. \A d \in Calls : verdict'[d] # None => JudgedByLoaded(d)'
    BY <2>1, SameJudged DEF RowsTell
  <2> QED
    BY <1>0, <2>4, <2>5 DEF RowsTell
<1>5. ASSUME NEW c \in Calls, Handle(c) \/ RunLitAction(c) \/ Abandon(c)
      PROVE  RowsTell'
  <2>1. \/ LoadAndEvaluate(c) \/ LogAndReply(c) \/ LogAndLose(c)
        \/ UNCHANGED << request, loaded, verdict, txlog >>
    BY <1>5 DEF Handle, FindUser, SigningAnswered, SigningFailed, QueryFails,
                RunLitAction, Abandon
  <2> QED
    BY <1>1, <1>3, <1>4, <2>1
<1> QED
  BY <1>1, <1>2, <1>5 DEF Next, CreateUser, CreatePolicy, DeletePolicy, vars

LEMMA RowsTellAlways == Spec => []RowsTell
<1>1. Init => RowsTell
  BY StoredAtFirst DEF Init, RowsTell
<1> QED
  BY <1>1, RowsTellStep, EvaluatedInit, EvaluatedStep, Invariance, PTL DEF Spec

(* Finitely many policies with finitely many rules each have finitely many *)
(* rules.                                                                  *)
LEMMA FlattenFinite ==
  ASSUME NEW ls, IsFiniteSet(DOMAIN ls), \A p \in DOMAIN ls : IsFiniteSet(DOMAIN ls[p])
  PROVE  IsFiniteSet(DOMAIN Flatten(ls))
<1> DEFINE Parts == {{p} \X DOMAIN ls[p] : p \in DOMAIN ls}
           part  == [p \in DOMAIN ls |-> {p} \X DOMAIN ls[p]]
<1>1. part \in Surjection(DOMAIN ls, Parts)
  BY DEF Surjection
<1>2. IsFiniteSet(Parts)
  BY <1>1, FS_Surjection
<1>3. \A T \in Parts : IsFiniteSet(T)
  <2>1. \A p \in DOMAIN ls : IsFiniteSet({p} \X DOMAIN ls[p])
    BY FS_Singleton, FS_Product
  <2> QED
    BY <2>1
<1> HIDE DEF Parts
<1>4. IsFiniteSet(UNION Parts)
  BY <1>2, <1>3, FS_UNION
<1> QED
  BY <1>4, FlattenDomain DEF Parts

(* The counts of a verdict's results against the verdict.                  *)
LEMMA CountsTell ==
  ASSUME NEW rules, NEW tx, NEW ctx, IsFiniteSet(DOMAIN rules),
         \A i \in DOMAIN rules : rules[i] \in PolicyRule,
         NEW v, v = Evaluate(rules, tx, ctx)
  PROVE  /\ v.decision = "approved"
              <=> /\ CountOf(v.results, "pass") > 0
                  /\ CountOf(v.results, "pass") = Cardinality(DOMAIN rules)
         /\ v.decision = "blocked" /\ CountOf(v.results, "fail") = 0
              => \/ DOMAIN rules = {}
                 \/ \E i \in DOMAIN rules : Outcome(rules[i], tx, ctx) = "indeterminate"
<1> DEFINE Having(outcome) == {i \in DOMAIN rules : Outcome(rules[i], tx, ctx) = outcome}
<1>1. \A outcome : CountOf(v.results, outcome) = Cardinality(Having(outcome))
  <2>1. DOMAIN v.results = DOMAIN rules
    BY DEF Evaluate, BlockedByEngine, RuleResults
  <2>2. \A i \in DOMAIN rules : v.results[i].outcome = Outcome(rules[i], tx, ctx)
    BY DEF Evaluate, RuleResults
  <2>3. ASSUME NEW outcome
        PROVE  {i \in DOMAIN v.results : v.results[i].outcome = outcome} = Having(outcome)
    BY <2>1, <2>2
  <2> QED
    BY <2>3 DEF CountOf
<1>2. v.decision = "approved" <=>
        DOMAIN rules # {} /\ \A i \in DOMAIN rules : Outcome(rules[i], tx, ctx) = "pass"
  BY ApprovedMeansAllPass DEF Approved
<1>3. /\ Having("pass") \in SUBSET DOMAIN rules
      /\ IsFiniteSet(Having("fail")) /\ Cardinality(DOMAIN rules) \in Nat
  BY FS_Subset, FS_CardinalityType
<1>4. v.decision = "approved"
        <=> DOMAIN rules # {} /\ Cardinality(Having("pass")) = Cardinality(DOMAIN rules)
  <2>1. Cardinality(Having("pass")) = Cardinality(DOMAIN rules)
          => Having("pass") = DOMAIN rules
    BY <1>3, FS_Subset
  <2>2. Having("pass") = DOMAIN rules
          <=> \A i \in DOMAIN rules : Outcome(rules[i], tx, ctx) = "pass"
    OBVIOUS
  <2> QED
    BY <1>2, <2>1, <2>2
<1>5. DOMAIN rules # {} <=> Cardinality(DOMAIN rules) > 0
  BY <1>3, FS_EmptySet
<1>6. ASSUME v.decision = "blocked", Cardinality(Having("fail")) = 0, DOMAIN rules # {}
      PROVE  \E i \in DOMAIN rules : Outcome(rules[i], tx, ctx) = "indeterminate"
  <2>1. Having("fail") = {}
    BY <1>3, <1>6, FS_EmptySet
  <2>2. PICK i \in DOMAIN rules : Outcome(rules[i], tx, ctx) # "pass"
    BY <1>2, <1>6
  <2>3. Outcome(rules[i], tx, ctx) \in {"pass", "fail", "indeterminate"}
    BY OutcomeRange
  <2> QED
    BY <2>1, <2>2, <2>3
<1> HIDE DEF Having
<1> QED
  BY <1>1, <1>4, <1>5, <1>6

(* What the exported file says of a call agrees with its verdict, however  *)
(* many policies and rules there are, although the counts it shows leave   *)
(* out the rules that could not be evaluated.                              *)
THEOREM ExportAgrees == Spec => []ExportTellsTheVerdict
<1>1. ASSUME RowsTell, NEW c \in Calls, NEW row \in txlog[c]
      PROVE  LET entry == EntryFromRow(row)
                 rules == Flatten(loaded[c])
             IN  /\ entry.amount = request[c].body.amount
                 /\ entry.decision = "approved"
                      <=> entry.passed > 0 /\ entry.passed = Cardinality(DOMAIN rules)
                 /\ entry.decision = "blocked" /\ entry.failed = 0
                      => \/ DOMAIN rules = {}
                         \/ \E i \in DOMAIN rules :
                              Outcome(rules[i], Tx(c), Context(c)) = "indeterminate"
  <2>1. row = LogRow(c) /\ JudgedByLoaded(c)
    BY <1>1 DEF RowsTell
  <2>2. PICK rules : rules = Flatten(loaded[c])
    OBVIOUS
  <2>3. IsFiniteSet(DOMAIN rules)
    BY <2>1, <2>2, FlattenFinite, ListsAssumption DEF JudgedByLoaded
  <2>4. \A i \in DOMAIN rules : rules[i] \in PolicyRule
    BY <2>1, <2>2, FlattenRange, InputAssumption DEF JudgedByLoaded
  <2>5. verdict[c] = Evaluate(rules, Tx(c), Context(c))
    BY <2>1, <2>2 DEF JudgedByLoaded
  <2>6. /\ EntryFromRow(row).amount = request[c].body.amount
        /\ EntryFromRow(row).decision = verdict[c].decision
        /\ EntryFromRow(row).passed = CountOf(verdict[c].results, "pass")
        /\ EntryFromRow(row).failed = CountOf(verdict[c].results, "fail")
    BY <2>1 DEF EntryFromRow, CountRuleOutcomes, LogRow, Tx, ToTransaction
  <2> QED
    BY <2>2, <2>3, <2>4, <2>5, <2>6, CountsTell
<1>2. RowsTell => ExportTellsTheVerdict
  BY <1>1 DEF ExportTellsTheVerdict
<1> QED
  BY <1>2, RowsTellAlways, PTL

-----------------------------------------------------------------------------
(* What is refused.                                                        *)

(* Rules are loaded once, and for a body that converts.                    *)
LoadedOnce ==
  \A c \in Calls :
    /\ pc[c] \in {"idle", "finding_user", "loading"} => loaded[c] = None
    /\ pc[c] \in {"finding_user", "loading"} => Convertible(request[c].body)
    /\ verdict[c] # None => Convertible(request[c].body) /\ pc[c] # "idle"

LEMMA LoadedOnceStep ==
  ASSUME TypeOK, LoadedOnce, [Next]_vars
  PROVE  LoadedOnce'
<1>1. ASSUME UNCHANGED << pc, request, loaded, verdict >>
      PROVE  LoadedOnce'
  BY <1>1 DEF LoadedOnce
<1>2. ASSUME NEW c \in Calls, NEW u \in Users, NEW body \in Wires, Receive(c, u, body)
      PROVE  LoadedOnce'
  <2>1. /\ pc[c] = "idle" /\ request'[c].body = body
        /\ \A d \in Calls : d # c => request'[d] = request[d] /\ pc'[d] = pc[d]
        /\ UNCHANGED << loaded, verdict >>
        /\ pc'[c] = "answered" \/ (pc'[c] = "finding_user" /\ Convertible(body))
    BY <1>2 DEF TypeOK, Receive, Goto, Answer
  <2> QED
    BY <2>1 DEF LoadedOnce
<1>3. ASSUME NEW c \in Calls, LoadAndEvaluate(c)
      PROVE  LoadedOnce'
  <2>1. /\ pc[c] = "loading" /\ request' = request
        /\ pc'[c] \in {"answered", "dropped", "signing", "logging"}
        /\ \A d \in Calls : d # c => pc'[d] = pc[d]
    BY <1>3 DEF TypeOK, LoadAndEvaluate, Goto, Answer
  <2>2. \A d \in Calls : d # c => loaded'[d] = loaded[d] /\ verdict'[d] = verdict[d]
    BY <1>3 DEF TypeOK, LoadAndEvaluate
  <2> QED
    BY <2>1, <2>2 DEF LoadedOnce
<1>4. ASSUME NEW c \in Calls,
             \/ FindUser(c) \/ SigningAnswered(c) \/ SigningFailed(c)
             \/ LogAndReply(c) \/ LogAndLose(c) \/ QueryFails(c) \/ Abandon(c)
      PROVE  LoadedOnce'
  <2>1. /\ UNCHANGED << request, loaded, verdict >>
        /\ \A d \in Calls : d # c => pc'[d] = pc[d]
        /\ pc'[c] \in {"loading", "logging", "answered", "dropped"}
        /\ pc'[c] = "loading" => pc[c] = "finding_user"
        /\ pc[c] # "idle"
    BY <1>4 DEF TypeOK, FindUser, SigningAnswered, SigningFailed, LogAndReply,
                LogAndLose, QueryFails, Abandon, AwaitsDatabase, Goto, Answer
  <2> QED
    BY <2>1 DEF LoadedOnce
<1>5. CASE UNCHANGED vars
  BY <1>1, <1>5 DEF vars
<1> QED
  BY <1>1, <1>2, <1>3, <1>4, <1>5
     DEF Next, Handle, CreateUser, CreatePolicy, DeletePolicy, RunLitAction

(* A call whose verdict is a block had no rule loaded, or a rule that its  *)
(* body, as the client wrote it, does not keep to with a unit to spare.    *)
RefusedForCause ==
  \A c \in Calls :
    verdict[c] # None /\ verdict[c].decision = "blocked" =>
      LET rules == Flatten(loaded[c])
      IN  \/ DOMAIN rules = {}
          \/ \E i \in DOMAIN rules : ~ ClearlyWithin(rules[i], request[c].body)

(* The server refuses nothing that is clearly within the rules it loaded,  *)
(* whatever the policies, the body and the steps of others.                *)
THEOREM RefusalsHaveACause == Spec => []RefusedForCause
<1>1. Init => LoadedOnce
  BY DEF Init, LoadedOnce
<1>2. ASSUME TypeOK, LoadedOnce, RowsTell
      PROVE  RefusedForCause
  <2> SUFFICES ASSUME NEW c \in Calls, verdict[c] # None,
                      NEW rules, rules = Flatten(loaded[c]), DOMAIN rules # {},
                      \A i \in DOMAIN rules : ClearlyWithin(rules[i], request[c].body)
               PROVE  verdict[c].decision = "approved"
    BY DEF RefusedForCause
  <2>1. JudgedByLoaded(c)
    BY <1>2 DEF RowsTell
  <2>2. \A i \in DOMAIN rules : rules[i] \in PolicyRule
    BY <2>1, FlattenRange, InputAssumption DEF JudgedByLoaded
  <2>3. request[c].body \in WireRequest /\ Convertible(request[c].body)
    BY <1>2, InputAssumption DEF TypeOK, LoadedOnce
  <2>4. \A i \in DOMAIN rules : Outcome(rules[i], Tx(c), Context(c)) = "pass"
    BY <2>2, <2>3, ClearlyWithinPasses DEF Tx, Context
  <2> QED
    BY <2>1, <2>2, <2>4, ApprovedMeansAllPass DEF JudgedByLoaded, Approved
<1> QED
  BY <1>1, <1>2, LoadedOnceStep, RowsTellAlways, TypeCorrect, PTL DEF Spec

=============================================================================
