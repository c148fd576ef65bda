--------------------------- MODULE ValidateService ---------------------------
(***************************************************************************)
(* The API server around the policy engine: users and policies come and    *)
(* go while any number of validate calls are in flight (src/src/routes,    *)
(* src/src/db) and the signing network answers or does not                 *)
(* (src/src/signing/lit.rs).                                               *)
(*                                                                         *)
(* A handler runs undisturbed between two awaits and may be overtaken by   *)
(* anything at an await: every await is a step here, and every query is    *)
(* one statement, so atomic.  A call may be abandoned at any await, when   *)
(* its client disconnects or the server stops; a query may fail.           *)
(***************************************************************************)
EXTENDS RequestConversion

CONSTANTS
  Users,        (* User ids.                                               *)
  PolicyIds,    (* Ids of policies; bounds the policies ever created.      *)
  Calls,        (* Ids of validate calls; bounds the calls ever made.      *)
  RuleLists,    (* The rule lists a policy may be created with.            *)
  Wires,        (* The bodies a validate call may have.                    *)
  Unreadable    (* Stored rules that this version cannot deserialize.      *)

ASSUME InputAssumption ==
  /\ \A l \in RuleLists : \A i \in DOMAIN l : l[i] \in PolicyRule
  /\ Wires \subseteq WireRequest
  /\ Unreadable \notin RuleLists
  /\ None \notin [user : Users, rules : RuleLists \union {Unreadable},
                  active : BOOLEAN]

(* None is no verdict.                                                     *)
ASSUME VerdictAssumption ==
  \A ids \in SUBSET PolicyIds : \A lists \in [ids -> RuleLists], body \in Wires :
    Convertible(body) =>
      Evaluate(Flatten(lists), ToTransaction(body), ToContext(body)) # None

VARIABLES
  users,        (* Table users: the ids registered.                        *)
  policies,     (* Table policies: a row per id, or None.                  *)
  txlog,        (* Table transaction_log: the rows each call wrote.        *)
  provider,     (* Is a signing provider configured?                       *)
  pc,           (* Where a call stands.                                    *)
  request,      (* The user and the body a call was made with.             *)
  loaded,       (* The rules a call loaded, by policy id.                  *)
  verdict,      (* The verdict of a call.                                  *)
  signing,      (* What the signing network made of the verdict.           *)
  reply,        (* The answer the client of a call got.                    *)
  lit,          (* The signing network's side of a call.                   *)
  standing      (* History: the user's policies active since the call      *)
                (* began.                                                  *)

database == << users, policies, txlog >>
call     == << pc, request, loaded, verdict, signing, reply >>
vars     == << users, policies, txlog, provider, pc, request, loaded, verdict,
               signing, reply, lit, standing >>

-----------------------------------------------------------------------------
(* Values *)

PolicyRow == [user : Users, rules : RuleLists \union {Unreadable},
              active : BOOLEAN]

NoReply == [status |-> 0, verdict |-> None, signing |-> None]

ActivePoliciesOf(u) ==
  {p \in PolicyIds : /\ policies[p] # None
                     /\ policies[p].user = u
                     /\ policies[p].active}

Tx(c)      == ToTransaction(request[c].body)
Context(c) == ToContext(request[c].body)

Init ==
  /\ provider \in BOOLEAN
  /\ \/ users = {} /\ policies = [p \in PolicyIds |-> None]
     \/ \* A database in use, with a policy stored by another version.
        \E u \in Users, old \in PolicyIds :
          /\ users = {u}
          /\ policies = [p \in PolicyIds |->
                           IF p = old
                             THEN [user |-> u, rules |-> Unreadable, active |-> TRUE]
                             ELSE None]
  /\ txlog    = [c \in Calls |-> {}]
  /\ pc       = [c \in Calls |-> "idle"]
  /\ request  = [c \in Calls |-> None]
  /\ loaded   = [c \in Calls |-> None]
  /\ verdict  = [c \in Calls |-> None]
  /\ signing  = [c \in Calls |-> None]
  /\ reply    = [c \in Calls |-> NoReply]
  /\ lit      = [c \in Calls |-> "idle"]
  /\ standing = [c \in Calls |-> {}]

-----------------------------------------------------------------------------
(* Users and policies.  A failed query or a refused body changes nothing.  *)

(* POST /users                                                             *)
CreateUser(u) ==
  /\ u \notin users
  /\ users' = users \union {u}
  /\ UNCHANGED call
  /\ UNCHANGED << policies, txlog, provider, lit, standing >>

(* POST /policies: a preset or a custom list that deserializes, for a user *)
(* that exists.  Users are never deleted, so that the lookup and the       *)
(* insertion need not be told apart.                                       *)
CreatePolicy(p, u, rules) ==
  /\ policies[p] = None
  /\ u \in users
  /\ policies' = [policies EXCEPT ![p] = [user |-> u, rules |-> rules,
                                          active |-> TRUE]]
  /\ UNCHANGED call
  /\ UNCHANGED << users, txlog, provider, lit, standing >>

(* Fault: the flag is flipped, so that a second delete revives the policy. *)
Deactivated_Flip(row) == [row EXCEPT !.active = ~ @]

Deactivated(row) == [row EXCEPT !.active = FALSE]

(* DELETE /policies/:id, whoever asks and whether or not it is active.     *)
DeletePolicy(p) ==
  /\ policies[p] # None
  /\ policies' = [policies EXCEPT ![p] = Deactivated(@)]
  /\ standing' = [c \in Calls |-> standing[c] \ {p}]
  /\ UNCHANGED call
  /\ UNCHANGED << users, txlog, provider, lit >>

-----------------------------------------------------------------------------
(* A validate call *)

Goto(c, to) == pc' = [pc EXCEPT ![c] = to]

Answer(c, status) ==
  /\ Goto(c, "answered")
  /\ reply' = [reply EXCEPT ![c] =
                 [status |-> status, verdict |-> verdict[c], signing |-> signing[c]]]

(* The body is received and converted, up to the first query.              *)
Receive(c, u, body) ==
  /\ pc[c] = "idle"
  /\ request' = [request EXCEPT ![c] = [user |-> u, body |-> body]]
  /\ standing' = [standing EXCEPT ![c] = ActivePoliciesOf(u)]
  /\ IF Convertible(body)
       THEN Goto(c, "finding_user") /\ UNCHANGED reply
       ELSE Answer(c, 400)
  /\ UNCHANGED database
  /\ UNCHANGED << provider, loaded, verdict, signing, lit >>

(* Fault: an unknown user is reported as a conflict.                       *)
FindUser_Conflict(c) ==
  /\ pc[c] = "finding_user"
  /\ IF request[c].user \in users
       THEN Goto(c, "loading") /\ UNCHANGED reply
       ELSE Answer(c, 409)
  /\ UNCHANGED database
  /\ UNCHANGED << provider, request, loaded, verdict, signing, lit, standing >>

FindUser(c) ==
  /\ pc[c] = "finding_user"
  /\ IF request[c].user \in users
       THEN Goto(c, "loading") /\ UNCHANGED reply
       ELSE Answer(c, 404)
  /\ UNCHANGED database
  /\ UNCHANGED << provider, request, loaded, verdict, signing, lit, standing >>

(* Fault: only the policy the caller can see as the newest is loaded.      *)
SelectedPolicies_One(u) ==
  IF ActivePoliciesOf(u) = {} THEN {} ELSE {CHOOSE p \in ActivePoliciesOf(u) : TRUE}

(* PolicyRow::find_active_by_user                                          *)
SelectedPolicies(u) == ActivePoliciesOf(u)

(* The active policies are read and deserialized and the request is judged *)
(* by all their rules at once.  An approved verdict goes out to the        *)
(* signing network if there is one, any other straight to the log.  An     *)
(* overflow panics: the connection closes without an answer.               *)
LoadAndEvaluate(c) ==
  LET rows  == SelectedPolicies(request[c].user)
      lists == [p \in rows |-> policies[p].rules]
      rules == Flatten(lists)
      v     == Evaluate(rules, Tx(c), Context(c))
      sends == v.decision = "approved" /\ provider
  IN  /\ pc[c] = "loading"
      /\ IF \E p \in rows : policies[p].rules = Unreadable
           THEN Answer(c, 500) /\ UNCHANGED << loaded, verdict, lit >>
         ELSE IF Overflows(rules, Tx(c), Context(c))
           THEN /\ Goto(c, "dropped")
                /\ UNCHANGED << loaded, verdict, lit, reply >>
         ELSE /\ loaded' = [loaded EXCEPT ![c] = lists]
              /\ verdict' = [verdict EXCEPT ![c] = v]
              /\ Goto(c, IF sends THEN "signing" ELSE "logging")
              /\ lit' = IF sends THEN [lit EXCEPT ![c] = "asked"] ELSE lit
              /\ UNCHANGED reply
      /\ UNCHANGED database
      /\ UNCHANGED << provider, request, signing, standing >>

(* The Lit Action, inside the signing network: it looks at the verdict     *)
(* again before it signs.  It runs whether or not the call still waits.    *)
LitActionSigns(v) ==
  v.decision = "approved" /\ FailedRules(v) = {}

RunLitAction(c) ==
  /\ lit[c] = "asked"
  /\ lit' = [lit EXCEPT ![c] = IF LitActionSigns(verdict[c]) THEN "signed" ELSE "refused"]
  /\ UNCHANGED database
  /\ UNCHANGED call
  /\ UNCHANGED << provider, standing >>

(* The network's answer reaches sign_verdict.                              *)
SigningAnswered(c) ==
  /\ pc[c] = "signing"
  /\ lit[c] = "signed"
  /\ signing' = [signing EXCEPT ![c] = "signature"]
  /\ Goto(c, "logging")
  /\ UNCHANGED database
  /\ UNCHANGED << provider, request, loaded, verdict, reply, lit, standing >>

(* Unreachable, an error status, a body that does not parse, has_error, or *)
(* a refusal: all become "no signature", before or after the key was used. *)
SigningFailed(c) ==
  /\ pc[c] = "signing"
  /\ Goto(c, "logging")
  /\ UNCHANGED database
  /\ UNCHANGED << provider, request, loaded, verdict, signing, reply, lit,
                   standing >>

LogRow(c) == [user    |-> request[c].user,
              tx      |-> Tx(c),
              verdict |-> verdict[c].decision,
              reasons |-> verdict[c].results]

(* The row is inserted and the client answered.                            *)
LogAndReply(c) ==
  /\ pc[c] = "logging"
  /\ txlog' = [txlog EXCEPT ![c] = @ \union {LogRow(c)}]
  /\ Answer(c, 200)
  /\ UNCHANGED << users, policies, provider, request, loaded, verdict,
                   signing, lit, standing >>

(* The row is inserted, but the connection to the database or to the       *)
(* client is lost before that is known.                                    *)
LogAndLose(c) ==
  /\ pc[c] = "logging"
  /\ txlog' = [txlog EXCEPT ![c] = @ \union {LogRow(c)}]
  /\ \/ Answer(c, 500)
     \/ Goto(c, "dropped") /\ UNCHANGED reply
  /\ UNCHANGED << users, policies, provider, request, loaded, verdict,
                   signing, lit, standing >>

AwaitsDatabase == {"finding_user", "loading", "logging"}

(* Fault: a failure to log is only a warning.                              *)
QueryFails_LogIsOptional(c) ==
  /\ pc[c] \in AwaitsDatabase
  /\ Answer(c, IF pc[c] = "logging" THEN 200 ELSE 500)
  /\ UNCHANGED database
  /\ UNCHANGED << provider, request, loaded, verdict, signing, lit, standing >>

(* A query fails, the pool's acquire timeout included.                     *)
QueryFails(c) ==
  /\ pc[c] \in AwaitsDatabase
  /\ Answer(c, 500)
  /\ UNCHANGED database
  /\ UNCHANGED << provider, request, loaded, verdict, signing, lit, standing >>

(* The client goes away, or the server stops: the future is dropped.       *)
Abandon(c) ==
  /\ pc[c] \in AwaitsDatabase \union {"signing"}
  /\ Goto(c, "dropped")
  /\ UNCHANGED database
  /\ UNCHANGED << provider, request, loaded, verdict, signing, reply, lit,
                   standing >>

-----------------------------------------------------------------------------
Handle(c) ==
  \/ FindUser(c)
  \/ LoadAndEvaluate(c)
  \/ SigningAnswered(c)
  \/ SigningFailed(c)
  \/ LogAndReply(c)
  \/ LogAndLose(c)
  \/ QueryFails(c)

Next ==
  \/ \E u \in Users : CreateUser(u)
  \/ \E p \in PolicyIds, u \in Users, rules \in RuleLists : CreatePolicy(p, u, rules)
  \/ \E p \in PolicyIds : DeletePolicy(p)
  \/ \E c \in Calls, u \in Users, body \in Wires : Receive(c, u, body)
  \/ \E c \in Calls : Handle(c) \/ RunLitAction(c) \/ Abandon(c)

Spec == Init /\ [][Next]_vars

(* The runtime polls every handler that can go on.  A statement that was   *)
(* sent is taken to end too, although the pool bounds only the wait for a  *)
(* connection (acquire_timeout): so that what is found to wait for ever    *)
(* waits for the signing network, whose HTTP client has no timeout either. *)
(* Of its answers nothing is assumed.  Clients and signals owe nothing.    *)
Fairness ==
  \A c \in Calls : /\ WF_vars(FindUser(c))
                   /\ WF_vars(LoadAndEvaluate(c))
                   /\ WF_vars(LogAndReply(c))

FairSpec == Spec /\ Fairness

-----------------------------------------------------------------------------
(* Properties *)

Locations == {"idle", "finding_user", "loading", "signing", "logging",
              "answered", "dropped"}

TypeOK ==
  /\ users \subseteq Users
  /\ policies \in [PolicyIds -> Optional(PolicyRow)]
  /\ provider \in BOOLEAN
  /\ pc \in [Calls -> Locations]
  /\ request \in [Calls -> Optional([user : Users, body : Wires])]
  /\ signing \in [Calls -> Optional({"signature"})]
  /\ lit \in [Calls -> {"idle", "asked", "signed", "refused"}]
  /\ standing \in [Calls -> SUBSET PolicyIds]
  /\ DOMAIN loaded = Calls /\ DOMAIN verdict = Calls
  /\ DOMAIN reply = Calls /\ DOMAIN txlog = Calls
  /\ \A c \in Calls :
       /\ loaded[c] # None =>
            /\ DOMAIN loaded[c] \subseteq PolicyIds
            /\ \A p \in DOMAIN loaded[c] : loaded[c][p] \in RuleLists
       /\ verdict[c] # None => verdict[c].decision \in {"approved", "blocked"}
       /\ reply[c].status \in {0, 200, 400, 404, 500}
       /\ pc[c] # "idle" => request[c] \in [user : Users, body : Wires]

RulePasses(rule, c) == Outcome(rule, Tx(c), Context(c)) = "pass"

(* An approved request passes every rule of every policy that was active   *)
(* from the moment the call arrived, whatever was created or deleted while *)
(* the handler was between two awaits; and none of those policies holds    *)
(* rules that could not be read.                                           *)
ApprovalHonoursStandingPolicies ==
  \A c \in Calls :
    verdict[c] # None /\ verdict[c].decision = "approved" =>
      \A p \in standing[c] :
        /\ policies[p].rules # Unreadable
        /\ \A i \in DOMAIN policies[p].rules : RulePasses(policies[p].rules[i], c)

(* Only a request that some rule was configured for, and that passes every *)
(* rule loaded, enters the signing path (README.md:273, architecture.md:52)*)
SigningPathIsGuarded ==
  \A c \in Calls :
    lit[c] # "idle" =>
      /\ \E p \in DOMAIN loaded[c] : DOMAIN loaded[c][p] # {}
      /\ \A p \in DOMAIN loaded[c] : \A i \in DOMAIN loaded[c][p] :
           RulePasses(loaded[c][p][i], c)

(* A client that got a verdict finds the same verdict and the same results *)
(* in the transaction log, and a signature only with an approval.          *)
VerdictGivenIsLogged ==
  \A c \in Calls :
    reply[c].status = 200 =>
      /\ reply[c].verdict = verdict[c]
      /\ txlog[c] = {LogRow(c)}
      /\ reply[c].signing # None => verdict[c].decision = "approved" /\ lit[c] = "signed"

(* What the tables record stays: a policy keeps its user and its rules and *)
(* once deactivated never comes back, and a log row is never rewritten.    *)
RecordsKept ==
  /\ \A p \in PolicyIds : policies[p] # None =>
       /\ policies'[p] # None
       /\ policies'[p].user = policies[p].user
       /\ policies'[p].rules = policies[p].rules
       /\ policies'[p].active => policies[p].active
  /\ \A c \in Calls : txlog[c] # {} => txlog'[c] = txlog[c]

RecordsStay == [][RecordsKept]_vars

(* What a call shows of itself at the level of the abstract gate.          *)
Decision(c) == IF verdict[c] = None THEN "none" ELSE verdict[c].decision

Recorded(c) ==
  IF txlog[c] = {} THEN "none" ELSE (CHOOSE row \in txlog[c] : TRUE).verdict

Told(c) ==
  CASE reply[c].status = 0   -> "nothing"
    [] reply[c].status = 200 -> reply[c].verdict.decision
    [] OTHER                 -> "error"

(* The service implements the abstract gate: one decision per call, the    *)
(* key only after an approval, no verdict told before it is recorded.      *)
Gate == INSTANCE ValidationGate WITH
  decision <- [c \in Calls |-> Decision(c)],
  keyUsed  <- {c \in Calls : lit[c] = "signed"},
  recorded <- [c \in Calls |-> Recorded(c)],
  told     <- [c \in Calls |-> Told(c)]

ImplementsGate == Gate!Spec

(* Every attempt is logged (README.md:61): a signature that was produced   *)
(* is matched by a row once its call is over.  Does not hold: the row is   *)
(* written after the key is used, and the call may end in between.         *)
EverySignatureIsLogged ==
  \A c \in Calls :
    pc[c] \in {"answered", "dropped"} /\ lit[c] = "signed" => txlog[c] # {}

(* If the signing network is unavailable the verdict still returns         *)
(* (README.md:275).  Does not hold: nothing ends the wait for a network    *)
(* that accepted the request and never answers.                            *)
VerdictStillReturns ==
  \A c \in Calls : verdict[c] # None ~> pc[c] \in {"answered", "dropped"}

=============================================================================
