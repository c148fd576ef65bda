--------------------------- MODULE ValidationGate ---------------------------
(***************************************************************************)
(* What the validate service promises, whatever policies, queries and      *)
(* networks do: each call is decided at most once, the signing key is used *)
(* at most once and only for a call decided "approved", at most one row    *)
(* records the decision, and a client is told a decision only after it has *)
(* been recorded.  A client may also be told of an error, or nothing.      *)
(***************************************************************************)
CONSTANT Calls

VARIABLES
  decision,     (* "none", "approved" or "blocked", per call.              *)
  keyUsed,      (* The calls the key has signed for.                       *)
  recorded,     (* The decision on record: "none", "approved", "blocked".  *)
  told          (* "nothing", "error", or the decision the client got.     *)

vars == << decision, keyUsed, recorded, told >>

Init ==
  /\ decision = [c \in Calls |-> "none"]
  /\ keyUsed  = {}
  /\ recorded = [c \in Calls |-> "none"]
  /\ told     = [c \in Calls |-> "nothing"]

(* Once: no call that has been answered is decided.                        *)
Decide(c, d) ==
  /\ decision[c] = "none"
  /\ told[c] = "nothing"
  /\ decision' = [decision EXCEPT ![c] = d]
  /\ UNCHANGED << keyUsed, recorded, told >>

UseKey(c) ==
  /\ decision[c] = "approved"
  /\ c \notin keyUsed
  /\ keyUsed' = keyUsed \union {c}
  /\ UNCHANGED << decision, recorded, told >>

(* The record is written and the client told of it, of an error, or not.   *)
Record(c, t) ==
  /\ decision[c] # "none"
  /\ recorded[c] = "none"
  /\ told[c] = "nothing"
  /\ t \in {decision[c], "error", "nothing"}
  /\ recorded' = [recorded EXCEPT ![c] = decision[c]]
  /\ told' = [told EXCEPT ![c] = t]
  /\ UNCHANGED << decision, keyUsed >>

Refuse(c) ==
  /\ told[c] = "nothing"
  /\ recorded[c] = "none"
  /\ told' = [told EXCEPT ![c] = "error"]
  /\ UNCHANGED << decision, keyUsed, recorded >>

Next ==
  \E c \in Calls :
    \/ \E d \in {"approved", "blocked"} : Decide(c, d)
    \/ UseKey(c)
    \/ \E t \in {"approved", "blocked", "error", "nothing"} : Record(c, t)
    \/ Refuse(c)

Spec == Init /\ [][Next]_vars
=============================================================================
