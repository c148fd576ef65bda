---------------------------- MODULE BudgetLedger ----------------------------
(***************************************************************************)
(* What a daily budget promises: one ledger per agent, in which a call is  *)
(* booked once, or missed for good, in a step that looks at every limit.   *)
(* The real tool looks and books in different steps, on different machines.*)
(***************************************************************************)
EXTENDS Naturals

CONSTANTS
  Agents,       (* Each has a total of its own.                            *)
  Calls,
  Amounts,      (* What a call may ask for.                                *)
  Limits,       (* The daily limits that stand.                            *)
  Slack         (* Twice what a limit may be passed by.                    *)

VARIABLES
  booked,       (* The calls that are on the books.                        *)
  missed,       (* Those allowed whose amount the book-keeper cannot read. *)
  spent         (* An agent's total.                                       *)

vars == << booked, missed, spent >>

Init ==
  /\ booked = {}
  /\ missed = {}
  /\ spent  = [a \in Agents |-> 0]

Allowed(c, a, amount) ==
  /\ c \notin booked \union missed
  /\ \A limit \in Limits : 2 * (spent[a] + amount) <= 2 * limit + Slack

Book(c, a, amount) ==
  /\ Allowed(c, a, amount)
  /\ booked' = booked \union {c}
  /\ spent' = [spent EXCEPT ![a] = @ + amount]
  /\ UNCHANGED missed

Miss(c, a, amount) ==
  /\ Allowed(c, a, amount)
  /\ missed' = missed \union {c}
  /\ UNCHANGED << booked, spent >>

Next ==
  \E c \in Calls, a \in Agents, amount \in Amounts :
    Book(c, a, amount) \/ Miss(c, a, amount)

Spec == Init /\ [][Next]_vars
=============================================================================
