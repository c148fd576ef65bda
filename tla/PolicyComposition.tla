-------------------------- MODULE PolicyComposition --------------------------
(***************************************************************************)
(* One user's active policies, as they come and go, judging one request.   *)
(* The validate handler flattens the rules of every active policy into one *)
(* list (validate.rs, steps 4 to 6), so what a set of policies allows is a *)
(* matter of how rules compose.                                            *)
(***************************************************************************)
EXTENDS RequestConversion

CONSTANTS
  PolicyIds,    (* Bounds the number of policies active together.          *)
  RuleLists,    (* The rule lists a policy may be created with.            *)
  Wires         (* The requests to judge.                                  *)

ASSUME InputAssumption ==
  /\ \A l \in RuleLists : \A i \in DOMAIN l : l[i] \in PolicyRule
  /\ Wires \subseteq WireRequest

VARIABLES
  lists,        (* The rules of each active policy, by policy id.          *)
  wire          (* The request, the same throughout a behaviour.           *)

vars == << lists, wire >>

Rules   == Flatten(lists)
Tx      == ToTransaction(wire)
Context == ToContext(wire)

(* An evaluation that panics approves nothing.                             *)
ApprovedBy(rules) ==
  /\ Convertible(wire)
  /\ ~ Overflows(rules, Tx, Context)
  /\ Approved(rules, Tx, Context)

-----------------------------------------------------------------------------
Init == lists = << >> /\ wire \in Wires

(* Fault: a new policy's rules are added to those of the others too.       *)
AddPolicy_Accumulates(p, rules) ==
  /\ p \notin DOMAIN lists
  /\ lists' = [q \in DOMAIN lists \union {p} |->
                 IF q = p THEN rules ELSE lists[q] \o rules]
  /\ UNCHANGED wire

AddPolicy(p, rules) ==
  /\ p \notin DOMAIN lists
  /\ lists' = [q \in DOMAIN lists \union {p} |->
                 IF q = p THEN rules ELSE lists[q]]
  /\ UNCHANGED wire

RemovePolicy(p) ==
  /\ p \in DOMAIN lists
  /\ lists' = [q \in DOMAIN lists \ {p} |-> lists[q]]
  /\ UNCHANGED wire

Next ==
  \/ \E p \in PolicyIds, rules \in RuleLists : AddPolicy(p, rules)
  \/ \E p \in PolicyIds : RemovePolicy(p)

Spec == Init /\ [][Next]_vars

-----------------------------------------------------------------------------
(* Properties *)

TypeOK ==
  /\ DOMAIN lists \subseteq PolicyIds
  /\ \A p \in DOMAIN lists : lists[p] \in RuleLists
  /\ wire \in Wires

(* A policy added to others never lets through what they blocked, and one  *)
(* taken away, as long as a rule is left, never blocks what was allowed:   *)
(* multiple active policies compose into one stricter rule set.            *)
Stricter ==
  /\ DOMAIN lists \subseteq DOMAIN lists' /\ DOMAIN Rules # {}
       => (ApprovedBy(Rules)' => ApprovedBy(Rules))
  /\ DOMAIN lists' \subseteq DOMAIN lists /\ DOMAIN Rules' # {}
       => (ApprovedBy(Rules) => ApprovedBy(Rules)')

ComposesStricter == [][Stricter]_vars

(* The three presets are nested: what safety_first approves balanced       *)
(* approves, and what balanced approves best_yields approves.              *)
PresetsNest ==
  /\ ApprovedBy(SafetyFirst) => ApprovedBy(Balanced)
  /\ ApprovedBy(Balanced) => ApprovedBy(BestYields)

(* An approval means that at least one rule is configured, that the amount *)
(* is a real one, and that the request as written is within the limit of   *)
(* every rule: neither the conversions nor missing evidence let it past.   *)
ApprovedMeansWithinLimits ==
  ApprovedBy(Rules) =>
    /\ DOMAIN Rules # {}
    /\ wire.amount \in Nat
    /\ \A i \in DOMAIN Rules : WithinLimit(Rules[i], wire)

(* A block has a cause: a request that is within every limit, with a unit  *)
(* to spare where a float is compared, and whose sums and percentages a    *)
(* Decimal can hold, is approved, however many rules and policies there    *)
(* are.                                                                    *)
BlocksOnlyForCause ==
  /\ Convertible(wire) /\ DOMAIN Rules # {}
  /\ ~ Overflows(Rules, Tx, Context)
  /\ \A i \in DOMAIN Rules : ClearlyWithin(Rules[i], wire)
  => ApprovedBy(Rules)

(* A score that equals the floor meets it: a float's long decimals are     *)
(* cosmetic.  Does not hold: 0.70 arrives as 0.6999..., under a 0.70 floor.*)
ScoreAtFloorMeetsIt ==
  \A i \in DOMAIN Rules :
    /\ Convertible(wire)
    /\ Rules[i].id = "MinRiskScore"
    /\ wire.riskScore # None
    /\ 1000 * wire.riskScore = Rules[i].limit
    => Outcome(Rules[i], Tx, Context) = "pass"

=============================================================================
