----------------------------- MODULE AuditExport -----------------------------
(***************************************************************************)
(* What agent_log.json shows of a row of the transaction log               *)
(* (src/src/bin/export_agent_log.rs): the request, the decision and how    *)
(* many rules passed and failed.  A rule that could not be evaluated is    *)
(* counted in neither.  The export reads the newest rows of all users, ten *)
(* unless told otherwise; which those are is left out here.                *)
(***************************************************************************)
EXTENDS ValidateService, FiniteSets

(* A policy's rules are a Vec.                                             *)
ASSUME ListsAssumption == \A l \in RuleLists : IsFiniteSet(DOMAIN l)

(* The results in reasons_json with an outcome.                            *)
CountOf(results, outcome) ==
  Cardinality({i \in DOMAIN results : results[i].outcome = outcome})

(* Fault: what did not fail is counted as passed.                          *)
CountRuleOutcomes_RestPassed(results) ==
  << Cardinality(DOMAIN results) - CountOf(results, "fail"), CountOf(results, "fail") >>

CountRuleOutcomes(results) == << CountOf(results, "pass"), CountOf(results, "fail") >>

EntryFromRow(row) ==
  [protocol |-> row.tx.protocol,
   action   |-> row.tx.action,
   amount   |-> row.tx.amount,
   decision |-> row.verdict,
   passed   |-> CountRuleOutcomes(row.reasons)[1],
   failed   |-> CountRuleOutcomes(row.reasons)[2]]

-----------------------------------------------------------------------------
(* The counts agree with the decision, although they leave rules out: an   *)
(* entry shows an approval just when all the rules that were loaded have   *)
(* passed, and there were some; and when it shows a block and no failure,  *)
(* evidence was missing or nothing was configured.                         *)
ExportTellsTheVerdict ==
  \A c \in Calls : \A row \in txlog[c] :
    LET entry == EntryFromRow(row)
        rules == Flatten(loaded[c])
    IN  /\ entry.amount = request[c].body.amount
        /\ entry.decision = "approved"
             <=> /\ entry.passed > 0
                 /\ entry.passed = Cardinality(DOMAIN rules)
        /\ entry.decision = "blocked" /\ entry.failed = 0
             => \/ DOMAIN rules = {}
                \/ \E i \in DOMAIN rules :
                     Outcome(rules[i], Tx(c), Context(c)) = "indeterminate"

=============================================================================
