---------------------------- MODULE PolicyEngine ----------------------------
(***************************************************************************)
(* The pure policy engine (src/src/policy): twelve rules, each judging one *)
(* transaction request against the context supplied with it, the verdict   *)
(* that aggregates them, and the three presets.                            *)
(*                                                                         *)
(* Money is a natural number of dollars (or of whatever unit a model       *)
(* picks: the engine only adds and compares), percentages are basis        *)
(* points, and a score between 0 and 1 is a number of 1/100000ths, fine    *)
(* enough to tell a decimal literal from the float that stands for it.     *)
(***************************************************************************)
EXTENDS Integers, Sequences

CONSTANTS
  None,        (* An absent optional value, Rust's Option::None.           *)
  Protocols,   (* Protocol ids, in every spelling a client may use.        *)
  DecimalMax   (* The largest number a Decimal can hold.                   *)

ASSUME DecimalMaxAssumption == DecimalMax \in Nat
ASSUME NoneIsNoNumber == None \notin Int

-----------------------------------------------------------------------------
(* Requests, contexts and rules *)

Actions == {"supply", "borrow", "swap", "transfer", "withdraw", "stake"}
FullBps == 10000                      (* BasisPoints::new_checked's bound  *)
Bps     == 0 .. FullBps
One     == 100000                     (* a RiskScore of exactly 1          *)
Score   == 0 .. One

Optional(S) == S \union {None}

(* The declared intent.  The asset and the target address take no part in  *)
(* any rule.                                                               *)
TransactionRequest == [protocol : Protocols, action : Actions, amount : Nat]

(* A confidence is still a float when it reaches the rule that reads it:   *)
(* it is kept in hundredths, and need not lie between 0 and 1.             *)
ReasoningTrace == [alternatives : Nat, confidence : Int]

EvaluationContext ==
  [portfolio        : Nat,
   protocolExposure : Nat,
   assetExposure    : Nat,
   dailySpend       : Nat,
   audited          : SUBSET Protocols,
   riskScore        : Optional(Score),
   utilization      : Optional(Bps),
   tvl              : Optional(Nat),
   reasoning        : Optional(ReasoningTrace)]

Rule(id, limit) == [id |-> id, limit |-> limit]

(* The rules a stored policy can hold.  A preset goes through the checked  *)
(* constructors, but custom rules are deserialized as they come, so that a *)
(* limit may be negative, or above 100%, or an allow-list in capitals.     *)
PolicyRule ==
       [id : {"MaxTransactionAmount", "MaxDailySpend", "MinProtocolTvl",
              "MinRiskScore", "MaxConfidenceThreshold"}, limit : Int]
  \union [id : {"MaxPercentPerProtocol", "MaxPercentPerAsset",
               "MaxProtocolUtilization", "MinAlternativesConsidered"}, limit : Nat]
  \union [id : {"AllowedProtocols"}, limit : SUBSET Protocols]
  \union [id : {"BlockedActions"}, limit : SUBSET Actions]
  \union [id : {"OnlyAuditedProtocols"}, limit : {None}]

-----------------------------------------------------------------------------
(* Floats.  Decimal::from_f64_retain keeps the digits of the float that    *)
(* stands for a literal: for most hundredths it lies a hair above or below *)
(* the literal, here one unit of Score.  The two sets list the hundredths  *)
(* whose double is below and above; 0, 25, 50, 75 and 100 are exact.       *)

DoubleBelow ==
  {3, 6, 9, 12, 15, 18, 21, 24, 29, 30, 31, 35, 36, 37, 41, 42, 43, 47, 48, 49}
    \union (57 .. 62) \union (69 .. 74) \union (82 .. 87) \union (94 .. 99)

DoubleExact == {0, 25, 50, 75, 100}

FromF64Retain(hundredths) ==
  1000 * hundredths + (IF hundredths \in DoubleExact THEN 0
                       ELSE IF hundredths \in DoubleBelow THEN -1 ELSE 1)

(* A confidence outside 0 .. 1 counts as full confidence.                  *)
Confidence(hundredths) ==
  IF hundredths \in 0 .. 100 THEN FromF64Retain(hundredths) ELSE One

-----------------------------------------------------------------------------
(* The rules.  An outcome is "pass", "fail" or "indeterminate".            *)

Check(ok) == IF ok THEN "pass" ELSE "fail"

(* A rule that needs optional evidence cannot be evaluated without it.     *)
Known(value, ok) == IF value = None THEN "indeterminate" ELSE Check(ok)

(* (exposure + amount) / portfolio <= limit / 10000, without the division. *)
ShareCap(exposure, limit, tx, ctx) ==
  IF ctx.portfolio = 0 THEN "indeterminate"
  ELSE Check((exposure + tx.amount) * FullBps <= limit * ctx.portfolio)

Outcome(rule, tx, ctx) ==
  CASE rule.id = "MaxTransactionAmount" ->
         Check(tx.amount <= rule.limit)
    [] rule.id = "MaxPercentPerProtocol" ->
         ShareCap(ctx.protocolExposure, rule.limit, tx, ctx)
    [] rule.id = "MaxPercentPerAsset" ->
         ShareCap(ctx.assetExposure, rule.limit, tx, ctx)
    [] rule.id = "OnlyAuditedProtocols" ->
         Check(tx.protocol \in ctx.audited)
    [] rule.id = "AllowedProtocols" ->
         Check(tx.protocol \in rule.limit)
    [] rule.id = "BlockedActions" ->
         Check(tx.action \notin rule.limit)
    [] rule.id = "MaxDailySpend" ->
         Check(ctx.dailySpend + tx.amount <= rule.limit)
    [] rule.id = "MinRiskScore" ->
         Known(ctx.riskScore, ctx.riskScore >= rule.limit)
    [] rule.id = "MaxProtocolUtilization" ->
         Known(ctx.utilization, ctx.utilization <= rule.limit)
    [] rule.id = "MinProtocolTvl" ->
         Known(ctx.tvl, ctx.tvl >= rule.limit)
    [] rule.id = "MinAlternativesConsidered" ->
         Known(ctx.reasoning, ctx.reasoning.alternatives >= rule.limit)
    [] rule.id = "MaxConfidenceThreshold" ->
         Known(ctx.reasoning, Confidence(ctx.reasoning.confidence) <= rule.limit)

-----------------------------------------------------------------------------
(* The verdict.  Rules come as a family: a policy's list is indexed by     *)
(* position, the rules of several policies by <<policy, position>>.  The   *)
(* verdict carries one result per rule, under the rule's index; the order  *)
(* in which a list is flattened decides nothing.                           *)

Flatten(lists) ==
  [r \in UNION {{p} \X DOMAIN lists[p] : p \in DOMAIN lists} |->
     lists[r[1]][r[2]]]

BlockedByEngine(reason) ==
  [decision |-> "blocked", results |-> << >>, engineReason |-> reason]

RuleResults(rules, tx, ctx) ==
  [i \in DOMAIN rules |->
     [rule |-> rules[i].id, outcome |-> Outcome(rules[i], tx, ctx)]]

(* Fault: a rule that cannot be evaluated does not block.                  *)
Blocks_OnlyFail(outcome) == outcome = "fail"

Blocks(outcome) == outcome \in {"fail", "indeterminate"}

(* Fault: Iterator::all where Iterator::any is meant.                      *)
Decide_AllMustBlock(results) ==
  IF \A i \in DOMAIN results : Blocks(results[i].outcome)
    THEN "blocked" ELSE "approved"

Decide(results) ==
  IF \E i \in DOMAIN results : Blocks(results[i].outcome)
    THEN "blocked" ELSE "approved"

(* Fault: the early return for an empty rule list is missing.              *)
Evaluate_FailOpen(rules, tx, ctx) ==
  LET results == RuleResults(rules, tx, ctx)
  IN  [decision |-> Decide(results), results |-> results, engineReason |-> None]

(* Every rule is evaluated: there is no short circuit.                     *)
Evaluate(rules, tx, ctx) ==
  IF DOMAIN rules = {}
    THEN BlockedByEngine("NoPoliciesConfigured")
    ELSE LET results == RuleResults(rules, tx, ctx)
         IN  [decision |-> Decide(results), results |-> results,
              engineReason |-> None]

Approved(rules, tx, ctx) == Evaluate(rules, tx, ctx).decision = "approved"

(* PolicyVerdict::failed_rules: where the results are not a pass.          *)
FailedRules(verdict) ==
  {i \in DOMAIN verdict.results : Blocks(verdict.results[i].outcome)}

(* A Decimal's arithmetic panics when its result leaves the range, and    *)
(* the evaluation with it.  Three rules add the request to what is held;   *)
(* two of them also write the share of the portfolio as a percentage, pass *)
(* or fail, and that may leave the range too.                              *)
ShareOverflows(exposure, ctx) ==
  /\ ctx.portfolio # 0
  /\ \/ exposure > DecimalMax
     \/ (exposure * 100) \div ctx.portfolio > DecimalMax

Overflows(rules, tx, ctx) ==
  \E i \in DOMAIN rules :
    \/ /\ rules[i].id = "MaxDailySpend"
       /\ ctx.dailySpend + tx.amount > DecimalMax
    \/ /\ rules[i].id = "MaxPercentPerProtocol"
       /\ ShareOverflows(ctx.protocolExposure + tx.amount, ctx)
    \/ /\ rules[i].id = "MaxPercentPerAsset"
       /\ ShareOverflows(ctx.assetExposure + tx.amount, ctx)

-----------------------------------------------------------------------------
(* Presets *)

SafetyFirst ==
  << Rule("MaxTransactionAmount", 500),
     Rule("MaxDailySpend", 1000),
     Rule("MaxPercentPerProtocol", 1000),
     Rule("MaxPercentPerAsset", 3000),
     Rule("OnlyAuditedProtocols", None),
     Rule("BlockedActions", {"borrow", "swap", "transfer"}),
     Rule("MinRiskScore", 80000),
     Rule("MaxProtocolUtilization", 8000),
     Rule("MinProtocolTvl", 50000000),
     Rule("MinAlternativesConsidered", 2),
     Rule("MaxConfidenceThreshold", 95000) >>

(* Fault: the liquidity floor is copied from the strict preset and doubled *)
(* instead of lowered.                                                     *)
Balanced_TvlTypo ==
  [SafetyFirst EXCEPT ![1] = Rule("MaxTransactionAmount", 2000),
                      ![9] = Rule("MinProtocolTvl", 100000000)]

Balanced ==
  << Rule("MaxTransactionAmount", 2000),
     Rule("MaxDailySpend", 5000),
     Rule("MaxPercentPerProtocol", 2500),
     Rule("MaxPercentPerAsset", 5000),
     Rule("OnlyAuditedProtocols", None),
     Rule("BlockedActions", {"borrow", "transfer"}),
     Rule("MinRiskScore", 65000),
     Rule("MaxProtocolUtilization", 9000),
     Rule("MinProtocolTvl", 10000000),
     Rule("MinAlternativesConsidered", 1),
     Rule("MaxConfidenceThreshold", 98000) >>

BestYields ==
  << Rule("MaxTransactionAmount", 5000),
     Rule("MaxDailySpend", 10000),
     Rule("MaxPercentPerProtocol", 4000),
     Rule("MaxPercentPerAsset", 7000),
     Rule("OnlyAuditedProtocols", None),
     Rule("BlockedActions", {"transfer"}),
     Rule("MinRiskScore", 50000),
     Rule("MaxProtocolUtilization", 9500),
     Rule("MinProtocolTvl", 5000000) >>

=============================================================================
