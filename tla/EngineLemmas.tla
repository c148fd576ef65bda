---------------------------- MODULE EngineLemmas ----------------------------
(***************************************************************************)
(* What an approval means, for every family of rules, request and context, *)
(* and what a rule that passes says of the request as the client wrote it. *)
(***************************************************************************)
EXTENDS RequestConversion, TLAPS

(* Every rule a stored policy can hold has an outcome among the three.     *)
LEMMA OutcomeRange ==
  ASSUME NEW rule \in PolicyRule, NEW tx, NEW ctx
  PROVE  Outcome(rule, tx, ctx) \in {"pass", "fail", "indeterminate"}
  BY DEF PolicyRule, Outcome, Check, Known, ShareCap

(* Fail-closed (engine.rs): an approval means that at least one rule is    *)
(* configured and that every rule passes, whatever their order and however *)
(* many there are.                                                         *)
THEOREM ApprovedMeansAllPass ==
  ASSUME NEW rules, NEW tx, NEW ctx,
         \A i \in DOMAIN rules : rules[i] \in PolicyRule
  PROVE  Approved(rules, tx, ctx) <=>
           /\ DOMAIN rules # {}
           /\ \A i \in DOMAIN rules : Outcome(rules[i], tx, ctx) = "pass"
<1>1. CASE DOMAIN rules = {}
  BY <1>1 DEF Approved, Evaluate, BlockedByEngine
<1>2. CASE DOMAIN rules # {}
  <2> DEFINE results == RuleResults(rules, tx, ctx)
  <2>1. DOMAIN results = DOMAIN rules
    BY DEF RuleResults
  <2>2. \A i \in DOMAIN rules : results[i].outcome = Outcome(rules[i], tx, ctx)
    BY DEF RuleResults
  <2>3. \A i \in DOMAIN rules :
          Blocks(results[i].outcome) <=> Outcome(rules[i], tx, ctx) # "pass"
    BY <2>2, OutcomeRange DEF Blocks
  <2>4. Approved(rules, tx, ctx) <=> Decide(results) = "approved"
    BY <1>2 DEF Approved, Evaluate
  <2>5. Decide(results) = "approved" <=>
          \A i \in DOMAIN rules : ~ Blocks(results[i].outcome)
    BY <2>1 DEF Decide
  <2> QED
    BY <1>2, <2>3, <2>4, <2>5
<1> QED
  BY <1>1, <1>2

(* The flattened rules of several policies are the rules of each of them.  *)
LEMMA FlattenDomain ==
  ASSUME NEW ls
  PROVE  /\ DOMAIN Flatten(ls) = UNION {{p} \X DOMAIN ls[p] : p \in DOMAIN ls}
         /\ \A p \in DOMAIN ls : \A i \in DOMAIN ls[p] :
              /\ << p, i >> \in DOMAIN Flatten(ls)
              /\ Flatten(ls)[<< p, i >>] = ls[p][i]
  BY DEF Flatten

LEMMA FlattenRange ==
  ASSUME NEW ls, NEW r \in DOMAIN Flatten(ls)
  PROVE  \E p \in DOMAIN ls : \E i \in DOMAIN ls[p] :
           r = << p, i >> /\ Flatten(ls)[r] = ls[p][i]
<1>1. PICK p \in DOMAIN ls : r \in {p} \X DOMAIN ls[p]
  BY DEF Flatten
<1>2. PICK i \in DOMAIN ls[p] : r = << p, i >>
  BY <1>1
<1> QED
  BY <1>2, FlattenDomain

(* Several policies approve a request when one of them has a rule and      *)
(* every rule of each of them passes.                                      *)
THEOREM FlattenApproved ==
  ASSUME NEW ls, NEW tx, NEW ctx,
         \A p \in DOMAIN ls : \A i \in DOMAIN ls[p] : ls[p][i] \in PolicyRule
  PROVE  Approved(Flatten(ls), tx, ctx) <=>
           /\ \E p \in DOMAIN ls : DOMAIN ls[p] # {}
           /\ \A p \in DOMAIN ls : \A i \in DOMAIN ls[p] :
                Outcome(ls[p][i], tx, ctx) = "pass"
<1> DEFINE rules == Flatten(ls)
<1>1. \A r \in DOMAIN rules : rules[r] \in PolicyRule
  BY FlattenRange
<1>2. DOMAIN rules # {} <=> \E p \in DOMAIN ls : DOMAIN ls[p] # {}
  BY FlattenDomain, FlattenRange
<1>3. (\A r \in DOMAIN rules : Outcome(rules[r], tx, ctx) = "pass")
        <=> \A p \in DOMAIN ls : \A i \in DOMAIN ls[p] :
              Outcome(ls[p][i], tx, ctx) = "pass"
  <2>1. ASSUME \A r \in DOMAIN rules : Outcome(rules[r], tx, ctx) = "pass",
               NEW p \in DOMAIN ls, NEW i \in DOMAIN ls[p]
        PROVE  Outcome(ls[p][i], tx, ctx) = "pass"
    <3>1. << p, i >> \in DOMAIN rules /\ rules[<< p, i >>] = ls[p][i]
      BY FlattenDomain
    <3>2. Outcome(rules[<< p, i >>], tx, ctx) = "pass"
      BY <2>1, <3>1
    <3> QED
      BY <3>1, <3>2
  <2>2. ASSUME \A p \in DOMAIN ls : \A i \in DOMAIN ls[p] :
                 Outcome(ls[p][i], tx, ctx) = "pass",
               NEW r \in DOMAIN rules
        PROVE  Outcome(rules[r], tx, ctx) = "pass"
    <3>1. PICK p \in DOMAIN ls : \E i \in DOMAIN ls[p] : rules[r] = ls[p][i]
      BY FlattenRange
    <3>2. PICK i \in DOMAIN ls[p] : rules[r] = ls[p][i]
      BY <3>1
    <3>3. Outcome(ls[p][i], tx, ctx) = "pass"
      BY <2>2
    <3> QED
      BY <3>2, <3>3
  <2> QED
    BY <2>1, <2>2
<1> QED
  <2> HIDE DEF rules
  <2>1. Approved(rules, tx, ctx) <=>
          DOMAIN rules # {} /\ \A r \in DOMAIN rules : Outcome(rules[r], tx, ctx) = "pass"
    BY <1>1, ApprovedMeansAllPass
  <2>2. Approved(Flatten(ls), tx, ctx) <=> Approved(rules, tx, ctx)
    BY DEF rules
  <2> QED
    BY <1>2, <1>3, <2>1, <2>2

-----------------------------------------------------------------------------
(* What it says of the request on the wire that a rule passes.             *)

USE DEF Optional

LEMMA ConvertedAmounts ==
  ASSUME NEW w \in WireRequest, Convertible(w)
  PROVE  /\ w.amount \in Nat /\ w.portfolio \in Nat /\ w.protocolExposure \in Nat
         /\ w.assetExposure \in Nat /\ w.dailySpend \in Nat
         /\ w.tvl # None => w.tvl \in Nat
         /\ w.riskScore # None => w.riskScore \in 0 .. 100
         /\ w.utilization # None => w.utilization \in Int
         /\ w.reasoning # None => w.reasoning \in ReasoningTrace
  BY DEF Convertible, ParsesAsMoney, WireRequest, WireMoney

LEMMA ContextFields ==
  ASSUME NEW w
  PROVE  /\ ToTransaction(w).amount = w.amount
         /\ ToTransaction(w).action = w.action
         /\ ToTransaction(w).protocol = Lower[w.protocol]
         /\ ToContext(w).portfolio = w.portfolio
         /\ ToContext(w).protocolExposure = w.protocolExposure
         /\ ToContext(w).assetExposure = w.assetExposure
         /\ ToContext(w).dailySpend = w.dailySpend
         /\ ToContext(w).audited = {Lower[p] : p \in w.audited}
         /\ ToContext(w).riskScore =
              IF w.riskScore = None THEN None ELSE FromF64Retain(w.riskScore)
         /\ ToContext(w).utilization =
              IF w.utilization = None THEN None ELSE ToBps(w.utilization)
         /\ ToContext(w).tvl = w.tvl
         /\ ToContext(w).reasoning = w.reasoning
  BY DEF ToTransaction, ToContext

(* A float is within one unit of the literal it stands for.                *)
LEMMA FloatIsNear ==
  ASSUME NEW h \in Int
  PROVE  /\ FromF64Retain(h) \in Int
         /\ FromF64Retain(h) <= 1000 * h + 1
         /\ FromF64Retain(h) >= 1000 * h - 1
  BY DEF FromF64Retain

(* A rule that passes holds of the request as it was written: the          *)
(* conversions let nothing past.                                           *)
THEOREM PassMeansWithinLimit ==
  ASSUME NEW w \in WireRequest, Convertible(w), NEW rule \in PolicyRule,
         Outcome(rule, ToTransaction(w), ToContext(w)) = "pass"
  PROVE  WithinLimit(rule, w)
<1> DEFINE tx  == ToTransaction(w)
           ctx == ToContext(w)
<1> HIDE DEF tx, ctx
<1>1. Outcome(rule, tx, ctx) = "pass"
  BY DEF tx, ctx
<1>2. CASE rule.id \in {"MaxTransactionAmount", "MaxDailySpend"}
  <2>1. tx.amount = w.amount /\ ctx.dailySpend = w.dailySpend
    BY ContextFields DEF tx, ctx
  <2>2. /\ rule.id = "MaxTransactionAmount" => w.amount <= rule.limit
        /\ rule.id = "MaxDailySpend" => w.dailySpend + w.amount <= rule.limit
    BY <1>1, <1>2, <2>1 DEF Outcome, Check
  <2>3. w.dailySpend + w.amount = w.amount + w.dailySpend
    BY ConvertedAmounts
  <2> QED
    BY <1>2, <2>2, <2>3 DEF WithinLimit
<1>3. CASE rule.id \in {"MaxPercentPerProtocol", "MaxPercentPerAsset"}
  <2>1. ASSUME NEW e \in Nat, ShareCap(e, rule.limit, tx, ctx) = "pass"
        PROVE  w.portfolio > 0 /\ FullBps * (e + w.amount) <= rule.limit * w.portfolio
    <3>1. ctx.portfolio = w.portfolio /\ tx.amount = w.amount
      BY ContextFields DEF tx, ctx
    <3>2. w.portfolio # 0 /\ (e + w.amount) * FullBps <= rule.limit * w.portfolio
      BY <2>1, <3>1 DEF ShareCap, Check
    <3> QED
      BY <3>2, ConvertedAmounts DEF FullBps
  <2>2. /\ rule.id = "MaxPercentPerProtocol" =>
             ShareCap(w.protocolExposure, rule.limit, tx, ctx) = "pass"
        /\ rule.id = "MaxPercentPerAsset" =>
             ShareCap(w.assetExposure, rule.limit, tx, ctx) = "pass"
    BY <1>1, <1>3, ContextFields DEF ctx, Outcome
  <2> QED
    BY <1>3, <2>1, <2>2, ConvertedAmounts DEF WithinLimit
<1>4. CASE rule.id \in {"OnlyAuditedProtocols", "BlockedActions"}
  <2>1. /\ tx.protocol = Lower[w.protocol] /\ tx.action = w.action
        /\ ctx.audited = {Lower[p] : p \in w.audited}
    BY ContextFields DEF tx, ctx
  <2>2. /\ rule.id = "OnlyAuditedProtocols" => tx.protocol \in ctx.audited
        /\ rule.id = "BlockedActions" => tx.action \notin rule.limit
    BY <1>1, <1>4 DEF Outcome, Check
  <2>3. rule.id = "OnlyAuditedProtocols" => \E p \in w.audited : Lower[p] = Lower[w.protocol]
    BY <2>1, <2>2
  <2> QED
    BY <1>4, <2>1, <2>2, <2>3 DEF WithinLimit
<1>5. CASE rule.id = "AllowedProtocols"
  <2>1. Lower[w.protocol] \in rule.limit
    BY <1>1, <1>5, ContextFields DEF tx, ctx, Outcome, Check
  <2>2. w.protocol \in Protocols
    BY DEF WireRequest
  <2>3. Lower[Lower[w.protocol]] = Lower[w.protocol]
    BY <2>2, LowerAssumption
  <2> QED
    BY <1>5, <2>1, <2>3 DEF WithinLimit
<1>6. CASE rule.id = "MinRiskScore"
  <2>1. rule.limit \in Int
    BY <1>6 DEF PolicyRule
  <2>2. ctx.riskScore # None /\ ctx.riskScore >= rule.limit
    BY <1>1, <1>6 DEF Outcome, Known, Check
  <2>3. w.riskScore # None /\ FromF64Retain(w.riskScore) >= rule.limit
    BY <2>2, ContextFields DEF ctx
  <2>4. w.riskScore \in Int
    BY <2>3, ConvertedAmounts
  <2>5. 1000 * w.riskScore + 1 >= rule.limit
    BY <2>1, <2>3, <2>4, FloatIsNear
  <2> QED
    BY <1>6, <2>3, <2>5 DEF WithinLimit
<1>7. CASE rule.id = "MaxProtocolUtilization"
  <2>1. rule.limit \in Nat
    BY <1>7 DEF PolicyRule
  <2>2. ctx.utilization # None /\ ctx.utilization <= rule.limit
    BY <1>1, <1>7 DEF Outcome, Known, Check
  <2>3. w.utilization # None /\ ToBps(w.utilization) <= rule.limit
    BY <2>2, ContextFields DEF ctx
  <2>4. w.utilization \in Int
    BY <2>3, ConvertedAmounts
  <2>5. w.utilization < WireBps * (rule.limit + 1)
    BY <2>1, <2>3, <2>4 DEF ToBps, WireBps
  <2> QED
    BY <1>7, <2>3, <2>5 DEF WithinLimit
<1>8. CASE rule.id = "MinProtocolTvl"
  BY <1>1, <1>8, ContextFields DEF ctx, Outcome, Known, Check, WithinLimit
<1>9. CASE rule.id = "MinAlternativesConsidered"
  BY <1>1, <1>9, ContextFields DEF ctx, Outcome, Known, Check, WithinLimit
<1>10. CASE rule.id = "MaxConfidenceThreshold"
  <2>1. rule.limit \in Int
    BY <1>10 DEF PolicyRule
  <2>2. ctx.reasoning # None /\ Confidence(ctx.reasoning.confidence) <= rule.limit
    BY <1>1, <1>10 DEF Outcome, Known, Check
  <2>3. w.reasoning # None /\ Confidence(w.reasoning.confidence) <= rule.limit
    BY <2>2, ContextFields DEF ctx
  <2>4. w.reasoning.confidence \in Int
    BY <2>3, ConvertedAmounts DEF ReasoningTrace
  <2>5. rule.limit >= One \/ 1000 * w.reasoning.confidence - 1 <= rule.limit
    <3>1. CASE w.reasoning.confidence \in 0 .. 100
      <4>1. FromF64Retain(w.reasoning.confidence) <= rule.limit
        BY <2>3, <3>1 DEF Confidence
      <4> QED
        BY <2>1, <2>4, <4>1, FloatIsNear
    <3>2. CASE w.reasoning.confidence \notin 0 .. 100
      BY <2>1, <2>3, <3>2 DEF Confidence, One
    <3> QED
      BY <3>1, <3>2
  <2> QED
    BY <1>10, <2>3, <2>5 DEF WithinLimit
<1> QED
  BY <1>2, <1>3, <1>4, <1>5, <1>6, <1>7, <1>8, <1>9, <1>10 DEF PolicyRule

(* A confidence, whatever number it is, counts as full confidence at most. *)
LEMMA ConfidenceIsAtMostFull ==
  ASSUME NEW h \in Int
  PROVE  Confidence(h) \in Int /\ Confidence(h) <= One
  BY DEF Confidence, FromF64Retain, DoubleExact, One

(* The converse: what is within a limit, with a unit to spare where floats *)
(* are compared, passes the rule: the conversions take nothing away.       *)
THEOREM ClearlyWithinPasses ==
  ASSUME NEW w \in WireRequest, Convertible(w), NEW rule \in PolicyRule,
         ClearlyWithin(rule, w)
  PROVE  Outcome(rule, ToTransaction(w), ToContext(w)) = "pass"
<1> DEFINE tx  == ToTransaction(w)
           ctx == ToContext(w)
<1> SUFFICES Outcome(rule, tx, ctx) = "pass"
  OBVIOUS
<1> HIDE DEF tx, ctx
<1>0. WithinLimit(rule, w)
  BY DEF ClearlyWithin
<1>1. CASE rule.id \in {"MaxTransactionAmount", "MaxDailySpend"}
  <2>1. tx.amount = w.amount /\ ctx.dailySpend = w.dailySpend
    BY ContextFields DEF tx, ctx
  <2>2. w.dailySpend + w.amount = w.amount + w.dailySpend
    BY ConvertedAmounts
  <2> QED
    BY <1>0, <1>1, <2>1, <2>2 DEF WithinLimit, Outcome, Check
<1>2. CASE rule.id \in {"MaxPercentPerProtocol", "MaxPercentPerAsset"}
  <2>1. ASSUME NEW e \in Nat, w.portfolio > 0,
               FullBps * (e + w.amount) <= rule.limit * w.portfolio
        PROVE  ShareCap(e, rule.limit, tx, ctx) = "pass"
    <3>1. ctx.portfolio = w.portfolio /\ tx.amount = w.amount
      BY ContextFields DEF tx, ctx
    <3>2. w.portfolio # 0 /\ (e + w.amount) * FullBps <= rule.limit * w.portfolio
      BY <2>1, ConvertedAmounts DEF FullBps
    <3> QED
      BY <3>1, <3>2 DEF ShareCap, Check
  <2>2. /\ ctx.protocolExposure = w.protocolExposure
        /\ ctx.assetExposure = w.assetExposure
        /\ w.protocolExposure \in Nat /\ w.assetExposure \in Nat
    BY ContextFields, ConvertedAmounts DEF ctx
  <2>3. \E e \in {w.protocolExposure, w.assetExposure} :
          /\ rule.id = "MaxPercentPerProtocol" => e = w.protocolExposure
          /\ rule.id = "MaxPercentPerAsset" => e = w.assetExposure
          /\ w.portfolio > 0 /\ FullBps * (e + w.amount) <= rule.limit * w.portfolio
    BY <1>0, <1>2 DEF WithinLimit
  <2> QED
    BY <1>2, <2>1, <2>2, <2>3 DEF Outcome
<1>3. CASE rule.id \in {"OnlyAuditedProtocols", "BlockedActions", "AllowedProtocols"}
  <2>1. /\ tx.protocol = Lower[w.protocol] /\ tx.action = w.action
        /\ ctx.audited = {Lower[p] : p \in w.audited}
    BY ContextFields DEF tx, ctx
  <2>2. /\ rule.id = "OnlyAuditedProtocols" => tx.protocol \in ctx.audited
        /\ rule.id = "BlockedActions" => tx.action \notin rule.limit
        /\ rule.id = "AllowedProtocols" => tx.protocol \in rule.limit
    BY <1>0, <2>1 DEF WithinLimit, ClearlyWithin
  <2> QED
    BY <1>3, <2>2 DEF Outcome, Check
<1>4. CASE rule.id = "MinRiskScore"
  <2>1. rule.limit \in Int
    BY <1>4 DEF PolicyRule
  <2>2. w.riskScore # None /\ 1000 * w.riskScore - 1 >= rule.limit
    BY <1>0, <1>4 DEF WithinLimit, ClearlyWithin
  <2>3. w.riskScore \in Int /\ ctx.riskScore = FromF64Retain(w.riskScore)
    BY <2>2, ConvertedAmounts, ContextFields DEF ctx
  <2>4. FromF64Retain(w.riskScore) \in Int /\ FromF64Retain(w.riskScore) >= rule.limit
    BY <2>1, <2>2, <2>3, FloatIsNear
  <2>5. ctx.riskScore # None /\ ctx.riskScore >= rule.limit
    BY <2>3, <2>4, NoneIsNoNumber
  <2> QED
    BY <1>4, <2>5 DEF Outcome, Known, Check
<1>5. CASE rule.id = "MaxProtocolUtilization"
  <2>1. rule.limit \in Nat
    BY <1>5 DEF PolicyRule
  <2>2. w.utilization # None /\ w.utilization < WireBps * (rule.limit + 1)
    BY <1>0, <1>5 DEF WithinLimit
  <2>3. w.utilization \in Int /\ ctx.utilization = ToBps(w.utilization)
    BY <2>2, ConvertedAmounts, ContextFields DEF ctx
  <2>4. ToBps(w.utilization) \in Int /\ ToBps(w.utilization) <= rule.limit
    BY <2>1, <2>2, <2>3 DEF ToBps, WireBps
  <2>5. ctx.utilization # None /\ ctx.utilization <= rule.limit
    BY <2>3, <2>4, NoneIsNoNumber
  <2> QED
    BY <1>5, <2>5 DEF Outcome, Known, Check
<1>6. CASE rule.id \in {"MinProtocolTvl", "MinAlternativesConsidered"}
  <2>1. ctx.tvl = w.tvl /\ ctx.reasoning = w.reasoning
    BY ContextFields DEF ctx
  <2> QED
    BY <1>0, <1>6, <2>1 DEF WithinLimit, Outcome, Known, Check
<1>7. CASE rule.id = "MaxConfidenceThreshold"
  <2>1. rule.limit \in Int
    BY <1>7 DEF PolicyRule
  <2>2. w.reasoning # None /\ ctx.reasoning = w.reasoning
    BY <1>0, <1>7, ContextFields DEF WithinLimit, ctx
  <2>3. w.reasoning.confidence \in Int
    BY <2>2, ConvertedAmounts DEF ReasoningTrace
  <2>4. Confidence(w.reasoning.confidence) <= rule.limit
    <3>1. CASE rule.limit >= One
      <4>1. Confidence(w.reasoning.confidence) \in Int
            /\ Confidence(w.reasoning.confidence) <= One
        BY <2>3, ConfidenceIsAtMostFull
      <4> QED
        BY <2>1, <3>1, <4>1 DEF One
    <3>2. CASE /\ w.reasoning.confidence \in 0 .. 100
               /\ 1000 * w.reasoning.confidence + 1 <= rule.limit
      <4>1. FromF64Retain(w.reasoning.confidence) <= rule.limit
        BY <2>1, <2>3, <3>2, FloatIsNear
      <4> QED
        BY <3>2, <4>1 DEF Confidence
    <3> QED
      BY <1>7, <3>1, <3>2 DEF ClearlyWithin
  <2> QED
    BY <1>7, <2>2, <2>4 DEF Outcome, Known, Check
<1> QED
  BY <1>1, <1>2, <1>3, <1>4, <1>5, <1>6, <1>7 DEF PolicyRule

=============================================================================
