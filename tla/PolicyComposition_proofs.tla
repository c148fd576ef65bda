---------------------- MODULE PolicyComposition_proofs ----------------------
(***************************************************************************)
(* How policies compose and how the presets are nested, for every set of   *)
(* policies, rules and requests.                                           *)
(***************************************************************************)
EXTENDS PolicyComposition, EngineLemmas

(* The type invariant: active policies hold rule lists that can be stored. *)
THEOREM TypeCorrect == Spec => []TypeOK
<1>1. Init => TypeOK
  BY DEF Init, TypeOK
<1>2. TypeOK /\ [Next]_vars => TypeOK'
  <2> SUFFICES ASSUME TypeOK, [Next]_vars PROVE TypeOK'
    OBVIOUS
  <2>1. ASSUME NEW p \in PolicyIds, NEW rules \in RuleLists, AddPolicy(p, rules)
        PROVE  TypeOK'
    BY <2>1 DEF TypeOK, AddPolicy
  <2>2. ASSUME NEW p \in PolicyIds, RemovePolicy(p)
        PROVE  TypeOK'
    BY <2>2 DEF TypeOK, RemovePolicy
  <2>3. CASE UNCHANGED vars
    BY <2>3 DEF TypeOK, vars
  <2> QED
    BY <2>1, <2>2, <2>3 DEF Next
<1> QED
  BY <1>1, <1>2, PTL DEF Spec

(* What overflows with some policies overflows with more of them.          *)
LEMMA FlattenOverflows ==
  ASSUME NEW few, NEW many, NEW tx, NEW ctx,
         DOMAIN few \subseteq DOMAIN many,
         \A p \in DOMAIN few : many[p] = few[p],
         Overflows(Flatten(few), tx, ctx)
  PROVE  Overflows(Flatten(many), tx, ctx)
<1>1. \A r \in DOMAIN Flatten(few) :
        r \in DOMAIN Flatten(many) /\ Flatten(many)[r] = Flatten(few)[r]
  <2> SUFFICES ASSUME NEW r \in DOMAIN Flatten(few)
               PROVE  r \in DOMAIN Flatten(many) /\ Flatten(many)[r] = Flatten(few)[r]
    OBVIOUS
  <2>1. PICK p \in DOMAIN few : r \in {p} \X DOMAIN few[p]
    BY DEF Flatten
  <2>2. r[1] = p /\ r[1] \in DOMAIN many /\ many[r[1]] = few[r[1]]
    BY <2>1
  <2>3. r \in {p} \X DOMAIN many[p] /\ p \in DOMAIN many
    BY <2>1, <2>2
  <2> QED
    BY <2>2, <2>3 DEF Flatten
<1> QED
  BY <1>1 DEF Overflows

(* Whatever the rules and the request, policies compose into a stricter    *)
(* set: no policy added to others undoes a block.                          *)
THEOREM PoliciesComposeStricter == Spec => ComposesStricter
<1>1. TypeOK /\ TypeOK' /\ [Next]_vars => [Stricter]_vars
  <2> SUFFICES ASSUME TypeOK, TypeOK', [Next]_vars, wire' = wire PROVE Stricter
    BY DEF Next, AddPolicy, RemovePolicy, vars
  <2> DEFINE Passes(l) == \A p \in DOMAIN l : \A i \in DOMAIN l[p] :
                            Outcome(l[p][i], Tx, Context) = "pass"
             Some(l)   == \E p \in DOMAIN l : DOMAIN l[p] # {}
             Fits(l)   == ~ Overflows(Flatten(l), Tx, Context)
  <2>1. \A p \in DOMAIN lists : \A i \in DOMAIN lists[p] : lists[p][i] \in PolicyRule
    BY InputAssumption DEF TypeOK
  <2>2. \A p \in DOMAIN lists' : \A i \in DOMAIN lists'[p] : lists'[p][i] \in PolicyRule
    BY InputAssumption DEF TypeOK
  <2>3. \A p \in DOMAIN lists \intersect DOMAIN lists' : lists'[p] = lists[p]
    BY DEF Next, AddPolicy, RemovePolicy, vars, TypeOK
  <2>4. Tx' = Tx /\ Context' = Context
    BY DEF Tx, Context, ToTransaction, ToContext
  <2>5. ApprovedBy(Rules) <=>
          Convertible(wire) /\ Fits(lists) /\ Some(lists) /\ Passes(lists)
    BY <2>1, FlattenApproved DEF ApprovedBy, Rules
  <2>6. ApprovedBy(Rules)' <=>
          Convertible(wire) /\ Fits(lists') /\ Some(lists') /\ Passes(lists')
    <3>1. Approved(Flatten(lists'), Tx, Context) <=> Some(lists') /\ Passes(lists')
      BY <2>2, FlattenApproved
    <3> QED
      BY <3>1, <2>4 DEF ApprovedBy, Rules
  <2>7. DOMAIN Rules # {} => Some(lists)
    BY FlattenRange DEF Rules
  <2>8. DOMAIN Rules' # {} => Some(lists')
    BY FlattenRange DEF Rules
  <2>9. DOMAIN lists \subseteq DOMAIN lists' => (Fits(lists') => Fits(lists))
    BY <2>3, FlattenOverflows
  <2>10. DOMAIN lists' \subseteq DOMAIN lists => (Fits(lists) => Fits(lists'))
    BY <2>3, FlattenOverflows
  <2> HIDE DEF Fits
  <2> QED
    BY <2>3, <2>5, <2>6, <2>7, <2>8, <2>9, <2>10 DEF Stricter
<1> QED
  BY <1>1, TypeCorrect, PTL DEF Spec, ComposesStricter

-----------------------------------------------------------------------------
(* Presets *)

(* A context whose evidence, where it is given, is a number.               *)
Judgeable(tx, ctx) ==
  /\ tx.amount \in Nat
  /\ ctx.portfolio \in Nat
  /\ ctx.protocolExposure \in Nat
  /\ ctx.assetExposure \in Nat
  /\ ctx.dailySpend \in Nat
  /\ ctx.riskScore # None => ctx.riskScore \in Int
  /\ ctx.utilization # None => ctx.utilization \in Int
  /\ ctx.tvl # None => ctx.tvl \in Int
  /\ ctx.reasoning # None =>
       /\ ctx.reasoning.alternatives \in Int
       /\ Confidence(ctx.reasoning.confidence) \in Int

(* A rule with a laxer limit passes whatever the stricter one passes.      *)
Laxer(strict, lax) ==
  /\ strict.id = lax.id
  /\ \/ /\ lax.id \in {"MaxTransactionAmount", "MaxDailySpend", "MaxPercentPerProtocol",
                       "MaxPercentPerAsset", "MaxProtocolUtilization",
                       "MaxConfidenceThreshold"}
        /\ strict.limit \in Int /\ lax.limit \in Int /\ strict.limit <= lax.limit
     \/ /\ lax.id \in {"MinRiskScore", "MinProtocolTvl", "MinAlternativesConsidered"}
        /\ strict.limit \in Int /\ lax.limit \in Int /\ strict.limit >= lax.limit
     \/ /\ lax.id = "BlockedActions" /\ lax.limit \subseteq strict.limit
     \/ lax.id = "OnlyAuditedProtocols"

LEMMA LaxerPasses ==
  ASSUME NEW tx, NEW ctx, Judgeable(tx, ctx), NEW strict, NEW lax, Laxer(strict, lax),
         Outcome(strict, tx, ctx) = "pass"
  PROVE  Outcome(lax, tx, ctx) = "pass"
<1>1. CASE lax.id \in {"MaxTransactionAmount", "MaxDailySpend"}
  BY <1>1 DEF Judgeable, Laxer, Outcome, Check
<1>2. CASE lax.id \in {"MaxPercentPerProtocol", "MaxPercentPerAsset"}
  <2>1. ASSUME NEW e \in Nat, ShareCap(e, strict.limit, tx, ctx) = "pass"
        PROVE  ShareCap(e, lax.limit, tx, ctx) = "pass"
    <3>1. ctx.portfolio # 0 /\ (e + tx.amount) * FullBps <= strict.limit * ctx.portfolio
      BY <2>1 DEF ShareCap, Check
    <3>2. strict.limit * ctx.portfolio <= lax.limit * ctx.portfolio
      <4>1. strict.limit \in Int /\ lax.limit \in Int /\ strict.limit <= lax.limit
        BY <1>2 DEF Laxer
      <4>2. PICK d \in Nat : lax.limit = strict.limit + d
        BY <4>1
      <4>3. ctx.portfolio \in Nat /\ d * ctx.portfolio \in Nat
        BY <4>2 DEF Judgeable
      <4>4. lax.limit * ctx.portfolio = strict.limit * ctx.portfolio + d * ctx.portfolio
        BY <4>1, <4>2, <4>3
      <4> QED
        BY <4>1, <4>3, <4>4
    <3>3. (e + tx.amount) * FullBps \in Int /\ strict.limit * ctx.portfolio \in Int
            /\ lax.limit * ctx.portfolio \in Int
      BY <1>2 DEF Judgeable, Laxer, FullBps
    <3> QED
      BY <3>1, <3>2, <3>3 DEF ShareCap, Check
  <2>2. ctx.protocolExposure \in Nat /\ ctx.assetExposure \in Nat
    BY DEF Judgeable
  <2> QED
    BY <1>2, <2>1, <2>2 DEF Laxer, Outcome
<1>3. CASE lax.id \in {"MinRiskScore", "MinProtocolTvl", "MinAlternativesConsidered",
                       "MaxProtocolUtilization", "MaxConfidenceThreshold"}
  BY <1>3 DEF Judgeable, Laxer, Outcome, Known, Check
<1>4. CASE lax.id \in {"BlockedActions", "OnlyAuditedProtocols"}
  BY <1>4 DEF Laxer, Outcome, Check
<1> QED
  BY <1>1, <1>2, <1>3, <1>4 DEF Laxer

(* A list approves what another approves when each of its rules is laxer   *)
(* than some rule of the other.                                            *)
LEMMA LaxerApproves ==
  ASSUME NEW tx, NEW ctx, Judgeable(tx, ctx), NEW strict, NEW lax,
         \A i \in DOMAIN strict : strict[i] \in PolicyRule,
         \A i \in DOMAIN lax : lax[i] \in PolicyRule,
         DOMAIN lax # {}, DOMAIN lax \subseteq DOMAIN strict,
         \A i \in DOMAIN lax : Laxer(strict[i], lax[i]),
         Approved(strict, tx, ctx)
  PROVE  Approved(lax, tx, ctx)
<1>1. \A i \in DOMAIN strict : Outcome(strict[i], tx, ctx) = "pass"
  BY ApprovedMeansAllPass
<1>2. \A i \in DOMAIN lax : Outcome(lax[i], tx, ctx) = "pass"
  BY <1>1, LaxerPasses
<1> QED
  BY <1>2, ApprovedMeansAllPass

(* And it overflows only if the other does: the rules have the same ids.   *)
LEMMA LaxerOverflows ==
  ASSUME NEW tx, NEW ctx, NEW strict, NEW lax, DOMAIN lax \subseteq DOMAIN strict,
         \A i \in DOMAIN lax : Laxer(strict[i], lax[i]),
         Overflows(lax, tx, ctx)
  PROVE  Overflows(strict, tx, ctx)
  BY DEF Overflows, Laxer

LEMMA PresetRules ==
  /\ DOMAIN SafetyFirst = 1 .. 11 /\ \A i \in 1 .. 11 : SafetyFirst[i] \in PolicyRule
  /\ DOMAIN Balanced = 1 .. 11 /\ \A i \in 1 .. 11 : Balanced[i] \in PolicyRule
  /\ DOMAIN BestYields = 1 .. 9 /\ \A i \in 1 .. 9 : BestYields[i] \in PolicyRule
<1>1. DOMAIN SafetyFirst = 1 .. 11 /\ \A i \in 1 .. 11 : SafetyFirst[i] \in PolicyRule
  BY DEF SafetyFirst, Rule, PolicyRule, Actions
<1>2. DOMAIN Balanced = 1 .. 11 /\ \A i \in 1 .. 11 : Balanced[i] \in PolicyRule
  BY DEF Balanced, Rule, PolicyRule, Actions
<1>3. DOMAIN BestYields = 1 .. 9 /\ \A i \in 1 .. 9 : BestYields[i] \in PolicyRule
  BY DEF BestYields, Rule, PolicyRule, Actions
<1> QED
  BY <1>1, <1>2, <1>3

LEMMA PresetsLaxer ==
  /\ \A i \in 1 .. 11 : Laxer(SafetyFirst[i], Balanced[i])
  /\ \A i \in 1 .. 9 : Laxer(Balanced[i], BestYields[i])
<1>1. \A i \in 1 .. 11 : Laxer(SafetyFirst[i], Balanced[i])
  BY DEF SafetyFirst, Balanced, Rule, Laxer
<1>2. \A i \in 1 .. 9 : Laxer(Balanced[i], BestYields[i])
  BY DEF Balanced, BestYields, Rule, Laxer
<1> QED
  BY <1>1, <1>2

(* A request that converts has figures the rules can compare.              *)
LEMMA ConvertibleJudgeable ==
  ASSUME NEW w \in WireRequest, Convertible(w)
  PROVE  Judgeable(ToTransaction(w), ToContext(w))
<1>1. /\ w.amount \in Nat /\ w.portfolio \in Nat /\ w.protocolExposure \in Nat
      /\ w.assetExposure \in Nat /\ w.dailySpend \in Nat
      /\ w.tvl # None => w.tvl \in Nat
  BY DEF Convertible, ParsesAsMoney, WireRequest, WireMoney, Optional
<1>2. w.riskScore # None => FromF64Retain(w.riskScore) \in Int
  BY DEF WireRequest, Optional, FromF64Retain
<1>3. w.utilization # None => ToBps(w.utilization) \in Int
  BY DEF WireRequest, Optional, ToBps, WireBps
<1>4. w.reasoning # None => /\ w.reasoning.alternatives \in Int
                            /\ Confidence(w.reasoning.confidence) \in Int
  BY DEF WireRequest, Optional, ReasoningTrace, Confidence, FromF64Retain, One
<1>5. ToTransaction(w).amount = w.amount
  BY DEF ToTransaction
<1>6. /\ ToContext(w).portfolio = w.portfolio
      /\ ToContext(w).protocolExposure = w.protocolExposure
      /\ ToContext(w).assetExposure = w.assetExposure
      /\ ToContext(w).dailySpend = w.dailySpend
      /\ ToContext(w).riskScore = None \/ ToContext(w).riskScore \in Int
      /\ ToContext(w).utilization = None \/ ToContext(w).utilization \in Int
      /\ ToContext(w).tvl = w.tvl
      /\ ToContext(w).reasoning = w.reasoning
  BY <1>2, <1>3 DEF ToContext
<1> QED
  BY <1>1, <1>4, <1>5, <1>6 DEF Judgeable

(* "safety_first is strictest, best_yields is most permissive", for every  *)
(* request: what a preset approves the next one approves.                  *)
THEOREM PresetsAreNested == Spec => []PresetsNest
<1>1. TypeOK => PresetsNest
  <2> SUFFICES ASSUME TypeOK, Convertible(wire) PROVE
        /\ Approved(SafetyFirst, Tx, Context) => Approved(Balanced, Tx, Context)
        /\ Approved(Balanced, Tx, Context) => Approved(BestYields, Tx, Context)
        /\ Overflows(Balanced, Tx, Context) => Overflows(SafetyFirst, Tx, Context)
        /\ Overflows(BestYields, Tx, Context) => Overflows(Balanced, Tx, Context)
    BY DEF PresetsNest, ApprovedBy
  <2>1. Judgeable(Tx, Context)
    BY ConvertibleJudgeable, InputAssumption DEF TypeOK, Tx, Context
  <2>2. 1 .. 9 \subseteq 1 .. 11 /\ 1 .. 9 # {} /\ 1 .. 11 # {}
    BY 1 \in 1 .. 9, 1 \in 1 .. 11
  <2>3. Approved(SafetyFirst, Tx, Context) => Approved(Balanced, Tx, Context)
    BY <2>1, <2>2, PresetRules, PresetsLaxer, LaxerApproves
  <2>4. Approved(Balanced, Tx, Context) => Approved(BestYields, Tx, Context)
    BY <2>1, <2>2, PresetRules, PresetsLaxer, LaxerApproves
  <2>5. Overflows(Balanced, Tx, Context) => Overflows(SafetyFirst, Tx, Context)
    BY PresetRules, PresetsLaxer, LaxerOverflows
  <2>6. Overflows(BestYields, Tx, Context) => Overflows(Balanced, Tx, Context)
    BY <2>2, PresetRules, PresetsLaxer, LaxerOverflows
  <2> QED
    BY <2>3, <2>4, <2>5, <2>6
<1> QED
  BY <1>1, TypeCorrect, PTL

(* The flattened rules are rules that a policy can hold.                   *)
LEMMA RulesCanBeStored ==
  ASSUME TypeOK
  PROVE  \A i \in DOMAIN Rules : Rules[i] \in PolicyRule
<1>1. ASSUME NEW i \in DOMAIN Rules
      PROVE  Rules[i] \in PolicyRule
  <2>1. PICK p \in DOMAIN lists : \E j \in DOMAIN lists[p] : Rules[i] = lists[p][j]
    BY FlattenRange DEF Rules
  <2> QED
    BY <2>1, InputAssumption DEF TypeOK
<1> QED
  BY <1>1

(* An approval means what the configured rules say, of the request as the  *)
(* client wrote it: missing evidence, an unparsed amount, a conversion or  *)
(* an empty rule set never lets a request past.                            *)
THEOREM ApprovalsAreWithinLimits == Spec => []ApprovedMeansWithinLimits
<1>1. TypeOK => ApprovedMeansWithinLimits
  <2> SUFFICES ASSUME TypeOK, Convertible(wire), Approved(Rules, Tx, Context)
               PROVE  /\ DOMAIN Rules # {}
                      /\ wire.amount \in Nat
                      /\ \A i \in DOMAIN Rules : WithinLimit(Rules[i], wire)
    BY DEF ApprovedMeansWithinLimits, ApprovedBy
  <2>1. wire \in WireRequest
    BY InputAssumption DEF TypeOK
  <2>2. \A i \in DOMAIN Rules : Rules[i] \in PolicyRule
    BY RulesCanBeStored
  <2>3. /\ DOMAIN Rules # {}
        /\ \A i \in DOMAIN Rules : Outcome(Rules[i], Tx, Context) = "pass"
    BY <2>2, ApprovedMeansAllPass
  <2>4. \A i \in DOMAIN Rules : WithinLimit(Rules[i], wire)
    BY <2>1, <2>2, <2>3, PassMeansWithinLimit DEF Tx, Context
  <2> QED
    BY <2>1, <2>3, <2>4, ConvertedAmounts
<1> QED
  BY <1>1, TypeCorrect, PTL

(* A block has a cause, whatever the rules and the request: a request that *)
(* is clearly within every limit, and overflows nothing, is approved.      *)
THEOREM BlocksHaveACause == Spec => []BlocksOnlyForCause
<1>1. TypeOK => BlocksOnlyForCause
  <2> SUFFICES ASSUME TypeOK, Convertible(wire), DOMAIN Rules # {},
                      \A i \in DOMAIN Rules : ClearlyWithin(Rules[i], wire)
               PROVE  Approved(Rules, Tx, Context)
    BY DEF BlocksOnlyForCause, ApprovedBy
  <2>1. wire \in WireRequest
    BY InputAssumption DEF TypeOK
  <2>2. \A i \in DOMAIN Rules : Outcome(Rules[i], Tx, Context) = "pass"
    BY <2>1, RulesCanBeStored, ClearlyWithinPasses DEF Tx, Context
  <2> QED
    BY <2>2, RulesCanBeStored, ApprovedMeansAllPass
<1> QED
  BY <1>1, TypeCorrect, PTL

=============================================================================
