-------------------------- MODULE SetPolicy_proofs --------------------------
(***************************************************************************)
(* What the rules that set_policy builds enforce, and what /policy shows   *)
(* of a rule, for all arguments, limits and requests.                      *)
(***************************************************************************)
EXTENDS SetPolicy, EngineLemmas

USE DEF Optional

(* The rules that the tool builds: percentages in whole per cents.         *)
ToolRule ==
  {r \in PolicyRule : r.id \in ShownInPercent => \E k \in Nat : r.limit = 100 * k}

(* The chaos agent's tool never asks for reasoning.                        *)
ToolRuleOf(kind) ==
  {r \in ToolRule :
     kind = "chaos" => r.id \notin {"MinAlternativesConsidered", "MaxConfidenceThreshold"}}

Has(s, rule) == \E i \in DOMAIN s : s[i] = rule

LEMMA ConcatHas ==
  ASSUME NEW S, NEW a \in Seq(S), NEW b \in Seq(S)
  PROVE  /\ a \o b \in Seq(S)
         /\ \A rule : Has(a, rule) \/ Has(b, rule) => Has(a \o b, rule)
<1>1. a \o b \in Seq(S) /\ Len(a \o b) = Len(a) + Len(b)
  OBVIOUS
<1>2. ASSUME NEW i \in DOMAIN a
      PROVE  i \in DOMAIN (a \o b) /\ (a \o b)[i] = a[i]
  BY <1>2
<1>3. ASSUME NEW i \in DOMAIN b
      PROVE  Len(a) + i \in DOMAIN (a \o b) /\ (a \o b)[Len(a) + i] = b[i]
  BY <1>3
<1> QED
  BY <1>1, <1>2, <1>3 DEF Has

LEMMA RoundedIsInt ==
  ASSUME NEW value \in Int, NEW step \in Nat \ {0}, NEW r \in Rounded(value, step)
  PROVE  /\ r \in Int
         /\ 2 * (value - r) <= step /\ 2 * (r - value) <= step
         /\ \E k \in Int : r = step * k
<1> DEFINE k == value \div step
<1>1. k \in Int
  OBVIOUS
<1>2. r \in {step * k, step * k + step} /\ 2 * (value - r) <= step /\ 2 * (r - value) <= step
  BY DEF Rounded
<1>3. step * k + step = step * (k + 1) /\ k + 1 \in Int /\ step * k \in Int
  BY <1>1
<1> HIDE DEF k
<1>4. r \in Int
  BY <1>1, <1>2, <1>3
<1>5. \E j \in Int : r = step * j
  <2>1. CASE r = step * k
    BY <1>1, <2>1
  <2>2. CASE r = step * k + step
    <3>1. r = step * (k + 1)
      BY <1>3, <2>2
    <3> QED
      BY <1>3, <3>1
  <2> QED
    BY <1>2, <2>1, <2>2
<1> QED
  BY <1>2, <1>4, <1>5

-----------------------------------------------------------------------------
(* The parts that RulesWith puts together.                                 *)

LEMMA LimitedIs ==
  ASSUME NEW S, NEW id, NEW limit, limit # None => Rule(id, limit) \in S
  PROVE  /\ Limited(id, limit) \in Seq(S)
         /\ limit # None => Has(Limited(id, limit), Rule(id, limit))
<1>1. CASE limit = None
  BY <1>1 DEF Limited
<1>2. CASE limit # None
  <2>1. Limited(id, limit) = << Rule(id, limit) >>
    BY <1>2 DEF Limited
  <2>2. << Rule(id, limit) >> \in Seq(S)
    BY <1>2
  <2>3. 1 \in DOMAIN << Rule(id, limit) >> /\ << Rule(id, limit) >>[1] = Rule(id, limit)
    OBVIOUS
  <2> QED
    BY <2>1, <2>2, <2>3 DEF Has
<1> QED
  BY <1>1, <1>2

LEMMA AlwaysAddedIs ==
  ASSUME NEW kind
  PROVE  /\ AlwaysAdded(kind) \in Seq(ToolRuleOf(kind))
         /\ kind = "bot" =>
              /\ Has(AlwaysAdded(kind), Rule("MinAlternativesConsidered", 2))
              /\ Has(AlwaysAdded(kind), Rule("MaxConfidenceThreshold", 95000))
<1>1. kind # "chaos" => /\ Rule("MinAlternativesConsidered", 2) \in ToolRuleOf(kind)
                        /\ Rule("MaxConfidenceThreshold", 95000) \in ToolRuleOf(kind)
  BY DEF Rule, ToolRuleOf, ToolRule, PolicyRule, ShownInPercent
<1>2. /\ kind # "chaos" => ReasoningRules \in Seq(ToolRuleOf(kind))
      /\ << >> \in Seq(ToolRuleOf(kind))
  BY <1>1 DEF ReasoningRules
<1>3. /\ 1 \in DOMAIN ReasoningRules /\ 2 \in DOMAIN ReasoningRules
      /\ ReasoningRules[1] = Rule("MinAlternativesConsidered", 2)
      /\ ReasoningRules[2] = Rule("MaxConfidenceThreshold", 95000)
  BY DEF ReasoningRules
<1> QED
  BY <1>2, <1>3 DEF AlwaysAdded, Has

(* Every limit that was given has its rule, rounded where it is rounded.   *)
Blocked(args) == {LowerCased(word) : word \in args.blocked}

Binds(rules, args, kind) ==
  /\ args.transaction # None =>
       \E r \in Rounded(args.transaction, Cent) :
         Has(rules, Rule("MaxTransactionAmount", r))
  /\ args.daily # None =>
       \E r \in Rounded(args.daily, Cent) : Has(rules, Rule("MaxDailySpend", r))
  /\ args.perProtocol # None =>
       Has(rules, Rule("MaxPercentPerProtocol", 100 * args.perProtocol))
  /\ args.perAsset # None =>
       Has(rules, Rule("MaxPercentPerAsset", 100 * args.perAsset))
  /\ args.audited => Has(rules, Rule("OnlyAuditedProtocols", None))
  /\ args.blocked # None => Has(rules, Rule("BlockedActions", Blocked(args)))
  /\ args.score # None =>
       \E r \in Rounded(args.score, 10) : Has(rules, Rule("MinRiskScore", 100 * r))
  /\ args.utilization # None =>
       Has(rules, Rule("MaxProtocolUtilization", 100 * args.utilization))
  /\ args.tvl # None => Has(rules, Rule("MinProtocolTvl", args.tvl))
  /\ kind = "bot" =>
       /\ Has(rules, Rule("MinAlternativesConsidered", 2))
       /\ Has(rules, Rule("MaxConfidenceThreshold", 95000))

LEMMA BuiltRulesBind ==
  ASSUME NEW args \in SetPolicyArgs, ~ Refuses(args), NEW kind \in AgentKinds,
         NEW rules \in BuiltRules(args, kind)
  PROVE  rules \in Seq(ToolRuleOf(kind)) /\ Binds(rules, args, kind)
<1>1. PICK transaction \in OptionalRounded(args.transaction, Cent),
           daily       \in OptionalRounded(args.daily, Cent),
           score       \in OptionalRounded(args.score, 10) :
             rules = RulesWith(args, transaction, daily, score, kind)
  BY DEF BuiltRules
<1>2. /\ args.transaction \in Int \union {None} /\ args.daily \in Int \union {None}
      /\ args.perProtocol \in Nat \union {None} /\ args.perAsset \in Nat \union {None}
      /\ args.score \in Int \union {None} /\ args.utilization \in Nat \union {None}
      /\ args.tvl \in Int \union {None}
  BY DEF SetPolicyArgs
<1>3. /\ args.transaction # None => transaction \in Rounded(args.transaction, Cent)
      /\ args.daily # None => daily \in Rounded(args.daily, Cent)
      /\ args.score # None => score \in Rounded(args.score, 10)
  BY <1>1 DEF OptionalRounded
<1>4. /\ transaction \in Int \union {None} /\ (args.transaction # None => transaction \in Int)
      /\ daily \in Int \union {None} /\ (args.daily # None => daily \in Int)
      /\ score \in Int \union {None} /\ (args.score # None => score \in Int)
  <2>1. ASSUME NEW value \in Int \union {None}, NEW step \in Nat \ {0},
               NEW r \in OptionalRounded(value, step)
        PROVE  r \in Int \union {None} /\ (value # None => r \in Int)
    BY <2>1, RoundedIsInt DEF OptionalRounded
  <2>2. /\ transaction \in Int \union {None} /\ (args.transaction # None => transaction \in Int)
        /\ daily \in Int \union {None} /\ (args.daily # None => daily \in Int)
    BY <2>1, <1>1, <1>2, CentAssumption
  <2>3. score \in Int \union {None} /\ (args.score # None => score \in Int)
    <3>1. 10 \in Nat \ {0}
      OBVIOUS
    <3> QED
      BY <3>1, <2>1, <1>1, <1>2
  <2> QED
    BY <2>2, <2>3
<1> DEFINE blockedSet == Blocked(args)
           p1 == DollarLimits(transaction, daily)
           p2 == Limited("MaxPercentPerProtocol", InBps(args.perProtocol))
           p3 == Limited("MaxPercentPerAsset", InBps(args.perAsset))
           p4 == IF args.audited THEN << Rule("OnlyAuditedProtocols", None) >> ELSE << >>
           p5 == Limited("BlockedActions", IF args.blocked = None THEN None ELSE blockedSet)
           p6 == Limited("MinRiskScore", IF score = None THEN None ELSE 100 * score)
           p7 == Limited("MaxProtocolUtilization", InBps(args.utilization))
           p8 == Limited("MinProtocolTvl", args.tvl)
           p9 == AlwaysAdded(kind)
<1>5. rules = p1 \o p2 \o p3 \o p4 \o p5 \o p6 \o p7 \o p8 \o p9
  BY <1>1 DEF RulesWith, Blocked
<1>6. /\ p1 \in Seq(ToolRuleOf(kind))
      /\ transaction # None => Has(p1, Rule("MaxTransactionAmount", transaction))
      /\ daily # None => Has(p1, Rule("MaxDailySpend", daily))
  <2>1. /\ transaction # None => Rule("MaxTransactionAmount", transaction) \in ToolRuleOf(kind)
        /\ daily # None => Rule("MaxDailySpend", daily) \in ToolRuleOf(kind)
    BY <1>4 DEF Rule, ToolRuleOf, ToolRule, PolicyRule, ShownInPercent
  <2>2. /\ Limited("MaxTransactionAmount", transaction) \in Seq(ToolRuleOf(kind))
        /\ transaction # None => Has(Limited("MaxTransactionAmount", transaction),
                                      Rule("MaxTransactionAmount", transaction))
    BY <2>1, LimitedIs
  <2>3. /\ Limited("MaxDailySpend", daily) \in Seq(ToolRuleOf(kind))
        /\ daily # None => Has(Limited("MaxDailySpend", daily), Rule("MaxDailySpend", daily))
    BY <2>1, LimitedIs
  <2> QED
    BY <2>2, <2>3, ConcatHas DEF DollarLimits
<1>7. /\ p2 \in Seq(ToolRuleOf(kind)) /\ p3 \in Seq(ToolRuleOf(kind))
      /\ p7 \in Seq(ToolRuleOf(kind))
      /\ args.perProtocol # None =>
           Has(p2, Rule("MaxPercentPerProtocol", 100 * args.perProtocol))
      /\ args.perAsset # None =>
           Has(p3, Rule("MaxPercentPerAsset", 100 * args.perAsset))
      /\ args.utilization # None =>
           Has(p7, Rule("MaxProtocolUtilization", 100 * args.utilization))
  <2>1. ASSUME NEW id \in {"MaxPercentPerProtocol", "MaxPercentPerAsset",
                          "MaxProtocolUtilization"},
               NEW percent \in Nat \union {None}
        PROVE  /\ Limited(id, InBps(percent)) \in Seq(ToolRuleOf(kind))
               /\ percent # None => Has(Limited(id, InBps(percent)), Rule(id, 100 * percent))
    <3>1. percent # None => InBps(percent) = 100 * percent /\ 100 * percent \in Nat
      BY DEF InBps
    <3>2. percent = None => InBps(percent) = None
      BY DEF InBps
    <3>3. percent # None => Rule(id, InBps(percent)) \in ToolRuleOf(kind)
      BY <3>1 DEF Rule, ToolRuleOf, ToolRule, PolicyRule, ShownInPercent
    <3>4. percent # None => InBps(percent) # None
      BY <3>1, NoneIsNoNumber, NoneAssumption
    <3> QED
      BY <3>1, <3>2, <3>3, <3>4, LimitedIs
  <2> QED
    BY <2>1, <1>2
<1>8. /\ p4 \in Seq(ToolRuleOf(kind))
      /\ args.audited => Has(p4, Rule("OnlyAuditedProtocols", None))
  <2>1. Rule("OnlyAuditedProtocols", None) \in ToolRuleOf(kind)
    BY DEF Rule, ToolRuleOf, ToolRule, PolicyRule, ShownInPercent
  <2>2. << Rule("OnlyAuditedProtocols", None) >> \in Seq(ToolRuleOf(kind))
          /\ << >> \in Seq(ToolRuleOf(kind))
    BY <2>1
  <2>3. Has(<< Rule("OnlyAuditedProtocols", None) >>, Rule("OnlyAuditedProtocols", None))
    BY 1 \in DOMAIN << Rule("OnlyAuditedProtocols", None) >> DEF Has
  <2> QED
    BY <2>2, <2>3
<1>9. /\ p5 \in Seq(ToolRuleOf(kind))
      /\ args.blocked # None => Has(p5, Rule("BlockedActions", blockedSet))
  <2>1. CASE args.blocked = None
    BY <2>1, LimitedIs
  <2>2. CASE args.blocked # None
    <3>1. blockedSet \in SUBSET Actions
      BY <2>2 DEF Refuses, Blocked
    <3>2. blockedSet # None /\ Rule("BlockedActions", blockedSet) \in ToolRuleOf(kind)
      BY <3>1, NoneIsNoNumber, NoneAssumption DEF Rule, ToolRuleOf, ToolRule, PolicyRule, ShownInPercent
    <3> HIDE DEF blockedSet
    <3> QED
      BY <2>2, <3>2, LimitedIs
  <2> QED
    BY <2>1, <2>2
<1>10. /\ p6 \in Seq(ToolRuleOf(kind)) /\ p8 \in Seq(ToolRuleOf(kind))
       /\ args.score # None => Has(p6, Rule("MinRiskScore", 100 * score))
       /\ args.tvl # None => Has(p8, Rule("MinProtocolTvl", args.tvl))
  <2>1. /\ p8 \in Seq(ToolRuleOf(kind))
        /\ args.tvl # None => Has(p8, Rule("MinProtocolTvl", args.tvl))
    <3>1. args.tvl # None => Rule("MinProtocolTvl", args.tvl) \in ToolRuleOf(kind)
      BY <1>2 DEF Rule, ToolRuleOf, ToolRule, PolicyRule, ShownInPercent
    <3> QED
      BY <3>1, LimitedIs
  <2>2. CASE score = None
    BY <2>1, <2>2, <1>4, NoneIsNoNumber, NoneAssumption, LimitedIs
  <2>3. CASE score # None
    <3>1. 100 * score \in Int
      BY <2>3, <1>4
    <3>2. 100 * score # None /\ Rule("MinRiskScore", 100 * score) \in ToolRuleOf(kind)
      BY <3>1, NoneIsNoNumber, NoneAssumption DEF Rule, ToolRuleOf, ToolRule, PolicyRule, ShownInPercent
    <3> QED
      BY <2>1, <2>3, <3>2, LimitedIs
  <2> QED
    BY <2>2, <2>3
<1>11. /\ p9 \in Seq(ToolRuleOf(kind))
       /\ kind = "bot" => /\ Has(p9, Rule("MinAlternativesConsidered", 2))
                          /\ Has(p9, Rule("MaxConfidenceThreshold", 95000))
  BY AlwaysAddedIs
<1> HIDE DEF p1, p2, p3, p4, p5, p6, p7, p8, p9
<1>14. rules \in Seq(ToolRuleOf(kind))
  <2>1. p1 \o p2 \o p3 \o p4 \o p5 \in Seq(ToolRuleOf(kind))
    BY <1>6, <1>7, <1>8, <1>9
  <2>2. p1 \o p2 \o p3 \o p4 \o p5 \o p6 \o p7 \o p8 \o p9 \in Seq(ToolRuleOf(kind))
    BY <2>1, <1>7, <1>10, <1>11
  <2> QED
    BY <1>5, <2>2
<1>12. ASSUME NEW rule, \/ Has(p1, rule) \/ Has(p2, rule) \/ Has(p3, rule)
                       \/ Has(p4, rule) \/ Has(p5, rule) \/ Has(p6, rule)
                       \/ Has(p7, rule) \/ Has(p8, rule) \/ Has(p9, rule)
       PROVE  Has(rules, rule)
  <2> DEFINE q2 == p1 \o p2
             q3 == q2 \o p3
             q4 == q3 \o p4
             q5 == q4 \o p5
             q6 == q5 \o p6
             q7 == q6 \o p7
             q8 == q7 \o p8
  <2>1. q2 \in Seq(ToolRuleOf(kind)) /\ (Has(p1, rule) \/ Has(p2, rule) => Has(q2, rule))
    BY <1>6, <1>7, ConcatHas
  <2> HIDE DEF q2
  <2>2. q3 \in Seq(ToolRuleOf(kind)) /\ (Has(q2, rule) \/ Has(p3, rule) => Has(q3, rule))
    BY <2>1, <1>7, ConcatHas
  <2> HIDE DEF q3
  <2>3. q4 \in Seq(ToolRuleOf(kind)) /\ (Has(q3, rule) \/ Has(p4, rule) => Has(q4, rule))
    BY <2>2, <1>8, ConcatHas
  <2> HIDE DEF q4
  <2>4. q5 \in Seq(ToolRuleOf(kind)) /\ (Has(q4, rule) \/ Has(p5, rule) => Has(q5, rule))
    BY <2>3, <1>9, ConcatHas
  <2> HIDE DEF q5
  <2>5. q6 \in Seq(ToolRuleOf(kind)) /\ (Has(q5, rule) \/ Has(p6, rule) => Has(q6, rule))
    BY <2>4, <1>10, ConcatHas
  <2> HIDE DEF q6
  <2>6. q7 \in Seq(ToolRuleOf(kind)) /\ (Has(q6, rule) \/ Has(p7, rule) => Has(q7, rule))
    BY <2>5, <1>7, ConcatHas
  <2> HIDE DEF q7
  <2>7. q8 \in Seq(ToolRuleOf(kind)) /\ (Has(q7, rule) \/ Has(p8, rule) => Has(q8, rule))
    BY <2>6, <1>10, ConcatHas
  <2> HIDE DEF q8
  <2>8. Has(q8, rule) \/ Has(p9, rule) => Has(q8 \o p9, rule)
    BY <2>7, <1>11, ConcatHas
  <2>9. rules = q8 \o p9
    BY <1>5 DEF q2, q3, q4, q5, q6, q7, q8
  <2> QED
    BY <1>12, <2>1, <2>2, <2>3, <2>4, <2>5, <2>6, <2>7, <2>8, <2>9
<1> HIDE DEF blockedSet
<1>13. args.blocked # None => Has(rules, Rule("BlockedActions", blockedSet))
  BY <1>9, <1>12
<1> QED
  BY <1>3, <1>4, <1>6, <1>7, <1>8, <1>10, <1>11, <1>12, <1>13, <1>14, NoneIsNoNumber, NoneAssumption
     DEF blockedSet, Binds

-----------------------------------------------------------------------------
LEMMA HasMeansWithinLimit ==
  ASSUME NEW w \in WireRequest, Convertible(w), NEW rules \in Seq(ToolRule),
         \A i \in DOMAIN rules : Outcome(rules[i], ToTransaction(w), ToContext(w)) = "pass",
         NEW rule, Has(rules, rule)
  PROVE  WithinLimit(rule, w)
<1>1. PICK i \in DOMAIN rules : rules[i] = rule
  BY DEF Has
<1>2. rule \in PolicyRule
  BY <1>1 DEF ToolRule
<1> QED
  BY <1>1, <1>2, PassMeansWithinLimit

(* What the tool tells the user it has set is what its rules enforce, up   *)
(* to the rounding it does not mention.                                    *)
THEOREM PassMeansWithinTold ==
  ASSUME NEW args \in SetPolicyArgs, ~ Refuses(args), NEW kind \in AgentKinds,
         NEW rules \in BuiltRules(args, kind), NEW w \in WireRequest, Convertible(w),
         \A i \in DOMAIN rules : Outcome(rules[i], ToTransaction(w), ToContext(w)) = "pass"
  PROVE  WithinTold(args, w) /\ (kind = "bot" => Reasoned(w))
<1>1. rules \in Seq(ToolRule) /\ Binds(rules, args, kind)
  <2>1. rules \in Seq(ToolRuleOf(kind)) /\ ToolRuleOf(kind) \subseteq ToolRule
    BY BuiltRulesBind DEF ToolRuleOf
  <2> QED
    BY <2>1, BuiltRulesBind
<1>2. \A rule : Has(rules, rule) => WithinLimit(rule, w)
  BY <1>1, HasMeansWithinLimit
<1>3. /\ w.amount \in Nat /\ w.portfolio \in Nat /\ w.protocolExposure \in Nat
      /\ w.assetExposure \in Nat /\ w.dailySpend \in Nat
  BY ConvertedAmounts
<1>4. /\ args.transaction \in Int \union {None} /\ args.daily \in Int \union {None}
      /\ args.perProtocol \in Nat \union {None} /\ args.perAsset \in Nat \union {None}
      /\ args.score \in Int \union {None}
  BY DEF SetPolicyArgs
<1>5. Cent \in Nat \ {0} /\ 10 \in Nat \ {0}
  BY CentAssumption
<1>6. args.transaction # None => 2 * w.amount <= 2 * args.transaction + Cent
  <2> SUFFICES ASSUME args.transaction # None
               PROVE  2 * w.amount <= 2 * args.transaction + Cent
    OBVIOUS
  <2>1. PICK r \in Rounded(args.transaction, Cent) :
          Has(rules, Rule("MaxTransactionAmount", r))
    BY <1>1 DEF Binds
  <2>2. w.amount <= r
    <3>1. WithinLimit(Rule("MaxTransactionAmount", r), w)
      BY <1>2, <2>1
    <3> QED
      BY <3>1 DEF WithinLimit, Rule
  <2>3. r \in Int /\ 2 * (r - args.transaction) <= Cent
    BY <1>4, <1>5, RoundedIsInt
  <2> QED
    BY <1>3, <1>4, <1>5, <2>2, <2>3
<1>7. args.daily # None => 2 * (w.dailySpend + w.amount) <= 2 * args.daily + Cent
  <2> SUFFICES ASSUME args.daily # None
               PROVE  2 * (w.dailySpend + w.amount) <= 2 * args.daily + Cent
    OBVIOUS
  <2>1. PICK r \in Rounded(args.daily, Cent) : Has(rules, Rule("MaxDailySpend", r))
    BY <1>1 DEF Binds
  <2>2. w.amount + w.dailySpend <= r
    <3>1. WithinLimit(Rule("MaxDailySpend", r), w)
      BY <1>2, <2>1
    <3> QED
      BY <3>1 DEF WithinLimit, Rule
  <2>3. r \in Int /\ 2 * (r - args.daily) <= Cent
    BY <1>4, <1>5, RoundedIsInt
  <2> QED
    BY <1>3, <1>4, <1>5, <2>2, <2>3
<1>8. args.perProtocol # None =>
        100 * (w.protocolExposure + w.amount) <= args.perProtocol * w.portfolio
  <2> SUFFICES ASSUME args.perProtocol # None
               PROVE  100 * (w.protocolExposure + w.amount) <= args.perProtocol * w.portfolio
    OBVIOUS
  <2>1. WithinLimit(Rule("MaxPercentPerProtocol", 100 * args.perProtocol), w)
    BY <1>1, <1>2 DEF Binds
  <2>2. FullBps * (w.protocolExposure + w.amount) <= (100 * args.perProtocol) * w.portfolio
    BY <2>1 DEF WithinLimit, Rule
  <2>3. /\ (100 * args.perProtocol) * w.portfolio = 100 * (args.perProtocol * w.portfolio)
        /\ args.perProtocol * w.portfolio \in Int
    BY <1>3, <1>4
  <2> QED
    BY <1>3, <2>2, <2>3 DEF FullBps
<1>9. args.perAsset # None =>
        100 * (w.assetExposure + w.amount) <= args.perAsset * w.portfolio
  <2> SUFFICES ASSUME args.perAsset # None
               PROVE  100 * (w.assetExposure + w.amount) <= args.perAsset * w.portfolio
    OBVIOUS
  <2>1. WithinLimit(Rule("MaxPercentPerAsset", 100 * args.perAsset), w)
    BY <1>1, <1>2 DEF Binds
  <2>2. FullBps * (w.assetExposure + w.amount) <= (100 * args.perAsset) * w.portfolio
    BY <2>1 DEF WithinLimit, Rule
  <2>3. /\ (100 * args.perAsset) * w.portfolio = 100 * (args.perAsset * w.portfolio)
        /\ args.perAsset * w.portfolio \in Int
    BY <1>3, <1>4
  <2> QED
    BY <1>3, <2>2, <2>3 DEF FullBps
<1>10. /\ args.audited => \E p \in w.audited : Lower[p] = Lower[w.protocol]
       /\ args.blocked # None => \A word \in args.blocked : LowerCased(word) # w.action
       /\ args.tvl # None => w.tvl # None /\ w.tvl >= args.tvl
       /\ args.utilization # None =>
            w.utilization # None /\ w.utilization < WireBps * (100 * args.utilization + 1)
  <2>1. args.audited => WithinLimit(Rule("OnlyAuditedProtocols", None), w)
    BY <1>1, <1>2 DEF Binds
  <2>2. args.blocked # None =>
          WithinLimit(Rule("BlockedActions", Blocked(args)), w)
    BY <1>1, <1>2 DEF Binds
  <2>3. args.tvl # None => WithinLimit(Rule("MinProtocolTvl", args.tvl), w)
    BY <1>1, <1>2 DEF Binds
  <2>4. args.utilization # None =>
          WithinLimit(Rule("MaxProtocolUtilization", 100 * args.utilization), w)
    BY <1>1, <1>2 DEF Binds
  <2> QED
    BY <2>1, <2>2, <2>3, <2>4 DEF WithinLimit, Rule, Blocked
<1>11. args.score # None => w.riskScore # None /\ 10 * w.riskScore >= args.score - 5
  <2> SUFFICES ASSUME args.score # None
               PROVE  w.riskScore # None /\ 10 * w.riskScore >= args.score - 5
    OBVIOUS
  <2>1. PICK r \in Rounded(args.score, 10) : Has(rules, Rule("MinRiskScore", 100 * r))
    BY <1>1 DEF Binds
  <2>2. w.riskScore # None /\ 1000 * w.riskScore + 1 >= 100 * r
    <3>1. WithinLimit(Rule("MinRiskScore", 100 * r), w)
      BY <1>2, <2>1
    <3> QED
      BY <3>1 DEF WithinLimit, Rule
  <2>3. /\ r \in Int /\ 2 * (args.score - r) <= 10
        /\ \E k \in Int : r = 10 * k
    BY <1>4, <1>5, RoundedIsInt
  <2>4. w.riskScore \in Int
    BY <2>2, ConvertedAmounts
  <2> QED
    BY <1>4, <2>2, <2>3, <2>4
<1>12. kind = "bot" => Reasoned(w)
  <2> SUFFICES ASSUME kind = "bot" PROVE Reasoned(w)
    OBVIOUS
  <2>1. /\ WithinLimit(Rule("MinAlternativesConsidered", 2), w)
        /\ WithinLimit(Rule("MaxConfidenceThreshold", 95000), w)
    BY <1>1, <1>2 DEF Binds
  <2>2. /\ w.reasoning # None /\ w.reasoning.alternatives >= 2
        /\ 1000 * w.reasoning.confidence - 1 <= 95000
    BY <2>1 DEF WithinLimit, Rule, One
  <2>3. w.reasoning.confidence \in Int
    BY <2>2, ConvertedAmounts DEF ReasoningTrace
  <2> QED
    BY <2>2, <2>3 DEF Reasoned
<1> QED
  BY <1>6, <1>7, <1>8, <1>9, <1>10, <1>11, <1>12 DEF WithinTold

(* The whole per cents that /policy shows are at most 99 basis points      *)
(* under the limit, and exact for what the tool has built.                 *)
THEOREM ShownIsNear ==
  ASSUME NEW w \in WireRequest, Convertible(w), NEW rule \in PolicyRule, WithinLimit(rule, w)
  PROVE  /\ WithinLimit(AsShown(rule, 99), w)
         /\ rule \in ToolRule => WithinLimit(AsShown(rule, 0), w)
<1>1. CASE rule.id \notin ShownInPercent
  BY <1>1 DEF AsShown
<1>2. CASE rule.id \in ShownInPercent
  <2>1. rule.limit \in Nat
    BY <1>2 DEF PolicyRule, ShownInPercent
  <2> DEFINE shown(cut) == 100 * (rule.limit \div 100) + cut
  <2>2. /\ shown(99) \in Nat /\ shown(99) >= rule.limit
        /\ shown(0) \in Nat
        /\ rule \in ToolRule => shown(0) = rule.limit
    BY <1>2, <2>1 DEF ToolRule
  <2>3. \A cut : AsShown(rule, cut) = Rule(rule.id, shown(cut))
    BY <1>2 DEF AsShown, ShownPercent
  <2> HIDE DEF shown
  <2>4. ASSUME NEW limit \in Nat, limit >= rule.limit
        PROVE  WithinLimit(Rule(rule.id, limit), w)
    <3>1. CASE rule.id = "MaxProtocolUtilization"
      <4>1. w.utilization # None /\ w.utilization < WireBps * (rule.limit + 1)
        BY <3>1 DEF WithinLimit
      <4>2. w.utilization \in Int
        BY <4>1, ConvertedAmounts
      <4>3. w.utilization < WireBps * (limit + 1)
        BY <2>1, <2>4, <4>1, <4>2 DEF WireBps
      <4> QED
        BY <3>1, <4>1, <4>3 DEF WithinLimit, Rule
    <3>2. CASE rule.id \in {"MaxPercentPerProtocol", "MaxPercentPerAsset"}
      <4>1. w.portfolio \in Nat /\ rule.limit * w.portfolio <= limit * w.portfolio
        <5>1. w.portfolio \in Nat
          BY ConvertedAmounts
        <5>2. PICK d \in Nat : limit = rule.limit + d
          <6>1. limit - rule.limit \in Nat /\ limit = rule.limit + (limit - rule.limit)
            BY <2>1, <2>4
          <6> QED
            BY <6>1
        <5>3. /\ limit * w.portfolio = rule.limit * w.portfolio + d * w.portfolio
              /\ d * w.portfolio \in Nat /\ rule.limit * w.portfolio \in Nat
          BY <2>1, <5>1, <5>2
        <5> QED
          BY <5>1, <5>3
      <4>2. \A e \in Nat :
              FullBps * (e + w.amount) <= rule.limit * w.portfolio
                => FullBps * (e + w.amount) <= limit * w.portfolio
        <5>1. w.amount \in Nat /\ rule.limit * w.portfolio \in Nat
                /\ limit * w.portfolio \in Nat
          BY <2>1, <2>4, <4>1, ConvertedAmounts
        <5> QED
          BY <4>1, <5>1 DEF FullBps
      <4> QED
        <5> DEFINE raised == Rule(rule.id, limit)
        <5>1. raised.id = rule.id /\ raised.limit = limit
          BY DEF Rule
        <5>2. w.protocolExposure \in Nat /\ w.assetExposure \in Nat
          BY ConvertedAmounts
        <5> HIDE DEF raised
        <5>3. CASE rule.id = "MaxPercentPerProtocol"
          <6>1. /\ w.portfolio > 0
                /\ FullBps * (w.protocolExposure + w.amount) <= rule.limit * w.portfolio
            BY <5>3 DEF WithinLimit
          <6>2. FullBps * (w.protocolExposure + w.amount) <= limit * w.portfolio
            BY <4>2, <5>2, <6>1
          <6>3. WithinLimit(raised, w)
            BY <5>1, <5>3, <6>1, <6>2 DEF WithinLimit
          <6> QED
            BY <6>3 DEF raised
        <5>4. CASE rule.id = "MaxPercentPerAsset"
          <6>1. /\ w.portfolio > 0
                /\ FullBps * (w.assetExposure + w.amount) <= rule.limit * w.portfolio
            BY <5>4 DEF WithinLimit
          <6>2. FullBps * (w.assetExposure + w.amount) <= limit * w.portfolio
            BY <4>2, <5>2, <6>1
          <6>3. WithinLimit(raised, w)
            BY <5>1, <5>4, <6>1, <6>2 DEF WithinLimit
          <6> QED
            BY <6>3 DEF raised
        <5> QED
          BY <3>2, <5>3, <5>4
    <3> QED
      BY <1>2, <3>1, <3>2 DEF ShownInPercent
  <2> QED
    BY <2>1, <2>2, <2>3, <2>4
<1> QED
  BY <1>1, <1>2

=============================================================================
