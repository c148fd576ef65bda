------------------------------ MODULE SetPolicy ------------------------------
(***************************************************************************)
(* The set_policy tool of the two agents, as far as it computes: what it   *)
(* refuses, the rules it makes of its arguments (build_rules_json), and    *)
(* what the bot's /policy shows of a stored rule (describe_rule).          *)
(***************************************************************************)
EXTENDS RequestConversion, AgentTools

ASSUME NoneAssumption == \A s \in SUBSET Actions : None # s

-----------------------------------------------------------------------------
(* Arguments.  Money is in units, a score in thousandths, the rest in per  *)
(* cent.  A value locked is in whole dollars, as wherever it is met, which *)
(* posting it to the cent leaves as they are.                              *)

(* A word of the model's: what it says, and whether it is in lower case.   *)
ActionWords == (Actions \union {UnknownAction}) \X BOOLEAN

LowerCased(word) == word[1]

SetPolicyArgs ==
  [transaction : Optional(Int),
   daily       : Optional(Int),
   perProtocol : Optional(Nat),
   perAsset    : Optional(Nat),
   audited     : BOOLEAN,
   blocked     : Optional(SUBSET ActionWords),
   score       : Optional(Int),
   utilization : Optional(Nat),
   tvl         : Optional(Int)]

(* "POLICY ERROR": nothing is posted.                                      *)
Refuses(args) ==
  \/ \E f \in {"transaction", "daily", "tvl"} : args[f] # None /\ args[f] < 0
  \/ \E f \in {"perProtocol", "perAsset", "utilization"} :
       args[f] # None /\ args[f] > 100
  \/ args.score # None /\ args.score \notin 0 .. 1000
  \/ args.blocked # None /\ \E w \in args.blocked : LowerCased(w) \notin Actions

-----------------------------------------------------------------------------
(* The rules *)

OptionalRounded(value, step) ==
  IF value = None THEN {None} ELSE Rounded(value, step)

Limited(id, limit) == IF limit = None THEN << >> ELSE << Rule(id, limit) >>

InBps(percent) == IF percent = None THEN None ELSE 100 * percent

ReasoningRules ==
  << Rule("MinAlternativesConsidered", 2), Rule("MaxConfidenceThreshold", 95000) >>

(* Fault: the chaos agent's copy is brought in line with the bot's, though *)
(* its other tool sends no reasoning.                                      *)
AlwaysAdded_ByBoth(kind) == ReasoningRules

(* What only the bot's copy adds, whatever the arguments.                  *)
AlwaysAdded(kind) == IF kind = "chaos" THEN << >> ELSE ReasoningRules

(* Fault: the two limits in dollars are mixed up.                          *)
DollarLimits_Swapped(transaction, daily) ==
  Limited("MaxTransactionAmount", daily) \o Limited("MaxDailySpend", transaction)

DollarLimits(transaction, daily) ==
  Limited("MaxTransactionAmount", transaction) \o Limited("MaxDailySpend", daily)

(* The rules, once the roundings of transaction, daily and score are known.*)
RulesWith(args, transaction, daily, score, kind) ==
  DollarLimits(transaction, daily)
    \o Limited("MaxPercentPerProtocol", InBps(args.perProtocol))
    \o Limited("MaxPercentPerAsset", InBps(args.perAsset))
    \o (IF args.audited THEN << Rule("OnlyAuditedProtocols", None) >> ELSE << >>)
    \o Limited("BlockedActions", IF args.blocked = None THEN None
                                 ELSE {LowerCased(w) : w \in args.blocked})
    \o Limited("MinRiskScore", IF score = None THEN None ELSE 100 * score)
    \o Limited("MaxProtocolUtilization", InBps(args.utilization))
    \o Limited("MinProtocolTvl", args.tvl)
    \o AlwaysAdded(kind)

BuiltRules(args, kind) ==
  {RulesWith(args, transaction, daily, score, kind) :
     transaction \in OptionalRounded(args.transaction, Cent),
     daily       \in OptionalRounded(args.daily, Cent),
     score       \in OptionalRounded(args.score, 10)}

(* The server reads the limits back: a float may exceed every Decimal.     *)
Deserializable(rules) ==
  \A i \in DOMAIN rules :
    rules[i].id \in {"MaxTransactionAmount", "MaxDailySpend", "MinProtocolTvl"}
      => rules[i].limit <= DecimalMax

-----------------------------------------------------------------------------
(* What the tool's answer, and the agent with it, tells the user is in     *)
(* force: the arguments as they were given.  A request keeps to them up to *)
(* half a cent, half a hundredth of score, and less than one basis point   *)
(* of utilization.                                                         *)
WithinTold(args, w) ==
  /\ args.transaction # None => 2 * w.amount <= 2 * args.transaction + Cent
  /\ args.daily # None => 2 * (w.dailySpend + w.amount) <= 2 * args.daily + Cent
  /\ args.perProtocol # None =>
       100 * (w.protocolExposure + w.amount) <= args.perProtocol * w.portfolio
  /\ args.perAsset # None =>
       100 * (w.assetExposure + w.amount) <= args.perAsset * w.portfolio
  /\ args.audited => \E p \in w.audited : Lower[p] = Lower[w.protocol]
  /\ args.blocked # None => \A word \in args.blocked : LowerCased(word) # w.action
  /\ args.score # None => w.riskScore # None /\ 10 * w.riskScore >= args.score - 5
  /\ args.utilization # None =>
       w.utilization # None /\ w.utilization < WireBps * (100 * args.utilization + 1)
  /\ args.tvl # None => w.tvl # None /\ w.tvl >= args.tvl

(* What the bot's validate tool is told to supply with every call, or be   *)
(* blocked.                                                                *)
Reasoned(w) ==
  /\ w.reasoning # None
  /\ w.reasoning.alternatives >= 2
  /\ w.reasoning.confidence <= 95

-----------------------------------------------------------------------------
(* /policy shows whole per cents, by an integer division.                  *)

ShownInPercent ==
  {"MaxPercentPerProtocol", "MaxPercentPerAsset", "MaxProtocolUtilization"}

(* Fault: the wrong divisor.                                               *)
ShownPercent_Thousandth(bps) == bps \div 1000

ShownPercent(bps) == bps \div 100

(* The limit that a reader of /policy takes a rule to have, given that the *)
(* part of a per cent that was cut off is at most cut basis points.        *)
AsShown(rule, cut) ==
  IF rule.id \in ShownInPercent
    THEN Rule(rule.id, 100 * ShownPercent(rule.limit) + cut)
    ELSE rule

=============================================================================
