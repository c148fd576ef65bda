-------------------------- MODULE RequestConversion --------------------------
(***************************************************************************)
(* What POST /api/v1/validate does to the request it receives before the   *)
(* policy engine sees it (src/src/routes/validate.rs, convert_request):    *)
(* amounts arrive as text, the risk score and the utilization as floats,   *)
(* protocol names in any case.                                             *)
(***************************************************************************)
EXTENDS PolicyEngine

CONSTANTS
  Malformed,   (* Text that is not a decimal number.                       *)
  Lower        (* The lower-case spelling of a protocol's name.            *)

ASSUME LowerAssumption ==
  /\ Lower \in [Protocols -> Protocols]
  /\ \A p \in Protocols : Lower[Lower[p]] = Lower[p]

-----------------------------------------------------------------------------
(* A utilization on the wire is kept in tenths of a basis point, as the    *)
(* product the handler computes, v * 10000.0, comes out: a literal whose   *)
(* double lies below it (0.0003) is the tenth below, 29.                   *)

WireBps == 10

WireMoney == Int \union {Malformed}

WireRequest ==
  [protocol         : Protocols,
   action           : Actions,
   amount           : WireMoney,
   portfolio        : WireMoney,
   protocolExposure : WireMoney,
   assetExposure    : WireMoney,
   dailySpend       : WireMoney,
   audited          : SUBSET Protocols,
   riskScore        : Optional(Int),       (* hundredths *)
   utilization      : Optional(Int),       (* tenths of a basis point *)
   tvl              : Optional(WireMoney),
   reasoning        : Optional(ReasoningTrace)]

-----------------------------------------------------------------------------
(* parse_money: a decimal number that is not negative.                     *)
ParsesAsMoney(v) == v # Malformed /\ v >= 0

Convertible(w) ==
  /\ \A f \in {"amount", "portfolio", "protocolExposure", "assetExposure",
               "dailySpend"} : ParsesAsMoney(w[f])
  /\ w.riskScore # None => w.riskScore \in 0 .. 100
  /\ w.utilization # None => w.utilization \in 0 .. WireBps * FullBps
  /\ w.tvl # None => ParsesAsMoney(w.tvl)

ToTransaction(w) ==
  [protocol |-> Lower[w.protocol], action |-> w.action, amount |-> w.amount]

(* Fault: the cast rounds.                                                 *)
ToBps_Rounds(v) == (v + WireBps \div 2) \div WireBps

(* The cast to u32 truncates.                                              *)
ToBps(v) == v \div WireBps

ToContext(w) ==
  [portfolio        |-> w.portfolio,
   protocolExposure |-> w.protocolExposure,
   assetExposure    |-> w.assetExposure,
   dailySpend       |-> w.dailySpend,
   audited          |-> {Lower[p] : p \in w.audited},
   riskScore        |-> IF w.riskScore = None THEN None
                        ELSE FromF64Retain(w.riskScore),
   utilization      |-> IF w.utilization = None THEN None
                        ELSE ToBps(w.utilization),
   tvl              |-> w.tvl,
   reasoning        |-> w.reasoning]

-----------------------------------------------------------------------------
(* What a rule says of the request as the client wrote it, before any      *)
(* conversion.  The utilization is cut to a whole basis point, and a float *)
(* may be a unit off its literal, so that the rules on them promise no     *)
(* more than that precision; a limit of full confidence promises nothing.  *)
WithinLimit(rule, w) ==
  CASE rule.id = "MaxTransactionAmount" -> w.amount <= rule.limit
    [] rule.id = "MaxPercentPerProtocol" ->
         /\ w.portfolio > 0
         /\ FullBps * (w.protocolExposure + w.amount) <= rule.limit * w.portfolio
    [] rule.id = "MaxPercentPerAsset" ->
         /\ w.portfolio > 0
         /\ FullBps * (w.assetExposure + w.amount) <= rule.limit * w.portfolio
    [] rule.id = "OnlyAuditedProtocols" ->
         \E p \in w.audited : Lower[p] = Lower[w.protocol]
    [] rule.id = "AllowedProtocols" ->
         \E p \in rule.limit : Lower[p] = Lower[w.protocol]
    [] rule.id = "BlockedActions" -> w.action \notin rule.limit
    [] rule.id = "MaxDailySpend" -> w.amount + w.dailySpend <= rule.limit
    [] rule.id = "MinRiskScore" ->
         w.riskScore # None /\ 1000 * w.riskScore + 1 >= rule.limit
    [] rule.id = "MaxProtocolUtilization" ->
         w.utilization # None /\ w.utilization < WireBps * (rule.limit + 1)
    [] rule.id = "MinProtocolTvl" -> w.tvl # None /\ w.tvl >= rule.limit
    [] rule.id = "MinAlternativesConsidered" ->
         w.reasoning # None /\ w.reasoning.alternatives >= rule.limit
    [] rule.id = "MaxConfidenceThreshold" ->
         /\ w.reasoning # None
         /\ rule.limit >= One \/ 1000 * w.reasoning.confidence - 1 <= rule.limit

(* What it takes of a request to be sure to pass a rule: where a limit is  *)
(* compared with a float, a unit to spare; and an allowlist has to be      *)
(* written in lower case, as the names of a stored rule are not converted. *)
ClearlyWithin(rule, w) ==
  /\ WithinLimit(rule, w)
  /\ rule.id = "AllowedProtocols" => Lower[w.protocol] \in rule.limit
  /\ rule.id = "MinRiskScore" => 1000 * w.riskScore - 1 >= rule.limit
  /\ rule.id = "MaxConfidenceThreshold" =>
       \/ rule.limit >= One
       \/ /\ w.reasoning.confidence \in 0 .. 100
          /\ 1000 * w.reasoning.confidence + 1 <= rule.limit

=============================================================================
