------------------------ MODULE MCPolicyComposition ------------------------
(***************************************************************************)
(* The composition of policies on the presets, a few custom policies and   *)
(* requests at and around every limit of the presets, and two whose sum or *)
(* percentage no Decimal holds.  A request varies either in its figures of *)
(* money or in everything else; the rest is as harmless as can be, so that *)
(* each rule is seen to decide.                                            *)
(***************************************************************************)
EXTENDS PolicyComposition

CONSTANTS aave, Aave, shady

MCProtocols == {aave, Aave, shady}
MCLower     == [p \in MCProtocols |-> IF p = Aave THEN aave ELSE p]
MCDecimalMax == 500000000

Calm ==
  [protocol |-> Aave, action |-> "supply", amount |-> 100, portfolio |-> 1000,
   protocolExposure |-> 0, assetExposure |-> 0, dailySpend |-> 0,
   audited |-> {Aave}, riskScore |-> 90, utilization |-> 50000,
   tvl |-> 500000000, reasoning |-> [alternatives |-> 2, confidence |-> 92]]

MoneyWires ==
  { [Calm EXCEPT !.amount = a, !.portfolio = t, !.protocolExposure = e,
                 !.assetExposure = e + x, !.dailySpend = d] :
      a \in {100, 101, 500, 501, 2000, 2001, 5000, 5001},
      t \in {0, 1000, 10000}, e \in {0, 400}, x \in {0, 2500}, d \in {0, 500, 4000} }
  \union { [Calm EXCEPT !.amount = a, !.tvl = v] :
             a \in {-1, Malformed},
             v \in {None, 500000000, -1} }
  \union { [Calm EXCEPT !.amount = MCDecimalMax, !.protocolExposure = 1,
                         !.assetExposure = 1, !.dailySpend = 1],
            [Calm EXCEPT !.amount = MCDecimalMax \div 100 + 1, !.portfolio = 1] }

QualityWires ==
  { [Calm EXCEPT !.protocol = p, !.action = n] :
      p \in {aave, Aave, shady}, n \in Actions }
  \union
  { [Calm EXCEPT !.riskScore = s, !.reasoning = g] :
      s \in {None, -1, 49, 50, 64, 65, 69, 70, 79, 80, 81, 101},
      g \in {None} \union [alternatives : 0 .. 2, confidence : {94, 95, 96, 98, 99, 101}] }
  \union
  { [Calm EXCEPT !.utilization = u, !.tvl = v] :
      u \in {None, -1, 79999, 80000, 80009, 80010, 90000, 90010, 95009, 95010, 100001},
      v \in {None, 4999999, 5000000, 9999999, 10000000, 49999999, 50000000} }

MCWires == MoneyWires \union QualityWires

MCRuleLists ==
  { SafetyFirst, Balanced, BestYields, << >>,
    << Rule("MinRiskScore", 70000), Rule("MinRiskScore", 80000) >>,
    << Rule("MaxProtocolUtilization", 8000) >>,
    << Rule("AllowedProtocols", {aave}), Rule("MaxDailySpend", -5) >>,
    << Rule("AllowedProtocols", {Aave}) >> }

=============================================================================
