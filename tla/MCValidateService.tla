------------------------- MODULE MCValidateService -------------------------
(***************************************************************************)
(* Small instances of the API server.  The rule lists are one that caps    *)
(* the amount, one that reads evidence the client may not supply, one that *)
(* adds amounts (and so may overflow) and the empty list; the requests are *)
(* one that every list allows, one over the cap, one without the evidence, *)
(* one so large that the addition overflows, and a malformed one.          *)
(***************************************************************************)
EXTENDS AuditExport

CONSTANTS aave

MCProtocols  == {aave}
MCLower      == [p \in MCProtocols |-> p]
MCDecimalMax == 1000

Capped    == << Rule("MaxTransactionAmount", 100) >>
Evidenced == << Rule("MinRiskScore", 80000), Rule("OnlyAuditedProtocols", None) >>
Budgeted  == << Rule("MaxDailySpend", 300) >>

Small ==
  [protocol |-> aave, action |-> "supply", amount |-> 100, portfolio |-> 1000,
   protocolExposure |-> 0, assetExposure |-> 0, dailySpend |-> 100,
   audited |-> {aave}, riskScore |-> 90, utilization |-> 50000,
   tvl |-> 500, reasoning |-> None]

Large     == [Small EXCEPT !.amount = 200]
Unrated   == [Small EXCEPT !.riskScore = None]
Huge      == [Small EXCEPT !.amount = 1000]
Broken    == [Small EXCEPT !.amount = Malformed]

MCRuleLists == {Capped, Evidenced, Budgeted, << >>}
MCWires     == {Small, Large, Unrated, Huge, Broken}

TwoLists == {Capped, Evidenced}
TwoWires == {Small, Large}
=============================================================================
