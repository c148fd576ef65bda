---------------------------- MODULE MCAgentSpend ----------------------------
(***************************************************************************)
(* Small instances of the agents' tool: a budget of $100 met exactly, by   *)
(* half cents, and overrun; amounts that the tool cannot count; calls of   *)
(* one message and a chaos agent, and of two messages.                     *)
(***************************************************************************)
EXTENDS AgentSpend, TLC

CONSTANTS aave, shady

MCProtocols == {aave, shady}
MCCent      == 2
MCDecimalMax == 2000000000

Reasoned == [alternatives |-> 2, confidence |-> 90]

Call50 == [protocol |-> aave, action |-> "supply", amount |-> 50 * 100 * 2,
           plain |-> TRUE, reasoning |-> Reasoned]

(* "5_0.00"                                                                *)
Grouped  == [Call50 EXCEPT !.plain = FALSE]

(* $49.995, half a cent off.                                               *)
CallHalf == [Call50 EXCEPT !.amount = @ - 1]

MCToolArgs ==
  { Call50, Grouped, CallHalf,
    [Call50 EXCEPT !.amount = 5001 * 2],
    [Call50 EXCEPT !.protocol = shady],
    [Call50 EXCEPT !.action = UnknownAction],
    [Call50 EXCEPT !.amount = 120 * 100 * 2] }

Budget    == << Rule("MaxDailySpend", 100 * 100 * 2), Rule("OnlyAuditedProtocols", None) >>

Symmetry == Permutations(Calls)
=============================================================================
