-------------------------- MODULE MCSharedPolicies --------------------------
(***************************************************************************)
(* A small instance of agents and server: one user, of the bot or of the  *)
(* chaos agent; arguments whose dollars do not round evenly, arguments     *)
(* that set every other rule, and arguments that are refused; bodies of    *)
(* either agent's tool at the edge of those limits, or over them.          *)
(***************************************************************************)
EXTENDS SharedPolicies, TLC

CONSTANTS aave, shady, bob, p1, p2

MCProtocols  == {aave, shady}
MCLower      == [p \in MCProtocols |-> p]
MCDecimalMax == 2000000000

NoArgs == [transaction |-> None, daily |-> None, perProtocol |-> None,
           perAsset |-> None, audited |-> FALSE, blocked |-> None,
           score |-> None, utilization |-> None, tvl |-> None]

InDollars == [NoArgs EXCEPT !.transaction = 5000, !.daily = 2001]

AllOther  == [NoArgs EXCEPT !.perProtocol = 1, !.perAsset = 10, !.audited = TRUE,
                            !.blocked = {<< "borrow", FALSE >>}, !.score = 889,
                            !.utilization = 50, !.tvl = 500000000]

Negative  == [NoArgs EXCEPT !.daily = -1]

MCToolArgs == {InDollars, AllOther, Negative}

HalfPercents == << Rule("MaxPercentPerProtocol", 150) >>

MCHandWritten == {HalfPercents}

MCRuleLists ==
  MCHandWritten
    \union UNION {BuiltRules(args, kind) : args \in {InDollars, AllOther},
                                           kind \in AgentKinds}

OfTheBot ==
  [protocol |-> aave, action |-> "supply", amount |-> 2002,
   portfolio |-> PortfolioOf("bot"), protocolExposure |-> 0, assetExposure |-> 0,
   dailySpend |-> 0, audited |-> {aave}, riskScore |-> 90, utilization |-> 50000,
   tvl |-> 500000000, reasoning |-> [alternatives |-> 2, confidence |-> 90]]

Spent   == [OfTheBot EXCEPT !.amount = 1000, !.dailySpend = 3000]
OfChaos == [OfTheBot EXCEPT !.portfolio = PortfolioOf("chaos"), !.reasoning = None]

MCWires == {OfTheBot, Spent, OfChaos}

Symmetry == Permutations({p1, p2})
=============================================================================
