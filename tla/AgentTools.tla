----------------------------- MODULE AgentTools -----------------------------
(***************************************************************************)
(* What the two tools of the two agents have in common: the Telegram bot   *)
(* (src/src/bin/telegram_bot.rs) and the chaos agent                       *)
(* (src/src/bin/chaos_agent.rs) each hold a copy of them.                  *)
(***************************************************************************)
EXTENDS Integers

CONSTANT Cent   (* Units of money to a cent; amounts may be finer.         *)

ASSUME CentAssumption == Cent \in Nat \ {0}

Dollar == 100 * Cent

(* A word of the model's own making where an action is expected.           *)
UnknownAction == "unknown"

AgentKinds == {"bot", "chaos"}

(* What an agent takes the portfolio to be worth.                          *)
PortfolioOf(kind) == (IF kind = "chaos" THEN 10000 ELSE 1000) * Dollar

(* format!("{:.2}", value), a step being a hundredth.  Half a step goes    *)
(* either way: no float stands for it exactly.                             *)
Rounded(value, step) ==
  LET below == step * (value \div step)
  IN  {r \in {below, below + step} :
         2 * (value - r) <= step /\ 2 * (r - value) <= step}

(* Fault: {:.0}, to the dollar.                                            *)
RoundedToCent_Dollars(amount) == Rounded(amount, Dollar)

RoundedToCent(amount) == Rounded(amount, Cent)

=============================================================================
