---------------------------- MODULE MCBotSession ----------------------------
(***************************************************************************)
(* Small instances of the bot's session: one chat that sends several       *)
(* updates, or two chats of the same user side by side.                    *)
(***************************************************************************)
EXTENDS BotSession, TLC

Symmetry == Permutations(Chats) \union Permutations(PolicyIds)
=============================================================================
