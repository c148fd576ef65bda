---------------------------- MODULE MCBotProcess ----------------------------
(***************************************************************************)
(* A small instance of the bot's process: one chat, two starts, and a      *)
(* registry with room for a token of each start, or of one of them and of  *)
(* somebody else; the environment names any of them, or none.              *)
(***************************************************************************)
EXTENDS BotProcess
=============================================================================
