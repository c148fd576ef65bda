----------------------------- MODULE BotProcess -----------------------------
(***************************************************************************)
(* The bot's process: it starts, with or without an identity, handles      *)
(* updates while it is up, and takes all its handlers with it when it      *)
(* stops.  What is stored survives, and the next start handles updates on  *)
(* top of it.                                                              *)
(***************************************************************************)
EXTENDS BotSession, AgentIdentity

processVars == << vars, identityVars >>

ProcessInit == Init /\ IdentityInit

Handling(step) == process = "up" /\ step /\ UNCHANGED identityVars

(* Every handler ends where it is.                                         *)
Crash ==
  /\ StopProcess
  /\ handler' = [ch \in Chats |-> Idle]
  /\ UNCHANGED Database

ProcessNext ==
  \/ Handling(Next)
  \/ (Starting \/ World) /\ UNCHANGED vars
  \/ Crash

ProcessSpec == ProcessInit /\ [][ProcessNext]_processVars

(* As for the handlers alone; nothing is assumed of the start, which calls *)
(* the chain without a timeout.                                            *)
ProcessFairness == \A ch \in Chats : WF_processVars(Handling(OwnStep(ch)))

FairProcessSpec == ProcessSpec /\ ProcessFairness

=============================================================================
