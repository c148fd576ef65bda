---------------------------- MODULE AgentIdentity ----------------------------
(***************************************************************************)
(* The bot's on-chain identity (src/src/identity.rs, main of               *)
(* src/src/bin/telegram_bot.rs): a start of the process that finds no      *)
(* token id in the environment registers one, and logs it; it is up to the *)
(* operator to copy the id to the environment, and any number there is     *)
(* taken.  The registry serves others too, and a registration that was     *)
(* sent may be mined when the process that sent it is gone.                *)
(*                                                                         *)
(* While the bot is up it reads neither the environment nor the chain, so  *)
(* that what happens to them then is left until it is down.                *)
(***************************************************************************)
EXTENDS Integers, Sequences, FiniteSets

CONSTANTS
  None,
  Malformed,    (* An id in the environment that is not a number.          *)
  MaxStarts,    (* Bounds the starts of the process.                       *)
  MaxTokens     (* Bounds the tokens the registry ever mints.              *)

ASSUME IdentityAssumption ==
  /\ MaxStarts \in Nat /\ MaxTokens \in Nat
  /\ None # Malformed /\ {None, Malformed} \cap (1 .. MaxTokens) = {}

VARIABLES
  env,          (* The environment: are registries, RPC and key all there, *)
                (* the id, and is there a URI to register.                 *)
  process,      (* "down", where its start stands, or "up".                *)
  starts,       (* How often it has been started.                          *)
  agent,        (* The id it presents: in /reputation and to its model.    *)
  tx,           (* The registration each start sent, and the token minted. *)
  owners,       (* The registry: who owns each token, by id.               *)
  logged,       (* The ids the operator finds in the logs.                 *)
  found         (* History: the id each start found.                       *)

identityVars == << env, process, starts, agent, tx, owners, logged, found >>

Tokens == 1 .. MaxTokens

Environment == [complete : BOOLEAN, id : {None, Malformed} \union Tokens, uri : BOOLEAN]

Registration == [stage : {"none", "sent", "mined", "reverted"}, token : 0 .. MaxTokens]

IdentityInit ==
  /\ env \in Environment
  /\ process = "down"
  /\ starts = 0
  /\ agent = None
  /\ tx = [n \in 1 .. MaxStarts |-> [stage |-> "none", token |-> 0]]
  /\ owners = << >>
  /\ logged = {}
  /\ found = << >>

-----------------------------------------------------------------------------
(* The start of the process *)

(* Fault: an id that cannot be parsed counts as none.                      *)
Registers_Malformed == env.complete /\ env.id \notin Tokens /\ env.uri

(* Without an id, one is registered if there is a URI.  A malformed id is  *)
(* not replaced.                                                           *)
Registers == env.complete /\ env.id = None /\ env.uri

(* The id of the environment is taken as it is: nobody asks the chain whose*)
(* it is.                                                                  *)
ConfiguredId == IF env.complete /\ env.id \in Tokens THEN env.id ELSE None

Boot ==
  /\ process = "down"
  /\ starts < MaxStarts
  /\ starts' = starts + 1
  /\ found' = Append(found, env.id)
  /\ process' = IF Registers THEN "registering" ELSE "connecting"
  /\ agent' = ConfiguredId
  /\ UNCHANGED << env, tx, owners, logged >>

(* register().send(): the answer to a transaction that was accepted may be *)
(* lost, and then identity is disabled for this start.                     *)
SendRegistration ==
  /\ process = "registering"
  /\ tx' = [tx EXCEPT ![starts].stage = "sent"]
  /\ process' \in {"awaiting", "connecting"}
  /\ UNCHANGED << env, starts, agent, owners, logged, found >>

(* A key, a URL or a connection that is no good.                           *)
SendFails ==
  /\ process = "registering"
  /\ process' = "connecting"
  /\ UNCHANGED << env, starts, agent, tx, owners, logged, found >>

(* Fault: the registry is asked for its newest token.                      *)
AgentIdFromReceipt_Newest(n) == Len(owners)

(* The token of the first Transfer in the receipt: the one just minted.    *)
AgentIdFromReceipt(n) == tx[n].token

(* A receipt without a mint is an error, and disables identity.            *)
ReceiptArrives ==
  /\ process = "awaiting"
  /\ tx[starts].stage \in {"mined", "reverted"}
  /\ process' = "connecting"
  /\ IF tx[starts].stage = "mined"
       THEN /\ agent' = AgentIdFromReceipt(starts)
            /\ logged' = logged \union {AgentIdFromReceipt(starts)}
       ELSE UNCHANGED << agent, logged >>
  /\ UNCHANGED << env, starts, tx, owners, found >>

ReceiptFails ==
  /\ process = "awaiting"
  /\ process' = "connecting"
  /\ UNCHANGED << env, starts, agent, tx, owners, logged, found >>

(* set_my_commands; when it fails the process ends.                        *)
Connected ==
  /\ process = "connecting"
  /\ process' = "up"
  /\ UNCHANGED << env, starts, agent, tx, owners, logged, found >>

(* It is stopped or crashes, at any point.                                 *)
StopProcess ==
  /\ process # "down"
  /\ process' = "down"
  /\ agent' = None
  /\ UNCHANGED << env, starts, tx, owners, logged, found >>

-----------------------------------------------------------------------------
(* The world around it *)

MineRegistration(n) ==
  /\ process # "up"
  /\ tx[n].stage = "sent"
  /\ \/ /\ Len(owners) < MaxTokens
        /\ owners' = Append(owners, "us")
        /\ tx' = [tx EXCEPT ![n] = [stage |-> "mined", token |-> Len(owners) + 1]]
     \/ /\ tx' = [tx EXCEPT ![n].stage = "reverted"]
        /\ UNCHANGED owners
  /\ UNCHANGED << env, process, starts, agent, logged, found >>

OtherMints ==
  /\ process # "up"
  /\ Len(owners) < MaxTokens
  /\ owners' = Append(owners, "other")
  /\ UNCHANGED << env, process, starts, agent, tx, logged, found >>

(* The operator copies an id from the logs, or from an example that names  *)
(* somebody else's, or mistypes or removes it: any number is an id.        *)
EditEnvironment(id) ==
  /\ process = "down"
  /\ env' = [env EXCEPT !.id = id]
  /\ UNCHANGED << process, starts, agent, tx, owners, logged, found >>

Starting ==
  \/ Boot
  \/ SendRegistration
  \/ SendFails
  \/ ReceiptArrives
  \/ ReceiptFails
  \/ Connected

World ==
  \/ \E n \in 1 .. MaxStarts : MineRegistration(n)
  \/ OtherMints
  \/ \E id \in {None, Malformed} \union Tokens : EditEnvironment(id)

-----------------------------------------------------------------------------
(* Properties *)

Ours == {id \in DOMAIN owners : owners[id] = "us"}

(* Whatever others register meanwhile, and however starts fail half-way,   *)
(* the identity the bot presents is the one that the environment named     *)
(* when it was started, or, if it named none, the token that this start's  *)
(* own registration minted.  One that was registered by this start or      *)
(* found in the logs is the bot's own; any other number in the environment *)
(* is presented unchecked.                                                 *)
IdentityIsAccountedFor ==
  agent # None =>
    /\ found[starts] # agent =>
         /\ found[starts] = None
         /\ tx[starts] = [stage |-> "mined", token |-> agent]
    /\ found[starts] = None \/ agent \in logged => agent \in Ours

(* Every token of the bot's stems from a start of its own that found no id *)
(* in the environment: restarts with an id, even a mistyped one, mint none.*)
MintsAreAccountedFor ==
  \A id \in Ours :
    \E n \in 1 .. starts :
      /\ tx[n] = [stage |-> "mined", token |-> id]
      /\ found[n] = None
      /\ \A m \in 1 .. starts : tx[m].token = id => m = n

=============================================================================
