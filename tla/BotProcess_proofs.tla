------------------------- MODULE BotProcess_proofs -------------------------
(***************************************************************************)
(* What the bot keeps true over its restarts: of its identity for any      *)
(* number of starts and tokens, and of what it stores for any bounds.      *)
(***************************************************************************)
EXTENDS BotProcess, BotSession_proofs

-----------------------------------------------------------------------------
(* The identity: types, whose the tokens are, and where ids stem from.     *)

IdentityTypes ==
  /\ env \in Environment
  /\ process \in {"down", "registering", "awaiting", "connecting", "up"}
  /\ starts \in 0 .. MaxStarts
  /\ process # "down" => starts > 0
  /\ agent \in {None} \union Tokens
  /\ tx \in [1 .. MaxStarts -> Registration]
  /\ owners \in Seq({"us", "other"}) /\ Len(owners) <= MaxTokens
  /\ found \in Seq({None, Malformed} \union Tokens) /\ Len(found) = starts

(* A start registers at most once and only if it found no id; a token is   *)
(* the bot's exactly if one registration minted it.                        *)
TokensAreRegistered ==
  /\ \A n \in 1 .. MaxStarts : tx[n].stage # "none" => n <= starts /\ found[n] = None
  /\ \A n \in 1 .. MaxStarts : tx[n].stage # "mined" => tx[n].token = 0
  /\ \A n \in 1 .. MaxStarts : tx[n].stage = "mined" => tx[n].token \in Ours
  /\ \A m, n \in 1 .. MaxStarts :
       tx[m].stage = "mined" /\ tx[n].stage = "mined" /\ tx[m].token = tx[n].token
         => m = n
  /\ \A id \in Ours : \E n \in 1 .. MaxStarts :
       tx[n].stage = "mined" /\ tx[n].token = id

StartIsFresh ==
  /\ process = "registering" => tx[starts].stage = "none"
  /\ process \in {"registering", "awaiting"} => found[starts] = None

(* What was logged is the bot's own; what it presents, its start found in  *)
(* the environment or registered.                                          *)
IdsHaveOrigins ==
  /\ logged \subseteq Ours
  /\ agent # None =>
       /\ process \notin {"down", "registering"}
       /\ \/ found[starts] = agent
          \/ /\ found[starts] = None
             /\ tx[starts] = [stage |-> "mined", token |-> agent]

IdentityInv ==
  IdentityTypes /\ TokensAreRegistered /\ StartIsFresh /\ IdsHaveOrigins

LEMMA IdentityProperties == IdentityInv => IdentityIsAccountedFor /\ MintsAreAccountedFor
<1> SUFFICES ASSUME IdentityInv PROVE IdentityIsAccountedFor /\ MintsAreAccountedFor
  OBVIOUS
<1>1. IdentityIsAccountedFor
  <2> SUFFICES ASSUME agent # None
               PROVE  /\ found[starts] # agent =>
                           /\ found[starts] = None
                           /\ tx[starts] = [stage |-> "mined", token |-> agent]
                      /\ found[starts] = None \/ agent \in logged => agent \in Ours
    BY DEF IdentityIsAccountedFor
  <2>1. /\ starts \in 1 .. MaxStarts
        /\ \/ found[starts] = agent
           \/ /\ found[starts] = None
              /\ tx[starts] = [stage |-> "mined", token |-> agent]
    BY IdentityAssumption DEF IdentityInv, IdentityTypes, IdsHaveOrigins
  <2>2. tx[starts] = [stage |-> "mined", token |-> agent] => agent \in Ours
    BY <2>1 DEF IdentityInv, TokensAreRegistered
  <2>3. agent \in logged => agent \in Ours
    BY DEF IdentityInv, IdsHaveOrigins
  <2> QED
    BY <2>1, <2>2, <2>3
<1>2. ASSUME NEW id \in Ours
      PROVE  \E n \in 1 .. starts :
               /\ tx[n] = [stage |-> "mined", token |-> id]
               /\ found[n] = None
               /\ \A m \in 1 .. starts : tx[m].token = id => m = n
  <2>1. PICK n \in 1 .. MaxStarts : tx[n].stage = "mined" /\ tx[n].token = id
    BY <1>2 DEF IdentityInv, TokensAreRegistered
  <2>2. n <= starts /\ found[n] = None /\ starts \in 0 .. MaxStarts
    BY <2>1 DEF IdentityInv, TokensAreRegistered, IdentityTypes
  <2>3. n \in 1 .. starts
    BY <2>2, IdentityAssumption
  <2>4. tx[n] = [stage |-> "mined", token |-> id]
    BY <2>1 DEF IdentityInv, IdentityTypes, Registration
  <2>5. id > 0
    <3>1. DOMAIN owners = 1 .. Len(owners) /\ Len(owners) \in Nat
      BY LenProperties DEF IdentityInv, IdentityTypes
    <3> QED
      BY <1>2, <3>1 DEF Ours
  <2>6. ASSUME NEW m \in 1 .. starts, tx[m].token = id
        PROVE  m = n
    <3>1. m \in 1 .. MaxStarts
      BY <2>2, IdentityAssumption
    <3>2. tx[m].stage = "mined"
      BY <2>5, <2>6, <3>1 DEF IdentityInv, TokensAreRegistered
    <3> QED
      BY <2>1, <2>6, <3>1, <3>2 DEF IdentityInv, TokensAreRegistered
  <2> QED
    BY <2>2, <2>3, <2>4, <2>6
<1>3. MintsAreAccountedFor
  BY <1>2 DEF MintsAreAccountedFor
<1> QED
  BY <1>1, <1>3

LEMMA IdentityStart == IdentityInit => IdentityInv
<1> SUFFICES ASSUME IdentityInit PROVE IdentityInv
  OBVIOUS
<1>1. /\ << >> \in Seq({"us", "other"})
      /\ << >> \in Seq({None, Malformed} \union Tokens)
      /\ Len(<< >>) = 0
  BY EmptySeq
<1>2. IdentityTypes
  BY <1>1, IdentityAssumption
     DEF IdentityInit, IdentityTypes, Environment, Registration
<1>3. Ours = {}
  BY DEF IdentityInit, Ours
<1>4. TokensAreRegistered
  BY <1>3 DEF IdentityInit, TokensAreRegistered
<1>5. StartIsFresh /\ IdsHaveOrigins
  BY DEF IdentityInit, StartIsFresh, IdsHaveOrigins
<1> QED
  BY <1>2, <1>4, <1>5 DEF IdentityInv

(* A token more leaves those there were as they were.                      *)
LEMMA Minted ==
  ASSUME IdentityTypes, NEW who \in {"us", "other"}, Len(owners) < MaxTokens,
         owners' = Append(owners, who)
  PROVE  /\ owners' \in Seq({"us", "other"})
         /\ Len(owners') = Len(owners) + 1 /\ Len(owners') <= MaxTokens
         /\ Len(owners) + 1 \in Tokens /\ Len(owners) + 1 \notin Ours
         /\ Ours' = Ours \union (IF who = "us" THEN {Len(owners) + 1} ELSE {})
<1>1. owners \in Seq({"us", "other"}) /\ Len(owners) \in Nat
  BY LenProperties DEF IdentityTypes
<1>2. DOMAIN owners = 1 .. Len(owners)
  BY <1>1, LenProperties
<1>3. /\ owners' \in Seq({"us", "other"})
      /\ Len(owners') = Len(owners) + 1
      /\ \A i \in 1 .. Len(owners) : owners'[i] = owners[i]
      /\ owners'[Len(owners) + 1] = who
  BY <1>1, AppendProperties
<1>4. DOMAIN owners' = 1 .. Len(owners) + 1
  BY <1>3, LenProperties
<1>5. Ours' = {id \in 1 .. Len(owners) + 1 : owners'[id] = "us"}
  BY <1>4 DEF Ours
<1>6. Ours = {id \in 1 .. Len(owners) : owners[id] = "us"}
  BY <1>2 DEF Ours
<1>7. Len(owners) + 1 <= MaxTokens /\ Len(owners) + 1 \in Tokens
  BY <1>1, IdentityAssumption DEF Tokens
<1>8. \A id \in 1 .. Len(owners) + 1 : id \in 1 .. Len(owners) \/ id = Len(owners) + 1
  BY <1>1
<1>9. \A id \in 1 .. Len(owners) : id \in 1 .. Len(owners) + 1 /\ id # Len(owners) + 1
  BY <1>1
<1>10. Len(owners) + 1 \in 1 .. Len(owners) + 1
  BY <1>1
<1>11. Ours' = Ours \union (IF who = "us" THEN {Len(owners) + 1} ELSE {})
  BY <1>3, <1>5, <1>6, <1>8, <1>9, <1>10
<1>12. Len(owners) + 1 \notin Ours
  BY <1>6, <1>9
<1> QED
  BY <1>3, <1>7, <1>11, <1>12

(* A start goes on, or ends, with nothing sent and nothing learnt.         *)
LEMMA Onward ==
  ASSUME IdentityInv, process # "down",
         process' \in {"awaiting", "connecting", "up", "down"},
         process' = "awaiting" => process = "registering",
         agent' = (IF process' = "down" THEN None ELSE agent),
         UNCHANGED << env, starts, tx, owners, logged, found >>
  PROVE  IdentityInv'
<1>1. IdentityTypes'
  BY DEF IdentityInv, IdentityTypes
<1>2. Ours' = Ours
  BY DEF Ours
<1>3. TokensAreRegistered' /\ StartIsFresh' /\ IdsHaveOrigins'
  BY <1>2 DEF IdentityInv, TokensAreRegistered, StartIsFresh, IdsHaveOrigins
<1> QED
  BY <1>1, <1>3 DEF IdentityInv

LEMMA BootKeeps == IdentityInv /\ Boot => IdentityInv'
<1> SUFFICES ASSUME IdentityInv, Boot PROVE IdentityInv'
  OBVIOUS
<1>1. /\ starts \in 0 .. MaxStarts /\ starts' = starts + 1
      /\ starts < MaxStarts
      /\ UNCHANGED << env, tx, owners, logged >>
      /\ process' = IF Registers THEN "registering" ELSE "connecting"
      /\ agent' = ConfiguredId
  BY DEF Boot, IdentityInv, IdentityTypes
<1>2. starts' \in 1 .. MaxStarts
  BY <1>1, IdentityAssumption
<1>3. env.id \in {None, Malformed} \union Tokens
  BY DEF IdentityInv, IdentityTypes, Environment
<1>4. /\ found' \in Seq({None, Malformed} \union Tokens)
      /\ Len(found') = starts'
      /\ \A n \in 1 .. starts : found'[n] = found[n]
      /\ found'[starts'] = env.id
  BY <1>1, <1>3, AppendProperties DEF Boot, IdentityInv, IdentityTypes
<1>5. agent' \in {None} \union Tokens
  BY <1>1 DEF ConfiguredId
<1>6. IdentityTypes'
  BY <1>1, <1>2, <1>4, <1>5, IdentityAssumption DEF IdentityInv, IdentityTypes
<1>7. Ours' = Ours
  BY <1>1 DEF Ours
<1>8. \A n \in 1 .. MaxStarts : tx[n].stage # "none" =>
        n \in 1 .. starts /\ n <= starts' /\ found'[n] = None
  BY <1>1, <1>4 DEF IdentityInv, TokensAreRegistered
<1>9. TokensAreRegistered'
  BY <1>1, <1>7, <1>8 DEF IdentityInv, TokensAreRegistered
<1>10. tx'[starts'].stage = "none"
  <2>1. ~ (starts' <= starts)
    BY <1>1
  <2> QED
    BY <1>1, <1>2, <2>1 DEF IdentityInv, TokensAreRegistered
<1>11. StartIsFresh'
  BY <1>1, <1>4, <1>10 DEF StartIsFresh, Registers
<1>12. agent' # None => process' = "connecting" /\ found'[starts'] = agent'
  BY <1>1, <1>4, IdentityAssumption DEF ConfiguredId, Registers, Tokens
<1>13. IdsHaveOrigins'
  BY <1>1, <1>7, <1>12 DEF IdentityInv, IdsHaveOrigins
<1> QED
  BY <1>6, <1>9, <1>11, <1>13 DEF IdentityInv

LEMMA SendKeeps == IdentityInv /\ SendRegistration => IdentityInv'
<1> SUFFICES ASSUME IdentityInv, SendRegistration PROVE IdentityInv'
  OBVIOUS
<1>1. /\ process = "registering" /\ starts \in 1 .. MaxStarts
      /\ process' \in {"awaiting", "connecting"}
      /\ UNCHANGED << env, starts, agent, owners, logged, found >>
      /\ tx[starts].stage = "none" /\ found[starts] = None
  BY IdentityAssumption
     DEF SendRegistration, IdentityInv, IdentityTypes, StartIsFresh
<1>2. /\ tx' = [tx EXCEPT ![starts].stage = "sent"]
      /\ tx \in [1 .. MaxStarts -> Registration]
  BY DEF SendRegistration, IdentityInv, IdentityTypes
<1>3. \A n \in 1 .. MaxStarts :
        /\ tx'[n].stage = IF n = starts THEN "sent" ELSE tx[n].stage
        /\ tx'[n].token = tx[n].token
  BY <1>1, <1>2 DEF Registration
<1>4. tx' \in [1 .. MaxStarts -> Registration]
  BY <1>1, <1>2 DEF Registration
<1>5. IdentityTypes'
  BY <1>1, <1>4 DEF IdentityInv, IdentityTypes
<1>6. Ours' = Ours
  BY <1>1 DEF Ours
<1>7. \A n \in 1 .. MaxStarts : tx'[n].stage = "mined" <=> tx[n].stage = "mined"
  BY <1>1, <1>3
<1>8. \A n \in 1 .. MaxStarts :
        tx'[n].stage # "none" => n <= starts' /\ found'[n] = None
  <2> SUFFICES ASSUME NEW n \in 1 .. MaxStarts, tx'[n].stage # "none"
               PROVE  n <= starts' /\ found'[n] = None
    OBVIOUS
  <2>1. CASE n = starts
    BY <1>1, <2>1
  <2>2. CASE n # starts
    <3>1. tx[n].stage # "none"
      BY <1>3, <2>2
    <3> QED
      BY <1>1, <3>1 DEF IdentityInv, TokensAreRegistered
  <2> QED
    BY <2>1, <2>2
<1>9. TokensAreRegistered'
  BY <1>3, <1>6, <1>7, <1>8 DEF IdentityInv, TokensAreRegistered
<1>10. agent' = None
  BY <1>1 DEF IdentityInv, IdsHaveOrigins
<1>11. StartIsFresh' /\ IdsHaveOrigins'
  BY <1>1, <1>6, <1>10 DEF IdentityInv, StartIsFresh, IdsHaveOrigins
<1> QED
  BY <1>5, <1>9, <1>11 DEF IdentityInv

LEMMA ReceiptKeeps == IdentityInv /\ ReceiptArrives => IdentityInv'
<1> SUFFICES ASSUME IdentityInv, ReceiptArrives PROVE IdentityInv'
  OBVIOUS
<1>1. /\ process = "awaiting" /\ process' = "connecting"
      /\ starts \in 1 .. MaxStarts
      /\ UNCHANGED << env, starts, tx, owners, found >>
  BY IdentityAssumption DEF ReceiptArrives, IdentityInv, IdentityTypes
<1>2. CASE tx[starts].stage # "mined"
  <2>1. UNCHANGED << agent, logged >>
    BY <1>2 DEF ReceiptArrives
  <2> QED
    BY <1>1, <2>1, Onward
<1>3. CASE tx[starts].stage = "mined"
  <2>1. /\ agent' = tx[starts].token
        /\ logged' = logged \union {tx[starts].token}
    BY <1>3 DEF ReceiptArrives, AgentIdFromReceipt
  <2>2. tx[starts].token \in Ours
    BY <1>1, <1>3 DEF IdentityInv, TokensAreRegistered
  <2>3. Ours \subseteq Tokens
    <3>1. DOMAIN owners = 1 .. Len(owners) /\ Len(owners) \in Nat
          /\ Len(owners) <= MaxTokens
      BY LenProperties DEF IdentityInv, IdentityTypes
    <3> QED
      BY <3>1, IdentityAssumption DEF Ours, Tokens
  <2>4. IdentityTypes'
    <3>1. agent' \in {None} \union Tokens
      BY <2>1, <2>2, <2>3
    <3> QED
      BY <1>1, <3>1 DEF IdentityInv, IdentityTypes
  <2>5. Ours' = Ours
    BY <1>1 DEF Ours
  <2>6. TokensAreRegistered' /\ StartIsFresh'
    BY <1>1, <2>5 DEF IdentityInv, TokensAreRegistered, StartIsFresh
  <2>7. found'[starts'] = None
    BY <1>1 DEF IdentityInv, StartIsFresh
  <2>8. tx[starts] = [stage |-> "mined", token |-> tx[starts].token]
    BY <1>1, <1>3 DEF IdentityInv, IdentityTypes, Registration
  <2>9. IdsHaveOrigins'
    BY <1>1, <2>1, <2>2, <2>5, <2>7, <2>8 DEF IdentityInv, IdsHaveOrigins
  <2> QED
    BY <2>4, <2>6, <2>9 DEF IdentityInv
<1> QED
  BY <1>2, <1>3

LEMMA MineKeeps ==
  ASSUME IdentityInv, NEW n \in 1 .. MaxStarts, MineRegistration(n)
  PROVE  IdentityInv'
<1>1. /\ tx[n].stage = "sent"
      /\ UNCHANGED << env, process, starts, agent, logged, found >>
      /\ tx \in [1 .. MaxStarts -> Registration]
      /\ n <= starts /\ found[n] = None
  BY DEF MineRegistration, IdentityInv, IdentityTypes, TokensAreRegistered
<1>2. process = "registering" => starts # n
  BY <1>1 DEF IdentityInv, StartIsFresh
<1>3. ASSUME NEW r \in Registration, r.stage \in {"mined", "reverted"},
             tx' = [tx EXCEPT ![n] = r]
      PROVE  /\ tx' \in [1 .. MaxStarts -> Registration]
             /\ \A m \in 1 .. MaxStarts : tx'[m] = IF m = n THEN r ELSE tx[m]
             /\ \A m \in 1 .. MaxStarts : tx'[m].stage # "none" =>
                  m <= starts' /\ found'[m] = None
             /\ StartIsFresh'
             /\ logged \subseteq Ours' => IdsHaveOrigins'
  <2>1. /\ tx' \in [1 .. MaxStarts -> Registration]
        /\ \A m \in 1 .. MaxStarts : tx'[m] = IF m = n THEN r ELSE tx[m]
    BY <1>1, <1>3
  <2>2. \A m \in 1 .. MaxStarts : tx'[m].stage # "none" =>
          m <= starts' /\ found'[m] = None
    BY <1>1, <2>1 DEF IdentityInv, TokensAreRegistered
  <2>3. process = "registering" => starts \in 1 .. MaxStarts
    BY IdentityAssumption DEF IdentityInv, IdentityTypes
  <2>4. StartIsFresh'
    BY <1>1, <1>2, <2>1, <2>3 DEF IdentityInv, StartIsFresh
  <2>5. ASSUME agent # None
        PROVE  /\ process \notin {"down", "registering"}
               /\ \/ found[starts] = agent
                  \/ /\ found[starts] = None
                     /\ tx'[starts] = [stage |-> "mined", token |-> agent]
    <3>1. /\ process \notin {"down", "registering"}
          /\ \/ found[starts] = agent
             \/ /\ found[starts] = None
                /\ tx[starts] = [stage |-> "mined", token |-> agent]
      BY <2>5 DEF IdentityInv, IdsHaveOrigins
    <3>2. starts \in 1 .. MaxStarts
      BY <3>1, IdentityAssumption DEF IdentityInv, IdentityTypes
    <3>3. tx[starts] = [stage |-> "mined", token |-> agent] => starts # n
      BY <1>1
    <3> QED
      BY <2>1, <3>1, <3>2, <3>3
  <2>6. logged \subseteq Ours' => IdsHaveOrigins'
    BY <1>1, <2>5 DEF IdsHaveOrigins
  <2> QED
    BY <2>1, <2>2, <2>4, <2>6
<1>4. CASE /\ Len(owners) < MaxTokens
           /\ owners' = Append(owners, "us")
           /\ tx' = [tx EXCEPT ![n] = [stage |-> "mined", token |-> Len(owners) + 1]]
  <2> DEFINE r == [stage |-> "mined", token |-> Len(owners) + 1]
  <2>1. /\ owners' \in Seq({"us", "other"}) /\ Len(owners') <= MaxTokens
        /\ Len(owners) + 1 \in Tokens /\ Len(owners) + 1 \notin Ours
        /\ Ours' = Ours \union {Len(owners) + 1}
    BY <1>4, Minted DEF IdentityInv
  <2>2. r \in Registration
    BY <2>1, IdentityAssumption DEF Registration, Tokens
  <2>3. /\ tx' \in [1 .. MaxStarts -> Registration]
        /\ \A m \in 1 .. MaxStarts : tx'[m] = IF m = n THEN r ELSE tx[m]
        /\ \A m \in 1 .. MaxStarts : tx'[m].stage # "none" =>
             m <= starts' /\ found'[m] = None
        /\ StartIsFresh'
        /\ logged \subseteq Ours' => IdsHaveOrigins'
    BY <1>3, <1>4, <2>2
  <2> HIDE DEF r
  <2>4. r.stage = "mined" /\ r.token = Len(owners) + 1
    BY DEF r
  <2>5. IdentityTypes'
    BY <1>1, <2>1, <2>3 DEF IdentityInv, IdentityTypes
  <2>6. \A m \in 1 .. MaxStarts :
          /\ tx'[m].stage # "mined" => tx'[m].token = 0
          /\ tx'[m].stage = "mined" => tx'[m].token \in Ours'
    BY <2>1, <2>3, <2>4 DEF IdentityInv, TokensAreRegistered
  <2>7. \A m, k \in 1 .. MaxStarts :
          tx'[m].stage = "mined" /\ tx'[k].stage = "mined" /\ tx'[m].token = tx'[k].token
            => m = k
    BY <2>1, <2>3, <2>4 DEF IdentityInv, TokensAreRegistered
  <2>8. ASSUME NEW id \in Ours'
        PROVE  \E m \in 1 .. MaxStarts : tx'[m].stage = "mined" /\ tx'[m].token = id
    <3>1. CASE id = Len(owners) + 1
      BY <2>3, <2>4, <3>1
    <3>2. CASE id \in Ours
      <4>1. PICK m \in 1 .. MaxStarts : tx[m].stage = "mined" /\ tx[m].token = id
        BY <3>2 DEF IdentityInv, TokensAreRegistered
      <4>2. m # n
        BY <1>1, <4>1
      <4> QED
        BY <2>3, <4>1, <4>2
    <3> QED
      BY <2>1, <3>1, <3>2
  <2>9. TokensAreRegistered'
    BY <2>3, <2>6, <2>7, <2>8 DEF TokensAreRegistered
  <2>10. IdsHaveOrigins'
    BY <2>1, <2>3 DEF IdentityInv, IdsHaveOrigins
  <2> QED
    BY <2>3, <2>5, <2>9, <2>10 DEF IdentityInv
<1>5. CASE tx' = [tx EXCEPT ![n].stage = "reverted"] /\ UNCHANGED owners
  <2> DEFINE r == [tx[n] EXCEPT !.stage = "reverted"]
  <2>1. tx[n] \in Registration /\ tx[n].token = 0
    BY <1>1 DEF IdentityInv, TokensAreRegistered
  <2>2. r \in Registration /\ r.stage = "reverted" /\ r.token = 0
    BY <2>1 DEF Registration
  <2>3. tx' = [tx EXCEPT ![n] = r]
    BY <1>5
  <2> HIDE DEF r
  <2>4. /\ tx' \in [1 .. MaxStarts -> Registration]
        /\ \A m \in 1 .. MaxStarts : tx'[m] = IF m = n THEN r ELSE tx[m]
        /\ \A m \in 1 .. MaxStarts : tx'[m].stage # "none" =>
             m <= starts' /\ found'[m] = None
        /\ StartIsFresh'
        /\ logged \subseteq Ours' => IdsHaveOrigins'
    BY <1>3, <2>2, <2>3
  <2>5. IdentityTypes'
    BY <1>1, <1>5, <2>4 DEF IdentityInv, IdentityTypes
  <2>6. Ours' = Ours
    BY <1>5 DEF Ours
  <2>7. \A m \in 1 .. MaxStarts :
          /\ tx'[m].stage = "mined" <=> tx[m].stage = "mined"
          /\ tx'[m].token = tx[m].token
    BY <1>1, <2>1, <2>2, <2>4
  <2>8. TokensAreRegistered'
    BY <2>4, <2>6, <2>7 DEF IdentityInv, TokensAreRegistered
  <2>9. IdsHaveOrigins'
    BY <2>4, <2>6 DEF IdentityInv, IdsHaveOrigins
  <2> QED
    BY <2>4, <2>5, <2>8, <2>9 DEF IdentityInv
<1> QED
  BY <1>4, <1>5 DEF MineRegistration

LEMMA OtherMintsKeeps == IdentityInv /\ OtherMints => IdentityInv'
<1> SUFFICES ASSUME IdentityInv, OtherMints PROVE IdentityInv'
  OBVIOUS
<1>1. UNCHANGED << env, process, starts, agent, tx, logged, found >>
  BY DEF OtherMints
<1>2. /\ owners' \in Seq({"us", "other"}) /\ Len(owners') <= MaxTokens
      /\ Ours' = Ours
  BY Minted DEF OtherMints, IdentityInv
<1>3. IdentityTypes'
  BY <1>1, <1>2 DEF IdentityInv, IdentityTypes
<1>4. TokensAreRegistered' /\ StartIsFresh' /\ IdsHaveOrigins'
  BY <1>1, <1>2 DEF IdentityInv, TokensAreRegistered, StartIsFresh, IdsHaveOrigins
<1> QED
  BY <1>3, <1>4 DEF IdentityInv

LEMMA EditKeeps ==
  ASSUME IdentityInv, NEW id \in {None, Malformed} \union Tokens, EditEnvironment(id)
  PROVE  IdentityInv'
<1>1. /\ UNCHANGED << process, starts, agent, tx, owners, logged, found >>
      /\ env' = [env EXCEPT !.id = id] /\ env \in Environment
  BY DEF EditEnvironment, IdentityInv, IdentityTypes
<1>2. env' \in Environment
  BY <1>1 DEF Environment
<1>3. Ours' = Ours
  BY <1>1 DEF Ours
<1>4. IdentityTypes'
  BY <1>1, <1>2 DEF IdentityInv, IdentityTypes
<1>5. TokensAreRegistered' /\ StartIsFresh' /\ IdsHaveOrigins'
  BY <1>1, <1>3 DEF IdentityInv, TokensAreRegistered, StartIsFresh, IdsHaveOrigins
<1> QED
  BY <1>4, <1>5 DEF IdentityInv

LEMMA IdentityNext == IdentityInv /\ [ProcessNext]_processVars => IdentityInv'
<1> SUFFICES ASSUME IdentityInv, [ProcessNext]_processVars PROVE IdentityInv'
  OBVIOUS
<1>1. CASE UNCHANGED identityVars
  <2>1. UNCHANGED << env, process, starts, agent, tx, owners, logged, found >>
    BY <1>1 DEF identityVars
  <2> QED
    BY <2>1 DEF IdentityInv, IdentityTypes, TokensAreRegistered, StartIsFresh,
                IdsHaveOrigins, Ours
<1>2. CASE SendFails \/ ReceiptFails \/ Connected \/ StopProcess
  <2>1. /\ process # "down"
        /\ process' \in {"connecting", "up", "down"}
        /\ agent' = IF process' = "down" THEN None ELSE agent
        /\ UNCHANGED << env, starts, tx, owners, logged, found >>
    BY <1>2 DEF SendFails, ReceiptFails, Connected, StopProcess
  <2> QED
    BY <2>1, Onward
<1>3. CASE Starting
  BY <1>2, <1>3, BootKeeps, SendKeeps, ReceiptKeeps DEF Starting
<1>4. CASE World
  <2>1. ASSUME NEW n \in 1 .. MaxStarts, MineRegistration(n)
        PROVE  IdentityInv'
    BY <2>1, MineKeeps
  <2>2. ASSUME NEW id \in {None, Malformed} \union Tokens, EditEnvironment(id)
        PROVE  IdentityInv'
    BY <2>2, EditKeeps
  <2> QED
    BY <1>4, <2>1, <2>2, OtherMintsKeeps DEF World
<1> QED
  BY <1>1, <1>2, <1>3, <1>4 DEF ProcessNext, Handling, Crash, processVars

(* However often the bot starts, fails half-way or stops, whatever others  *)
(* register meanwhile and whatever number the environment names, the id it *)
(* presents is that number or, without one, the token this start           *)
(* registered; one it registered or logged is its own.                     *)
THEOREM IdentityOrigin == ProcessSpec => []IdentityIsAccountedFor
<1>1. ProcessInit => IdentityInv
  BY IdentityStart DEF ProcessInit
<1> QED
  BY <1>1, IdentityNext, IdentityProperties, PTL DEF ProcessSpec

(* Every token of the bot's stems from one start that found no id.         *)
THEOREM MintsAreOurDoing == ProcessSpec => []MintsAreAccountedFor
<1>1. ProcessInit => IdentityInv
  BY IdentityStart DEF ProcessInit
<1> QED
  BY <1>1, IdentityNext, IdentityProperties, PTL DEF ProcessSpec

-----------------------------------------------------------------------------
(* The session over restarts: a step of the process is a step of the       *)
(* handlers, or leaves them alone, or ends them all.                       *)

LEMMA ProcessSteps == [ProcessNext]_processVars => [Next]_vars \/ Crash
  BY DEF ProcessNext, Handling, processVars, vars

LEMMA CrashKeeps ==
  ASSUME TypeOK, Crash
  PROVE  /\ TypeOK' /\ ConversationsStep
         /\ \A ch \in Chats : handler'[ch].at = "idle"
<1>1. /\ handler' = [ch \in Chats |-> Idle]
      /\ UNCHANGED << registered, conversations, policies, received >>
  BY DEF Crash, Database
<1>2. Idle \in Handler /\ Idle.at = "idle"
  BY IdleType DEF Idle
<1> QED
  BY <1>1, <1>2 DEF TypeOK, At, ConversationsStep

LEMMA ProcessTypes == TypeOK /\ [ProcessNext]_processVars => TypeOK'
  BY ProcessSteps, TypeNext, CrashKeeps

LEMMA ProcessConversations ==
  TypeOK /\ [ProcessNext]_processVars => ConversationsStep
  BY ProcessSteps, ConversationsSteps, CrashKeeps

LEMMA ProcessNewest ==
  TypeOK /\ OnlyNewestIsActive /\ [ProcessNext]_processVars => OnlyNewestIsActive'
  BY ProcessConversations, NewestNext

(* The types, and that one conversation at most is in use, at any time.    *)
LEMMA ProcessSession == ProcessSpec => [](TypeOK /\ OnlyNewestIsActive)
<1>1. ProcessInit => TypeOK /\ OnlyNewestIsActive
  BY TypeInit DEF ProcessInit, Init, OnlyNewestIsActive
<1> QED
  BY <1>1, ProcessTypes, ProcessNewest, PTL DEF ProcessSpec

LEMMA ProcessReset ==
  TypeOK /\ ResetInv /\ [ProcessNext]_processVars => ResetInv'
<1> SUFFICES ASSUME TypeOK, ResetInv, [ProcessNext]_processVars PROVE ResetInv'
  OBVIOUS
<1>1. CASE [Next]_vars
  BY <1>1, ResetNext
<1>2. CASE Crash
  BY <1>2, CrashKeeps DEF ResetInv, ResetProgress
<1> QED
  BY <1>1, <1>2, ProcessSteps

(* What the handlers keep true they keep true over crashes and restarts:   *)
(* one conversation in use, resets that clear, and nothing said is lost.   *)
THEOREM SessionOutlivesRestarts ==
  ProcessSpec => []OnlyNewestIsActive /\ []ResetClearsWhatStood /\ ClosedStaysClosed
<1>1. ProcessSpec => []OnlyNewestIsActive
  BY ProcessSession, PTL
<1>2. ProcessSpec => []ResetClearsWhatStood
  <2>1. ProcessInit => ResetInv
    BY DEF ProcessInit, Init, ResetInv, ResetProgress, Idle
  <2>2. ResetInv => ResetClearsWhatStood
    BY DEF ResetInv, ResetProgress, StoodAreCleared, ResetClearsWhatStood, At
  <2> QED
    BY <2>1, <2>2, ProcessReset, ProcessSession, PTL DEF ProcessSpec
<1>3. ProcessSpec => ClosedStaysClosed
  <2>1. TypeOK /\ [ProcessNext]_processVars => [HistoryKept]_vars
    BY ProcessConversations, HistoryKeptNext
  <2> QED
    BY <2>1, ProcessSession, PTL DEF ProcessSpec, ClosedStaysClosed
<1> QED
  BY <1>1, <1>2, <1>3

LEMMA CrashGetsOn ==
  ASSUME TypeOK, FiniteWork, Crash
  PROVE  FiniteWork' /\ StepsGetOn
<1>1. handler' = [ch \in Chats |-> Idle] /\ policies' = policies
  BY DEF Crash, Database
<1>2. FiniteWork'
  BY <1>1, FS_EmptySet DEF FiniteWork, Used, Idle
<1>3. ASSUME NEW ch \in Chats, ~ At(ch, "idle")
      PROVE  GetsOn(handler[ch], handler'[ch])
  <2>1. handler[ch].at \in Places \ {"idle"}
    BY <1>3 DEF TypeOK, Handler, At
  <2>2. 0 < Distance(handler[ch].at)
    BY <2>1, Distances DEF Places
  <2>3. handler'[ch].at = "idle"
    BY <1>1 DEF Idle
  <2> QED
    BY <2>2, <2>3, Distances DEF GetsOn
<1> QED
  BY <1>2, <1>3 DEF StepsGetOn

(* A crash ends handlers wherever they are, and a start begins with none:  *)
(* over any number of restarts, every step of a handler gets it on.        *)
THEOREM HandlersGetOnOverRestarts == ProcessSpec => HandlersGetOn
<1>1. ProcessInit => FiniteWork
  BY FirstWorkIsFinite DEF ProcessInit
<1>2. TypeOK /\ FiniteWork /\ [ProcessNext]_processVars => FiniteWork' /\ [StepsGetOn]_vars
  BY ProcessSteps, FiniteWorkStep, GettingOn, CrashGetsOn
<1> QED
  BY <1>1, <1>2, ProcessSession, PTL DEF ProcessSpec, HandlersGetOn

-----------------------------------------------------------------------------
(* One chat: what the conversation in use holds while a message is at      *)
(* work.                                                                   *)

(* The places from which a reply is sent in the end.                       *)
InLoop == {"thinking", "tools", "store_reply"}
AfterLoop == {"count", "trim", "send_reply"}
InMessage == {"store_prompt", "load_history"} \union InLoop \union AfterLoop

EndsWithPrompt(ch, messages) ==
  Len(messages) > 0 /\ messages[Len(messages)] = Message("user", ch)

EndsWithReply(ch, messages) ==
  /\ Len(messages) > 1
  /\ messages[Len(messages)] = Message("assistant", ch)
  /\ messages[Len(messages) - 1] = Message("user", ch)

MessageInv(ch) ==
  LET h == handler[ch]
  IN  /\ h.at \in InMessage => ActiveIds # {}
      /\ h.at = "load_history" => EndsWithPrompt(ch, Active.messages)
      /\ h.at \in InLoop => Append(h.history, Message("user", ch)) = Active.messages
      /\ h.at \in AfterLoop /\ h.reply => EndsWithReply(ch, Active.messages)
      /\ h.at = "trim" => Len(Active.messages) > Keep
      /\ h.at = "send_reply" => Len(Active.messages) <= Keep

LEMMA MessageProperties ==
  ASSUME NEW ch, Chats = {ch}
  PROVE  TypeOK /\ MessageInv(ch) => PromptAppearsOnce /\ ReplyIsKept
  BY DEF MessageInv, PromptAppearsOnce, ReplyIsKept, InLoop, AfterLoop,
         EndsWithReply, At

(* The conversation in use, if there is one.                               *)
LEMMA TheActive ==
  ASSUME TypeOK, OnlyNewestIsActive, ActiveIds # {}
  PROVE  \E i \in DOMAIN conversations :
           ActiveIds = {i} /\ Active = conversations[i] /\ conversations[i].active
<1>1. PICK i \in ActiveIds : TRUE
  OBVIOUS
<1>2. ActiveIds = {i}
  BY <1>1 DEF ActiveIds, OnlyNewestIsActive
<1>3. Active = conversations[i]
  BY <1>2 DEF Active
<1> QED
  BY <1>1, <1>2, <1>3 DEF ActiveIds

LEMMA ActiveMessages ==
  ASSUME TypeOK, OnlyNewestIsActive, ActiveIds # {}
  PROVE  Active.messages \in Seq(StoredMessage) /\ Len(Active.messages) \in Nat
  BY TheActive, RowsHaveTypes

(* A statement that rewrites the messages of the one in use.               *)
LEMMA Rewritten ==
  ASSUME TypeOK, OnlyNewestIsActive, ActiveIds # {}, NEW ms,
         DOMAIN conversations' = DOMAIN conversations,
         \A i \in DOMAIN conversations :
           conversations'[i] = IF conversations[i].active
                                 THEN [conversations[i] EXCEPT !.messages = ms]
                                 ELSE conversations[i]
  PROVE  ActiveIds' # {} /\ Active'.messages = ms
<1>1. PICK i \in DOMAIN conversations :
        ActiveIds = {i} /\ Active = conversations[i] /\ conversations[i].active
  BY TheActive
<1>2. \A j \in DOMAIN conversations : conversations[j] \in ConversationRow
  BY RowsHaveTypes
<1>3. \A j \in DOMAIN conversations :
        conversations'[j].active <=> conversations[j].active
  BY <1>2 DEF ConversationRow
<1>4. ActiveIds' = {i}
  BY <1>1, <1>3 DEF ActiveIds
<1>5. Active' = conversations'[i]
  BY <1>4 DEF Active
<1>6. conversations'[i].messages = ms
  BY <1>1, <1>2 DEF ConversationRow
<1> QED
  BY <1>4, <1>5, <1>6

LEMMA AppendedActive ==
  ASSUME TypeOK, OnlyNewestIsActive, ActiveIds # {}, NEW m,
         conversations' = Appended(<< m >>)
  PROVE  /\ ActiveIds' # {}
         /\ Active'.messages = Active.messages \o << m >>
<1>1. PICK i \in DOMAIN conversations :
        ActiveIds = {i} /\ Active = conversations[i] /\ conversations[i].active
  BY TheActive
<1>2. \A j \in DOMAIN conversations : conversations[j].active => j = i
  BY <1>1 DEF ActiveIds
<1>3. \A j \in DOMAIN conversations :
        conversations'[j] =
          IF conversations[j].active
            THEN [conversations[j] EXCEPT !.messages = Active.messages \o << m >>]
            ELSE conversations[j]
  BY <1>1, <1>2 DEF Appended
<1>4. DOMAIN conversations' = DOMAIN conversations
  BY DEF Appended
<1> QED
  BY <1>3, <1>4, Rewritten

LEMMA TrimmedActive ==
  ASSUME TypeOK, OnlyNewestIsActive, ActiveIds # {}, conversations' = Trimmed
  PROVE  /\ ActiveIds' # {}
         /\ Active'.messages = LastOf(Active.messages, Keep)
<1>1. PICK i \in DOMAIN conversations :
        ActiveIds = {i} /\ Active = conversations[i] /\ conversations[i].active
  BY TheActive
<1>2. \A j \in DOMAIN conversations : conversations[j].active => j = i
  BY <1>1 DEF ActiveIds
<1>3. \A j \in DOMAIN conversations :
        conversations'[j] =
          IF conversations[j].active
            THEN [conversations[j] EXCEPT !.messages = LastOf(Active.messages, Keep)]
            ELSE conversations[j]
  BY <1>1, <1>2 DEF Trimmed
<1>4. DOMAIN conversations' = DOMAIN conversations
  BY DEF Trimmed
<1> QED
  BY <1>3, <1>4, Rewritten

(* All but the last message, and the last one, make the sequence.          *)
LEMMA HistoryAndLast ==
  ASSUME NEW S, NEW s \in Seq(S), Len(s) > 0
  PROVE  /\ HistoryOf(s) \in Seq(S)
         /\ Append(HistoryOf(s), s[Len(s)]) = s
<1>1. Len(s) \in Nat /\ s # << >>
  BY LenProperties
<1>2. HistoryOf(s) = SubSeq(s, 1, Len(s) - 1)
  BY <1>1 DEF HistoryOf
<1>3. HistoryOf(s) \in Seq(S)
  BY HistoryType
<1>4. s[Len(s)] \in S
  BY <1>1, ElementOfSeq
<1>5. Append(HistoryOf(s), s[Len(s)]) = HistoryOf(s) \o << s[Len(s)] >>
  BY <1>3, <1>4, AppendIsConcat
<1>6. SubSeq(s, 1, Len(s)) = SubSeq(s, 1, Len(s) - 1) \o << s[Len(s)] >>
  BY <1>1, SubSeqRecursiveSecond
<1> QED
  BY <1>2, <1>3, <1>5, <1>6, SubSeqFull

(* The last two messages are among those that trimming keeps.              *)
LEMMA LastTwoAreKept ==
  ASSUME NEW S, NEW s \in Seq(S), Len(s) > Keep
  PROVE  LET t == LastOf(s, Keep)
         IN  /\ Len(t) = Keep
             /\ t[Len(t)] = s[Len(s)] /\ t[Len(t) - 1] = s[Len(s) - 1]
<1> DEFINE t == LastOf(s, Keep)
<1>1. Len(s) \in Nat /\ Keep \in Nat /\ Keep >= 2
  BY LenProperties, BoundsAssumption
<1>2. t = SubSeq(s, Len(s) - Keep + 1, Len(s))
  BY DEF LastOf
<1>3. \A i \in Len(s) - Keep + 1 .. Len(s) : s[i] \in S
  <2> SUFFICES ASSUME NEW i \in Len(s) - Keep + 1 .. Len(s) PROVE s[i] \in S
    OBVIOUS
  <2>1. i \in 1 .. Len(s)
    BY <1>1
  <2> QED
    BY <2>1, ElementOfSeq
<1>4. Len(t) = Keep
  BY <1>1, LastOfType
<1>5. \A i \in 1 .. Len(s) - (Len(s) - Keep + 1) + 1 :
        t[i] = s[Len(s) - Keep + 1 + i - 1]
  <2>1. Len(s) - Keep + 1 \in Int /\ Len(s) \in Int
    BY <1>1
  <2> QED
    BY <1>2, <1>3, <2>1, SubSeqProperties
<1> HIDE DEF t
<1>6. t[Keep] = s[Len(s) - Keep + 1 + Keep - 1]
  BY <1>1, <1>5
<1>7. t[Keep - 1] = s[Len(s) - Keep + 1 + (Keep - 1) - 1]
  BY <1>1, <1>5
<1>8. /\ Len(s) - Keep + 1 + Keep - 1 = Len(s)
      /\ Len(s) - Keep + 1 + (Keep - 1) - 1 = Len(s) - 1
  BY <1>1
<1>9. t[Len(t)] = s[Len(s)] /\ t[Len(t) - 1] = s[Len(s) - 1]
  BY <1>4, <1>6, <1>7, <1>8
<1> QED
  BY <1>4, <1>9 DEF t

LEMMA SameTable ==
  ASSUME UNCHANGED << conversations, received >>
  PROVE  /\ ActiveIds' = ActiveIds /\ Active' = Active
         /\ \A ch, role : Message(role, ch)' = Message(role, ch)
  BY DEF ActiveIds, Active, Message

(* Nothing is asked of a handler that is not at work on a message.         *)
LEMMA NotInMessage ==
  ASSUME NEW ch, handler'[ch].at \notin InMessage
  PROVE  MessageInv(ch)'
  BY DEF MessageInv, InMessage, InLoop, AfterLoop

LEMMA StepsOutsideMessages ==
  ASSUME NEW ch \in Chats, TypeOK,
         \/ \E kind \in Kinds : Receive(ch, kind)
         \/ FindUser(ch)   \/ CreateUser(ch)      \/ ListPolicies(ch)
         \/ DeletePolicy(ch) \/ PoliciesDeleted(ch) \/ Deactivate(ch)
         \/ CreateConversation(ch) \/ StoreWelcome(ch) \/ ClearFlag(ch)
         \/ Confirm(ch)    \/ SendReply(ch)       \/ Abort(ch)
  PROVE  MessageInv(ch)'
<1>1. handler \in [Chats -> Handler] /\ handler[ch] \in Handler
  BY DEF TypeOK
<1>2. CASE \E kind \in Kinds : Receive(ch, kind)
  <2>1. PICK kind \in Kinds : Receive(ch, kind)
    BY <1>2
  <2>2. handler'[ch] = [Idle EXCEPT !.at = "find_user", !.kind = kind,
                                    !.stood = ActivePolicies]
    BY <1>1, <2>1 DEF Receive
  <2>3. handler'[ch].at = "find_user"
    BY <2>2 DEF Idle
  <2> QED
    BY <2>3, NotInMessage DEF InMessage, InLoop, AfterLoop
<1>3. CASE StoreWelcome(ch) \/ Confirm(ch) \/ SendReply(ch) \/ Abort(ch)
  <2>1. handler'[ch].at = "idle"
    BY <1>1, <1>3 DEF StoreWelcome, Confirm, SendReply, Abort, End, Idle
  <2> QED
    BY <2>1, NotInMessage DEF InMessage, InLoop, AfterLoop
<1>4. CASE FindUser(ch)
  <2>1. \/ End(ch)
        \/ \E place \in {"deactivate", "create_user", "list_policies", "find_session"} :
             Goto(ch, place)
    BY <1>1, <1>4 DEF FindUser, Kinds, Handler
  <2>2. handler'[ch].at
          \in {"idle", "deactivate", "create_user", "list_policies", "find_session"}
    BY <1>1, <2>1 DEF Goto, End, Idle, Handler
  <2> QED
    BY <2>2, NotInMessage DEF InMessage, InLoop, AfterLoop
<1>5. CASE \/ CreateUser(ch) \/ ListPolicies(ch) \/ DeletePolicy(ch)
           \/ PoliciesDeleted(ch)
  <2>1. handler'[ch].at \in {"idle", "deactivate", "delete_policies"}
    BY <1>1, <1>5 DEF CreateUser, ListPolicies, DeletePolicy, PoliciesDeleted,
                      Goto, End, Idle, At, Handler
  <2> QED
    BY <2>1, NotInMessage DEF InMessage, InLoop, AfterLoop
<1>6. CASE Deactivate(ch) \/ CreateConversation(ch) \/ ClearFlag(ch)
  <2>1. handler'[ch].at
          \in {"idle", "create", "store_welcome", "clear_flag", "confirm"}
    BY <1>1, <1>6 DEF Deactivate, CreateConversation, ClearFlag,
                      Goto, End, Idle, Handler
  <2> QED
    BY <2>1, NotInMessage DEF InMessage, InLoop, AfterLoop
<1> QED
  BY <1>2, <1>3, <1>4, <1>5, <1>6

LEMMA FindSessionKeeps ==
  ASSUME NEW ch \in Chats, TypeOK, FindSession(ch)
  PROVE  MessageInv(ch)'
<1>1. handler \in [Chats -> Handler] /\ handler[ch] \in Handler
  BY DEF TypeOK
<1>2. UNCHANGED << conversations, received >>
  BY DEF FindSession, Database
<1>3. CASE ActiveIds = {}
  <2>1. handler'[ch].at = "idle"
    BY <1>1, <1>3 DEF FindSession, End, Idle
  <2> QED
    BY <2>1, NotInMessage DEF InMessage, InLoop, AfterLoop
<1>4. CASE ActiveIds # {}
  <2>1. handler'[ch].at = "store_prompt"
    BY <1>1, <1>4 DEF FindSession, Goto, Handler
  <2>2. ActiveIds' # {}
    BY <1>2, <1>4, SameTable
  <2> QED
    BY <2>1, <2>2 DEF MessageInv, InLoop, AfterLoop
<1> QED
  BY <1>3, <1>4

LEMMA StorePromptKeeps ==
  ASSUME NEW ch \in Chats, TypeOK, OnlyNewestIsActive, MessageInv(ch),
         StorePrompt(ch)
  PROVE  MessageInv(ch)'
<1>1. /\ handler \in [Chats -> Handler] /\ handler[ch] \in Handler
      /\ handler[ch].at = "store_prompt"
      /\ conversations' = Appended(<< Message("user", ch) >>)
      /\ received' = received
      /\ "user" \in Roles
  BY DEF TypeOK, StorePrompt, At, Roles
<1>2. handler'[ch].at = "load_history"
  BY <1>1 DEF StorePrompt, Goto, Handler
<1>3. ActiveIds # {}
  BY <1>1 DEF MessageInv, InMessage
<1>4. /\ ActiveIds' # {}
      /\ Active'.messages = Active.messages \o << Message("user", ch) >>
  BY <1>1, <1>3, AppendedActive
<1>5. Active.messages \in Seq(StoredMessage) /\ Len(Active.messages) \in Nat
  BY <1>3, ActiveMessages
<1>6. Message("user", ch) \in StoredMessage
  BY <1>1, MessageType DEF At
<1>7. Message("user", ch)' = Message("user", ch)
  BY <1>1 DEF Message
<1>8. Active'.messages = Append(Active.messages, Message("user", ch))
  BY <1>4, <1>5, <1>6, AppendIsConcat
<1>9. EndsWithPrompt(ch, Active.messages)'
  BY <1>5, <1>6, <1>7, <1>8, AppendProperties DEF EndsWithPrompt
<1> QED
  BY <1>2, <1>4, <1>9 DEF MessageInv, InLoop, AfterLoop

LEMMA LoadHistoryKeeps ==
  ASSUME NEW ch \in Chats, TypeOK, OnlyNewestIsActive, MessageInv(ch),
         LoadHistory(ch)
  PROVE  MessageInv(ch)'
<1>1. /\ handler \in [Chats -> Handler] /\ handler[ch] \in Handler
      /\ handler[ch].at = "load_history"
      /\ UNCHANGED << conversations, received >>
  BY DEF TypeOK, LoadHistory, At, Database
<1>2. ActiveIds # {} /\ EndsWithPrompt(ch, Active.messages)
  BY <1>1 DEF MessageInv, InMessage
<1>3. Active.messages \in Seq(StoredMessage)
  BY <1>2, ActiveMessages
<1>4. Append(HistoryOf(Active.messages), Message("user", ch)) = Active.messages
  BY <1>2, <1>3, HistoryAndLast DEF EndsWithPrompt
<1>5. /\ handler'[ch].at = "thinking"
      /\ handler'[ch].history = HistoryOf(Active.messages)
  BY <1>1, <1>2 DEF LoadHistory, Handler
<1>6. /\ ActiveIds' = ActiveIds /\ Active' = Active
      /\ Message("user", ch)' = Message("user", ch)
  BY <1>1, SameTable
<1> QED
  BY <1>2, <1>4, <1>5, <1>6 DEF MessageInv, AfterLoop

LEMMA AgentKeeps ==
  ASSUME NEW ch \in Chats, TypeOK, MessageInv(ch),
         Think(ch) \/ RunTool(ch) \/ NextTurn(ch)
  PROVE  MessageInv(ch)'
<1>1. /\ handler \in [Chats -> Handler] /\ handler[ch] \in Handler
      /\ handler[ch].at \in InLoop
      /\ UNCHANGED << conversations, received >>
  BY DEF TypeOK, Think, RunTool, NextTurn, At, Database, InLoop
<1>2. handler'[ch].at \in InLoop /\ handler'[ch].history = handler[ch].history
  BY <1>1 DEF Think, RunTool, NextTurn, At, Handler, InLoop
<1>3. /\ ActiveIds' = ActiveIds /\ Active' = Active
      /\ Message("user", ch)' = Message("user", ch)
  BY <1>1, SameTable
<1>4. /\ ActiveIds # {}
      /\ Append(handler[ch].history, Message("user", ch)) = Active.messages
  BY <1>1 DEF MessageInv, InMessage
<1> QED
  BY <1>2, <1>3, <1>4 DEF MessageInv, InLoop, AfterLoop

LEMMA StoreReplyKeeps ==
  ASSUME NEW ch \in Chats, TypeOK, OnlyNewestIsActive, MessageInv(ch),
         StoreReply(ch)
  PROVE  MessageInv(ch)'
<1>1. /\ handler \in [Chats -> Handler] /\ handler[ch] \in Handler
      /\ handler[ch].at = "store_reply"
      /\ received' = received
      /\ {"user", "assistant"} = Roles
  BY DEF TypeOK, StoreReply, At, Roles
<1>2. handler'[ch].at = "count" /\ handler'[ch].reply = handler[ch].reply
  BY <1>1 DEF StoreReply, Goto, Handler
<1>3. /\ ActiveIds # {}
      /\ Append(handler[ch].history, Message("user", ch)) = Active.messages
  BY <1>1 DEF MessageInv, InMessage, InLoop
<1>4. CASE ~ handler[ch].reply
  <2>1. conversations' = conversations
    BY <1>4 DEF StoreReply
  <2>2. ActiveIds' = ActiveIds
    BY <1>1, <2>1, SameTable
  <2> QED
    BY <1>2, <1>3, <1>4, <2>2 DEF MessageInv, InLoop
<1>5. CASE handler[ch].reply
  <2> DEFINE ms == Active.messages
  <2>1. conversations' = Appended(<< Message("assistant", ch) >>)
    BY <1>5 DEF StoreReply
  <2>2. /\ ActiveIds' # {}
        /\ Active'.messages = Active.messages \o << Message("assistant", ch) >>
    BY <1>3, <2>1, AppendedActive
  <2>3. /\ Message("user", ch) \in StoredMessage
        /\ Message("assistant", ch) \in StoredMessage
    BY <1>1, MessageType DEF At
  <2>4. handler[ch].history \in Seq(StoredMessage)
    BY <1>1 DEF Handler
  <2>5. /\ ms \in Seq(StoredMessage)
        /\ Len(ms) = Len(handler[ch].history) + 1
        /\ Len(handler[ch].history) \in Nat
        /\ ms[Len(ms)] = Message("user", ch)
    BY <1>3, <2>3, <2>4, AppendProperties, LenProperties
  <2>6. Active'.messages = Append(ms, Message("assistant", ch))
    BY <2>2, <2>3, <2>5, AppendIsConcat
  <2>7. Len(ms) \in Nat /\ Len(ms) > 0
    BY <2>5
  <2>8. /\ Len(Append(ms, Message("assistant", ch))) = Len(ms) + 1
        /\ Append(ms, Message("assistant", ch))[Len(ms) + 1] = Message("assistant", ch)
        /\ Append(ms, Message("assistant", ch))[Len(ms)] = ms[Len(ms)]
    BY <2>3, <2>5, <2>7, AppendProperties
  <2>9. /\ Message("user", ch)' = Message("user", ch)
        /\ Message("assistant", ch)' = Message("assistant", ch)
    BY <1>1 DEF Message
  <2>10. /\ Len(Active'.messages) = Len(ms) + 1
         /\ Active'.messages[Len(ms) + 1] = Message("assistant", ch)
         /\ Active'.messages[Len(ms)] = Message("user", ch)
    BY <2>5, <2>6, <2>8
  <2> HIDE DEF ms
  <2>11. EndsWithReply(ch, Active.messages)'
    BY <2>7, <2>9, <2>10 DEF EndsWithReply
  <2> QED
    BY <1>2, <2>2, <2>11 DEF MessageInv, InLoop
<1> QED
  BY <1>4, <1>5

LEMMA CountKeeps ==
  ASSUME NEW ch \in Chats, TypeOK, OnlyNewestIsActive, MessageInv(ch),
         CountMessages(ch)
  PROVE  MessageInv(ch)'
<1>1. /\ handler \in [Chats -> Handler] /\ handler[ch] \in Handler
      /\ handler[ch].at = "count"
      /\ UNCHANGED << conversations, received >>
  BY DEF TypeOK, CountMessages, At, Database
<1>2. ActiveIds # {} /\ (handler[ch].reply => EndsWithReply(ch, Active.messages))
  BY <1>1 DEF MessageInv, InMessage, AfterLoop
<1>3. Len(Active.messages) \in Nat /\ Keep \in Nat
  BY <1>2, ActiveMessages, BoundsAssumption
<1>4. /\ handler'[ch].reply = handler[ch].reply
      /\ handler'[ch].at = IF Len(Active.messages) > Keep THEN "trim" ELSE "send_reply"
  BY <1>1, <1>2 DEF CountMessages, Goto, Handler
<1>5. /\ ActiveIds' = ActiveIds /\ Active' = Active
      /\ Message("user", ch)' = Message("user", ch)
      /\ Message("assistant", ch)' = Message("assistant", ch)
  BY <1>1, SameTable
<1>6. handler[ch].reply => EndsWithReply(ch, Active.messages)'
  BY <1>2, <1>5 DEF EndsWithReply
<1> QED
  BY <1>2, <1>3, <1>4, <1>5, <1>6 DEF MessageInv, InLoop

LEMMA TrimKeeps ==
  ASSUME NEW ch \in Chats, TypeOK, OnlyNewestIsActive, MessageInv(ch),
         TrimToRecent(ch)
  PROVE  MessageInv(ch)'
<1>1. /\ handler \in [Chats -> Handler] /\ handler[ch] \in Handler
      /\ handler[ch].at = "trim"
      /\ received' = received
      /\ conversations' = Trimmed
  BY DEF TypeOK, TrimToRecent, At
<1>2. /\ ActiveIds # {} /\ Len(Active.messages) > Keep
      /\ handler[ch].reply => EndsWithReply(ch, Active.messages)
  BY <1>1 DEF MessageInv, InMessage, AfterLoop
<1>3. Active.messages \in Seq(StoredMessage) /\ Keep \in Nat /\ Keep >= 2
  BY <1>2, ActiveMessages, BoundsAssumption
<1>4. handler'[ch].at = "send_reply" /\ handler'[ch].reply = handler[ch].reply
  BY <1>1 DEF TrimToRecent, Goto, Handler
<1>5. ActiveIds' # {} /\ Active'.messages = LastOf(Active.messages, Keep)
  BY <1>1, <1>2, TrimmedActive
<1> DEFINE t == Active'.messages
           s == Active.messages
<1>6. Len(t) = Keep /\ t[Len(t)] = s[Len(s)] /\ t[Len(t) - 1] = s[Len(s) - 1]
  BY <1>2, <1>3, <1>5, LastTwoAreKept
<1> HIDE DEF t, s
<1>7. /\ Message("user", ch)' = Message("user", ch)
      /\ Message("assistant", ch)' = Message("assistant", ch)
  BY <1>1 DEF Message
<1>8. handler[ch].reply => EndsWithReply(ch, Active.messages)'
  BY <1>2, <1>3, <1>6, <1>7 DEF EndsWithReply, t, s
<1>9. Len(Active'.messages) <= Keep
  BY <1>3, <1>6 DEF t
<1> QED
  BY <1>4, <1>5, <1>8, <1>9 DEF MessageInv, InLoop

LEMMA MessageNext ==
  ASSUME NEW ch, Chats = {ch}
  PROVE  TypeOK /\ OnlyNewestIsActive /\ MessageInv(ch) /\ [ProcessNext]_processVars
           => MessageInv(ch)'
<1> SUFFICES ASSUME TypeOK, OnlyNewestIsActive, MessageInv(ch),
                    [ProcessNext]_processVars
             PROVE  MessageInv(ch)'
  OBVIOUS
<1>1. CASE UNCHANGED vars
  <2>1. UNCHANGED << conversations, received, handler >>
    BY <1>1 DEF vars
  <2>2. /\ ActiveIds' = ActiveIds /\ Active' = Active
        /\ Message("user", ch)' = Message("user", ch)
        /\ Message("assistant", ch)' = Message("assistant", ch)
    BY <2>1, SameTable
  <2> QED
    BY <2>1, <2>2 DEF MessageInv, EndsWithPrompt, EndsWithReply
<1>2. CASE Crash
  BY <1>2, CrashKeeps, NotInMessage DEF InMessage, InLoop, AfterLoop
<1>3. ASSUME OwnStep(ch) PROVE MessageInv(ch)'
  BY <1>3, StepsOutsideMessages, FindSessionKeeps, StorePromptKeeps,
     LoadHistoryKeeps, AgentKeeps, StoreReplyKeeps, CountKeeps, TrimKeeps DEF OwnStep
<1>4. CASE Next
  BY <1>3, <1>4, StepsOutsideMessages, AgentKeeps DEF Next
<1> QED
  BY <1>1, <1>2, <1>4, ProcessSteps

LEMMA MessageAlways ==
  ASSUME NEW ch, Chats = {ch}
  PROVE  ProcessSpec => [](PromptAppearsOnce /\ ReplyIsKept)
<1>1. ProcessInit => MessageInv(ch)
  BY NotInMessage DEF ProcessInit, Init, MessageInv, InMessage, InLoop, AfterLoop, Idle
<1>2. TypeOK /\ OnlyNewestIsActive /\ MessageInv(ch) /\ [ProcessNext]_processVars
        => MessageInv(ch)'
  BY MessageNext
<1>3. TypeOK /\ MessageInv(ch) => PromptAppearsOnce /\ ReplyIsKept
  BY MessageProperties
<1> QED
  BY <1>1, <1>2, <1>3, ProcessSession, PTL DEF ProcessSpec

(* With one chat the model is never shown the prompt twice and never less  *)
(* than what was kept, whatever crashes left behind.                       *)
THEOREM PromptIsNotHistory ==
  ASSUME NEW ch, Chats = {ch}
  PROVE  ProcessSpec => []PromptAppearsOnce
  BY MessageAlways, PTL

(* With one chat the reply that is sent has been kept after its prompt,    *)
(* and the conversation is within its bound, whatever crashes left behind. *)
THEOREM ReplyIsStored ==
  ASSUME NEW ch, Chats = {ch}
  PROVE  ProcessSpec => []ReplyIsKept
  BY MessageAlways, PTL

=============================================================================
