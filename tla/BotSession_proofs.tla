-------------------------- MODULE BotSession_proofs --------------------------
(***************************************************************************)
(* What the bot's handlers keep true for any number of chats, policies and *)
(* updates, any length kept and any bound on the agent's loop.             *)
(***************************************************************************)
EXTENDS BotSession, SequenceTheorems, FiniteSetTheorems, TLAPS

-----------------------------------------------------------------------------
(* What each step does to the conversations.                               *)

Created(ch) ==
  /\ ActiveIds = {}
  /\ conversations' = Append(conversations,
       [active |-> TRUE, messages |-> << >>, by |-> ch, born |-> received])

(* The five things a step can do to the table conversations.               *)
ConversationsStep ==
  \/ UNCHANGED conversations
  \/ \E ch \in Chats, role \in Roles :
       /\ ~ At(ch, "idle")
       /\ conversations' = Appended(<< Message(role, ch) >>)
  \/ conversations' = Trimmed
  \/ conversations' = AllInactive
  \/ \E ch \in Chats : Created(ch)

LEMMA ConversationsSteps == [Next]_vars => ConversationsStep
<1> SUFFICES ASSUME [Next]_vars PROVE ConversationsStep
  OBVIOUS
<1>1. CASE UNCHANGED vars
  BY <1>1 DEF vars, ConversationsStep
<1>2. ASSUME NEW ch \in Chats,
             \/ \E kind \in Kinds : Receive(ch, kind)
             \/ Think(ch)
             \/ RunTool(ch)
             \/ Abort(ch)
      PROVE  ConversationsStep
  BY <1>2 DEF Receive, Think, RunTool, Abort, Database, ConversationsStep
<1>3. ASSUME NEW ch \in Chats, OwnStep(ch)
      PROVE  ConversationsStep
  <2>1. CASE \/ FindUser(ch)      \/ CreateUser(ch)   \/ ListPolicies(ch)
             \/ DeletePolicy(ch)  \/ PoliciesDeleted(ch)
             \/ ClearFlag(ch)     \/ Confirm(ch)      \/ FindSession(ch)
             \/ LoadHistory(ch)   \/ NextTurn(ch)
             \/ CountMessages(ch) \/ SendReply(ch)
    BY <2>1 DEF FindUser, CreateUser, ListPolicies, DeletePolicy, PoliciesDeleted,
                ClearFlag, Confirm, FindSession, LoadHistory, NextTurn,
                CountMessages, SendReply, Database, ConversationsStep
  <2>2. CASE Deactivate(ch)
    BY <2>2 DEF Deactivate, ConversationsStep
  <2>3. CASE CreateConversation(ch)
    BY <2>3 DEF CreateConversation, Insertable, Created, ConversationsStep
  <2>4. CASE StoreWelcome(ch)
    <3>1. ~ At(ch, "idle") /\ "assistant" \in Roles
      BY <2>4 DEF StoreWelcome, At, Roles
    <3> QED
      BY <2>4, <3>1 DEF StoreWelcome, ConversationsStep
  <2>5. CASE StorePrompt(ch)
    <3>1. ~ At(ch, "idle") /\ "user" \in Roles
      BY <2>5 DEF StorePrompt, At, Roles
    <3> QED
      BY <2>5, <3>1 DEF StorePrompt, ConversationsStep
  <2>6. CASE StoreReply(ch)
    <3>1. ~ At(ch, "idle") /\ "assistant" \in Roles
      BY <2>6 DEF StoreReply, At, Roles
    <3> QED
      BY <2>6, <3>1 DEF StoreReply, ConversationsStep
  <2>7. CASE TrimToRecent(ch)
    BY <2>7 DEF TrimToRecent, ConversationsStep
  <2> QED
    BY <1>3, <2>1, <2>2, <2>3, <2>4, <2>5, <2>6, <2>7 DEF OwnStep
<1> QED
  BY <1>1, <1>2, <1>3 DEF Next

-----------------------------------------------------------------------------
(* The type invariant.                                                     *)

(* A table with the rows at the same places is a sequence of rows again,   *)
(* of the same length.                                                     *)
LEMMA RewrittenRows ==
  ASSUME TypeOK, NEW table, DOMAIN table = DOMAIN conversations,
         table = [i \in DOMAIN conversations |-> table[i]],
         \A i \in DOMAIN conversations : table[i] \in ConversationRow
  PROVE  table \in Seq(ConversationRow) /\ Len(table) = Len(conversations)
<1>1. /\ Len(conversations) \in Nat
      /\ DOMAIN conversations = 1 .. Len(conversations)
  BY LenProperties DEF TypeOK
<1>2. table \in [1 .. Len(conversations) -> ConversationRow]
  BY <1>1
<1>3. table \in Seq(ConversationRow)
  BY <1>1, <1>2, SeqDef
<1>4. Len(table) \in Nat /\ DOMAIN table = 1 .. Len(table)
  BY <1>3, LenProperties
<1> QED
  BY <1>1, <1>3, <1>4

LEMMA RowsHaveTypes ==
  ASSUME TypeOK, NEW i \in DOMAIN conversations
  PROVE  /\ conversations[i] \in ConversationRow
         /\ conversations[i].messages \in Seq(StoredMessage)
         /\ Len(conversations[i].messages) \in Nat
<1>1. DOMAIN conversations = 1 .. Len(conversations)
  BY LenProperties DEF TypeOK
<1>2. conversations[i] \in ConversationRow
  BY <1>1, ElementOfSeq DEF TypeOK
<1>3. conversations[i].messages \in Seq(StoredMessage)
  BY <1>2 DEF ConversationRow
<1> QED
  BY <1>2, <1>3, LenProperties

LEMMA MessageType ==
  ASSUME TypeOK, NEW ch \in Chats, NEW role \in Roles, ~ At(ch, "idle")
  PROVE  Message(role, ch) \in StoredMessage
<1>1. received[ch] \in 1 .. MaxUpdates
  BY BoundsAssumption DEF TypeOK
<1> QED
  BY <1>1 DEF Message, StoredMessage, Updates

(* The last messages of a sequence are a sequence.                         *)
LEMMA LastOfType ==
  ASSUME NEW S, NEW s \in Seq(S), NEW n \in Nat
  PROVE  /\ LastOf(s, n) \in Seq(S)
         /\ Len(s) > n => Len(LastOf(s, n)) = n
<1>1. Len(s) \in Nat
  BY LenProperties
<1>2. CASE Len(s) > n
  <2>1. Len(s) - n + 1 \in Int /\ Len(s) - n + 1 <= Len(s) + 1
    BY <1>1
  <2>2. \A i \in Len(s) - n + 1 .. Len(s) : s[i] \in S
    <3> SUFFICES ASSUME NEW i \in Len(s) - n + 1 .. Len(s) PROVE s[i] \in S
      OBVIOUS
    <3>1. i \in 1 .. Len(s)
      BY <1>1, <1>2
    <3> QED
      BY <3>1, ElementOfSeq
  <2>3. /\ SubSeq(s, Len(s) - n + 1, Len(s)) \in Seq(S)
        /\ Len(SubSeq(s, Len(s) - n + 1, Len(s)))
             = IF Len(s) - n + 1 <= Len(s)
                 THEN Len(s) - (Len(s) - n + 1) + 1 ELSE 0
    BY <1>1, <2>1, <2>2, SubSeqProperties
  <2> QED
    BY <1>1, <1>2, <2>3 DEF LastOf
<1>3. CASE ~ (Len(s) > n)
  BY <1>1, <1>3 DEF LastOf
<1> QED
  BY <1>2, <1>3

(* The statements that rewrite messages or flags keep rows where they are. *)
LEMMA AppendedRows ==
  ASSUME TypeOK, NEW m \in StoredMessage
  PROVE  /\ Appended(<< m >>) \in Seq(ConversationRow)
         /\ Len(Appended(<< m >>)) = Len(conversations)
<1>1. ASSUME NEW i \in DOMAIN conversations
      PROVE  Appended(<< m >>)[i] \in ConversationRow
  <2>1. /\ conversations[i] \in ConversationRow
        /\ conversations[i].messages \in Seq(StoredMessage)
    BY <1>1, RowsHaveTypes
  <2>2. << m >> \in Seq(StoredMessage)
    OBVIOUS
  <2>3. conversations[i].messages \o << m >> \in Seq(StoredMessage)
    BY <2>1, <2>2, ConcatProperties
  <2> QED
    BY <1>1, <2>1, <2>3 DEF Appended, ConversationRow
<1>2. /\ DOMAIN Appended(<< m >>) = DOMAIN conversations
      /\ Appended(<< m >>)
           = [i \in DOMAIN conversations |-> Appended(<< m >>)[i]]
  BY DEF Appended
<1> HIDE DEF Appended
<1> QED
  BY <1>1, <1>2, RewrittenRows

LEMMA TrimmedRows ==
  ASSUME TypeOK
  PROVE  Trimmed \in Seq(ConversationRow) /\ Len(Trimmed) = Len(conversations)
<1>1. ASSUME NEW i \in DOMAIN conversations
      PROVE  Trimmed[i] \in ConversationRow
  <2>1. /\ conversations[i] \in ConversationRow
        /\ conversations[i].messages \in Seq(StoredMessage)
    BY <1>1, RowsHaveTypes
  <2>2. LastOf(conversations[i].messages, Keep) \in Seq(StoredMessage)
    BY <2>1, LastOfType, BoundsAssumption
  <2> QED
    BY <1>1, <2>1, <2>2 DEF Trimmed, ConversationRow
<1>2. /\ DOMAIN Trimmed = DOMAIN conversations
      /\ Trimmed = [i \in DOMAIN conversations |-> Trimmed[i]]
  BY DEF Trimmed
<1> QED
  BY <1>1, <1>2, RewrittenRows

LEMMA AllInactiveRows ==
  ASSUME TypeOK
  PROVE  /\ AllInactive \in Seq(ConversationRow)
         /\ Len(AllInactive) = Len(conversations)
<1>1. ASSUME NEW i \in DOMAIN conversations
      PROVE  AllInactive[i] \in ConversationRow
  BY <1>1, RowsHaveTypes DEF AllInactive, ConversationRow
<1>2. /\ DOMAIN AllInactive = DOMAIN conversations
      /\ AllInactive = [i \in DOMAIN conversations |-> AllInactive[i]]
  BY DEF AllInactive
<1> QED
  BY <1>1, <1>2, RewrittenRows

LEMMA CreatedRows ==
  ASSUME TypeOK, NEW ch \in Chats, Created(ch)
  PROVE  /\ conversations' \in Seq(ConversationRow)
         /\ Len(conversations') = Len(conversations) + 1
         /\ \A i \in DOMAIN conversations : conversations'[i] = conversations[i]
         /\ DOMAIN conversations' = 1 .. Len(conversations) + 1
<1> DEFINE row == [active |-> TRUE, messages |-> << >>, by |-> ch, born |-> received]
<1>1. row \in ConversationRow
  BY DEF TypeOK, ConversationRow
<1>2. conversations \in Seq(ConversationRow)
  BY DEF TypeOK
<1>3. /\ Append(conversations, row) \in Seq(ConversationRow)
      /\ Len(Append(conversations, row)) = Len(conversations) + 1
      /\ \A i \in 1 .. Len(conversations) :
           Append(conversations, row)[i] = conversations[i]
  BY <1>1, <1>2, AppendProperties
<1>4. DOMAIN conversations = 1 .. Len(conversations)
  BY <1>2, LenProperties
<1>5. conversations' = Append(conversations, row)
  BY DEF Created
<1> QED
  BY <1>3, <1>4, <1>5, LenProperties

LEMMA ConversationsTypes ==
  ASSUME TypeOK, ConversationsStep
  PROVE  conversations' \in Seq(ConversationRow)
<1>1. CASE UNCHANGED conversations
  BY <1>1 DEF TypeOK
<1>2. ASSUME NEW ch \in Chats, NEW role \in Roles, ~ At(ch, "idle"),
             conversations' = Appended(<< Message(role, ch) >>)
      PROVE  conversations' \in Seq(ConversationRow)
  <2>1. Message(role, ch) \in StoredMessage
    BY <1>2, MessageType
  <2> QED
    BY <1>2, <2>1, AppendedRows
<1>3. CASE conversations' = Trimmed
  BY <1>3, TrimmedRows
<1>4. CASE conversations' = AllInactive
  BY <1>4, AllInactiveRows
<1>5. ASSUME NEW ch \in Chats, Created(ch)
      PROVE  conversations' \in Seq(ConversationRow)
  BY <1>5, CreatedRows
<1> QED
  BY <1>1, <1>2, <1>3, <1>4, <1>5 DEF ConversationsStep

(* A step that puts one handler where it may be keeps the types.           *)
LEMMA HandlerStep ==
  ASSUME TypeOK, NEW ch \in Chats, NEW h \in Handler,
         handler' = [handler EXCEPT ![ch] = h],
         conversations' \in Seq(ConversationRow),
         policies' \in [PolicyIds -> {"unused", "active", "inactive"}],
         received' \in [Chats -> 0 .. MaxUpdates],
         \A d \in Chats : received'[d] >= received[d],
         h.at # "idle" => received'[ch] > 0,
         registered' \in BOOLEAN, registered => registered',
         h.at \notin {"idle", "find_user", "create_user"} => registered'
  PROVE  TypeOK'
<1>1. handler' \in [Chats -> Handler]
  BY DEF TypeOK
<1>2. \A d \in Chats : handler'[d] = IF d = ch THEN h ELSE handler[d]
  BY DEF TypeOK
<1>3. \A d \in Chats : ~ At(d, "idle")' => received'[d] > 0
  <2> SUFFICES ASSUME NEW d \in Chats, ~ At(d, "idle")' PROVE received'[d] > 0
    OBVIOUS
  <2>1. CASE d = ch
    BY <1>2, <2>1 DEF At
  <2>2. CASE d # ch
    <3>1. handler[d].at # "idle"
      BY <1>2, <2>2 DEF At
    <3>2. received[d] > 0
      BY <3>1 DEF TypeOK, At
    <3>3. received[d] \in 0 .. MaxUpdates /\ received'[d] \in 0 .. MaxUpdates
      BY DEF TypeOK
    <3> QED
      BY <3>2, <3>3, BoundsAssumption
  <2> QED
    BY <2>1, <2>2
<1>4. \A d \in Chats : handler'[d].at \notin {"idle", "find_user", "create_user"}
                        => registered'
  BY <1>2 DEF TypeOK
<1> QED
  BY <1>1, <1>3, <1>4 DEF TypeOK

LEMMA IdleType == Idle \in Handler
<1>1. << >> \in Seq(StoredMessage)
  BY EmptySeq
<1> QED
  BY <1>1, BoundsAssumption DEF Idle, Handler, Places, Kinds

(* The two ways most steps treat their handler.                            *)
LEMMA GotoStep ==
  ASSUME TypeOK, NEW ch \in Chats, NEW place \in Places,
         Goto(ch, place), ~ At(ch, "idle"),
         conversations' \in Seq(ConversationRow), UNCHANGED << policies, received >>,
         registered' \in BOOLEAN, registered => registered',
         place \notin {"idle", "find_user", "create_user"} => registered'
  PROVE  TypeOK'
<1> DEFINE h == [handler[ch] EXCEPT !.at = place]
<1>1. h \in Handler /\ h.at = place
  BY DEF TypeOK, Handler
<1>2. handler' = [handler EXCEPT ![ch] = h]
  BY DEF Goto
<1>3. /\ received' \in [Chats -> 0 .. MaxUpdates]
      /\ \A d \in Chats : received'[d] >= received[d]
      /\ received'[ch] > 0
      /\ policies' \in [PolicyIds -> {"unused", "active", "inactive"}]
  BY BoundsAssumption DEF TypeOK
<1> HIDE DEF h
<1> QED
  BY <1>1, <1>2, <1>3, HandlerStep

LEMMA EndStep ==
  ASSUME TypeOK, NEW ch \in Chats, End(ch),
         conversations' \in Seq(ConversationRow), UNCHANGED << policies, received >>,
         registered' \in BOOLEAN, registered => registered'
  PROVE  TypeOK'
<1>1. Idle \in Handler /\ Idle.at = "idle"
  BY IdleType DEF Idle
<1>2. /\ received' \in [Chats -> 0 .. MaxUpdates]
      /\ \A d \in Chats : received'[d] >= received[d]
      /\ policies' \in [PolicyIds -> {"unused", "active", "inactive"}]
  BY BoundsAssumption DEF TypeOK
<1>3. handler' = [handler EXCEPT ![ch] = Idle]
  BY DEF End
<1> QED
  BY <1>1, <1>2, <1>3, HandlerStep

LEMMA HistoryType ==
  ASSUME NEW S, NEW s \in Seq(S)
  PROVE  HistoryOf(s) \in Seq(S)
<1>1. CASE s = << >>
  BY <1>1, EmptySeq DEF HistoryOf
<1>2. CASE s # << >>
  <2>1. Len(s) \in Nat
    BY LenProperties
  <2>2. \A i \in 1 .. Len(s) - 1 : s[i] \in S
    <3> SUFFICES ASSUME NEW i \in 1 .. Len(s) - 1 PROVE s[i] \in S
      OBVIOUS
    <3>1. i \in 1 .. Len(s)
      BY <2>1
    <3> QED
      BY <3>1, ElementOfSeq
  <2>3. SubSeq(s, 1, Len(s) - 1) \in Seq(S)
    BY <2>1, <2>2, SubSeqProperties
  <2> QED
    BY <1>2, <2>3 DEF HistoryOf
<1> QED
  BY <1>1, <1>2

(* The steps of a handler that move on or end, and store at most in the    *)
(* table conversations.                                                    *)
LEMMA PlainSteps ==
  ASSUME TypeOK, [Next]_vars, NEW ch \in Chats,
         \/ FindUser(ch)     \/ CreateUser(ch)         \/ PoliciesDeleted(ch)
         \/ Deactivate(ch)   \/ CreateConversation(ch) \/ StoreWelcome(ch)
         \/ ClearFlag(ch)    \/ Confirm(ch)            \/ FindSession(ch)
         \/ StorePrompt(ch)  \/ StoreReply(ch)         \/ CountMessages(ch)
         \/ TrimToRecent(ch) \/ SendReply(ch)          \/ Abort(ch)
  PROVE  TypeOK'
<1>1. conversations' \in Seq(ConversationRow)
  BY ConversationsSteps, ConversationsTypes
<1>2. /\ registered \in BOOLEAN
      /\ handler[ch].kind \in Kinds
      /\ handler[ch].at \notin {"idle", "find_user", "create_user"} => registered
  BY DEF TypeOK, Handler
<1>3. CASE FindUser(ch)
  <2>1. UNCHANGED << registered, conversations, policies, received >>
    BY <1>3 DEF FindUser, Database
  <2>2. \/ End(ch)
        \/ ~ registered /\ Goto(ch, "create_user")
        \/ registered /\ \E place \in {"deactivate", "list_policies", "find_session"} :
             Goto(ch, place)
    BY <1>2, <1>3 DEF FindUser, Kinds
  <2>3. ~ At(ch, "idle")
    BY <1>3 DEF FindUser, At
  <2>4. {"create_user", "deactivate", "list_policies", "find_session"} \subseteq Places
    BY DEF Places
  <2>5. CASE End(ch)
    BY <1>1, <1>2, <2>1, <2>5, EndStep
  <2>6. CASE Goto(ch, "create_user")
    BY <1>1, <1>2, <2>1, <2>3, <2>4, <2>6, GotoStep
  <2>7. ASSUME NEW place \in {"deactivate", "list_policies", "find_session"},
               registered, Goto(ch, place)
        PROVE  TypeOK'
    BY <1>1, <1>2, <2>1, <2>3, <2>4, <2>7, GotoStep
  <2> QED
    BY <2>2, <2>5, <2>6, <2>7
<1>4. CASE CreateUser(ch)
  <2>1. /\ End(ch) \/ Goto(ch, "deactivate")
        /\ registered' = TRUE
        /\ ~ At(ch, "idle")
        /\ UNCHANGED << policies, received >>
    BY <1>4 DEF CreateUser, At
  <2>2. "deactivate" \in Places
    BY DEF Places
  <2> QED
    BY <1>1, <2>1, <2>2, GotoStep, EndStep
<1>5. CASE Abort(ch)
  BY <1>1, <1>2, <1>5, EndStep DEF Abort, Database
<1>6. CASE ~ (FindUser(ch) \/ CreateUser(ch) \/ Abort(ch))
  <2>1. /\ \/ End(ch)
           \/ \E place \in {"deactivate", "create", "store_welcome", "clear_flag",
                            "confirm", "store_prompt", "load_history", "count",
                            "trim", "send_reply"} : Goto(ch, place)
        /\ handler[ch].at \notin {"idle", "find_user", "create_user"}
        /\ UNCHANGED << registered, policies, received >>
    BY <1>6 DEF PoliciesDeleted, Deactivate, CreateConversation, StoreWelcome,
                ClearFlag, Confirm, FindSession, StorePrompt, StoreReply,
                CountMessages, TrimToRecent, SendReply, At, Database
  <2>2. CASE End(ch)
    BY <1>1, <1>2, <2>1, <2>2, EndStep
  <2>3. ASSUME NEW place \in {"deactivate", "create", "store_welcome", "clear_flag",
                              "confirm", "store_prompt", "load_history", "count",
                              "trim", "send_reply"},
               Goto(ch, place)
        PROVE  TypeOK'
    <3>1. place \in Places /\ ~ At(ch, "idle") /\ registered
      BY <1>2, <2>1 DEF Places, At
    <3> QED
      BY <1>1, <2>1, <2>3, <3>1, GotoStep
  <2> QED
    BY <2>1, <2>2, <2>3
<1> QED
  BY <1>3, <1>4, <1>5, <1>6

(* The steps that change something else of their handler.                  *)
LEMMA OtherSteps ==
  ASSUME TypeOK, [Next]_vars, NEW ch \in Chats,
         \/ \E kind \in Kinds : Receive(ch, kind)
         \/ ListPolicies(ch)  \/ DeletePolicy(ch)  \/ LoadHistory(ch)
         \/ Think(ch)         \/ RunTool(ch)       \/ NextTurn(ch)
  PROVE  TypeOK'
<1> DEFINE after(h) == handler' = [handler EXCEPT ![ch] = h]
<1>1. conversations' \in Seq(ConversationRow)
  BY ConversationsSteps, ConversationsTypes
<1>2. /\ registered \in BOOLEAN
      /\ handler[ch] \in Handler
      /\ policies \in [PolicyIds -> {"unused", "active", "inactive"}]
      /\ received \in [Chats -> 0 .. MaxUpdates]
      /\ handler[ch].at # "idle" => received[ch] > 0
      /\ handler[ch].at \notin {"idle", "find_user", "create_user"} => registered
  BY DEF TypeOK, At
<1>3. \A d \in Chats : received[d] >= received[d]
  BY <1>2, BoundsAssumption
<1>4. ASSUME NEW kind \in Kinds, Receive(ch, kind)
      PROVE  TypeOK'
  <2> DEFINE h == [Idle EXCEPT !.at = "find_user", !.kind = kind,
                               !.stood = ActivePolicies]
  <2>1. ActivePolicies \in SUBSET PolicyIds
    BY DEF ActivePolicies
  <2>2. h \in Handler /\ h.at = "find_user"
    BY <2>1, IdleType DEF Handler, Places, Idle
  <2>3. /\ received' \in [Chats -> 0 .. MaxUpdates]
        /\ \A d \in Chats : received'[d] >= received[d]
        /\ received'[ch] > 0
    <3>1. /\ received' = [received EXCEPT ![ch] = @ + 1]
          /\ received[ch] < MaxUpdates
      BY <1>4 DEF Receive
    <3>2. \A d \in Chats : received[d] \in Nat
      BY <1>2, BoundsAssumption
    <3>3. \A d \in Chats : received'[d] = IF d = ch THEN received[d] + 1 ELSE received[d]
      BY <1>2, <3>1
    <3>4. received' \in [Chats -> 0 .. MaxUpdates]
      BY <1>2, <3>1, <3>2, BoundsAssumption
    <3> QED
      BY <3>2, <3>3, <3>4
  <2>4. UNCHANGED << registered, policies >> /\ after(h)
    BY <1>4 DEF Receive
  <2> HIDE DEF h
  <2> QED
    BY <1>1, <1>2, <2>2, <2>3, <2>4, HandlerStep
<1>5. ASSUME NEW h \in Handler, after(h),
             h.at \in {"delete_policies", "thinking", "tools", "store_reply"},
             handler[ch].at \in {"list_policies", "delete_policies",
                                 "load_history", "thinking", "tools"},
             UNCHANGED << registered, received >>,
             policies' \in [PolicyIds -> {"unused", "active", "inactive"}]
      PROVE  TypeOK'
  <2>1. received[ch] > 0 /\ registered
    BY <1>2, <1>5
  <2> QED
    BY <1>1, <1>2, <1>3, <1>5, <2>1, HandlerStep
<1>6. CASE ListPolicies(ch)
  <2> DEFINE h == [handler[ch] EXCEPT !.at = "delete_policies",
                                      !.todo = PoliciesToReset]
  <2>1. h \in Handler /\ h.at = "delete_policies"
    BY <1>2 DEF Handler, Places, PoliciesToReset, ActivePolicies
  <2>2. /\ after(h)
        /\ handler[ch].at = "list_policies"
        /\ UNCHANGED << registered, policies, received >>
    BY <1>6 DEF ListPolicies, At, Database
  <2> HIDE DEF h
  <2> QED
    BY <1>2, <1>5, <2>1, <2>2
<1>7. CASE DeletePolicy(ch)
  <2>1. PICK p \in handler[ch].todo :
          /\ policies' = [policies EXCEPT ![p] = "inactive"]
          /\ handler' = [handler EXCEPT ![ch].todo = @ \ {p}]
    BY <1>7 DEF DeletePolicy
  <2> DEFINE h == [handler[ch] EXCEPT !.todo = @ \ {p}]
  <2>2. /\ handler[ch].at = "delete_policies"
        /\ UNCHANGED << registered, received >>
    BY <1>7 DEF DeletePolicy, At
  <2>3. h \in Handler /\ h.at = "delete_policies"
    BY <1>2, <2>2 DEF Handler
  <2>4. after(h) /\ policies' \in [PolicyIds -> {"unused", "active", "inactive"}]
    BY <1>2, <2>1
  <2> HIDE DEF h
  <2> QED
    BY <1>5, <2>2, <2>3, <2>4
<1>8. CASE LoadHistory(ch)
  <2>1. handler[ch].at = "load_history" /\ UNCHANGED << registered, policies, received >>
    BY <1>8 DEF LoadHistory, At, Database
  <2>2. CASE ActiveIds = {}
    <3>1. End(ch)
      BY <1>8, <2>2 DEF LoadHistory
    <3> QED
      BY <1>1, <1>2, <2>1, <3>1, EndStep
  <2>3. CASE ActiveIds # {}
    <3> DEFINE h == [handler[ch] EXCEPT !.at = "thinking",
                                        !.history = HistoryOf(Active.messages)]
    <3>1. Active.messages \in Seq(StoredMessage)
      BY <2>3, RowsHaveTypes DEF Active, ActiveIds
    <3>2. HistoryOf(Active.messages) \in Seq(StoredMessage)
      BY <3>1, HistoryType
    <3>3. h \in Handler /\ h.at = "thinking"
      BY <1>2, <3>2 DEF Handler, Places
    <3>4. after(h)
      BY <1>8, <2>3 DEF LoadHistory
    <3> HIDE DEF h
    <3> QED
      BY <1>2, <1>5, <2>1, <3>3, <3>4
  <2> QED
    BY <2>2, <2>3
<1>9. CASE Think(ch)
  <2>1. handler[ch].at = "thinking" /\ UNCHANGED << registered, policies, received >>
    BY <1>9 DEF Think, At, Database
  <2>2. ASSUME NEW reply \in BOOLEAN,
               after([handler[ch] EXCEPT !.at = "store_reply", !.reply = reply])
        PROVE  TypeOK'
    <3> DEFINE h == [handler[ch] EXCEPT !.at = "store_reply", !.reply = reply]
    <3>1. h \in Handler /\ h.at = "store_reply"
      BY <1>2 DEF Handler, Places
    <3> HIDE DEF h
    <3> QED
      BY <1>2, <1>5, <2>1, <2>2, <3>1 DEF h
  <2>3. ASSUME NEW n \in 1 .. MaxCalls,
               after([handler[ch] EXCEPT !.at = "tools", !.calls = n])
        PROVE  TypeOK'
    <3> DEFINE h == [handler[ch] EXCEPT !.at = "tools", !.calls = n]
    <3>1. n \in 0 .. MaxCalls
      BY BoundsAssumption
    <3>2. h \in Handler /\ h.at = "tools"
      BY <1>2, <3>1 DEF Handler, Places
    <3> HIDE DEF h
    <3> QED
      BY <1>2, <1>5, <2>1, <2>3, <3>2 DEF h
  <2> QED
    BY <1>9, <2>2, <2>3 DEF Think
<1>10. CASE RunTool(ch)
  <2> DEFINE h == [handler[ch] EXCEPT !.calls = @ - 1]
  <2>1. /\ handler[ch].at = "tools"
        /\ handler[ch].calls > 0
        /\ after(h)
        /\ UNCHANGED << registered, received >>
    BY <1>10 DEF RunTool, At
  <2>2. handler[ch].calls - 1 \in 0 .. MaxCalls
    BY <1>2, <2>1, BoundsAssumption DEF Handler
  <2>3. h \in Handler /\ h.at = "tools"
    BY <1>2, <2>1, <2>2 DEF Handler
  <2>4. policies' \in [PolicyIds -> {"unused", "active", "inactive"}]
    BY <1>2, <1>10 DEF RunTool
  <2> HIDE DEF h
  <2> QED
    BY <1>5, <2>1, <2>3, <2>4
<1>11. CASE NextTurn(ch)
  <2>1. handler[ch].at = "tools" /\ UNCHANGED << registered, policies, received >>
    BY <1>11 DEF NextTurn, At, Database
  <2>2. CASE ~ (handler[ch].turn + 1 < MaxTurns)
    <3>1. PICK reply \in BOOLEAN :
            after([handler[ch] EXCEPT !.at = "store_reply", !.reply = reply])
      BY <1>11, <2>2 DEF NextTurn
    <3> DEFINE h == [handler[ch] EXCEPT !.at = "store_reply", !.reply = reply]
    <3>2. h \in Handler /\ h.at = "store_reply"
      BY <1>2 DEF Handler, Places
    <3>3. after(h)
      BY <3>1
    <3> HIDE DEF h
    <3> QED
      BY <1>2, <1>5, <2>1, <3>2, <3>3
  <2>3. CASE handler[ch].turn + 1 < MaxTurns
    <3> DEFINE h == [handler[ch] EXCEPT !.at = "thinking", !.turn = @ + 1]
    <3>1. handler[ch].turn + 1 \in 0 .. MaxTurns - 1
      BY <1>2, <2>3, BoundsAssumption DEF Handler
    <3>2. h \in Handler /\ h.at = "thinking"
      BY <1>2, <3>1 DEF Handler, Places
    <3>3. after(h)
      BY <1>11, <2>3 DEF NextTurn
    <3> HIDE DEF h
    <3> QED
      BY <1>2, <1>5, <2>1, <3>2, <3>3
  <2> QED
    BY <2>2, <2>3
<1> QED
  BY <1>4, <1>6, <1>7, <1>8, <1>9, <1>10, <1>11

LEMMA TypeInit == Init => TypeOK
<1> SUFFICES ASSUME Init PROVE TypeOK
  OBVIOUS
<1>1. conversations \in Seq(ConversationRow)
  BY EmptySeq DEF Init
<1>2. handler \in [Chats -> Handler]
  BY IdleType DEF Init
<1>3. received \in [Chats -> 0 .. MaxUpdates]
  BY BoundsAssumption DEF Init
<1> QED
  BY <1>1, <1>2, <1>3 DEF Init, TypeOK, At, Idle

LEMMA TypeNext == TypeOK /\ [Next]_vars => TypeOK'
<1> SUFFICES ASSUME TypeOK, [Next]_vars PROVE TypeOK'
  OBVIOUS
<1>1. CASE UNCHANGED vars
  BY <1>1 DEF TypeOK, vars, At
<1>2. ASSUME NEW ch \in Chats,
             \/ \E kind \in Kinds : Receive(ch, kind)
             \/ Think(ch)
             \/ RunTool(ch)
      PROVE  TypeOK'
  BY <1>2, OtherSteps
<1>3. ASSUME NEW ch \in Chats, Abort(ch)
      PROVE  TypeOK'
  BY <1>3, PlainSteps
<1>4. ASSUME NEW ch \in Chats, OwnStep(ch)
      PROVE  TypeOK'
  BY <1>4, PlainSteps, OtherSteps DEF OwnStep
<1> QED
  BY <1>1, <1>2, <1>3, <1>4 DEF Next

(* Every step of a handler keeps the types, and a handler past its first   *)
(* query has a registered user.                                            *)
THEOREM TypeCorrect == Spec => []TypeOK
  BY TypeInit, TypeNext, PTL DEF Spec

-----------------------------------------------------------------------------
(* One conversation in use.  The property is inductive: rows keep their    *)
(* flag unless it is cleared, and one is added only when none is set.      *)

LEMMA NewestNext ==
  TypeOK /\ OnlyNewestIsActive /\ ConversationsStep => OnlyNewestIsActive'
<1> SUFFICES ASSUME TypeOK, OnlyNewestIsActive, ConversationsStep
             PROVE  OnlyNewestIsActive'
  OBVIOUS
<1>1. \A i \in DOMAIN conversations :
        /\ conversations[i] \in ConversationRow
        /\ conversations[i].active => i = Len(conversations)
  BY RowsHaveTypes DEF OnlyNewestIsActive
<1>2. ASSUME Len(conversations') = Len(conversations),
             DOMAIN conversations' = DOMAIN conversations,
             \A i \in DOMAIN conversations :
               conversations'[i].active => conversations[i].active
      PROVE  OnlyNewestIsActive'
  BY <1>1, <1>2 DEF OnlyNewestIsActive
<1>3. CASE UNCHANGED conversations
  BY <1>2, <1>3
<1>4. ASSUME NEW ch \in Chats, NEW role \in Roles, ~ At(ch, "idle"),
             conversations' = Appended(<< Message(role, ch) >>)
      PROVE  OnlyNewestIsActive'
  <2>1. Len(conversations') = Len(conversations)
    BY <1>4, MessageType, AppendedRows
  <2>2. /\ DOMAIN conversations' = DOMAIN conversations
        /\ \A i \in DOMAIN conversations :
             conversations'[i].active => conversations[i].active
    BY <1>1, <1>4 DEF Appended, ConversationRow
  <2> QED
    BY <1>2, <2>1, <2>2
<1>5. CASE conversations' = Trimmed
  <2>1. Len(conversations') = Len(conversations)
    BY <1>5, TrimmedRows
  <2>2. /\ DOMAIN conversations' = DOMAIN conversations
        /\ \A i \in DOMAIN conversations :
             conversations'[i].active => conversations[i].active
    BY <1>1, <1>5 DEF Trimmed, ConversationRow
  <2> QED
    BY <1>2, <2>1, <2>2
<1>6. CASE conversations' = AllInactive
  <2>1. Len(conversations') = Len(conversations)
    BY <1>6, AllInactiveRows
  <2>2. /\ DOMAIN conversations' = DOMAIN conversations
        /\ \A i \in DOMAIN conversations : conversations'[i].active = FALSE
    BY <1>1, <1>6 DEF AllInactive, ConversationRow
  <2> QED
    BY <1>2, <2>1, <2>2
<1>7. ASSUME NEW ch \in Chats, Created(ch)
      PROVE  OnlyNewestIsActive'
  <2>1. /\ Len(conversations') = Len(conversations) + 1
        /\ \A i \in DOMAIN conversations : conversations'[i] = conversations[i]
        /\ DOMAIN conversations' = 1 .. Len(conversations) + 1
    BY <1>7, CreatedRows
  <2>2. /\ DOMAIN conversations = 1 .. Len(conversations)
        /\ Len(conversations) \in Nat
    BY LenProperties DEF TypeOK
  <2>3. \A i \in DOMAIN conversations : ~ conversations[i].active
    BY <1>7 DEF Created, ActiveIds
  <2> QED
    BY <2>1, <2>2, <2>3 DEF OnlyNewestIsActive
<1> QED
  BY <1>3, <1>4, <1>5, <1>6, <1>7 DEF ConversationsStep

(* However /start, /reset and messages of several chats interleave, and    *)
(* wherever they fail, no conversation but the newest is ever in use.      *)
THEOREM OneConversationInUse == Spec => []OnlyNewestIsActive
<1>1. Init => OnlyNewestIsActive
  BY DEF Init, OnlyNewestIsActive
<1>2. TypeOK /\ OnlyNewestIsActive /\ [Next]_vars => OnlyNewestIsActive'
  BY NewestNext, ConversationsSteps
<1> QED
  BY <1>1, <1>2, TypeCorrect, PTL DEF Spec

-----------------------------------------------------------------------------
(* A reset clears what stood when it arrived.                              *)

(* What a reset has done by each of its steps: the policies that stood     *)
(* when it arrived are still there, then all inactive or on its list, then *)
(* all inactive.  Nothing makes an inactive policy active again.           *)
StoodAreCreated(h) == \A p \in h.stood : policies[p] \in {"active", "inactive"}
StoodAreListed(h)  == \A p \in h.stood : policies[p] = "inactive" \/ p \in h.todo
StoodAreCleared(h) == \A p \in h.stood : policies[p] = "inactive"

ResetProgress(h) ==
  /\ h.kind = "reset" /\ h.at \in {"find_user", "list_policies"} => StoodAreCreated(h)
  /\ h.kind = "reset" /\ h.at = "delete_policies" => StoodAreListed(h)
  /\ h.kind = "reset" /\ h.at \in {"deactivate", "create", "clear_flag", "confirm"}
       => StoodAreCleared(h)
  /\ h.at \in {"list_policies", "delete_policies", "clear_flag", "confirm"}
       => h.kind = "reset"
  /\ h.at \in {"create_user", "store_welcome"} => h.kind = "start"
  /\ h.at \in {"deactivate", "create"} => h.kind \in {"start", "reset"}

ResetInv == \A ch \in Chats : ResetProgress(handler[ch])

(* A policy goes from unused to active to inactive, and never back.        *)
PoliciesOnward ==
  \A p \in PolicyIds :
    /\ policies[p] = "inactive" => policies'[p] = "inactive"
    /\ policies[p] = "active" => policies'[p] \in {"active", "inactive"}

LEMMA PoliciesGoOnward == TypeOK /\ [Next]_vars => PoliciesOnward
<1> SUFFICES ASSUME TypeOK, [Next]_vars PROVE PoliciesOnward
  OBVIOUS
<1>1. policies \in [PolicyIds -> {"unused", "active", "inactive"}]
  BY DEF TypeOK
<1>2. CASE UNCHANGED policies
  BY <1>1, <1>2 DEF PoliciesOnward
<1>3. ASSUME NEW ch \in Chats, DeletePolicy(ch)
      PROVE  PoliciesOnward
  BY <1>1, <1>3 DEF DeletePolicy, PoliciesOnward
<1>4. ASSUME NEW ch \in Chats, RunTool(ch)
      PROVE  PoliciesOnward
  BY <1>1, <1>2, <1>4 DEF RunTool, PoliciesOnward
<1>5. \/ UNCHANGED policies
      \/ \E ch \in Chats : DeletePolicy(ch) \/ RunTool(ch)
  BY DEF Next, vars, OwnStep, Receive, Think, Abort, FindUser, CreateUser,
         ListPolicies, PoliciesDeleted, Deactivate, CreateConversation,
         StoreWelcome, ClearFlag, Confirm, FindSession, StorePrompt, LoadHistory,
         NextTurn, StoreReply, CountMessages, TrimToRecent, SendReply, Database
<1> QED
  BY <1>2, <1>3, <1>4, <1>5

(* A handler that stays as it is keeps its progress.                       *)
LEMMA ProgressKept ==
  ASSUME TypeOK, PoliciesOnward, NEW ch \in Chats, ResetProgress(handler[ch]),
         UNCHANGED handler[ch]
  PROVE  ResetProgress(handler[ch])'
<1>1. handler[ch].stood \subseteq PolicyIds
  BY DEF TypeOK, Handler
<1>2. /\ StoodAreCreated(handler[ch]) => StoodAreCreated(handler[ch])'
      /\ StoodAreListed(handler[ch]) => StoodAreListed(handler[ch])'
      /\ StoodAreCleared(handler[ch]) => StoodAreCleared(handler[ch])'
  BY <1>1 DEF StoodAreCreated, StoodAreListed, StoodAreCleared, PoliciesOnward
<1> QED
  BY <1>2 DEF ResetProgress

(* A handler that has nothing to do with a reset has nothing to show.      *)
LEMMA NoProgressDue ==
  ASSUME NEW ch \in Chats,
         \/ handler'[ch].at \in {"idle", "find_session", "store_prompt",
                                 "load_history", "thinking", "tools",
                                 "store_reply", "count", "trim", "send_reply"}
         \/ /\ handler'[ch].at \in {"create_user", "deactivate"}
            /\ handler'[ch].kind = "start"
  PROVE  ResetProgress(handler[ch])'
  BY DEF ResetProgress

LEMMA ResetNext == TypeOK /\ ResetInv /\ [Next]_vars => ResetInv'
<1> SUFFICES ASSUME TypeOK, ResetInv, [Next]_vars, NEW ch \in Chats
             PROVE  ResetProgress(handler[ch])'
  BY DEF ResetInv
<1>1. PoliciesOnward
  BY PoliciesGoOnward
<1>2. /\ handler[ch] \in Handler
      /\ DOMAIN handler = Chats
      /\ policies \in [PolicyIds -> {"unused", "active", "inactive"}]
      /\ registered \in BOOLEAN
      /\ ResetProgress(handler[ch])
  BY DEF TypeOK, ResetInv
<1>3. handler[ch].stood \subseteq PolicyIds /\ handler[ch].kind \in Kinds
  BY <1>2 DEF Handler
<1>4. CASE UNCHANGED handler[ch]
  BY <1>1, <1>2, <1>4, ProgressKept
<1>5. ASSUME NEW d \in Chats, d # ch,
             \/ \E kind \in Kinds : Receive(d, kind)
             \/ OwnStep(d) \/ Think(d) \/ RunTool(d) \/ Abort(d)
      PROVE  UNCHANGED handler[ch]
  BY <1>2, <1>5 DEF OwnStep, Receive, Think, RunTool, Abort, FindUser, CreateUser,
       ListPolicies, DeletePolicy, PoliciesDeleted, Deactivate, CreateConversation,
       StoreWelcome, ClearFlag, Confirm, FindSession, StorePrompt, LoadHistory,
       NextTurn, StoreReply, CountMessages, TrimToRecent, SendReply,
       Goto, End, Database, Kinds
<1>6. ASSUME NEW kind \in Kinds, Receive(ch, kind)
      PROVE  ResetProgress(handler[ch])'
  <2>1. /\ handler'[ch].at = "find_user"
        /\ handler'[ch].stood = ActivePolicies
        /\ UNCHANGED policies
    BY <1>2, <1>6 DEF Receive, Idle
  <2>2. \A p \in handler'[ch].stood : policies'[p] = "active"
    BY <2>1 DEF ActivePolicies
  <2> QED
    BY <2>1, <2>2 DEF ResetProgress, StoodAreCreated
<1>7. CASE Think(ch) \/ RunTool(ch) \/ Abort(ch) \/ NextTurn(ch) \/ FindSession(ch)
           \/ StorePrompt(ch) \/ LoadHistory(ch) \/ StoreReply(ch)
           \/ CountMessages(ch) \/ TrimToRecent(ch) \/ SendReply(ch)
           \/ StoreWelcome(ch) \/ Confirm(ch)
  <2>1. CASE \/ Abort(ch)       \/ FindSession(ch)   \/ StorePrompt(ch)
             \/ StoreReply(ch)  \/ CountMessages(ch) \/ TrimToRecent(ch)
             \/ SendReply(ch)   \/ StoreWelcome(ch)  \/ Confirm(ch)
    <3>1. \/ End(ch)
          \/ \E place \in {"store_prompt", "load_history", "count", "trim",
                           "send_reply"} : Goto(ch, place)
      BY <2>1 DEF Abort, FindSession, StorePrompt, StoreReply, CountMessages,
                  TrimToRecent, SendReply, StoreWelcome, Confirm
    <3>2. handler'[ch].at \in {"idle", "store_prompt", "load_history", "count",
                               "trim", "send_reply"}
      BY <1>2, <3>1 DEF Goto, End, Idle, Handler
    <3> QED
      BY <3>2, NoProgressDue
  <2>2. CASE Think(ch)
    <3>1. handler'[ch].at \in {"store_reply", "tools"}
      BY <1>2, <2>2 DEF Think, Handler
    <3> QED
      BY <3>1, NoProgressDue
  <2>3. CASE RunTool(ch)
    <3>1. handler'[ch].at = "tools"
      BY <1>2, <2>3 DEF RunTool, At, Handler
    <3> QED
      BY <3>1, NoProgressDue
  <2>4. CASE NextTurn(ch)
    <3>1. handler'[ch].at \in {"store_reply", "thinking"}
      BY <1>2, <2>4 DEF NextTurn, Handler
    <3> QED
      BY <3>1, NoProgressDue
  <2>5. CASE LoadHistory(ch)
    <3>1. handler'[ch].at \in {"idle", "thinking"}
      BY <1>2, <2>5 DEF LoadHistory, End, Idle, Handler
    <3> QED
      BY <3>1, NoProgressDue
  <2> QED
    BY <1>7, <2>1, <2>2, <2>3, <2>4, <2>5
<1>8. CASE FindUser(ch)
  <2>1. UNCHANGED policies /\ handler[ch].at = "find_user"
    BY <1>8 DEF FindUser, Database, At
  <2>2. CASE handler[ch].kind = "reset" /\ handler'[ch].at = "list_policies"
    <3>1. handler' = [handler EXCEPT ![ch].at = "list_policies"]
      BY <1>2, <1>8, <2>2 DEF FindUser, Goto, End, Idle
    <3>2. StoodAreCreated(handler[ch])
      BY <1>2, <2>1, <2>2 DEF ResetProgress
    <3>3. /\ handler'[ch].stood = handler[ch].stood
          /\ handler'[ch].kind = "reset"
      BY <1>2, <2>2, <3>1 DEF Handler
    <3> QED
      BY <2>1, <2>2, <3>2, <3>3 DEF ResetProgress, StoodAreCreated
  <2>3. CASE ~ (handler[ch].kind = "reset" /\ handler'[ch].at = "list_policies")
    <3>1. \/ handler'[ch].at \in {"idle", "find_session"}
          \/ handler'[ch].at \in {"create_user", "deactivate"} /\ handler'[ch].kind = "start"
      BY <1>2, <1>3, <1>8, <2>3 DEF FindUser, Goto, End, Idle, Kinds, Handler
    <3> QED
      BY <3>1, NoProgressDue
  <2> QED
    BY <2>2, <2>3
<1>9. CASE CreateUser(ch)
  <2>1. handler[ch].at = "create_user"
    BY <1>9 DEF CreateUser, At
  <2>2. handler[ch].kind = "start"
    BY <1>2, <2>1 DEF ResetProgress
  <2>3. \/ handler'[ch].at = "idle"
        \/ handler'[ch].at = "deactivate" /\ handler'[ch].kind = "start"
    BY <1>2, <1>9, <2>2 DEF CreateUser, Goto, End, Idle, Handler
  <2> QED
    BY <2>3, NoProgressDue
<1>10. CASE ListPolicies(ch)
  <2>1. /\ handler[ch].at = "list_policies"
        /\ UNCHANGED policies
        /\ handler'[ch].at = "delete_policies"
        /\ handler'[ch].todo = ActivePolicies
        /\ handler'[ch].stood = handler[ch].stood
        /\ handler'[ch].kind = handler[ch].kind
    BY <1>2, <1>10 DEF ListPolicies, PoliciesToReset, At, Handler, Database
  <2>2. StoodAreCreated(handler[ch]) /\ handler[ch].kind = "reset"
    BY <1>2, <2>1 DEF ResetProgress
  <2>3. StoodAreListed(handler[ch])'
    BY <1>3, <2>1, <2>2 DEF StoodAreCreated, StoodAreListed, ActivePolicies
  <2> QED
    BY <2>1, <2>2, <2>3 DEF ResetProgress
<1>11. CASE DeletePolicy(ch)
  <2>1. PICK p \in handler[ch].todo :
          /\ policies' = [policies EXCEPT ![p] = "inactive"]
          /\ handler' = [handler EXCEPT ![ch].todo = @ \ {p}]
    BY <1>11 DEF DeletePolicy
  <2>2. /\ handler[ch].at = "delete_policies"
        /\ handler'[ch].at = "delete_policies"
        /\ handler'[ch].todo = handler[ch].todo \ {p}
        /\ handler'[ch].stood = handler[ch].stood
        /\ handler'[ch].kind = handler[ch].kind
    BY <1>2, <1>11, <2>1 DEF DeletePolicy, At, Handler
  <2>3. StoodAreListed(handler[ch]) /\ handler[ch].kind = "reset"
    BY <1>2, <2>2 DEF ResetProgress
  <2>4. \A q \in PolicyIds : policies'[q] = IF q = p THEN "inactive" ELSE policies[q]
    BY <1>2, <2>1
  <2>5. StoodAreListed(handler[ch])'
    BY <1>3, <2>2, <2>3, <2>4 DEF StoodAreListed
  <2> QED
    BY <2>2, <2>3, <2>5 DEF ResetProgress
<1>12. CASE PoliciesDeleted(ch)
  <2>1. /\ handler[ch].at = "delete_policies"
        /\ handler[ch].todo = {}
        /\ UNCHANGED policies
        /\ handler'[ch].at = "deactivate"
        /\ handler'[ch].stood = handler[ch].stood
        /\ handler'[ch].kind = handler[ch].kind
    BY <1>2, <1>12 DEF PoliciesDeleted, Goto, At, Handler, Database
  <2>2. StoodAreListed(handler[ch]) /\ handler[ch].kind = "reset"
    BY <1>2, <2>1 DEF ResetProgress
  <2>3. StoodAreCleared(handler[ch])'
    BY <2>1, <2>2 DEF StoodAreListed, StoodAreCleared
  <2> QED
    BY <2>1, <2>2, <2>3 DEF ResetProgress
<1>13. CASE Deactivate(ch) \/ CreateConversation(ch) \/ ClearFlag(ch)
  <2>1. /\ handler[ch].at \in {"deactivate", "create", "clear_flag"}
        /\ UNCHANGED policies
    BY <1>13 DEF Deactivate, CreateConversation, ClearFlag, At, Database
  <2>2. CASE handler'[ch].at = "idle"
    BY <2>2, NoProgressDue
  <2>3. CASE handler'[ch].at # "idle"
    <3>1. /\ handler'[ch].at \in {"create", "store_welcome", "clear_flag", "confirm"}
          /\ handler'[ch].at = "store_welcome" => handler[ch].kind = "start"
          /\ handler'[ch].at = "clear_flag" => handler[ch].kind # "start"
          /\ handler'[ch].at = "confirm" => handler[ch].at = "clear_flag"
          /\ handler'[ch].stood = handler[ch].stood
          /\ handler'[ch].kind = handler[ch].kind
      BY <1>2, <1>13, <2>3
         DEF Deactivate, CreateConversation, ClearFlag, Goto, End, Idle, At, Handler
    <3>2. /\ handler[ch].kind \in {"start", "reset"}
          /\ handler[ch].at = "clear_flag" => handler[ch].kind = "reset"
          /\ handler[ch].kind = "reset" => StoodAreCleared(handler[ch])
      BY <1>2, <2>1 DEF ResetProgress
    <3>3. handler[ch].kind = "reset" => StoodAreCleared(handler[ch])'
      BY <2>1, <3>1, <3>2 DEF StoodAreCleared
    <3> QED
      BY <3>1, <3>2, <3>3 DEF ResetProgress
  <2> QED
    BY <2>2, <2>3
<1>14. CASE UNCHANGED vars
  BY <1>4, <1>14 DEF vars
<1> QED
  BY <1>4, <1>5, <1>6, <1>7, <1>8, <1>9, <1>10, <1>11, <1>12, <1>13, <1>14
     DEF Next, OwnStep

(* When /reset says that the policies are cleared, those that were active  *)
(* when it arrived are, whatever other chats and the agent do meanwhile.   *)
THEOREM ResetClears == Spec => []ResetClearsWhatStood
<1>1. Init => ResetInv
  BY DEF Init, ResetInv, ResetProgress, Idle
<1>2. TypeOK /\ ResetInv /\ [Next]_vars => ResetInv'
  BY ResetNext
<1>3. ResetInv => ResetClearsWhatStood
  BY DEF ResetInv, ResetProgress, StoodAreCleared, ResetClearsWhatStood, At
<1> QED
  BY <1>1, <1>2, <1>3, TypeCorrect, PTL DEF Spec

-----------------------------------------------------------------------------
(* What was said stays said.                                               *)

LEMMA UnchangedIsKept ==
  ASSUME NEW S, NEW s \in Seq(S)
  PROVE  KeptInOrder(s, s)
  BY LenProperties, SubSeqFull DEF KeptInOrder

LEMMA LongerIsKept ==
  ASSUME NEW S, NEW s \in Seq(S), NEW m \in S
  PROVE  KeptInOrder(s, s \o << m >>)
<1>1. << m >> \in Seq(S) /\ Len(<< m >>) = 1
  OBVIOUS
<1>2. Len(s \o << m >>) = Len(s) + 1 /\ Len(s) \in Nat
  BY <1>1, ConcatProperties, LenProperties
<1>3. SubSeq(s \o << m >>, 1, Len(s)) = s
  BY <1>1, <1>2, SubSeqOfConcat1, SubSeqFull
<1> QED
  BY <1>2, <1>3 DEF KeptInOrder

LEMMA TrimmedIsKept ==
  ASSUME NEW S, NEW s \in Seq(S)
  PROVE  KeptInOrder(s, LastOf(s, Keep))
<1>1. CASE Len(s) > Keep
  <2>1. Len(LastOf(s, Keep)) = Keep
    BY <1>1, LastOfType, BoundsAssumption
  <2> QED
    BY <1>1, <2>1 DEF LastOf, KeptInOrder
<1>2. CASE ~ (Len(s) > Keep)
  BY <1>2, UnchangedIsKept DEF LastOf
<1> QED
  BY <1>1, <1>2

LEMMA HistoryKeptNext == TypeOK /\ ConversationsStep => HistoryKept
<1> SUFFICES ASSUME TypeOK, ConversationsStep, NEW i \in DOMAIN conversations
             PROVE  /\ ~ conversations[i].active => conversations'[i] = conversations[i]
                    /\ KeptInOrder(conversations[i].messages,
                                   conversations'[i].messages)
  BY DEF HistoryKept
<1>1. /\ conversations[i] \in ConversationRow
      /\ conversations[i].messages \in Seq(StoredMessage)
  BY RowsHaveTypes
<1>2. KeptInOrder(conversations[i].messages, conversations[i].messages)
  BY <1>1, UnchangedIsKept
<1>3. CASE conversations'[i] = conversations[i]
  BY <1>2, <1>3
<1>4. ASSUME NEW ch \in Chats, NEW role \in Roles, ~ At(ch, "idle"),
             conversations' = Appended(<< Message(role, ch) >>),
             conversations[i].active
      PROVE  KeptInOrder(conversations[i].messages, conversations'[i].messages)
  <2>1. conversations'[i].messages = conversations[i].messages \o << Message(role, ch) >>
    BY <1>1, <1>4 DEF Appended, ConversationRow
  <2>2. Message(role, ch) \in StoredMessage
    BY <1>4, MessageType
  <2>3. KeptInOrder(conversations[i].messages,
                    conversations[i].messages \o << Message(role, ch) >>)
    BY <1>1, <2>2, LongerIsKept
  <2> QED
    BY <2>1, <2>3
<1>5. ASSUME conversations' = Trimmed, conversations[i].active
      PROVE  KeptInOrder(conversations[i].messages, conversations'[i].messages)
  <2>1. conversations'[i].messages = LastOf(conversations[i].messages, Keep)
    BY <1>1, <1>5 DEF Trimmed, ConversationRow
  <2> QED
    BY <1>1, <2>1, TrimmedIsKept
<1>6. CASE conversations' = AllInactive
  <2>1. /\ conversations'[i] = [conversations[i] EXCEPT !.active = FALSE]
        /\ conversations[i].active \in BOOLEAN
    BY <1>1, <1>6 DEF AllInactive, ConversationRow
  <2>2. conversations'[i].messages = conversations[i].messages
    BY <1>1, <2>1 DEF ConversationRow
  <2>3. ~ conversations[i].active => conversations'[i] = conversations[i]
    BY <1>1, <2>1 DEF ConversationRow
  <2> QED
    BY <1>2, <2>2, <2>3
<1>7. ASSUME NEW ch \in Chats, Created(ch)
      PROVE  conversations'[i] = conversations[i]
  BY <1>7, CreatedRows
<1>8. ASSUME ~ conversations[i].active,
             conversations' = Trimmed
             \/ \E ch \in Chats, role \in Roles :
                  conversations' = Appended(<< Message(role, ch) >>)
      PROVE  conversations'[i] = conversations[i]
  BY <1>8 DEF Trimmed, Appended
<1>9. CASE UNCHANGED conversations
  BY <1>3, <1>9
<1> QED
  BY <1>3, <1>4, <1>5, <1>6, <1>7, <1>8, <1>9 DEF ConversationsStep

(* No handler writes to a conversation that was left, and none loses a     *)
(* message of the one in use that trimming must keep.                      *)
THEOREM HistoryIsKept == Spec => ClosedStaysClosed
<1>1. TypeOK /\ [Next]_vars => [HistoryKept]_vars
  BY HistoryKeptNext, ConversationsSteps
<1> QED
  BY <1>1, TypeCorrect, PTL DEF Spec, ClosedStaysClosed

-----------------------------------------------------------------------------
(* Getting on.  The loop of /reset ends because it has finitely many       *)
(* policies to go through: it listed the active ones, and however many a   *)
(* user may create, finitely many are there at any time.                   *)

Used == {p \in PolicyIds : policies[p] # "unused"}

FiniteWork ==
  /\ IsFiniteSet(Used)
  /\ \A ch \in Chats : IsFiniteSet(handler[ch].todo)

(* A step uses one policy at most.                                         *)
LEMMA UsedStep ==
  ASSUME TypeOK, IsFiniteSet(Used), [Next]_vars
  PROVE  IsFiniteSet(Used')
<1>1. CASE UNCHANGED policies
  BY <1>1 DEF Used
<1>2. ASSUME NEW p \in PolicyIds, NEW to, policies' = [policies EXCEPT ![p] = to]
      PROVE  IsFiniteSet(Used')
  <2>1. Used' \subseteq Used \union {p}
    BY <1>2 DEF Used, TypeOK
  <2>2. IsFiniteSet(Used \union {p})
    BY FS_AddElement
  <2> QED
    BY <2>1, <2>2, FS_Subset
<1>3. ASSUME NEW ch \in Chats, DeletePolicy(ch)
      PROVE  IsFiniteSet(Used')
  <2>1. PICK p \in handler[ch].todo : policies' = [policies EXCEPT ![p] = "inactive"]
    BY <1>3 DEF DeletePolicy
  <2>2. p \in PolicyIds
    BY <2>1 DEF TypeOK, Handler
  <2> QED
    BY <1>2, <2>1, <2>2
<1>4. ASSUME NEW ch \in Chats, RunTool(ch)
      PROVE  IsFiniteSet(Used')
  BY <1>1, <1>2, <1>4 DEF RunTool
<1>5. \/ UNCHANGED policies
      \/ \E ch \in Chats : DeletePolicy(ch) \/ RunTool(ch)
  BY DEF Next, vars, OwnStep, Receive, Think, Abort, FindUser, CreateUser,
         ListPolicies, PoliciesDeleted, Deactivate, CreateConversation,
         StoreWelcome, ClearFlag, Confirm, FindSession, StorePrompt, LoadHistory,
         NextTurn, StoreReply, CountMessages, TrimToRecent, SendReply, Database
<1> QED
  BY <1>1, <1>3, <1>4, <1>5

(* The step of one handler leaves the others alone.                        *)
LEMMA OthersStand ==
  ASSUME TypeOK, NEW ch \in Chats, NEW d \in Chats, d # ch,
         \/ \E kind \in Kinds : Receive(d, kind)
         \/ OwnStep(d) \/ Think(d) \/ RunTool(d) \/ Abort(d)
  PROVE  UNCHANGED handler[ch]
BY DEF TypeOK, OwnStep, Receive, Think, RunTool, Abort, FindUser, CreateUser,
       ListPolicies, DeletePolicy, PoliciesDeleted, Deactivate, CreateConversation,
       StoreWelcome, ClearFlag, Confirm, FindSession, StorePrompt, LoadHistory,
       NextTurn, StoreReply, CountMessages, TrimToRecent, SendReply,
       Goto, End, Database, Kinds

(* What a handler's own step does with its list of policies.               *)
LEMMA TodoStep ==
  ASSUME TypeOK, NEW ch \in Chats,
         \/ \E kind \in Kinds : Receive(ch, kind)
         \/ OwnStep(ch) \/ Think(ch) \/ RunTool(ch) \/ Abort(ch)
  PROVE  \/ handler'[ch].todo = {}
         \/ handler'[ch].todo = ActivePolicies
         \/ handler'[ch].todo \subseteq handler[ch].todo
<1>0. handler[ch] \in Handler /\ DOMAIN handler = Chats
  BY DEF TypeOK
<1>1. CASE \E kind \in Kinds : Receive(ch, kind)
  BY <1>0, <1>1 DEF Receive, Idle
<1>2. CASE Think(ch) \/ RunTool(ch) \/ LoadHistory(ch) \/ NextTurn(ch) \/ Abort(ch)
  BY <1>0, <1>2 DEF Think, RunTool, LoadHistory, NextTurn, Abort, End, Idle, Handler
<1>3. CASE ListPolicies(ch) \/ DeletePolicy(ch)
  BY <1>0, <1>3 DEF ListPolicies, DeletePolicy, PoliciesToReset, Handler
<1>4. CASE \/ End(ch)
           \/ \E place \in Places : Goto(ch, place)
  BY <1>0, <1>4 DEF End, Goto, Idle, Handler
<1>5. CASE FindUser(ch)
  <2>1. handler[ch].kind \in Kinds
    BY <1>0 DEF Handler
  <2>2. \/ End(ch)
        \/ \E place \in {"create_user", "deactivate", "list_policies", "find_session"} :
             Goto(ch, place)
    BY <1>5, <2>1 DEF FindUser, Kinds
  <2> QED
    BY <1>4, <2>2 DEF Places
<1>6. CASE \/ CreateUser(ch)         \/ PoliciesDeleted(ch) \/ Deactivate(ch)
           \/ CreateConversation(ch) \/ StoreWelcome(ch)    \/ ClearFlag(ch)
           \/ Confirm(ch)            \/ FindSession(ch)     \/ StorePrompt(ch)
           \/ StoreReply(ch)         \/ CountMessages(ch)   \/ TrimToRecent(ch)
           \/ SendReply(ch)
  <2>1. \/ End(ch)
        \/ \E place \in {"deactivate", "create", "store_welcome", "clear_flag",
                         "confirm", "store_prompt", "load_history", "count",
                         "trim", "send_reply"} : Goto(ch, place)
    BY <1>6 DEF CreateUser, PoliciesDeleted, Deactivate, CreateConversation,
                StoreWelcome, ClearFlag, Confirm, FindSession, StorePrompt,
                StoreReply, CountMessages, TrimToRecent, SendReply
  <2> QED
    BY <1>4, <2>1 DEF Places
<1> QED
  BY <1>1, <1>2, <1>3, <1>5, <1>6 DEF OwnStep

LEMMA FiniteWorkStep == TypeOK /\ FiniteWork /\ [Next]_vars => FiniteWork'
<1> SUFFICES ASSUME TypeOK, FiniteWork, [Next]_vars PROVE FiniteWork'
  OBVIOUS
<1>1. IsFiniteSet(Used')
  BY UsedStep DEF FiniteWork
<1>2. ASSUME NEW ch \in Chats
      PROVE  IsFiniteSet(handler'[ch].todo)
  <2>1. CASE UNCHANGED handler[ch]
    BY <2>1 DEF FiniteWork
  <2>2. CASE \/ \E kind \in Kinds : Receive(ch, kind)
             \/ OwnStep(ch) \/ Think(ch) \/ RunTool(ch) \/ Abort(ch)
    <3>1. IsFiniteSet(ActivePolicies)
      <4>1. ActivePolicies \subseteq Used
        BY DEF ActivePolicies, Used
      <4> QED
        BY <4>1, FS_Subset DEF FiniteWork
    <3> QED
      BY <2>2, <3>1, TodoStep, FS_EmptySet, FS_Subset DEF FiniteWork
  <2> QED
    BY <2>1, <2>2, OthersStand DEF Next, vars
<1> QED
  BY <1>1, <1>2 DEF FiniteWork

LEMMA Distances ==
  /\ Distance("idle") = 0
  /\ Distance("confirm") = 1 /\ Distance("store_welcome") = 1
  /\ Distance("send_reply") = 1
  /\ Distance("clear_flag") = 2 /\ Distance("trim") = 2
  /\ Distance("create") = 3 /\ Distance("count") = 3
  /\ Distance("deactivate") = 4 /\ Distance("store_reply") = 4
  /\ Distance("create_user") = 5 /\ Distance("delete_policies") = 5
  /\ Distance("thinking") = 5 /\ Distance("tools") = 5
  /\ Distance("list_policies") = 6 /\ Distance("load_history") = 6
  /\ Distance("store_prompt") = 7 /\ Distance("find_session") = 8
  /\ Distance("find_user") = 9
  BY DEF Distance

(* A handler that ends gets on from wherever it was.                       *)
LEMMA EndGetsOn ==
  ASSUME TypeOK, NEW ch \in Chats, ~ At(ch, "idle"), End(ch)
  PROVE  GetsOn(handler[ch], handler'[ch])
<1>1. handler'[ch].at = "idle"
  BY DEF TypeOK, End, Idle
<1>2. handler[ch].at \in Places \ {"idle"}
  BY DEF TypeOK, Handler, At
<1>3. 0 < Distance(handler[ch].at)
  BY <1>2, Distances DEF Places
<1> QED
  BY <1>1, <1>3, Distances DEF GetsOn

(* A step of the agent's loop leaves less of it to do.                     *)
LEMMA LoopStep ==
  ASSUME NEW old \in Handler, NEW new \in Handler,
         \/ /\ old.at = "thinking" /\ new.at = "tools" /\ new.turn = old.turn
         \/ /\ old.at = "tools" /\ new.at = "tools" /\ new.turn = old.turn
            /\ old.calls > 0 /\ new.calls = old.calls - 1
         \/ /\ old.at = "tools" /\ new.at = "thinking"
            /\ old.calls = 0 /\ new.turn = old.turn + 1
  PROVE  0 <= LoopLeft(new) /\ LoopLeft(new) < LoopLeft(old)
<1> DEFINE round == MaxCalls + 2
           left(h) == MaxTurns - h.turn
<1>1. /\ round \in Nat /\ MaxCalls \in Nat
      /\ \A h \in Handler : /\ h.turn \in Nat /\ left(h) \in Nat \ {0}
                            /\ h.calls \in Nat /\ h.calls <= MaxCalls
  BY BoundsAssumption DEF Handler
<1>2. \A h \in Handler :
        /\ h.at = "thinking" => LoopLeft(h) = left(h) * round
        /\ h.at = "tools" => LoopLeft(h) = (left(h) - 1) * round + h.calls + 1
  BY DEF LoopLeft
<1>3. \A n \in Nat \ {0} : /\ n * round = (n - 1) * round + round
                           /\ (n - 1) * round \in Nat /\ n * round \in Nat
  BY <1>1
<1>4. left(new) = left(old) \/ left(new) = left(old) - 1
  BY BoundsAssumption DEF Handler
<1>5. new.at = "thinking" => left(new) = left(old) - 1
  BY BoundsAssumption DEF Handler
<1>6. new.at = "tools" => left(new) = left(old)
  BY DEF Handler
<1>7. round = MaxCalls + 2
  OBVIOUS
<1> HIDE DEF round, left
<1>8. CASE old.at = "thinking" /\ new.at = "tools"
  <2>1. /\ LoopLeft(old) = (left(old) - 1) * round + round
        /\ LoopLeft(new) = (left(old) - 1) * round + new.calls + 1
        /\ (left(old) - 1) * round \in Nat
    BY <1>1, <1>2, <1>3, <1>6, <1>8
  <2> QED
    BY <1>1, <1>7, <2>1
<1>9. CASE old.at = "tools" /\ new.at = "tools"
  <2>1. /\ LoopLeft(old) = (left(old) - 1) * round + old.calls + 1
        /\ LoopLeft(new) = (left(old) - 1) * round + new.calls + 1
        /\ (left(old) - 1) * round \in Nat
        /\ new.calls = old.calls - 1
    BY <1>1, <1>2, <1>3, <1>6, <1>9
  <2> QED
    BY <1>1, <2>1
<1>10. CASE old.at = "tools" /\ new.at = "thinking"
  <2>1. /\ LoopLeft(old) = (left(old) - 1) * round + 0 + 1
        /\ LoopLeft(new) = (left(old) - 1) * round
        /\ (left(old) - 1) * round \in Nat
    BY <1>1, <1>2, <1>3, <1>5, <1>10
  <2> QED
    BY <2>1
<1> QED
  BY <1>8, <1>9, <1>10

(* The steps that lead nearer to the end of the handler, or end it.        *)
LEMMA NearerSteps ==
  ASSUME TypeOK, NEW ch \in Chats,
         \/ FindUser(ch)     \/ CreateUser(ch)         \/ ListPolicies(ch)
         \/ PoliciesDeleted(ch)
         \/ Deactivate(ch)   \/ CreateConversation(ch) \/ StoreWelcome(ch)
         \/ ClearFlag(ch)    \/ Confirm(ch)            \/ FindSession(ch)
         \/ StorePrompt(ch)  \/ LoadHistory(ch)        \/ StoreReply(ch)
         \/ CountMessages(ch) \/ TrimToRecent(ch)      \/ SendReply(ch)
         \/ Abort(ch)
  PROVE  GetsOn(handler[ch], handler'[ch])
<1>0. handler[ch] \in Handler /\ DOMAIN handler = Chats
  BY DEF TypeOK
<1>1. ASSUME NEW place, handler'[ch].at = place, Distance(place) < Distance(handler[ch].at)
      PROVE  GetsOn(handler[ch], handler'[ch])
  BY <1>1 DEF GetsOn
<1>2. ~ At(ch, "idle")
  BY DEF At, FindUser, CreateUser, ListPolicies, PoliciesDeleted, Deactivate,
         CreateConversation, StoreWelcome, ClearFlag, Confirm, FindSession,
         StorePrompt, LoadHistory, StoreReply, CountMessages, TrimToRecent,
         SendReply, Abort
<1>3. CASE End(ch)
  BY <1>2, <1>3, EndGetsOn
<1>4. \A place : Goto(ch, place) => handler'[ch].at = place
  BY <1>0 DEF Goto, Handler
<1>5. CASE FindUser(ch)
  <2>1. handler[ch].kind \in Kinds
    BY <1>0 DEF Handler
  <2>2. \/ End(ch)
        \/ \E place \in {"create_user", "deactivate", "list_policies", "find_session"} :
             Goto(ch, place)
    BY <1>5, <2>1 DEF FindUser, Kinds
  <2>3. handler[ch].at = "find_user"
    BY <1>5 DEF FindUser, At
  <2> QED
    BY <1>1, <1>3, <1>4, <2>2, <2>3, Distances
<1>6. CASE ListPolicies(ch) \/ LoadHistory(ch)
  <2>1. \/ End(ch)
        \/ handler[ch].at = "list_policies" /\ handler'[ch].at = "delete_policies"
        \/ handler[ch].at = "load_history" /\ handler'[ch].at = "thinking"
    BY <1>0, <1>6 DEF ListPolicies, LoadHistory, At, Handler
  <2> QED
    BY <1>1, <1>3, <2>1, Distances
<1>7. CASE ~ (FindUser(ch) \/ ListPolicies(ch) \/ LoadHistory(ch))
  <2>1. \/ End(ch)
        \/ handler[ch].at = "create_user" /\ Goto(ch, "deactivate")
        \/ handler[ch].at = "delete_policies" /\ Goto(ch, "deactivate")
        \/ handler[ch].at = "deactivate" /\ Goto(ch, "create")
        \/ handler[ch].at = "create" /\ Goto(ch, "store_welcome")
        \/ handler[ch].at = "create" /\ Goto(ch, "clear_flag")
        \/ handler[ch].at = "clear_flag" /\ Goto(ch, "confirm")
        \/ handler[ch].at = "find_session" /\ Goto(ch, "store_prompt")
        \/ handler[ch].at = "store_prompt" /\ Goto(ch, "load_history")
        \/ handler[ch].at = "store_reply" /\ Goto(ch, "count")
        \/ handler[ch].at = "count" /\ Goto(ch, "trim")
        \/ handler[ch].at = "count" /\ Goto(ch, "send_reply")
        \/ handler[ch].at = "trim" /\ Goto(ch, "send_reply")
    BY <1>7 DEF At, CreateUser, PoliciesDeleted, Deactivate, CreateConversation,
           StoreWelcome, ClearFlag, Confirm, FindSession, StorePrompt, StoreReply,
           CountMessages, TrimToRecent, SendReply, Abort
  <2> QED
    BY <1>1, <1>3, <1>4, <2>1, Distances
<1> QED
  BY <1>5, <1>6, <1>7

(* The steps of the two loops.                                             *)
LEMMA LoopSteps ==
  ASSUME TypeOK, FiniteWork, TypeOK', NEW ch \in Chats,
         DeletePolicy(ch) \/ Think(ch) \/ RunTool(ch) \/ NextTurn(ch)
  PROVE  GetsOn(handler[ch], handler'[ch])
<1>0. handler[ch] \in Handler /\ handler'[ch] \in Handler /\ DOMAIN handler = Chats
  BY DEF TypeOK
<1>1. ASSUME handler[ch].at \in {"thinking", "tools"}, handler'[ch].at = "store_reply"
      PROVE  GetsOn(handler[ch], handler'[ch])
  BY <1>1, Distances DEF GetsOn
<1>2. ASSUME handler[ch].at \in {"thinking", "tools"},
             handler'[ch].at \in {"thinking", "tools"},
             0 <= LoopLeft(handler'[ch]) /\ LoopLeft(handler'[ch]) < LoopLeft(handler[ch])
      PROVE  GetsOn(handler[ch], handler'[ch])
  BY <1>2, Distances DEF GetsOn
<1>3. CASE DeletePolicy(ch)
  <2>1. PICK p \in handler[ch].todo :
          handler' = [handler EXCEPT ![ch].todo = @ \ {p}]
    BY <1>3 DEF DeletePolicy
  <2>2. /\ handler[ch].at = "delete_policies" /\ handler'[ch].at = "delete_policies"
        /\ handler'[ch].todo = handler[ch].todo \ {p}
    BY <1>0, <1>3, <2>1 DEF DeletePolicy, At, Handler
  <2>3. /\ Cardinality(handler[ch].todo) \in Nat /\ Cardinality(handler'[ch].todo) \in Nat
        /\ Cardinality(handler'[ch].todo) = Cardinality(handler[ch].todo) - 1
    BY <2>2, FS_RemoveElement, FS_CardinalityType DEF FiniteWork
  <2>4. /\ LoopLeft(handler[ch]) = Cardinality(handler[ch].todo)
        /\ LoopLeft(handler'[ch]) = Cardinality(handler'[ch].todo)
    BY <2>2 DEF LoopLeft
  <2> QED
    BY <2>2, <2>3, <2>4 DEF GetsOn
<1>4. CASE Think(ch)
  <2>1. /\ handler[ch].at = "thinking"
        /\ \/ handler'[ch].at = "store_reply"
           \/ handler'[ch].at = "tools" /\ handler'[ch].turn = handler[ch].turn
    BY <1>0, <1>4 DEF Think, At, Handler
  <2> QED
    BY <1>0, <1>1, <1>2, <2>1, LoopStep
<1>5. CASE RunTool(ch)
  <2>1. /\ handler[ch].at = "tools" /\ handler'[ch].at = "tools"
        /\ handler'[ch].turn = handler[ch].turn
        /\ handler[ch].calls > 0 /\ handler'[ch].calls = handler[ch].calls - 1
    BY <1>0, <1>5 DEF RunTool, At, Handler
  <2> QED
    BY <1>0, <1>2, <2>1, LoopStep
<1>6. CASE NextTurn(ch)
  <2>1. /\ handler[ch].at = "tools" /\ handler[ch].calls = 0
        /\ \/ handler'[ch].at = "store_reply"
           \/ /\ handler'[ch].at = "thinking"
              /\ handler'[ch].turn = handler[ch].turn + 1
    BY <1>0, <1>6 DEF NextTurn, At, Handler
  <2> QED
    BY <1>0, <1>1, <1>2, <2>1, LoopStep
<1> QED
  BY <1>3, <1>4, <1>5, <1>6

LEMMA GettingOn == TypeOK /\ FiniteWork /\ [Next]_vars => [StepsGetOn]_vars
<1> SUFFICES ASSUME TypeOK, FiniteWork, Next, NEW ch \in Chats, ~ At(ch, "idle"),
                    handler'[ch] # handler[ch]
             PROVE  GetsOn(handler[ch], handler'[ch])
  BY DEF StepsGetOn
<1>1. TypeOK'
  BY TypeNext
<1>2. ~ \E kind \in Kinds : Receive(ch, kind)
  BY DEF Receive
<1>3. OwnStep(ch) \/ Think(ch) \/ RunTool(ch) \/ Abort(ch)
  BY <1>2, OthersStand DEF Next
<1> QED
  BY <1>1, <1>3, NearerSteps, LoopSteps DEF OwnStep

LEMMA FirstWorkIsFinite == Init => FiniteWork
<1> SUFFICES ASSUME Init PROVE FiniteWork
  OBVIOUS
<1>1. Used = {} /\ \A ch \in Chats : handler[ch].todo = {}
  BY DEF Init, Used, Idle
<1> QED
  BY <1>1, FS_EmptySet DEF FiniteWork

LEMMA WorkIsFinite == Spec => []FiniteWork
  BY FirstWorkIsFinite, FiniteWorkStep, TypeCorrect, PTL DEF Spec

(* A handler gets on with every step: no update keeps it going for ever,   *)
(* for any bounds of the agent's loop and any number of policies.          *)
THEOREM EveryStepGetsOn == Spec => HandlersGetOn
  BY GettingOn, WorkIsFinite, TypeCorrect, PTL DEF Spec, HandlersGetOn

=============================================================================
