----------------------------- MODULE BotSession -----------------------------
(***************************************************************************)
(* The Telegram bot's handlers at work on the session of one user: the     *)
(* user's row, conversations and policies (src/src/bin/telegram_bot.rs,    *)
(* src/src/db/conversation.rs).                                            *)
(*                                                                         *)
(* The dispatcher handles the updates of one chat in order and those of    *)
(* different chats side by side, but everything stored is keyed by the     *)
(* user: chats of one user meet in the database.  Each query is one        *)
(* statement, so atomic, and every await between two of them a point where *)
(* another handler may run.  Users share nothing, so that one is enough.   *)
(***************************************************************************)
EXTENDS Integers, Sequences, FiniteSets

CONSTANTS
  Chats,            (* The chats the user talks to the bot in.             *)
  PolicyIds,        (* Bounds the policies ever created.                   *)
  MaxUpdates,       (* Bounds the updates a chat ever sends.               *)
  Keep,             (* Messages a trimmed conversation keeps: 40.          *)
  MaxTurns,         (* Turns of the agent per message: 20.                 *)
  MaxCalls          (* Bounds the tool calls the model makes in a turn.    *)

ASSUME BoundsAssumption ==
  /\ MaxUpdates \in Nat
  /\ Keep \in Nat /\ Keep >= 2
  /\ MaxTurns \in Nat \ {0}
  /\ MaxCalls \in Nat \ {0}

VARIABLES
  registered,       (* Has the user a row in table users?                  *)
  conversations,    (* Table conversations, oldest first.                  *)
  policies,         (* Table policies: "unused", "active" or "inactive".   *)
  received,         (* How many updates each chat has sent.                *)
  handler           (* The handler at work for each chat.                  *)

vars == << registered, conversations, policies, received, handler >>

-----------------------------------------------------------------------------
(* Values *)

Kinds == {"start", "reset", "message"}
Roles == {"user", "assistant"}

(* An update is the n-th of its chat; a message is known by the update it  *)
(* stems from, its text being of no consequence.                           *)
Updates == Chats \X (1 .. MaxUpdates)
StoredMessage == [role : Roles, of : Updates]

Places ==
  {"idle", "find_user", "create_user", "list_policies", "delete_policies",
   "deactivate", "create", "store_welcome", "clear_flag", "confirm",
   "find_session", "store_prompt", "load_history", "thinking", "tools",
   "store_reply", "count", "trim", "send_reply"}

(* What a handler holds between two awaits.  "stood" is history: the       *)
(* policies active when its update arrived.                                *)
Idle == [at |-> "idle", kind |-> "message", todo |-> {}, history |-> << >>,
         turn |-> 0, calls |-> 0, reply |-> FALSE, stood |-> {}]

ActivePolicies == {p \in PolicyIds : policies[p] = "active"}
ActiveIds      == {i \in DOMAIN conversations : conversations[i].active}
Active         == conversations[CHOOSE i \in ActiveIds : TRUE]

Message(role, ch) == [role |-> role, of |-> << ch, received[ch] >>]

Init ==
  /\ registered = FALSE
  /\ conversations = << >>
  /\ policies = [p \in PolicyIds |-> "unused"]
  /\ received = [ch \in Chats |-> 0]
  /\ handler = [ch \in Chats |-> Idle]

-----------------------------------------------------------------------------
(* Queries: the conversations after a statement.                           *)

(* Fault: the newest conversation is written to, active or not.            *)
Append_Newest(messages) ==
  [i \in DOMAIN conversations |->
     IF i = Len(conversations)
       THEN [conversations[i] EXCEPT !.messages = @ \o messages]
       ELSE conversations[i]]

(* ConversationRow::append_message: nothing happens without an active one. *)
Appended(messages) ==
  [i \in DOMAIN conversations |->
     IF conversations[i].active
       THEN [conversations[i] EXCEPT !.messages = @ \o messages]
       ELSE conversations[i]]

(* Fault: the oldest messages are kept.                                    *)
LastOf_First(s, n) == IF Len(s) > n THEN SubSeq(s, 1, n) ELSE s

LastOf(s, n) == IF Len(s) > n THEN SubSeq(s, Len(s) - n + 1, Len(s)) ELSE s

(* ConversationRow::trim_to_recent                                         *)
Trimmed ==
  [i \in DOMAIN conversations |->
     IF conversations[i].active
       THEN [conversations[i] EXCEPT !.messages = LastOf(@, Keep)]
       ELSE conversations[i]]

(* ConversationRow::deactivate_all                                         *)
AllInactive ==
  [i \in DOMAIN conversations |-> [conversations[i] EXCEPT !.active = FALSE]]

(* Fault: the migration lacks the unique index.                            *)
Insertable_NoIndex == TRUE

(* The unique index on the active conversations of a user.                 *)
Insertable == ActiveIds = {}

-----------------------------------------------------------------------------
(* Control *)

At(ch, place) == handler[ch].at = place

Goto(ch, place) == handler' = [handler EXCEPT ![ch].at = place]

(* The handler ends, well or with an error: nothing of it is left.         *)
End(ch) == handler' = [handler EXCEPT ![ch] = Idle]

Database == << registered, conversations, policies, received >>

(* The dispatcher hands an update to its handler.                          *)
Receive(ch, kind) ==
  /\ At(ch, "idle")
  /\ received[ch] < MaxUpdates
  /\ received' = [received EXCEPT ![ch] = @ + 1]
  /\ handler' = [handler EXCEPT ![ch] =
                   [Idle EXCEPT !.at = "find_user", !.kind = kind,
                                !.stood = ActivePolicies]]
  /\ UNCHANGED << registered, conversations, policies >>

(* A query, a call to Telegram or a conversion fails, or the bot stops: an *)
(* error ends a handler wherever it is, and all that it has stored stays.  *)
Abort(ch) ==
  /\ ~ At(ch, "idle")
  /\ End(ch)
  /\ UNCHANGED Database

(* Fault: a command other than /start does not look whether there is one.  *)
FindUser_Unchecked(ch) ==
  /\ At(ch, "find_user")
  /\ CASE handler[ch].kind = "start" ->
            Goto(ch, IF registered THEN "deactivate" ELSE "create_user")
       [] handler[ch].kind = "reset" -> Goto(ch, "list_policies")
       [] handler[ch].kind = "message" -> Goto(ch, "find_session")
  /\ UNCHANGED Database

FindUser(ch) ==
  /\ At(ch, "find_user")
  /\ CASE handler[ch].kind = "start" ->
            Goto(ch, IF registered THEN "deactivate" ELSE "create_user")
       [] registered /\ handler[ch].kind = "reset" -> Goto(ch, "list_policies")
       [] registered /\ handler[ch].kind = "message" -> Goto(ch, "find_session")
       [] OTHER -> End(ch)
  /\ UNCHANGED Database

-----------------------------------------------------------------------------
(* /start and /reset *)

(* The Telegram id is unique: of two chats that both found no user, the    *)
(* second fails.                                                           *)
CreateUser(ch) ==
  /\ At(ch, "create_user")
  /\ IF registered THEN End(ch) ELSE Goto(ch, "deactivate")
  /\ registered' = TRUE
  /\ UNCHANGED << conversations, policies, received >>

(* Fault: the newest policy only.                                          *)
PoliciesToReset_One ==
  IF ActivePolicies = {} THEN {} ELSE {CHOOSE p \in ActivePolicies : TRUE}

PoliciesToReset == ActivePolicies

ListPolicies(ch) ==
  /\ At(ch, "list_policies")
  /\ handler' = [handler EXCEPT ![ch].at = "delete_policies",
                                ![ch].todo = PoliciesToReset]
  /\ UNCHANGED Database

(* The policies found are deactivated one at a time.                       *)
DeletePolicy(ch) ==
  /\ At(ch, "delete_policies")
  /\ \E p \in handler[ch].todo :
       /\ policies' = [policies EXCEPT ![p] = "inactive"]
       /\ handler' = [handler EXCEPT ![ch].todo = @ \ {p}]
  /\ UNCHANGED << registered, conversations, received >>

PoliciesDeleted(ch) ==
  /\ At(ch, "delete_policies")
  /\ handler[ch].todo = {}
  /\ Goto(ch, "deactivate")
  /\ UNCHANGED Database

Deactivate(ch) ==
  /\ At(ch, "deactivate")
  /\ conversations' = AllInactive
  /\ Goto(ch, "create")
  /\ UNCHANGED << registered, policies, received >>

(* ConversationRow::create.  "born" is history: the updates that had been  *)
(* received by then, and the chat it was created from.                     *)
CreateConversation(ch) ==
  /\ At(ch, "create")
  /\ IF Insertable
       THEN /\ conversations' = Append(conversations,
                 [active |-> TRUE, messages |-> << >>, by |-> ch, born |-> received])
            /\ Goto(ch, IF handler[ch].kind = "start" THEN "store_welcome"
                                                     ELSE "clear_flag")
       ELSE End(ch) /\ UNCHANGED conversations
  /\ UNCHANGED << registered, policies, received >>

(* The welcome goes out, and is stored.                                    *)
StoreWelcome(ch) ==
  /\ At(ch, "store_welcome")
  /\ conversations' = Appended(<< Message("assistant", ch) >>)
  /\ End(ch)
  /\ UNCHANGED << registered, policies, received >>

(* The flag "onboarded" is cleared; nothing ever sets it.                  *)
ClearFlag(ch) ==
  /\ At(ch, "clear_flag")
  /\ Goto(ch, "confirm")
  /\ UNCHANGED Database

(* "Your policies and conversation history have been cleared."             *)
Confirm(ch) ==
  /\ At(ch, "confirm")
  /\ End(ch)
  /\ UNCHANGED Database

-----------------------------------------------------------------------------
(* A message *)

FindSession(ch) ==
  /\ At(ch, "find_session")
  /\ IF ActiveIds = {} THEN End(ch) ELSE Goto(ch, "store_prompt")
  /\ UNCHANGED Database

StorePrompt(ch) ==
  /\ At(ch, "store_prompt")
  /\ conversations' = Appended(<< Message("user", ch) >>)
  /\ Goto(ch, "load_history")
  /\ UNCHANGED << registered, policies, received >>

(* Fault: the message just stored is part of the history too.              *)
HistoryOf_All(messages) == messages

(* All but the last message, taken to be the one just stored.              *)
HistoryOf(messages) ==
  IF messages = << >> THEN << >> ELSE SubSeq(messages, 1, Len(messages) - 1)

LoadHistory(ch) ==
  /\ At(ch, "load_history")
  /\ IF ActiveIds = {}
       THEN End(ch)
       ELSE handler' = [handler EXCEPT ![ch].at = "thinking",
                                       ![ch].history = HistoryOf(Active.messages)]
  /\ UNCHANGED Database

(* The model answers: an error or a text ends the loop, a text that may be *)
(* empty; or it asks for tools to be run.                                  *)
Think(ch) ==
  /\ At(ch, "thinking")
  /\ \/ \E reply \in BOOLEAN :
          handler' = [handler EXCEPT ![ch].at = "store_reply", ![ch].reply = reply]
     \/ \E n \in 1 .. MaxCalls :
          handler' = [handler EXCEPT ![ch].at = "tools", ![ch].calls = n]
  /\ UNCHANGED Database

(* set_policy posts to the API server; a lost answer leaves the policy.    *)
(* Any other tool, and a call that fails, stores nothing here.             *)
RunTool(ch) ==
  /\ At(ch, "tools")
  /\ handler[ch].calls > 0
  /\ \/ UNCHANGED policies
     \/ \E p \in PolicyIds :
          /\ policies[p] = "unused"
          /\ policies' = [policies EXCEPT ![p] = "active"]
  /\ handler' = [handler EXCEPT ![ch].calls = @ - 1]
  /\ UNCHANGED << registered, conversations, received >>

(* Fault: the turns are not counted.                                       *)
NextTurn_Uncounted(ch) ==
  /\ At(ch, "tools")
  /\ handler[ch].calls = 0
  /\ Goto(ch, "thinking")
  /\ UNCHANGED Database

(* After the last turn the loop ends with the text that came with it, or   *)
(* an apology.                                                             *)
NextTurn(ch) ==
  /\ At(ch, "tools")
  /\ handler[ch].calls = 0
  /\ IF handler[ch].turn + 1 < MaxTurns
       THEN handler' = [handler EXCEPT ![ch].at = "thinking", ![ch].turn = @ + 1]
       ELSE \E reply \in BOOLEAN :
              handler' = [handler EXCEPT ![ch].at = "store_reply", ![ch].reply = reply]
  /\ UNCHANGED Database

StoreReply(ch) ==
  /\ At(ch, "store_reply")
  /\ conversations' = IF handler[ch].reply
                        THEN Appended(<< Message("assistant", ch) >>)
                        ELSE conversations
  /\ Goto(ch, "count")
  /\ UNCHANGED << registered, policies, received >>

CountMessages(ch) ==
  /\ At(ch, "count")
  /\ Goto(ch, IF ActiveIds # {} /\ Len(Active.messages) > Keep
                THEN "trim" ELSE "send_reply")
  /\ UNCHANGED Database

TrimToRecent(ch) ==
  /\ At(ch, "trim")
  /\ conversations' = Trimmed
  /\ Goto(ch, "send_reply")
  /\ UNCHANGED << registered, policies, received >>

SendReply(ch) ==
  /\ At(ch, "send_reply")
  /\ End(ch)
  /\ UNCHANGED Database

-----------------------------------------------------------------------------
(* The steps that wait for the database or for Telegram only.              *)
OwnStep(ch) ==
  \/ FindUser(ch)
  \/ CreateUser(ch)
  \/ ListPolicies(ch)
  \/ DeletePolicy(ch)
  \/ PoliciesDeleted(ch)
  \/ Deactivate(ch)
  \/ CreateConversation(ch)
  \/ StoreWelcome(ch)
  \/ ClearFlag(ch)
  \/ Confirm(ch)
  \/ FindSession(ch)
  \/ StorePrompt(ch)
  \/ LoadHistory(ch)
  \/ NextTurn(ch)
  \/ StoreReply(ch)
  \/ CountMessages(ch)
  \/ TrimToRecent(ch)
  \/ SendReply(ch)

Next ==
  \E ch \in Chats :
    \/ \E kind \in Kinds : Receive(ch, kind)
    \/ OwnStep(ch)
    \/ Think(ch)
    \/ RunTool(ch)
    \/ Abort(ch)

Spec == Init /\ [][Next]_vars

(* The runtime polls every handler that can go on, and the database and    *)
(* Telegram answer or fail.  The model and the API server are called       *)
(* without a timeout: nothing is assumed of them.                          *)
Fairness == \A ch \in Chats : WF_vars(OwnStep(ch))

FairSpec == Spec /\ Fairness

-----------------------------------------------------------------------------
(* Properties *)

ConversationRow == [active : BOOLEAN, messages : Seq(StoredMessage),
                    by : Chats, born : [Chats -> 0 .. MaxUpdates]]

Handler == [at : Places, kind : Kinds, todo : SUBSET PolicyIds,
            history : Seq(StoredMessage), turn : 0 .. MaxTurns - 1,
            calls : 0 .. MaxCalls, reply : BOOLEAN, stood : SUBSET PolicyIds]

TypeOK ==
  /\ registered \in BOOLEAN
  /\ conversations \in Seq(ConversationRow)
  /\ policies \in [PolicyIds -> {"unused", "active", "inactive"}]
  /\ received \in [Chats -> 0 .. MaxUpdates]
  /\ handler \in [Chats -> Handler]
  /\ \A ch \in Chats : ~ At(ch, "idle") => received[ch] > 0
  /\ \A ch \in Chats : handler[ch].at \notin {"idle", "find_user", "create_user"}
                         => registered

(* Whatever /start and /reset do side by side in several chats, the        *)
(* conversation in use is the newest: there is never a second one, and no  *)
(* old one comes back (conversation.rs: at most one result).               *)
OnlyNewestIsActive ==
  \A i \in DOMAIN conversations :
    conversations[i].active => i = Len(conversations)

(* When the bot says that the policies have been cleared, those that were  *)
(* active when /reset arrived are inactive, whatever else was going on.    *)
ResetClearsWhatStood ==
  \A ch \in Chats :
    At(ch, "confirm") => \A p \in handler[ch].stood : policies[p] = "inactive"

KeptInOrder(old, new) ==
  \/ Len(new) >= Len(old) /\ SubSeq(new, 1, Len(old)) = old
  \/ Len(new) = Keep /\ new = SubSeq(old, Len(old) - Keep + 1, Len(old))

HistoryKept ==
  \A i \in DOMAIN conversations :
    /\ ~ conversations[i].active => conversations'[i] = conversations[i]
    /\ KeptInOrder(conversations[i].messages, conversations'[i].messages)

(* A conversation that was left is never written to again, not even by a   *)
(* handler that began in it; and while in use it loses messages only from  *)
(* the front, and never more than it must to keep the last ones.           *)
ClosedStaysClosed == [][HistoryKept]_vars

(* With one chat, the prompt is not part of its own history, whatever was  *)
(* left behind by handlers that failed, and nothing else is missing.       *)
PromptAppearsOnce ==
  \A ch \in Chats :
    handler[ch].at \in {"thinking", "tools"} =>
      Append(handler[ch].history, Message("user", ch)) = Active.messages

(* With one chat, a reply that is sent is stored right after its prompt,   *)
(* and the conversation is within its bound, however many handlers failed  *)
(* before they could trim.                                                 *)
ReplyIsKept ==
  \A ch \in Chats :
    At(ch, "send_reply") =>
      LET n == Len(Active.messages)
      IN  /\ n <= Keep
          /\ handler[ch].reply =>
               /\ Active.messages[n] = Message("assistant", ch)
               /\ Active.messages[n - 1] = Message("user", ch)

(* How far a handler that stands at a place is from its end, at most, not  *)
(* counting the rounds of the two loops.                                   *)
Distance(place) ==
  CASE place = "idle" -> 0
    [] place \in {"confirm", "store_welcome", "send_reply"} -> 1
    [] place \in {"clear_flag", "trim"} -> 2
    [] place \in {"create", "count"} -> 3
    [] place \in {"deactivate", "store_reply"} -> 4
    [] place \in {"create_user", "delete_policies", "thinking", "tools"} -> 5
    [] place \in {"list_policies", "load_history"} -> 6
    [] place = "store_prompt" -> 7
    [] place = "find_session" -> 8
    [] place = "find_user" -> 9

(* What is left of the loop a handler is in.                               *)
LoopLeft(h) ==
  CASE h.at = "delete_policies" -> Cardinality(h.todo)
    [] h.at = "thinking" -> (MaxTurns - h.turn) * (MaxCalls + 2)
    [] h.at = "tools" -> (MaxTurns - h.turn - 1) * (MaxCalls + 2) + h.calls + 1
    [] OTHER -> 0

GetsOn(old, new) ==
  \/ Distance(new.at) < Distance(old.at)
  \/ /\ Distance(new.at) = Distance(old.at)
     /\ 0 <= LoopLeft(new) /\ LoopLeft(new) < LoopLeft(old)

StepsGetOn ==
  \A ch \in Chats :
    ~ At(ch, "idle") /\ handler'[ch] # handler[ch]
      => GetsOn(handler[ch], handler'[ch])

(* Whatever a handler does brings it nearer to its end, whichever answers  *)
(* it gets and whatever other chats do to what it reads: no loop of it can *)
(* go on for ever, the agent's (telegram_bot.rs:935) included.             *)
HandlersGetOn == [][StepsGetOn]_vars

(* An update is done with in the end, or its handler waits for ever for    *)
(* one answer of the model or of the API server: the loop itself ends.     *)
EndsOrHangsInOneCall ==
  \A ch \in Chats :
    \/ []<>At(ch, "idle")
    \/ <>[]At(ch, "thinking")
    \/ <>[]At(ch, "tools")

(* /reset and /start begin a fresh conversation (telegram_bot.rs:559, 742).*)
(* Does not hold: the reply to a message sent before it was created lands  *)
(* in it.                                                                  *)
FreshStartStaysFresh ==
  \A i \in DOMAIN conversations : \A n \in DOMAIN conversations[i].messages :
    LET row == conversations[i]
        of  == row.messages[n].of
    IN  of[1] = row.by \/ of[2] > row.born[of[1]]

=============================================================================
