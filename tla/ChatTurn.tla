------------------------------ MODULE ChatTurn ------------------------------
(***************************************************************************)
(* One user's chat as the server keeps it: chat() of app/chat_service.py,  *)
(* which answers one message (a turn) in a thread of its own, the          *)
(* conversations of app/conversation_service.py and the notifications of   *)
(* app/automation_service.py that chat() delivers with its answer.         *)
(*                                                                         *)
(* Every step of a turn is one SQLite transaction; other turns, deletions  *)
(* and new notifications fall between them.  A turn may fail between any   *)
(* two steps: an exception, a refused admission or the end of the process  *)
(* look alike in the database.  The attachment, denial, clarification and  *)
(* automation branches of chat() save as the main branch does, without     *)
(* notifications.  The user may also read notifications in the page's      *)
(* inbox.  A text is the turn it belongs to.                               *)
(*                                                                         *)
(* A definition X_Y is a faulty variant of X, which the runs must reject.  *)
(***************************************************************************)
EXTENDS Naturals, Sequences, FiniteSets, SequencesExt

CONSTANTS
    Turns,            \* calls of POST /chat, numbered as they are made
    Conversations,    \* conversation ids, numbered as they are drawn
    NoConversation,   \* conversationId === null
    HistoryLimit,     \* openai_history_limit: the messages a turn reads
    Notes,            \* notifications of the user, numbered as they are stored
    Waiting,          \* those that are unread at the start
    NoteLimit         \* the notifications a turn takes along (5 in the code)

ASSUME ConversationAssumption ==
    Conversations \subseteq Nat /\ NoConversation \notin Conversations
ASSUME TurnAssumption == Turns \subseteq Nat
ASSUME HistoryAssumption == HistoryLimit \in Nat \ {0}
ASSUME NoteAssumption == Notes \subseteq Nat /\ Waiting \subseteq Notes

VARIABLES
    listed,     \* the rows of chat_conversations
    messages,   \* the rows of chat_messages of each conversation, by id
    note,       \* each notification: "none", "unread", or who has set read_at:
                \* a turn ("read") or the inbox ("dismissed")
    pc,         \* how far each turn is
    at,         \* the conversation of each turn
    history,    \* the messages each turn has read as its history
    noted,      \* the notifications each turn carries
    wiped       \* the messages deletions have removed (history)

storeVars == <<listed, messages, note, wiped>>
turnVars == <<pc, at, history, noted>>

Roles == {"user", "assistant"}
Message(role, t) == [role |-> role, turn |-> t]
AllMessages == [role : Roles, turn : Turns]

ChatTypeOK ==
    /\ listed \subseteq Conversations
    /\ messages \in [Conversations -> Seq(AllMessages)]
    /\ note \in [Notes -> {"none", "unread", "read", "dismissed"}]
    /\ pc \in [Turns -> {"new", "sent", "begun", "read", "thinking", "marked",
                         "asked", "done", "failed", "torn"}]
    /\ at \in [Turns -> Conversations \cup {NoConversation}]
    /\ history \in [Turns -> Seq(AllMessages)]
    /\ noted \in [Turns -> SUBSET Notes]
    /\ wiped \subseteq AllMessages

ChatInit ==
    /\ listed = {}
    /\ messages = [c \in Conversations |-> << >>]
    /\ note = [n \in Notes |-> IF n \in Waiting THEN "unread" ELSE "none"]
    /\ pc = [t \in Turns |-> "new"]
    /\ at = [t \in Turns |-> NoConversation]
    /\ history = [t \in Turns |-> << >>]
    /\ noted = [t \in Turns |-> {}]
    /\ wiped = {}

Stored(c) == ToSet(messages[c])
\* The newest HistoryLimit messages, oldest first
Recent(c) ==
    LET n == Len(messages[c])
    IN  SubSeq(messages[c], IF n > HistoryLimit THEN n - HistoryLimit + 1 ELSE 1, n)
\* latest_response: x is the newest answer, whichever question it was given to.
IsLatestAnswer(c, x) ==
    \E i \in DOMAIN messages[c] :
        /\ messages[c][i] = Message("assistant", x)
        /\ \A j \in DOMAIN messages[c] :
              j > i => messages[c][j].role # "assistant"

Move(t, to) == pc' = [pc EXCEPT ![t] = to]

-----------------------------------------------------------------------------

\* ensure_conversation creates the conversation or finds it.
Begin(t) ==
    /\ pc[t] = "sent"
    /\ Move(t, "begun")
    /\ listed' = listed \cup {at[t]}
    /\ UNCHANGED <<messages, note, wiped, at, history, noted>>

\* _conversation_material
ReadHistory(t) ==
    /\ pc[t] = "begun"
    /\ Move(t, "read")
    /\ history' = [history EXCEPT ![t] = Recent(at[t])]
    /\ UNCHANGED <<storeVars, at, noted>>

Unread == {n \in Notes : note[n] = "unread"}
Newest(N) == {n \in N : Cardinality({m \in N : m > n}) < NoteLimit}

\* list_notifications, or one of the branches that do not ask for them; then
\* the model is called.
ReadNotes(t) ==
    /\ pc[t] = "read"
    /\ Move(t, "thinking")
    /\ \E N \in {{}, Newest(Unread)} :
          noted' = [noted EXCEPT ![t] = N]
    /\ UNCHANGED <<storeVars, at, history>>

\* mark_notifications_read, for the notifications listed before; those that
\* have been read meanwhile stay as they are.
SetRead(N, how) == note' = [n \in Notes |-> IF n \in N \cap Unread THEN how ELSE note[n]]

Marked_Again(t) == Newest(Unread)
Marked(t) == noted[t]
MarkRead(t) ==
    /\ pc[t] = "thinking"
    /\ Move(t, "marked")
    /\ SetRead(Marked(t), "read")
    /\ UNCHANGED <<listed, messages, wiped, at, history, noted>>

\* _save: the question and the answer, in two transactions.
Saved(t, role) ==
    messages' = [messages EXCEPT ![at[t]] = Append(@, Message(role, t))]
SaveQuestion_Left(t) ==
    /\ pc[t] = "marked"
    /\ Move(t, "asked")
    /\ UNCHANGED <<storeVars, at, history, noted>>
SaveQuestion(t) ==
    /\ pc[t] = "marked"
    /\ Move(t, "asked")
    /\ Saved(t, "user")
    /\ UNCHANGED <<listed, note, wiped, at, history, noted>>
SaveAnswer(t) ==
    /\ pc[t] = "asked"
    /\ Move(t, "done")
    /\ Saved(t, "assistant")
    /\ UNCHANGED <<listed, note, wiped, at, history, noted>>

Running(t) == pc[t] \in {"sent", "begun", "read", "thinking", "marked", "asked"}
\* A turn that fails between marking and saving is kept apart: the notifications
\* it carried are read, and no stored answer has them.
Fail(t) ==
    /\ Running(t)
    /\ Move(t, IF pc[t] \in {"marked", "asked"} THEN "torn" ELSE "failed")
    /\ UNCHANGED <<storeVars, at, history, noted>>

Work(t) ==
    \/ Begin(t) \/ ReadHistory(t) \/ ReadNotes(t) \/ MarkRead(t)
    \/ SaveQuestion(t) \/ SaveAnswer(t)

\* delete_conversation; a turn that runs in the conversation goes on.
Deleted(c) ==
    /\ c \in listed
    /\ listed' = listed \ {c}
    /\ messages' = [messages EXCEPT ![c] = << >>]
    /\ wiped' = wiped \cup Stored(c)
    /\ UNCHANGED <<note, turnVars>>

\* An automation stores a notification.
Notify(n) ==
    /\ note[n] = "none"
    /\ \A m \in Notes : m > n => note[m] = "none"
    /\ note' = [note EXCEPT ![n] = "unread"]
    /\ UNCHANGED <<listed, messages, wiped, turnVars>>

\* POST /automations/notifications/read: the user reads some in the inbox.
Dismiss(N) ==
    /\ N \cap Unread # {}
    /\ SetRead(N, "dismissed")
    /\ UNCHANGED <<listed, messages, wiped, turnVars>>

-----------------------------------------------------------------------------

\* An answer stands after its question in the same conversation, whatever
\* other turns save in between, unless the question was deleted with the
\* conversation while the turn was running.
AnswerFollowsQuestion ==
    \A c \in Conversations : \A i \in DOMAIN messages[c] :
        messages[c][i].role = "assistant" =>
            \/ \E j \in 1 .. (i - 1) :
                  messages[c][j] = Message("user", messages[c][i].turn)
            \/ Message("user", messages[c][i].turn) \in wiped

\* A notification that chat() marks read is in an answer that is stored or about
\* to be (unless its turn was torn, see the README); one that arrives while the
\* model is thinking stays unread for the next turn.
ReadNoticeIsDelivered ==
    \A n \in Notes : note[n] = "read" =>
        \E t \in Turns :
            /\ n \in noted[t]
            /\ \/ pc[t] \in {"marked", "asked", "torn"}
               \/ pc[t] = "done" /\ Message("assistant", t) \in Stored(at[t]) \cup wiped
=============================================================================
