------------------------------ MODULE ChatPage ------------------------------
(***************************************************************************)
(* The chat page (app/static/assistant.js) of the user whose turns         *)
(* ChatTurn describes.  requestAnswer posts a question; when the answer    *)
(* does not come, for whatever reason, recoverLatest asks for the latest   *)
(* answer stored in the page's conversation, and shows that.  The page can *)
(* stop a question, open, leave or delete a conversation, and repeat a     *)
(* question that failed, while answers and recoveries are under way.       *)
(*                                                                         *)
(* A call of requestAnswer posts at most one question (attachments are     *)
(* left out), so it shares its name with the turn.  recoverLatest tries    *)
(* eight times; here it may try once more or give up at any time.          *)
(***************************************************************************)
EXTENDS ChatTurn

CONSTANT NoTurn

ASSUME NoTurnAssumption == NoTurn \notin Turns

VARIABLES
    conversationId, active,   \* conversationId, the call activeController is of
    opening,                  \* the conversation openConversation fetches
    used,                     \* the ids the page has drawn (history)
    ask,                      \* how far each call of requestAnswer is
    question,                 \* the call whose question this one repeats
    shown,                    \* the answer fetched or shown for each call
    seen                      \* the answers of its conversation the user had
                              \* been shown when he asked (history)

pageVars == <<conversationId, active, opening, used, ask, question, shown, seen>>
vars == <<storeVars, turnVars, pageVars>>

TypeOK ==
    /\ ChatTypeOK
    /\ conversationId \in Conversations \cup {NoConversation}
    /\ active \in Turns \cup {NoTurn}
    /\ opening \in Conversations \cup {NoConversation}
    /\ used \subseteq Conversations
    /\ ask \in [Turns -> {"none", "posted", "recovering", "fetched", "shown",
                          "error", "stopped", "repeated"}]
    /\ question \in [Turns -> Turns]
    /\ shown \in [Turns -> Turns \cup {NoTurn}]
    /\ seen \in [Turns -> SUBSET Turns]

Init ==
    /\ ChatInit
    /\ conversationId = NoConversation /\ active = NoTurn
    /\ opening = NoConversation /\ used = {}
    /\ ask = [t \in Turns |-> "none"]
    /\ question = [t \in Turns |-> t]
    /\ shown = [t \in Turns |-> NoTurn]
    /\ seen = [t \in Turns |-> {}]

ShownIn(c) == {x \in Turns : at[x] = c /\ \E y \in Turns :
                                ask[y] = "shown" /\ shown[y] = x}
Fresh(c) == c \notin used /\ \A d \in Conversations : d < c => d \in used
\* requestAnswer draws an id where the page has none.
Target_Null(c) == c = conversationId
Target(c) == IF conversationId = NoConversation
             THEN c \in Conversations /\ Fresh(c)
             ELSE c = conversationId
NextCall(t) == ask[t] = "none" /\ \A s \in Turns : s < t => ask[s] # "none"

-----------------------------------------------------------------------------

\* requestAnswer, up to the request: q is the question, c the page's
\* conversation or a new id.
RequestAnswer(t, q) ==
    \E c \in Conversations \cup {NoConversation} :
        /\ Target(c)
        /\ conversationId' = c
        /\ used' = used \cup {c}
        /\ active' = t
        /\ Move(t, "sent")
        /\ at' = [at EXCEPT ![t] = c]
        /\ question' = [question EXCEPT ![t] = q]
        /\ seen' = [seen EXCEPT ![t] = ShownIn(c)]
        /\ UNCHANGED <<storeVars, history, noted, opening, shown>>

\* submitMessage
Submit(t) ==
    /\ NextCall(t) /\ active = NoTurn
    /\ RequestAnswer(t, t)
    /\ ask' = [ask EXCEPT ![t] = "posted"]

\* The button of a failed answer repeats its question, also while another
\* question is being answered.
Retry(t, old) ==
    /\ NextCall(t) /\ ask[old] = "error"
    /\ RequestAnswer(t, question[old])
    /\ ask' = [ask EXCEPT ![t] = "posted", ![old] = "repeated"]

\* The finally block of requestAnswer.
Settled_Kept == UNCHANGED active
Settled == active' = NoTurn

\* The answer is shown; if the list of conversations cannot be loaded after
\* that, an error with its button takes the place of the answer.
Show(t) == \E result \in {"shown", "error"} : ask' = [ask EXCEPT ![t] = result]

\* The answer comes when the turn has saved it.
Answered_Early(t) == pc[t] \in {"asked", "done"}
Answered(t) == pc[t] = "done"
Receive(t) ==
    /\ ask[t] = "posted" /\ Answered(t)
    /\ Show(t)
    /\ shown' = [shown EXCEPT ![t] = t]
    /\ conversationId' = at[t]
    /\ Settled
    /\ UNCHANGED <<storeVars, turnVars, opening, used, question, seen>>

\* The server answers with an error, or the connection breaks.
Lose(t) ==
    /\ ask[t] = "posted"
    /\ ask' = [ask EXCEPT ![t] = "recovering"]
    /\ UNCHANGED <<storeVars, turnVars, conversationId, active, opening, used,
                   question, shown, seen>>

\* recoverLatest reads /chat/latest of the conversation the page is in now.
Fetch(t) ==
    /\ ask[t] = "recovering"
    /\ conversationId # NoConversation /\ conversationId \in listed
    /\ \E x \in Turns : /\ IsLatestAnswer(conversationId, x)
                        /\ shown' = [shown EXCEPT ![t] = x]
    /\ ask' = [ask EXCEPT ![t] = "fetched"]
    /\ UNCHANGED <<storeVars, turnVars, conversationId, active, opening, used,
                   question, seen>>

Recover(t) ==
    /\ ask[t] = "fetched"
    /\ Show(t)
    /\ conversationId' = at[shown[t]]
    /\ Settled
    /\ UNCHANGED <<storeVars, turnVars, opening, used, question, shown, seen>>

GiveUp(t) ==
    /\ ask[t] = "recovering"
    /\ ask' = [ask EXCEPT ![t] = "error"]
    /\ Settled
    /\ UNCHANGED <<storeVars, turnVars, conversationId, opening, used, question,
                   shown, seen>>

\* An abort ends the request but not the turn, and a recovery not at all.
Aborted == IF active # NoTurn /\ ask[active] = "posted"
           THEN ask' = [ask EXCEPT ![active] = "stopped"] /\ Settled
           ELSE UNCHANGED <<ask, active>>

Stop ==
    /\ active # NoTurn
    /\ ask[active] = "posted"
    /\ Aborted
    /\ UNCHANGED <<storeVars, turnVars, conversationId, opening, used, question,
                   shown, seen>>

\* resetChat
NewChat ==
    /\ conversationId # NoConversation
    /\ conversationId' = NoConversation
    /\ Aborted
    /\ UNCHANGED <<storeVars, turnVars, opening, used, question, shown, seen>>

\* openConversation looks at activeController before its request only.
Open(c) ==
    /\ opening = NoConversation /\ active = NoTurn
    /\ c \in listed /\ c # conversationId
    /\ opening' = c
    /\ UNCHANGED <<storeVars, turnVars, conversationId, active, used, ask,
                   question, shown, seen>>
Opened ==
    /\ opening # NoConversation
    /\ conversationId' = IF opening \in listed THEN opening ELSE conversationId
    /\ opening' = NoConversation
    /\ UNCHANGED <<storeVars, turnVars, active, used, ask, question, shown, seen>>

Delete(c) ==
    /\ Deleted(c)
    /\ IF c = conversationId
       THEN conversationId' = NoConversation /\ Aborted
       ELSE UNCHANGED <<conversationId, active, ask>>
    /\ UNCHANGED <<opening, used, question, shown, seen>>

Serve(t) == (Work(t) \/ Fail(t)) /\ UNCHANGED pageVars

Next ==
    \/ \E t \in Turns :
          \/ Serve(t) \/ Submit(t) \/ (\E old \in Turns : Retry(t, old))
          \/ Receive(t) \/ Lose(t) \/ Fetch(t) \/ Recover(t) \/ GiveUp(t)
    \/ \E c \in Conversations : Open(c) \/ Delete(c)
    \/ Stop \/ NewChat \/ Opened
    \/ \E n \in Notes : Notify(n) /\ UNCHANGED pageVars
    \/ \E N \in SUBSET Notes : Dismiss(N) /\ UNCHANGED pageVars

\* A turn ends: its rounds and the calls of the provider are bounded.  A
\* request is answered or its connection breaks; recoverLatest ends.
Fairness ==
    \A t \in Turns :
        /\ WF_vars(Serve(t))
        /\ WF_vars(Receive(t) \/ Lose(t))
        /\ WF_vars(Fetch(t) \/ GiveUp(t)) /\ WF_vars(Recover(t))

Spec == Init /\ [][Next]_vars /\ Fairness

-----------------------------------------------------------------------------

\* The history of turn t is full of messages that were stored behind the answer x.
Crowded(t, x) ==
    LET m == messages[at[t]]
    IN  /\ Len(history[t]) = HistoryLimit
        /\ \E i, k \in DOMAIN m :
              /\ m[i] = Message("assistant", x) /\ i <= k
              /\ \A j \in 1 .. HistoryLimit :
                    k + j \in DOMAIN m /\ history[t][j] = m[k + j]

\* What the user has been shown in a conversation, the model knows when it
\* answers his next question there, unless newer messages fill its history or
\* the conversation was deleted: answers are saved before they are returned and
\* history is read after the question arrives.
SeenAnswersAreInHistory ==
    \A t \in Turns :
        pc[t] \in {"read", "thinking", "marked", "asked", "done"} =>
            \A x \in seen[t] : \/ Message("assistant", x) \in ToSet(history[t]) \cup wiped
                               \/ Crowded(t, x)

\* The page accepts another question in the end.
PageComesBack == active # NoTurn ~> active = NoTurn

\* "The connection broke for a moment; the stored answer is being recovered"
\* (assistant.js): the answer shown for a question is an answer to it.
ShownAnswersQuestion ==
    \A t \in Turns : ask[t] = "shown" => question[shown[t]] = question[t]
-----------------------------------------------------------------------------
(* The inductive invariant behind the safety properties *)

\* A turn that has begun has its conversation.
Placed == \A t \in Turns : pc[t] # "new" => at[t] \in Conversations

\* What is shown was fetched.
ShownInv == \A t \in Turns : ask[t] \in {"fetched", "shown"} => shown[t] \in Turns

\* A message once saved is in its turn's conversation or was deleted with it.
Kept(role, t) == Message(role, t) \in Stored(at[t]) \cup wiped

\* Only what a turn took along is marked read by a turn.
NoticeTaken ==
    \A n \in Notes : note[n] = "read" =>
        \E t \in Turns : n \in noted[t] /\ pc[t] \in {"marked", "asked", "done", "torn"}

\* What the server has saved, and where.
SavedInv ==
    /\ \A c \in Conversations : \A m \in Stored(c) : at[m.turn] = c /\ pc[m.turn] # "new"
    /\ \A t \in Turns : pc[t] = "asked" => Kept("user", t)
    /\ \A t \in Turns : pc[t] = "done" => Kept("assistant", t)
    /\ AnswerFollowsQuestion
    /\ NoticeTaken

\* An answer the page may know of.
Told(x) == pc[x] # "new" /\ Kept("assistant", x)

\* The page knows only answers that were saved, and those it has seen in a
\* conversation were saved there.
PageInv ==
    /\ \A t \in Turns : ask[t] = "none" <=> pc[t] = "new"
    /\ \A t, x \in Turns : ask[t] \in {"fetched", "shown"} /\ shown[t] = x => Told(x)
    /\ \A t, x \in Turns : x \in seen[t] => at[x] = at[t] /\ Told(x)
    /\ SeenAnswersAreInHistory

IInv == TypeOK /\ Placed /\ ShownInv /\ SavedInv /\ PageInv
=============================================================================
