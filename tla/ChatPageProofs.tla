--------------------------- MODULE ChatPageProofs ---------------------------
(***************************************************************************)
(* The chat for any numbers of turns, conversations and notifications.     *)
(* Places (Placed) and fetched answers (ShownInv) belong to the types:     *)
(* Begin stores the id the turn came with, Recover takes the id the answer *)
(* was stored under.                                                       *)
(***************************************************************************)
EXTENDS ChatPage, TLAPS

TypeInv == TypeOK /\ Placed /\ ShownInv

LEMMA MessageIsMessage ==
    \A t \in Turns : Message("user", t) \in AllMessages
                     /\ Message("assistant", t) \in AllMessages
BY DEF Message, AllMessages, Roles

\* A row more in the conversation of a turn.
LEMMA SavedTypes ==
    ASSUME TypeOK, NEW t \in Turns, NEW role \in Roles, Saved(t, role)
    PROVE  messages' \in [Conversations -> Seq(AllMessages)]
<1>1. Message(role, t) \in AllMessages
  BY DEF Message, AllMessages
<1> DEFINE n == Message(role, t)
<1>2. /\ messages \in [Conversations -> Seq(AllMessages)]
      /\ messages' = [messages EXCEPT ![at[t]] = Append(messages[at[t]], n)]
  BY DEF TypeOK, ChatTypeOK, Saved
<1> HIDE DEF n
<1>3. \A c \in Conversations : Append(messages[c], n) \in Seq(AllMessages)
  BY <1>1, <1>2 DEF n
<1> QED
  BY <1>2, <1>3

\* The messages of a conversation are rows; the newest of them are a history.
LEMMA RecentTypes ==
    ASSUME TypeOK, NEW c \in Conversations
    PROVE  Recent(c) \in Seq(AllMessages)
<1> DEFINE m == messages[c]
<1>1. m \in Seq(AllMessages) /\ Len(m) \in Nat
  BY DEF TypeOK, ChatTypeOK
<1>2. \A a \in 1 .. (Len(m) + 1) : SubSeq(m, a, Len(m)) \in Seq(AllMessages)
  <2> HIDE DEF m
  <2> QED
    BY <1>1
<1> QED
  BY <1>1, <1>2, HistoryAssumption DEF Recent

\* What is left of a sequence behind its first k entries.
LEMMA TailOf ==
    ASSUME NEW S, NEW m \in Seq(S), NEW k \in Nat, k < Len(m)
    PROVE  LET r == SubSeq(m, k + 1, Len(m)) IN
           /\ Len(r) = Len(m) - k /\ DOMAIN r = 1 .. (Len(m) - k)
           /\ \A j \in 1 .. (Len(m) - k) : r[j] = m[k + j]
OBVIOUS

\* A message of a conversation is in its newest messages, or before them, and
\* they are as many as a history takes.
LEMMA RecentHas ==
    ASSUME TypeOK, NEW c \in Conversations, NEW i \in DOMAIN messages[c]
    PROVE  LET m == messages[c]  k == Len(m) - HistoryLimit IN
           \/ m[i] \in ToSet(Recent(c))
           \/ /\ Len(Recent(c)) = HistoryLimit
              /\ k \in DOMAIN m /\ i <= k
              /\ \A j \in 1 .. HistoryLimit :
                    k + j \in DOMAIN m /\ Recent(c)[j] = m[k + j]
<1> DEFINE m == messages[c]
           k == Len(m) - HistoryLimit
           r == Recent(c)
<1>1. m \in Seq(AllMessages) /\ Len(m) \in Nat /\ DOMAIN m = 1 .. Len(m)
  BY DEF TypeOK, ChatTypeOK
<1>2. HistoryLimit \in Nat \ {0}
  BY HistoryAssumption
<1>3. r = SubSeq(m, IF Len(m) > HistoryLimit THEN k + 1 ELSE 1, Len(m))
  BY <1>1, <1>2 DEF Recent
<1>4. CASE Len(m) > HistoryLimit
  <2>1. r = SubSeq(m, k + 1, Len(m))
    BY <1>3, <1>4
  <2>2. k \in Nat \ {0} /\ k < Len(m) /\ Len(m) - k = HistoryLimit
    BY <1>1, <1>2, <1>4
  <2> HIDE DEF m, k, r
  <2>3. /\ Len(r) = HistoryLimit /\ DOMAIN r = 1 .. HistoryLimit
        /\ \A j \in 1 .. HistoryLimit : r[j] = m[k + j]
    BY <1>1, <2>1, <2>2, TailOf
  <2>4. CASE i <= k
    <3>1. k \in DOMAIN m /\ \A j \in 1 .. HistoryLimit : k + j \in DOMAIN m
      BY <1>1, <1>2, <2>2
    <3> QED
      BY <2>3, <2>4, <3>1 DEF m, r, k
  <2>5. CASE i > k
    <3>1. i - k \in 1 .. HistoryLimit /\ k + (i - k) = i
      BY <1>1, <1>2, <2>2, <2>5 DEF m
    <3>2. m[i] = r[i - k] /\ i - k \in DOMAIN r
      BY <2>3, <3>1
    <3>3. m[i] \in ToSet(r)
      BY <3>2 DEF ToSet
    <3> QED
      BY <3>3 DEF m, r
  <2> QED
    BY <1>1, <2>2, <2>4, <2>5 DEF m
<1>5. CASE ~ (Len(m) > HistoryLimit)
  <2>1. r = SubSeq(m, 1, Len(m))
    BY <1>3, <1>5
  <2>2. i \in 1 .. Len(m)
    BY <1>1
  <2> HIDE DEF m, r
  <2>3. r[i] = m[i] /\ i \in DOMAIN r
    BY <1>1, <2>1, <2>2
  <2>4. m[i] \in ToSet(r)
    BY <2>3 DEF ToSet
  <2> QED
    BY <2>4 DEF m, r
<1> QED
  BY <1>4, <1>5

\* A call of requestAnswer has a conversation.
LEMMA TargetIsConversation ==
    ASSUME TypeOK, NEW c, Target(c)
    PROVE  c \in Conversations
BY ConversationAssumption DEF TypeOK, Target

LEMMA AbortedTypes ==
    ASSUME TypeInv, Aborted, shown' = shown
    PROVE  /\ active' \in Turns \cup {NoTurn}
           /\ ask' \in [Turns -> {"none", "posted", "recovering", "fetched",
                                  "shown", "error", "stopped", "repeated"}]
           /\ ShownInv'
BY DEF TypeInv, TypeOK, Aborted, Settled, ShownInv

LEMMA RequestTypes ==
    ASSUME TypeInv, NEW t \in Turns, NEW q \in Turns, RequestAnswer(t, q)
    PROVE  /\ conversationId' \in Conversations /\ active' = t
           /\ used' \subseteq Conversations
           /\ pc' \in [Turns -> {"new", "sent", "begun", "read", "thinking",
                                 "marked", "asked", "done", "failed", "torn"}]
           /\ at' \in [Turns -> Conversations \cup {NoConversation}]
           /\ question' \in [Turns -> Turns]
           /\ seen' \in [Turns -> SUBSET Turns]
           /\ Placed'
           /\ UNCHANGED <<storeVars, history, noted, opening, shown>>
<1>1. PICK c \in Conversations \cup {NoConversation} :
        /\ Target(c)
        /\ conversationId' = c
        /\ used' = used \cup {c}
        /\ active' = t
        /\ Move(t, "sent")
        /\ at' = [at EXCEPT ![t] = c]
        /\ question' = [question EXCEPT ![t] = q]
        /\ seen' = [seen EXCEPT ![t] = ShownIn(c)]
        /\ UNCHANGED <<storeVars, history, noted, opening, shown>>
  BY DEF RequestAnswer
<1>2. c \in Conversations
  BY <1>1, TargetIsConversation DEF TypeInv
<1>3. ShownIn(c) \subseteq Turns
  BY DEF ShownIn
<1>4. Placed'
  BY <1>1, <1>2 DEF TypeInv, TypeOK, ChatTypeOK, Placed, Move
<1> QED
  BY <1>1, <1>2, <1>3, <1>4 DEF TypeInv, TypeOK, ChatTypeOK, Move

-----------------------------------------------------------------------------

\* Types: rows, turns and the page hold the values they may hold.
THEOREM ChatTypeCorrect == Spec => []TypeInv
<1>1. Init => TypeInv
  BY NoteAssumption DEF Init, ChatInit, TypeInv, TypeOK, ChatTypeOK, Placed,
     ShownInv, AllMessages
<1>2. TypeInv /\ [Next]_vars => TypeInv'
  <2> SUFFICES ASSUME TypeInv, [Next]_vars PROVE TypeInv'
    OBVIOUS
  <2> USE DEF storeVars, turnVars, pageVars
  <2>1. ASSUME NEW t \in Turns, Serve(t) PROVE TypeInv'
    <3>1. CASE Begin(t)
      BY <2>1, <3>1 DEF Serve, Begin, Move, TypeInv, TypeOK, ChatTypeOK, Placed,
         ShownInv
    <3>2. CASE ReadHistory(t)
      <4>1. Recent(at[t]) \in Seq(AllMessages)
        BY <3>2, RecentTypes DEF TypeInv, Placed, ReadHistory
      <4>2. history' \in [Turns -> Seq(AllMessages)]
        BY <3>2, <4>1 DEF ReadHistory, TypeInv, TypeOK, ChatTypeOK
      <4>3. /\ pc[t] = "begun" /\ pc' = [pc EXCEPT ![t] = "read"]
            /\ UNCHANGED <<storeVars, at, noted, pageVars>>
        BY <2>1, <3>2 DEF Serve, ReadHistory, Move
      <4> QED
        BY <4>2, <4>3 DEF TypeInv, TypeOK, ChatTypeOK, Placed, ShownInv
    <3>3. CASE ReadNotes(t)
      <4>1. Newest(Unread) \subseteq Notes
        BY DEF Newest, Unread
      <4>2. noted' \in [Turns -> SUBSET Notes]
        BY <3>3, <4>1 DEF ReadNotes, TypeInv, TypeOK, ChatTypeOK
      <4>3. /\ pc[t] = "read" /\ pc' = [pc EXCEPT ![t] = "thinking"]
            /\ UNCHANGED <<storeVars, at, history, pageVars>>
        BY <2>1, <3>3 DEF Serve, ReadNotes, Move
      <4> QED
        BY <4>2, <4>3 DEF TypeInv, TypeOK, ChatTypeOK, Placed, ShownInv
    <3>4. CASE MarkRead(t)
      BY <2>1, <3>4 DEF Serve, MarkRead, SetRead, Move, TypeInv, TypeOK,
         ChatTypeOK, Placed, ShownInv
    <3>5. CASE SaveQuestion(t)
      <4>1. messages' \in [Conversations -> Seq(AllMessages)]
        BY <3>5, SavedTypes DEF SaveQuestion, TypeInv, Roles
      <4> QED
        BY <2>1, <3>5, <4>1 DEF Serve, SaveQuestion, Move, TypeInv, TypeOK,
           ChatTypeOK, Placed, ShownInv
    <3>6. CASE SaveAnswer(t)
      <4>1. messages' \in [Conversations -> Seq(AllMessages)]
        BY <3>6, SavedTypes DEF SaveAnswer, TypeInv, Roles
      <4> QED
        BY <2>1, <3>6, <4>1 DEF Serve, SaveAnswer, Move, TypeInv, TypeOK,
           ChatTypeOK, Placed, ShownInv
    <3>7. CASE Fail(t)
      BY <2>1, <3>7 DEF Serve, Fail, Running, Move, TypeInv, TypeOK, ChatTypeOK,
         Placed, ShownInv
    <3> QED
      BY <2>1, <3>1, <3>2, <3>3, <3>4, <3>5, <3>6, <3>7 DEF Serve, Work
  <2>2. ASSUME NEW t \in Turns, Submit(t) PROVE TypeInv'
    BY <2>2, RequestTypes DEF Submit, TypeInv, TypeOK, ChatTypeOK, ShownInv
  <2>3. ASSUME NEW t \in Turns, NEW old \in Turns, Retry(t, old) PROVE TypeInv'
    <3>1. question[old] \in Turns
      BY DEF TypeInv, TypeOK
    <3> QED
      BY <2>3, <3>1, RequestTypes DEF Retry, TypeInv, TypeOK, ChatTypeOK, ShownInv
  <2>4. ASSUME NEW t \in Turns, Receive(t) PROVE TypeInv'
    BY <2>4 DEF Receive, Show, Settled, TypeInv, TypeOK, ChatTypeOK, Placed,
       ShownInv
  <2>5. ASSUME NEW t \in Turns, Lose(t) PROVE TypeInv'
    BY <2>5 DEF Lose, TypeInv, TypeOK, ChatTypeOK, Placed, ShownInv
  <2>6. ASSUME NEW t \in Turns, Fetch(t) PROVE TypeInv'
    BY <2>6 DEF Fetch, TypeInv, TypeOK, ChatTypeOK, Placed, ShownInv
  <2>7. ASSUME NEW t \in Turns, Recover(t) PROVE TypeInv'
    BY <2>7 DEF Recover, Show, Settled, TypeInv, TypeOK, ChatTypeOK, Placed,
       ShownInv
  <2>8. ASSUME NEW t \in Turns, GiveUp(t) PROVE TypeInv'
    BY <2>8 DEF GiveUp, Settled, TypeInv, TypeOK, ChatTypeOK, Placed, ShownInv
  <2>9. ASSUME NEW c \in Conversations, Open(c) PROVE TypeInv'
    BY <2>9 DEF Open, TypeInv, TypeOK, ChatTypeOK, Placed, ShownInv
  <2>10. ASSUME NEW c \in Conversations, Delete(c) PROVE TypeInv'
    <3>1. Stored(c) \subseteq AllMessages
      BY DEF TypeInv, TypeOK, ChatTypeOK, Stored, ToSet
    <3>2. ChatTypeOK' /\ Placed'
      BY <2>10, <3>1 DEF Delete, Deleted, TypeInv, TypeOK, ChatTypeOK, Placed
    <3>3. /\ active' \in Turns \cup {NoTurn}
          /\ ask' \in [Turns -> {"none", "posted", "recovering", "fetched",
                                 "shown", "error", "stopped", "repeated"}]
          /\ ShownInv'
      <4>1. CASE c = conversationId
        BY <2>10, <4>1, AbortedTypes DEF Delete
      <4>2. CASE c # conversationId
        BY <2>10, <4>2 DEF Delete, TypeInv, TypeOK, ShownInv
      <4> QED
        BY <4>1, <4>2
    <3> QED
      BY <2>10, <3>2, <3>3 DEF Delete, TypeInv, TypeOK
  <2>11. ASSUME Stop PROVE TypeInv'
    BY <2>11, AbortedTypes DEF Stop, TypeInv, TypeOK, ChatTypeOK, Placed
  <2>12. ASSUME NewChat PROVE TypeInv'
    BY <2>12, AbortedTypes DEF NewChat, TypeInv, TypeOK, ChatTypeOK, Placed
  <2>13. ASSUME Opened PROVE TypeInv'
    BY <2>13 DEF Opened, TypeInv, TypeOK, ChatTypeOK, Placed, ShownInv
  <2>14. ASSUME NEW n \in Notes, Notify(n), UNCHANGED pageVars PROVE TypeInv'
    BY <2>14 DEF Notify, TypeInv, TypeOK, ChatTypeOK, Placed, ShownInv
  <2>15. ASSUME NEW N \in SUBSET Notes, Dismiss(N), UNCHANGED pageVars
         PROVE  TypeInv'
    BY <2>15 DEF Dismiss, SetRead, TypeInv, TypeOK, ChatTypeOK, Placed, ShownInv
  <2>16. CASE UNCHANGED vars
    BY <2>16 DEF vars, TypeInv, TypeOK, ChatTypeOK, Placed, ShownInv
  <2> QED
    BY <2>1, <2>2, <2>3, <2>4, <2>5, <2>6, <2>7, <2>8, <2>9, <2>10, <2>11,
       <2>12, <2>13, <2>14, <2>15, <2>16 DEF Next
<1> QED
  BY <1>1, <1>2, PTL DEF Spec

\* The types alone, as the runs check them.
THEOREM ChatTypesHold == Spec => []TypeOK
<1>1. TypeInv => TypeOK
  BY DEF TypeInv
<1> QED
  BY <1>1, ChatTypeCorrect, PTL

-----------------------------------------------------------------------------
(* What no step undoes *)

\* Messages stay in their places in their conversation until they are deleted
\* with it.
Extended(c) == \A i \in DOMAIN messages[c] :
                  i \in DOMAIN messages'[c] /\ messages'[c][i] = messages[c][i]
Grows == /\ wiped \subseteq wiped'
         /\ \A c \in Conversations : Extended(c) \/ Stored(c) \subseteq wiped'

\* A turn that has begun stays where it is.
Stays == \A t \in Turns : pc[t] # "new" => at'[t] = at[t] /\ pc'[t] # "new"

LEMMA KeptStays ==
    ASSUME Placed, Grows, Stays, NEW t \in Turns, pc[t] # "new",
           NEW role \in Roles, Kept(role, t)
    PROVE  Kept(role, t)'
<1>1. at'[t] = at[t] /\ at[t] \in Conversations
  BY DEF Placed, Stays
<1>2. Stored(at[t]) \subseteq Stored(at[t])' \cup wiped'
  BY <1>1 DEF Grows, Extended, Stored, ToSet
<1> QED
  BY <1>1, <1>2 DEF Kept, Stored, Message, Grows

LEMMA ToldStays ==
    ASSUME Placed, Grows, Stays
    PROVE  \A x \in Turns : Told(x) => Told(x)'
BY KeptStays DEF Told, Stays, Roles

\* A notice that was taken along stays taken.
LEMMA NoticesStay ==
    ASSUME NoticeTaken, \A n \in Notes : note'[n] = "read" => note[n] = "read",
           \A t \in Turns : pc[t] \in {"marked", "asked", "done", "torn"} =>
               /\ pc'[t] \in {"marked", "asked", "done", "torn"}
               /\ noted'[t] = noted[t]
    PROVE  NoticeTaken'
BY DEF NoticeTaken

\* Steps that save and delete nothing and end no turn.
LEMMA SavedFrame ==
    ASSUME SavedInv, Placed, Stays, messages' = messages, wiped' = wiped,
           \A t \in Turns : pc'[t] \in {"asked", "done"} => pc'[t] = pc[t],
           NoticeTaken', TypeOK
    PROVE  SavedInv'
<1>0. Grows
  BY DEF Grows, Extended
<1>1. \A c \in Conversations : \A m \in Stored(c)' : at'[m.turn] = c /\ pc'[m.turn] # "new"
  <2> SUFFICES ASSUME NEW c \in Conversations, NEW m \in Stored(c)
               PROVE  at'[m.turn] = c /\ pc'[m.turn] # "new"
    BY DEF Stored
  <2>1. m \in AllMessages
    BY DEF TypeOK, ChatTypeOK, Stored, ToSet
  <2> QED
    BY <2>1 DEF SavedInv, Stays, AllMessages
<1>2. \A t \in Turns : pc'[t] = "asked" => Kept("user", t)'
  BY <1>0, KeptStays DEF SavedInv, Roles
<1>3. \A t \in Turns : pc'[t] = "done" => Kept("assistant", t)'
  BY <1>0, KeptStays DEF SavedInv, Roles
<1>4. AnswerFollowsQuestion'
  BY DEF SavedInv, AnswerFollowsQuestion
<1> QED
  BY <1>1, <1>2, <1>3, <1>4 DEF SavedInv

\* A row more at the end of the turn's conversation.
LEMMA SavedRow ==
    ASSUME TypeOK, NEW t \in Turns, at[t] \in Conversations, NEW role \in Roles,
           Saved(t, role), at' = at
    PROVE  LET c == at[t]  n == Len(messages[c]) + 1 IN
           /\ Len(messages[c]) \in Nat
           /\ DOMAIN messages[c] = 1 .. Len(messages[c])
           /\ DOMAIN messages'[c] = 1 .. n
           /\ messages'[c][n] = Message(role, t)
           /\ \A i \in DOMAIN messages[c] : messages'[c][i] = messages[c][i]
           /\ \A d \in Conversations : d # c => messages'[d] = messages[d]
           /\ Stored(c)' = Stored(c) \cup {Message(role, t)}
<1> DEFINE c == at[t]
           n == Message(role, t)
           old == messages[c]
<1>1. messages \in [Conversations -> Seq(AllMessages)] /\ n \in AllMessages
  BY DEF TypeOK, ChatTypeOK, Message, AllMessages
<1>2. messages' = [messages EXCEPT ![c] = Append(old, n)]
  BY DEF Saved
<1>3. messages'[c] = Append(old, n) /\ \A d \in Conversations : d # c => messages'[d] = messages[d]
  BY <1>1, <1>2
<1>4. old \in Seq(AllMessages)
  BY <1>1
<1>5. /\ Len(old) \in Nat /\ DOMAIN old = 1 .. Len(old)
      /\ DOMAIN Append(old, n) = 1 .. (Len(old) + 1)
      /\ Append(old, n)[Len(old) + 1] = n
      /\ \A i \in DOMAIN old : Append(old, n)[i] = old[i]
  <2> HIDE DEF n, old
  <2> QED
    BY <1>1, <1>4
<1>6. Stored(c)' = Stored(c) \cup {n}
  <2>1. Stored(c) = {old[i] : i \in DOMAIN old}
    BY DEF Stored, ToSet
  <2>2. Stored(c)' = {Append(old, n)[i] : i \in DOMAIN Append(old, n)}
    BY <1>3 DEF Stored, ToSet
  <2>3. DOMAIN Append(old, n) = DOMAIN old \cup {Len(old) + 1}
    BY <1>5
  <2> HIDE DEF n, old
  <2> QED
    BY <1>5, <2>1, <2>2, <2>3
<1> QED
  BY <1>3, <1>5, <1>6

\* _save leaves what is stored true, and leaves it stored.
LEMMA SavedKeeps ==
    ASSUME TypeInv, SavedInv, NEW t \in Turns, NEW role \in Roles,
           NEW to \in {"asked", "done"}, pc[t] # "new", Move(t, to), Saved(t, role),
           UNCHANGED <<at, wiped, note, noted>>,
           to = "asked" => role = "user" /\ pc[t] = "marked",
           to = "done" => role = "assistant" /\ pc[t] = "asked"
    PROVE  SavedInv' /\ Grows /\ Stays
<1> DEFINE c == at[t]
<1>1. c \in Conversations /\ TypeOK /\ Placed
  BY DEF TypeInv, Placed
<1>2. pc' = [pc EXCEPT ![t] = to] /\ DOMAIN pc = Turns
  BY DEF Move, TypeInv, TypeOK, ChatTypeOK
<1>3. Stays
  BY <1>2 DEF Stays
<1>4. /\ Stored(c)' = Stored(c) \cup {Message(role, t)}
      /\ \A d \in Conversations : d # c => Stored(d)' = Stored(d)
  BY <1>1, SavedRow DEF Stored
<1>5. Grows
  <2>1. Extended(c)
    BY <1>1, SavedRow DEF Extended
  <2>2. \A d \in Conversations : d # c => Extended(d)
    BY <1>1, SavedRow DEF Extended
  <2> QED
    BY <2>1, <2>2 DEF Grows
<1>6. \A d \in Conversations : \A m \in Stored(d)' : at'[m.turn] = d /\ pc'[m.turn] # "new"
  <2> SUFFICES ASSUME NEW d \in Conversations, NEW m, m \in Stored(d)'
               PROVE  at'[m.turn] = d /\ pc'[m.turn] # "new"
    OBVIOUS
  <2>1. CASE m \in Stored(d)
    <3>1. m \in AllMessages
      BY <1>1, <2>1 DEF TypeOK, ChatTypeOK, Stored, ToSet
    <3> QED
      BY <2>1, <3>1, <1>2 DEF SavedInv, AllMessages
  <2>2. CASE m \notin Stored(d)
    <3>1. d = c /\ m = Message(role, t)
      BY <1>4, <2>2
    <3> QED
      BY <3>1, <1>2 DEF Message
  <2> QED
    BY <2>1, <2>2
<1>7. \A u \in Turns : pc'[u] = "asked" => Kept("user", u)'
  <2> SUFFICES ASSUME NEW u \in Turns, pc'[u] = "asked" PROVE Kept("user", u)'
    OBVIOUS
  <2>1. CASE u = t
    <3>1. role = "user"
      BY <1>2, <2>1
    <3> QED
      BY <1>4, <2>1, <3>1 DEF Kept, Message, Stored
  <2>2. CASE u # t
    <3>1. pc[u] = "asked"
      BY <1>2, <2>2
    <3> QED
      BY <1>1, <1>3, <1>5, <3>1, KeptStays DEF SavedInv, Roles
  <2> QED
    BY <2>1, <2>2
<1>8. \A u \in Turns : pc'[u] = "done" => Kept("assistant", u)'
  <2> SUFFICES ASSUME NEW u \in Turns, pc'[u] = "done" PROVE Kept("assistant", u)'
    OBVIOUS
  <2>1. CASE u = t
    <3>1. role = "assistant"
      BY <1>2, <2>1
    <3> QED
      BY <1>4, <2>1, <3>1 DEF Kept, Message, Stored
  <2>2. CASE u # t
    <3>1. pc[u] = "done"
      BY <1>2, <2>2
    <3> QED
      BY <1>1, <1>3, <1>5, <3>1, KeptStays DEF SavedInv, Roles
  <2> QED
    BY <2>1, <2>2
<1>9. AnswerFollowsQuestion'
  <2> SUFFICES ASSUME NEW d \in Conversations, NEW i \in DOMAIN messages'[d],
                      messages'[d][i].role = "assistant"
               PROVE  \/ \E j \in 1 .. (i - 1) :
                            messages'[d][j] = Message("user", messages'[d][i].turn)
                      \/ Message("user", messages'[d][i].turn) \in wiped'
    BY DEF AnswerFollowsQuestion
  <2> DEFINE n == Len(messages[c]) + 1
  <2>1. /\ Len(messages[c]) \in Nat
        /\ DOMAIN messages[c] = 1 .. Len(messages[c])
        /\ DOMAIN messages'[c] = 1 .. n
        /\ messages'[c][n] = Message(role, t)
        /\ \A k \in DOMAIN messages[c] : messages'[c][k] = messages[c][k]
        /\ \A e \in Conversations : e # c => messages'[e] = messages[e]
    BY <1>1, SavedRow
  <2>2. CASE d # c
    BY <2>1, <2>2 DEF SavedInv, AnswerFollowsQuestion
  <2>3. CASE d = c /\ i \in DOMAIN messages[c]
    <3>1. messages'[c][i] = messages[c][i]
      BY <2>1, <2>3
    <3>2. \/ \E j \in 1 .. (i - 1) :
                messages[c][j] = Message("user", messages[c][i].turn)
          \/ Message("user", messages[c][i].turn) \in wiped
      BY <1>1, <2>3, <3>1 DEF SavedInv, AnswerFollowsQuestion
    <3>3. \A j \in 1 .. (i - 1) : j \in DOMAIN messages[c]
      BY <2>1, <2>3
    <3> QED
      BY <2>1, <2>3, <3>1, <3>2, <3>3
  <2>4. CASE d = c /\ i \notin DOMAIN messages[c]
    <3>1. i = n
      BY <2>1, <2>4
    <3>2. messages'[c][i] = Message(role, t)
      BY <2>1, <3>1
    <3>3. role = "assistant"
      BY <2>4, <3>2 DEF Message
    <3>4. pc[t] = "asked"
      BY <3>3
    <3>5. Message("user", t) \in Stored(c) \cup wiped
      BY <3>4 DEF SavedInv, Kept
    <3>6. messages'[c][i].turn = t
      BY <3>2 DEF Message
    <3>7. CASE Message("user", t) \in Stored(c)
      <4>1. PICK j \in DOMAIN messages[c] : messages[c][j] = Message("user", t)
        BY <3>7 DEF Stored, ToSet
      <4>2. j \in 1 .. (i - 1)
        BY <2>1, <3>1
      <4> QED
        BY <2>1, <2>4, <3>6, <4>1, <4>2
    <3>8. CASE Message("user", t) \in wiped
      BY <2>4, <3>6, <3>8
    <3> QED
      BY <3>5, <3>7, <3>8
  <2> QED
    BY <2>2, <2>3, <2>4
<1>10. NoticeTaken'
  BY <1>2, NoticesStay DEF SavedInv
<1> QED
  BY <1>3, <1>5, <1>6, <1>7, <1>8, <1>9, <1>10 DEF SavedInv

\* So does delete_conversation.
LEMMA DeletedKeeps ==
    ASSUME TypeInv, SavedInv, NEW c \in Conversations, Deleted(c)
    PROVE  SavedInv' /\ Grows /\ Stays
<1>1. /\ messages \in [Conversations -> Seq(AllMessages)]
      /\ messages' = [messages EXCEPT ![c] = << >>]
      /\ wiped' = wiped \cup Stored(c)
      /\ UNCHANGED <<note, turnVars>>
  BY DEF Deleted, TypeInv, TypeOK, ChatTypeOK
<1>2. messages'[c] = << >> /\ \A d \in Conversations : d # c => messages'[d] = messages[d]
  BY <1>1
<1>3. Stored(c)' = {} /\ \A d \in Conversations : d # c => Stored(d)' = Stored(d)
  BY <1>2 DEF Stored, ToSet
<1>4. Stays /\ Grows
  BY <1>1, <1>2 DEF Stays, Grows, Extended, turnVars
<1>5. \A d \in Conversations : \A m \in Stored(d)' : at'[m.turn] = d /\ pc'[m.turn] # "new"
  BY <1>1, <1>3 DEF SavedInv, turnVars
<1>6. \A u \in Turns : pc'[u] = "asked" => Kept("user", u)'
  BY <1>1, <1>4, KeptStays DEF SavedInv, Roles, TypeInv, turnVars
<1>7. \A u \in Turns : pc'[u] = "done" => Kept("assistant", u)'
  BY <1>1, <1>4, KeptStays DEF SavedInv, Roles, TypeInv, turnVars
<1>8. AnswerFollowsQuestion'
  <2>1. DOMAIN messages'[c] = {}
    BY <1>2
  <2> QED
    BY <1>1, <1>2, <2>1 DEF SavedInv, AnswerFollowsQuestion
<1>9. NoticeTaken'
  BY <1>1 DEF SavedInv, NoticeTaken, turnVars
<1> QED
  BY <1>4, <1>5, <1>6, <1>7, <1>8, <1>9 DEF SavedInv
-----------------------------------------------------------------------------
(* The page *)

\* Steps that ask no question: what the page knows remains true.
LEMMA PageKeeps ==
    ASSUME Placed, Grows, Stays, PageInv, at' = at, seen' = seen,
           \A t \in Turns : ask'[t] = "none" <=> pc'[t] = "new",
           \A t, x \in Turns : ask'[t] \in {"fetched", "shown"} /\ shown'[t] = x
                               => Told(x),
           SeenAnswersAreInHistory'
    PROVE  PageInv'
<1>1. \A t, x \in Turns : ask'[t] \in {"fetched", "shown"} /\ shown'[t] = x => Told(x)'
  BY ToldStays
<1>2. \A t, x \in Turns : x \in seen'[t] => at'[x] = at'[t] /\ Told(x)'
  BY ToldStays DEF PageInv
<1> QED
  BY <1>1, <1>2 DEF PageInv

\* History that was read is not read again, and what crowds an answer out of it
\* stays behind the answer.
LEMMA HistoryStays ==
    ASSUME Placed, PageInv, Grows, Stays, seen' = seen,
           \A t \in Turns : pc'[t] \in {"read", "thinking", "marked", "asked", "done"} =>
               /\ pc[t] \in {"read", "thinking", "marked", "asked", "done"}
               /\ history'[t] = history[t]
    PROVE  SeenAnswersAreInHistory'
<1> SUFFICES ASSUME NEW t \in Turns, NEW x \in seen[t],
                    pc'[t] \in {"read", "thinking", "marked", "asked", "done"}
             PROVE  \/ Message("assistant", x) \in ToSet(history[t]) \cup wiped'
                    \/ Crowded(t, x)'
  BY DEF SeenAnswersAreInHistory, Message
<1>1. /\ pc[t] \in {"read", "thinking", "marked", "asked", "done"}
      /\ history'[t] = history[t] /\ at'[t] = at[t] /\ at[t] \in Conversations
  BY DEF Placed, Stays
<1>2. \/ Message("assistant", x) \in ToSet(history[t]) \cup wiped
      \/ Crowded(t, x)
  BY <1>1 DEF PageInv, SeenAnswersAreInHistory
<1>3. CASE Message("assistant", x) \in ToSet(history[t]) \cup wiped
  BY <1>3 DEF Grows
<1>4. CASE Crowded(t, x)
  <2> DEFINE m == messages[at[t]]
  <2>1. /\ Len(history[t]) = HistoryLimit
        /\ \E i, k \in DOMAIN m :
              /\ m[i] = Message("assistant", x) /\ i <= k
              /\ \A j \in 1 .. HistoryLimit :
                    k + j \in DOMAIN m /\ history[t][j] = m[k + j]
    BY <1>4 DEF Crowded
  <2>2. PICK i, k \in DOMAIN m :
              /\ m[i] = Message("assistant", x) /\ i <= k
              /\ \A j \in 1 .. HistoryLimit :
                    k + j \in DOMAIN m /\ history[t][j] = m[k + j]
    BY <2>1
  <2>3. CASE Extended(at[t])
    <3>1. /\ i \in DOMAIN messages'[at[t]] /\ k \in DOMAIN messages'[at[t]]
          /\ messages'[at[t]][i] = Message("assistant", x) /\ i <= k
          /\ \A j \in 1 .. HistoryLimit :
                /\ k + j \in DOMAIN messages'[at[t]]
                /\ history[t][j] = messages'[at[t]][k + j]
      BY <2>2, <2>3 DEF Extended
    <3> QED
      BY <1>1, <2>1, <3>1 DEF Crowded, Message
  <2>4. CASE Stored(at[t]) \subseteq wiped'
    BY <2>2, <2>4 DEF Stored, ToSet
  <2> QED
    BY <1>1, <2>3, <2>4 DEF Grows
<1> QED
  BY <1>2, <1>3, <1>4

\* Steps of the page alone.
LEMMA PageOnly ==
    ASSUME TypeInv, SavedInv, PageInv, UNCHANGED <<storeVars, turnVars, seen>>,
           \A t \in Turns : ask'[t] = "none" <=> ask[t] = "none",
           \A t, x \in Turns : ask'[t] \in {"fetched", "shown"} /\ shown'[t] = x
                               => Told(x)
    PROVE  SavedInv' /\ PageInv'
<1> USE DEF storeVars, turnVars
<1>1. Stays /\ Grows
  BY DEF Stays, Grows, Extended
<1>2. NoticeTaken'
  BY NoticesStay DEF SavedInv
<1>3. SavedInv'
  BY <1>1, <1>2, SavedFrame DEF TypeInv
<1>4. \A t \in Turns : ask'[t] = "none" <=> pc'[t] = "new"
  BY DEF PageInv
<1>5. SeenAnswersAreInHistory'
  BY <1>1, HistoryStays DEF TypeInv
<1> QED
  BY <1>1, <1>3, <1>4, <1>5, PageKeeps DEF TypeInv

\* An abort shows nothing.
LEMMA AbortedShows ==
    ASSUME TypeInv, PageInv, Aborted, shown' = shown
    PROVE  /\ \A t \in Turns : ask'[t] = "none" <=> ask[t] = "none"
           /\ \A t, x \in Turns : ask'[t] \in {"fetched", "shown"} /\ shown'[t] = x
                                  => Told(x)
BY DEF TypeInv, TypeOK, PageInv, Aborted, Settled

\* A question is asked: the answers shown so far go with it.
LEMMA RequestKeeps ==
    ASSUME TypeInv, SavedInv, PageInv, NEW t \in Turns, NEW q \in Turns,
           ask[t] = "none", RequestAnswer(t, q), ask'[t] = "posted",
           \A u \in Turns : u # t =>
               ask'[u] = ask[u] \/ (ask[u] = "error" /\ ask'[u] = "repeated")
    PROVE  SavedInv' /\ PageInv'
<1> USE DEF storeVars
<1>1. PICK c :
        /\ pc' = [pc EXCEPT ![t] = "sent"]
        /\ at' = [at EXCEPT ![t] = c]
        /\ seen' = [seen EXCEPT ![t] = ShownIn(c)]
        /\ UNCHANGED <<storeVars, history, noted, shown>>
  BY DEF RequestAnswer, Move
<1>2. pc[t] = "new"
  BY DEF PageInv
<1>3. DOMAIN pc = Turns /\ DOMAIN at = Turns /\ DOMAIN seen = Turns
      /\ TypeOK /\ Placed
  BY DEF TypeInv, TypeOK, ChatTypeOK
<1>4. Stays /\ Grows
  BY <1>1, <1>2, <1>3 DEF Stays, Grows, Extended
<1>5. NoticeTaken'
  BY <1>1, <1>2, <1>3, NoticesStay DEF SavedInv
<1>6. \A u \in Turns : pc'[u] \in {"asked", "done"} => pc'[u] = pc[u]
  BY <1>1, <1>3
<1>7. SavedInv'
  BY <1>1, <1>3, <1>4, <1>5, <1>6, SavedFrame
<1>8. \A u \in Turns : ask'[u] = "none" <=> pc'[u] = "new"
  BY <1>1, <1>3 DEF PageInv
<1>9. \A u, x \in Turns : ask'[u] \in {"fetched", "shown"} /\ shown'[u] = x => Told(x)'
  BY <1>1, <1>3, <1>4, ToldStays DEF PageInv
<1>10. \A u, x \in Turns : x \in seen'[u] => at'[x] = at'[u] /\ Told(x)'
  <2> SUFFICES ASSUME NEW u \in Turns, NEW x \in Turns, x \in seen'[u]
               PROVE  at'[x] = at'[u] /\ Told(x)'
    OBVIOUS
  <2>1. CASE u = t
    <3>1. at[x] = c /\ Told(x)
      BY <1>1, <1>3, <2>1 DEF ShownIn, PageInv
    <3>2. x # t
      BY <1>2, <3>1 DEF Told
    <3> QED
      BY <1>1, <1>3, <1>4, <2>1, <3>1, <3>2, ToldStays
  <2>2. CASE u # t
    <3>1. at[x] = at[u] /\ Told(x)
      BY <1>1, <1>3, <2>2 DEF PageInv
    <3>2. x # t
      BY <1>2, <3>1 DEF Told
    <3> QED
      BY <1>1, <1>3, <1>4, <2>2, <3>1, <3>2, ToldStays
  <2> QED
    BY <2>1, <2>2
<1>11. SeenAnswersAreInHistory'
  <2> SUFFICES ASSUME NEW u \in Turns, NEW x \in seen'[u],
                      pc'[u] \in {"read", "thinking", "marked", "asked", "done"}
               PROVE  \/ Message("assistant", x) \in ToSet(history'[u]) \cup wiped'
                      \/ Crowded(u, x)'
    BY DEF SeenAnswersAreInHistory, Message
  <2>1. u # t
    BY <1>1, <1>3
  <2>2. pc'[u] = pc[u] /\ at'[u] = at[u] /\ seen'[u] = seen[u]
        /\ UNCHANGED <<messages, wiped, history>>
    BY <1>1, <1>3, <2>1
  <2>3. \/ Message("assistant", x) \in ToSet(history[u]) \cup wiped
        \/ Crowded(u, x)
    BY <2>2 DEF PageInv, SeenAnswersAreInHistory
  <2> QED
    BY <2>2, <2>3 DEF Crowded, Message
<1> QED
  BY <1>7, <1>8, <1>9, <1>10, <1>11 DEF PageInv

\* The steps of a turn.
LEMMA ServeKeeps ==
    ASSUME TypeInv, SavedInv, PageInv, NEW t \in Turns, Serve(t)
    PROVE  SavedInv' /\ PageInv'
<1> USE DEF storeVars, turnVars, pageVars
<1>1. TypeOK /\ Placed /\ DOMAIN pc = Turns /\ DOMAIN noted = Turns
      /\ DOMAIN history = Turns
  BY DEF TypeInv, TypeOK, ChatTypeOK
<1>2. \A u \in Turns : ask[u] = "none" <=> pc[u] = "new"
  BY DEF PageInv
<1>3. UNCHANGED pageVars
  BY DEF Serve
<1>4. \A u, x \in Turns : ask'[u] \in {"fetched", "shown"} /\ shown'[u] = x => Told(x)
  BY <1>3 DEF PageInv
<1>5. ASSUME NEW to \in {"begun", "read", "thinking", "marked", "failed", "torn"},
             pc[t] # "new", pc' = [pc EXCEPT ![t] = to],
             UNCHANGED <<at, messages, wiped>>, NoticeTaken',
             SeenAnswersAreInHistory'
      PROVE  SavedInv' /\ PageInv'
  <2>1. Stays /\ Grows
    BY <1>1, <1>5 DEF Stays, Grows, Extended
  <2>2. \A u \in Turns : pc'[u] \in {"asked", "done"} => pc'[u] = pc[u]
    BY <1>1, <1>5
  <2>3. SavedInv'
    BY <1>1, <1>5, <2>1, <2>2, SavedFrame
  <2>4. \A u \in Turns : ask'[u] = "none" <=> pc'[u] = "new"
    BY <1>1, <1>2, <1>3, <1>5
  <2>5. PageInv'
    BY <1>1, <1>3, <1>4, <1>5, <2>1, <2>4, PageKeeps
  <2> QED
    BY <2>3, <2>5
<1>6. ASSUME NEW to \in {"asked", "done"}, NEW role \in Roles,
             Move(t, to), Saved(t, role), UNCHANGED <<at, wiped, note, history, noted>>,
             to = "asked" => role = "user" /\ pc[t] = "marked",
             to = "done" => role = "assistant" /\ pc[t] = "asked"
      PROVE  SavedInv' /\ PageInv'
  <2>1. pc[t] # "new" /\ pc' = [pc EXCEPT ![t] = to]
    BY <1>6 DEF Move
  <2>2. SavedInv' /\ Grows /\ Stays
    BY <1>6, <2>1, SavedKeeps
  <2>3. \A u \in Turns : ask'[u] = "none" <=> pc'[u] = "new"
    BY <1>1, <1>2, <1>3, <2>1
  <2>4. SeenAnswersAreInHistory'
    BY <1>1, <1>3, <1>6, <2>1, <2>2, HistoryStays
  <2>5. PageInv'
    BY <1>1, <1>3, <1>4, <1>6, <2>2, <2>3, <2>4, PageKeeps
  <2> QED
    BY <2>2, <2>5
<1>7. ASSUME NEW to \in {"begun", "thinking", "marked", "failed", "torn"},
             pc[t] # "new", pc' = [pc EXCEPT ![t] = to],
             to \in {"thinking", "marked"} => pc[t] \in {"read", "thinking"},
             UNCHANGED <<messages, wiped, at, history>>
      PROVE  SeenAnswersAreInHistory'
  <2>1. Grows /\ Stays
    BY <1>1, <1>7 DEF Grows, Extended, Stays
  <2> QED
    BY <1>1, <1>3, <1>7, <2>1, HistoryStays
<1>8. CASE Begin(t)
  <2>1. NoticeTaken'
    BY <1>1, <1>8, NoticesStay DEF SavedInv, Begin, Move
  <2>2. SeenAnswersAreInHistory'
    BY <1>7, <1>8 DEF Begin, Move
  <2> QED
    BY <1>5, <1>8, <2>1, <2>2 DEF Begin, Move
<1>9. CASE ReadHistory(t)
  <2>1. NoticeTaken'
    BY <1>1, <1>9, NoticesStay DEF SavedInv, ReadHistory, Move
  <2>2. /\ history' = [history EXCEPT ![t] = Recent(at[t])]
        /\ UNCHANGED <<messages, wiped, at, seen>>
        /\ at[t] \in Conversations
    BY <1>3, <1>9 DEF ReadHistory, TypeInv, Placed
  <2>3. history'[t] = Recent(at[t]) /\ \A u \in Turns : u # t => history'[u] = history[u]
    BY <1>1, <2>2
  <2>4. ASSUME NEW x \in Turns, x \in seen[t]
        PROVE  \/ Message("assistant", x) \in ToSet(history'[t]) \cup wiped'
               \/ Crowded(t, x)'
    <3>1. Message("assistant", x) \in Stored(at[t]) \cup wiped
      BY <2>4 DEF PageInv, Told, Kept
    <3>2. CASE Message("assistant", x) \in wiped
      BY <2>2, <3>2
    <3>3. CASE Message("assistant", x) \in Stored(at[t])
      <4>1. PICK i \in DOMAIN messages[at[t]] :
                messages[at[t]][i] = Message("assistant", x)
        BY <3>3 DEF Stored, ToSet
      <4> DEFINE m == messages[at[t]]
                 k == Len(m) - HistoryLimit
      <4>2. \/ m[i] \in ToSet(Recent(at[t]))
            \/ /\ Len(Recent(at[t])) = HistoryLimit
               /\ k \in DOMAIN m /\ i <= k
               /\ \A j \in 1 .. HistoryLimit :
                     k + j \in DOMAIN m /\ Recent(at[t])[j] = m[k + j]
        BY <1>1, <2>2, RecentHas
      <4>3. CASE m[i] \in ToSet(Recent(at[t]))
        BY <2>3, <4>1, <4>3
      <4>4. CASE /\ Len(Recent(at[t])) = HistoryLimit
                 /\ k \in DOMAIN m /\ i <= k
                 /\ \A j \in 1 .. HistoryLimit :
                       k + j \in DOMAIN m /\ Recent(at[t])[j] = m[k + j]
        <5> HIDE DEF k
        <5>1. /\ Len(history'[t]) = HistoryLimit
              /\ \E a, b \in DOMAIN m :
                    /\ m[a] = Message("assistant", x) /\ a <= b
                    /\ \A j \in 1 .. HistoryLimit :
                          b + j \in DOMAIN m /\ history'[t][j] = m[b + j]
          BY <2>3, <4>1, <4>4
        <5> QED
          BY <2>2, <5>1 DEF Crowded, Message
      <4> QED
        BY <4>2, <4>3, <4>4
    <3> QED
      BY <3>1, <3>2, <3>3
  <2>5. SeenAnswersAreInHistory'
    <3> SUFFICES ASSUME NEW u \in Turns, NEW x \in seen'[u],
                        pc'[u] \in {"read", "thinking", "marked", "asked", "done"}
                 PROVE  \/ Message("assistant", x) \in ToSet(history'[u]) \cup wiped'
                        \/ Crowded(u, x)'
      BY DEF SeenAnswersAreInHistory, Message
    <3>1. x \in Turns
      BY <2>2 DEF TypeInv, TypeOK
    <3>2. CASE u = t
      BY <2>2, <2>4, <3>1, <3>2
    <3>3. CASE u # t
      <4>1. pc[u] \in {"read", "thinking", "marked", "asked", "done"}
        BY <1>1, <1>9, <3>3 DEF ReadHistory, Move
      <4>2. \/ Message("assistant", x) \in ToSet(history[u]) \cup wiped
            \/ Crowded(u, x)
        BY <2>2, <4>1 DEF PageInv, SeenAnswersAreInHistory
      <4> QED
        BY <2>2, <2>3, <3>3, <4>2 DEF Crowded, Message
    <3> QED
      BY <3>2, <3>3
  <2> QED
    BY <1>5, <1>9, <2>1, <2>5 DEF ReadHistory, Move
<1>10. CASE ReadNotes(t)
  <2>1. NoticeTaken'
    BY <1>1, <1>10, NoticesStay DEF SavedInv, ReadNotes, Move
  <2>2. SeenAnswersAreInHistory'
    BY <1>7, <1>10 DEF ReadNotes, Move
  <2> QED
    BY <1>5, <1>10, <2>1, <2>2 DEF ReadNotes, Move
<1>11. CASE MarkRead(t)
  <2>1. NoticeTaken'
    BY <1>1, <1>11 DEF SavedInv, NoticeTaken, MarkRead, Marked, SetRead, Move
  <2>2. SeenAnswersAreInHistory'
    BY <1>7, <1>11 DEF MarkRead, Move
  <2> QED
    BY <1>5, <1>11, <2>1, <2>2 DEF MarkRead, Move
<1>12. CASE SaveQuestion(t)
  BY <1>6, <1>12 DEF SaveQuestion, Roles
<1>13. CASE SaveAnswer(t)
  BY <1>6, <1>13 DEF SaveAnswer, Roles
<1>14. CASE Fail(t)
  <2>1. NoticeTaken'
    <3>1. PICK to \in {"failed", "torn"} :
              /\ pc' = [pc EXCEPT ![t] = to]
              /\ pc[t] \in {"marked", "asked"} => to = "torn"
              /\ pc[t] # "done" /\ pc[t] # "torn"
      BY <1>14 DEF Fail, Move, Running
    <3>2. UNCHANGED <<note, noted>>
      BY <1>14 DEF Fail
    <3> QED
      BY <1>1, <3>1, <3>2, NoticesStay DEF SavedInv
  <2>2. SeenAnswersAreInHistory'
    BY <1>7, <1>14 DEF Fail, Move, Running
  <2> QED
    BY <1>5, <1>14, <2>1, <2>2 DEF Fail, Running, Move
<1> QED
  BY <1>8, <1>9, <1>10, <1>11, <1>12, <1>13, <1>14 DEF Serve, Work

\* The newest answer of a conversation was saved there.
LEMMA LatestIsTold ==
    ASSUME SavedInv, NEW c \in Conversations, NEW x \in Turns, IsLatestAnswer(c, x)
    PROVE  Told(x)
<1>1. Message("assistant", x) \in Stored(c)
  BY DEF IsLatestAnswer, Stored, ToSet
<1>2. at[x] = c /\ pc[x] # "new"
  BY <1>1 DEF SavedInv, Message
<1> QED
  BY <1>1, <1>2 DEF Told, Kept

-----------------------------------------------------------------------------

\* What is saved stays with its turn until the conversation is deleted, and
\* the page knows only what was saved: the invariant behind the properties.
THEOREM ChatInvariant == Spec => [](SavedInv /\ PageInv)
<1>1. Init => SavedInv /\ PageInv
  BY DEF Init, ChatInit, SavedInv, PageInv, AnswerFollowsQuestion,
     NoticeTaken, SeenAnswersAreInHistory, Stored, ToSet
<1>2. TypeInv /\ SavedInv /\ PageInv /\ [Next]_vars => SavedInv' /\ PageInv'
  <2> SUFFICES ASSUME TypeInv, SavedInv, PageInv, [Next]_vars
               PROVE  SavedInv' /\ PageInv'
    OBVIOUS
  <2> USE DEF storeVars, turnVars, pageVars
  <2>1. ASSUME NEW t \in Turns, Serve(t) PROVE SavedInv' /\ PageInv'
    BY <2>1, ServeKeeps
  <2>2. ASSUME NEW t \in Turns, Submit(t) PROVE SavedInv' /\ PageInv'
    <3>1. /\ ask[t] = "none" /\ RequestAnswer(t, t) /\ ask'[t] = "posted"
          /\ \A u \in Turns : u # t => ask'[u] = ask[u]
      BY <2>2 DEF Submit, NextCall, TypeInv, TypeOK
    <3> QED
      BY <3>1, RequestKeeps
  <2>3. ASSUME NEW t \in Turns, NEW old \in Turns, Retry(t, old)
        PROVE  SavedInv' /\ PageInv'
    <3>1. /\ ask[t] = "none" /\ RequestAnswer(t, question[old]) /\ ask'[t] = "posted"
          /\ question[old] \in Turns
          /\ \A u \in Turns : u # t =>
                ask'[u] = ask[u] \/ (ask[u] = "error" /\ ask'[u] = "repeated")
      BY <2>3 DEF Retry, NextCall, TypeInv, TypeOK
    <3> QED
      BY <3>1, RequestKeeps
  <2>4. ASSUME NEW t \in Turns, Receive(t) PROVE SavedInv' /\ PageInv'
    <3>1. Told(t)
      BY <2>4 DEF Receive, Answered, SavedInv, Told
    <3>2. /\ \A u \in Turns : ask'[u] = "none" <=> ask[u] = "none"
          /\ \A u, x \in Turns : ask'[u] \in {"fetched", "shown"} /\ shown'[u] = x
                                 => Told(x)
      BY <2>4, <3>1 DEF Receive, Show, TypeInv, TypeOK, PageInv
    <3> QED
      BY <2>4, <3>2, PageOnly DEF Receive
  <2>5. ASSUME NEW t \in Turns, Lose(t) PROVE SavedInv' /\ PageInv'
    <3>1. /\ \A u \in Turns : ask'[u] = "none" <=> ask[u] = "none"
          /\ \A u, x \in Turns : ask'[u] \in {"fetched", "shown"} /\ shown'[u] = x
                                 => Told(x)
      BY <2>5 DEF Lose, TypeInv, TypeOK, PageInv
    <3> QED
      BY <2>5, <3>1, PageOnly DEF Lose
  <2>6. ASSUME NEW t \in Turns, Fetch(t) PROVE SavedInv' /\ PageInv'
    <3>1. PICK y \in Turns : /\ IsLatestAnswer(conversationId, y)
                             /\ shown' = [shown EXCEPT ![t] = y]
      BY <2>6 DEF Fetch
    <3>2. Told(y)
      BY <2>6, <3>1, LatestIsTold DEF Fetch, TypeInv, TypeOK
    <3>3. /\ \A u \in Turns : ask'[u] = "none" <=> ask[u] = "none"
          /\ \A u, x \in Turns : ask'[u] \in {"fetched", "shown"} /\ shown'[u] = x
                                 => Told(x)
      BY <2>6, <3>1, <3>2 DEF Fetch, TypeInv, TypeOK, PageInv
    <3> QED
      BY <2>6, <3>3, PageOnly DEF Fetch
  <2>7. ASSUME NEW t \in Turns, Recover(t) PROVE SavedInv' /\ PageInv'
    <3>1. /\ \A u \in Turns : ask'[u] = "none" <=> ask[u] = "none"
          /\ \A u, x \in Turns : ask'[u] \in {"fetched", "shown"} /\ shown'[u] = x
                                 => Told(x)
      BY <2>7 DEF Recover, Show, TypeInv, TypeOK, PageInv
    <3> QED
      BY <2>7, <3>1, PageOnly DEF Recover
  <2>8. ASSUME NEW t \in Turns, GiveUp(t) PROVE SavedInv' /\ PageInv'
    <3>1. /\ \A u \in Turns : ask'[u] = "none" <=> ask[u] = "none"
          /\ \A u, x \in Turns : ask'[u] \in {"fetched", "shown"} /\ shown'[u] = x
                                 => Told(x)
      BY <2>8 DEF GiveUp, TypeInv, TypeOK, PageInv
    <3> QED
      BY <2>8, <3>1, PageOnly DEF GiveUp
  <2>9. ASSUME UNCHANGED <<storeVars, turnVars, ask, shown, seen>>
        PROVE  SavedInv' /\ PageInv'
    BY <2>9, PageOnly DEF PageInv
  <2>10. ASSUME NEW c \in Conversations, Delete(c) PROVE SavedInv' /\ PageInv'
    <3>1. SavedInv' /\ Grows /\ Stays
      BY <2>10, DeletedKeeps DEF Delete
    <3>2. UNCHANGED <<turnVars, shown, seen>>
      BY <2>10 DEF Delete, Deleted
    <3>3. /\ \A u \in Turns : ask'[u] = "none" <=> ask[u] = "none"
          /\ \A u, x \in Turns : ask'[u] \in {"fetched", "shown"} /\ shown'[u] = x
                                 => Told(x)
      <4>1. CASE Aborted
        BY <3>2, <4>1, AbortedShows
      <4>2. CASE ask' = ask
        BY <3>2, <4>2 DEF PageInv
      <4> QED
        BY <2>10, <4>1, <4>2 DEF Delete
    <3>4. \A u \in Turns : ask'[u] = "none" <=> pc'[u] = "new"
      BY <3>2, <3>3 DEF PageInv
    <3>5. SeenAnswersAreInHistory'
      BY <3>1, <3>2, HistoryStays DEF TypeInv
    <3>6. PageInv'
      BY <3>1, <3>2, <3>3, <3>4, <3>5, PageKeeps DEF TypeInv
    <3> QED
      BY <3>1, <3>6
  <2>11. ASSUME Stop \/ NewChat PROVE SavedInv' /\ PageInv'
    <3>1. Aborted /\ UNCHANGED <<storeVars, turnVars, shown, seen>>
      BY <2>11 DEF Stop, NewChat
    <3> QED
      BY <3>1, AbortedShows, PageOnly
  <2>12. ASSUME NEW n \in Notes, Notify(n), UNCHANGED pageVars
         PROVE  SavedInv' /\ PageInv'
    <3>1. Grows /\ Stays
      BY <2>12 DEF Notify, Grows, Extended, Stays
    <3>2. note'[n] # "read" /\ \A m \in Notes : m # n => note'[m] = note[m]
      BY <2>12 DEF Notify, TypeInv, TypeOK, ChatTypeOK
    <3>3. NoticeTaken'
      BY <2>12, <3>2, NoticesStay DEF Notify, SavedInv
    <3>4. SavedInv'
      BY <2>12, <3>1, <3>3, SavedFrame DEF Notify, TypeInv
    <3>5. SeenAnswersAreInHistory'
      BY <2>12, <3>1, HistoryStays DEF Notify, TypeInv
    <3>6. PageInv'
      BY <2>12, <3>1, <3>5, PageKeeps DEF Notify, PageInv, TypeInv
    <3> QED
      BY <3>4, <3>6
  <2>13. ASSUME NEW N \in SUBSET Notes, Dismiss(N), UNCHANGED pageVars
         PROVE  SavedInv' /\ PageInv'
    <3>1. Grows /\ Stays
      BY <2>13 DEF Dismiss, Grows, Extended, Stays
    <3>2. \A n \in Notes : note'[n] = "read" => note[n] = "read"
      BY <2>13 DEF Dismiss, SetRead
    <3>3. NoticeTaken'
      BY <2>13, <3>2, NoticesStay DEF Dismiss, SavedInv
    <3>4. SavedInv'
      BY <2>13, <3>1, <3>3, SavedFrame DEF Dismiss, TypeInv
    <3>5. SeenAnswersAreInHistory'
      BY <2>13, <3>1, HistoryStays DEF Dismiss, TypeInv
    <3>6. PageInv'
      BY <2>13, <3>1, <3>5, PageKeeps DEF Dismiss, PageInv, TypeInv
    <3> QED
      BY <3>4, <3>6
  <2> QED
    BY <2>1, <2>2, <2>3, <2>4, <2>5, <2>6, <2>7, <2>8, <2>9, <2>10, <2>11,
       <2>12, <2>13 DEF Next, Open, Opened, vars
<1> QED
  BY <1>1, <1>2, ChatTypeCorrect, PTL DEF Spec

\* An answer stands after its question, in its conversation.
THEOREM AnswerFollowsQuestionHolds == Spec => []AnswerFollowsQuestion
<1>1. SavedInv => AnswerFollowsQuestion
  BY DEF SavedInv
<1> QED
  BY <1>1, ChatInvariant, PTL

\* What chat() marks read, the user is told in an answer that is stored (or was,
\* until its conversation was deleted), or will be unless the turn is torn.
THEOREM ReadNoticeIsDeliveredHolds == Spec => []ReadNoticeIsDelivered
<1>1. SavedInv => ReadNoticeIsDelivered
  BY DEF SavedInv, NoticeTaken, Kept, ReadNoticeIsDelivered
<1> QED
  BY <1>1, ChatInvariant, PTL

\* The model knows the answers the user has been shown, unless they were deleted
\* or newer messages fill its history.
THEOREM SeenAnswersAreInHistoryHolds == Spec => []SeenAnswersAreInHistory
<1>1. PageInv => SeenAnswersAreInHistory
  BY DEF PageInv
<1> QED
  BY <1>1, ChatInvariant, PTL
=============================================================================
