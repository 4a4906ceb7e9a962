----------------------------- MODULE MCChatPage -----------------------------
(* Two questions in up to two conversations, and a notification that may     *)
(* come.  MCSpec begins behind the first of three questions, in one of two   *)
(* states that a behaviour of Spec comes to:                                 *)
(*   - it was stopped, its turn failed at once, and the waiting notification *)
(*     was read in the inbox;                                                *)
(*   - it was answered, and the second was stopped on the page while its     *)
(*     turn goes on and is about to save: what it saves may fill the history *)
(*     of the third.                                                         *)
EXTENDS ChatPage

\* Where the page is after turns 1 .. t of conversation 1.
PageAfter(t) ==
    /\ at = [u \in Turns |-> IF u <= t THEN 1 ELSE NoConversation]
    /\ noted = [u \in Turns |-> {}]
    /\ wiped = {}
    /\ conversationId = 1 /\ active = NoTurn
    /\ opening = NoConversation /\ used = {1}
    /\ question = [u \in Turns |-> u]

Stopped ==
    /\ PageAfter(1)
    /\ listed = {}
    /\ messages = [c \in Conversations |-> << >>]
    /\ note = [n \in Notes |-> IF n \in Waiting THEN "dismissed" ELSE "none"]
    /\ pc = [u \in Turns |-> IF u = 1 THEN "failed" ELSE "new"]
    /\ history = [u \in Turns |-> << >>]
    /\ ask = [u \in Turns |-> IF u = 1 THEN "stopped" ELSE "none"]
    /\ shown = [u \in Turns |-> NoTurn]
    /\ seen = [u \in Turns |-> {}]

Exchange == <<Message("user", 1), Message("assistant", 1)>>
Unsaved ==
    /\ PageAfter(2)
    /\ listed = {1}
    /\ messages = [c \in Conversations |-> IF c = 1 THEN Exchange ELSE << >>]
    /\ note = [n \in Notes |-> IF n \in Waiting THEN "unread" ELSE "none"]
    /\ pc = <<"done", "marked", "new">>
    /\ history = [u \in Turns |-> IF u = 2 THEN Exchange ELSE << >>]
    /\ ask = <<"shown", "stopped", "none">>
    /\ shown = [u \in Turns |-> IF u = 1 THEN 1 ELSE NoTurn]
    /\ seen = [u \in Turns |-> IF u = 2 THEN {1} ELSE {}]

MCSpec == (Stopped \/ Unsaved) /\ [][Next]_vars /\ Fairness
=============================================================================
