----------------------- MODULE OrderSubmissionProofs -----------------------
(***************************************************************************)
(* Proofs about OrderSubmission, for every set of visits, carts, request   *)
(* threads and server settings.                                            *)
(***************************************************************************)
EXTENDS OrderSubmission, TLAPS

USE CartAssumption, VisitAssumption, ModeAssumption, SavedAssumption

\* Every row and every request keeps its type; a submission row has a payload.
THEOREM VisitTypeCorrect == Spec => []TypeOK
<1>1. Init => TypeOK
  BY DEF Init, TypeOK, Outbox!Init, Steps
<1>2. TypeOK /\ [Next]_vars => TypeOK'
  <2> SUFFICES ASSUME TypeOK, [Next]_vars PROVE TypeOK'
    OBVIOUS
  <2> USE DEF TypeOK, Steps, visitVars, submissionVars, queueVars, requestVars
  <2>1. ASSUME NEW v \in Visits, StartVisit(v) PROVE TypeOK'
    BY <2>1 DEF StartVisit, MayStart
  <2>2. ASSUME NEW r \in Requests, NEW v \in Visits, BeginEdit(r, v) PROVE TypeOK'
    BY <2>2 DEF BeginEdit, Enter
  <2>3. ASSUME NEW r \in Requests, WriteDraft(r) PROVE TypeOK'
    BY <2>3 DEF WriteDraft, Finish
  <2>4. ASSUME NEW r \in Requests, WriteSaved(r) PROVE TypeOK'
    BY <2>4 DEF WriteSaved, Finish
  <2>5. ASSUME NEW r \in Requests, NEW v \in Visits, CompleteOrder(r, v) PROVE TypeOK'
    BY <2>5 DEF CompleteOrder, Enter
  <2>6. ASSUME NEW r \in Requests, NEW v \in Visits, CompleteWithoutOrder(r, v) PROVE TypeOK'
    BY <2>6 DEF CompleteWithoutOrder, Enter
  <2>7. ASSUME NEW r \in Requests, Validate(r) PROVE TypeOK'
    BY <2>7 DEF Validate, ContractOf
  <2>8. ASSUME NEW r \in Requests, Identify(r) PROVE TypeOK'
    BY <2>8 DEF Identify, Goto
  <2>9. ASSUME NEW r \in Requests, RecordPrepared(r) PROVE TypeOK'
    BY <2>9 DEF RecordPrepared, WritePrepared, AfterRecord, Goto, Finish
  <2>10. ASSUME NEW r \in Requests, SendCommits(r) PROVE TypeOK'
    BY <2>10 DEF SendCommits, Exists, OrderOf, Order, Goto
  <2>11. ASSUME NEW r \in Requests, SendFails(r) PROVE TypeOK'
    BY <2>11 DEF SendFails, Exists, OrderOf, Order, Goto
  <2>12. ASSUME NEW r \in Requests, RecordSent(r) PROVE TypeOK'
    BY <2>12 DEF RecordSent, Goto
  <2>13. ASSUME NEW r \in Requests, RecordFailed(r) PROVE TypeOK'
    BY <2>13 DEF RecordFailed, Verdict, Finish
  <2>14. ASSUME NEW r \in Requests, Enqueue(r) PROVE TypeOK'
    BY <2>14 DEF Enqueue, Outbox!Accept, Finish
  <2>15. ASSUME OutboxStep PROVE TypeOK'
    BY <2>15 DEF OutboxStep, Outbox!Register, Outbox!Registration, Outbox!RegisteredKeys, Outbox!Succeed, Outbox!GiveUp
  <2>16. ASSUME NEW r \in Requests, CheckOpen(r) PROVE TypeOK'
    BY <2>16 DEF CheckOpen, Goto
  <2>17. ASSUME NEW r \in Requests, Close(r) PROVE TypeOK'
    BY <2>17 DEF Close, Finish
  <2>18. ASSUME NEW r \in Requests, Abandon(r) PROVE TypeOK'
    BY <2>18 DEF Abandon, Finish
  <2>19. CASE UNCHANGED vars
    BY <2>19 DEF vars
  <2> HIDE DEF TypeOK, Steps, visitVars, submissionVars, queueVars, requestVars
  <2> QED
    BY <2>1, <2>2, <2>3, <2>4, <2>5, <2>6, <2>7, <2>8, <2>9, <2>10, <2>11, <2>12,
       <2>13, <2>14, <2>15, <2>16, <2>17, <2>18, <2>19
       DEF Next, RequestStep
<1> QED
  BY <1>1, <1>2, PTL DEF Spec

\* Submission rows precede orders and queued commands; success follows them.
LEMMA Traced == Spec => []TracedInv
<1>1. Init => TracedInv
  BY DEF Init, TracedInv, OrderHasSubmission, SentIsRegistered, OrderOf, Outbox!Init
<1>2. TypeOK /\ TracedInv /\ [Next]_vars => TracedInv'
  <2> SUFFICES ASSUME TypeOK, TracedInv, [Next]_vars PROVE TracedInv'
    OBVIOUS
  <2> USE DEF TypeOK, TracedInv, OrderHasSubmission, SentIsRegistered, visitVars, submissionVars, queueVars, requestVars
  <2>1. ASSUME NEW v \in Visits, StartVisit(v) PROVE TracedInv'
    BY <2>1 DEF StartVisit, MayStart, OrderOf
  <2>2. ASSUME NEW r \in Requests, NEW v \in Visits, BeginEdit(r, v) PROVE TracedInv'
    BY <2>2 DEF BeginEdit, Enter, OrderOf
  <2>3. ASSUME NEW r \in Requests, WriteDraft(r) PROVE TracedInv'
    BY <2>3 DEF WriteDraft, Finish, OrderOf
  <2>4. ASSUME NEW r \in Requests, WriteSaved(r) PROVE TracedInv'
    BY <2>4 DEF WriteSaved, Finish, OrderOf
  <2>5. ASSUME NEW r \in Requests, NEW v \in Visits, CompleteOrder(r, v) PROVE TracedInv'
    BY <2>5 DEF CompleteOrder, Enter, OrderOf
  <2>6. ASSUME NEW r \in Requests, NEW v \in Visits, CompleteWithoutOrder(r, v) PROVE TracedInv'
    BY <2>6 DEF CompleteWithoutOrder, Enter, OrderOf
  <2>7. ASSUME NEW r \in Requests, Validate(r) PROVE TracedInv'
    BY <2>7 DEF Validate, ContractOf, OrderOf
  <2>8. ASSUME NEW r \in Requests, Identify(r) PROVE TracedInv'
    BY <2>8 DEF Identify, Goto, OrderOf
  <2>9. ASSUME NEW r \in Requests, RecordPrepared(r) PROVE TracedInv'
    BY <2>9 DEF RecordPrepared, WritePrepared, AfterRecord, Goto, Finish, OrderOf
  <2>10. ASSUME NEW r \in Requests, SendCommits(r) PROVE TracedInv'
    <3> DEFINE new == Order(target[r], body[r])
    <3>1. /\ target[r] \in Visits /\ pc[r] = "send"
          /\ UNCHANGED <<visitVars, submissionVars, queueVars, target>>
          /\ pc' = [pc EXCEPT ![r] = "accepted"]
      BY <2>10 DEF SendCommits, Goto
    <3>2. new.key = target[r]
      BY DEF Order
    <3>3. registered \subseteq registered' /\ \E o \in registered' : o.key = target[r]
      <4> HIDE DEF new
      <4>1. CASE OrderOf(target[r]) = {}
        BY <2>10, <3>2, <4>1 DEF SendCommits, Exists, new
      <4>2. CASE OrderOf(target[r]) # {}
        BY <2>10, <4>2 DEF SendCommits, Exists, OrderOf
      <4> QED
        BY <4>1, <4>2
    <3> HIDE DEF new
    <3>4. \A q \in Requests : pc'[q] = "accepted" => OrderOf(target[q])' # {}
      BY <3>1, <3>3 DEF OrderOf
    <3>5. \A v \in Visits : OrderOf(v)' # {} => OrderOf(v) # {} \/ v = target[r]
      BY <2>10, <3>2 DEF SendCommits, OrderOf, new
    <3>6. (OrderHasSubmission /\ SentIsRegistered)'
      BY <3>1, <3>3, <3>5 DEF OrderOf
    <3> QED
      BY <3>1, <3>4, <3>6
  <2>11. ASSUME NEW r \in Requests, SendFails(r) PROVE TracedInv'
    BY <2>11 DEF SendFails, Exists, OrderOf, Order, Goto
  <2>12. ASSUME NEW r \in Requests, RecordSent(r) PROVE TracedInv'
    BY <2>12 DEF RecordSent, Goto, OrderOf
  <2>13. ASSUME NEW r \in Requests, RecordFailed(r) PROVE TracedInv'
    BY <2>13 DEF RecordFailed, Verdict, Finish, OrderOf
  <2>14. ASSUME NEW r \in Requests, Enqueue(r) PROVE TracedInv'
    BY <2>14 DEF Enqueue, Outbox!Accept, Finish, OrderOf
  <2>15. ASSUME OutboxStep PROVE TracedInv'
    BY <2>15 DEF OutboxStep, Outbox!Register, Outbox!Registration, Outbox!RegisteredKeys, Outbox!Succeed, Outbox!GiveUp, OrderOf
  <2>16. ASSUME NEW r \in Requests, CheckOpen(r) PROVE TracedInv'
    BY <2>16 DEF CheckOpen, Goto, OrderOf
  <2>17. ASSUME NEW r \in Requests, Close(r) PROVE TracedInv'
    BY <2>17 DEF Close, Finish, OrderOf
  <2>18. ASSUME NEW r \in Requests, Abandon(r) PROVE TracedInv'
    BY <2>18 DEF Abandon, Finish, OrderOf
  <2>19. CASE UNCHANGED vars
    BY <2>19 DEF vars, OrderOf
  <2> HIDE DEF TypeOK, TracedInv, OrderHasSubmission, SentIsRegistered, visitVars, submissionVars, queueVars, requestVars
  <2> QED
    BY <2>1, <2>2, <2>3, <2>4, <2>5, <2>6, <2>7, <2>8, <2>9, <2>10, <2>11, <2>12,
       <2>13, <2>14, <2>15, <2>16, <2>17, <2>18, <2>19
       DEF Next, RequestStep
<1> QED
  BY VisitTypeCorrect, <1>1, <1>2, PTL DEF Spec

\* Whoever closes a visit with an order has an order or a saved request.
LEMMA Closing == Spec => []ClosingInv
<1>1. Init => ClosingInv
  BY DEF Init, ClosingInv
<1>2. TypeOK /\ TracedInv /\ ClosingInv /\ [Next]_vars => ClosingInv'
  <2> SUFFICES ASSUME TypeOK, TracedInv, ClosingInv, [Next]_vars PROVE ClosingInv'
    OBVIOUS
  <2> USE DEF TypeOK, ClosingInv, visitVars, submissionVars, queueVars, requestVars
  <2>1. ASSUME NEW v \in Visits, StartVisit(v) PROVE ClosingInv'
    BY <2>1 DEF StartVisit, MayStart, OrderOf
  <2>2. ASSUME NEW r \in Requests, NEW v \in Visits, BeginEdit(r, v) PROVE ClosingInv'
    BY <2>2 DEF BeginEdit, Enter, OrderOf
  <2>3. ASSUME NEW r \in Requests, WriteDraft(r) PROVE ClosingInv'
    BY <2>3 DEF WriteDraft, Finish, OrderOf
  <2>4. ASSUME NEW r \in Requests, WriteSaved(r) PROVE ClosingInv'
    BY <2>4 DEF WriteSaved, Finish, OrderOf
  <2>5. ASSUME NEW r \in Requests, NEW v \in Visits, CompleteOrder(r, v) PROVE ClosingInv'
    BY <2>5 DEF CompleteOrder, Enter, OrderOf
  <2>6. ASSUME NEW r \in Requests, NEW v \in Visits, CompleteWithoutOrder(r, v) PROVE ClosingInv'
    BY <2>6 DEF CompleteWithoutOrder, Enter, OrderOf
  <2>7. ASSUME NEW r \in Requests, Validate(r) PROVE ClosingInv'
    BY <2>7 DEF Validate, ContractOf, OrderOf
  <2>8. ASSUME NEW r \in Requests, Identify(r) PROVE ClosingInv'
    BY <2>8 DEF Identify, Goto, OrderOf, TracedInv, SentIsRegistered
  <2>9. ASSUME NEW r \in Requests, RecordPrepared(r) PROVE ClosingInv'
    BY <2>9 DEF RecordPrepared, WritePrepared, AfterRecord, Goto, Finish, OrderOf
  <2>10. ASSUME NEW r \in Requests, SendCommits(r) PROVE ClosingInv'
    BY <2>10 DEF SendCommits, Exists, OrderOf, Order, Goto
  <2>11. ASSUME NEW r \in Requests, SendFails(r) PROVE ClosingInv'
    BY <2>11 DEF SendFails, Exists, OrderOf, Order, Goto
  <2>12. ASSUME NEW r \in Requests, RecordSent(r) PROVE ClosingInv'
    BY <2>12 DEF RecordSent, Goto, OrderOf, TracedInv
  <2>13. ASSUME NEW r \in Requests, RecordFailed(r) PROVE ClosingInv'
    BY <2>13 DEF RecordFailed, Verdict, Finish, OrderOf
  <2>14. ASSUME NEW r \in Requests, Enqueue(r) PROVE ClosingInv'
    BY <2>14 DEF Enqueue, Outbox!Accept, Finish, OrderOf
  <2>15. ASSUME OutboxStep PROVE ClosingInv'
    BY <2>15 DEF OutboxStep, Outbox!Register, Outbox!Registration, Outbox!RegisteredKeys, Outbox!Succeed, Outbox!GiveUp, OrderOf
  <2>16. ASSUME NEW r \in Requests, CheckOpen(r) PROVE ClosingInv'
    BY <2>16 DEF CheckOpen, Goto, OrderOf
  <2>17. ASSUME NEW r \in Requests, Close(r) PROVE ClosingInv'
    BY <2>17 DEF Close, Finish, OrderOf
  <2>18. ASSUME NEW r \in Requests, Abandon(r) PROVE ClosingInv'
    BY <2>18 DEF Abandon, Finish, OrderOf
  <2>19. CASE UNCHANGED vars
    BY <2>19 DEF vars, OrderOf
  <2> HIDE DEF TypeOK, ClosingInv, visitVars, submissionVars, queueVars, requestVars
  <2> QED
    BY <2>1, <2>2, <2>3, <2>4, <2>5, <2>6, <2>7, <2>8, <2>9, <2>10, <2>11, <2>12,
       <2>13, <2>14, <2>15, <2>16, <2>17, <2>18, <2>19
       DEF Next, RequestStep
<1> QED
  BY VisitTypeCorrect, Traced, <1>1, <1>2, PTL DEF Spec

-----------------------------------------------------------------------------

\* Every order in Varanegar and every queued command has its submission row.
THEOREM OrderHasSubmissionHolds == Spec => []OrderHasSubmission
<1>1. TracedInv => OrderHasSubmission
  BY DEF TracedInv
<1> QED
  BY Traced, <1>1, PTL

\* A submission recorded as sent has its order in Varanegar.
THEOREM SentIsRegisteredHolds == Spec => []SentIsRegistered
<1>1. TracedInv => SentIsRegistered
  BY DEF TracedInv
<1> QED
  BY Traced, <1>1, PTL

\* With the bridge on, no visit ends with an order that exists nowhere.
THEOREM ClosedOrderIsRegisteredHolds == Spec => []ClosedOrderIsRegistered
<1>1. TypeOK /\ ClosingInv => ClosedOrderIsRegistered
  BY DEF TypeOK, ClosingInv, ClosedOrderIsRegistered
<1> QED
  BY VisitTypeCorrect, Closing, <1>1, PTL
=============================================================================
