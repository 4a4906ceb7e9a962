------------------------ MODULE CommandOutboxProofs ------------------------
(***************************************************************************)
(* Proofs about CommandOutbox, for every set of keys, payloads and workers *)
(* and every bound; and, at the end, about OrderFulfilment, the seller's   *)
(* side with this outbox.                                                  *)
(***************************************************************************)
EXTENDS CommandOutbox, TLAPS

USE KeyAssumption, WorkerAssumption, BoundAssumption

\* The row columns and worker registers keep their types, and a row is locked
\* exactly while it is processing (claim, settlement and recovery agree on it).
THEOREM TypeCorrect == Spec => []TypeOK
<1>1. Init => TypeOK
  BY DEF Init, TypeOK, Status, Locations, Results, Working
<1>2. TypeOK /\ [Next]_vars => TypeOK'
  <2> SUFFICES ASSUME TypeOK, [Next]_vars PROVE TypeOK'
    OBVIOUS
  <2> USE DEF Status, Locations, Results, Working, Fault, outboxVars, workerVars
  <2>1. ASSUME NEW k \in Keys, Submit(k) PROVE TypeOK'
    <3>1. ASSUME NEW p \in Payloads, EnqueueNew(k, p) PROVE TypeOK'
      BY <3>1 DEF EnqueueNew, TypeOK
    <3>2. ASSUME NEW p \in Payloads, EnqueueAgain(k, p) PROVE TypeOK'
      BY <3>2 DEF EnqueueAgain, TypeOK
    <3> QED
      BY <2>1, <3>1, <3>2 DEF Submit
  <2>2. ASSUME NEW k \in Keys, BackoffElapses(k) PROVE TypeOK'
    BY <2>2 DEF BackoffElapses, TypeOK
  <2>3. ASSUME NEW k \in Keys, LeaseExpires(k) PROVE TypeOK'
    BY <2>3 DEF LeaseExpires, TypeOK
  <2>4. ASSUME NEW w \in Workers, Start(w) PROVE TypeOK'
    BY <2>4 DEF Start, TypeOK
  <2>5. ASSUME NEW w \in Workers, Recover(w) PROVE TypeOK'
    BY <2>5 DEF Recover, Expired, LeaseReceipts, Receipt, Stages, Outcomes, TypeOK
  <2>6. ASSUME NEW w \in Workers, RecoverError(w) PROVE TypeOK'
    BY <2>6 DEF RecoverError, TypeOK
  <2>7. ASSUME NEW w \in Workers, Stop(w) PROVE TypeOK'
    BY <2>7 DEF Stop, Release, TypeOK
  <2>8. ASSUME NEW w \in Workers, Crash(w) PROVE TypeOK'
    BY <2>8 DEF Crash, Release, TypeOK
  <2>9. ASSUME NEW w \in Workers, NEW k \in Keys, Claim(w, k) PROVE TypeOK'
    <3>1. CASE k \in Unsupported
      BY <2>9, <3>1 DEF Claim, ClaimRow, Claimable, NextAttempt, TypeOK
    <3>2. CASE k \notin Unsupported
      BY <2>9, <3>2 DEF Claim, ClaimRow, Claimable, NextAttempt, TypeOK
    <3> QED
      BY <3>1, <3>2
  <2>10. ASSUME NEW w \in Workers, NEW k \in Keys, ClaimLost(w, k) PROVE TypeOK'
    BY <2>10 DEF ClaimLost, ClaimRow, Claimable, NextAttempt, TypeOK
  <2>11. ASSUME NEW w \in Workers, PreCheck(w) PROVE TypeOK'
    BY <2>11 DEF PreCheck, TypeOK
  <2>12. ASSUME NEW w \in Workers, Insert(w) PROVE TypeOK'
    <3>1. CASE AuditConflict(w)
      BY <2>12, <3>1 DEF Insert, EndDispatch, TypeOK
    <3>2. CASE ~AuditConflict(w)
      BY <2>12, <3>2 DEF Insert, TypeOK
    <3> QED
      BY <3>1, <3>2
  <2>13. ASSUME NEW w \in Workers, DispatchError(w) PROVE TypeOK'
    BY <2>13 DEF DispatchError, EndDispatch, TypeOK
  <2>14. ASSUME NEW w \in Workers, Commit(w) PROVE TypeOK'
    BY <2>14 DEF Commit, CommitOrder, Order, TypeOK
  <2>15. ASSUME NEW w \in Workers, CommitLost(w) PROVE TypeOK'
    BY <2>15 DEF CommitLost, CommitOrder, EndDispatch, Order, TypeOK
  <2>16. ASSUME NEW w \in Workers, Leave(w) PROVE TypeOK'
    <3>1. CASE heartbeat[w] = "on"
      BY <2>16, <3>1 DEF Leave, TypeOK
    <3>2. CASE heartbeat[w] # "on"
      BY <2>16, <3>2 DEF Leave, Release, TypeOK
    <3> QED
      BY <3>1, <3>2
  <2>17. ASSUME NEW w \in Workers, MarkSucceeded(w) PROVE TypeOK'
    <3>1. CASE Fence(w) /\ SucceedRow(w) /\ Release(w, "idle")
      BY <2>17, <3>1 DEF MarkSucceeded, SucceedRow, Unlock, Release, Receipt, Stages, Outcomes, TypeOK
    <3>2. CASE Refused(w)
      BY <2>17, <3>2 DEF MarkSucceeded, Refused, Release, TypeOK
    <3> QED
      BY <2>17, <3>1, <3>2 DEF MarkSucceeded
  <2>18. ASSUME NEW w \in Workers, MarkSucceededError(w) PROVE TypeOK'
    <3>1. CASE Fence(w) /\ SucceedRow(w)
      BY <2>18, <3>1 DEF MarkSucceededError, SucceedRow, Unlock, Receipt, Stages, Outcomes, TypeOK
    <3>2. CASE UNCHANGED <<outboxVars, receipts>>
      BY <2>18, <3>2 DEF MarkSucceededError, TypeOK
    <3> QED
      BY <2>18, <3>1, <3>2 DEF MarkSucceededError
  <2>19. ASSUME NEW w \in Workers, MarkFailed(w) \/ MarkFailedError(w) PROVE TypeOK'
    <3>1. CASE Fence(w) /\ FailRow(w) /\ Release(w, "idle") /\ UNCHANGED <<accepted, orders>>
      BY <2>19, <3>1 DEF MarkFailed, MarkFailedError, FailRow, Unlock, Release, Receipt, Stages, Outcomes, TypeOK
    <3>2. CASE Release(w, "idle") /\ UNCHANGED <<outboxVars, receipts, accepted, orders>>
      BY <2>19, <3>2 DEF MarkFailed, MarkFailedError, Release, TypeOK
    <3> QED
      BY <2>19, <3>1, <3>2 DEF MarkFailed, MarkFailedError, Refused
  <2>20. ASSUME NEW w \in Workers, Renewal(w) PROVE TypeOK'
    <3>1. ASSUME RenewRefused(w) PROVE TypeOK'
      BY <3>1 DEF RenewRefused, TypeOK
    <3>2. ASSUME RenewError(w) PROVE TypeOK'
      BY <3>2 DEF RenewError, TypeOK
    <3> QED
      BY <2>20, <3>1, <3>2 DEF Renewal
  <2>21. CASE UNCHANGED vars
    BY <2>21 DEF vars, TypeOK
  <2> QED
    BY <2>1, <2>2, <2>3, <2>4, <2>5, <2>6, <2>7, <2>8, <2>9, <2>10, <2>11, <2>12,
       <2>13, <2>14, <2>15, <2>16, <2>17, <2>18, <2>19, <2>20, <2>21
       DEF Next, ProcessStep
<1> QED
  BY <1>1, <1>2, PTL DEF Spec

\* An acknowledged payload is the row's payload.
LEMMA Accepted == Spec => []AcceptInv
<1>1. Init => AcceptInv
  BY DEF Init, AcceptInv
<1>2. TypeOK /\ AcceptInv /\ [Next]_vars => AcceptInv'
  <2> SUFFICES ASSUME TypeOK, AcceptInv, [Next]_vars PROVE AcceptInv'
    OBVIOUS
  <2> USE DEF TypeOK, AcceptInv, outboxVars, workerVars
  <2>1. ASSUME NEW k \in Keys, NEW p \in Payloads, EnqueueNew(k, p) PROVE AcceptInv'
    BY <2>1 DEF EnqueueNew
  <2>2. ASSUME NEW k \in Keys, NEW p \in Payloads, EnqueueAgain(k, p) PROVE AcceptInv'
    BY <2>2 DEF EnqueueAgain, SamePayload
  <2>3. ASSUME NEW k \in Keys, BackoffElapses(k) PROVE AcceptInv'
    BY <2>3 DEF BackoffElapses
  <2>4. ASSUME NEW k \in Keys, LeaseExpires(k) PROVE AcceptInv'
    BY <2>4 DEF LeaseExpires
  <2>5. ASSUME NEW w \in Workers, Start(w) PROVE AcceptInv'
    BY <2>5 DEF Start
  <2>6. ASSUME NEW w \in Workers, Recover(w) PROVE AcceptInv'
    BY <2>6 DEF Recover, Expired
  <2>7. ASSUME NEW w \in Workers, RecoverError(w) PROVE AcceptInv'
    BY <2>7 DEF RecoverError
  <2>8. ASSUME NEW w \in Workers, Stop(w) PROVE AcceptInv'
    BY <2>8 DEF Stop, Release
  <2>9. ASSUME NEW w \in Workers, Crash(w) PROVE AcceptInv'
    BY <2>9 DEF Crash, Release
  <2>10. ASSUME NEW w \in Workers, NEW k \in Keys, Claim(w, k) PROVE AcceptInv'
    BY <2>10 DEF Claim, ClaimRow, Claimable, NextAttempt
  <2>11. ASSUME NEW w \in Workers, NEW k \in Keys, ClaimLost(w, k) PROVE AcceptInv'
    BY <2>11 DEF ClaimLost, ClaimRow, Claimable, NextAttempt
  <2>12. ASSUME NEW w \in Workers, PreCheck(w) PROVE AcceptInv'
    BY <2>12 DEF PreCheck
  <2>13. ASSUME NEW w \in Workers, Insert(w) PROVE AcceptInv'
    BY <2>13 DEF Insert, EndDispatch
  <2>14. ASSUME NEW w \in Workers, DispatchError(w) PROVE AcceptInv'
    BY <2>14 DEF DispatchError, EndDispatch
  <2>15. ASSUME NEW w \in Workers, Commit(w) PROVE AcceptInv'
    BY <2>15 DEF Commit, CommitOrder
  <2>16. ASSUME NEW w \in Workers, CommitLost(w) PROVE AcceptInv'
    BY <2>16 DEF CommitLost, CommitOrder, EndDispatch
  <2>17. ASSUME NEW w \in Workers, Leave(w) PROVE AcceptInv'
    BY <2>17 DEF Leave, Release
  <2>18. ASSUME NEW w \in Workers, MarkSucceeded(w) PROVE AcceptInv'
    BY <2>18 DEF MarkSucceeded, Fence, SucceedRow, Refused, Release
  <2>19. ASSUME NEW w \in Workers, MarkSucceededError(w) PROVE AcceptInv'
    BY <2>19 DEF MarkSucceededError, Fence, SucceedRow
  <2>20. ASSUME NEW w \in Workers, MarkFailed(w) PROVE AcceptInv'
    BY <2>20 DEF MarkFailed, Fence, FailRow, Refused, Release
  <2>21. ASSUME NEW w \in Workers, MarkFailedError(w) PROVE AcceptInv'
    BY <2>21 DEF MarkFailedError, Fence, FailRow, Release
  <2>22. ASSUME NEW w \in Workers, RenewRefused(w) PROVE AcceptInv'
    BY <2>22 DEF RenewRefused
  <2>23. ASSUME NEW w \in Workers, RenewError(w) PROVE AcceptInv'
    BY <2>23 DEF RenewError
  <2>24. CASE UNCHANGED vars
    BY <2>24 DEF vars
  <2> QED
    BY <2>1, <2>2, <2>3, <2>4, <2>5, <2>6, <2>7, <2>8, <2>9, <2>10, <2>11, <2>12, <2>13,
       <2>14, <2>15, <2>16, <2>17, <2>18, <2>19, <2>20, <2>21, <2>22, <2>23, <2>24
       DEF Next, Submit, ProcessStep, Renewal
<1> QED
  BY TypeCorrect, <1>1, <1>2, PTL DEF Spec

\* Workers carry distinct attempts, none of them ahead of its row.
LEMMA Claims == Spec => []ClaimInv
<1>1. Init => ClaimInv
  BY DEF Init, ClaimInv, Working
<1>2. TypeOK /\ ClaimInv /\ [Next]_vars => ClaimInv'
  <2> SUFFICES ASSUME TypeOK, ClaimInv, [Next]_vars PROVE ClaimInv'
    OBVIOUS
  <2> USE DEF TypeOK, ClaimInv, Working, outboxVars, workerVars
  <2>1. ASSUME NEW k \in Keys, NEW p \in Payloads, EnqueueNew(k, p) PROVE ClaimInv'
    BY <2>1 DEF EnqueueNew
  <2>2. ASSUME NEW k \in Keys, NEW p \in Payloads, EnqueueAgain(k, p) PROVE ClaimInv'
    BY <2>2 DEF EnqueueAgain, SamePayload
  <2>3. ASSUME NEW k \in Keys, BackoffElapses(k) PROVE ClaimInv'
    BY <2>3 DEF BackoffElapses
  <2>4. ASSUME NEW k \in Keys, LeaseExpires(k) PROVE ClaimInv'
    BY <2>4 DEF LeaseExpires
  <2>5. ASSUME NEW w \in Workers, Start(w) PROVE ClaimInv'
    BY <2>5 DEF Start
  <2>6. ASSUME NEW w \in Workers, Recover(w) PROVE ClaimInv'
    BY <2>6 DEF Recover, Expired
  <2>7. ASSUME NEW w \in Workers, RecoverError(w) PROVE ClaimInv'
    BY <2>7 DEF RecoverError
  <2>8. ASSUME NEW w \in Workers, Stop(w) PROVE ClaimInv'
    BY <2>8 DEF Stop, Release
  <2>9. ASSUME NEW w \in Workers, Crash(w) PROVE ClaimInv'
    BY <2>9 DEF Crash, Release
  <2>10. ASSUME NEW w \in Workers, NEW k \in Keys, Claim(w, k) PROVE ClaimInv'
    BY <2>10 DEF Claim, ClaimRow, Claimable, NextAttempt
  <2>11. ASSUME NEW w \in Workers, NEW k \in Keys, ClaimLost(w, k) PROVE ClaimInv'
    BY <2>11 DEF ClaimLost, ClaimRow, Claimable, NextAttempt
  <2>12. ASSUME NEW w \in Workers, PreCheck(w) PROVE ClaimInv'
    BY <2>12 DEF PreCheck
  <2>13. ASSUME NEW w \in Workers, Insert(w) PROVE ClaimInv'
    BY <2>13 DEF Insert, EndDispatch
  <2>14. ASSUME NEW w \in Workers, DispatchError(w) PROVE ClaimInv'
    BY <2>14 DEF DispatchError, EndDispatch
  <2>15. ASSUME NEW w \in Workers, Commit(w) PROVE ClaimInv'
    BY <2>15 DEF Commit, CommitOrder
  <2>16. ASSUME NEW w \in Workers, CommitLost(w) PROVE ClaimInv'
    BY <2>16 DEF CommitLost, CommitOrder, EndDispatch
  <2>17. ASSUME NEW w \in Workers, Leave(w) PROVE ClaimInv'
    <3>1. CASE heartbeat[w] = "on"
      BY <2>17, <3>1 DEF Leave
    <3>2. CASE Release(w, "idle")
      BY <2>17, <3>2 DEF Leave, Release
    <3> QED
      BY <2>17, <3>1, <3>2 DEF Leave
  <2>18. ASSUME NEW w \in Workers, MarkSucceeded(w) PROVE ClaimInv'
    <3>1. CASE Fence(w) /\ SucceedRow(w) /\ Release(w, "idle")
      BY <2>18, <3>1 DEF MarkSucceeded, Fence, SucceedRow, Unlock, Release
    <3>2. CASE Refused(w)
      BY <2>18, <3>2 DEF MarkSucceeded, Refused, Release
    <3> QED
      BY <2>18, <3>1, <3>2 DEF MarkSucceeded
  <2>19. ASSUME NEW w \in Workers, MarkSucceededError(w) PROVE ClaimInv'
    BY <2>19 DEF MarkSucceededError, Fence, SucceedRow
  <2>20. ASSUME NEW w \in Workers, MarkFailed(w) PROVE ClaimInv'
    <3>1. CASE Fence(w) /\ FailRow(w) /\ Release(w, "idle")
      BY <2>20, <3>1 DEF MarkFailed, Fence, FailRow, Unlock, Release
    <3>2. CASE Refused(w)
      BY <2>20, <3>2 DEF MarkFailed, Refused, Release
    <3> QED
      BY <2>20, <3>1, <3>2 DEF MarkFailed
  <2>21. ASSUME NEW w \in Workers, MarkFailedError(w) PROVE ClaimInv'
    BY <2>21 DEF MarkFailedError, Fence, FailRow, Release
  <2>22. ASSUME NEW w \in Workers, RenewRefused(w) PROVE ClaimInv'
    BY <2>22 DEF RenewRefused
  <2>23. ASSUME NEW w \in Workers, RenewError(w) PROVE ClaimInv'
    BY <2>23 DEF RenewError
  <2>24. CASE UNCHANGED vars
    BY <2>24 DEF vars
  <2> QED
    BY <2>1, <2>2, <2>3, <2>4, <2>5, <2>6, <2>7, <2>8, <2>9, <2>10, <2>11, <2>12, <2>13,
       <2>14, <2>15, <2>16, <2>17, <2>18, <2>19, <2>20, <2>21, <2>22, <2>23, <2>24
       DEF Next, Submit, ProcessStep, Renewal
<1> QED
  BY TypeCorrect, <1>1, <1>2, PTL DEF Spec

\* Workers know the truth about Varanegar, where each key has one order at most.
LEMMA Orders == Spec => []OrderInv
<1>1. Init => OrderInv
  BY DEF Init, OrderInv, OrderOf, AtMostOneOrder, SucceededIsCommitted
<1>2. TypeOK /\ ClaimInv /\ OrderInv /\ [Next]_vars => OrderInv'
  <2> SUFFICES ASSUME TypeOK, ClaimInv, OrderInv, [Next]_vars PROVE OrderInv'
    OBVIOUS
  <2> USE DEF TypeOK, ClaimInv, Working, OrderInv, OrderOf, AtMostOneOrder, SucceededIsCommitted, outboxVars, workerVars
  <2>1. ASSUME NEW k \in Keys, NEW p \in Payloads, EnqueueNew(k, p) PROVE OrderInv'
    BY <2>1 DEF EnqueueNew
  <2>2. ASSUME NEW k \in Keys, NEW p \in Payloads, EnqueueAgain(k, p) PROVE OrderInv'
    BY <2>2 DEF EnqueueAgain, SamePayload
  <2>3. ASSUME NEW k \in Keys, BackoffElapses(k) PROVE OrderInv'
    BY <2>3 DEF BackoffElapses
  <2>4. ASSUME NEW k \in Keys, LeaseExpires(k) PROVE OrderInv'
    BY <2>4 DEF LeaseExpires
  <2>5. ASSUME NEW w \in Workers, Start(w) PROVE OrderInv'
    BY <2>5 DEF Start
  <2>6. ASSUME NEW w \in Workers, Recover(w) PROVE OrderInv'
    BY <2>6 DEF Recover, Expired
  <2>7. ASSUME NEW w \in Workers, RecoverError(w) PROVE OrderInv'
    BY <2>7 DEF RecoverError
  <2>8. ASSUME NEW w \in Workers, Stop(w) PROVE OrderInv'
    BY <2>8 DEF Stop, Release
  <2>9. ASSUME NEW w \in Workers, Crash(w) PROVE OrderInv'
    BY <2>9 DEF Crash, Release
  <2>10. ASSUME NEW w \in Workers, NEW k \in Keys, Claim(w, k) PROVE OrderInv'
    BY <2>10 DEF Claim, ClaimRow, Claimable, NextAttempt
  <2>11. ASSUME NEW w \in Workers, NEW k \in Keys, ClaimLost(w, k) PROVE OrderInv'
    BY <2>11 DEF ClaimLost, ClaimRow, Claimable, NextAttempt
  <2>12. ASSUME NEW w \in Workers, PreCheck(w) PROVE OrderInv'
    BY <2>12 DEF PreCheck
  <2>13. ASSUME NEW w \in Workers, Insert(w) PROVE OrderInv'
    <3>1. CASE AuditConflict(w)
      BY <2>13, <3>1 DEF Insert, EndDispatch, AuditConflict
    <3>2. CASE ~AuditConflict(w)
      <4>1. /\ pc[w] = "checked" /\ OrderOf(cmd[w]) = {}
            /\ \A v \in Workers \ {w} : ~(txn[v] = "open" /\ cmd[v] = cmd[w])
            /\ pc' = [pc EXCEPT ![w] = "executed"]
            /\ txn' = [txn EXCEPT ![w] = "open"]
            /\ UNCHANGED <<outboxVars, receipts, cmd, att, orders, result>>
        BY <2>13, <3>2 DEF Insert, AuditConflict
      <4>2. \A v \in Workers :
               /\ txn'[v] = "open" => pc'[v] = "executed" /\ OrderOf(cmd[v]) = {}
               /\ pc'[v] = "executed" /\ txn'[v] = "none" => OrderOf(cmd[v]) # {}
               /\ result[v] # "none" <=> pc'[v] \in {"leaving", "settling"}
        BY <4>1
      <4>3. \A v, u \in Workers :
               txn'[v] = "open" /\ txn'[u] = "open" /\ cmd[v] = cmd[u] => v = u
        BY <4>1
      <4> QED
        BY <4>1, <4>2, <4>3
    <3> QED
      BY <3>1, <3>2
  <2>14. ASSUME NEW w \in Workers, DispatchError(w) PROVE OrderInv'
    BY <2>14 DEF DispatchError, EndDispatch
  <2>15. ASSUME NEW w \in Workers, Commit(w) PROVE OrderInv'
    <3> DEFINE new == Order(cmd[w], att[w], payload[cmd[w]])
    <3>1. CASE txn[w] = "open"
      <4>1. orders' = orders \cup {new} /\ new.key = cmd[w] /\ new.payload = payload[cmd[w]]
        BY <2>15, <3>1 DEF Commit, CommitOrder, Order
      <4>2. \A o \in orders : o.key # new.key
        BY <3>1, <4>1
      <4> HIDE DEF new
      <4> QED
        BY <2>15, <3>1, <4>1, <4>2 DEF Commit, CommitOrder
    <3>2. CASE txn[w] # "open"
      <4>1. UNCHANGED orders
        BY <2>15, <3>2 DEF Commit, CommitOrder
      <4> QED
        BY <2>15, <3>2, <4>1 DEF Commit, CommitOrder
    <3> QED
      BY <3>1, <3>2
  <2>16. ASSUME NEW w \in Workers, CommitLost(w) PROVE OrderInv'
    <3> DEFINE new == Order(cmd[w], att[w], payload[cmd[w]])
    <3>1. CASE txn[w] = "open"
      <4>1. orders' = orders \cup {new} /\ new.key = cmd[w] /\ new.payload = payload[cmd[w]]
        BY <2>16, <3>1 DEF CommitLost, CommitOrder, Order
      <4>2. \A o \in orders : o.key # new.key
        BY <3>1, <4>1
      <4> HIDE DEF new
      <4> QED
        BY <2>16, <3>1, <4>1, <4>2 DEF CommitLost, CommitOrder, EndDispatch
    <3>2. CASE txn[w] # "open"
      <4>1. UNCHANGED orders
        BY <2>16, <3>2 DEF CommitLost, CommitOrder
      <4> QED
        BY <2>16, <3>2, <4>1 DEF CommitLost, CommitOrder, EndDispatch
    <3> QED
      BY <3>1, <3>2
  <2>17. ASSUME NEW w \in Workers, Leave(w) PROVE OrderInv'
    <3>1. CASE heartbeat[w] = "on"
      BY <2>17, <3>1 DEF Leave
    <3>2. CASE Release(w, "idle")
      BY <2>17, <3>2 DEF Leave, Release
    <3> QED
      BY <2>17, <3>1, <3>2 DEF Leave
  <2>18. ASSUME NEW w \in Workers, MarkSucceeded(w) PROVE OrderInv'
    <3>1. CASE Fence(w) /\ SucceedRow(w) /\ Release(w, "idle")
      BY <2>18, <3>1 DEF MarkSucceeded, Fence, SucceedRow, Unlock, Release
    <3>2. CASE Refused(w)
      BY <2>18, <3>2 DEF MarkSucceeded, Refused, Release
    <3> QED
      BY <2>18, <3>1, <3>2 DEF MarkSucceeded
  <2>19. ASSUME NEW w \in Workers, MarkSucceededError(w) PROVE OrderInv'
    BY <2>19 DEF MarkSucceededError, Fence, SucceedRow
  <2>20. ASSUME NEW w \in Workers, MarkFailed(w) PROVE OrderInv'
    <3>1. CASE Fence(w) /\ FailRow(w) /\ Release(w, "idle")
      BY <2>20, <3>1 DEF MarkFailed, Fence, FailRow, Unlock, Release
    <3>2. CASE Refused(w)
      BY <2>20, <3>2 DEF MarkFailed, Refused, Release
    <3> QED
      BY <2>20, <3>1, <3>2 DEF MarkFailed
  <2>21. ASSUME NEW w \in Workers, MarkFailedError(w) PROVE OrderInv'
    BY <2>21 DEF MarkFailedError, Fence, FailRow, Release
  <2>22. ASSUME NEW w \in Workers, RenewRefused(w) PROVE OrderInv'
    BY <2>22 DEF RenewRefused
  <2>23. ASSUME NEW w \in Workers, RenewError(w) PROVE OrderInv'
    BY <2>23 DEF RenewError
  <2>24. CASE UNCHANGED vars
    BY <2>24 DEF vars
  <2> QED
    BY <2>1, <2>2, <2>3, <2>4, <2>5, <2>6, <2>7, <2>8, <2>9, <2>10, <2>11, <2>12, <2>13,
       <2>14, <2>15, <2>16, <2>17, <2>18, <2>19, <2>20, <2>21, <2>22, <2>23, <2>24
       DEF Next, Submit, ProcessStep, Renewal
<1> QED
  BY TypeCorrect, Claims, <1>1, <1>2, PTL DEF Spec

\* Uncertain outcomes are on record.
LEMMA Uncertainty == Spec => []UncertaintyInv
<1>1. Init => UncertaintyInv
  BY DEF Init, UncertaintyInv, UnknownReceipt, OrderOf, Holds, Working
<1>2. TypeOK /\ ClaimInv /\ OrderInv /\ UncertaintyInv /\ [Next]_vars => UncertaintyInv'
  <2> SUFFICES ASSUME TypeOK, ClaimInv, OrderInv, UncertaintyInv, [Next]_vars PROVE UncertaintyInv'
    OBVIOUS
  <2> USE DEF TypeOK, ClaimInv, Working, OrderInv, UncertaintyInv, OrderOf, UnknownReceipt, Holds, outboxVars, workerVars
  <2>1. ASSUME NEW k \in Keys, NEW p \in Payloads, EnqueueNew(k, p) PROVE UncertaintyInv'
    BY <2>1 DEF EnqueueNew
  <2>2. ASSUME NEW k \in Keys, NEW p \in Payloads, EnqueueAgain(k, p) PROVE UncertaintyInv'
    BY <2>2 DEF EnqueueAgain, SamePayload
  <2>3. ASSUME NEW k \in Keys, BackoffElapses(k) PROVE UncertaintyInv'
    BY <2>3 DEF BackoffElapses
  <2>4. ASSUME NEW k \in Keys, LeaseExpires(k) PROVE UncertaintyInv'
    BY <2>4 DEF LeaseExpires
  <2>5. ASSUME NEW w \in Workers, Start(w) PROVE UncertaintyInv'
    BY <2>5 DEF Start
  <2>6. ASSUME NEW w \in Workers, Recover(w) PROVE UncertaintyInv'
    BY <2>6 DEF Recover, Expired, LeaseReceipts
  <2>7. ASSUME NEW w \in Workers, RecoverError(w) PROVE UncertaintyInv'
    BY <2>7 DEF RecoverError
  <2>8. ASSUME NEW w \in Workers, Stop(w) PROVE UncertaintyInv'
    BY <2>8 DEF Stop, Release
  <2>9. ASSUME NEW w \in Workers, Crash(w) PROVE UncertaintyInv'
    BY <2>9 DEF Crash, Release
  <2>10. ASSUME NEW w \in Workers, NEW k \in Keys, Claim(w, k) PROVE UncertaintyInv'
    BY <2>10 DEF Claim, ClaimRow, Claimable, NextAttempt
  <2>11. ASSUME NEW w \in Workers, NEW k \in Keys, ClaimLost(w, k) PROVE UncertaintyInv'
    BY <2>11 DEF ClaimLost, ClaimRow, Claimable, NextAttempt
  <2>12. ASSUME NEW w \in Workers, PreCheck(w) PROVE UncertaintyInv'
    BY <2>12 DEF PreCheck
  <2>13. ASSUME NEW w \in Workers, Insert(w) PROVE UncertaintyInv'
    BY <2>13 DEF Insert, EndDispatch
  <2>14. ASSUME NEW w \in Workers, DispatchError(w) PROVE UncertaintyInv'
    BY <2>14 DEF DispatchError, EndDispatch
  <2>15. ASSUME NEW w \in Workers, Commit(w) PROVE UncertaintyInv'
    <3>1. \A k \in Keys : k # cmd[w] => OrderOf(k)' = OrderOf(k)
      BY <2>15 DEF Commit, CommitOrder, Order
    <3>2. /\ UNCHANGED <<status, attempt, lockedBy, receipts, cmd, att>>
          /\ Working(w) /\ cmd[w] \in Keys /\ result'[w] = "ok"
          /\ \A v \in Workers : v # w => pc'[v] = pc[v] /\ result'[v] = result[v]
          /\ \A v \in Workers : Working(v)' <=> Working(v)
      BY <2>15 DEF Commit, CommitOrder, EndDispatch
    <3>3. ASSUME NEW k \in Keys, OrderOf(k)' # {}, ~UnknownReceipt(k)', status'[k] # "succeeded"
          PROVE  /\ status'[k] = "processing"
                 /\ \A v \in Workers : Holds(v, k)' => result'[v] \in {"ok", "unknown"}
      <4>1. CASE k # cmd[w]
        BY <3>1, <3>2, <3>3, <4>1
      <4>2. CASE k = cmd[w]
        BY <3>2, <3>3, <4>2
      <4> QED
        BY <4>1, <4>2
    <3>4. \A v \in Workers : Working(v)' =>
            \/ UnknownReceipt(cmd[v])'
            \/ status'[cmd'[v]] = "succeeded"
            \/ /\ status'[cmd'[v]] = "processing"
               /\ attempt'[cmd'[v]] = att'[v]
               /\ lockedBy'[cmd'[v]] = v
      BY <3>2
    <3> HIDE DEF OrderOf, Working, Holds
    <3>5. \A k \in Keys :
            OrderOf(k)' # {} /\ ~UnknownReceipt(k)' /\ status'[k] # "succeeded" =>
               /\ status'[k] = "processing"
               /\ \A v \in Workers : Holds(v, k)' => result'[v] \in {"ok", "unknown"}
      BY <3>3
    <3> QED
      BY <3>4, <3>5
  <2>16. ASSUME NEW w \in Workers, CommitLost(w) PROVE UncertaintyInv'
    <3>1. \A k \in Keys : k # cmd[w] => OrderOf(k)' = OrderOf(k)
      BY <2>16 DEF CommitLost, CommitOrder, Order
    <3>2. /\ UNCHANGED <<status, attempt, lockedBy, receipts, cmd, att>>
          /\ Working(w) /\ cmd[w] \in Keys /\ result'[w] = "unknown"
          /\ \A v \in Workers : v # w => pc'[v] = pc[v] /\ result'[v] = result[v]
          /\ \A v \in Workers : Working(v)' <=> Working(v)
      BY <2>16 DEF CommitLost, CommitOrder, EndDispatch
    <3>3. ASSUME NEW k \in Keys, OrderOf(k)' # {}, ~UnknownReceipt(k)', status'[k] # "succeeded"
          PROVE  /\ status'[k] = "processing"
                 /\ \A v \in Workers : Holds(v, k)' => result'[v] \in {"ok", "unknown"}
      <4>1. CASE k # cmd[w]
        BY <3>1, <3>2, <3>3, <4>1
      <4>2. CASE k = cmd[w]
        BY <3>2, <3>3, <4>2
      <4> QED
        BY <4>1, <4>2
    <3>4. \A v \in Workers : Working(v)' =>
            \/ UnknownReceipt(cmd[v])'
            \/ status'[cmd'[v]] = "succeeded"
            \/ /\ status'[cmd'[v]] = "processing"
               /\ attempt'[cmd'[v]] = att'[v]
               /\ lockedBy'[cmd'[v]] = v
      BY <3>2
    <3> HIDE DEF OrderOf, Working, Holds
    <3>5. \A k \in Keys :
            OrderOf(k)' # {} /\ ~UnknownReceipt(k)' /\ status'[k] # "succeeded" =>
               /\ status'[k] = "processing"
               /\ \A v \in Workers : Holds(v, k)' => result'[v] \in {"ok", "unknown"}
      BY <3>3
    <3> QED
      BY <3>4, <3>5
  <2>17. ASSUME NEW w \in Workers, Leave(w) PROVE UncertaintyInv'
    <3>1. CASE heartbeat[w] = "on"
      BY <2>17, <3>1 DEF Leave
    <3>2. CASE Release(w, "idle")
      BY <2>17, <3>2 DEF Leave, Release
    <3> QED
      BY <2>17, <3>1, <3>2 DEF Leave
  <2>18. ASSUME NEW w \in Workers, MarkSucceeded(w) PROVE UncertaintyInv'
    <3>1. CASE Fence(w) /\ SucceedRow(w) /\ Release(w, "idle")
      BY <2>18, <3>1 DEF MarkSucceeded, Fence, SucceedRow, Unlock, Release
    <3>2. CASE Refused(w)
      BY <2>18, <3>2 DEF MarkSucceeded, Refused, Release
    <3> QED
      BY <2>18, <3>1, <3>2 DEF MarkSucceeded
  <2>19. ASSUME NEW w \in Workers, MarkSucceededError(w) PROVE UncertaintyInv'
    <3>1. CASE Fence(w) /\ SucceedRow(w)
      BY <2>19, <3>1 DEF MarkSucceededError, Fence, SucceedRow, Unlock
    <3>2. CASE UNCHANGED <<outboxVars, receipts>>
      BY <2>19, <3>2 DEF MarkSucceededError
    <3> QED
      BY <2>19, <3>1, <3>2 DEF MarkSucceededError
  <2>20. ASSUME NEW w \in Workers, MarkFailed(w) PROVE UncertaintyInv'
    <3>1. CASE Fence(w) /\ FailRow(w) /\ Release(w, "idle")
      BY <2>20, <3>1 DEF MarkFailed, Fence, FailRow, Unlock, Release
    <3>2. CASE Refused(w)
      <4>1. \A v \in Workers : v # w => pc'[v] = pc[v] /\ cmd'[v] = cmd[v] /\ att'[v] = att[v] /\ result'[v] = result[v]
        BY <2>20, <3>2 DEF Refused, Release
      <4>2. ~Working(w)'
        BY <2>20, <3>2 DEF Refused, Release
      <4>3. UNCHANGED <<status, attempt, lockedBy, receipts, orders>>
        BY <2>20, <3>2 DEF Refused, MarkFailed, MarkFailedError
      <4> QED
        BY <4>1, <4>2, <4>3
    <3> QED
      BY <2>20, <3>1, <3>2 DEF MarkFailed
  <2>21. ASSUME NEW w \in Workers, MarkFailedError(w) PROVE UncertaintyInv'
    <3>1. CASE Fence(w) /\ FailRow(w)
      BY <2>21, <3>1 DEF MarkFailedError, Fence, FailRow, Unlock, Release
    <3>2. CASE UNCHANGED <<outboxVars, receipts>>
      <4>1. \A v \in Workers : v # w => pc'[v] = pc[v] /\ cmd'[v] = cmd[v] /\ att'[v] = att[v] /\ result'[v] = result[v]
        BY <2>21, <3>2 DEF MarkFailedError, Release
      <4>2. ~Working(w)'
        BY <2>21, <3>2 DEF MarkFailedError, Release
      <4>3. UNCHANGED <<status, attempt, lockedBy, receipts, orders>>
        BY <2>21, <3>2 DEF Refused, MarkFailed, MarkFailedError
      <4> QED
        BY <4>1, <4>2, <4>3
    <3> QED
      BY <2>21, <3>1, <3>2 DEF MarkFailedError
  <2>22. ASSUME NEW w \in Workers, RenewRefused(w) PROVE UncertaintyInv'
    BY <2>22 DEF RenewRefused
  <2>23. ASSUME NEW w \in Workers, RenewError(w) PROVE UncertaintyInv'
    BY <2>23 DEF RenewError
  <2>24. CASE UNCHANGED vars
    BY <2>24 DEF vars
  <2> QED
    BY <2>1, <2>2, <2>3, <2>4, <2>5, <2>6, <2>7, <2>8, <2>9, <2>10, <2>11, <2>12, <2>13,
       <2>14, <2>15, <2>16, <2>17, <2>18, <2>19, <2>20, <2>21, <2>22, <2>23, <2>24
       DEF Next, Submit, ProcessStep, Renewal
<1> QED
  BY TypeCorrect, Claims, Orders, <1>1, <1>2, PTL DEF Spec

-----------------------------------------------------------------------------

\* However often a command is claimed, lost, retried or run by a stale worker,
\* Varanegar holds at most one order for its key.
THEOREM AtMostOneOrderHolds == Spec => []AtMostOneOrder
<1>1. OrderInv => AtMostOneOrder
  BY DEF OrderInv
<1> QED
  BY Orders, <1>1, PTL

\* A command reported as succeeded has an order and a commit receipt.
THEOREM SucceededIsCommittedHolds == Spec => []SucceededIsCommitted
<1>1. OrderInv => SucceededIsCommitted
  BY DEF OrderInv
<1> QED
  BY Orders, <1>1, PTL

\* No two workers work on the current attempt of one command.
THEOREM OneClaimantHolds == Spec => []OneClaimant
<1>1. ClaimInv => OneClaimant
  BY DEF ClaimInv, OneClaimant, Holds
<1> QED
  BY Claims, <1>1, PTL

\* The committed order was made from the only payload ever acknowledged.
THEOREM OrderAsAcceptedHolds == Spec => []OrderAsAccepted
<1>1. TypeOK /\ AcceptInv /\ OrderInv => OrderAsAccepted
  BY DEF TypeOK, AcceptInv, OrderInv, OrderAsAccepted
<1> QED
  BY TypeCorrect, Accepted, Orders, <1>1, PTL

\* A command that waits for a retry or was given up although its order exists
\* carries an unknown receipt.
THEOREM UncertaintyRecordedHolds == Spec => []UncertaintyRecorded
<1>1. UncertaintyInv => UncertaintyRecorded
  BY DEF UncertaintyInv, UncertaintyRecorded
<1> QED
  BY Uncertainty, <1>1, PTL

\* A settled command keeps its status for ever.
THEOREM SettledForGoodHolds == Spec => SettledForGood
<1> DEFINE Kept == \A k \in Keys : Settled(k) => status'[k] = status[k]
<1>1. TypeOK /\ [Next]_vars => Kept
  <2> SUFFICES ASSUME TypeOK, [Next]_vars PROVE Kept
    OBVIOUS
  <2> USE DEF TypeOK, Settled, outboxVars, workerVars
  <2>1. ASSUME NEW k \in Keys, NEW p \in Payloads, EnqueueNew(k, p) PROVE Kept
    BY <2>1 DEF EnqueueNew
  <2>2. ASSUME NEW k \in Keys, NEW p \in Payloads, EnqueueAgain(k, p) PROVE Kept
    BY <2>2 DEF EnqueueAgain, SamePayload
  <2>3. ASSUME NEW k \in Keys, BackoffElapses(k) PROVE Kept
    BY <2>3 DEF BackoffElapses
  <2>4. ASSUME NEW k \in Keys, LeaseExpires(k) PROVE Kept
    BY <2>4 DEF LeaseExpires
  <2>5. ASSUME NEW w \in Workers, Start(w) PROVE Kept
    BY <2>5 DEF Start
  <2>6. ASSUME NEW w \in Workers, Recover(w) PROVE Kept
    BY <2>6 DEF Recover, Expired
  <2>7. ASSUME NEW w \in Workers, RecoverError(w) PROVE Kept
    BY <2>7 DEF RecoverError
  <2>8. ASSUME NEW w \in Workers, Stop(w) PROVE Kept
    BY <2>8 DEF Stop, Release
  <2>9. ASSUME NEW w \in Workers, Crash(w) PROVE Kept
    BY <2>9 DEF Crash, Release
  <2>10. ASSUME NEW w \in Workers, NEW k \in Keys, Claim(w, k) PROVE Kept
    BY <2>10 DEF Claim, ClaimRow, Claimable, NextAttempt
  <2>11. ASSUME NEW w \in Workers, NEW k \in Keys, ClaimLost(w, k) PROVE Kept
    BY <2>11 DEF ClaimLost, ClaimRow, Claimable, NextAttempt
  <2>12. ASSUME NEW w \in Workers, PreCheck(w) PROVE Kept
    BY <2>12 DEF PreCheck
  <2>13. ASSUME NEW w \in Workers, Insert(w) PROVE Kept
    BY <2>13 DEF Insert, EndDispatch
  <2>14. ASSUME NEW w \in Workers, DispatchError(w) PROVE Kept
    BY <2>14 DEF DispatchError, EndDispatch
  <2>15. ASSUME NEW w \in Workers, Commit(w) PROVE Kept
    BY <2>15 DEF Commit, CommitOrder
  <2>16. ASSUME NEW w \in Workers, CommitLost(w) PROVE Kept
    BY <2>16 DEF CommitLost, CommitOrder, EndDispatch
  <2>17. ASSUME NEW w \in Workers, Leave(w) PROVE Kept
    BY <2>17 DEF Leave, Release
  <2>18. ASSUME NEW w \in Workers, MarkSucceeded(w) PROVE Kept
    BY <2>18 DEF MarkSucceeded, Fence, SucceedRow, Refused, Release
  <2>19. ASSUME NEW w \in Workers, MarkSucceededError(w) PROVE Kept
    BY <2>19 DEF MarkSucceededError, Fence, SucceedRow
  <2>20. ASSUME NEW w \in Workers, MarkFailed(w) PROVE Kept
    BY <2>20 DEF MarkFailed, Fence, FailRow, Refused, Release
  <2>21. ASSUME NEW w \in Workers, MarkFailedError(w) PROVE Kept
    BY <2>21 DEF MarkFailedError, Fence, FailRow, Release
  <2>22. ASSUME NEW w \in Workers, RenewRefused(w) PROVE Kept
    BY <2>22 DEF RenewRefused
  <2>23. ASSUME NEW w \in Workers, RenewError(w) PROVE Kept
    BY <2>23 DEF RenewError
  <2>24. CASE UNCHANGED vars
    BY <2>24 DEF vars
  <2> QED
    BY <2>1, <2>2, <2>3, <2>4, <2>5, <2>6, <2>7, <2>8, <2>9, <2>10, <2>11, <2>12, <2>13,
       <2>14, <2>15, <2>16, <2>17, <2>18, <2>19, <2>20, <2>21, <2>22, <2>23, <2>24
       DEF Next, Submit, ProcessStep, Renewal
<1>2. TypeOK /\ [Next]_vars => [Kept]_vars
  BY <1>1
<1>3. Spec => [][Kept]_vars
  BY TypeCorrect, <1>2, PTL DEF Spec
<1> QED
  BY <1>3 DEF SettledForGood

\* The outbox implements DurableCommand: enqueueing accepts, a commit that
\* inserts the order registers, a settlement under the fence succeeds or gives
\* up, and every other step is one of waiting.
THEOREM PromiseKeptHolds == Spec => PromiseKept
<1> DEFINE Step == [Promise!Next]_(Promise!vars)
<1>1. Init => Promise!Init
  BY DEF Init, Promise!Init, Phase
<1>2. TypeOK /\ ClaimInv /\ OrderInv /\ [Next]_vars => Step
  <2> SUFFICES ASSUME TypeOK, ClaimInv, OrderInv, [Next]_vars PROVE Step
    OBVIOUS
  <2> DEFINE Phases == [k \in Keys |-> Phase(k)]
             Registered == {[key |-> o.key, payload |-> o.payload] : o \in orders}
  <2> USE DEF TypeOK, outboxVars, workerVars
  <2>1. ASSUME Phases' = Phases, UNCHANGED <<payload, orders>> PROVE Step
    BY <2>1 DEF Promise!vars
  <2>2. ASSUME NEW k \in Keys, Phase(k) = "open", Phases' = [Phases EXCEPT ![k] = "dead_letter"],
               UNCHANGED <<payload, orders>>
        PROVE Step
    <3>1. Promise!GiveUp(k)
      BY <2>2 DEF Promise!GiveUp
    <3> QED
      BY <3>1 DEF Promise!Next
  <2>3. ASSUME NEW k \in Keys, Phase(k) = "open", OrderOf(k) # {},
               Phases' = [Phases EXCEPT ![k] = "succeeded"],
               UNCHANGED <<payload, orders>>
        PROVE Step
    <3>1. PICK o \in orders : o.key = k
      BY <2>3 DEF OrderOf
    <3>2. k \in Promise!RegisteredKeys
      <4> DEFINE r == [key |-> o.key, payload |-> o.payload]
      <4>1. r \in Registered /\ r.key = k
        BY <3>1
      <4> HIDE DEF r
      <4> QED
        BY <4>1 DEF Promise!RegisteredKeys
    <3>3. Promise!Succeed(k)
      BY <2>3, <3>2 DEF Promise!Succeed
    <3> QED
      BY <3>3 DEF Promise!Next
  <2>4. ASSUME NEW k \in Keys, NEW p \in Payloads, EnqueueNew(k, p) PROVE Step
    <3>1. /\ Phases[k] = "absent"
          /\ Phases' = [Phases EXCEPT ![k] = "open"]
          /\ payload' = [payload EXCEPT ![k] = p]
          /\ Registered' = Registered
      BY <2>4 DEF EnqueueNew, Phase
    <3>2. Promise!Accept(k, p)
      BY <3>1 DEF Promise!Accept
    <3> QED
      BY <3>2 DEF Promise!Next
  <2>5. ASSUME NEW k \in Keys, NEW n, orders' = orders \cup {Order(k, n, payload[k])},
               OrderOf(k) = {}, status[k] \notin {"absent", "succeeded"},
               UNCHANGED <<status, payload>>
        PROVE Step
    <3> DEFINE new == Order(k, n, payload[k])
    <3>1. Phases[k] \in {"open", "dead_letter"} /\ Phases' = Phases
      BY <2>5 DEF Phase, Status
    <3>2. k \notin Promise!RegisteredKeys
      BY <2>5 DEF Promise!RegisteredKeys, OrderOf
    <3>3. Registered' = Registered \cup {Promise!Registration(k)}
      <4>1. [key |-> new.key, payload |-> new.payload] = Promise!Registration(k)
        BY DEF Promise!Registration, Order
      <4>2. orders' = orders \cup {new}
        BY <2>5
      <4> HIDE DEF new
      <4> QED
        BY <4>1, <4>2
    <3>4. Promise!Register(k)
      BY <2>5, <3>1, <3>2, <3>3 DEF Promise!Register
    <3> QED
      BY <3>4 DEF Promise!Next
  <2>5b. ASSUME NEW w \in Workers, CommitOrder(w), UNCHANGED <<status, payload>> PROVE Step
    <3>1. CASE txn[w] = "open"
      <4>1. cmd[w] \in Keys /\ OrderOf(cmd[w]) = {}
        BY <2>5b, <3>1 DEF OrderInv, CommitOrder, Working
      <4>2. status[cmd[w]] \notin {"absent", "succeeded"}
        BY <2>5b, <4>1 DEF OrderInv, SucceededIsCommitted, ClaimInv, Working, CommitOrder
      <4> QED
        BY <2>5, <2>5b, <3>1, <4>1, <4>2 DEF CommitOrder
    <3>2. CASE txn[w] # "open"
      BY <2>1, <2>5b, <3>2 DEF CommitOrder, Phase
    <3> QED
      BY <3>1, <3>2
  <2>6. ASSUME NEW k \in Keys, NEW p \in Payloads, EnqueueAgain(k, p) PROVE Step
    BY <2>1, <2>6 DEF EnqueueAgain, Phase
  <2>7. ASSUME NEW k \in Keys, BackoffElapses(k) PROVE Step
    BY <2>1, <2>7 DEF BackoffElapses, Phase
  <2>8. ASSUME NEW k \in Keys, LeaseExpires(k) PROVE Step
    BY <2>1, <2>8 DEF LeaseExpires, Phase
  <2>9. ASSUME NEW w \in Workers, Start(w) PROVE Step
    BY <2>1, <2>9 DEF Start, Phase
  <2>10. ASSUME NEW w \in Workers, Recover(w) PROVE Step
    BY <2>1, <2>10 DEF Recover, Expired, Phase
  <2>11. ASSUME NEW w \in Workers, RecoverError(w) PROVE Step
    BY <2>1, <2>11 DEF RecoverError, Phase
  <2>12. ASSUME NEW w \in Workers, Stop(w) PROVE Step
    BY <2>1, <2>12 DEF Stop, Phase
  <2>13. ASSUME NEW w \in Workers, Crash(w) PROVE Step
    BY <2>1, <2>13 DEF Crash, Phase
  <2>14. ASSUME NEW w \in Workers, NEW k \in Keys, ClaimRow(w, k) PROVE Step
    BY <2>1, <2>14 DEF ClaimRow, Claimable, Phase
  <2>15. ASSUME NEW w \in Workers, PreCheck(w) PROVE Step
    BY <2>1, <2>15 DEF PreCheck, Phase
  <2>16. ASSUME NEW w \in Workers, Insert(w) PROVE Step
    BY <2>1, <2>16 DEF Insert, Phase
  <2>17. ASSUME NEW w \in Workers, DispatchError(w) PROVE Step
    BY <2>1, <2>17 DEF DispatchError, Phase
  <2>18. ASSUME NEW w \in Workers, Leave(w) PROVE Step
    BY <2>1, <2>18 DEF Leave, Phase
  <2>19. ASSUME NEW w \in Workers, UNCHANGED <<outboxVars, orders>> PROVE Step
    BY <2>1, <2>19 DEF Phase
  <2>20. ASSUME NEW w \in Workers, Fence(w), Working(w), result[w] = "ok", SucceedRow(w),
               UNCHANGED orders
        PROVE Step
    <3>1. cmd[w] \in Keys /\ Phase(cmd[w]) = "open" /\ OrderOf(cmd[w]) # {}
      BY <2>20 DEF Fence, Phase, OrderInv, Working
    <3>2. Phases' = [Phases EXCEPT ![cmd[w]] = "succeeded"]
      BY <2>20, <3>1 DEF SucceedRow, Phase
    <3> QED
      BY <2>3, <2>20, <3>1, <3>2 DEF SucceedRow
  <2>21. ASSUME NEW w \in Workers, Fence(w), Working(w), FailRow(w), UNCHANGED orders
        PROVE Step
    <3>1. cmd[w] \in Keys /\ Phase(cmd[w]) = "open"
      BY <2>21 DEF Fence, Phase, Working
    <3>2. CASE Final(w)
      <4>1. Phases' = [Phases EXCEPT ![cmd[w]] = "dead_letter"]
        BY <2>21, <3>1, <3>2 DEF FailRow, Phase
      <4> QED
        BY <2>2, <2>21, <3>1, <4>1 DEF FailRow
    <3>3. CASE ~Final(w)
      BY <2>1, <2>21, <3>1, <3>3 DEF FailRow, Phase
    <3> QED
      BY <3>2, <3>3
  <2>22. ASSUME NEW w \in Workers, MarkSucceeded(w) PROVE Step
    BY <2>19, <2>20, <2>22 DEF MarkSucceeded, Refused, Working
  <2>23. ASSUME NEW w \in Workers, MarkSucceededError(w) PROVE Step
    BY <2>19, <2>20, <2>23 DEF MarkSucceededError, Working
  <2>24. ASSUME NEW w \in Workers, MarkFailed(w) \/ MarkFailedError(w) PROVE Step
    BY <2>19, <2>21, <2>24 DEF MarkFailed, MarkFailedError, Refused, Working
  <2>25. ASSUME NEW w \in Workers, Commit(w) \/ CommitLost(w) PROVE Step
    BY <2>5b, <2>25 DEF Commit, CommitLost
  <2>26. ASSUME NEW w \in Workers, Renewal(w) PROVE Step
    BY <2>19, <2>26 DEF Renewal, RenewRefused, RenewError
  <2>27. CASE UNCHANGED vars
    BY <2>1, <2>27 DEF vars, Phase
  <2>28. ASSUME NEW w \in Workers, NEW k \in Keys, Claim(w, k) \/ ClaimLost(w, k) PROVE Step
    BY <2>14, <2>28 DEF Claim, ClaimLost
  <2> HIDE DEF Step, TypeOK, outboxVars, workerVars
  <2> QED
    BY <2>4, <2>6, <2>7, <2>8, <2>9, <2>10, <2>11, <2>12, <2>13, <2>14, <2>15, <2>16,
       <2>17, <2>18, <2>19, <2>20, <2>21, <2>22, <2>23, <2>24, <2>25, <2>26, <2>27,
       <2>28
       DEF Next, Submit, ProcessStep
<1> QED
  BY TypeCorrect, Claims, Orders, <1>1, <1>2, PTL DEF Spec, PromiseKept, Promise!Spec
-----------------------------------------------------------------------------
(***************************************************************************)
(* The composition OrderFulfilment.  The outbox stands in it for itself,   *)
(* its keys for the visits and its payloads for the carts; the seller's    *)
(* side is declared here.  Every command is of the supported type.         *)
(***************************************************************************)
CONSTANTS Requests, NoVisit, MaxSaved

VARIABLES mode, visitStatus, cart, outcome, saved, submission, recorded,
          handler, target, aim, body

Fulfilment == INSTANCE OrderFulfilment WITH
    Visits <- Keys, Carts <- Payloads, Empty <- NoPayload,
    place <- pc, pc <- handler

\* Next without the submitting side
Drain ==
    \/ \E k \in Keys : BackoffElapses(k) \/ LeaseExpires(k)
    \/ \E w \in Workers :
          \/ Start(w) \/ Recover(w) \/ RecoverError(w) \/ Stop(w) \/ Crash(w)
          \/ \E k \in Keys : Claim(w, k) \/ ClaimLost(w, k)
          \/ ProcessStep(w) \/ Renewal(w) \/ MarkFailedError(w)

\* What the workers do in the composition is what they do in the outbox alone.
LEMMA WorkerSteps ==
    ASSUME Unsupported = {}, Fulfilment!WorkerStep
    PROVE  Drain
<1> USE DEF outboxVars, workerVars, Fulfilment!Outbox!outboxVars, Fulfilment!Outbox!workerVars,
            Order, Fulfilment!Outbox!Order, Receipt, Fulfilment!Outbox!Receipt
<1>1. ASSUME NEW k \in Keys, Fulfilment!Outbox!BackoffElapses(k) PROVE BackoffElapses(k)
  BY <1>1 DEF Fulfilment!Outbox!BackoffElapses, BackoffElapses
<1>2. ASSUME NEW k \in Keys, Fulfilment!Outbox!LeaseExpires(k) PROVE LeaseExpires(k)
  BY <1>2
     DEF Fulfilment!Outbox!LeaseExpires, LeaseExpires, Fulfilment!Outbox!Holds, Holds,
         Fulfilment!Outbox!Working, Working, Fulfilment!Outbox!Fault, Fault
<1>3. ASSUME NEW w \in Workers, Fulfilment!Outbox!Start(w) PROVE Start(w)
  BY <1>3 DEF Fulfilment!Outbox!Start, Start
<1>4. ASSUME NEW w \in Workers, Fulfilment!Outbox!Recover(w) PROVE Recover(w)
  BY <1>4
     DEF Fulfilment!Outbox!Recover, Recover, Fulfilment!Outbox!Expired, Expired,
         Fulfilment!Outbox!LeaseReceipts, LeaseReceipts
<1>5. ASSUME NEW w \in Workers, Fulfilment!Outbox!RecoverError(w) PROVE RecoverError(w)
  BY <1>5
     DEF Fulfilment!Outbox!RecoverError, RecoverError, Fulfilment!Outbox!Fault,
         Fault
<1>6. ASSUME NEW w \in Workers, Fulfilment!Outbox!Stop(w) PROVE Stop(w)
  BY <1>6 DEF Fulfilment!Outbox!Stop, Stop, Fulfilment!Outbox!Release, Release
<1>7. ASSUME NEW w \in Workers, Fulfilment!Outbox!Crash(w) PROVE Crash(w)
  BY <1>7
     DEF Fulfilment!Outbox!Crash, Crash, Fulfilment!Outbox!Working, Working,
         Fulfilment!Outbox!Fault, Fault, Fulfilment!Outbox!Release, Release
<1>8. ASSUME NEW w \in Workers, Fulfilment!Outbox!PreCheck(w) PROVE PreCheck(w)
  BY <1>8 DEF Fulfilment!Outbox!PreCheck, PreCheck, Fulfilment!Outbox!OrderOf, OrderOf
<1>9. ASSUME NEW w \in Workers, Fulfilment!Outbox!Insert(w) PROVE Insert(w)
  BY <1>9
     DEF Fulfilment!Outbox!Insert, Insert, Fulfilment!Outbox!AuditConflict,
         AuditConflict, Fulfilment!Outbox!OrderOf, OrderOf,
         Fulfilment!Outbox!EndDispatch, EndDispatch
<1>10. ASSUME NEW w \in Workers, Fulfilment!Outbox!DispatchError(w) PROVE DispatchError(w)
  BY <1>10
     DEF Fulfilment!Outbox!DispatchError, DispatchError,
         Fulfilment!Outbox!EndDispatch, EndDispatch
<1>11. ASSUME NEW w \in Workers, Fulfilment!Outbox!Commit(w) PROVE Commit(w)
  BY <1>11
     DEF Fulfilment!Outbox!Commit, Commit, Fulfilment!Outbox!CommitOrder,
         CommitOrder
<1>12. ASSUME NEW w \in Workers, Fulfilment!Outbox!CommitLost(w) PROVE CommitLost(w)
  BY <1>12
     DEF Fulfilment!Outbox!CommitLost, CommitLost, Fulfilment!Outbox!CommitOrder,
         CommitOrder, Fulfilment!Outbox!EndDispatch, EndDispatch
<1>13. ASSUME NEW w \in Workers, Fulfilment!Outbox!Leave(w) PROVE Leave(w)
  BY <1>13 DEF Fulfilment!Outbox!Leave, Leave, Fulfilment!Outbox!Release, Release
<1>14. ASSUME NEW w \in Workers, Fulfilment!Outbox!MarkSucceeded(w) PROVE MarkSucceeded(w)
  BY <1>14
     DEF Fulfilment!Outbox!MarkSucceeded, MarkSucceeded, Fulfilment!Outbox!Fence,
         Fence, Fulfilment!Outbox!SucceedRow, SucceedRow, Fulfilment!Outbox!Unlock,
         Unlock, Fulfilment!Outbox!Refused, Refused, Fulfilment!Outbox!Release,
         Release
<1>15. ASSUME NEW w \in Workers, Fulfilment!Outbox!MarkSucceededError(w) PROVE MarkSucceededError(w)
  BY <1>15
     DEF Fulfilment!Outbox!MarkSucceededError, MarkSucceededError,
         Fulfilment!Outbox!Fence, Fence, Fulfilment!Outbox!SucceedRow, SucceedRow,
         Fulfilment!Outbox!Unlock, Unlock
<1>16. ASSUME NEW w \in Workers, Fulfilment!Outbox!MarkFailed(w) PROVE MarkFailed(w)
  BY <1>16
     DEF Fulfilment!Outbox!MarkFailed, MarkFailed, Fulfilment!Outbox!Fence, Fence,
         Fulfilment!Outbox!FailRow, FailRow, Fulfilment!Outbox!Unlock, Unlock,
         Fulfilment!Outbox!Refused, Refused, Fulfilment!Outbox!Release, Release,
         Fulfilment!Outbox!Final, Final, Fulfilment!Outbox!AttemptLimit,
         AttemptLimit
<1>17. ASSUME NEW w \in Workers, Fulfilment!Outbox!MarkFailedError(w) PROVE MarkFailedError(w)
  BY <1>17
     DEF Fulfilment!Outbox!MarkFailedError, MarkFailedError,
         Fulfilment!Outbox!Fence, Fence, Fulfilment!Outbox!FailRow, FailRow,
         Fulfilment!Outbox!Unlock, Unlock, Fulfilment!Outbox!Release, Release,
         Fulfilment!Outbox!Final, Final, Fulfilment!Outbox!AttemptLimit,
         AttemptLimit, Fulfilment!Outbox!Fault, Fault
<1>18. ASSUME NEW w \in Workers, Fulfilment!Outbox!RenewRefused(w) PROVE RenewRefused(w)
  BY <1>18
     DEF Fulfilment!Outbox!RenewRefused, RenewRefused, Fulfilment!Outbox!Fence,
         Fence
<1>19. ASSUME NEW w \in Workers, Fulfilment!Outbox!RenewError(w) PROVE RenewError(w)
  BY <1>19 DEF Fulfilment!Outbox!RenewError, RenewError, Fulfilment!Outbox!Fault, Fault
<1>20. ASSUME NEW w \in Workers, NEW k \in Keys, Fulfilment!Outbox!Claim(w, k)
      PROVE  Claim(w, k)
  BY <1>20
     DEF Fulfilment!Outbox!Claim, Claim, Fulfilment!Outbox!ClaimRow, ClaimRow,
         Fulfilment!Outbox!Claimable, Claimable, Fulfilment!Outbox!NextAttempt,
         NextAttempt
<1>21. ASSUME NEW w \in Workers, NEW k \in Keys, Fulfilment!Outbox!ClaimLost(w, k)
      PROVE  ClaimLost(w, k)
  BY <1>21
     DEF Fulfilment!Outbox!ClaimLost, ClaimLost, Fulfilment!Outbox!ClaimRow,
         ClaimRow, Fulfilment!Outbox!Claimable, Claimable,
         Fulfilment!Outbox!NextAttempt, NextAttempt, Fulfilment!Outbox!Fault, Fault
<1> QED
  BY <1>1, <1>2, <1>3, <1>4, <1>5, <1>6, <1>7, <1>8, <1>9, <1>10, <1>11, <1>12,
     <1>13, <1>14, <1>15, <1>16, <1>17, <1>18, <1>19, <1>20, <1>21
     DEF Fulfilment!WorkerStep, Fulfilment!Outbox!ProcessStep, Fulfilment!Outbox!Renewal,
         Drain, ProcessStep, Renewal

\* A handler that is about to enqueue has a visit and a cart: the types of the
\* seller's side, as far as a command is made of them.
HandlerInv ==
    /\ cart \in [Keys -> Payloads \cup {NoPayload}]
    /\ handler \in [Requests -> Fulfilment!Seller!Steps]
    /\ target \in [Requests -> Keys \cup {NoVisit}]
    /\ body \in [Requests -> Payloads \cup {NoPayload}]
    /\ \A r \in Requests :
          /\ handler[r] # "idle" => target[r] \in Keys
          /\ handler[r] \in {"identify", "record", "send", "enqueue"} => body[r] \in Payloads

\* No step of a handler makes a command of anything else.
LEMMA Handlers == Fulfilment!Spec => []HandlerInv
<1>1. Fulfilment!Init => HandlerInv
  BY DEF Fulfilment!Init, Fulfilment!Seller!Init, HandlerInv, Fulfilment!Seller!Steps
<1>2. HandlerInv /\ [Fulfilment!Next]_Fulfilment!vars => HandlerInv'
  <2> SUFFICES ASSUME HandlerInv, [Fulfilment!Next]_Fulfilment!vars PROVE HandlerInv'
    OBVIOUS
  <2> USE DEF HandlerInv, Fulfilment!Seller!Steps, Fulfilment!Seller!Goto,
              Fulfilment!Seller!Finish, Fulfilment!Seller!Enter,
              Fulfilment!Seller!visitVars, Fulfilment!Seller!requestVars
  <2>1. ASSUME NEW k \in Keys, Fulfilment!Seller!StartVisit(k) PROVE HandlerInv'
    BY <2>1 DEF Fulfilment!Seller!StartVisit
  <2>2. ASSUME NEW r \in Requests, NEW k \in Keys, Fulfilment!Seller!BeginEdit(r, k)
        PROVE  HandlerInv'
    BY <2>2 DEF Fulfilment!Seller!BeginEdit
  <2>3. ASSUME NEW r \in Requests, NEW k \in Keys,
               \/ Fulfilment!Seller!CompleteOrder(r, k)
               \/ Fulfilment!Seller!CompleteWithoutOrder(r, k)
        PROVE  HandlerInv'
    BY <2>3 DEF Fulfilment!Seller!CompleteOrder, Fulfilment!Seller!CompleteWithoutOrder
  <2>4. ASSUME NEW r \in Requests, Fulfilment!Seller!WriteDraft(r) PROVE HandlerInv'
    BY <2>4 DEF Fulfilment!Seller!WriteDraft
  <2>5. ASSUME NEW r \in Requests, Fulfilment!Seller!WriteSaved(r) PROVE HandlerInv'
    BY <2>5 DEF Fulfilment!Seller!WriteSaved
  <2>6. ASSUME NEW r \in Requests, Fulfilment!Seller!Validate(r) PROVE HandlerInv'
    <3>1. target[r] \in Keys /\ cart[target[r]] \in Payloads
      BY <2>6 DEF Fulfilment!Seller!Validate
    <3> QED
      BY <2>6, <3>1 DEF Fulfilment!Seller!Validate, Fulfilment!Seller!ContractOf
  <2>7. ASSUME NEW r \in Requests, Fulfilment!Seller!Identify(r) PROVE HandlerInv'
    BY <2>7 DEF Fulfilment!Seller!Identify
  <2>8. ASSUME NEW r \in Requests, Fulfilment!Seller!RecordPrepared(r) PROVE HandlerInv'
    BY <2>8 DEF Fulfilment!Seller!RecordPrepared, Fulfilment!Seller!AfterRecord
  <2>9. ASSUME NEW r \in Requests, Fulfilment!Seller!CheckOpen(r) PROVE HandlerInv'
    BY <2>9 DEF Fulfilment!Seller!CheckOpen
  <2>10. ASSUME NEW r \in Requests, Fulfilment!Seller!Close(r) PROVE HandlerInv'
    BY <2>10 DEF Fulfilment!Seller!Close
  <2>11. ASSUME NEW r \in Requests, Fulfilment!Seller!Abandon(r) PROVE HandlerInv'
    BY <2>11 DEF Fulfilment!Seller!Abandon
  <2>12. ASSUME NEW r \in Requests, Fulfilment!Submit(r) PROVE HandlerInv'
    BY <2>12 DEF Fulfilment!Submit, Fulfilment!Seller!Enqueue
  <2>13. CASE Fulfilment!WorkerStep \/ UNCHANGED Fulfilment!vars
    <3>1. UNCHANGED Fulfilment!sellerVars
      BY <2>13 DEF Fulfilment!WorkerStep, Fulfilment!vars
    <3> QED
      BY <3>1 DEF Fulfilment!sellerVars
  <2> QED
    BY <2>1, <2>2, <2>3, <2>4, <2>5, <2>6, <2>7, <2>8, <2>9, <2>10, <2>11, <2>12, <2>13
       DEF Fulfilment!Next, Fulfilment!SellerStep
<1> QED
  BY <1>1, <1>2, PTL DEF Fulfilment!Spec

\* Every step of the composition is one of the outbox, or leaves it as it is.
LEMMA OutboxSteps ==
    ASSUME Unsupported = {}, HandlerInv, [Fulfilment!Next]_Fulfilment!vars
    PROVE  [Next]_vars
<1> USE DEF outboxVars, workerVars
<1>1. ASSUME UNCHANGED Fulfilment!storeVars PROVE UNCHANGED vars
  BY <1>1 DEF Fulfilment!storeVars, vars
<1>2. ASSUME NEW r \in Requests, Fulfilment!SellerStep(r) PROVE UNCHANGED vars
  BY <1>1, <1>2 DEF Fulfilment!SellerStep
<1>3. ASSUME NEW r \in Requests, Fulfilment!Submit(r) PROVE [Next]_vars
  <2> DEFINE k == target[r]
             p == body[r]
  <2>1. k \in Keys /\ p \in Payloads
    BY <1>3 DEF Fulfilment!Submit, HandlerInv
  <2>2. CASE Fulfilment!Outbox!EnqueueNew(k, p)
    <3>1. EnqueueNew(k, p)
      BY <2>2
         DEF Fulfilment!Outbox!EnqueueNew, EnqueueNew, Fulfilment!Outbox!workerVars
    <3> QED
      BY <2>1, <3>1 DEF Next, Submit
  <2>3. CASE Fulfilment!Outbox!EnqueueAgain(k, p)
    <3>1. EnqueueAgain(k, p)
      BY <2>3
         DEF Fulfilment!Outbox!EnqueueAgain, EnqueueAgain, Fulfilment!Outbox!SamePayload,
             SamePayload, Fulfilment!Outbox!outboxVars, Fulfilment!Outbox!workerVars
    <3> QED
      BY <2>1, <3>1 DEF Next, Submit
  <2>4. CASE Fulfilment!Conflict(r)
    BY <1>1, <2>4 DEF Fulfilment!Conflict
  <2> QED
    BY <1>3, <2>2, <2>3, <2>4 DEF Fulfilment!Submit
<1>4. CASE Fulfilment!WorkerStep
  BY <1>4, WorkerSteps DEF Drain, Next
<1>5. CASE UNCHANGED Fulfilment!vars
  BY <1>1, <1>5 DEF Fulfilment!vars
<1> QED
  BY <1>2, <1>3, <1>4, <1>5 DEF Fulfilment!Next

\* The composition runs the outbox as it is.
LEMMA Composed ==
    ASSUME Unsupported = {}
    PROVE  Fulfilment!Spec => Spec
<1>1. Fulfilment!Init => Init
  BY DEF Fulfilment!Init, Fulfilment!Outbox!Init, Init
<1>2. HandlerInv /\ [Fulfilment!Next]_Fulfilment!vars => [Next]_vars
  BY OutboxSteps
<1> QED
  BY Handlers, <1>1, <1>2, PTL DEF Fulfilment!Spec, Spec

\* A worker never makes a row: that is the submitting side's.
LEMMA WorkersAddNoRow ==
    ASSUME TypeOK, Drain, NEW j \in Keys, status[j] = "absent"
    PROVE  status'[j] = "absent"
<1> DEFINE Kept == status'[j] = "absent"
<1> USE DEF TypeOK, outboxVars, workerVars
<1>1. ASSUME NEW k \in Keys, BackoffElapses(k) PROVE Kept
  BY <1>1 DEF BackoffElapses
<1>2. ASSUME NEW k \in Keys, LeaseExpires(k) PROVE Kept
  BY <1>2 DEF LeaseExpires
<1>3. ASSUME NEW w \in Workers, Start(w) PROVE Kept
  BY <1>3 DEF Start
<1>4. ASSUME NEW w \in Workers, Recover(w) PROVE Kept
  BY <1>4 DEF Recover, Expired
<1>5. ASSUME NEW w \in Workers, RecoverError(w) PROVE Kept
  BY <1>5 DEF RecoverError
<1>6. ASSUME NEW w \in Workers, Stop(w) PROVE Kept
  BY <1>6 DEF Stop
<1>7. ASSUME NEW w \in Workers, Crash(w) PROVE Kept
  BY <1>7 DEF Crash
<1>8. ASSUME NEW w \in Workers, NEW k \in Keys, Claim(w, k) PROVE Kept
  BY <1>8 DEF Claim, ClaimRow, Claimable
<1>9. ASSUME NEW w \in Workers, NEW k \in Keys, ClaimLost(w, k) PROVE Kept
  BY <1>9 DEF ClaimLost, ClaimRow, Claimable
<1>10. ASSUME NEW w \in Workers, PreCheck(w) PROVE Kept
  BY <1>10 DEF PreCheck
<1>11. ASSUME NEW w \in Workers, Insert(w) PROVE Kept
  BY <1>11 DEF Insert
<1>12. ASSUME NEW w \in Workers, DispatchError(w) PROVE Kept
  BY <1>12 DEF DispatchError
<1>13. ASSUME NEW w \in Workers, Commit(w) PROVE Kept
  BY <1>13 DEF Commit
<1>14. ASSUME NEW w \in Workers, CommitLost(w) PROVE Kept
  BY <1>14 DEF CommitLost
<1>15. ASSUME NEW w \in Workers, Leave(w) PROVE Kept
  BY <1>15 DEF Leave
<1>16. ASSUME NEW w \in Workers, MarkSucceeded(w) PROVE Kept
  BY <1>16 DEF MarkSucceeded, Fence, SucceedRow, Refused
<1>17. ASSUME NEW w \in Workers, MarkSucceededError(w) PROVE Kept
  BY <1>17 DEF MarkSucceededError, Fence, SucceedRow
<1>18. ASSUME NEW w \in Workers, MarkFailed(w) PROVE Kept
  BY <1>18 DEF MarkFailed, Fence, FailRow, Refused
<1>19. ASSUME NEW w \in Workers, MarkFailedError(w) PROVE Kept
  BY <1>19 DEF MarkFailedError, Fence, FailRow
<1>20. ASSUME NEW w \in Workers, RenewRefused(w) PROVE Kept
  BY <1>20 DEF RenewRefused
<1>21. ASSUME NEW w \in Workers, RenewError(w) PROVE Kept
  BY <1>21 DEF RenewError
<1> QED
  BY <1>1, <1>2, <1>3, <1>4, <1>5, <1>6, <1>7, <1>8, <1>9, <1>10, <1>11, <1>12,
     <1>13, <1>14, <1>15, <1>16, <1>17, <1>18, <1>19, <1>20, <1>21
     DEF Drain, ProcessStep, Renewal

\* What a handler does to the submission, it does in OrderSubmission; the
\* enqueueing handler's share in the outbox is to have a command accepted.
LEMMA SellerSteps ==
    ASSUME NEW r \in Requests, Fulfilment!SellerStep(r) \/ Fulfilment!Submit(r)
    PROVE  [Fulfilment!Seller!Next]_(Fulfilment!Seller!vars)
<1>1. CASE Fulfilment!SellerStep(r)
  BY <1>1
     DEF Fulfilment!SellerStep, Fulfilment!Seller!Next, Fulfilment!Seller!RequestStep
<1>2. CASE Fulfilment!Submit(r)
  BY <1>2 DEF Fulfilment!Submit, Fulfilment!Seller!Next, Fulfilment!Seller!RequestStep
<1> QED
  BY <1>1, <1>2

\* A worker's step keeps the promise of DurableCommand and accepts nothing: it
\* is a step the submission expects of the outbox, or invisible to it.
LEMMA PromisedSteps ==
    ASSUME Unsupported = {}, TypeOK, Fulfilment!WorkerStep, [Promise!Next]_(Promise!vars)
    PROVE  [Fulfilment!Seller!Next]_(Fulfilment!Seller!vars)
<1>1. UNCHANGED Fulfilment!sellerVars
  BY DEF Fulfilment!WorkerStep
<1> USE DEF Fulfilment!sellerVars, Fulfilment!Seller!visitVars, Fulfilment!Seller!submissionVars,
            Fulfilment!Seller!queueVars, Fulfilment!Seller!requestVars,
            Phase, Fulfilment!Outbox!Phase
<1>2. CASE UNCHANGED Promise!vars
  BY <1>1, <1>2 DEF Promise!vars, Fulfilment!Seller!vars
<1>3. ASSUME NEW k \in Keys, NEW p \in Payloads, Promise!Accept(k, p) PROVE FALSE
  <2>1. status[k] = "absent" /\ status'[k] # "absent"
    BY <1>3 DEF Promise!Accept, TypeOK, Status
  <2> QED
    BY <2>1, WorkerSteps, WorkersAddNoRow
<1>4. ASSUME NEW k \in Keys, Promise!Register(k) \/ Promise!Succeed(k) \/ Promise!GiveUp(k)
      PROVE  Fulfilment!Seller!OutboxStep
  <2>1. \/ Fulfilment!Seller!Outbox!Register(k)
        \/ Fulfilment!Seller!Outbox!Succeed(k)
        \/ Fulfilment!Seller!Outbox!GiveUp(k)
    BY <1>4
       DEF Promise!Register, Promise!Succeed, Promise!GiveUp, Promise!Registration,
           Promise!RegisteredKeys, Fulfilment!Seller!Outbox!Register,
           Fulfilment!Seller!Outbox!Succeed, Fulfilment!Seller!Outbox!GiveUp,
           Fulfilment!Seller!Outbox!Registration, Fulfilment!Seller!Outbox!RegisteredKeys
  <2> QED
    BY <1>1, <2>1 DEF Fulfilment!Seller!OutboxStep
<1> QED
  BY <1>2, <1>3, <1>4 DEF Promise!Next, Fulfilment!Seller!Next

\* Submission with the real outbox implements submission with the promised one:
\* the workers' steps are those DurableCommand allows, the enqueueing handler's
\* is one of accepting a command.
THEOREM ImplementsSubmissionHolds ==
    ASSUME Unsupported = {}
    PROVE  Fulfilment!Spec => Fulfilment!ImplementsSubmission
<1>1. Fulfilment!Init => Fulfilment!Seller!Init
  BY DEF Fulfilment!Init
<1>2. TypeOK /\ [Fulfilment!Next]_Fulfilment!vars /\ [Promise!Next]_(Promise!vars)
        => [Fulfilment!Seller!Next]_(Fulfilment!Seller!vars)
  <2>1. CASE UNCHANGED Fulfilment!vars
    BY <2>1
       DEF Fulfilment!vars, Fulfilment!sellerVars, Fulfilment!storeVars, Fulfilment!Seller!vars,
           Fulfilment!Seller!visitVars, Fulfilment!Seller!submissionVars,
           Fulfilment!Seller!queueVars, Fulfilment!Seller!requestVars,
           Fulfilment!Outbox!Phase
  <2> QED
    BY <2>1, SellerSteps, PromisedSteps DEF Fulfilment!Next
<1>3. Spec => []TypeOK /\ [][Promise!Next]_(Promise!vars)
  BY TypeCorrect, PromiseKeptHolds, PTL DEF PromiseKept, Promise!Spec
<1> QED
  BY Composed, <1>1, <1>2, <1>3, PTL
     DEF Fulfilment!Spec, Fulfilment!ImplementsSubmission, Fulfilment!Seller!Spec

\* The submission row is written before the command, and neither goes away.
RowInv ==
    /\ submission \in [Keys -> {"none", "prepared", "sent", "failed"}]
    /\ \A r \in Requests : handler[r] = "enqueue" => submission[target[r]] # "none"
    /\ \A k \in Keys : status[k] # "absent" => submission[k] # "none"

\* A handler that enqueues has recorded the submission first.
LEMMA Rows ==
    ASSUME Unsupported = {}
    PROVE  Fulfilment!Spec => []RowInv
<1>1. Fulfilment!Init => RowInv
  BY DEF Fulfilment!Init, Fulfilment!Outbox!Init, Fulfilment!Seller!Init, RowInv
<1>2. TypeOK /\ HandlerInv /\ RowInv /\ [Fulfilment!Next]_Fulfilment!vars => RowInv'
  <2> SUFFICES ASSUME TypeOK, HandlerInv, RowInv, [Fulfilment!Next]_Fulfilment!vars
               PROVE  RowInv'
    OBVIOUS
  <2>1. ASSUME NEW r \in Requests, Fulfilment!SellerStep(r) PROVE RowInv'
    <3>1. UNCHANGED status
      BY <2>1 DEF Fulfilment!SellerStep, Fulfilment!storeVars
    <3> USE DEF HandlerInv, RowInv, Fulfilment!Seller!Steps, Fulfilment!Seller!Goto,
                Fulfilment!Seller!Finish, Fulfilment!Seller!Enter,
                Fulfilment!Seller!submissionVars, Fulfilment!Seller!requestVars
    <3>2. CASE Fulfilment!Seller!RecordPrepared(r)
      <4>1. target[r] \in Keys /\ submission'[target[r]] # "none"
        BY <3>2 DEF Fulfilment!Seller!RecordPrepared, Fulfilment!Seller!WritePrepared
      <4>2. \A k \in Keys : submission[k] # "none" => submission'[k] # "none"
        BY <3>2 DEF Fulfilment!Seller!RecordPrepared, Fulfilment!Seller!WritePrepared
      <4>3. \A q \in Requests :
               handler'[q] = "enqueue" =>
                  target'[q] = target[q] /\ (q = r \/ handler[q] = "enqueue")
        BY <3>2, <4>1
           DEF Fulfilment!Seller!RecordPrepared, Fulfilment!Seller!AfterRecord
      <4> QED
        BY <3>1, <3>2, <4>1, <4>2, <4>3
           DEF Fulfilment!Seller!RecordPrepared, Fulfilment!Seller!WritePrepared
    <3> DEFINE Same ==
          /\ UNCHANGED submission
          /\ \A q \in Requests : handler'[q] = "enqueue" =>
                handler[q] = "enqueue" /\ target'[q] = target[q]
    <3>3. ASSUME NEW k \in Keys, Fulfilment!Seller!StartVisit(k) PROVE Same
      BY <3>3 DEF Fulfilment!Seller!StartVisit
    <3>4. ASSUME NEW k \in Keys, Fulfilment!Seller!BeginEdit(r, k) PROVE Same
      BY <3>4 DEF Fulfilment!Seller!BeginEdit
    <3>5. ASSUME NEW k \in Keys,
                 \/ Fulfilment!Seller!CompleteOrder(r, k)
                 \/ Fulfilment!Seller!CompleteWithoutOrder(r, k)
          PROVE  Same
      BY <3>5 DEF Fulfilment!Seller!CompleteOrder, Fulfilment!Seller!CompleteWithoutOrder
    <3>6. ASSUME Fulfilment!Seller!WriteDraft(r) PROVE Same
      BY <3>6 DEF Fulfilment!Seller!WriteDraft
    <3>7. ASSUME Fulfilment!Seller!WriteSaved(r) PROVE Same
      BY <3>7 DEF Fulfilment!Seller!WriteSaved
    <3>8. ASSUME Fulfilment!Seller!Validate(r) PROVE Same
      BY <3>8 DEF Fulfilment!Seller!Validate
    <3>9. ASSUME Fulfilment!Seller!Identify(r) PROVE Same
      BY <3>9 DEF Fulfilment!Seller!Identify
    <3>10. ASSUME Fulfilment!Seller!CheckOpen(r) PROVE Same
      BY <3>10 DEF Fulfilment!Seller!CheckOpen
    <3>11. ASSUME Fulfilment!Seller!Close(r) PROVE Same
      BY <3>11 DEF Fulfilment!Seller!Close
    <3>12. ASSUME Fulfilment!Seller!Abandon(r) PROVE Same
      BY <3>12 DEF Fulfilment!Seller!Abandon
    <3>13. CASE Same
      BY <3>1, <3>13
    <3> HIDE DEF Same
    <3> QED
      BY <2>1, <3>2, <3>3, <3>4, <3>5, <3>6, <3>7, <3>8, <3>9, <3>10, <3>11, <3>12, <3>13
         DEF Fulfilment!SellerStep
  <2>2. ASSUME NEW r \in Requests, Fulfilment!Submit(r) PROVE RowInv'
    <3>1. UNCHANGED submission /\ submission[target[r]] # "none"
      BY <2>2 DEF Fulfilment!Submit, Fulfilment!Seller!Enqueue,
                  Fulfilment!Seller!submissionVars, RowInv
    <3>2. \A q \in Requests : q # r => handler'[q] = handler[q] /\ target'[q] = target[q]
      BY <2>2 DEF Fulfilment!Submit, Fulfilment!Seller!Enqueue, Fulfilment!Seller!Finish,
                  HandlerInv
    <3>3. handler'[r] # "enqueue"
      BY <2>2 DEF Fulfilment!Submit, Fulfilment!Seller!Enqueue, Fulfilment!Seller!Finish,
                  HandlerInv
    <3>4. \A k \in Keys : k # target[r] => status'[k] = status[k]
      BY <2>2 DEF Fulfilment!Submit, Fulfilment!Outbox!EnqueueNew,
                  Fulfilment!Outbox!EnqueueAgain, Fulfilment!Outbox!outboxVars,
                  Fulfilment!Conflict, Fulfilment!storeVars, TypeOK
    <3> QED
      BY <3>1, <3>2, <3>3, <3>4 DEF RowInv
  <2>3. CASE Fulfilment!WorkerStep
    <3>1. UNCHANGED <<submission, handler, target>>
      BY <2>3 DEF Fulfilment!WorkerStep, Fulfilment!sellerVars
    <3>2. \A k \in Keys : status[k] = "absent" => status'[k] = "absent"
      BY <2>3, WorkerSteps, WorkersAddNoRow
    <3> QED
      BY <3>1, <3>2 DEF RowInv
  <2>4. CASE UNCHANGED Fulfilment!vars
    BY <2>4 DEF Fulfilment!vars, Fulfilment!sellerVars, Fulfilment!storeVars, RowInv
  <2> QED
    BY <2>1, <2>2, <2>3, <2>4 DEF Fulfilment!Next
<1> QED
  BY Composed, TypeCorrect, Handlers, <1>1, <1>2, PTL DEF Fulfilment!Spec

\* From the seller's tap to Varanegar, through the real outbox: the key of a
\* visit has at most one order there, and each order and each command can be traced back to
\* a submission row, whatever the workers repeat, lose or run late.
THEOREM OrdersTraced ==
    ASSUME Unsupported = {}
    PROVE  Fulfilment!Spec => [](AtMostOneOrder /\ Fulfilment!Seller!OrderHasSubmission)
<1>1. OrderInv /\ RowInv => Fulfilment!Seller!OrderHasSubmission
  <2> SUFFICES ASSUME OrderInv, RowInv, NEW k \in Keys,
                      \/ Fulfilment!Seller!OrderOf(k) # {}
                      \/ Fulfilment!Outbox!Phase(k) # "absent"
               PROVE  submission[k] # "none"
    BY DEF Fulfilment!Seller!OrderHasSubmission
  <2>1. CASE Fulfilment!Seller!OrderOf(k) # {}
    <3>1. PICK o \in orders : o.key = k
      BY <2>1 DEF Fulfilment!Seller!OrderOf
    <3> QED
      BY <3>1 DEF OrderInv, RowInv
  <2>2. CASE Fulfilment!Outbox!Phase(k) # "absent"
    BY <2>2 DEF Fulfilment!Outbox!Phase, RowInv
  <2> QED
    BY <2>1, <2>2
<1> QED
  BY Composed, Orders, AtMostOneOrderHolds, Rows, <1>1, PTL
=============================================================================
