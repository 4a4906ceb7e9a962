--------------------- MODULE AutomationSchedulerProofs ---------------------
(***************************************************************************)
(* What the lock of a claimed automation guarantees, for any number of     *)
(* automations, schedulers, calls and crashes.                          *)
(***************************************************************************)
EXTENDS AutomationScheduler, TLAPS

\* A lock that was not lost keeps the other schedulers away from the run.
OneRun ==
    \A a \in Automations \ unlocked : \A s, t \in Schedulers :
        task[s][a] # "none" /\ task[t][a] # "none" => s = t

LockedRun ==
    \A a \in Automations \ unlocked : \A s \in Schedulers :
        task[s][a] # "none" => lock[a] = "held" \/ state[a] = "deleted"

\* So the outcome it has copied is still the last one when it ends,
CopyIsCurrent ==
    \A a \in Conditional \ unlocked : \A s \in Schedulers :
        task[s][a] # "none" => seen[s][a] = last[a]

\* and the owner knows of exactly the transition it belongs to.
ToldAsRecorded ==
    \A a \in Conditional \ unlocked :
        told[a] = IF last[a] = "yes" THEN "alerted" ELSE "quiet"

AlertInv == TypeOK /\ OneRun /\ LockedRun /\ CopyIsCurrent /\ ToldAsRecorded

\* The variables keep their types: in particular a task is claimed, running
\* or refused, and an alert's owner in one of the four states.
THEOREM SchedulerTypeCorrect == Spec => []TypeOK
<1>1. Init => TypeOK
  BY DEF Init, TypeOK, Triggers, Outcomes
<1>2. TypeOK /\ [Next]_vars => TypeOK'
  <2> SUFFICES ASSUME TypeOK, [Next]_vars PROVE TypeOK'
    OBVIOUS
  <2> USE DEF TypeOK, Triggers, Outcomes, rowVars
  <2>1. ASSUME NEW a \in Automations, Create(a) PROVE TypeOK'
    BY <2>1 DEF Create
  <2>2. ASSUME NEW a \in Automations, ReadSetting(a) PROVE TypeOK'
    <3>0. calls' \in Nat
      <4>1. calls \in Nat /\ calls' = calls + 1
        BY <2>2 DEF ReadSetting
      <4> QED
        BY ONLY <4>1
    <3>1. PICK wish \in {"resume", "pause", "pause due"} :
            setting' = [setting EXCEPT ![a] = wish]
      BY <2>2 DEF ReadSetting
    <3>2. setting' \in [Automations -> {"none", "resume", "pause", "pause due"}]
      BY <3>1
    <3>3. /\ UNCHANGED <<state, active, due, ahead, lock, last>>
          /\ UNCHANGED <<task, seen, told, unlocked, crashes>>
      BY <2>2 DEF ReadSetting
    <3> QED
      BY <3>0, <3>2, <3>3
  <2>3. ASSUME NEW a \in Automations, WriteSetting(a) PROVE TypeOK'
    <3>1. active' \subseteq Automations /\ due' \subseteq Automations
      <4>1. /\ active' = active \cup {a} \/ active' = active \ {a}
            /\ due' = due \cup {a} \/ due' = due \ {a}
        BY <2>3 DEF WriteSetting, Reschedule
      <4> QED
        BY <4>1
    <3>2. ahead' \in [Automations -> SUBSET Automations]
      <4>1. \/ ahead' = [b \in Automations |-> IF b = a THEN {} ELSE ahead[b] \ {a}]
            \/ ahead' = ahead
        BY <2>3 DEF WriteSetting, Reschedule
      <4>2. ahead \in [Automations -> SUBSET Automations]
        OBVIOUS
      <4> QED
        BY ONLY <4>1, <4>2
    <3>3. unlocked' \subseteq Automations
      <4>1. unlocked' = unlocked \cup {a} \/ unlocked' = unlocked
        BY <2>3 DEF WriteSetting
      <4> QED
        BY <4>1
    <3>4. /\ lock' = [lock EXCEPT ![a] = "free"]
          /\ setting' = [setting EXCEPT ![a] = "none"]
          /\ UNCHANGED <<state, last, task, seen, told, calls, crashes>>
      BY <2>3 DEF WriteSetting
    <3> QED
      BY <3>1, <3>2, <3>3, <3>4
  <2>4. ASSUME NEW a \in Automations, Delete(a) PROVE TypeOK'
    BY <2>4 DEF Delete
  <2>5. ASSUME NEW a \in Automations, BecomeDue(a) PROVE TypeOK'
    BY <2>5 DEF BecomeDue
  <2>6. ASSUME NEW a \in Automations, Expire(a) PROVE TypeOK'
    BY <2>6 DEF Expire
  <2>7. ASSUME NEW s \in Schedulers, Claim(s) PROVE TypeOK'
    <3>1. PICK batch \in SUBSET Automations \ {{}} :
            /\ lock' = [a \in Automations |-> IF a \in batch THEN "held" ELSE lock[a]]
            /\ task' = [task EXCEPT ![s] =
                          [a \in Automations |-> IF a \in batch THEN "claimed" ELSE "none"]]
            /\ seen' = [seen EXCEPT ![s] =
                          [a \in Automations |-> IF a \in batch THEN last[a] ELSE "none"]]
      BY <2>7 DEF Claim
    <3>2. [a \in Automations |-> IF a \in batch THEN "claimed" ELSE "none"]
            \in [Automations -> {"none", "claimed", "running", "refused"}]
      OBVIOUS
    <3>3. [a \in Automations |-> IF a \in batch THEN last[a] ELSE "none"]
            \in [Automations -> Triggers]
      OBVIOUS
    <3>4. task' \in [Schedulers -> [Automations -> {"none", "claimed", "running", "refused"}]]
      BY <3>1, <3>2
    <3>5. seen' \in [Schedulers -> [Automations -> Triggers]]
      BY <3>1, <3>3
    <3>6. lock' \in [Automations -> {"free", "held", "expired"}]
      BY <3>1
    <3> QED
      BY <2>7, <3>4, <3>5, <3>6 DEF Claim
  <2>8. ASSUME NEW s \in Schedulers, NEW a \in Automations, Start(s, a) PROVE TypeOK'
    BY <2>8 DEF Start
  <2>9. ASSUME NEW s \in Schedulers, NEW a \in Automations, Finish(s, a) PROVE TypeOK'
    <3>1. CASE a \in Conditional
      <4>1. PICK triggered \in Outcomes :
              /\ last' = [last EXCEPT ![a] = triggered]
              /\ told' = [told EXCEPT ![a] = ToldAfter(a, triggered, Notifies(s, a, triggered))]
        BY <2>9, <3>1 DEF Finish
      <4>2. ToldAfter(a, triggered, Notifies(s, a, triggered))
              \in {"quiet", "alerted", "repeated", "missed"}
        BY <4>1 DEF ToldAfter, Notifies
      <4> QED
        BY <2>9, <4>1, <4>2 DEF Finish, Release, Reschedule
    <3>2. CASE a \notin Conditional
      BY <2>9, <3>2 DEF Finish, Release, Reschedule
    <3> QED
      BY <3>1, <3>2
  <2>10. ASSUME NEW s \in Schedulers, NEW a \in Automations, Fail(s, a) PROVE TypeOK'
    BY <2>10 DEF Fail, AfterFailure, Release, Reschedule
  <2>11. ASSUME NEW s \in Schedulers, Crash(s) PROVE TypeOK'
    <3>1. [a \in Automations |-> "none"]
            \in [Automations -> {"none", "claimed", "running", "refused"}]
      OBVIOUS
    <3>2. [a \in Automations |-> "none"] \in [Automations -> Triggers]
      OBVIOUS
    <3>3. task' \in [Schedulers -> [Automations -> {"none", "claimed", "running", "refused"}]]
      BY <2>11, <3>1 DEF Crash
    <3>4. seen' \in [Schedulers -> [Automations -> Triggers]]
      BY <2>11, <3>2 DEF Crash
    <3>5. /\ UNCHANGED <<state, active, due, ahead, lock, last>>
          /\ UNCHANGED <<setting, told, unlocked, calls>>
      BY <2>11 DEF Crash
    <3>6. crashes' \in Nat
      <4>1. crashes \in Nat /\ crashes' = crashes + 1
        BY <2>11 DEF Crash
      <4> QED
        BY ONLY <4>1
    <3> QED
      BY <3>3, <3>4, <3>5, <3>6
  <2>12. CASE UNCHANGED vars
    BY <2>12 DEF vars
  <2> QED
    BY <2>1, <2>2, <2>3, <2>4, <2>5, <2>6, <2>7, <2>8, <2>9, <2>10, <2>11, <2>12 DEF Next, Step
<1> QED
  BY <1>1, <1>2, PTL DEF Spec

\* A step that touches neither tasks nor outcomes keeps the invariant if it
\* keeps the lock of every run that it does not mark as unlocked.
LEMMA RowStepKeepsAlertInv ==
    ASSUME AlertInv, TypeOK',
           UNCHANGED <<task, seen, last, told>>,
           unlocked \subseteq unlocked',
           \A a \in Automations : Out(a) /\ a \notin unlocked' /\ lock[a] = "held" =>
               lock'[a] = "held" \/ state'[a] = "deleted",
           \A a \in Automations : state[a] = "deleted" => state'[a] = "deleted"
    PROVE  AlertInv'
<1>1. OneRun'
  BY DEF AlertInv, OneRun
<1>2. LockedRun'
  BY DEF AlertInv, LockedRun, Out
<1>3. CopyIsCurrent'
  BY DEF AlertInv, CopyIsCurrent
<1>4. ToldAsRecorded'
  BY DEF AlertInv, ToldAsRecorded
<1> QED
  BY <1>1, <1>2, <1>3, <1>4 DEF AlertInv

\* A run ends: its task and its lock go together.
LEMMA ReleaseKeepsRuns ==
    ASSUME AlertInv, NEW s \in Schedulers, NEW a \in Automations,
           task[s][a] # "none", Release(s, a)
    PROVE  OneRun' /\ LockedRun'
<1>1. /\ task' = [task EXCEPT ![s][a] = "none"]
      /\ lock' = [lock EXCEPT ![a] = "free"]
      /\ state' = state
      /\ unlocked' = unlocked
  BY DEF Release
<1>2. /\ task \in [Schedulers -> [Automations -> {"none", "claimed", "running", "refused"}]]
      /\ lock \in [Automations -> {"free", "held", "expired"}]
  BY DEF AlertInv, TypeOK
<1>3. \A t \in Schedulers, b \in Automations :
        task'[t][b] = IF t = s /\ b = a THEN "none" ELSE task[t][b]
  BY <1>1, <1>2
<1>4. OneRun'
  BY <1>1, <1>3 DEF AlertInv, OneRun
<1>5. LockedRun'
  <2> SUFFICES ASSUME NEW b \in Automations \ unlocked, NEW t \in Schedulers, task'[t][b] # "none"
               PROVE  lock'[b] = "held" \/ state[b] = "deleted"
    BY <1>1 DEF LockedRun
  <2>1. task[t][b] # "none"
    BY <1>3
  <2>2. b # a
    BY <1>3, <2>1 DEF AlertInv, OneRun
  <2> QED
    BY <1>1, <1>2, <2>1, <2>2 DEF AlertInv, LockedRun
<1> QED
  BY <1>4, <1>5

LEMMA AlertInvariant == Spec => []AlertInv
<1>1. Init => AlertInv
  <2> SUFFICES ASSUME Init PROVE AlertInv
    OBVIOUS
  <2>1. TypeOK
    BY DEF Init, TypeOK, Triggers, Outcomes
  <2>2. \A s \in Schedulers, a \in Automations : task[s][a] = "none"
    BY DEF Init
  <2>3. ToldAsRecorded
    BY ConditionalAssumption DEF Init, ToldAsRecorded
  <2> QED
    BY <2>1, <2>2, <2>3, ConditionalAssumption
       DEF AlertInv, OneRun, LockedRun, CopyIsCurrent
<1>2. AlertInv /\ TypeOK' /\ [Next]_vars => AlertInv'
  <2> SUFFICES ASSUME AlertInv, TypeOK', [Next]_vars PROVE AlertInv'
    OBVIOUS
  <2>0. /\ state \in [Automations -> {"absent", "live", "deleted"}]
        /\ lock \in [Automations -> {"free", "held", "expired"}]
        /\ last \in [Automations -> Triggers]
        /\ task \in [Schedulers -> [Automations -> {"none", "claimed", "running", "refused"}]]
        /\ seen \in [Schedulers -> [Automations -> Triggers]]
        /\ told \in [Automations -> {"quiet", "alerted", "repeated", "missed"}]
    BY DEF AlertInv, TypeOK
  <2>1. ASSUME NEW a \in Automations, Create(a) PROVE AlertInv'
    BY <2>0, <2>1, RowStepKeepsAlertInv DEF Create
  <2>2. ASSUME NEW a \in Automations, ReadSetting(a) PROVE AlertInv'
    BY <2>2, RowStepKeepsAlertInv DEF ReadSetting, rowVars
  <2>3. ASSUME NEW a \in Automations, WriteSetting(a) PROVE AlertInv'
    <3>1. /\ lock' = [lock EXCEPT ![a] = "free"]
          /\ unlocked' = (IF Out(a) THEN unlocked \cup {a} ELSE unlocked)
          /\ UNCHANGED <<state, last, task, seen, told>>
      BY <2>3 DEF WriteSetting
    <3> QED
      BY <2>0, <3>1, RowStepKeepsAlertInv
  <2>4. ASSUME NEW a \in Automations, Delete(a) PROVE AlertInv'
    BY <2>0, <2>4, RowStepKeepsAlertInv DEF Delete
  <2>5. ASSUME NEW a \in Automations, BecomeDue(a) PROVE AlertInv'
    BY <2>5, RowStepKeepsAlertInv DEF BecomeDue
  <2>6. ASSUME NEW a \in Automations, Expire(a) PROVE AlertInv'
    BY <2>0, <2>6, RowStepKeepsAlertInv DEF Expire
  <2>7. ASSUME NEW s \in Schedulers, Claim(s) PROVE AlertInv'
    <3>1. PICK batch \in SUBSET Automations \ {{}} :
            /\ Batch(batch)
            /\ lock' = [a \in Automations |-> IF a \in batch THEN "held" ELSE lock[a]]
            /\ task' = [task EXCEPT ![s] =
                          [a \in Automations |-> IF a \in batch THEN "claimed" ELSE "none"]]
            /\ seen' = [seen EXCEPT ![s] =
                          [a \in Automations |-> IF a \in batch THEN last[a] ELSE "none"]]
      BY <2>7 DEF Claim
    <3>2. \A a \in batch : state[a] = "live" /\ lock[a] # "held"
      BY <3>1 DEF Batch, Claimable
    <3>3. UNCHANGED <<state, last, told, unlocked>> /\ Idle(s)
      BY <2>7 DEF Claim
    <3>4. \A t \in Schedulers, a \in Automations :
            /\ task'[t][a] = IF t # s THEN task[t][a] ELSE IF a \in batch THEN "claimed" ELSE "none"
            /\ seen'[t][a] = IF t # s THEN seen[t][a] ELSE IF a \in batch THEN last[a] ELSE "none"
      BY <2>0, <3>1
    <3>5. \A a \in batch \ unlocked : \A t \in Schedulers : task[t][a] = "none"
      BY <3>2 DEF AlertInv, LockedRun
    <3>6. OneRun'
      BY <3>3, <3>4, <3>5 DEF AlertInv, OneRun
    <3>7. LockedRun'
      BY <3>1, <3>3, <3>4 DEF AlertInv, LockedRun
    <3>8. CopyIsCurrent'
      BY <3>3, <3>4, ConditionalAssumption DEF AlertInv, CopyIsCurrent
    <3>9. ToldAsRecorded'
      BY <3>3 DEF AlertInv, ToldAsRecorded
    <3> QED
      BY <3>6, <3>7, <3>8, <3>9 DEF AlertInv
  <2>8. ASSUME NEW s \in Schedulers, NEW a \in Automations, Start(s, a) PROVE AlertInv'
    <3>1. UNCHANGED <<state, lock, last, seen, told, unlocked>> /\ task[s][a] # "none"
      BY <2>8 DEF Start, rowVars
    <3>2. \A t \in Schedulers, b \in Automations : task'[t][b] # "none" => task[t][b] # "none"
      BY <2>0, <2>8 DEF Start
    <3>3. OneRun' /\ LockedRun'
      BY <3>1, <3>2 DEF AlertInv, OneRun, LockedRun
    <3>4. CopyIsCurrent' /\ ToldAsRecorded'
      BY <3>1, <3>2, ConditionalAssumption DEF AlertInv, CopyIsCurrent, ToldAsRecorded
    <3> QED
      BY <3>3, <3>4 DEF AlertInv
  <2>9. ASSUME NEW s \in Schedulers, NEW a \in Automations, Finish(s, a) PROVE AlertInv'
    <3>1. OneRun' /\ LockedRun'
      BY <2>9, ReleaseKeepsRuns DEF Finish
    <3>2. unlocked' = unlocked /\ task[s][a] = "running"
      BY <2>9 DEF Finish, Release
    <3>3. \A t \in Schedulers, b \in Automations :
            /\ task'[t][b] = IF t = s /\ b = a THEN "none" ELSE task[t][b]
            /\ t # s \/ b # a => seen'[t][b] = seen[t][b]
      BY <2>0, <2>9 DEF Finish, Release
    <3>4. CASE a \in Conditional
      <4>1. PICK triggered \in Outcomes :
              /\ last' = [last EXCEPT ![a] = triggered]
              /\ told' = [told EXCEPT ![a] = ToldAfter(a, triggered, Notifies(s, a, triggered))]
        BY <2>9, <3>4 DEF Finish
      <4>2. \A b \in Conditional : b # a => last'[b] = last[b] /\ told'[b] = told[b]
        BY <2>0, <4>1, ConditionalAssumption
      <4>3. a \notin unlocked => \A t \in Schedulers : task'[t][a] = "none"
        BY <3>2, <3>3 DEF AlertInv, OneRun
      <4>4. CopyIsCurrent'
        BY <3>2, <3>3, <4>2, <4>3, ConditionalAssumption DEF AlertInv, CopyIsCurrent
      <4>5. ASSUME a \notin unlocked
            PROVE  ToldAfter(a, triggered, Notifies(s, a, triggered))
                     = IF triggered = "yes" THEN "alerted" ELSE "quiet"
        <5>1. seen[s][a] = last[a] /\ told[a] = IF last[a] = "yes" THEN "alerted" ELSE "quiet"
          BY <3>2, <3>4, <4>5 DEF AlertInv, CopyIsCurrent, ToldAsRecorded
        <5>2. CASE triggered = "no"
          BY <5>2 DEF ToldAfter
        <5>3. CASE triggered = "yes" /\ last[a] = "yes"
          BY <5>1, <5>3 DEF ToldAfter, Notifies
        <5>4. CASE triggered = "yes" /\ last[a] # "yes"
          BY <5>1, <5>4 DEF ToldAfter, Notifies
        <5> QED
          BY <4>1, <5>2, <5>3, <5>4 DEF Outcomes
      <4>6. ToldAsRecorded'
        BY <2>0, <3>2, <4>1, <4>2, <4>5, ConditionalAssumption DEF AlertInv, ToldAsRecorded
      <4> QED
        BY <3>1, <4>4, <4>6 DEF AlertInv
    <3>5. CASE a \notin Conditional
      <4>1. UNCHANGED <<last, told>>
        BY <2>9, <3>5 DEF Finish
      <4>2. CopyIsCurrent'
        BY <3>2, <3>3, <3>5, <4>1, ConditionalAssumption DEF AlertInv, CopyIsCurrent
      <4>3. ToldAsRecorded'
        BY <3>2, <4>1 DEF AlertInv, ToldAsRecorded
      <4> QED
        BY <3>1, <4>2, <4>3 DEF AlertInv
    <3> QED
      BY <3>4, <3>5
  <2>10. ASSUME NEW s \in Schedulers, NEW a \in Automations, Fail(s, a) PROVE AlertInv'
    <3>1. task[s][a] # "none" /\ Release(s, a) /\ unlocked' = unlocked /\ told' = told
      BY <2>10 DEF Fail, Release
    <3>2. last' = last
      BY <2>0, <2>10 DEF Fail, AfterFailure
    <3>3. OneRun' /\ LockedRun'
      BY <3>1, ReleaseKeepsRuns
    <3>4. \A t \in Schedulers, b \in Automations : task'[t][b] # "none" =>
            task[t][b] # "none" /\ seen'[t][b] = seen[t][b]
      BY <2>0, <3>1 DEF Release
    <3>5. CopyIsCurrent'
      BY <3>1, <3>2, <3>4, ConditionalAssumption DEF AlertInv, CopyIsCurrent
    <3>6. ToldAsRecorded'
      BY <3>1, <3>2 DEF AlertInv, ToldAsRecorded
    <3> QED
      BY <3>3, <3>5, <3>6 DEF AlertInv
  <2>11. ASSUME NEW s \in Schedulers, Crash(s) PROVE AlertInv'
    <3>1. UNCHANGED <<state, lock, last, told, unlocked>>
      BY <2>11 DEF Crash, rowVars
    <3>2. \A t \in Schedulers, b \in Automations : task'[t][b] # "none" =>
            task[t][b] # "none" /\ seen'[t][b] = seen[t][b]
      BY <2>0, <2>11 DEF Crash
    <3>3. OneRun' /\ LockedRun'
      BY <3>1, <3>2 DEF AlertInv, OneRun, LockedRun
    <3>4. CopyIsCurrent' /\ ToldAsRecorded'
      BY <3>1, <3>2, ConditionalAssumption DEF AlertInv, CopyIsCurrent, ToldAsRecorded
    <3> QED
      BY <3>3, <3>4 DEF AlertInv
  <2>12. CASE UNCHANGED vars
    BY <2>12, RowStepKeepsAlertInv DEF vars, rowVars
  <2> QED
    BY <2>1, <2>2, <2>3, <2>4, <2>5, <2>6, <2>7, <2>8, <2>9, <2>10, <2>11, <2>12 DEF Next, Step
<1> QED
  BY <1>1, <1>2, SchedulerTypeCorrect, PTL DEF Spec

\* The lock is enough: while an automation's lock is never lost under a run,
\* its owner is told once of every transition of its condition.
THEOREM EdgeTriggeredUnderLockHolds == Spec => []EdgeTriggeredUnderLock
<1>1. AlertInv => EdgeTriggeredUnderLock
  BY DEF AlertInv, ToldAsRecorded, EdgeTriggeredUnderLock
<1> QED
  BY <1>1, AlertInvariant, PTL

\* No scheduler claims a deleted automation, whatever set_automation_active
\* wrote to its row after the deletion.
THEOREM DeletedIsNotClaimedHolds == Spec => DeletedIsNotClaimed
<1> DEFINE Quiet == \A a \in Automations : state[a] = "deleted" =>
                      \A s \in Schedulers : task'[s][a] = "claimed" => task[s][a] = "claimed"
<1>1. TypeOK /\ [Next]_vars => [Quiet]_vars
  <2> SUFFICES ASSUME TypeOK, Next PROVE Quiet
    BY DEF vars
  <2> USE DEF TypeOK, rowVars
  <2>1. ASSUME NEW s \in Schedulers, Claim(s) PROVE Quiet
    <3>1. PICK batch \in SUBSET Automations \ {{}} :
            /\ \A a \in batch : state[a] = "live"
            /\ task' = [task EXCEPT ![s] =
                          [a \in Automations |-> IF a \in batch THEN "claimed" ELSE "none"]]
      BY <2>1 DEF Claim, Batch, Claimable
    <3> QED
      BY <3>1
  <2>2. ASSUME NEW s \in Schedulers, NEW a \in Automations, Start(s, a) PROVE Quiet
    BY <2>2 DEF Start
  <2>3. ASSUME NEW s \in Schedulers, NEW a \in Automations, Finish(s, a) \/ Fail(s, a) PROVE Quiet
    <3>1. task' = [task EXCEPT ![s][a] = "none"]
      BY <2>3 DEF Finish, Fail, Release
    <3> QED
      BY <3>1
  <2>4. ASSUME NEW s \in Schedulers, Crash(s) PROVE Quiet
    BY <2>4 DEF Crash
  <2>5. ASSUME NEW a \in Automations,
               Create(a) \/ ReadSetting(a) \/ WriteSetting(a) \/ Delete(a)
                 \/ BecomeDue(a) \/ Expire(a)
        PROVE  Quiet
    BY <2>5 DEF Create, ReadSetting, WriteSetting, Delete, BecomeDue, Expire
  <2> QED
    BY <2>1, <2>2, <2>3, <2>4, <2>5 DEF Next, Step
<1> QED
  BY <1>1, SchedulerTypeCorrect, PTL DEF Spec, DeletedIsNotClaimed
=============================================================================
