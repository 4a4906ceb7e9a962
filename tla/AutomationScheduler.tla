------------------------ MODULE AutomationScheduler ------------------------
(***************************************************************************)
(* The scheduled reports and alerts of app/automation_service.py.          *)
(*                                                                         *)
(* Every server process runs automation_loop (app/main.py), and an old     *)
(* worker may still be alive beside the new one                            *)
(* (scripts/start_public_service.ps1).  A scheduler claims a batch of due  *)
(* rows in one transaction, under a lock that lasts LOCK_MINUTES, runs     *)
(* their reports one by one in a child process, evaluates the condition    *)
(* of an alert and writes the outcome back to the row, which releases it.  *)
(* Meanwhile users pause, resume and delete their automations.             *)
(*                                                                         *)
(* Time is abstracted: next_run_at passes, and a lock expires, at any      *)
(* moment.  What next_run_at orders is kept in ahead.  The reports of a    *)
(* batch may run in any order here; the code takes them by next_run_at.    *)
(*                                                                         *)
(* A definition X_Y is a faulty variant of X, which the runs must reject.  *)
(***************************************************************************)
EXTENDS Naturals, FiniteSets

CONSTANTS
    Automations,
    Conditional,   \* the automations with a condition_text
    Schedulers,
    Limit,         \* rows one pass claims (3 in the code)
    MaxCalls,   \* bound: calls of set_automation_active
    MaxCrashes     \* bound: batches lost to an error or a restart

ASSUME ConditionalAssumption == Conditional \subseteq Automations
ASSUME BoundAssumption == Limit \in Nat /\ MaxCalls \in Nat /\ MaxCrashes \in Nat

VARIABLES
    state,     \* absent, live, or deleted (deleted_at)
    active,    \* the rows with active=1
    due,       \* the rows whose next_run_at has passed
    ahead,     \* per due row: the rows that were due before it
    lock,      \* locked_until: none, in the future, or passed
    last,      \* last_triggered (of a report without condition nobody reads it)
    setting,   \* a set_automation_active call that has read the row
    task,      \* per scheduler and automation: the stage of its task
    seen,      \* per task: last_triggered in the row as it was claimed
    told,      \* what the owner was told since the condition last was false
    unlocked,  \* the automations whose lock was lost under a running task
    calls,  \* number of set_automation_active calls so far
    crashes    \* number of batches lost so far

rowVars == <<state, active, due, ahead, lock, last>>
vars == <<rowVars, setting, task, seen, told, unlocked, calls, crashes>>

Outcomes == {"yes", "no"}
Triggers == Outcomes \cup {"none"}

TypeOK ==
    /\ state \in [Automations -> {"absent", "live", "deleted"}]
    /\ active \subseteq Automations
    /\ due \subseteq Automations
    /\ ahead \in [Automations -> SUBSET Automations]
    /\ lock \in [Automations -> {"free", "held", "expired"}]
    /\ last \in [Automations -> Triggers]
    /\ setting \in [Automations -> {"none", "resume", "pause", "pause due"}]
    /\ task \in [Schedulers -> [Automations -> {"none", "claimed", "running", "refused"}]]
    /\ seen \in [Schedulers -> [Automations -> Triggers]]
    /\ told \in [Automations -> {"quiet", "alerted", "repeated", "missed"}]
    /\ unlocked \subseteq Automations
    /\ calls \in Nat
    /\ crashes \in Nat

Out(a) == \E s \in Schedulers : task[s][a] # "none"

\* A new next_run_at lies in the future.
Reschedule(a) ==
    /\ due' = due \ {a}
    /\ ahead' = [b \in Automations |-> IF b = a THEN {} ELSE ahead[b] \ {a}]
-----------------------------------------------------------------------------
(* The users *)

\* create_automation; a daily time in the current minute is due at once,
\* which is BecomeDue as the next step.
Create(a) ==
    /\ state[a] = "absent"
    /\ state' = [state EXCEPT ![a] = "live"]
    /\ active' = active \cup {a}
    /\ UNCHANGED <<due, ahead, lock, last, setting, task, seen, told, unlocked,
                   calls, crashes>>

\* set_automation_active reads the row ...
ReadSetting(a) ==
    /\ calls < MaxCalls
    /\ setting[a] = "none"
    /\ state[a] = "live"
    /\ \E wish \in {"resume", IF a \in due THEN "pause due" ELSE "pause"} :
         setting' = [setting EXCEPT ![a] = wish]
    /\ calls' = calls + 1
    /\ UNCHANGED <<rowVars, task, seen, told, unlocked, crashes>>

\* ... and updates it, in a transaction of its own that looks neither at
\* deleted_at nor at the lock; a pause writes the next_run_at it has read.
WriteSetting(a) ==
    /\ setting[a] # "none"
    /\ \/ /\ setting[a] = "resume"
          /\ active' = active \cup {a}
          /\ Reschedule(a)
       \/ /\ setting[a] = "pause"
          /\ active' = active \ {a}
          /\ Reschedule(a)
       \/ /\ setting[a] = "pause due"
          /\ active' = active \ {a}
          /\ due' = due \cup {a}
          /\ UNCHANGED ahead
    /\ lock' = [lock EXCEPT ![a] = "free"]
    /\ unlocked' = IF Out(a) THEN unlocked \cup {a} ELSE unlocked
    /\ setting' = [setting EXCEPT ![a] = "none"]
    /\ UNCHANGED <<state, last, task, seen, told, calls, crashes>>

\* delete_automation
Delete(a) ==
    /\ state[a] = "live"
    /\ state' = [state EXCEPT ![a] = "deleted"]
    /\ active' = active \ {a}
    /\ lock' = [lock EXCEPT ![a] = "free"]
    /\ UNCHANGED <<due, ahead, last, setting, task, seen, told, unlocked, calls, crashes>>
-----------------------------------------------------------------------------
(* The clock *)

BecomeDue(a) ==
    /\ state[a] # "absent"
    /\ a \notin due
    /\ due' = due \cup {a}
    /\ ahead' = [ahead EXCEPT ![a] = due]
    /\ UNCHANGED <<state, active, lock, last, setting, task, seen, told, unlocked,
                   calls, crashes>>

Expire(a) ==
    /\ lock[a] = "held"
    /\ lock' = [lock EXCEPT ![a] = "expired"]
    /\ unlocked' = IF Out(a) THEN unlocked \cup {a} ELSE unlocked
    /\ UNCHANGED <<state, active, due, ahead, last, setting, task, seen, told,
                   calls, crashes>>
-----------------------------------------------------------------------------
(* A scheduler *)

Idle(s) == \A a \in Automations : task[s][a] = "none"

Claimable_EvenDeleted(a) == a \in active /\ a \in due /\ lock[a] # "held"
Claimable_EvenHeld(a) == state[a] = "live" /\ a \in active /\ a \in due
Claimable(a) ==
    /\ state[a] = "live"
    /\ a \in active
    /\ a \in due
    /\ lock[a] # "held"

\* ORDER BY next_run_at LIMIT n
Batch_Unordered(batch) ==
    LET claimable == {a \in Automations : Claimable(a)}
    IN /\ batch \subseteq claimable
       /\ Cardinality(batch) = IF Cardinality(claimable) < Limit
                               THEN Cardinality(claimable) ELSE Limit
Batch(batch) ==
    LET claimable == {a \in Automations : Claimable(a)}
    IN /\ batch \subseteq claimable
       /\ Cardinality(batch) = IF Cardinality(claimable) < Limit
                               THEN Cardinality(claimable) ELSE Limit
       /\ \A a \in batch : ahead[a] \cap claimable \subseteq batch

\* _claim_due: one transaction, under BEGIN IMMEDIATE.  The tasks are copies
\* of the rows.
Claim(s) ==
    /\ Idle(s)
    /\ \E batch \in SUBSET Automations \ {{}} :
         /\ Batch(batch)
         /\ lock' = [a \in Automations |-> IF a \in batch THEN "held" ELSE lock[a]]
         /\ task' = [task EXCEPT ![s] =
                       [a \in Automations |-> IF a \in batch THEN "claimed" ELSE "none"]]
         /\ seen' = [seen EXCEPT ![s] =
                       [a \in Automations |-> IF a \in batch THEN last[a] ELSE "none"]]
    /\ UNCHANGED <<state, active, due, ahead, last, setting, told, unlocked,
                   calls, crashes>>

Busy(s) == \E a \in Automations : task[s][a] \in {"running", "refused"}

\* The child process reads the row again and refuses a deleted one
\* (automation_worker.run_task); it does not look at active.
Start(s, a) ==
    /\ task[s][a] = "claimed"
    /\ ~Busy(s)
    /\ task' = [task EXCEPT ![s][a] = IF state[a] = "live" THEN "running" ELSE "refused"]
    /\ UNCHANGED <<rowVars, setting, seen, told, unlocked, calls, crashes>>

\* The final UPDATE of a run releases the row, whoever has it by now.
Release(s, a) ==
    /\ task' = [task EXCEPT ![s][a] = "none"]
    /\ seen' = [seen EXCEPT ![s][a] = "none"]
    /\ lock' = [lock EXCEPT ![a] = "free"]
    /\ Reschedule(a)
    /\ UNCHANGED <<state, active, setting, unlocked, calls, crashes>>

\* previous_triggered and should_notify
Notifies(s, a, triggered) == triggered = "yes" /\ seen[s][a] # "yes"

\* What this leaves the owner of an alert with.
ToldAfter(a, triggered, notified) ==
    CASE triggered = "no" -> "quiet"
      [] triggered = "yes" /\ notified -> IF told[a] = "quiet" THEN "alerted" ELSE "repeated"
      [] triggered = "yes" /\ ~notified -> IF told[a] = "quiet" THEN "missed" ELSE told[a]

\* The transaction that records a successful run, its notification with it.
Finish(s, a) ==
    /\ task[s][a] = "running"
    /\ IF a \in Conditional
       THEN \E triggered \in Outcomes :
              /\ last' = [last EXCEPT ![a] = triggered]
              /\ told' = [told EXCEPT ![a] = ToldAfter(a, triggered, Notifies(s, a, triggered))]
       ELSE UNCHANGED <<last, told>>
    /\ Release(s, a)

\* The except branch: a timeout, an error of the report or of the evaluator,
\* a deleted row.  last_triggered stays.
AfterFailure_Status(a) == "failed"
AfterFailure(a) == last[a]
Fail(s, a) ==
    /\ task[s][a] \in {"running", "refused"}
    /\ last' = [last EXCEPT ![a] = AfterFailure(a)]
    /\ UNCHANGED told
    /\ Release(s, a)

\* A restart of the process, or an error that leaves run_due_automations: the
\* rest of the batch stays locked, and nobody works on it.
Crash(s) ==
    /\ crashes < MaxCrashes
    /\ ~Idle(s)
    /\ task' = [task EXCEPT ![s] = [a \in Automations |-> "none"]]
    /\ seen' = [seen EXCEPT ![s] = [a \in Automations |-> "none"]]
    /\ crashes' = crashes + 1
    /\ UNCHANGED <<rowVars, setting, told, unlocked, calls>>
-----------------------------------------------------------------------------
Init ==
    /\ state = [a \in Automations |-> "absent"]
    /\ active = {}
    /\ due = {}
    /\ ahead = [a \in Automations |-> {}]
    /\ lock = [a \in Automations |-> "free"]
    /\ last = [a \in Automations |-> "none"]
    /\ setting = [a \in Automations |-> "none"]
    /\ task = [s \in Schedulers |-> [a \in Automations |-> "none"]]
    /\ seen = [s \in Schedulers |-> [a \in Automations |-> "none"]]
    /\ told = [a \in Automations |-> "quiet"]
    /\ unlocked = {}
    /\ calls = 0
    /\ crashes = 0

Step(s) == Claim(s) \/ \E a \in Automations : Start(s, a) \/ Finish(s, a) \/ Fail(s, a)

Next ==
    \/ \E a \in Automations :
         \/ Create(a) \/ ReadSetting(a) \/ WriteSetting(a) \/ Delete(a)
         \/ BecomeDue(a) \/ Expire(a)
    \/ \E s \in Schedulers : Step(s) \/ Crash(s)

Spec == Init /\ [][Next]_vars

\* automation_loop makes a pass every 30 seconds, a run ends at the latest
\* with its timeout, and a lock with its time.
Fairness ==
    /\ \A s \in Schedulers : WF_vars(Step(s))
    /\ \A a \in Automations : WF_vars(Expire(a))

FairSpec == Spec /\ Fairness
-----------------------------------------------------------------------------
(* Properties *)

\* test_condition_alert_notifies_only_on_false_to_true_transition: an alert is
\* told once per transition, and each transition is told, as long as no lock of
\* the automation was lost under a run: through failures, restarts, deletions
\* and any number of schedulers.  When a lock ends before its run, or a user
\* pauses and resumes the automation meanwhile, a second scheduler judges by
\* the same old outcome: see the README.
EdgeTriggeredUnderLock ==
    \A a \in Conditional \ unlocked : told[a] \in {"quiet", "alerted"}

\* A deleted automation is never claimed again, although a resume that read
\* the row before its deletion makes it active afterwards.
DeletedIsNotClaimed ==
    [][\A a \in Automations : state[a] = "deleted" =>
         \A s \in Schedulers : task'[s][a] = "claimed" => task[s][a] = "claimed"]_vars

\* An active automation that is due gets its run (or its owner pauses,
\* resumes or deletes it): no lock of a lost batch keeps it back for ever, and
\* no stream of other due automations.
DueIsRun ==
    \A a \in Automations :
        state[a] = "live" /\ a \in active /\ a \in due
            ~> ~(state[a] = "live" /\ a \in active /\ a \in due)
=============================================================================
