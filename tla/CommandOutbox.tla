--------------------------- MODULE CommandOutbox ---------------------------
(***************************************************************************)
(* The durable outbox of Varanegar order commands: the PostgreSQL tables   *)
(* command_outbox and command_receipts (app/enterprise_store.py), the      *)
(* worker that drains them (app/varanegar_command_worker.py), the loop of  *)
(* app/main.py that hosts it, and the transaction the worker runs in       *)
(* Varanegar, seen as a table of committed orders.                         *)
(*                                                                         *)
(* Time is abstracted to what the code compares: a lease is live or        *)
(* expired (locked_until against clock_timestamp()), a retry has waited    *)
(* out its backoff or not (available_at).  A lease may expire at any       *)
(* moment: the heartbeat makes that rare, nothing makes it impossible.     *)
(*                                                                         *)
(* Each method of EnterpriseStore is one transaction and one action.  A    *)
(* transport error of such a call leaves the transaction committed or      *)
(* rolled back, and the caller cannot tell which.                          *)
(*                                                                         *)
(* A definition X_Y is a faulty variant of X, which the runs must reject.  *)
(***************************************************************************)
EXTENDS Naturals, FiniteSets

CONSTANTS
    Keys,         \* idempotency keys; each has at most one outbox row
    Payloads,     \* the payloads callers may submit under a key
    NoPayload,    \* the payload of a key that has no row
    Unsupported,  \* the keys whose command_type is not SUPPORTED_COMMAND
    Workers,      \* worker ids (host:pid), reused by a restarted process
    NoKey,        \* a worker without a claim
    NoWorker,     \* locked_by IS NULL
    MaxAttempts,  \* max_attempts of process_one
    MaxFaults     \* bound on the faults that can leave a row processing

ASSUME KeyAssumption == /\ NoKey \notin Keys
                        /\ Unsupported \subseteq Keys
ASSUME WorkerAssumption == NoWorker \notin Workers
ASSUME BoundAssumption == MaxAttempts \in Nat \ {0} /\ MaxFaults \in Nat

VARIABLES
    \* command_outbox, one column per variable
    status, payload, attempt, available, lockedBy, lease,
    \* command_receipts
    receipts,
    \* the payloads enqueue_command has acknowledged (history)
    accepted,
    \* the worker processes
    pc, cmd, att, heartbeat, result, txn,
    \* Varanegar: the orders committed there
    orders,
    faults

outboxVars == <<status, payload, attempt, available, lockedBy, lease>>
workerVars == <<pc, cmd, att, heartbeat, result, txn>>
vars == <<outboxVars, receipts, accepted, workerVars, orders, faults>>

Status == {"absent", "pending", "processing", "retry", "succeeded", "dead_letter"}
Stages == {"dispatch", "lease", "commit"}
Outcomes == {"failed", "unknown", "succeeded"}
Locations == {"down", "starting", "halted", "idle", "claimed", "checked",
              "executed", "leaving", "settling"}
Results == {"none", "ok", "rejected", "unknown"}

Receipt(k, stage, outcome) == [key |-> k, stage |-> stage, outcome |-> outcome]
Order(k, n, p) == [key |-> k, attempt |-> n, payload |-> p]

OrderOf(k) == {o \in orders : o.key = k}
Working(w) == pc[w] \in {"claimed", "checked", "executed", "leaving", "settling"}

TypeOK ==
    /\ status \in [Keys -> Status]
    /\ payload \in [Keys -> Payloads \cup {NoPayload}]
    /\ attempt \in [Keys -> Nat]
    /\ available \in [Keys -> BOOLEAN]
    /\ lockedBy \in [Keys -> Workers \cup {NoWorker}]
    /\ lease \in [Keys -> {"none", "live", "expired"}]
    /\ \A k \in Keys : /\ status[k] = "processing" <=> lockedBy[k] # NoWorker
                       /\ status[k] = "processing" <=> lease[k] # "none"
    /\ receipts \subseteq [key : Keys, stage : Stages, outcome : Outcomes]
    /\ accepted \in [Keys -> SUBSET Payloads]
    /\ pc \in [Workers -> Locations]
    /\ cmd \in [Workers -> Keys \cup {NoKey}]
    /\ \A w \in Workers : Working(w) <=> cmd[w] # NoKey
    /\ att \in [Workers -> Nat]
    /\ heartbeat \in [Workers -> {"on", "off"}]
    /\ result \in [Workers -> Results]
    /\ txn \in [Workers -> {"open", "none"}]
    /\ orders \subseteq [key : Keys, attempt : Nat, payload : Payloads \cup {NoPayload}]
    /\ faults \in 0..MaxFaults

Init ==
    /\ status = [k \in Keys |-> "absent"]
    /\ payload = [k \in Keys |-> NoPayload]
    /\ attempt = [k \in Keys |-> 0]
    /\ available = [k \in Keys |-> FALSE]
    /\ lockedBy = [k \in Keys |-> NoWorker]
    /\ lease = [k \in Keys |-> "none"]
    /\ receipts = {}
    /\ accepted = [k \in Keys |-> {}]
    /\ pc = [w \in Workers |-> "down"]
    /\ cmd = [w \in Workers |-> NoKey]
    /\ att = [w \in Workers |-> 0]
    /\ heartbeat = [w \in Workers |-> "off"]
    /\ result = [w \in Workers |-> "none"]
    /\ txn = [w \in Workers |-> "none"]
    /\ orders = {}
    /\ faults = 0

Fault == faults < MaxFaults /\ faults' = faults + 1
-----------------------------------------------------------------------------
(***************************************************************************)
(* The submitting side and the clock                                       *)
(***************************************************************************)

\* INSERT .. ON CONFLICT DO NOTHING inserts the row.
EnqueueNew(k, p) ==
    /\ status[k] = "absent"
    /\ payload' = [payload EXCEPT ![k] = p]
    /\ status' = [status EXCEPT ![k] = "pending"]
    /\ available' = [available EXCEPT ![k] = TRUE]
    /\ accepted' = [accepted EXCEPT ![k] = @ \cup {p}]
    /\ UNCHANGED <<attempt, lockedBy, lease, receipts, workerVars, orders, faults>>

\* The key exists: the call is acknowledged when the stored payload is the
\* caller's, and raises IdempotencyConflict (no state change) otherwise.
SamePayload_Unchecked(k, p) == TRUE
SamePayload(k, p) == p = payload[k]

EnqueueAgain(k, p) ==
    /\ status[k] # "absent"
    /\ SamePayload(k, p)
    /\ accepted' = [accepted EXCEPT ![k] = @ \cup {p}]
    /\ UNCHANGED <<outboxVars, receipts, workerVars, orders, faults>>

BackoffElapses(k) ==
    /\ status[k] = "retry"
    /\ ~available[k]
    /\ available' = [available EXCEPT ![k] = TRUE]
    /\ UNCHANGED <<status, payload, attempt, lockedBy, lease, receipts, accepted,
                   workerVars, orders, faults>>

Holds(w, k) == Working(w) /\ cmd[w] = k /\ att[w] = attempt[k]

\* A lease runs out.  It is a fault (a stalled worker, renewals that do not
\* arrive) when its claimant is still at work, and only time passing otherwise.
LeaseExpires(k) ==
    /\ lease[k] = "live"
    /\ lease' = [lease EXCEPT ![k] = "expired"]
    /\ IF \E w \in Workers : Holds(w, k) THEN Fault ELSE UNCHANGED faults
    /\ UNCHANGED <<status, payload, attempt, available, lockedBy, receipts,
                   accepted, workerVars, orders>>
-----------------------------------------------------------------------------
(***************************************************************************)
(* The process that hosts the worker: command_worker_loop of main.py       *)
(***************************************************************************)

Start(w) ==
    /\ pc[w] = "down"
    /\ pc' = [pc EXCEPT ![w] = "starting"]
    /\ UNCHANGED <<outboxVars, receipts, accepted, cmd, att, heartbeat, result, txn,
                   orders, faults>>

Expired_NeverFound == {k \in Keys : status[k] = "processing" /\ lease[k] = "none"}
Expired == {k \in Keys : status[k] = "processing" /\ lease[k] = "expired"}

LeaseReceipts_Forgotten == {}
LeaseReceipts == {Receipt(k, "lease", "unknown") : k \in Expired}

\* recover_expired_leases, called once before the loop
Recover(w) ==
    /\ pc[w] = "starting"
    /\ pc' = [pc EXCEPT ![w] = "idle"]
    /\ status' = [k \in Keys |-> IF k \in Expired THEN "retry" ELSE status[k]]
    /\ available' = [k \in Keys |-> k \in Expired \/ available[k]]
    /\ lockedBy' = [k \in Keys |-> IF k \in Expired THEN NoWorker ELSE lockedBy[k]]
    /\ lease' = [k \in Keys |-> IF k \in Expired THEN "none" ELSE lease[k]]
    /\ receipts' = receipts \cup LeaseReceipts
    /\ UNCHANGED <<payload, attempt, accepted, cmd, att, heartbeat, result, txn,
                   orders, faults>>

\* The recovery call raises: it stands outside the loop's try, so the task
\* ends and this process drains nothing until it is restarted.
RecoverError(w) ==
    /\ pc[w] = "starting"
    /\ Fault
    /\ pc' = [pc EXCEPT ![w] = "halted"]
    /\ UNCHANGED <<outboxVars, receipts, accepted, cmd, att, heartbeat, result, txn,
                   orders>>

\* The worker's thread is gone or back in the loop; its connection to Varanegar
\* is closed, which rolls an open transaction back.
Release(w, where) ==
    /\ pc' = [pc EXCEPT ![w] = where]
    /\ cmd' = [cmd EXCEPT ![w] = NoKey]
    /\ att' = [att EXCEPT ![w] = 0]
    /\ heartbeat' = [heartbeat EXCEPT ![w] = "off"]
    /\ result' = [result EXCEPT ![w] = "none"]
    /\ txn' = [txn EXCEPT ![w] = "none"]

\* A restart between two commands
Stop(w) ==
    /\ pc[w] \in {"starting", "halted", "idle"}
    /\ Release(w, "down")
    /\ UNCHANGED <<outboxVars, receipts, accepted, orders, faults>>

Crash(w) ==
    /\ Working(w)
    /\ Fault
    /\ Release(w, "down")
    /\ UNCHANGED <<outboxVars, receipts, accepted, orders>>
-----------------------------------------------------------------------------
(***************************************************************************)
(* process_one: the claim                                                  *)
(***************************************************************************)

Claimable(k) ==
    /\ status[k] \in {"pending", "retry"}
    /\ available[k]
    /\ lease[k] # "live"

NextAttempt_NotCounted(k) == 1
NextAttempt(k) == attempt[k] + 1

\* claim_command takes the oldest eligible row, skipping rows that concurrent
\* transactions have locked: any eligible row can be the one it returns.
ClaimRow(w, k) ==
    /\ pc[w] = "idle"
    /\ Claimable(k)
    /\ status' = [status EXCEPT ![k] = "processing"]
    /\ attempt' = [attempt EXCEPT ![k] = NextAttempt(k)]
    /\ lockedBy' = [lockedBy EXCEPT ![k] = w]
    /\ lease' = [lease EXCEPT ![k] = "live"]
    /\ UNCHANGED <<payload, available, receipts, accepted, orders>>

\* An unsupported type goes straight to mark_failed, with max_attempts = 1.
Claim(w, k) ==
    /\ ClaimRow(w, k)
    /\ cmd' = [cmd EXCEPT ![w] = k]
    /\ att' = [att EXCEPT ![w] = NextAttempt(k)]
    /\ IF k \in Unsupported
       THEN /\ pc' = [pc EXCEPT ![w] = "settling"]
            /\ result' = [result EXCEPT ![w] = "rejected"]
            /\ UNCHANGED heartbeat
       ELSE /\ pc' = [pc EXCEPT ![w] = "claimed"]
            /\ heartbeat' = [heartbeat EXCEPT ![w] = "on"]
            /\ UNCHANGED result
    /\ UNCHANGED <<txn, faults>>

\* The claim commits and its answer is lost: the loop swallows the error and
\* the row stays processing without a worker.
ClaimLost(w, k) ==
    /\ ClaimRow(w, k)
    /\ Fault
    /\ UNCHANGED workerVars
-----------------------------------------------------------------------------
(***************************************************************************)
(* process_one: the dispatch, under the heartbeat of _lease_heartbeat      *)
(***************************************************************************)

Fence_ByAttempt(w) == attempt[cmd[w]] = att[w]
Fence(w) ==
    /\ status[cmd[w]] = "processing"
    /\ lockedBy[cmd[w]] = w
    /\ attempt[cmd[w]] = att[w]
    /\ lease[cmd[w]] = "live"

\* A renewal of a live lease leaves it live; one the fence refuses is a failure
\* the heartbeat remembers before it stops.
RenewRefused(w) ==
    /\ pc[w] \in {"claimed", "checked", "executed", "leaving"}
    /\ heartbeat[w] = "on"
    /\ ~Fence(w)
    /\ heartbeat' = [heartbeat EXCEPT ![w] = "off"]
    /\ UNCHANGED <<outboxVars, receipts, accepted, pc, cmd, att, result, txn,
                   orders, faults>>

RenewError(w) ==
    /\ pc[w] \in {"claimed", "checked", "executed", "leaving"}
    /\ heartbeat[w] = "on"
    /\ Fault
    /\ heartbeat' = [heartbeat EXCEPT ![w] = "off"]
    /\ UNCHANGED <<outboxVars, receipts, accepted, pc, cmd, att, result, txn, orders>>

\* The wrapper's first SELECT: an order that exists is returned as committed.
PreCheck(w) ==
    /\ pc[w] = "claimed"
    /\ pc' = [pc EXCEPT ![w] = IF OrderOf(cmd[w]) # {} THEN "executed" ELSE "checked"]
    /\ UNCHANGED <<outboxVars, receipts, accepted, cmd, att, heartbeat, result, txn,
                   orders, faults>>

EndDispatch(w, r) ==
    /\ pc' = [pc EXCEPT ![w] = "settling"]
    /\ result' = [result EXCEPT ![w] = r]
    /\ txn' = [txn EXCEPT ![w] = "none"]
    /\ heartbeat' = [heartbeat EXCEPT ![w] = "off"]

\* The primary key of the audit row is taken.
AuditConflict_NoKey(w) == FALSE
AuditConflict(w) == OrderOf(cmd[w]) # {}

\* The wrapper writes the order and its audit row.  The audit row's primary key
\* is the order's unique id: a concurrent writer of the same order waits for the
\* first one's transaction and, once that one has committed, raises.
Insert(w) ==
    /\ pc[w] = "checked"
    /\ \A v \in Workers \ {w} : ~(txn[v] = "open" /\ cmd[v] = cmd[w])
    /\ IF AuditConflict(w)
       THEN EndDispatch(w, "unknown")
       ELSE /\ pc' = [pc EXCEPT ![w] = "executed"]
            /\ txn' = [txn EXCEPT ![w] = "open"]
            /\ UNCHANGED <<result, heartbeat>>
    /\ UNCHANGED <<outboxVars, receipts, accepted, cmd, att, orders, faults>>

\* dispatch_varanegar_order raises before the commit: a VaranegarOrderBridgeError
\* is a rejection, any other exception (the wrapper's THROW, the transport) an
\* unknown outcome.  _write_connection rolls back.
DispatchError(w) ==
    /\ pc[w] \in {"claimed", "checked", "executed"}
    /\ \E r \in {"rejected", "unknown"} : EndDispatch(w, r)
    /\ UNCHANGED <<outboxVars, receipts, accepted, cmd, att, orders, faults>>

CommitOrder_NotCommitted(w) == pc[w] = "executed" /\ UNCHANGED orders
CommitOrder(w) ==
    /\ pc[w] = "executed"
    /\ orders' = orders \cup
         (IF txn[w] = "open" THEN {Order(cmd[w], att[w], payload[cmd[w]])} ELSE {})

Commit(w) ==
    /\ CommitOrder(w)
    /\ pc' = [pc EXCEPT ![w] = "leaving"]
    /\ result' = [result EXCEPT ![w] = "ok"]
    /\ txn' = [txn EXCEPT ![w] = "none"]
    /\ UNCHANGED <<outboxVars, receipts, accepted, cmd, att, heartbeat, faults>>

\* connection.commit() raises although Varanegar has committed.
CommitLost(w) ==
    /\ CommitOrder(w)
    /\ EndDispatch(w, "unknown")
    /\ UNCHANGED <<outboxVars, receipts, accepted, cmd, att, faults>>

\* After the heartbeat block: a renewal failure means "never settle".
Leave(w) ==
    /\ pc[w] = "leaving"
    /\ IF heartbeat[w] = "on"
       THEN /\ pc' = [pc EXCEPT ![w] = "settling"]
            /\ heartbeat' = [heartbeat EXCEPT ![w] = "off"]
            /\ UNCHANGED <<cmd, att, result, txn>>
       ELSE Release(w, "idle")
    /\ UNCHANGED <<outboxVars, receipts, accepted, orders, faults>>
-----------------------------------------------------------------------------
(***************************************************************************)
(* process_one: the settlement                                             *)
(***************************************************************************)

Unlock_KeepsLease(k) == /\ lockedBy' = [lockedBy EXCEPT ![k] = NoWorker]
                        /\ UNCHANGED lease
Unlock(k) ==
    /\ lockedBy' = [lockedBy EXCEPT ![k] = NoWorker]
    /\ lease' = [lease EXCEPT ![k] = "none"]

SucceedRow(w) ==
    /\ status' = [status EXCEPT ![cmd[w]] = "succeeded"]
    /\ Unlock(cmd[w])
    /\ receipts' = receipts \cup {Receipt(cmd[w], "commit", "succeeded")}
    /\ UNCHANGED <<payload, attempt, available>>

AttemptLimit(k) == IF k \in Unsupported THEN 1 ELSE MaxAttempts

Final(w) == att[w] >= AttemptLimit(cmd[w])

FailRow(w) ==
    /\ status' = [status EXCEPT ![cmd[w]] = IF Final(w) THEN "dead_letter" ELSE "retry"]
    /\ available' = [available EXCEPT ![cmd[w]] = FALSE]
    /\ Unlock(cmd[w])
    /\ receipts' = receipts \cup
         {Receipt(cmd[w], "dispatch", IF result[w] = "unknown" THEN "unknown" ELSE "failed")}
    /\ UNCHANGED <<payload, attempt>>

\* The fence refuses: EnterpriseStoreError, raised through process_one to the
\* loop, which goes on with the next command.
Refused(w) ==
    /\ ~Fence(w)
    /\ Release(w, "idle")
    /\ UNCHANGED <<outboxVars, receipts>>

MarkSucceeded(w) ==
    /\ pc[w] = "settling"
    /\ result[w] = "ok"
    /\ \/ Fence(w) /\ SucceedRow(w) /\ Release(w, "idle")
       \/ Refused(w)
    /\ UNCHANGED <<accepted, orders, faults>>

\* A driver error of mark_succeeded is not an EnterpriseStoreError: process_one
\* takes it for an unknown outcome and calls mark_failed.
MarkSucceededError(w) ==
    /\ pc[w] = "settling"
    /\ result[w] = "ok"
    /\ result' = [result EXCEPT ![w] = "unknown"]
    /\ \/ Fence(w) /\ SucceedRow(w)
       \/ UNCHANGED <<outboxVars, receipts>>
    /\ UNCHANGED <<accepted, pc, cmd, att, heartbeat, txn, orders, faults>>

MarkFailed(w) ==
    /\ pc[w] = "settling"
    /\ result[w] # "ok"
    /\ \/ Fence(w) /\ FailRow(w) /\ Release(w, "idle")
       \/ Refused(w)
    /\ UNCHANGED <<accepted, orders, faults>>

MarkFailedError(w) ==
    /\ pc[w] = "settling"
    /\ result[w] # "ok"
    /\ Fault
    /\ Release(w, "idle")
    /\ \/ Fence(w) /\ FailRow(w)
       \/ UNCHANGED <<outboxVars, receipts>>
    /\ UNCHANGED <<accepted, orders>>
-----------------------------------------------------------------------------
Submit(k) == \E p \in Payloads : EnqueueNew(k, p) \/ EnqueueAgain(k, p)

ProcessStep(w) ==
    \/ PreCheck(w) \/ Insert(w) \/ DispatchError(w) \/ Commit(w) \/ CommitLost(w)
    \/ Leave(w) \/ MarkSucceeded(w) \/ MarkSucceededError(w) \/ MarkFailed(w)

Renewal(w) == RenewRefused(w) \/ RenewError(w)

Next ==
    \/ \E k \in Keys : Submit(k) \/ BackoffElapses(k) \/ LeaseExpires(k)
    \/ \E w \in Workers :
          \/ Start(w) \/ Recover(w) \/ RecoverError(w) \/ Stop(w) \/ Crash(w)
          \/ \E k \in Keys : Claim(w, k) \/ ClaimLost(w, k)
          \/ ProcessStep(w) \/ Renewal(w) \/ MarkFailedError(w)

Spec == Init /\ [][Next]_vars

\* Threads that can run do run, clocks advance, a stopped process is started.
\* A process that is restarted over and over still gets to recover and to claim
\* something: both follow its start without a pause.
Fairness ==
    /\ \A w \in Workers :
          /\ WF_vars(Start(w))
          /\ SF_vars(Recover(w))
          /\ WF_vars(ProcessStep(w))
          /\ SF_vars(\E k \in Keys : Claim(w, k))
    /\ \A k \in Keys : WF_vars(LeaseExpires(k)) /\ WF_vars(BackoffElapses(k))
-----------------------------------------------------------------------------
(***************************************************************************)
(* Properties                                                              *)
(***************************************************************************)

\* Retrying never duplicates the commercial action: whatever is lost, repeated
\* or run late, at most one order is committed in Varanegar for one key.
AtMostOneOrder == \A o1, o2 \in orders : o1.key = o2.key => o1 = o2

\* process_one "never acknowledges before receipt": a succeeded command has its
\* official order in Varanegar, and its commit receipt.
SucceededIsCommitted ==
    \A k \in Keys : status[k] = "succeeded" =>
        OrderOf(k) # {} /\ Receipt(k, "commit", "succeeded") \in receipts

UnknownReceipt(k) ==
    \E s \in {"dispatch", "lease"} : Receipt(k, s, "unknown") \in receipts

\* mark_failed and recover_expired_leases preserve the uncertainty: a command
\* that is waiting for a retry, or was given up, although its order exists in
\* Varanegar, carries a receipt whose outcome is unknown.
UncertaintyRecorded ==
    \A k \in Keys :
        OrderOf(k) # {} /\ status[k] \in {"pending", "retry", "dead_letter"} =>
            UnknownReceipt(k)

\* At any time at most one worker is working on the current attempt of a
\* command, stale workers of earlier attempts notwithstanding.
OneClaimant ==
    \A k \in Keys : \A v, w \in Workers : Holds(v, k) /\ Holds(w, k) => v = w

\* Enqueueing is idempotent: every payload acknowledged under a key is the one
\* the committed order was made from.
OrderAsAccepted == \A o \in orders : accepted[o.key] = {o.payload}

\* The outbox implements the promise of DurableCommand.
Phase(k) ==
    IF status[k] \in {"pending", "processing", "retry"} THEN "open" ELSE status[k]

Promise == INSTANCE DurableCommand WITH
    phase <- [k \in Keys |-> Phase(k)],
    content <- payload,
    registered <- {[key |-> o.key, payload |-> o.payload] : o \in orders}

PromiseKept == Promise!Spec

Settled(k) == status[k] \in {"succeeded", "dead_letter"}

\* A settled command stays as it was settled: no stale worker, late renewal or
\* recovery reopens it or turns success into failure.
SettledForGood == [][\A k \in Keys : Settled(k) => status'[k] = status[k]]_vars

\* Every accepted command is settled in the end, if worker processes are
\* restarted again and again.
SettledUnderRestarts ==
    (\E w \in Workers : []<>(pc[w] = "starting"))
        => \A k \in Keys : (status[k] # "absent") ~> Settled(k)

-----------------------------------------------------------------------------
(***************************************************************************)
(* The inductive invariant behind the safety properties, in four layers    *)
(***************************************************************************)

\* A row exists as soon as a payload was acknowledged, and holds that payload.
AcceptInv ==
    \A k \in Keys : accepted[k] = IF status[k] = "absent" THEN {} ELSE {payload[k]}

\* No two workers ever carry the same attempt of a command, and no attempt is
\* later than the row's.
ClaimInv ==
    /\ \A w \in Workers : Working(w) =>
          status[cmd[w]] # "absent" /\ att[w] <= attempt[cmd[w]]
    /\ \A v, w \in Workers :
          Working(v) /\ Working(w) /\ cmd[v] = cmd[w] /\ att[v] = att[w] => v = w

\* What a worker knows about Varanegar is true there.
OrderInv ==
    /\ \A w \in Workers :
          /\ txn[w] = "open" => pc[w] = "executed" /\ OrderOf(cmd[w]) = {}
          /\ pc[w] = "executed" /\ txn[w] = "none" => OrderOf(cmd[w]) # {}
          /\ result[w] = "ok" => OrderOf(cmd[w]) # {}
          /\ result[w] # "none" <=> pc[w] \in {"leaving", "settling"}
    /\ \A v, w \in Workers :
          txn[v] = "open" /\ txn[w] = "open" /\ cmd[v] = cmd[w] => v = w
    /\ \A o \in orders : status[o.key] # "absent" /\ o.payload = payload[o.key]
    /\ AtMostOneOrder
    /\ SucceededIsCommitted

\* A claim is the row's current one unless the row has succeeded or carries an
\* unknown receipt; and an order without such a receipt belongs to the current
\* claim, whose worker (if it still runs) does not take it for rejected.
UncertaintyInv ==
    /\ \A w \in Workers : Working(w) =>
          \/ UnknownReceipt(cmd[w])
          \/ status[cmd[w]] = "succeeded"
          \/ /\ status[cmd[w]] = "processing"
             /\ attempt[cmd[w]] = att[w]
             /\ lockedBy[cmd[w]] = w
    /\ \A k \in Keys :
          OrderOf(k) # {} /\ ~UnknownReceipt(k) /\ status[k] # "succeeded" =>
             /\ status[k] = "processing"
             /\ \A w \in Workers : Holds(w, k) => result[w] \in {"ok", "unknown"}

IInv == AcceptInv /\ ClaimInv /\ OrderInv /\ UncertaintyInv
=============================================================================
