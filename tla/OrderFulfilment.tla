-------------------------- MODULE OrderFulfilment --------------------------
(***************************************************************************)
(* A seller's order on its whole way in queued mode: the visit and its     *)
(* request handlers (OrderSubmission) put commands into the outbox of the  *)
(* enterprise store, whose workers register the orders (CommandOutbox).    *)
(* The two sides share no state but the outbox rows and Varanegar: the     *)
(* handler that enqueues is the one step they take together.               *)
(*                                                                         *)
(* OrderSubmission describes the outbox by its promise, DurableCommand;    *)
(* here its variables phase, content and registered are computed from the  *)
(* rows and orders of the real one.                                        *)
(***************************************************************************)
EXTENDS Naturals

CONSTANTS
    Visits, Carts, Empty, Requests, NoVisit, MaxSaved,         \* OrderSubmission
    Workers, NoKey, NoWorker, MaxAttempts, MaxFaults           \* CommandOutbox

VARIABLES
    \* the server and its local database
    mode, visitStatus, cart, outcome, saved, submission, recorded,
    pc, target, aim, body,
    \* the enterprise store, the worker processes and Varanegar
    status, payload, attempt, available, lockedBy, lease, receipts, accepted,
    place, cmd, att, heartbeat, result, txn, orders, faults

sellerVars == <<mode, visitStatus, cart, outcome, saved, submission, recorded,
                pc, target, aim, body>>
storeVars == <<status, payload, attempt, available, lockedBy, lease, receipts,
               accepted, place, cmd, att, heartbeat, result, txn, orders, faults>>
vars == <<sellerVars, storeVars>>

\* The key of a command is the idempotency key of the visit's draft; the
\* bridge enqueues the one type of command the worker supports.
Outbox == INSTANCE CommandOutbox WITH
    Keys <- Visits, Payloads <- Carts, NoPayload <- Empty, Unsupported <- {},
    pc <- place

Seller == INSTANCE OrderSubmission WITH
    Modes <- {"queued"},
    phase <- [v \in Visits |-> Outbox!Phase(v)],
    content <- payload,
    registered <- {[key |-> o.key, payload |-> o.payload] : o \in orders}

Init == Outbox!Init /\ Seller!Init

\* What the seller and his handlers do without the outbox.
SellerStep(r) ==
    /\ UNCHANGED storeVars
    /\ \/ \E v \in Visits :
             \/ Seller!StartVisit(v) \/ Seller!BeginEdit(r, v)
             \/ Seller!CompleteOrder(r, v) \/ Seller!CompleteWithoutOrder(r, v)
       \/ Seller!WriteDraft(r) \/ Seller!WriteSaved(r)
       \/ Seller!Validate(r) \/ Seller!Identify(r) \/ Seller!RecordPrepared(r)
       \/ Seller!CheckOpen(r) \/ Seller!Close(r)
       \/ Seller!Abandon(r)

\* enqueue_command inserts the row, acknowledges the same payload again, or
\* refuses another one.
Conflict(r) ==
    /\ status[target[r]] # "absent"
    /\ ~Outbox!SamePayload(target[r], body[r])
    /\ UNCHANGED storeVars
Submit(r) ==
    /\ pc[r] = "enqueue"
    /\ \/ Outbox!EnqueueNew(target[r], body[r])
       \/ Outbox!EnqueueAgain(target[r], body[r])
       \/ Conflict(r)
    /\ Seller!Enqueue(r)

WorkerStep ==
    /\ \/ \E v \in Visits : Outbox!BackoffElapses(v) \/ Outbox!LeaseExpires(v)
       \/ \E w \in Workers :
             \/ Outbox!Start(w) \/ Outbox!Recover(w) \/ Outbox!RecoverError(w)
             \/ Outbox!Stop(w) \/ Outbox!Crash(w)
             \/ \E v \in Visits : Outbox!Claim(w, v) \/ Outbox!ClaimLost(w, v)
             \/ Outbox!ProcessStep(w) \/ Outbox!Renewal(w)
             \/ Outbox!MarkFailedError(w)
    /\ UNCHANGED sellerVars

Next ==
    \/ \E r \in Requests : SellerStep(r) \/ Submit(r)
    \/ WorkerStep

Spec == Init /\ [][Next]_vars /\ Outbox!Fairness
-----------------------------------------------------------------------------

\* The outbox with its leases, retries and crashes is to the submission what
\* DurableCommand promises: whatever OrderSubmission guarantees of visits and
\* orders is guaranteed with the real outbox, and nothing the workers do is
\* seen by the handlers otherwise.
ImplementsSubmission == Seller!Spec

\* A visit whose order was queued gets its order registered, or the command
\* given up, if worker processes are restarted again and again: whatever the
\* seller edits, repeats or closes meanwhile.
SettledUnderRestarts == Outbox!SettledUnderRestarts
=============================================================================
