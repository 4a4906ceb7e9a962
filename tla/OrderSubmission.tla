-------------------------- MODULE OrderSubmission --------------------------
(***************************************************************************)
(* A seller's visit of one customer and the submission of its order: the   *)
(* SQLite rows previsit_visits, previsit_drafts, previsit_saved_requests   *)
(* and previsit_submissions, the request handlers that change them         *)
(* (app/routes/seller_workspace.py, app/previsit_service.py), and the      *)
(* order bridge (app/varanegar_order_bridge.py).                           *)
(*                                                                         *)
(* The handlers are synchronous functions on a thread pool, and each opens *)
(* one SQLite transaction after another: a request is a thread with a      *)
(* program counter, and a step is one transaction, or one call outside.    *)
(* A database error, a restart or a lost process may end a request at any  *)
(* step.                                                                   *)
(*                                                                         *)
(* Varanegar is the set of orders registered there: the wrapper, seen from *)
(* here, registers a key at most once (OrderNumbering and CommandOutbox    *)
(* look inside).  Queued submission goes to the outbox, of which this      *)
(* module uses the promise, DurableCommand.                                *)
(*                                                                         *)
(* A definition X_Y is a faulty variant of X, which the runs must reject.  *)
(***************************************************************************)
EXTENDS Naturals

CONSTANTS
    Visits,    \* visits of one seller, route and customer; each has one draft,
               \* whose idempotency key stands for both
    Carts,     \* non-empty carts with their prices and payment type
    Empty,     \* the empty cart
    Modes,     \* the settings the server may have been started with
    Requests,  \* handler threads
    NoVisit,   \* an idle thread
    MaxSaved   \* bound on the saved requests of a visit

AllModes == {"off", "prepare", "direct", "queued"}

ASSUME CartAssumption == Empty \notin Carts
ASSUME VisitAssumption == NoVisit \notin Visits
ASSUME ModeAssumption == Modes \subseteq AllModes
ASSUME SavedAssumption == MaxSaved \in Nat

VARIABLES
    mode,          \* the bridge, commit and outbox switches of the settings
    visitStatus, cart, outcome, saved,
    submission,    \* status of the previsit_submissions row
    recorded,      \* its payload_json
    phase, content,  \* the command outbox, as DurableCommand sees it
    registered,    \* the orders of Varanegar
    pc, target, aim, body

visitVars == <<visitStatus, cart, outcome, saved>>
submissionVars == <<submission, recorded>>
queueVars == <<phase, content>>
requestVars == <<pc, target, aim, body>>
vars == <<mode, visitVars, submissionVars, queueVars, registered, requestVars>>

Outbox == INSTANCE DurableCommand WITH
    Keys <- Visits, Payloads <- Carts, NoPayload <- Empty

Steps == {"idle", "edit", "save", "resave", "validate", "identify", "record",
          "send", "enqueue", "accepted", "refused", "check", "close"}

Order(v, c) == [key |-> v, payload |-> c]
OrderOf(v) == {o \in registered : o.key = v}

TypeOK ==
    /\ mode \in Modes
    /\ visitStatus \in [Visits -> {"none", "active", "completed"}]
    /\ cart \in [Visits -> Carts \cup {Empty}]
    /\ outcome \in [Visits -> {"draft", "order", "no_order"}]
    /\ saved \in [Visits -> 0..MaxSaved]
    /\ submission \in [Visits -> {"none", "prepared", "sent", "failed"}]
    /\ recorded \in [Visits -> Carts \cup {Empty}]
    /\ phase \in [Visits -> {"absent", "open", "succeeded", "dead_letter"}]
    /\ content \in [Visits -> Carts \cup {Empty}]
    /\ \A v \in Visits : phase[v] = "absent" <=> content[v] = Empty
    /\ registered \subseteq [key : Visits, payload : Carts]
    /\ pc \in [Requests -> Steps]
    /\ target \in [Requests -> Visits \cup {NoVisit}]
    /\ \A r \in Requests : pc[r] = "idle" <=> target[r] = NoVisit
    /\ aim \in [Requests -> {"order", "no_order"}]
    /\ body \in [Requests -> Carts \cup {Empty}]
    /\ \A r \in Requests :
          pc[r] \in {"identify", "record", "send", "enqueue"} => body[r] \in Carts

Init ==
    /\ mode \in Modes
    /\ visitStatus = [v \in Visits |-> "none"]
    /\ cart = [v \in Visits |-> Empty]
    /\ outcome = [v \in Visits |-> "draft"]
    /\ saved = [v \in Visits |-> 0]
    /\ submission = [v \in Visits |-> "none"]
    /\ recorded = [v \in Visits |-> Empty]
    /\ Outbox!Init
    /\ pc = [r \in Requests |-> "idle"]
    /\ target = [r \in Requests |-> NoVisit]
    /\ aim = [r \in Requests |-> "order"]
    /\ body = [r \in Requests |-> Empty]

Goto(r, step) == pc' = [pc EXCEPT ![r] = step] /\ UNCHANGED <<target, aim, body>>

\* The handler answers, with a result or an error, and forgets the visit.
Finish(r) ==
    /\ pc' = [pc EXCEPT ![r] = "idle"]
    /\ target' = [target EXCEPT ![r] = NoVisit]
    /\ aim' = [aim EXCEPT ![r] = "order"]
    /\ body' = [body EXCEPT ![r] = Empty]

Enter(r, v, step, a, c) ==
    /\ pc[r] = "idle"
    /\ pc' = [pc EXCEPT ![r] = step]
    /\ target' = [target EXCEPT ![r] = v]
    /\ aim' = [aim EXCEPT ![r] = a]
    /\ body' = [body EXCEPT ![r] = c]
-----------------------------------------------------------------------------
(***************************************************************************)
(* The visit and its draft                                                 *)
(***************************************************************************)

MayStart(v) ==
    /\ visitStatus[v] = "none"
    /\ \A u \in Visits : visitStatus[u] # "active"

\* The check and the insert are one BEGIN IMMEDIATE transaction.  A start while
\* a visit is active returns that visit and changes nothing.
StartVisit(v) ==
    /\ MayStart(v)
    /\ visitStatus' = [visitStatus EXCEPT ![v] = "active"]
    /\ UNCHANGED <<mode, cart, outcome, saved, submissionVars, queueVars, registered,
                   requestVars>>

\* update_draft, create_saved_request and update_saved_request read the visit's
\* status first, and write in another transaction without looking again.
BeginEdit(r, v) ==
    /\ visitStatus[v] = "active"
    /\ \/ \E c \in Carts \cup {Empty} : Enter(r, v, "edit", "order", c)
       \/ saved[v] < MaxSaved /\ Enter(r, v, "save", "order", Empty)
       \/ saved[v] > 0 /\ Enter(r, v, "resave", "order", Empty)
    /\ UNCHANGED <<mode, visitVars, submissionVars, queueVars, registered>>

WriteDraft(r) ==
    /\ pc[r] = "edit"
    /\ cart' = [cart EXCEPT ![target[r]] = body[r]]
    /\ Finish(r)
    /\ UNCHANGED <<mode, visitStatus, outcome, saved, submissionVars, queueVars,
                   registered>>

\* The saved request leaves the working cart empty.
WriteSaved(r) ==
    /\ pc[r] \in {"save", "resave"}
    /\ cart' = [cart EXCEPT ![target[r]] = Empty]
    /\ IF pc[r] = "save"
       THEN /\ saved[target[r]] < MaxSaved
            /\ saved' = [saved EXCEPT ![target[r]] = @ + 1]
       ELSE UNCHANGED saved
    /\ Finish(r)
    /\ UNCHANGED <<mode, visitStatus, outcome, submissionVars, queueVars, registered>>
-----------------------------------------------------------------------------
(***************************************************************************)
(* complete_my_previsit: towards the bridge                                *)
(***************************************************************************)

\* get_order_completion_state: an empty cart skips the validation and the
\* bridge, and is enough to close when the visit has saved requests.
CompleteOrder(r, v) ==
    /\ visitStatus[v] # "none"
    /\ cart[v] # Empty \/ saved[v] > 0
    /\ Enter(r, v, IF cart[v] # Empty THEN "validate" ELSE "check", "order", Empty)
    /\ UNCHANGED <<mode, visitVars, submissionVars, queueVars, registered>>

CompleteWithoutOrder(r, v) ==
    /\ visitStatus[v] # "none"
    /\ Enter(r, v, "check", "no_order", Empty)
    /\ UNCHANGED <<mode, visitVars, submissionVars, queueVars, registered>>

ContractOf(r) == cart[target[r]]

\* validate_order_draft reads the draft again and has NGT price it; what it
\* read becomes the contract of the submission.
Validate(r) ==
    /\ pc[r] = "validate"
    /\ visitStatus[target[r]] = "active"
    /\ cart[target[r]] # Empty
    /\ body' = [body EXCEPT ![r] = ContractOf(r)]
    /\ pc' = [pc EXCEPT ![r] = IF mode = "off" THEN "check" ELSE "identify"]
    /\ UNCHANGED <<mode, visitVars, submissionVars, queueVars, registered, target, aim>>

\* _draft_identity wants an active visit; a submission that was sent is replayed.
Identify(r) ==
    /\ pc[r] = "identify"
    /\ visitStatus[target[r]] = "active"
    /\ Goto(r, IF submission[target[r]] = "sent" THEN "check" ELSE "record")
    /\ UNCHANGED <<mode, visitVars, submissionVars, queueVars, registered>>

\* With the commit switch off the handler returns without closing the visit.
AfterRecord_ClosesUnsent(r) ==
    CASE mode = "direct" -> Goto(r, "send")
      [] mode = "queued" -> Goto(r, "enqueue")
      [] OTHER           -> Goto(r, "check")
AfterRecord(r) ==
    CASE mode = "direct" -> Goto(r, "send")
      [] mode = "queued" -> Goto(r, "enqueue")
      [] OTHER           -> Finish(r)

WritePrepared_Skipped(v, c) == UNCHANGED submissionVars
WritePrepared(v, c) ==
    /\ recorded' = [recorded EXCEPT ![v] = c]
    /\ submission' = [submission EXCEPT ![v] = IF @ = "sent" THEN "sent" ELSE "prepared"]

RecordPrepared(r) ==
    /\ pc[r] = "record"
    /\ WritePrepared(target[r], body[r])
    /\ AfterRecord(r)
    /\ UNCHANGED <<mode, visitVars, queueVars, registered>>
-----------------------------------------------------------------------------
(***************************************************************************)
(* Direct and queued submission                                            *)
(***************************************************************************)

Exists(v) == OrderOf(v) # {}

\* The wrapper and the commit of its transaction.  An order that exists is
\* returned as it is, whatever this request's payload.
SendCommits(r) ==
    /\ pc[r] = "send"
    /\ registered' = IF Exists(target[r]) THEN registered
                     ELSE registered \cup {Order(target[r], body[r])}
    /\ Goto(r, "accepted")
    /\ UNCHANGED <<mode, visitVars, submissionVars, queueVars>>

\* A rejection or an error; with an error the commit may have happened.
SendFails(r) ==
    /\ pc[r] = "send"
    /\ \/ UNCHANGED registered
       \/ ~Exists(target[r]) /\ registered' = registered \cup {Order(target[r], body[r])}
    /\ Goto(r, "refused")
    /\ UNCHANGED <<mode, visitVars, submissionVars, queueVars>>

\* _record_result runs inside the try block: its own failure counts as one of
\* the submission.
RecordSent(r) ==
    /\ pc[r] = "accepted"
    /\ \/ /\ submission' = [submission EXCEPT ![target[r]] = "sent"]
          /\ Goto(r, "check")
       \/ /\ Goto(r, "refused")
          /\ UNCHANGED submission
    /\ UNCHANGED <<mode, visitVars, recorded, queueVars, registered>>

Verdict_Sent == "sent"
Verdict == "failed"

RecordFailed(r) ==
    /\ pc[r] = "refused"
    /\ submission' = [submission EXCEPT ![target[r]] = Verdict]
    /\ Finish(r)
    /\ UNCHANGED <<mode, visitVars, recorded, queueVars, registered>>

\* enqueue_command: a new command, a replay of the same one, or (another
\* payload) an IdempotencyConflict.  None of them closes the visit.
Enqueue(r) ==
    /\ pc[r] = "enqueue"
    /\ \/ Outbox!Accept(target[r], body[r])
       \/ phase[target[r]] # "absent" /\ UNCHANGED <<queueVars, registered>>
    /\ Finish(r)
    /\ UNCHANGED <<mode, visitVars, submissionVars>>

\* The outbox and its workers
OutboxStep ==
    /\ \E v \in Visits : Outbox!Register(v) \/ Outbox!Succeed(v) \/ Outbox!GiveUp(v)
    /\ UNCHANGED <<mode, visitVars, submissionVars, requestVars>>
-----------------------------------------------------------------------------
(***************************************************************************)
(* complete_visit                                                          *)
(***************************************************************************)

\* The visit is active, and an order has a line or a saved request.  (The
\* reason of a visit without order is then checked with NGT.)
CheckOpen(r) ==
    /\ pc[r] = "check"
    /\ visitStatus[target[r]] = "active"
    /\ aim[r] = "order" => cart[target[r]] # Empty \/ saved[target[r]] > 0
    /\ Goto(r, "close")
    /\ UNCHANGED <<mode, visitVars, submissionVars, queueVars, registered>>

Close(r) ==
    /\ pc[r] = "close"
    /\ visitStatus' = [visitStatus EXCEPT ![target[r]] = "completed"]
    /\ outcome' = [outcome EXCEPT ![target[r]] = aim[r]]
    /\ Finish(r)
    /\ UNCHANGED <<mode, cart, saved, submissionVars, queueVars, registered>>

\* A check fails, NGT rejects or times out, the database is locked, the process
\* goes down: the request ends where it is.
Abandon(r) ==
    /\ pc[r] # "idle"
    /\ Finish(r)
    /\ UNCHANGED <<mode, visitVars, submissionVars, queueVars, registered>>
-----------------------------------------------------------------------------
RequestStep(r) ==
    \/ WriteDraft(r) \/ WriteSaved(r)
    \/ Validate(r) \/ Identify(r) \/ RecordPrepared(r)
    \/ SendCommits(r) \/ SendFails(r) \/ RecordSent(r) \/ RecordFailed(r)
    \/ Enqueue(r) \/ CheckOpen(r) \/ Close(r)

Next ==
    \/ \E v \in Visits : StartVisit(v)
    \/ \E r \in Requests :
          \/ \E v \in Visits : BeginEdit(r, v) \/ CompleteOrder(r, v)
                               \/ CompleteWithoutOrder(r, v)
          \/ RequestStep(r)
          \/ Abandon(r)
    \/ OutboxStep

Spec == Init /\ [][Next]_vars
-----------------------------------------------------------------------------
(***************************************************************************)
(* Properties                                                              *)
(***************************************************************************)

\* A submission recorded as sent has its order in Varanegar.
SentIsRegistered ==
    \A v \in Visits : submission[v] = "sent" => OrderOf(v) # {}

\* The record of a submission is written before anything is sent: whatever
\* crashes afterwards, every order in Varanegar (and every queued command) can
\* be traced back to a submission row.
OrderHasSubmission ==
    \A v \in Visits : OrderOf(v) # {} \/ phase[v] # "absent" => submission[v] # "none"

\* With the bridge on, a visit that was closed with an order, and has no saved
\* request to stand for it, has that order registered in Varanegar.
ClosedOrderIsRegistered ==
    mode # "off" =>
        \A v \in Visits :
            visitStatus[v] = "completed" /\ outcome[v] = "order" /\ saved[v] = 0 =>
                OrderOf(v) # {}

\* "Draft, submitted, accepted, failed and reconciled states must not be
\* conflated": a submission recorded as failed has no order in Varanegar.  It
\* may have one: see the README.
FailedIsNotRegistered ==
    \A v \in Visits : submission[v] = "failed" => OrderOf(v) = {}

-----------------------------------------------------------------------------
(***************************************************************************)
(* The inductive invariant behind the safety properties                    *)
(***************************************************************************)

\* A request that has left RecordPrepared has left a submission row behind, and
\* one that Varanegar has answered with success has its order there.
TracedInv ==
    /\ \A r \in Requests :
          /\ pc[r] \in {"send", "enqueue", "accepted", "refused"} =>
                submission[target[r]] # "none"
          /\ pc[r] = "accepted" => OrderOf(target[r]) # {}
    /\ OrderHasSubmission
    /\ SentIsRegistered

\* With the bridge on, whoever may close a visit with an order does so because
\* of a registered order or of saved requests, and neither goes away.
ClosingInv ==
    mode # "off" =>
        /\ \A r \in Requests : pc[r] \in {"check", "close"} /\ aim[r] = "order" =>
              OrderOf(target[r]) # {} \/ saved[target[r]] > 0
        /\ \A v \in Visits : outcome[v] = "order" => OrderOf(v) # {} \/ saved[v] > 0

IInv == TracedInv /\ ClosingInv
=============================================================================
