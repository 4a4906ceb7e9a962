# Verification of NeginAI

NeginAI is a FastAPI server for sellers and managers of a distribution company. A
seller visits customers, fills a cart and submits an order; the order must reach the
ERP (Varanegar, a SQL Server database) exactly once, through lost answers, retries and
restarts. Around this core there are scheduled reports, a management console that works
offline, planning scenarios with approvals, and a chat assistant over ERP data whose use of
the language model is rationed. This directory holds TLA+ models of the
parts that change state under concurrency and failure, TLC configurations that check
them on small instances, and TLAPS proofs about them for every value of the constants.

    tlc -config MCCommandOutbox.cfg MCCommandOutbox     # any run of the table below
    tlapm CommandOutboxProofs.tla                       # any *Proofs module

## Inventory

| Component | State it keeps | Operations | Talks to | What is hard |
|---|---|---|---|---|
| Command outbox (`app/enterprise_store.py`, `app/varanegar_command_worker.py`) | PostgreSQL `command_outbox`, `command_receipts` | enqueue, claim, renew, settle, recover | submission (enqueue), the order wrapper | lease expiry under a running worker, commit with a lost answer, a process that dies, stale settlement |
| Order submission (`app/varanegar_order_bridge.py`, `app/previsit_service.py`, `app/routes/seller_workspace.py`) | SQLite `previsit_visits`, `_drafts`, `_saved_requests`, `_submissions` | start, edit, save, validate, submit, complete | the wrapper or the outbox, NGT for validation | several transactions per request, double taps, crash between external commit and local record |
| Order wrapper (`scripts/sql/install_varanegar_order_bridge.sql`) | `tblOrderNo`, order headers, `OrderBridgeAudit` | one stored procedure | called by the two above | unlocked check, counter against duplicate key, orders that come with a number, locks whose extent depends on indexes |
| Control console (`app/control_service.py`, `app/static/control.js`) | SQLite `control_*` tables; per device an IndexedDB queue and snapshot | queue an edit, sync, refresh, rebase, discard; apply with receipt and revision | devices and server over HTTP | offline edits of several devices, lost and repeated batches |
| Automation scheduler (`app/automation_service.py`, `app/automation_worker.py`) | SQLite `automations`, `automation_runs`, `notifications` | create, pause, resume, delete, claim, run, record | chat service in a child process, push | lock expiry under a run, two processes, deletion during a run |
| Model admission (`app/routes/chat.py`, `app/redis_resource_backend.py`) | Redis: two sorted sets of leases, admissions of the last minute, budgets of the day; a latch per process | acquire, renew, release | chat, attachment and audio routes; Redis | leases that expire while their holder runs or renews, answers of Redis that are lost, a process that dies |
| Chat service and conversations (`app/chat_service.py`, `app/conversation_service.py`) | SQLite `chat_conversations`, `chat_messages`, `notifications` | one turn; delete a conversation | page, model providers, notifications of the scheduler | a turn is several transactions around a long call; other turns and deletions fall between |
| Chat page (`app/static/assistant.js`) | `conversationId`, `activeController`, rendered messages | ask, stop, repeat, recover, open, leave, delete | chat endpoints | answers that are lost or late, state read before an await and used after it |
| Planning scenarios (`app/planning_service.py`) | SQLite `planning_scenarios`, `planning_values`, `planning_audit` | create, six transitions, store values | planning routes | every operation reads in one transaction and writes in another |
| Provider router (`app/provider_router.py`) | circuit states in memory | route, record success or failure | nobody yet, only its test | concurrent routes on an old list of candidates |
| Login rate limit (`app/login_rate_limit.py`) | a counter with a time to live per identity | consume, reset | auth routes | window edges; eviction in the fallback without Redis |
| Organization structure | proposals for team rules | propose, review | its routes | two reviews of one proposal |
| Warehouse assistant, seller workspace | snapshots and prepared orders; profile drafts | import, prepare, save | ERP (reads) | single transactions; a repeated request prepares twice |
| Accounts, catalogues, reasoning, audio, attachments, push | rows edited by one owner, caches, or nothing | | | mostly reads and pure functions; see `PROJECT.json` for the reason of each |

What makes each of the modelled components correct:

- *Outbox*: one order per key; success only with a committed order; doubt about an
  outcome is recorded; a settled command stays settled; everything accepted is settled.
- *Submission*: every order can be traced to a submission row; sent means registered;
  a visit closed as ordered has its order; submission neither knows nor cares how
  the outbox keeps its promise.
- *Wrapper*: a number drawn from the counter is new, and the counter leaves no gaps; a key is
  registered once; sessions do not stand still, and wait for each other only over headers
  that have no number yet.
- *Console*: an operation is applied once, one winner per revision, nothing queued is lost.
- *Scheduler*: alerts are told once per transition while their lock holds; deleted automations stay quiet; a due
  automation gets its run.
- *Admission*: never more leases than places, whoever renews late; quotas are kept; a lost
  lease is noticed; an abandoned place becomes free.
- *Chat*: an answer stands behind its question; a notification that chat marks read is in an
  answer; what the user has seen the model knows, as far as its history goes; the page
  always comes back.
- *Planning*: a row never mixes the columns of two states; the audit explains what is stored.

## Modules

| Module | Models | Extends or uses |
|---|---|---|
| `DurableCommand` | abstract: what the outbox promises its callers | |
| `CommandOutbox` | the outbox tables, the workers, the process that hosts them | refines `DurableCommand` |
| `OrderSubmission` | visit rows, submission rows, request threads, the four bridge settings | uses `DurableCommand` as the outbox |
| `OrderFulfilment` | the two above together in queued mode: visit, handlers, real outbox, workers | composes `OrderSubmission` and `CommandOutbox`; refines `OrderSubmission` |
| `OrderNumbering` | the wrapper's transaction with its locks | |
| `ControlConsole` | devices and server of the console | |
| `AutomationScheduler` | automation rows, schedulers, users, locks | |
| `ExpiringSemaphore` | abstract: places that lapse unless renewed | |
| `ModelAdmission` | the three Lua scripts, the chat routes' lease, renewal task and latch | refines `ExpiringSemaphore` |
| `ChatTurn` | the server's side of a chat: turns, conversations, notifications | |
| `ChatPage` | the browser's side | extends `ChatTurn` |
| `PlanningScenarios` | scenarios, values, audit, the threads that change them | |
| `MC...` | values of the constants for TLC | the module of that name |
| `...Proofs` | theorems | the module of that name, `TLAPS` |

In every module a definition `X_Y` is a faulty variant of `X` written beside it: a
mutation a plausible bug would make. `PROJECT.json` pairs it with the property that
must reject it.

### CommandOutbox

One variable per column of `command_outbox`; `receipts` is the receipts table; a worker
has a location (`pc`), the command and attempt it carries (`cmd`, `att`), its heartbeat
and its transaction in Varanegar. Each method of `EnterpriseStore` is one transaction
and one action: `EnqueueNew`, `EnqueueAgain`, `Claim`, `Recover`, `MarkSucceeded`,
`MarkFailed`, and `Renew...` for the heartbeat thread. Actions named `...Lost` and
`...Error` are the same calls with the answer lost or the driver failing, where the
database may or may not have committed. The wrapper is seen as a pre-check, an insert
under the audit key and a commit. Time is reduced to what is compared: a lease is live or
expired, a retry is available or not. A lease may expire under a working claimant; that,
crashes and lost answers count against `MaxFaults`.

`DurableCommand` has five actions: accept, register the order, succeed, give up. The
refinement `PromiseKept` maps pending, processing and retry to *open*. Its `Register`
is allowed after *dead_letter*: a worker that lost its lease may still be inside its
transaction when the row is given up, and the code cannot prevent that.

### OrderSubmission

A request is a thread; a step is one SQLite transaction or one external call, in the
order of the handler, and `Abandon` ends it anywhere (an error, a locked database, a
restart). The four values of `mode` are the combinations of switches the code
distinguishes: bridge off, prepare only, direct call, queue. They are fixed while the
server runs. The wrapper is one atomic step here (`SendCommits`, which may also lose
its answer); `OrderNumbering` and `CommandOutbox` look inside it. A cart stands for
the draft with its prices; reading it twice during validation is one step; `no_visit`,
`skipped` and `no_order` are one outcome; a saved request is counted, not described.

### OrderFulfilment

Both modules are instantiated side by side; they share the idempotency key of the draft
(a visit) and the payload (a cart). The outbox variables of `OrderSubmission` are not kept:
`phase`, `content` and `registered` are computed from the rows and orders of
`CommandOutbox`. `SellerStep` is everything a handler does without the outbox, `Submit` the
call of `enqueue_command`, which both sides take in one step, and `WorkerStep` everything
the worker processes do. `ImplementsSubmission` says that this is `OrderSubmission` still:
replacing the promise by the real outbox with its leases, retries and crashes adds nothing
the handlers could see, so what is proved of visits holds with it too. TLC checks it on
the run's instance and `ImplementsSubmissionHolds` proves it for all (see Proofs).

### OrderNumbering

A session runs the procedure between `cursor.execute` and `connection.commit()`. The header
that `NGT_ReplicateOrderMaster` writes comes back with a temporary number (`Replicate`), and
the wrapper draws one from the counter, checks it and updates the header; or it comes back
with a positive number (`ReplicateNumbered`), which the wrapper takes as it is. `Given` is the
set of numbers Varanegar may give: the procedure is not in the repository, so any.

Locks are held to the end of the transaction: the counter row from `Allocate` on, the session's
own header from `Replicate` on, what the duplicate check has scanned from `Number` on, the audit
key from `WriteAudit` on. The duplicate check asks for `UPDLOCK, HOLDLOCK`. What that locks
beside the rows with the number depends on the indexes of `SLE.tblOrderHdr`, which are
Varanegar's: anything from the number alone to the whole table. `plan` is one of `Plans`,
fixed for a behaviour, and `Covers` says whether the scan for one number locks another row or
the place where one is to be inserted. `WaitsFor` names the sessions a statement waits for,
`Deadlocked` is a cycle of it, and `Victim` is SQL Server's way out. `Fail` covers refusals and
lost connections. A number or key that is taken is refused by `Refuse`.
Left out: what `NGT_ReplicateOrderMaster` locks inside, other clients of Varanegar that draw
from the same counters, and the reads of the pre-check waiting for a lock.

### ControlConsole

A position is its revision, state, permissions and last writer; the *writer* stands for
the edited content. A device has its queue, snapshot, the phase of `syncQueue` or
`start`, and a request whose operations the server handles one by one, each in a
transaction (`Answer`). A request given up by the device goes on at the server as
`late` (one per device), so its operations can be applied while they are sent again.
The passes of the page over its queue are folds from the left: `Among` keeps the operations
of a set in their order, `OnTop` applies a queue to a snapshot, `RebasedOn` gives what can be
rebased the revision of the newest copy.
An edit takes the revision it is based on when it is queued (`Enqueue`); in the page the
dialog takes it when it opens, which is earlier and makes a conflict more likely. `Settle`, `RebaseBlocked` and `DiscardBlocked` treat all their operations in one step,
the page one after the other with an await between.
The refusals that depend on data left out (a code in use, personnel attached) may meet
any upsert or deletion. `queueOperation`'s two IndexedDB writes are one step, as is the
fetch and save of a rebase; the refresh of `start` is not run beside a sync.

### AutomationScheduler

Rows with `next_run_at` reduced to *due* or not, and its order kept in `ahead`. The
lock is free, held or expired; it has no owner in the code either. `ReadSetting` and
`WriteSetting` are the two transactions of `set_automation_active`. A scheduler claims a
batch with copies of the rows, of which `seen` keeps `last_triggered`. `told` and
`unlocked` are history: what the owner of an alert knows, and whether a lock was lost
under a run. Reports of a batch may run in any order.

### ModelAdmission

Each Lua script is one action: Redis runs it alone. A request draws one token, so requests
stand for tokens. `global` and `own` are the two sorted sets of leases, `left` what remains
of a lease (both sets are written together, with the same score), `rpm` and `age` the
admissions of the last minute, `spent` the budget hashes with the date they carry. `today` is
history: the admissions of the day, whose summed sizes (`UnitsOf`) the script's counters
have to be.
`Admit`, `Refuse` and `Unavailable` are the outcomes of `acquire` (200, 429, 503); in
`Unavailable` the script may have run and its answer been lost. `StartRenewal`, `Renew` and
`Lost` are the renewal task, whose call of Redis runs in a thread: `late` is a renewal that
goes on after its task was cancelled. `failed` is the latch that closes a process after a
lost lease or a failed release. `GlobalIndexExpires` and `OwnIndexExpires` are the keys'
own expiry. Left out: the backend without Redis, requests above the largest single budget
(refused without effect), and repetitions by the client library. There is one clock; a
renewal may come as late as it likes instead.

### ChatTurn and ChatPage

A turn is `chat()` in a thread of the server, a step is one of its transactions: begin (the
conversation is found or made, one step for a SELECT and an INSERT or UPDATE), read the
history, list the notifications, mark them read, save the question, save the answer. It may
`Fail` between any two; between marking and saving it leaves the turn *torn*, with notifications
marked read that no stored answer has. A turn reads the newest `HistoryLimit` messages of its
conversation (`Recent`) and lists the newest `NoteLimit` unread notifications (`Newest`). The
user may read notifications in the inbox too (`Dismiss`); a notification remembers who set its
`read_at`, which the code's column does not. A text is the turn it belongs to. `wiped` is
history: what deletions have removed.

The page is single-threaded JavaScript, so an action is what runs between two awaits.
`ask` follows each call of `requestAnswer`; `active` is the call `activeController` belongs
to. An abort and the `finally` block it causes are one step, and so are a deletion and the
page's own cleanup behind it. `recoverLatest` tries eight times; here it may try once more or
give up at any time. `question` names the question a call asks, which after a repetition is
that of an earlier call; `seen` is history: the answers the user had in front of him when
he asked. `Show` and `Settled` are one step, with an await of the list of conversations between
them in the page. Attachments, voice, rendering and the button that asks the last question
again (`assistant.js:1053`, a question like any other to the server) are left out.

### PlanningScenarios

Endpoints run on a pool of threads. A thread reads the scenario's row (`ReadFor...`) and
writes in a transaction that does not look at the status again (`WriteTransition`,
`WriteValues`), with the row's audit entry. `job` is what it carries: the copy of the row and
what it will write. A time is *set* or *null*; an amount is a model value. The validation
of codes, periods and amounts, base scenarios and the permission checked at the start of
each request are left out. `MaxTrail` bounds the audit.

## Runs

| Run | Instance | Shows |
|---|---|---|
| `outbox` | 2 keys (one of an unsupported type), 2 payloads, 2 workers, 2 attempts, 2 faults; 178,583 states | the outbox's safety and its refinement of `DurableCommand` |
| `submission` | 1 visit, 2 carts, 2 requests, all four modes | the safety of submission and completion |
| `submission_failed` | direct mode | *violation*: 'failed' with a registered order |
| `fulfilment` | 1 visit, 2 carts, 1 request at a time, 2 workers, 1 attempt, 1 fault; 160,380 states | submission with the real outbox implements submission with the promised one; queued orders are settled if processes keep being restarted |
| `numbering` | 2 keys, 3 counters in 2 spaces, 2 sessions, 1 number Varanegar may give, 4 plans; 130,040 states | drawn numbers new and without gaps, one order per key, deadlocks only over temporary numbers, no standstill |
| `control` | 2 devices (2 + 1 operations), 1 position, 1 lost request; 1,360,790 states | once-only application, one winner, nothing lost |
| `control_lost_update` | the same with a seeded position and no loss | *violation*: an overwritten edit nobody saw |
| `automation` | 2 automations (one an alert), 2 schedulers, batches of 1, 1 setting, 1 lost batch; 341,737 states | alerts under lock, deletion, no starvation |
| `admission` | 3 requests of 2 users on 2 processes, 1 place, leases of 2 ticks, 1 admission per user in 2 ticks; about 102,000 states | places and quotas, the semaphore, lost and abandoned leases |
| `chat` | 3 turns (two starts behind the first), 2 conversations, 2 notifications, a history of 2 messages, lists of 1 notification; 805,494 states | answers behind questions, notifications, the page's knowledge and its liveness |
| `chat_recovered` | 2 turns, 1 conversation | *violation*: an old answer under a new question |
| `planning` | 1 scenario, 2 users, 2 threads, 1 value, 6 audit rows; 2,151,333 states | rows of one state, an audit that explains |

Why these bounds suffice. Outbox: two workers are needed for a stale one, two attempts to
reach the attempt limit after a retry, and two faults for every pair of failures (a lease lost *and*
an answer lost); keys are independent but for the workers they share, so two suffice.
Submission: rows of different visits never meet, the rule of one active visit excepted
(one transaction), so one visit with two requests has every interleaving of pairs.
Fulfilment: requests that race among themselves and saved requests are the matter of `submission`, attempts and
pairs of faults that of `outbox`; here one request that can be repeated with either cart meets
its first command at any stage, and one fault makes a worker stale or lose its answer.
Numbering: two offices of a space stand at the same number, so that two counters reach the
same one, and it is also the number Varanegar may give; the third counter has a space of its
own. The plans are the four ways an index (or none) lets the scan run: the number alone,
the numbers from it on, the year and centre, the table. Two sessions can wait for each other. Console: the conflicts are between
two devices on one position, the second operation of a device is what is numbered ahead,
and one lost request is what makes a batch run twice. Scheduler: with batches of one, a
second due automation has to wait; one lost batch is what leaves a lock behind.
Admission: with one place every admission beside a live lease would be one too many; two requests of one user on
different processes and one of another user give leases purged by others from one
index only; a lease of two ticks can be renewed once before it runs out; the budgets fit two of the three
requests or not, depending on which. (With one place the limit of a user never binds by
itself; the theorem covers every pair of limits.) Chat: a turn that is overtaken needs one
other turn; a second conversation is what the page may wrongly be in. That an answer the
user has seen is crowded out of a history takes three turns, which from `Init` are too many
states for liveness: `MCSpec` begins in two states behind the first turn, both reachable
(`MCChatPage`). In one it failed and two more may be asked, one notification arriving while the
model is thinking; in the other it was answered and shown, the second is about to save, and two
notifications can be unread where one is listed. Planning: scenarios never meet, two threads give every pair of
overlapping requests, and six audit rows are a way through all states and back. The
batch limits (3 rows, 100 operations) are constants of the models. No bound hides an
action: each of them fires in these instances.

`CHECK_DEADLOCK FALSE` stands where the modelled part really may stop: when all automations
are deleted (scheduler), when both questions have been asked and everything is closed
(chat), and when the audit has reached its bound or the scenario is archived, which is
final in the code (planning).

### Fairness

- Outbox (in `fulfilment`): worker threads that can run do (`WF` on a worker's steps and the process
  start, which a service manager provides), clocks advance (`WF` on expiry and backoff).
  Recovery and the next claim are `SF`: they directly follow a start, so a process that is
  restarted again and again still performs them. `SettledUnderRestarts` also *assumes*
  infinitely many starts, because recovery only happens there (`main.py:105`). Sellers have
  no fairness: they may repeat, edit and abandon for ever.
- Numbering: `WF` on a session's steps and on the end of a deadlock (SQL Server's monitor). Nothing
  is assumed of the order in which waiting sessions are served, so `NoStandstill` promises that
  some session ends, not each. Errors are not forced.
- Scheduler: `WF` on each scheduler's steps (a pass every 30 seconds, a timeout on each
  report) and on the expiry of a lock. Users and faults have no fairness.
- Admission: `WF` on the clock, on waking the renewal task and on its call of Redis, which ends with
  or without success. Work that holds a lease (`Finish`) has none: how long a model takes
  is not the program's to promise, and a lease may be renewed for ever.
- Chat: `WF` on a turn (its rounds and provider calls are bounded by timeouts, or it fails), on the end of a
  request, of a recovery and of its rendering. The user has none.

## Proofs

TLC explores the instances above; TLAPS proves the following for any sets of keys,
workers, visits, devices, automations, requests, turns, scenarios and any bounds, from the named assumptions of the
modules (`...Assumption`: null values outside the sets, subsets, bounds in `Nat`).

- `CommandOutboxProofs`: type correctness, `AtMostOneOrder`, `SucceededIsCommitted`,
  `OneClaimant`, `OrderAsAccepted`, `UncertaintyRecorded`, `SettledForGood`, and the
  refinement `PromiseKept`. None of the invariants is inductive alone. The argument is in
  four layers, each proved with the ones before it: `AcceptInv` (what was acknowledged is
  the row's payload), `ClaimInv` (no two workers carry the same attempt), `OrderInv` (what
  a worker knows about Varanegar is true: only an open transaction of a worker without a
  competing order may commit) and `UncertaintyInv` (a claim is the row's current one,
  unless the row has succeeded or carries an unknown receipt). The fence of
  `MarkSucceeded` and `MarkFailed` then keeps settled rows as they are.
- `CommandOutboxProofs`, last section: the composition `OrderFulfilment`, for commands of the
  supported type (the bridge enqueues no other, so `Unsupported = {}` is what the composition
  substitutes). `ImplementsSubmissionHolds` is the refinement the run `fulfilment` checks.
  First, every step of the composition is one of the outbox or leaves it alone (`Composed`),
  for which `HandlerInv` says that a handler about to enqueue has a visit and a cart; so all
  theorems about the outbox hold in the composition. Then a step of a handler is one of
  `OrderSubmission` word for word, and a step of a worker, which keeps `PromiseKept` and never
  makes a row (`WorkersAddNoRow`), is one of its `OutboxStep` or invisible. `OrdersTraced` is
  the end-to-end result, with the real outbox: one order per key (the key of a visit's
  draft), and each order and each command has a submission row (`RowInv`).
- `OrderSubmissionProofs`: types, `OrderHasSubmission`, `SentIsRegistered`,
  `ClosedOrderIsRegistered`. `TracedInv` strengthens by the program
  counters: whoever may send has left a submission row, whoever was accepted has an
  order. `ClosingInv` says why a request may close a visit, and that the reason stays.
- `OrderNumberingProofs`: types, `DrawnNumberIsNew`, `NumbersGapFree`, `OneOrderPerKey`,
  `LocksAreOrdered`, for any plans and any given numbers. A session that has drawn a number
  holds its counter alone and the number is the counter's next (`CounterInv`); what a session
  has checked under a lock stays true until it ends (`CheckedInv`): another order with its
  number can neither be numbered nor inserted while its scan is locked. `LocksAreOrdered`
  follows from stages: where no scan meets a header that has no number yet, a session waits
  only for one that has come further (`WaitsForwards`), so the least advanced member of a cycle
  would have nobody waiting for it.
- `ControlConsoleProofs`: `ServerInv`, hence `AppliedOnce` and `OneWinnerPerRevision`. Every
  applied operation has a base below its position's revision, whatever devices send:
  the invariant speaks of the server only, so it does not depend on the devices' code.
  Then what the folds over a queue give (`AmongIs`: the operations of the set and no others;
  `OnTopType`: a snapshot; `RebasedOnIs`: as many operations, with the same ids in the same
  order), the types of
  devices and requests, and `NothingLost`. It is not inductive: an operation leaves its queue
  when a device reads an answer, which is a record of an earlier request. `AnsweredInv` adds that
  an answer *applied* or *replayed* on its way has its receipt at the server, and
  `DeliveryInv` is the two together.
- `AutomationSchedulerProofs`: types, `EdgeTriggeredUnderLock`, `DeletedIsNotClaimed`. Where no
  lock was lost there is one run of an automation, the outcome it copied is the last, and
  the owner knows of the transition that outcome belongs to.

- `ModelAdmissionProofs`: types, `PlacesBounded`, `RateKept` and the refinement
  `ImplementsSemaphore`. The invariant adds that a token is in the indexes only after its
  request has called the script (so no token is admitted twice) and that an admission still
  inside the window is in the set the script counts. The heart is a lemma on the
  cardinality of a purged set with one element more; the refinement then reads places off
  the live leases of the global index. The budgets, and with them the whole of `QuotasKept`,
  need `BudgetInv`: the two counters of the script are exactly the sums over the day's
  admissions, of a user and of all, a request is charged once, and a counter that carries an
  older date counts as nothing.
- `ChatPageProofs`: types, `AnswerFollowsQuestion`, `ReadNoticeIsDelivered`,
  `SeenAnswersAreInHistory`. `SavedInv` says that what a turn has saved is in the turn's own
  conversation or was deleted with it, that a turn past a save has saved, and that what a turn
  has marked read it had taken along (`NoticeTaken`); `PageInv` that the page only knows
  answers that were saved, and that an answer seen in a conversation was saved there. The
  last property follows because a turn reads its history after its question was asked: an
  answer stored before is among the newest messages or the history is full of those behind it
  (`RecentHas`), and messages only go with their conversation (`Grows`), so it remains so.
- `PlanningScenariosProofs`: types, `StampsMatchStatus`, `TrailExplains`. What a thread has
  read was once true and stays explained (`CopyInv`): the columns of its copy belong
  together, and the audit, which only grows, holds the change that led there. So
  writing an old copy is wrong only in being old.

Sums, sequences and folds. The induction theorems of the library take an operator as a
parameter, which the provers cannot instantiate. Two proofs need induction all the same, and
take it from what can be used: a set of numbers (or of finite sets, ordered by inclusion) that
is not empty has a minimal element (`Least`, from `WellFoundedInduction`). Applied to the set
of counterexamples this is induction over that set. With it a fold is a function that its
equations determine: `FoldExists`, `OneOn` (that function exists and is unique up to a length) and
their counterparts for sums (`AddsExists`, `AddsUnique`) connect `FoldLeft` and the sum over a
set to the equations one expects (`UnitsAdded`, `UnitsWithout`, `Folds`), and the lemmas about
the model's own operators are proved from these.

`BudgetInv` and `AnsweredInv` were checked by TLC on the instances of the runs before they were
proved. Every invariant and every safety property of the passing runs is proved.

Only model-checked: liveness (`SettledUnderRestarts`, `NoStandstill`, `DueIsRun`,
`LostLeaseIsNoticed`, `AbandonedLeaseExpires`, `PageComesBack`; fairness and ENABLED are out
of the prover's reach), and all violations.

## Disagreements with the repository's own statements

Each has a run; `PROJECT.json` quotes the statement.

1. `submission_failed` (`FailedIsNotRegistered`): a lost answer to the commit is recorded as failed.
2. `control_lost_update` (`NoLostUpdate`): a device numbers its queued edits ahead of the server; another
   device's edit that takes the number is overwritten unseen.
3. `chat_recovered` (`ShownAnswersQuestion`): after any error the page calls the newest stored
   answer of the conversation the answer it is recovering; when the question was refused or
   failed, that is the answer to an earlier question.

Seen in the models without a run of their own:

- Expired leases are recovered only at process start (`main.py:105`): a command whose worker went
  away stays in processing until some process restarts, although the worker is called
  durable and retryable (`varanegar_command_worker.py:1`). `SettledUnderRestarts` therefore
  assumes restarts.
- Recovery does not look at `attempt_count`: a command can be attempted more often than
  `max_attempts` (`enterprise_store.py:297`).
- A queued submission is never finalised (`varanegar_order_bridge.py:278` promises it), and a
  visit can be closed as `no_order` while its queued order is registered afterwards.
- The draft of a closed visit may still change: its status is checked in one transaction and
  the write is in the next (`previsit_service.py:219`).
- After a lost answer and an edit of the cart, the payload kept with a sent submission is
  not the one the order was made from (`varanegar_order_bridge.py:131`).
- The final update of an automation's run does not check its claim: runs that overlap because a lock
  expired tell one transition twice; `EdgeTriggeredUnderLock` is the part that holds.
- Values of a scenario may be stored after it was submitted or locked, and a lock or an approval
  may be written over a scenario that was withdrawn meanwhile, because the status is not
  compared again (`planning_service.py:233` and `:291`; `tests/test_planning.py:93` expects
  the refusal of sequential calls).
- An order that comes back from Varanegar with a positive number is committed without the
  counter and without the duplicate check (`install_varanegar_order_bridge.sql:540`): it may
  carry a number an order of its year and centre has. `DrawnNumberIsNew` is the part that holds.
- A number that is taken when it is drawn makes the wrapper fail, and the rollback restores the
  counter: the same number is drawn by the next order, and refused again, until somebody moves
  the counter. Two offices whose counters run in one year and centre can come to that.
- Two sessions can deadlock over headers that still have temporary numbers if the duplicate
  check scans those (no index on the number): one of them fails; the outbox tries it again, a
  direct call does not.
- A turn that fails between marking notifications read and saving its answer loses them
  (`chat_service.py:3376`); `ReadNoticeIsDelivered` leaves such a turn out.
- `openConversation` changes the page's conversation after its request, under a question asked
  meanwhile (`assistant.js:780`); that question's recovery then reads the other conversation.
- A manager's removal of a role's default permission lasts until the next snapshot, which
  inserts it again (`control_service.py:120`); a device with more than 100 queued edits is
  refused as a whole, every time (`control_service.py:782`); an edit of a deleted position
  can be rebased for ever and never be applied (`control.js:577`).

## Not modelled

ERP queries, NGT's pricing and credit rules, language models and their tools, texts of
the interface, push delivery, tokens and passwords. The console's personnel, views,
rosters and users are applied by the same receipt and revision code as positions, but their own checks
are not modelled. The many scripts under `scripts/` that extract facts from the ERP or
write reports run once and keep no state, and most of `chat_service.py`, `ngt_previsit_service.py` and
`seller_workspace_service.py` composes prompts and queries: this is the bulk of the source's
lines and has no state to model. `PROJECT.json` lists every component with its status.

## Plan

Done, in this order: `CommandOutbox` with `DurableCommand`, `OrderSubmission`,
`OrderNumbering`, `ControlConsole`, `AutomationScheduler`, `ModelAdmission` with
`ExpiringSemaphore`, `ChatTurn` and `ChatPage`, `PlanningScenarios`, each with its proofs,
and the composition `OrderFulfilment`.

Left, most important first:

1. `ControlConsole` extended by personnel, views and rosters, and a run with a batch
   limit smaller than a queue.
2. The other properties of `OrderSubmission` that hold in queued mode, stated over the
   composition as `OrdersTraced` is.
3. Organization proposals with their reviews, and the warehouse assistant's repeated requests.
4. `LoginRateLimit`, whose in-memory counters read the clock before they take the lock, and
   `ProviderRouter` once something calls it.
