--------------------------- MODULE ControlConsole ---------------------------
(***************************************************************************)
(* The management console: devices that edit positions offline             *)
(* (app/static/control.js) and the server that applies their operations    *)
(* (app/control_service.py).                                               *)
(*                                                                         *)
(* A device keeps a snapshot of the server and a queue of operations in    *)
(* IndexedDB.  An edit goes to the queue and, optimistically, into the     *)
(* snapshot; syncQueue posts the whole queue, the server applies each      *)
(* operation in a transaction of its own if its base revision is the       *)
(* position's revision, and the device drops what was applied, marks the   *)
(* rest as blocked and fetches a new snapshot.  A request that is given up *)
(* may still be running at the server, and is then sent again.             *)
(*                                                                         *)
(* What an edit changes is abstracted to who made it: the writer of a      *)
(* position is the operation that last changed it.  Titles, personnel and  *)
(* users are not modelled here; a refusal that depends on them (a code in  *)
(* use, personnel attached) may meet any upsert or deletion.               *)
(*                                                                         *)
(* A definition X_Y is a faulty variant of X, which the runs must reject.  *)
(***************************************************************************)
EXTENDS Naturals, SequencesExt

CONSTANTS
    Devices,
    Positions,
    Seeded,         \* the positions that come from the users' roles
    Permissions,
    Defaults,       \* the permissions a seeded position's role brings
    MaxBatch,       \* operations one request may carry (100 in the code)
    MaxOperations,  \* bound: operations a device queues
    MaxBreaks,      \* bound: requests given up, by an error or a reload
    NoOperation

ASSUME PositionAssumption == /\ Seeded \subseteq Positions
                             /\ Defaults \in [Positions -> SUBSET Permissions]
ASSUME BoundAssumption == MaxOperations \in [Devices -> Nat] /\ MaxBreaks \in Nat

VARIABLES
    positions,  \* control_positions with control_position_permissions
    audit,      \* control_audit and control_operation_receipts
    late,       \* operations of a given-up request, still being applied
    queue,      \* per device: operationQueue, oldest first
    snapshot,   \* per device: its copy of the positions
    phase,      \* per device: where syncQueue or start is
    request,    \* per device: what the posted request has left, and its results
    fetched,    \* per device: a snapshot on its way
    made,       \* per device: number of operations queued so far
    discarded,  \* operations their user has dropped
    breaks      \* number of requests given up so far

serverVars == <<positions, audit>>
deviceVars == <<queue, snapshot, phase, request, fetched, made,
                discarded, breaks>>
vars == <<serverVars, late, deviceVars>>

Ids == Devices \X Nat
Writers == Ids \cup {NoOperation}
Kinds == {"upsert", "replace", "delete"}
Refusals == {"conflict", "invalid"}
Operations == [id : Ids, kind : Kinds, position : Positions, base : Nat,
               keys : SUBSET Permissions, seen : Writers, blocked : {"yes", "no"}]
Rows == [revision : Nat, state : {"absent", "live", "deleted"},
         keys : SUBSET Permissions, writer : Writers]
Copies == [revision : Nat, keys : SUBSET Permissions, writer : Writers]
Results == [id : Ids, status : {"applied", "replayed"} \cup Refusals]
Entries == [operation : Operations, over : Writers]

Unlisted == [revision |-> 0, keys |-> {}, writer |-> NoOperation]
Nothing == [p \in Positions |-> Unlisted]
NoRequest == [todo |-> <<>>, done |-> <<>>]

TypeOK ==
    /\ positions \in [Positions -> Rows]
    /\ audit \in Seq(Entries)
    /\ late \in [Devices -> Seq(Operations)]
    /\ queue \in [Devices -> Seq(Operations)]
    /\ snapshot \in [Devices -> [Positions -> Copies]]
    /\ phase \in [Devices -> {"idle", "posting", "settled", "fetching", "starting", "started"}]
    /\ request \in [Devices -> [todo : Seq(Operations), done : Seq(Results)]]
    /\ fetched \in [Devices -> [Positions -> Copies]]
    /\ made \in [Devices -> Nat]
    /\ discarded \subseteq Ids
    /\ breaks \in Nat
-----------------------------------------------------------------------------
(* The server *)

WithDefaults(rows) ==
    [p \in Positions |-> IF p \in Seeded
                         THEN [rows[p] EXCEPT !.keys = @ \cup Defaults[p]]
                         ELSE rows[p]]

Listed(rows) ==
    [p \in Positions |-> IF rows[p].state = "live"
                         THEN [revision |-> rows[p].revision, keys |-> rows[p].keys,
                               writer |-> rows[p].writer]
                         ELSE Unlisted]

Receipted_Forgotten(id) == FALSE
Receipted(id) == \E i \in DOMAIN audit : audit[i].operation.id = id

CurrentRevision_NotAhead(o) == o.base <= positions[o.position].revision
CurrentRevision(o) == o.base = positions[o.position].revision

\* The checks before the revision is looked at: the shape of the operation,
\* and the row it needs.
Acceptable(o) ==
    /\ o \in Operations
    /\ o.kind = "replace" => positions[o.position].state = "live"
    /\ o.kind = "delete" => positions[o.position].state # "absent"

Written(row, o) ==
    [revision |-> row.revision + 1,
     state |-> IF o.kind = "delete" THEN "deleted" ELSE "live",
     keys |-> IF o.kind = "replace" THEN o.keys ELSE row.keys,
     writer |-> o.id]

\* _apply_operation, one transaction: what it answers and what it commits.
Answer(o, status) ==
    \/ /\ status = "replayed"
       /\ Receipted(o.id)
       /\ positions' = WithDefaults(positions)
       /\ UNCHANGED audit
    \/ /\ status = "applied"
       /\ ~Receipted(o.id)
       /\ Acceptable(o)
       /\ CurrentRevision(o)
       /\ positions' = [WithDefaults(positions) EXCEPT ![o.position] = Written(@, o)]
       /\ audit' = Append(audit, [operation |-> o, over |-> positions[o.position].writer])
    \/ /\ status = "conflict"
       /\ ~Receipted(o.id)
       /\ Acceptable(o)
       /\ ~CurrentRevision(o)
       /\ UNCHANGED serverVars
    \/ /\ status = "invalid"
       /\ ~Receipted(o.id)
       /\ Acceptable(o) => o.kind # "replace"
       /\ UNCHANGED serverVars

\* sync_control_operations takes the next operation of the posted batch.
Handle(d) ==
    /\ phase[d] = "posting"
    /\ Len(request[d].todo) + Len(request[d].done) <= MaxBatch
    /\ request[d].todo # <<>>
    /\ LET o == Head(request[d].todo)
       IN \E status \in {"applied", "replayed"} \cup Refusals :
            /\ Answer(o, status)
            /\ request' = [request EXCEPT ![d] =
                             [todo |-> Tail(request[d].todo),
                              done |-> Append(request[d].done, [id |-> o.id, status |-> status])]]
    /\ UNCHANGED <<late, queue, snapshot, phase, fetched, made, discarded, breaks>>

\* The same for a request nobody waits for any more.
HandleLate(d) ==
    /\ late[d] # <<>>
    /\ \E status \in {"applied", "replayed"} \cup Refusals : Answer(Head(late[d]), status)
    /\ late' = [late EXCEPT ![d] = Tail(@)]
    /\ UNCHANGED deviceVars
-----------------------------------------------------------------------------
(* A device *)

Optimistic(copies, o) ==
    CASE o.kind = "upsert" ->
            [copies EXCEPT ![o.position].revision = o.base + 1, ![o.position].writer = o.id]
      [] o.kind = "replace" ->
            IF copies[o.position].revision = 0 THEN copies
            ELSE [copies EXCEPT ![o.position] =
                    [revision |-> o.base + 1, keys |-> o.keys, writer |-> o.id]]
      [] o.kind = "delete" -> [copies EXCEPT ![o.position] = Unlisted]

OnTop(copies, operations) == FoldLeft(Optimistic, copies, operations)

\* The operations that are in S, in their order.
Among(operations, S) ==
    FoldLeft(LAMBDA kept, o : IF o \in S THEN Append(kept, o) ELSE kept, <<>>, operations)

Blocked(operations) == {o \in ToSet(operations) : o.blocked = "yes"}
Unblocked(operations) == Among(operations, ToSet(operations) \ Blocked(operations))

\* queueOperation
Enqueue(d, p, kind, keys) ==
    /\ made[d] < MaxOperations[d]
    /\ LET o == [id |-> <<d, made[d] + 1>>, kind |-> kind, position |-> p,
                 base |-> snapshot[d][p].revision, keys |-> keys,
                 seen |-> snapshot[d][p].writer, blocked |-> "no"]
       IN /\ queue' = [queue EXCEPT ![d] = Append(@, o)]
          /\ snapshot' = [snapshot EXCEPT ![d] = Optimistic(@, o)]
    /\ made' = [made EXCEPT ![d] = @ + 1]
    /\ UNCHANGED <<serverVars, late, phase, request, fetched, discarded, breaks>>

OnList(d, p) == snapshot[d][p].revision > 0

\* A new position has a fresh random id.
Fresh(p) ==
    /\ positions[p].revision = 0
    /\ \A d \in Devices :
         /\ snapshot[d][p].revision = 0
         /\ \A o \in ToSet(queue[d]) \cup ToSet(request[d].todo) \cup ToSet(late[d]) :
              o.position # p

Edit(d, p) == OnList(d, p) /\ Enqueue(d, p, "upsert", {})
Create(d, p) == p \notin Seeded /\ Fresh(p) /\ Enqueue(d, p, "upsert", {})
Grant(d, p) == OnList(d, p) /\ \E keys \in SUBSET Permissions : Enqueue(d, p, "replace", keys)
Delete(d, p) == OnList(d, p) /\ Enqueue(d, p, "delete", {})

Sent(operations) == [i \in DOMAIN operations |-> [operations[i] EXCEPT !.blocked = "no"]]

\* syncQueue, up to fetch('/control/api/sync'): the whole queue is posted,
\* what is blocked included.
Post(d) ==
    /\ phase[d] = "idle"
    /\ queue[d] # <<>>
    /\ phase' = [phase EXCEPT ![d] = "posting"]
    /\ request' = [request EXCEPT ![d] = [todo |-> Sent(queue[d]), done |-> <<>>]]
    /\ UNCHANGED <<serverVars, late, queue, snapshot, fetched, made, discarded, breaks>>

Outcome(d, o) == {r.status : r \in {r \in ToSet(request[d].done) : r.id = o.id}}
Kept_Unanswered(d, o) == Outcome(d, o) = {}
Kept(d, o) == Outcome(d, o) \cap {"applied", "replayed"} = {}
Marked(d, o) == IF Outcome(d, o) = {} THEN o ELSE [o EXCEPT !.blocked = "yes"]

\* syncQueue after the answer, up to refreshFromServer.
Settle(d) ==
    /\ phase[d] = "posting"
    /\ request[d].todo = <<>>
    /\ LET kept == Among(queue[d], {o \in ToSet(queue[d]) : Kept(d, o)})
       IN queue' = [queue EXCEPT ![d] = [i \in DOMAIN kept |-> Marked(d, kept[i])]]
    /\ request' = [request EXCEPT ![d] = NoRequest]
    /\ phase' = [phase EXCEPT ![d] = "settled"]
    /\ UNCHANGED <<serverVars, late, snapshot, fetched, made, discarded, breaks>>

\* fetchSnapshot; the server's control_snapshot restores the defaults first.
Fetch(d) ==
    /\ \/ phase[d] = "settled" /\ phase' = [phase EXCEPT ![d] = "fetching"]
       \/ phase[d] = "starting" /\ phase' = [phase EXCEPT ![d] = "started"]
    /\ positions' = WithDefaults(positions)
    /\ fetched' = [fetched EXCEPT ![d] = Listed(positions')]
    /\ UNCHANGED <<audit, late, queue, snapshot, request, made, discarded, breaks>>

\* refreshFromServer: the queue is applied on top of the fetched snapshot.
Install(d) ==
    /\ phase[d] \in {"fetching", "started"}
    /\ snapshot' = [snapshot EXCEPT ![d] = OnTop(fetched[d], queue[d])]
    /\ fetched' = [fetched EXCEPT ![d] = Nothing]
    /\ phase' = [phase EXCEPT ![d] = "idle"]
    /\ UNCHANGED <<serverVars, late, queue, request, made, discarded, breaks>>

\* The device gives a request up: an error of the network, or a batch the
\* server refuses as a whole.  What the server has begun, it finishes.
Abandoned(d) ==
    \/ late' = late
    \/ /\ late[d] = <<>>
       /\ Len(request[d].todo) + Len(request[d].done) <= MaxBatch
       /\ late' = [late EXCEPT ![d] = request[d].todo]

Broken == breaks < MaxBreaks /\ breaks' = breaks + 1

GiveUp(d) ==
    /\ phase[d] # "idle"
    /\ Abandoned(d)
    /\ request' = [request EXCEPT ![d] = NoRequest]
    /\ fetched' = [fetched EXCEPT ![d] = Nothing]
    /\ phase' = [phase EXCEPT ![d] = "idle"]
    /\ Broken
    /\ UNCHANGED <<serverVars, queue, snapshot, made, discarded>>

\* The page is closed and opened again: start().
Reload(d) ==
    /\ Abandoned(d)
    /\ request' = [request EXCEPT ![d] = NoRequest]
    /\ fetched' = [fetched EXCEPT ![d] = Nothing]
    /\ phase' = [phase EXCEPT ![d] = "starting"]
    /\ IF phase[d] = "idle" THEN UNCHANGED breaks ELSE Broken
    /\ UNCHANGED <<serverVars, queue, snapshot, made, discarded>>

\* rebaseBlocked: blocked operations take the revision of a fresh snapshot, as
\* the operations before them leave it.
Rebased_BeforeCopy(o, copy) ==
    [o EXCEPT !.base = copy.revision - 1, !.seen = copy.writer, !.blocked = "no"]
Rebased(o, copy) ==
    [o EXCEPT !.base = copy.revision, !.seen = copy.writer, !.blocked = "no"]

RebasedAfter(state, o) ==
    LET next == IF o.blocked = "yes" THEN Rebased(o, state.copies[o.position]) ELSE o
    IN [copies |-> Optimistic(state.copies, next),
        operations |-> Append(state.operations, next)]

RebasedOn(copies, operations) ==
    FoldLeft(RebasedAfter, [copies |-> copies, operations |-> <<>>], operations)

RebaseBlocked(d) ==
    /\ Blocked(queue[d]) # {}
    /\ positions' = WithDefaults(positions)
    /\ LET rebased == RebasedOn(Listed(positions'), queue[d])
       IN /\ queue' = [queue EXCEPT ![d] = rebased.operations]
          /\ snapshot' = [snapshot EXCEPT ![d] = rebased.copies]
    /\ UNCHANGED <<audit, late, phase, request, fetched, made, discarded, breaks>>

\* discardBlocked, followed by refreshFromServer.
DiscardBlocked(d) ==
    /\ Blocked(queue[d]) # {}
    /\ discarded' = discarded \cup {o.id : o \in Blocked(queue[d])}
    /\ queue' = [queue EXCEPT ![d] = Unblocked(@)]
    /\ phase' = [phase EXCEPT ![d] = IF @ = "idle" THEN "starting" ELSE @]
    /\ UNCHANGED <<serverVars, late, snapshot, request, fetched, made, breaks>>
-----------------------------------------------------------------------------
Init ==
    /\ positions = [p \in Positions |->
         IF p \in Seeded
         THEN [revision |-> 1, state |-> "live", keys |-> Defaults[p], writer |-> NoOperation]
         ELSE [revision |-> 0, state |-> "absent", keys |-> {}, writer |-> NoOperation]]
    /\ audit = <<>>
    /\ late = [d \in Devices |-> <<>>]
    /\ queue = [d \in Devices |-> <<>>]
    /\ snapshot = [d \in Devices |-> Listed(positions)]
    /\ phase = [d \in Devices |-> "idle"]
    /\ request = [d \in Devices |-> NoRequest]
    /\ fetched = [d \in Devices |-> Nothing]
    /\ made = [d \in Devices |-> 0]
    /\ discarded = {}
    /\ breaks = 0

User(d) ==
    \/ \E p \in Positions : Edit(d, p) \/ Create(d, p) \/ Grant(d, p) \/ Delete(d, p)
    \/ RebaseBlocked(d)
    \/ DiscardBlocked(d)

Next ==
    \E d \in Devices :
        \/ User(d)
        \/ Post(d) \/ Handle(d) \/ HandleLate(d) \/ Settle(d) \/ Fetch(d) \/ Install(d)
        \/ GiveUp(d) \/ Reload(d)

Spec == Init /\ [][Next]_vars
-----------------------------------------------------------------------------
(* Properties *)

\* test_concurrent_replay_of_same_operation_is_applied_once: an operation is
\* applied at most once, however often its batch is sent, in however many
\* requests at a time, and whatever revision it is rebased to in between.
AppliedOnce ==
    \A i, j \in DOMAIN audit : audit[i].operation.id = audit[j].operation.id => i = j

\* Of the operations prepared on the same revision of a position, on one
\* device or several, at most one is ever applied (_assert_revision).
OneWinnerPerRevision ==
    \A i, j \in DOMAIN audit :
        /\ audit[i].operation.position = audit[j].operation.position
        /\ audit[i].operation.base = audit[j].operation.base
        => i = j

\* What a user has queued is on the device, or applied, or was discarded by
\* the user: no lost answer, reload or repeated batch makes it disappear.
NothingLost ==
    \A d \in Devices : \A n \in 1..made[d] :
        \/ \E o \in ToSet(queue[d]) : o.id = <<d, n>>
        \/ Receipted(<<d, n>>)
        \/ <<d, n>> \in discarded

\* What the server has answered to a request that still waits for the rest of
\* its answer stays true: an operation it called applied has a receipt.
AnsweredInv ==
    \A d \in Devices : \A r \in ToSet(request[d].done) :
        r.status \in {"applied", "replayed"} => Receipted(r.id)

\* test_sync_rejects_stale_revision_without_overwriting: an operation
\* overwrites only what its author had on the screen.  It does not hold: the
\* second of two queued edits carries the revision the first was to give, and
\* is applied over another device's edit that has taken this number.
NoLostUpdate == \A i \in DOMAIN audit : audit[i].operation.seen = audit[i].over
=============================================================================
