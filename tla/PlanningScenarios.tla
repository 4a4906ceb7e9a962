-------------------------- MODULE PlanningScenarios --------------------------
(***************************************************************************)
(* Planning scenarios of app/planning_service.py: a scenario is created as *)
(* a draft, values are written into the draft, managers submit, approve,   *)
(* reject, lock, reopen and archive it, and every change leaves a row in   *)
(* planning_audit.  Endpoints run on a pool of threads.  A thread reads    *)
(* the scenario's row in autocommit mode and then writes in a transaction  *)
(* of its own that does not look at the status again, so other requests    *)
(* may come between the two; a request is in one of three places (pc).     *)
(*                                                                         *)
(* Times are reduced to "a time is set"; approved_at is set with           *)
(* approved_by and is not kept beside it.  A key of planning_values stands *)
(* for scenario, period, metric and dimensions.                            *)
(***************************************************************************)
EXTENDS Naturals, Sequences

CONSTANTS
    Scenarios,  \* codes of scenarios
    Users,      \* users with the right to manage planning
    Requests,   \* threads of the server
    Keys,       \* keys of values inside a scenario
    Amounts,    \* amounts planned
    None,       \* NULL
    MaxTrail    \* bound on the audit rows of a scenario

ASSUME PlanningAssumption ==
    /\ None \notin Users
    /\ None \notin Amounts
    /\ MaxTrail \in Nat

VARIABLES
    row,    \* planning_scenarios, None while there is no row
    values, \* planning_values
    trail,  \* planning_audit of each scenario, oldest first
    pc,     \* where the request is: idle, or between its read and its write
    job     \* what the request carries

vars == <<row, values, trail, pc, job>>

Statuses == {"draft", "submitted", "approved", "locked", "archived"}

\* A step of the approval workflow: where it may start and where it leads.
Step(from, to) == [from |-> from, to |-> to]

TRANSITIONS ==
    [submit  |-> Step({"draft"}, "submitted"),
     approve |-> Step({"submitted"}, "approved"),
     reject  |-> Step({"submitted"}, "draft"),
     lock    |-> Step({"approved"}, "locked"),
     reopen  |-> Step({"submitted", "approved", "locked"}, "draft"),
     archive |-> Step(Statuses \ {"archived"}, "archived")]

Actions == DOMAIN TRANSITIONS

Row == [status : Statuses, submitted : {"set", "null"},
        approved_by : Users \cup {None}, locked : {"set", "null"}]

Cell == [amount : Amounts, created_by : Users]

\* An audit row: a change of status, or a batch of values.
Entry == [kind : {"created", "values"} \cup Actions, user : Users,
          from : Statuses \cup {None}, to : Statuses \cup {None}]

Audit(kind, user, from, to) ==
    [kind |-> kind, user |-> user, from |-> from, to |-> to]

Draft == [status |-> "draft", submitted |-> "null",
          approved_by |-> None, locked |-> "null"]

Job == [scenario : Scenarios, user : Users, action : Actions \cup {None},
        copy : Row, batch : [Keys -> Amounts \cup {None}]]

NoValues == [k \in Keys |-> None]

Init ==
    /\ row = [s \in Scenarios |-> None]
    /\ values = [s \in Scenarios |-> [k \in Keys |-> None]]
    /\ trail = [s \in Scenarios |-> <<>>]
    /\ pc = [r \in Requests |-> "idle"]
    /\ job = [r \in Requests |-> None]

Room(s) == Len(trail[s]) < MaxTrail

-----------------------------------------------------------------------------

\* The code is unique: a second insertion of it is refused.  The row and its
\* audit row are one transaction.
create_scenario(s, u) ==
    /\ Room(s)
    /\ row[s] = None
    /\ row' = [row EXCEPT ![s] = Draft]
    /\ trail' = [trail EXCEPT ![s] = Append(@, Audit("created", u, None, "draft"))]
    /\ UNCHANGED <<values, pc, job>>

\* transition_scenario and upsert_values begin by reading the scenario.
Begin(r, where, s, u, a, b) ==
    /\ pc[r] = "idle"
    /\ row[s] # None
    /\ pc' = [pc EXCEPT ![r] = where]
    /\ job' = [job EXCEPT ![r] = [scenario |-> s, user |-> u, action |-> a,
                                  copy |-> row[s], batch |-> b]]
    /\ UNCHANGED <<row, values, trail>>

ReadForTransition(r, s, u, a) ==
    /\ row[s] # None
    /\ row[s].status \in TRANSITIONS[a].from
    /\ Begin(r, "transition", s, u, a, NoValues)

ReadForValues(r, s, u, b) ==
    /\ row[s] # None
    /\ row[s].status = "draft"
    /\ b # NoValues
    /\ Begin(r, "values", s, u, None, b)

\* What is left of the row when the columns of an approval are not cleared.
Stamped_NotCleared(copy, a, u) ==
    [status |-> TRANSITIONS[a].to,
     submitted |-> IF a = "submit" THEN "set" ELSE copy.submitted,
     approved_by |-> IF a = "approve" THEN u ELSE copy.approved_by,
     locked |-> IF a = "lock" THEN "set" ELSE copy.locked]

\* The approver is whoever takes the next step of the workflow.
Stamped_LastUser(copy, a, u) ==
    IF TRANSITIONS[a].to = "draft" THEN Draft
    ELSE [status |-> TRANSITIONS[a].to,
          submitted |-> IF a = "submit" THEN "set" ELSE copy.submitted,
          approved_by |-> IF a \in {"approve", "lock"} THEN u ELSE copy.approved_by,
          locked |-> IF a = "lock" THEN "set" ELSE copy.locked]

\* The columns of the UPDATE: those the action sets, the others as they were
\* read, all of them cleared on the way back to draft.
Stamped(copy, a, u) ==
    IF TRANSITIONS[a].to = "draft" THEN Draft
    ELSE [status |-> TRANSITIONS[a].to,
          submitted |-> IF a = "submit" THEN "set" ELSE copy.submitted,
          approved_by |-> IF a = "approve" THEN u ELSE copy.approved_by,
          locked |-> IF a = "lock" THEN "set" ELSE copy.locked]

Done(r) ==
    /\ pc' = [pc EXCEPT ![r] = "idle"]
    /\ job' = [job EXCEPT ![r] = None]

\* UPDATE ... WHERE id=?: the status found now is not compared with the copy.
\* The audit row is of the same transaction and names the copy's status.
WriteTransition(r) ==
    LET j == job[r]
        s == j.scenario
        to == TRANSITIONS[j.action].to
    IN  /\ pc[r] = "transition"
        /\ Room(s)
        /\ row' = [row EXCEPT ![s] = Stamped(j.copy, j.action, j.user)]
        /\ trail' = [trail EXCEPT ![s] =
                        Append(@, Audit(j.action, j.user, j.copy.status, to))]
        /\ Done(r)
        /\ UNCHANGED values

\* INSERT ... ON CONFLICT DO UPDATE of every value of the batch; an update
\* leaves created_by alone.
Upserted(cells, batch, u) ==
    [k \in Keys |->
        IF batch[k] = None THEN cells[k]
        ELSE [amount |-> batch[k],
              created_by |-> IF cells[k] = None THEN u ELSE cells[k].created_by]]

\* The whole batch and its audit row are one transaction.
WriteValues(r) ==
    LET j == job[r]
        s == j.scenario
    IN  /\ pc[r] = "values"
        /\ Room(s)
        /\ values' = [values EXCEPT ![s] = Upserted(@, j.batch, j.user)]
        /\ trail' = [trail EXCEPT ![s] = Append(@, Audit("values", j.user, None, None))]
        /\ Done(r)
        /\ UNCHANGED row

\* An invalid value, a locked database or a restart before the commit.
Abandon(r) ==
    /\ pc[r] # "idle"
    /\ Done(r)
    /\ UNCHANGED <<row, values, trail>>

Next ==
    \/ \E s \in Scenarios, u \in Users : create_scenario(s, u)
    \/ \E r \in Requests, s \in Scenarios, u \in Users :
        \/ \E a \in Actions : ReadForTransition(r, s, u, a)
        \/ \E b \in [Keys -> Amounts \cup {None}] : ReadForValues(r, s, u, b)
    \/ \E r \in Requests : WriteTransition(r) \/ WriteValues(r) \/ Abandon(r)

Spec == Init /\ [][Next]_vars

-----------------------------------------------------------------------------

\* Every variable holds the values its table or thread may hold.
TypeOK ==
    /\ row \in [Scenarios -> Row \cup {None}]
    /\ values \in [Scenarios -> [Keys -> Cell \cup {None}]]
    /\ trail \in [Scenarios -> Seq(Entry)]
    /\ pc \in [Requests -> {"idle", "transition", "values"}]
    /\ job \in [Requests -> Job \cup {None}]
    /\ \A r \in Requests : pc[r] # "idle" => job[r] \in Job
    /\ \A r \in Requests : pc[r] = "transition" => job[r].action \in Actions

\* The columns beside the status agree with it.
Coherent(x) ==
    /\ x.status = "draft" => x = Draft
    /\ x.status \in {"submitted", "approved", "locked"} => x.submitted = "set"
    /\ x.status \in {"approved", "locked"} => x.approved_by # None
    /\ x.status = "locked" => x.locked = "set"
    /\ x.status \in {"submitted", "approved"} => x.locked = "null"

\* However requests interleave, and although each of them writes columns it
\* has read earlier: a row never mixes the columns of two states of the
\* workflow.  A draft carries no approval, and what is approved or locked
\* names its approver.
StampsMatchStatus ==
    \A s \in Scenarios : row[s] # None => Coherent(row[s])

\* The last change of status in the audit t leads to status x.
LedTo(t, x) ==
    \E i \in DOMAIN t :
        /\ t[i].to = x
        /\ \A j \in DOMAIN t : j > i => t[j].kind = "values"

\* One of the changes in t, one before the nth, leads to status x.
Had(t, x) == \E i \in DOMAIN t : t[i].to = x

HadBefore(t, x, n) == \E i \in DOMAIN t : i < n /\ t[i].to = x

Approved(t, u) == \E i \in DOMAIN t : t[i].kind = "approve" /\ t[i].user = u

Wrote(t, u) == \E i \in DOMAIN t : t[i].kind = "values" /\ t[i].user = u

\* The audit explains what is stored: the status is where the last audited
\* change led, every change started from a status the scenario really had,
\* the approver is a user whose approval is audited, and whoever is named as
\* the author of a value has an audited batch.
TrailExplains ==
    \A s \in Scenarios :
        /\ row[s] # None =>
            /\ LedTo(trail[s], row[s].status)
            /\ row[s].approved_by # None => Approved(trail[s], row[s].approved_by)
        /\ \A n \in DOMAIN trail[s] :
            trail[s][n].kind \in Actions => HadBefore(trail[s], trail[s][n].from, n)
        /\ \A k \in Keys :
            values[s][k] # None => Wrote(trail[s], values[s][k].created_by)

-----------------------------------------------------------------------------
(***************************************************************************)
(* The inductive invariant behind the two properties                       *)
(***************************************************************************)

\* What a request has read was once true and stays explained by the audit,
\* however old the copy is when it is written.
CopyInv ==
    \A r \in Requests : pc[r] = "transition" =>
        LET j == job[r] IN
        /\ Coherent(j.copy)
        /\ j.copy.status \in TRANSITIONS[j.action].from
        /\ Had(trail[j.scenario], j.copy.status)
        /\ j.copy.approved_by # None => Approved(trail[j.scenario], j.copy.approved_by)

IInv == TypeOK /\ CopyInv /\ StampsMatchStatus /\ TrailExplains

=============================================================================
