--------------------------- MODULE OrderNumbering ---------------------------
(***************************************************************************)
(* The transaction of NeginAI.usp_SubmitValidatedOrder, which gives a      *)
(* Varanegar order its official number: the pre-check, the order header    *)
(* written by Varanegar's own procedure with a temporary number, the       *)
(* counter row of dbo.tblOrderNo, the duplicate check, the audit row, and  *)
(* the commit of the caller's connection (autocommit is off, so nothing is *)
(* durable before connection.commit()).                                    *)
(*                                                                         *)
(* A series is a counter row, keyed by sale office, year and distribution  *)
(* centre; duplicates are looked for in the year and centre only, the      *)
(* series' space, which several offices may share.  A session's changes    *)
(* stay its own until it commits; what it has locked, others wait for.     *)
(*                                                                         *)
(* A definition X_Y is a faulty variant of X, which the runs must reject.  *)
(***************************************************************************)
EXTENDS Naturals, Functions

CONSTANTS
    Keys,      \* order unique ids
    Series,    \* counter rows
    Spaces,    \* (AccYear, DCRef) pairs
    SpaceOf,   \* the space of each series
    Start,     \* the counters at installation
    Given,     \* numbers Varanegar's procedure may give an order by itself
    Plans,     \* what the scan of the duplicate check may lock: see Covers
    Sessions,  \* connections that execute the wrapper
    NoKey, NoSeries  \* an idle session

ASSUME SeriesAssumption == /\ SpaceOf \in [Series -> Spaces]
                           /\ Start \in [Series -> Nat]
                           /\ NoSeries \notin Series
ASSUME KeyAssumption == NoKey \notin Keys
ASSUME GivenAssumption == Given \subseteq Nat \ {0}

VARIABLES
    counter,  \* dbo.tblOrderNo, as committed
    headers,  \* SLE.tblOrderHdr with dbo.visit_BOOrder, as committed
    plan,     \* the plan of the duplicate check
    pc, key, series,
    source,   \* where a session's number comes from
    drawn     \* the number a session has drawn or was given

sessionVars == <<pc, key, series, source, drawn>>
vars == <<counter, headers, plan, sessionVars>>

Temporary == 0  \* stands for -OrderHdrRef

Header(k, s, n, o) == [key |-> k, series |-> s, number |-> n, source |-> o]

Space(t) == SpaceOf[series[t]]
Target(t) == <<Space(t), drawn[t]>>

Locked(t) == pc[t] \in {"allocated", "numbered", "audited"} /\ source[t] = "counter"
HasHeader(t) == pc[t] \in {"created", "allocated", "numbered", "audited"}
HoldsNumber(t) == pc[t] \in {"numbered", "audited"}
HoldsRange(t) == HoldsNumber(t) /\ source[t] = "counter"

\* A session's own header as others meet it in an index: its space and number
HeaderRow(t) == <<Space(t), IF HoldsNumber(t) THEN drawn[t] ELSE Temporary>>

\* UPDLOCK, HOLDLOCK: the rows the scan for a number locks, those that are yet to
\* be inserted there included.  It is the rows with the number; what else, up to
\* the whole table, depends on the indexes of tblOrderHdr, which are Varanegar's.
Covers(t, row) == row = Target(t) \/ <<Target(t), row>> \in plan

TypeOK ==
    /\ counter \in [Series -> Nat]
    /\ headers \subseteq [key : Keys, series : Series, number : Nat,
                          source : {"counter", "varanegar"}]
    /\ plan \in Plans
    /\ pc \in [Sessions -> {"idle", "checking", "checked", "created", "allocated",
                            "numbered", "audited"}]
    /\ key \in [Sessions -> Keys \cup {NoKey}]
    /\ series \in [Sessions -> Series \cup {NoSeries}]
    /\ \A t \in Sessions : pc[t] # "idle" <=> key[t] # NoKey
    /\ \A t \in Sessions : pc[t] # "idle" <=> series[t] # NoSeries
    /\ source \in [Sessions -> {"counter", "varanegar"}]
    /\ drawn \in [Sessions -> Nat]

Init ==
    /\ counter = Start
    /\ headers = {}
    /\ plan \in Plans
    /\ pc = [t \in Sessions |-> "idle"]
    /\ key = [t \in Sessions |-> NoKey]
    /\ series = [t \in Sessions |-> NoSeries]
    /\ source = [t \in Sessions |-> "counter"]
    /\ drawn = [t \in Sessions |-> 0]

Goto(t, step) == pc' = [pc EXCEPT ![t] = step] /\ UNCHANGED <<key, series>>

End_KeepsSession(t) ==
    /\ pc' = [pc EXCEPT ![t] = "idle"]
    /\ UNCHANGED <<key, series, source, drawn>>
End(t) ==
    /\ pc' = [pc EXCEPT ![t] = "idle"]
    /\ key' = [key EXCEPT ![t] = NoKey]
    /\ series' = [series EXCEPT ![t] = NoSeries]
    /\ source' = [source EXCEPT ![t] = "counter"]
    /\ drawn' = [drawn EXCEPT ![t] = 0]

KeyLocked_FromPreCheck(u) == pc[u] \notin {"idle", "checking"}
KeyLocked(u) == pc[u] = "audited"

\* Whom a session that holds locks waits for with its next statement: the holder
\* of its counter row; those whose header its scan meets or whose scan covers the
\* place its header moves to; the one that has inserted its audit key.
WaitsFor(t) ==
    {u \in Sessions \ {t} :
        \/ pc[t] = "created" /\ Locked(u) /\ series[u] = series[t]
        \/ /\ pc[t] = "allocated"
           /\ \/ HasHeader(u) /\ Covers(t, HeaderRow(u))
              \/ HoldsRange(u) /\ Covers(u, Target(t))
        \/ pc[t] = "numbered" /\ KeyLocked(u) /\ key[u] = key[t]}

\* The sessions of a cycle wait for each other.
Deadlocked(t) ==
    \E D \in SUBSET Sessions :
        /\ t \in D
        /\ \E f \in Injection(D, D) : \A u \in D : f[u] \in WaitsFor(u)
-----------------------------------------------------------------------------
Submit(t, k, s) ==
    /\ pc[t] = "idle"
    /\ pc' = [pc EXCEPT ![t] = "checking"]
    /\ key' = [key EXCEPT ![t] = k]
    /\ series' = [series EXCEPT ![t] = s]
    /\ UNCHANGED <<counter, headers, plan, source, drawn>>

\* An order that exists is returned as it is.  The SELECT takes no lock that
\* lasts: nothing keeps another session from creating the order afterwards.
PreCheck(t) ==
    /\ pc[t] = "checking"
    /\ IF \E h \in headers : h.key = key[t]
       THEN End(t)
       ELSE Goto(t, "checked") /\ UNCHANGED <<source, drawn>>
    /\ UNCHANGED <<counter, headers, plan>>

\* The header is inserted where no other session's scan has locked the place.
Insertable(t, n) ==
    \A u \in Sessions \ {t} : ~(HoldsRange(u) /\ Covers(u, <<Space(t), n>>))

\* dbo.NGT_ReplicateOrderMaster writes the header, with a temporary number.
Replicate(t) ==
    /\ pc[t] = "checked"
    /\ Insertable(t, Temporary)
    /\ Goto(t, "created")
    /\ UNCHANGED <<counter, headers, plan, source, drawn>>

\* Or it comes back with a number already: the wrapper takes that, without
\* the counter and without the duplicate check.
ReplicateNumbered(t) ==
    /\ pc[t] = "checked"
    /\ \E n \in Given :
          /\ Insertable(t, n)
          /\ drawn' = [drawn EXCEPT ![t] = n]
    /\ source' = [source EXCEPT ![t] = "varanegar"]
    /\ Goto(t, "numbered")
    /\ UNCHANGED <<counter, headers, plan>>

\* The UPDATE of the counter row, whose lock is held to the end of the
\* transaction.
Allocate(t) ==
    /\ pc[t] = "created"
    /\ WaitsFor(t) = {}
    /\ drawn' = [drawn EXCEPT ![t] = counter[series[t]] + 1]
    /\ Goto(t, "allocated")
    /\ UNCHANGED <<counter, headers, plan, source>>

Taken_InSeries(t) ==
    \E h \in headers : h.series = series[t] /\ h.number = drawn[t]
Taken(t) ==
    \E h \in headers : SpaceOf[h.series] = Space(t) /\ h.number = drawn[t]

\* The duplicate check and the UPDATE of the header.  Update locks exclude each
\* other, so a second scan of the same range waits at the scan.
Number(t) ==
    /\ pc[t] = "allocated"
    /\ WaitsFor(t) = {}
    /\ ~Taken(t)
    /\ Goto(t, "numbered")
    /\ UNCHANGED <<counter, headers, plan, source, drawn>>

\* The primary key of NeginAI.OrderBridgeAudit, a row for each committed header
AuditTaken_Unchecked(t) == FALSE
AuditTaken(t) == \E h \in headers : h.key = key[t]

WriteAudit(t) ==
    /\ pc[t] = "numbered"
    /\ WaitsFor(t) = {}
    /\ ~AuditTaken(t)
    /\ Goto(t, "audited")
    /\ UNCHANGED <<counter, headers, plan, source, drawn>>

\* connection.commit(); whether the caller learns of it makes no difference here.
Commit(t) ==
    /\ pc[t] = "audited"
    /\ counter' = IF source[t] = "counter" THEN [counter EXCEPT ![series[t]] = drawn[t]]
                  ELSE counter
    /\ headers' = headers \cup {Header(key[t], series[t], drawn[t], source[t])}
    /\ End(t)
    /\ UNCHANGED plan

Undone_KeepsCounter(t) ==
    IF Locked(t) THEN [counter EXCEPT ![series[t]] = drawn[t]] ELSE counter
Undone(t) == counter

\* The error reaches the caller, and its transaction stays open.
RollBack_LeftOpen(t) == UNCHANGED vars
RollBack(t) ==
    /\ counter' = Undone(t)
    /\ End(t)
    /\ UNCHANGED <<headers, plan>>

\* A number or an audit key that is taken makes the wrapper THROW.
Refuse(t) ==
    /\ \/ pc[t] = "allocated" /\ Taken(t)
       \/ pc[t] = "numbered" /\ AuditTaken(t)
    /\ WaitsFor(t) = {}
    /\ RollBack(t)

\* SQL Server ends a deadlock by making one of its sessions fail.
Victim(t) == Deadlocked(t) /\ RollBack(t)

\* An order Varanegar refuses, a number or header the wrapper did not expect, a
\* response the caller rejects, a lost connection
Fail(t) == pc[t] # "idle" /\ RollBack(t)
-----------------------------------------------------------------------------
SessionStep(t) ==
    \/ PreCheck(t) \/ Replicate(t) \/ ReplicateNumbered(t) \/ Allocate(t) \/ Number(t)
    \/ WriteAudit(t) \/ Commit(t) \/ Refuse(t)

Next ==
    \E t \in Sessions :
        \/ \E k \in Keys, s \in Series : Submit(t, k, s)
        \/ SessionStep(t)
        \/ Victim(t)
        \/ Fail(t)

Spec == Init /\ [][Next]_vars

\* A session that does not wait goes on, and deadlocks are found.  Errors are not
\* forced, nor is anything said of the order in which waiting sessions are served.
Fairness ==
    /\ \A t \in Sessions : WF_vars(SessionStep(t))
    /\ WF_vars(\E t \in Sessions : Victim(t))

FairSpec == Spec /\ Fairness
-----------------------------------------------------------------------------
(***************************************************************************)
(* Properties                                                              *)
(***************************************************************************)

\* An order numbered by the counter gets a number no order of its year and centre
\* has, though each office there counts on its own and an order that came with its
\* number is not checked.  (Such an order may come later with the same number.)
DrawnNumberIsNew ==
    [][\A h \in headers' \ headers : h.source = "counter" =>
          \A g \in headers : SpaceOf[g.series] = SpaceOf[h.series] => g.number # h.number]_vars

\* The numbers given out by a counter are those it has passed: a rollback neither
\* leaves a gap nor gives a number back that was used.
NumbersGapFree ==
    \A s \in Series :
        {h.number : h \in {g \in headers : g.series = s /\ g.source = "counter"}}
            = (Start[s] + 1)..counter[s]

\* The wrapper registers a key once, although its pre-check takes no lock.
OneOrderPerKey == \A g, h \in headers : g.key = h.key => g = h

\* Counter row, number and audit key are locked in an order that excludes a cycle:
\* sessions deadlock only over headers that still have their temporary number, by a
\* duplicate check whose scan meets those.
LocksAreOrdered ==
    (\A locked \in plan : locked[2][2] # Temporary) => \A t \in Sessions : ~Deadlocked(t)

\* Whatever the scans lock, sessions do not stand still: as long as there are
\* some, one of them ends.
NoStandstill ==
    \/ []<>(\A t \in Sessions : pc[t] = "idle")
    \/ []<><<\E t \in Sessions : pc[t] # "idle" /\ pc'[t] = "idle">>_vars
-----------------------------------------------------------------------------
(***************************************************************************)
(* The inductive invariant behind them                                     *)
(***************************************************************************)

\* A session that has drawn a number holds its counter row alone, and the number
\* is the counter's next.
CounterInv ==
    /\ \A t \in Sessions : pc[t] \notin {"numbered", "audited"} => source[t] = "counter"
    /\ \A t \in Sessions : Locked(t) => drawn[t] = counter[series[t]] + 1
    /\ \A t, u \in Sessions :
          Locked(t) /\ Locked(u) /\ series[t] = series[u] => t = u
    /\ \A s \in Series : Start[s] <= counter[s]

\* What a session has checked stays true until it ends.
CheckedInv ==
    /\ \A t \in Sessions : HoldsRange(t) => ~Taken(t)
    /\ \A t \in Sessions : pc[t] = "audited" => ~AuditTaken(t)
    /\ \A t, u \in Sessions :
          HoldsRange(t) /\ HoldsNumber(u) /\ Target(t) = Target(u) => t = u
    /\ \A t, u \in Sessions :
          pc[t] = "audited" /\ pc[u] = "audited" /\ key[t] = key[u] => t = u

IInv == CounterInv /\ CheckedInv /\ NumbersGapFree /\ OneOrderPerKey
=============================================================================
