----------------------- MODULE PlanningScenariosProofs -----------------------
(***************************************************************************)
(* The planning workflow for any numbers of scenarios, users, threads and  *)
(* audit rows.  A request writes columns it has read earlier; the invariant*)
(* therefore speaks of the copies too (CopyInv): a copy is coherent in     *)
(* itself and the audit, which only grows, explains it for ever.           *)
(***************************************************************************)
EXTENDS PlanningScenarios, TLAPS

\* The steps of the workflow by name.
LEMMA ActionNames ==
    /\ Actions = {"submit", "approve", "reject", "lock", "reopen", "archive"}
    /\ \A a \in Actions : TRANSITIONS[a].to \in Statuses
    /\ TRANSITIONS["submit"] = Step({"draft"}, "submitted")
    /\ TRANSITIONS["approve"] = Step({"submitted"}, "approved")
    /\ TRANSITIONS["reject"] = Step({"submitted"}, "draft")
    /\ TRANSITIONS["lock"] = Step({"approved"}, "locked")
    /\ TRANSITIONS["reopen"] = Step({"submitted", "approved", "locked"}, "draft")
    /\ TRANSITIONS["archive"] = Step(Statuses \ {"archived"}, "archived")
BY DEF Actions, TRANSITIONS, Step, Statuses

LEMMA DraftIsRow == Draft \in Row
BY DEF Draft, Row, Statuses

\* What a transition writes is a row.
LEMMA StampedIsRow ==
    ASSUME NEW x \in Row, NEW a \in Actions, NEW u \in Users
    PROVE  Stamped(x, a, u) \in Row
BY ActionNames, DraftIsRow DEF Stamped, Row

-----------------------------------------------------------------------------

\* Types: tables and threads hold the values they may hold.
THEOREM PlanningTypeCorrect == Spec => []TypeOK
<1>1. Init => TypeOK
  BY DEF Init, TypeOK
<1>2. TypeOK /\ [Next]_vars => TypeOK'
  <2> SUFFICES ASSUME TypeOK, [Next]_vars PROVE TypeOK'
    OBVIOUS
  <2>1. ASSUME NEW s \in Scenarios, NEW u \in Users, create_scenario(s, u)
        PROVE  TypeOK'
    <3>1. Audit("created", u, None, "draft") \in Entry
      BY DEF Audit, Entry, Statuses
    <3> QED
      BY <2>1, <3>1, DraftIsRow DEF create_scenario, TypeOK
  <2>2. ASSUME NEW r \in Requests, NEW s \in Scenarios, NEW u \in Users,
               NEW a \in Actions, ReadForTransition(r, s, u, a)
        PROVE  TypeOK'
    <3>1. NoValues \in [Keys -> Amounts \cup {None}]
      BY DEF NoValues
    <3> DEFINE n == [scenario |-> s, user |-> u, action |-> a,
                     copy |-> row[s], batch |-> NoValues]
    <3>2. n \in Job /\ n.action \in Actions
      BY <2>2, <3>1 DEF ReadForTransition, TypeOK, Job
    <3>3. job' = [job EXCEPT ![r] = n] /\ pc' = [pc EXCEPT ![r] = "transition"]
          /\ UNCHANGED <<row, values, trail>>
      BY <2>2 DEF ReadForTransition, Begin
    <3> HIDE DEF n
    <3> QED
      BY <3>2, <3>3 DEF TypeOK
  <2>3. ASSUME NEW r \in Requests, NEW s \in Scenarios, NEW u \in Users,
               NEW b \in [Keys -> Amounts \cup {None}], ReadForValues(r, s, u, b)
        PROVE  TypeOK'
    <3> DEFINE n == [scenario |-> s, user |-> u, action |-> None,
                     copy |-> row[s], batch |-> b]
    <3>2. n \in Job
      BY <2>3 DEF ReadForValues, TypeOK, Job
    <3>3. job' = [job EXCEPT ![r] = n] /\ pc' = [pc EXCEPT ![r] = "values"]
          /\ UNCHANGED <<row, values, trail>>
      BY <2>3 DEF ReadForValues, Begin
    <3> HIDE DEF n
    <3> QED
      BY <3>2, <3>3 DEF TypeOK
  <2>4. ASSUME NEW r \in Requests, WriteTransition(r)
        PROVE  TypeOK'
    <3> DEFINE j == job[r]
    <3>1. j \in Job /\ j.action \in Actions
      BY <2>4 DEF WriteTransition, TypeOK
    <3>2. Stamped(j.copy, j.action, j.user) \in Row
      BY <3>1, StampedIsRow DEF Job
    <3>3. Audit(j.action, j.user, j.copy.status, TRANSITIONS[j.action].to) \in Entry
      BY <3>1, ActionNames DEF Audit, Entry, Job, Row
    <3> QED
      BY <2>4, <3>1, <3>2, <3>3 DEF WriteTransition, Done, TypeOK, Job
  <2>5. ASSUME NEW r \in Requests, WriteValues(r)
        PROVE  TypeOK'
    <3> DEFINE j == job[r]
    <3>1. j \in Job
      BY <2>5 DEF WriteValues, TypeOK
    <3>2. ASSUME NEW cells \in [Keys -> Cell \cup {None}]
          PROVE  Upserted(cells, j.batch, j.user) \in [Keys -> Cell \cup {None}]
      BY <3>1, PlanningAssumption DEF Upserted, Cell, Job
    <3>3. Audit("values", j.user, None, None) \in Entry
      BY <3>1 DEF Audit, Entry, Job
    <3> QED
      BY <2>5, <3>1, <3>2, <3>3 DEF WriteValues, Done, TypeOK, Job
  <2>6. ASSUME NEW r \in Requests, Abandon(r)
        PROVE  TypeOK'
    BY <2>6 DEF Abandon, Done, TypeOK
  <2>7. CASE UNCHANGED vars
    BY <2>7 DEF vars, TypeOK
  <2> QED
    BY <2>1, <2>2, <2>3, <2>4, <2>5, <2>6, <2>7 DEF Next
<1> QED
  BY <1>1, <1>2, PTL DEF Spec

-----------------------------------------------------------------------------
(* How the audit grows *)

\* One more audit row: the others keep their places, so what the audit has
\* once explained it explains for ever.
LEMMA AuditKeeps ==
    ASSUME NEW t \in Seq(Entry), NEW e \in Entry
    PROVE  LET g == Append(t, e) IN
           /\ \A x : Had(t, x) => Had(g, x)
           /\ \A u : Approved(t, u) => Approved(g, u)
           /\ \A u : Wrote(t, u) => Wrote(g, u)
           /\ \A x : \A n \in Nat : HadBefore(t, x, n) => HadBefore(g, x, n)
<1> DEFINE g == Append(t, e)
<1>1. \A i \in DOMAIN t : i \in DOMAIN g /\ g[i] = t[i]
  OBVIOUS
<1> HIDE DEF g
<1>2. \A x : Had(t, x) => Had(g, x)
  BY <1>1 DEF Had
<1>3. \A u : Approved(t, u) => Approved(g, u)
  BY <1>1 DEF Approved
<1>4. \A u : Wrote(t, u) => Wrote(g, u)
  BY <1>1 DEF Wrote
<1>5. \A x : \A n \in Nat : HadBefore(t, x, n) => HadBefore(g, x, n)
  BY <1>1 DEF HadBefore
<1> QED
  BY <1>2, <1>3, <1>4, <1>5 DEF g

\* What the new audit row itself says.
LEMMA AuditSays ==
    ASSUME NEW t \in Seq(Entry), NEW e \in Entry
    PROVE  LET g == Append(t, e) IN
           /\ LedTo(g, e.to)
           /\ e.kind = "approve" => Approved(g, e.user)
           /\ e.kind = "values" => Wrote(g, e.user)
           /\ e.kind = "values" => \A x : LedTo(t, x) => LedTo(g, x)
<1> DEFINE g == Append(t, e)
           n == Len(t) + 1
<1>1. /\ Len(t) \in Nat
      /\ DOMAIN t = 1..Len(t) /\ DOMAIN g = 1..n
      /\ g[n] = e
      /\ \A i \in 1..Len(t) : g[i] = t[i]
  OBVIOUS
<1> HIDE DEF g
<1>2. n \in DOMAIN g /\ \A j \in DOMAIN g : ~(j > n)
  BY <1>1
<1>3. LedTo(g, e.to)
  BY <1>1, <1>2 DEF LedTo
<1>4. e.kind = "approve" => Approved(g, e.user)
  BY <1>1, <1>2 DEF Approved
<1>5. e.kind = "values" => Wrote(g, e.user)
  BY <1>1, <1>2 DEF Wrote
<1>6. ASSUME e.kind = "values", NEW x, LedTo(t, x)
      PROVE  LedTo(g, x)
  <2>1. PICK i \in DOMAIN t :
            t[i].to = x /\ \A j \in DOMAIN t : j > i => t[j].kind = "values"
    BY <1>6 DEF LedTo
  <2>2. i \in DOMAIN g /\ g[i].to = x
    BY <1>1, <2>1
  <2>3. ASSUME NEW j \in DOMAIN g, j > i
        PROVE  g[j].kind = "values"
    <3>1. CASE j = n
      BY <1>1, <1>6, <3>1
    <3>2. CASE j \in DOMAIN t
      BY <1>1, <2>1, <2>3, <3>2
    <3> QED
      BY <1>1, <3>1, <3>2
  <2> QED
    BY <2>2, <2>3 DEF LedTo
<1> QED
  BY <1>3, <1>4, <1>5, <1>6 DEF g

\* Every audited change starts from a status the scenario has had.
Origins(t) == \A n \in DOMAIN t : t[n].kind \in Actions => HadBefore(t, t[n].from, n)

LEMMA OriginsStay ==
    ASSUME NEW t \in Seq(Entry), NEW e \in Entry, Origins(t),
           e.kind \in Actions => Had(t, e.from)
    PROVE  Origins(Append(t, e))
<1> DEFINE g == Append(t, e)
<1>1. /\ Len(t) \in Nat
      /\ DOMAIN t = 1..Len(t) /\ DOMAIN g = 1..(Len(t) + 1)
      /\ g[Len(t) + 1] = e
      /\ \A i \in 1..Len(t) : g[i] = t[i]
  OBVIOUS
<1> HIDE DEF g
<1> SUFFICES ASSUME NEW n \in DOMAIN g, g[n].kind \in Actions
             PROVE  HadBefore(g, g[n].from, n)
  BY DEF Origins, g
<1>2. CASE n = Len(t) + 1
  <2>1. PICK i \in DOMAIN t : t[i].to = e.from
    BY <1>1, <1>2 DEF Had
  <2>2. i \in DOMAIN g /\ i < n /\ g[i].to = g[n].from
    BY <1>1, <1>2, <2>1
  <2> QED
    BY <2>2 DEF HadBefore
<1>3. CASE n \in DOMAIN t
  <2>1. PICK i \in DOMAIN t : i < n /\ t[i].to = t[n].from
    BY <1>1, <1>3 DEF Origins, HadBefore
  <2>2. i \in DOMAIN g /\ g[i].to = g[n].from
    BY <1>1, <1>3, <2>1
  <2> QED
    BY <2>1, <2>2 DEF HadBefore
<1> QED
  BY <1>1, <1>2, <1>3

\* The columns a transition writes fit each other if those it has read do.
LEMMA StampedIsCoherent ==
    ASSUME NEW x \in Row, NEW a \in Actions, NEW u \in Users,
           Coherent(x), x.status \in TRANSITIONS[a].from
    PROVE  /\ Coherent(Stamped(x, a, u))
           /\ Stamped(x, a, u).status = TRANSITIONS[a].to
<1> USE PlanningAssumption, ActionNames DEF Stamped, Coherent, Row, Draft, Step, Statuses
<1>1. CASE a = "submit"
  BY <1>1
<1>2. CASE a = "approve"
  BY <1>2
<1>3. CASE a = "reject"
  BY <1>3
<1>4. CASE a = "lock"
  BY <1>4
<1>5. CASE a = "reopen"
  BY <1>5
<1>6. CASE a = "archive"
  BY <1>6
<1> QED
  BY <1>1, <1>2, <1>3, <1>4, <1>5, <1>6
\* The approver is cleared, copied or the user of an approval.
LEMMA StampedApprover ==
    ASSUME NEW x \in Row, NEW a \in Actions, NEW u \in Users
    PROVE  \/ Stamped(x, a, u).approved_by = None
           \/ Stamped(x, a, u).approved_by = x.approved_by
           \/ a = "approve" /\ Stamped(x, a, u).approved_by = u
BY DEF Stamped, Draft

-----------------------------------------------------------------------------
(* The invariant by scenarios and requests *)

\* TrailExplains for a scenario with row x, cells c and audit t.
Explained(x, c, t) ==
    /\ x # None => LedTo(t, x.status) /\ (x.approved_by # None => Approved(t, x.approved_by))
    /\ Origins(t)
    /\ \A k \in Keys : c[k] # None => Wrote(t, c[k].created_by)

\* CopyInv for a request about to write, with job j.
Copied(j) ==
    /\ Coherent(j.copy)
    /\ j.copy.status \in TRANSITIONS[j.action].from
    /\ Had(trail[j.scenario], j.copy.status)
    /\ j.copy.approved_by # None => Approved(trail[j.scenario], j.copy.approved_by)

LEMMA ByParts ==
    /\ TrailExplains <=> \A q \in Scenarios : Explained(row[q], values[q], trail[q])
    /\ CopyInv <=> \A r \in Requests : pc[r] = "transition" => Copied(job[r])
BY DEF TrailExplains, Explained, Origins, CopyInv, Copied

\* What a copy needs of the audit it finds again in a longer one.
LEMMA CopyStays ==
    ASSUME TypeOK, CopyInv, NEW s \in Scenarios, NEW e \in Entry,
           trail' = [trail EXCEPT ![s] = Append(@, e)],
           \A r \in Requests :
              pc'[r] = "transition" => pc[r] = "transition" /\ job'[r] = job[r]
    PROVE  CopyInv'
<1> SUFFICES ASSUME NEW r \in Requests, pc'[r] = "transition"
             PROVE  Copied(job[r])'
  BY DEF CopyInv, Copied
<1> DEFINE j == job[r]
           q == j.scenario
<1>1. j \in Job /\ q \in Scenarios /\ job'[r] = j /\ pc[r] = "transition"
  BY DEF TypeOK, Job
<1>2. Had(trail[q], j.copy.status)
      /\ (j.copy.approved_by # None => Approved(trail[q], j.copy.approved_by))
      /\ Coherent(j.copy) /\ j.copy.status \in TRANSITIONS[j.action].from
  BY <1>1 DEF CopyInv
<1>3. trail[q] \in Seq(Entry)
  BY <1>1 DEF TypeOK
<1>4. trail'[q] = trail[q] \/ trail'[q] = Append(trail[q], e)
  BY <1>1 DEF TypeOK
<1>5. Had(trail'[q], j.copy.status)
      /\ (j.copy.approved_by # None => Approved(trail'[q], j.copy.approved_by))
  BY <1>2, <1>3, <1>4, AuditKeeps
<1> QED
  BY <1>1, <1>2, <1>5 DEF Copied

-----------------------------------------------------------------------------

\* The invariant holds, whatever the interleaving of the requests.
THEOREM PlanningInvariant == Spec => []IInv
<1>1. Init => IInv
  <2> SUFFICES ASSUME Init PROVE IInv
    OBVIOUS
  <2>1. TypeOK
    BY DEF Init, TypeOK
  <2>2. StampsMatchStatus /\ CopyInv
    BY DEF Init, StampsMatchStatus, CopyInv
  <2>3. TrailExplains
    <3>1. \A s \in Scenarios : row[s] = None /\ trail[s] = <<>>
          /\ \A k \in Keys : values[s][k] = None
      BY DEF Init
    <3>2. DOMAIN <<>> = {}
      OBVIOUS
    <3> QED
      BY <3>1, <3>2 DEF TrailExplains
  <2> QED
    BY <2>1, <2>2, <2>3 DEF IInv
<1>2. IInv /\ TypeOK' /\ [Next]_vars => IInv'
  <2> SUFFICES ASSUME IInv, TypeOK', [Next]_vars
               PROVE  TrailExplains' /\ CopyInv' /\ StampsMatchStatus'
    BY DEF IInv
  <2>0. TypeOK /\ TrailExplains /\ CopyInv /\ StampsMatchStatus
    BY DEF IInv
  <2>a. \A q \in Scenarios : Explained(row[q], values[q], trail[q])
    BY <2>0, ByParts
  <2>b. ASSUME \A q \in Scenarios : Explained(row'[q], values'[q], trail'[q])
        PROVE  TrailExplains'
    BY <2>b DEF TrailExplains, Explained, Origins
  <2>1. ASSUME NEW s \in Scenarios, NEW u \in Users, create_scenario(s, u)
        PROVE  TrailExplains' /\ CopyInv' /\ StampsMatchStatus'
    <3> DEFINE e == Audit("created", u, None, "draft")
               t == trail[s]
    <3>1. e \in Entry /\ e.kind \notin Actions /\ e.to = "draft"
      BY ActionNames DEF Audit, Entry, Statuses
    <3>2. trail' = [trail EXCEPT ![s] = Append(@, e)] /\ row' = [row EXCEPT ![s] = Draft]
          /\ UNCHANGED <<values, pc, job>>
      BY <2>1 DEF create_scenario
    <3> HIDE DEF e
    <3>3. t \in Seq(Entry) /\ trail'[s] = Append(t, e) /\ row'[s] = Draft
      BY <2>0, <3>2 DEF TypeOK
    <3>4. CopyInv'
      BY <2>0, <3>1, <3>2, CopyStays
    <3>5. StampsMatchStatus'
      BY <2>0, <3>2, PlanningAssumption DEF StampsMatchStatus, Coherent, Draft, TypeOK
    <3>6. Explained(row'[s], values'[s], trail'[s])
      <4>1. LedTo(trail'[s], "draft")
        BY <3>1, <3>3, AuditSays
      <4>2. Origins(trail'[s])
        BY <2>a, <3>1, <3>3, OriginsStay DEF Explained
      <4>3. \A k \in Keys : values[s][k] # None => Wrote(trail'[s], values[s][k].created_by)
        BY <2>a, <3>1, <3>3, AuditKeeps DEF Explained
      <4> QED
        BY <3>2, <3>3, <4>1, <4>2, <4>3 DEF Explained, Draft
    <3>7. ASSUME NEW q \in Scenarios, q # s
          PROVE  Explained(row'[q], values'[q], trail'[q])
      <4>1. row'[q] = row[q] /\ values'[q] = values[q] /\ trail'[q] = trail[q]
        BY <2>0, <3>2, <3>7 DEF TypeOK
      <4> QED
        BY <2>a, <4>1
    <3> QED
      BY <2>b, <3>4, <3>5, <3>6, <3>7
  <2>2. ASSUME NEW r \in Requests, NEW s \in Scenarios, NEW u \in Users,
               NEW a \in Actions, ReadForTransition(r, s, u, a)
        PROVE  TrailExplains' /\ CopyInv' /\ StampsMatchStatus'
    <3>1. UNCHANGED <<row, values, trail>> /\ row[s] # None
          /\ row[s].status \in TRANSITIONS[a].from
      BY <2>2 DEF ReadForTransition, Begin
    <3>2. TrailExplains' /\ StampsMatchStatus'
      BY <2>0, <2>a, <2>b, <3>1 DEF StampsMatchStatus
    <3>3. /\ job'[r].scenario = s /\ job'[r].copy = row[s] /\ job'[r].action = a
          /\ \A q \in Requests \ {r} : job'[q] = job[q] /\ pc'[q] = pc[q]
      BY <2>0, <2>2 DEF ReadForTransition, Begin, TypeOK
    <3>4. Coherent(row[s])
      BY <2>0, <3>1 DEF StampsMatchStatus
    <3>5. Had(trail[s], row[s].status)
          /\ (row[s].approved_by # None => Approved(trail[s], row[s].approved_by))
      BY <2>a, <3>1 DEF Explained, LedTo, Had
    <3>6. CopyInv'
      BY <2>0, <3>1, <3>3, <3>4, <3>5 DEF CopyInv
    <3> QED
      BY <3>2, <3>6
  <2>3. ASSUME NEW r \in Requests, NEW s \in Scenarios, NEW u \in Users,
               NEW b \in [Keys -> Amounts \cup {None}], ReadForValues(r, s, u, b)
        PROVE  TrailExplains' /\ CopyInv' /\ StampsMatchStatus'
    <3>1. UNCHANGED <<row, values, trail>>
      BY <2>3 DEF ReadForValues, Begin
    <3>2. pc'[r] = "values" /\ \A q \in Requests \ {r} : job'[q] = job[q] /\ pc'[q] = pc[q]
      BY <2>0, <2>3 DEF ReadForValues, Begin, TypeOK
    <3> QED
      BY <2>0, <2>a, <2>b, <3>1, <3>2 DEF StampsMatchStatus, CopyInv
  <2>4. ASSUME NEW r \in Requests, WriteTransition(r)
        PROVE  TrailExplains' /\ CopyInv' /\ StampsMatchStatus'
    <3> DEFINE j == job[r]
               s == j.scenario
               t == trail[s]
               e == Audit(j.action, j.user, j.copy.status, TRANSITIONS[j.action].to)
               new == Stamped(j.copy, j.action, j.user)
    <3>1. /\ s \in Scenarios /\ j.copy \in Row /\ j.action \in Actions /\ j.user \in Users
          /\ Copied(j) /\ t \in Seq(Entry)
      BY <2>0, <2>4, ByParts DEF WriteTransition, TypeOK, Job
    <3>2. e \in Entry /\ e.kind = j.action /\ e.user = j.user /\ e.from = j.copy.status
          /\ e.to = TRANSITIONS[j.action].to
      BY <3>1, ActionNames DEF Audit, Entry, Row
    <3>3. Coherent(new) /\ new.status = TRANSITIONS[j.action].to
      BY <3>1, StampedIsCoherent DEF Copied
    <3>4. \/ new.approved_by = None
          \/ new.approved_by = j.copy.approved_by
          \/ j.action = "approve" /\ new.approved_by = j.user
      BY <3>1, StampedApprover
    <3>5. /\ trail' = [trail EXCEPT ![s] = Append(@, e)]
          /\ row' = [row EXCEPT ![s] = new]
          /\ pc' = [pc EXCEPT ![r] = "idle"] /\ job' = [job EXCEPT ![r] = None]
          /\ values' = values
      BY <2>4 DEF WriteTransition, Done
    <3> HIDE DEF e, new
    <3>6. trail'[s] = Append(t, e) /\ row'[s] = new
          /\ \A q \in Scenarios : q # s => row'[q] = row[q] /\ trail'[q] = trail[q]
      BY <2>0, <3>1, <3>5 DEF TypeOK
    <3>7. CopyInv'
      <4>1. \A q \in Requests : pc'[q] = "transition" => pc[q] = "transition" /\ job'[q] = job[q]
        BY <2>0, <3>5 DEF TypeOK
      <4> QED
        BY <2>0, <3>1, <3>2, <3>5, <4>1, CopyStays
    <3>8. StampsMatchStatus'
      BY <2>0, <3>3, <3>6 DEF StampsMatchStatus
    <3>9. Explained(row'[s], values'[s], trail'[s])
      <4>1. LedTo(trail'[s], new.status)
        BY <3>1, <3>2, <3>3, <3>6, AuditSays
      <4>2. new.approved_by # None => Approved(trail'[s], new.approved_by)
        BY <3>1, <3>2, <3>4, <3>6, AuditKeeps, AuditSays DEF Copied
      <4>3. Origins(trail'[s])
        BY <2>a, <3>1, <3>2, <3>6, OriginsStay DEF Explained, Copied
      <4>4. \A k \in Keys : values[s][k] # None => Wrote(trail'[s], values[s][k].created_by)
        BY <2>a, <3>1, <3>2, <3>6, AuditKeeps DEF Explained
      <4> QED
        BY <3>5, <3>6, <4>1, <4>2, <4>3, <4>4 DEF Explained
    <3> QED
      BY <2>a, <2>b, <3>5, <3>6, <3>7, <3>8, <3>9
  <2>5. ASSUME NEW r \in Requests, WriteValues(r)
        PROVE  TrailExplains' /\ CopyInv' /\ StampsMatchStatus'
    <3> DEFINE j == job[r]
               s == j.scenario
               t == trail[s]
               e == Audit("values", j.user, None, None)
    <3>1. s \in Scenarios /\ j.user \in Users /\ t \in Seq(Entry)
      BY <2>0, <2>5 DEF WriteValues, TypeOK, Job
    <3>2. e \in Entry /\ e.kind = "values" /\ e.user = j.user /\ e.kind \notin Actions
      BY <3>1, ActionNames DEF Audit, Entry
    <3>3. /\ trail' = [trail EXCEPT ![s] = Append(@, e)]
          /\ values' = [values EXCEPT ![s] = Upserted(@, j.batch, j.user)]
          /\ pc' = [pc EXCEPT ![r] = "idle"] /\ job' = [job EXCEPT ![r] = None]
          /\ row' = row
      BY <2>5 DEF WriteValues, Done
    <3> HIDE DEF e
    <3>4. trail'[s] = Append(t, e) /\ values'[s] = Upserted(values[s], j.batch, j.user)
          /\ \A q \in Scenarios : q # s => values'[q] = values[q] /\ trail'[q] = trail[q]
      BY <2>0, <3>1, <3>3 DEF TypeOK
    <3>5. \A k \in Keys : \/ values'[s][k] = values[s][k]
                          \/ values'[s][k].created_by = j.user
                          \/ /\ values[s][k] # None
                             /\ values'[s][k].created_by = values[s][k].created_by
      BY <3>4 DEF Upserted
    <3>6. CopyInv'
      <4>1. \A q \in Requests : pc'[q] = "transition" => pc[q] = "transition" /\ job'[q] = job[q]
        BY <2>0, <3>3 DEF TypeOK
      <4> QED
        BY <2>0, <3>1, <3>2, <3>3, <4>1, CopyStays
    <3>7. StampsMatchStatus'
      BY <2>0, <3>3 DEF StampsMatchStatus
    <3>8. Explained(row'[s], values'[s], trail'[s])
      <4>1. row[s] # None => LedTo(trail'[s], row[s].status)
        BY <2>a, <3>1, <3>2, <3>4, AuditSays DEF Explained
      <4>2. row[s] # None /\ row[s].approved_by # None => Approved(trail'[s], row[s].approved_by)
        BY <2>a, <3>1, <3>2, <3>4, AuditKeeps DEF Explained
      <4>3. Origins(trail'[s])
        BY <2>a, <3>1, <3>2, <3>4, OriginsStay DEF Explained
      <4>4. Wrote(trail'[s], j.user)
        BY <3>1, <3>2, <3>4, AuditSays
      <4>5. \A k \in Keys : values[s][k] # None => Wrote(trail'[s], values[s][k].created_by)
        BY <2>a, <3>1, <3>2, <3>4, AuditKeeps DEF Explained
      <4>6. \A k \in Keys : values'[s][k] # None => Wrote(trail'[s], values'[s][k].created_by)
        BY <3>5, <4>4, <4>5
      <4> QED
        BY <3>3, <4>1, <4>2, <4>3, <4>6 DEF Explained
    <3> QED
      BY <2>a, <2>b, <3>3, <3>4, <3>6, <3>7, <3>8
  <2>6. ASSUME NEW r \in Requests, Abandon(r)
        PROVE  TrailExplains' /\ CopyInv' /\ StampsMatchStatus'
    <3>1. UNCHANGED <<row, values, trail>>
      BY <2>6 DEF Abandon
    <3>2. pc'[r] = "idle" /\ \A q \in Requests \ {r} : job'[q] = job[q] /\ pc'[q] = pc[q]
      BY <2>0, <2>6 DEF Abandon, Done, TypeOK
    <3> QED
      BY <2>0, <2>a, <2>b, <3>1, <3>2 DEF StampsMatchStatus, CopyInv
  <2>7. CASE UNCHANGED vars
    BY <2>0, <2>a, <2>b, <2>7 DEF vars, StampsMatchStatus, CopyInv
  <2> QED
    BY <2>1, <2>2, <2>3, <2>4, <2>5, <2>6, <2>7 DEF Next
<1> QED
  BY <1>1, <1>2, PlanningTypeCorrect, PTL DEF Spec

\* Whatever requests overlap, a row never mixes the columns of two states of
\* the workflow.
THEOREM StampsMatchStatusHolds == Spec => []StampsMatchStatus
<1>1. IInv => StampsMatchStatus
  BY DEF IInv
<1> QED
  BY <1>1, PlanningInvariant, PTL

\* Whatever requests overlap, the audit explains status, approver and authors.
THEOREM TrailExplainsHolds == Spec => []TrailExplains
<1>1. IInv => TrailExplains
  BY DEF IInv
<1> QED
  BY <1>1, PlanningInvariant, PTL

=============================================================================
