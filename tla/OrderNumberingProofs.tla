------------------------ MODULE OrderNumberingProofs ------------------------
(***************************************************************************)
(* Proofs about OrderNumbering, for every set of keys, sessions, counter   *)
(* rows and spaces, every value of the counters, whatever numbers Varanegar*)
(* gives by itself and whatever the scans of the duplicate check lock.     *)
(***************************************************************************)
EXTENDS OrderNumbering, TLAPS

USE SeriesAssumption, KeyAssumption, GivenAssumption

\* Counters, headers and sessions keep their types.
THEOREM NumberingTypeCorrect == Spec => []TypeOK
<1>1. Init => TypeOK
  BY DEF Init, TypeOK
<1>2. TypeOK /\ [Next]_vars => TypeOK'
  <2> SUFFICES ASSUME TypeOK, [Next]_vars PROVE TypeOK'
    OBVIOUS
  <2> USE DEF TypeOK, sessionVars
  <2>1. ASSUME NEW t \in Sessions, NEW k \in Keys, NEW s \in Series, Submit(t, k, s) PROVE TypeOK'
    BY <2>1 DEF Submit
  <2>2. ASSUME NEW t \in Sessions, PreCheck(t) PROVE TypeOK'
    BY <2>2 DEF PreCheck, Goto, End
  <2>3. ASSUME NEW t \in Sessions, Replicate(t) PROVE TypeOK'
    BY <2>3 DEF Replicate, Goto
  <2>4. ASSUME NEW t \in Sessions, ReplicateNumbered(t) PROVE TypeOK'
    BY <2>4 DEF ReplicateNumbered, Goto
  <2>5. ASSUME NEW t \in Sessions, Allocate(t) PROVE TypeOK'
    BY <2>5 DEF Allocate, Goto
  <2>6. ASSUME NEW t \in Sessions, Number(t) PROVE TypeOK'
    BY <2>6 DEF Number, Goto
  <2>7. ASSUME NEW t \in Sessions, WriteAudit(t) PROVE TypeOK'
    BY <2>7 DEF WriteAudit, Goto
  <2>8. ASSUME NEW t \in Sessions, Commit(t) PROVE TypeOK'
    BY <2>8 DEF Commit, End, Header
  <2>9. ASSUME NEW t \in Sessions, Refuse(t) PROVE TypeOK'
    BY <2>9 DEF Refuse, RollBack, Undone, End
  <2>10. ASSUME NEW t \in Sessions, Victim(t) PROVE TypeOK'
    BY <2>10 DEF Victim, RollBack, Undone, End
  <2>11. ASSUME NEW t \in Sessions, Fail(t) PROVE TypeOK'
    BY <2>11 DEF Fail, RollBack, Undone, End
  <2>12. CASE UNCHANGED vars
    BY <2>12 DEF vars
  <2> HIDE DEF TypeOK, sessionVars
  <2> QED
    BY <2>1, <2>2, <2>3, <2>4, <2>5, <2>6, <2>7, <2>8, <2>9, <2>10, <2>11, <2>12
       DEF Next, SessionStep
<1> QED
  BY <1>1, <1>2, PTL DEF Spec

\* The counter row's lock makes a drawn number the counter's next.
LEMMA CounterRows == Spec => []CounterInv
<1>1. Init => CounterInv
  BY DEF Init, CounterInv, Locked
<1>2. TypeOK /\ CounterInv /\ [Next]_vars => CounterInv'
  <2> SUFFICES ASSUME TypeOK, CounterInv, [Next]_vars PROVE CounterInv'
    OBVIOUS
  <2> USE DEF TypeOK, CounterInv, Locked, sessionVars
  <2>1. ASSUME NEW t \in Sessions, NEW k \in Keys, NEW s \in Series, Submit(t, k, s) PROVE CounterInv'
    BY <2>1 DEF Submit
  <2>2. ASSUME NEW t \in Sessions, PreCheck(t) PROVE CounterInv'
    BY <2>2 DEF PreCheck, Goto, End
  <2>3. ASSUME NEW t \in Sessions, Replicate(t) PROVE CounterInv'
    BY <2>3 DEF Replicate, Goto
  <2>4. ASSUME NEW t \in Sessions, ReplicateNumbered(t) PROVE CounterInv'
    BY <2>4 DEF ReplicateNumbered, Goto
  <2>5. ASSUME NEW t \in Sessions, Allocate(t) PROVE CounterInv'
    BY <2>5 DEF Allocate, Goto, WaitsFor
  <2>6. ASSUME NEW t \in Sessions, Number(t) PROVE CounterInv'
    BY <2>6 DEF Number, Goto
  <2>7. ASSUME NEW t \in Sessions, WriteAudit(t) PROVE CounterInv'
    BY <2>7 DEF WriteAudit, Goto
  <2>8. ASSUME NEW t \in Sessions, Commit(t) PROVE CounterInv'
    BY <2>8 DEF Commit, End, Header
  <2>9. ASSUME NEW t \in Sessions, Refuse(t) PROVE CounterInv'
    BY <2>9 DEF Refuse, RollBack, Undone, End
  <2>10. ASSUME NEW t \in Sessions, Victim(t) PROVE CounterInv'
    BY <2>10 DEF Victim, RollBack, Undone, End
  <2>11. ASSUME NEW t \in Sessions, Fail(t) PROVE CounterInv'
    BY <2>11 DEF Fail, RollBack, Undone, End
  <2>12. CASE UNCHANGED vars
    BY <2>12 DEF vars
  <2> HIDE DEF TypeOK, CounterInv, Locked, sessionVars
  <2> QED
    BY <2>1, <2>2, <2>3, <2>4, <2>5, <2>6, <2>7, <2>8, <2>9, <2>10, <2>11, <2>12
       DEF Next, SessionStep
<1> QED
  BY NumberingTypeCorrect, <1>1, <1>2, PTL DEF Spec

\* The duplicate and the audit check hold from the moment they pass.
LEMMA Checked == Spec => []CheckedInv
<1>1. Init => CheckedInv
  BY DEF Init, CheckedInv, HoldsRange, HoldsNumber
<1>2. TypeOK /\ CheckedInv /\ [Next]_vars => CheckedInv'
  <2> SUFFICES ASSUME TypeOK, CheckedInv, [Next]_vars PROVE CheckedInv'
    OBVIOUS
  <2> USE DEF TypeOK, CheckedInv, HoldsRange, HoldsNumber, Space, Target, sessionVars
  <2>1. ASSUME NEW t \in Sessions, NEW k \in Keys, NEW s \in Series, Submit(t, k, s) PROVE CheckedInv'
    BY <2>1 DEF Submit, Taken, AuditTaken
  <2>2. ASSUME NEW t \in Sessions, PreCheck(t) PROVE CheckedInv'
    BY <2>2 DEF PreCheck, Goto, End, Taken, AuditTaken
  <2>3. ASSUME NEW t \in Sessions, Replicate(t) PROVE CheckedInv'
    BY <2>3 DEF Replicate, Goto, Taken, AuditTaken
  <2>4. ASSUME NEW t \in Sessions, ReplicateNumbered(t) PROVE CheckedInv'
    <3>1. PICK n \in Given : Insertable(t, n) /\ drawn' = [drawn EXCEPT ![t] = n]
      BY <2>4 DEF ReplicateNumbered
    <3>2. /\ pc[t] = "checked" /\ source' = [source EXCEPT ![t] = "varanegar"]
          /\ pc' = [pc EXCEPT ![t] = "numbered"]
          /\ UNCHANGED <<headers, key, series>>
      BY <2>4 DEF ReplicateNumbered, Goto
    <3>3. \A u \in Sessions \ {t} : HoldsRange(u) => Target(u) # <<Space(t), n>>
      BY <3>1 DEF Insertable, Covers
    <3>4. Target(t)' = <<Space(t), n>>
      BY <3>1, <3>2
    <3>5. /\ ~HoldsRange(t)'
          /\ \A u \in Sessions \ {t} :
                /\ HoldsRange(u)' <=> HoldsRange(u)
                /\ HoldsNumber(u)' <=> HoldsNumber(u)
                /\ Target(u)' = Target(u) /\ (Taken(u)' <=> Taken(u))
      BY <3>1, <3>2 DEF Taken
    <3>6. \A u, w \in Sessions :
             HoldsRange(u)' /\ HoldsNumber(w)' /\ Target(u)' = Target(w)' => u = w
      <4> HIDE DEF HoldsRange, HoldsNumber, Target, Space
      <4> QED
        BY <3>3, <3>4, <3>5
    <3>7. \A u \in Sessions : HoldsRange(u)' => ~Taken(u)'
      BY <3>5
    <3> QED
      BY <3>2, <3>6, <3>7 DEF AuditTaken
  <2>5. ASSUME NEW t \in Sessions, Allocate(t) PROVE CheckedInv'
    BY <2>5 DEF Allocate, Goto, Taken, AuditTaken
  <2>6. ASSUME NEW t \in Sessions, Number(t) PROVE CheckedInv'
    <3>1. /\ pc[t] = "allocated" /\ pc' = [pc EXCEPT ![t] = "numbered"]
          /\ UNCHANGED <<headers, key, series, source, drawn>>
          /\ ~Taken(t)
      BY <2>6 DEF Number, Goto
    <3>2. \A u \in Sessions \ {t} : HoldsNumber(u) => Target(u) # Target(t)
      <4> SUFFICES ASSUME NEW u \in Sessions \ {t}, HoldsNumber(u), Target(u) = Target(t)
                   PROVE  FALSE
        OBVIOUS
      <4>1. HasHeader(u) /\ Covers(t, HeaderRow(u))
        BY DEF HasHeader, HeaderRow, Covers
      <4>2. u \in WaitsFor(t)
        BY <3>1, <4>1 DEF WaitsFor
      <4> QED
        BY <2>6, <4>2 DEF Number
    <3>3. \A u \in Sessions : Target(u)' = Target(u) /\ (Taken(u)' <=> Taken(u))
      BY <3>1 DEF Taken
    <3>4. \A u \in Sessions \ {t} :
             (HoldsRange(u)' <=> HoldsRange(u)) /\ (HoldsNumber(u)' <=> HoldsNumber(u))
      BY <3>1
    <3>5. \A u \in Sessions : HoldsRange(u) => HoldsNumber(u)
      OBVIOUS
    <3>6. \A u, w \in Sessions :
             HoldsRange(u)' /\ HoldsNumber(w)' /\ Target(u)' = Target(w)' => u = w
      <4> HIDE DEF HoldsRange, HoldsNumber, Target, Space
      <4> QED
        BY <3>2, <3>3, <3>4, <3>5
    <3>7. \A u \in Sessions : HoldsRange(u)' => ~Taken(u)'
      BY <3>1, <3>3, <3>4
    <3> QED
      BY <3>1, <3>6, <3>7 DEF AuditTaken
  <2>7. ASSUME NEW t \in Sessions, WriteAudit(t) PROVE CheckedInv'
    BY <2>7 DEF WriteAudit, Goto, Taken, AuditTaken, WaitsFor, KeyLocked
  <2>8. ASSUME NEW t \in Sessions, Commit(t) PROVE CheckedInv'
    <3>1. /\ pc[t] = "audited" /\ pc' = [pc EXCEPT ![t] = "idle"]
          /\ \A u \in Sessions \ {t} : UNCHANGED <<key[u], series[u], source[u], drawn[u]>>
      BY <2>8 DEF Commit, End
    <3> DEFINE new == Header(key[t], series[t], drawn[t], source[t])
    <3>2. headers' = headers \cup {new}
      BY <2>8 DEF Commit
    <3>3. new.key = key[t] /\ new.series = series[t] /\ new.number = drawn[t]
      BY DEF Header
    <3> HIDE DEF new
    <3>4. \A u \in Sessions : HoldsRange(u)' => ~Taken(u)'
      BY <3>1, <3>2, <3>3 DEF Taken
    <3>5. \A u \in Sessions : pc'[u] = "audited" => ~AuditTaken(u)'
      BY <3>1, <3>2, <3>3 DEF AuditTaken
    <3> QED
      BY <3>1, <3>4, <3>5
  <2>9. ASSUME NEW t \in Sessions, Refuse(t) PROVE CheckedInv'
    BY <2>9 DEF Refuse, RollBack, Undone, End, Taken, AuditTaken
  <2>10. ASSUME NEW t \in Sessions, Victim(t) PROVE CheckedInv'
    BY <2>10 DEF Victim, RollBack, Undone, End, Taken, AuditTaken
  <2>11. ASSUME NEW t \in Sessions, Fail(t) PROVE CheckedInv'
    BY <2>11 DEF Fail, RollBack, Undone, End, Taken, AuditTaken
  <2>12. CASE UNCHANGED vars
    BY <2>12 DEF vars, Taken, AuditTaken
  <2> HIDE DEF TypeOK, CheckedInv, HoldsRange, HoldsNumber, Space, Target, sessionVars
  <2> QED
    BY <2>1, <2>2, <2>3, <2>4, <2>5, <2>6, <2>7, <2>8, <2>9, <2>10, <2>11, <2>12
       DEF Next, SessionStep
<1> QED
  BY NumberingTypeCorrect, <1>1, <1>2, PTL DEF Spec

\* A number drawn from a counter is committed only where no committed order of
\* its year and centre has it.
THEOREM DrawnNumberIsNewHolds == Spec => DrawnNumberIsNew
<1> DEFINE IsNew(h) == h.source = "counter" =>
              \A g \in headers : SpaceOf[g.series] = SpaceOf[h.series] => g.number # h.number
<1>1. TypeOK /\ CheckedInv /\ [Next]_vars => [\A h \in headers' \ headers : IsNew(h)]_vars
  <2> SUFFICES ASSUME TypeOK, CheckedInv, Next, NEW h \in headers' \ headers PROVE IsNew(h)
    OBVIOUS
  <2>1. PICK t \in Sessions : Commit(t)
    BY DEF Next, SessionStep, Submit, PreCheck, Replicate, ReplicateNumbered, Allocate, Number,
           WriteAudit, Refuse, Victim, Fail, RollBack
  <2>2. pc[t] = "audited" /\ h = Header(key[t], series[t], drawn[t], source[t])
    BY <2>1 DEF Commit
  <2>3. h.series = series[t] /\ h.number = drawn[t] /\ h.source = source[t]
    BY <2>2 DEF Header
  <2>4. source[t] = "counter" => ~Taken(t)
    BY <2>2 DEF CheckedInv, HoldsRange, HoldsNumber
  <2> QED
    BY <2>3, <2>4 DEF Taken, Space
<1> QED
  BY NumberingTypeCorrect, Checked, <1>1, PTL DEF Spec, DrawnNumberIsNew

\* The wrapper registers an order's key at most once.
THEOREM OneOrderPerKeyHolds == Spec => []OneOrderPerKey
<1>1. Init => OneOrderPerKey
  BY DEF Init, OneOrderPerKey
<1>2. TypeOK /\ CheckedInv /\ OneOrderPerKey /\ [Next]_vars => OneOrderPerKey'
  <2> SUFFICES ASSUME TypeOK, CheckedInv, OneOrderPerKey, [Next]_vars PROVE OneOrderPerKey'
    OBVIOUS
  <2> USE DEF TypeOK, OneOrderPerKey, sessionVars
  <2>1. ASSUME NEW t \in Sessions, NEW k \in Keys, NEW s \in Series, Submit(t, k, s) PROVE OneOrderPerKey'
    BY <2>1 DEF Submit
  <2>2. ASSUME NEW t \in Sessions, PreCheck(t) PROVE OneOrderPerKey'
    BY <2>2 DEF PreCheck, Goto, End
  <2>3. ASSUME NEW t \in Sessions, Replicate(t) PROVE OneOrderPerKey'
    BY <2>3 DEF Replicate, Goto
  <2>4. ASSUME NEW t \in Sessions, ReplicateNumbered(t) PROVE OneOrderPerKey'
    BY <2>4 DEF ReplicateNumbered, Goto
  <2>5. ASSUME NEW t \in Sessions, Allocate(t) PROVE OneOrderPerKey'
    BY <2>5 DEF Allocate, Goto
  <2>6. ASSUME NEW t \in Sessions, Number(t) PROVE OneOrderPerKey'
    BY <2>6 DEF Number, Goto
  <2>7. ASSUME NEW t \in Sessions, WriteAudit(t) PROVE OneOrderPerKey'
    BY <2>7 DEF WriteAudit, Goto
  <2>8. ASSUME NEW t \in Sessions, Commit(t) PROVE OneOrderPerKey'
    <3> DEFINE new == Header(key[t], series[t], drawn[t], source[t])
    <3>1. headers' = headers \cup {new} /\ pc[t] = "audited"
      BY <2>8 DEF Commit
    <3>2. new.key = key[t]
      BY DEF Header
    <3>3. ~AuditTaken(t)
      BY <3>1 DEF CheckedInv
    <3> HIDE DEF new
    <3> QED
      BY <3>1, <3>2, <3>3 DEF AuditTaken
  <2>9. ASSUME NEW t \in Sessions, Refuse(t) PROVE OneOrderPerKey'
    BY <2>9 DEF Refuse, RollBack, Undone, End
  <2>10. ASSUME NEW t \in Sessions, Victim(t) PROVE OneOrderPerKey'
    BY <2>10 DEF Victim, RollBack, Undone, End
  <2>11. ASSUME NEW t \in Sessions, Fail(t) PROVE OneOrderPerKey'
    BY <2>11 DEF Fail, RollBack, Undone, End
  <2>12. CASE UNCHANGED vars
    BY <2>12 DEF vars
  <2> HIDE DEF TypeOK, OneOrderPerKey, sessionVars
  <2> QED
    BY <2>1, <2>2, <2>3, <2>4, <2>5, <2>6, <2>7, <2>8, <2>9, <2>10, <2>11, <2>12
       DEF Next, SessionStep
<1> QED
  BY NumberingTypeCorrect, Checked, <1>1, <1>2, PTL DEF Spec

\* The numbers given out by a counter are those it has passed, without a gap.
THEOREM NumbersGapFreeHolds == Spec => []NumbersGapFree
<1>1. Init => NumbersGapFree
  BY DEF Init, NumbersGapFree
<1>2. TypeOK /\ CounterInv /\ NumbersGapFree /\ [Next]_vars => NumbersGapFree'
  <2> SUFFICES ASSUME TypeOK, CounterInv, NumbersGapFree, [Next]_vars PROVE NumbersGapFree'
    OBVIOUS
  <2> USE DEF TypeOK, NumbersGapFree, sessionVars
  <2>1. ASSUME NEW t \in Sessions, NEW k \in Keys, NEW s \in Series, Submit(t, k, s) PROVE NumbersGapFree'
    BY <2>1 DEF Submit
  <2>2. ASSUME NEW t \in Sessions, PreCheck(t) PROVE NumbersGapFree'
    BY <2>2 DEF PreCheck, Goto, End
  <2>3. ASSUME NEW t \in Sessions, Replicate(t) PROVE NumbersGapFree'
    BY <2>3 DEF Replicate, Goto
  <2>4. ASSUME NEW t \in Sessions, ReplicateNumbered(t) PROVE NumbersGapFree'
    BY <2>4 DEF ReplicateNumbered, Goto
  <2>5. ASSUME NEW t \in Sessions, Allocate(t) PROVE NumbersGapFree'
    BY <2>5 DEF Allocate, Goto
  <2>6. ASSUME NEW t \in Sessions, Number(t) PROVE NumbersGapFree'
    BY <2>6 DEF Number, Goto
  <2>7. ASSUME NEW t \in Sessions, WriteAudit(t) PROVE NumbersGapFree'
    BY <2>7 DEF WriteAudit, Goto
  <2>8. ASSUME NEW t \in Sessions, Commit(t) PROVE NumbersGapFree'
    <3> DEFINE new == Header(key[t], series[t], drawn[t], source[t])
               Used(s) == {h.number : h \in {g \in headers : g.series = s /\ g.source = "counter"}}
    <3>1. /\ headers' = headers \cup {new}
          /\ series[t] \in Series
          /\ source[t] = "counter" => drawn[t] = counter[series[t]] + 1
          /\ counter' = IF source[t] = "counter" THEN [counter EXCEPT ![series[t]] = drawn[t]]
                        ELSE counter
      BY <2>8 DEF Commit, CounterInv, Locked
    <3>2. new.series = series[t] /\ new.number = drawn[t] /\ new.source = source[t]
      BY DEF Header
    <3>3. SUFFICES ASSUME NEW s \in Series PROVE Used(s)' = (Start[s] + 1)..counter'[s]
      OBVIOUS
    <3>4. Used(s) = (Start[s] + 1)..counter[s]
      OBVIOUS
    <3>5. Start[s] \in Nat /\ counter[s] \in Nat /\ Start[s] <= counter[s]
      BY DEF CounterInv
    <3> HIDE DEF new
    <3>6. CASE s # series[t] \/ source[t] # "counter"
      <4>1. Used(s)' = Used(s)
        BY <3>1, <3>2, <3>6
      <4> QED
        BY <4>1, <3>1, <3>4, <3>6
    <3>7. CASE s = series[t] /\ source[t] = "counter"
      <4>1. Used(s)' = Used(s) \cup {counter[s] + 1}
        BY <3>1, <3>2, <3>7
      <4>2. counter'[s] = counter[s] + 1
        BY <3>1, <3>7
      <4>3. (Start[s] + 1)..(counter[s] + 1) = (Start[s] + 1)..counter[s] \cup {counter[s] + 1}
        BY <3>5
      <4> HIDE DEF Used
      <4> QED
        BY <4>1, <4>2, <4>3, <3>4
    <3> QED
      BY <3>6, <3>7
  <2>9. ASSUME NEW t \in Sessions, Refuse(t) PROVE NumbersGapFree'
    BY <2>9 DEF Refuse, RollBack, Undone, End
  <2>10. ASSUME NEW t \in Sessions, Victim(t) PROVE NumbersGapFree'
    BY <2>10 DEF Victim, RollBack, Undone, End
  <2>11. ASSUME NEW t \in Sessions, Fail(t) PROVE NumbersGapFree'
    BY <2>11 DEF Fail, RollBack, Undone, End
  <2>12. CASE UNCHANGED vars
    BY <2>12 DEF vars
  <2> HIDE DEF TypeOK, NumbersGapFree, sessionVars
  <2> QED
    BY <2>1, <2>2, <2>3, <2>4, <2>5, <2>6, <2>7, <2>8, <2>9, <2>10, <2>11, <2>12
       DEF Next, SessionStep
<1> QED
  BY NumberingTypeCorrect, CounterRows, <1>1, <1>2, PTL DEF Spec

(***************************************************************************)
(* A session that waits is waited for, in turn, by sessions that are not   *)
(* as far as it is, unless a scan has met a temporary number.              *)
(***************************************************************************)

Stage(t) ==
    CASE pc[t] = "created" -> 1
      [] pc[t] = "allocated" -> 2
      [] pc[t] = "numbered" -> 3
      [] pc[t] = "audited" -> 4
      [] OTHER -> 0

\* Who is waited for is a step further than who waits.
LEMMA WaitsForwards ==
    ASSUME TypeOK, CounterInv, \A locked \in plan : locked[2][2] # Temporary,
           NEW t \in Sessions, NEW u \in WaitsFor(t)
    PROVE  u \in Sessions /\ Stage(t) < Stage(u)
<1>1. CASE pc[t] = "created"
  BY <1>1 DEF WaitsFor, Stage, Locked
<1>2. CASE pc[t] = "allocated"
  <2>1. drawn[t] # Temporary
    BY <1>2 DEF TypeOK, CounterInv, Locked, Temporary
  <2>2. ASSUME NEW d, NEW row, row = <<d, Temporary>> PROVE ~Covers(t, row)
    <3>1. row[2] = Temporary
      BY <2>2
    <3>2. Target(t)[2] # Temporary
      BY <2>1 DEF Target
    <3> DEFINE pair == <<Target(t), row>>
    <3>3. pair \notin plan
      BY <3>1
    <3> QED
      BY <3>1, <3>2, <3>3 DEF Covers
  <2>3. HoldsNumber(u)
    <3>1. CASE HasHeader(u) /\ Covers(t, HeaderRow(u))
      BY <3>1, <2>2 DEF HeaderRow
    <3>2. CASE HoldsRange(u)
      BY <3>2 DEF HoldsRange
    <3> QED
      BY <1>2, <3>1, <3>2 DEF WaitsFor
  <2> QED
    BY <1>2, <2>3 DEF WaitsFor, Stage, HoldsNumber
<1>3. CASE pc[t] = "numbered"
  BY <1>3 DEF WaitsFor, Stage, KeyLocked
<1> QED
  BY <1>1, <1>2, <1>3 DEF WaitsFor

\* Sessions that wait for each other in a cycle would be ever further: the one
\* that is furthest waits for nobody.
THEOREM LocksAreOrderedHolds == Spec => []LocksAreOrdered
<1>1. TypeOK /\ CounterInv => LocksAreOrdered
  <2> SUFFICES ASSUME TypeOK, CounterInv, \A locked \in plan : locked[2][2] # Temporary,
                      NEW D \in SUBSET Sessions, NEW t \in D,
                      NEW f \in [D -> D], \A u \in D : f[u] \in WaitsFor(u)
               PROVE  FALSE
    BY DEF LocksAreOrdered, Deadlocked, Injection, IsInjective
  <2>1. \A u \in D : f[u] \in D /\ Stage(u) < Stage(f[u])
    BY WaitsForwards
  <2>2. \A u \in D : Stage(u) \in 0..4
    BY DEF Stage
  <2> HIDE DEF Stage
  <2>3. \A u \in D : Stage(u) # 4
    BY <2>1, <2>2
  <2>4. \A u \in D : Stage(u) # 3
    BY <2>1, <2>2, <2>3
  <2>5. \A u \in D : Stage(u) # 2
    BY <2>1, <2>2, <2>3, <2>4
  <2>6. \A u \in D : Stage(u) # 1
    BY <2>1, <2>2, <2>3, <2>4, <2>5
  <2> QED
    BY <2>1, <2>2, <2>3, <2>4, <2>5, <2>6
<1> QED
  BY NumberingTypeCorrect, CounterRows, <1>1, PTL
=============================================================================
