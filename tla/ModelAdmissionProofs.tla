------------------------ MODULE ModelAdmissionProofs ------------------------
(***************************************************************************)
(* The limits of model admission for any numbers of requests, users,       *)
(* replicas and places, the budgets of a day, and the refinement of the    *)
(* expiring semaphore.                                                     *)
(* The argument follows the scripts: each is one step on the two indexes,  *)
(* so what it counts is what it adds to; everything else only takes tokens *)
(* away, or renews a token that is in both.                                *)
(***************************************************************************)
EXTENDS ModelAdmission, FiniteSetTheorems, WellFoundedInduction, TLAPS

\* The sets that are counted are finite.
LEMMA Counted ==
    ASSUME NEW S \in SUBSET Requests
    PROVE  IsFiniteSet(S) /\ Cardinality(S) \in Nat
BY RequestAssumption, FS_Subset, FS_CardinalityType

LEMMA CountedLess ==
    ASSUME NEW S \in SUBSET Requests, NEW T \in SUBSET S
    PROVE  Cardinality(T) <= Cardinality(S)
BY Counted, FS_Subset

\* A place taken below a limit is within the limit.
LEMMA OneMore ==
    ASSUME NEW S \in SUBSET Requests, NEW r \in Requests, NEW n \in Nat,
           ~(Cardinality(S) >= n)
    PROVE  Cardinality(S \cup {r}) <= n
<1>1. Cardinality(S) \in Nat /\ IsFiniteSet(S)
  BY Counted
<1>2. Cardinality(S \cup {r}) = Cardinality(S) \/ Cardinality(S \cup {r}) = Cardinality(S) + 1
  BY <1>1, FS_AddElement
<1> QED
  BY <1>1, <1>2

LEMMA Policy ==
    /\ GlobalLimit \in Nat /\ UserLimit \in Nat /\ RpmLimit \in Nat
    /\ Ttl \in Nat /\ Ttl > 0 /\ Window \in Nat /\ Window > 0
    /\ GlobalLimit > 0
BY PolicyAssumption

-----------------------------------------------------------------------------
(* Types *)

LEMMA ChargeTypes ==
    ASSUME TypeOK, NEW r \in Requests, Charge(r)
    PROVE  spent' \in [Users \cup {Everyone} -> [day : {"today", "past"}, used : Nat]]
<1>1. Units[r] \in Nat
  BY RequestAssumption
<1>2. \A k \in Users \cup {Everyone} : UsedToday(k) \in Nat
  BY DEF UsedToday, TypeOK
<1>3. \A k \in Users \cup {Everyone} : UsedToday(k) + Units[r] \in Nat
  BY <1>1, <1>2
<1> HIDE DEF UsedToday
<1> QED
  BY <1>3 DEF Charge, TypeOK

LEMMA AdmissionTypes ==
    ASSUME TypeOK, NEW r \in Requests, Admission(r)
    PROVE  /\ global' \subseteq Requests /\ own' \subseteq Requests
           /\ left' \in [Requests -> 0..Ttl]
           /\ rpm' \subseteq Requests /\ age' \in [Requests -> 0..Window]
           /\ spent' \in [Users \cup {Everyone} -> [day : {"today", "past"}, used : Nat]]
           /\ today' \subseteq Requests
<1>1. spent' \in [Users \cup {Everyone} -> [day : {"today", "past"}, used : Nat]]
  BY ChargeTypes DEF Admission
<1>2. /\ left' \in [Requests -> 0..Ttl] /\ age' \in [Requests -> 0..Window]
  BY Policy DEF Admission, TypeOK
<1>3. /\ global' \subseteq Requests /\ own' \subseteq Requests
      /\ rpm' \subseteq Requests /\ today' \subseteq Requests
  BY DEF Admission, TypeOK, PurgedGlobal, PurgedOwn, PurgedRpm, Live, Of
<1> QED
  BY <1>1, <1>2, <1>3

LEMMA RejectionTypes ==
    ASSUME TypeOK, NEW r \in Requests, Rejection(r)
    PROVE  /\ global' \subseteq Requests /\ own' \subseteq Requests
           /\ rpm' \subseteq Requests
           /\ UNCHANGED <<left, age, spent, today>>
BY DEF Rejection, TypeOK, PurgedGlobal, PurgedOwn, PurgedRpm, Live, Of

\* Every variable holds the values Redis, the requests and the replicas may hold.
THEOREM AdmissionTypeCorrect == Spec => []TypeOK
<1>1. Init => TypeOK
  BY Policy DEF Init, TypeOK
<1>2. TypeOK /\ [Next]_vars => TypeOK'
  <2> SUFFICES ASSUME TypeOK, [Next]_vars PROVE TypeOK'
    OBVIOUS
  <2>a. At \in [Requests -> Replicas]
    BY RequestAssumption
  <2>1. ASSUME NEW r \in Requests, Admit(r) PROVE TypeOK'
    BY <2>1, AdmissionTypes DEF Admit, TypeOK
  <2>2. ASSUME NEW r \in Requests, Refuse(r) PROVE TypeOK'
    BY <2>2, RejectionTypes DEF Refuse, TypeOK
  <2>3. ASSUME NEW r \in Requests, Unavailable(r) PROVE TypeOK'
    <3>1. pc' = [pc EXCEPT ![r] = "denied"] /\ UNCHANGED <<loop, failed>>
      BY <2>3 DEF Unavailable
    <3>2. CASE Admission(r)
      BY <3>1, <3>2, AdmissionTypes DEF TypeOK
    <3>3. CASE Rejection(r)
      BY <3>1, <3>3, RejectionTypes DEF TypeOK
    <3>4. CASE UNCHANGED redisVars
      BY <3>1, <3>4 DEF TypeOK, redisVars
    <3> QED
      BY <2>3, <3>2, <3>3, <3>4 DEF Unavailable
  <2>4. ASSUME NEW r \in Requests, Finish(r) PROVE TypeOK'
    <3>1. /\ pc' = [pc EXCEPT ![r] = "ended"]
          /\ loop' = [loop EXCEPT ![r] = Cancelled(@)]
          /\ Removed(r) \/ UNCHANGED redisVars
          /\ failed' = failed \/ Latch(r)
      BY <2>4 DEF Finish
    <3>2. failed' \in [Replicas -> BOOLEAN]
      BY <2>a, <3>1 DEF Latch, TypeOK
    <3>3. loop' \in [Requests -> {"off", "asleep", "calling", "late"}]
      BY <3>1 DEF Cancelled, TypeOK
    <3>4. pc' \in [Requests -> {"new", "denied", "running", "ended"}]
      BY <3>1 DEF TypeOK
    <3>5. CASE Removed(r)
      BY <3>2, <3>3, <3>4, <3>5, Policy DEF Removed, TypeOK
    <3>6. CASE UNCHANGED redisVars
      BY <3>2, <3>3, <3>4, <3>6 DEF redisVars, TypeOK
    <3> QED
      BY <3>1, <3>5, <3>6
  <2>5. ASSUME NEW r \in Requests, StartRenewal(r) PROVE TypeOK'
    BY <2>5 DEF StartRenewal, TypeOK, redisVars
  <2>6. ASSUME NEW r \in Requests, Renew(r) PROVE TypeOK'
    <3>1. left' \in [Requests -> 0..Ttl]
      BY <2>6, Policy DEF Renew, Renewed, TypeOK
    <3> QED
      BY <2>6, <3>1 DEF Renew, Renewed, TypeOK
  <2>7. ASSUME NEW r \in Requests, Lost(r) PROVE TypeOK'
    <3>1. failed' \in [Replicas -> BOOLEAN]
      BY <2>7, <2>a DEF Lost, Latch, TypeOK
    <3>2. loop' \in [Requests -> {"off", "asleep", "calling", "late"}] /\ pc' = pc
      BY <2>7 DEF Lost, TypeOK
    <3>3. CASE Renewed(r)
      <4>1. left' \in [Requests -> 0..Ttl]
        BY <3>3, Policy DEF Renewed, TypeOK
      <4> QED
        BY <3>1, <3>2, <3>3, <4>1 DEF Renewed, TypeOK
    <3>4. CASE UNCHANGED redisVars
      BY <3>1, <3>2, <3>4 DEF redisVars, TypeOK
    <3> QED
      BY <2>7, <3>3, <3>4 DEF Lost
  <2>8. ASSUME NEW p \in Replicas, Crash(p) PROVE TypeOK'
    BY <2>8 DEF Crash, TypeOK, redisVars
  <2>9. ASSUME NEW u \in Users, OwnIndexExpires(u) PROVE TypeOK'
    BY <2>9 DEF OwnIndexExpires, TypeOK
  <2>10. CASE Tick
    <3>1. left' \in [Requests -> 0..Ttl]
      BY <2>10, Policy DEF Tick, Elapsed, TypeOK
    <3>2. age' \in [Requests -> 0..Window]
      BY <2>10, Policy DEF Tick, TypeOK
    <3> QED
      BY <2>10, <3>1, <3>2 DEF Tick, TypeOK
  <2>11. CASE GlobalIndexExpires
    BY <2>11 DEF GlobalIndexExpires, TypeOK
  <2>12. CASE NewDay
    BY <2>12 DEF NewDay, TypeOK
  <2>13. CASE UNCHANGED vars
    BY <2>13 DEF vars, redisVars, TypeOK
  <2> QED
    BY <2>1, <2>2, <2>3, <2>4, <2>5, <2>6, <2>7, <2>8, <2>9, <2>10, <2>11, <2>12, <2>13 DEF Next
<1> QED
  BY <1>1, <1>2, PTL DEF Spec
-----------------------------------------------------------------------------
(* What each script does to the places *)

\* A lease that is purged, released or dropped leaves the others as they are.
LEMMA FewerKept ==
    ASSUME TypeOK, IInv,
           global' \subseteq global, own' \subseteq own,
           \A r \in Requests : pc'[r] = "new" => pc[r] = "new",
           Live(global)' = Live(own)',
           \A r \in Requests : age'[r] < Window => age[r] < Window /\ r \in rpm'
    PROVE  IInv'
<1>1. Cardinality(global') <= GlobalLimit
  <2>1. Cardinality(global') <= Cardinality(global) /\ global' \in SUBSET Requests
    BY CountedLess DEF TypeOK
  <2>2. Cardinality(global) \in Nat /\ Cardinality(global') \in Nat
    BY <2>1, Counted DEF TypeOK
  <2> QED
    BY <2>1, <2>2, Policy DEF IInv, PlacesBounded
<1>2. ASSUME NEW u \in Users
      PROVE  Cardinality(own' \cap Of(u)) <= UserLimit
  <2> DEFINE S == own \cap Of(u)
             T == own' \cap Of(u)
  <2>1. S \in SUBSET Requests /\ T \in SUBSET S /\ T \in SUBSET Requests
    BY DEF TypeOK
  <2>2. Cardinality(S) <= UserLimit
    BY DEF IInv, PlacesBounded
  <2> HIDE DEF S, T
  <2>3. Cardinality(T) <= UserLimit
    BY <2>1, <2>2, Counted, CountedLess, Policy
  <2> QED
    BY <2>3 DEF T
<1>3. ASSUME NEW u \in Users
      PROVE  Cardinality({r \in Of(u) : age'[r] < Window}) <= RpmLimit
  <2> DEFINE S == {r \in Of(u) : age[r] < Window}
             T == {r \in Of(u) : age'[r] < Window}
  <2>1. S \in SUBSET Requests /\ T \in SUBSET S /\ T \in SUBSET Requests
    BY DEF Of
  <2>2. Cardinality(S) <= RpmLimit
    BY DEF IInv, RateKept
  <2> HIDE DEF S, T
  <2>3. Cardinality(T) <= RpmLimit
    BY <2>1, <2>2, Counted, CountedLess, Policy
  <2> QED
    BY <2>3 DEF T
<1>4. \A r \in global' : pc'[r] # "new"
  BY DEF IInv, TypeOK
<1> QED
  BY <1>1, <1>2, <1>3, <1>4 DEF IInv, PlacesBounded, RateKept, Of

\* ACQUIRE_LUA counts and adds in one step.
LEMMA AdmissionKept ==
    ASSUME TypeOK, IInv, NEW r \in Requests, Admission(r),
           pc'[r] # "new",
           \A q \in Requests : pc'[q] = "new" => pc[q] = "new"
    PROVE  IInv'
<1> DEFINE u == Owner[r]
<1>0. u \in Users /\ r \in Of(u) /\ \A v \in Users : v # u => r \notin Of(v)
  BY RequestAssumption DEF Of
<1>1. Cardinality(global') <= GlobalLimit
  <2>1. PurgedGlobal \in SUBSET Requests /\ ~(Cardinality(PurgedGlobal) >= GlobalLimit)
    BY DEF Admission, GlobalFull, PurgedGlobal, Live, TypeOK
  <2>2. global' = PurgedGlobal \cup {r}
    BY DEF Admission
  <2> QED
    BY <2>1, <2>2, OneMore, Policy
<1>2. ASSUME NEW v \in Users
      PROVE  Cardinality(own' \cap Of(v)) <= UserLimit
  <2>1. CASE v = u
    <3> DEFINE S == PurgedOwn(u) \cap Of(u)
    <3>1. S \in SUBSET Requests /\ ~(Cardinality(S) >= UserLimit)
      BY DEF Admission, UserFull, Of
    <3>2. own' \cap Of(v) = S \cup {r}
      BY <1>0, <2>1 DEF Admission
    <3> HIDE DEF S
    <3> QED
      BY <3>1, <3>2, OneMore, Policy
  <2>2. CASE v # u
    <3>1. own' \cap Of(v) = own \cap Of(v)
      BY <1>0, <2>2 DEF Admission, PurgedOwn, Of, Live
    <3> QED
      BY <3>1 DEF IInv, PlacesBounded
  <2> QED
    BY <2>1, <2>2
<1>3. Live(global)' = Live(own)'
  <2>1. left'[r] = Ttl /\ \A q \in Requests : q # r => left'[q] = left[q]
    BY DEF Admission, TypeOK
  <2>2. Live(global)' = Live(global) \cup {r}
    BY <2>1, Policy DEF Admission, PurgedGlobal, Live, TypeOK
  <2>3. Live(own)' = Live(own) \cup {r}
    BY <2>1, Policy DEF Admission, PurgedOwn, Live, TypeOK
  <2> QED
    BY <2>2, <2>3 DEF IInv, PlacesBounded
<1>a. age'[r] = 0 /\ \A q \in Requests : q # r => age'[q] = age[q]
  BY DEF Admission, TypeOK
<1>4. ASSUME NEW v \in Users
      PROVE  Cardinality({q \in Of(v) : age'[q] < Window}) <= RpmLimit
  <2>1. CASE v = u
    <3> DEFINE S == PurgedRpm(u) \cap Of(u)
    <3>1. S \in SUBSET Requests /\ ~(Cardinality(S) >= RpmLimit)
      BY DEF Admission, RateFull, Of
    <3>2. S = {q \in Of(u) : age[q] < Window}
      BY DEF PurgedRpm, IInv, Of
    <3>3. {q \in Of(v) : age'[q] < Window} = S \cup {r}
      BY <1>0, <1>a, <2>1, <3>2, Policy DEF Of
    <3> HIDE DEF S
    <3> QED
      BY <3>1, <3>3, OneMore, Policy
  <2>2. CASE v # u
    <3>1. {q \in Of(v) : age'[q] < Window} = {q \in Of(v) : age[q] < Window}
      BY <1>0, <1>a, <2>2 DEF Of
    <3> QED
      BY <3>1 DEF IInv, RateKept
  <2> QED
    BY <2>1, <2>2
<1>5. \A q \in global' : pc'[q] # "new"
  BY DEF IInv, Admission, PurgedGlobal, Live, TypeOK
<1>6. \A q \in Requests : age'[q] < Window => q \in rpm'
  BY <1>a DEF IInv, Admission, PurgedRpm
<1> QED
  BY <1>1, <1>2, <1>3, <1>4, <1>5, <1>6 DEF IInv, PlacesBounded, RateKept, Of

\* A refused request leaves at most a purge.
LEMMA RejectionKept ==
    ASSUME TypeOK, IInv, NEW r \in Requests, Rejection(r),
           \A q \in Requests : pc'[q] = "new" => pc[q] = "new"
    PROVE  IInv'
<1>1. global' = PurgedGlobal /\ own' = PurgedOwn(Owner[r]) /\ left' = left /\ age' = age
  BY DEF Rejection
<1>2. rpm' = rpm \/ rpm' = PurgedRpm(Owner[r])
  BY DEF Rejection
<1>3. global' \subseteq global /\ own' \subseteq own
  BY <1>1 DEF PurgedGlobal, PurgedOwn, Live
<1>4. Live(global)' = Live(global) /\ Live(own)' = Live(own)
  BY <1>1 DEF PurgedGlobal, PurgedOwn, Live
<1>5. \A q \in Requests : age'[q] < Window => age[q] < Window /\ q \in rpm'
  BY <1>1, <1>2 DEF IInv, PurgedRpm
<1> QED
  BY <1>3, <1>4, <1>5, FewerKept DEF IInv, PlacesBounded

\* RELEASE_LUA takes the token out of both indexes.
LEMMA RemovedKept ==
    ASSUME TypeOK, IInv, NEW r \in Requests, Removed(r),
           \A q \in Requests : pc'[q] = "new" => pc[q] = "new"
    PROVE  IInv'
<1>1. global' \subseteq global /\ own' \subseteq own /\ rpm' = rpm /\ age' = age
  BY DEF Removed
<1>2. \A q \in Requests : q # r => left'[q] = left[q]
  BY DEF Removed, TypeOK
<1>3. Live(global)' = Live(global) \ {r} /\ Live(own)' = Live(own) \ {r}
  BY <1>2 DEF Removed, Live, TypeOK
<1> QED
  BY <1>1, <1>3, FewerKept DEF IInv, PlacesBounded

\* RENEW_LUA prolongs a lease that is in both indexes, so both count it.
LEMMA RenewedKept ==
    ASSUME TypeOK, IInv, NEW r \in Requests, Renewed(r),
           \A q \in Requests : pc'[q] = "new" => pc[q] = "new"
    PROVE  IInv'
<1>1. global' = global /\ own' = own /\ rpm' = rpm /\ age' = age
      /\ r \in global /\ r \in own
  BY DEF Renewed, Present
<1>2. left'[r] = Ttl /\ \A q \in Requests : q # r => left'[q] = left[q]
  BY DEF Renewed, TypeOK
<1>3. Live(global)' = Live(global) \cup {r} /\ Live(own)' = Live(own) \cup {r}
  BY <1>1, <1>2, Policy DEF Live, TypeOK
<1> QED
  BY <1>1, <1>3, FewerKept DEF IInv, PlacesBounded

LEMMA RedisIdle ==
    ASSUME TypeOK, IInv, UNCHANGED redisVars,
           \A q \in Requests : pc'[q] = "new" => pc[q] = "new"
    PROVE  IInv'
<1>1. UNCHANGED <<global, own, left, rpm, age>>
  BY DEF redisVars
<1>2. Live(global)' = Live(global) /\ Live(own)' = Live(own)
  BY <1>1 DEF Live
<1> QED
  BY <1>1, <1>2, FewerKept DEF IInv, PlacesBounded

-----------------------------------------------------------------------------

\* The invariant holds, whichever thread renews late and whatever a crash or a
\* lost answer leaves behind.
THEOREM AdmissionInvariant == Spec => []IInv
<1>1. Init => IInv
  <2> SUFFICES ASSUME Init PROVE IInv
    OBVIOUS
  <2>1. Cardinality({}) = 0
    BY FS_EmptySet
  <2>2. \A u \in Users : own \cap Of(u) = {} /\ {r \in Of(u) : age[r] < Window} = {}
    BY Policy DEF Init, Of
  <2>3. global = {} /\ own = {} /\ \A r \in Requests : age[r] = Window
    BY DEF Init
  <2> QED
    BY <2>1, <2>2, <2>3, Policy DEF IInv, PlacesBounded, RateKept, Live
<1>2. TypeOK /\ IInv /\ [Next]_vars => IInv'
  <2> SUFFICES ASSUME TypeOK, IInv, [Next]_vars PROVE IInv'
    OBVIOUS
  <2> DEFINE Aged == \A q \in Requests : pc'[q] = "new" => pc[q] = "new"
  <2>1. ASSUME NEW r \in Requests, Admit(r) PROVE IInv'
    <3>1. Aged /\ pc'[r] # "new" /\ Admission(r)
      BY <2>1 DEF Admit, TypeOK
    <3> QED
      BY <3>1, AdmissionKept
  <2>2. ASSUME NEW r \in Requests, Refuse(r) PROVE IInv'
    <3>1. Aged /\ Rejection(r)
      BY <2>2 DEF Refuse, TypeOK
    <3> QED
      BY <3>1, RejectionKept
  <2>3. ASSUME NEW r \in Requests, Unavailable(r) PROVE IInv'
    <3>1. Aged /\ pc'[r] # "new"
      BY <2>3 DEF Unavailable, TypeOK
    <3>2. Admission(r) \/ Rejection(r) \/ UNCHANGED redisVars
      BY <2>3 DEF Unavailable
    <3> QED
      BY <3>1, <3>2, AdmissionKept, RejectionKept, RedisIdle
  <2>4. ASSUME NEW r \in Requests, Finish(r) PROVE IInv'
    <3>1. Aged /\ (Removed(r) \/ UNCHANGED redisVars)
      BY <2>4 DEF Finish, TypeOK
    <3> QED
      BY <3>1, RemovedKept, RedisIdle
  <2>5. ASSUME NEW r \in Requests, StartRenewal(r) PROVE IInv'
    BY <2>5, RedisIdle DEF StartRenewal
  <2>6. ASSUME NEW r \in Requests, Renew(r) PROVE IInv'
    BY <2>6, RenewedKept DEF Renew
  <2>7. ASSUME NEW r \in Requests, Lost(r) PROVE IInv'
    BY <2>7, RenewedKept, RedisIdle DEF Lost
  <2>8. ASSUME NEW p \in Replicas, Crash(p) PROVE IInv'
    <3>1. Aged /\ UNCHANGED redisVars
      BY <2>8 DEF Crash
    <3> QED
      BY <3>1, RedisIdle
  <2>9. ASSUME NEW u \in Users, OwnIndexExpires(u) PROVE IInv'
    <3>1. global' = global /\ own' = own \ Of(u) /\ UNCHANGED <<left, rpm, age, pc>>
          /\ Live(own \cap Of(u)) = {}
      BY <2>9 DEF OwnIndexExpires
    <3>2. Live(global)' = Live(global) /\ Live(own)' = Live(own)
      BY <3>1 DEF Live
    <3> QED
      BY <3>1, <3>2, FewerKept DEF IInv, PlacesBounded
  <2>10. CASE Tick
    <3>1. /\ UNCHANGED <<global, own, rpm, pc>>
          /\ \A r \in Requests : left'[r] = Elapsed(left[r])
          /\ \A r \in Requests : age'[r] = IF age[r] < Window THEN age[r] + 1 ELSE Window
      BY <2>10 DEF Tick
    <3>2. \A r \in Requests : left'[r] > 0 => left[r] > 0
      BY <3>1 DEF Elapsed, TypeOK
    <3>3. Live(global)' = Live(own)'
      <4>1. \A r \in Requests : left'[r] > 0 => (r \in global <=> r \in own)
        BY <3>2 DEF IInv, PlacesBounded, Live
      <4> QED
        BY <3>1, <4>1 DEF Live, TypeOK
    <3>4. \A r \in Requests : age'[r] < Window => age[r] < Window
      BY <3>1, Policy DEF TypeOK
    <3> QED
      BY <3>1, <3>3, <3>4, FewerKept DEF IInv
  <2>11. CASE GlobalIndexExpires
    <3>1. global' = {} /\ UNCHANGED <<own, left, rpm, age, pc>> /\ Live(global) = {}
      BY <2>11 DEF GlobalIndexExpires
    <3>2. Live(global)' = Live(global) /\ Live(own)' = Live(own)
      BY <3>1 DEF Live
    <3> QED
      BY <3>1, <3>2, FewerKept DEF IInv, PlacesBounded
  <2>12. CASE NewDay
    <3>1. UNCHANGED <<global, own, left, rpm, age, pc>>
      BY <2>12 DEF NewDay
    <3>2. Live(global)' = Live(global) /\ Live(own)' = Live(own)
      BY <3>1 DEF Live
    <3> QED
      BY <3>1, <3>2, FewerKept DEF IInv, PlacesBounded
  <2>13. CASE UNCHANGED vars
    BY <2>13, RedisIdle DEF vars
  <2> QED
    BY <2>1, <2>2, <2>3, <2>4, <2>5, <2>6, <2>7, <2>8, <2>9, <2>10, <2>11, <2>12, <2>13 DEF Next
<1> QED
  BY <1>1, <1>2, AdmissionTypeCorrect, PTL DEF Spec

\* No more leases than places, for the service and for each user; and the two
\* indexes agree on every lease that is alive.
THEOREM PlacesBoundedHolds == Spec => []PlacesBounded
<1>1. IInv => PlacesBounded
  BY DEF IInv
<1> QED
  BY <1>1, AdmissionInvariant, PTL

\* No user is admitted more often within a window than the policy allows: the
\* part of QuotasKept that is about the rate.
THEOREM RateKeptHolds == Spec => []RateKept
<1>1. IInv => RateKept
  BY DEF IInv
<1> QED
  BY <1>1, AdmissionInvariant, PTL
-----------------------------------------------------------------------------
(* What a set of requests asks for: the sum of their units.  The argument is  *)
(* an induction over sets, carried out with sets of sets.                     *)

\* Induction over the sets of requests: a set that contains whatever all smaller
\* sets are in contains every set.  The least counterexample exists because
\* strict inclusion of finite sets is well-founded.
LEMMA SubsetInduction ==
    ASSUME NEW T \in SUBSET SUBSET Requests,
           \A S \in SUBSET Requests : (\A R \in SUBSET S : R # S => R \in T) => S \in T
    PROVE  T = SUBSET Requests
<1> DEFINE Less == StrictSubsetOrdering(Requests)
           Rest == (SUBSET Requests) \ T
<1> SUFFICES ASSUME Rest # {} PROVE FALSE
  OBVIOUS
<1>1. IsWellFoundedOn(Less, SUBSET Requests)
  <2>1. IsWellFoundedOn(Less, FiniteSubsetsOf(Requests))
    BY FS_StrictSubsetOrderingWellFounded
  <2> QED
    BY <2>1, RequestAssumption, FS_FiniteSubsetsOfFinite
<1>2. Rest \subseteq SUBSET Requests
  OBVIOUS
<1>3. \E S \in Rest : \A R \in Rest : ~(<<R, S>> \in Less)
  <2> HIDE DEF Less, Rest
  <2> QED
    BY <1>1, <1>2, WFMin
<1>4. PICK S \in Rest : \A R \in Rest : ~(<<R, S>> \in Less)
  BY <1>3
<1>5. ASSUME NEW R \in SUBSET S, R # S PROVE R \in T
  <2>1. R \in SUBSET Requests
    OBVIOUS
  <2>2. <<R, S>> \in Less
    BY <2>1, <1>5 DEF StrictSubsetOrdering
  <2> QED
    BY <2>1, <2>2, <1>4
<1> QED
  BY <1>4, <1>5

\* Every non-empty set of naturals has a least element, and so they can be
\* exhausted step by step.
LEMMA Least == ASSUME NEW T \in SUBSET Nat, T # {}
    PROVE \E m \in T : \A k \in T : m <= k
<1> DEFINE R == {ss \in Nat \X Nat : ss[1] < ss[2]}
<1>1. IsWellFoundedOn(R, Nat)
  BY NatLessThanWellFounded DEF OpToRel
<1>2. PICK m \in T : \A k \in T : ~(<<k, m>> \in R)
  BY <1>1, WFMin
<1>3. ASSUME NEW k \in T PROVE m <= k
  <2>1. k < m => <<k, m>> \in R
    OBVIOUS
  <2> QED
    BY <1>2, <2>1
<1> QED BY <1>3

LEMMA Ind == ASSUME NEW T \in SUBSET Nat, 0 \in T, \A n \in T : n + 1 \in T
   PROVE T = Nat
<1> SUFFICES ASSUME Nat \ T # {} PROVE FALSE
  OBVIOUS
<1>1. PICK m \in Nat \ T : \A k \in Nat \ T : m <= k
  BY Least
<1>2. m # 0 /\ m - 1 \in Nat
  BY <1>1
<1>3. m - 1 \in T
  BY <1>1, <1>2
<1>4. (m - 1) + 1 \in T
  BY <1>3
<1> QED BY <1>4, <1>1, <1>2

\* The recursion that MapThenSumSet stands for, as an equation of a function.
Adds(f, U) ==
    \A S \in SUBSET U :
        f[S] = IF S = {} THEN 0
               ELSE LET r == CHOOSE x \in S : TRUE IN Units[r] + f[S \ {r}]

\* What is chosen from a non-empty set is one of its elements.
LEMMA Picked ==
    ASSUME NEW S, S # {}
    PROVE  (CHOOSE x \in S : TRUE) \in S
OBVIOUS

LEMMA EmptyIfNone ==
    ASSUME NEW S \in SUBSET Requests
    PROVE  Cardinality(S) = 0 <=> S = {}
BY Counted, FS_EmptySet

LEMMA Remains ==
    ASSUME NEW S \in SUBSET Requests, NEW r \in S
    PROVE  Cardinality(S \ {r}) = Cardinality(S) - 1
BY Counted, FS_RemoveElement

\* There is such a function: it is built up along the size of its arguments.
LEMMA AddsExists ==
    ASSUME NEW U \in SUBSET Requests
    PROVE  \E f \in [SUBSET U -> Nat] : Adds(f, U)
<1> DEFINE c(S) == CHOOSE x \in S : TRUE
           Step(f, S) == IF S = {} THEN 0 ELSE Units[c(S)] + f[S \ {c(S)}]
           Good(f, n) == \A S \in SUBSET U : Cardinality(S) <= n => f[S] = Step(f, S)
           T == {n \in Nat : \E f \in [SUBSET U -> Nat] : Good(f, n)}
<1>1. 0 \in T
  <2> DEFINE f == [S \in SUBSET U |-> 0]
  <2>1. f \in [SUBSET U -> Nat]
    OBVIOUS
  <2>2. ASSUME NEW S \in SUBSET U, Cardinality(S) <= 0 PROVE f[S] = Step(f, S)
    <3>1. S = {}
      BY <2>2, Counted, EmptyIfNone
    <3> QED
      BY <3>1
  <2> QED
    BY <2>1, <2>2
<1>2. ASSUME NEW n \in T PROVE n + 1 \in T
  <2>1. PICK f \in [SUBSET U -> Nat] : Good(f, n)
    OBVIOUS
  <2> DEFINE g == [S \in SUBSET U |-> Step(f, S)]
  <2>2. ASSUME NEW S \in SUBSET U, S # {}
        PROVE  /\ c(S) \in S /\ c(S) \in Requests
               /\ S \ {c(S)} \in SUBSET U
               /\ Units[c(S)] \in Nat
    BY <2>2, Picked, RequestAssumption
  <2>3. ASSUME NEW S \in SUBSET U PROVE Step(f, S) \in Nat
    <3>1. CASE S = {}
      BY <3>1
    <3>2. CASE S # {}
      <4> HIDE DEF c
      <4> QED
        BY <3>2, <2>2
    <3> QED
      BY <3>1, <3>2
  <2>4. g \in [SUBSET U -> Nat]
    BY <2>3
  <2>5. ASSUME NEW S \in SUBSET U, Cardinality(S) <= n + 1 PROVE g[S] = Step(g, S)
    <3>1. CASE S = {}
      BY <3>1
    <3>2. CASE S # {}
      <4> DEFINE R == S \ {c(S)}
      <4>1. R \in SUBSET U /\ Cardinality(R) <= n
        <5>1. c(S) \in S /\ S \in SUBSET Requests
          BY <3>2, <2>2
        <5>2. Cardinality(R) = Cardinality(S) - 1
          <6> HIDE DEF c
          <6> QED
            BY <5>1, Remains
        <5>3. Cardinality(S) \in Nat /\ n \in Nat
          BY <5>1, Counted
        <5> QED
          BY <5>2, <5>3, <2>5
      <4>2. f[R] = Step(f, R)
        BY <4>1, <2>1
      <4>3. g[R] = Step(f, R)
        BY <4>1
      <4>4. g[S] = Units[c(S)] + f[R]
        BY <3>2
      <4> QED
        BY <3>2, <4>2, <4>3, <4>4
    <3> QED
      BY <3>1, <3>2
  <2>6. n + 1 \in Nat
    OBVIOUS
  <2> QED
    BY <2>4, <2>5, <2>6
<1>3. T = Nat
  <2> HIDE DEF T
  <2>1. T \in SUBSET Nat
    BY DEF T
  <2> QED
    BY <1>1, <1>2, <2>1, Ind
<1>4. Cardinality(U) \in T
  BY <1>3, Counted
<1>5. PICK f \in [SUBSET U -> Nat] : Good(f, Cardinality(U))
  BY <1>4
<1>6. ASSUME NEW S \in SUBSET U PROVE f[S] = Step(f, S)
  <2>1. Cardinality(S) <= Cardinality(U)
    BY Counted, FS_Subset
  <2> QED
    BY <1>5, <2>1
<1> QED
  BY <1>6 DEF Adds

\* There is one only.
LEMMA AddsUnique ==
    ASSUME NEW U \in SUBSET Requests, NEW V \in SUBSET Requests,
           NEW f, Adds(f, U), NEW g, Adds(g, V), U \subseteq V
    PROVE  f[U] = g[U]
<1> DEFINE T == {S \in SUBSET Requests : S \subseteq U => f[S] = g[S]}
<1>1. ASSUME NEW S \in SUBSET Requests, \A R \in SUBSET S : R # S => R \in T
      PROVE  S \in T
  <2> SUFFICES ASSUME S \subseteq U PROVE f[S] = g[S]
    OBVIOUS
  <2>1. CASE S = {}
    BY <2>1 DEF Adds
  <2>2. CASE S # {}
    <3> DEFINE r == CHOOSE x \in S : TRUE
               R == S \ {r}
    <3>1. r \in S
      BY <2>2, Picked
    <3>2. f[S] = Units[r] + f[R] /\ g[S] = Units[r] + g[R]
      BY <2>2 DEF Adds
    <3>3. R \in SUBSET S /\ R # S /\ R \subseteq U
      BY <3>1
    <3>4. f[R] = g[R]
      BY <3>3, <1>1
    <3> QED
      BY <3>2, <3>4
  <2> QED
    BY <2>1, <2>2
<1>2. T = SUBSET Requests
  <2> HIDE DEF T
  <2>1. T \in SUBSET SUBSET Requests
    BY DEF T
  <2> QED
    BY <1>1, <2>1, SubsetInduction
<1> QED
  BY <1>2

\* So the sum is what any function with this equation says of it.
LEMMA UnitsAdded ==
    ASSUME NEW U \in SUBSET Requests, NEW f, Adds(f, U)
    PROVE  UnitsOf(U) = f[U]
<1> DEFINE Is(h) == h = [S \in SUBSET U |->
                       IF S = {} THEN 0
                       ELSE LET r == CHOOSE x \in S : TRUE IN Units[r] + h[S \ {r}]]
           F == CHOOSE h : Is(h)
<1>1. UnitsOf(U) = F[U]
  BY DEF UnitsOf, MapThenSumSet, MapThenFoldSet
<1>2. PICK h \in [SUBSET U -> Nat] : Adds(h, U)
  BY AddsExists
<1>3. Is(h)
  BY <1>2 DEF Adds
<1>4. Is(F)
  BY <1>3
<1>5. F = [S \in SUBSET U |->
             IF S = {} THEN 0
             ELSE LET r == CHOOSE x \in S : TRUE IN Units[r] + F[S \ {r}]]
  BY <1>4
<1>6. Adds(F, U)
  <2> HIDE DEF F
  <2> QED
    BY <1>5 DEF Adds
<1>7. F[U] = f[U]
  <2> HIDE DEF F
  <2> QED
    BY <1>6, AddsUnique
<1> QED
  BY <1>1, <1>7

LEMMA UnitsType ==
    ASSUME NEW U \in SUBSET Requests
    PROVE  UnitsOf(U) \in Nat
<1>1. PICK f \in [SUBSET U -> Nat] : Adds(f, U)
  BY AddsExists
<1> QED
  BY <1>1, UnitsAdded

LEMMA UnitsOfNone == UnitsOf({}) = 0
<1>1. PICK f \in [SUBSET {} -> Nat] : Adds(f, {})
  BY AddsExists
<1>2. f[{}] = 0
  BY <1>1 DEF Adds
<1> QED
  BY <1>1, <1>2, UnitsAdded

\* The sum of a set in terms of a smaller one, whichever element is chosen first.
LEMMA UnitsPick ==
    ASSUME NEW U \in SUBSET Requests, U # {}
    PROVE  LET r == CHOOSE x \in U : TRUE IN UnitsOf(U) = Units[r] + UnitsOf(U \ {r})
<1> DEFINE r == CHOOSE x \in U : TRUE
           R == U \ {r}
<1>1. PICK f \in [SUBSET U -> Nat] : Adds(f, U)
  BY AddsExists
<1>2. f[U] = Units[r] + f[R]
  BY <1>1 DEF Adds
<1>3. R \in SUBSET U
  OBVIOUS
<1>4. Adds(f, R)
  BY <1>1, <1>3 DEF Adds
<1>5. UnitsOf(R) = f[R] /\ UnitsOf(U) = f[U]
  <2> HIDE DEF R
  <2> QED
    BY <1>1, <1>3, <1>4, UnitsAdded
<1> QED
  BY <1>2, <1>5

\* The sum is the same whichever element is taken off first.
LEMMA UnitsWithout ==
    ASSUME NEW U \in SUBSET Requests, NEW r \in U
    PROVE  UnitsOf(U) = Units[r] + UnitsOf(U \ {r})
<1> DEFINE T == {S \in SUBSET Requests : \A x \in S : UnitsOf(S) = Units[x] + UnitsOf(S \ {x})}
<1>1. ASSUME NEW S \in SUBSET Requests, \A R \in SUBSET S : R # S => R \in T
      PROVE  S \in T
  <2> SUFFICES ASSUME NEW x \in S PROVE UnitsOf(S) = Units[x] + UnitsOf(S \ {x})
    OBVIOUS
  <2> DEFINE c == CHOOSE y \in S : TRUE
  <2>1. c \in S
    BY Picked
  <2>2. UnitsOf(S) = Units[c] + UnitsOf(S \ {c})
    BY UnitsPick
  <2> HIDE DEF c
  <2>3. CASE x = c
    BY <2>2, <2>3
  <2>4. CASE x # c
    <3> DEFINE R == (S \ {c}) \ {x}
    <3>1. UnitsOf(S \ {c}) = Units[x] + UnitsOf(R)
      <4>1. S \ {c} \in T /\ x \in S \ {c}
        BY <1>1, <2>1, <2>4
      <4> QED
        BY <4>1
    <3>2. UnitsOf(S \ {x}) = Units[c] + UnitsOf(R)
      <4>1. S \ {x} \in T /\ c \in S \ {x}
        BY <1>1, <2>1, <2>4
      <4>2. (S \ {x}) \ {c} = R
        OBVIOUS
      <4> QED
        BY <4>1, <4>2
    <3>3. UnitsOf(R) \in Nat /\ Units[x] \in Nat /\ Units[c] \in Nat
      BY <2>1, UnitsType, RequestAssumption
    <3> QED
      BY <3>1, <3>2, <3>3, <2>2
  <2> QED
    BY <2>3, <2>4
<1>2. T = SUBSET Requests
  <2> HIDE DEF T
  <2>1. T \in SUBSET SUBSET Requests
    BY DEF T
  <2> QED
    BY <1>1, <2>1, SubsetInduction
<1> QED
  BY <1>2
-----------------------------------------------------------------------------
(* The budgets of a day *)

LEMMA Budgets == UserDaily \in Nat /\ GlobalDaily \in Nat /\ Everyone \notin Users
BY PolicyAssumption, RequestAssumption

\* An admission is charged to the user and to all, within both budgets.
LEMMA AdmissionCharged ==
    ASSUME TypeOK, BudgetInv, NEW r \in Requests, Admission(r), pc[r] = "new",
           pc'[r] # "new", \A q \in Requests : pc'[q] = "new" => pc[q] = "new"
    PROVE  BudgetInv'
<1> DEFINE u == Owner[r]
<1>1. /\ today' = today \cup {r} /\ today \in SUBSET Requests /\ r \notin today
      /\ u \in Users /\ Units[r] \in Nat
      /\ UsedToday(u) + Units[r] <= UserDaily
      /\ UsedToday(Everyone) + Units[r] <= GlobalDaily
  <2>1. today' = today \cup {r} /\ ~OverBudget(r) /\ r \notin today
    BY DEF Admission, BudgetInv
  <2>2. u \in Users /\ Units[r] \in Nat
    BY RequestAssumption
  <2>3. UsedToday(u) \in Nat /\ UsedToday(Everyone) \in Nat
    BY <2>2 DEF UsedToday, TypeOK
  <2> HIDE DEF UsedToday
  <2> QED
    BY <2>1, <2>2, <2>3, Budgets DEF OverBudget, TypeOK
<1>2. /\ \A v \in Users : UsedToday(v)' = IF v = u THEN UsedToday(v) + Units[r] ELSE UsedToday(v)
      /\ UsedToday(Everyone)' = UsedToday(Everyone) + Units[r]
  <2> DEFINE charged(k) == [day |-> "today", used |-> UsedToday(k) + Units[r]]
  <2>1. \A k \in Users \cup {Everyone} :
           spent'[k] = IF k \in {u, Everyone} THEN charged(k) ELSE spent[k]
    BY DEF Admission, Charge
  <2>2. \A k \in Users \cup {Everyone} :
           UsedToday(k)' = IF spent'[k].day = "today" THEN spent'[k].used ELSE 0
    BY DEF UsedToday
  <2>3. ASSUME NEW k \in {u, Everyone} PROVE UsedToday(k)' = UsedToday(k) + Units[r]
    <3>1. k \in Users \cup {Everyone}
      BY <1>1
    <3>2. spent'[k] = charged(k)
      BY <3>1, <2>1
    <3>3. UsedToday(k)' = IF spent'[k].day = "today" THEN spent'[k].used ELSE 0
      BY <3>1, <2>2
    <3> HIDE DEF UsedToday
    <3> QED
      BY <3>2, <3>3
  <2>4. \A k \in Users \ {u} : UsedToday(k)' = UsedToday(k)
    BY <2>1, Budgets DEF UsedToday
  <2> QED
    BY <2>3, <2>4, <1>1
<1>3. UnitsOf(today') = UnitsOf(today) + Units[r]
  <2>1. today' \in SUBSET Requests /\ r \in today' /\ today' \ {r} = today
    BY <1>1
  <2>2. UnitsOf(today) \in Nat /\ Units[r] \in Nat
    BY <1>1, UnitsType
  <2> QED
    BY <2>1, <2>2, UnitsWithout
<1>4. UnitsOf(today' \cap Of(u)) = UnitsOf(today \cap Of(u)) + Units[r]
  <2>1. /\ today' \cap Of(u) \in SUBSET Requests /\ r \in today' \cap Of(u)
        /\ (today' \cap Of(u)) \ {r} = today \cap Of(u)
        /\ today \cap Of(u) \in SUBSET Requests
    BY <1>1 DEF Of
  <2>2. UnitsOf(today \cap Of(u)) \in Nat /\ Units[r] \in Nat
    BY <1>1, <2>1, UnitsType
  <2> QED
    BY <2>1, <2>2, UnitsWithout
<1>5. \A v \in Users \ {u} : today' \cap Of(v) = today \cap Of(v)
  BY <1>1 DEF Of
<1> HIDE DEF u
<1>6. \A v \in Users : Of(v)' = Of(v)
  BY DEF Of
<1>7. /\ \A v \in Users : UsedToday(v) = UnitsOf(today \cap Of(v))
      /\ UsedToday(Everyone) = UnitsOf(today)
      /\ BudgetsKept
  BY DEF BudgetInv
<1>8. \A v \in Users : UsedToday(v)' = UnitsOf(today' \cap Of(v))
  BY <1>1, <1>2, <1>4, <1>5, <1>7
<1>9. UsedToday(Everyone)' = UnitsOf(today')
  BY <1>2, <1>3, <1>7
<1>10. BudgetsKept'
  <2>1. \A v \in Users : UnitsOf(today' \cap Of(v)) <= UserDaily
    BY <1>1, <1>4, <1>5, <1>7 DEF BudgetsKept
  <2>2. UnitsOf(today') <= GlobalDaily
    BY <1>1, <1>3, <1>7
  <2> QED
    BY <2>1, <2>2, <1>6 DEF BudgetsKept
<1>11. \A q \in today' : pc'[q] # "new"
  BY <1>1 DEF BudgetInv
<1> QED
  BY <1>6, <1>8, <1>9, <1>10, <1>11 DEF BudgetInv

\* What does not touch the budgets keeps them.
LEMMA BudgetIdle ==
    ASSUME TypeOK, BudgetInv, UNCHANGED <<spent, today>>,
           \A q \in Requests : pc'[q] = "new" => pc[q] = "new"
    PROVE  BudgetInv'
<1>1. \A q \in today' : pc'[q] # "new"
  BY DEF BudgetInv, TypeOK
<1>2. BudgetsKept'
  BY DEF BudgetInv, BudgetsKept, Of
<1>3. \A k \in Users \cup {Everyone} : UsedToday(k)' = UsedToday(k)
  BY DEF UsedToday
<1> QED
  BY <1>1, <1>2, <1>3 DEF BudgetInv, Of

\* At midnight nothing is spent, and nothing counts.
LEMMA BudgetRestarts ==
    ASSUME TypeOK, BudgetInv, NewDay
    PROVE  BudgetInv'
<1>1. today' = {} /\ \A k \in Users \cup {Everyone} : spent'[k].day = "past"
  BY DEF NewDay, TypeOK
<1>2. \A k \in Users \cup {Everyone} : UsedToday(k)' = 0
  BY <1>1 DEF UsedToday
<1>3. \A v \in Users : today' \cap Of(v) = {} /\ Of(v)' = Of(v)
  BY <1>1 DEF Of
<1>4. BudgetsKept'
  BY <1>1, <1>3, UnitsOfNone, Budgets DEF BudgetsKept
<1> QED
  BY <1>1, <1>2, <1>3, <1>4, UnitsOfNone DEF BudgetInv

\* The counters of Redis are the sums of the day's admissions.
THEOREM BudgetInvariant == Spec => []BudgetInv
<1>1. Init => BudgetInv
  <2> SUFFICES ASSUME Init PROVE BudgetInv
    OBVIOUS
  <2>1. today = {} /\ \A k \in Users \cup {Everyone} : UsedToday(k) = 0
    BY DEF Init, UsedToday
  <2>2. \A v \in Users : today \cap Of(v) = {}
    BY <2>1
  <2> QED
    BY <2>1, <2>2, UnitsOfNone, Budgets DEF BudgetInv, BudgetsKept
<1>2. TypeOK /\ BudgetInv /\ [Next]_vars => BudgetInv'
  <2> SUFFICES ASSUME TypeOK, BudgetInv, [Next]_vars PROVE BudgetInv'
    OBVIOUS
  <2> DEFINE Aged == \A q \in Requests : pc'[q] = "new" => pc[q] = "new"
  <2>1. ASSUME NEW r \in Requests, Admit(r) PROVE BudgetInv'
    <3>1. Aged /\ pc[r] = "new" /\ pc'[r] # "new" /\ Admission(r)
      BY <2>1 DEF Admit, TypeOK
    <3> QED
      BY <3>1, AdmissionCharged
  <2>2. ASSUME NEW r \in Requests, Refuse(r) PROVE BudgetInv'
    <3>1. Aged /\ UNCHANGED <<spent, today>>
      BY <2>2 DEF Refuse, Rejection, TypeOK
    <3> QED
      BY <3>1, BudgetIdle
  <2>3. ASSUME NEW r \in Requests, Unavailable(r) PROVE BudgetInv'
    <3>1. Aged /\ pc[r] = "new" /\ pc'[r] # "new"
      BY <2>3 DEF Unavailable, TypeOK
    <3>2. Admission(r) \/ UNCHANGED <<spent, today>>
      BY <2>3 DEF Unavailable, Rejection, redisVars
    <3> QED
      BY <3>1, <3>2, AdmissionCharged, BudgetIdle
  <2>4. ASSUME NEW r \in Requests, Finish(r) PROVE BudgetInv'
    <3>1. Aged /\ UNCHANGED <<spent, today>>
      BY <2>4 DEF Finish, Removed, redisVars, TypeOK
    <3> QED
      BY <3>1, BudgetIdle
  <2>5. ASSUME NEW r \in Requests, StartRenewal(r) \/ Renew(r) \/ Lost(r) PROVE BudgetInv'
    BY <2>5, BudgetIdle DEF StartRenewal, Renew, Lost, Renewed, redisVars
  <2>6. ASSUME NEW p \in Replicas, Crash(p) PROVE BudgetInv'
    <3>1. Aged /\ UNCHANGED <<spent, today>>
      BY <2>6 DEF Crash, redisVars
    <3> QED
      BY <3>1, BudgetIdle
  <2>7. ASSUME NEW u \in Users, OwnIndexExpires(u) PROVE BudgetInv'
    BY <2>7, BudgetIdle DEF OwnIndexExpires
  <2>8. CASE Tick \/ GlobalIndexExpires
    BY <2>8, BudgetIdle DEF Tick, GlobalIndexExpires
  <2>9. CASE NewDay
    BY <2>9, BudgetRestarts
  <2>10. CASE UNCHANGED vars
    BY <2>10, BudgetIdle DEF vars, redisVars
  <2> QED
    BY <2>1, <2>2, <2>3, <2>4, <2>5, <2>6, <2>7, <2>8, <2>9, <2>10 DEF Next
<1> QED
  BY <1>1, <1>2, AdmissionTypeCorrect, PTL DEF Spec

\* In no window is a user admitted too often, and on no day is more spent than
\* a user's budget or the service's, measured by the admissions themselves.
THEOREM QuotasKeptHolds == Spec => []QuotasKept
<1>1. BudgetInv /\ RateKept => QuotasKept
  BY DEF BudgetInv, QuotasKept
<1> QED
  BY <1>1, BudgetInvariant, RateKeptHolds, PTL
-----------------------------------------------------------------------------
(* The refinement of ExpiringSemaphore *)

\* Whoever holds a place in the semaphore holds a live lease.
LEMMA HoldersAreLive ==
    ASSUME TypeOK
    PROVE  Semaphore!Holders = Live(global)
BY DEF Semaphore!Holders, Stage, Live, TypeOK

LEMMA CountedAlike ==
    ASSUME NEW S PROVE Semaphore!Cardinality(S) = Cardinality(S)
BY DEF Semaphore!Cardinality, Cardinality

\* A step of the semaphore, told by what becomes of each token.
LEMMA EndStep ==
    ASSUME NEW T \in SUBSET Requests,
           \A q \in Requests : Stage(q)' = IF q \in T THEN "over" ELSE Stage(q)
    PROVE  Semaphore!Next
<1>1. Semaphore!End(T)
  BY DEF Semaphore!End, Semaphore!Ended
<1> QED
  BY <1>1 DEF Semaphore!Next

LEMMA LapseStep ==
    ASSUME TypeOK, NEW T \in SUBSET Live(global),
           \A q \in Requests : Stage(q)' = IF q \in T THEN "free" ELSE Stage(q)
    PROVE  Semaphore!Next
<1>1. Semaphore!Lapse(T)
  BY HoldersAreLive DEF Semaphore!Lapse
<1>2. T \in SUBSET Requests
  BY DEF Live, TypeOK
<1> QED
  BY <1>1, <1>2 DEF Semaphore!Next

LEMMA TakeStep ==
    ASSUME TypeOK, NEW T \in SUBSET Requests, NEW r \in Requests,
           r \notin T, Stage(r) # "over",
           Cardinality(Live(global) \ {r}) < GlobalLimit,
           Stage(r)' = "held",
           \A q \in Requests \ {r} : Stage(q)' = IF q \in T THEN "over" ELSE Stage(q)
    PROVE  Semaphore!Next
<1>1. [q \in Requests |-> Stage(q)]' =
         [[q \in Requests |-> IF q \in T THEN "over" ELSE Stage(q)] EXCEPT ![r] = "held"]
  OBVIOUS
<1>2. Semaphore!Ended(T) = [q \in Requests |-> IF q \in T THEN "over" ELSE Stage(q)]
  BY DEF Semaphore!Ended
<1>3. Semaphore!Take(r, T)
  BY <1>1, <1>2, HoldersAreLive, CountedAlike DEF Semaphore!Take
<1> QED
  BY <1>3 DEF Semaphore!Next

\* Nothing that the semaphore sees has changed.
LEMMA SameStages ==
    ASSUME TypeOK, UNCHANGED <<global, left>>,
           \A q \in Requests : pc'[q] = "new" <=> pc[q] = "new"
    PROVE  \A q \in Requests : Stage(q)' = Stage(q)
BY DEF Stage, Live

\* An admission takes a place, and the leases it purges end.
LEMMA AdmissionTakes ==
    ASSUME TypeOK, IInv, NEW r \in Requests, Admission(r), pc[r] = "new",
           \A q \in Requests \ {r} : pc'[q] = pc[q]
    PROVE  Semaphore!Next
<1> DEFINE T == global \ Live(global)
<1>1. global' = Live(global) \cup {r} /\ left'[r] = Ttl
      /\ \A q \in Requests : q # r => left'[q] = left[q]
  BY DEF Admission, PurgedGlobal, TypeOK
<1>2. r \notin global /\ T \in SUBSET Requests
  BY DEF IInv, TypeOK
<1>3. Stage(r) # "over"
  BY DEF Stage
<1>4. Cardinality(Live(global) \ {r}) < GlobalLimit
  <2>1. Live(global) \ {r} = PurgedGlobal
    BY <1>2 DEF PurgedGlobal, Live
  <2>2. PurgedGlobal \in SUBSET Requests /\ ~(Cardinality(PurgedGlobal) >= GlobalLimit)
    BY DEF Admission, GlobalFull, PurgedGlobal, Live, TypeOK
  <2> QED
    BY <2>1, <2>2, Counted, Policy
<1>5. Stage(r)' = "held"
  BY <1>1, Policy DEF Stage, Live
<1>6. ASSUME NEW q \in Requests \ {r}
      PROVE  Stage(q)' = IF q \in T THEN "over" ELSE Stage(q)
  <2>1. q \in global' <=> q \in Live(global)
    BY <1>1
  <2>2. q \in Live(global)' <=> q \in Live(global)
    BY <1>1 DEF Live
  <2>3. q \in global => pc'[q] # "new"
    BY DEF IInv
  <2> QED
    BY <2>1, <2>2, <2>3 DEF Stage, Live
<1> QED
  BY <1>2, <1>3, <1>4, <1>5, <1>6, TakeStep

\* A rejection ends the leases it purges, and the request.
LEMMA RejectionEnds ==
    ASSUME TypeOK, IInv, NEW r \in Requests, Rejection(r), pc[r] = "new",
           pc'[r] # "new",
           \A q \in Requests \ {r} : pc'[q] = pc[q]
    PROVE  Semaphore!Next
<1> DEFINE T == (global \ Live(global)) \cup {r}
<1>1. global' = Live(global) /\ left' = left
  BY DEF Rejection, PurgedGlobal
<1>2. Live(global)' = Live(global)
  BY <1>1 DEF Live
<1>3. T \in SUBSET Requests /\ r \notin global
  BY DEF IInv, TypeOK
<1>4. ASSUME NEW q \in Requests
      PROVE  Stage(q)' = IF q \in T THEN "over" ELSE Stage(q)
  <2>1. q \in global => pc'[q] # "new"
    BY <1>3 DEF IInv
  <2> QED
    BY <1>1, <1>2, <1>3, <2>1 DEF Stage, Live
<1> QED
  BY <1>3, <1>4, EndStep

\* Whoever renews holds a place already or takes a free one: there is one,
\* because an index with the token in it is not over its limit.
LEMMA RenewedTakes ==
    ASSUME TypeOK, IInv, NEW r \in Requests, Renewed(r), pc' = pc
    PROVE  Semaphore!Next
<1>1. r \in global /\ global' = global /\ left'[r] = Ttl
      /\ \A q \in Requests : q # r => left'[q] = left[q]
  BY DEF Renewed, Present, TypeOK
<1>2. Stage(r) # "over"
  BY <1>1 DEF Stage
<1>3. Cardinality(Live(global) \ {r}) < GlobalLimit
  <2>1. Live(global) \ {r} \in SUBSET (global \ {r}) /\ global \ {r} \in SUBSET Requests
        /\ Live(global) \ {r} \in SUBSET Requests
    BY DEF Live, TypeOK
  <2>2. Cardinality(Live(global) \ {r}) <= Cardinality(global \ {r})
    BY <2>1, CountedLess
  <2>3. Cardinality(global \ {r}) = Cardinality(global) - 1
    BY <1>1, Counted, FS_RemoveElement DEF TypeOK
  <2>4. Cardinality(global) <= GlobalLimit
    BY DEF IInv, PlacesBounded
  <2>5. Cardinality(Live(global) \ {r}) \in Nat /\ Cardinality(global \ {r}) \in Nat
        /\ Cardinality(global) \in Nat
    BY <2>1, Counted DEF TypeOK
  <2> QED
    BY <2>2, <2>3, <2>4, <2>5, Policy
<1>4. Stage(r)' = "held"
  BY <1>1, Policy DEF Stage, Live
<1>5. \A q \in Requests \ {r} : Stage(q)' = IF q \in {} THEN "over" ELSE Stage(q)
  BY <1>1 DEF Stage, Live
<1>6. {} \in SUBSET Requests /\ r \notin {}
  OBVIOUS
<1> QED
  BY <1>2, <1>3, <1>4, <1>5, <1>6, TakeStep

\* Every step of Redis, the requests and the clocks is a step of the semaphore
\* or leaves its places alone: a renewal takes a place only where one is free,
\* and a released or purged lease never comes back.
THEOREM SemaphoreImplemented == Spec => ImplementsSemaphore
<1> DEFINE stages == [r \in Requests |-> Stage(r)]
<1>1. Init => Semaphore!Init
  BY DEF Init, Semaphore!Init, Stage, Live
<1>2. TypeOK /\ IInv /\ [Next]_vars => [Semaphore!Next]_stages
  <2> SUFFICES ASSUME TypeOK, IInv, [Next]_vars
               PROVE  Semaphore!Next \/ \A q \in Requests : Stage(q)' = Stage(q)
    OBVIOUS
  <2> USE SameStages
  <2>1. ASSUME NEW r \in Requests, Admit(r) PROVE Semaphore!Next
    <3>1. Admission(r) /\ pc[r] = "new" /\ \A q \in Requests \ {r} : pc'[q] = pc[q]
      BY <2>1 DEF Admit, TypeOK
    <3> QED
      BY <3>1, AdmissionTakes
  <2>2. ASSUME NEW r \in Requests, Refuse(r) PROVE Semaphore!Next
    <3>1. Rejection(r) /\ pc[r] = "new" /\ pc'[r] # "new"
          /\ \A q \in Requests \ {r} : pc'[q] = pc[q]
      BY <2>2 DEF Refuse, TypeOK
    <3> QED
      BY <3>1, RejectionEnds
  <2>3. ASSUME NEW r \in Requests, Unavailable(r) PROVE Semaphore!Next
    <3>1. pc[r] = "new" /\ pc'[r] = "denied" /\ \A q \in Requests \ {r} : pc'[q] = pc[q]
      BY <2>3 DEF Unavailable, TypeOK
    <3>2. CASE UNCHANGED redisVars
      <4>1. UNCHANGED <<global, left>> /\ Live(global)' = Live(global) /\ r \notin global
        BY <3>1, <3>2 DEF redisVars, Live, IInv
      <4>2. \A q \in Requests : Stage(q)' = IF q \in {r} THEN "over" ELSE Stage(q)
        BY <3>1, <4>1 DEF Stage, Live
      <4> QED
        BY <4>2, EndStep
    <3> QED
      BY <2>3, <3>1, <3>2, AdmissionTakes, RejectionEnds DEF Unavailable
  <2>4. ASSUME NEW r \in Requests, Finish(r)
        PROVE  Semaphore!Next \/ \A q \in Requests : Stage(q)' = Stage(q)
    <3>1. pc[r] = "running" /\ pc'[r] = "ended" /\ \A q \in Requests \ {r} : pc'[q] = pc[q]
      BY <2>4 DEF Finish, TypeOK
    <3>2. CASE Removed(r)
      <4>1. global' = global \ {r} /\ \A q \in Requests \ {r} : left'[q] = left[q]
        BY <3>2 DEF Removed, TypeOK
      <4>2. \A q \in Requests : Stage(q)' = IF q \in {r} THEN "over" ELSE Stage(q)
        BY <3>1, <4>1 DEF Stage, Live
      <4> QED
        BY <4>2, EndStep
    <3>3. CASE UNCHANGED redisVars
      BY <3>1, <3>3 DEF redisVars
    <3> QED
      BY <2>4, <3>2, <3>3 DEF Finish
  <2>5. ASSUME NEW r \in Requests, StartRenewal(r)
        PROVE  \A q \in Requests : Stage(q)' = Stage(q)
    BY <2>5 DEF StartRenewal, redisVars
  <2>6. ASSUME NEW r \in Requests, Renew(r) PROVE Semaphore!Next
    BY <2>6, RenewedTakes DEF Renew
  <2>7. ASSUME NEW r \in Requests, Lost(r)
        PROVE  Semaphore!Next \/ \A q \in Requests : Stage(q)' = Stage(q)
    BY <2>7, RenewedTakes DEF Lost, redisVars
  <2>8. ASSUME NEW p \in Replicas, Crash(p)
        PROVE  \A q \in Requests : Stage(q)' = Stage(q)
    BY <2>8 DEF Crash, redisVars
  <2>9. ASSUME NEW u \in Users, OwnIndexExpires(u)
        PROVE  \A q \in Requests : Stage(q)' = Stage(q)
    BY <2>9 DEF OwnIndexExpires
  <2>10. CASE Tick
    <3> DEFINE T == Live(global) \ Live(global)'
    <3>1. UNCHANGED <<global, pc>> /\ \A q \in Requests : left'[q] = Elapsed(left[q])
      BY <2>10 DEF Tick
    <3>2. \A q \in Requests : left'[q] > 0 => left[q] > 0
      BY <3>1 DEF Elapsed, TypeOK
    <3>3. Live(global)' \subseteq Live(global)
      BY <3>1, <3>2 DEF Live, TypeOK
    <3>4. ASSUME NEW q \in Requests
          PROVE  Stage(q)' = IF q \in T THEN "free" ELSE Stage(q)
      <4>1. Stage(q)' = IF q \in Live(global)' THEN "held"
                        ELSE IF q \in global \/ pc[q] = "new" THEN "free" ELSE "over"
        BY <3>1 DEF Stage
      <4>2. q \in Live(global) => q \in global
        BY DEF Live
      <4> QED
        BY <3>3, <4>1, <4>2 DEF Stage
    <3> QED
      BY <3>4, LapseStep
  <2>11. CASE GlobalIndexExpires
    <3>1. global' = {} /\ Live(global) = {} /\ UNCHANGED pc
      BY <2>11 DEF GlobalIndexExpires
    <3>2. global \in SUBSET Requests
      BY DEF TypeOK
    <3>3. \A q \in Requests : Stage(q)' = IF q \in global THEN "over" ELSE Stage(q)
      BY <3>1 DEF Stage, Live, IInv
    <3> QED
      BY <3>2, <3>3, EndStep
  <2>12. CASE NewDay
    BY <2>12 DEF NewDay
  <2>13. CASE UNCHANGED vars
    BY <2>13 DEF vars, redisVars
  <2> QED
    BY <2>1, <2>2, <2>3, <2>4, <2>5, <2>6, <2>7, <2>8, <2>9, <2>10, <2>11, <2>12, <2>13 DEF Next
<1> QED
  BY <1>1, <1>2, AdmissionTypeCorrect, AdmissionInvariant, PTL DEF Spec, ImplementsSemaphore, Semaphore!Spec
=============================================================================
