------------------------ MODULE ControlConsoleProofs ------------------------
(***************************************************************************)
(* Proofs about ControlConsole, for any number of devices, positions,      *)
(* operations and repeated requests.  The server's promises come first:    *)
(* their invariant says nothing of the devices, so they do not rest on     *)
(* what these send.  Then what the folds over a queue do (filtering,       *)
(* applying it on top of a snapshot, rebasing it), by induction on its     *)
(* length; the types; and that nothing a user has queued is lost.          *)
(***************************************************************************)
EXTENDS ControlConsole, FiniteSetTheorems, WellFoundedInduction, TLAPS

ServerTypeOK == positions \in [Positions -> Rows] /\ audit \in Seq(Entries)

\* Every revision an applied operation was prepared on has been left behind.
BehindInv ==
    \A i \in DOMAIN audit :
        audit[i].operation.base < positions[audit[i].operation.position].revision

ServerInv == ServerTypeOK /\ BehindInv /\ AppliedOnce /\ OneWinnerPerRevision

\* Restoring the defaults touches neither revisions nor writers.
LEMMA DefaultsKeepRevisions ==
    ASSUME NEW rows \in [Positions -> Rows]
    PROVE  /\ WithDefaults(rows) \in [Positions -> Rows]
           /\ \A p \in Positions : WithDefaults(rows)[p].revision = rows[p].revision
<1>1. ASSUME NEW p \in Positions
      PROVE  /\ WithDefaults(rows)[p] \in Rows
             /\ WithDefaults(rows)[p].revision = rows[p].revision
  <2>1. rows[p] \in Rows /\ Defaults[p] \in SUBSET Permissions
    BY PositionAssumption
  <2>2. CASE p \in Seeded
    BY <2>1, <2>2 DEF WithDefaults, Rows
  <2>3. CASE p \notin Seeded
    BY <2>1, <2>3 DEF WithDefaults
  <2> QED  BY <2>2, <2>3
<1> QED  BY <1>1 DEF WithDefaults

\* Writing a row moves its revision on by one.
LEMMA WrittenMovesOn ==
    ASSUME NEW row \in Rows, NEW o \in Operations
    PROVE  Written(row, o) \in Rows /\ Written(row, o).revision = row.revision + 1
BY DEF Written, Rows, Operations, Writers, Kinds

\* What the entries of the audit trail are made of.
LEMMA EntryParts ==
    ASSUME ServerTypeOK, NEW i \in DOMAIN audit
    PROVE  /\ audit[i].operation \in Operations
           /\ audit[i].operation.position \in Positions
           /\ audit[i].operation.base \in Nat
<1>1. audit[i] \in Entries
  BY DEF ServerTypeOK
<1>2. audit[i].operation \in Operations
  BY <1>1 DEF Entries
<1> QED  BY <1>2 DEF Operations

\* What one transaction of the server preserves.
LEMMA AnswerPreserves ==
    ASSUME ServerInv, NEW o, NEW status, Answer(o, status)
    PROVE  ServerInv'
<1> DEFINE rows == WithDefaults(positions)
<1>0. ServerTypeOK /\ BehindInv /\ AppliedOnce /\ OneWinnerPerRevision
  BY DEF ServerInv
<1>1. /\ rows \in [Positions -> Rows]
      /\ \A p \in Positions : rows[p].revision = positions[p].revision
  BY <1>0, DefaultsKeepRevisions DEF ServerTypeOK
<1>t. \A i \in DOMAIN audit :
        /\ audit[i].operation.position \in Positions
        /\ audit[i].operation.base \in Nat
  BY <1>0, EntryParts
<1>2. CASE UNCHANGED serverVars
  BY <1>2, <1>0 DEF serverVars, ServerInv, ServerTypeOK, BehindInv, AppliedOnce,
                    OneWinnerPerRevision
<1>3. CASE positions' = rows /\ UNCHANGED audit
  <2>1. ServerTypeOK'
    BY <1>0, <1>1, <1>3 DEF ServerTypeOK
  <2>2. BehindInv'
    BY <1>0, <1>1, <1>3, <1>t DEF BehindInv
  <2> QED  BY <2>1, <2>2, <1>0, <1>3 DEF ServerInv, AppliedOnce, OneWinnerPerRevision
<1>4. CASE status = "applied"
  <2> DEFINE entry == [operation |-> o, over |-> positions[o.position].writer]
  <2>1. /\ ~Receipted(o.id)
        /\ o \in Operations
        /\ o.base = positions[o.position].revision
        /\ positions' = [rows EXCEPT ![o.position] = Written(rows[o.position], o)]
        /\ audit' = Append(audit, entry)
    BY <1>4 DEF Answer, Acceptable, CurrentRevision
  <2>2. o.position \in Positions /\ o.base \in Nat
    BY <2>1 DEF Operations
  <2>3. entry \in Entries
    BY <2>1, <2>2, <1>0 DEF Entries, ServerTypeOK, Rows
  <2>4. /\ Written(rows[o.position], o) \in Rows
        /\ Written(rows[o.position], o).revision = o.base + 1
    BY <2>1, <2>2, <1>1, WrittenMovesOn
  <2>5. /\ positions' \in [Positions -> Rows]
        /\ positions'[o.position].revision = o.base + 1
        /\ \A p \in Positions : /\ positions[p].revision \in Nat
                                /\ positions'[p].revision >= positions[p].revision
    BY <2>1, <2>2, <2>4, <1>0, <1>1 DEF ServerTypeOK, Rows
  <2>6. ServerTypeOK'
    BY <2>1, <2>3, <2>5, <1>0 DEF ServerTypeOK
  <2> HIDE DEF entry
  <2>7. /\ audit \in Seq(Entries)
        /\ DOMAIN audit' = DOMAIN audit \cup {Len(audit) + 1}
        /\ Len(audit) + 1 \notin DOMAIN audit
        /\ \A i \in DOMAIN audit : audit'[i] = audit[i]
        /\ audit'[Len(audit) + 1] = entry
    BY <2>1, <2>3, <1>0 DEF ServerTypeOK
  <2>8. entry.operation = o
    BY DEF entry
  <2>9. BehindInv'
    <3> SUFFICES ASSUME NEW i \in DOMAIN audit'
                 PROVE  audit'[i].operation.base
                          < positions'[audit'[i].operation.position].revision
      BY DEF BehindInv
    <3>1. CASE i \in DOMAIN audit
      <4> DEFINE a == audit[i].operation
      <4>1. a.base \in Nat /\ a.position \in Positions /\ a.base < positions[a.position].revision
        BY <3>1, <1>0, <1>t DEF BehindInv
      <4>2. positions'[a.position].revision \in Nat
        BY <4>1, <2>5 DEF Rows
      <4>3. a.base < positions'[a.position].revision
        BY <4>1, <4>2, <2>5
      <4> QED  BY <4>3, <3>1, <2>7
    <3>2. CASE i = Len(audit) + 1
      BY <3>2, <2>2, <2>5, <2>7, <2>8
    <3> QED  BY <3>1, <3>2, <2>7
  <2>10. AppliedOnce'
    BY <2>1, <2>7, <2>8, <1>0 DEF AppliedOnce, Receipted
  <2>11. \A i \in DOMAIN audit :
           ~(/\ audit[i].operation.position = o.position
             /\ audit[i].operation.base = o.base)
    BY <2>1, <2>2, <2>5, <1>0 DEF BehindInv
  <2>12. OneWinnerPerRevision'
    BY <2>7, <2>8, <2>11, <1>0 DEF OneWinnerPerRevision
  <2> QED  BY <2>6, <2>9, <2>10, <2>12 DEF ServerInv
<1> QED  BY <1>2, <1>3, <1>4 DEF Answer

LEMMA InitServer == Init => ServerInv
<1> SUFFICES ASSUME Init PROVE ServerInv
  OBVIOUS
<1>1. positions \in [Positions -> Rows]
  BY PositionAssumption DEF Init, Rows, Writers
<1>2. audit = <<>>
  BY DEF Init
<1> QED  BY <1>1, <1>2 DEF ServerInv, ServerTypeOK, BehindInv, AppliedOnce, OneWinnerPerRevision

LEMMA NextServer == ServerInv /\ [Next]_vars => ServerInv'
<1> SUFFICES ASSUME ServerInv, [Next]_vars PROVE ServerInv'
  OBVIOUS
<1>0. ASSUME UNCHANGED serverVars PROVE ServerInv'
  BY <1>0 DEF serverVars, ServerInv, ServerTypeOK, BehindInv, AppliedOnce, OneWinnerPerRevision
<1>d. ASSUME positions' = WithDefaults(positions), UNCHANGED audit PROVE ServerInv'
  <2>1. /\ WithDefaults(positions) \in [Positions -> Rows]
        /\ \A p \in Positions : WithDefaults(positions)[p].revision = positions[p].revision
    BY DefaultsKeepRevisions DEF ServerInv, ServerTypeOK
  <2>2. BehindInv'
    BY <2>1, <1>d, EntryParts DEF ServerInv, BehindInv
  <2> QED  BY <2>1, <2>2, <1>d DEF ServerInv, ServerTypeOK, AppliedOnce, OneWinnerPerRevision
<1>1. ASSUME NEW d \in Devices, Handle(d) PROVE ServerInv'
  BY <1>1, AnswerPreserves DEF Handle
<1>2. ASSUME NEW d \in Devices, HandleLate(d) PROVE ServerInv'
  BY <1>2, AnswerPreserves DEF HandleLate
<1>3. ASSUME NEW d \in Devices, Fetch(d) PROVE ServerInv'
  BY <1>3, <1>d DEF Fetch
<1>4. ASSUME NEW d \in Devices, RebaseBlocked(d) PROVE ServerInv'
  BY <1>4, <1>d DEF RebaseBlocked
<1>5. ASSUME NEW d \in Devices,
             Post(d) \/ Settle(d) \/ Install(d) \/ GiveUp(d) \/ Reload(d) \/ DiscardBlocked(d)
      PROVE  ServerInv'
  BY <1>5, <1>0 DEF Post, Settle, Install, GiveUp, Reload, DiscardBlocked
<1>6. ASSUME NEW d \in Devices, NEW p \in Positions,
             Edit(d, p) \/ Create(d, p) \/ Grant(d, p) \/ Delete(d, p)
      PROVE  ServerInv'
  BY <1>6, <1>0 DEF Edit, Create, Grant, Delete, Enqueue
<1>7. CASE UNCHANGED vars
  BY <1>7, <1>0 DEF vars
<1> QED  BY <1>1, <1>2, <1>3, <1>4, <1>5, <1>6, <1>7 DEF Next, User

\* The server's invariant, whatever the devices do.
THEOREM ServerInvariant == Spec => []ServerInv
BY InitServer, NextServer, PTL DEF Spec

\* An operation is applied at most once, in however many batches it comes.
THEOREM AppliedOnceHolds == Spec => []AppliedOnce
<1>1. ServerInv => AppliedOnce
  BY DEF ServerInv
<1> QED  BY <1>1, ServerInvariant, PTL

\* Of the operations prepared on one revision of a position, one is applied.
THEOREM OneWinnerPerRevisionHolds == Spec => []OneWinnerPerRevision
<1>1. ServerInv => OneWinnerPerRevision
  BY DEF ServerInv
<1> QED  BY <1>1, ServerInvariant, PTL
-----------------------------------------------------------------------------
(* Counting, with sets of numbers in the place of predicates. *)

\* A non-empty set of naturals has a least element.
LEMMA Least ==
    ASSUME NEW T \in SUBSET Nat, T # {}
    PROVE  \E m \in T : \A k \in T : m <= k
<1> DEFINE R == {ss \in Nat \X Nat : ss[1] < ss[2]}
<1>1. IsWellFoundedOn(R, Nat)
  BY NatLessThanWellFounded DEF OpToRel
<1>2. PICK m \in T : \A k \in T : ~(<<k, m>> \in R)
  BY <1>1, WFMin
<1>3. ASSUME NEW k \in T PROVE m <= k
  <2>1. k < m => <<k, m>> \in R
    OBVIOUS
  <2> QED
    BY <1>2, <2>1
<1> QED
  BY <1>3

\* What holds of 0 and of the next number holds of all: said of a set.
LEMMA Counting ==
    ASSUME NEW T \in SUBSET Nat, 0 \in T, \A n \in T : n + 1 \in T
    PROVE  T = Nat
<1> SUFFICES ASSUME Nat \ T # {} PROVE FALSE
  OBVIOUS
<1>1. PICK m \in Nat \ T : \A k \in Nat \ T : m <= k
  BY Least
<1>2. m # 0 /\ m - 1 \in Nat
  BY <1>1
<1>3. m - 1 \in T
  BY <1>1, <1>2
<1>4. (m - 1) + 1 \in T
  BY <1>3
<1> QED
  BY <1>1, <1>2, <1>4

\* The same up to a number.
LEMMA CountingUpTo ==
    ASSUME NEW n \in Nat, NEW T, 0 \in T, \A k \in 0..(n - 1) : k \in T => k + 1 \in T
    PROVE  \A k \in 0..n : k \in T
<1> DEFINE U == {k \in Nat : k <= n => k \in T}
<1>1. 0 \in U /\ U \in SUBSET Nat
  OBVIOUS
<1>2. ASSUME NEW k \in U PROVE k + 1 \in U
  <2>1. k \in Nat /\ k + 1 \in Nat
    OBVIOUS
  <2>2. ASSUME k + 1 <= n PROVE k + 1 \in T
    <3>1. k \in 0..(n - 1) /\ k <= n
      BY <2>1, <2>2
    <3> QED
      BY <3>1
  <2> QED
    BY <2>1, <2>2
<1> HIDE DEF U
<1>3. U = Nat
  BY <1>1, <1>2, Counting
<1> QED
  BY <1>3 DEF U

-----------------------------------------------------------------------------
(* Folds: FoldLeft is a function on the sets of indices, determined by its    *)
(* equation; what it says of 1..k follows from what it says of 1..(k - 1).    *)

\* Taking the greatest index off 1..k leaves 1..(k - 1).
LEMMA Highest ==
    ASSUME NEW k \in Nat \ {0}
    PROVE  Max(1..k) = k /\ (1..k) \ {Max(1..k)} = 1..(k - 1)
<1>1. k \in 1..k /\ \A y \in 1..k : k >= y
  OBVIOUS
<1>2. \A x \in 1..k : (\A y \in 1..k : x >= y) => x = k
  OBVIOUS
<1>3. Max(1..k) = k
  BY <1>1, <1>2 DEF Max
<1> QED
  BY <1>3

\* One step along the indices of a sequence.
LEMMA OneOn ==
    ASSUME NEW n \in Nat, NEW k \in 0..(n - 1)
    PROVE  /\ 1..(k + 1) \in SUBSET (1..n) /\ 1..(k + 1) # {}
           /\ k + 1 \in 1..n /\ k + 1 \in 0..n
           /\ Max(1..(k + 1)) = k + 1 /\ (1..(k + 1)) \ {Max(1..(k + 1))} = 1..k
<1>1. k \in Nat /\ k + 1 <= n /\ k + 1 \in Nat \ {0} /\ (k + 1) - 1 = k
  OBVIOUS
<1>2. 1 \in 1..(k + 1)
  BY <1>1
<1>3. 1..(k + 1) \in SUBSET (1..n)
  BY <1>1
<1>4. k + 1 \in 1..n /\ k + 1 \in 0..n
  BY <1>1
<1>5. Max(1..(k + 1)) = k + 1 /\ (1..(k + 1)) \ {Max(1..(k + 1))} = 1..((k + 1) - 1)
  BY <1>1, Highest
<1> QED
  BY <1>1, <1>2, <1>3, <1>4, <1>5

\* The greatest index of a set is one of its elements.
LEMMA MaxPicked ==
    ASSUME NEW n \in Nat, NEW S \in SUBSET (1..n), S # {}
    PROVE  Max(S) \in S
<1> DEFINE T == {n - x : x \in S}
<1>0. \A x \in S : x \in 1..n /\ n - x \in Nat
  OBVIOUS
<1>1. T \in SUBSET Nat /\ T # {}
  BY <1>0
<1>2. PICK m \in T : \A k \in T : m <= k
  BY <1>1, Least
<1>3. PICK x \in S : m = n - x
  OBVIOUS
<1>4. \A y \in S : n - x <= n - y
  BY <1>2, <1>3
<1>5. \A y \in S : x >= y
  BY <1>0, <1>4
<1> QED
  BY <1>5 DEF Max

\* f is the function that FoldLeft chooses for a step and a base, on every set
\* of indices.
Folds(f, n, base, step) ==
    \A S \in SUBSET (1..n) :
        f[S] = IF S = {} THEN base ELSE step[<<Max(S), f[S \ {Max(S)}]>>]

\* There is such a function: it is built up along the size of its arguments.
LEMMA FoldExists ==
    ASSUME NEW n \in Nat, NEW T, NEW base \in T, NEW step \in [(1..n) \X T -> T]
    PROVE  \E f \in [SUBSET (1..n) -> T] : Folds(f, n, base, step)
<1> DEFINE D == SUBSET (1..n)
           Step(f, S) == IF S = {} THEN base ELSE step[<<Max(S), f[S \ {Max(S)}]>>]
           Good(f, k) == \A S \in D : Cardinality(S) <= k => f[S] = Step(f, S)
           N == {k \in Nat : \E f \in [D -> T] : Good(f, k)}
<1>n. IsFiniteSet(1..n) /\ Cardinality(1..n) = n
  BY FS_Interval
<1>0. ASSUME NEW S \in D
      PROVE  /\ IsFiniteSet(S) /\ Cardinality(S) \in Nat /\ Cardinality(S) <= n
             /\ Cardinality(S) = 0 <=> S = {}
  <2>1. IsFiniteSet(S) /\ Cardinality(S) <= Cardinality(1..n)
    BY <1>n, FS_Subset
  <2> QED
    BY <1>n, <2>1, FS_CardinalityType, FS_EmptySet
<1>1. 0 \in N
  <2> DEFINE f == [S \in D |-> base]
  <2>1. f \in [D -> T]
    OBVIOUS
  <2>2. Good(f, 0)
    BY <1>0
  <2> QED
    BY <2>1, <2>2
<1>2. ASSUME NEW k \in N PROVE k + 1 \in N
  <2>1. PICK f \in [D -> T] : Good(f, k)
    OBVIOUS
  <2> DEFINE g == [S \in D |-> Step(f, S)]
  <2>2. ASSUME NEW S \in D, S # {}
        PROVE  Max(S) \in S /\ Max(S) \in 1..n /\ S \ {Max(S)} \in D
    BY <2>2, MaxPicked
  <2>3. g \in [D -> T]
    BY <2>2
  <2>4. ASSUME NEW S \in D, Cardinality(S) <= k + 1 PROVE g[S] = Step(g, S)
    <3>1. CASE S = {}
      BY <3>1
    <3>2. CASE S # {}
      <4> DEFINE R == S \ {Max(S)}
      <4>1. R \in D /\ Cardinality(R) = Cardinality(S) - 1
        BY <3>2, <2>2, <1>0, FS_RemoveElement
      <4>2. Cardinality(R) <= k
        BY <4>1, <2>4, <1>0
      <4>3. f[R] = Step(f, R)
        BY <4>1, <4>2, <2>1
      <4>4. g[R] = Step(f, R)
        BY <4>1
      <4>5. g[S] = step[<<Max(S), f[R]>>]
        BY <3>2
      <4> QED
        BY <3>2, <4>3, <4>4, <4>5
    <3> QED
      BY <3>1, <3>2
  <2>5. k + 1 \in Nat
    OBVIOUS
  <2> HIDE DEF g, Step
  <2>6. Good(g, k + 1)
    BY <2>4
  <2> HIDE DEF Good
  <2> QED
    BY <2>3, <2>5, <2>6
<1>3. N = Nat
  <2> HIDE DEF N
  <2>1. N \in SUBSET Nat
    BY DEF N
  <2> QED
    BY <1>1, <1>2, <2>1, Counting
<1>4. PICK f \in [D -> T] : Good(f, n)
  BY <1>3
<1>5. ASSUME NEW S \in D PROVE f[S] = Step(f, S)
  BY <1>0, <1>4
<1> QED
  BY <1>5 DEF Folds

\* Appending adds one element.
LEMMA Appended ==
    ASSUME NEW T, NEW s \in Seq(T), NEW o \in T
    PROVE  Append(s, o) \in Seq(T) /\ ToSet(Append(s, o)) = ToSet(s) \cup {o}
<1>1. /\ DOMAIN Append(s, o) = DOMAIN s \cup {Len(s) + 1}
      /\ \A i \in DOMAIN s : Append(s, o)[i] = s[i]
      /\ Append(s, o)[Len(s) + 1] = o
      /\ Append(s, o) \in Seq(T)
  OBVIOUS
<1>2. \A i \in DOMAIN s : i # Len(s) + 1
  OBVIOUS
<1> QED
  BY <1>1, <1>2 DEF ToSet

\* The operations of a sequence that are in a set, no others.
LEMMA AmongIs ==
    ASSUME NEW s \in Seq(Operations), NEW S
    PROVE  /\ Among(s, S) \in Seq(Operations)
           /\ ToSet(Among(s, S)) = ToSet(s) \cap S
<1> DEFINE n == Len(s)
           T == Seq(Operations)
           Keep(kept, o) == IF o \in S THEN Append(kept, o) ELSE kept
           Is(f) == f = [I \in SUBSET (1..n) |->
                           IF I = {} THEN <<>> ELSE Keep(f[I \ {Max(I)}], s[Max(I)])]
           F == CHOOSE f : Is(f)
<1>0. n \in Nat /\ DOMAIN s = 1..n /\ \A i \in 1..n : s[i] \in Operations
  OBVIOUS
<1>1. Among(s, S) = F[1..n]
  BY <1>0 DEF Among, FoldLeft, MapThenFoldSet
<1>2. Is(F)
  <2> DEFINE step == [x \in (1..n) \X T |-> Keep(x[2], s[x[1]])]
  <2>1. step \in [(1..n) \X T -> T] /\ <<>> \in T
    BY <1>0
  <2>2. PICK f \in [SUBSET (1..n) -> T] : Folds(f, n, <<>>, step)
    <3> HIDE DEF step, T, n
    <3> QED
      BY <1>0, <2>1, FoldExists
  <2>3. ASSUME NEW I \in SUBSET (1..n), I # {}
        PROVE  step[<<Max(I), f[I \ {Max(I)}]>>] = Keep(f[I \ {Max(I)}], s[Max(I)])
    <3>1. Max(I) \in 1..n /\ I \ {Max(I)} \in SUBSET (1..n)
      BY <1>0, <2>3, MaxPicked
    <3>2. f[I \ {Max(I)}] \in T
      BY <3>1
    <3> HIDE DEF T, n
    <3> QED
      BY <3>1, <3>2
  <2>4. Is(f)
    BY <2>2, <2>3 DEF Folds
  <2> HIDE DEF Is
  <2> QED
    BY <2>4
<1>3. \A I \in SUBSET (1..n) :
         F[I] = IF I = {} THEN <<>> ELSE Keep(F[I \ {Max(I)}], s[Max(I)])
  <2> HIDE DEF F
  <2> QED
    BY <1>2
<1> HIDE DEF F
<1>4. F[1..0] = <<>> /\ \A k \in 1..n : F[1..k] = Keep(F[1..(k - 1)], s[k])
  <2>1. ASSUME NEW k \in 1..n PROVE F[1..k] = Keep(F[1..(k - 1)], s[k])
    <3> HIDE DEF n, Keep
    <3>1. 1..k \in SUBSET (1..n) /\ 1..k # {} /\ k \in Nat \ {0}
      BY <1>0
    <3>2. Max(1..k) = k /\ (1..k) \ {Max(1..k)} = 1..(k - 1)
      BY <3>1, Highest
    <3> QED
      BY <3>1, <3>2, <1>3
  <2>2. 1..0 = {}
    OBVIOUS
  <2> QED
    BY <2>1, <2>2, <1>3
<1> DEFINE U == {k \in 0..n : /\ F[1..k] \in T
                              /\ ToSet(F[1..k]) = {s[i] : i \in 1..k} \cap S}
<1>5. 0 \in U
  <2>1. 0 \in 0..n /\ ToSet(<<>>) = {} /\ {s[i] : i \in 1..0} = {} /\ <<>> \in T
    BY <1>0 DEF ToSet
  <2> HIDE DEF T, n
  <2> QED
    BY <1>4, <2>1
<1>6. ASSUME NEW k \in 0..(n - 1), k \in U PROVE k + 1 \in U
  <2> DEFINE kept == F[1..k]
             o == s[k + 1]
  <2>0. k + 1 \in 1..n /\ k + 1 \in 0..n /\ (k + 1) - 1 = k
    <3> HIDE DEF n, U
    <3> QED
      BY <1>0
  <2>1. F[1..(k + 1)] = Keep(kept, o) /\ o \in Operations
    <3> HIDE DEF n, U, Keep
    <3> QED
      BY <1>0, <1>4, <2>0
  <2>2. {s[i] : i \in 1..(k + 1)} = {s[i] : i \in 1..k} \cup {o}
    <3>1. 1..(k + 1) = (1..k) \cup {k + 1}
      BY <1>0
    <3> QED
      BY <3>1
  <2>3. kept \in T /\ ToSet(kept) = {s[i] : i \in 1..k} \cap S
    BY <1>6
  <2> HIDE DEF kept, o
  <2>4. Append(kept, o) \in T /\ ToSet(Append(kept, o)) = ToSet(kept) \cup {o}
    BY <2>1, <2>3, Appended
  <2> QED
    BY <2>0, <2>1, <2>2, <2>3, <2>4
<1>7. n \in U
  <2> HIDE DEF U, n
  <2> QED
    BY <1>0, <1>5, <1>6, CountingUpTo
<1> QED
  BY <1>0, <1>1, <1>7 DEF ToSet

CopiesType == [Positions -> Copies]

\* An optimistic edit leaves a snapshot a snapshot.
LEMMA OptimisticType ==
    ASSUME NEW copies \in CopiesType, NEW o \in Operations
    PROVE  Optimistic(copies, o) \in CopiesType
<1>1. /\ o.id \in Writers /\ o.position \in Positions /\ o.base + 1 \in Nat
      /\ o.keys \in SUBSET Permissions /\ o.kind \in Kinds
  BY DEF Operations, Writers
<1>2. copies[o.position] \in Copies /\ Unlisted \in Copies
  BY <1>1 DEF CopiesType, Unlisted, Copies, Writers
<1>3. CASE o.kind = "upsert"
  <2>1. Optimistic(copies, o) =
          [copies EXCEPT ![o.position].revision = o.base + 1, ![o.position].writer = o.id]
    BY <1>3 DEF Optimistic
  <2>2. Optimistic(copies, o) =
          [copies EXCEPT ![o.position] = [copies[o.position] EXCEPT !.revision = o.base + 1, !.writer = o.id]]
    BY <2>1, <1>1, <1>2 DEF CopiesType
  <2>3. [copies[o.position] EXCEPT !.revision = o.base + 1, !.writer = o.id] \in Copies
    BY <1>1, <1>2 DEF Copies
  <2> QED
    BY <2>2, <2>3 DEF CopiesType
<1>4. CASE o.kind = "replace"
  <2>1. \/ Optimistic(copies, o) = copies
        \/ Optimistic(copies, o) = [copies EXCEPT ![o.position] =
                                     [revision |-> o.base + 1, keys |-> o.keys, writer |-> o.id]]
    BY <1>4 DEF Optimistic
  <2>2. [revision |-> o.base + 1, keys |-> o.keys, writer |-> o.id] \in Copies
    BY <1>1 DEF Copies
  <2> QED
    BY <2>1, <2>2 DEF CopiesType
<1>5. CASE o.kind = "delete"
  <2>1. Optimistic(copies, o) = [copies EXCEPT ![o.position] = Unlisted]
    BY <1>5 DEF Optimistic
  <2> QED
    BY <2>1, <1>2 DEF CopiesType
<1> QED
  BY <1>1, <1>3, <1>4, <1>5 DEF Kinds

\* Applying a queue on top of a snapshot gives a snapshot.
LEMMA OnTopType ==
    ASSUME NEW copies \in CopiesType, NEW s \in Seq(Operations)
    PROVE  OnTop(copies, s) \in CopiesType
<1> DEFINE n == Len(s)
           Is(f) == f = [I \in SUBSET (1..n) |->
                           IF I = {} THEN copies ELSE Optimistic(f[I \ {Max(I)}], s[Max(I)])]
           F == CHOOSE f : Is(f)
<1>0. n \in Nat /\ DOMAIN s = 1..n /\ \A i \in 1..n : s[i] \in Operations
  OBVIOUS
<1>1. OnTop(copies, s) = F[1..n]
  BY <1>0 DEF OnTop, FoldLeft, MapThenFoldSet
<1>2. Is(F)
  <2> DEFINE step == [x \in (1..n) \X CopiesType |-> Optimistic(x[2], s[x[1]])]
  <2>1. step \in [(1..n) \X CopiesType -> CopiesType]
    BY <1>0, OptimisticType
  <2>2. PICK f \in [SUBSET (1..n) -> CopiesType] : Folds(f, n, copies, step)
    <3> HIDE DEF step, n
    <3> QED
      BY <1>0, <2>1, FoldExists
  <2>3. ASSUME NEW I \in SUBSET (1..n), I # {}
        PROVE  step[<<Max(I), f[I \ {Max(I)}]>>] = Optimistic(f[I \ {Max(I)}], s[Max(I)])
    <3>1. Max(I) \in 1..n /\ I \ {Max(I)} \in SUBSET (1..n)
      BY <1>0, <2>3, MaxPicked
    <3>2. f[I \ {Max(I)}] \in CopiesType
      BY <3>1
    <3> HIDE DEF n
    <3> QED
      BY <3>1, <3>2
  <2>4. Is(f)
    BY <2>2, <2>3 DEF Folds
  <2> HIDE DEF Is
  <2> QED
    BY <2>4
<1>3. \A I \in SUBSET (1..n) :
         F[I] = IF I = {} THEN copies ELSE Optimistic(F[I \ {Max(I)}], s[Max(I)])
  <2> HIDE DEF F
  <2> QED
    BY <1>2
<1> HIDE DEF F, n
<1> DEFINE U == {k \in 0..n : F[1..k] \in CopiesType}
<1>5. 0 \in U
  <2>1. 1..0 = {} /\ 0 \in 0..n
    BY <1>0
  <2> QED
    BY <2>1, <1>3
<1>6. ASSUME NEW k \in 0..(n - 1), k \in U PROVE k + 1 \in U
  <2>1. /\ 1..(k + 1) \in SUBSET (1..n) /\ 1..(k + 1) # {}
        /\ k + 1 \in 1..n /\ k + 1 \in 0..n
        /\ Max(1..(k + 1)) = k + 1 /\ (1..(k + 1)) \ {Max(1..(k + 1))} = 1..k
    <3> HIDE DEF U
    <3> QED
      BY <1>0, OneOn
  <2>3. F[1..(k + 1)] = Optimistic(F[1..k], s[k + 1])
    BY <2>1, <1>3
  <2> QED
    BY <2>1, <2>3, <1>0, <1>6, OptimisticType
<1>7. n \in U
  <2> HIDE DEF U
  <2> QED
    BY <1>0, <1>5, <1>6, CountingUpTo
<1> QED
  BY <1>1, <1>7

\* Rebasing changes what an operation was prepared on, not what it is.
LEMMA RebasedType ==
    ASSUME NEW copies \in CopiesType, NEW o \in Operations
    PROVE  Rebased(o, copies[o.position]) \in Operations
           /\ Rebased(o, copies[o.position]).id = o.id
<1>1. copies[o.position] \in Copies
  BY DEF CopiesType, Operations
<1> QED
  BY <1>1 DEF Rebased, Operations, Copies, Writers

\* Rebasing a queue changes neither the operations' order nor their ids.
LEMMA RebasedOnIs ==
    ASSUME NEW copies \in CopiesType, NEW s \in Seq(Operations)
    PROVE  /\ RebasedOn(copies, s).copies \in CopiesType
           /\ RebasedOn(copies, s).operations \in Seq(Operations)
           /\ DOMAIN RebasedOn(copies, s).operations = DOMAIN s
           /\ \A i \in DOMAIN s : RebasedOn(copies, s).operations[i].id = s[i].id
<1> DEFINE n == Len(s)
           T == [copies : CopiesType, operations : Seq(Operations)]
           base == [copies |-> copies, operations |-> <<>>]
           Is(f) == f = [I \in SUBSET (1..n) |->
                           IF I = {} THEN base ELSE RebasedAfter(f[I \ {Max(I)}], s[Max(I)])]
           F == CHOOSE f : Is(f)
<1>0. n \in Nat /\ DOMAIN s = 1..n /\ \A i \in 1..n : s[i] \in Operations
  OBVIOUS
<1>1. RebasedOn(copies, s) = F[1..n]
  BY <1>0 DEF RebasedOn, FoldLeft, MapThenFoldSet
<1>a. ASSUME NEW st \in T, NEW o \in Operations
      PROVE  /\ RebasedAfter(st, o) \in T
             /\ \E next \in Operations :
                   next.id = o.id /\ RebasedAfter(st, o).operations = Append(st.operations, next)
  <2> DEFINE next == IF o.blocked = "yes" THEN Rebased(o, st.copies[o.position]) ELSE o
  <2>1. st.copies \in CopiesType /\ st.operations \in Seq(Operations)
    OBVIOUS
  <2>2. next \in Operations /\ next.id = o.id
    BY <2>1, RebasedType
  <2>3. RebasedAfter(st, o) = [copies |-> Optimistic(st.copies, next),
                               operations |-> Append(st.operations, next)]
    BY DEF RebasedAfter
  <2> HIDE DEF next
  <2>4. Optimistic(st.copies, next) \in CopiesType
    BY <2>1, <2>2, OptimisticType
  <2>5. Append(st.operations, next) \in Seq(Operations)
    BY <2>1, <2>2
  <2> QED
    BY <2>2, <2>3, <2>4, <2>5
<1>2. Is(F)
  <2> DEFINE step == [x \in (1..n) \X T |-> RebasedAfter(x[2], s[x[1]])]
  <2>1. step \in [(1..n) \X T -> T] /\ base \in T
    <3>1. base \in T
      OBVIOUS
    <3>2. \A x \in (1..n) \X T : RebasedAfter(x[2], s[x[1]]) \in T
      <4> HIDE DEF T, n
      <4> QED
        BY <1>0, <1>a
    <3> HIDE DEF T, n
    <3> QED
      BY <3>1, <3>2
  <2>2. PICK f \in [SUBSET (1..n) -> T] : Folds(f, n, base, step)
    <3> HIDE DEF step, T, n, base
    <3> QED
      BY <1>0, <2>1, FoldExists
  <2>3. ASSUME NEW I \in SUBSET (1..n), I # {}
        PROVE  step[<<Max(I), f[I \ {Max(I)}]>>] = RebasedAfter(f[I \ {Max(I)}], s[Max(I)])
    <3>1. Max(I) \in 1..n /\ I \ {Max(I)} \in SUBSET (1..n)
      BY <1>0, <2>3, MaxPicked
    <3>2. f[I \ {Max(I)}] \in T
      BY <3>1
    <3> HIDE DEF T, n
    <3> QED
      BY <3>1, <3>2
  <2>4. Is(f)
    <3> HIDE DEF base, step, T, n
    <3> QED
      BY <2>2, <2>3 DEF Folds
  <2> HIDE DEF Is
  <2> QED
    BY <2>4
<1>3. \A I \in SUBSET (1..n) :
         F[I] = IF I = {} THEN base ELSE RebasedAfter(F[I \ {Max(I)}], s[Max(I)])
  <2> HIDE DEF F, base
  <2> QED
    BY <1>2
<1> HIDE DEF F, n
<1> DEFINE Like(st, k) == /\ st \in T
                          /\ Len(st.operations) = k
                          /\ \A i \in 1..k : st.operations[i].id = s[i].id
           U == {k \in 0..n : Like(F[1..k], k)}
<1>5. 0 \in U
  <2>1. 1..0 = {} /\ 0 \in 0..n
    BY <1>0
  <2>2. F[1..0] = base
    <3> HIDE DEF base
    <3> QED
      BY <2>1, <1>3
  <2>3. Like(base, 0)
    OBVIOUS
  <2> QED
    BY <2>1, <2>2, <2>3
<1>6. ASSUME NEW k \in 0..(n - 1), k \in U PROVE k + 1 \in U
  <2>1. /\ 1..(k + 1) \in SUBSET (1..n) /\ 1..(k + 1) # {}
        /\ k + 1 \in 1..n /\ k + 1 \in 0..n
        /\ Max(1..(k + 1)) = k + 1 /\ (1..(k + 1)) \ {Max(1..(k + 1))} = 1..k
    <3> HIDE DEF U
    <3> QED
      BY <1>0, OneOn
  <2>3. F[1..(k + 1)] = RebasedAfter(F[1..k], s[k + 1])
    <3> HIDE DEF base
    <3> QED
      BY <2>1, <1>3
  <2>4. Like(F[1..k], k) /\ s[k + 1] \in Operations
    BY <1>0, <1>6, <2>1
  <2> DEFINE ops == F[1..k].operations
             after == F[1..(k + 1)]
  <2>5. after \in T
    BY <2>3, <2>4, <1>a
  <2>6. PICK next \in Operations : next.id = s[k + 1].id /\ after.operations = Append(ops, next)
    <3> DEFINE st == F[1..k]
    <3>1. st \in T /\ s[k + 1] \in Operations
      BY <2>4
    <3>2. after = RebasedAfter(st, s[k + 1]) /\ ops = st.operations
      BY <2>3
    <3> HIDE DEF T, st, after, ops
    <3>3. \E next \in Operations :
             /\ next.id = s[k + 1].id
             /\ RebasedAfter(st, s[k + 1]).operations = Append(st.operations, next)
      BY <3>1, <1>a
    <3> QED
      BY <3>2, <3>3
  <2>7. ops \in Seq(Operations) /\ Len(ops) = k /\ \A i \in 1..k : ops[i].id = s[i].id
    BY <2>4
  <2> HIDE DEF ops, after
  <2>8. Len(after.operations) = k + 1
    BY <2>6, <2>7
  <2>9. ASSUME NEW i \in 1..(k + 1) PROVE after.operations[i].id = s[i].id
    <3>1. CASE i = k + 1
      BY <3>1, <2>6, <2>7
    <3>2. CASE i \in 1..k
      BY <3>2, <2>6, <2>7
    <3> QED
      BY <3>1, <3>2, <2>9
  <2> QED
    BY <2>1, <2>5, <2>8, <2>9 DEF after
<1>7. n \in U
  <2> HIDE DEF U
  <2> QED
    BY <1>0, <1>5, <1>6, CountingUpTo
<1>8. Like(RebasedOn(copies, s), n)
  BY <1>1, <1>7
<1> QED
  BY <1>0, <1>8
-----------------------------------------------------------------------------
(* Types *)

LEMMA ListedType ==
    ASSUME NEW rows \in [Positions -> Rows]
    PROVE  Listed(rows) \in CopiesType
<1>1. ASSUME NEW p \in Positions PROVE Listed(rows)[p] \in Copies
  BY DEF Listed, Rows, Copies, Unlisted, Writers
<1> QED
  BY <1>1 DEF Listed, CopiesType

LEMMA NothingType == Nothing \in CopiesType
BY DEF Nothing, CopiesType, Unlisted, Copies, Writers

LEMMA SentType ==
    ASSUME NEW s \in Seq(Operations)
    PROVE  Sent(s) \in Seq(Operations)
<1>1. \A o \in Operations : [o EXCEPT !.blocked = "no"] \in Operations
  BY DEF Operations
<1>2. \A i \in DOMAIN s : s[i] \in Operations
  OBVIOUS
<1>3. \A i \in DOMAIN s : [s[i] EXCEPT !.blocked = "no"] \in Operations
  BY <1>1, <1>2
<1> QED
  BY <1>3 DEF Sent

LEMMA MarkedType ==
    ASSUME NEW d, NEW o \in Operations
    PROVE  Marked(d, o) \in Operations /\ Marked(d, o).id = o.id
BY DEF Marked, Operations

\* What an answer adds to the results of a request.
LEMMA ResultType ==
    ASSUME NEW o \in Operations, NEW status \in {"applied", "replayed"} \cup Refusals
    PROVE  [id |-> o.id, status |-> status] \in Results
BY DEF Results, Operations

\* One lemma for each step that builds a queue or a snapshot.
LEMMA EnqueueTypes ==
    ASSUME TypeOK, ServerTypeOK', NEW d \in Devices, NEW p \in Positions, NEW kind \in Kinds,
           NEW keys \in SUBSET Permissions, Enqueue(d, p, kind, keys)
    PROVE  TypeOK'
<1> DEFINE o == [id |-> <<d, made[d] + 1>>, kind |-> kind, position |-> p,
                 base |-> snapshot[d][p].revision, keys |-> keys,
                 seen |-> snapshot[d][p].writer, blocked |-> "no"]
<1>1. snapshot[d] \in CopiesType /\ snapshot[d][p] \in Copies /\ made[d] + 1 \in Nat
  BY DEF TypeOK, CopiesType
<1>2. o \in Operations
  <2>1. <<d, made[d] + 1>> \in Ids
    BY <1>1 DEF Ids
  <2>2. snapshot[d][p].revision \in Nat /\ snapshot[d][p].writer \in Writers
    BY <1>1 DEF Copies
  <2> QED
    BY <2>1, <2>2 DEF Operations
<1>3. /\ queue' = [queue EXCEPT ![d] = Append(@, o)]
      /\ snapshot' = [snapshot EXCEPT ![d] = Optimistic(@, o)]
      /\ made' = [made EXCEPT ![d] = @ + 1]
      /\ UNCHANGED <<late, phase, request, fetched, discarded, breaks>>
  BY DEF Enqueue
<1> HIDE DEF o
<1>4. queue' \in [Devices -> Seq(Operations)]
  BY <1>2, <1>3 DEF TypeOK
<1>5. snapshot' \in [Devices -> [Positions -> Copies]]
  BY <1>1, <1>2, <1>3, OptimisticType DEF TypeOK, CopiesType
<1>6. made' \in [Devices -> Nat]
  BY <1>1, <1>3 DEF TypeOK
<1> QED
  BY <1>3, <1>4, <1>5, <1>6 DEF TypeOK, ServerTypeOK

LEMMA HandleTypes ==
    ASSUME TypeOK, ServerTypeOK', NEW d \in Devices, Handle(d)
    PROVE  TypeOK'
<1> DEFINE o == Head(request[d].todo)
<1>1. PICK status \in {"applied", "replayed"} \cup Refusals :
        request' = [request EXCEPT ![d] =
                      [todo |-> Tail(request[d].todo),
                       done |-> Append(request[d].done, [id |-> o.id, status |-> status])]]
  BY DEF Handle
<1>2. /\ request[d].todo \in Seq(Operations) /\ request[d].todo # <<>>
      /\ request[d].done \in Seq(Results)
  BY DEF Handle, TypeOK
<1>3. o \in Operations /\ Tail(request[d].todo) \in Seq(Operations)
  BY <1>2
<1>4. [id |-> o.id, status |-> status] \in Results
  BY <1>3, ResultType
<1> HIDE DEF o
<1>5. request' \in [Devices -> [todo : Seq(Operations), done : Seq(Results)]]
  BY <1>1, <1>2, <1>3, <1>4 DEF TypeOK
<1> QED
  BY <1>5 DEF TypeOK, ServerTypeOK, Handle

LEMMA SettleTypes ==
    ASSUME TypeOK, ServerTypeOK', NEW d \in Devices, Settle(d)
    PROVE  TypeOK'
<1> DEFINE kept == Among(queue[d], {o \in ToSet(queue[d]) : Kept(d, o)})
<1>1. kept \in Seq(Operations)
  BY AmongIs DEF TypeOK
<1>2. queue' = [queue EXCEPT ![d] = [i \in DOMAIN kept |-> Marked(d, kept[i])]]
  BY DEF Settle
<1> HIDE DEF kept
<1>3. [i \in DOMAIN kept |-> Marked(d, kept[i])] \in Seq(Operations)
  <2>1. \A i \in DOMAIN kept : Marked(d, kept[i]) \in Operations
    BY <1>1, MarkedType
  <2> QED
    BY <1>1, <2>1
<1>4. queue' \in [Devices -> Seq(Operations)]
  BY <1>2, <1>3 DEF TypeOK
<1>5. request' \in [Devices -> [todo : Seq(Operations), done : Seq(Results)]]
  BY DEF Settle, TypeOK, NoRequest
<1> QED
  BY <1>4, <1>5 DEF TypeOK, ServerTypeOK, Settle

LEMMA RebaseTypes ==
    ASSUME TypeOK, ServerTypeOK', NEW d \in Devices, RebaseBlocked(d)
    PROVE  TypeOK'
<1> DEFINE rebased == RebasedOn(Listed(positions'), queue[d])
<1>1. /\ queue' = [queue EXCEPT ![d] = rebased.operations]
      /\ snapshot' = [snapshot EXCEPT ![d] = rebased.copies]
  BY DEF RebaseBlocked
<1>2. Listed(positions') \in CopiesType
  BY ListedType DEF ServerTypeOK
<1>3. rebased.copies \in CopiesType /\ rebased.operations \in Seq(Operations)
  BY <1>2, RebasedOnIs DEF TypeOK
<1> HIDE DEF rebased
<1> QED
  BY <1>1, <1>3 DEF TypeOK, ServerTypeOK, CopiesType, RebaseBlocked

\* A device that gives a request up leaves the rest of it to the server.
LEMMA AbandonedTypes ==
    ASSUME TypeOK, NEW d \in Devices, Abandoned(d)
    PROVE  late' \in [Devices -> Seq(Operations)]
BY DEF Abandoned, TypeOK

\* Every snapshot, queue, request and row has its type, on any number of
\* devices and however far they are apart from the server.
THEOREM ConsoleTypeCorrect == Spec => []TypeOK
<1>1. Init => TypeOK
  <2> SUFFICES ASSUME Init PROVE TypeOK
    OBVIOUS
  <2>1. positions \in [Positions -> Rows] /\ audit \in Seq(Entries)
    BY InitServer DEF ServerInv, ServerTypeOK
  <2>2. snapshot \in [Devices -> [Positions -> Copies]]
    BY <2>1, ListedType DEF Init, CopiesType
  <2>3. fetched \in [Devices -> [Positions -> Copies]]
    BY NothingType DEF Init, CopiesType
  <2>4. NoRequest \in [todo : Seq(Operations), done : Seq(Results)]
    BY DEF NoRequest
  <2>5. /\ request \in [Devices -> [todo : Seq(Operations), done : Seq(Results)]]
        /\ late \in [Devices -> Seq(Operations)] /\ queue \in [Devices -> Seq(Operations)]
    BY <2>4 DEF Init
  <2>6. /\ made \in [Devices -> Nat] /\ breaks \in Nat /\ discarded \subseteq Ids
    BY DEF Init
  <2>7. phase \in [Devices -> {"idle", "posting", "settled", "fetching", "starting", "started"}]
    BY DEF Init
  <2> QED
    BY <2>1, <2>2, <2>3, <2>5, <2>6, <2>7 DEF TypeOK
<1>2. TypeOK /\ ServerInv' /\ [Next]_vars => TypeOK'
  <2> SUFFICES ASSUME TypeOK, ServerTypeOK', [Next]_vars PROVE TypeOK'
    BY DEF ServerInv
  <2>1. ASSUME NEW d \in Devices, NEW p \in Positions,
               Edit(d, p) \/ Create(d, p) \/ Grant(d, p) \/ Delete(d, p)
        PROVE  TypeOK'
    <3>1. PICK kind \in Kinds, keys \in SUBSET Permissions : Enqueue(d, p, kind, keys)
      BY <2>1 DEF Edit, Create, Grant, Delete, Kinds
    <3> QED
      BY <3>1, EnqueueTypes
  <2>2. ASSUME NEW d \in Devices, RebaseBlocked(d) PROVE TypeOK'
    BY <2>2, RebaseTypes
  <2>3. ASSUME NEW d \in Devices, DiscardBlocked(d) PROVE TypeOK'
    <3>1. queue[d] \in Seq(Operations) /\ Unblocked(queue[d]) \in Seq(Operations)
      BY AmongIs DEF TypeOK, Unblocked
    <3>2. queue' \in [Devices -> Seq(Operations)]
      BY <2>3, <3>1 DEF DiscardBlocked, TypeOK
    <3>3. discarded' \subseteq Ids
      <4>1. \A o \in Blocked(queue[d]) : o.id \in Ids
        <5>1. \A i \in DOMAIN queue[d] : queue[d][i] \in Operations
          BY <3>1
        <5>2. Blocked(queue[d]) \subseteq Operations
          BY <5>1 DEF Blocked, ToSet
        <5> QED
          BY <5>2 DEF Operations
      <4> QED
        BY <2>3, <4>1 DEF DiscardBlocked, TypeOK
    <3>4. phase' \in [Devices -> {"idle", "posting", "settled", "fetching", "starting", "started"}]
      BY <2>3 DEF DiscardBlocked, TypeOK
    <3> QED
      BY <2>3, <3>2, <3>3, <3>4 DEF DiscardBlocked, TypeOK, ServerTypeOK
  <2>4. ASSUME NEW d \in Devices, Post(d) PROVE TypeOK'
    <3>1. Sent(queue[d]) \in Seq(Operations)
      BY SentType DEF TypeOK
    <3>2. request' \in [Devices -> [todo : Seq(Operations), done : Seq(Results)]]
      BY <2>4, <3>1 DEF Post, TypeOK
    <3> QED
      BY <2>4, <3>2 DEF Post, TypeOK, ServerTypeOK
  <2>5. ASSUME NEW d \in Devices, Handle(d) PROVE TypeOK'
    BY <2>5, HandleTypes
  <2>6. ASSUME NEW d \in Devices, HandleLate(d) PROVE TypeOK'
    <3>1. late' \in [Devices -> Seq(Operations)]
      BY <2>6 DEF HandleLate, TypeOK
    <3> QED
      BY <2>6, <3>1 DEF HandleLate, deviceVars, TypeOK, ServerTypeOK
  <2>7. ASSUME NEW d \in Devices, Settle(d) PROVE TypeOK'
    BY <2>7, SettleTypes
  <2>8. ASSUME NEW d \in Devices, Fetch(d) PROVE TypeOK'
    <3>1. Listed(positions') \in CopiesType
      BY ListedType DEF ServerTypeOK
    <3>2. fetched' \in [Devices -> [Positions -> Copies]]
      BY <2>8, <3>1 DEF Fetch, TypeOK, CopiesType
    <3> QED
      BY <2>8, <3>2 DEF Fetch, TypeOK, ServerTypeOK
  <2>9. ASSUME NEW d \in Devices, Install(d) PROVE TypeOK'
    <3>1. OnTop(fetched[d], queue[d]) \in CopiesType
      BY OnTopType DEF TypeOK, CopiesType
    <3>2. snapshot' \in [Devices -> [Positions -> Copies]]
      BY <2>9, <3>1 DEF Install, TypeOK, CopiesType
    <3>3. fetched' \in [Devices -> [Positions -> Copies]]
      BY <2>9, NothingType DEF Install, TypeOK, CopiesType
    <3> QED
      BY <2>9, <3>2, <3>3 DEF Install, TypeOK, ServerTypeOK
  <2>10. ASSUME NEW d \in Devices, GiveUp(d) \/ Reload(d) PROVE TypeOK'
    <3>1. late' \in [Devices -> Seq(Operations)]
      BY <2>10, AbandonedTypes DEF GiveUp, Reload
    <3>2. fetched' \in [Devices -> [Positions -> Copies]]
      BY <2>10, NothingType DEF GiveUp, Reload, TypeOK, CopiesType
    <3>3. request' \in [Devices -> [todo : Seq(Operations), done : Seq(Results)]]
      <4>1. request' = [request EXCEPT ![d] = NoRequest]
        BY <2>10 DEF GiveUp, Reload
      <4>2. NoRequest \in [todo : Seq(Operations), done : Seq(Results)]
        BY DEF NoRequest
      <4> QED
        BY <4>1, <4>2 DEF TypeOK
    <3>4. breaks' \in Nat
      BY <2>10 DEF GiveUp, Reload, Broken, TypeOK
    <3>5. phase' \in [Devices -> {"idle", "posting", "settled", "fetching", "starting", "started"}]
      BY <2>10 DEF GiveUp, Reload, TypeOK
    <3> QED
      BY <2>10, <3>1, <3>2, <3>3, <3>4, <3>5 DEF GiveUp, Reload, TypeOK, ServerTypeOK
  <2>11. CASE UNCHANGED vars
    BY <2>11 DEF vars, serverVars, deviceVars, TypeOK
  <2> QED
    BY <2>1, <2>2, <2>3, <2>4, <2>5, <2>6, <2>7, <2>8, <2>9, <2>10, <2>11 DEF Next, User
<1> QED
  BY <1>1, <1>2, ServerInvariant, PTL DEF Spec
-----------------------------------------------------------------------------
(* Nothing a user has queued is lost *)

\* The receipts behind what was answered, and what NothingLost promises.
DeliveryInv == NothingLost /\ AnsweredInv

\* A receipt is never taken back, and what is called applied has one.
LEMMA ReceiptsGrow ==
    ASSUME ServerTypeOK, NEW o, NEW status, Answer(o, status)
    PROVE  /\ \A id : Receipted(id) => Receipted(id)'
           /\ status \in {"applied", "replayed"} => Receipted(o.id)'
<1>1. CASE UNCHANGED audit
  <2>1. \A id : Receipted(id)' <=> Receipted(id)
    BY <1>1 DEF Receipted
  <2>2. status # "applied"
    <3> SUFFICES ASSUME status = "applied" PROVE FALSE
      OBVIOUS
    <3>1. audit' = Append(audit, [operation |-> o, over |-> positions[o.position].writer])
      BY DEF Answer
    <3>2. Len(audit') = Len(audit) + 1 /\ Len(audit) \in Nat
      BY <3>1 DEF ServerTypeOK
    <3> QED
      BY <3>2, <1>1
  <2> QED
    BY <2>1, <2>2 DEF Answer
<1>2. CASE ~UNCHANGED audit
  <2> DEFINE entry == [operation |-> o, over |-> positions[o.position].writer]
  <2>1. audit' = Append(audit, entry)
    BY <1>2 DEF Answer, serverVars
  <2>2. entry.operation = o
    OBVIOUS
  <2> HIDE DEF entry
  <2>3. /\ DOMAIN audit' = DOMAIN audit \cup {Len(audit) + 1}
        /\ \A i \in DOMAIN audit : audit'[i] = audit[i]
        /\ audit'[Len(audit) + 1] = entry
    BY <2>1 DEF ServerTypeOK
  <2>4. \A id : Receipted(id) => Receipted(id)'
    BY <2>3 DEF Receipted
  <2>5. Receipted(o.id)'
    BY <2>2, <2>3 DEF Receipted
  <2> QED
    BY <2>4, <2>5
<1> QED
  BY <1>1, <1>2

\* NothingLost survives a step in which every operation that leaves a queue
\* has a receipt or was discarded.
LEMMA StillThere ==
    ASSUME NothingLost, made' = made, discarded \subseteq discarded',
           \A id : Receipted(id) => Receipted(id)',
           \A d \in Devices : \A o \in ToSet(queue[d]) :
              \/ \E q \in ToSet(queue'[d]) : q.id = o.id
              \/ Receipted(o.id)'
              \/ o.id \in discarded'
    PROVE  NothingLost'
<1> SUFFICES ASSUME NEW d \in Devices, NEW n \in 1..made[d]
             PROVE  \/ \E o \in ToSet(queue'[d]) : o.id = <<d, n>>
                    \/ Receipted(<<d, n>>)'
                    \/ <<d, n>> \in discarded'
  BY DEF NothingLost
<1>1. CASE \E o \in ToSet(queue[d]) : o.id = <<d, n>>
  BY <1>1
<1>2. CASE Receipted(<<d, n>>) \/ <<d, n>> \in discarded
  BY <1>2
<1> QED
  BY <1>1, <1>2 DEF NothingLost

\* The queues are as they were, and so are the answers, or there are fewer.
LEMMA DeliveryIdle ==
    ASSUME DeliveryInv, UNCHANGED <<queue, made, discarded, audit>>,
           \A d \in Devices : ToSet(request'[d].done) \subseteq ToSet(request[d].done)
    PROVE  DeliveryInv'
<1>1. \A id : Receipted(id)' <=> Receipted(id)
  BY DEF Receipted
<1>2. NothingLost'
  BY <1>1, StillThere DEF DeliveryInv
<1>3. AnsweredInv'
  BY <1>1 DEF DeliveryInv, AnsweredInv
<1> QED
  BY <1>2, <1>3 DEF DeliveryInv

\* The answers are kept, and no receipt is taken back.
LEMMA AnswersKept ==
    ASSUME AnsweredInv, \A id : Receipted(id) => Receipted(id)', request' = request
    PROVE  AnsweredInv'
BY DEF AnsweredInv

\* Each step that changes a queue keeps the promise.
LEMMA EnqueueDelivers ==
    ASSUME TypeOK, TypeOK', DeliveryInv, NEW d \in Devices, NEW p \in Positions,
           NEW kind \in Kinds, NEW keys \in SUBSET Permissions, Enqueue(d, p, kind, keys)
    PROVE  DeliveryInv'
<1> DEFINE o == [id |-> <<d, made[d] + 1>>, kind |-> kind, position |-> p,
                 base |-> snapshot[d][p].revision, keys |-> keys,
                 seen |-> snapshot[d][p].writer, blocked |-> "no"]
<1>1. /\ queue' = [queue EXCEPT ![d] = Append(queue[d], o)]
      /\ made' = [made EXCEPT ![d] = made[d] + 1]
      /\ UNCHANGED <<audit, discarded, request>>
  BY DEF Enqueue, serverVars
<1>2. o.id = <<d, made[d] + 1>>
  OBVIOUS
<1> HIDE DEF o
<1>3. queue[d] \in Seq(Operations) /\ made[d] \in Nat
  BY DEF TypeOK
<1>4. ToSet(queue'[d]) = ToSet(queue[d]) \cup {o}
  <2>1. queue'[d] = Append(queue[d], o)
    BY <1>1 DEF TypeOK
  <2>2. queue[d] \in Seq(Operations \cup {o}) /\ o \in Operations \cup {o}
    BY <1>3
  <2> QED
    BY <2>1, <2>2, Appended
<1>5. \A id : Receipted(id)' <=> Receipted(id)
  BY <1>1 DEF Receipted
<1>6. ASSUME NEW e \in Devices, NEW n \in 1..made'[e]
      PROVE  \/ \E q \in ToSet(queue'[e]) : q.id = <<e, n>>
             \/ Receipted(<<e, n>>)'
             \/ <<e, n>> \in discarded'
  <2>1. CASE e # d
    <3>1. queue'[e] = queue[e] /\ made'[e] = made[e]
      BY <2>1, <1>1 DEF TypeOK
    <3> QED
      BY <3>1, <1>1, <1>5 DEF DeliveryInv, NothingLost
  <2>2. CASE e = d /\ n = made[d] + 1
    BY <2>2, <1>2, <1>4
  <2>3. CASE e = d /\ n # made[d] + 1
    <3>1. made'[d] = made[d] + 1
      BY <1>1 DEF TypeOK
    <3>2. n \in 1..made[d]
      BY <2>3, <3>1, <1>3
    <3> QED
      BY <2>3, <3>2, <1>1, <1>4, <1>5 DEF DeliveryInv, NothingLost
  <2> QED
    BY <2>1, <2>2, <2>3
<1>7. NothingLost'
  BY <1>6 DEF NothingLost
<1>8. AnsweredInv'
  BY <1>1, <1>5, AnswersKept DEF DeliveryInv
<1> QED
  BY <1>7, <1>8 DEF DeliveryInv

LEMMA HandleDelivers ==
    ASSUME TypeOK, ServerTypeOK, DeliveryInv, NEW d \in Devices, Handle(d)
    PROVE  DeliveryInv'
<1>0. PICK o : o = Head(request[d].todo)
  OBVIOUS
<1>1. PICK status \in {"applied", "replayed"} \cup Refusals :
        /\ Answer(o, status)
        /\ request' = [request EXCEPT ![d] =
                        [todo |-> Tail(request[d].todo),
                         done |-> Append(request[d].done, [id |-> o.id, status |-> status])]]
  BY <1>0 DEF Handle
<1>2. UNCHANGED <<queue, made, discarded>>
  BY DEF Handle
<1>3. request[d].done \in Seq(Results) /\ request[d].todo \in Seq(Operations)
      /\ request[d].todo # <<>>
  BY DEF Handle, TypeOK
<1>4. o \in Operations
  BY <1>0, <1>3
<1> DEFINE answer == [id |-> o.id, status |-> status]
<1>5. answer \in Results
  BY <1>4, ResultType
<1>6. /\ \A id : Receipted(id) => Receipted(id)'
      /\ answer.status \in {"applied", "replayed"} => Receipted(answer.id)'
  <2>1. /\ \A id : Receipted(id) => Receipted(id)'
        /\ status \in {"applied", "replayed"} => Receipted(o.id)'
    BY <1>1, ReceiptsGrow
  <2>2. answer.id = o.id /\ answer.status = status
    OBVIOUS
  <2> QED
    BY <2>1, <2>2 DEF Receipted
<1>7. request'[d].done = Append(request[d].done, answer)
      /\ \A e \in Devices \ {d} : request'[e] = request[e]
  BY <1>1 DEF TypeOK
<1> HIDE DEF answer
<1>8. ToSet(request'[d].done) = ToSet(request[d].done) \cup {answer}
  <2> DEFINE before == request[d].done
  <2>1. before \in Seq(Results) /\ request'[d].done = Append(before, answer)
    BY <1>3, <1>7
  <2> HIDE DEF before
  <2>2. ToSet(Append(before, answer)) = ToSet(before) \cup {answer}
    BY <2>1, <1>5, Appended
  <2> QED
    BY <2>1, <2>2 DEF before
<1>9. AnsweredInv'
  <2> SUFFICES ASSUME NEW e \in Devices, NEW r \in ToSet(request'[e].done),
                      r.status \in {"applied", "replayed"}
               PROVE  Receipted(r.id)'
    BY DEF AnsweredInv
  <2>1. CASE r \in ToSet(request[e].done)
    <3>1. Receipted(r.id)
      BY <2>1 DEF DeliveryInv, AnsweredInv
    <3> QED
      BY <3>1, <1>6
  <2>2. CASE r = answer
    BY <2>2, <1>6
  <2>3. r \in ToSet(request[e].done) \/ r = answer
    BY <1>7, <1>8
  <2> QED
    BY <2>1, <2>2, <2>3
<1>10. NothingLost'
  BY <1>2, <1>6, StillThere DEF DeliveryInv
<1> QED
  BY <1>9, <1>10 DEF DeliveryInv

\* What syncQueue drops has an answer that says it was applied.
LEMMA SettleDelivers ==
    ASSUME TypeOK, DeliveryInv, NEW d \in Devices, Settle(d)
    PROVE  DeliveryInv'
<1> DEFINE wanted == {o \in ToSet(queue[d]) : Kept(d, o)}
           kept == Among(queue[d], wanted)
<1>1. /\ queue' = [queue EXCEPT ![d] = [i \in DOMAIN kept |-> Marked(d, kept[i])]]
      /\ request' = [request EXCEPT ![d] = NoRequest]
      /\ UNCHANGED <<audit, made, discarded>>
  BY DEF Settle, serverVars
<1>2. queue[d] \in Seq(Operations)
  BY DEF TypeOK
<1>3. kept \in Seq(Operations) /\ ToSet(kept) = ToSet(queue[d]) \cap wanted
  <2> HIDE DEF wanted
  <2> QED
    BY <1>2, AmongIs
<1> HIDE DEF kept
<1>4. \A id : Receipted(id)' <=> Receipted(id)
  BY <1>1 DEF Receipted
<1>5. ASSUME NEW o \in ToSet(queue[d])
      PROVE  (\E q \in ToSet(queue'[d]) : q.id = o.id) \/ Receipted(o.id)'
  <2>1. CASE Kept(d, o)
    <3>1. PICK i \in DOMAIN kept : kept[i] = o
      BY <2>1, <1>3 DEF ToSet
    <3>2. DOMAIN queue'[d] = DOMAIN kept /\ queue'[d][i] = Marked(d, o)
      BY <3>1, <1>1 DEF TypeOK
    <3>3. Marked(d, o).id = o.id
      BY <1>2, MarkedType DEF ToSet
    <3> QED
      BY <3>1, <3>2, <3>3 DEF ToSet
  <2>2. CASE ~Kept(d, o)
    <3>1. PICK r \in ToSet(request[d].done) :
            r.id = o.id /\ r.status \in {"applied", "replayed"}
      BY <2>2 DEF Kept, Outcome
    <3> QED
      BY <3>1, <1>4 DEF DeliveryInv, AnsweredInv
  <2> QED
    BY <2>1, <2>2
<1>6. \A e \in Devices \ {d} : queue'[e] = queue[e] /\ request'[e] = request[e]
  BY <1>1 DEF TypeOK
<1>7. NothingLost'
  BY <1>1, <1>4, <1>5, <1>6, StillThere DEF DeliveryInv
<1>8. ToSet(request'[d].done) = {}
  BY <1>1 DEF TypeOK, NoRequest, ToSet
<1>9. AnsweredInv'
  BY <1>4, <1>6, <1>8 DEF DeliveryInv, AnsweredInv
<1> QED
  BY <1>7, <1>9 DEF DeliveryInv

LEMMA RebaseDelivers ==
    ASSUME TypeOK, ServerTypeOK', DeliveryInv, NEW d \in Devices, RebaseBlocked(d)
    PROVE  DeliveryInv'
<1> DEFINE operations == RebasedOn(Listed(positions'), queue[d]).operations
<1>1. queue' = [queue EXCEPT ![d] = operations]
      /\ UNCHANGED <<audit, made, discarded, request>>
  BY DEF RebaseBlocked
<1>2. Listed(positions') \in CopiesType /\ queue[d] \in Seq(Operations)
  BY ListedType DEF ServerTypeOK, TypeOK
<1>3. DOMAIN operations = DOMAIN queue[d] /\ \A i \in DOMAIN queue[d] : operations[i].id = queue[d][i].id
  BY <1>2, RebasedOnIs
<1> HIDE DEF operations
<1>4. \A id : Receipted(id)' <=> Receipted(id)
  BY <1>1 DEF Receipted
<1>5. queue'[d] = operations /\ \A e \in Devices \ {d} : queue'[e] = queue[e]
  BY <1>1 DEF TypeOK
<1>6. \A o \in ToSet(queue[d]) : \E q \in ToSet(queue'[d]) : q.id = o.id
  BY <1>3, <1>5 DEF ToSet
<1>7. NothingLost'
  BY <1>1, <1>4, <1>5, <1>6, StillThere DEF DeliveryInv
<1>8. AnsweredInv'
  BY <1>1, <1>4, AnswersKept DEF DeliveryInv
<1> QED
  BY <1>7, <1>8 DEF DeliveryInv

LEMMA DiscardDelivers ==
    ASSUME TypeOK, DeliveryInv, NEW d \in Devices, DiscardBlocked(d)
    PROVE  DeliveryInv'
<1>1. /\ queue' = [queue EXCEPT ![d] = Unblocked(queue[d])]
      /\ discarded' = discarded \cup {o.id : o \in Blocked(queue[d])}
      /\ UNCHANGED <<audit, made, request>>
  BY DEF DiscardBlocked, serverVars
<1>2. ToSet(Unblocked(queue[d])) = ToSet(queue[d]) \ Blocked(queue[d])
  <2>1. queue[d] \in Seq(Operations)
    BY DEF TypeOK
  <2>2. ToSet(Unblocked(queue[d])) = ToSet(queue[d]) \cap (ToSet(queue[d]) \ Blocked(queue[d]))
    BY <2>1, AmongIs DEF Unblocked
  <2> QED
    BY <2>2
<1>3. queue'[d] = Unblocked(queue[d]) /\ \A e \in Devices \ {d} : queue'[e] = queue[e]
  BY <1>1 DEF TypeOK
<1>4. \A id : Receipted(id)' <=> Receipted(id)
  BY <1>1 DEF Receipted
<1>5. \A o \in ToSet(queue[d]) : (\E q \in ToSet(queue'[d]) : q.id = o.id) \/ o.id \in discarded'
  BY <1>1, <1>2, <1>3
<1>6. NothingLost'
  BY <1>1, <1>3, <1>4, <1>5, StillThere DEF DeliveryInv
<1>7. AnsweredInv'
  BY <1>1, <1>4, AnswersKept DEF DeliveryInv
<1> QED
  BY <1>6, <1>7 DEF DeliveryInv

\* Every operation is in its queue, has a receipt or was discarded; and what
\* the server has called applied has a receipt.
THEOREM DeliveryInvariant == Spec => []DeliveryInv
<1>1. Init => DeliveryInv
  <2> SUFFICES ASSUME Init PROVE DeliveryInv
    OBVIOUS
  <2>1. \A d \in Devices : 1..made[d] = {} /\ ToSet(request[d].done) = {}
    BY DEF Init, NoRequest, ToSet
  <2> QED
    BY <2>1 DEF DeliveryInv, NothingLost, AnsweredInv
<1>2. TypeOK /\ TypeOK' /\ DeliveryInv /\ [Next]_vars => DeliveryInv'
  <2> SUFFICES ASSUME TypeOK, TypeOK', DeliveryInv, [Next]_vars PROVE DeliveryInv'
    OBVIOUS
  <2>s. ServerTypeOK /\ ServerTypeOK'
    BY DEF TypeOK, ServerTypeOK
  <2>1. ASSUME NEW d \in Devices, NEW p \in Positions,
               Edit(d, p) \/ Create(d, p) \/ Grant(d, p) \/ Delete(d, p)
        PROVE  DeliveryInv'
    <3>1. PICK kind \in Kinds, keys \in SUBSET Permissions : Enqueue(d, p, kind, keys)
      BY <2>1 DEF Edit, Create, Grant, Delete, Kinds
    <3> QED
      BY <3>1, EnqueueDelivers
  <2>2. ASSUME NEW d \in Devices, RebaseBlocked(d) PROVE DeliveryInv'
    BY <2>2, <2>s, RebaseDelivers
  <2>3. ASSUME NEW d \in Devices, DiscardBlocked(d) PROVE DeliveryInv'
    BY <2>3, DiscardDelivers
  <2>4. ASSUME NEW d \in Devices, Post(d) PROVE DeliveryInv'
    <3>1. \A e \in Devices : ToSet(request'[e].done) \subseteq ToSet(request[e].done)
      BY <2>4 DEF Post, TypeOK, ToSet
    <3> QED
      BY <2>4, <3>1, DeliveryIdle DEF Post, serverVars
  <2>5. ASSUME NEW d \in Devices, Handle(d) PROVE DeliveryInv'
    BY <2>5, <2>s, HandleDelivers
  <2>6. ASSUME NEW d \in Devices, HandleLate(d) PROVE DeliveryInv'
    <3>1. \A id : Receipted(id) => Receipted(id)'
      BY <2>6, <2>s, ReceiptsGrow DEF HandleLate
    <3>2. UNCHANGED <<queue, made, discarded, request>>
      BY <2>6 DEF HandleLate, deviceVars
    <3> QED
      BY <3>1, <3>2, StillThere, AnswersKept DEF DeliveryInv
  <2>7. ASSUME NEW d \in Devices, Settle(d) PROVE DeliveryInv'
    BY <2>7, SettleDelivers
  <2>8. ASSUME NEW d \in Devices, Fetch(d) \/ Install(d) PROVE DeliveryInv'
    BY <2>8, DeliveryIdle DEF Fetch, Install, serverVars
  <2>9. ASSUME NEW d \in Devices, GiveUp(d) \/ Reload(d) PROVE DeliveryInv'
    <3>1. \A e \in Devices : ToSet(request'[e].done) \subseteq ToSet(request[e].done)
      <4>1. request' = [request EXCEPT ![d] = NoRequest]
        BY <2>9 DEF GiveUp, Reload
      <4>2. ToSet(NoRequest.done) = {}
        BY DEF NoRequest, ToSet
      <4> QED
        BY <4>1, <4>2 DEF TypeOK
    <3> QED
      BY <2>9, <3>1, DeliveryIdle DEF GiveUp, Reload, serverVars
  <2>10. CASE UNCHANGED vars
    BY <2>10, DeliveryIdle DEF vars, serverVars, deviceVars
  <2> QED
    BY <2>1, <2>2, <2>3, <2>4, <2>5, <2>6, <2>7, <2>8, <2>9, <2>10 DEF Next, User
<1> QED
  BY <1>1, <1>2, ConsoleTypeCorrect, PTL DEF Spec

\* What a user has queued is on the device, or applied, or he discarded it.
THEOREM NothingLostHolds == Spec => []NothingLost
<1>1. DeliveryInv => NothingLost
  BY DEF DeliveryInv
<1> QED
  BY <1>1, DeliveryInvariant, PTL
=============================================================================
