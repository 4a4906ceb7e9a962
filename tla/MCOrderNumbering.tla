-------------------------- MODULE MCOrderNumbering --------------------------
(* Instances of OrderNumbering for TLC. *)
EXTENDS OrderNumbering, TLC

CONSTANTS k1, k2, s1, s2, s3, d1, d2, t1, t2

MCKeys == {k1, k2}
\* Two offices share a distribution centre and stand at the same number; a third
\* has its own centre.
MCSeries == {s1, s2, s3}
MCSpaces == {d1, d2}
MCSpaceOf == (s1 :> d1) @@ (s2 :> d1) @@ (s3 :> d2)
MCStart == (s1 :> 1) @@ (s2 :> 1) @@ (s3 :> 1)
MCSessions == {t1, t2}
\* A number the first office draws too
MCGiven == {2}

Numbers == 0..5
Rows == MCSpaces \X Numbers
\* The scan for a number locks that number only, the numbers from it on (the gap
\* behind the last one), all of the space, or all of the table.
ByNumber == {}
Onward == {r \in Rows \X Rows : r[1][1] = r[2][1] /\ r[1][2] <= r[2][2] /\ r[2][2] > 0}
BySpace == {r \in Rows \X Rows : r[1][1] = r[2][1]}
WholeTable == Rows \X Rows
MCPlans == {ByNumber, Onward, BySpace, WholeTable}
=============================================================================
