-------------------------- MODULE MCCommandOutbox --------------------------
(* Instances of CommandOutbox for TLC. *)
EXTENDS CommandOutbox, TLC

CONSTANTS k1, k2, w1, w2, p1, p2

MCTwoKeys == {k1, k2}
MCTwoWorkers == {w1, w2}
MCTwoPayloads == {p1, p2}
MCSecondKey == {k2}

MCWorkerSymmetry == Permutations(MCTwoWorkers)
=============================================================================
