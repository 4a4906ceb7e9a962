------------------------- MODULE MCOrderSubmission -------------------------
(* Instances of OrderSubmission for TLC. *)
EXTENDS OrderSubmission, TLC

CONSTANTS v1, c1, c2, r1, r2

MCOneVisit == {v1}
MCTwoCarts == {c1, c2}
MCTwoRequests == {r1, r2}
MCAllModes == {"off", "prepare", "direct", "queued"}
MCDirect == {"direct"}

MCRequestSymmetry == Permutations(MCTwoRequests)
=============================================================================
