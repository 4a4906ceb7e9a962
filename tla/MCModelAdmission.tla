-------------------------- MODULE MCModelAdmission --------------------------
(* Two users on two replicas: u1 sends a call through each replica, u2 one.  *)
(* Either two of the calls fit in one day, for a user and for all, or not.   *)
EXTENDS ModelAdmission, TLC

CONSTANTS u1, u2, p1, p2, r1, r2, r3

OwnerDef == r1 :> u1 @@ r2 :> u1 @@ r3 :> u2
AtDef == r1 :> p1 @@ r2 :> p2 @@ r3 :> p1
UnitsDef == r1 :> 1 @@ r2 :> 2 @@ r3 :> 2
=============================================================================
