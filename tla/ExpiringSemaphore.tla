-------------------------- MODULE ExpiringSemaphore --------------------------
(***************************************************************************)
(* What the admission control of model calls promises: at most Limit       *)
(* tokens hold a place at any time.  A place that is not renewed lapses,   *)
(* and its token may take a place again only if one is free; a token that  *)
(* was refused, gave its place back or lost it for good never holds one    *)
(* again.                                                                  *)
(***************************************************************************)
EXTENDS Naturals, FiniteSets

CONSTANTS Tokens, Limit

VARIABLE stage  \* "free", "held" or "over", for each token

Holders == {t \in Tokens : stage[t] = "held"}

Init == stage = [t \in Tokens |-> "free"]

Lapse(T) ==
    /\ T \subseteq Holders
    /\ stage' = [t \in Tokens |-> IF t \in T THEN "free" ELSE stage[t]]

Ended(T) == [t \in Tokens |-> IF t \in T THEN "over" ELSE stage[t]]

End(T) == stage' = Ended(T)

\* Tokens whose places have lapsed may end as another takes a place.
Take(t, T) ==
    /\ stage[t] # "over" /\ t \notin T
    /\ Cardinality(Holders \ {t}) < Limit
    /\ stage' = [Ended(T) EXCEPT ![t] = "held"]

Next == \E T \in SUBSET Tokens :
            Lapse(T) \/ End(T) \/ \E t \in Tokens : Take(t, T)

Spec == Init /\ [][Next]_stage
=============================================================================
