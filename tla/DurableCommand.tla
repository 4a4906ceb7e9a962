--------------------------- MODULE DurableCommand ---------------------------
(***************************************************************************)
(* What the outbox of Varanegar commands promises its callers, whatever    *)
(* workers, leases, retries and crashes do underneath.  A command is       *)
(* accepted with one payload; the order it asks for is registered at most  *)
(* once, with that payload; the command ends succeeded, which it may only  *)
(* once the order is registered, or given up, and both are final.          *)
(*                                                                         *)
(* An order may be registered after its command was given up: a worker     *)
(* that has lost its lease can still be inside its transaction.            *)
(***************************************************************************)
CONSTANTS Keys, Payloads, NoPayload

VARIABLES
    phase,      \* absent, open, succeeded or dead_letter, for each key
    content,    \* the payload accepted under each key
    registered  \* the orders registered in Varanegar

vars == <<phase, content, registered>>

Registration(k) == [key |-> k, payload |-> content[k]]
RegisteredKeys == {r.key : r \in registered}

Init ==
    /\ phase = [k \in Keys |-> "absent"]
    /\ content = [k \in Keys |-> NoPayload]
    /\ registered = {}

Accept(k, p) ==
    /\ phase[k] = "absent"
    /\ phase' = [phase EXCEPT ![k] = "open"]
    /\ content' = [content EXCEPT ![k] = p]
    /\ UNCHANGED registered

Register(k) ==
    /\ phase[k] \in {"open", "dead_letter"}
    /\ k \notin RegisteredKeys
    /\ registered' = registered \cup {Registration(k)}
    /\ UNCHANGED <<phase, content>>

Succeed(k) ==
    /\ phase[k] = "open"
    /\ k \in RegisteredKeys
    /\ phase' = [phase EXCEPT ![k] = "succeeded"]
    /\ UNCHANGED <<content, registered>>

GiveUp(k) ==
    /\ phase[k] = "open"
    /\ phase' = [phase EXCEPT ![k] = "dead_letter"]
    /\ UNCHANGED <<content, registered>>

Next == \E k \in Keys : Register(k) \/ Succeed(k) \/ GiveUp(k)
                        \/ \E p \in Payloads : Accept(k, p)

Spec == Init /\ [][Next]_vars
=============================================================================
