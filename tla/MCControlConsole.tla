-------------------------- MODULE MCControlConsole --------------------------
(* Two devices and one position, which d1 creates or which a role brings: d1 *)
(* queues two operations, d2 one.                                            *)
EXTENDS ControlConsole

CONSTANTS d1, d2, seller, other, sell

\* _ensure_defaults_conn gives the seller role the seller's workspace.
DefaultsDef == [p \in Positions |-> IF p = seller THEN {sell} ELSE {}]
NoDefaults == [p \in Positions |-> {}]
MaxOperationsDef == [d \in Devices |-> IF d = d1 THEN 2 ELSE 1]
=============================================================================
