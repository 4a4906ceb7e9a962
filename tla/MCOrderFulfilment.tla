------------------------- MODULE MCOrderFulfilment -------------------------
(* One visit with one draft, two workers that may fail once: the submission  *)
(* can be repeated while its first command is at any stage.                  *)
EXTENDS OrderFulfilment

CONSTANTS v1, c1, c2, r1, w1, w2
=============================================================================
