--------------------------- MODULE MCSessionTurn ---------------------------
(* Finite instances of SessionTurn: Tasks of one Session. *)
EXTENDS SessionTurn

CONSTANTS t1, t2
=============================================================================
