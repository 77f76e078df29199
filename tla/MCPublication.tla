---------------------------- MODULE MCPublication ----------------------------
(* Bounded instances of Publication. *)
EXTENDS Publication

CONSTANTS t1, t2
MCBaselines == {<<>>, <<t1>>}
OneBaseline == {<<>>}
=============================================================================
