--------------------------- MODULE MCControllerEpoch ---------------------------
(* ControllerEpoch on small instances; controller incarnations are            *)
(* interchangeable, so runs without liveness may use them symmetrically.      *)
EXTENDS ControllerEpoch, TLC

Symmetry == Permutations(Controllers)
=============================================================================
