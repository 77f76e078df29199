-------------------------- MODULE MCGatewayOutbox --------------------------
(* Instances of GatewayOutbox for TLC. *)
EXTENDS GatewayOutbox, TLC

\* The workers of a batch run the same code under the same owner.
WorkerSymmetry == Permutations(Workers)
=============================================================================
