---------------------- MODULE MCWorkspaceAttachment ----------------------
(* Bounded instances of WorkspaceAttachment. *)
EXTENDS WorkspaceAttachment

CONSTANTS w1, w2
=============================================================================
