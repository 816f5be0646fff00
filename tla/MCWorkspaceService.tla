------------------------- MODULE MCWorkspaceService -------------------------
(* The instance of WorkspaceService for TLC. *)
EXTENDS WorkspaceService
=============================================================================
