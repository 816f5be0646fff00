-------------------------- MODULE MCWorkspaceQuota --------------------------
(* Instances of WorkspaceQuota for TLC. *)
EXTENDS WorkspaceQuota

Symmetry == Permutations(Name) \cup Permutations(Handle)
=============================================================================
