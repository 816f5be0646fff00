-------------------------- MODULE MCWorkspaceHandoff --------------------------
(***************************************************************************)
(* Instances of WorkspaceHandoff: "ab" can be read from a file that goes   *)
(* from "aa" to "bb".                                                      *)
(***************************************************************************)
EXTENDS WorkspaceHandoff

TwoPaths == <<"p", "q">>
Texts    == {<<"a", "a">>, <<"b", "b">>, <<"a", "b">>}
===============================================================================
