-------------------------- MODULE MCPreparedGuest --------------------------
(***************************************************************************)
(* Artifacts with overlapping active segments, a passive one that the code *)
(* uses, and one for each reason for which a data image is refused.        *)
(***************************************************************************)
EXTENDS PreparedGuest

Segment(a, o, d) == [active |-> a, offset |-> o, data |-> d]

Plain ==
  [imported |-> FALSE, start |-> FALSE, bounded |-> TRUE, min |-> 2, max |-> 3,
   segments |-> <<Segment(TRUE, 0, <<"a", "b">>), Segment(FALSE, 0, <<"c">>), Segment(TRUE, 1, <<"d">>)>>,
   refs |-> {2}]

MCModules ==
  {Plain,
   [Plain EXCEPT !.refs = {1}],
   [Plain EXCEPT !.bounded = FALSE],
   [Plain EXCEPT !.imported = TRUE],
   [Plain EXCEPT !.start = TRUE],
   [Plain EXCEPT !.segments[3].offset = 2]}
=============================================================================
