--------------------------- MODULE MCLiveSession ---------------------------
(***************************************************************************)
(* Instances of LiveSession for TLC: two sessions of different workspaces  *)
(* and a capture in the second's.                                          *)
(***************************************************************************)
EXTENDS LiveSession

CONSTANTS s1, s2, c1, c2, wA, wB   \* sessions, captures, workspaces

MCWorkspaceOf == [x \in Sessions \cup Captures |-> IF x \in {s1, c2} THEN wA ELSE wB]
=============================================================================
