---------------------------- MODULE MCRetention ----------------------------
(***************************************************************************)
(* Instances of Retention for TLC: a run of three rows that takes two      *)
(* batches of two, with a row of another run between them.                 *)
(***************************************************************************)
EXTENDS Retention

CONSTANTS r1, r2, q1, a1, a2   \* runs, a report, requests

MCRowsOf == [r \in Runs |-> IF r = r1 THEN {1, 3, 4} ELSE {2}]
=============================================================================
