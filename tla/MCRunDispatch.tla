---------------------------- MODULE MCRunDispatch ----------------------------
(***************************************************************************)
(* Instances of RunDispatch for TLC.                                       *)
(***************************************************************************)
EXTENDS RunDispatch

CONSTANTS r1, r2, w1, w2   \* runs and workers
=============================================================================
