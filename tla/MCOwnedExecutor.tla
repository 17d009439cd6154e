--------------------------- MODULE MCOwnedExecutor ---------------------------
(***************************************************************************)
(* OwnedExecutor with two provider threads.                                *)
(***************************************************************************)
EXTENDS OwnedExecutor

CONSTANTS w1, w2
=============================================================================
