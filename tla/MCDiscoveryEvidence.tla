------------------------- MODULE MCDiscoveryEvidence -------------------------
(***************************************************************************)
(* DiscoveryEvidence on a stream of at most two observations read one by   *)
(* one.                                                                    *)
(***************************************************************************)
EXTENDS DiscoveryEvidence

CONSTANTS s1   \* a sweep
=============================================================================
