------------------------- MODULE MCReportArtifacts -------------------------
(***************************************************************************)
(* Instances of ReportArtifacts for TLC: reports are interchangeable.      *)
(***************************************************************************)
EXTENDS ReportArtifacts, TLC

ReportSymmetry == Permutations(Reports)
=============================================================================
