--------------------------- MODULE EvidencePromise ---------------------------
(***************************************************************************)
(* What a discovery run promises a reader of its evidence: observations    *)
(* are accepted one by one until the run is sealed, and the seal either    *)
(* covers every accepted observation or says that it covers none.          *)
(***************************************************************************)
EXTENDS Naturals

VARIABLES
    rows,      \* accepted observations
    verdict,   \* "open" until the run is sealed
    covered    \* observations the seal stands for

vars == <<rows, verdict, covered>>

Verdicts == {"succeeded", "failed", "cancelled"}

Init ==
    /\ rows = 0
    /\ verdict = "open"
    /\ covered = 0

Accept ==
    /\ verdict = "open"
    /\ rows' = rows + 1
    /\ UNCHANGED <<verdict, covered>>

\* The whole evidence is folded into the sealed result.
SealWhole ==
    /\ verdict = "open"
    /\ verdict' \in Verdicts
    /\ covered' = rows
    /\ UNCHANGED rows

\* Damaged evidence is left out of the seal, and then nothing has succeeded.
SealNothing ==
    /\ verdict = "open"
    /\ verdict' \in {"failed", "cancelled"}
    /\ covered' = 0
    /\ UNCHANGED rows

Next == Accept \/ SealWhole \/ SealNothing

Spec == Init /\ [][Next]_vars
=============================================================================
