----------------------------- MODULE RunPromise -----------------------------
(***************************************************************************)
(* What the run lifecycle promises its clients, without leases, owners,    *)
(* approvals or retries: a run waits, executes and is closed once with a   *)
(* verdict; while it is open nobody else uses its resources; a stop that   *)
(* was accepted during execution decides the verdict; and only execution   *)
(* can succeed.                                                            *)
(***************************************************************************)
CONSTANTS Runs, Resources, Nobody

VARIABLES
    phase,    \* of each run: "unborn", "waiting", "executing" or "closed"
    stop,     \* whether an executing run was asked to stop
    verdict,  \* of each closed run
    holder    \* the open run that holds each resource

vars == <<phase, stop, verdict, holder>>

Verdicts == {"succeeded", "failed", "cancelled"}

Init ==
    /\ phase = [r \in Runs |-> "unborn"]
    /\ stop = [r \in Runs |-> FALSE]
    /\ verdict = [r \in Runs |-> "none"]
    /\ holder = [k \in Resources |-> Nobody]

Open(r, needs) ==
    /\ phase[r] = "unborn"
    /\ \A k \in needs : holder[k] = Nobody
    /\ phase' = [phase EXCEPT ![r] = "waiting"]
    /\ holder' = [k \in Resources |-> IF k \in needs THEN r ELSE holder[k]]
    /\ UNCHANGED <<stop, verdict>>

Start(r) ==
    /\ phase[r] = "waiting"
    /\ phase' = [phase EXCEPT ![r] = "executing"]
    /\ UNCHANGED <<stop, verdict, holder>>

Stop(r) ==
    /\ phase[r] = "executing"
    /\ stop' = [stop EXCEPT ![r] = TRUE]
    /\ UNCHANGED <<phase, verdict, holder>>

Close(r, v) ==
    /\ phase[r] \in {"waiting", "executing"}
    /\ v = "succeeded" => phase[r] = "executing"
    /\ stop[r] => v = "cancelled"
    /\ phase' = [phase EXCEPT ![r] = "closed"]
    /\ stop' = [stop EXCEPT ![r] = FALSE]
    /\ verdict' = [verdict EXCEPT ![r] = v]
    /\ holder' = [k \in Resources |-> IF holder[k] = r THEN Nobody ELSE holder[k]]

Next ==
    \E r \in Runs :
        \/ \E needs \in SUBSET Resources : Open(r, needs)
        \/ Start(r)
        \/ Stop(r)
        \/ \E v \in Verdicts : Close(r, v)

Spec == Init /\ [][Next]_vars
=============================================================================
