----------------------------- MODULE Retention -----------------------------
(***************************************************************************)
(* What may be removed of a sealed run and when: the provisional           *)
(* observation rows, deleted batch by batch by a retention job whose       *)
(* candidates were frozen by a preview; whole runs, deleted by a purge;    *)
(* the holds that stop both; and the reports whose sources must stay.      *)
(*                                                                         *)
(* Abstracted: one project and site, every run old enough and sealed, with *)
(* its rows in place. The digests that bind a proof to what it read are    *)
(* compared as the values they bind. Databases run at READ COMMITTED.      *)
(***************************************************************************)
EXTENDS Integers, FiniteSets, FiniteSetsExt, Functions

CONSTANTS
    Runs,
    Reports,        \* identifiers of report requests
    HoldTypes,      \* legal and evidence
    Appliers,       \* requests of POST /retention/observations/jobs/.../apply
    RowsOf,         \* [Runs -> SUBSET Nat]: ids of the rows the seal attests
    BatchLimit,
    None,
    MaxHolds,       \* bound on the holds placed
    MaxJobs,        \* bound on the jobs previewed
    MaxFaults       \* bound on the purges and crashes

ASSUME ConstantsAssumption ==
    /\ IsFiniteSet(Runs)
    /\ RowsOf \in [Runs -> SUBSET (Nat \ {0})]
    /\ \A r \in Runs : IsFiniteSet(RowsOf[r]) /\ RowsOf[r] # {}
    /\ \A r, s \in Runs : r # s => RowsOf[r] \cap RowsOf[s] = {}
    /\ BatchLimit \in Nat \ {0}
    /\ {MaxHolds, MaxJobs, MaxFaults} \subseteq Nat

VARIABLES
    present,    \* the runs that exist
    rows,       \* observation rows left of each run
    attested,   \* deletions the verified candidates of all jobs account for
    holds,      \* active holds of each run
    slots,      \* runs with an active protocol slot
    job,        \* the active observation retention job, if any
    applier,    \* ObservationRetentionService.apply between its transactions
    purge,      \* RetentionService.apply between its statements
    report,     \* create_report: sources read, then the row committed
    count       \* holds, jobs, purges and crashes so far

jobVars == <<rows, attested, job>>
vars == <<present, rows, attested, holds, slots, job, applier, purge, report, count>>

TerminalCursor(r) == Max(RowsOf[r])

Idle == [pc |-> "idle", window |-> {}, binding |-> None, proofs |-> {}]

Init ==
    /\ present = Runs
    /\ rows = RowsOf
    /\ attested = [r \in Runs |-> 0]
    /\ holds = [r \in Runs |-> {}]
    /\ slots \in SUBSET Runs
    /\ job = None
    /\ applier = [a \in Appliers |-> Idle]
    /\ purge = [pc |-> "idle", linked |-> {}]
    /\ report = [q \in Reports |-> [pc |-> "none", sources |-> {}]]
    /\ count = [holds |-> 0, jobs |-> 0, faults |-> 0]

Counted(kind, bound) == count[kind] < bound /\ count' = [count EXCEPT ![kind] = @ + 1]

-----------------------------------------------------------------------------
(* Holds, slots and reports.                                               *)

\* place_hold, under the lock of the run.
PlaceHold(r) ==
    /\ r \in present
    /\ Counted("holds", MaxHolds)
    /\ \E t \in HoldTypes \ holds[r] : holds' = [holds EXCEPT ![r] = @ \cup {t}]
    /\ UNCHANGED <<present, jobVars, slots, applier, purge, report>>

ReleaseHold(r) ==
    /\ \E t \in holds[r] : holds' = [holds EXCEPT ![r] = @ \ {t}]
    /\ UNCHANGED <<present, jobVars, slots, applier, purge, report, count>>

\* The executor of a sealed run gives its slot back late.
SlotReleased(r) ==
    /\ r \in slots
    /\ slots' = slots \ {r}
    /\ UNCHANGED <<present, jobVars, holds, applier, purge, report, count>>

\* create_report_run reads and verifies its sources, one transaction each, ...
ReportReadsSources(q) ==
    /\ report[q].pc = "none"
    /\ \E s \in SUBSET present \ {{}} :
            report' = [report EXCEPT ![q] = [pc |-> "read", sources |-> s]]
    /\ UNCHANGED <<present, jobVars, holds, slots, applier, purge, count>>

\* ... and commits the report's row in another.
ReportCommits(q) ==
    /\ report[q].pc = "read"
    /\ report' = [report EXCEPT ![q].pc = "committed"]
    /\ UNCHANGED <<present, jobVars, holds, slots, applier, purge, count>>

\* The report is deleted, or discarded because it could not be materialized.
ReportDeleted(q) ==
    /\ report[q].pc = "committed"
    /\ report' = [report EXCEPT ![q] = [pc |-> "deleted", sources |-> {}]]
    /\ UNCHANGED <<present, jobVars, holds, slots, applier, purge, count>>

Committed == {q \in Reports : report[q].pc = "committed"}

\* _evidence_linked_run_ids
Linked == UNION {report[q].sources : q \in Committed}

-----------------------------------------------------------------------------
(* Purge of whole runs.                                                    *)

Candidates == IF job = None THEN {} ELSE job.candidates

\* The reports are read before the runs are locked ...
PurgeReadsEvidence ==
    /\ purge.pc = "idle"
    /\ Counted("faults", MaxFaults)
    /\ purge' = [pc |-> "lock", linked |-> Linked]
    /\ UNCHANGED <<present, jobVars, holds, slots, applier, report>>

PurgeableUnlessHeld(linked) == {r \in present : r \notin linked /\ holds[r] = {}}

\* ... the holds and the candidates of the active job after it.
Purgeable(linked) ==
    {r \in present : r \notin linked /\ holds[r] = {} /\ r \notin Candidates}

PurgeDeletes ==
    /\ purge.pc = "lock"
    /\ LET gone == Purgeable(purge.linked)
       IN  /\ present' = present \ gone
           /\ rows' = [r \in Runs |-> IF r \in gone THEN {} ELSE rows[r]]
           /\ slots' = slots \ gone
    /\ purge' = [pc |-> "idle", linked |-> {}]
    /\ UNCHANGED <<attested, holds, job, applier, report, count>>

-----------------------------------------------------------------------------
(* Observation retention jobs.                                             *)

\* _preview_candidate_statement, and not yet deleted to the last row.
Eligible ==
    {r \in present : /\ r \notin slots
                     /\ holds[r] = {}
                     /\ attested[r] < Cardinality(RowsOf[r])}

HighWater(candidates) == IF candidates = {} THEN 0 ELSE Max({TerminalCursor(r) : r \in candidates})

\* preview: while a job is active the answer is that job, or a conflict.
Preview ==
    /\ job = None
    /\ Counted("jobs", MaxJobs)
    /\ job' = [id |-> count.jobs + 1, candidates |-> Eligible, verified |-> {},
               cursor |-> 0, batches |-> 0]
    /\ UNCHANGED <<present, rows, attested, holds, slots, applier, purge, report>>

\* _next_window_statement: the first rows after the cursor.
Ahead == {x \in UNION {rows[r] : r \in job.candidates} : x > job.cursor}
Window == {x \in Ahead : Cardinality({y \in Ahead : y < x}) < BatchLimit}

WindowRuns(window) == {r \in Runs : RowsOf[r] \cap window # {}}

\* _job_apply_binding
Binding == [id |-> job.id, cursor |-> job.cursor, batches |-> job.batches]

\* _prepare_apply_verification, up to the end of its first transaction.
Prepare(a) ==
    /\ applier[a].pc = "idle"
    /\ job # None
    /\ \A r \in job.candidates : Cardinality(rows[r]) + attested[r] = Cardinality(RowsOf[r])
    /\ applier' = [applier EXCEPT ![a] =
            [pc |-> "prove", window |-> Window, binding |-> Binding, proofs |-> {}]]
    /\ UNCHANGED <<present, jobVars, holds, slots, purge, report, count>>

Fails(a) == applier' = [applier EXCEPT ![a] = Idle]

FoldableWhole(r) == r \in present /\ rows[r] = RowsOf[r]

\* fold_discovery_observations of what is left of a run.
Foldable(r) ==
    /\ r \in present
    /\ Cardinality(rows[r]) = Cardinality(RowsOf[r]) - attested[r]
    /\ TerminalCursor(r) \in rows[r]

\* _verify_candidate_read_only for the window's runs that are not verified yet.
Prove(a) ==
    /\ applier[a].pc = "prove"
    /\ LET unverified == IF job = None THEN {} ELSE WindowRuns(applier[a].window) \ job.verified
       IN  IF \A r \in unverified : Foldable(r)
             THEN applier' = [applier EXCEPT ![a].pc = "commit", ![a].proofs = unverified]
             ELSE Fails(a)
    /\ UNCHANGED <<present, jobVars, holds, slots, purge, report, count>>

BlockedBySlot == slots

Blocked == {r \in Runs : holds[r] # {}} \cup slots

\* The locked job, runs and rows are still what the plan was made from.
PlanHolds(a) ==
    /\ job # None
    /\ applier[a].binding = Binding
    /\ WindowRuns(applier[a].window) \subseteq present
    /\ applier[a].proofs = WindowRuns(applier[a].window) \ job.verified
    /\ \A r \in applier[a].proofs : Foldable(r)
    /\ applier[a].window = Window
    /\ applier[a].window # {} \/ job.cursor >= HighWater(job.candidates)

\* The rows of the window that may go.
Deletable(window) == {x \in window : WindowRuns({x}) \cap Blocked = {}}

\* The job goes on behind the window, or is complete.
Advance(window, proofs) ==
    LET cursor == IF window = {} THEN job.cursor ELSE Max(window)
    IN  job' = IF window = {} \/ cursor >= HighWater(job.candidates)
                 THEN None
                 ELSE [job EXCEPT !.verified = @ \cup proofs, !.cursor = cursor,
                                  !.batches = @ + 1]

CountScanned(window) ==
    /\ rows' = [r \in Runs |-> rows[r] \ Deletable(window)]
    /\ attested' = [r \in Runs |-> attested[r] + Cardinality(rows[r] \cap window)]

\* Each candidate's deleted_count grows by its rows that go.
DeleteRows(window) ==
    LET gone == Deletable(window)
    IN  /\ rows' = [r \in Runs |-> rows[r] \ gone]
        /\ attested' = [r \in Runs |-> attested[r] + Cardinality(rows[r] \cap gone)]

\* apply: one batch, in one transaction that locks the job and the runs.
Commit(a) ==
    /\ applier[a].pc = "commit"
    /\ PlanHolds(a)
    /\ DeleteRows(applier[a].window)
    /\ Advance(applier[a].window, applier[a].proofs)
    /\ applier' = [applier EXCEPT ![a] = Idle]
    /\ UNCHANGED <<present, holds, slots, purge, report, count>>

\* The transaction finds something changed and is rolled back.
Conflict(a) ==
    /\ applier[a].pc = "commit"
    /\ ~PlanHolds(a)
    /\ Fails(a)
    /\ UNCHANGED <<present, jobVars, holds, slots, purge, report, count>>

\* The process ends; only the plan is lost.
Crash(a) ==
    /\ applier[a].pc # "idle"
    /\ Counted("faults", MaxFaults)
    /\ Fails(a)
    /\ UNCHANGED <<present, jobVars, holds, slots, purge, report>>

-----------------------------------------------------------------------------
Apply(a) == Prepare(a) \/ Prove(a) \/ Commit(a) \/ Conflict(a)

Next ==
    \/ \E r \in Runs : PlaceHold(r) \/ ReleaseHold(r) \/ SlotReleased(r)
    \/ \E q \in Reports : ReportReadsSources(q) \/ ReportCommits(q) \/ ReportDeleted(q)
    \/ PurgeReadsEvidence \/ PurgeDeletes
    \/ Preview
    \/ \E a \in Appliers : Apply(a) \/ Crash(a)

\* The operator applies a job until it is complete.
Fairness == \A a \in Appliers : WF_vars(Apply(a))

Spec == Init /\ [][Next]_vars
FairSpec == Spec /\ Fairness

-----------------------------------------------------------------------------
(* Properties.                                                             *)

TypeOK ==
    /\ present \subseteq Runs
    /\ rows \in [Runs -> SUBSET Nat]
    /\ attested \in [Runs -> Nat]
    /\ holds \in [Runs -> SUBSET HoldTypes]
    /\ slots \subseteq Runs
    /\ job = None \/ job \in [id: Nat, candidates: SUBSET Runs, verified: SUBSET Runs,
                              cursor: Nat, batches: Nat]
    /\ \A a \in Appliers : /\ applier[a].pc \in {"idle", "prove", "commit"}
                           /\ applier[a].window \subseteq Nat
                           /\ applier[a].proofs \subseteq Runs
    /\ purge.pc \in {"idle", "lock"} /\ purge.linked \subseteq Runs
    /\ \A q \in Reports : /\ report[q].pc \in {"none", "read", "committed", "deleted"}
                          /\ report[q].sources \subseteq Runs
    /\ count \in [holds: Nat, jobs: Nat, faults: Nat]

\* Nothing of a run is removed while a hold on it is active, although the batch was
\* verified, and the reports read, before the hold was placed.
HeldIsKept ==
    [][\A r \in Runs : holds[r] # {} =>
            rows'[r] = rows[r] /\ (r \in present => r \in present')]_vars

\* Every row of a run that still exists is there or is accounted for by a verified
\* candidate: over holds, crashes, competing batches and several jobs, the audit
\* counts each deletion once.
AuditConserved ==
    \A r \in present : Cardinality(rows[r]) + attested[r] = Cardinality(RowsOf[r])

\* The runs a job froze exist as long as it is active: a purge that decided before
\* the preview committed does not take them away.
CandidatesExist == Candidates \subseteq present

\* A row a batch examined is not examined again, so what a job left behind for a
\* hold waits for a later job.
Stranded(r) == r \in present /\ rows[r] # {} /\ TerminalCursor(r) \notin rows[r]

\* The job has not moved since request a planned its batch.
Fresh(a) == job # None /\ applier[a].binding = Binding

\* While the job has not moved, nothing that happens between the two transactions of
\* a batch, no hold, slot, purge or report, stops it: its proofs fail only for a run
\* that lost its last row before an earlier one, and its commit is never a conflict.
\* A conflict is always the progress of another request.
FreshPlansHold ==
    \A a \in Appliers : Fresh(a) =>
        /\ applier[a].pc = "commit" => PlanHolds(a)
        /\ applier[a].pc = "prove" =>
             \/ \A r \in WindowRuns(applier[a].window) \ job.verified : Foldable(r)
             \/ \E r \in Candidates : Stranded(r)

\* The active job only moves forward, towards its high water, over the runs it froze,
\* whichever of several requests commits its batch.
JobMovesForward ==
    [][job # None /\ job' # job =>
         \/ job' = None
         \/ /\ job'.id = job.id /\ job'.candidates = job.candidates
            /\ job.verified \subseteq job'.verified
            /\ job.cursor < job'.cursor /\ job'.cursor < HighWater(job.candidates)]_vars

\* A batch takes rows of the frozen runs only, behind the cursor it found, and no row
\* that went comes back.
OnlyCandidatesShrink ==
    [][\A r \in present' :
         /\ rows'[r] \subseteq rows[r]
         /\ rows'[r] # rows[r] =>
              /\ r \in Candidates
              /\ \A x \in rows[r] \ rows'[r] : job.cursor < x]_vars

\* A job that is applied again and again ends, unless it froze a run whose last row
\* went before an earlier one.
JobEndsUnlessStranded ==
    job # None ~> (job = None \/ \E r \in Candidates : Stranded(r))

\* backend/tests/test_observation_retention.py:1422 and :1508: a later job deletes
\* what a hold kept; retention_service.py:538: cleanup is restart-safe. Every job
\* that is applied again and again ends.
JobEnds == job # None ~> job = None
=============================================================================
