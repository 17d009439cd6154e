-------------------------- MODULE DiscoveryEvidence --------------------------
(***************************************************************************)
(* The observation stream of one claimed discovery run and the three ways  *)
(* it is sealed: the owner's finalization, the recovery of an expired      *)
(* lease, and the quarantine of evidence that cannot be folded.            *)
(*                                                                         *)
(* Sealing captures a cutoff in one transaction, reads and folds the       *)
(* prefix page by page outside any transaction, and commits in a second    *)
(* one that starts over when the stream has grown meanwhile.  Appends,     *)
(* heartbeats, stops, revocations, crashes and the sweeps of several       *)
(* processes interleave with all of that.                                  *)
(*                                                                         *)
(* A writer transaction holds the run's row (SELECT FOR UPDATE, or BEGIN   *)
(* IMMEDIATE on SQLite), so each is one step, except the append: the time  *)
(* between its fence and its COMMIT is what a sweep, whose first read      *)
(* takes no lock, can fall into.                                           *)
(*                                                                         *)
(* Abstracted: an observation is its cursor, so the stream (state row,     *)
(* commitment and rows) is the number of accepted observations; a second   *)
(* delivery of an accepted event changes nothing; the two reasons a        *)
(* discovery success loses its control (approval, initiator) are one flag; *)
(* the run context, whose digest every transaction re-verifies, is intact. *)
(***************************************************************************)
EXTENDS Integers, FiniteSets

CONSTANTS
    Sweepers,     \* processes that run recover_expired_leases
    RowLimit,     \* observations a sealed budget admits
    PageSize,     \* rows read by one page of the fold
    LeaseLength,  \* lease_seconds, in clock ticks
    MaxTime,      \* bound on the clock
    MaxCrashes,   \* bound on the sweeps that are killed
    Damages,      \* the ways stored rows may be damaged from outside
    SnapshotReads \* a query session reads one snapshot (SQLite WAL), or each
                  \* of its statements its own (PostgreSQL READ COMMITTED)

Terminal == {"succeeded", "failed", "cancelled"}
Stages   == {"none", "engine", "active_control_lost", "lease_expired", "quarantined"}

ASSUME ConstantsAssumption ==
    /\ RowLimit \in Nat
    /\ PageSize \in Nat \ {0}
    /\ LeaseLength \in Nat \ {0}
    /\ MaxTime \in Nat
    /\ MaxCrashes \in Nat
    /\ Damages \subseteq {"altered", "missing"}
    /\ SnapshotReads \in BOOLEAN

VARIABLES
    now,              \* wall clock of the database transactions
    status,           \* Run.status
    lease,            \* Run.lease_expires_at, 0 for NULL
    cancelRequested,  \* Run.cancel_requested
    control,          \* the approval and the initiator still stand
    accepted,         \* observation_count of RunDiscoveryObservationState
    appending,        \* an append has passed its fence and not committed yet
    damage,           \* kind and row of the damage done to stored rows
    seal,             \* RunResult and RunSeal
    owner,            \* the owner's finalize_discovery_run
    sweep,            \* each sweeper's _recover_expired_discovery_run
    crashes           \* sweeps killed so far

runVars == <<status, lease, cancelRequested, control, seal>>
streamVars == <<accepted, appending, damage>>
vars == <<now, runVars, streamVars, owner, sweep, crashes>>

NoSeal == [status |-> "none", stage |-> "none", rows |-> 0, damaged |-> FALSE]
Sealed == seal.stage # "none"

\* The prefix a fold is reading: its cutoff, the rows read, and whether one of
\* them was damaged when it was read.
FreshFold(n) == [cutoff |-> n, read |-> 0, damaged |-> FALSE]
FoldType == [cutoff: 0..RowLimit, read: 0..RowLimit, damaged: BOOLEAN]

OwnerType ==
    [pc: {"working", "capture", "fold", "ended", "dead"}, want: Terminal,
     fold: FoldType, outcome: {"none", "applied", "idempotent", "conflict", "error"}]

SweepType ==
    [pc: {"idle", "capture", "count", "fold", "quarantine"}, observed: 0..MaxTime, fold: FoldType]

Init ==
    /\ now = 0
    /\ status = "running"
    /\ lease = LeaseLength
    /\ cancelRequested = FALSE
    /\ control = TRUE
    /\ accepted = 0
    /\ appending = FALSE
    /\ damage = [kind |-> "none", row |-> 0]
    /\ seal = NoSeal
    /\ owner = [pc |-> "working", want |-> "failed", fold |-> FreshFold(0), outcome |-> "none"]
    /\ sweep = [s \in Sweepers |-> [pc |-> "idle", observed |-> 0, fold |-> FreshFold(0)]]
    /\ crashes = 0

\* The fence of every owner transaction, at a time sampled under the row lock.
OwnerActive == status = "running" /\ lease > now

ExpiredAt(t) == status = "running" /\ lease # 0 /\ lease <= t

-----------------------------------------------------------------------------
(* The stream.                                                             *)

BudgetLeftAfterThis == accepted <= RowLimit

\* _discovery_prefix_append_denial_reason leaves room for the candidate row.
BudgetLeft == accepted < RowLimit

\* The newest stored row is read back before another one is chained to it.
NewestRowStored == ~(damage.kind = "missing" /\ damage.row = accepted)

\* append_discovery_observation under the run's row lock, up to its INSERT.
AppendObservation ==
    /\ owner.pc # "dead"
    /\ ~appending
    /\ OwnerActive
    /\ NewestRowStored
    /\ BudgetLeft
    /\ appending' = TRUE
    /\ UNCHANGED <<now, runVars, accepted, damage, owner, sweep, crashes>>

\* ... and its COMMIT.
AppendCommits ==
    /\ appending
    /\ appending' = FALSE
    /\ accepted' = accepted + 1
    /\ UNCHANGED <<now, runVars, damage, owner, sweep, crashes>>

\* Stored rows change behind the repository's back.
DamageRow ==
    /\ damage.kind = "none"
    /\ \E kind \in Damages, row \in 1..accepted :
         damage' = [kind |-> kind, row |-> row]
    /\ UNCHANGED <<now, runVars, accepted, appending, owner, sweep, crashes>>

\* The row count and the last cursor disagree with the state row.
StateMismatch == damage.kind = "missing"

\* The stream is still the one a fold was captured from.
OlderThanCutoff(fold) == accepted < fold.cutoff
WithinCutoff(fold) == fold.cutoff <= accepted
StateUnchanged(fold) == accepted = fold.cutoff

\* The fold after reading one more page.
NextPage(fold) ==
    LET last == IF fold.read + PageSize < fold.cutoff THEN fold.read + PageSize ELSE fold.cutoff
    IN  [fold EXCEPT
          !.read = last,
          !.damaged = @ \/ (damage.kind # "none" /\ damage.row \in (fold.read + 1)..last)]

\* A page shorter than asked, a payload that differs from the commitment or a
\* count above the limits raises instead of folding.
Foldable(fold) == fold.read = fold.cutoff /\ ~fold.damaged /\ fold.cutoff <= RowLimit
Unfoldable(fold) == fold.read = fold.cutoff /\ ~Foldable(fold)

-----------------------------------------------------------------------------
(* The run row.                                                            *)

Heartbeat ==
    /\ owner.pc # "dead"
    /\ ~appending
    /\ OwnerActive
    /\ lease' = now + LeaseLength
    /\ UNCHANGED <<now, status, cancelRequested, control, seal, streamVars,
                   owner, sweep, crashes>>

RequestCancel ==
    /\ ~appending
    /\ status = "running"
    /\ ~cancelRequested
    /\ cancelRequested' = TRUE
    /\ UNCHANGED <<now, status, lease, control, seal, streamVars,
                   owner, sweep, crashes>>

\* The approval is revoked or runs out, or the initiator is demoted.
LoseControl ==
    /\ control
    /\ control' = FALSE
    /\ UNCHANGED <<now, status, lease, cancelRequested, seal, streamVars,
                   owner, sweep, crashes>>

ApplyFinalization(terminal) ==
    /\ ~appending
    /\ status' = terminal.status
    /\ seal' = terminal
    /\ lease' = 0
    /\ UNCHANGED <<now, cancelRequested, control, streamVars, crashes>>

-----------------------------------------------------------------------------
(* The owner's finalization.                                               *)

Finalizing == owner.pc \in {"capture", "fold"}

\* A processor that got an exception may finalize again, as failed.
RequestFinalization(want) ==
    /\ \/ owner.pc = "working"
       \/ owner.pc = "ended" /\ owner.outcome = "error" /\ want = "failed"
    /\ owner' = [owner EXCEPT !.pc = "capture", !.want = want]
    /\ UNCHANGED <<now, runVars, streamVars, sweep, crashes>>

OwnerEnds(outcome) ==
    /\ owner' = [owner EXCEPT !.pc = "ended", !.outcome = outcome]
    /\ UNCHANGED <<now, runVars, streamVars, sweep, crashes>>

CaptureCutoff ==
    /\ owner.pc = "capture"
    /\ ~appending
    /\ \/ ~Sealed /\ ~OwnerActive /\ OwnerEnds("conflict")
       \/ (Sealed \/ OwnerActive) /\ StateMismatch /\ OwnerEnds("error")
       \/ /\ Sealed \/ OwnerActive
          /\ ~StateMismatch
          /\ owner' = [owner EXCEPT !.pc = "fold", !.fold = FreshFold(accepted)]
          /\ UNCHANGED <<now, runVars, streamVars, sweep, crashes>>

ReadPage ==
    /\ owner.pc = "fold"
    /\ owner.fold.read < owner.fold.cutoff
    /\ owner' = [owner EXCEPT !.fold = NextPage(@)]
    /\ UNCHANGED <<now, runVars, streamVars, sweep, crashes>>

FoldFails ==
    /\ owner.pc = "fold"
    /\ Unfoldable(owner.fold)
    /\ OwnerEnds("error")

StopAfterFence ==
    LET fenced == owner.want = "succeeded" /\ ~(OwnerActive /\ control)
        wanted == IF fenced THEN "failed" ELSE owner.want
    IN  [status |-> IF cancelRequested THEN "cancelled" ELSE wanted,
         stage |-> IF fenced THEN "active_control_lost" ELSE "engine",
         rows |-> owner.fold.cutoff,
         damaged |-> owner.fold.damaged]

\* _discovery_terminal_result, then _fence_success_terminal.
OwnerTerminal ==
    LET wanted == IF cancelRequested THEN "cancelled" ELSE owner.want
        fenced == wanted = "succeeded" /\ ~(OwnerActive /\ control)
    IN  [status |-> IF fenced THEN "failed" ELSE wanted,
         stage |-> IF fenced THEN "active_control_lost" ELSE "engine",
         rows |-> owner.fold.cutoff,
         damaged |-> owner.fold.damaged]

\* The answer of the database may be lost after its COMMIT.
CommitFinalization ==
    /\ owner.pc = "fold"
    /\ Foldable(owner.fold)
    /\ ~appending
    /\ \/ StateMismatch /\ OwnerEnds("error")
       \/ /\ ~StateMismatch
          /\ ~StateUnchanged(owner.fold)
          /\ owner' = [owner EXCEPT !.pc = "capture"]
          /\ UNCHANGED <<now, runVars, streamVars, sweep, crashes>>
       \/ /\ ~StateMismatch
          /\ StateUnchanged(owner.fold)
          /\ \/ Sealed /\ OwnerEnds(IF seal = OwnerTerminal THEN "idempotent" ELSE "conflict")
             \/ ~Sealed /\ ~OwnerActive /\ OwnerEnds("conflict")
             \/ /\ ~Sealed
                /\ OwnerActive
                /\ ApplyFinalization(OwnerTerminal)
                /\ \E outcome \in {"applied", "error"} :
                     owner' = [owner EXCEPT !.pc = "ended", !.outcome = outcome]
                /\ UNCHANGED sweep

\* The executor's process dies: no more appends, beats or finalization, and
\* the database rolls its open transaction back.
OwnerDies ==
    /\ owner.pc # "dead"
    /\ owner' = [owner EXCEPT !.pc = "dead"]
    /\ appending' = FALSE
    /\ UNCHANGED <<now, runVars, accepted, damage, sweep, crashes>>

OwnerStep == CaptureCutoff \/ ReadPage \/ FoldFails \/ CommitFinalization

-----------------------------------------------------------------------------
(* Recovery.                                                               *)

SweepMoves(s, pc) ==
    /\ sweep' = [sweep EXCEPT ![s].pc = pc]
    /\ UNCHANGED <<now, runVars, streamVars, owner, crashes>>

\* The sweep samples the clock once and lists the runs that had expired then.
SweepStart(s) ==
    /\ sweep[s].pc = "idle"
    /\ ExpiredAt(now)
    /\ sweep' = [sweep EXCEPT ![s].pc = "capture", ![s].observed = now]
    /\ UNCHANGED <<now, runVars, streamVars, owner, crashes>>

\* The first read takes no lock: the run, then the state row, then the rows.
SweepCapture(s) ==
    /\ sweep[s].pc = "capture"
    /\ \/ ~ExpiredAt(sweep[s].observed) /\ SweepMoves(s, "idle")
       \/ /\ ExpiredAt(sweep[s].observed)
          /\ SnapshotReads /\ StateMismatch
          /\ SweepMoves(s, "quarantine")
       \/ /\ ExpiredAt(sweep[s].observed)
          /\ SnapshotReads => ~StateMismatch
          /\ sweep' = [sweep EXCEPT ![s].pc = "count", ![s].fold = FreshFold(accepted)]
          /\ UNCHANGED <<now, runVars, streamVars, owner, crashes>>

\* The statement that reads the rows sees that snapshot, or what is there now.
SweepCountRows(s) ==
    /\ sweep[s].pc = "count"
    /\ SweepMoves(s, IF ~SnapshotReads /\ (StateMismatch \/ ~StateUnchanged(sweep[s].fold))
                     THEN "quarantine" ELSE "fold")

SweepReadPage(s) ==
    /\ sweep[s].pc = "fold"
    /\ sweep[s].fold.read < sweep[s].fold.cutoff
    /\ sweep' = [sweep EXCEPT ![s].fold = NextPage(@)]
    /\ UNCHANGED <<now, runVars, streamVars, owner, crashes>>

SweepSkipsUnreadable(s) ==
    /\ sweep[s].pc = "fold"
    /\ Unfoldable(sweep[s].fold)
    /\ SweepMoves(s, "idle")

SweepFoldFails(s) ==
    /\ sweep[s].pc = "fold"
    /\ Unfoldable(sweep[s].fold)
    /\ SweepMoves(s, "quarantine")

RecoveredStatus == IF cancelRequested THEN "cancelled" ELSE "failed"

SweepCommit(s) ==
    /\ sweep[s].pc = "fold"
    /\ Foldable(sweep[s].fold)
    /\ ~appending
    /\ \/ StateMismatch /\ SweepMoves(s, "quarantine")
       \/ ~StateMismatch /\ ~StateUnchanged(sweep[s].fold) /\ SweepMoves(s, "capture")
       \/ /\ ~StateMismatch
          /\ StateUnchanged(sweep[s].fold)
          /\ \/ ~ExpiredAt(sweep[s].observed) /\ SweepMoves(s, "idle")
             \/ /\ ExpiredAt(sweep[s].observed)
                /\ ApplyFinalization(
                     [status |-> RecoveredStatus, stage |-> "lease_expired",
                      rows |-> sweep[s].fold.cutoff, damaged |-> sweep[s].fold.damaged])
                /\ sweep' = [sweep EXCEPT ![s].pc = "idle"]
                /\ UNCHANGED owner

\* The run is checked again under its lock: another sweep may have sealed it.
SweepQuarantine(s) ==
    /\ sweep[s].pc = "quarantine"
    /\ ~appending
    /\ \/ ~ExpiredAt(sweep[s].observed) /\ SweepMoves(s, "idle")
       \/ /\ ExpiredAt(sweep[s].observed)
          /\ ApplyFinalization([status |-> RecoveredStatus, stage |-> "quarantined",
                                rows |-> 0, damaged |-> TRUE])
          /\ sweep' = [sweep EXCEPT ![s].pc = "idle"]
          /\ UNCHANGED owner

SweepDies(s) ==
    /\ sweep[s].pc # "idle"
    /\ crashes < MaxCrashes
    /\ crashes' = crashes + 1
    /\ sweep' = [sweep EXCEPT ![s].pc = "idle"]
    /\ UNCHANGED <<now, runVars, streamVars, owner>>

SweepStep(s) ==
    \/ SweepStart(s)
    \/ SweepCapture(s)
    \/ SweepCountRows(s)
    \/ SweepReadPage(s)
    \/ SweepFoldFails(s)
    \/ SweepCommit(s)
    \/ SweepQuarantine(s)

Tick ==
    /\ now < MaxTime
    /\ now' = now + 1
    /\ UNCHANGED <<runVars, streamVars, owner, sweep, crashes>>

-----------------------------------------------------------------------------
Next ==
    \/ AppendObservation
    \/ AppendCommits
    \/ DamageRow
    \/ Heartbeat
    \/ RequestCancel
    \/ LoseControl
    \/ \E want \in Terminal : RequestFinalization(want)
    \/ OwnerStep
    \/ OwnerDies
    \/ \E s \in Sweepers : SweepStep(s) \/ SweepDies(s)
    \/ Tick

\* A transaction ends (statement and idle-in-transaction timeouts), a
\* finalization that has begun runs on, and the maintenance loops keep
\* sweeping; nothing obliges the clock, a client or the executor to act.
Fairness ==
    /\ WF_vars(AppendCommits)
    /\ WF_vars(OwnerStep)
    /\ \A s \in Sweepers : WF_vars(SweepStep(s))

Spec == Init /\ [][Next]_vars /\ Fairness

-----------------------------------------------------------------------------
(* Properties.                                                             *)

TypeOK ==
    /\ now \in 0..MaxTime
    /\ status \in {"running"} \cup Terminal
    /\ lease \in Nat
    /\ cancelRequested \in BOOLEAN
    /\ control \in BOOLEAN
    /\ accepted \in 0..RowLimit
    /\ appending \in BOOLEAN
    /\ damage \in [kind: {"none", "altered", "missing"}, row: 0..RowLimit]
    /\ seal \in [status: {"none"} \cup Terminal, stage: Stages,
                 rows: 0..RowLimit, damaged: BOOLEAN]
    /\ owner \in OwnerType
    /\ sweep \in [Sweepers -> SweepType]
    /\ crashes \in 0..MaxCrashes

\* Whoever seals the run, and however long its fold took, the seal covers every
\* observation the repository accepted, as it was accepted
\* (_commit_discovery_finalization, _recover_expired_discovery_run).
SealCoversEvidence ==
    Sealed /\ seal.stage # "quarantined" => seal.rows = accepted /\ ~seal.damaged

\* Evidence is only set aside when it was really damaged: the limits enforced
\* on append never produce a stream the fold refuses.
QuarantineNeedsDamage ==
    seal.stage = "quarantined" => damage.kind # "none"

\* An owner that is told its finalization was applied finds in the seal the
\* verdict it asked for, a stop, or the loss of control; one that is told it
\* lost can never get the run back.
OutcomeMatchesSeal ==
    /\ owner.outcome \in {"applied", "idempotent"} =>
         \/ seal.stage = "engine" /\ seal.status = IF cancelRequested THEN "cancelled" ELSE owner.want
         \/ /\ seal.stage = "active_control_lost"
            /\ owner.want = "succeeded"
            /\ ~cancelRequested
    /\ owner.outcome = "conflict" /\ status = "running" => lease <= now

\* A finalization that restarts whenever the stream grows still comes to an end.
FinalizationEnds == Finalizing ~> ~Finalizing

\* A run whose lease has expired is sealed, whatever the sweeps run into.
ExpiredRunsAreSealed == ExpiredAt(now) ~> Sealed

\* A fold starts over only because the stream has grown past its cutoff, so that
\* a budget of rows bounds how often (the loops of finalize_discovery_run and of
\* _recover_expired_discovery_run around a commit that finds the count moved).
StartsOverOnlyForGrowth ==
    [][/\ owner.pc = "fold" /\ owner'.pc = "capture" => owner.fold.cutoff < accepted
       /\ \A s \in Sweepers :
            sweep[s].pc = "fold" /\ sweep'[s].pc = "capture" => sweep[s].fold.cutoff < accepted]_vars

\* A run that a sweep has found expired gains at most the one observation whose
\* fence came before the deadline, however long the sweep folds and whoever
\* beats: its recovery starts over at most once.
ExpiredStreamGrowsOnce ==
    \A s \in Sweepers :
        sweep[s].pc \in {"count", "fold"} /\ ExpiredAt(sweep[s].observed) =>
            IF appending THEN accepted <= sweep[s].fold.cutoff
                         ELSE accepted <= sweep[s].fold.cutoff + 1

\* The evidence promise, with the seal as the verdict.
Promise ==
    INSTANCE EvidencePromise WITH
        rows <- accepted,
        verdict <- IF Sealed THEN seal.status ELSE "open",
        covered <- seal.rows

\* Every step of the repository is a step of the promise or leaves it alone.
KeepsPromise == Promise!Spec

\* The lifecycle's promise for this run, which somebody has opened and started.
Lifecycle ==
    INSTANCE RunPromise WITH
        Runs <- {"run"},
        Resources <- {},
        Nobody <- "nobody",
        phase <- [r \in {"run"} |-> IF Sealed THEN "closed" ELSE "executing"],
        stop <- [r \in {"run"} |-> cancelRequested /\ ~Sealed],
        verdict <- [r \in {"run"} |-> seal.status],
        holder <- [k \in {} |-> "nobody"]

\* Whichever of the three ways seals the run, and wherever its folds stand when a
\* stop arrives, the run is stopped and closed as the lifecycle promises: once,
\* and as cancelled after an accepted stop (_apply_finalization and its callers).
StepsKeepLifecycle == [][Lifecycle!Next]_(Lifecycle!vars)
=============================================================================
