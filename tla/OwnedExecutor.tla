---------------------------- MODULE OwnedExecutor ----------------------------
(***************************************************************************)
(* One claimed run inside the process that executes it: the executor       *)
(* thread (the wrapper around a processor and the engine it runs), the     *)
(* provider threads that write through the owned store, the heartbeat      *)
(* thread, and the shutdown that abandons the heartbeat.  They meet in the *)
(* OwnedRunStore, whose fields are guarded by its lifecycle lock, and in   *)
(* the run's row, which a sweep seals once the lease has lapsed.           *)
(*                                                                         *)
(* A critical section is one step.  Only the finalization of a scalar job  *)
(* keeps the lock over a database call; a discovery closes its sink and    *)
(* calls the database without the lock.                                    *)
(*                                                                         *)
(* The time limit of a worker's actor raises one BaseException in the      *)
(* executor thread, anywhere in it: the step Interrupt.  A run that is     *)
(* executed inline never meets one.                                        *)
(*                                                                         *)
(* A terminal result is named by who writes it, as its content differs:    *)
(* two results are the same bytes iff they have the same name.             *)
(*                                                                         *)
(* Abstracted: what is written, and the clock: the lease may lapse at any  *)
(* time (the database stalls, the host sleeps), so a renewal only has an   *)
(* answer.  The frozen context of the run stays intact.                    *)
(***************************************************************************)
EXTENDS Integers, FiniteSets

CONSTANTS
    Writers,    \* provider threads
    Jobs,       \* the jobs it may be: a discovery or a scalar one
    MaxErrors   \* bound on the database calls that raise

ASSUME ConstantsAssumption ==
    /\ IsFiniteSet(Writers)
    /\ Jobs \subseteq {"discovery", "scalar"}
    /\ MaxErrors \in Nat

Results == {"success", "cancel", "failure"}

\* The results an executor asks for: the engine's, the failure to save it, the
\* failure the interrupt handler reports and the wrapper's own.
Requests == Results \cup {"unsaved", "interrupted", "unfinished"}

\* What finalization makes of them, and the result of a recovered run.
Verdicts == Requests \cup {"stopped", "uncontrolled", "expired"}

VARIABLES
    job,        \* the job of the run, fixed when the store is made
    row,        \* "running", or sealed by this owner or by somebody else
    verdict,    \* the terminal result the row is sealed with
    lapsed,     \* lease_expires_at is in the past
    stopped,    \* cancel_requested
    control,    \* approval and initiator of the scan still hold
    lock,       \* holder of _lifecycle_lock between two steps
    lost,       \* OwnedRunStore._ownership_lost
    closing,    \* OwnedRunStore._closing
    active,     \* OwnedRunStore._active_mutations
    outcome,    \* OwnedRunStore._terminal_outcome
    writers,    \* what each provider thread does
    executor,   \* program counter of the executor, the engine's result, what
                \* its current finalization asks for, and the interrupt:
                \* raised while it unwinds the engine, then caught
    beat,       \* program counter of the heartbeat and its two events
    closer,     \* program counter of the shutdown
    errors      \* database calls that raised so far

worldVars == <<lapsed, stopped, control>>
rowVars   == <<row, verdict, worldVars>>
storeVars == <<lock, lost, closing, active, outcome>>
vars == <<job, rowVars, storeVars, writers, executor, beat, closer, errors>>

Init ==
    /\ job \in Jobs
    /\ row = "running"
    /\ verdict = "none"
    /\ lapsed = FALSE
    /\ stopped = FALSE
    /\ control = TRUE
    /\ lock = "free"
    /\ lost = FALSE
    /\ closing = FALSE
    /\ active = 0
    /\ outcome = "none"
    /\ writers = [w \in Writers |-> "idle"]
    /\ executor = [pc |-> "engine", result |-> "none", asks |-> "none", interrupt |-> "none"]
    /\ beat = [pc |-> "waiting", stop |-> FALSE, lost |-> FALSE]
    /\ closer = "idle"
    /\ errors = 0

Discovery == job = "discovery"

Owned == row = "running" /\ ~lapsed

\* A driver error, or evidence that does not fold.
DatabaseRaises ==
    /\ errors < MaxErrors
    /\ errors' = errors + 1

-----------------------------------------------------------------------------
(* Provider threads.                                                       *)

WriterGoes(w, to) ==
    /\ writers' = [writers EXCEPT ![w] = to]
    /\ UNCHANGED <<rowVars, lock, lost, closing, outcome, executor, beat, closer, errors>>

\* The engine of a scan hands an observation to a thread of the pool.
SubmitWrite(w) ==
    /\ Discovery /\ executor.pc = "engine"
    /\ writers[w] = "idle"
    /\ WriterGoes(w, "queued")
    /\ UNCHANGED active

\* _begin_mutation: refused once the store is fenced, closing or done.
BeginMutation(w) ==
    /\ writers[w] = "queued"
    /\ lock = "free"
    /\ \/ /\ lost \/ closing \/ outcome # "none"
          /\ WriterGoes(w, "idle")
          /\ UNCHANGED active
       \/ /\ ~lost /\ ~closing /\ outcome = "none"
          /\ WriterGoes(w, "calling")
          /\ active' = active + 1

\* The database answers, and _end_mutation runs whatever the answer was.
EndMutation(w) ==
    /\ writers[w] = "calling"
    /\ lock = "free"
    /\ WriterGoes(w, "idle")
    /\ active' = active - 1

WriterStep(w) == BeginMutation(w) \/ EndMutation(w)

-----------------------------------------------------------------------------
(* The executor.                                                           *)

ExecutorGoes(pc, asks) ==
    executor' = [executor EXCEPT !.pc = pc, !.asks = asks]

OnlyExecutorMoves == UNCHANGED <<rowVars, storeVars, writers, beat, closer, errors>>

\* is_cancel_requested: a stop, or a run that is not this executor's any more.
CancelIsSeen == stopped \/ lost \/ ~Owned

\* The engine returns, raises, sees a stop or reaches its sealed deadline.
EngineStops ==
    /\ executor.pc = "engine"
    /\ \E result \in Results :
         /\ result = "cancel" => CancelIsSeen
         /\ executor' = [executor EXCEPT !.pc = "draining", !.result = result, !.asks = result]
    /\ OnlyExecutorMoves

EngineLeavesWrites ==
    /\ executor.pc = "draining"
    /\ ExecutorGoes("finalize", executor.asks)
    /\ OnlyExecutorMoves

\* A cancelled append is awaited: its thread cannot be cancelled.  A second
\* cancellation interrupts that wait, and such a run has no success to report.
EngineDrains ==
    /\ executor.pc = "draining"
    /\ executor.result = "success" => \A w \in Writers : writers[w] = "idle"
    /\ ExecutorGoes("finalize", executor.asks)
    /\ OnlyExecutorMoves

\* The processor returns to the wrapper; an interrupt that first unwound its
\* engine goes on to the actor's handler, which some scalar actors do not have.
ProcessorReturns ==
    \/ /\ executor.interrupt # "raised"
       /\ ExecutorGoes("wrapper", "none")
    \/ /\ executor.interrupt = "raised"
       /\ executor' = [executor EXCEPT !.pc = "finalize", !.asks = "interrupted",
                                       !.interrupt = "caught"]
    \/ /\ executor.interrupt = "raised" /\ ~Discovery
       /\ executor' = [executor EXCEPT !.pc = "wrapper", !.asks = "none", !.interrupt = "caught"]

\* What follows a finalization that raised: the result of an engine that
\* returned is reported as not saved, any other attempt is logged.
AfterRaise ==
    \/ /\ executor.asks \in Results /\ executor.interrupt # "raised"
       /\ ExecutorGoes("finalize", "unsaved")
    \/ /\ executor.asks \in {"cancel", "failure", "unsaved"}
       /\ ProcessorReturns
    \/ /\ executor.asks = "interrupted"
       /\ ExecutorGoes("wrapper", "none")
    \/ /\ executor.asks = "unfinished"
       /\ ExecutorGoes("ending", "none")

FencedOrClosing == lost \/ (Discovery /\ (closing \/ outcome # "none"))

\* update_run_status raises before it calls the database.
FinalizeRefused == lost \/ (Discovery /\ (closing \/ outcome # "none" \/ active > 0))

FinalizeRefuses ==
    /\ executor.pc = "finalize"
    /\ lock = "free"
    /\ FinalizeRefused
    /\ AfterRaise
    /\ OnlyExecutorMoves

FinalizeUnlocked ==
    /\ executor.pc = "finalize"
    /\ lock = "free"
    /\ ~FinalizeRefused
    /\ ExecutorGoes("call", executor.asks)
    /\ OnlyExecutorMoves

\* A discovery closes its sink and lets the lock go, a scalar job keeps it.
FinalizeBegins ==
    /\ executor.pc = "finalize"
    /\ lock = "free"
    /\ ~FinalizeRefused
    /\ lock' = IF Discovery THEN "free" ELSE "executor"
    /\ closing' = Discovery
    /\ ExecutorGoes("call", executor.asks)
    /\ UNCHANGED <<rowVars, lost, active, outcome, writers, beat, closer, errors>>

\* An accepted stop overrides every result but a cancellation; the success of a
\* discovery needs the control it was approved under (_fence_success_terminal).
Terminal(asks) ==
    IF stopped /\ asks # "cancel" THEN "stopped"
    ELSE IF asks = "success" /\ Discovery /\ ~control THEN "uncontrolled"
    ELSE asks

Seal ==
    /\ Owned
    /\ row' = "ours"
    /\ verdict' = Terminal(executor.asks)

\* What finalize_run or finalize_discovery_run answers: only the same result is
\* a replay.
FinalizeAnswer ==
    IF Owned THEN "applied"
    ELSE IF row = "ours" /\ verdict = Terminal(executor.asks) THEN "idempotent"
    ELSE "conflict"

FinalizeCall ==
    /\ executor.pc = "call"
    /\ executor' = [executor EXCEPT !.pc = FinalizeAnswer]
    /\ Seal \/ (~Owned /\ UNCHANGED <<row, verdict>>)
    /\ UNCHANGED <<worldVars, storeVars, writers, beat, closer, errors>>

\* The call raises before its COMMIT, or its answer is lost after it.
FinalizeRaises ==
    /\ executor.pc = "call"
    /\ DatabaseRaises
    /\ Seal \/ UNCHANGED <<row, verdict>>
    /\ executor' = [executor EXCEPT !.pc = "raised"]
    /\ UNCHANGED <<worldVars, storeVars, writers, beat, closer>>

Answers == {"applied", "idempotent", "conflict"}

\* Under the lock, which a scalar job still has.
RecordOutcome ==
    /\ executor.pc \in Answers
    /\ outcome' = executor.pc
    /\ lost' = (lost \/ executor.pc = "conflict")
    /\ closing' = FALSE
    /\ lock' = "free"
    /\ CASE executor.asks = "unfinished"  -> ExecutorGoes("ending", "none")
         [] executor.asks = "interrupted" -> ExecutorGoes("wrapper", "none")
         [] OTHER                         -> ProcessorReturns
    /\ UNCHANGED <<rowVars, active, writers, beat, closer, errors>>

\* An exception reopens the sink, an interrupt does not.
ReopenAfterError ==
    /\ executor.pc = "raised"
    /\ closing' = FALSE
    /\ lock' = "free"
    /\ AfterRaise
    /\ UNCHANGED <<rowVars, lost, active, outcome, writers, beat, closer, errors>>

WrapperSealsAgain ==
    /\ executor.pc = "wrapper"
    /\ lock = "free"
    /\ ~lost
    /\ ExecutorGoes("finalize", "unfinished")
    /\ OnlyExecutorMoves

\* The processor returned without a terminal result, or raised after all: the
\* wrapper seals the run as failed.  The worker's answer to an exception looks
\* at the store only, the other paths at the heartbeat's event too.
WrapperSeals ==
    /\ executor.pc = "wrapper"
    /\ lock = "free"
    /\ outcome = "none"
    /\ ~lost
    /\ ExecutorGoes("finalize", "unfinished")
    /\ OnlyExecutorMoves

WrapperLeavesUnfinished ==
    /\ executor.pc = "wrapper"
    /\ lock = "free"
    /\ ExecutorGoes("ending", "none")
    /\ OnlyExecutorMoves

WrapperLeavesRun ==
    /\ executor.pc = "wrapper"
    /\ lock = "free"
    /\ outcome # "none" \/ lost \/ beat.lost
    /\ ExecutorGoes("ending", "none")
    /\ OnlyExecutorMoves

ExecutorEndsSilently ==
    /\ executor.pc = "ending"
    /\ ExecutorGoes("done", "none")
    /\ OnlyExecutorMoves

\* finally: heartbeat.stop_and_join(), whose join has a timeout.
ExecutorEnds ==
    /\ executor.pc = "ending"
    /\ beat' = [beat EXCEPT !.stop = TRUE]
    /\ ExecutorGoes("done", "none")
    /\ UNCHANGED <<rowVars, storeVars, writers, closer, errors>>

ExecutorStep ==
    \/ EngineStops \/ EngineDrains
    \/ FinalizeRefuses \/ FinalizeBegins
    \/ FinalizeCall \/ FinalizeRaises
    \/ RecordOutcome \/ ReopenAfterError
    \/ WrapperSeals \/ WrapperLeavesRun
    \/ ExecutorEnds

-----------------------------------------------------------------------------
(* The interrupt.                                                          *)

InterruptCaught(pc, asks) ==
    executor' = [executor EXCEPT !.pc = pc, !.asks = asks, !.interrupt = "caught"]

\* It strikes the event loop, which cancels the engine before it propagates.
InterruptUnwinds ==
    /\ executor.pc \in {"engine", "draining"}
    /\ \E result \in {"cancel", "failure"} :
         /\ result = "cancel" => CancelIsSeen
         /\ executor' = [pc |-> "draining", result |-> result, asks |-> result,
                        interrupt |-> "raised"]

\* It strikes what an actor runs under its handler, which finalizes without a
\* look at the outcome; the wrapper, or an actor that has no handler; what the
\* wrapper does about a failure; or the finally clause, which it cuts short.
InterruptLands ==
    \/ /\ executor.pc # "ending" /\ executor.asks # "unfinished"
       /\ \/ InterruptCaught("finalize", "interrupted")
          \/ (~Discovery \/ executor.pc = "wrapper") /\ InterruptCaught("wrapper", "none")
    \/ /\ executor.pc = "wrapper" \/ executor.asks = "unfinished"
       /\ InterruptCaught("ending", "none")
    \/ /\ executor.pc = "ending"
       /\ InterruptCaught("cut", "none")

\* What a finalization had done by then: committed the result, or recorded the
\* answer.  The lock is let go, but a discovery's sink is not reopened.
InterruptLeaves ==
    \/ UNCHANGED <<row, verdict, outcome, lost>>
    \/ /\ executor.pc = "call"
       /\ Seal
       /\ UNCHANGED <<outcome, lost>>
    \/ /\ executor.pc \in Answers
       /\ outcome' = executor.pc
       /\ lost' \in {lost, lost \/ executor.pc = "conflict"}
       /\ UNCHANGED <<row, verdict>>

\* The time limit of the actor is raised once.
Interrupt ==
    /\ executor.interrupt = "none"
    /\ executor.pc \notin {"done", "cut", "dead"}
    /\ InterruptUnwinds \/ InterruptLands
    /\ InterruptLeaves
    /\ lock' = "free"
    /\ UNCHANGED <<worldVars, closing, active, writers, beat, closer, errors>>

-----------------------------------------------------------------------------
(* The heartbeat.                                                          *)

BeatGoes(pc) ==
    /\ beat' = [beat EXCEPT !.pc = pc]
    /\ UNCHANGED <<rowVars, storeVars, writers, executor, closer, errors>>

\* Between two beats: the stop event ends the loop; a store that is fenced
\* answers for the database.
BeatWaits ==
    /\ beat.pc = "waiting"
    /\ \/ beat.stop /\ BeatGoes("exited")
       \/ ~beat.stop /\ lock = "free" /\ BeatGoes(IF lost THEN "refused" ELSE "calling")

BeatCall ==
    /\ beat.pc = "calling"
    /\ BeatGoes(IF Owned THEN "renewed" ELSE "refused")

BeatRaises ==
    /\ beat.pc = "calling"
    /\ DatabaseRaises
    /\ beat' = [beat EXCEPT !.pc = "waiting"]
    /\ UNCHANGED <<rowVars, storeVars, writers, executor, closer>>

\* A stop that arrived during the call ends the loop without a verdict.
BeatAnswered ==
    /\ beat.pc \in {"renewed", "refused"}
    /\ \/ beat.stop /\ BeatGoes("exited")
       \/ ~beat.stop /\ beat.pc = "renewed" /\ BeatGoes("waiting")
       \/ /\ ~beat.stop
          /\ beat.pc = "refused"
          /\ lock = "free"
          /\ BeatGoes(IF outcome \in {"applied", "idempotent"} THEN "exited" ELSE "marking")

\* mark_ownership_lost leaves the verdict to a finalizer that is still at work.
MayMarkLost == ~(closing /\ outcome = "none")

BeatMarks ==
    /\ beat.pc = "marking"
    /\ lock = "free"
    /\ \/ ~MayMarkLost /\ BeatGoes("waiting")
       \/ /\ MayMarkLost
          /\ lost' = TRUE
          /\ beat' = [beat EXCEPT !.pc = "exited", !.lost = TRUE]
          /\ UNCHANGED <<rowVars, lock, closing, active, outcome, writers, executor,
                         closer, errors>>

BeatStep == BeatWaits \/ BeatCall \/ BeatRaises \/ BeatAnswered \/ BeatMarks

-----------------------------------------------------------------------------
(* Shutdown, the operator, the lease and the database.                     *)

\* abandon_and_join: the outcome is read, then the store is fenced ...
CloserReads ==
    /\ closer = "idle"
    /\ beat.pc # "exited"
    /\ lock = "free"
    /\ closer' = IF outcome = "none" THEN "marking" ELSE "stopping"
    /\ UNCHANGED <<rowVars, storeVars, writers, executor, beat, errors>>

CloserMarks ==
    /\ closer = "marking"
    /\ lock = "free"
    /\ lost' = (lost \/ MayMarkLost)
    /\ beat' = [beat EXCEPT !.lost = TRUE]
    /\ closer' = "stopping"
    /\ UNCHANGED <<rowVars, lock, closing, active, outcome, writers, executor, errors>>

\* ... and the heartbeat stopped.
CloserStops ==
    /\ closer = "stopping"
    /\ beat' = [beat EXCEPT !.stop = TRUE]
    /\ closer' = "done"
    /\ UNCHANGED <<rowVars, storeVars, writers, executor, errors>>

\* request_cancel on the running run.
Stop ==
    /\ row = "running" /\ ~stopped
    /\ stopped' = TRUE
    /\ UNCHANGED <<row, verdict, lapsed, control, storeVars, writers, executor, beat, closer,
                   errors>>

\* The approval of a scan is revoked or expires, or its initiator loses its role.
ControlLost ==
    /\ Discovery /\ control
    /\ control' = FALSE
    /\ UNCHANGED <<row, verdict, lapsed, stopped, storeVars, writers, executor, beat, closer,
                   errors>>

Lapse ==
    /\ Owned
    /\ lapsed' = TRUE
    /\ UNCHANGED <<row, verdict, stopped, control, storeVars, writers, executor, beat, closer,
                   errors>>

\* Another process seals the run as lease_expired.
Recover ==
    /\ row = "running" /\ lapsed
    /\ row' = "theirs"
    /\ verdict' = "expired"
    /\ UNCHANGED <<worldVars, storeVars, writers, executor, beat, closer, errors>>

\* Killing the process ends its threads and frees its locks.
ProcessDies ==
    /\ executor.pc # "dead"
    /\ executor' = [executor EXCEPT !.pc = "dead"]
    /\ writers' = [w \in Writers |-> "idle"]
    /\ active' = 0
    /\ beat' = [beat EXCEPT !.pc = "exited"]
    /\ closer' = "done"
    /\ lock' = "free"
    /\ UNCHANGED <<rowVars, lost, closing, outcome, errors>>

CloserStep == CloserMarks \/ CloserStops

Step ==
    \/ \E w \in Writers : SubmitWrite(w) \/ WriterStep(w)
    \/ ExecutorStep
    \/ BeatStep
    \/ Interrupt
    \/ CloserReads \/ CloserStep
    \/ Stop \/ ControlLost
    \/ Lapse \/ Recover
    \/ ProcessDies

Next == Step /\ UNCHANGED job

\* Threads are scheduled and database calls answer; a discovery engine ends by
\* its sealed deadline, a scalar capture may go on for ever; a lease nobody
\* renews any more lapses, and the maintenance loop recovers it.
Fairness ==
    /\ \A w \in Writers : WF_vars(WriterStep(w) /\ UNCHANGED job)
    /\ WF_vars(ExecutorStep /\ (Discovery \/ executor.pc # "engine") /\ UNCHANGED job)
    /\ WF_vars(BeatStep /\ UNCHANGED job)
    /\ WF_vars(CloserStep /\ UNCHANGED job)
    /\ WF_vars(beat.pc = "exited" /\ Lapse /\ UNCHANGED job)
    /\ WF_vars(Recover /\ UNCHANGED job)

Spec == Init /\ [][Next]_vars /\ Fairness

-----------------------------------------------------------------------------
(* Properties.                                                             *)

TypeOK ==
    /\ job \in Jobs
    /\ row \in {"running", "ours", "theirs"}
    /\ verdict \in {"none"} \cup Verdicts
    /\ lapsed \in BOOLEAN /\ stopped \in BOOLEAN /\ control \in BOOLEAN
    /\ lock \in {"free", "executor"}
    /\ lost \in BOOLEAN
    /\ closing \in BOOLEAN
    /\ active \in 0..Cardinality(Writers)
    /\ outcome \in {"none", "applied", "idempotent", "conflict"}
    /\ writers \in [Writers -> {"idle", "queued", "calling"}]
    /\ executor \in [pc: {"engine", "draining", "finalize", "call", "applied", "idempotent", "conflict",
                          "raised", "wrapper", "ending", "done", "cut", "dead"},
                     result: {"none"} \cup Results, asks: {"none"} \cup Requests,
                     interrupt: {"none", "raised", "caught"}]
    /\ beat \in [pc: {"waiting", "calling", "renewed", "refused", "marking", "exited"},
                 stop: BOOLEAN, lost: BOOLEAN]
    /\ closer \in {"idle", "marking", "stopping", "done"}
    /\ errors \in 0..MaxErrors

Calling == {w \in Writers : writers[w] = "calling"}

\* While a discovery finalizes, no provider thread is inside a database call:
\* the prefix it folds is complete (_begin_mutation, _finalize_discovery_status).
SinkDrainedAtCutoff ==
    closing /\ executor.pc # "dead" => Calling = {} /\ active = 0

\* A success the engine reached is sealed as one, unless a stop was accepted, the
\* control was lost, the database failed, the time limit struck or the run was taken
\* away: none of the executor's own failure paths gets ahead of it
\* (EngineContext.append_observation, run_engine_async).
SuccessIsKept ==
    row = "ours" /\ executor.result = "success" =>
        \/ verdict = "success"
        \/ verdict = "stopped" /\ stopped
        \/ verdict = "uncontrolled" /\ Discovery /\ ~control
        \/ errors > 0
        \/ executor.interrupt # "none"

\* An executor whose last finalization was applied is not told it lost the run,
\* unless a shutdown abandons it (the comment on _lifecycle_lock,
\* OwnedRunHeartbeat._run).
AppliedIsNotLost == closer = "idle" /\ outcome = "applied" => ~lost

\* The lock a scalar job keeps over its finalization gives it that guarantee.
ScalarAppliedIsNotLost == job = "scalar" => AppliedIsNotLost

\* What the store believes is so: an outcome that was applied is in the row, and a
\* conflict, or a fence that no shutdown put up, means that the run is really gone,
\* however late the answer was (_record_finalization, OwnedRunHeartbeat._run).
BeliefsAreTrue ==
    /\ outcome \in {"applied", "idempotent"} => row = "ours"
    /\ outcome = "conflict" => ~Owned
    /\ lost /\ closer = "idle" => ~Owned

\* An executor that returned leaves no run behind that is still its own: only an
\* error of the database or a shutdown leaves one to the lapse of its lease and, of a
\* discovery, a provider thread still inside a call when it did not succeed, or an
\* interrupt that left the sink closed (_seal_owned_failure, _fail_interrupted_run).
NoOwnRunIsLeft ==
    /\ executor.pc = "done"
    /\ errors = 0 /\ closer = "idle"
    /\ Discovery => executor.result = "success" /\ executor.interrupt = "none"
    => ~Owned

\* A failed engine is never sealed as a success.
SuccessIsTheEngines ==
    row = "ours" /\ verdict = "success" => executor.result = "success"

\* A store that was fenced seals nothing any more: the run is the recovery's.
FencedNeverSeals == [][lost /\ row = "running" => row' # "ours"]_vars

\* A recorded outcome stays the only one: whatever raises, no exit path finalizes
\* again, and a discovery's store refuses even the interrupt handler, which does not
\* look at the outcome.  A scalar job has no such refusal: there the handler records a
\* conflict over an applied outcome.
OneOutcome ==
    [][outcome # "none" /\ (Discovery \/ executor.interrupt = "none")
          => outcome' = outcome]_vars

\* Whatever the threads run into, a discovery is sealed in the end, unless the
\* interrupt cuts off the step that stops its heartbeat, which then renews for ever.
RunIsSealed == Discovery => <>(row # "running" \/ executor.pc = "cut")

\* A heartbeat does not outlive its executor for ever.
BeatEnds == executor.pc = "done" ~> beat.pc = "exited"
=============================================================================
