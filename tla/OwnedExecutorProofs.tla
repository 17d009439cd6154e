-------------------------- MODULE OwnedExecutorProofs --------------------------
(***************************************************************************)
(* Theorems about the threads of one executor, for any number of provider  *)
(* threads and database errors: the sink is drained when its cutoff is     *)
(* captured; a recorded outcome stays, and a success is sealed as one,     *)
(* with the exceptions the properties name; the lock a scalar job keeps    *)
(* over its finalization protects it from a fence; and what the threads    *)
(* believe about the run is true.                                          *)
(***************************************************************************)
EXTENDS OwnedExecutor, FiniteSetTheorems, TLAPS

-----------------------------------------------------------------------------
(* The sink.                                                               *)

Threads == writers \in [Writers -> {"idle", "queued", "calling"}]

\* _active_mutations counts the threads inside a database call.
CountsCalls == active = Cardinality(Calling)

\* Nobody enters the database once the sink is closing.
ClosedIsDrained == closing => Calling = {}

SinkInv == Threads /\ CountsCalls /\ ClosedIsDrained

LEMMA CallingIsFinite == IsFiniteSet(Calling)
  BY FS_Subset, ConstantsAssumption DEF ConstantsAssumption, Calling

LEMMA InitSinkInv == Init => SinkInv
  <1> SUFFICES ASSUME Init PROVE SinkInv
    OBVIOUS
  <1>1. Threads
    BY DEF Init, Threads
  <1>2. Calling = {}
    BY DEF Init, Calling
  <1>3. active = 0 /\ closing = FALSE
    BY DEF Init
  <1>4. QED
    BY <1>1, <1>2, <1>3, FS_EmptySet DEF SinkInv, CountsCalls, ClosedIsDrained

\* A thread that goes anywhere but into a call leaves the calls or takes
\* itself out of them.
LEMMA ThreadGoes ==
    ASSUME Threads, NEW w \in Writers, NEW to \in {"idle", "queued", "calling"}, WriterGoes(w, to)
    PROVE  /\ Threads'
           /\ Calling' = IF to = "calling" THEN Calling \cup {w} ELSE Calling \ {w}
           /\ UNCHANGED closing
  <1>1. Threads' /\ UNCHANGED closing
    BY DEF Threads, WriterGoes
  <1>2. \A x \in Writers : writers'[x] = IF x = w THEN to ELSE writers[x]
    BY DEF Threads, WriterGoes
  <1>3. Calling' = {x \in Writers : writers'[x] = "calling"}
    BY DEF Calling
  <1>4. QED
    BY <1>1, <1>2, <1>3 DEF Calling

LEMMA WriterKeepsSink ==
    ASSUME SinkInv, NEW w \in Writers, SubmitWrite(w) \/ WriterStep(w)
    PROVE  SinkInv'
  <1> USE DEF SinkInv
  <1>1. CASE SubmitWrite(w)
    <2>1. Threads' /\ UNCHANGED closing /\ Calling' = Calling \ {w} /\ active' = active
      BY <1>1, ThreadGoes DEF SubmitWrite
    <2>2. w \notin Calling
      BY <1>1 DEF SubmitWrite, Calling
    <2>3. Calling' = Calling
      BY <2>1, <2>2
    <2>4. QED
      BY <2>1, <2>3 DEF CountsCalls, ClosedIsDrained
  <1>2. CASE BeginMutation(w)
    <2>1. w \notin Calling
      BY <1>2 DEF BeginMutation, Calling
    <2>2. CASE WriterGoes(w, "idle") /\ active' = active
      <3>1. Threads' /\ UNCHANGED closing /\ Calling' = Calling \ {w}
        BY <2>2, ThreadGoes
      <3>2. Calling' = Calling
        BY <2>1, <3>1
      <3>3. QED
        BY <2>2, <3>1, <3>2 DEF CountsCalls, ClosedIsDrained
    <2>3. CASE WriterGoes(w, "calling") /\ ~closing /\ active' = active + 1
      <3>1. Threads' /\ UNCHANGED closing /\ Calling' = Calling \cup {w}
        BY <2>3, ThreadGoes
      <3>2. Cardinality(Calling \cup {w}) = Cardinality(Calling) + 1
        BY <2>1, CallingIsFinite, FS_AddElement
      <3>3. QED
        BY <2>3, <3>1, <3>2 DEF CountsCalls, ClosedIsDrained
    <2>4. QED
      BY <1>2, <2>2, <2>3 DEF BeginMutation
  <1>3. CASE EndMutation(w)
    <2>1. w \in Calling
      BY <1>3 DEF EndMutation, Calling
    <2>2. Threads' /\ UNCHANGED closing /\ Calling' = Calling \ {w}
      BY <1>3, ThreadGoes DEF EndMutation
    <2>3. Cardinality(Calling \ {w}) = Cardinality(Calling) - 1
      BY <2>1, CallingIsFinite, FS_RemoveElement
    <2>4. QED
      BY <1>3, <2>1, <2>2, <2>3 DEF EndMutation, CountsCalls, ClosedIsDrained
  <1>4. QED
    BY <1>1, <1>2, <1>3 DEF WriterStep

\* The executor closes the sink only when it counts no call.
LEMMA FinalizeKeepsSink ==
    ASSUME SinkInv, FinalizeBegins
    PROVE  SinkInv'
  <1>1. UNCHANGED <<writers, active>>
    BY DEF FinalizeBegins
  <1>2. Threads' /\ CountsCalls' /\ Calling' = Calling
    BY <1>1 DEF SinkInv, Threads, CountsCalls, Calling
  <1>3. CASE Discovery
    <2>1. active = 0
      <3>1. ~(active > 0)
        BY <1>3 DEF FinalizeBegins, FinalizeRefused
      <3>2. active \in Nat
        BY CallingIsFinite, FS_CardinalityType DEF SinkInv, CountsCalls
      <3>3. QED
        BY <3>1, <3>2
    <2>2. Calling = {}
      BY <2>1, CallingIsFinite, FS_EmptySet DEF SinkInv, CountsCalls
    <2>3. QED
      BY <1>2, <2>2 DEF SinkInv, ClosedIsDrained
  <1>4. CASE ~Discovery
    <2>1. ~closing'
      BY <1>4 DEF FinalizeBegins
    <2>2. QED
      BY <1>2, <2>1 DEF SinkInv, ClosedIsDrained
  <1>5. QED
    BY <1>3, <1>4

\* Steps that touch no thread and do not close the sink.
LEMMA ElsewhereKeepsSink ==
    ASSUME SinkInv, UNCHANGED <<writers, active>>, closing' => closing
    PROVE  SinkInv'
  BY DEF SinkInv, Threads, CountsCalls, ClosedIsDrained, Calling

LEMMA DeathKeepsSink ==
    ASSUME SinkInv, ProcessDies
    PROVE  SinkInv'
  <1>1. Threads' /\ Calling' = {} /\ active' = 0
    BY DEF ProcessDies, Threads, Calling
  <1>2. QED
    BY <1>1, FS_EmptySet DEF SinkInv, CountsCalls, ClosedIsDrained

LEMMA NextSinkInv == SinkInv /\ [Next]_vars => SinkInv'
  <1> SUFFICES ASSUME SinkInv, [Next]_vars PROVE SinkInv'
    OBVIOUS
  <1>1. CASE ExecutorStep /\ ~FinalizeBegins
    <2>1. UNCHANGED <<writers, active>> /\ closing' \in {closing, FALSE}
      BY <1>1 DEF ExecutorStep, EngineStops, EngineDrains, FinalizeRefuses, FinalizeCall,
                  FinalizeRaises, RecordOutcome, ReopenAfterError, WrapperSeals,
                  WrapperLeavesRun, ExecutorEnds, OnlyExecutorMoves, storeVars
    <2>2. closing' => closing
      BY <2>1
    <2>3. QED
      BY <2>1, <2>2, ElsewhereKeepsSink
  <1>2. CASE \/ BeatStep \/ Interrupt \/ CloserReads \/ CloserStep
             \/ Stop \/ ControlLost \/ Lapse \/ Recover \/ UNCHANGED vars
    <2>1. UNCHANGED <<writers, active, closing>>
      BY <1>2 DEF BeatStep, BeatWaits, BeatCall, BeatRaises, BeatAnswered, BeatMarks, BeatGoes,
                  Interrupt, CloserReads, CloserStep, CloserMarks, CloserStops, Stop, ControlLost,
                  Lapse, Recover, storeVars, vars
    <2>2. QED
      BY <2>1, ElsewhereKeepsSink
  <1>3. QED
    BY <1>1, <1>2, WriterKeepsSink, FinalizeKeepsSink, DeathKeepsSink DEF Next, Step

\* However many provider threads write, none of them is inside a database call
\* while a discovery captures and folds its prefix (_begin_mutation,
\* _finalize_discovery_status).
THEOREM SinkIsDrained == Spec => []SinkDrainedAtCutoff
  <1>1. SinkInv => SinkDrainedAtCutoff
    BY FS_EmptySet DEF SinkInv, CountsCalls, ClosedIsDrained, SinkDrainedAtCutoff
  <1>2. QED
    BY <1>1, InitSinkInv, NextSinkInv, PTL DEF Spec

-----------------------------------------------------------------------------
(* The executor and its heartbeat.                                         *)

Finalizing == {"call", "applied", "idempotent", "conflict", "raised"}
Finished == {"wrapper", "ending", "done", "cut", "dead"}
Steps == {"engine", "draining", "finalize"} \cup Finalizing \cup Finished

\* The types of what the arguments look at.
Counters ==
    /\ executor \in [pc: Steps, result: {"none"} \cup Results, asks: {"none"} \cup Requests,
                     interrupt: {"none", "raised", "caught"}]
    /\ beat \in [pc: {"waiting", "calling", "renewed", "refused", "marking", "exited"},
                 stop: BOOLEAN, lost: BOOLEAN]

LEMMA InitCounters == Init => Counters
  BY DEF Init, Counters, Steps

\* Where the executor goes on from a finalization that raised or has an answer.
LEMMA Returning ==
    ASSUME Counters, ProcessorReturns
    PROVE  \/ executor' = [executor EXCEPT !.pc = "wrapper", !.asks = "none"]
           \/ /\ executor.interrupt = "raised"
              /\ \/ executor' = [executor EXCEPT !.pc = "finalize", !.asks = "interrupted",
                                                 !.interrupt = "caught"]
                 \/ /\ ~Discovery
                    /\ executor' = [executor EXCEPT !.pc = "wrapper", !.asks = "none",
                                                    !.interrupt = "caught"]
  BY DEF ProcessorReturns, ExecutorGoes

LEMMA Raising ==
    ASSUME Counters, AfterRaise
    PROVE  \/ executor' = [executor EXCEPT !.pc = "finalize", !.asks = "unsaved"]
           \/ executor' = [executor EXCEPT !.pc = "wrapper", !.asks = "none"]
           \/ /\ executor.asks = "unfinished"
              /\ executor' = [executor EXCEPT !.pc = "ending", !.asks = "none"]
           \/ /\ executor.interrupt = "raised"
              /\ \/ executor' = [executor EXCEPT !.pc = "finalize", !.asks = "interrupted",
                                                 !.interrupt = "caught"]
                 \/ /\ ~Discovery
                    /\ executor' = [executor EXCEPT !.pc = "wrapper", !.asks = "none",
                                                    !.interrupt = "caught"]
  BY DEF AfterRaise, ProcessorReturns, ExecutorGoes

LEMMA RaisingKeepsInterrupt ==
    ASSUME Counters, AfterRaise, executor.interrupt # "raised"
    PROVE  executor'.interrupt = executor.interrupt
  BY DEF AfterRaise, ProcessorReturns, ExecutorGoes, Counters

LEMMA Recording ==
    ASSUME Counters, RecordOutcome
    PROVE  \/ executor' = [executor EXCEPT !.pc = "wrapper", !.asks = "none"]
           \/ executor' = [executor EXCEPT !.pc = "ending", !.asks = "none"]
           \/ /\ executor.interrupt = "raised"
              /\ \/ executor' = [executor EXCEPT !.pc = "finalize", !.asks = "interrupted",
                                                 !.interrupt = "caught"]
                 \/ /\ ~Discovery
                    /\ executor' = [executor EXCEPT !.pc = "wrapper", !.asks = "none",
                                                    !.interrupt = "caught"]
  <1>1. CASE executor.asks \in {"unfinished", "interrupted"}
    BY <1>1 DEF RecordOutcome, ExecutorGoes
  <1>2. CASE executor.asks \notin {"unfinished", "interrupted"}
    <2>1. ProcessorReturns
      BY <1>2 DEF RecordOutcome
    <2>2. QED
      BY <2>1, Returning
  <1>3. QED
    BY <1>1, <1>2

\* An interrupt is caught behind whatever it struck.
LEMMA Striking ==
    ASSUME Counters, Interrupt
    PROVE  \/ /\ executor.pc \in {"engine", "draining"}
              /\ \E result \in {"cancel", "failure"} :
                   executor' = [pc |-> "draining", result |-> result, asks |-> result,
                                interrupt |-> "raised"]
           \/ /\ executor.pc # "ending" /\ executor.asks # "unfinished"
              /\ executor' = [executor EXCEPT !.pc = "finalize", !.asks = "interrupted",
                                              !.interrupt = "caught"]
           \/ /\ ~Discovery \/ executor.pc = "wrapper"
              /\ executor' = [executor EXCEPT !.pc = "wrapper", !.asks = "none",
                                              !.interrupt = "caught"]
           \/ /\ executor.pc = "wrapper" \/ executor.asks = "unfinished"
              /\ executor' = [executor EXCEPT !.pc = "ending", !.asks = "none",
                                              !.interrupt = "caught"]
           \/ /\ executor.pc = "ending"
              /\ executor' = [executor EXCEPT !.pc = "cut", !.asks = "none",
                                              !.interrupt = "caught"]
  BY DEF Interrupt, InterruptUnwinds, InterruptLands, InterruptCaught

LEMMA StrikingEndsCall ==
    ASSUME Counters, Interrupt
    PROVE  executor'.pc \notin Finalizing
  <1>1. CASE InterruptUnwinds
    BY <1>1 DEF InterruptUnwinds, Finalizing
  <1>2. CASE InterruptLands
    BY <1>2 DEF InterruptLands, InterruptCaught, Counters, Finalizing
  <1>3. QED
    BY <1>1, <1>2 DEF Interrupt

LEMMA StrikingKeepsLoss ==
    ASSUME Interrupt
    PROVE  UNCHANGED <<beat, closer>> /\ (Owned' => Owned) /\ (lost => lost')
  <1>1. UNCHANGED <<beat, closer, lapsed>> /\ (row' = "running" => row = "running")
    BY DEF Interrupt, InterruptLeaves, Seal, worldVars
  <1>2. lost => lost'
    BY DEF Interrupt, InterruptLeaves
  <1>3. QED
    BY <1>1, <1>2 DEF Owned

LEMMA NextCounters ==
    ASSUME Counters, [Next]_vars
    PROVE  Counters'
  <1> USE DEF Counters, Steps, Finalizing, Finished, Results, Requests
  <1>1. CASE ExecutorStep
    <2>1. UNCHANGED beat \/ beat' = [beat EXCEPT !.stop = TRUE]
      BY <1>1 DEF ExecutorStep, EngineStops, EngineDrains, FinalizeRefuses, FinalizeBegins,
                  FinalizeCall, FinalizeRaises, RecordOutcome, ReopenAfterError, WrapperSeals,
                  WrapperLeavesRun, ExecutorEnds, OnlyExecutorMoves
    <2>2. CASE EngineStops
      BY <2>1, <2>2 DEF EngineStops
    <2>3. CASE FinalizeCall \/ FinalizeRaises
      BY <2>1, <2>3 DEF FinalizeCall, FinalizeRaises, FinalizeAnswer
    <2>4. CASE EngineDrains \/ FinalizeBegins \/ WrapperSeals \/ WrapperLeavesRun \/ ExecutorEnds
      BY <2>1, <2>4 DEF EngineDrains, FinalizeBegins, WrapperSeals, WrapperLeavesRun,
                        ExecutorEnds, ExecutorGoes
    <2>5. CASE FinalizeRefuses \/ ReopenAfterError
      <3>1. AfterRaise
        BY <2>5 DEF FinalizeRefuses, ReopenAfterError
      <3>2. QED
        BY <2>1, <3>1, Raising
    <2>6. CASE RecordOutcome
      BY <2>1, <2>6, Recording
    <2>7. QED
      BY <1>1, <2>2, <2>3, <2>4, <2>5, <2>6 DEF ExecutorStep
  <1>2. CASE BeatStep
    BY <1>2 DEF BeatStep, BeatWaits, BeatCall, BeatRaises, BeatAnswered, BeatMarks, BeatGoes
  <1>3. CASE Interrupt
    <2>1. UNCHANGED beat
      BY <1>3 DEF Interrupt
    <2>2. CASE InterruptUnwinds
      BY <2>1, <2>2 DEF InterruptUnwinds
    <2>3. CASE InterruptLands
      <3>1. ASSUME NEW pc \in Steps, NEW asks \in {"none"} \cup Requests, InterruptCaught(pc, asks)
            PROVE  Counters'
        <4> HIDE DEF Steps, Requests, Results
        <4>1. QED
          BY <2>1, <3>1 DEF InterruptCaught
      <3>2. CASE InterruptCaught("finalize", "interrupted")
        BY <3>1, <3>2
      <3>3. CASE InterruptCaught("wrapper", "none")
        BY <3>1, <3>3
      <3>4. CASE InterruptCaught("ending", "none")
        BY <3>1, <3>4
      <3>5. CASE InterruptCaught("cut", "none")
        BY <3>1, <3>5
      <3>6. QED
        BY <2>3, <3>2, <3>3, <3>4, <3>5 DEF InterruptLands
    <2>4. QED
      BY <1>3, <2>2, <2>3 DEF Interrupt
  <1>4. CASE ProcessDies
    BY <1>4 DEF ProcessDies
  <1>5. CASE \/ \E w \in Writers : SubmitWrite(w) \/ WriterStep(w)
             \/ CloserReads \/ CloserStep \/ Stop \/ ControlLost \/ Lapse \/ Recover
             \/ UNCHANGED vars
    BY <1>5 DEF SubmitWrite, WriterStep, BeginMutation, EndMutation, WriterGoes, CloserReads,
                CloserStep, CloserMarks, CloserStops, Stop, ControlLost, Lapse, Recover, vars
  <1>6. QED
    BY <1>1, <1>2, <1>3, <1>4, <1>5 DEF Next, Step

-----------------------------------------------------------------------------
(* The outcome.                                                            *)

\* An executor with an outcome has nothing left to finalize, but for the handler
\* of an interrupt; a discovery's handler gets no further than the store.
OutcomeEndsWork ==
    outcome # "none" =>
        \/ executor.pc \in Finished
        \/ /\ executor.interrupt = "caught"
           /\ ~Discovery \/ (executor.pc = "finalize" /\ executor.asks = "interrupted")

LEMMA InitOutcomeEndsWork == Init => OutcomeEndsWork
  BY DEF Init, OutcomeEndsWork

LEMMA NextOutcomeEndsWork ==
    ASSUME Counters, OutcomeEndsWork, [Next]_vars
    PROVE  /\ OutcomeEndsWork'
           /\ outcome # "none" /\ (Discovery \/ executor.interrupt = "none")
                => outcome' = outcome
  <1>0. Discovery' = Discovery
    BY DEF Next, vars, Discovery
  <1> USE <1>0 DEF Counters, OutcomeEndsWork, Finished, Finalizing, Steps
  <1>1. CASE UNCHANGED <<outcome, executor>>
    BY <1>1
  <1>2. CASE RecordOutcome
    <2>1. executor.pc \in Finalizing
      BY <1>2 DEF RecordOutcome, Answers
    <2>2. QED
      BY <1>2, <2>1, Recording
  <1>3. CASE Interrupt
    <2>1. executor.interrupt = "none" /\ executor.pc \notin {"done", "cut", "dead"}
      BY <1>3 DEF Interrupt
    <2>2. UNCHANGED outcome \/ executor.pc \in Finalizing
      BY <1>3 DEF Interrupt, InterruptLeaves, Answers
    <2>3. CASE outcome = "none"
      <3>1. UNCHANGED outcome \/ executor'.pc \in Finished \/
               (executor'.interrupt = "caught" /\ executor'.pc = "finalize"
                  /\ executor'.asks = "interrupted")
        BY <1>3, <2>2, Striking
      <3>2. QED
        BY <2>3, <3>1
    <2>4. CASE outcome # "none"
      <3>1. UNCHANGED outcome /\ executor.pc \in {"wrapper", "ending"}
        BY <2>1, <2>2, <2>4
      <3>2. QED
        BY <1>3, <2>4, <3>1, Striking
    <2>5. QED
      BY <2>3, <2>4
  <1>4. CASE FinalizeRefuses \/ ReopenAfterError
    <2>1. UNCHANGED outcome /\ AfterRaise /\ executor.pc \in {"finalize", "raised"}
      BY <1>4 DEF FinalizeRefuses, ReopenAfterError, OnlyExecutorMoves, storeVars
    <2>2. CASE outcome # "none"
      <3>1. executor.interrupt = "caught" /\ (Discovery => executor.asks = "interrupted")
        BY <2>1, <2>2
      <3>2. Discovery => executor'.pc = "wrapper"
        BY <2>1, <3>1 DEF AfterRaise, ExecutorGoes, Results
      <3>3. executor'.interrupt = "caught"
        BY <2>1, <3>1, RaisingKeepsInterrupt
      <3>4. UNCHANGED outcome
        BY <2>1
      <3>5. QED
        BY <3>2, <3>3, <3>4, Zenon
    <2>3. QED
      BY <2>1, <2>2
  <1>5. CASE WrapperLeavesRun \/ ExecutorEnds
    BY <1>5 DEF WrapperLeavesRun, ExecutorEnds, ExecutorGoes, OnlyExecutorMoves, storeVars
  <1>6. CASE WrapperSeals
    BY <1>6 DEF WrapperSeals, OnlyExecutorMoves, storeVars
  <1>7. CASE EngineStops \/ EngineDrains \/ FinalizeBegins \/ FinalizeCall \/ FinalizeRaises
    <2>1. UNCHANGED outcome /\ executor.pc \notin Finished
      BY <1>7 DEF EngineStops, EngineDrains, FinalizeBegins, FinalizeCall, FinalizeRaises,
                  OnlyExecutorMoves, storeVars
    <2>2. CASE outcome # "none"
      <3>1. executor.interrupt = "caught"
            /\ (~Discovery \/ (executor.pc = "finalize" /\ executor.asks = "interrupted"))
        BY <2>1, <2>2
      <3>2. ~Discovery
        BY <1>7, <2>2, <3>1 DEF EngineStops, EngineDrains, FinalizeBegins, FinalizeRefused,
                                FinalizeCall, FinalizeRaises
      <3>3. executor'.interrupt = "caught"
        <4>1. executor'.interrupt = executor.interrupt
          BY <1>7 DEF EngineStops, EngineDrains, FinalizeBegins, FinalizeCall, FinalizeRaises,
                      ExecutorGoes
        <4>2. QED
          BY <3>1, <4>1
      <3>4. QED
        BY <2>1, <3>2, <3>3
    <2>3. QED
      BY <2>1, <2>2
  <1>8. CASE ProcessDies
    BY <1>8 DEF ProcessDies
  <1>9. CASE \/ \E w \in Writers : SubmitWrite(w) \/ WriterStep(w)
             \/ BeatStep \/ CloserReads \/ CloserStep
             \/ Stop \/ ControlLost \/ Lapse \/ Recover \/ UNCHANGED vars
    <2>1. UNCHANGED <<outcome, executor>>
      BY <1>9 DEF SubmitWrite, WriterStep, BeginMutation, EndMutation, WriterGoes,
                  BeatStep, BeatWaits, BeatCall, BeatRaises, BeatAnswered, BeatMarks, BeatGoes,
                  CloserReads, CloserStep, CloserMarks, CloserStops, Stop, ControlLost, Lapse,
                  Recover, storeVars, vars
    <2>2. QED
      BY <1>1, <2>1
  <1>10. QED
    BY <1>2, <1>3, <1>4, <1>5, <1>6, <1>7, <1>8, <1>9 DEF Next, Step, ExecutorStep

\* Wrapper, guard and processor may each finalize, and each may be struck by an
\* error, but once one of them has an outcome no other records a second one.  The
\* interrupt handler does not look; the store of a discovery refuses it, that of a
\* scalar job does not (OwnedRunStore.update_run_status, _fail_interrupted_run).
THEOREM OutcomeIsFinal == Spec => OneOutcome
  <1> DEFINE Inv == Counters /\ OutcomeEndsWork
  <1>1. Init => Inv
    BY InitCounters, InitOutcomeEndsWork
  <1>2. Inv /\ [Next]_vars => Inv'
    BY NextCounters, NextOutcomeEndsWork
  <1>3. Inv /\ [Next]_vars =>
          [outcome # "none" /\ (Discovery \/ executor.interrupt = "none")
              => outcome' = outcome]_vars
    BY NextOutcomeEndsWork
  <1> HIDE DEF Inv
  <1>4. QED
    BY <1>1, <1>2, <1>3, PTL DEF Spec, OneOutcome

-----------------------------------------------------------------------------
(* The lock.                                                               *)

\* A scalar job has the lock from the check of its ownership to the record of
\* its outcome.
LockIsKept == executor.pc \in Finalizing => lock = "executor" /\ ~lost

\* A beat is refused because the run is gone or the store is fenced.  The fence
\* it is about to put up therefore comes after the last chance to apply.
RefusedForAReason ==
    closer = "idle" /\ beat.pc \in {"refused", "marking"} => ~Owned \/ lost

TooLateToApply ==
    closer = "idle" /\ beat.pc = "marking" => outcome # "applied" /\ executor.pc # "applied"

LockInv ==
    /\ Counters
    /\ job = "scalar" =>
         LockIsKept /\ RefusedForAReason /\ TooLateToApply /\ AppliedIsNotLost

LEMMA InitLockInv == Init => LockInv
  BY DEF Init, LockInv, Counters, Steps, Finalizing, Finished, LockIsKept, RefusedForAReason,
         TooLateToApply, AppliedIsNotLost

LEMMA NextLockInv == LockInv /\ [Next]_vars => LockInv'
  <1> SUFFICES ASSUME LockInv, [Next]_vars PROVE LockInv'
    OBVIOUS
  <1>0. Counters /\ Counters' /\ UNCHANGED job
    BY NextCounters DEF LockInv, Next, vars
  <1> SUFFICES ASSUME job = "scalar"
               PROVE  (LockIsKept /\ RefusedForAReason /\ TooLateToApply /\ AppliedIsNotLost)'
    BY <1>0 DEF LockInv
  <1>1. LockIsKept /\ RefusedForAReason /\ TooLateToApply /\ AppliedIsNotLost
    BY DEF LockInv
  <1> USE <1>0, <1>1 DEF Counters, Finalizing, Steps, Finished, LockIsKept, RefusedForAReason,
                         TooLateToApply, AppliedIsNotLost
  <1>2. CASE ExecutorStep
    <2>1. UNCHANGED <<closer, lapsed>> /\ beat'.pc = beat.pc
      BY <1>2 DEF ExecutorStep, EngineStops, EngineDrains, FinalizeRefuses, FinalizeBegins,
                  FinalizeCall, FinalizeRaises, RecordOutcome, ReopenAfterError, WrapperSeals,
                  WrapperLeavesRun, ExecutorEnds, OnlyExecutorMoves, rowVars, worldVars
    <2>2. CASE FinalizeBegins
      BY <2>1, <2>2 DEF FinalizeBegins, FinalizeRefused, Discovery, ExecutorGoes, rowVars, worldVars, Owned
    <2>3. CASE FinalizeCall
      <3>1. executor'.pc = FinalizeAnswer /\ UNCHANGED storeVars /\ (Owned' => Owned)
        BY <2>3 DEF FinalizeCall, Seal, worldVars, Owned
      <3>2. executor.pc = "call"
        BY <2>3 DEF FinalizeCall
      <3>3. FinalizeAnswer = "applied" => Owned
        BY DEF FinalizeAnswer
      <3>4. FinalizeAnswer \in Finalizing
        BY DEF FinalizeAnswer
      <3>5. QED
        BY <2>1, <3>1, <3>2, <3>3, <3>4 DEF storeVars
    <2>4. CASE FinalizeRaises
      BY <2>1, <2>4 DEF FinalizeRaises, Seal, storeVars, worldVars, Owned
    <2>5. CASE RecordOutcome
      <3>1. executor'.pc \in {"ending", "wrapper", "finalize"}
        BY <2>5, Recording
      <3>2. outcome' = executor.pc /\ lost' = (lost \/ executor.pc = "conflict")
        BY <2>5 DEF RecordOutcome
      <3>3. (Owned' <=> Owned) /\ executor.pc \in {"applied", "idempotent", "conflict"}
        BY <2>5 DEF RecordOutcome, Answers, rowVars, worldVars, Owned
      <3>4. lost' => executor.pc = "conflict"
        BY <3>2, <3>3
      <3>5. RefusedForAReason'
        BY <2>1, <3>2, <3>3
      <3>6. TooLateToApply' /\ AppliedIsNotLost'
        BY <2>1, <3>1, <3>2, <3>4
      <3>7. QED
        BY <3>1, <3>5, <3>6
    <2>6. CASE EngineStops \/ EngineDrains \/ FinalizeRefuses \/ WrapperSeals \/ WrapperLeavesRun
      <3>1. executor'.pc \notin Finalizing
        BY <2>6, Raising DEF EngineStops, EngineDrains, FinalizeRefuses, WrapperSeals,
                             WrapperLeavesRun, ExecutorGoes
      <3>2. UNCHANGED <<rowVars, storeVars, closer>>
        BY <2>6 DEF EngineStops, EngineDrains, FinalizeRefuses, WrapperSeals, WrapperLeavesRun,
                    OnlyExecutorMoves, storeVars, rowVars
      <3>3. QED
        BY <2>1, <3>1, <3>2 DEF rowVars, worldVars, storeVars, Owned
    <2>7. CASE ReopenAfterError \/ ExecutorEnds
      <3>1. executor'.pc \notin Finalizing
        BY <2>7, Raising DEF ReopenAfterError, ExecutorEnds, ExecutorGoes
      <3>2. UNCHANGED <<rowVars, lost, outcome, closer>>
        BY <2>7 DEF ReopenAfterError, ExecutorEnds, storeVars
      <3>3. QED
        BY <2>1, <3>1, <3>2 DEF rowVars, worldVars, Owned
    <2>8. QED
      BY <1>2, <2>2, <2>3, <2>4, <2>5, <2>6, <2>7 DEF ExecutorStep
  <1>3. CASE BeatStep
    <2>1. UNCHANGED <<rowVars, lock, outcome, executor, closer>> /\ (lost => lost')
      BY <1>3 DEF BeatStep, BeatWaits, BeatCall, BeatRaises, BeatAnswered, BeatMarks, BeatGoes,
                  storeVars
    <2>2. CASE BeatMarks
      BY <2>1, <2>2 DEF BeatMarks, BeatGoes, storeVars, rowVars, worldVars, Owned
    <2>3. CASE ~BeatMarks
      <3>1. UNCHANGED lost
        BY <1>3, <2>3 DEF BeatStep, BeatWaits, BeatCall, BeatRaises, BeatAnswered, BeatGoes,
                          storeVars
      <3>2. beat'.pc \in {"refused", "marking"} =>
               \/ ~Owned \/ lost \/ beat.pc = "refused"
        BY <1>3, <2>3 DEF BeatStep, BeatWaits, BeatCall, BeatRaises, BeatAnswered, BeatGoes
      <3>3. beat'.pc = "marking" =>
               beat.pc = "refused" /\ lock = "free" /\ outcome # "applied"
        BY <1>3, <2>3 DEF BeatStep, BeatWaits, BeatCall, BeatRaises, BeatAnswered, BeatGoes
      <3>4. QED
        BY <2>1, <3>1, <3>2, <3>3 DEF rowVars, worldVars, Owned
    <2>4. QED
      BY <2>2, <2>3
  <1>4. CASE CloserReads \/ CloserStep
    <2>1. closer' # "idle" /\ UNCHANGED <<lock, executor>>
      BY <1>4 DEF CloserReads, CloserStep, CloserMarks, CloserStops, storeVars
    <2>2. UNCHANGED lost \/ lock = "free"
      BY <1>4 DEF CloserReads, CloserStep, CloserMarks, CloserStops, storeVars
    <2>3. QED
      BY <2>1, <2>2
  <1>5. CASE ProcessDies
    BY <1>5 DEF ProcessDies
  <1>6. CASE Interrupt
    <2>1. executor'.pc \notin Finalizing
      BY <1>6, StrikingEndsCall
    <2>2. UNCHANGED <<beat, closer>> /\ (Owned' => Owned) /\ (lost => lost')
      BY <1>6, StrikingKeepsLoss
    <2>3. CASE UNCHANGED <<outcome, lost>>
      BY <2>1, <2>2, <2>3
    <2>4. CASE executor.pc \in Answers /\ outcome' = executor.pc
               /\ (lost' => lost \/ executor.pc = "conflict")
      <3>1. lost' => executor.pc = "conflict"
        BY <2>4 DEF Answers
      <3>2. QED
        BY <2>1, <2>2, <2>4, <3>1 DEF Answers
    <2>5. QED
      BY <1>6, <2>3, <2>4 DEF Interrupt, InterruptLeaves
  <1>7. CASE \/ \E w \in Writers : SubmitWrite(w) \/ WriterStep(w)
             \/ Stop \/ ControlLost \/ Lapse \/ Recover \/ UNCHANGED vars
    <2>1. UNCHANGED <<lock, lost, outcome, executor, beat, closer>> /\ (Owned' => Owned)
      BY <1>7 DEF SubmitWrite, WriterStep, BeginMutation, EndMutation, WriterGoes, Stop,
                  ControlLost, Lapse, Recover, vars, storeVars, rowVars, worldVars, Owned
    <2>2. QED
      BY <2>1
  <1>8. QED
    BY <1>2, <1>3, <1>4, <1>5, <1>6, <1>7 DEF Next, Step

\* The lock a scalar job keeps over its finalization orders the fence of the
\* heartbeat before it, where the run is not owned any more, or after it, where
\* the outcome is known (the comment on _lifecycle_lock).
THEOREM ScalarOutcomeIsSafe == Spec => []ScalarAppliedIsNotLost
  <1>1. LockInv => ScalarAppliedIsNotLost
    BY DEF LockInv, ScalarAppliedIsNotLost
  <1>2. QED
    BY <1>1, InitLockInv, NextLockInv, PTL DEF Spec

-----------------------------------------------------------------------------
(* The success.                                                            *)

Sealing == FinalizeCall \/ FinalizeRaises \/ Interrupt

\* A run that is not owned is never owned again, a seal stays, and what a seal
\* depends on, an accepted stop and a lost control, stays too.
LEMMA NeverOwnedAgain ==
    ASSUME [Next]_vars
    PROVE  /\ ~Owned => ~Owned'
           /\ row = "ours" => row' = "ours" /\ verdict' = verdict
           /\ stopped => stopped'
           /\ control' => control
           /\ UNCHANGED <<row, verdict>> \/ (Sealing /\ executor.pc = "call" /\ Seal)
                                         \/ (Recover /\ row = "running" /\ row' = "theirs")
  <1>1. CASE Sealing
    BY <1>1 DEF Sealing, FinalizeCall, FinalizeRaises, Interrupt, InterruptLeaves, Seal, Owned,
                worldVars
  <1>2. CASE Stop \/ ControlLost \/ Lapse \/ Recover
    BY <1>2 DEF Stop, ControlLost, Lapse, Recover, worldVars, Owned
  <1>3. CASE UNCHANGED rowVars
    BY <1>3 DEF rowVars, worldVars, Owned
  <1>4. QED
    BY <1>1, <1>2, <1>3
    DEF Next, Step, SubmitWrite, WriterStep, BeginMutation, EndMutation, WriterGoes, Sealing,
        ExecutorStep, EngineStops, EngineDrains, FinalizeRefuses, FinalizeBegins,
        RecordOutcome, ReopenAfterError, WrapperSeals,
        WrapperLeavesRun, ExecutorEnds, OnlyExecutorMoves, BeatStep, BeatWaits, BeatCall,
        BeatRaises, BeatAnswered, BeatMarks, BeatGoes, CloserReads, CloserStep,
        CloserMarks, CloserStops, ProcessDies, vars

\* A finalization in progress is not fenced: the fence looks at closing, and a
\* scalar job has the lock.  Only an interrupt leaves a sink closed.
FinalizerIsShielded ==
    /\ executor.pc \in Finalizing => ~lost /\ (closing \/ lock = "executor")
    /\ closing => Discovery /\ (executor.pc \in Finalizing \cup {"dead"}
                                  \/ executor.interrupt # "none")

\* The writers of a success are done before it is sealed, so nothing but a fence,
\* an interrupt or an error of the database gets ahead of it.
SuccessIsPursued ==
    executor.result = "success" /\ executor.interrupt = "none" =>
        /\ executor.pc \notin {"engine", "draining", "dead"} =>
               \A w \in Writers : writers[w] = "idle"
        /\ executor.pc = "draining" => executor.asks = "success"
        /\ executor.pc = "finalize" => executor.asks = "success" \/ errors > 0 \/ lost
        /\ executor.pc \in Finalizing => executor.asks = "success" \/ errors > 0
        /\ executor.pc = "wrapper" => errors > 0 \/ lost \/ outcome # "none"

\* What the arguments about a success have in common.
Shielded ==
    /\ errors \in Nat
    /\ row = "ours" => executor.pc \notin {"engine", "draining"}
    /\ executor.pc = "raised" => errors > 0
    /\ FinalizerIsShielded
    /\ SuccessIsPursued
    /\ SuccessIsKept

SuccessInv == Counters /\ SinkInv /\ OutcomeEndsWork /\ Shielded

LEMMA InitSuccessInv == Init => SuccessInv
  <1> SUFFICES ASSUME Init PROVE SuccessInv
    OBVIOUS
  <1>1. executor.pc = "engine" /\ executor.result = "none" /\ errors = 0 /\ row = "running"
        /\ ~closing
    BY DEF Init
  <1> QED
    BY <1>1, InitCounters, InitSinkInv, InitOutcomeEndsWork
       DEF SuccessInv, Shielded, FinalizerIsShielded, SuccessIsPursued, SuccessIsKept, Finalizing

\* A success is refused for one reason only.
LEMMA RefusedSuccess ==
    ASSUME SuccessInv, FinalizeRefuses, executor.result = "success",
           executor.interrupt = "none"
    PROVE  lost
  <1> SUFFICES ASSUME ~lost PROVE FALSE
    OBVIOUS
  <1>1. executor.pc = "finalize" /\ FinalizeRefused
    BY DEF FinalizeRefuses
  <1>2. \A w \in Writers : writers[w] = "idle"
    BY <1>1 DEF SuccessInv, Shielded, SuccessIsPursued
  <1>3. active = 0
    BY <1>2, FS_EmptySet DEF SuccessInv, SinkInv, CountsCalls, Calling
  <1>4. ~closing /\ outcome = "none"
    BY <1>1 DEF SuccessInv, Shielded, FinalizerIsShielded, OutcomeEndsWork, Finalizing, Finished
  <1> QED
    BY <1>1, <1>3, <1>4 DEF FinalizeRefused

\* The seal of a success is the success, or what the stop or the control made of it.
LEMMA SealKeepsSuccess ==
    ASSUME Shielded, [Next]_vars, executor.interrupt = "none", executor.pc = "call", Seal,
           executor.result = "success", errors = 0
    PROVE  \/ verdict' = "success"
           \/ verdict' = "stopped" /\ stopped'
           \/ verdict' = "uncontrolled" /\ Discovery' /\ ~control'
  <1>1. executor.asks = "success"
    BY DEF Shielded, SuccessIsPursued, Finalizing
  <1>2. verdict' = Terminal("success")
    BY <1>1 DEF Seal
  <1>3. Discovery' = Discovery
    BY DEF Next, vars, Discovery
  <1>4. QED
    BY <1>2, <1>3, NeverOwnedAgain DEF Terminal

\* An error, an interrupt and the end of the engine are remembered.
LEMMA ExecutorRemembers ==
    ASSUME Counters, errors \in Nat, [Next]_vars
    PROVE  /\ errors' \in Nat /\ (errors > 0 => errors' > 0)
           /\ executor.interrupt # "none" => executor'.interrupt # "none"
           /\ executor'.result = "success" => executor.result = "success" \/ executor.pc = "engine"
           /\ executor'.pc = "engine" => executor.pc = "engine"
  <1>1. UNCHANGED errors \/ DatabaseRaises
    BY DEF Next, Step, SubmitWrite, WriterStep, BeginMutation, EndMutation, WriterGoes,
           ExecutorStep, EngineStops, EngineDrains, FinalizeRefuses, FinalizeBegins,
           FinalizeCall, FinalizeRaises, RecordOutcome, ReopenAfterError, WrapperSeals,
           WrapperLeavesRun, ExecutorEnds, OnlyExecutorMoves, Interrupt, BeatStep, BeatWaits,
           BeatCall, BeatRaises, BeatAnswered, BeatMarks, BeatGoes, CloserReads, CloserStep,
           CloserMarks, CloserStops, Stop, ControlLost, Lapse, Recover, ProcessDies, vars
  <1>2. errors' \in Nat /\ (errors > 0 => errors' > 0)
    BY <1>1 DEF DatabaseRaises
  <1> DEFINE Remembers ==
               /\ executor.interrupt # "none" => executor'.interrupt # "none"
               /\ executor'.result = "success" =>
                     executor.result = "success" \/ executor.pc = "engine"
               /\ executor'.pc = "engine" => executor.pc = "engine"
  <1> SUFFICES Remembers
    BY <1>2
  <1>3. CASE EngineStops
    BY <1>3 DEF EngineStops, Counters
  <1>4. CASE \/ EngineDrains \/ FinalizeBegins \/ WrapperSeals \/ WrapperLeavesRun
             \/ ExecutorEnds \/ ProcessDies
    BY <1>4 DEF EngineDrains, FinalizeBegins, WrapperSeals, WrapperLeavesRun, ExecutorEnds,
                ProcessDies, ExecutorGoes, Counters
  <1>5. CASE FinalizeCall \/ FinalizeRaises
    BY <1>5 DEF FinalizeCall, FinalizeRaises, FinalizeAnswer, Counters
  <1>6. CASE FinalizeRefuses \/ ReopenAfterError
    <2>1. AfterRaise
      BY <1>6 DEF FinalizeRefuses, ReopenAfterError
    <2>2. QED
      BY <2>1, Raising DEF Counters
  <1>7. CASE RecordOutcome
    BY <1>7, Recording DEF Counters
  <1>8. CASE Interrupt
    <2>1. executor.interrupt = "none"
      BY <1>8 DEF Interrupt
    <2>2. CASE InterruptUnwinds
      BY <2>1, <2>2 DEF InterruptUnwinds
    <2>3. CASE InterruptLands
      BY <2>1, <2>3 DEF InterruptLands, InterruptCaught, Counters
    <2>4. QED
      BY <1>8, <2>2, <2>3 DEF Interrupt
  <1>9. CASE UNCHANGED executor
    BY <1>9
  <1>10. QED
    <2>1. \/ ExecutorStep \/ ProcessDies \/ Interrupt \/ UNCHANGED executor
      BY DEF Next, Step, SubmitWrite, WriterStep, BeginMutation, EndMutation, WriterGoes,
             BeatStep, BeatWaits, BeatCall, BeatRaises, BeatAnswered, BeatMarks, BeatGoes,
             CloserReads, CloserStep, CloserMarks, CloserStops, Stop, ControlLost, Lapse,
             Recover, vars
    <2>2. QED
      BY <2>1, <1>3, <1>4, <1>5, <1>6, <1>7, <1>8, <1>9 DEF ExecutorStep

LEMMA NextSuccessIsKept ==
    ASSUME SuccessInv, [Next]_vars
    PROVE  SuccessIsKept'
  <1>1. SUFFICES ASSUME row' = "ours", executor'.result = "success", errors' = 0,
                        executor'.interrupt = "none"
                 PROVE  \/ verdict' = "success"
                        \/ verdict' = "stopped" /\ stopped'
                        \/ verdict' = "uncontrolled" /\ Discovery' /\ ~control'
    <2>1. errors' \in Nat
      BY ExecutorRemembers DEF SuccessInv, Shielded
    <2>2. QED
      BY <2>1 DEF SuccessIsKept
  <1>2. /\ errors = 0 /\ executor.interrupt = "none"
        /\ executor.result = "success" \/ executor.pc = "engine"
    BY <1>1, ExecutorRemembers DEF SuccessInv, Shielded
  <1>3. CASE UNCHANGED <<row, verdict>>
    <2>1. row = "ours" /\ executor.result = "success"
      BY <1>1, <1>2, <1>3 DEF SuccessInv, Shielded
    <2>2. Discovery' = Discovery
      BY DEF Next, vars, Discovery
    <2>3. QED
      BY <1>2, <1>3, <2>1, <2>2, NeverOwnedAgain DEF SuccessInv, Shielded, SuccessIsKept
  <1>4. CASE executor.pc = "call" /\ Seal
    <2>1. executor.result = "success"
      BY <1>2, <1>4
    <2>2. QED
      BY <1>2, <1>4, <2>1, SealKeepsSuccess DEF SuccessInv
  <1>5. QED
    BY <1>1, <1>3, <1>4, NeverOwnedAgain

\* What is left of the shield, step by step.
Shield ==
    /\ row = "ours" => executor.pc \notin {"engine", "draining"}
    /\ executor.pc = "raised" => errors > 0
    /\ FinalizerIsShielded
    /\ SuccessIsPursued

LEMMA ExecutorKeepsShield ==
    ASSUME SuccessInv, Counters', [Next]_vars, ExecutorStep
    PROVE  Shield'
  <1>0. Counters /\ OutcomeEndsWork /\ Shield /\ errors \in Nat
    BY DEF SuccessInv, Shielded, Shield
  <1>1. Discovery' = Discovery
    BY DEF Next, vars, Discovery
  <1> USE <1>0, <1>1 DEF Counters, Steps, Finalizing, Finished, Results, Shield,
                         FinalizerIsShielded, SuccessIsPursued
  <1>2. CASE EngineStops
    BY <1>2 DEF EngineStops, OnlyExecutorMoves, rowVars, storeVars
  <1>3. CASE EngineDrains
    BY <1>3 DEF EngineDrains, ExecutorGoes, OnlyExecutorMoves, rowVars, storeVars
  <1>4. CASE FinalizeRefuses
    <2>1. executor.pc = "finalize"
      BY <1>4 DEF FinalizeRefuses
    <2>2. UNCHANGED <<row, verdict, lost, closing, outcome, lock, writers, errors>>
      BY <1>4 DEF FinalizeRefuses, OnlyExecutorMoves, rowVars, storeVars
    <2>3. executor.result = "success" /\ executor.interrupt = "none" => lost
      BY <1>4, RefusedSuccess
    <2>4. AfterRaise
      BY <1>4 DEF FinalizeRefuses
    <2> QED BY <2>1, <2>2, <2>3, <2>4, Raising
  <1>5. CASE FinalizeBegins
    <2>1. executor.pc = "finalize" /\ ~lost
      BY <1>5 DEF FinalizeBegins, FinalizeRefused
    <2>2. executor' = [executor EXCEPT !.pc = "call", !.asks = executor.asks]
      BY <1>5 DEF FinalizeBegins, ExecutorGoes
    <2>3. UNCHANGED <<row, verdict, lost, writers, errors>> /\ (closing' \/ lock' = "executor")
          /\ (closing' => Discovery)
      BY <1>5 DEF FinalizeBegins, rowVars
    <2> QED BY <2>1, <2>2, <2>3
  <1>6. CASE FinalizeCall
    <2>1. executor.pc = "call" /\ FinalizeAnswer \in {"applied", "idempotent", "conflict"}
          /\ executor' = [executor EXCEPT !.pc = FinalizeAnswer]
      BY <1>6 DEF FinalizeCall, FinalizeAnswer
    <2>2. UNCHANGED <<lost, closing, lock, writers, errors>>
      BY <1>6 DEF FinalizeCall, storeVars
    <2> QED BY <2>1, <2>2
  <1>7. CASE FinalizeRaises
    <2>1. errors' = errors + 1 /\ executor' = [executor EXCEPT !.pc = "raised"]
      BY <1>7 DEF FinalizeRaises, DatabaseRaises
    <2>2. UNCHANGED <<lost, closing, lock, writers>> /\ executor.pc = "call"
      BY <1>7 DEF FinalizeRaises, storeVars
    <2> QED BY <2>1, <2>2
  <1>8. CASE RecordOutcome
    <2>1. ~closing' /\ outcome' # "none" /\ UNCHANGED <<row, verdict, writers, errors>>
          /\ executor.pc \in Finalizing
      BY <1>8 DEF RecordOutcome, Answers, rowVars
    <2>2. \/ executor'.pc \in {"wrapper", "ending"} /\ executor'.result = executor.result
             /\ executor'.interrupt = executor.interrupt
          \/ executor'.pc \in {"wrapper", "finalize"} /\ executor'.interrupt = "caught"
      BY <1>8, Recording
    <2> HIDE DEF Counters, Steps
    <2> QED BY <2>1, <2>2
  <1>9. CASE ReopenAfterError
    <2>1. ~closing' /\ executor.pc = "raised" /\ UNCHANGED <<row, verdict, writers, errors>>
      BY <1>9 DEF ReopenAfterError, rowVars
    <2>2. AfterRaise
      BY <1>9 DEF ReopenAfterError
    <2> QED BY <2>1, <2>2, Raising
  <1>10. CASE WrapperSeals
    <2>1. executor' = [executor EXCEPT !.pc = "finalize", !.asks = "unfinished"]
      BY <1>10 DEF WrapperSeals, ExecutorGoes
    <2>2. executor.pc = "wrapper" /\ outcome = "none" /\ ~lost
          /\ UNCHANGED <<row, verdict, closing, writers, errors>>
      BY <1>10 DEF WrapperSeals, OnlyExecutorMoves, rowVars, storeVars
    <2> QED BY <2>1, <2>2
  <1>11. CASE WrapperLeavesRun \/ ExecutorEnds
    <2>1. \E pc \in {"ending", "done"} : executor' = [executor EXCEPT !.pc = pc, !.asks = "none"]
      BY <1>11 DEF WrapperLeavesRun, ExecutorEnds, ExecutorGoes
    <2>2. executor.pc \in {"wrapper", "ending"} /\ UNCHANGED <<row, verdict, closing, writers, errors>>
      BY <1>11 DEF WrapperLeavesRun, ExecutorEnds, OnlyExecutorMoves, rowVars, storeVars
    <2> QED BY <2>1, <2>2
  <1> QED BY <1>2, <1>3, <1>4, <1>5, <1>6, <1>7, <1>8, <1>9, <1>10, <1>11 DEF ExecutorStep

LEMMA InterruptKeepsShield ==
    ASSUME SuccessInv, Counters', [Next]_vars, Interrupt
    PROVE  Shield'
  <1>1. executor'.interrupt # "none" /\ executor'.pc \notin Finalizing
    <2>1. CASE InterruptUnwinds
      BY <2>1 DEF InterruptUnwinds, Finalizing
    <2>2. CASE InterruptLands
      BY <2>2 DEF InterruptLands, InterruptCaught, SuccessInv, Counters, Finalizing
    <2> QED BY <2>1, <2>2 DEF Interrupt
  <1>2. executor'.pc = "draining" => executor.pc \in {"engine", "draining"}
    <2>1. CASE InterruptUnwinds
      BY <2>1 DEF InterruptUnwinds
    <2>2. CASE InterruptLands
      BY <2>2 DEF InterruptLands, InterruptCaught, SuccessInv, Counters
    <2> QED BY <2>1, <2>2 DEF Interrupt
  <1>3. executor.pc \in {"engine", "draining"} => UNCHANGED row
    BY DEF Interrupt, InterruptLeaves, Answers
  <1>4. row' = "ours" => executor'.pc \notin {"engine", "draining"}
    <2>1. executor'.pc = "engine" => executor.pc = "engine"
      BY ExecutorRemembers DEF SuccessInv, Shielded
    <2> QED BY <1>2, <1>3, <2>1 DEF SuccessInv, Shielded
  <1>5. closing' => Discovery'
    <2>1. UNCHANGED <<closing, job>>
      BY DEF Interrupt, Next, vars
    <2> QED BY <2>1 DEF SuccessInv, Shielded, FinalizerIsShielded, Discovery
  <1>6. executor'.pc # "raised"
    BY <1>1 DEF Finalizing
  <1> QED
    BY <1>1, <1>4, <1>5, <1>6 DEF Shield, FinalizerIsShielded, SuccessIsPursued

LEMMA OthersKeepShield ==
    ASSUME SuccessInv, Counters', [Next]_vars, ~ExecutorStep, ~Interrupt
    PROVE  Shield'
  <1>0. Counters /\ OutcomeEndsWork /\ Shield /\ errors \in Nat
    BY DEF SuccessInv, Shielded, Shield
  <1>1. Discovery' = Discovery
    BY DEF Next, vars, Discovery
  <1>2. errors' \in Nat /\ (errors > 0 => errors' > 0)
    BY <1>0, ExecutorRemembers
  <1> USE <1>0, <1>1, <1>2 DEF Shield, FinalizerIsShielded, SuccessIsPursued, Finalizing
  <1>3. CASE ProcessDies
    <2>1. executor' = [executor EXCEPT !.pc = "dead"] /\ UNCHANGED <<row, closing>>
      BY <1>3 DEF ProcessDies, rowVars
    <2> QED BY <2>1 DEF Counters
  <1>4. CASE \E w \in Writers : SubmitWrite(w) \/ WriterStep(w)
    <2>1. PICK w \in Writers : SubmitWrite(w) \/ WriterStep(w)
      BY <1>4
    <2>2. UNCHANGED <<row, verdict, errors, lost, closing, lock, outcome, executor>>
      BY <2>1 DEF SubmitWrite, WriterStep, BeginMutation, EndMutation, WriterGoes, rowVars
    <2>3. executor.pc = "engine" \/ writers[w] # "idle"
      BY <2>1 DEF SubmitWrite, WriterStep, BeginMutation, EndMutation
    <2> QED BY <2>2, <2>3
  <1>5. CASE BeatStep \/ CloserReads \/ CloserStep
    <2>1. UNCHANGED <<row, verdict, closing, lock, outcome, writers, executor>>
      BY <1>5 DEF BeatStep, BeatWaits, BeatCall, BeatRaises, BeatAnswered, BeatMarks, BeatGoes,
                  CloserReads, CloserStep, CloserMarks, CloserStops, rowVars, storeVars
    <2>2. (lost' <=> lost) \/ (lock = "free" /\ MayMarkLost /\ lost' = TRUE)
      BY <1>5 DEF BeatStep, BeatWaits, BeatCall, BeatRaises, BeatAnswered, BeatMarks, BeatGoes,
                  CloserReads, CloserStep, CloserMarks, CloserStops, storeVars
    <2>3. executor.pc \in Finalizing => (lost' <=> lost)
      BY <2>2 DEF MayMarkLost, OutcomeEndsWork, Finished
    <2>4. lost => lost'
      BY <2>2
    <2> QED BY <2>1, <2>3, <2>4
  <1>6. CASE Stop \/ ControlLost \/ Lapse \/ Recover \/ UNCHANGED vars
    <2>1. UNCHANGED <<errors, lost, closing, lock, outcome, writers, executor>>
      BY <1>6 DEF Stop, ControlLost, Lapse, Recover, vars, storeVars
    <2>2. row' = "ours" => row = "ours"
      BY <1>6 DEF Stop, ControlLost, Lapse, Recover, vars, rowVars
    <2> QED BY <2>1, <2>2
  <1> QED
    BY <1>3, <1>4, <1>5, <1>6 DEF Next, Step

LEMMA NextSuccessInv == SuccessInv /\ [Next]_vars => SuccessInv'
  <1> SUFFICES ASSUME SuccessInv, [Next]_vars PROVE SuccessInv'
    OBVIOUS
  <1>1. Counters' /\ SinkInv' /\ OutcomeEndsWork'
    BY NextCounters, NextSinkInv, NextOutcomeEndsWork DEF SuccessInv
  <1>2. Shield'
    BY <1>1, ExecutorKeepsShield, InterruptKeepsShield, OthersKeepShield
  <1>3. errors' \in Nat
    BY ExecutorRemembers DEF SuccessInv, Shielded
  <1> QED
    BY <1>1, <1>2, <1>3, NextSuccessIsKept DEF SuccessInv, Shielded, Shield

\* The wrapper, the deadline guard and the processor all know how to fail a run,
\* yet without an error of the database or an interrupt a success of the engine is
\* sealed as one, or as what an accepted stop or the loss of control makes of it
\* inside the sealing transaction (run_engine_async, _fence_success_terminal).
THEOREM SuccessesAreKept == Spec => []SuccessIsKept
  <1>1. SuccessInv => SuccessIsKept
    BY DEF SuccessInv, Shielded
  <1> QED
    BY <1>1, InitSuccessInv, NextSuccessInv, PTL DEF Spec

-----------------------------------------------------------------------------
(* Types.                                                                  *)

\* What the arguments above leave out.
OtherTypes ==
    /\ job \in Jobs
    /\ row \in {"running", "ours", "theirs"}
    /\ verdict \in {"none"} \cup Verdicts
    /\ lapsed \in BOOLEAN /\ stopped \in BOOLEAN /\ control \in BOOLEAN
    /\ lock \in {"free", "executor"}
    /\ lost \in BOOLEAN /\ closing \in BOOLEAN
    /\ outcome \in {"none"} \cup Answers
    /\ closer \in {"idle", "marking", "stopping", "done"}
    /\ errors \in 0..MaxErrors

LEMMA InitOtherTypes == Init => OtherTypes
  <1>1. ASSUME Init PROVE OtherTypes
    <2>1. /\ lapsed \in BOOLEAN /\ stopped \in BOOLEAN /\ control \in BOOLEAN
          /\ lost \in BOOLEAN /\ closing \in BOOLEAN
      BY <1>1, Zenon DEF Init
    <2>2. errors \in 0..MaxErrors
      BY <1>1, ConstantsAssumption DEF Init, ConstantsAssumption
    <2>3. QED
      BY <1>1, <2>1, <2>2 DEF Init, OtherTypes
  <1>2. QED
    BY <1>1

LEMMA SealIsVerdict ==
    ASSUME Counters, executor.pc = "call", executor.asks # "none", Seal
    PROVE  verdict' \in Verdicts
  BY DEF Seal, Terminal, Counters, Verdicts

\* A call always asks for something.
Asking == executor.pc \in {"draining", "finalize", "call"} => executor.asks # "none"

LEMMA NextAsking ==
    ASSUME Counters, Asking, [Next]_vars
    PROVE  Asking'
  <1> USE DEF Asking, Counters
  <1>1. CASE EngineStops
    BY <1>1 DEF EngineStops, Results
  <1>2. CASE EngineDrains \/ FinalizeBegins \/ WrapperSeals \/ WrapperLeavesRun \/ ExecutorEnds
             \/ ProcessDies
    BY <1>2 DEF EngineDrains, FinalizeBegins, WrapperSeals, WrapperLeavesRun, ExecutorEnds,
                ProcessDies, ExecutorGoes
  <1>3. CASE FinalizeCall \/ FinalizeRaises
    BY <1>3 DEF FinalizeCall, FinalizeRaises, FinalizeAnswer
  <1>4. CASE FinalizeRefuses \/ ReopenAfterError
    <2>1. AfterRaise
      BY <1>4 DEF FinalizeRefuses, ReopenAfterError
    <2>2. QED
      BY <2>1, Raising
  <1>5. CASE RecordOutcome
    BY <1>5, Recording
  <1>6. CASE Interrupt
    <2>1. CASE InterruptUnwinds
      BY <2>1 DEF InterruptUnwinds
    <2>2. CASE InterruptLands
      BY <2>2 DEF InterruptLands, InterruptCaught
    <2>3. QED
      BY <1>6, <2>1, <2>2 DEF Interrupt
  <1>7. CASE UNCHANGED executor
    BY <1>7
  <1>8. QED
    <2>1. \/ ExecutorStep \/ ProcessDies \/ Interrupt \/ UNCHANGED executor
      BY DEF Next, Step, SubmitWrite, WriterStep, BeginMutation, EndMutation, WriterGoes,
             BeatStep, BeatWaits, BeatCall, BeatRaises, BeatAnswered, BeatMarks, BeatGoes,
             CloserReads, CloserStep, CloserMarks, CloserStops, Stop, ControlLost, Lapse,
             Recover, vars
    <2>2. QED
      BY <2>1, <1>1, <1>2, <1>3, <1>4, <1>5, <1>6, <1>7 DEF ExecutorStep

LEMMA NextOtherTypes ==
    ASSUME OtherTypes, Counters, Asking, [Next]_vars
    PROVE  OtherTypes'
  <1> USE DEF OtherTypes, Answers
  <1>1. UNCHANGED job
    BY DEF Next, vars
  <1>2. errors' \in 0..MaxErrors
    <2>1. UNCHANGED errors \/ DatabaseRaises
      BY DEF Next, Step, SubmitWrite, WriterStep, BeginMutation, EndMutation, WriterGoes,
             ExecutorStep, EngineStops, EngineDrains, FinalizeRefuses, FinalizeBegins,
             FinalizeCall, FinalizeRaises, RecordOutcome, ReopenAfterError, WrapperSeals,
             WrapperLeavesRun, ExecutorEnds, OnlyExecutorMoves, Interrupt, BeatStep, BeatWaits,
             BeatCall, BeatRaises, BeatAnswered, BeatMarks, BeatGoes, CloserReads, CloserStep,
             CloserMarks, CloserStops, Stop, ControlLost, Lapse, Recover, ProcessDies, vars
    <2> QED BY <2>1, ConstantsAssumption DEF DatabaseRaises, ConstantsAssumption
  <1>3. row' \in {"running", "ours", "theirs"} /\ verdict' \in {"none"} \cup Verdicts
    <2>1. CASE UNCHANGED <<row, verdict>>
      BY <2>1
    <2>2. CASE executor.pc = "call" /\ Seal
      BY <2>2, SealIsVerdict DEF Asking, Seal
    <2>3. CASE Recover
      BY <2>3 DEF Recover, Verdicts
    <2> QED BY <2>1, <2>2, <2>3, NeverOwnedAgain
  <1>4. CASE ExecutorStep
    <2>1. UNCHANGED <<lapsed, stopped, control, closer>>
      BY <1>4 DEF ExecutorStep, EngineStops, EngineDrains, FinalizeRefuses, FinalizeBegins,
                  FinalizeCall, FinalizeRaises, RecordOutcome, ReopenAfterError, WrapperSeals,
                  WrapperLeavesRun, ExecutorEnds, OnlyExecutorMoves, rowVars, worldVars
    <2>2. CASE RecordOutcome
      <3>1. lost' \in BOOLEAN
        BY <2>2 DEF RecordOutcome
      <3> QED BY <1>1, <1>2, <1>3, <2>1, <2>2, <3>1 DEF RecordOutcome
    <2>3. CASE FinalizeBegins
      <3>1. closing' \in BOOLEAN /\ UNCHANGED <<lost, outcome>>
        BY <2>3 DEF FinalizeBegins, Discovery
      <3>2. lock' \in {"free", "executor"}
        BY <2>3 DEF FinalizeBegins
      <3> QED BY <1>1, <1>2, <1>3, <2>1, <3>1, <3>2
    <2>4. CASE ReopenAfterError
      BY <1>1, <1>2, <1>3, <2>1, <2>4 DEF ReopenAfterError
    <2>5. CASE \/ EngineStops \/ EngineDrains \/ FinalizeRefuses \/ FinalizeCall
               \/ FinalizeRaises \/ WrapperSeals \/ WrapperLeavesRun \/ ExecutorEnds
      <3>1. UNCHANGED storeVars
        BY <2>5 DEF EngineStops, EngineDrains, FinalizeRefuses, FinalizeCall, FinalizeRaises,
                    WrapperSeals, WrapperLeavesRun, ExecutorEnds, OnlyExecutorMoves
      <3> QED BY <1>1, <1>2, <1>3, <2>1, <3>1 DEF storeVars
    <2> QED BY <1>4, <2>2, <2>3, <2>4, <2>5 DEF ExecutorStep
  <1>5. CASE BeatStep \/ CloserReads \/ CloserStep
    <2>1. /\ UNCHANGED <<worldVars, closing, lock, outcome>>
          /\ closer' \in {"idle", "marking", "stopping", "done"}
      BY <1>5 DEF BeatStep, BeatWaits, BeatCall, BeatRaises, BeatAnswered, BeatMarks, BeatGoes,
                  CloserReads, CloserStep, CloserMarks, CloserStops, rowVars, storeVars
    <2>2. lost' \in BOOLEAN
      BY <1>5 DEF BeatStep, BeatWaits, BeatCall, BeatRaises, BeatAnswered, BeatMarks, BeatGoes,
                  CloserReads, CloserStep, CloserMarks, CloserStops, storeVars
    <2> QED BY <1>1, <1>2, <1>3, <2>1, <2>2 DEF worldVars
  <1>6. CASE Interrupt
    <2>1. UNCHANGED <<worldVars, closing, closer>> /\ lock' = "free"
      BY <1>6 DEF Interrupt
    <2>2. lost' \in BOOLEAN
      BY <1>6 DEF Interrupt, InterruptLeaves
    <2>3. outcome' \in {"none"} \cup Answers
      BY <1>6 DEF Interrupt, InterruptLeaves
    <2> QED BY <1>1, <1>2, <1>3, <2>1, <2>2, <2>3 DEF worldVars
  <1>7. CASE \/ \E w \in Writers : SubmitWrite(w) \/ WriterStep(w)
             \/ Stop \/ ControlLost \/ Lapse \/ Recover \/ ProcessDies \/ UNCHANGED vars
    <2>1. UNCHANGED <<lost, closing, outcome>>
      BY <1>7 DEF SubmitWrite, WriterStep, BeginMutation, EndMutation, WriterGoes, Stop,
                  ControlLost, Lapse, Recover, ProcessDies, storeVars, vars
    <2>2. lapsed' \in BOOLEAN /\ stopped' \in BOOLEAN /\ control' \in BOOLEAN
      BY <1>7 DEF SubmitWrite, WriterStep, BeginMutation, EndMutation, WriterGoes, Stop,
                  ControlLost, Lapse, Recover, ProcessDies, rowVars, worldVars, vars
    <2>3. lock' \in {lock, "free"} /\ closer' \in {closer, "done"}
      BY <1>7 DEF SubmitWrite, WriterStep, BeginMutation, EndMutation, WriterGoes, Stop,
                  ControlLost, Lapse, Recover, ProcessDies, storeVars, vars
    <2> QED BY <1>1, <1>2, <1>3, <2>1, <2>2, <2>3
  <1> QED
    BY <1>4, <1>5, <1>6, <1>7 DEF Next, Step

\* The counter of active mutations, above all, never leaves its range: no exit
\* path ends a mutation twice (_end_mutation).
THEOREM TypeCorrect == Spec => []TypeOK
  <1>1. Init => OtherTypes /\ Counters /\ Asking
    BY InitOtherTypes, InitCounters DEF Init, Asking
  <1>2. (OtherTypes /\ Counters /\ Asking) /\ [Next]_vars
           => (OtherTypes /\ Counters /\ Asking)'
    BY NextOtherTypes, NextCounters, NextAsking
  <1>3. OtherTypes /\ Counters /\ SinkInv => TypeOK
    <2> SUFFICES ASSUME OtherTypes, Counters, SinkInv PROVE TypeOK
      OBVIOUS
    <2>1. active \in 0..Cardinality(Writers)
      <3>1. Calling \subseteq Writers
        BY DEF Calling
      <3>2. Cardinality(Calling) <= Cardinality(Writers) /\ Cardinality(Calling) \in Nat
            /\ Cardinality(Writers) \in Nat
        BY <3>1, CallingIsFinite, FS_Subset, FS_CardinalityType, ConstantsAssumption
           DEF ConstantsAssumption
      <3> QED BY <3>2 DEF SinkInv, CountsCalls
    <2> QED
      BY <2>1 DEF TypeOK, OtherTypes, Counters, SinkInv, Threads, Steps, Finalizing, Finished,
                  Answers
  <1> QED
    BY <1>1, <1>2, <1>3, InitSinkInv, NextSinkInv, PTL DEF Spec

-----------------------------------------------------------------------------
(* Beliefs.                                                                *)

\* An answer of the database is true from the moment it was given.
AnswersAreTrue ==
    /\ outcome \in {"applied", "idempotent"} \/ executor.pc \in {"applied", "idempotent"}
         => row = "ours"
    /\ outcome = "conflict" \/ executor.pc = "conflict" => ~Owned

\* Unless a shutdown put it up, a fence, and a beat on the way to one, means that
\* the run is gone.
FencesAreTrue ==
    closer = "idle" /\ (lost \/ beat.lost \/ beat.pc \in {"refused", "marking"}) => ~Owned

\* Whoever asks for a success has one.
SuccessIsAskedFor ==
    /\ row = "ours" /\ verdict = "success" => executor.result = "success"
    /\ executor.asks = "success" => executor.result = "success"

\* What an executor leaves behind is decided before it stops its heartbeat; the
\* wrapper of a scalar job that met no interrupt knows that the run is gone.
LeavesNoOwnRun ==
    errors = 0 /\ closer = "idle" =>
        /\ /\ executor.pc \in {"ending", "done"}
           /\ Discovery => executor.result = "success" /\ executor.interrupt = "none"
           => ~Owned
        /\ /\ ~Discovery /\ executor.interrupt = "none"
           /\ executor.pc = "wrapper" \/ executor.asks = "unfinished"
           => ~Owned

BeliefInv == AnswersAreTrue /\ FencesAreTrue /\ SuccessIsAskedFor /\ LeavesNoOwnRun

LEMMA InitBeliefInv == Init => BeliefInv
  BY DEF Init, BeliefInv, AnswersAreTrue, FencesAreTrue, SuccessIsAskedFor, LeavesNoOwnRun

\* A seal is the success only when that is what was asked for.
LEMMA SuccessIsSealed ==
    ASSUME BeliefInv, Seal, verdict' = "success"
    PROVE  executor.result = "success"
  BY DEF BeliefInv, SuccessIsAskedFor, Seal, Terminal

LEMMA ExecutorKeepsBelief ==
    ASSUME OtherTypes, SuccessInv, BeliefInv, [Next]_vars, ExecutorStep
    PROVE  BeliefInv'
  <1>0. Counters
    BY DEF SuccessInv
  <1>1. /\ ~Owned => ~Owned'
        /\ row = "ours" => row' = "ours" /\ verdict' = verdict
    BY NeverOwnedAgain
  <1>2. UNCHANGED closer /\ Discovery' = Discovery
    BY DEF ExecutorStep, EngineStops, EngineDrains, FinalizeRefuses, FinalizeBegins,
           FinalizeCall, FinalizeRaises, RecordOutcome, ReopenAfterError, WrapperSeals,
           WrapperLeavesRun, ExecutorEnds, OnlyExecutorMoves, Next, vars, Discovery
  <1> USE <1>0, <1>1, <1>2
      DEF Counters, Steps, Finalizing, Finished, BeliefInv, AnswersAreTrue,
          FencesAreTrue, SuccessIsAskedFor, LeavesNoOwnRun
  <1>3. CASE EngineStops
    <2>1. \E result \in Results : executor' = [executor EXCEPT !.pc = "draining",
                                             !.result = result, !.asks = result]
      BY <1>3 DEF EngineStops
    <2>2. UNCHANGED <<row, verdict, outcome, lost, beat, errors>> /\ executor.pc = "engine"
      BY <1>3 DEF EngineStops, OnlyExecutorMoves, rowVars, storeVars
    <2>3. row # "ours"
      BY <2>2 DEF SuccessInv, Shielded
    <2> HIDE DEF Steps
    <2>4. QED
      BY <2>1, <2>2, <2>3 DEF Results
  <1>4. CASE EngineDrains \/ FinalizeBegins
    <2>1. \E pc \in {"finalize", "call"} :
            executor' = [executor EXCEPT !.pc = pc, !.asks = executor.asks]
      BY <1>4 DEF EngineDrains, FinalizeBegins, ExecutorGoes
    <2>2. UNCHANGED <<row, verdict, outcome, lost, beat, errors>>
      BY <1>4 DEF EngineDrains, FinalizeBegins, OnlyExecutorMoves, rowVars, storeVars
    <2>3. QED
      BY <2>1, <2>2
  <1>5. CASE FinalizeRefuses
    <2>1. AfterRaise
      BY <1>5 DEF FinalizeRefuses
    <2>2. UNCHANGED <<row, verdict, outcome, lost, beat, errors>>
      BY <1>5 DEF FinalizeRefuses, OnlyExecutorMoves, rowVars, storeVars
    <2>3. executor.result = "success" /\ executor.interrupt = "none" => lost
      BY <1>5, RefusedSuccess
    <2>4. ~Discovery => lost
      BY <1>5 DEF FinalizeRefuses, FinalizeRefused
    <2>5. QED
      BY <2>1, <2>2, <2>3, <2>4, Raising
  <1>6. CASE FinalizeCall
    <2>1. /\ executor' = [executor EXCEPT !.pc = FinalizeAnswer]
          /\ Seal \/ (~Owned /\ UNCHANGED <<row, verdict>>)
          /\ UNCHANGED <<outcome, lost, beat, errors>> /\ executor.pc = "call"
      BY <1>6 DEF FinalizeCall, storeVars
    <2>2. /\ FinalizeAnswer \in {"applied", "idempotent", "conflict"}
          /\ FinalizeAnswer \in {"applied", "idempotent"} => row' = "ours"
          /\ FinalizeAnswer = "conflict" => ~Owned
      BY <2>1 DEF FinalizeAnswer, Seal
    <2>3. outcome # "none" => ~Owned
      BY DEF OtherTypes, Owned, Answers
    <2>4. row' = "ours" /\ verdict' = "success" => executor.result = "success"
      BY <2>1, SuccessIsSealed
    <2>5. QED
      BY <2>1, <2>2, <2>3, <2>4
  <1>7. CASE FinalizeRaises
    <2>1. /\ executor' = [executor EXCEPT !.pc = "raised"]
          /\ UNCHANGED <<row, verdict>> \/ Seal
          /\ UNCHANGED <<outcome, lost, beat>> /\ executor.pc = "call"
      BY <1>7 DEF FinalizeRaises, storeVars
    <2>2. row' = "ours" /\ verdict' = "success" => executor.result = "success"
      BY <2>1, SuccessIsSealed
    <2>3. errors' # 0
      BY <1>7 DEF FinalizeRaises, DatabaseRaises, SuccessInv, Shielded
    <2>4. QED
      BY <2>1, <2>2, <2>3
  <1>8. CASE RecordOutcome
    <2>1. /\ outcome' = executor.pc /\ executor.pc \in {"applied", "idempotent", "conflict"}
          /\ lost' => lost \/ executor.pc = "conflict"
          /\ UNCHANGED <<row, verdict, lapsed, beat, errors>>
      BY <1>8 DEF RecordOutcome, Answers, rowVars, worldVars
    <2>2. ~Owned
      BY <2>1 DEF Owned
    <2>3. /\ executor'.pc \in {"wrapper", "ending", "finalize"}
          /\ executor'.result = executor.result
          /\ executor'.asks # "success"
      BY <1>8, Recording
    <2> HIDE DEF Counters, Steps
    <2>4. QED
      BY <2>1, <2>2, <2>3
  <1>9. CASE ReopenAfterError
    <2>1. AfterRaise
      BY <1>9 DEF ReopenAfterError
    <2>2. UNCHANGED <<row, verdict, outcome, lost, beat, errors>> /\ errors > 0
      BY <1>9 DEF ReopenAfterError, rowVars, SuccessInv, Shielded
    <2>3. errors # 0
      BY <2>2 DEF SuccessInv, Shielded
    <2>4. QED
      BY <2>1, <2>2, <2>3, Raising
  <1>10. CASE WrapperSeals
    <2>1. executor' = [executor EXCEPT !.pc = "finalize", !.asks = "unfinished"]
          /\ executor.pc = "wrapper"
      BY <1>10 DEF WrapperSeals, ExecutorGoes
    <2>2. UNCHANGED <<row, verdict, outcome, lost, beat, errors>>
      BY <1>10 DEF WrapperSeals, OnlyExecutorMoves, rowVars, storeVars
    <2>3. QED
      BY <2>1, <2>2
  <1>11. CASE WrapperLeavesRun
    <2>1. executor' = [executor EXCEPT !.pc = "ending", !.asks = "none"]
      BY <1>11 DEF WrapperLeavesRun, ExecutorGoes
    <2>2. UNCHANGED <<row, verdict, outcome, lost, beat, errors>>
      BY <1>11 DEF WrapperLeavesRun, OnlyExecutorMoves, rowVars, storeVars
    <2>3. outcome # "none" \/ lost \/ beat.lost
      BY <1>11 DEF WrapperLeavesRun
    <2>4. outcome # "none" => ~Owned
      BY DEF OtherTypes, Owned, Answers
    <2>5. QED
      BY <2>1, <2>2, <2>3, <2>4
  <1>12. CASE ExecutorEnds
    <2>1. /\ executor' = [executor EXCEPT !.pc = "done", !.asks = "none"]
          /\ beat' = [beat EXCEPT !.stop = TRUE] /\ executor.pc = "ending"
      BY <1>12 DEF ExecutorEnds, ExecutorGoes
    <2>2. UNCHANGED <<row, verdict, outcome, lost, errors>>
      BY <1>12 DEF ExecutorEnds, rowVars, storeVars
    <2>3. QED
      BY <2>1, <2>2
  <1>13. QED
    BY <1>3, <1>4, <1>5, <1>6, <1>7, <1>8, <1>9, <1>10, <1>11, <1>12 DEF ExecutorStep

LEMMA InterruptKeepsBelief ==
    ASSUME OtherTypes, SuccessInv, BeliefInv, [Next]_vars, Interrupt
    PROVE  BeliefInv'
  <1>1. Counters
    BY DEF SuccessInv
  <1>2. /\ ~Owned => ~Owned'
        /\ row = "ours" => row' = "ours" /\ verdict' = verdict
    BY NeverOwnedAgain
  <1>3. UNCHANGED <<beat, closer, errors>> /\ Discovery' = Discovery /\ executor.interrupt = "none"
    BY DEF Interrupt, Next, vars, Discovery
  <1>4. /\ executor'.pc \notin {"applied", "idempotent", "conflict", "done"}
        /\ executor'.asks # "success" /\ executor'.interrupt # "none"
    <2>1. CASE InterruptUnwinds
      BY <2>1 DEF InterruptUnwinds
    <2>2. CASE InterruptLands
      BY <2>2, <1>1 DEF InterruptLands, InterruptCaught, Counters
    <2>3. QED
      BY <2>1, <2>2 DEF Interrupt
  <1>5. executor.pc \notin {"engine", "draining"} => executor'.result = executor.result
    BY <1>1, Striking DEF Counters
  <1>6. executor'.pc = "ending" => executor.pc = "wrapper" \/ executor.asks = "unfinished"
    <2>1. CASE InterruptUnwinds
      BY <2>1 DEF InterruptUnwinds
    <2>2. CASE InterruptLands
      BY <2>2, <1>1 DEF InterruptLands, InterruptCaught, Counters
    <2>3. QED
      BY <2>1, <2>2 DEF Interrupt
  <1> USE DEF BeliefInv
  <1>7. SuccessIsAskedFor'
    <2>1. CASE UNCHANGED <<row, verdict>>
      <3>1. row = "ours" => executor'.result = executor.result
        BY <1>5 DEF SuccessInv, Shielded
      <3>2. QED
        BY <1>4, <2>1, <3>1 DEF SuccessIsAskedFor
    <2>2. CASE executor.pc = "call" /\ Seal
      BY <1>4, <1>5, <2>2, SuccessIsSealed DEF SuccessIsAskedFor
    <2>3. QED
      BY <2>1, <2>2 DEF Interrupt, InterruptLeaves
  <1>8. AnswersAreTrue' /\ FencesAreTrue'
    <2>1. CASE UNCHANGED <<outcome, lost>>
      BY <1>2, <1>3, <1>4, <2>1 DEF AnswersAreTrue, FencesAreTrue
    <2>2. CASE executor.pc \in Answers /\ outcome' = executor.pc
               /\ (lost' => lost \/ executor.pc = "conflict")
      BY <1>2, <1>3, <1>4, <2>2 DEF AnswersAreTrue, FencesAreTrue
    <2>3. QED
      BY <2>1, <2>2 DEF Interrupt, InterruptLeaves
  <1>9. LeavesNoOwnRun'
    <2>1. SUFFICES ASSUME executor'.pc = "ending", errors = 0, closer = "idle", ~Discovery
                   PROVE  ~Owned'
      BY <1>3, <1>4 DEF LeavesNoOwnRun
    <2>2. ~Owned
      BY <1>3, <1>6, <2>1 DEF LeavesNoOwnRun
    <2>3. QED
      BY <1>2, <2>2
  <1>10. QED
    BY <1>7, <1>8, <1>9

LEMMA NextBeliefInv ==
    ASSUME OtherTypes, SuccessInv, BeliefInv, [Next]_vars
    PROVE  BeliefInv'
  <1>0. Counters
    BY DEF SuccessInv
  <1>1. /\ ~Owned => ~Owned'
        /\ row = "ours" => row' = "ours" /\ verdict' = verdict
        /\ Discovery' = Discovery
    BY NeverOwnedAgain DEF Next, vars, Discovery
  <1> USE <1>0, <1>1
      DEF Counters, BeliefInv, AnswersAreTrue, FencesAreTrue, SuccessIsAskedFor, LeavesNoOwnRun
  <1>2. CASE BeatStep
    <2>1. /\ UNCHANGED <<row, verdict, outcome, executor, closer>>
          /\ errors' = 0 => errors = 0
      <3>1. errors' \in {errors, errors + 1}
        BY <1>2 DEF BeatStep, BeatWaits, BeatCall, BeatRaises, BeatAnswered, BeatMarks, BeatGoes,
                    DatabaseRaises
      <3>2. UNCHANGED <<row, verdict, outcome, executor, closer>>
        BY <1>2 DEF BeatStep, BeatWaits, BeatCall, BeatRaises, BeatAnswered, BeatMarks, BeatGoes,
                    rowVars, storeVars
      <3>3. QED
        BY <3>1, <3>2 DEF SuccessInv, Shielded
    <2>2. closer = "idle" /\ (lost' \/ beat'.lost \/ beat'.pc \in {"refused", "marking"}) => ~Owned
      <3>1. CASE BeatWaits
        BY <3>1 DEF BeatWaits, BeatGoes, storeVars
      <3>2. CASE BeatCall
        BY <3>2 DEF BeatCall, BeatGoes, storeVars
      <3>3. CASE BeatRaises
        BY <3>3 DEF BeatRaises, storeVars
      <3>4. CASE BeatAnswered
        BY <3>4 DEF BeatAnswered, BeatGoes, storeVars
      <3>5. CASE BeatMarks
        BY <3>5 DEF BeatMarks, BeatGoes, storeVars
      <3>6. QED
        BY <1>2, <3>1, <3>2, <3>3, <3>4, <3>5 DEF BeatStep
    <2>3. QED
      BY <2>1, <2>2
  <1>3. CASE CloserReads \/ CloserStep
    <2>1. closer' # "idle" /\ UNCHANGED <<row, verdict, outcome, executor, errors>>
      BY <1>3 DEF CloserReads, CloserStep, CloserMarks, CloserStops, rowVars, storeVars
    <2>2. QED
      BY <2>1
  <1>4. CASE ProcessDies
    <2>1. /\ closer' # "idle" /\ UNCHANGED <<row, verdict, outcome>>
          /\ executor' = [executor EXCEPT !.pc = "dead"]
      BY <1>4 DEF ProcessDies, rowVars
    <2>2. QED
      BY <2>1
  <1>5. CASE \/ \E w \in Writers : SubmitWrite(w) \/ WriterStep(w)
             \/ Stop \/ ControlLost \/ Lapse \/ Recover \/ UNCHANGED vars
    <2>1. UNCHANGED <<lost, outcome, executor, beat, closer, errors>>
      BY <1>5 DEF SubmitWrite, WriterStep, BeginMutation, EndMutation, WriterGoes, Stop,
                  ControlLost, Lapse, Recover, storeVars, vars
    <2>2. row' = "ours" => row = "ours"
      BY <1>5 DEF SubmitWrite, WriterStep, BeginMutation, EndMutation, WriterGoes, Stop,
                  ControlLost, Lapse, Recover, rowVars, vars
    <2>3. QED
      BY <2>1, <2>2
  <1>6. QED
    BY <1>2, <1>3, <1>4, <1>5, ExecutorKeepsBelief, InterruptKeepsBelief DEF Next, Step

LEMMA ExecutorInvariant == Spec => [](OtherTypes /\ Asking /\ SuccessInv /\ BeliefInv)
  <1>1. Init => OtherTypes /\ Asking /\ SuccessInv /\ BeliefInv
    BY InitOtherTypes, InitSuccessInv, InitBeliefInv DEF Init, Asking
  <1>2. OtherTypes /\ Asking /\ SuccessInv /\ BeliefInv /\ [Next]_vars
          => (OtherTypes /\ Asking /\ SuccessInv /\ BeliefInv)'
    <2>1. SuccessInv => Counters
      BY DEF SuccessInv
    <2>2. QED
      BY <2>1, NextOtherTypes, NextAsking, NextSuccessInv, NextBeliefInv
  <1>3. QED
    BY <1>1, <1>2, PTL DEF Spec

\* Heartbeat, executor and shutdown decide by what the store remembers, and what it
\* remembers is true of the row, however late the answer it stems from
\* (_record_finalization, mark_ownership_lost).
THEOREM StoreBeliefsAreTrue == Spec => []BeliefsAreTrue
  <1>1. BeliefInv => BeliefsAreTrue
    BY DEF BeliefInv, AnswersAreTrue, FencesAreTrue, BeliefsAreTrue
  <1>2. QED
    BY <1>1, ExecutorInvariant, PTL

\* Wherever a time limit strikes, a scalar executor that returns has sealed its run, and
\* no exit path of a discovery forgets a success that it still owns: the safety half of
\* RunIsSealed for the executor itself (_with_worker_lease, _fail_interrupted_run).
THEOREM NoRunIsLeft == Spec => []NoOwnRunIsLeft
  <1>1. BeliefInv => NoOwnRunIsLeft
    BY DEF BeliefInv, LeavesNoOwnRun, NoOwnRunIsLeft
  <1>2. QED
    BY <1>1, ExecutorInvariant, PTL

\* However the processor, its deadline guard and the wrapper try again, none of them
\* seals a success the engine did not reach.
THEOREM SuccessesAreReal == Spec => []SuccessIsTheEngines
  <1>1. BeliefInv => SuccessIsTheEngines
    BY DEF BeliefInv, SuccessIsAskedFor, SuccessIsTheEngines
  <1>2. QED
    BY <1>1, ExecutorInvariant, PTL

\* The fence and the finalization exclude each other: a scalar job by the lock, a
\* discovery by the closing mark that mark_ownership_lost looks at.
THEOREM FencesHold == Spec => FencedNeverSeals
  <1>1. ASSUME SuccessInv, [Next]_vars, lost, row = "running"
        PROVE  row' # "ours"
    <2>1. executor.pc # "call"
      BY <1>1 DEF SuccessInv, Shielded, FinalizerIsShielded, Finalizing
    <2>2. QED
      BY <1>1, <2>1, NeverOwnedAgain
  <1>2. SuccessInv /\ [Next]_vars => [lost /\ row = "running" => row' # "ours"]_vars
    BY <1>1
  <1>3. QED
    BY <1>2, ExecutorInvariant, PTL DEF Spec, FencedNeverSeals
=============================================================================
