----------------------- MODULE DiscoveryEvidenceProofs -----------------------
(***************************************************************************)
(* Theorems about DiscoveryEvidence for any number of sweepers, any budget *)
(* and page size, any lease length and any damage to the stored rows.      *)
(***************************************************************************)
EXTENDS DiscoveryEvidence, TLAPS

-----------------------------------------------------------------------------
(* Typing.                                                                 *)

\* An append in flight has room left and a running run below it: its fence was
\* checked under the row lock, which nobody else can have before its COMMIT.
AppendIsFenced == appending => status = "running" /\ accepted < RowLimit

\* Reading one more page keeps a fold typed.
LEMMA NextPageType ==
    ASSUME TypeOK, NEW fold \in FoldType
    PROVE  NextPage(fold) \in FoldType
  <1>1. PageSize \in Nat /\ RowLimit \in Nat
    BY ConstantsAssumption DEF ConstantsAssumption
  <1>2. fold.read \in 0..RowLimit /\ fold.cutoff \in 0..RowLimit /\ fold.damaged \in BOOLEAN
    BY DEF FoldType
  <1> DEFINE last == IF fold.read + PageSize < fold.cutoff THEN fold.read + PageSize
                     ELSE fold.cutoff
             hit == fold.damaged \/ (damage.kind # "none" /\ damage.row \in (fold.read + 1)..last)
  <1>3. last \in 0..RowLimit
    <2>1. CASE fold.read + PageSize < fold.cutoff
      <3>1. fold.read + PageSize \in 0..RowLimit
        BY <1>1, <1>2, <2>1
      <3>2. QED
        BY <2>1, <3>1
    <2>2. CASE ~(fold.read + PageSize < fold.cutoff)
      BY <1>1, <1>2, <2>2
    <2>3. QED
      BY <2>1, <2>2
  <1>4. NextPage(fold) = [fold EXCEPT !.read = last, !.damaged = hit]
    BY DEF NextPage
  <1>5. hit \in BOOLEAN
    BY <1>2
  <1> HIDE DEF last, hit
  <1>6. QED
    BY <1>2, <1>3, <1>4, <1>5 DEF FoldType

\* The fold captured at the current cutoff is typed.
LEMMA FreshFoldType ==
    ASSUME TypeOK
    PROVE  FreshFold(accepted) \in FoldType /\ FreshFold(0) \in FoldType
  BY ConstantsAssumption DEF ConstantsAssumption, TypeOK, FreshFold, FoldType

LEMMA InitTypeOK == Init => TypeOK /\ AppendIsFenced
  <1> SUFFICES ASSUME Init PROVE TypeOK /\ AppendIsFenced
    OBVIOUS
  <1>1. FreshFold(0) \in FoldType
    BY ConstantsAssumption DEF ConstantsAssumption, FreshFold, FoldType
  <1>2. owner \in OwnerType
    BY <1>1 DEF Init, OwnerType, Terminal
  <1>3. sweep \in [Sweepers -> SweepType]
    BY <1>1, ConstantsAssumption DEF ConstantsAssumption, Init, SweepType
  <1>4. seal \in [status: {"none"} \cup Terminal, stage: Stages, rows: 0..RowLimit, damaged: BOOLEAN]
    BY ConstantsAssumption DEF ConstantsAssumption, Init, NoSeal, Stages
  <1>5. damage \in [kind: {"none", "altered", "missing"}, row: 0..RowLimit]
    BY ConstantsAssumption DEF ConstantsAssumption, Init
  <1>6. now \in 0..MaxTime /\ lease \in Nat /\ accepted \in 0..RowLimit /\ crashes \in 0..MaxCrashes
    BY ConstantsAssumption DEF ConstantsAssumption, Init
  <1>7. /\ status \in {"running"} \cup Terminal
        /\ cancelRequested \in BOOLEAN
        /\ control \in BOOLEAN
        /\ appending = FALSE
    BY DEF Init
  <1>8. QED
    BY <1>2, <1>3, <1>4, <1>5, <1>6, <1>7 DEF TypeOK, AppendIsFenced

\* A verdict on a typed run leaves it typed and closed.
LEMMA ApplyFinalizationTypes ==
    ASSUME TypeOK, NEW terminal,
           terminal \in [status: Terminal, stage: Stages, rows: 0..RowLimit, damaged: BOOLEAN],
           ApplyFinalization(terminal), owner' \in OwnerType, sweep' \in [Sweepers -> SweepType]
    PROVE  TypeOK' /\ AppendIsFenced'
  BY DEF ApplyFinalization, TypeOK, AppendIsFenced, streamVars

\* The verdict of the owner and of a sweep are seals.
LEMMA TerminalTypes ==
    ASSUME TypeOK, NEW n \in 0..RowLimit, NEW hit \in BOOLEAN
    PROVE  /\ OwnerTerminal \in [status: Terminal, stage: Stages, rows: 0..RowLimit, damaged: BOOLEAN]
           /\ \A stage \in Stages :
                [status |-> RecoveredStatus, stage |-> stage, rows |-> n, damaged |-> hit]
                  \in [status: Terminal, stage: Stages, rows: 0..RowLimit, damaged: BOOLEAN]
  <1>1. /\ owner.want \in Terminal
        /\ owner.fold.cutoff \in 0..RowLimit
        /\ owner.fold.damaged \in BOOLEAN
    BY DEF TypeOK, OwnerType, FoldType
  <1>2. QED
    BY <1>1 DEF OwnerTerminal, RecoveredStatus, Terminal, Stages

\* Every step keeps the tables typed and an append in flight fenced.
LEMMA NextTypeOK == TypeOK /\ AppendIsFenced /\ [Next]_vars => TypeOK' /\ AppendIsFenced'
  <1> SUFFICES ASSUME TypeOK, AppendIsFenced, [Next]_vars PROVE TypeOK' /\ AppendIsFenced'
    OBVIOUS
  <1> USE ConstantsAssumption DEF ConstantsAssumption
  <1>1. CASE AppendObservation
    <2>1. TypeOK'
      BY <1>1 DEF AppendObservation, TypeOK, runVars
    <2>2. AppendIsFenced'
      BY <1>1 DEF AppendObservation, OwnerActive, BudgetLeft, AppendIsFenced, runVars
    <2>3. QED
      BY <2>1, <2>2
  <1>2. CASE AppendCommits
    <2>1. accepted' \in 0..RowLimit
      BY <1>2 DEF AppendCommits, TypeOK, AppendIsFenced
    <2>2. QED
      BY <1>2, <2>1 DEF AppendCommits, TypeOK, AppendIsFenced, runVars
  <1>3. CASE DamageRow
    <2> PICK kind \in Damages, row \in 1..accepted : damage' = [kind |-> kind, row |-> row]
      BY <1>3 DEF DamageRow
    <2>1. damage' \in [kind: {"none", "altered", "missing"}, row: 0..RowLimit]
      BY DEF TypeOK
    <2>2. QED
      BY <1>3, <2>1 DEF DamageRow, TypeOK, AppendIsFenced, runVars
  <1>4. CASE Heartbeat
    BY <1>4 DEF Heartbeat, TypeOK, AppendIsFenced, streamVars
  <1>5. CASE RequestCancel
    BY <1>5 DEF RequestCancel, TypeOK, AppendIsFenced, streamVars
  <1>6. CASE LoseControl
    BY <1>6 DEF LoseControl, TypeOK, AppendIsFenced, streamVars
  <1>7. ASSUME NEW want \in Terminal, RequestFinalization(want) PROVE TypeOK' /\ AppendIsFenced'
    <2>1. owner' \in OwnerType
      BY <1>7 DEF RequestFinalization, TypeOK, OwnerType
    <2>2. QED
      BY <1>7, <2>1 DEF RequestFinalization, TypeOK, AppendIsFenced, runVars, streamVars
  <1>8. ASSUME NEW outcome \in {"none", "applied", "idempotent", "conflict", "error"},
               OwnerEnds(outcome)
        PROVE  TypeOK' /\ AppendIsFenced'
    <2>1. owner' \in OwnerType
      BY <1>8 DEF OwnerEnds, TypeOK, OwnerType
    <2>2. QED
      BY <1>8, <2>1 DEF OwnerEnds, TypeOK, AppendIsFenced, runVars, streamVars
  <1>9. CASE CaptureCutoff
    <2>1. CASE owner' = [owner EXCEPT !.pc = "fold", !.fold = FreshFold(accepted)]
               /\ UNCHANGED <<now, runVars, streamVars, sweep, crashes>>
      <3>1. owner' \in OwnerType
        BY <2>1, FreshFoldType DEF TypeOK, OwnerType
      <3>2. QED
        BY <2>1, <3>1 DEF TypeOK, AppendIsFenced, runVars, streamVars
    <2>2. QED
      BY <1>8, <1>9, <2>1 DEF CaptureCutoff
  <1>10. CASE ReadPage
    <2>1. owner.fold \in FoldType
      BY DEF TypeOK, OwnerType
    <2>2. owner' \in OwnerType
      BY <1>10, <2>1, NextPageType DEF ReadPage, TypeOK, OwnerType
    <2>3. QED
      BY <1>10, <2>2 DEF ReadPage, TypeOK, AppendIsFenced, runVars, streamVars
  <1>11. CASE FoldFails
    BY <1>8, <1>11 DEF FoldFails
  <1>12. CASE CommitFinalization
    <2>1. CASE owner' = [owner EXCEPT !.pc = "capture"]
               /\ UNCHANGED <<now, runVars, streamVars, sweep, crashes>>
      <3>1. owner' \in OwnerType
        BY <2>1 DEF TypeOK, OwnerType
      <3>2. QED
        BY <2>1, <3>1 DEF TypeOK, AppendIsFenced, runVars, streamVars
    <2>2. ASSUME NEW outcome \in {"applied", "error"}, ApplyFinalization(OwnerTerminal),
                 owner' = [owner EXCEPT !.pc = "ended", !.outcome = outcome], UNCHANGED sweep
          PROVE  TypeOK' /\ AppendIsFenced'
      <3>1. owner' \in OwnerType
        BY <2>2 DEF TypeOK, OwnerType
      <3>2. sweep' \in [Sweepers -> SweepType]
        BY <2>2 DEF TypeOK
      <3>3. 0 \in 0..RowLimit
        OBVIOUS
      <3>4. QED
        BY <2>2, <3>1, <3>2, <3>3, TerminalTypes, ApplyFinalizationTypes
    <2>3. QED
      BY <1>8, <1>12, <2>1, <2>2 DEF CommitFinalization
  <1>13. CASE OwnerDies
    <2>1. owner' \in OwnerType
      BY <1>13 DEF OwnerDies, TypeOK, OwnerType
    <2>2. QED
      BY <1>13, <2>1 DEF OwnerDies, TypeOK, AppendIsFenced, runVars
  <1>14. ASSUME NEW s \in Sweepers, NEW pc \in {"idle", "capture", "count", "fold", "quarantine"},
                SweepMoves(s, pc)
         PROVE  TypeOK' /\ AppendIsFenced'
    <2>1. sweep' \in [Sweepers -> SweepType]
      BY <1>14 DEF SweepMoves, TypeOK, SweepType
    <2>2. QED
      BY <1>14, <2>1 DEF SweepMoves, TypeOK, AppendIsFenced, runVars, streamVars
  <1>15. ASSUME NEW s \in Sweepers, SweepStart(s) PROVE TypeOK' /\ AppendIsFenced'
    <2>1. sweep' = [sweep EXCEPT ![s].pc = "capture", ![s].observed = now]
      BY <1>15 DEF SweepStart
    <2>2. sweep' \in [Sweepers -> SweepType]
      <3>1. sweep \in [Sweepers -> SweepType] /\ now \in 0..MaxTime
        BY DEF TypeOK
      <3>2. QED
        BY <2>1, <3>1 DEF SweepType
    <2>3. QED
      BY <1>15, <2>2 DEF SweepStart, TypeOK, AppendIsFenced, runVars, streamVars
  <1>16. ASSUME NEW s \in Sweepers, SweepCapture(s) PROVE TypeOK' /\ AppendIsFenced'
    <2>1. CASE sweep' = [sweep EXCEPT ![s].pc = "count", ![s].fold = FreshFold(accepted)]
               /\ UNCHANGED <<now, runVars, streamVars, owner, crashes>>
      <3> DEFINE fold == FreshFold(accepted)
      <3>1. fold \in FoldType
        BY FreshFoldType
      <3>2. sweep \in [Sweepers -> SweepType]
        BY DEF TypeOK
      <3>3. sweep' = [sweep EXCEPT ![s].pc = "count", ![s].fold = fold]
        BY <2>1
      <3> HIDE DEF fold
      <3>4. sweep' \in [Sweepers -> SweepType]
        BY <3>1, <3>2, <3>3 DEF SweepType
      <3>5. QED
        BY <2>1, <3>4 DEF TypeOK, AppendIsFenced, runVars, streamVars
    <2>2. QED
      BY <1>14, <1>16, <2>1 DEF SweepCapture
  <1>17. ASSUME NEW s \in Sweepers, SweepCountRows(s) PROVE TypeOK' /\ AppendIsFenced'
    BY <1>14, <1>17 DEF SweepCountRows
  <1>18. ASSUME NEW s \in Sweepers, SweepReadPage(s) PROVE TypeOK' /\ AppendIsFenced'
    <2>1. sweep[s].fold \in FoldType
      BY DEF TypeOK, SweepType
    <2>2. NextPage(sweep[s].fold) \in FoldType
      BY <2>1, NextPageType
    <2>3. sweep' = [sweep EXCEPT ![s] = [sweep[s] EXCEPT !.fold = NextPage(sweep[s].fold)]]
      BY <1>18 DEF SweepReadPage, TypeOK
    <2>4. [sweep[s] EXCEPT !.fold = NextPage(sweep[s].fold)] \in SweepType
      BY <2>2 DEF TypeOK, SweepType
    <2>5. sweep' \in [Sweepers -> SweepType]
      BY <2>3, <2>4 DEF TypeOK
    <2>6. QED
      BY <1>18, <2>5 DEF SweepReadPage, TypeOK, AppendIsFenced, runVars, streamVars
  <1>19. ASSUME NEW s \in Sweepers, SweepFoldFails(s) PROVE TypeOK' /\ AppendIsFenced'
    BY <1>14, <1>19 DEF SweepFoldFails
  <1>20. ASSUME NEW s \in Sweepers, NEW terminal,
                terminal \in [status: Terminal, stage: Stages, rows: 0..RowLimit, damaged: BOOLEAN],
                ApplyFinalization(terminal), sweep' = [sweep EXCEPT ![s].pc = "idle"],
                UNCHANGED owner
         PROVE  TypeOK' /\ AppendIsFenced'
    <2>1. sweep' \in [Sweepers -> SweepType] /\ owner' \in OwnerType
      BY <1>20 DEF TypeOK, SweepType
    <2>2. QED
      BY <1>20, <2>1, ApplyFinalizationTypes
  <1>21. ASSUME NEW s \in Sweepers, SweepCommit(s) PROVE TypeOK' /\ AppendIsFenced'
    <2> DEFINE terminal == [status |-> RecoveredStatus, stage |-> "lease_expired",
                            rows |-> sweep[s].fold.cutoff, damaged |-> sweep[s].fold.damaged]
    <2>1. sweep[s].fold.cutoff \in 0..RowLimit /\ sweep[s].fold.damaged \in BOOLEAN
      BY DEF TypeOK, SweepType, FoldType
    <2>2. terminal \in [status: Terminal, stage: Stages, rows: 0..RowLimit, damaged: BOOLEAN]
      BY <2>1, TerminalTypes DEF Stages
    <2>3. \/ \E pc \in {"idle", "capture", "quarantine"} : SweepMoves(s, pc)
          \/ ApplyFinalization(terminal) /\ sweep' = [sweep EXCEPT ![s].pc = "idle"]
             /\ UNCHANGED owner
      BY <1>21 DEF SweepCommit
    <2> HIDE DEF terminal
    <2>4. QED
      BY <1>14, <1>20, <2>2, <2>3
  <1>22. ASSUME NEW s \in Sweepers, SweepQuarantine(s) PROVE TypeOK' /\ AppendIsFenced'
    <2> DEFINE terminal == [status |-> RecoveredStatus, stage |-> "quarantined",
                            rows |-> 0, damaged |-> TRUE]
    <2>1. 0 \in 0..RowLimit /\ "quarantined" \in Stages
      BY DEF Stages
    <2>2. terminal \in [status: Terminal, stage: Stages, rows: 0..RowLimit, damaged: BOOLEAN]
      BY <2>1, TerminalTypes
    <2>3. \/ SweepMoves(s, "idle")
          \/ ApplyFinalization(terminal) /\ sweep' = [sweep EXCEPT ![s].pc = "idle"]
             /\ UNCHANGED owner
      BY <1>22 DEF SweepQuarantine
    <2> HIDE DEF terminal
    <2>4. QED
      BY <1>14, <1>20, <2>2, <2>3
  <1>23. ASSUME NEW s \in Sweepers, SweepDies(s) PROVE TypeOK' /\ AppendIsFenced'
    <2>1. sweep' \in [Sweepers -> SweepType]
      BY <1>23 DEF SweepDies, TypeOK, SweepType
    <2>2. crashes' \in 0..MaxCrashes
      BY <1>23 DEF SweepDies, TypeOK
    <2>3. QED
      BY <1>23, <2>1, <2>2 DEF SweepDies, TypeOK, AppendIsFenced, runVars, streamVars
  <1>24. CASE Tick
    BY <1>24 DEF Tick, TypeOK, AppendIsFenced, runVars, streamVars
  <1>25. CASE UNCHANGED vars
    BY <1>25 DEF vars, TypeOK, AppendIsFenced, runVars, streamVars
  <1>26. QED
    BY <1>1, <1>2, <1>3, <1>4, <1>5, <1>6, <1>7, <1>9, <1>10, <1>11, <1>12, <1>13, <1>15,
       <1>16, <1>17, <1>18, <1>19, <1>21, <1>22, <1>23, <1>24, <1>25
    DEF Next, OwnerStep, SweepStep

-----------------------------------------------------------------------------
(* What a step may do to the run and its stream.                           *)

Rests == UNCHANGED <<status, seal, accepted>>

Grows ==
    /\ appending
    /\ accepted' = accepted + 1
    /\ UNCHANGED <<status, seal>>

\* A verdict over the whole stream, or over none of it.
SealsRun ==
    /\ status = "running"
    /\ status' = seal'.status
    /\ status' \in Terminal
    /\ seal'.stage # "none"
    /\ UNCHANGED accepted
    /\ \/ seal'.stage # "quarantined" /\ seal'.rows = accepted /\ ~seal'.damaged
       \/ seal'.stage = "quarantined" /\ seal'.rows = 0 /\ seal'.status # "succeeded"

\* Every step leaves the stream and the verdict alone, adds an observation or
\* seals the run.
LEMMA StepEffects == TypeOK /\ [Next]_vars => Rests \/ Grows \/ SealsRun
  <1> SUFFICES ASSUME TypeOK, [Next]_vars PROVE Rests \/ Grows \/ SealsRun
    OBVIOUS
  <1>1. CASE AppendCommits
    BY <1>1 DEF AppendCommits, Grows, runVars
  <1>2. CASE CommitFinalization
    <2>1. CASE UNCHANGED <<now, runVars, streamVars, sweep, crashes>>
      BY <2>1 DEF Rests, runVars, streamVars
    <2>2. CASE /\ StateUnchanged(owner.fold)
               /\ Foldable(owner.fold)
               /\ OwnerActive
               /\ ApplyFinalization(OwnerTerminal)
      <3>1. owner.want \in Terminal
        BY DEF TypeOK, OwnerType
      <3>2. /\ OwnerTerminal.status \in Terminal
            /\ OwnerTerminal.stage \in {"engine", "active_control_lost"}
            /\ OwnerTerminal.rows = owner.fold.cutoff
            /\ OwnerTerminal.damaged = owner.fold.damaged
        BY <3>1 DEF OwnerTerminal, Terminal
      <3>3. accepted = owner.fold.cutoff /\ ~owner.fold.damaged
        BY <2>2 DEF StateUnchanged, Foldable
      <3>4. /\ status' = OwnerTerminal.status
            /\ seal' = OwnerTerminal
            /\ UNCHANGED accepted
        BY <2>2 DEF ApplyFinalization, streamVars
      <3>5. status = "running"
        BY <2>2 DEF OwnerActive
      <3>6. QED
        BY <3>2, <3>3, <3>4, <3>5 DEF SealsRun
    <2>3. QED
      BY <1>2, <2>1, <2>2 DEF CommitFinalization, OwnerEnds
  <1>3. ASSUME NEW s \in Sweepers, SweepCommit(s) PROVE Rests \/ SealsRun
    <2> DEFINE terminal == [status |-> RecoveredStatus, stage |-> "lease_expired",
                            rows |-> sweep[s].fold.cutoff, damaged |-> sweep[s].fold.damaged]
    <2>1. CASE \E pc \in {"idle", "capture", "quarantine"} : SweepMoves(s, pc)
      BY <2>1 DEF SweepMoves, Rests, runVars, streamVars
    <2>2. CASE /\ StateUnchanged(sweep[s].fold)
               /\ Foldable(sweep[s].fold)
               /\ ExpiredAt(sweep[s].observed)
               /\ ApplyFinalization(terminal)
      BY <2>2 DEF StateUnchanged, Foldable, ExpiredAt, ApplyFinalization, streamVars,
                  RecoveredStatus, Terminal, SealsRun
    <2>3. QED
      BY <1>3, <2>1, <2>2 DEF SweepCommit
  <1>4. ASSUME NEW s \in Sweepers, SweepQuarantine(s) PROVE Rests \/ SealsRun
    <2>1. CASE SweepMoves(s, "idle")
      BY <2>1 DEF SweepMoves, Rests, runVars, streamVars
    <2>2. CASE /\ ExpiredAt(sweep[s].observed)
               /\ ApplyFinalization([status |-> RecoveredStatus, stage |-> "quarantined",
                                     rows |-> 0, damaged |-> TRUE])
      BY <2>2 DEF ExpiredAt, ApplyFinalization, streamVars, RecoveredStatus, Terminal, SealsRun
    <2>3. QED
      BY <1>4, <2>1, <2>2 DEF SweepQuarantine
  <1>5. CASE \/ AppendObservation \/ DamageRow \/ Heartbeat \/ RequestCancel \/ LoseControl
             \/ OwnerDies \/ Tick \/ UNCHANGED vars
    BY <1>5 DEF AppendObservation, DamageRow, Heartbeat, RequestCancel, LoseControl, OwnerDies,
                Tick, vars, Rests, runVars, streamVars
  <1>6. CASE \/ \E want \in Terminal : RequestFinalization(want)
             \/ CaptureCutoff \/ ReadPage \/ FoldFails
    BY <1>6 DEF RequestFinalization, CaptureCutoff, ReadPage, FoldFails, OwnerEnds,
                Rests, runVars, streamVars
  <1>7. CASE \E s \in Sweepers : \/ SweepStart(s) \/ SweepCapture(s) \/ SweepCountRows(s)
                                 \/ SweepReadPage(s) \/ SweepFoldFails(s) \/ SweepDies(s)
    BY <1>7 DEF SweepStart, SweepCapture, SweepCountRows, SweepReadPage, SweepFoldFails,
                SweepDies, SweepMoves, Rests, runVars, streamVars
  <1>8. QED
    BY <1>1, <1>2, <1>3, <1>4, <1>5, <1>6, <1>7 DEF Next, OwnerStep, SweepStep

-----------------------------------------------------------------------------
(* The seal and the evidence.                                              *)

\* A run has its seal exactly when it stopped running.
RunningIsOpen == status = "running" <=> ~Sealed

EvidenceInv == TypeOK /\ AppendIsFenced /\ RunningIsOpen /\ SealCoversEvidence

LEMMA InitEvidenceInv == Init => EvidenceInv
  BY InitTypeOK DEF Init, NoSeal, EvidenceInv, RunningIsOpen, SealCoversEvidence, Sealed

LEMMA NextEvidenceInv == EvidenceInv /\ [Next]_vars => EvidenceInv'
  <1> SUFFICES ASSUME EvidenceInv, [Next]_vars PROVE RunningIsOpen' /\ SealCoversEvidence'
    BY NextTypeOK DEF EvidenceInv
  <1>1. CASE Rests
    BY <1>1 DEF Rests, EvidenceInv, RunningIsOpen, SealCoversEvidence, Sealed
  <1>2. CASE Grows
    BY <1>2 DEF Grows, EvidenceInv, AppendIsFenced, RunningIsOpen, SealCoversEvidence, Sealed
  <1>3. CASE SealsRun
    BY <1>3 DEF SealsRun, RunningIsOpen, SealCoversEvidence, Sealed, Terminal
  <1>4. QED
    BY <1>1, <1>2, <1>3, StepEffects DEF EvidenceInv

LEMMA EvidenceInvariant == Spec => []EvidenceInv
  BY InitEvidenceInv, NextEvidenceInv, PTL DEF Spec

\* Every table keeps its type, whatever the sweepers, budgets and clocks.
THEOREM TypeCorrect == Spec => []TypeOK
  BY EvidenceInvariant, PTL DEF EvidenceInv

\* However many sweeps race the owner, and wherever appends fall, a seal that is
\* not a quarantine covers every accepted observation (_commit_discovery_finalization,
\* _recover_expired_discovery_run).
THEOREM SealsCover == Spec => []SealCoversEvidence
  BY EvidenceInvariant, PTL DEF EvidenceInv

-----------------------------------------------------------------------------
(* The promise.                                                            *)

LEMMA InitPromise == Init => Promise!Init
  BY DEF Init, Promise!Init, NoSeal, Sealed

LEMMA StepPromise == EvidenceInv /\ [Next]_vars => [Promise!Next]_(Promise!vars)
  <1> SUFFICES ASSUME EvidenceInv, [Next]_vars PROVE [Promise!Next]_(Promise!vars)
    OBVIOUS
  <1>1. CASE Rests
    BY <1>1 DEF Rests, Promise!vars, Sealed
  <1>2. CASE Grows
    <2>1. ~Sealed
      BY <1>2 DEF Grows, EvidenceInv, AppendIsFenced, RunningIsOpen
    <2>2. QED
      BY <1>2, <2>1 DEF Grows, Promise!Next, Promise!Accept, Sealed
  <1>3. CASE SealsRun
    <2>1. ~Sealed /\ Sealed'
      BY <1>3 DEF SealsRun, EvidenceInv, RunningIsOpen, Sealed
    <2>2. CASE seal'.stage # "quarantined"
      BY <1>3, <2>1, <2>2 DEF SealsRun, Terminal, Promise!Next, Promise!SealWhole, Promise!Verdicts
    <2>3. CASE seal'.stage = "quarantined"
      BY <1>3, <2>1, <2>3 DEF SealsRun, Terminal, Promise!Next, Promise!SealNothing
    <2>4. QED
      BY <2>2, <2>3
  <1>4. QED
    BY <1>1, <1>2, <1>3, StepEffects DEF EvidenceInv

\* The repository implements the promise it makes to a reader of its evidence:
\* observations are accepted until one seal covers all of them, or none.
THEOREM PromiseKept == Spec => KeepsPromise
  <1>1. Spec => Promise!Init /\ [][Promise!Next]_(Promise!vars)
    BY InitPromise, StepPromise, EvidenceInvariant, PTL DEF Spec
  <1>2. QED
    BY <1>1 DEF KeepsPromise, Promise!Spec

-----------------------------------------------------------------------------
(* What the owner is told.                                                 *)

\* An owner is told nothing final before its last finalization ended.
OwnerIsTold ==
    /\ owner.pc \in {"working", "capture", "fold"} => owner.outcome \in {"none", "error"}
    /\ owner.outcome \in {"applied", "idempotent"} => Sealed

OutcomeInv == EvidenceInv /\ OwnerIsTold /\ OutcomeMatchesSeal

\* Nobody who leaves the owner alone can falsify what it was told: the verdict
\* and the stop it rests on are frozen by the seal, and a lapsed lease stays so.
LEMMA OthersKeepOutcome ==
    ASSUME OutcomeInv, Rests \/ Grows \/ SealsRun,
           owner'.outcome = owner.outcome, owner'.want = owner.want,
           owner'.pc = owner.pc \/ owner'.pc = "dead",
           now' >= now, now \in Nat, now' \in Nat,
           cancelRequested' = cancelRequested \/ status = "running",
           lease' = lease \/ lease > now \/ status' # "running"
    PROVE  OwnerIsTold' /\ OutcomeMatchesSeal'
  <1>1. OwnerIsTold'
    BY DEF OutcomeInv, EvidenceInv, OwnerIsTold, RunningIsOpen, Rests, Grows, SealsRun, Sealed
  <1>2. owner'.outcome \in {"applied", "idempotent"} =>
          status # "running" /\ seal' = seal /\ cancelRequested' = cancelRequested
    BY DEF OutcomeInv, EvidenceInv, OwnerIsTold, RunningIsOpen, Rests, Grows, SealsRun
  <1>3. owner'.outcome = "conflict" /\ status' = "running" => lease' <= now'
    <2> SUFFICES ASSUME owner'.outcome = "conflict", status' = "running" PROVE lease' <= now'
      OBVIOUS
    <2>1. status = "running"
      BY DEF Rests, Grows, SealsRun, Terminal
    <2>2. lease <= now /\ lease \in Nat
      BY <2>1 DEF OutcomeInv, OutcomeMatchesSeal, EvidenceInv, TypeOK
    <2>3. lease' = lease
      BY <2>2
    <2>4. QED
      BY <2>2, <2>3
  <1>4. QED
    BY <1>1, <1>2, <1>3 DEF OutcomeInv, OutcomeMatchesSeal

\* A step of the owner that ends nothing, or that ends in an error, tells nothing.
LEMMA SilentOwnerKeepsOutcome ==
    ASSUME OutcomeInv, UNCHANGED <<now, runVars>>,
           owner'.outcome \in {"none", "error"}
    PROVE  OwnerIsTold' /\ OutcomeMatchesSeal'
  BY DEF OwnerIsTold, OutcomeMatchesSeal

\* The owner's terminal is what it asked for, a stop, or the loss of control.
LEMMA OwnerTerminalMatches ==
    /\ \/ /\ OwnerTerminal.stage = "engine"
          /\ OwnerTerminal.status = IF cancelRequested THEN "cancelled" ELSE owner.want
       \/ /\ OwnerTerminal.stage = "active_control_lost"
          /\ owner.want = "succeeded"
          /\ ~cancelRequested
    /\ OwnerTerminal.stage # "none"
  BY DEF OwnerTerminal

LEMMA InitOutcomeInv == Init => OutcomeInv
  BY InitEvidenceInv DEF Init, OutcomeInv, OwnerIsTold, OutcomeMatchesSeal

LEMMA NextOutcomeInv == OutcomeInv /\ [Next]_vars => OutcomeInv'
  <1> SUFFICES ASSUME OutcomeInv, [Next]_vars PROVE OwnerIsTold' /\ OutcomeMatchesSeal'
    BY NextEvidenceInv DEF OutcomeInv
  <1>0. /\ TypeOK /\ TypeOK'
        /\ Rests \/ Grows \/ SealsRun
        /\ owner \in OwnerType /\ owner' \in OwnerType
        /\ now \in Nat /\ now' \in Nat
    BY NextEvidenceInv, StepEffects DEF OutcomeInv, EvidenceInv, TypeOK
  <1>1. CASE \/ AppendObservation \/ AppendCommits \/ DamageRow \/ Heartbeat \/ RequestCancel
             \/ LoseControl \/ Tick \/ UNCHANGED vars
    <2>1. UNCHANGED owner
      BY <1>1 DEF AppendObservation, AppendCommits, DamageRow, Heartbeat, RequestCancel,
                  LoseControl, Tick, vars
    <2>2. now' >= now
      BY <1>0, <1>1 DEF AppendObservation, AppendCommits, DamageRow, Heartbeat, RequestCancel,
                  LoseControl, Tick, vars
    <2>3. /\ cancelRequested' = cancelRequested \/ status = "running"
          /\ lease' = lease \/ lease > now
      BY <1>1 DEF AppendObservation, AppendCommits, DamageRow, Heartbeat, RequestCancel,
                  LoseControl, Tick, vars, runVars, OwnerActive
    <2>4. QED
      BY <1>0, <2>1, <2>2, <2>3, OthersKeepOutcome
  <1>2. CASE OwnerDies
    <2>1. owner' = [owner EXCEPT !.pc = "dead"] /\ UNCHANGED <<now, runVars>>
      BY <1>2 DEF OwnerDies
    <2>2. owner'.outcome = owner.outcome /\ owner'.want = owner.want /\ owner'.pc = "dead"
      BY <1>0, <2>1 DEF OwnerType
    <2>3. QED
      BY <1>0, <2>1, <2>2, OthersKeepOutcome DEF runVars
  <1>3. CASE \E s \in Sweepers : SweepStep(s) \/ SweepDies(s)
    <2>1. UNCHANGED <<owner, now, cancelRequested>> /\ (lease' = lease \/ status' # "running")
      <3> PICK s \in Sweepers : SweepStep(s) \/ SweepDies(s)
        BY <1>3
      <3>1. CASE \E terminal \in [status: Terminal, stage: Stages, rows: 0..RowLimit, damaged: BOOLEAN] :
                   ApplyFinalization(terminal) /\ UNCHANGED owner
        BY <3>1 DEF ApplyFinalization, Terminal
      <3>2. CASE UNCHANGED <<now, runVars, owner>>
        BY <3>2 DEF runVars
      <3>3. ASSUME SweepCommit(s)
            PROVE  \/ \E terminal \in [status: Terminal, stage: Stages, rows: 0..RowLimit, damaged: BOOLEAN] :
                        ApplyFinalization(terminal) /\ UNCHANGED owner
                   \/ UNCHANGED <<now, runVars, owner>>
        <4>1. sweep[s].fold.cutoff \in 0..RowLimit /\ sweep[s].fold.damaged \in BOOLEAN
          BY <1>0 DEF TypeOK, SweepType, FoldType
        <4>2. [status |-> RecoveredStatus, stage |-> "lease_expired",
               rows |-> sweep[s].fold.cutoff, damaged |-> sweep[s].fold.damaged]
                \in [status: Terminal, stage: Stages, rows: 0..RowLimit, damaged: BOOLEAN]
          BY <1>0, <4>1, TerminalTypes DEF Stages
        <4>3. QED
          BY <3>3, <4>2 DEF SweepCommit, SweepMoves
      <3>4. ASSUME SweepQuarantine(s)
            PROVE  \/ \E terminal \in [status: Terminal, stage: Stages, rows: 0..RowLimit, damaged: BOOLEAN] :
                        ApplyFinalization(terminal) /\ UNCHANGED owner
                   \/ UNCHANGED <<now, runVars, owner>>
        <4>1. 0 \in 0..RowLimit
          BY ConstantsAssumption DEF ConstantsAssumption
        <4>2. [status |-> RecoveredStatus, stage |-> "quarantined", rows |-> 0, damaged |-> TRUE]
                \in [status: Terminal, stage: Stages, rows: 0..RowLimit, damaged: BOOLEAN]
          BY <1>0, <4>1, TerminalTypes DEF Stages
        <4>3. QED
          BY <3>4, <4>2 DEF SweepQuarantine, SweepMoves
      <3>5. CASE \/ SweepStart(s) \/ SweepCapture(s) \/ SweepCountRows(s) \/ SweepReadPage(s)
                 \/ SweepFoldFails(s) \/ SweepDies(s)
        BY <3>5 DEF SweepStart, SweepCapture, SweepCountRows, SweepReadPage, SweepFoldFails,
                    SweepDies, SweepMoves, runVars
      <3>6. QED
        BY <3>1, <3>2, <3>3, <3>4, <3>5 DEF SweepStep
    <2>2. QED
      BY <1>0, <2>1, OthersKeepOutcome
  <1>4. ASSUME NEW want \in Terminal, RequestFinalization(want)
        PROVE  OwnerIsTold' /\ OutcomeMatchesSeal'
    <2>1. owner' = [owner EXCEPT !.pc = "capture", !.want = want] /\ UNCHANGED <<now, runVars>>
      BY <1>4 DEF RequestFinalization
    <2>2. owner.outcome \in {"none", "error"}
      BY <1>4 DEF RequestFinalization, OutcomeInv, OwnerIsTold
    <2>3. owner'.outcome = owner.outcome
      BY <1>0, <2>1 DEF OwnerType
    <2>4. QED
      BY <2>1, <2>2, <2>3, SilentOwnerKeepsOutcome
  <1>5. ASSUME owner.pc \in {"capture", "fold"}, UNCHANGED <<now, runVars>>,
               \/ \E pc \in {"capture", "fold"}, fold \in FoldType :
                    owner' = [owner EXCEPT !.pc = pc, !.fold = fold]
               \/ OwnerEnds("error")
        PROVE  OwnerIsTold' /\ OutcomeMatchesSeal'
    <2>1. owner.outcome \in {"none", "error"}
      BY <1>5 DEF OutcomeInv, OwnerIsTold
    <2>2. owner'.outcome \in {"none", "error"}
      BY <1>0, <1>5, <2>1 DEF OwnerType, OwnerEnds
    <2>3. QED
      BY <1>5, <2>2, SilentOwnerKeepsOutcome
  <1>6. ASSUME OwnerEnds("conflict"), Sealed \/ ~OwnerActive
        PROVE  OwnerIsTold' /\ OutcomeMatchesSeal'
    <2>1. owner' = [owner EXCEPT !.pc = "ended", !.outcome = "conflict"]
          /\ UNCHANGED <<now, runVars>>
      BY <1>6 DEF OwnerEnds
    <2>2. owner'.outcome = "conflict" /\ owner'.pc = "ended"
      BY <1>0, <2>1 DEF OwnerType
    <2>3. status = "running" => lease <= now
      BY <1>0, <1>6 DEF OutcomeInv, EvidenceInv, RunningIsOpen, OwnerActive, TypeOK
    <2>4. QED
      BY <2>1, <2>2, <2>3 DEF OwnerIsTold, OutcomeMatchesSeal, runVars
  <1>7. CASE CaptureCutoff
    <2>1. CASE ~Sealed /\ ~OwnerActive /\ OwnerEnds("conflict")
      BY <1>6, <2>1
    <2>2. CASE OwnerEnds("error")
      BY <1>5, <1>7, <2>2 DEF CaptureCutoff, OwnerEnds
    <2>3. CASE owner' = [owner EXCEPT !.pc = "fold", !.fold = FreshFold(accepted)]
               /\ UNCHANGED <<now, runVars>>
      BY <1>0, <1>5, <1>7, <2>3, FreshFoldType DEF CaptureCutoff
    <2>4. QED
      BY <1>7, <2>1, <2>2, <2>3 DEF CaptureCutoff
  <1>8. CASE ReadPage
    <2>1. owner.fold \in FoldType /\ owner.pc = "fold"
      BY <1>0, <1>8 DEF OwnerType, ReadPage
    <2>2. NextPage(owner.fold) \in FoldType
      BY <1>0, <2>1, NextPageType
    <2>3. owner' = [owner EXCEPT !.pc = "fold", !.fold = NextPage(owner.fold)]
      BY <1>0, <1>8, <2>1 DEF ReadPage, OwnerType
    <2>4. QED
      BY <1>5, <1>8, <2>1, <2>2, <2>3 DEF ReadPage
  <1>9. CASE FoldFails
    BY <1>5, <1>9 DEF FoldFails, OwnerEnds
  <1>10. CASE CommitFinalization
    <2>1. CASE StateMismatch /\ OwnerEnds("error")
      BY <1>5, <1>10, <2>1 DEF CommitFinalization, OwnerEnds
    <2>2. CASE owner' = [owner EXCEPT !.pc = "capture"] /\ UNCHANGED <<now, runVars>>
      <3>1. owner'.outcome = owner.outcome
        BY <1>0, <2>2 DEF OwnerType
      <3>2. owner.outcome \in {"none", "error"}
        BY <1>10 DEF CommitFinalization, OutcomeInv, OwnerIsTold
      <3>3. QED
        BY <2>2, <3>1, <3>2, SilentOwnerKeepsOutcome
    <2>3. CASE Sealed /\ OwnerEnds(IF seal = OwnerTerminal THEN "idempotent" ELSE "conflict")
      <3>1. CASE seal # OwnerTerminal
        BY <1>6, <2>3, <3>1
      <3>2. CASE seal = OwnerTerminal
        <4>1. owner' = [owner EXCEPT !.pc = "ended", !.outcome = "idempotent"]
              /\ UNCHANGED <<now, runVars>>
          BY <2>3, <3>2 DEF OwnerEnds
        <4>2. owner'.outcome = "idempotent" /\ owner'.pc = "ended" /\ owner'.want = owner.want
          BY <1>0, <4>1 DEF OwnerType
        <4>3. QED
          BY <2>3, <3>2, <4>1, <4>2, OwnerTerminalMatches
          DEF OwnerIsTold, OutcomeMatchesSeal, runVars, Sealed
      <3>3. QED
        BY <3>1, <3>2
    <2>4. CASE ~OwnerActive /\ OwnerEnds("conflict")
      BY <1>6, <2>4
    <2>5. CASE /\ ApplyFinalization(OwnerTerminal)
               /\ \E outcome \in {"applied", "error"} :
                    owner' = [owner EXCEPT !.pc = "ended", !.outcome = outcome]
      <3> PICK outcome \in {"applied", "error"} :
                 owner' = [owner EXCEPT !.pc = "ended", !.outcome = outcome]
        BY <2>5
      <3>1. owner'.outcome \in {"applied", "error"} /\ owner'.pc = "ended" /\ owner'.want = owner.want
        BY <1>0 DEF OwnerType
      <3>2. seal' = OwnerTerminal /\ cancelRequested' = cancelRequested
        BY <2>5 DEF ApplyFinalization
      <3>3. QED
        BY <3>1, <3>2, OwnerTerminalMatches DEF OwnerIsTold, OutcomeMatchesSeal, Sealed
    <2>6. QED
      BY <1>10, <2>1, <2>2, <2>3, <2>4, <2>5 DEF CommitFinalization
  <1>11. QED
    BY <1>1, <1>2, <1>3, <1>4, <1>7, <1>8, <1>9, <1>10 DEF Next, OwnerStep

\* Applied and idempotent answers tell the truth about the seal, and an owner
\* that was told it lost can never get the run back (CommitFinalization).
THEOREM OutcomesMatch == Spec => []OutcomeMatchesSeal
  BY InitOutcomeInv, NextOutcomeInv, PTL DEF Spec, OutcomeInv

-----------------------------------------------------------------------------
(* Quarantine.                                                             *)

\* Folds only meet damage that was done, and a sweep with one snapshot suspects
\* nothing when it reads the rows behind the state it captured.
DamageIsReal ==
    /\ owner.fold.damaged => damage.kind # "none"
    /\ \A s \in Sweepers :
         /\ sweep[s].fold.damaged => damage.kind # "none"
         /\ sweep[s].pc = "quarantine" => damage.kind # "none"

QuarantineInv == TypeOK /\ AppendIsFenced /\ DamageIsReal /\ QuarantineNeedsDamage

LEMMA InitQuarantineInv == Init => QuarantineInv
  BY InitTypeOK DEF Init, QuarantineInv, DamageIsReal, QuarantineNeedsDamage, NoSeal, FreshFold

\* Damage is never undone.
LEMMA DamageStays == TypeOK /\ [Next]_vars => (damage.kind # "none" => damage'.kind # "none")
  <1> SUFFICES ASSUME TypeOK, [Next]_vars, damage.kind # "none" PROVE damage'.kind # "none"
    OBVIOUS
  <1>1. ~DamageRow
    BY DEF DamageRow
  <1>2. CASE \/ AppendObservation \/ AppendCommits \/ Heartbeat \/ RequestCancel \/ LoseControl
             \/ OwnerDies \/ Tick \/ UNCHANGED vars
             \/ \E want \in Terminal : RequestFinalization(want)
    BY <1>2 DEF AppendObservation, AppendCommits, Heartbeat, RequestCancel, LoseControl, OwnerDies,
                Tick, vars, RequestFinalization, streamVars
  <1>3. CASE OwnerStep
    BY <1>3 DEF OwnerStep, CaptureCutoff, ReadPage, FoldFails, CommitFinalization, OwnerEnds,
                ApplyFinalization, streamVars
  <1>4. CASE \E s \in Sweepers : SweepStep(s) \/ SweepDies(s)
    BY <1>4 DEF SweepStep, SweepStart, SweepCapture, SweepCountRows, SweepReadPage, SweepFoldFails,
                SweepCommit, SweepQuarantine, SweepDies, SweepMoves, ApplyFinalization, streamVars
  <1>5. QED
    BY <1>1, <1>2, <1>3, <1>4 DEF Next

\* A page read without damage leaves the fold as honest as it was, and a fold
\* that is refused has read damage: the budget keeps every cutoff foldable.
LEMMA FoldsReadDamage ==
    ASSUME TypeOK, NEW fold \in FoldType, fold.damaged => damage.kind # "none"
    PROVE  /\ NextPage(fold).damaged => damage.kind # "none"
           /\ Unfoldable(fold) => damage.kind # "none"
           /\ ~FreshFold(accepted).damaged
  <1>1. NextPage(fold).damaged => fold.damaged \/ damage.kind # "none"
    BY DEF NextPage, FoldType
  <1>2. Unfoldable(fold) => fold.damaged
    BY ConstantsAssumption DEF ConstantsAssumption, Unfoldable, Foldable, FoldType
  <1>3. QED
    BY <1>1, <1>2 DEF FreshFold

LEMMA NextQuarantineInv ==
    ASSUME SnapshotReads
    PROVE  QuarantineInv /\ [Next]_vars => QuarantineInv'
  <1> SUFFICES ASSUME QuarantineInv, [Next]_vars PROVE DamageIsReal' /\ QuarantineNeedsDamage'
    BY NextTypeOK DEF QuarantineInv
  <1>0. /\ TypeOK /\ DamageIsReal /\ QuarantineNeedsDamage
        /\ owner \in OwnerType /\ sweep \in [Sweepers -> SweepType]
        /\ owner.fold \in FoldType /\ \A s \in Sweepers : sweep[s].fold \in FoldType
        /\ damage.kind # "none" => damage'.kind # "none"
    BY DamageStays DEF QuarantineInv, TypeOK, OwnerType, SweepType
  <1>1. ASSUME UNCHANGED <<seal, sweep>>, owner'.fold.damaged => damage.kind # "none"
        PROVE  DamageIsReal' /\ QuarantineNeedsDamage'
    BY <1>0, <1>1 DEF DamageIsReal, QuarantineNeedsDamage
  <1>2. ASSUME NEW s \in Sweepers, UNCHANGED <<seal, owner>>,
               NEW to \in SweepType, sweep' = [sweep EXCEPT ![s] = to],
               to.fold.damaged => damage.kind # "none",
               to.pc = "quarantine" => damage.kind # "none"
        PROVE  DamageIsReal' /\ QuarantineNeedsDamage'
    BY <1>0, <1>2 DEF DamageIsReal, QuarantineNeedsDamage
  <1>3. ASSUME NEW s \in Sweepers, NEW pc, SweepMoves(s, pc),
               pc = "quarantine" => damage.kind # "none"
        PROVE  DamageIsReal' /\ QuarantineNeedsDamage'
    <2>1. /\ UNCHANGED <<seal, owner>>
          /\ \A x \in Sweepers : /\ sweep'[x].fold = sweep[x].fold
                                  /\ sweep'[x].pc = IF x = s THEN pc ELSE sweep[x].pc
      BY <1>0, <1>3 DEF SweepMoves, runVars, SweepType
    <2>2. QED
      BY <1>0, <1>3, <2>1 DEF DamageIsReal, QuarantineNeedsDamage
  <1>4. ASSUME NEW s \in Sweepers, seal'.stage = "quarantined" => damage.kind # "none",
               sweep' = [sweep EXCEPT ![s].pc = "idle"], UNCHANGED owner
        PROVE  DamageIsReal' /\ QuarantineNeedsDamage'
    <2>1. \A x \in Sweepers : /\ sweep'[x].fold = sweep[x].fold
                              /\ sweep'[x].pc \in {"idle", sweep[x].pc}
      BY <1>0, <1>4 DEF SweepType
    <2>2. QED
      BY <1>0, <1>4, <2>1 DEF DamageIsReal, QuarantineNeedsDamage
  <1>5. CASE \/ AppendObservation \/ AppendCommits \/ DamageRow \/ Heartbeat \/ RequestCancel
             \/ LoseControl \/ Tick \/ UNCHANGED vars
    <2>1. UNCHANGED <<seal, sweep, owner>>
      BY <1>5 DEF AppendObservation, AppendCommits, DamageRow, Heartbeat, RequestCancel,
                  LoseControl, Tick, vars, runVars
    <2>2. QED
      BY <1>0, <1>1, <2>1 DEF DamageIsReal
  <1>6. CASE OwnerDies \/ \E want \in Terminal : RequestFinalization(want)
    <2>1. UNCHANGED <<seal, sweep>> /\ owner'.fold = owner.fold
      BY <1>0, <1>6 DEF OwnerDies, RequestFinalization, runVars, OwnerType
    <2>2. QED
      BY <1>0, <1>1, <2>1 DEF DamageIsReal
  <1>7. CASE CaptureCutoff
    <2>1. UNCHANGED <<seal, sweep>>
      BY <1>7 DEF CaptureCutoff, OwnerEnds, runVars
    <2>2. owner'.fold = owner.fold \/ owner'.fold = FreshFold(accepted)
      BY <1>0, <1>7 DEF CaptureCutoff, OwnerEnds, OwnerType
    <2>3. QED
      BY <1>0, <1>1, <2>1, <2>2, FoldsReadDamage DEF DamageIsReal
  <1>8. CASE ReadPage
    <2>1. UNCHANGED <<seal, sweep>>
      BY <1>8 DEF ReadPage, runVars
    <2>2. owner'.fold = NextPage(owner.fold)
      BY <1>0, <1>8 DEF ReadPage, OwnerType
    <2>3. QED
      BY <1>0, <1>1, <2>1, <2>2, FoldsReadDamage DEF DamageIsReal
  <1>9. CASE FoldFails
    <2>1. UNCHANGED <<seal, sweep>> /\ owner'.fold = owner.fold
      BY <1>0, <1>9 DEF FoldFails, OwnerEnds, runVars, OwnerType
    <2>2. QED
      BY <1>0, <1>1, <2>1 DEF DamageIsReal
  <1>10. CASE CommitFinalization
    <2>1. UNCHANGED sweep /\ owner'.fold = owner.fold
      BY <1>0, <1>10 DEF CommitFinalization, OwnerEnds, OwnerType
    <2>2. seal' = seal \/ seal'.stage # "quarantined"
      BY <1>10 DEF CommitFinalization, OwnerEnds, runVars, ApplyFinalization, OwnerTerminal
    <2>3. QED
      BY <1>0, <2>1, <2>2 DEF DamageIsReal, QuarantineNeedsDamage
  <1>11. ASSUME NEW s \in Sweepers, SweepStart(s) PROVE DamageIsReal' /\ QuarantineNeedsDamage'
    <2>1. UNCHANGED <<seal, owner>>
      BY <1>11 DEF SweepStart, runVars
    <2>2. sweep' = [sweep EXCEPT ![s].pc = "capture", ![s].observed = now]
      BY <1>11 DEF SweepStart
    <2>3. \A x \in Sweepers : /\ sweep'[x].fold = sweep[x].fold
                              /\ sweep'[x].pc \in {"capture", sweep[x].pc}
      BY <1>0, <2>2 DEF SweepType
    <2>4. QED
      BY <1>0, <2>1, <2>3 DEF DamageIsReal, QuarantineNeedsDamage
  <1>12. ASSUME NEW s \in Sweepers, SweepCapture(s) PROVE DamageIsReal' /\ QuarantineNeedsDamage'
    <2>1. CASE SweepMoves(s, "idle")
      BY <1>3, <2>1
    <2>2. CASE StateMismatch /\ SweepMoves(s, "quarantine")
      BY <1>3, <2>2 DEF StateMismatch
    <2>3. CASE sweep' = [sweep EXCEPT ![s].pc = "count", ![s].fold = FreshFold(accepted)]
               /\ UNCHANGED <<seal, owner>>
      <3> DEFINE fold == FreshFold(accepted)
      <3>1. ~fold.damaged
        BY DEF FreshFold
      <3> HIDE DEF fold
      <3>2. \A x \in Sweepers : \/ sweep'[x].fold = sweep[x].fold /\ sweep'[x].pc = sweep[x].pc
                                \/ sweep'[x].fold = fold /\ sweep'[x].pc = "count"
        BY <1>0, <2>3 DEF SweepType, fold
      <3>3. QED
        BY <1>0, <2>3, <3>1, <3>2 DEF DamageIsReal, QuarantineNeedsDamage
    <2>4. QED
      BY <1>12, <2>1, <2>2, <2>3, SnapshotReads DEF SweepCapture, runVars
  <1>13. ASSUME NEW s \in Sweepers, SweepCountRows(s) PROVE DamageIsReal' /\ QuarantineNeedsDamage'
    <2>1. SweepMoves(s, "fold")
      BY <1>13, SnapshotReads DEF SweepCountRows
    <2>2. QED
      BY <1>3, <2>1
  <1>14. ASSUME NEW s \in Sweepers, SweepReadPage(s) PROVE DamageIsReal' /\ QuarantineNeedsDamage'
    <2> DEFINE fold == NextPage(sweep[s].fold)
    <2>1. fold.damaged => damage.kind # "none"
      BY <1>0, FoldsReadDamage DEF DamageIsReal
    <2>2. UNCHANGED <<seal, owner>> /\ sweep' = [sweep EXCEPT ![s].fold = fold]
      BY <1>14 DEF SweepReadPage, runVars
    <2> HIDE DEF fold
    <2>3. \A x \in Sweepers : /\ sweep'[x].fold \in {fold, sweep[x].fold}
                              /\ sweep'[x].fold = fold => x = s \/ fold = sweep[x].fold
                              /\ sweep'[x].pc = sweep[x].pc
      BY <1>0, <2>2 DEF SweepType
    <2>4. QED
      BY <1>0, <2>1, <2>2, <2>3 DEF DamageIsReal, QuarantineNeedsDamage
  <1>15. ASSUME NEW s \in Sweepers, SweepFoldFails(s) PROVE DamageIsReal' /\ QuarantineNeedsDamage'
    BY <1>0, <1>3, <1>15, FoldsReadDamage DEF SweepFoldFails, DamageIsReal
  <1>16. ASSUME NEW s \in Sweepers, SweepCommit(s) PROVE DamageIsReal' /\ QuarantineNeedsDamage'
    <2>1. CASE \/ SweepMoves(s, "idle") \/ SweepMoves(s, "capture")
               \/ StateMismatch /\ SweepMoves(s, "quarantine")
      BY <1>3, <2>1 DEF StateMismatch
    <2>2. CASE /\ seal'.stage = "lease_expired"
               /\ sweep' = [sweep EXCEPT ![s].pc = "idle"]
               /\ UNCHANGED owner
      BY <1>4, <2>2
    <2>3. QED
      BY <1>16, <2>1, <2>2 DEF SweepCommit, ApplyFinalization
  <1>17. ASSUME NEW s \in Sweepers, SweepQuarantine(s) PROVE DamageIsReal' /\ QuarantineNeedsDamage'
    <2>1. damage.kind # "none"
      BY <1>0, <1>17 DEF SweepQuarantine, DamageIsReal
    <2>2. QED
      BY <1>3, <1>4, <1>17, <2>1 DEF SweepQuarantine
  <1>18. ASSUME NEW s \in Sweepers, SweepDies(s) PROVE DamageIsReal' /\ QuarantineNeedsDamage'
    BY <1>0, <1>4, <1>18 DEF SweepDies, runVars, QuarantineNeedsDamage
  <1>19. QED
    BY <1>5, <1>6, <1>7, <1>8, <1>9, <1>10, <1>11, <1>12, <1>13, <1>14, <1>15, <1>16, <1>17, <1>18
    DEF Next, OwnerStep, SweepStep

\* On a database whose sessions read one snapshot, evidence is only set aside when
\* stored rows were really damaged: no interleaving of appends, limits and
\* sweeps makes the program refuse its own stream.
THEOREM QuarantineJustified ==
    ASSUME SnapshotReads
    PROVE  Spec => []QuarantineNeedsDamage
  <1>1. QuarantineInv /\ [Next]_vars => QuarantineInv'
    BY NextQuarantineInv
  <1>2. QED
    BY <1>1, InitQuarantineInv, PTL DEF Spec, QuarantineInv

-----------------------------------------------------------------------------
(* Starting over.                                                          *)

\* Of the clock and the stream: time and the stream only advance, and for a run
\* that is still expired at some past moment they advance by what is in flight.
StreamAdvances ==
    /\ accepted <= accepted'
    /\ now <= now'
    /\ \A t \in 0..now :
         ExpiredAt(t)' =>
           /\ ExpiredAt(t)
           /\ \/ accepted' = accepted /\ (appending' => appending)
              \/ accepted' = accepted + 1 /\ appending /\ ~appending'

\* Of the folds: a cutoff is the stream's length when it is captured, and stays.
CutoffsStay ==
    /\ owner'.pc = "fold" =>
         \/ owner'.fold.cutoff = accepted /\ owner.pc = "capture"
         \/ owner'.fold.cutoff = owner.fold.cutoff /\ owner.pc = "fold"
    /\ \A s \in Sweepers :
         /\ sweep'[s].observed \in {sweep[s].observed, now}
         /\ sweep'[s].pc \in {"count", "fold"} =>
              /\ sweep'[s].observed = sweep[s].observed
              /\ \/ /\ sweep'[s].fold.cutoff = accepted
                    /\ UNCHANGED <<accepted, appending>>
                 \/ /\ sweep'[s].fold.cutoff = sweep[s].fold.cutoff
                    /\ sweep[s].pc \in {"count", "fold"}

\* The invariant: nobody holds a cutoff beyond the stream or a time to come, and
\* the cutoff of a sweep is behind by at most the append in flight.
CutoffInv ==
    /\ TypeOK
    /\ AppendIsFenced
    /\ owner.pc = "fold" => owner.fold.cutoff <= accepted
    /\ \A s \in Sweepers :
         /\ sweep[s].observed <= now
         /\ sweep[s].pc \in {"count", "fold"} => sweep[s].fold.cutoff <= accepted
    /\ ExpiredStreamGrowsOnce

LEMMA InitCutoffInv == Init => CutoffInv
  BY InitTypeOK DEF Init, CutoffInv, ExpiredStreamGrowsOnce

\* A step that keeps the lease and the stream, or adds the row in flight, advances;
\* so does one that ends the run or renews its lease.
LEMMA StepAdvances == TypeOK /\ [Next]_vars => StreamAdvances
  <1> SUFFICES ASSUME TypeOK, [Next]_vars PROVE StreamAdvances
    OBVIOUS
  <1>0. /\ accepted \in Nat /\ now \in Nat /\ lease \in Nat /\ LeaseLength \in Nat \ {0}
        /\ appending \in BOOLEAN
    BY ConstantsAssumption DEF ConstantsAssumption, TypeOK
  <1>1. ASSUME UNCHANGED <<status, lease, streamVars>>, now' \in {now, now + 1}
        PROVE  StreamAdvances
    BY <1>0, <1>1 DEF StreamAdvances, streamVars, ExpiredAt
  <1>2. ASSUME UNCHANGED <<now, streamVars>>, status' \in Terminal PROVE StreamAdvances
    BY <1>0, <1>2 DEF StreamAdvances, streamVars, ExpiredAt, Terminal
  <1>3. CASE AppendObservation
    BY <1>0, <1>3 DEF AppendObservation, OwnerActive, StreamAdvances, ExpiredAt, runVars
  <1>4. CASE AppendCommits
    BY <1>0, <1>4 DEF AppendCommits, StreamAdvances, ExpiredAt, runVars
  <1>5. CASE Heartbeat
    BY <1>0, <1>5 DEF Heartbeat, StreamAdvances, ExpiredAt, streamVars
  <1>6. CASE DamageRow
    BY <1>0, <1>6 DEF DamageRow, StreamAdvances, ExpiredAt, runVars
  <1>7. CASE OwnerDies
    BY <1>0, <1>7 DEF OwnerDies, StreamAdvances, ExpiredAt, runVars
  <1>8. CASE RequestCancel \/ LoseControl \/ Tick \/ UNCHANGED vars
    BY <1>0, <1>1, <1>8 DEF RequestCancel, LoseControl, Tick, vars, runVars
  <1>9. CASE \/ \E want \in Terminal : RequestFinalization(want)
             \/ CaptureCutoff \/ ReadPage \/ FoldFails
    BY <1>0, <1>1, <1>9
    DEF RequestFinalization, CaptureCutoff, ReadPage, FoldFails, OwnerEnds, runVars
  <1>10. CASE CommitFinalization
    <2>1. owner.want \in Terminal
      BY DEF TypeOK, OwnerType
    <2>2. OwnerTerminal.status \in Terminal
      BY <2>1 DEF OwnerTerminal, Terminal
    <2>3. \/ UNCHANGED <<now, runVars, streamVars>>
          \/ ApplyFinalization(OwnerTerminal)
      BY <1>10 DEF CommitFinalization, OwnerEnds
    <2>4. QED
      BY <1>0, <1>1, <1>2, <1>10, <2>2, <2>3 DEF CommitFinalization, OwnerEnds, ApplyFinalization, runVars
  <1>11. ASSUME NEW s \in Sweepers, SweepCommit(s) \/ SweepQuarantine(s) PROVE StreamAdvances
    <2>1. RecoveredStatus \in Terminal
      BY DEF RecoveredStatus, Terminal
    <2>2. \/ UNCHANGED <<now, runVars, streamVars>>
          \/ UNCHANGED <<now, streamVars>> /\ status' = RecoveredStatus
      BY <1>11 DEF SweepCommit, SweepQuarantine, SweepMoves, ApplyFinalization
    <2>3. QED
      BY <1>0, <1>1, <1>2, <2>1, <2>2 DEF runVars
  <1>12. CASE \E s \in Sweepers : \/ SweepStart(s) \/ SweepCapture(s) \/ SweepCountRows(s)
                                  \/ SweepReadPage(s) \/ SweepFoldFails(s) \/ SweepDies(s)
    BY <1>0, <1>1, <1>12 DEF SweepStart, SweepCapture, SweepCountRows, SweepReadPage, SweepFoldFails,
                             SweepDies, SweepMoves, runVars
  <1>13. QED
    BY <1>3, <1>4, <1>5, <1>6, <1>7, <1>8, <1>9, <1>10, <1>11, <1>12 DEF Next, OwnerStep, SweepStep

\* A fold keeps its cutoff while it reads.
LEMMA PagesKeepCutoff == ASSUME NEW fold \in FoldType PROVE NextPage(fold).cutoff = fold.cutoff
  BY DEF NextPage, FoldType

\* Only a capture chooses a cutoff, and it chooses the stream's length.
LEMMA StepKeepsCutoffs == TypeOK /\ [Next]_vars => CutoffsStay
  <1> SUFFICES ASSUME TypeOK, [Next]_vars PROVE CutoffsStay
    OBVIOUS
  <1>0. /\ owner \in OwnerType /\ sweep \in [Sweepers -> SweepType]
        /\ owner.fold \in FoldType /\ \A s \in Sweepers : sweep[s].fold \in FoldType
    BY DEF TypeOK, OwnerType, SweepType
  <1>1. ASSUME UNCHANGED sweep,
               owner'.pc = "fold" =>
                 \/ owner'.fold.cutoff = accepted /\ owner.pc = "capture"
                 \/ owner'.fold.cutoff = owner.fold.cutoff /\ owner.pc = "fold"
        PROVE  CutoffsStay
    BY <1>1 DEF CutoffsStay
  <1>2. ASSUME NEW s \in Sweepers, UNCHANGED owner,
               NEW to, sweep' = [sweep EXCEPT ![s] = to],
               to.observed \in {sweep[s].observed, now},
               to.pc \in {"count", "fold"} =>
                 /\ to.observed = sweep[s].observed
                 /\ \/ to.fold.cutoff = accepted /\ UNCHANGED <<accepted, appending>>
                    \/ to.fold.cutoff = sweep[s].fold.cutoff /\ sweep[s].pc \in {"count", "fold"}
        PROVE  CutoffsStay
    BY <1>0, <1>2 DEF CutoffsStay
  <1>3. ASSUME NEW s \in Sweepers, UNCHANGED owner, NEW pc, sweep' = [sweep EXCEPT ![s].pc = pc],
               pc \in {"count", "fold"} => sweep[s].pc \in {"count", "fold"}
        PROVE  CutoffsStay
    <2> DEFINE to == [sweep[s] EXCEPT !.pc = pc]
    <2>1. /\ to.observed = sweep[s].observed /\ to.fold = sweep[s].fold /\ to.pc = pc
          /\ sweep' = [sweep EXCEPT ![s] = to]
      BY <1>0, <1>3 DEF SweepType
    <2> HIDE DEF to
    <2>2. QED
      BY <1>2, <1>3, <2>1
  <1>4. CASE \/ AppendObservation \/ AppendCommits \/ DamageRow \/ Heartbeat \/ RequestCancel
             \/ LoseControl \/ Tick \/ UNCHANGED vars
    <2>1. UNCHANGED <<sweep, owner>>
      BY <1>4 DEF AppendObservation, AppendCommits, DamageRow, Heartbeat, RequestCancel,
                  LoseControl, Tick, vars, runVars
    <2>2. QED
      BY <1>0, <1>1, <2>1 DEF OwnerType
  <1>5. CASE OwnerDies \/ \E want \in Terminal : RequestFinalization(want)
    <2>1. UNCHANGED sweep /\ owner'.pc \in {"dead", "capture"}
      <3>1. CASE OwnerDies
        BY <1>0, <3>1 DEF OwnerDies, OwnerType
      <3>2. ASSUME NEW want \in Terminal, RequestFinalization(want)
            PROVE  UNCHANGED sweep /\ owner'.pc = "capture"
        BY <1>0, <3>2 DEF RequestFinalization, OwnerType
      <3>3. QED
        BY <1>5, <3>1, <3>2
    <2>2. QED
      BY <1>1, <2>1
  <1>6. CASE CaptureCutoff
    <2>1. owner'.pc = "fold" => owner'.fold = FreshFold(accepted)
      BY <1>0, <1>6 DEF CaptureCutoff, OwnerEnds, OwnerType
    <2>2. UNCHANGED sweep /\ owner.pc = "capture"
      BY <1>6 DEF CaptureCutoff, OwnerEnds
    <2>3. QED
      BY <1>1, <2>1, <2>2 DEF FreshFold
  <1>7. CASE ReadPage
    <2>1. owner'.fold = NextPage(owner.fold) /\ UNCHANGED sweep /\ owner.pc = "fold"
      BY <1>0, <1>7 DEF ReadPage, OwnerType
    <2>2. owner'.fold.cutoff = owner.fold.cutoff
      BY <1>0, <2>1, PagesKeepCutoff
    <2>3. QED
      BY <1>1, <2>1, <2>2
  <1>8. CASE FoldFails \/ CommitFinalization
    <2>1. UNCHANGED sweep /\ owner'.pc # "fold"
      BY <1>0, <1>8 DEF FoldFails, CommitFinalization, OwnerEnds, OwnerType
    <2>2. QED
      BY <1>1, <2>1
  <1>9. ASSUME NEW s \in Sweepers, SweepStart(s) PROVE CutoffsStay
    <2> DEFINE to == [sweep[s] EXCEPT !.pc = "capture", !.observed = now]
    <2>1. sweep' = [sweep EXCEPT ![s] = to] /\ UNCHANGED owner
      BY <1>0, <1>9 DEF SweepStart
    <2>2. to.observed = now /\ to.pc = "capture"
      BY <1>0 DEF SweepType
    <2> HIDE DEF to
    <2>3. QED
      BY <1>2, <2>1, <2>2
  <1>10. ASSUME NEW s \in Sweepers, SweepCapture(s) PROVE CutoffsStay
    <2>1. CASE SweepMoves(s, "idle") \/ SweepMoves(s, "quarantine")
      BY <1>3, <2>1 DEF SweepMoves
    <2>2. CASE sweep' = [sweep EXCEPT ![s].pc = "count", ![s].fold = FreshFold(accepted)]
               /\ UNCHANGED <<owner, streamVars>>
      <3> DEFINE to == [sweep[s] EXCEPT !.pc = "count", !.fold = FreshFold(accepted)]
      <3>1. sweep' = [sweep EXCEPT ![s] = to] /\ UNCHANGED owner
        BY <1>0, <2>2 DEF SweepType
      <3>2. /\ to.observed = sweep[s].observed /\ to.pc = "count" /\ to.fold.cutoff = accepted
            /\ UNCHANGED <<accepted, appending>>
        BY <1>0, <2>2 DEF SweepType, FreshFold, streamVars
      <3> HIDE DEF to
      <3>3. QED
        BY <1>2, <3>1, <3>2
    <2>3. QED
      BY <1>10, <2>1, <2>2 DEF SweepCapture
  <1>11. ASSUME NEW s \in Sweepers, SweepReadPage(s) PROVE CutoffsStay
    <2> DEFINE fold == NextPage(sweep[s].fold)
               to == [sweep[s] EXCEPT !.fold = fold]
    <2>1. sweep' = [sweep EXCEPT ![s] = to] /\ UNCHANGED owner /\ sweep[s].pc = "fold"
      BY <1>0, <1>11 DEF SweepReadPage
    <2>2. fold.cutoff = sweep[s].fold.cutoff
      BY <1>0, PagesKeepCutoff
    <2> HIDE DEF fold
    <2>3. to.observed = sweep[s].observed /\ to.pc = "fold" /\ to.fold = fold
      BY <1>0, <2>1 DEF SweepType
    <2> HIDE DEF to
    <2>4. QED
      BY <1>2, <2>1, <2>2, <2>3
  <1>12. ASSUME NEW s \in Sweepers,
                \/ SweepCountRows(s) \/ SweepFoldFails(s) \/ SweepCommit(s) \/ SweepQuarantine(s)
                \/ SweepDies(s)
         PROVE  CutoffsStay
    <2>1. /\ UNCHANGED owner
          /\ \E pc \in {"idle", "capture", "fold", "quarantine"} :
               /\ sweep' = [sweep EXCEPT ![s].pc = pc]
               /\ pc = "fold" => sweep[s].pc = "count"
      BY <1>12 DEF SweepCountRows, SweepFoldFails, SweepCommit, SweepQuarantine, SweepDies, SweepMoves
    <2>2. QED
      BY <1>3, <2>1
  <1>13. QED
    BY <1>4, <1>5, <1>6, <1>7, <1>8, <1>9, <1>10, <1>11, <1>12 DEF Next, OwnerStep, SweepStep

LEMMA NextCutoffInv == CutoffInv /\ [Next]_vars => CutoffInv'
  <1> SUFFICES ASSUME CutoffInv, [Next]_vars PROVE CutoffInv'
    OBVIOUS
  <1>1. TypeOK' /\ AppendIsFenced'
    BY NextTypeOK DEF CutoffInv
  <1>2. StreamAdvances /\ CutoffsStay
    BY StepAdvances, StepKeepsCutoffs DEF CutoffInv
  <1>3. /\ accepted \in Nat /\ accepted' \in Nat /\ now \in Nat /\ now' \in Nat
        /\ owner.fold.cutoff \in Nat
        /\ \A s \in Sweepers : sweep[s].fold.cutoff \in Nat /\ sweep[s].observed \in Nat
    BY <1>1, ConstantsAssumption
    DEF ConstantsAssumption, CutoffInv, TypeOK, OwnerType, SweepType, FoldType
  <1>4. owner'.pc = "fold" => owner'.fold.cutoff <= accepted'
    BY <1>2, <1>3 DEF CutoffInv, CutoffsStay, StreamAdvances
  <1>5. ASSUME NEW s \in Sweepers
        PROVE  /\ sweep'[s].observed <= now'
               /\ sweep'[s].pc \in {"count", "fold"} => sweep'[s].fold.cutoff <= accepted'
    BY <1>2, <1>3 DEF CutoffInv, CutoffsStay, StreamAdvances
  <1>6. ASSUME NEW s \in Sweepers, sweep'[s].pc \in {"count", "fold"}, ExpiredAt(sweep[s].observed)'
        PROVE  IF appending' THEN accepted' <= sweep'[s].fold.cutoff
                             ELSE accepted' <= sweep'[s].fold.cutoff + 1
    <2>1. sweep'[s].observed = sweep[s].observed
      BY <1>2, <1>6 DEF CutoffsStay
    <2>2. /\ ExpiredAt(sweep[s].observed)
          /\ \/ accepted' = accepted /\ (appending' => appending)
             \/ accepted' = accepted + 1 /\ appending /\ ~appending'
      <3> DEFINE t == sweep[s].observed
      <3>1. t \in 0..now /\ (status' = "running" /\ lease' # 0 /\ lease' <= t)
        BY <1>3, <1>6, <2>1 DEF CutoffInv, ExpiredAt
      <3>2. QED
        BY <1>2, <3>1 DEF StreamAdvances, ExpiredAt
    <2>3. CASE sweep'[s].fold.cutoff = accepted /\ UNCHANGED <<accepted, appending>>
      BY <1>3, <2>3
    <2>4. CASE sweep'[s].fold.cutoff = sweep[s].fold.cutoff /\ sweep[s].pc \in {"count", "fold"}
      <3>1. IF appending THEN accepted <= sweep[s].fold.cutoff
                         ELSE accepted <= sweep[s].fold.cutoff + 1
        BY <2>2, <2>4 DEF CutoffInv, ExpiredStreamGrowsOnce
      <3>2. QED
        BY <1>3, <2>2, <2>4, <3>1
    <2>5. QED
      BY <1>2, <1>6, <2>3, <2>4 DEF CutoffsStay
  <1>7. QED
    BY <1>1, <1>4, <1>5, <1>6 DEF CutoffInv, ExpiredStreamGrowsOnce

LEMMA CutoffInvariant == Spec => []CutoffInv
  BY InitCutoffInv, NextCutoffInv, PTL DEF Spec

\* Only a commit that finds another number of observations starts over.
LEMMA StepRestarts ==
    ASSUME TypeOK, [Next]_vars
    PROVE  /\ owner.pc = "fold" /\ owner'.pc = "capture" => owner.fold.cutoff # accepted
           /\ \A s \in Sweepers :
                sweep[s].pc = "fold" /\ sweep'[s].pc = "capture" => sweep[s].fold.cutoff # accepted
  <1>0. owner \in OwnerType /\ sweep \in [Sweepers -> SweepType]
    BY DEF TypeOK
  <1>1. ASSUME owner.pc = "fold", owner'.pc = "capture" PROVE owner.fold.cutoff # accepted
    <2>1. CASE CommitFinalization
      BY <1>0, <1>1, <2>1 DEF CommitFinalization, OwnerEnds, OwnerType, StateUnchanged
    <2>2. CASE \/ ReadPage \/ FoldFails \/ OwnerDies
      BY <1>0, <1>1, <2>2 DEF ReadPage, FoldFails, OwnerEnds, OwnerDies, OwnerType
    <2>3. ~CaptureCutoff /\ \A want \in Terminal : ~RequestFinalization(want)
      BY <1>1 DEF CaptureCutoff, RequestFinalization
    <2>4. UNCHANGED owner \/ CommitFinalization \/ ReadPage \/ FoldFails \/ OwnerDies
      BY <2>3 DEF Next, OwnerStep, vars, AppendObservation, AppendCommits, DamageRow, Heartbeat,
                  RequestCancel, LoseControl, Tick, SweepStep, SweepStart, SweepCapture, SweepCountRows,
                  SweepReadPage, SweepFoldFails, SweepCommit, SweepQuarantine, SweepDies, SweepMoves
    <2>5. QED
      BY <1>1, <2>1, <2>2, <2>4
  <1>2. ASSUME NEW s \in Sweepers, sweep[s].pc = "fold", sweep'[s].pc = "capture"
        PROVE  sweep[s].fold.cutoff # accepted
    <2>1. CASE UNCHANGED sweep
      BY <1>2, <2>1
    <2>2. ASSUME NEW x \in Sweepers, x # s, SweepStep(x) \/ SweepDies(x) PROVE FALSE
      <3>1. sweep'[s] = sweep[s]
        <4>1. CASE SweepReadPage(x)
          BY <1>0, <2>2, <4>1, PagesKeepCutoff DEF SweepReadPage
        <4>2. CASE SweepStart(x) \/ SweepCapture(x) \/ SweepCountRows(x) \/ SweepFoldFails(x)
          BY <1>0, <2>2, <4>2 DEF SweepStart, SweepCapture, SweepCountRows, SweepFoldFails, SweepMoves
        <4>3. CASE SweepCommit(x) \/ SweepQuarantine(x) \/ SweepDies(x)
          BY <1>0, <2>2, <4>3 DEF SweepCommit, SweepQuarantine, SweepDies, SweepMoves
        <4>4. QED
          BY <2>2, <4>1, <4>2, <4>3 DEF SweepStep
      <3>2. QED
        BY <1>2, <3>1
    <2>3. CASE SweepCommit(s)
      <3>1. ASSUME sweep' = [sweep EXCEPT ![s].pc = "idle"] \/ sweep' = [sweep EXCEPT ![s].pc = "quarantine"]
            PROVE  FALSE
        BY <1>0, <1>2, <3>1 DEF SweepType
      <3>2. ~StateUnchanged(sweep[s].fold)
        BY <2>3, <3>1 DEF SweepCommit, SweepMoves
      <3>3. QED
        BY <3>2 DEF StateUnchanged
    <2>4. CASE SweepReadPage(s)
      <3> DEFINE fold == NextPage(sweep[s].fold)
      <3>1. sweep' = [sweep EXCEPT ![s].fold = fold]
        BY <2>4 DEF SweepReadPage
      <3> HIDE DEF fold
      <3>2. QED
        BY <1>0, <1>2, <3>1 DEF SweepType
    <2>5. CASE \/ SweepStart(s) \/ SweepCapture(s) \/ SweepCountRows(s) \/ SweepFoldFails(s)
               \/ SweepQuarantine(s) \/ SweepDies(s)
      BY <1>0, <1>2, <2>5 DEF SweepStart, SweepCapture, SweepCountRows, SweepFoldFails,
                              SweepQuarantine, SweepDies, SweepMoves, SweepType
    <2>6. UNCHANGED sweep \/ \E x \in Sweepers : SweepStep(x) \/ SweepDies(x)
      <3>1. CASE OwnerStep \/ OwnerDies \/ \E want \in Terminal : RequestFinalization(want)
        <4>1. ASSUME NEW want \in Terminal, RequestFinalization(want) PROVE UNCHANGED sweep
          BY <4>1 DEF RequestFinalization
        <4>2. CASE CaptureCutoff \/ ReadPage \/ FoldFails \/ OwnerDies
          BY <4>2 DEF CaptureCutoff, ReadPage, FoldFails, OwnerEnds, OwnerDies
        <4>3. CASE CommitFinalization
          BY <4>3 DEF CommitFinalization, OwnerEnds
        <4>4. QED
          BY <3>1, <4>1, <4>2, <4>3 DEF OwnerStep
      <3>2. CASE \/ AppendObservation \/ AppendCommits \/ DamageRow \/ Heartbeat \/ RequestCancel
                 \/ LoseControl \/ Tick \/ UNCHANGED vars
        BY <3>2 DEF AppendObservation, AppendCommits, DamageRow, Heartbeat, RequestCancel,
                    LoseControl, Tick, vars
      <3>3. QED
        BY <3>1, <3>2 DEF Next
    <2>7. QED
      BY <2>1, <2>2, <2>3, <2>4, <2>5, <2>6 DEF SweepStep
  <1>3. QED
    BY <1>1, <1>2

\* Every restart of a finalization or of a recovery is paid for by an observation
\* accepted behind its cutoff: nothing is folded again for nothing
\* (_commit_discovery_finalization, _recover_expired_discovery_run).
THEOREM RestartsArePaidFor == Spec => StartsOverOnlyForGrowth
  <1> DEFINE Restart ==
        /\ owner.pc = "fold" /\ owner'.pc = "capture" => owner.fold.cutoff < accepted
        /\ \A s \in Sweepers :
             sweep[s].pc = "fold" /\ sweep'[s].pc = "capture" => sweep[s].fold.cutoff < accepted
  <1>1. CutoffInv /\ [Next]_vars => [Restart]_vars
    <2> SUFFICES ASSUME CutoffInv, [Next]_vars PROVE Restart
      OBVIOUS
    <2>1. /\ accepted \in Nat /\ owner.fold.cutoff \in Nat
          /\ \A s \in Sweepers : sweep[s].fold.cutoff \in Nat
      BY ConstantsAssumption
      DEF ConstantsAssumption, CutoffInv, TypeOK, OwnerType, SweepType, FoldType
    <2>2. QED
      BY <2>1, StepRestarts DEF CutoffInv
  <1>2. QED
    BY <1>1, CutoffInvariant, PTL DEF Spec, StartsOverOnlyForGrowth

\* A run that a sweep found expired gains at most the observation in flight, for
\* any number of sweeps, heartbeats and appends: its recovery starts over once.
THEOREM ExpiredStreamsClose == Spec => []ExpiredStreamGrowsOnce
  BY CutoffInvariant, PTL DEF CutoffInv

-----------------------------------------------------------------------------
(* The lifecycle's promise.                                                *)

\* A stop is accepted while the run is open and never withdrawn, and whoever seals
\* the run reads it in the transaction that does.
StopIsRead ==
    \/ /\ UNCHANGED status
       /\ cancelRequested' = cancelRequested \/ (status = "running" /\ cancelRequested')
    \/ UNCHANGED cancelRequested /\ (cancelRequested => status' = "cancelled")

LEMMA StepReadsStop == [Next]_vars => StopIsRead
  <1> SUFFICES ASSUME [Next]_vars PROVE StopIsRead
    OBVIOUS
  <1>1. CASE RequestCancel
    BY <1>1 DEF RequestCancel, StopIsRead
  <1>2. CASE CommitFinalization
    <2>1. cancelRequested => OwnerTerminal.status = "cancelled"
      BY DEF OwnerTerminal
    <2>2. UNCHANGED <<status, cancelRequested>> \/ ApplyFinalization(OwnerTerminal)
      BY <1>2 DEF CommitFinalization, OwnerEnds, runVars
    <2>3. QED
      BY <2>1, <2>2 DEF ApplyFinalization, StopIsRead
  <1>3. ASSUME NEW s \in Sweepers, SweepCommit(s) \/ SweepQuarantine(s) PROVE StopIsRead
    <2>1. \/ UNCHANGED <<status, cancelRequested>>
          \/ UNCHANGED cancelRequested /\ status' = RecoveredStatus
      BY <1>3 DEF SweepCommit, SweepQuarantine, SweepMoves, ApplyFinalization, runVars
    <2>2. QED
      BY <2>1 DEF RecoveredStatus, StopIsRead
  <1>4. CASE \/ AppendObservation \/ AppendCommits \/ DamageRow \/ Heartbeat \/ LoseControl
             \/ OwnerDies \/ Tick \/ UNCHANGED vars
    BY <1>4 DEF AppendObservation, AppendCommits, DamageRow, Heartbeat, LoseControl, OwnerDies,
                Tick, vars, runVars, StopIsRead
  <1>5. CASE \/ \E want \in Terminal : RequestFinalization(want)
             \/ CaptureCutoff \/ ReadPage \/ FoldFails
    BY <1>5 DEF RequestFinalization, CaptureCutoff, ReadPage, FoldFails, OwnerEnds, runVars, StopIsRead
  <1>6. CASE \E s \in Sweepers : \/ SweepStart(s) \/ SweepCapture(s) \/ SweepCountRows(s)
                                 \/ SweepReadPage(s) \/ SweepFoldFails(s) \/ SweepDies(s)
    BY <1>6 DEF SweepStart, SweepCapture, SweepCountRows, SweepReadPage, SweepFoldFails,
                SweepDies, SweepMoves, runVars, StopIsRead
  <1>7. QED
    BY <1>1, <1>2, <1>3, <1>4, <1>5, <1>6 DEF Next, OwnerStep, SweepStep

LEMMA StepLifecycle == EvidenceInv /\ [Next]_vars => [Lifecycle!Next]_(Lifecycle!vars)
  <1> SUFFICES ASSUME EvidenceInv, [Next]_vars PROVE [Lifecycle!Next]_(Lifecycle!vars)
    OBVIOUS
  <1>0. RunningIsOpen /\ RunningIsOpen' /\ cancelRequested \in BOOLEAN /\ cancelRequested' \in BOOLEAN
        /\ StopIsRead /\ (Rests \/ Grows \/ SealsRun)
    BY NextEvidenceInv, StepReadsStop, StepEffects DEF EvidenceInv, TypeOK
  <1>1. ASSUME UNCHANGED <<status, seal, cancelRequested>> PROVE UNCHANGED Lifecycle!vars
    BY <1>1 DEF Lifecycle!vars, Sealed
  <1>2. ASSUME UNCHANGED <<status, seal>>, status = "running", cancelRequested' PROVE Lifecycle!Stop("run")
    BY <1>0, <1>2 DEF Lifecycle!Stop, RunningIsOpen, Sealed
  <1>3. ASSUME SealsRun PROVE \E v \in Lifecycle!Verdicts : Lifecycle!Close("run", v)
    <2>1. ~Sealed /\ Sealed' /\ seal'.status \in Terminal /\ (cancelRequested => seal'.status = "cancelled")
      BY <1>0, <1>3 DEF SealsRun, RunningIsOpen, StopIsRead, Sealed, Terminal
    <2>2. Lifecycle!Close("run", seal'.status)
      BY <2>1 DEF Lifecycle!Close, Terminal
    <2>3. QED
      BY <2>1, <2>2 DEF Lifecycle!Verdicts, Terminal
  <1>4. CASE SealsRun
    BY <1>3, <1>4 DEF Lifecycle!Next
  <1>5. CASE Rests \/ Grows
    <2>1. UNCHANGED <<status, seal>>
      BY <1>5 DEF Rests, Grows
    <2>2. UNCHANGED cancelRequested \/ (status = "running" /\ cancelRequested')
      BY <1>0 DEF StopIsRead
    <2>3. QED
      BY <1>1, <1>2, <2>1, <2>2 DEF Lifecycle!Next
  <1>6. QED
    BY <1>0, <1>4, <1>5

\* The steps of one discovery, whoever takes them, are the lifecycle's: the run is
\* closed once, and a stop accepted before the seal's transaction decides the
\* verdict, in the owner's commit, in recovery and in quarantine.
THEOREM LifecycleStepsKept == Spec => StepsKeepLifecycle
  BY StepLifecycle, EvidenceInvariant, PTL DEF Spec, StepsKeepLifecycle
=============================================================================
