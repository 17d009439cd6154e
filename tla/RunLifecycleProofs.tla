------------------------- MODULE RunLifecycleProofs -------------------------
(***************************************************************************)
(* Theorems about RunLifecycle for every number of runs, tokens, keys,     *)
(* approvals and users, every lease length and every lock wait: first the  *)
(* invariant and the classification of steps, then what follows from them, *)
(* who executes a run and under which control, what its retry key, its     *)
(* parents and its approval lead to, and the promise of RunPromise.        *)
(***************************************************************************)
EXTENDS RunLifecycle, TLAPS

-----------------------------------------------------------------------------
(* Typing.                                                                 *)

\* Sealing a typed run with a typed verdict keeps every table typed.
LEMMA ApplyFinalizationTypes ==
    ASSUME TypeOK, NEW r \in Runs, NEW terminal \in SealType,
           ApplyFinalization(r, terminal)
    PROVE  /\ status' \in [Runs -> Statuses]
           /\ stage' \in [Runs -> Stages]
           /\ lease' \in [Runs -> Nat]
           /\ sealed' \in [Runs -> SealType \cup {Null}]
           /\ slot' \in [ProtocolKeys -> SlotType \cup {Null}]
           /\ UNCHANGED <<now, owner, attempt, request, dispatch, idem, links, auth, user>>
  <1>1. terminal.status \in Statuses /\ terminal.stage \in Stages
    BY DEF SealType, Statuses
  <1>2. QED
    BY <1>1 DEF ApplyFinalization, TypeOK, formVars

\* An owner's verdict, fenced or not, is a seal.
LEMMA FencedTerminalType ==
    ASSUME NEW r, NEW token, NEW s \in Terminal
    PROVE  FenceSuccessTerminal(r, token, CancelOverride(r, s)) \in SealType
  <1>1. CancelOverride(r, s) \in Terminal
    BY DEF CancelOverride, Terminal
  <1>2. \A x \in Terminal : EngineTerminal(x) \in SealType
    BY DEF EngineTerminal, Terminal, SealType, Stages
  <1>3. [status |-> "failed", stage |-> "active_control_lost"] \in SealType
    BY DEF SealType, Terminal, Stages
  <1>4. QED
    BY <1>1, <1>2, <1>3 DEF FenceSuccessTerminal

\* The recovery sweep's verdicts are seals.
LEMMA RecoveryTypes ==
    ASSUME NEW r
    PROVE  /\ [status |-> RecoveredStatus(r),
               stage |-> IF cancelRequested[r] THEN "lease_expired_cancelled"
                         ELSE "lease_expired"] \in SealType
           /\ [status |-> RecoveredStatus(r),
               stage |-> IF cancelRequested[r]
                         THEN "lease_expired_cancelled_observation_quarantined"
                         ELSE "lease_expired_observation_quarantined"] \in SealType
  BY DEF RecoveredStatus, SealType, Terminal, Stages

\* A run has its frozen context from the transaction that creates it.
ContextsComplete == \A r \in Runs : Exists(r) <=> request[r] # Null

LEMMA InitTypeOK == Init => TypeOK
  BY ConstantsAssumption
  DEF Init, TypeOK, ConstantsAssumption, Statuses, Stages, UserType, Roles, Relations

\* Every transaction keeps every table typed.
LEMMA NextTypeOK == TypeOK /\ ContextsComplete /\ [Next]_vars => TypeOK'
  <1> SUFFICES ASSUME TypeOK, ContextsComplete, [Next]_vars PROVE TypeOK'
    OBVIOUS
  <1> USE ConstantsAssumption, NullAssumption
      DEF ConstantsAssumption, NullAssumption
  <1>1. CASE Submission
    <2> PICK r \in Runs, q \in Requests, a \in Auths \cup {Null}, t \in SampledTimes :
          CreateRun(r, q, a, t)
      BY <1>1 DEF Submission
    <2>1. auth' \in [Auths -> AuthType \cup {Null}]
      <3>1. \A x \in Auths : x = a => auth[x] \in AuthType
        BY DEF CreateRun, UsableForCreate, TypeOK
      <3>2. QED
        BY <3>1 DEF CreateRun, TypeOK, AuthType
    <2>2. links' \subseteq Runs \X Runs \X (Relations \cup {"preview"})
      <3>1. a # Null => auth[a].preview \in Runs
        BY DEF CreateRun, UsableForCreate, TypeOK, AuthType
      <3>2. q.relation # "none" => q.parent \in Runs /\ q.relation \in Relations
        BY DEF CreateRun, ParentValid, RetryParentValid, PropertyParentValid,
               RequestType, Relations
      <3>3. QED
        BY <3>1, <3>2 DEF CreateRun, ParentLinks, TypeOK
    <2>3. slot' \in [ProtocolKeys -> SlotType \cup {Null}]
      BY DEF CreateRun, TypeOK, SlotType
    <2>4. QED
      BY <2>1, <2>2, <2>3 DEF CreateRun, TypeOK, Statuses, Live, Stages
  <1>2. CASE Approval
    <2>1. ASSUME NEW a \in Auths, NEW p \in Runs, NEW w \in Windows,
                 NEW t \in SampledTimes, CreateScanAuthorization(a, p, w, t)
          PROVE  TypeOK'
      <3>1. request[p] \in RequestType
        BY <2>1 DEF CreateScanAuthorization, SealedPreview, ContextsComplete, Exists, TypeOK
      <3>2. request[p].plan \in Plans /\ w[1] \in Nat /\ w[2] \in Nat
        BY <3>1 DEF RequestType
      <3>3. [preview |-> p, plan |-> request[p].plan, notBefore |-> w[1], notAfter |-> w[2],
             consumedBy |-> Null, revoked |-> FALSE] \in AuthType
        BY <3>2 DEF AuthType
      <3>4. auth' \in [Auths -> AuthType \cup {Null}]
        BY <2>1, <3>3 DEF CreateScanAuthorization, TypeOK
      <3>5. UNCHANGED <<now, runVars, formVars, slot, user, conflicts, cancelView>>
        BY <2>1 DEF CreateScanAuthorization
      <3>6. QED
        BY <3>4, <3>5 DEF TypeOK, runVars, formVars
    <2>2. ASSUME NEW a \in Auths, RevokeScanAuthorization(a) PROVE TypeOK'
      <3>1. auth[a] \in AuthType
        BY <2>2 DEF RevokeScanAuthorization, TypeOK
      <3>2. [auth[a] EXCEPT !.revoked = TRUE] \in AuthType
        BY <3>1 DEF AuthType
      <3>3. auth' = [auth EXCEPT ![a] = [auth[a] EXCEPT !.revoked = TRUE]]
            /\ UNCHANGED <<now, runVars, formVars, slot, user, conflicts, cancelView>>
        BY <2>2 DEF RevokeScanAuthorization
      <3>4. auth' \in [Auths -> AuthType \cup {Null}]
        BY <3>2, <3>3 DEF TypeOK
      <3>5. QED
        BY <3>3, <3>4 DEF TypeOK, runVars, formVars
    <2>3. QED
      BY <1>2, <2>1, <2>2 DEF Approval
  <1>3. CASE Execution
    <2>1. ASSUME NEW r \in Runs, NEW token \in Tokens, NEW s \in Terminal,
                 FinalizeRun(r, token, s)
          PROVE  TypeOK'
      <3> DEFINE terminal == FenceSuccessTerminal(r, token, CancelOverride(r, s))
      <3>1. terminal \in SealType
        BY FencedTerminalType
      <3>2. CASE FinalizeApplied(r, token, terminal)
        <4>1. ApplyFinalization(r, terminal)
              /\ UNCHANGED <<cancelRequested, conflicts, cancelView>>
          BY <3>2 DEF FinalizeApplied
        <4> HIDE DEF terminal
        <4>2. QED
          BY <3>1, <4>1, ApplyFinalizationTypes DEF TypeOK
      <3>3. CASE FinalizeReplayed(r, token, terminal)
        BY <3>3 DEF FinalizeReplayed, vars, runVars, formVars, TypeOK
      <3>4. CASE FinalizeConflict(r, token, terminal)
        BY <3>4 DEF FinalizeConflict, RecordConflict, runVars, formVars, TypeOK
      <3>5. QED
        BY <2>1, <3>2, <3>3, <3>4 DEF FinalizeRun
    <2>2. ASSUME NEW r \in Runs, NEW token \in Tokens, ClaimRun(r, token) PROVE TypeOK'
      BY <2>2 DEF ClaimRun, TypeOK, formVars, Statuses, Live, Stages, SlotType
    <2>3. ASSUME NEW r \in Runs, NEW token \in Tokens, Heartbeat(r, token) PROVE TypeOK'
      BY <2>3 DEF Heartbeat, TypeOK, formVars
    <2>4. ASSUME NEW r \in Runs, NEW token \in Tokens, UpdateProgress(r, token) PROVE TypeOK'
      BY <2>4 DEF UpdateProgress, TypeOK, formVars, Stages
    <2>5. ASSUME NEW r \in Runs, RecordConflict(r) PROVE TypeOK'
      BY <2>5 DEF RecordConflict, TypeOK, runVars, formVars
    <2>6. ASSUME NEW r \in Runs, MarkDispatchPublished(r) PROVE TypeOK'
      BY <2>6 DEF MarkDispatchPublished, TypeOK, runVars
    <2>7. ASSUME NEW r \in Runs, ClaimDenied(r) PROVE TypeOK'
      <3>1. [status |-> "failed", stage |-> "authorization_invalid"] \in SealType
        BY DEF SealType, Terminal, Stages
      <3>2. QED
        BY <2>7, <3>1, ApplyFinalizationTypes DEF ClaimDenied, TypeOK
    <2>8. QED
      BY <1>3, <2>1, <2>2, <2>3, <2>4, <2>5, <2>6, <2>7
      DEF Execution, RejectOwnerWrite, ClaimMismatch
  <1>4. CASE Cancellation
    <2>1. ASSUME NEW r \in Runs, CancelRead(r) PROVE TypeOK'
      BY <2>1 DEF CancelRead, TypeOK, runVars, formVars
    <2>2. CASE CancelQueued
      <3>1. [status |-> "cancelled", stage |-> "cancelled_before_start"] \in SealType
        BY DEF SealType, Terminal, Stages
      <3>2. cancelView.run \in Runs
        BY <2>2 DEF CancelQueued, TypeOK
      <3>3. QED
        BY <2>2, <3>1, <3>2, ApplyFinalizationTypes DEF CancelQueued, TypeOK
    <2>3. CASE CancelRunning
      BY <2>3 DEF CancelRunning, TypeOK, formVars
    <2>4. CASE CancelTooLate
      BY <2>4 DEF CancelTooLate, TypeOK, runVars, formVars
    <2>5. QED
      BY <1>4, <2>1, <2>2, <2>3, <2>4 DEF Cancellation
  <1>5. CASE Recovery
    <2>1. ASSUME NEW r \in Runs, NEW t \in SampledTimes, RecoverExpired(r, t) PROVE TypeOK'
      BY <2>1, RecoveryTypes, ApplyFinalizationTypes DEF RecoverExpired, TypeOK
    <2>2. ASSUME NEW r \in Runs, NEW t \in SampledTimes, QuarantineExpired(r, t) PROVE TypeOK'
      <3> DEFINE terminal ==
            [status |-> RecoveredStatus(r),
             stage |-> IF cancelRequested[r]
                       THEN "lease_expired_cancelled_observation_quarantined"
                       ELSE "lease_expired_observation_quarantined"]
      <3>1. terminal \in SealType
        BY RecoveryTypes
      <3>2. ApplyFinalization(r, terminal)
        BY <2>2 DEF QuarantineExpired
      <3>3. conflicts' \in [Runs -> 0..MaxConflicts] /\ UNCHANGED <<cancelRequested, cancelView>>
        BY <2>2 DEF QuarantineExpired, TypeOK
      <3> HIDE DEF terminal
      <3>4. QED
        BY <3>1, <3>2, <3>3, ApplyFinalizationTypes DEF TypeOK
    <2>3. QED
      BY <1>5, <2>1, <2>2 DEF Recovery
  <1>6. CASE Administration
    <2>1. ASSUME NEW u \in Users, NEW row \in UserType, ChangeUser(u, row) PROVE TypeOK'
      BY <2>1 DEF ChangeUser, TypeOK, runVars, formVars
    <2>2. PICK u \in Users :
             \/ \E b \in BOOLEAN : SetActive(u, b)
             \/ \E role \in Roles : UpdateRole(u, role)
             \/ CreateGrant(u)
             \/ RevokeGrant(u)
      BY <1>6 DEF Administration
    <2>3. user[u] \in UserType
      BY DEF TypeOK
    <2>4. /\ \A b \in BOOLEAN : [user[u] EXCEPT !.active = b] \in UserType
          /\ \A role \in Roles : [user[u] EXCEPT !.role = role] \in UserType
          /\ \A b \in BOOLEAN : [user[u] EXCEPT !.granted = b] \in UserType
      BY <2>3 DEF UserType
    <2>5. QED
      BY <2>1, <2>2, <2>4 DEF SetActive, UpdateRole, CreateGrant, RevokeGrant
  <1>7. CASE Tick
    BY <1>7 DEF Tick, TypeOK, runVars, formVars
  <1>8. CASE UNCHANGED vars
    BY <1>8 DEF vars, runVars, formVars, TypeOK
  <1>9. QED
    BY <1>1, <1>2, <1>3, <1>4, <1>5, <1>6, <1>7, <1>8 DEF Next

-----------------------------------------------------------------------------
(* The inductive invariant.                                                *)

Unstarted == {"cancelled_before_start", "authorization_invalid"}

\* Ownership begins with execution, and so does a pending stop request.
OwnersExecute ==
    \A r \in Runs :
        /\ status[r] \in {"absent", "queued"} => owner[r] = Null /\ ~cancelRequested[r]
        /\ status[r] = "running" => owner[r] # Null

LifecycleInv ==
    /\ TypeOK
    /\ ContextsComplete
    /\ OwnersExecute
    /\ SealMatchesRun
    /\ SlotsFollowLiveRuns
    /\ StopDecidesOutcome
    /\ UnstartedSealsHadNoOwner

\* What a transaction can do to the run tables, seen from one run.
QuietStep == UNCHANGED <<runVars, request, slot>>

TouchStep(r) ==
    /\ status[r] = "running"
    /\ UNCHANGED <<status, owner, attempt, sealed, request, slot>>
    /\ \A x \in Runs \ {r} :
         stage'[x] = stage[x] /\ lease'[x] = lease[x] /\ cancelRequested'[x] = cancelRequested[x]
    /\ cancelRequested[r] => cancelRequested'[r]
    /\ lease'[r] = lease[r] \/ (lease[r] > now /\ lease'[r] = now + LeaseLength)

SealStep(r, terminal) ==
    /\ ApplyFinalization(r, terminal)
    /\ \A x \in Runs \ {r} : cancelRequested'[x] = cancelRequested[x]
    /\ cancelRequested' \in [Runs -> BOOLEAN]
    /\ cancelRequested'[r] => terminal.status = "cancelled"
    /\ \/ status[r] = "queued" /\ terminal.stage \in Unstarted /\ terminal.status # "succeeded"
       \/ /\ status[r] = "running"
          /\ UNCHANGED cancelRequested
          /\ terminal.stage \notin Unstarted
          /\ terminal.stage \in RecoveryStages <=> lease[r] <= now

\* Every transaction does one of five things to the run tables.
LEMMA StepEffects ==
    ASSUME LifecycleInv, [Next]_vars
    PROVE  \/ QuietStep
           \/ \E r \in Runs, q \in Requests, a \in Auths \cup {Null}, t \in SampledTimes :
                CreateRun(r, q, a, t)
           \/ \E r \in Runs, token \in Tokens : ClaimRun(r, token)
           \/ \E r \in Runs : TouchStep(r)
           \/ \E r \in Runs, terminal \in SealType : SealStep(r, terminal)
  <1> USE DEF LifecycleInv
  <1>1. CASE Submission
    BY <1>1 DEF Submission
  <1>2. CASE Approval
    BY <1>2 DEF Approval, CreateScanAuthorization, RevokeScanAuthorization, QuietStep,
                formVars
  <1>3. CASE Execution
    <2>1. ASSUME NEW r \in Runs, NEW token \in Tokens, NEW s \in Terminal,
                 FinalizeRun(r, token, s)
          PROVE  QuietStep \/ \E terminal \in SealType : SealStep(r, terminal)
      <3> DEFINE terminal == FenceSuccessTerminal(r, token, CancelOverride(r, s))
      <3>1. terminal \in SealType
        BY FencedTerminalType
      <3>2. terminal.stage \notin Unstarted \cup RecoveryStages
        BY DEF FenceSuccessTerminal, EngineTerminal, CancelOverride, Terminal, Unstarted,
               RecoveryStages
      <3>3. CASE FinalizeApplied(r, token, terminal)
        <4> HIDE DEF terminal
        <4>1. /\ ApplyFinalization(r, terminal)
              /\ UNCHANGED cancelRequested
              /\ cancelRequested[r] => terminal.status = "cancelled"
              /\ status[r] = "running"
              /\ lease[r] > now
          BY <3>3 DEF FinalizeApplied, MayFinalize, OwnsLiveLease
        <4>2. ~(lease[r] <= now)
          BY <4>1 DEF TypeOK
        <4>3. SealStep(r, terminal)
          BY <3>2, <4>1, <4>2 DEF SealStep, TypeOK
        <4>4. QED
          BY <3>1, <4>3
      <3>4. CASE FinalizeReplayed(r, token, terminal)
        BY <3>4 DEF FinalizeReplayed, vars, formVars, QuietStep
      <3>5. CASE FinalizeConflict(r, token, terminal)
        BY <3>5 DEF FinalizeConflict, RecordConflict, formVars, QuietStep
      <3>6. QED
        BY <2>1, <3>3, <3>4, <3>5 DEF FinalizeRun
    <2>2. ASSUME NEW r \in Runs, NEW token \in Tokens, Heartbeat(r, token) PROVE TouchStep(r)
      BY <2>2 DEF Heartbeat, OwnsLiveLease, TouchStep, formVars, TypeOK
    <2>3. ASSUME NEW r \in Runs, NEW token \in Tokens, UpdateProgress(r, token)
          PROVE  TouchStep(r)
      BY <2>3 DEF UpdateProgress, OwnsLiveLease, TouchStep, formVars, TypeOK
    <2>4. ASSUME NEW r \in Runs, RecordConflict(r) PROVE QuietStep
      BY <2>4 DEF RecordConflict, QuietStep, formVars
    <2>5. ASSUME NEW r \in Runs, MarkDispatchPublished(r) PROVE QuietStep
      BY <2>5 DEF MarkDispatchPublished, QuietStep
    <2>6. ASSUME NEW r \in Runs, ClaimDenied(r)
          PROVE  \E terminal \in SealType : SealStep(r, terminal)
      <3> DEFINE terminal == [status |-> "failed", stage |-> "authorization_invalid"]
      <3>1. terminal \in SealType /\ terminal.stage \in Unstarted /\ terminal.status = "failed"
        BY DEF SealType, Terminal, Stages, Unstarted
      <3>2. /\ ApplyFinalization(r, terminal)
            /\ UNCHANGED cancelRequested
            /\ status[r] = "queued"
        BY <2>6 DEF ClaimDenied, Claimable
      <3>3. ~cancelRequested[r]
        BY <3>2 DEF OwnersExecute
      <3> HIDE DEF terminal
      <3>4. SealStep(r, terminal)
        BY <3>1, <3>2, <3>3 DEF SealStep, TypeOK
      <3>5. QED
        BY <3>1, <3>4
    <2>7. QED
      BY <1>3, <2>1, <2>2, <2>3, <2>4, <2>5, <2>6
      DEF Execution, RejectOwnerWrite, ClaimMismatch
  <1>4. CASE Cancellation
    <2>1. ASSUME NEW r \in Runs, CancelRead(r) PROVE QuietStep
      BY <2>1 DEF CancelRead, QuietStep, formVars
    <2>2. CASE CancelQueued
      <3> DEFINE terminal == [status |-> "cancelled", stage |-> "cancelled_before_start"]
      <3> DEFINE r == cancelView.run
      <3>1. terminal \in SealType /\ terminal.stage \in Unstarted /\ terminal.status = "cancelled"
        BY DEF SealType, Terminal, Stages, Unstarted
      <3>2. /\ r \in Runs
            /\ ApplyFinalization(r, terminal)
            /\ cancelRequested' = [cancelRequested EXCEPT ![r] = TRUE]
            /\ status[r] = "queued"
        BY <2>2 DEF CancelQueued, Claimable, TypeOK
      <3> HIDE DEF terminal, r
      <3>3. SealStep(r, terminal)
        BY <3>1, <3>2 DEF SealStep, TypeOK
      <3>4. QED
        BY <3>1, <3>2, <3>3
    <2>3. CASE CancelRunning
      <3> DEFINE r == cancelView.run
      <3>1. r \in Runs
        BY <2>3 DEF CancelRunning, TypeOK
      <3>2. TouchStep(r)
        BY <2>3, <3>1 DEF CancelRunning, TouchStep, formVars, TypeOK
      <3>3. QED
        BY <3>1, <3>2
    <2>4. CASE CancelTooLate
      BY <2>4 DEF CancelTooLate, QuietStep, formVars
    <2>5. QED
      BY <1>4, <2>1, <2>2, <2>3, <2>4 DEF Cancellation
  <1>5. CASE Recovery
    <2>1. PICK r \in Runs, t \in SampledTimes : RecoverExpired(r, t) \/ QuarantineExpired(r, t)
      BY <1>5 DEF Recovery
    <2>2. PICK terminal \in SealType :
             /\ ApplyFinalization(r, terminal)
             /\ terminal.stage \in RecoveryStages
             /\ terminal.status = RecoveredStatus(r)
      BY <2>1, RecoveryTypes DEF RecoverExpired, QuarantineExpired, RecoveryStages
    <2>3. UNCHANGED cancelRequested /\ ExpiredAt(r, t)
      BY <2>1 DEF RecoverExpired, QuarantineExpired
    <2>4. status[r] = "running" /\ lease[r] <= now
      BY <2>3 DEF ExpiredAt, SampledTimes, TypeOK
    <2>5. cancelRequested[r] => terminal.status = "cancelled"
      BY <2>2 DEF RecoveredStatus
    <2>6. terminal.stage \notin Unstarted
      BY <2>2 DEF RecoveryStages, Unstarted
    <2>7. SealStep(r, terminal)
      BY <2>2, <2>3, <2>4, <2>5, <2>6 DEF SealStep, TypeOK
    <2>8. QED
      BY <2>7
  <1>6. CASE Administration
    BY <1>6 DEF Administration, SetActive, UpdateRole, CreateGrant, RevokeGrant, ChangeUser,
                QuietStep, formVars
  <1>7. CASE Tick
    BY <1>7 DEF Tick, QuietStep, formVars
  <1>8. CASE UNCHANGED vars
    BY <1>8 DEF vars, formVars, QuietStep
  <1>9. QED
    BY <1>1, <1>2, <1>3, <1>4, <1>5, <1>6, <1>7, <1>8 DEF Next

LEMMA InitLifecycleInv == Init => LifecycleInv
  BY InitTypeOK
  DEF Init, LifecycleInv, ContextsComplete, Exists, OwnersExecute, SealMatchesRun,
      SlotsFollowLiveRuns, StopDecidesOutcome, UnstartedSealsHadNoOwner, Terminal, Live

\* What a live run reserves are protocol keys.
LEMMA RequestedKeys ==
    ASSUME TypeOK, ContextsComplete
    PROVE  \A x \in Runs : status[x] \in Live => ResourceKeys(request[x]) \subseteq ProtocolKeys
  <1> SUFFICES ASSUME NEW x \in Runs, status[x] \in Live
               PROVE  ResourceKeys(request[x]) \subseteq ProtocolKeys
    OBVIOUS
  <1>1. request[x] \in RequestType
    BY ConstantsAssumption DEF ContextsComplete, Exists, TypeOK, Live, ConstantsAssumption
  <1>2. QED
    BY <1>1 DEF ResourceKeys, RequestType

\* Sealing one run keeps the whole invariant.
LEMMA SealKeepsInv ==
    ASSUME LifecycleInv, TypeOK', NEW r \in Runs, NEW terminal \in SealType,
           SealStep(r, terminal)
    PROVE  LifecycleInv'
  <1> USE NullAssumption DEF NullAssumption, LifecycleInv
  <1>1. /\ status[r] \in Live
        /\ terminal.status \in Terminal
        /\ terminal # Null
        /\ sealed[r] = Null
        /\ (owner[r] = Null) <=> terminal.stage \in Unstarted
    BY DEF SealStep, SealType, SealMatchesRun, OwnersExecute, Live, Terminal
  <1>2. /\ status' = [status EXCEPT ![r] = terminal.status]
        /\ stage' = [stage EXCEPT ![r] = terminal.stage]
        /\ sealed' = [sealed EXCEPT ![r] = terminal]
        /\ lease' = [lease EXCEPT ![r] = 0]
        /\ slot' = [k \in ProtocolKeys |->
                      IF slot[k] # Null /\ slot[k].run = r THEN Null ELSE slot[k]]
        /\ UNCHANGED <<owner, request>>
    BY DEF SealStep, ApplyFinalization, formVars
  <1>3. ContextsComplete'
    BY <1>1, <1>2 DEF ContextsComplete, Exists, TypeOK, Live, Terminal
  <1>4. OwnersExecute'
    BY <1>1, <1>2 DEF OwnersExecute, SealStep, TypeOK, Terminal
  <1>5. SealMatchesRun'
    BY <1>1, <1>2 DEF SealMatchesRun, TypeOK, Terminal
  <1>6. SlotsFollowLiveRuns'
    <2>1. ASSUME NEW k \in ProtocolKeys, slot'[k] # Null
          PROVE  /\ status'[slot'[k].run] \in Live
                 /\ k \in ResourceKeys(request'[slot'[k].run])
                 /\ slot'[k].owner = owner'[slot'[k].run]
      <3>1. slot'[k] = slot[k] /\ slot[k] # Null /\ slot[k].run # r
        BY <1>2, <2>1
      <3>2. slot[k].run \in Runs
        BY <3>1 DEF TypeOK, SlotType
      <3>3. status'[slot[k].run] = status[slot[k].run]
        BY <1>2, <3>1, <3>2 DEF TypeOK
      <3>4. QED
        BY <1>2, <3>1, <3>3 DEF SlotsFollowLiveRuns
    <2>2. ASSUME NEW x \in Runs, status'[x] \in Live, NEW k \in ResourceKeys(request'[x])
          PROVE  slot'[k] # Null /\ slot'[k].run = x
      <3>1. x # r /\ status[x] \in Live
        BY <1>1, <1>2, <2>2 DEF TypeOK, Live, Terminal
      <3>2. slot[k] # Null /\ slot[k].run = x
        BY <1>2, <2>2, <3>1 DEF SlotsFollowLiveRuns
      <3>3. k \in ProtocolKeys
        BY <1>2, <2>2, <3>1, RequestedKeys
      <3>4. QED
        BY <1>2, <3>1, <3>2, <3>3
    <2>3. QED
      BY <2>1, <2>2 DEF SlotsFollowLiveRuns
  <1>7. StopDecidesOutcome'
    BY <1>1, <1>2 DEF StopDecidesOutcome, SealStep, TypeOK
  <1>8. UnstartedSealsHadNoOwner'
    BY <1>1, <1>2 DEF UnstartedSealsHadNoOwner, TypeOK, Unstarted
  <1>9. QED
    BY <1>3, <1>4, <1>5, <1>6, <1>7, <1>8

\* A creation touches only the fresh run and the free slots it reserves.
LEMMA CreateKeepsInv ==
    ASSUME LifecycleInv, TypeOK', NEW r \in Runs, NEW q \in Requests,
           NEW a, NEW t, CreateRun(r, q, a, t)
    PROVE  LifecycleInv'
  <1> USE NullAssumption DEF NullAssumption, LifecycleInv
  <1>1. /\ status[r] = "absent"
        /\ \A k \in ResourceKeys(q) : slot[k] = Null
        /\ status' = [status EXCEPT ![r] = "queued"]
        /\ request' = [request EXCEPT ![r] = q]
        /\ stage' = [stage EXCEPT ![r] = "awaiting_dispatch"]
        /\ slot' = [k \in ProtocolKeys |->
                      IF k \in ResourceKeys(q) THEN [run |-> r, owner |-> Null] ELSE slot[k]]
        /\ UNCHANGED <<owner, lease, cancelRequested, sealed>>
    BY DEF CreateRun, Exists
  <1>2. q # Null /\ ResourceKeys(q) \subseteq ProtocolKeys
    BY ConstantsAssumption DEF ConstantsAssumption, ResourceKeys, RequestType
  <1>3. owner[r] = Null /\ sealed[r] = Null /\ lease[r] = 0 /\ ~cancelRequested[r]
    BY <1>1 DEF OwnersExecute, SealMatchesRun, Terminal
  <1>4. ContextsComplete'
    BY <1>1, <1>2 DEF ContextsComplete, Exists, TypeOK
  <1>5. OwnersExecute'
    BY <1>1, <1>3 DEF OwnersExecute, TypeOK
  <1>6. SealMatchesRun'
    BY <1>1, <1>3 DEF SealMatchesRun, TypeOK, Terminal
  <1>7. SlotsFollowLiveRuns'
    <2>1. \A k \in ProtocolKeys : slot[k] # Null => slot[k].run \in Runs /\ slot[k].run # r
      BY <1>1 DEF SlotsFollowLiveRuns, TypeOK, SlotType, Live
    <2>2. \A k \in ProtocolKeys : slot'[k] # Null =>
            /\ status'[slot'[k].run] \in Live
            /\ k \in ResourceKeys(request'[slot'[k].run])
            /\ slot'[k].owner = owner'[slot'[k].run]
      <3> SUFFICES ASSUME NEW k \in ProtocolKeys, slot'[k] # Null
                   PROVE  /\ status'[slot'[k].run] \in Live
                          /\ k \in ResourceKeys(request'[slot'[k].run])
                          /\ slot'[k].owner = owner'[slot'[k].run]
        OBVIOUS
      <3>1. CASE k \in ResourceKeys(q)
        BY <1>1, <1>3, <3>1 DEF TypeOK, Live
      <3>2. CASE k \notin ResourceKeys(q)
        BY <1>1, <2>1, <3>2 DEF SlotsFollowLiveRuns, TypeOK
      <3>3. QED
        BY <3>1, <3>2
    <2>3. \A x \in Runs : status'[x] \in Live =>
            \A k \in ResourceKeys(request'[x]) : slot'[k] # Null /\ slot'[k].run = x
      <3> SUFFICES ASSUME NEW x \in Runs, status'[x] \in Live,
                          NEW k \in ResourceKeys(request'[x])
                   PROVE  slot'[k] # Null /\ slot'[k].run = x
        OBVIOUS
      <3>1. CASE x = r
        <4>1. k \in ResourceKeys(q)
          BY <1>1, <3>1 DEF TypeOK
        <4>2. slot'[k] = [run |-> r, owner |-> Null] /\ slot'[k] \in SlotType
          BY <1>1, <1>2, <4>1 DEF SlotType
        <4>3. QED
          BY <3>1, <4>2
      <3>2. CASE x # r
        <4>1. status[x] \in Live /\ k \in ResourceKeys(request[x])
          BY <1>1, <3>2 DEF TypeOK
        <4>2. slot[k] # Null /\ slot[k].run = x
          BY <4>1 DEF SlotsFollowLiveRuns
        <4>3. k \in ProtocolKeys
          BY <4>1, RequestedKeys
        <4>4. k \notin ResourceKeys(q)
          BY <1>1, <4>2
        <4>5. QED
          BY <1>1, <4>2, <4>3, <4>4
      <3>3. QED
        BY <3>1, <3>2
    <2>4. QED
      BY <2>2, <2>3 DEF SlotsFollowLiveRuns
  <1>8. StopDecidesOutcome' /\ UnstartedSealsHadNoOwner'
    BY <1>1, <1>3 DEF StopDecidesOutcome, UnstartedSealsHadNoOwner, TypeOK
  <1>9. QED
    BY <1>4, <1>5, <1>6, <1>7, <1>8

\* A claim hands the run and exactly its slots to the new owner.
LEMMA ClaimKeepsInv ==
    ASSUME LifecycleInv, TypeOK', NEW r \in Runs, NEW token \in Tokens, ClaimRun(r, token)
    PROVE  LifecycleInv'
  <1> USE NullAssumption DEF NullAssumption, LifecycleInv
  <1>1. /\ status[r] = "queued" /\ owner[r] = Null
        /\ status' = [status EXCEPT ![r] = "running"]
        /\ stage' = [stage EXCEPT ![r] = "worker_claimed"]
        /\ owner' = [owner EXCEPT ![r] = token]
        /\ lease' = [lease EXCEPT ![r] = now + LeaseLength]
        /\ slot' = [k \in ProtocolKeys |->
                      IF slot[k] # Null /\ slot[k].run = r
                      THEN [run |-> r, owner |-> token] ELSE slot[k]]
        /\ UNCHANGED <<cancelRequested, sealed, request>>
    BY DEF ClaimRun, Claimable, formVars
  <1>2. token # Null /\ now + LeaseLength # 0
    BY ConstantsAssumption DEF ConstantsAssumption, TypeOK
  <1>3. sealed[r] = Null /\ ~cancelRequested[r]
    BY <1>1 DEF SealMatchesRun, OwnersExecute, Terminal
  <1>4. ContextsComplete' /\ OwnersExecute'
    BY <1>1, <1>2 DEF ContextsComplete, Exists, OwnersExecute, TypeOK
  <1>5. SealMatchesRun'
    BY <1>1, <1>2, <1>3 DEF SealMatchesRun, TypeOK, Terminal
  <1>6. SlotsFollowLiveRuns'
    <2>1. [run |-> r, owner |-> token] \in SlotType
      BY DEF SlotType
    <2>2. \A k \in ProtocolKeys :
            /\ slot'[k] # Null <=> slot[k] # Null
            /\ slot[k] # Null => slot'[k].run = slot[k].run
            /\ slot[k] # Null => slot'[k].owner = IF slot[k].run = r THEN token ELSE slot[k].owner
      BY <1>1, <2>1
    <2>3. \A x \in Runs : (status'[x] \in Live) <=> (status[x] \in Live)
      BY <1>1 DEF TypeOK, Live
    <2>4. \A x \in Runs : owner'[x] = IF x = r THEN token ELSE owner[x]
      BY <1>1 DEF TypeOK
    <2>5. \A k \in ProtocolKeys : slot[k] # Null => slot[k].run \in Runs
      BY DEF TypeOK, SlotType
    <2>6. \A x \in Runs : status[x] \in Live => ResourceKeys(request[x]) \subseteq ProtocolKeys
      BY RequestedKeys
    <2>7. QED
      BY <1>1, <2>2, <2>3, <2>4, <2>5, <2>6 DEF SlotsFollowLiveRuns
  <1>7. StopDecidesOutcome' /\ UnstartedSealsHadNoOwner'
    BY <1>1, <1>3 DEF StopDecidesOutcome, UnstartedSealsHadNoOwner, TypeOK
  <1>8. QED
    BY <1>4, <1>5, <1>6, <1>7

\* Renewing, reporting progress or asking to stop touches only a running run.
LEMMA TouchKeepsInv ==
    ASSUME LifecycleInv, TypeOK', NEW r \in Runs, TouchStep(r)
    PROVE  LifecycleInv'
  <1> USE DEF LifecycleInv
  <1>1. sealed[r] = Null /\ lease'[r] # 0
    BY ConstantsAssumption DEF TouchStep, SealMatchesRun, ConstantsAssumption, TypeOK, Terminal
  <1>2. ContextsComplete' /\ OwnersExecute'
    BY DEF ContextsComplete, Exists, OwnersExecute, TouchStep
  <1>3. SealMatchesRun'
    BY <1>1 DEF SealMatchesRun, TouchStep
  <1>4. SlotsFollowLiveRuns'
    BY DEF SlotsFollowLiveRuns, TouchStep
  <1>5. StopDecidesOutcome' /\ UnstartedSealsHadNoOwner'
    BY <1>1 DEF StopDecidesOutcome, UnstartedSealsHadNoOwner, TouchStep
  <1>6. QED
    BY <1>2, <1>3, <1>4, <1>5

LEMMA NextLifecycleInv == LifecycleInv /\ [Next]_vars => LifecycleInv'
  <1> SUFFICES ASSUME LifecycleInv, [Next]_vars PROVE LifecycleInv'
    OBVIOUS
  <1>1. TypeOK'
    BY NextTypeOK DEF LifecycleInv
  <1>2. CASE QuietStep
    BY <1>1, <1>2
    DEF QuietStep, runVars, LifecycleInv, ContextsComplete, Exists, OwnersExecute,
        SealMatchesRun, SlotsFollowLiveRuns, StopDecidesOutcome, UnstartedSealsHadNoOwner
  <1>3. QED
    BY <1>1, <1>2, StepEffects, CreateKeepsInv, ClaimKeepsInv, TouchKeepsInv, SealKeepsInv

LEMMA LifecycleInvariant == Spec => []LifecycleInv
  BY InitLifecycleInv, NextLifecycleInv, PTL DEF Spec

-----------------------------------------------------------------------------
(* What the repository guarantees.                                         *)

\* Every table keeps its type, whatever the transactions and their order.
THEOREM TypeCorrect == Spec => []TypeOK
  BY LifecycleInvariant, PTL DEF LifecycleInv

\* A run row, its result and its seal never tell different stories.
THEOREM SealsMatch == Spec => []SealMatchesRun
  BY LifecycleInvariant, PTL DEF LifecycleInv

\* Two open runs never share a protocol resource, and a closed run keeps none.
THEOREM SlotsExclusive == Spec => []SlotsFollowLiveRuns
  BY LifecycleInvariant, PTL DEF LifecycleInv

\* An accepted stop request decides the verdict of the run.
THEOREM StopsDecide == Spec => []StopDecidesOutcome
  BY LifecycleInvariant, PTL DEF LifecycleInv

\* A run sealed as unstarted was never executed.
THEOREM UnstartedNeverOwned == Spec => []UnstartedSealsHadNoOwner
  BY LifecycleInvariant, PTL DEF LifecycleInv

\* No transaction changes a sealed run.
LEMMA SealedStep ==
    ASSUME LifecycleInv, [Next]_vars, NEW r \in Runs, sealed[r] # Null
    PROVE  /\ sealed'[r] = sealed[r]
           /\ status'[r] = status[r]
           /\ stage'[r] = stage[r]
           /\ owner'[r] = owner[r]
           /\ cancelRequested'[r] = cancelRequested[r]
           /\ request'[r] = request[r]
  <1> USE DEF LifecycleInv
  <1>1. status[r] \in Terminal
    BY DEF SealMatchesRun
  <1>2. CASE QuietStep
    BY <1>2 DEF QuietStep, runVars
  <1>3. ASSUME NEW x \in Runs, NEW q \in Requests, NEW a \in Auths \cup {Null},
               NEW t \in SampledTimes, CreateRun(x, q, a, t)
        PROVE  x # r /\ UNCHANGED <<sealed, owner, cancelRequested>>
               /\ status' = [status EXCEPT ![x] = "queued"]
               /\ stage' = [stage EXCEPT ![x] = "awaiting_dispatch"]
               /\ request' = [request EXCEPT ![x] = q]
    BY <1>1, <1>3 DEF CreateRun, Exists, Terminal
  <1>4. ASSUME NEW x \in Runs, NEW token \in Tokens, ClaimRun(x, token)
        PROVE  x # r /\ UNCHANGED <<sealed, request, cancelRequested>>
               /\ status' = [status EXCEPT ![x] = "running"]
               /\ stage' = [stage EXCEPT ![x] = "worker_claimed"]
               /\ owner' = [owner EXCEPT ![x] = token]
    BY <1>1, <1>4 DEF ClaimRun, Claimable, Terminal, formVars
  <1>5. ASSUME NEW x \in Runs, TouchStep(x) PROVE x # r
    BY <1>1, <1>5 DEF TouchStep, Terminal
  <1>6. ASSUME NEW x \in Runs, NEW terminal \in SealType, SealStep(x, terminal)
        PROVE  x # r /\ UNCHANGED <<owner, request>>
               /\ status' = [status EXCEPT ![x] = terminal.status]
               /\ stage' = [stage EXCEPT ![x] = terminal.stage]
               /\ sealed' = [sealed EXCEPT ![x] = terminal]
               /\ cancelRequested'[r] = cancelRequested[r]
    <2>1. x # r
      BY <1>1, <1>6 DEF SealStep, Terminal
    <2>2. QED
      BY <1>6, <2>1 DEF SealStep, ApplyFinalization, formVars
  <1>7. QED
    BY <1>2, <1>3, <1>4, <1>5, <1>6, StepEffects DEF TouchStep, TypeOK

\* What is sealed stays as it was sealed.
THEOREM SealsAreFinal == Spec => SealedForever
  <1>1. LifecycleInv /\ [Next]_vars =>
          [\A r \in Runs : sealed[r] # Null =>
             /\ sealed'[r] = sealed[r]
             /\ status'[r] = status[r]
             /\ stage'[r] = stage[r]
             /\ owner'[r] = owner[r]
             /\ cancelRequested'[r] = cancelRequested[r]
             /\ request'[r] = request[r]]_vars
    BY SealedStep
  <1>2. QED
    BY <1>1, LifecycleInvariant, PTL DEF Spec, SealedForever

\* The owner seals before the deadline and recovery from it on, never both.
THEOREM LeaseSeparates == Spec => LeaseSeparatesOwnerFromRecovery
  <1>1. ASSUME LifecycleInv, [Next]_vars, NEW r \in Runs,
               status[r] = "running", sealed'[r] # Null
        PROVE  sealed'[r].stage \in RecoveryStages <=> lease[r] <= now
    <2> USE DEF LifecycleInv
    <2>1. sealed[r] = Null
      BY <1>1 DEF SealMatchesRun, Terminal
    <2>2. ~QuietStep
      BY <1>1, <2>1 DEF QuietStep, runVars
    <2>3. ASSUME NEW x \in Runs, NEW q \in Requests, NEW a \in Auths \cup {Null},
                 NEW t \in SampledTimes, CreateRun(x, q, a, t)
          PROVE  FALSE
      BY <1>1, <2>1, <2>3 DEF CreateRun
    <2>4. ASSUME NEW x \in Runs, NEW token \in Tokens, ClaimRun(x, token) PROVE FALSE
      BY <1>1, <2>1, <2>4 DEF ClaimRun
    <2>5. ASSUME NEW x \in Runs, TouchStep(x) PROVE FALSE
      BY <1>1, <2>1, <2>5 DEF TouchStep
    <2>6. PICK x \in Runs, terminal \in SealType : SealStep(x, terminal)
      BY <1>1, <2>2, <2>3, <2>4, <2>5, StepEffects
    <2>7. x = r /\ sealed'[r] = terminal
      BY <1>1, <2>1, <2>6 DEF SealStep, ApplyFinalization, TypeOK
    <2>8. QED
      BY <1>1, <2>6, <2>7 DEF SealStep
  <1>2. LifecycleInv /\ [Next]_vars =>
          [\A r \in Runs : status[r] = "running" /\ sealed'[r] # Null =>
             (sealed'[r].stage \in RecoveryStages <=> lease[r] <= now)]_vars
    BY <1>1
  <1>3. QED
    BY <1>2, LifecycleInvariant, PTL DEF Spec, LeaseSeparatesOwnerFromRecovery

-----------------------------------------------------------------------------
(* One execution under one lease.                                          *)

LEMMA OwnedStep ==
    ASSUME LifecycleInv, [Next]_vars, NEW r \in Runs, owner[r] # Null
    PROVE  owner'[r] = owner[r] /\ attempt'[r] = attempt[r]
  <1> USE DEF LifecycleInv, TypeOK
  <1>1. CASE QuietStep
    BY <1>1 DEF QuietStep, runVars
  <1>2. ASSUME NEW x \in Runs, NEW q, NEW a, NEW t, CreateRun(x, q, a, t)
        PROVE  UNCHANGED <<owner, attempt>>
    BY <1>2 DEF CreateRun
  <1>3. ASSUME NEW x \in Runs, NEW token \in Tokens, ClaimRun(x, token)
        PROVE  owner'[r] = owner[r] /\ attempt'[r] = attempt[r]
    BY <1>3 DEF ClaimRun, Claimable
  <1>4. ASSUME NEW x \in Runs, TouchStep(x) PROVE UNCHANGED <<owner, attempt>>
    BY <1>4 DEF TouchStep
  <1>5. ASSUME NEW x \in Runs, NEW terminal \in SealType, SealStep(x, terminal)
        PROVE  UNCHANGED <<owner, attempt>>
    BY <1>5 DEF SealStep, ApplyFinalization
  <1>6. QED
    BY <1>1, <1>2, <1>3, <1>4, <1>5, StepEffects

\* However many workers and messages compete for a run, it has one owner and
\* one attempt, also after its lease lapsed (claim_run).
THEOREM ExecutionIsUnique == Spec => ExecutedOnce
  <1>1. LifecycleInv /\ [Next]_vars =>
          [\A r \in Runs : owner[r] # Null =>
             owner'[r] = owner[r] /\ attempt'[r] = attempt[r]]_vars
    BY OwnedStep
  <1>2. QED
    BY <1>1, LifecycleInvariant, PTL DEF Spec, ExecutedOnce

LEMMA LapsedStep ==
    ASSUME LifecycleInv, [Next]_vars, NEW r \in Runs, status[r] = "running", lease[r] <= now
    PROVE  lease'[r] \in {lease[r], 0}
  <1> USE DEF LifecycleInv, TypeOK
  <1>1. CASE QuietStep
    BY <1>1 DEF QuietStep, runVars
  <1>2. ASSUME NEW x \in Runs, NEW q, NEW a, NEW t, CreateRun(x, q, a, t)
        PROVE  UNCHANGED lease
    BY <1>2 DEF CreateRun
  <1>3. ASSUME NEW x \in Runs, NEW token \in Tokens, ClaimRun(x, token)
        PROVE  lease'[r] = lease[r]
    BY <1>3 DEF ClaimRun, Claimable
  <1>4. ASSUME NEW x \in Runs, TouchStep(x) PROVE lease'[r] = lease[r]
    BY <1>4 DEF TouchStep
  <1>5. ASSUME NEW x \in Runs, NEW terminal \in SealType, SealStep(x, terminal)
        PROVE  lease'[r] \in {lease[r], 0}
    BY <1>5 DEF SealStep, ApplyFinalization
  <1>6. QED
    BY <1>1, <1>2, <1>3, <1>4, <1>5, StepEffects

\* No write of an owner revives a lease after its deadline, however late it got
\* the lock (heartbeat).
THEOREM LapsesAreFinal == Spec => LapsedLeaseStaysLapsed
  <1>1. LifecycleInv /\ [Next]_vars =>
          [\A r \in Runs : status[r] = "running" /\ lease[r] <= now =>
             lease'[r] \in {lease[r], 0}]_vars
    BY LapsedStep
  <1>2. QED
    BY <1>1, LifecycleInvariant, PTL DEF Spec, LapsedLeaseStaysLapsed

-----------------------------------------------------------------------------
(* Retry keys.                                                             *)

\* Only the transaction that creates a run writes contexts, keys and links.
LEMMA OnlyCreationRecords ==
    ASSUME [Next]_vars, ~Submission
    PROVE  UNCHANGED <<request, idem, links>>
  <1>1. CASE Approval
    BY <1>1 DEF Approval, CreateScanAuthorization, RevokeScanAuthorization, formVars
  <1>2. CASE Execution
    <2>1. ASSUME NEW r \in Runs, NEW token \in Tokens, NEW s \in Terminal, FinalizeRun(r, token, s)
          PROVE  UNCHANGED <<request, idem, links>>
      BY <2>1 DEF FinalizeRun, FinalizeApplied, FinalizeReplayed, FinalizeConflict,
                  RecordConflict, ApplyFinalization, vars, formVars
    <2>2. ASSUME NEW r \in Runs,
                 \/ \E token \in Tokens :
                      ClaimRun(r, token) \/ Heartbeat(r, token) \/ UpdateProgress(r, token)
                      \/ RejectOwnerWrite(r, token)
                 \/ MarkDispatchPublished(r) \/ ClaimDenied(r) \/ ClaimMismatch(r)
          PROVE  UNCHANGED <<request, idem, links>>
      BY <2>2 DEF ClaimRun, Heartbeat, UpdateProgress, RejectOwnerWrite, MarkDispatchPublished,
                  ClaimDenied, ClaimMismatch, RecordConflict, ApplyFinalization, formVars
    <2>3. QED
      BY <1>2, <2>1, <2>2 DEF Execution
  <1>3. CASE Cancellation
    BY <1>3 DEF Cancellation, CancelRead, CancelQueued, CancelRunning, CancelTooLate,
                ApplyFinalization, formVars
  <1>4. CASE Recovery
    BY <1>4 DEF Recovery, RecoverExpired, QuarantineExpired, ApplyFinalization, formVars
  <1>5. CASE Administration \/ Tick \/ UNCHANGED vars
    BY <1>5 DEF Administration, SetActive, UpdateRole, CreateGrant, RevokeGrant, ChangeUser,
                Tick, vars, formVars
  <1>6. QED
    BY <1>1, <1>2, <1>3, <1>4, <1>5 DEF Next

\* The key of a run leads back to the run.
KeysLead == \A r \in Runs : Exists(r) /\ request[r].key # Null => idem[request[r].key] = r

LEMMA InitKeysLead == Init => KeysLead
  BY DEF Init, KeysLead, Exists

LEMMA NextKeysLead ==
    ASSUME LifecycleInv, LifecycleInv', KeysLead, [Next]_vars
    PROVE  KeysLead'
  <1> USE DEF LifecycleInv
  <1>1. CASE ~Submission
    <2>1. UNCHANGED <<request, idem>>
      BY <1>1, OnlyCreationRecords
    <2>2. \A r \in Runs : Exists(r)' <=> Exists(r)
      BY <2>1 DEF ContextsComplete
    <2>3. QED
      BY <2>1, <2>2 DEF KeysLead
  <1>2. CASE Submission
    <2> PICK r \in Runs, q \in Requests, a \in Auths \cup {Null}, t \in SampledTimes :
          CreateRun(r, q, a, t)
      BY <1>2 DEF Submission
    <2>1. q \in RequestType
      BY ConstantsAssumption DEF ConstantsAssumption
    <2>2. /\ status[r] = "absent"
          /\ status' = [status EXCEPT ![r] = "queued"]
          /\ request' = [request EXCEPT ![r] = q]
          /\ idem' = [k \in IdempotencyKeys |-> IF k = q.key THEN r ELSE idem[k]]
          /\ q.key # Null => idem[q.key] = Null
      BY DEF CreateRun, Exists, Replay
    <2>3. ASSUME NEW x \in Runs, Exists(x)', request'[x].key # Null
          PROVE  idem'[request'[x].key] = x
      <3>1. CASE x = r
        <4>1. request'[x] = q /\ q.key \in IdempotencyKeys
          BY <2>1, <2>2, <2>3, <3>1 DEF TypeOK, RequestType
        <4>2. QED
          BY <2>2, <3>1, <4>1
      <3>2. CASE x # r
        <4>1. Exists(x) /\ request'[x] = request[x]
          BY <2>2, <2>3, <3>2 DEF Exists, TypeOK
        <4>2. request[x].key \in IdempotencyKeys /\ idem[request[x].key] = x
          BY <2>3, <4>1, ConstantsAssumption
          DEF ConstantsAssumption, KeysLead, ContextsComplete, TypeOK, RequestType
        <4>3. request[x].key # q.key
          BY <2>2, <2>3, <4>1, <4>2, NullAssumption DEF NullAssumption
        <4>4. QED
          BY <2>2, <4>1, <4>2, <4>3
      <3>3. QED
        BY <3>1, <3>2
    <2>4. QED
      BY <2>3 DEF KeysLead
  <1>3. QED
    BY <1>1, <1>2

\* A retry key names one run for ever, whatever is submitted under it and
\* whatever became of the run (create_run_with_context).
THEOREM KeysAreUnique == Spec => []KeyNamesOneRun
  <1>1. KeysLead => KeyNamesOneRun
    BY DEF KeysLead, KeyNamesOneRun
  <1>2. QED
    BY <1>1, InitKeysLead, NextKeysLead, LifecycleInvariant, PTL DEF Spec

-----------------------------------------------------------------------------
(* Provenance.                                                             *)

\* What a created run may be derived from.
LEMMA CreatedLinks ==
    ASSUME LifecycleInv, NEW r \in Runs, NEW q \in Requests, NEW a \in Auths \cup {Null},
           NEW t, CreateRun(r, q, a, t), NEW l \in ParentLinks(r, q, a)
    PROVE  /\ l[1] \in Runs
           /\ l[1] # r
           /\ l[2] = r
           /\ l[3] = "preview" => a \in Auths /\ auth[a] # Null /\ auth[a].preview = l[1]
           /\ sealed[l[1]] # Null
           /\ l[3] # "retry" => sealed[l[1]].status = "succeeded"
  <1> USE NullAssumption DEF NullAssumption, LifecycleInv
  <1>0. status[r] = "absent" /\ sealed[r] = Null
    BY DEF CreateRun, Exists, SealMatchesRun, Terminal
  <1>1. CASE a # Null /\ l = <<auth[a].preview, r, "preview">>
    <2>1. a \in Auths /\ auth[a] # Null /\ SealedPreview(auth[a].preview)
      BY <1>1 DEF CreateRun, UsableForCreate
    <2>2. auth[a].preview \in Runs
      BY <2>1 DEF TypeOK, AuthType
    <2>3. QED
      BY <1>0, <1>1, <2>1, <2>2 DEF SealedPreview
  <1>2. CASE q.relation # "none" /\ l = <<q.parent, r, q.relation>>
    <2>1. q.relation \in Relations /\ q.parent \in Runs \cup {Null}
      BY ConstantsAssumption DEF ConstantsAssumption, RequestType
    <2>2. q.relation \in {"retry", "property_expansion"}
      BY <1>2, <2>1 DEF Relations
    <2>3. /\ q.parent # Null
          /\ sealed[q.parent] # Null
          /\ q.relation # "retry" => sealed[q.parent].status = "succeeded"
      BY <2>2 DEF CreateRun, ParentValid, RetryParentValid, PropertyParentValid
    <2>4. QED
      BY <1>0, <1>2, <2>1, <2>2, <2>3
  <1>3. QED
    BY <1>1, <1>2 DEF ParentLinks

LEMMA InitParents == Init => ParentsAreSealed
  BY DEF Init, ParentsAreSealed

LEMMA NextParents ==
    ASSUME LifecycleInv, ParentsAreSealed, [Next]_vars
    PROVE  ParentsAreSealed'
  <1>1. ASSUME NEW x \in Runs, sealed[x] # Null PROVE sealed'[x] = sealed[x]
    BY <1>1, SealedStep
  <1>2. \A l \in links : l[1] \in Runs
    BY DEF LifecycleInv, TypeOK
  <1>3. \A l \in links : sealed'[l[1]] = sealed[l[1]]
    BY <1>1, <1>2 DEF ParentsAreSealed
  <1>4. CASE ~Submission
    <2>1. UNCHANGED links
      BY <1>4, OnlyCreationRecords
    <2>2. QED
      BY <1>3, <2>1 DEF ParentsAreSealed
  <1>5. CASE Submission
    <2> PICK r \in Runs, q \in Requests, a \in Auths \cup {Null}, t \in SampledTimes :
          CreateRun(r, q, a, t)
      BY <1>5 DEF Submission
    <2>1. links' = links \cup ParentLinks(r, q, a) /\ UNCHANGED sealed
      BY DEF CreateRun
    <2>2. ASSUME NEW l \in ParentLinks(r, q, a)
          PROVE  /\ sealed[l[1]] # Null
                 /\ l[1] # l[2]
                 /\ l[3] # "retry" => sealed[l[1]].status = "succeeded"
      BY CreatedLinks
    <2>3. QED
      BY <2>1, <2>2 DEF ParentsAreSealed
  <1>6. QED
    BY <1>4, <1>5

\* Provenance only points at sealed results, and but for retries at successes
\* (create_run_with_context).
THEOREM ParentsStaySealed == Spec => []ParentsAreSealed
  BY InitParents, NextParents, LifecycleInvariant, PTL DEF Spec

-----------------------------------------------------------------------------
(* Success.                                                                *)

\* The only way to a success is an owner's finalization that passed the fence.
LEMMA SuccessStep ==
    ASSUME LifecycleInv, [Next]_vars, NEW r \in Runs,
           status[r] \in Live, status'[r] = "succeeded"
    PROVE  /\ IsDiscovery(request[r]) => \E token \in Tokens : ActiveControl(r, token)
           /\ UNCHANGED auth
  <1> USE DEF LifecycleInv
  <1>0. status[r] # "succeeded"
    BY DEF Live
  <1>1. CASE Submission
    BY <1>0, <1>1 DEF Submission, CreateRun, TypeOK
  <1>2. CASE Approval \/ Administration \/ Tick \/ UNCHANGED vars
    BY <1>0, <1>2 DEF Approval, CreateScanAuthorization, RevokeScanAuthorization,
                Administration, SetActive, UpdateRole, CreateGrant, RevokeGrant, ChangeUser,
                Tick, vars, runVars
  <1>3. CASE Execution
    <2>1. ASSUME NEW x \in Runs, NEW token \in Tokens, NEW s \in Terminal, FinalizeRun(x, token, s)
          PROVE  /\ IsDiscovery(request[r]) => ActiveControl(r, token)
                 /\ UNCHANGED auth
      <3> DEFINE terminal == FenceSuccessTerminal(x, token, CancelOverride(x, s))
      <3>1. CASE FinalizeApplied(x, token, terminal)
        <4>1. status' = [status EXCEPT ![x] = terminal.status] /\ UNCHANGED auth
          BY <3>1 DEF FinalizeApplied, ApplyFinalization
        <4>2. x = r /\ terminal.status = "succeeded"
          BY <1>0, <4>1 DEF TypeOK
        <4>3. CancelOverride(x, s) \in Terminal
          BY DEF CancelOverride, Terminal
        <4>4. IsDiscovery(request[x]) => ActiveControl(x, token)
          BY <4>2, <4>3 DEF FenceSuccessTerminal, EngineTerminal, Terminal
        <4>5. QED
          BY <4>1, <4>2, <4>4
      <3>2. CASE FinalizeReplayed(x, token, terminal) \/ FinalizeConflict(x, token, terminal)
        BY <1>0, <3>2 DEF FinalizeReplayed, FinalizeConflict, RecordConflict, vars, runVars
      <3>3. QED
        BY <2>1, <3>1, <3>2 DEF FinalizeRun
    <2>2. ASSUME NEW x \in Runs, NEW token \in Tokens,
                 ClaimRun(x, token) \/ Heartbeat(x, token) \/ UpdateProgress(x, token)
                   \/ RejectOwnerWrite(x, token)
          PROVE  FALSE
      BY <1>0, <2>2 DEF ClaimRun, Heartbeat, UpdateProgress, RejectOwnerWrite, RecordConflict,
                        runVars, TypeOK
    <2>3. ASSUME NEW x \in Runs, MarkDispatchPublished(x) \/ ClaimDenied(x) \/ ClaimMismatch(x)
          PROVE  FALSE
      BY <1>0, <2>3 DEF MarkDispatchPublished, ClaimDenied, ClaimMismatch, RecordConflict,
                        ApplyFinalization, runVars, TypeOK
    <2>4. QED
      BY <1>3, <2>1, <2>2, <2>3 DEF Execution
  <1>4. CASE Cancellation
    BY <1>0, <1>4 DEF Cancellation, CancelRead, CancelQueued, CancelRunning, CancelTooLate,
                      ApplyFinalization, runVars, TypeOK
  <1>5. CASE Recovery
    <2>1. PICK x \in Runs : status' = [status EXCEPT ![x] = RecoveredStatus(x)]
      BY <1>5 DEF Recovery, RecoverExpired, QuarantineExpired, ApplyFinalization
    <2>2. QED
      BY <1>0, <2>1 DEF RecoveredStatus, TypeOK
  <1>6. QED
    BY <1>1, <1>2, <1>3, <1>4, <1>5 DEF Next

\* A live discovery succeeds only under an approval in its window and an
\* initiator who still may run it, at the moment of the seal
\* (_fence_success_terminal).
THEOREM SuccessIsControlled == Spec => SuccessUnderControl
  <1>1. ASSUME LifecycleInv, [Next]_vars, NEW r \in Runs,
               status[r] = "running", status'[r] = "succeeded",
               IsDiscovery(request[r]), ~request[r].dry
        PROVE  AuthorizationActive(r) /\ InitiatorActive(request[r])
    <2>1. \E token \in Tokens : ActiveControl(r, token)
      BY <1>1, SuccessStep DEF Live
    <2>2. QED
      BY <1>1, <2>1 DEF ActiveControl
  <1>2. LifecycleInv /\ [Next]_vars =>
          [\A r \in Runs :
             status[r] = "running" /\ status'[r] = "succeeded"
               /\ IsDiscovery(request[r]) /\ ~request[r].dry
             => AuthorizationActive(r) /\ InitiatorActive(request[r])]_vars
    BY <1>1
  <1>3. QED
    BY <1>2, LifecycleInvariant, PTL DEF Spec, SuccessUnderControl

-----------------------------------------------------------------------------
(* Approvals.                                                              *)

\* An approval is spent on a live discovery.
SpentOnDiscovery ==
    \A a \in Auths : auth[a] # Null /\ auth[a].consumedBy # Null =>
        IsDiscovery(request[auth[a].consumedBy])

ApprovalInv == ApprovalLineage /\ SpentOnDiscovery

LEMMA InitApprovalInv == Init => ApprovalInv
  BY DEF Init, ApprovalInv, ApprovalLineage, SpentOnDiscovery

\* A sealed preview stays one.
LEMMA PreviewStays ==
    ASSUME LifecycleInv, [Next]_vars, NEW p \in Runs, SealedPreview(p)
    PROVE  SealedPreview(p)' /\ request'[p] = request[p]
  BY SealedStep DEF SealedPreview

\* A run that exists keeps its context and goes on existing.
LEMMA ContextStays ==
    ASSUME LifecycleInv, [Next]_vars, NEW r \in Runs, Exists(r)
    PROVE  request'[r] = request[r] /\ Exists(r)'
  <1>1. CASE Submission
    BY <1>1 DEF Submission, CreateRun, Exists, LifecycleInv, TypeOK
  <1>2. CASE ~Submission
    <2>1. UNCHANGED request /\ LifecycleInv'
      BY <1>2, OnlyCreationRecords, NextLifecycleInv
    <2>2. QED
      BY <2>1 DEF LifecycleInv, ContextsComplete
  <1>3. QED
    BY <1>1, <1>2

\* What approvals say is not disturbed by steps that write none of them.
LEMMA OthersKeepApprovals ==
    ASSUME LifecycleInv, ApprovalInv, [Next]_vars, UNCHANGED <<auth, links>>
    PROVE  ApprovalInv'
  <1> USE DEF ApprovalInv
  <1>1. \A a \in Auths : auth[a] # Null =>
          /\ auth[a].preview \in Runs
          /\ auth[a].consumedBy \in Runs \cup {Null}
    BY DEF LifecycleInv, TypeOK, AuthType
  <1>2. \A r \in Runs : AuthorizationOf(r)' = AuthorizationOf(r)
    BY DEF AuthorizationOf
  <1>3. \A l \in links : l[2] \in Runs
    BY DEF LifecycleInv, TypeOK
  <1>4. \A a \in Auths : auth[a] # Null =>
          /\ SealedPreview(auth[a].preview)'
          /\ request'[auth[a].preview] = request[auth[a].preview]
    BY <1>1, PreviewStays DEF ApprovalLineage
  <1>5. \A a \in Auths : auth[a] # Null /\ auth[a].consumedBy # Null =>
          /\ Exists(auth[a].consumedBy)'
          /\ request'[auth[a].consumedBy] = request[auth[a].consumedBy]
    BY <1>1, ContextStays DEF ApprovalLineage
  <1>6. SpentOnDiscovery'
    BY <1>5 DEF SpentOnDiscovery
  <1>7. ApprovalLineage'
    BY <1>1, <1>2, <1>3, <1>4, <1>5 DEF ApprovalLineage
  <1>8. QED
    BY <1>6, <1>7

LEMMA CreateKeepsApprovals ==
    ASSUME LifecycleInv, ApprovalInv, NEW r \in Runs, NEW q \in Requests,
           NEW a \in Auths \cup {Null}, NEW t \in SampledTimes, CreateRun(r, q, a, t)
    PROVE  ApprovalInv'
  <1> USE NullAssumption DEF NullAssumption, ApprovalInv
  <1>0. [Next]_vars
    BY DEF Next, Submission
  <1>1. \A x \in Auths : auth[x] # Null =>
          /\ auth[x] \in AuthType
          /\ auth[x].preview \in Runs
          /\ auth[x].consumedBy \in Runs \cup {Null}
    BY DEF LifecycleInv, TypeOK, AuthType
  <1>2. ~Exists(r) /\ request' = [request EXCEPT ![r] = q]
        /\ auth' = [x \in Auths |-> IF x = a THEN [auth[x] EXCEPT !.consumedBy = r] ELSE auth[x]]
        /\ links' = links \cup ParentLinks(r, q, a)
    BY DEF CreateRun
  <1>3. a # Null => ~q.dry /\ UsableForCreate(a, q, t)
    BY DEF CreateRun
  <1>4. \A x \in Auths : auth[x] # Null => auth[x].consumedBy # r
    BY <1>2 DEF ApprovalLineage
  <1>5. \A x \in Auths : x # a => auth'[x] = auth[x]
    BY <1>2
  <1>6. a # Null => /\ a \in Auths /\ auth[a] # Null /\ auth[a].consumedBy = Null
                    /\ auth'[a] # Null
                    /\ auth'[a].consumedBy = r
                    /\ auth'[a].preview = auth[a].preview
                    /\ auth'[a].plan = auth[a].plan
    <2> SUFFICES ASSUME a # Null
                 PROVE  /\ a \in Auths /\ auth[a] # Null /\ auth[a].consumedBy = Null
                        /\ auth'[a] # Null
                        /\ auth'[a].consumedBy = r
                        /\ auth'[a].preview = auth[a].preview
                        /\ auth'[a].plan = auth[a].plan
      OBVIOUS
    <2>1. a \in Auths /\ auth[a] # Null /\ auth[a].consumedBy = Null
      BY <1>3 DEF UsableForCreate
    <2>2. auth'[a] = [auth[a] EXCEPT !.consumedBy = r] /\ auth[a] \in AuthType
      BY <1>1, <1>2, <2>1
    <2>3. auth'[a] \in AuthType
      BY <2>2 DEF AuthType
    <2>4. QED
      BY <2>1, <2>2, <2>3 DEF AuthType
  <1>7. \A p \in Runs : SealedPreview(p) => SealedPreview(p)' /\ request'[p] = request[p]
    BY <1>0, PreviewStays
  <1>8. \A x \in Auths : auth'[x] # Null =>
          /\ auth[x] # Null
          /\ auth'[x].preview = auth[x].preview
          /\ auth'[x].plan = auth[x].plan
    BY <1>5, <1>6
  <1>9. \A x \in Runs : Exists(x) => Exists(x)' /\ request'[x] = request[x]
    BY <1>0, ContextStays
  <1>10. Exists(r)' /\ request'[r] = q
    BY DEF CreateRun, Exists, LifecycleInv, TypeOK
  <1>11. \A x \in Runs : x # r => AuthorizationOf(x)' = AuthorizationOf(x)
    BY <1>5, <1>6 DEF AuthorizationOf
  <1>12. a # Null => AuthorizationOf(r)' = {a}
    BY <1>4, <1>5, <1>6 DEF AuthorizationOf
  <1>13. ASSUME NEW x \in Auths, auth'[x] # Null
         PROVE  SealedPreview(auth[x].preview)'
    <2>1. auth[x] # Null /\ auth[x].preview \in Runs /\ SealedPreview(auth[x].preview)
      BY <1>1, <1>8, <1>13 DEF ApprovalLineage
    <2>2. SealedPreview(auth[x].preview) => request'[auth[x].preview] = request[auth[x].preview]
      BY <1>7, <2>1
    <2> DEFINE p == auth[x].preview
    <2>3. /\ sealed'[p] # Null /\ request'[p].dry /\ status'[p] = "succeeded"
          /\ sealed'[p].status = "succeeded"
      BY <1>7, <2>1 DEF SealedPreview
    <2>4. auth'[x].preview = p
      BY <1>8, <1>13
    <2>5. QED
      BY <2>3, <2>4 DEF SealedPreview
  <1>14. ASSUME NEW x \in Auths, auth'[x] # Null, auth'[x].consumedBy # Null
         PROVE  /\ Exists(auth[x].consumedBy)'
                /\ ~request'[auth'[x].consumedBy].dry
                /\ request'[auth'[x].consumedBy].plan = auth'[x].plan
                /\ auth'[x].plan = request'[auth'[x].preview].plan
                /\ AuthorizationOf(auth[x].consumedBy)' = {x}
                /\ IsDiscovery(request'[auth'[x].consumedBy])
    <2>1. CASE x = a
      <3>1. /\ ~q.dry /\ q.plan = auth[a].plan /\ IsDiscovery(q)
            /\ SealedPreview(auth[a].preview) /\ auth[a].plan = request[auth[a].preview].plan
        BY <1>3, <2>1 DEF UsableForCreate
      <3>2. request'[auth[a].preview] = request[auth[a].preview]
        BY <1>1, <1>6, <1>7, <2>1, <3>1
      <3>3. QED
        BY <1>6, <1>10, <1>12, <2>1, <3>1, <3>2
    <2>2. CASE x # a
      <3>1. auth'[x] = auth[x] /\ auth[x] # Null /\ auth[x].consumedBy # Null
            /\ auth[x].consumedBy \in Runs /\ auth[x].consumedBy # r
        BY <1>1, <1>4, <1>5, <1>14, <2>2
      <3>2. /\ Exists(auth[x].consumedBy)'
            /\ request'[auth[x].consumedBy] = request[auth[x].consumedBy]
        BY <1>9, <3>1 DEF ApprovalLineage
      <3>3. request'[auth[x].preview] = request[auth[x].preview]
        BY <1>1, <1>7, <3>1 DEF ApprovalLineage
      <3>4. QED
        BY <1>11, <3>1, <3>2, <3>3 DEF ApprovalLineage, SpentOnDiscovery
    <2>3. QED
      BY <2>1, <2>2
  <1>15. ASSUME NEW l \in links', l[3] = "preview"
         PROVE  \E x \in AuthorizationOf(l[2])' : auth'[x].preview = l[1]
    <2>1. CASE l \in ParentLinks(r, q, a)
      <3>1. l[2] = r /\ a \in Auths /\ auth[a].preview = l[1]
        BY <1>15, <2>1, CreatedLinks
      <3>2. QED
        BY <1>6, <1>12, <3>1
    <2>2. CASE l \in links
      <3>1. PICK x \in AuthorizationOf(l[2]) : auth[x].preview = l[1]
        BY <1>15, <2>2 DEF ApprovalLineage
      <3>2. x \in Auths /\ auth[x] # Null /\ auth[x].consumedBy = l[2] /\ l[2] \in Runs
        BY <2>2 DEF AuthorizationOf, LifecycleInv, TypeOK
      <3>3. l[2] # r
        BY <1>4, <3>2
      <3>4. x # a
        BY <1>6, <3>2
      <3>5. QED
        BY <1>5, <1>11, <3>1, <3>2, <3>3, <3>4
    <2>3. QED
      BY <1>2, <2>1, <2>2
  <1>16. QED
    BY <1>13, <1>14, <1>15 DEF ApprovalLineage, SpentOnDiscovery

\* Approvals and links are written by submissions and approvers only.
LEMMA OnlyApproversWrite ==
    ASSUME [Next]_vars, ~Submission, ~Approval
    PROVE  UNCHANGED auth
  <1>1. CASE Execution
    <2>1. ASSUME NEW r \in Runs, NEW token \in Tokens, NEW s \in Terminal, FinalizeRun(r, token, s)
          PROVE  UNCHANGED auth
      BY <2>1 DEF FinalizeRun, FinalizeApplied, FinalizeReplayed, FinalizeConflict,
                  RecordConflict, ApplyFinalization, vars
    <2>2. ASSUME NEW r \in Runs,
                 \/ \E token \in Tokens :
                      ClaimRun(r, token) \/ Heartbeat(r, token) \/ UpdateProgress(r, token)
                      \/ RejectOwnerWrite(r, token)
                 \/ MarkDispatchPublished(r) \/ ClaimDenied(r) \/ ClaimMismatch(r)
          PROVE  UNCHANGED auth
      BY <2>2 DEF ClaimRun, Heartbeat, UpdateProgress, RejectOwnerWrite, MarkDispatchPublished,
                  ClaimDenied, ClaimMismatch, RecordConflict, ApplyFinalization
    <2>3. QED
      BY <1>1, <2>1, <2>2 DEF Execution
  <1>2. CASE Cancellation
    BY <1>2 DEF Cancellation, CancelRead, CancelQueued, CancelRunning, CancelTooLate,
                ApplyFinalization
  <1>3. CASE Recovery
    BY <1>3 DEF Recovery, RecoverExpired, QuarantineExpired, ApplyFinalization
  <1>4. CASE Administration \/ Tick \/ UNCHANGED vars
    BY <1>4 DEF Administration, SetActive, UpdateRole, CreateGrant, RevokeGrant, ChangeUser,
                Tick, vars
  <1>5. QED
    BY <1>1, <1>2, <1>3, <1>4 DEF Next

LEMMA ApproveKeepsApprovals ==
    ASSUME LifecycleInv, ApprovalInv, NEW a \in Auths, NEW p \in Runs, NEW w, NEW t,
           CreateScanAuthorization(a, p, w, t)
    PROVE  ApprovalInv'
  <1> USE NullAssumption DEF NullAssumption, ApprovalInv
  <1>1. /\ auth[a] = Null /\ SealedPreview(p)
        /\ \A x \in Auths : x # a => auth'[x] = auth[x]
        /\ auth'[a].preview = p /\ auth'[a].plan = request[p].plan /\ auth'[a].consumedBy = Null
        /\ UNCHANGED <<runVars, formVars>>
    BY DEF CreateScanAuthorization, LifecycleInv, TypeOK
  <1>2. UNCHANGED <<status, sealed, request, links>>
    BY <1>1 DEF runVars, formVars
  <1>3. \A r \in Runs : AuthorizationOf(r)' = AuthorizationOf(r)
    BY <1>1 DEF AuthorizationOf
  <1>4. \A x \in Auths : auth[x] # Null => auth[x].preview \in Runs /\ auth[x].consumedBy \in Runs \cup {Null}
    BY DEF LifecycleInv, TypeOK, AuthType
  <1>5. \A x \in Auths : auth'[x] # Null => x = a \/ (x # a /\ auth[x] # Null)
    BY <1>1
  <1>6. \A x \in Auths : auth'[x] # Null => SealedPreview(auth[x].preview)'
    BY <1>1, <1>2, <1>5 DEF SealedPreview, ApprovalLineage
  <1>7. ASSUME NEW x \in Auths, auth'[x] # Null, auth'[x].consumedBy # Null
        PROVE  x # a /\ auth'[x] = auth[x]
    BY <1>1, <1>7
  <1>8. \A l \in links : l[2] \in Runs
    BY DEF LifecycleInv, TypeOK
  <1>9. ASSUME NEW l \in links, l[3] = "preview"
        PROVE  \E x \in AuthorizationOf(l[2])' : auth'[x].preview = l[1]
    BY <1>1, <1>3, <1>8, <1>9 DEF ApprovalLineage, AuthorizationOf
  <1>10. SpentOnDiscovery'
    BY <1>2, <1>7 DEF SpentOnDiscovery
  <1>11. ASSUME NEW x \in Auths, auth'[x] # Null, auth'[x].consumedBy # Null
         PROVE  /\ Exists(auth[x].consumedBy)'
                /\ ~request'[auth'[x].consumedBy].dry
                /\ request'[auth'[x].consumedBy].plan = auth'[x].plan
                /\ auth'[x].plan = request'[auth'[x].preview].plan
                /\ AuthorizationOf(auth[x].consumedBy)' = {x}
    <2>1. auth'[x] = auth[x] /\ auth[x].consumedBy \in Runs
      BY <1>4, <1>7, <1>11
    <2>2. QED
      BY <1>2, <1>3, <1>11, <2>1 DEF ApprovalLineage, Exists
  <1>12. ApprovalLineage'
    BY <1>2, <1>6, <1>9, <1>11 DEF ApprovalLineage
  <1>13. QED
    BY <1>10, <1>12

LEMMA RevokeKeepsApprovals ==
    ASSUME LifecycleInv, ApprovalInv, NEW a \in Auths, RevokeScanAuthorization(a)
    PROVE  ApprovalInv'
  <1> USE NullAssumption DEF NullAssumption, ApprovalInv
  <1>1. /\ UNCHANGED <<status, sealed, request, links>>
        /\ auth[a] # Null
        /\ auth' = [auth EXCEPT ![a] = [auth[a] EXCEPT !.revoked = TRUE]]
    BY DEF RevokeScanAuthorization, runVars, formVars
  <1>2. \A x \in Auths : auth[x] # Null => auth[x] \in AuthType
    BY DEF LifecycleInv, TypeOK
  <1>3. \A x \in Auths :
          /\ auth'[x] # Null <=> auth[x] # Null
          /\ auth[x] # Null => /\ auth'[x].preview = auth[x].preview
                               /\ auth'[x].plan = auth[x].plan
                               /\ auth'[x].consumedBy = auth[x].consumedBy
                               /\ auth[x].preview \in Runs
                               /\ auth[x].consumedBy \in Runs \cup {Null}
    <2> SUFFICES ASSUME NEW x \in Auths
                 PROVE  /\ auth'[x] # Null <=> auth[x] # Null
                        /\ auth[x] # Null => /\ auth'[x].preview = auth[x].preview
                                             /\ auth'[x].plan = auth[x].plan
                                             /\ auth'[x].consumedBy = auth[x].consumedBy
                                             /\ auth[x].preview \in Runs
                                             /\ auth[x].consumedBy \in Runs \cup {Null}
      OBVIOUS
    <2>1. auth[x] # Null => auth[x] \in AuthType
      BY <1>2
    <2>2. CASE x = a
      <3>1. auth'[a] = [auth[a] EXCEPT !.revoked = TRUE]
        BY <1>1 DEF LifecycleInv, TypeOK
      <3>2. auth[a] \in AuthType
        BY <1>1, <2>1, <2>2
      <3>3. auth'[a] \in AuthType
        BY <3>1, <3>2 DEF AuthType
      <3>4. /\ auth'[a].preview = auth[a].preview /\ auth'[a].plan = auth[a].plan
            /\ auth'[a].consumedBy = auth[a].consumedBy
            /\ auth[a].preview \in Runs /\ auth[a].consumedBy \in Runs \cup {Null}
        BY <3>1, <3>2 DEF AuthType
      <3>5. auth'[a] # Null /\ auth[a] # Null
        BY <1>1, <3>3
      <3>6. QED
        BY <2>2, <3>4, <3>5
    <2>3. CASE x # a
      <3>1. auth'[x] = auth[x]
        BY <1>1, <2>3
      <3>2. QED
        BY <2>1, <3>1 DEF AuthType
    <2>4. QED
      BY <2>2, <2>3
  <1>4. \A r \in Runs : AuthorizationOf(r)' = AuthorizationOf(r)
    BY <1>3 DEF AuthorizationOf
  <1>5. SpentOnDiscovery'
    BY <1>1, <1>3 DEF SpentOnDiscovery
  <1>6. \A x \in Auths : auth'[x] # Null => SealedPreview(auth[x].preview)'
    BY <1>1, <1>3 DEF SealedPreview, ApprovalLineage
  <1>7. ASSUME NEW x \in Auths, auth'[x] # Null, auth'[x].consumedBy # Null
        PROVE  /\ Exists(auth[x].consumedBy)'
               /\ ~request'[auth'[x].consumedBy].dry
               /\ request'[auth'[x].consumedBy].plan = auth'[x].plan
               /\ auth'[x].plan = request'[auth'[x].preview].plan
               /\ AuthorizationOf(auth[x].consumedBy)' = {x}
    <2>1. /\ auth'[x].consumedBy = auth[x].consumedBy /\ auth[x].consumedBy \in Runs
          /\ auth'[x].preview = auth[x].preview /\ auth'[x].plan = auth[x].plan
          /\ auth[x] # Null /\ auth[x].consumedBy # Null
      BY <1>3, <1>7
    <2>2. QED
      BY <1>1, <1>4, <2>1 DEF ApprovalLineage, Exists
  <1>8. \A l \in links : l[2] \in Runs
    BY DEF LifecycleInv, TypeOK
  <1>9. ASSUME NEW l \in links, l[3] = "preview"
        PROVE  \E x \in AuthorizationOf(l[2])' : auth'[x].preview = l[1]
    BY <1>3, <1>4, <1>8, <1>9 DEF ApprovalLineage, AuthorizationOf
  <1>10. ApprovalLineage'
    BY <1>1, <1>6, <1>7, <1>9 DEF ApprovalLineage
  <1>11. QED
    BY <1>5, <1>10

LEMMA NextApprovalInv == LifecycleInv /\ ApprovalInv /\ [Next]_vars => ApprovalInv'
  <1> SUFFICES ASSUME LifecycleInv, ApprovalInv, [Next]_vars PROVE ApprovalInv'
    OBVIOUS
  <1>1. CASE Submission
    BY <1>1, CreateKeepsApprovals DEF Submission
  <1>2. CASE Approval
    BY <1>2, ApproveKeepsApprovals, RevokeKeepsApprovals DEF Approval
  <1>3. CASE ~Submission /\ ~Approval
    BY <1>3, OnlyApproversWrite, OnlyCreationRecords, OthersKeepApprovals
  <1>4. QED
    BY <1>1, <1>2, <1>3

LEMMA ApprovalInvariant == Spec => [](LifecycleInv /\ ApprovalInv)
  BY LifecycleInvariant, InitApprovalInv, NextApprovalInv, PTL DEF Spec

\* An approval pays for one live run of the plan its approver saw, and every
\* link to a preview was paid for (_validate_authorization_for_create).
THEOREM ApprovalsPayOnce == Spec => []ApprovalLineage
  BY ApprovalInvariant, PTL DEF ApprovalInv

\* A revoked approval is never written again, and its run cannot succeed.
LEMMA RevokedStep ==
    ASSUME LifecycleInv, ApprovalInv, [Next]_vars, NEW r \in Runs, NEW a \in Auths,
           status[r] \in Live, a \in AuthorizationOf(r), auth[a].revoked
    PROVE  auth'[a] = auth[a] /\ status'[r] # "succeeded"
  <1> USE NullAssumption DEF NullAssumption
  <1>1. auth[a] # Null /\ auth[a].consumedBy = r /\ r # Null
    BY DEF AuthorizationOf
  <1>2. AuthorizationOf(r) = {a} /\ ~request[r].dry /\ IsDiscovery(request[r])
    BY <1>1 DEF ApprovalInv, ApprovalLineage, SpentOnDiscovery
  <1>3. auth'[a] = auth[a]
    <2>1. CASE Submission
      <3> PICK x \in Runs, q \in Requests, b \in Auths \cup {Null}, t \in SampledTimes :
            CreateRun(x, q, b, t)
        BY <2>1 DEF Submission
      <3>1. b # a
        BY <1>1 DEF CreateRun, UsableForCreate
      <3>2. QED
        BY <3>1 DEF CreateRun
    <2>2. CASE Approval
      BY <1>1, <2>2 DEF Approval, CreateScanAuthorization, RevokeScanAuthorization,
                        LifecycleInv, TypeOK
    <2>3. QED
      BY <2>1, <2>2, OnlyApproversWrite
  <1>4. ~AuthorizationActive(r)
    BY <1>2 DEF AuthorizationActive
  <1>5. status'[r] # "succeeded"
    BY <1>2, <1>4, SuccessStep DEF ActiveControl
  <1>6. QED
    BY <1>3, <1>5

\* Revocation is final and stops the success of an open run, whatever its
\* executor reports and whoever seals it (revoke_scan_authorization,
\* _fence_success_terminal).
THEOREM RevocationsStop == Spec => RevocationStopsSuccess
  <1>1. LifecycleInv /\ ApprovalInv /\ [Next]_vars =>
          [\A r \in Runs, a \in Auths :
             status[r] \in Live /\ a \in AuthorizationOf(r) /\ auth[a].revoked
             => auth'[a] = auth[a] /\ status'[r] # "succeeded"]_vars
    BY RevokedStep
  <1>2. QED
    BY <1>1, ApprovalInvariant, PTL DEF Spec, RevocationStopsSuccess

-----------------------------------------------------------------------------
(* The promise.                                                            *)

PhaseMap   == [r \in Runs |-> PhaseOf(status[r])]
StopMap    == [r \in Runs |-> status[r] = "running" /\ cancelRequested[r]]
VerdictMap == [r \in Runs |-> IF status[r] \in Terminal THEN status[r] ELSE "none"]
HolderMap  == [k \in ProtocolKeys |-> IF slot[k] = Null THEN Null ELSE slot[k].run]

LEMMA PhasesOfStatus ==
    /\ PhaseOf("absent") = "unborn"
    /\ PhaseOf("queued") = "waiting"
    /\ PhaseOf("running") = "executing"
    /\ \A st \in Terminal : PhaseOf(st) = "closed"
  BY DEF PhaseOf, Terminal

LEMMA InitPromise == Init => Promise!Init
  <1> SUFFICES ASSUME Init PROVE Promise!Init
    OBVIOUS
  <1>1. /\ status = [r \in Runs |-> "absent"]
        /\ cancelRequested = [r \in Runs |-> FALSE]
        /\ slot = [k \in ProtocolKeys |-> Null]
    BY DEF Init
  <1>2. PhaseMap = [r \in Runs |-> "unborn"]
    BY <1>1, PhasesOfStatus DEF PhaseMap
  <1>3. \A r \in Runs : (status[r] = "running" /\ cancelRequested[r]) = FALSE
    BY <1>1
  <1>4. StopMap = [r \in Runs |-> FALSE]
    BY <1>3 DEF StopMap
  <1>5. VerdictMap = [r \in Runs |-> "none"]
    BY <1>1 DEF VerdictMap, Terminal
  <1>6. HolderMap = [k \in ProtocolKeys |-> Null]
    BY <1>1 DEF HolderMap
  <1>7. QED
    BY <1>2, <1>4, <1>5, <1>6 DEF Promise!Init, PhaseMap, StopMap, VerdictMap, HolderMap

LEMMA OpenPromise ==
    ASSUME LifecycleInv, NEW r \in Runs, NEW q \in Requests, NEW a, NEW t, CreateRun(r, q, a, t)
    PROVE  Promise!Open(r, ResourceKeys(q))
  <1> USE NullAssumption DEF NullAssumption, LifecycleInv
  <1>1. /\ status[r] = "absent"
        /\ status' = [status EXCEPT ![r] = "queued"]
        /\ \A k \in ResourceKeys(q) : slot[k] = Null
        /\ slot' = [k \in ProtocolKeys |->
                      IF k \in ResourceKeys(q) THEN [run |-> r, owner |-> Null] ELSE slot[k]]
        /\ UNCHANGED cancelRequested
    BY DEF CreateRun, Exists
  <1>2. ResourceKeys(q) \subseteq ProtocolKeys
    BY ConstantsAssumption DEF ConstantsAssumption, ResourceKeys, RequestType
  <1>3. PhaseMap[r] = "unborn"
    BY <1>1, PhasesOfStatus DEF PhaseMap
  <1>4. PhaseMap' = [PhaseMap EXCEPT ![r] = "waiting"]
    BY <1>1, PhasesOfStatus DEF PhaseMap, TypeOK
  <1>5. StopMap' = StopMap
    BY <1>1 DEF StopMap, TypeOK
  <1>6. VerdictMap' = VerdictMap
    BY <1>1 DEF VerdictMap, TypeOK, Terminal
  <1>7. \A k \in ResourceKeys(q) : HolderMap[k] = Null
    BY <1>1, <1>2 DEF HolderMap
  <1>8. HolderMap' = [k \in ProtocolKeys |-> IF k \in ResourceKeys(q) THEN r ELSE HolderMap[k]]
    <2>1. [run |-> r, owner |-> Null] \in SlotType
      BY DEF SlotType
    <2>2. ASSUME NEW k \in ProtocolKeys
          PROVE  (IF slot'[k] = Null THEN Null ELSE slot'[k].run)
                   = IF k \in ResourceKeys(q) THEN r ELSE HolderMap[k]
      BY <1>1, <2>1 DEF HolderMap
    <2>3. QED
      BY <2>2 DEF HolderMap
  <1>9. QED
    BY <1>3, <1>4, <1>5, <1>6, <1>7, <1>8
    DEF Promise!Open, PhaseMap, StopMap, VerdictMap, HolderMap

LEMMA StartPromise ==
    ASSUME LifecycleInv, NEW r \in Runs, NEW token \in Tokens, ClaimRun(r, token)
    PROVE  Promise!Start(r)
  <1> USE NullAssumption DEF NullAssumption, LifecycleInv
  <1>1. /\ status[r] = "queued"
        /\ status' = [status EXCEPT ![r] = "running"]
        /\ slot' = [k \in ProtocolKeys |->
                      IF slot[k] # Null /\ slot[k].run = r
                      THEN [run |-> r, owner |-> token] ELSE slot[k]]
        /\ UNCHANGED cancelRequested
        /\ ~cancelRequested[r]
    BY DEF ClaimRun, Claimable, OwnersExecute
  <1>2. PhaseMap[r] = "waiting" /\ PhaseMap' = [PhaseMap EXCEPT ![r] = "executing"]
    BY <1>1, PhasesOfStatus DEF PhaseMap, TypeOK
  <1>3. StopMap' = StopMap
    BY <1>1 DEF StopMap, TypeOK
  <1>4. VerdictMap' = VerdictMap
    BY <1>1 DEF VerdictMap, TypeOK, Terminal
  <1>5. HolderMap' = HolderMap
    <2>1. [run |-> r, owner |-> token] \in SlotType
      BY DEF SlotType
    <2>2. ASSUME NEW k \in ProtocolKeys
          PROVE  (IF slot'[k] = Null THEN Null ELSE slot'[k].run)
                   = IF slot[k] = Null THEN Null ELSE slot[k].run
      BY <1>1, <2>1
    <2>3. QED
      BY <2>2 DEF HolderMap
  <1>6. QED
    BY <1>2, <1>3, <1>4, <1>5 DEF Promise!Start, PhaseMap, StopMap, VerdictMap, HolderMap

LEMMA TouchPromise ==
    ASSUME LifecycleInv, LifecycleInv', NEW r \in Runs, TouchStep(r)
    PROVE  Promise!Stop(r) \/ UNCHANGED Promise!vars
  <1> USE DEF LifecycleInv
  <1>1. /\ status[r] = "running"
        /\ UNCHANGED <<status, slot>>
        /\ \A x \in Runs \ {r} : cancelRequested'[x] = cancelRequested[x]
        /\ cancelRequested[r] => cancelRequested'[r]
    BY DEF TouchStep
  <1>2. PhaseMap' = PhaseMap /\ VerdictMap' = VerdictMap /\ HolderMap' = HolderMap
    BY <1>1 DEF PhaseMap, VerdictMap, HolderMap
  <1>3. PhaseMap[r] = "executing"
    BY <1>1, PhasesOfStatus DEF PhaseMap
  <1>4. cancelRequested[r] \in BOOLEAN /\ cancelRequested'[r] \in BOOLEAN
    BY DEF TypeOK
  <1>5. CASE cancelRequested'[r] = cancelRequested[r]
    <2>1. StopMap' = StopMap
      BY <1>1, <1>5 DEF StopMap
    <2>2. QED
      BY <1>2, <2>1 DEF Promise!vars, PhaseMap, StopMap, VerdictMap, HolderMap
  <1>6. CASE cancelRequested'[r] # cancelRequested[r]
    <2>1. cancelRequested'[r]
      BY <1>1, <1>4, <1>6
    <2>2. \A x \in Runs : (status'[x] = "running" /\ cancelRequested'[x])
            = IF x = r THEN TRUE ELSE status[x] = "running" /\ cancelRequested[x]
      BY <1>1, <2>1
    <2>3. StopMap' = [StopMap EXCEPT ![r] = TRUE]
      BY <2>2 DEF StopMap
    <2>4. QED
      BY <1>2, <1>3, <2>3 DEF Promise!Stop, PhaseMap, StopMap, VerdictMap, HolderMap
  <1>7. QED
    BY <1>5, <1>6

LEMMA ClosePromise ==
    ASSUME LifecycleInv, NEW r \in Runs, NEW terminal \in SealType, SealStep(r, terminal)
    PROVE  terminal.status \in Terminal /\ Promise!Close(r, terminal.status)
  <1> USE NullAssumption DEF NullAssumption, LifecycleInv
  <1>1. /\ status[r] \in Live
        /\ terminal.status \in Terminal
        /\ terminal.status = "succeeded" => status[r] = "running"
        /\ status[r] = "running" /\ cancelRequested[r] => terminal.status = "cancelled"
        /\ status' = [status EXCEPT ![r] = terminal.status]
        /\ slot' = [k \in ProtocolKeys |->
                      IF slot[k] # Null /\ slot[k].run = r THEN Null ELSE slot[k]]
        /\ \A x \in Runs \ {r} : cancelRequested'[x] = cancelRequested[x]
    BY DEF SealStep, ApplyFinalization, SealType, Live
  <1>2. PhaseMap[r] \in {"waiting", "executing"}
        /\ (terminal.status = "succeeded" => PhaseMap[r] = "executing")
    BY <1>1, PhasesOfStatus DEF PhaseMap, Live
  <1>3. PhaseMap' = [PhaseMap EXCEPT ![r] = "closed"]
    BY <1>1, PhasesOfStatus DEF PhaseMap, TypeOK
  <1>4. StopMap[r] => terminal.status = "cancelled"
    BY <1>1 DEF StopMap
  <1>5. StopMap' = [StopMap EXCEPT ![r] = FALSE]
    <2>1. \A x \in Runs : (status'[x] = "running" /\ cancelRequested'[x])
            = IF x = r THEN FALSE ELSE status[x] = "running" /\ cancelRequested[x]
      BY <1>1 DEF TypeOK, Terminal
    <2>2. QED
      BY <2>1 DEF StopMap
  <1>6. VerdictMap' = [VerdictMap EXCEPT ![r] = terminal.status]
    BY <1>1 DEF VerdictMap, TypeOK
  <1>7. HolderMap' = [k \in ProtocolKeys |-> IF HolderMap[k] = r THEN Null ELSE HolderMap[k]]
    <2>1. ASSUME NEW k \in ProtocolKeys
          PROVE  (IF slot'[k] = Null THEN Null ELSE slot'[k].run)
                   = IF HolderMap[k] = r THEN Null ELSE HolderMap[k]
      BY <1>1 DEF HolderMap
    <2>2. QED
      BY <2>1 DEF HolderMap
  <1>8. QED
    BY <1>1, <1>2, <1>3, <1>4, <1>5, <1>6, <1>7
    DEF Promise!Close, PhaseMap, StopMap, VerdictMap, HolderMap

LEMMA StepPromise == LifecycleInv /\ LifecycleInv' /\ [Next]_vars => [Promise!Next]_(Promise!vars)
  <1> SUFFICES ASSUME LifecycleInv, LifecycleInv', [Next]_vars
               PROVE  Promise!Next \/ UNCHANGED Promise!vars
    OBVIOUS
  <1>1. CASE QuietStep
    BY <1>1 DEF QuietStep, runVars, Promise!vars
  <1>2. ASSUME NEW r \in Runs, NEW q \in Requests, NEW a \in Auths \cup {Null},
               NEW t \in SampledTimes, CreateRun(r, q, a, t)
        PROVE  Promise!Next
    <2>1. ResourceKeys(q) \in SUBSET ProtocolKeys
      BY ConstantsAssumption DEF ConstantsAssumption, ResourceKeys, RequestType
    <2>2. QED
      BY <1>2, <2>1, OpenPromise DEF Promise!Next
  <1>3. ASSUME NEW r \in Runs, NEW token \in Tokens, ClaimRun(r, token)
        PROVE  Promise!Next
    BY <1>3, StartPromise DEF Promise!Next
  <1>4. ASSUME NEW r \in Runs, TouchStep(r)
        PROVE  Promise!Next \/ UNCHANGED Promise!vars
    BY <1>4, TouchPromise DEF Promise!Next
  <1>5. ASSUME NEW r \in Runs, NEW terminal \in SealType, SealStep(r, terminal)
        PROVE  Promise!Next
    <2>1. terminal.status \in Promise!Verdicts /\ Promise!Close(r, terminal.status)
      BY <1>5, ClosePromise DEF Terminal, Promise!Verdicts
    <2>2. QED
      BY <2>1 DEF Promise!Next
  <1>6. QED
    BY <1>1, <1>2, <1>3, <1>4, <1>5, StepEffects

\* The repository keeps the promise it makes to its clients: behind leases,
\* tokens, approvals and retries, a run waits, executes and is closed once.
THEOREM LifecyclePromiseKept == Spec => KeepsPromise
  <1>1. Init => Promise!Init
    BY InitPromise
  <1>2. LifecycleInv /\ LifecycleInv' /\ [Next]_vars => [Promise!Next]_(Promise!vars)
    BY StepPromise
  <1>3. QED
    BY <1>1, <1>2, LifecycleInvariant, PTL DEF Spec, KeepsPromise, Promise!Spec
=============================================================================
