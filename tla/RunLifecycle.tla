---------------------------- MODULE RunLifecycle ----------------------------
(***************************************************************************)
(* The run lifecycle tables and the transactions RunLifecycleRepository    *)
(* performs on them: creation with an idempotency key, a one-use scan      *)
(* authorization and protocol slots; claim; heartbeat; progress;           *)
(* cancellation; fenced finalization; and recovery of expired leases.      *)
(*                                                                         *)
(* A transaction is one action, because every writer either holds the      *)
(* SQLite write lock from BEGIN IMMEDIATE or the PostgreSQL row lock.  Two *)
(* things escape that lock and are modelled as such: request_cancel reads  *)
(* its run before it locks anything (CancelRead, CancelWrite), and some    *)
(* operations take their timestamp before they wait for the lock           *)
(* (SampledTimes).  The operations that sample the clock after the lock    *)
(* use `now' itself.                                                       *)
(*                                                                         *)
(* Abstracted: identifiers and digests are model values, a RunContextV1 is *)
(* a member of Requests, project and site are fixed, summaries and         *)
(* evidence rows are represented by the stage that was written with them,  *)
(* and state_version, which every writer below increments, is left out     *)
(* because the row locks already order the writers.                        *)
(***************************************************************************)
EXTENDS Integers, FiniteSets

CONSTANTS
    Runs,             \* run identifiers
    Tokens,           \* owner tokens, fresh for every claim
    ProtocolKeys,     \* keys of active_protocol_slots
    IdempotencyKeys,  \* client-supplied retry keys
    Auths,            \* scan authorization identifiers
    Users,            \* named users that may initiate a scan
    Plans,            \* packet plan digests
    Requests,         \* the submissions clients may make
    Windows,          \* <<not_before, not_after>> pairs an approver may give
    RequiredWindow,   \* shortest window a sealed preview accepts
    LeaseLength,      \* lease_seconds, in clock ticks
    LockWait,         \* longest wait, in ticks, between a sample and the lock
    MaxTime,          \* bound on the clock
    MaxConflicts,     \* bound on the audit rows kept per run
    Enforced,         \* authorization_enforced()
    Null              \* an absent row or column

Discoveries == {"ip_discovery", "bacnet_discovery"}
Jobs        == Discoveries \cup {"udmi_validation"}
Relations   == {"none", "retry", "property_expansion"}
Roles       == {"reviewer", "engineer", "admin"}

\* What a run context freezes.  initiator = Null is the synthetic principal of
\* a standalone deployment; key = Null is a submission without a retry key.
RequestType ==
    [key: IdempotencyKeys \cup {Null}, job: Jobs, dry: BOOLEAN,
     resources: SUBSET ProtocolKeys, plan: Plans,
     initiator: Users \cup {Null}, parent: Runs \cup {Null},
     relation: Relations]

Terminal == {"succeeded", "failed", "cancelled"}
Live     == {"queued", "running"}
Statuses == {"absent"} \cup Live \cup Terminal

Stages ==
    {"absent", "awaiting_dispatch", "worker_claimed", "engine_working",
     "engine_succeeded", "engine_failed", "engine_cancelled",
     "active_control_lost", "authorization_invalid", "cancelled_before_start",
     "lease_expired", "lease_expired_cancelled",
     "lease_expired_observation_quarantined",
     "lease_expired_cancelled_observation_quarantined"}

\* RunResult together with RunSeal: both rows are written by one transaction.
SealType == [status: Terminal, stage: Stages]

AuthType ==
    [preview: Runs, plan: Plans, notBefore: Nat, notAfter: Nat,
     consumedBy: Runs \cup {Null}, revoked: BOOLEAN]

UserType == [active: BOOLEAN, role: Roles, granted: BOOLEAN]
SlotType == [run: Runs, owner: Tokens \cup {Null}]

ASSUME ConstantsAssumption ==
    /\ LeaseLength \in Nat \ {0}
    /\ LockWait \in Nat
    /\ MaxTime \in Nat
    /\ MaxConflicts \in Nat
    /\ RequiredWindow \in Nat
    /\ Enforced \in BOOLEAN
    /\ Windows \subseteq Nat \X Nat
    /\ Requests \subseteq RequestType

ASSUME NullAssumption ==
    /\ Null \notin Runs \cup Tokens \cup IdempotencyKeys \cup Users \cup Auths
    /\ Null \notin RequestType
    /\ Null \notin SealType
    /\ Null \notin AuthType
    /\ Null \notin SlotType

VARIABLES
    now,              \* wall clock of the database transactions
    status,           \* Run.status
    stage,            \* Run.stage, standing for the summary written with it
    owner,            \* Run.owner_token
    attempt,          \* Run.attempt
    lease,            \* Run.lease_expires_at, 0 for NULL
    cancelRequested,  \* Run.cancel_requested
    request,          \* RunExecutionContext
    sealed,           \* RunResult and RunSeal
    dispatch,         \* RunDispatch.state
    slot,             \* ActiveProtocolSlot rows
    idem,             \* RunIdempotencyKey rows
    links,            \* RunLink rows
    auth,             \* ScanAuthorization rows
    user,             \* User and UserScopeGrant rows
    conflicts,        \* number of RunLifecycleConflict rows
    cancelView        \* the row a request_cancel transaction has read

runVars  == <<status, stage, owner, attempt, lease, cancelRequested, sealed>>
formVars == <<request, dispatch, idem, links>>
vars == <<now, runVars, formVars, slot, auth, user, conflicts, cancelView>>

Exists(r) == status[r] # "absent"
IsDiscovery(q) == q.job \in Discoveries

\* A dry run reserves nothing, whatever its contract lists.
ResourceKeys(q) == IF q.dry THEN {} ELSE q.resources

\* The timestamps a caller may hold that sampled the clock before its lock.
SampledTimes == {t \in 0..now : now - t <= LockWait}

Init ==
    /\ now = 0
    /\ status = [r \in Runs |-> "absent"]
    /\ stage = [r \in Runs |-> "absent"]
    /\ owner = [r \in Runs |-> Null]
    /\ attempt = [r \in Runs |-> 0]
    /\ lease = [r \in Runs |-> 0]
    /\ cancelRequested = [r \in Runs |-> FALSE]
    /\ request = [r \in Runs |-> Null]
    /\ sealed = [r \in Runs |-> Null]
    /\ dispatch = [r \in Runs |-> "none"]
    /\ slot = [k \in ProtocolKeys |-> Null]
    /\ idem = [k \in IdempotencyKeys |-> Null]
    /\ links = {}
    /\ auth = [a \in Auths |-> Null]
    /\ user = [u \in Users |-> [active |-> TRUE, role |-> "engineer", granted |-> TRUE]]
    /\ conflicts = [r \in Runs |-> 0]
    /\ cancelView = Null

-----------------------------------------------------------------------------
(* Scan authorizations.                                                    *)

SealedPreview(p) ==
    /\ sealed[p] # Null
    /\ request[p].dry
    /\ status[p] = "succeeded"
    /\ sealed[p].status = "succeeded"

CreateScanAuthorization(a, p, w, t) ==
    /\ auth[a] = Null
    /\ w[1] < w[2]
    /\ t < w[2]
    /\ SealedPreview(p)
    /\ IsDiscovery(request[p])
    /\ w[2] - w[1] >= RequiredWindow
    /\ auth' = [auth EXCEPT ![a] =
                  [preview |-> p, plan |-> request[p].plan,
                   notBefore |-> w[1], notAfter |-> w[2],
                   consumedBy |-> Null, revoked |-> FALSE]]
    /\ UNCHANGED <<now, runVars, formVars, slot, user, conflicts, cancelView>>

RevokeScanAuthorization(a) ==
    /\ auth[a] # Null
    /\ ~auth[a].revoked
    /\ auth' = [auth EXCEPT ![a].revoked = TRUE]
    /\ UNCHANGED <<now, runVars, formVars, slot, user, conflicts, cancelView>>

\* use_count and consumed_run_id are set by one guarded update.
UsableForAnyPlan(a, q, t) ==
    /\ auth[a] # Null
    /\ SealedPreview(auth[a].preview)
    /\ IsDiscovery(q)
    /\ ~auth[a].revoked
    /\ auth[a].consumedBy = Null
    /\ auth[a].notBefore <= t
    /\ t < auth[a].notAfter

UsableForCreate(a, q, t) ==
    /\ auth[a] # Null
    /\ SealedPreview(auth[a].preview)
    /\ auth[a].plan = request[auth[a].preview].plan
    /\ IsDiscovery(q)
    /\ q.plan = auth[a].plan
    /\ ~auth[a].revoked
    /\ auth[a].consumedBy = Null
    /\ auth[a].notBefore <= t
    /\ t < auth[a].notAfter

AuthorizationOf(r) == {a \in Auths : auth[a] # Null /\ auth[a].consumedBy = r}

DeniedAtClaim(a) ==
    \/ auth[a].revoked
    \/ now < auth[a].notBefore
    \/ now >= auth[a].notAfter

-----------------------------------------------------------------------------
(* Creation.                                                               *)

UnsealedRetryParent(q) == q.parent # Null /\ Exists(q.parent) /\ request[q.parent].job = q.job

RetryParentValid(q) ==
    /\ q.parent # Null
    /\ sealed[q.parent] # Null
    /\ ~request[q.parent].dry
    /\ request[q.parent].job = q.job
    /\ status[q.parent] \in Terminal
    /\ sealed[q.parent].status = status[q.parent]

PropertyParentValid(q) ==
    /\ q.parent # Null
    /\ sealed[q.parent] # Null
    /\ q.job = "bacnet_discovery"
    /\ request[q.parent].job = "bacnet_discovery"
    /\ status[q.parent] = "succeeded"
    /\ sealed[q.parent].status = "succeeded"

ParentValid(q) ==
    /\ q.relation = "retry" => RetryParentValid(q)
    /\ q.relation = "property_expansion" => PropertyParentValid(q)

ReplayWhileOpen(q) ==
    IF q.key = Null THEN Null
    ELSE IF idem[q.key] # Null /\ sealed[idem[q.key]] # Null THEN Null ELSE idem[q.key]

\* The canonical run of a keyed submission that was already accepted.
Replay(q) == IF q.key = Null THEN Null ELSE idem[q.key]

ParentLinks(r, q, a) ==
    (IF a = Null THEN {} ELSE {<<auth[a].preview, r, "preview">>})
      \cup (IF q.relation = "none" THEN {} ELSE {<<q.parent, r, q.relation>>})

\* A replay, an invalid approval or parent, a key conflict and an occupied slot
\* all leave the tables as they were: only the accepted creation is a step.
CreateRun(r, q, a, t) ==
    /\ ~Exists(r)
    /\ Replay(q) = Null
    /\ a # Null => ~q.dry /\ UsableForCreate(a, q, t)
    /\ ParentValid(q)
    /\ \A k \in ResourceKeys(q) : slot[k] = Null
    /\ status' = [status EXCEPT ![r] = "queued"]
    /\ stage' = [stage EXCEPT ![r] = "awaiting_dispatch"]
    /\ request' = [request EXCEPT ![r] = q]
    /\ dispatch' = [dispatch EXCEPT ![r] = "pending"]
    /\ idem' = [k \in IdempotencyKeys |-> IF k = q.key THEN r ELSE idem[k]]
    /\ links' = links \cup ParentLinks(r, q, a)
    /\ slot' = [k \in ProtocolKeys |->
                  IF k \in ResourceKeys(q) THEN [run |-> r, owner |-> Null] ELSE slot[k]]
    /\ auth' = [x \in Auths |-> IF x = a THEN [auth[x] EXCEPT !.consumedBy = r] ELSE auth[x]]
    /\ UNCHANGED <<now, owner, attempt, lease, cancelRequested, sealed, user,
                   conflicts, cancelView>>

MarkDispatchPublished(r) ==
    /\ Exists(r)
    /\ dispatch' = [dispatch EXCEPT ![r] = "published"]
    /\ UNCHANGED <<now, runVars, request, idem, links, slot, auth, user,
                   conflicts, cancelView>>

-----------------------------------------------------------------------------
(* The terminal transaction every path shares.                             *)

FinalizeKeepingSlots(r, terminal) ==
    /\ status' = [status EXCEPT ![r] = terminal.status]
    /\ stage' = [stage EXCEPT ![r] = terminal.stage]
    /\ sealed' = [sealed EXCEPT ![r] = terminal]
    /\ lease' = [lease EXCEPT ![r] = 0]
    /\ UNCHANGED <<now, owner, attempt, slot, formVars, auth, user>>

\* Result, seal, terminal columns and slot release commit together.
ApplyFinalization(r, terminal) ==
    /\ status' = [status EXCEPT ![r] = terminal.status]
    /\ stage' = [stage EXCEPT ![r] = terminal.stage]
    /\ sealed' = [sealed EXCEPT ![r] = terminal]
    /\ lease' = [lease EXCEPT ![r] = 0]
    /\ slot' = [k \in ProtocolKeys |->
                  IF slot[k] # Null /\ slot[k].run = r THEN Null ELSE slot[k]]
    /\ UNCHANGED <<now, owner, attempt, formVars, auth, user>>

RecordConflict(r) ==
    /\ conflicts[r] < MaxConflicts
    /\ conflicts' = [conflicts EXCEPT ![r] = @ + 1]
    /\ UNCHANGED <<now, runVars, formVars, slot, auth, user, cancelView>>

-----------------------------------------------------------------------------
(* Claim, heartbeat and progress.                                          *)

Claimable(r) == status[r] = "queued" /\ owner[r] = Null

\* A later claim of a run that is no longer queued changes nothing.
ClaimRun(r, token) ==
    /\ Claimable(r)
    /\ \A a \in AuthorizationOf(r) : ~DeniedAtClaim(a)
    /\ \A x \in Runs : owner[x] # token
    /\ status' = [status EXCEPT ![r] = "running"]
    /\ stage' = [stage EXCEPT ![r] = "worker_claimed"]
    /\ owner' = [owner EXCEPT ![r] = token]
    /\ attempt' = [attempt EXCEPT ![r] = @ + 1]
    /\ lease' = [lease EXCEPT ![r] = now + LeaseLength]
    /\ slot' = [k \in ProtocolKeys |->
                  IF slot[k] # Null /\ slot[k].run = r
                  THEN [run |-> r, owner |-> token] ELSE slot[k]]
    /\ UNCHANGED <<now, cancelRequested, sealed, formVars, auth, user, conflicts, cancelView>>

ClaimDenied(r) ==
    /\ Claimable(r)
    /\ \E a \in AuthorizationOf(r) : DeniedAtClaim(a)
    /\ ApplyFinalization(r, [status |-> "failed", stage |-> "authorization_invalid"])
    /\ UNCHANGED <<cancelRequested, conflicts, cancelView>>

\* A message whose dispatch belongs to another run is audited and dropped.
ClaimMismatch(r) == Exists(r) /\ RecordConflict(r)

OwnsLeaseAtDeadline(r, token) ==
    status[r] = "running" /\ owner[r] = token /\ lease[r] >= now

OwnedLeaseWhenSampled(r, token) ==
    status[r] = "running" /\ owner[r] = token /\ \E t \in SampledTimes : lease[r] > t

\* The fence of every owner write, evaluated at a time sampled under the lock.
OwnsLiveLease(r, token) ==
    /\ status[r] = "running"
    /\ owner[r] = token
    /\ lease[r] > now

Heartbeat(r, token) ==
    /\ OwnsLiveLease(r, token)
    /\ lease' = [lease EXCEPT ![r] = now + LeaseLength]
    /\ UNCHANGED <<now, status, stage, owner, attempt, cancelRequested, sealed,
                   formVars, slot, auth, user, conflicts, cancelView>>

UpdateProgress(r, token) ==
    /\ OwnsLiveLease(r, token)
    /\ stage' = [stage EXCEPT ![r] = "engine_working"]
    /\ UNCHANGED <<now, status, owner, attempt, lease, cancelRequested, sealed,
                   formVars, slot, auth, user, conflicts, cancelView>>

RejectOwnerWrite(r, token) ==
    /\ Exists(r)
    /\ ~OwnsLiveLease(r, token)
    /\ RecordConflict(r)

-----------------------------------------------------------------------------
(* Cancellation.                                                           *)

CancelRead(r) ==
    /\ cancelView = Null
    /\ status[r] \in Live
    /\ cancelView' = [run |-> r, status |-> status[r]]
    /\ UNCHANGED <<now, runVars, formVars, slot, auth, user, conflicts>>

\* The guarded update of a run that was read as queued and still is.
CancelQueued ==
    /\ cancelView # Null
    /\ cancelView.status = "queued"
    /\ Claimable(cancelView.run)
    /\ cancelRequested' = [cancelRequested EXCEPT ![cancelView.run] = TRUE]
    /\ ApplyFinalization(cancelView.run,
                         [status |-> "cancelled", stage |-> "cancelled_before_start"])
    /\ cancelView' = Null
    /\ UNCHANGED conflicts

\* The guarded update of a running run: the first read, or the reload after the
\* queued update matched no row.
CancelRunning ==
    /\ cancelView # Null
    /\ status[cancelView.run] = "running"
    /\ cancelRequested' = [cancelRequested EXCEPT ![cancelView.run] = TRUE]
    /\ cancelView' = Null
    /\ UNCHANGED <<now, status, stage, owner, attempt, lease, sealed, formVars,
                   slot, auth, user, conflicts>>

\* The run reached a terminal state first.
CancelTooLate ==
    /\ cancelView # Null
    /\ status[cancelView.run] \in Terminal
    /\ cancelView' = Null
    /\ UNCHANGED <<now, runVars, formVars, slot, auth, user, conflicts>>

-----------------------------------------------------------------------------
(* Finalization.                                                           *)

InitiatorActive(q) ==
    \/ q.initiator = Null
    \/ /\ user[q.initiator].active
       /\ \/ user[q.initiator].role = "admin"
          \/ user[q.initiator].role = "engineer" /\ user[q.initiator].granted

AuthorizationInWindow(r) ==
    \/ AuthorizationOf(r) = {} /\ ~Enforced
    \/ \E a \in AuthorizationOf(r) : auth[a].notBefore <= now /\ now < auth[a].notAfter

AuthorizationActive(r) ==
    \/ AuthorizationOf(r) = {} /\ ~Enforced
    \/ \E a \in AuthorizationOf(r) :
         /\ <<auth[a].preview, r, "preview">> \in links
         /\ ~auth[a].revoked
         /\ auth[a].notBefore <= now
         /\ now < auth[a].notAfter
         /\ auth[a].plan = request[r].plan

ApprovedControl(r, token) ==
    /\ OwnsLiveLease(r, token)
    /\ ~cancelRequested[r]
    /\ ~request[r].dry => AuthorizationActive(r)

ActiveControl(r, token) ==
    /\ OwnsLiveLease(r, token)
    /\ ~cancelRequested[r]
    /\ ~request[r].dry => AuthorizationActive(r) /\ InitiatorActive(request[r])

EngineTerminal(s) ==
    [status |-> s,
     stage |-> CASE s = "succeeded" -> "engine_succeeded"
                 [] s = "failed"    -> "engine_failed"
                 [] s = "cancelled" -> "engine_cancelled"]

\* A stop request turns any other answer into a cancellation.
CancelOverride(r, s) == IF cancelRequested[r] THEN "cancelled" ELSE s

\* A discovery success is sealed only while its approval and initiator stand.
FenceSuccessTerminal(r, token, s) ==
    IF s = "succeeded" /\ IsDiscovery(request[r]) /\ ~ActiveControl(r, token)
    THEN [status |-> "failed", stage |-> "active_control_lost"]
    ELSE EngineTerminal(s)

MayFinalize(r, token, terminal) ==
    /\ sealed[r] = Null
    /\ OwnsLiveLease(r, token)
    /\ cancelRequested[r] => terminal.status = "cancelled"

IsReplay(r, token, terminal) ==
    /\ sealed[r] # Null
    /\ owner[r] = token
    /\ sealed[r] = terminal

FinalizeApplied(r, token, terminal) ==
    /\ MayFinalize(r, token, terminal)
    /\ ApplyFinalization(r, terminal)
    /\ UNCHANGED <<cancelRequested, conflicts, cancelView>>

FinalizeReplayed(r, token, terminal) ==
    /\ IsReplay(r, token, terminal)
    /\ UNCHANGED vars

FinalizeConflict(r, token, terminal) ==
    /\ ~MayFinalize(r, token, terminal)
    /\ ~IsReplay(r, token, terminal)
    /\ RecordConflict(r)

FinalizeRun(r, token, s) ==
    /\ Exists(r)
    /\ LET terminal == FenceSuccessTerminal(r, token, CancelOverride(r, s))
       IN  \/ FinalizeApplied(r, token, terminal)
           \/ FinalizeReplayed(r, token, terminal)
           \/ FinalizeConflict(r, token, terminal)

-----------------------------------------------------------------------------
(* Recovery.                                                               *)

ExpiredAt(r, t) ==
    /\ status[r] = "running"
    /\ lease[r] # 0
    /\ lease[r] <= t

RecoveredAsFailed(r) == "failed"

RecoveredStatus(r) == IF cancelRequested[r] THEN "cancelled" ELSE "failed"

RecoverExpired(r, t) ==
    /\ ExpiredAt(r, t)
    /\ ApplyFinalization(r,
         [status |-> RecoveredStatus(r),
          stage |-> IF cancelRequested[r] THEN "lease_expired_cancelled" ELSE "lease_expired"])
    /\ UNCHANGED <<cancelRequested, conflicts, cancelView>>

\* A discovery run whose committed observations cannot be folded.
QuarantineExpired(r, t) ==
    /\ ExpiredAt(r, t)
    /\ IsDiscovery(request[r])
    /\ conflicts[r] < MaxConflicts
    /\ conflicts' = [conflicts EXCEPT ![r] = @ + 1]
    /\ ApplyFinalization(r,
         [status |-> RecoveredStatus(r),
          stage |-> IF cancelRequested[r]
                    THEN "lease_expired_cancelled_observation_quarantined"
                    ELSE "lease_expired_observation_quarantined"])
    /\ UNCHANGED <<cancelRequested, cancelView>>

-----------------------------------------------------------------------------
(* User administration and the clock.                                      *)

ChangeUser(u, row) ==
    /\ user[u] # row
    /\ user' = [user EXCEPT ![u] = row]
    /\ UNCHANGED <<now, runVars, formVars, slot, auth, conflicts, cancelView>>

SetActive(u, b) == ChangeUser(u, [user[u] EXCEPT !.active = b])
UpdateRole(u, role) == ChangeUser(u, [user[u] EXCEPT !.role = role])
CreateGrant(u) == user[u].active /\ ChangeUser(u, [user[u] EXCEPT !.granted = TRUE])
RevokeGrant(u) == ChangeUser(u, [user[u] EXCEPT !.granted = FALSE])

Tick ==
    /\ now < MaxTime
    /\ now' = now + 1
    /\ UNCHANGED <<runVars, formVars, slot, auth, user, conflicts, cancelView>>

-----------------------------------------------------------------------------
Submission ==
    \E r \in Runs, q \in Requests, a \in Auths \cup {Null}, t \in SampledTimes :
        CreateRun(r, q, a, t)

Approval ==
    \E a \in Auths :
        \/ \E p \in Runs, w \in Windows, t \in SampledTimes :
             CreateScanAuthorization(a, p, w, t)
        \/ RevokeScanAuthorization(a)

Execution ==
    \E r \in Runs :
        \/ \E token \in Tokens :
             \/ \E s \in Terminal : FinalizeRun(r, token, s)
             \/ ClaimRun(r, token)
             \/ Heartbeat(r, token)
             \/ UpdateProgress(r, token)
             \/ RejectOwnerWrite(r, token)
        \/ MarkDispatchPublished(r)
        \/ ClaimDenied(r)
        \/ ClaimMismatch(r)

Cancellation ==
    \/ \E r \in Runs : CancelRead(r)
    \/ CancelQueued
    \/ CancelRunning
    \/ CancelTooLate

Recovery ==
    \E r \in Runs, t \in SampledTimes : RecoverExpired(r, t) \/ QuarantineExpired(r, t)

Administration ==
    \E u \in Users :
        \/ \E b \in BOOLEAN : SetActive(u, b)
        \/ \E role \in Roles : UpdateRole(u, role)
        \/ CreateGrant(u)
        \/ RevokeGrant(u)

Next ==
    \/ Submission
    \/ Approval
    \/ Execution
    \/ Cancellation
    \/ Recovery
    \/ Administration
    \/ Tick

Spec == Init /\ [][Next]_vars

-----------------------------------------------------------------------------
(* Properties.                                                             *)

TypeOK ==
    /\ now \in 0..MaxTime
    /\ status \in [Runs -> Statuses]
    /\ stage \in [Runs -> Stages]
    /\ owner \in [Runs -> Tokens \cup {Null}]
    /\ attempt \in [Runs -> Nat]
    /\ lease \in [Runs -> Nat]
    /\ cancelRequested \in [Runs -> BOOLEAN]
    /\ request \in [Runs -> Requests \cup {Null}]
    /\ sealed \in [Runs -> SealType \cup {Null}]
    /\ dispatch \in [Runs -> {"none", "pending", "published"}]
    /\ slot \in [ProtocolKeys -> SlotType \cup {Null}]
    /\ idem \in [IdempotencyKeys -> Runs \cup {Null}]
    /\ links \subseteq Runs \X Runs \X (Relations \cup {"preview"})
    /\ auth \in [Auths -> AuthType \cup {Null}]
    /\ user \in [Users -> UserType]
    /\ conflicts \in [Runs -> 0..MaxConflicts]
    /\ cancelView \in [run: Runs, status: Live] \cup {Null}

\* A run is terminal exactly when its result and seal exist; both tell the same
\* story as the run row, and no lease outlives them (_apply_finalization).
SealMatchesRun ==
    \A r \in Runs :
        /\ (status[r] \in Terminal) <=> (sealed[r] # Null)
        /\ sealed[r] # Null =>
             sealed[r].status = status[r] /\ sealed[r].stage = stage[r]
        /\ (lease[r] # 0) <=> (status[r] = "running")

\* The slots held are exactly the resources of the live runs, under the token
\* that owns the run: two live runs never share a protocol resource and a
\* sealed run never keeps one (create, claim_run, _apply_finalization).
SlotsFollowLiveRuns ==
    /\ \A k \in ProtocolKeys : slot[k] # Null =>
         /\ status[slot[k].run] \in Live
         /\ k \in ResourceKeys(request[slot[k].run])
         /\ slot[k].owner = owner[slot[k].run]
    /\ \A r \in Runs : status[r] \in Live =>
         \A k \in ResourceKeys(request[r]) : slot[k] # Null /\ slot[k].run = r

\* An accepted stop request decides the outcome, whichever of the owner, the
\* recovery sweep and the cancelling client writes it (request_cancel,
\* finalize_run, recover_expired_leases).
StopDecidesOutcome ==
    \A r \in Runs : cancelRequested[r] /\ sealed[r] # Null => sealed[r].status = "cancelled"

\* A run that was sealed before it started never had an owner, and a run that
\* had one is not sealed as unstarted: a cancel that read a queued run cannot
\* seal it under a worker that has claimed it meanwhile.
UnstartedSealsHadNoOwner ==
    \A r \in Runs : sealed[r] # Null =>
        (owner[r] = Null <=> stage[r] \in {"cancelled_before_start", "authorization_invalid"})

\* Each approval pays for at most one live run, of its own packet plan, linked
\* to the succeeded dry preview the approver saw, and each preview link was
\* paid for (create_run_with_context, _validate_authorization_for_create).
ApprovalLineage ==
    /\ \A a \in Auths : auth[a] # Null => SealedPreview(auth[a].preview)
    /\ \A a \in Auths : auth[a] # Null /\ auth[a].consumedBy # Null =>
         LET r == auth[a].consumedBy
         IN  /\ Exists(r)
             /\ ~request[r].dry
             /\ request[r].plan = auth[a].plan
             /\ auth[a].plan = request[auth[a].preview].plan
             /\ AuthorizationOf(r) = {a}
    /\ \A l \in links : l[3] = "preview" =>
         \E a \in AuthorizationOf(l[2]) : auth[a].preview = l[1]

\* Every parent a run was derived from was sealed before the run existed, so
\* provenance never loops and never rests on a result that can still change.
ParentsAreSealed ==
    \A l \in links :
        /\ sealed[l[1]] # Null
        /\ l[1] # l[2]
        /\ l[3] # "retry" => sealed[l[1]].status = "succeeded"

\* A retry key names one run for ever: submissions repeated under it cannot
\* create a second one, even after the first is sealed.
KeyNamesOneRun ==
    \A r1, r2 \in Runs :
        Exists(r1) /\ Exists(r2) /\ request[r1].key # Null /\ request[r1].key = request[r2].key
            => r1 = r2 /\ idem[request[r1].key] = r1

\* What is sealed stays as it was sealed: no late owner, cancel, sweep or
\* client changes the row, its stage, its owner or its context afterwards.
SealedForever ==
    [][\A r \in Runs : sealed[r] # Null =>
          /\ sealed'[r] = sealed[r]
          /\ status'[r] = status[r]
          /\ stage'[r] = stage[r]
          /\ owner'[r] = owner[r]
          /\ cancelRequested'[r] = cancelRequested[r]
          /\ request'[r] = request[r]]_vars

RecoveryStages ==
    {"lease_expired", "lease_expired_cancelled",
     "lease_expired_observation_quarantined",
     "lease_expired_cancelled_observation_quarantined"}

\* The owner and the recovery sweep never race for a running run: before the
\* lease expires only the owner can seal it, from then on only recovery can.
LeaseSeparatesOwnerFromRecovery ==
    [][\A r \in Runs : status[r] = "running" /\ sealed'[r] # Null =>
          (sealed'[r].stage \in RecoveryStages <=> lease[r] <= now)]_vars

\* A run is executed in one attempt by one owner: redelivered messages and a
\* second claimer never take it over, live or lapsed (claim_run).
ExecutedOnce ==
    [][\A r \in Runs : owner[r] # Null =>
          owner'[r] = owner[r] /\ attempt'[r] = attempt[r]]_vars

\* An owner that let its lease lapse cannot revive it, however long its write
\* waited for the lock (heartbeat).
LapsedLeaseStaysLapsed ==
    [][\A r \in Runs : status[r] = "running" /\ lease[r] <= now =>
          lease'[r] \in {lease[r], 0}]_vars

\* Once the approval of an open live run is revoked it stays revoked and spent,
\* and the run can no longer be sealed as a success, whatever its executor
\* reports (revoke_scan_authorization, claim_run, _fence_success_terminal).
RevocationStopsSuccess ==
    [][\A r \in Runs, a \in Auths :
          status[r] \in Live /\ a \in AuthorizationOf(r) /\ auth[a].revoked
          => auth'[a] = auth[a] /\ status'[r] # "succeeded"]_vars

\* A successful live discovery is sealed only at a moment when its approval was
\* in its window and its named initiator still had the role and the grant.
SuccessUnderControl ==
    [][\A r \in Runs :
          status[r] = "running" /\ status'[r] = "succeeded"
            /\ IsDiscovery(request[r]) /\ ~request[r].dry
          => AuthorizationActive(r) /\ InitiatorActive(request[r])]_vars

-----------------------------------------------------------------------------
(* The abstract specification the lifecycle implements.                    *)

PhaseOf(st) ==
    CASE st = "absent" -> "unborn"
      [] st = "queued" -> "waiting"
      [] st = "running" -> "executing"
      [] OTHER -> "closed"

Promise ==
    INSTANCE RunPromise WITH
        Runs <- Runs, Resources <- ProtocolKeys, Nobody <- Null,
        phase <- [r \in Runs |-> PhaseOf(status[r])],
        stop <- [r \in Runs |-> status[r] = "running" /\ cancelRequested[r]],
        verdict <- [r \in Runs |-> IF status[r] \in Terminal THEN status[r] ELSE "none"],
        holder <- [k \in ProtocolKeys |-> IF slot[k] = Null THEN Null ELSE slot[k].run]

\* Every step of the repository is a step of the promise or leaves it alone.
KeepsPromise == Promise!Spec
=============================================================================
