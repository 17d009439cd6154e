-------------------------- MODULE RunDispatchProofs --------------------------
(***************************************************************************)
(* Theorems about RunDispatch for any number of runs and workers and any   *)
(* number of faults, failed claims and crashes.                            *)
(***************************************************************************)
EXTENDS RunDispatch, TLAPS

\* What the arguments below need to know of the types; the order of the outbox
\* and the page of the maintenance pass play no part in them.
Types ==
    /\ status \in [Runs -> {"absent", "queued", "running", "sealed"}]
    /\ claims \in [Runs -> Nat]
    /\ outbox \in [Runs -> {"none", "pending", "published"}]
    /\ queue \in [Runs -> Nat]
    /\ request \in [Runs -> {"none", "publish", "mark", "claim", "done"}]
    /\ worker \in [Workers -> [pc: {"idle", "claim", "execute"}, run: Runs \cup {NoRun}]]
    /\ faults \in [publish: Nat, claim: Nat, crash: Nat]

-----------------------------------------------------------------------------
(* One execution.                                                          *)

\* A run that was not claimed yet has no claim, and a claimed one has one.
ClaimsFollowStatus ==
    \A r \in Runs : /\ claims[r] <= 1
                    /\ status[r] \in {"absent", "queued"} => claims[r] = 0

\* The three ways a step treats the run row of r.
LEMMA RunRows ==
    ASSUME Types, ClaimsFollowStatus, NEW r
    PROVE  /\ Seal(r) \/ (\E who : ClaimGranted(r, who)) \/ UNCHANGED runVars =>
                /\ status' \in [Runs -> {"absent", "queued", "running", "sealed"}]
                /\ claims' \in [Runs -> Nat]
                /\ ClaimsFollowStatus'
                /\ \A x \in Runs : status'[x] = "queued" => status[x] = "queued"
                /\ \A x \in Runs : status[x] # "absent" => status'[x] # "absent"
           /\ Seal(r) \/ (\E who : ClaimGranted(r, who)) => r \notin Runs \/ status'[r] # "queued"
  BY DEF Types, ClaimsFollowStatus, Seal, ClaimGranted, StartsExecution, runVars

\* A fault is one more of its kind, so no fault is ever forgotten.
LEMMA FaultTypes ==
    ASSUME Types, NEW kind \in {"publish", "claim", "crash"}, NEW bound, Fault(kind, bound)
    PROVE  /\ faults' \in [publish: Nat, claim: Nat, crash: Nat]
           /\ faults'.claim = 0 => faults.claim = 0 /\ kind # "claim"
  BY DEF Types, Fault

-----------------------------------------------------------------------------
(* No publication in vain.                                                 *)

Deliverable(r) == queue[r] > 0 \/ \E w \in Workers : worker[w].run = r

FreeWorkersHoldNothing == \A w \in Workers : worker[w].pc = "idle" => worker[w].run = NoRun

\* A row the maintenance pass is working on belongs to a run that exists.
PassHoldsARun ==
    maint.pc \in {"publish", "mark"} =>
       \A r \in Runs : r = Head(maint.page) => status[r] # "absent"

\* While no claim has raised, a queued run whose row is published, or is about
\* to be, has a message or a worker.
NothingInVain ==
    faults.claim = 0 =>
       \A r \in Runs :
         /\ status[r] = "queued"
         /\ outbox[r] = "published" \/ request[r] = "mark" \/ (maint.pc = "mark" /\ r = Head(maint.page))
         => Deliverable(r)

DispatchInv ==
    /\ Types
    /\ ClaimsFollowStatus
    /\ FreeWorkersHoldNothing
    /\ PassHoldsARun
    /\ NothingInVain

LEMMA InitDispatchInv == Init => DispatchInv
  BY DEF Init, DispatchInv, Types, ClaimsFollowStatus, FreeWorkersHoldNothing, PassHoldsARun,
         NothingInVain

LEMMA RequestKeepsInv ==
    ASSUME DispatchInv, NEW r \in Runs, RequestStep(r) \/ InlineFinishes(r)
    PROVE  DispatchInv'
  <1> USE DEF DispatchInv
  <1>1. CASE RequestPublishes(r)
    <2>1. UNCHANGED <<runVars, outbox, maint, worker>>
      BY <1>1 DEF RequestPublishes
    <2>2. /\ faults' \in [publish: Nat, claim: Nat, crash: Nat]
          /\ faults'.claim = 0 => faults.claim = 0
      BY <1>1, FaultTypes DEF RequestPublishes, PublicationRefused, PublishFault, Types
    <2>3. /\ queue' \in [Runs -> Nat]
          /\ \A x \in Runs : queue'[x] >= queue[x]
          /\ request'[r] = "mark" => queue'[r] > 0
          /\ request' \in [Runs -> {"none", "publish", "mark", "claim", "done"}]
          /\ \A x \in Runs : x # r => request'[x] = request[x]
      BY <1>1 DEF RequestPublishes, PublicationRefused, Enqueue, RequestGoes, Types
    <2>4. QED
      BY <2>1, <2>2, <2>3
      DEF Types, ClaimsFollowStatus, FreeWorkersHoldNothing, PassHoldsARun, NothingInVain,
          Deliverable, runVars
  <1>2. CASE RequestMarks(r)
    <2>1. UNCHANGED <<runVars, queue, maint, worker>>
      BY <1>2 DEF RequestMarks
    <2>2. /\ faults' \in [publish: Nat, claim: Nat, crash: Nat]
          /\ faults'.claim = 0 => faults.claim = 0
      BY <1>2, FaultTypes DEF RequestMarks, MarkPublished, PublishFault, Types
    <2>3. /\ outbox' \in [Runs -> {"none", "pending", "published"}]
          /\ request' \in [Runs -> {"none", "publish", "mark", "claim", "done"}]
          /\ request[r] = "mark"
          /\ \A x \in Runs : x # r => outbox'[x] = outbox[x] /\ request'[x] = request[x]
      BY <1>2 DEF RequestMarks, MarkPublished, RequestGoes, Types
    <2>4. QED
      BY <2>1, <2>2, <2>3
      DEF Types, ClaimsFollowStatus, FreeWorkersHoldNothing, PassHoldsARun, NothingInVain,
          Deliverable, runVars
  <1>3. CASE RequestClaims(r)
    <2>1. UNCHANGED <<outbox, queue, maint, worker>>
      BY <1>3 DEF RequestClaims
    <2>2. /\ faults' \in [publish: Nat, claim: Nat, crash: Nat]
          /\ faults'.claim = 0 => faults.claim = 0
      BY <1>3, FaultTypes DEF RequestClaims, ClaimFails, Types
    <2>3. Seal(r) \/ (\E who : ClaimGranted(r, who)) \/ UNCHANGED runVars
      BY <1>3 DEF RequestClaims, ClaimRefused, ClaimFails
    <2>4. /\ request' \in [Runs -> {"none", "publish", "mark", "claim", "done"}]
          /\ \A x \in Runs : x # r => request'[x] = request[x]
          /\ request'[r] = "mark" => \E who : ClaimGranted(r, who)
      BY <1>3 DEF RequestClaims, RequestGoes, Types
    <2>5. QED
      BY <2>1, <2>2, <2>3, <2>4, RunRows
      DEF Types, FreeWorkersHoldNothing, PassHoldsARun, NothingInVain, Deliverable
  <1>4. CASE InlineFinishes(r)
    <2>1. UNCHANGED <<outbox, queue, request, maint, worker, faults>> /\ Seal(r)
      BY <1>4 DEF InlineFinishes
    <2>2. QED
      BY <2>1, RunRows
      DEF Types, FreeWorkersHoldNothing, PassHoldsARun, NothingInVain, Deliverable
  <1>5. QED
    BY <1>1, <1>2, <1>3, <1>4 DEF RequestStep

LEMMA ClientKeepsInv ==
    ASSUME DispatchInv, NEW r \in Runs, CreateRun(r) \/ CancelQueued(r) \/ Recover(r)
    PROVE  DispatchInv'
  <1> USE DEF DispatchInv
  <1>1. CASE CreateRun(r)
    <2>1. UNCHANGED <<claims, queue, maint, worker, faults>> /\ status[r] = "absent"
      BY <1>1 DEF CreateRun
    <2>2. /\ status' = [status EXCEPT ![r] = "queued"]
          /\ outbox' = [outbox EXCEPT ![r] = "pending"]
          /\ request' \in {[request EXCEPT ![r] = "claim"], [request EXCEPT ![r] = "publish"]}
      BY <1>1 DEF CreateRun, RequestGoes
    <2>3. Types' /\ ClaimsFollowStatus' /\ FreeWorkersHoldNothing'
      BY <2>1, <2>2 DEF Types, ClaimsFollowStatus, FreeWorkersHoldNothing
    <2>4. PassHoldsARun' /\ NothingInVain'
      BY <2>1, <2>2 DEF Types, PassHoldsARun, NothingInVain, Deliverable
    <2>5. QED
      BY <2>3, <2>4
  <1>2. CASE CancelQueued(r) \/ Recover(r)
    <2>1. UNCHANGED <<outbox, queue, request, maint, worker, faults>> /\ Seal(r)
      BY <1>2 DEF CancelQueued, Recover
    <2>2. QED
      BY <2>1, RunRows
      DEF Types, FreeWorkersHoldNothing, PassHoldsARun, NothingInVain, Deliverable
  <1>3. QED
    BY <1>1, <1>2

LEMMA MaintKeepsInv ==
    ASSUME DispatchInv, MaintStep
    PROVE  DispatchInv'
  <1> USE DEF DispatchInv
  <1> DEFINE head == Head(maint.page)
  <1>1. CASE MaintLists \/ MaintChecks
    <2>1. UNCHANGED <<runVars, outbox, queue, request, worker, faults>>
      BY <1>1 DEF MaintLists, MaintChecks
    <2>2. \/ maint'.pc \in {"idle", "check"}
          \/ maint'.pc = "publish" /\ maint'.page = maint.page /\ status[head] = "queued"
      BY <1>1 DEF MaintLists, MaintChecks, MaintGoes, NextRow, AdvancePage, Skipped
    <2>3. QED
      BY <2>1, <2>2
      DEF Types, ClaimsFollowStatus, FreeWorkersHoldNothing, PassHoldsARun, NothingInVain,
          Deliverable, runVars
  <1>2. CASE MaintPublishes
    <2>1. UNCHANGED <<runVars, outbox, request, worker>> /\ maint.pc = "publish"
      BY <1>2 DEF MaintPublishes
    <2>2. /\ faults' \in [publish: Nat, claim: Nat, crash: Nat]
          /\ faults'.claim = 0 => faults.claim = 0
      BY <1>2, FaultTypes DEF MaintPublishes, PublicationRefused, PublishFault, Types
    <2>3. \/ maint'.pc \in {"idle", "check"}
          \/ maint'.pc = "mark" /\ maint'.page = maint.page /\ Enqueue(head)
      BY <1>2 DEF MaintPublishes, MaintGoes, NextRow, AdvancePage
    <2>4. /\ queue' \in [Runs -> Nat]
          /\ \A x \in Runs : queue'[x] >= queue[x]
          /\ Enqueue(head) => \A x \in Runs : x = head => queue'[x] > 0
      BY <1>2 DEF MaintPublishes, PublicationRefused, Enqueue, Types
    <2>5. QED
      BY <2>1, <2>2, <2>3, <2>4
      DEF Types, ClaimsFollowStatus, FreeWorkersHoldNothing, PassHoldsARun, NothingInVain,
          Deliverable, runVars
  <1>3. CASE MaintMarks
    <2>1. UNCHANGED <<runVars, queue, request, worker>> /\ maint.pc = "mark"
      BY <1>3 DEF MaintMarks
    <2>2. /\ faults' \in [publish: Nat, claim: Nat, crash: Nat]
          /\ faults'.claim = 0 => faults.claim = 0
      BY <1>3, FaultTypes DEF MaintMarks, MarkPublished, PublishFault, Types
    <2>3. /\ outbox' \in [Runs -> {"none", "pending", "published"}]
          /\ \A x \in Runs : x # head => outbox'[x] = outbox[x]
      BY <1>3 DEF MaintMarks, MarkPublished, Types
    <2>4. maint'.pc \in {"idle", "check"}
      BY <1>3 DEF MaintMarks, MaintGoes, NextRow, AdvancePage
    <2>5. QED
      BY <2>1, <2>2, <2>3, <2>4
      DEF Types, ClaimsFollowStatus, FreeWorkersHoldNothing, PassHoldsARun, NothingInVain,
          Deliverable, runVars
  <1>4. QED
    BY <1>1, <1>2, <1>3 DEF MaintStep

LEMMA WorkerKeepsInv ==
    ASSUME DispatchInv, NEW w \in Workers, WorkerStep(w) \/ WorkerCrashes(w)
    PROVE  DispatchInv'
  <1> USE DEF DispatchInv
  <1> DEFINE run == worker[w].run
  <1>0. run \in Runs \cup {NoRun} /\ NoRun \notin Runs
    BY ConstantsAssumption DEF ConstantsAssumption, Types
  <1>1. CASE WorkerTakes(w)
    <2> PICK r \in Runs : /\ queue[r] > 0
                         /\ queue' = [queue EXCEPT ![r] = @ - 1]
                         /\ WorkerGoes(w, "claim", r)
      BY <1>1 DEF WorkerTakes
    <2>1. UNCHANGED <<runVars, outbox, request, maint, faults>> /\ run = NoRun
      BY <1>1 DEF WorkerTakes, FreeWorkersHoldNothing
    <2>2. /\ worker' \in [Workers -> [pc: {"idle", "claim", "execute"}, run: Runs \cup {NoRun}]]
          /\ worker'[w].run = r /\ worker'[w].pc = "claim"
          /\ \A x \in Workers : x # w => worker'[x] = worker[x]
      BY DEF WorkerGoes, Types
    <2>3. queue' \in [Runs -> Nat] /\ \A x \in Runs : x # r => queue'[x] = queue[x]
      BY DEF Types
    <2>4. \A x \in Runs : Deliverable(x) => Deliverable(x)'
      BY <1>0, <2>1, <2>2, <2>3 DEF Deliverable
    <2>5. QED
      BY <2>1, <2>2, <2>3, <2>4
      DEF Types, ClaimsFollowStatus, FreeWorkersHoldNothing, PassHoldsARun, NothingInVain, runVars
  <1>2. CASE WorkerClaims(w) \/ WorkerFinishes(w)
    <2>1. UNCHANGED <<outbox, queue, request, maint>>
      BY <1>2 DEF WorkerClaims, WorkerFinishes
    <2>2. /\ faults' \in [publish: Nat, claim: Nat, crash: Nat]
          /\ faults'.claim = 0 => faults' = faults
      <3>1. ClaimFails(run) => /\ faults' \in [publish: Nat, claim: Nat, crash: Nat]
                               /\ faults'.claim # 0
        BY FaultTypes DEF ClaimFails
      <3>2. QED
        BY <1>2, <3>1 DEF WorkerClaims, WorkerFinishes, Types
    <2>3. Seal(run) \/ (\E who : ClaimGranted(run, who)) \/ UNCHANGED runVars
      BY <1>2 DEF WorkerClaims, WorkerFinishes, ClaimRefused, ClaimFails
    <2>4. faults'.claim = 0 /\ run \in Runs => status'[run] # "queued"
      <3>1. ~ClaimFails(run) \/ faults'.claim # 0
        BY FaultTypes DEF ClaimFails
      <3>2. CASE WorkerClaims(w)
        BY <3>1, <3>2, RunRows DEF WorkerClaims, ClaimRefused, runVars
      <3>3. CASE WorkerFinishes(w)
        BY <3>3, RunRows DEF WorkerFinishes
      <3>4. QED
        BY <1>2, <3>2, <3>3
    <2>5. \E pc \in {"idle", "execute"}, r \in Runs \cup {NoRun} :
            /\ worker' = [worker EXCEPT ![w] = [pc |-> pc, run |-> r]]
            /\ pc = "idle" => r = NoRun
      BY <1>0, <1>2 DEF WorkerClaims, WorkerFinishes, WorkerGoes
    <2>6. /\ worker' \in [Workers -> [pc: {"idle", "claim", "execute"}, run: Runs \cup {NoRun}]]
          /\ FreeWorkersHoldNothing'
          /\ \A x \in Workers : x # w => worker'[x] = worker[x]
      BY <2>5 DEF Types, FreeWorkersHoldNothing
    <2>7. \A x \in Runs : x # run => (Deliverable(x) => Deliverable(x)')
      BY <2>1, <2>6 DEF Deliverable
    <2>8. Types' /\ ClaimsFollowStatus'
      BY <2>1, <2>2, <2>3, <2>6, RunRows DEF Types
    <2>9. PassHoldsARun'
      BY <2>1, <2>3, RunRows DEF PassHoldsARun
    <2>10. NothingInVain'
      BY <2>1, <2>2, <2>3, <2>4, <2>7, RunRows DEF NothingInVain
    <2>11. QED
      BY <2>6, <2>8, <2>9, <2>10
  <1>3. CASE WorkerCrashes(w)
    <2>1. UNCHANGED <<status, claims, outbox, request, maint>>
      BY <1>3 DEF WorkerCrashes
    <2>2. /\ faults' \in [publish: Nat, claim: Nat, crash: Nat]
          /\ faults'.claim = 0 => faults.claim = 0
      BY <1>3, FaultTypes DEF WorkerCrashes
    <2>3. /\ worker' \in [Workers -> [pc: {"idle", "claim", "execute"}, run: Runs \cup {NoRun}]]
          /\ worker'[w].run = NoRun
          /\ \A x \in Workers : x # w => worker'[x] = worker[x]
      BY <1>3 DEF WorkerCrashes, WorkerGoes, Types
    <2>4. /\ queue' \in [Runs -> Nat]
          /\ \A x \in Runs : queue'[x] >= queue[x] /\ (x = run => queue'[x] > 0)
      <3>1. /\ queue \in [Runs -> Nat]
            /\ queue' = [x \in Runs |-> IF x = run THEN queue[x] + 1 ELSE queue[x]]
        BY <1>3 DEF WorkerCrashes, Enqueue, Types
      <3> HIDE DEF run
      <3>2. QED
        BY <3>1
    <2>5. \A x \in Runs : Deliverable(x) => Deliverable(x)'
      BY <2>3, <2>4 DEF Deliverable, Types
    <2>6. QED
      BY <2>1, <2>2, <2>3, <2>4, <2>5
      DEF Types, ClaimsFollowStatus, FreeWorkersHoldNothing, PassHoldsARun, NothingInVain
  <1>4. QED
    BY <1>1, <1>2, <1>3 DEF WorkerStep

LEMMA NextDispatchInv == DispatchInv /\ [Next]_vars => DispatchInv'
  <1> SUFFICES ASSUME DispatchInv, [Next]_vars PROVE DispatchInv'
    OBVIOUS
  <1>1. CASE ApiCrashes
    <2>1. UNCHANGED <<status, claims, outbox, queue, worker>> /\ maint'.pc = "idle"
      BY <1>1 DEF ApiCrashes, MaintGoes
    <2>2. /\ faults' \in [publish: Nat, claim: Nat, crash: Nat]
          /\ faults'.claim = 0 => faults.claim = 0
      BY <1>1, FaultTypes DEF ApiCrashes, DispatchInv
    <2>3. request' \in [Runs -> {"none", "done"}]
      BY <1>1 DEF ApiCrashes
    <2>4. QED
      BY <2>1, <2>2, <2>3
      DEF DispatchInv, Types, ClaimsFollowStatus, FreeWorkersHoldNothing, PassHoldsARun,
          NothingInVain, Deliverable
  <1>2. CASE UNCHANGED vars
    BY <1>2 DEF vars, runVars, DispatchInv, Types, ClaimsFollowStatus, FreeWorkersHoldNothing,
                PassHoldsARun, NothingInVain, Deliverable
  <1>3. QED
    BY <1>1, <1>2, RequestKeepsInv, ClientKeepsInv, MaintKeepsInv, WorkerKeepsInv DEF Next, Step

LEMMA DispatchInvariant == Spec => []DispatchInv
  BY InitDispatchInv, NextDispatchInv, PTL DEF Spec

-----------------------------------------------------------------------------
\* However often a run is published, delivered, claimed and delivered again, by
\* however many workers and inline executors, it is executed once (claim_run).
THEOREM RunsExecuteOnce == Spec => []ExecutedOnce
  <1>1. DispatchInv => ExecutedOnce
    BY DEF DispatchInv, ClaimsFollowStatus, ExecutedOnce
  <1>2. QED
    BY <1>1, DispatchInvariant, PTL

\* Unless a claim raised, a queued run whose row says published has a message in
\* the queue or a worker that holds it: no crash, refused publication or lost
\* acknowledgement leaves it without both (dispatch_run, publish_pending_dispatches).
THEOREM PublicationsAreDeliverable == Spec => []PublishedIsDeliverable
  <1>1. DispatchInv => PublishedIsDeliverable
    BY DEF DispatchInv, NothingInVain, PublishedIsDeliverable, Deliverable
  <1>2. QED
    BY <1>1, DispatchInvariant, PTL

-----------------------------------------------------------------------------
(* Everybody's part.                                                       *)

Who == {"none", "api", "gone"} \cup Workers

\* A running run, and no other, has an executor, and the executor knows of it.
OwnersKnow ==
    \A r \in Runs :
      /\ owner[r] # "none" <=> status[r] = "running"
      /\ owner[r] = "api" => Inline(r) /\ request[r] \in {"mark", "done"}
      /\ owner[r] \in Workers => /\ worker[owner[r]].pc = "execute"
                                 /\ worker[owner[r]].run = r

ExecutorsOwn == \A w \in Workers : worker[w].pc = "execute" => owner[worker[w].run] = w

BusyWorkersHoldARun == \A w \in Workers : worker[w].pc # "idle" => worker[w].run \in Runs

\* What separates the runs that have an actor from the others.
Separate ==
    /\ \A r \in Runs : /\ request[r] = "publish" => ~Inline(r)
                       /\ request[r] = "claim" => Inline(r)
                       /\ Inline(r) => queue[r] = 0 /\ \A w \in Workers : worker[w].run # r
    /\ maint.pc # "idle" => ~InlineMode
    /\ maint.pc \in {"publish", "mark"} => Head(maint.page) \notin ActorlessRuns

\* Nobody forgets a queued run.
QueuedIsKnown ==
    \A r \in Runs :
      /\ status[r] # "absent" => outbox[r] # "none"
      /\ Inline(r) /\ status[r] = "queued" /\ faults.claim = 0 /\ faults.crash = 0
           => request[r] = "claim"

AttendInv ==
    /\ owner \in [Runs -> Who]
    /\ OwnersKnow
    /\ ExecutorsOwn
    /\ BusyWorkersHoldARun
    /\ Separate
    /\ QueuedIsKnown

LEMMA Names == {"none", "api", "gone"} \cap Workers = {} /\ NoRun \notin Runs
  BY ConstantsAssumption DEF ConstantsAssumption

LEMMA InitAttendInv == Init => AttendInv
  BY Names
  DEF Init, AttendInv, Who, OwnersKnow, ExecutorsOwn, BusyWorkersHoldARun, Separate,
      QueuedIsKnown

\* A step that counts faults forgets none.
LEMMA FaultsStay ==
    ASSUME DispatchInv, NEW kind \in {"publish", "claim", "crash"}, NEW bound, Fault(kind, bound)
    PROVE  /\ faults'.claim = 0 => faults.claim = 0 /\ kind # "claim"
           /\ faults'.crash = 0 => faults.crash = 0 /\ kind # "crash"
  BY DEF DispatchInv, Types, Fault

\* The request that created the run, the operator and the recovery.
LEMMA RequestAttends ==
    ASSUME DispatchInv, DispatchInv', AttendInv, NEW r \in Runs,
           RequestStep(r) \/ InlineFinishes(r) \/ CreateRun(r) \/ CancelQueued(r) \/ Recover(r)
    PROVE  AttendInv'
  <1> USE Names DEF DispatchInv, Types, AttendInv, Who
  <1>1. CASE RequestPublishes(r)
    <2>1. UNCHANGED <<status, owner, claims, outbox, maint, worker>> /\ request[r] = "publish"
      BY <1>1 DEF RequestPublishes, runVars
    <2>2. /\ faults'.claim = 0 => faults.claim = 0
          /\ faults'.crash = 0 => faults.crash = 0
      BY <1>1, FaultsStay DEF RequestPublishes, PublicationRefused, PublishFault
    <2>3. /\ \A x \in Runs : x # r => queue'[x] = queue[x] /\ request'[x] = request[x]
          /\ request'[r] \in {"mark", "done"}
      BY <1>1 DEF RequestPublishes, PublicationRefused, Enqueue, RequestGoes
    <2>4. ~Inline(r) /\ owner[r] # "api"
      BY <2>1 DEF Separate, OwnersKnow
    <2>5. OwnersKnow' /\ ExecutorsOwn' /\ BusyWorkersHoldARun'
      BY <2>1, <2>3, <2>4 DEF OwnersKnow, ExecutorsOwn, BusyWorkersHoldARun, Inline
    <2>6. Separate'
      BY <2>1, <2>3, <2>4 DEF Separate, Inline
    <2>7. QueuedIsKnown'
      BY <2>1, <2>2, <2>3, <2>4 DEF QueuedIsKnown, Inline
    <2>8. QED
      BY <2>1, <2>5, <2>6, <2>7
  <1>2. CASE RequestMarks(r)
    <2>1. UNCHANGED <<status, owner, claims, queue, maint, worker>> /\ request[r] = "mark"
      BY <1>2 DEF RequestMarks, runVars
    <2>2. /\ faults'.claim = 0 => faults.claim = 0
          /\ faults'.crash = 0 => faults.crash = 0
      BY <1>2, FaultsStay DEF RequestMarks, MarkPublished, PublishFault
    <2>3. /\ \A x \in Runs : x # r => request'[x] = request[x]
          /\ request'[r] = "done"
          /\ \A x \in Runs : outbox[x] # "none" => outbox'[x] # "none"
      BY <1>2 DEF RequestMarks, MarkPublished, RequestGoes
    <2>4. OwnersKnow' /\ ExecutorsOwn' /\ BusyWorkersHoldARun'
      BY <2>1, <2>3 DEF OwnersKnow, ExecutorsOwn, BusyWorkersHoldARun, Inline
    <2>5. Separate'
      BY <2>1, <2>3 DEF Separate, Inline
    <2>6. QueuedIsKnown'
      BY <2>1, <2>2, <2>3 DEF QueuedIsKnown, Inline
    <2>7. QED
      BY <2>1, <2>4, <2>5, <2>6
  <1>3. CASE RequestClaims(r)
    <2>1. UNCHANGED <<outbox, queue, maint, worker>> /\ request[r] = "claim" /\ Inline(r)
      BY <1>3 DEF RequestClaims, Separate
    <2>2. /\ faults'.claim = 0 => faults.claim = 0 /\ ~ClaimFails(r)
          /\ faults'.crash = 0 => faults.crash = 0
      BY <1>3, FaultsStay DEF RequestClaims, ClaimFails
    <2>3. /\ \A x \in Runs : x # r => /\ request'[x] = request[x] /\ owner'[x] = owner[x]
                                      /\ status'[x] = status[x]
          /\ request'[r] \in {"mark", "done"}
          /\ status'[r] # "absent" => status[r] # "absent"
      BY <1>3 DEF RequestClaims, RequestGoes, ClaimGranted, ClaimRefused, ClaimFails,
                  StartsExecution, Seal, runVars
    <2>4. \/ status'[r] = "running" /\ owner'[r] \in {"api", "gone"}
          \/ status'[r] = "sealed" /\ owner'[r] = "none"
          \/ status'[r] = status[r] /\ owner'[r] = owner[r]
      BY <1>3 DEF RequestClaims, ClaimGranted, ClaimRefused, ClaimFails, StartsExecution, Seal,
                  runVars
    <2>5. /\ owner' \in [Runs -> Who]
          /\ ClaimFails(r) \/ status'[r] # "queued"
      BY <1>3 DEF RequestClaims, ClaimGranted, ClaimRefused, ClaimFails, StartsExecution, Seal,
                  runVars
    <2>6. \A w \in Workers : worker[w].run # r
      BY <2>1 DEF Separate
    <2>7. OwnersKnow'
      BY <2>1, <2>3, <2>4 DEF OwnersKnow, Inline
    <2>8. ExecutorsOwn' /\ BusyWorkersHoldARun'
      BY <2>1, <2>3, <2>6 DEF ExecutorsOwn, BusyWorkersHoldARun
    <2>9. Separate'
      BY <2>1, <2>3 DEF Separate, Inline
    <2>10. QueuedIsKnown'
      BY <2>1, <2>2, <2>3, <2>5 DEF QueuedIsKnown, Inline
    <2>11. QED
      BY <2>5, <2>7, <2>8, <2>9, <2>10
  <1>4. CASE InlineFinishes(r) \/ CancelQueued(r) \/ Recover(r)
    <2>1. /\ UNCHANGED <<outbox, queue, request, maint, worker, faults>> /\ Seal(r)
          /\ owner[r] \in {"api", "none", "gone"}
          /\ status[r] # "absent"
      BY <1>4 DEF InlineFinishes, CancelQueued, Recover, OwnersKnow
    <2>2. /\ status'[r] = "sealed" /\ owner'[r] = "none" /\ owner' \in [Runs -> Who]
          /\ \A x \in Runs : x # r => owner'[x] = owner[x] /\ status'[x] = status[x]
      BY <2>1 DEF Seal
    <2>3. OwnersKnow'
      BY <2>1, <2>2 DEF OwnersKnow, Inline
    <2>4. ExecutorsOwn' /\ BusyWorkersHoldARun'
      BY <2>1, <2>2 DEF ExecutorsOwn, BusyWorkersHoldARun
    <2>5. Separate' /\ QueuedIsKnown'
      BY <2>1, <2>2 DEF Separate, QueuedIsKnown, Inline
    <2>6. QED
      BY <2>2, <2>3, <2>4, <2>5
  <1>5. CASE CreateRun(r)
    <2>1. UNCHANGED <<owner, claims, queue, maint, worker, faults>> /\ status[r] = "absent"
      BY <1>5 DEF CreateRun
    <2>2. /\ status'[r] = "queued" /\ outbox'[r] = "pending"
          /\ request'[r] = IF Inline(r) THEN "claim" ELSE "publish"
          /\ \A x \in Runs : x # r => /\ status'[x] = status[x] /\ outbox'[x] = outbox[x]
                                      /\ request'[x] = request[x]
      BY <1>5 DEF CreateRun, RequestGoes
    <2>3. owner[r] = "none"
      BY <2>1 DEF OwnersKnow
    <2>4. OwnersKnow' /\ ExecutorsOwn' /\ BusyWorkersHoldARun'
      BY <2>1, <2>2, <2>3 DEF OwnersKnow, ExecutorsOwn, BusyWorkersHoldARun, Inline
    <2>5. Separate' /\ QueuedIsKnown'
      BY <2>1, <2>2 DEF Separate, QueuedIsKnown, Inline
    <2>6. QED
      BY <2>1, <2>4, <2>5
  <1>6. QED
    BY <1>1, <1>2, <1>3, <1>4, <1>5 DEF RequestStep

\* The maintenance pass publishes no run without an actor.
LEMMA MaintAttends ==
    ASSUME DispatchInv, AttendInv, MaintStep
    PROVE  AttendInv'
  <1> USE DEF DispatchInv, Types, AttendInv
  <1> DEFINE head == Head(maint.page)
  <1>1. UNCHANGED <<status, owner, claims, request, worker>> /\ ~InlineMode
    BY DEF MaintStep, MaintLists, MaintChecks, MaintPublishes, MaintMarks, runVars, Separate
  <1>2. /\ faults'.claim = 0 => faults.claim = 0
        /\ faults'.crash = 0 => faults.crash = 0
    BY FaultsStay
    DEF MaintStep, MaintLists, MaintChecks, MaintPublishes, MaintMarks, PublicationRefused,
        MarkPublished, PublishFault
  <1>3. \A x \in Runs : outbox[x] # "none" => outbox'[x] # "none"
    BY DEF MaintStep, MaintLists, MaintChecks, MaintPublishes, MaintMarks, MarkPublished
  <1>4. \A x \in Runs : Inline(x) => queue'[x] = queue[x]
    <2>1. CASE MaintPublishes
      <3>1. head \notin ActorlessRuns
        BY <2>1 DEF MaintPublishes, Separate
      <3>2. Enqueue(head) \/ UNCHANGED queue
        BY <2>1 DEF MaintPublishes, PublicationRefused
      <3>3. QED
        BY <1>1, <3>1, <3>2 DEF Enqueue, Inline
    <2>2. QED
      BY <2>1 DEF MaintStep, MaintLists, MaintChecks, MaintMarks
  <1>5. maint'.pc \in {"publish", "mark"} => Head(maint'.page) \notin ActorlessRuns
    BY DEF MaintStep, MaintLists, MaintChecks, MaintPublishes, MaintMarks, MaintGoes, NextRow,
           AdvancePage, Separate, Skipped
  <1>6. OwnersKnow' /\ ExecutorsOwn' /\ BusyWorkersHoldARun'
    BY <1>1 DEF OwnersKnow, ExecutorsOwn, BusyWorkersHoldARun, Inline
  <1>7. Separate'
    BY <1>1, <1>4, <1>5 DEF Separate, Inline
  <1>8. QueuedIsKnown'
    BY <1>1, <1>2, <1>3 DEF QueuedIsKnown, Inline
  <1>9. QED
    BY <1>1, <1>6, <1>7, <1>8

LEMMA WorkerAttends ==
    ASSUME DispatchInv, DispatchInv', AttendInv, NEW w \in Workers, WorkerStep(w) \/ WorkerCrashes(w)
    PROVE  AttendInv'
  <1> USE Names DEF DispatchInv, Types, AttendInv, Who
  <1> DEFINE run == worker[w].run
  <1>0. run \in Runs \cup {NoRun}
    OBVIOUS
  <1>1. CASE WorkerTakes(w)
    <2> PICK r \in Runs : /\ queue[r] > 0
                         /\ queue' = [queue EXCEPT ![r] = @ - 1]
                         /\ WorkerGoes(w, "claim", r)
      BY <1>1 DEF WorkerTakes
    <2>1. /\ UNCHANGED <<status, owner, claims, outbox, request, maint, faults>>
          /\ worker[w].pc = "idle"
      BY <1>1 DEF WorkerTakes, runVars
    <2>2. /\ worker'[w].run = r /\ worker'[w].pc = "claim"
          /\ \A x \in Workers : x # w => worker'[x] = worker[x]
          /\ \A x \in Runs : x # r => queue'[x] = queue[x]
      BY DEF WorkerGoes
    <2>3. ~Inline(r)
      BY DEF Separate
    <2>7. OwnersKnow'
      <3>1. \A x \in Runs : owner[x] # w
        BY <2>1 DEF OwnersKnow
      <3>2. \A x \in Runs : owner[x] \in Workers => worker'[owner[x]] = worker[owner[x]]
        BY <2>2, <3>1
      <3>3. QED
        BY <2>1, <3>2 DEF OwnersKnow, Inline
    <2>4. ExecutorsOwn' /\ BusyWorkersHoldARun'
      BY <2>1, <2>2 DEF ExecutorsOwn, BusyWorkersHoldARun
    <2>5. Separate' /\ QueuedIsKnown'
      BY <2>1, <2>2, <2>3 DEF Separate, QueuedIsKnown, Inline
    <2>6. QED
      BY <2>1, <2>4, <2>5, <2>7
  <1>2. CASE WorkerClaims(w) \/ WorkerFinishes(w)
    <2>1. /\ UNCHANGED <<outbox, queue, request, maint>>
          /\ worker[w].pc # "idle" /\ run \in Runs /\ ~Inline(run)
      BY <1>2 DEF WorkerClaims, WorkerFinishes, BusyWorkersHoldARun, Separate
    <2>2. /\ faults'.claim = 0 => faults.claim = 0
          /\ faults'.crash = 0 => faults.crash = 0
      BY <1>2, FaultsStay DEF WorkerClaims, WorkerFinishes, ClaimFails
    <2>3. \/ /\ status[run] = "queued" /\ StartsExecution(run, w)
             /\ worker' = [worker EXCEPT ![w] = [pc |-> "execute", run |-> run]]
          \/ /\ status[run] = "queued" /\ StartsExecution(run, "gone")
             /\ worker' = [worker EXCEPT ![w] = [pc |-> "idle", run |-> NoRun]]
          \/ /\ status[run] = "queued" \/ worker[w].pc = "execute"
             /\ Seal(run)
             /\ worker' = [worker EXCEPT ![w] = [pc |-> "idle", run |-> NoRun]]
          \/ /\ worker[w].pc = "claim" /\ UNCHANGED runVars
             /\ worker' = [worker EXCEPT ![w] = [pc |-> "idle", run |-> NoRun]]
      BY <1>2 DEF WorkerClaims, WorkerFinishes, ClaimGranted, ClaimRefused, ClaimFails, WorkerGoes
    <2>4. /\ \A x \in Workers : x # w => worker'[x] = worker[x]
          /\ \A x \in Runs : x # run => owner'[x] = owner[x] /\ status'[x] = status[x]
          /\ owner' \in [Runs -> Who]
          /\ \A x \in Runs : status'[x] # "absent" => status[x] # "absent"
      BY <2>1, <2>3 DEF StartsExecution, Seal, runVars, ExecutorsOwn, OwnersKnow
    <2>5. /\ status[run] = "queued" => owner[run] = "none"
          /\ worker[w].pc = "execute" => owner[run] = w
          /\ worker[w].pc # "execute" => owner[run] # w
      BY <2>1 DEF OwnersKnow, ExecutorsOwn
    <2>6. \/ /\ status'[run] = "running" /\ owner'[run] = w /\ owner[run] = "none"
             /\ worker'[w].pc = "execute" /\ worker'[w].run = run
          \/ /\ status'[run] = "running" /\ owner'[run] = "gone" /\ owner[run] = "none"
             /\ worker'[w].pc = "idle" /\ worker'[w].run = NoRun
          \/ /\ status'[run] = "sealed" /\ owner'[run] = "none" /\ owner[run] \in {"none", w}
             /\ worker'[w].pc = "idle" /\ worker'[w].run = NoRun
          \/ /\ status'[run] = status[run] /\ owner'[run] = owner[run] /\ owner[run] # w
             /\ worker'[w].pc = "idle" /\ worker'[w].run = NoRun
      BY <2>1, <2>3, <2>5 DEF StartsExecution, Seal, runVars
    <2>7. \A x \in Runs : x # run => owner[x] # w
      BY DEF OwnersKnow
    <2>8. OwnersKnow'
      <3>1. ASSUME NEW x \in Runs, x # run
            PROVE  /\ owner'[x] # "none" <=> status'[x] = "running"
                   /\ owner'[x] = "api" => Inline(x) /\ request'[x] \in {"mark", "done"}
                   /\ owner'[x] \in Workers => /\ worker'[owner'[x]].pc = "execute"
                                               /\ worker'[owner'[x]].run = x
        <4>1. owner'[x] = owner[x] /\ status'[x] = status[x] /\ owner[x] # w
          BY <2>4, <2>7, <3>1
        <4>2. owner[x] \in Workers => worker'[owner[x]] = worker[owner[x]]
          BY <2>4, <4>1
        <4>3. QED
          BY <2>1, <4>1, <4>2 DEF OwnersKnow
      <3>2. /\ owner'[run] # "none" <=> status'[run] = "running"
            /\ owner'[run] # "api"
            /\ owner'[run] \in Workers => /\ worker'[owner'[run]].pc = "execute"
                                          /\ worker'[owner'[run]].run = run
        <4>1. owner[run] # "api" /\ (owner[run] # "none" <=> status[run] = "running")
          BY <2>1 DEF OwnersKnow
        <4>2. owner[run] \in Workers /\ owner[run] # w =>
                /\ worker'[owner[run]].pc = "execute" /\ worker'[owner[run]].run = run
          BY <2>1, <2>4 DEF OwnersKnow
        <4>3. QED
          BY <2>6, <4>1, <4>2
      <3>3. QED
        BY <2>1, <3>1, <3>2 DEF OwnersKnow, Inline
    <2>9. ExecutorsOwn' /\ BusyWorkersHoldARun'
      <3>1. ASSUME NEW x \in Workers, x # w, worker[x].pc = "execute"
            PROVE  owner'[worker[x].run] = x
        <4>1. worker[x].run \in Runs /\ owner[worker[x].run] = x /\ x # "none"
          BY <3>1 DEF ExecutorsOwn, BusyWorkersHoldARun
        <4>2. CASE worker[x].run = run
          BY <2>6, <3>1, <4>1, <4>2
        <4>3. CASE worker[x].run # run
          BY <2>4, <4>1, <4>3
        <4>4. QED
          BY <4>2, <4>3
      <3>2. worker'[w].pc = "execute" => owner'[worker'[w].run] = w /\ worker'[w].run \in Runs
        BY <2>1, <2>6
      <3>3. worker'[w].pc # "idle" => worker'[w].pc = "execute"
        BY <2>6
      <3>4. QED
        BY <2>4, <3>1, <3>2, <3>3 DEF ExecutorsOwn, BusyWorkersHoldARun
    <2>10. Separate'
      BY <2>1, <2>4, <2>6 DEF Separate, Inline
    <2>11. QueuedIsKnown'
      BY <2>1, <2>2, <2>4 DEF QueuedIsKnown, Inline
    <2>12. QED
      BY <2>4, <2>8, <2>9, <2>10, <2>11
  <1>3. CASE WorkerCrashes(w)
    <2>1. UNCHANGED <<status, claims, outbox, request, maint>>
      BY <1>3 DEF WorkerCrashes
    <2>2. /\ worker'[w].pc = "idle" /\ worker'[w].run = NoRun
          /\ \A x \in Workers : x # w => worker'[x] = worker[x]
          /\ \A x \in Runs : x # run => queue'[x] = queue[x]
      BY <1>3 DEF WorkerCrashes, WorkerGoes, Enqueue
    <2>3. /\ owner' \in [Runs -> Who]
          /\ \A x \in Runs : owner'[x] = IF owner[x] = w THEN "gone" ELSE owner[x]
      BY <1>3 DEF WorkerCrashes
    <2>4. faults'.claim = 0 => faults.claim = 0
      BY <1>3, FaultsStay DEF WorkerCrashes
    <2>5. faults'.crash # 0
      BY <1>3, FaultsStay DEF WorkerCrashes
    <2>6. run \in Runs => ~Inline(run)
      BY DEF Separate
    <2>7. OwnersKnow'
      <3>1. \A x \in Runs : owner'[x] # "none" <=> status'[x] = "running"
        BY <2>1, <2>3 DEF OwnersKnow
      <3>2. \A x \in Runs : owner'[x] = "api" => Inline(x) /\ request'[x] \in {"mark", "done"}
        BY <2>1, <2>3 DEF OwnersKnow
      <3>3. \A x \in Runs : owner'[x] \in Workers => owner'[x] # w /\ owner'[x] = owner[x]
        BY <2>3
      <3>4. \A x \in Runs : owner'[x] \in Workers => /\ worker'[owner'[x]].pc = "execute"
                                                     /\ worker'[owner'[x]].run = x
        BY <2>2, <3>3 DEF OwnersKnow
      <3>5. QED
        BY <3>1, <3>2, <3>4 DEF OwnersKnow, Inline
    <2>8. ExecutorsOwn' /\ BusyWorkersHoldARun'
      <3>1. ASSUME NEW x \in Workers, worker'[x].pc = "execute"
            PROVE  owner'[worker'[x].run] = x
        <4>1. x # w /\ worker'[x] = worker[x]
          BY <2>2, <3>1
        <4>2. worker[x].run \in Runs /\ owner[worker[x].run] = x
          BY <3>1, <4>1 DEF ExecutorsOwn, BusyWorkersHoldARun
        <4>3. QED
          BY <2>3, <4>1, <4>2
      <3>2. QED
        BY <2>2, <3>1 DEF ExecutorsOwn, BusyWorkersHoldARun
    <2>9. Separate' /\ QueuedIsKnown'
      <3>1. \A x \in Runs : Inline(x) =>
              queue'[x] = queue[x] /\ \A y \in Workers : worker'[y].run # x
        BY <2>2, <2>6 DEF Separate
      <3>2. Separate'
        BY <2>1, <3>1 DEF Separate, Inline
      <3>3. QED
        BY <2>1, <2>5, <3>2 DEF QueuedIsKnown, Inline
    <2>10. QED
      BY <2>3, <2>7, <2>8, <2>9
  <1>4. QED
    BY <1>1, <1>2, <1>3 DEF WorkerStep

\* The API process loses its requests and its inline executors, and knows that a
\* crash happened.
LEMMA ApiCrashAttends ==
    ASSUME DispatchInv, AttendInv, ApiCrashes
    PROVE  AttendInv'
  <1> USE Names DEF DispatchInv, Types, AttendInv, Who
  <1>1. UNCHANGED <<status, claims, outbox, queue, worker>> /\ maint'.pc = "idle"
    BY DEF ApiCrashes, MaintGoes
  <1>2. faults'.crash # 0
    BY FaultsStay DEF ApiCrashes
  <1>3. /\ request' \in [Runs -> {"none", "done"}]
        /\ owner' \in [Runs -> Who]
        /\ \A r \in Runs : owner'[r] = IF owner[r] = "api" THEN "gone" ELSE owner[r]
    BY DEF ApiCrashes
  <1>4. OwnersKnow'
    BY <1>1, <1>3 DEF OwnersKnow, Inline
  <1>5. ExecutorsOwn' /\ BusyWorkersHoldARun'
    BY <1>1, <1>3 DEF ExecutorsOwn, BusyWorkersHoldARun
  <1>6. Separate' /\ QueuedIsKnown'
    BY <1>1, <1>2, <1>3 DEF Separate, QueuedIsKnown, Inline
  <1>7. QED
    BY <1>3, <1>4, <1>5, <1>6

LEMMA NextAttendInv == DispatchInv /\ DispatchInv' /\ AttendInv /\ [Next]_vars => AttendInv'
  <1> SUFFICES ASSUME DispatchInv, DispatchInv', AttendInv, [Next]_vars PROVE AttendInv'
    OBVIOUS
  <1>1. CASE UNCHANGED vars
    BY <1>1 DEF vars, runVars, AttendInv, OwnersKnow, ExecutorsOwn, BusyWorkersHoldARun, Separate,
                QueuedIsKnown, Inline
  <1>2. QED
    BY <1>1, RequestAttends, MaintAttends, WorkerAttends, ApiCrashAttends DEF Next, Step

LEMMA AttendInvariant == Spec => []AttendInv
  BY InitAttendInv, NextAttendInv, DispatchInvariant, PTL DEF Spec

\* Whatever is delivered twice and whoever dies, a worker executes a run only as its
\* one owner: two executions of a run never overlap (claim_run, the actors).
THEOREM WorkersOwnWhatTheyExecute == Spec => []WorkersExecuteTheirOwn
  <1>1. DispatchInv /\ AttendInv => WorkersExecuteTheirOwn
    BY Names
    DEF DispatchInv, Types, AttendInv, OwnersKnow, ExecutorsOwn, BusyWorkersHoldARun,
        WorkersExecuteTheirOwn
  <1>2. QED
    BY <1>1, DispatchInvariant, AttendInvariant, PTL

\* dispatch_run and publish_pending_dispatches: a run without an actor has an outbox
\* row like any other, and is never published for it.
THEOREM InlineRunsStay == Spec => []InlineRunsStayInline
  <1>1. DispatchInv /\ AttendInv => InlineRunsStayInline
    BY DEF DispatchInv, Types, AttendInv, OwnersKnow, Separate, InlineRunsStayInline
  <1>2. QED
    BY <1>1, DispatchInvariant, AttendInvariant, PTL

\* No reachable state has a queued or running run for which no process, row or
\* message will act, but for the two exceptions: what the liveness of an accepted run
\* needs of every state.
THEOREM NobodyIsForgotten == Spec => []LiveRunsAreAttended
  <1>1. ASSUME DispatchInv, AttendInv, NEW r \in Runs, status[r] = "running"
        PROVE  \/ owner[r] = "gone"
               \/ owner[r] = "api" /\ request[r] \in {"mark", "done"}
               \/ \E w \in Workers : owner[r] = w /\ worker[w] = [pc |-> "execute", run |-> r]
    <2>1. owner[r] \in {"api", "gone"} \cup Workers
      BY <1>1 DEF AttendInv, Who, OwnersKnow
    <2>2. owner[r] = "api" => request[r] \in {"mark", "done"}
      BY <1>1 DEF AttendInv, OwnersKnow
    <2>3. ASSUME owner[r] \in Workers PROVE worker[owner[r]] = [pc |-> "execute", run |-> r]
      <3>1. worker[owner[r]] \in [pc: {"idle", "claim", "execute"}, run: Runs \cup {NoRun}]
        BY <1>1, <2>3 DEF DispatchInv, Types
      <3>2. worker[owner[r]].pc = "execute" /\ worker[owner[r]].run = r
        BY <1>1, <2>3 DEF AttendInv, OwnersKnow
      <3>3. QED
        BY <3>1, <3>2
    <2>4. QED
      BY <2>1, <2>2, <2>3
  <1>2. ASSUME DispatchInv, AttendInv, NEW r \in Runs, status[r] = "queued", faults.claim = 0
        PROVE  IF Inline(r) THEN request[r] = "claim" \/ faults.crash > 0
               ELSE outbox[r] = "pending" \/ queue[r] > 0 \/ \E w \in Workers : worker[w].run = r
    <2>1. CASE Inline(r)
      <3>1. faults.crash = 0 \/ faults.crash > 0
        BY <1>2 DEF DispatchInv, Types
      <3>2. QED
        BY <1>2, <2>1, <3>1 DEF AttendInv, QueuedIsKnown
    <2>2. CASE ~Inline(r)
      <3>1. outbox[r] \in {"pending", "published"}
        BY <1>2 DEF DispatchInv, Types, AttendInv, QueuedIsKnown
      <3>2. outbox[r] = "published" => Deliverable(r)
        BY <1>2 DEF DispatchInv, NothingInVain
      <3>3. QED
        BY <2>2, <3>1, <3>2 DEF Deliverable
    <2>3. QED
      BY <2>1, <2>2
  <1>3. DispatchInv /\ AttendInv => LiveRunsAreAttended
    BY <1>1, <1>2 DEF LiveRunsAreAttended
  <1>4. QED
    BY <1>3, DispatchInvariant, AttendInvariant, PTL
=============================================================================
