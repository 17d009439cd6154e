----------------------------- MODULE RunDispatch -----------------------------
(***************************************************************************)
(* How an accepted run reaches an executor: the outbox row committed with  *)
(* it, the request that publishes the row or executes inline, the          *)
(* maintenance loop that publishes what is still pending, the message      *)
(* queue, the workers, and the recovery of runs whose executor died.       *)
(*                                                                         *)
(* Abstracted: a run is what its dispatch needs (queued, running, sealed), *)
(* the lease is the life of its holder, an execution seals its run in one  *)
(* step (RunLifecycle and OwnedExecutor open it up; RunIsSealed there says *)
(* when no seal follows). The queue keeps a message until a worker         *)
(* acknowledges it, and delivers it again when that worker dies.           *)
(***************************************************************************)
EXTENDS Naturals, Sequences, FiniteSets

CONSTANTS
    Runs,
    NoRun,          \* what a free worker works on
    ActorlessRuns,  \* the runs whose route passes enqueue = None
    InlineMode,     \* job_execution_mode = "inline"
    Workers,        \* actor threads of the worker processes
    PageLimits,     \* the limits list_pending_dispatches may have
    MaxFaults,      \* bound on refused publications and lost acknowledgements
    MaxClaimErrors, \* bound on the claims that raise
    MaxCrashes      \* bound on the processes that die

ASSUME ConstantsAssumption ==
    /\ NoRun \notin Runs
    /\ {"none", "api", "gone"} \cap Workers = {}
    /\ ActorlessRuns \subseteq Runs
    /\ InlineMode \in BOOLEAN
    /\ PageLimits \subseteq Nat \ {0}
    /\ {MaxFaults, MaxClaimErrors, MaxCrashes} \subseteq Nat

VARIABLES
    limit,     \* rows list_pending_dispatches returns, fixed in the code
    status,    \* Run.status of each run
    owner,     \* who executes a running run
    claims,    \* committed claims of each run
    outbox,    \* RunDispatch.state of each run
    created,   \* the runs in the order of RunDispatch.created_at
    queue,     \* messages for each run in Redis
    request,   \* dispatch_run, for the request that created the run
    maint,     \* publish_pending_dispatches: program counter and page left
    worker,    \* each worker: program counter and the run of its message
    faults     \* faults, claim errors and crashes so far

runVars == <<status, owner, claims>>
vars == <<limit, runVars, outbox, created, queue, request, maint, worker, faults>>

Inline(r) == InlineMode \/ r \in ActorlessRuns

Init ==
    /\ limit \in PageLimits
    /\ status = [r \in Runs |-> "absent"]
    /\ owner = [r \in Runs |-> "none"]
    /\ claims = [r \in Runs |-> 0]
    /\ outbox = [r \in Runs |-> "none"]
    /\ created = <<>>
    /\ queue = [r \in Runs |-> 0]
    /\ request = [r \in Runs |-> "none"]
    /\ maint = [pc |-> "idle", page |-> <<>>]
    /\ worker = [w \in Workers |-> [pc |-> "idle", run |-> NoRun]]
    /\ faults = [publish |-> 0, claim |-> 0, crash |-> 0]

Fault(kind, bound) ==
    /\ faults[kind] < bound
    /\ faults' = [faults EXCEPT ![kind] = @ + 1]

PublishFault == Fault("publish", MaxFaults)

Enqueue(r) == queue' = [queue EXCEPT ![r] = @ + 1]

\* mark_dispatch_published, which may raise.
MarkPublished(r) ==
    \/ outbox' = [outbox EXCEPT ![r] = "published"] /\ UNCHANGED faults
    \/ PublishFault /\ UNCHANGED outbox

\* A publication that raises JobQueueUnavailable; Redis may have the message.
PublicationRefused(r) == PublishFault /\ (Enqueue(r) \/ UNCHANGED queue)

Seal(r) ==
    /\ status' = [status EXCEPT ![r] = "sealed"]
    /\ owner' = [owner EXCEPT ![r] = "none"]
    /\ UNCHANGED claims

StartsExecution(r, who) ==
    /\ status' = [status EXCEPT ![r] = "running"]
    /\ owner' = [owner EXCEPT ![r] = who]
    /\ claims' = [claims EXCEPT ![r] = @ + 1]

ClaimRepeated(r, who) == status[r] \in {"queued", "running"} /\ StartsExecution(r, who)

\* claim_run for who: granted, ...
ClaimGranted(r, who) == status[r] = "queued" /\ StartsExecution(r, who)

\* ... refused, because the run is not queued any more or its authorization
\* lapsed, ...
ClaimRefused(r) ==
    \/ status[r] # "queued" /\ UNCHANGED runVars
    \/ status[r] = "queued" /\ Seal(r)

\* ... or failed, the claim itself perhaps committed.
ClaimFails(r) ==
    /\ Fault("claim", MaxClaimErrors)
    /\ ClaimGranted(r, "gone") \/ UNCHANGED runVars

-----------------------------------------------------------------------------
(* The request.                                                            *)

RequestGoes(r, pc) == request' = [request EXCEPT ![r] = pc]

\* create_run_with_context commits the run and its outbox row together.
CreateRun(r) ==
    /\ status[r] = "absent"
    /\ status' = [status EXCEPT ![r] = "queued"]
    /\ outbox' = [outbox EXCEPT ![r] = "pending"]
    /\ created' = Append(created, r)
    /\ RequestGoes(r, IF Inline(r) THEN "claim" ELSE "publish")
    /\ UNCHANGED <<owner, claims, queue, maint, worker, faults>>

PublishIgnoresRefusal(r) ==
    /\ request[r] = "publish"
    /\ \/ Enqueue(r) /\ UNCHANGED faults
       \/ PublicationRefused(r)
    /\ RequestGoes(r, "mark")
    /\ UNCHANGED <<runVars, outbox, created, maint, worker>>

RequestPublishes(r) ==
    /\ request[r] = "publish"
    /\ \/ Enqueue(r) /\ RequestGoes(r, "mark") /\ UNCHANGED faults
       \/ PublicationRefused(r) /\ RequestGoes(r, "done")
    /\ UNCHANGED <<runVars, outbox, created, maint, worker>>

\* A publication that cannot be recorded leaves the row pending.
RequestMarks(r) ==
    /\ request[r] = "mark"
    /\ MarkPublished(r)
    /\ RequestGoes(r, "done")
    /\ UNCHANGED <<runVars, created, queue, maint, worker>>

\* _inline_response claims the run, and its thread first marks the row.
RequestClaims(r) ==
    /\ request[r] = "claim"
    /\ \/ ClaimGranted(r, "api") /\ RequestGoes(r, "mark") /\ UNCHANGED faults
       \/ ClaimRefused(r) /\ RequestGoes(r, "done") /\ UNCHANGED faults
       \/ ClaimFails(r) /\ RequestGoes(r, "done")
    /\ UNCHANGED <<outbox, created, queue, maint, worker>>

\* The inline executor seals its run, also when the row could not be marked.
InlineFinishes(r) ==
    /\ owner[r] = "api"
    /\ request[r] = "done"
    /\ Seal(r)
    /\ UNCHANGED <<outbox, created, queue, request, maint, worker, faults>>

RequestStep(r) == RequestPublishes(r) \/ RequestMarks(r) \/ RequestClaims(r)

\* An operator stops a run that nobody claimed yet; its outbox row stays.
CancelQueued(r) ==
    /\ status[r] = "queued"
    /\ Seal(r)
    /\ UNCHANGED <<outbox, created, queue, request, maint, worker, faults>>

-----------------------------------------------------------------------------
(* Maintenance.                                                            *)

MaintGoes(pc, page) == maint' = [pc |-> pc, page |-> page]

PendingRows == SelectSeq(created, LAMBDA r : outbox[r] = "pending")

PageLength == IF Len(PendingRows) < limit THEN Len(PendingRows) ELSE limit

\* The oldest pending rows, whatever became of their runs.
PendingPage == SubSeq(PendingRows, 1, PageLength)

\* What a pass skips: a row it skips stays pending, and in its place.
Skipped(r) == status[r] # "queued" \/ r \in ActorlessRuns

\* One pass reads a page of rows ...
MaintLists ==
    /\ ~InlineMode
    /\ maint.pc = "idle"
    /\ PendingPage # <<>>
    /\ MaintGoes("check", PendingPage)
    /\ UNCHANGED <<runVars, outbox, created, queue, request, worker, faults>>

AdvancePage == MaintGoes("check", Tail(maint.page))

NextRow == IF Len(maint.page) = 1 THEN MaintGoes("idle", <<>>) ELSE AdvancePage

StopAtStaleRow ==
    /\ maint.pc = "check"
    /\ IF Skipped(Head(maint.page)) THEN MaintGoes("idle", <<>>)
       ELSE MaintGoes("publish", maint.page)
    /\ UNCHANGED <<runVars, outbox, created, queue, request, worker, faults>>

\* ... skips the runs that are not queued or have no destination ...
MaintChecks ==
    /\ maint.pc = "check"
    /\ IF Skipped(Head(maint.page)) THEN NextRow ELSE MaintGoes("publish", maint.page)
    /\ UNCHANGED <<runVars, outbox, created, queue, request, worker, faults>>

\* ... publishes the others under the identity they were created with ...
MaintPublishes ==
    /\ maint.pc = "publish"
    /\ \/ Enqueue(Head(maint.page)) /\ MaintGoes("mark", maint.page) /\ UNCHANGED faults
       \/ PublicationRefused(Head(maint.page)) /\ NextRow
    /\ UNCHANGED <<runVars, outbox, created, request, worker>>

\* ... and marks them published.
MaintMarks ==
    /\ maint.pc = "mark"
    /\ MarkPublished(Head(maint.page))
    /\ NextRow
    /\ UNCHANGED <<runVars, created, queue, request, worker>>

MaintStep == MaintLists \/ MaintChecks \/ MaintPublishes \/ MaintMarks

\* recover_expired_leases, once the lease of a dead executor has run out.
Recover(r) ==
    /\ status[r] = "running"
    /\ owner[r] = "gone"
    /\ Seal(r)
    /\ UNCHANGED <<outbox, created, queue, request, maint, worker, faults>>

-----------------------------------------------------------------------------
(* The workers.                                                            *)

WorkerGoes(w, pc, r) == worker' = [worker EXCEPT ![w] = [pc |-> pc, run |-> r]]

WorkerTakes(w) ==
    /\ worker[w].pc = "idle"
    /\ \E r \in Runs :
         /\ queue[r] > 0
         /\ queue' = [queue EXCEPT ![r] = @ - 1]
         /\ WorkerGoes(w, "claim", r)
    /\ UNCHANGED <<runVars, outbox, created, request, maint, faults>>

\* A delivery that is refused is a duplicate or stale. Actors have
\* max_retries = 0: a claim that raises ends the delivery as well.
WorkerClaims(w) ==
    LET r == worker[w].run
    IN  /\ worker[w].pc = "claim"
        /\ \/ ClaimGranted(r, w) /\ WorkerGoes(w, "execute", r) /\ UNCHANGED faults
           \/ ClaimRefused(r) /\ WorkerGoes(w, "idle", NoRun) /\ UNCHANGED faults
           \/ ClaimFails(r) /\ WorkerGoes(w, "idle", NoRun)
        /\ UNCHANGED <<outbox, created, queue, request, maint>>

WorkerFinishes(w) ==
    /\ worker[w].pc = "execute"
    /\ Seal(worker[w].run)
    /\ WorkerGoes(w, "idle", NoRun)
    /\ UNCHANGED <<outbox, created, queue, request, maint, faults>>

WorkerStep(w) == WorkerTakes(w) \/ WorkerClaims(w) \/ WorkerFinishes(w)

-----------------------------------------------------------------------------
(* Crashes.                                                                *)

\* The message a dead worker did not acknowledge is delivered again.
WorkerCrashes(w) ==
    /\ worker[w].pc # "idle"
    /\ Fault("crash", MaxCrashes)
    /\ Enqueue(worker[w].run)
    /\ owner' = [r \in Runs |-> IF owner[r] = w THEN "gone" ELSE owner[r]]
    /\ WorkerGoes(w, "idle", NoRun)
    /\ UNCHANGED <<status, claims, outbox, created, request, maint>>

\* Requests, inline executors and the maintenance pass die with the API
\* process; the next process starts the maintenance loop again.
ApiCrashes ==
    /\ Fault("crash", MaxCrashes)
    /\ request' = [r \in Runs |-> IF request[r] = "none" THEN "none" ELSE "done"]
    /\ MaintGoes("idle", <<>>)
    /\ owner' = [r \in Runs |-> IF owner[r] = "api" THEN "gone" ELSE owner[r]]
    /\ UNCHANGED <<status, claims, outbox, created, queue, worker>>

Step ==
    \/ \E r \in Runs : \/ CreateRun(r) \/ RequestStep(r) \/ InlineFinishes(r)
                      \/ CancelQueued(r) \/ Recover(r)
    \/ MaintStep
    \/ \E w \in Workers : WorkerStep(w) \/ WorkerCrashes(w)
    \/ ApiCrashes

Next == Step /\ UNCHANGED limit

\* Requests go on while their process lives, the maintenance loop passes every
\* five seconds, a free worker takes a message, and every actor has a time limit.
\* An inline execution has none: nothing makes an indefinite capture finish.
Fairness ==
    /\ \A r \in Runs : /\ WF_vars(RequestStep(r) /\ UNCHANGED limit)
                      /\ WF_vars(Recover(r) /\ UNCHANGED limit)
    /\ WF_vars(MaintStep /\ UNCHANGED limit)
    /\ \A w \in Workers : WF_vars(WorkerStep(w) /\ UNCHANGED limit)

Spec == Init /\ [][Next]_vars /\ Fairness

-----------------------------------------------------------------------------
(* Properties.                                                             *)

\* Types, and the positions of the maintenance pass.
TypeOK ==
    /\ limit \in PageLimits
    /\ status \in [Runs -> {"absent", "queued", "running", "sealed"}]
    /\ owner \in [Runs -> {"none", "api", "gone"} \cup Workers]
    /\ claims \in [Runs -> Nat]
    /\ outbox \in [Runs -> {"none", "pending", "published"}]
    /\ created \in Seq(Runs)
    /\ queue \in [Runs -> Nat]
    /\ request \in [Runs -> {"none", "publish", "mark", "claim", "done"}]
    /\ maint \in [pc: {"idle", "check", "publish", "mark"}, page: Seq(Runs)]
    /\ maint.pc = "idle" <=> maint.page = <<>>
    /\ worker \in [Workers -> [pc: {"idle", "claim", "execute"}, run: Runs \cup {NoRun}]]

\* However often a run is published and delivered, it is executed once: the
\* claim admits one executor ("never starts a second inline executor").
ExecutedOnce == \A r \in Runs : claims[r] <= 1

\* A row is not marked published in vain: while its run is queued there is a
\* message for it or a worker about to claim it, unless a claim raised and
\* spent the message.
PublishedIsDeliverable ==
    \A r \in Runs :
      status[r] = "queued" /\ outbox[r] = "published" /\ faults.claim = 0
         => queue[r] > 0 \/ \E w \in Workers : worker[w].run = r

\* What a worker executes is its own: of all the deliveries of a run, and beside the
\* executor of the request and the recovery, nobody else works on it (claim_run).
WorkersExecuteTheirOwn ==
    \A w \in Workers :
      worker[w].pc = "execute"
         => status[worker[w].run] = "running" /\ owner[worker[w].run] = w

\* A run that has no actor, and in inline mode every run, never reaches the queue or
\* a worker, although the maintenance pass lists its row.
InlineRunsStayInline ==
    \A r \in Runs :
      Inline(r) => /\ queue[r] = 0
                   /\ \A w \in Workers : worker[w].run # r /\ owner[r] # w

\* Nobody is forgotten: a running run has a living executor, or a dead one that the
\* recovery will find; a queued one has a request about to claim it, a row that
\* maintenance publishes once it lists it, a message, or a worker. The exceptions are a claim that
\* raised and an API process that died before it claimed an inline run.
LiveRunsAreAttended ==
    \A r \in Runs :
      /\ status[r] = "running" =>
           \/ owner[r] = "gone"
           \/ owner[r] = "api" /\ request[r] \in {"mark", "done"}
           \/ \E w \in Workers : owner[r] = w /\ worker[w] = [pc |-> "execute", run |-> r]
      /\ status[r] = "queued" /\ faults.claim = 0 =>
           IF Inline(r) THEN request[r] = "claim" \/ faults.crash > 0
           ELSE outbox[r] = "pending" \/ queue[r] > 0 \/ \E w \in Workers : worker[w].run = r

\* The rows a pass skips, created before r, fill its page: none of its passes gets
\* to the row of r.
Starved(r) ==
    /\ outbox[r] = "pending"
    /\ \E i \in DOMAIN created :
         /\ created[i] = r
         /\ Cardinality({j \in 1..(i - 1) : /\ outbox[created[j]] = "pending"
                                          /\ Skipped(created[j])}) >= limit

\* An accepted run reaches an executor, and a run with an actor is sealed in the end,
\* whichever process dies (dispatch_run, publish_pending_dispatches), with three
\* exceptions: a claim that raised spent the only message, the API process died before
\* it claimed an inline run, or the rows of runs that were stopped, or could not be
\* marked, fill the page of every pass for ever. The last one the code has no remedy
\* for.
AcceptedRunEnds ==
    \A r \in Runs :
      status[r] = "queued"
         ~> \/ IF Inline(r) THEN status[r] # "queued" ELSE status[r] = "sealed"
            \/ faults.claim > 0
            \/ Inline(r) /\ faults.crash > 0
            \/ [](status[r] = "queued" /\ Starved(r))
=============================================================================
