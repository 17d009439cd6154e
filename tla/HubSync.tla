------------------------------ MODULE HubSync ------------------------------
(***************************************************************************)
(* Delivery of sealed runs from the edges to the hub: the edge command     *)
(* that bundles its pending runs and applies the receipts it gets back,    *)
(* the hub's request threads that verify and store a bundle item by item,  *)
(* and the older protocol that stores a run without its evidence.          *)
(*                                                                         *)
(* Abstracted: the content of a run is the edge that sealed it, so one     *)
(* identifier sealed on two edges has two contents; in the same way the    *)
(* content of an import is the edge it was imported on. Digests,           *)
(* signatures and the archive are their verdicts: a member of a bundle is  *)
(* intact or damaged.                                                      *)
(***************************************************************************)
EXTENDS Naturals, FiniteSets

CONSTANTS
    Edges,
    Runs,         \* run identifiers
    Imports,      \* import identifiers
    Sites,        \* project and site of a run
    Credentials,  \* machine credentials provisioned on the hub
    Deliveries,   \* request threads of the hub
    None,         \* an absent row
    Sealed,       \* [Edges -> SUBSET Runs]: the sealed terminal runs of an edge
    Reports,      \* the runs of job type report_generation
    SiteOf,       \* [Runs -> Sites]
    Uses,         \* [Edges \X Runs -> SUBSET Imports]: scan authorities of a run
    EdgeOf,       \* [Credentials -> Edges]
    Scopes,       \* SUBSET (Credentials \X Sites), as provisioned
    KeyOf,        \* [Edges -> Credentials]: the key configured on an edge
    LegacyEdges,  \* edges that may also run the version 1 protocol
    BundleLimits, \* the limits open_sync_v2_bundle may have
    MaxFaults     \* bound on faults, revocations, carried files and chosen pushes

ASSUME ConstantsAssumption ==
    /\ None \notin Edges \cup Credentials \cup Runs
    /\ Sealed \in [Edges -> SUBSET Runs]
    /\ Reports \subseteq Runs
    /\ SiteOf \in [Runs -> Sites]
    /\ Uses \in [Edges \X Runs -> SUBSET Imports]
    /\ EdgeOf \in [Credentials -> Edges]
    /\ Scopes \subseteq Credentials \X Sites
    /\ KeyOf \in [Edges -> Credentials]
    /\ LegacyEdges \subseteq Edges
    /\ BundleLimits \subseteq Nat
    /\ MaxFaults \in Nat

VARIABLES
    hub,        \* the hub's row of each run
    imports,    \* the hub's ImportRecord of each import: whose content it is
    active,     \* credentials with is_active
    scopes,     \* SyncCredentialScope rows
    receipts,   \* SyncReceipt rows; a bundle id tells apart nothing here
    acked,      \* runs of an edge with SyncDeliveryState.acknowledged_at
    synced,     \* runs of an edge with synced_at
    unbuildable,\* runs of an edge whose evidence the command cannot bundle
    limit,      \* runs a bundle may hold, fixed in the code
    sender,     \* the command app.scripts.sync of each edge
    delivery,   \* ingest_sync_v2_bundle in each request thread
    faults

hubVars == <<hub, imports, receipts>>
authorityVars == <<active, scopes>>
edgeVars == <<acked, synced>>
bundleVars == <<unbuildable, limit>>
vars == <<hubVars, authorityVars, edgeVars, bundleVars, sender, delivery, faults>>

Acknowledging == {"accepted", "byte_identical"}
Rejections == {"unauthorized", "malformed", "partial_bundle"}
Classes == Acknowledging \cup Rejections \cup {"conflict"}

Legacy == None  \* a row no credential stored

Rows == [edge: Edges, via: Credentials \cup {Legacy}, context: BOOLEAN,
         contract: BOOLEAN, artifact: BOOLEAN]

ASSUME RowsAssumption == None \notin Rows

\* Functions from some of the runs to receipt classes.
Results == UNION {[s -> Classes] : s \in SUBSET Runs}

IdleSender == [pc |-> "idle", bundle |-> {}, results |-> << >>]
FreeDelivery ==
    [pc |-> "free", cred |-> None, online |-> FALSE, todo |-> {}, item |-> None, results |-> << >>]

Init ==
    /\ hub = [r \in Runs |-> None]
    /\ imports = [i \in Imports |-> None]
    /\ active = Credentials
    /\ scopes = Scopes
    /\ receipts = {}
    /\ acked = [e \in Edges |-> {}]
    /\ synced = [e \in Edges |-> {}]
    /\ unbuildable = [e \in Edges |-> {}]
    /\ limit \in BundleLimits
    /\ sender = [e \in Edges |-> IdleSender]
    /\ delivery = [d \in Deliveries |-> FreeDelivery]
    /\ faults = 0

Fault == faults < MaxFaults /\ faults' = faults + 1

-----------------------------------------------------------------------------
(* The edge command.                                                       *)

\* list_pending_run_ids
Pending(e) == Sealed[e] \ acked[e]

\* build_sync_v2_bundle and open_sync_v2_bundle raise for the whole bundle: one run
\* that cannot be exported, or one too many, and the command ends with nothing sent.
Buildable(e, bundle) ==
    /\ bundle \cap unbuildable[e] = {}
    /\ Cardinality(bundle) <= limit

Push(e, bundle) ==
    /\ sender[e].pc = "idle"
    /\ bundle # {}
    /\ Buildable(e, bundle)
    /\ sender' = [sender EXCEPT ![e] = [IdleSender EXCEPT !.pc = "sending", !.bundle = bundle]]
    /\ UNCHANGED <<hubVars, authorityVars, edgeVars, delivery>>

\* The command without arguments.
PushPending(e) == Push(e, Pending(e)) /\ UNCHANGED faults

\* The command with --run-id: any sealed runs, acknowledged ones included.
PushChosen(e) == Fault /\ \E bundle \in SUBSET Sealed[e] : Push(e, bundle)

\* require_sync_credential answers 401, which ends the command.
PushRefused(e) ==
    /\ sender[e].pc = "sending"
    /\ KeyOf[e] \notin active
    /\ sender' = [sender EXCEPT ![e] = IdleSender]
    /\ UNCHANGED <<hubVars, authorityVars, edgeVars, delivery, faults>>

\* The command loses its request or the response, times out, or is killed.
SenderGivesUp(e) ==
    /\ sender[e].pc # "idle"
    /\ sender' = [sender EXCEPT ![e] = IdleSender]
    /\ delivery' = [d \in Deliveries |->
                      IF delivery[d].pc # "free" /\ EdgeOf[delivery[d].cred] = e
                        THEN [delivery[d] EXCEPT !.online = FALSE] ELSE delivery[d]]
    /\ Fault
    /\ UNCHANGED <<hubVars, authorityVars, edgeVars>>

AllOrNothing(results) ==
    IF \A r \in DOMAIN results : results[r] \in Acknowledging THEN DOMAIN results ELSE {}

\* The runs of a set of receipts that the edge may mark.
Proved(results) == {r \in DOMAIN results : results[r] \in Acknowledging}

\* apply_delivery_receipts
ApplyReceipts(e) ==
    /\ sender[e].pc = "applying"
    /\ acked' = [acked EXCEPT ![e] = @ \cup Proved(sender[e].results)]
    /\ synced' = [synced EXCEPT ![e] = @ \cup Proved(sender[e].results)]
    /\ sender' = [sender EXCEPT ![e] = IdleSender]
    /\ UNCHANGED <<hubVars, authorityVars, delivery, faults>>

-----------------------------------------------------------------------------
(* The hub: ingest_sync_v2_bundle, one item after the other.               *)

Open(d, c, bundle, online) ==
    /\ delivery[d].pc = "free"
    /\ c \in active
    /\ delivery' = [delivery EXCEPT ![d] =
            [FreeDelivery EXCEPT !.pc = "open", !.cred = c,
                                  !.online = online, !.todo = bundle]]

RequestArrives(d, e) ==
    /\ sender[e].pc = "sending"
    /\ Open(d, KeyOf[e], sender[e].bundle, TRUE)
    /\ sender' = [sender EXCEPT ![e] = [IdleSender EXCEPT !.pc = "waiting"]]
    /\ UNCHANGED <<hubVars, authorityVars, edgeVars, faults>>

\* A bundle written with --output, ingested on the hub with any key of its edge;
\* the same file may be carried more than once, and its receipts go nowhere.
CarriedFileArrives(d) ==
    /\ Fault
    /\ \E c \in Credentials : \E bundle \in SUBSET Sealed[EdgeOf[c]] \ {{}} :
            /\ Cardinality(bundle) <= limit
            /\ Open(d, c, bundle, FALSE)
    /\ UNCHANGED <<hubVars, authorityVars, edgeVars, sender>>

Credential(d) == delivery[d].cred
Source(d) == EdgeOf[delivery[d].cred]
InScope(c, r) == <<c, SiteOf[r]>> \in scopes

Receipt(d, r, class) == [cred |-> Credential(d), run |-> r, class |-> class]

Appended(results, r, class) ==
    [x \in DOMAIN results \cup {r} |-> IF x = r THEN class ELSE results[x]]

\* The receipt is recorded and the loop goes on with the next item.
Conclude(d, r, class) ==
    /\ receipts' = receipts \cup {Receipt(d, r, class)}
    /\ delivery' = [delivery EXCEPT ![d] =
            [delivery[d] EXCEPT !.pc = "open", !.todo = @ \ {r}, !.item = None,
                                !.results = Appended(@, r, class)]]

Reject(d, r, class) == Conclude(d, r, class) /\ UNCHANGED <<hub, imports>>

\* scope_allows, in a transaction of its own.
OutOfScope(d) ==
    /\ delivery[d].pc = "open"
    /\ \E r \in delivery[d].todo : ~InScope(Credential(d), r) /\ Reject(d, r, "unauthorized")
    /\ UNCHANGED <<authorityVars, edgeVars, sender, faults>>

\* A missing member, or one that fails its validation or its artifact's; the
\* class of "malformed" stands for each of theirs.
Damaged(d) ==
    /\ delivery[d].pc = "open"
    /\ Fault
    /\ \E r \in delivery[d].todo : InScope(Credential(d), r) /\ Reject(d, r, "malformed")
    /\ UNCHANGED <<authorityVars, edgeVars, sender>>

Verified(d) ==
    /\ delivery[d].pc = "open"
    /\ \E r \in delivery[d].todo :
            /\ InScope(Credential(d), r)
            /\ delivery' = [delivery EXCEPT ![d] = [@ EXCEPT !.pc = "store", !.item = r]]
    /\ UNCHANGED <<hubVars, authorityVars, edgeVars, sender, faults>>

AuthorizedBefore(c, r) == <<c, SiteOf[r]>> \in Scopes

\* _active_credential_scope: rechecked under locks.
Authorized(c, r) == c \in active /\ InScope(c, r)

SameRunId(e, r) == r \in Runs

SameCredential(e, r) == hub[r].edge = e /\ hub[r].via = KeyOf[e]

\* _existing_item_is_identical
Identical(e, r) == hub[r].edge = e /\ (r \in Reports => hub[r].contract)

\* _authority_snapshot_conflicts
AuthorityConflict(e, r) == \E i \in Uses[<<e, r>>] : imports[i] \notin {None, e}

ClassOf(c, r) ==
    IF ~Authorized(c, r) THEN "unauthorized"
    ELSE IF AuthorityConflict(EdgeOf[c], r) THEN "conflict"
    ELSE IF hub[r] = None THEN "accepted"
    ELSE IF Identical(EdgeOf[c], r) THEN "byte_identical" ELSE "conflict"

NewRow(c, r) ==
    [edge |-> EdgeOf[c], via |-> c, context |-> r \notin Reports,
     contract |-> r \in Reports, artifact |-> r \in Reports]

\* _backfill_identical_evidence
Backfilled(r) ==
    [hub[r] EXCEPT !.context = @ \/ r \notin Reports, !.artifact = @ \/ r \in Reports]

\* _insert_missing_authority_snapshots
ImportsOf(e, r) ==
    [i \in Imports |-> IF i \in Uses[<<e, r>>] /\ imports[i] = None THEN e ELSE imports[i]]

LastWriteWins(c, r, class) == NewRow(c, r)

\* The row a transaction leaves: inserted, or completed.
StoredRow(c, r, class) == IF class = "accepted" THEN NewRow(c, r) ELSE Backfilled(r)

\* ingest_verified_item: one transaction.
Store(d) ==
    /\ delivery[d].pc = "store"
    /\ LET r == delivery[d].item
           class == ClassOf(Credential(d), r)
       IN  /\ Conclude(d, r, class)
           /\ IF class \in Acknowledging
                THEN /\ hub' = [hub EXCEPT ![r] = StoredRow(Credential(d), r, class)]
                     /\ imports' = ImportsOf(Source(d), r)
                ELSE UNCHANGED <<hub, imports>>
    /\ UNCHANGED <<authorityVars, edgeVars, sender, faults>>

FailsAfterReceipt(d) ==
    /\ delivery[d].pc = "store"
    /\ Fault
    /\ Reject(d, delivery[d].item, ClassOf(Credential(d), delivery[d].item))
    /\ UNCHANGED <<authorityVars, edgeVars, sender>>

\* The transaction fails: another request stored the row first, or the
\* artifact could not be written.
StoreFails(d) ==
    /\ delivery[d].pc = "store"
    /\ Fault
    /\ Reject(d, delivery[d].item, "partial_bundle")
    /\ UNCHANGED <<authorityVars, edgeVars, sender>>

Answer(d) ==
    /\ delivery[d].pc = "open"
    /\ delivery[d].todo = {}
    /\ delivery' = [delivery EXCEPT ![d] = FreeDelivery]
    /\ sender' = IF delivery[d].online
                   THEN [sender EXCEPT ![Source(d)] =
                            [IdleSender EXCEPT !.pc = "applying", !.results = delivery[d].results]]
                   ELSE sender
    /\ UNCHANGED <<hubVars, authorityVars, edgeVars, faults>>

\* The hub process ends: what was committed stays, the waiting commands fail.
HubCrashes ==
    /\ \E d \in Deliveries : delivery[d].pc # "free"
    /\ Fault
    /\ delivery' = [d \in Deliveries |-> FreeDelivery]
    /\ sender' = [e \in Edges |-> IF sender[e].pc = "waiting" THEN IdleSender ELSE sender[e]]
    /\ UNCHANGED <<hubVars, authorityVars, edgeVars>>

\* Somebody withdraws a credential, or one of its scopes, from the hub.
AuthorityWithdrawn ==
    /\ Fault
    /\ \/ \E c \in active : active' = active \ {c} /\ UNCHANGED scopes
       \/ \E s \in scopes : scopes' = scopes \ {s} /\ UNCHANGED active
    /\ UNCHANGED <<hubVars, edgeVars, sender, delivery>>

-----------------------------------------------------------------------------
(* Version 1: the run, its result and its seal, without evidence.          *)

LegacyRow(e) == [edge |-> e, via |-> Legacy, context |-> FALSE, contract |-> FALSE, artifact |-> FALSE]

\* build_run_content of the stored row: a row of version 2 lacks parameters.
SameContent(e, r) == hub[r] # None /\ hub[r].edge = e /\ hub[r].via = Legacy

\* _ingest_one_run, and mark_synced when the command hears of it.
LegacyPush(e) ==
    /\ e \in LegacyEdges
    /\ Fault
    /\ \E r \in Sealed[e] \ synced[e] :
        /\ hub' = IF hub[r] = None THEN [hub EXCEPT ![r] = LegacyRow(e)] ELSE hub
        /\ \/ /\ hub[r] = None \/ SameContent(e, r)
              /\ synced' = [synced EXCEPT ![e] = @ \cup {r}]
           \/ UNCHANGED synced
    /\ UNCHANGED <<imports, receipts, authorityVars, acked, sender, delivery>>

-----------------------------------------------------------------------------
EdgeStep(e) ==
    PushPending(e) \/ PushChosen(e) \/ PushRefused(e) \/ SenderGivesUp(e)
        \/ ApplyReceipts(e) \/ LegacyPush(e)

HubStep(d) ==
    OutOfScope(d) \/ Damaged(d) \/ Verified(d) \/ Store(d) \/ StoreFails(d) \/ Answer(d)
        \/ CarriedFileArrives(d) \/ \E e \in Edges : RequestArrives(d, e)

\* On an edge, the artifact of a report or an import that a scan used goes, or is
\* not what the run recorded any more; a file written before can still be carried.
EvidenceLost ==
    /\ Fault
    /\ \E e \in Edges : \E r \in Sealed[e] : unbuildable' = [unbuildable EXCEPT ![e] = @ \cup {r}]
    /\ UNCHANGED <<hubVars, authorityVars, edgeVars, limit, sender, delivery>>

Step ==
    \/ \E e \in Edges : EdgeStep(e)
    \/ \E d \in Deliveries : HubStep(d)
    \/ HubCrashes \/ AuthorityWithdrawn

Next == (Step /\ UNCHANGED bundleVars) \/ EvidenceLost

\* Sync is run again and again on every edge; the hub's threads run.
Fairness ==
    /\ \A e \in Edges :
        /\ WF_vars(PushPending(e) /\ UNCHANGED bundleVars)
        /\ WF_vars(PushRefused(e) /\ UNCHANGED bundleVars)
        /\ WF_vars((\E d \in Deliveries : RequestArrives(d, e)) /\ UNCHANGED bundleVars)
        /\ WF_vars(ApplyReceipts(e) /\ UNCHANGED bundleVars)
    /\ \A d \in Deliveries :
        /\ WF_vars((OutOfScope(d) \/ Verified(d)) /\ UNCHANGED bundleVars)
        /\ WF_vars(Store(d) /\ UNCHANGED bundleVars)
        /\ WF_vars(Answer(d) /\ UNCHANGED bundleVars)

Spec == Init /\ [][Next]_vars
FairSpec == Spec /\ Fairness

-----------------------------------------------------------------------------
(* Properties.                                                             *)

DeliveryTypes ==
    /\ hub \in [Runs -> Rows \cup {None}]
    /\ imports \in [Imports -> Edges \cup {None}]
    /\ active \subseteq Credentials
    /\ scopes \subseteq Credentials \X Sites
    /\ receipts \subseteq [cred: Credentials, run: Runs, class: Classes]
    /\ acked \in [Edges -> SUBSET Runs]
    /\ synced \in [Edges -> SUBSET Runs]
    /\ sender \in [Edges -> [pc: {"idle", "sending", "waiting", "applying"},
                             bundle: SUBSET Runs, results: Results]]
    /\ delivery \in [Deliveries -> [pc: {"free", "open", "store"}, cred: Credentials \cup {None},
                                    online: BOOLEAN, todo: SUBSET Runs,
                                    item: Runs \cup {None}, results: Results]]
    /\ faults \in Nat

TypeOK ==
    /\ DeliveryTypes
    /\ unbuildable \in [Edges -> SUBSET Runs]
    /\ limit \in BundleLimits

\* The hub holds what edge e sealed as run r, with the evidence version 2 carries:
\* the frozen context or the report's artifact, and the imports of its authority.
Holds(e, r) == hub[r] # None /\ hub[r].edge = e

HoldsEvidence(e, r) ==
    /\ Holds(e, r)
    /\ IF r \in Reports THEN hub[r].artifact ELSE hub[r].context
    /\ \A i \in Uses[<<e, r>>] : imports[i] = e

\* A run leaves an edge's pending set only when the hub holds it with all its
\* evidence, and its watermark moves only when the hub holds it: whatever was lost,
\* delivered twice, carried by hand or pushed with the older protocol, nothing is
\* taken for delivered that the hub does not have.
AcknowledgedIsStored ==
    /\ \A e \in Edges : \A r \in acked[e] : HoldsEvidence(e, r)
    /\ \A e \in Edges : \A r \in synced[e] : Holds(e, r)

\* The acceptance receipts of a run name the one credential whose delivery stored
\* it: a run is accepted once, a failed transaction leaves no acceptance behind, and
\* no row of version 2 lacks its receipt.
AcceptanceIsTheStore ==
    \A r \in Runs :
        {x.cred : x \in {y \in receipts : y.run = r /\ y.class = "accepted"}} =
            IF hub[r] = None THEN {} ELSE {hub[r].via} \ {Legacy}

\* A stored run is never replaced: later deliveries, from any edge, over either
\* protocol, only add evidence that was missing, and an import never changes.
StoredNeverChanges ==
    [][/\ \A r \in Runs : hub[r] # None =>
            /\ hub'[r] # None
            /\ hub'[r].edge = hub[r].edge /\ hub'[r].via = hub[r].via
            /\ hub[r].contract = hub'[r].contract
            /\ hub[r].context => hub'[r].context
            /\ hub[r].artifact => hub'[r].artifact
       /\ \A i \in Imports : imports[i] # None => imports'[i] = imports[i]]_vars

\* Version 2 stores and completes rows under an authority that is still valid when
\* the item is committed, although it was checked when the request came in.
StoredUnderAuthority ==
    [][\A d \in Deliveries : \A r \in Runs :
            delivery[d].item = r /\ delivery'[d].item # r /\ hub'[r] # hub[r]
                => Credential(d) \in active /\ <<Credential(d), SiteOf[r]>> \in scopes]_vars

\* The hub has all the evidence of item r of the bundle d delivers.
Resent(d, r) ==
    HoldsEvidence(Source(d), r) /\ (r \in Reports => hub[r].contract)

\* Once a run's evidence is on the hub, no delivery of it is a conflict: resending
\* is always safe, by any credential of the edge and however often.
ResendIsNeverConflict ==
    [][\A d \in Deliveries : \A r \in DOMAIN delivery'[d].results :
            delivery[d].item = r /\ Resent(d, r) => delivery'[d].results[r] # "conflict"]_vars

\* What could still be delivered by edge e's own key.
Deliverable(e, r) ==
    /\ Authorized(KeyOf[e], r)
    /\ hub[r] = None \/ Identical(e, r)
    /\ ~AuthorityConflict(e, r)

\* Every sealed run is acknowledged in the end, whatever the hub makes of the other
\* runs of its bundles, unless its authority is withdrawn, the hub holds something
\* different under its identifiers, or the edge can bundle its pending runs no more:
\* one of them lost its evidence, or they are too many. Such a command sends nothing,
\* however often it is repeated (build_sync_v2_bundle, app.scripts.sync).
PendingIsAcknowledged ==
    <>[](\A e \in Edges : Buildable(e, Pending(e)) => \A r \in Pending(e) : ~Deliverable(e, r))
=============================================================================
