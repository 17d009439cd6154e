--------------------------- MODULE HubSyncProofs ---------------------------
(***************************************************************************)
(* Proofs about HubSync, for any edges, runs, credentials and request      *)
(* threads, and however many faults: no lemma reads the bound MaxFaults.   *)
(* The argument for what an acknowledgement means has two halves: a stored *)
(* row and an import only ever gain evidence, so what a receipt said once  *)
(* stays true; and a receipt that acknowledges is only made in the         *)
(* transaction that finds or leaves the evidence complete.                 *)
(***************************************************************************)
EXTENDS HubSync, TLAPS

SenderRecords ==
    [pc: {"idle", "sending", "waiting", "applying"}, bundle: SUBSET Runs, results: Results]

DeliveryRecords ==
    [pc: {"free", "open", "store"}, cred: Credentials \cup {None}, online: BOOLEAN,
     todo: SUBSET Runs, item: Runs \cup {None}, results: Results]

\* A request that is under way has a credential, and one that stores has its item.
UnderWay ==
    \A d \in Deliveries :
        /\ delivery[d].pc # "free" => delivery[d].cred \in Credentials
        /\ delivery[d].pc = "store" => delivery[d].item \in Runs

-----------------------------------------------------------------------------
\* No receipts are a function from no runs.
LEMMA NoResults == << >> \in Results
<1>1. << >> \in [{} -> Classes]
  OBVIOUS
<1> QED BY <1>1 DEF Results

LEMMA RestingRecords == IdleSender \in SenderRecords /\ FreeDelivery \in DeliveryRecords
  BY NoResults DEF IdleSender, FreeDelivery, SenderRecords, DeliveryRecords

\* Receipts of runs, and of one run more.
LEMMA MoreResults ==
  ASSUME NEW f \in Results, NEW r \in Runs, NEW class \in Classes
  PROVE  Appended(f, r, class) \in Results
<1>1. PICK s \in SUBSET Runs : f \in [s -> Classes]
  BY DEF Results
<1>2. Appended(f, r, class) \in [s \cup {r} -> Classes]
  BY <1>1 DEF Appended
<1> QED BY <1>2 DEF Results

LEMMA ResultsAreOfRuns ==
  ASSUME NEW f \in Results
  PROVE  DOMAIN f \subseteq Runs /\ \A r \in DOMAIN f : f[r] \in Classes
  BY DEF Results

LEMMA ClassIsAClass ==
  ASSUME NEW c, NEW r
  PROVE  ClassOf(c, r) \in {"accepted", "byte_identical", "conflict", "unauthorized"}
  BY DEF ClassOf

\* What a request thread is after an item.
LEMMA ConcludeType ==
  ASSUME DeliveryTypes, NEW d \in Deliveries, NEW r \in Runs, NEW class \in Classes,
         Conclude(d, r, class), delivery[d].cred \in Credentials
  PROVE  /\ delivery' \in [Deliveries -> DeliveryRecords]
         /\ receipts' \subseteq [cred: Credentials, run: Runs, class: Classes]
         /\ UnderWay => UnderWay'
<1>1. /\ delivery \in [Deliveries -> DeliveryRecords]
      /\ receipts \subseteq [cred: Credentials, run: Runs, class: Classes]
  BY DEF DeliveryTypes, DeliveryRecords
<1> DEFINE more == Appended(delivery[d].results, r, class)
           after == [delivery[d] EXCEPT !.pc = "open", !.todo = @ \ {r}, !.item = None,
                                        !.results = more]
<1>2. more \in Results
  <2>1. delivery[d].results \in Results
    BY <1>1 DEF DeliveryRecords
  <2> QED BY <2>1, MoreResults
<1>3. delivery' = [delivery EXCEPT ![d] = after]
  BY DEF Conclude
<1>4. /\ after \in DeliveryRecords /\ after.pc = "open" /\ after.cred = delivery[d].cred
  <2> HIDE DEF more
  <2> QED BY <1>1, <1>2 DEF DeliveryRecords
<1> HIDE DEF after
<1>5. delivery' \in [Deliveries -> DeliveryRecords]
  BY <1>1, <1>3, <1>4
<1>6. UnderWay => UnderWay'
  BY <1>1, <1>3, <1>4 DEF UnderWay
<1>7. receipts' \subseteq [cred: Credentials, run: Runs, class: Classes]
  BY <1>1 DEF Conclude, Receipt, Credential
<1> QED BY <1>5, <1>6, <1>7

\* A request whose sender is gone.
LEMMA OfflineType ==
  ASSUME NEW x \in DeliveryRecords, NEW b \in BOOLEAN
  PROVE  LET y == [x EXCEPT !.online = b]
         IN  y \in DeliveryRecords /\ y.pc = x.pc /\ y.cred = x.cred /\ y.item = x.item
             /\ y.results = x.results
  BY DEF DeliveryRecords

-----------------------------------------------------------------------------
TInv == DeliveryTypes /\ UnderWay

\* Only an edge's own records change.
LEMMA EdgeStepType ==
  ASSUME TInv, NEW e \in Edges, EdgeStep(e)
  PROVE  TInv'
<1> USE ConstantsAssumption DEF TInv
<1>0. /\ sender \in [Edges -> SenderRecords] /\ delivery \in [Deliveries -> DeliveryRecords]
      /\ sender[e] \in SenderRecords
  BY DEF DeliveryTypes, SenderRecords, DeliveryRecords
<1>1. ASSUME NEW bundle \in SUBSET Runs, Push(e, bundle), faults' \in Nat PROVE TInv'
  <2>1. [IdleSender EXCEPT !.pc = "sending", !.bundle = bundle] \in SenderRecords
    BY RestingRecords DEF SenderRecords
  <2>2. sender' \in [Edges -> SenderRecords]
    BY <1>0, <1>1, <2>1 DEF Push
  <2> QED
    BY <1>1, <2>2 DEF Push, DeliveryTypes, SenderRecords, UnderWay, hubVars, authorityVars, edgeVars
<1>2. CASE PushPending(e)
  <2>1. Pending(e) \in SUBSET Runs
    BY DEF Pending
  <2> QED BY <1>1, <1>2, <2>1 DEF PushPending, DeliveryTypes
<1>3. CASE PushChosen(e)
  <2>1. PICK bundle \in SUBSET Sealed[e] : Push(e, bundle)
    BY <1>3 DEF PushChosen
  <2> QED BY <1>1, <1>3, <2>1 DEF PushChosen, Fault, DeliveryTypes
<1>4. CASE PushRefused(e)
  <2>1. sender' \in [Edges -> SenderRecords]
    BY <1>0, <1>4, RestingRecords DEF PushRefused
  <2> QED
    BY <1>4, <2>1 DEF PushRefused, DeliveryTypes, SenderRecords, UnderWay, hubVars,
       authorityVars, edgeVars
<1>5. CASE SenderGivesUp(e)
  <2>1. sender' \in [Edges -> SenderRecords]
    BY <1>0, <1>5, RestingRecords DEF SenderGivesUp
  <2>2. /\ delivery' \in [Deliveries -> DeliveryRecords]
        /\ \A d \in Deliveries : /\ delivery'[d].pc = delivery[d].pc
                                /\ delivery'[d].cred = delivery[d].cred
                                /\ delivery'[d].item = delivery[d].item
    <3>1. \A d \in Deliveries :
            LET y == [delivery[d] EXCEPT !.online = FALSE]
            IN  y \in DeliveryRecords /\ y.pc = delivery[d].pc /\ y.cred = delivery[d].cred
                /\ y.item = delivery[d].item
      <4>1. FALSE \in BOOLEAN
        OBVIOUS
      <4> QED BY <1>0, <4>1, OfflineType, Zenon
    <3>2. \A d \in Deliveries : \/ delivery'[d] = delivery[d]
                                \/ delivery'[d] = [delivery[d] EXCEPT !.online = FALSE]
      BY <1>5 DEF SenderGivesUp
    <3>3. delivery' = [d \in Deliveries |-> delivery'[d]]
      BY <1>5 DEF SenderGivesUp
    <3>4. ASSUME NEW d \in Deliveries
          PROVE  /\ delivery'[d] \in DeliveryRecords
                 /\ delivery'[d].pc = delivery[d].pc
                 /\ delivery'[d].cred = delivery[d].cred
                 /\ delivery'[d].item = delivery[d].item
      BY <1>0, <3>1, <3>2, Zenon
    <3> QED BY <3>3, <3>4
  <2>3. UnderWay'
    BY <2>2 DEF UnderWay
  <2>4. UNCHANGED <<hub, imports, receipts, active, scopes, acked, synced>> /\ faults' \in Nat
    BY <1>5 DEF SenderGivesUp, Fault, DeliveryTypes, hubVars, authorityVars, edgeVars
  <2> QED
    BY <2>1, <2>2, <2>3, <2>4 DEF DeliveryTypes, SenderRecords, DeliveryRecords
<1>6. CASE ApplyReceipts(e)
  <2>1. sender' \in [Edges -> SenderRecords]
    BY <1>0, <1>6, RestingRecords DEF ApplyReceipts
  <2>2. Proved(sender[e].results) \subseteq Runs
    BY <1>0, ResultsAreOfRuns DEF Proved, SenderRecords
  <2> QED
    BY <1>6, <2>1, <2>2 DEF ApplyReceipts, DeliveryTypes, SenderRecords, UnderWay, hubVars,
       authorityVars
<1>7. CASE LegacyPush(e)
  <2>1. LegacyRow(e) \in Rows
    BY DEF LegacyRow, Rows
  <2>2. PICK r \in Sealed[e] :
            /\ hub' = IF hub[r] = None THEN [hub EXCEPT ![r] = LegacyRow(e)] ELSE hub
            /\ synced' = [synced EXCEPT ![e] = @ \cup {r}] \/ synced' = synced
    BY <1>7 DEF LegacyPush
  <2>3. hub' \in [Runs -> Rows \cup {None}] /\ synced' \in [Edges -> SUBSET Runs]
    <3>1. r \in Runs /\ synced \in [Edges -> SUBSET Runs] /\ hub \in [Runs -> Rows \cup {None}]
      BY DEF DeliveryTypes
    <3>2. CASE hub[r] = None BY <2>1, <2>2, <3>1, <3>2
    <3>3. CASE hub[r] # None BY <2>2, <3>1, <3>3
    <3> QED BY <3>2, <3>3
  <2>4. /\ UNCHANGED <<imports, receipts, active, scopes, acked, sender, delivery>>
        /\ faults' \in Nat
    BY <1>7 DEF LegacyPush, Fault, DeliveryTypes, authorityVars
  <2> QED BY <2>3, <2>4 DEF DeliveryTypes, UnderWay
<1> QED BY <1>2, <1>3, <1>4, <1>5, <1>6, <1>7 DEF EdgeStep

\* A request opens with the key of an edge and a bundle of its runs.
LEMMA OpenType ==
  ASSUME TInv, NEW d \in Deliveries, NEW c \in Credentials, NEW bundle \in SUBSET Runs,
         NEW online \in BOOLEAN, Open(d, c, bundle, online)
  PROVE  delivery' \in [Deliveries -> DeliveryRecords] /\ UnderWay'
<1>1. /\ [FreeDelivery EXCEPT !.pc = "open", !.cred = c, !.online = online, !.todo = bundle]
            \in DeliveryRecords
      /\ delivery \in [Deliveries -> DeliveryRecords]
  BY RestingRecords DEF DeliveryRecords, TInv, DeliveryTypes
<1>2. delivery' \in [Deliveries -> DeliveryRecords]
  BY <1>1 DEF Open
<1>3. UnderWay'
  BY <1>1 DEF Open, UnderWay, TInv, FreeDelivery
<1> QED BY <1>2, <1>3

\* A row a transaction leaves is a row.
LEMMA StoreType ==
  ASSUME TInv, NEW d \in Deliveries, Store(d)
  PROVE  TInv'
<1> USE ConstantsAssumption DEF TInv
<1> DEFINE r == delivery[d].item
           c == delivery[d].cred
           class == ClassOf(c, r)
<1>1. /\ r \in Runs /\ c \in Credentials /\ Conclude(d, r, class) /\ EdgeOf[c] \in Edges
      /\ class \in Classes
  BY ClassIsAClass DEF Store, UnderWay, Credential, Classes, Acknowledging, Rejections
<1>2. IF class \in Acknowledging
        THEN /\ hub' = [hub EXCEPT ![r] = StoredRow(c, r, class)]
             /\ imports' = ImportsOf(EdgeOf[c], r)
        ELSE UNCHANGED <<hub, imports>>
  BY DEF Store, Credential, Source
<1>3. UNCHANGED <<active, scopes, acked, synced, sender, faults>>
  BY DEF Store, authorityVars, edgeVars
<1>4. class \in Acknowledging => StoredRow(c, r, class) \in Rows
  <2>1. CASE class = "accepted"
    BY <1>1, <2>1 DEF StoredRow, NewRow, Rows
  <2>2. CASE class = "byte_identical"
    <3>1. hub[r] \in Rows
      BY <1>1, <2>2 DEF ClassOf, DeliveryTypes
    <3> QED BY <1>1, <2>2, <3>1 DEF StoredRow, Backfilled, Rows
  <2> QED BY <2>1, <2>2 DEF Acknowledging
<1>5. hub' \in [Runs -> Rows \cup {None}]
  BY <1>1, <1>2, <1>4 DEF DeliveryTypes
<1>6. imports' \in [Imports -> Edges \cup {None}]
  BY <1>1, <1>2 DEF DeliveryTypes, ImportsOf
<1> QED
  BY <1>1, <1>3, <1>5, <1>6, ConcludeType DEF DeliveryTypes, DeliveryRecords

LEMMA HubStepType ==
  ASSUME TInv, NEW d \in Deliveries, HubStep(d)
  PROVE  TInv'
<1> USE ConstantsAssumption DEF TInv
<1>0. delivery \in [Deliveries -> DeliveryRecords]
  BY DEF DeliveryTypes, DeliveryRecords
<1>1. ASSUME NEW r \in Runs, NEW class \in Classes, Reject(d, r, class),
             delivery[d].cred \in Credentials,
             UNCHANGED <<active, scopes, acked, synced, sender>>, faults' \in Nat
      PROVE  TInv'
  BY <1>1, ConcludeType DEF Reject, DeliveryTypes, DeliveryRecords
<1>2. CASE OutOfScope(d)
  <2>1. PICK r \in delivery[d].todo : Reject(d, r, "unauthorized")
    BY <1>2 DEF OutOfScope
  <2> QED
    BY <1>0, <1>1, <1>2, <2>1 DEF OutOfScope, authorityVars, edgeVars, UnderWay, DeliveryTypes,
       DeliveryRecords, Classes, Rejections
<1>3. CASE Damaged(d)
  <2>1. PICK r \in delivery[d].todo : Reject(d, r, "malformed")
    BY <1>3 DEF Damaged
  <2> QED
    BY <1>0, <1>1, <1>3, <2>1 DEF Damaged, Fault, authorityVars, edgeVars, UnderWay, DeliveryTypes,
       DeliveryRecords, Classes, Rejections
<1>4. CASE StoreFails(d)
  BY <1>0, <1>1, <1>4 DEF StoreFails, Fault, authorityVars, edgeVars, UnderWay, DeliveryTypes,
     DeliveryRecords, Classes, Rejections
<1>5. CASE Verified(d)
  <2>1. PICK r \in delivery[d].todo :
            delivery' = [delivery EXCEPT ![d] = [delivery[d] EXCEPT !.pc = "store", !.item = r]]
    BY <1>5 DEF Verified
  <2>2. [delivery[d] EXCEPT !.pc = "store", !.item = r] \in DeliveryRecords /\ r \in Runs
    BY <1>0 DEF DeliveryRecords
  <2>3. delivery' \in [Deliveries -> DeliveryRecords]
    BY <1>0, <2>1, <2>2
  <2>4. UnderWay'
    BY <1>0, <1>5, <2>1, <2>2 DEF UnderWay, Verified, DeliveryRecords
  <2> QED
    BY <1>5, <2>3, <2>4 DEF Verified, DeliveryTypes, DeliveryRecords, hubVars, authorityVars,
       edgeVars
<1>6. CASE Answer(d)
  <2>1. [IdleSender EXCEPT !.pc = "applying", !.results = delivery[d].results]
            \in SenderRecords
    BY <1>0, RestingRecords DEF SenderRecords, DeliveryRecords
  <2>2. sender' \in [Edges -> SenderRecords]
    BY <1>6, <2>1 DEF Answer, DeliveryTypes, SenderRecords
  <2>3. delivery' \in [Deliveries -> DeliveryRecords] /\ UnderWay'
    BY <1>0, <1>6, RestingRecords DEF Answer, UnderWay, FreeDelivery
  <2> QED
    BY <1>6, <2>2, <2>3 DEF Answer, DeliveryTypes, DeliveryRecords, SenderRecords, hubVars,
       authorityVars, edgeVars
<1>7. CASE CarriedFileArrives(d)
  <2>1. PICK c \in Credentials : \E bundle \in SUBSET Sealed[EdgeOf[c]] \ {{}} :
            Open(d, c, bundle, FALSE)
    BY <1>7 DEF CarriedFileArrives
  <2>2. PICK bundle \in SUBSET Runs : Open(d, c, bundle, FALSE)
    BY <2>1
  <2>3. delivery' \in [Deliveries -> DeliveryRecords] /\ UnderWay'
    BY <2>2, OpenType
  <2>4. /\ UNCHANGED <<hub, imports, receipts, active, scopes, acked, synced, sender>>
        /\ faults' \in Nat
    BY <1>7 DEF CarriedFileArrives, Fault, DeliveryTypes, hubVars, authorityVars, edgeVars
  <2> QED BY <2>3, <2>4 DEF DeliveryTypes, DeliveryRecords
<1>8. ASSUME NEW e \in Edges, RequestArrives(d, e) PROVE TInv'
  <2>1. sender[e].bundle \in SUBSET Runs /\ KeyOf[e] \in Credentials
    BY DEF DeliveryTypes
  <2>2. [IdleSender EXCEPT !.pc = "waiting"] \in SenderRecords
    BY RestingRecords DEF SenderRecords
  <2>3. sender' \in [Edges -> SenderRecords]
    BY <1>8, <2>2 DEF RequestArrives, DeliveryTypes, SenderRecords
  <2> QED
    BY <1>8, <2>1, <2>3, OpenType DEF RequestArrives, DeliveryTypes, DeliveryRecords,
       SenderRecords, hubVars, authorityVars, edgeVars
<1> QED BY <1>2, <1>3, <1>4, <1>5, <1>6, <1>7, <1>8, StoreType DEF HubStep

LEMMA TypeNext == TInv /\ [Next]_vars => TInv'
<1> SUFFICES ASSUME TInv, [Next]_vars PROVE TInv'
  OBVIOUS
<1>1. CASE HubCrashes
  <2>1. delivery' \in [Deliveries -> DeliveryRecords] /\ UnderWay'
    BY <1>1, RestingRecords DEF HubCrashes, UnderWay, FreeDelivery
  <2>2. sender' \in [Edges -> SenderRecords]
    BY <1>1, RestingRecords DEF HubCrashes, TInv, DeliveryTypes, SenderRecords
  <2> QED
    BY <1>1, <2>1, <2>2 DEF HubCrashes, Fault, TInv, DeliveryTypes, DeliveryRecords,
       SenderRecords, hubVars, authorityVars, edgeVars
<1>2. CASE AuthorityWithdrawn
  BY <1>2 DEF AuthorityWithdrawn, Fault, TInv, DeliveryTypes, UnderWay, hubVars, edgeVars
<1>3. CASE EvidenceLost \/ UNCHANGED vars
  BY <1>3 DEF EvidenceLost, Fault, vars, TInv, DeliveryTypes, UnderWay, hubVars, authorityVars,
              edgeVars
<1> QED BY <1>1, <1>2, <1>3, EdgeStepType, HubStepType DEF Next, Step

LEMMA TypeInit == Init => TInv
  BY ConstantsAssumption, RestingRecords
     DEF Init, TInv, DeliveryTypes, UnderWay, FreeDelivery, SenderRecords, DeliveryRecords

LEMMA Typed == Spec => []TInv
  BY TypeInit, TypeNext, PTL DEF Spec

\* The rows, receipts, commands and requests keep their shape.
THEOREM TypeCorrect == Spec => []TypeOK
<1> DEFINE BundleTypes == unbuildable \in [Edges -> SUBSET Runs] /\ limit \in BundleLimits
<1>1. Init => BundleTypes
  BY DEF Init
<1>2. BundleTypes /\ [Next]_vars => BundleTypes'
  <2> SUFFICES ASSUME BundleTypes, [Next]_vars PROVE BundleTypes'
    OBVIOUS
  <2>1. CASE EvidenceLost
    <3>1. PICK e \in Edges : \E r \in Sealed[e] :
                 unbuildable' = [unbuildable EXCEPT ![e] = @ \cup {r}]
      BY <2>1 DEF EvidenceLost
    <3>2. Sealed[e] \subseteq Runs
      BY ConstantsAssumption DEF ConstantsAssumption
    <3> QED BY <2>1, <3>1, <3>2 DEF EvidenceLost
  <2>2. CASE UNCHANGED bundleVars
    BY <2>2 DEF bundleVars
  <2> QED BY <2>1, <2>2 DEF Next, vars, bundleVars
<1>3. TInv /\ BundleTypes => TypeOK
  BY DEF TInv, TypeOK
<1> QED BY <1>1, <1>2, <1>3, Typed, PTL DEF Spec

-----------------------------------------------------------------------------
(* A stored row only gains evidence.                                       *)

RowGrows(r) ==
    hub[r] # None =>
        /\ hub'[r] # None
        /\ hub'[r].edge = hub[r].edge /\ hub'[r].via = hub[r].via
        /\ hub[r].contract = hub'[r].contract
        /\ hub[r].context => hub'[r].context
        /\ hub[r].artifact => hub'[r].artifact

Grows ==
    /\ \A r \in Runs : RowGrows(r)
    /\ \A i \in Imports : imports[i] # None => imports'[i] = imports[i]

LEMMA NothingStored ==
  ASSUME UNCHANGED <<hub, imports>>
  PROVE  Grows
  BY DEF Grows, RowGrows

\* What the transaction of an item does, said of its own run.
LEMMA StoreEffect ==
  ASSUME TInv, NEW d \in Deliveries, Store(d)
  PROVE  LET r == delivery[d].item
             c == delivery[d].cred
             class == ClassOf(c, r)
         IN  /\ r \in Runs /\ c \in Credentials /\ EdgeOf[c] \in Edges
             /\ Conclude(d, r, class)
             /\ \/ class \in Acknowledging
                   /\ hub' = [hub EXCEPT ![r] = StoredRow(c, r, class)]
                   /\ imports' = ImportsOf(EdgeOf[c], r)
                \/ class \notin Acknowledging /\ UNCHANGED <<hub, imports>>
  BY ConstantsAssumption DEF Store, TInv, UnderWay, Credential, Source

LEMMA BackfillAdds ==
  ASSUME NEW r \in Runs, hub[r] \in Rows
  PROVE  LET row == Backfilled(r)
         IN  /\ row \in Rows
             /\ row.edge = hub[r].edge /\ row.via = hub[r].via
             /\ row.contract = hub[r].contract
             /\ hub[r].context \/ r \notin Reports => row.context
             /\ hub[r].artifact \/ r \in Reports => row.artifact
<1> DEFINE a == hub[r].context \/ r \notin Reports
           b == hub[r].artifact \/ r \in Reports
<1>1. a \in BOOLEAN /\ b \in BOOLEAN
  OBVIOUS
<1>2. Backfilled(r) = [hub[r] EXCEPT !.context = a, !.artifact = b]
  BY DEF Backfilled
<1> HIDE DEF a, b
<1>3. LET row == [hub[r] EXCEPT !.context = a, !.artifact = b]
      IN  /\ row \in Rows
          /\ row.edge = hub[r].edge /\ row.via = hub[r].via
          /\ row.contract = hub[r].contract
          /\ row.context = a /\ row.artifact = b
  BY <1>1 DEF Rows
<1> QED BY <1>2, <1>3 DEF a, b

LEMMA StoreGrows ==
  ASSUME TInv, NEW d \in Deliveries, Store(d)
  PROVE  Grows
<1> DEFINE r == delivery[d].item
           c == delivery[d].cred
           class == ClassOf(c, r)
<1>1. r \in Runs /\ hub \in [Runs -> Rows \cup {None}]
  BY StoreEffect DEF TInv, DeliveryTypes
<1>2. CASE class \notin Acknowledging
  BY <1>2, StoreEffect, NothingStored
<1>3. CASE class \in Acknowledging
  <2>1. /\ hub' = [hub EXCEPT ![r] = StoredRow(c, r, class)]
        /\ imports' = ImportsOf(EdgeOf[c], r)
    BY <1>3, StoreEffect
  <2>2. \A i \in Imports : imports[i] # None => imports'[i] = imports[i]
    BY <2>1 DEF ImportsOf
  <2>3. hub[r] # None => StoredRow(c, r, class) = Backfilled(r)
    BY <1>3, ClassIsAClass DEF StoredRow, ClassOf
  <2>4. ASSUME NEW x \in Runs, hub[x] # None PROVE RowGrows(x)
    <3>1. CASE x = r
      BY <1>1, <2>1, <2>3, <2>4, <3>1, BackfillAdds, RowsAssumption DEF RowGrows
    <3>2. CASE x # r
      BY <1>1, <2>1, <3>2 DEF RowGrows
    <3> QED BY <3>1, <3>2
  <2> QED BY <2>2, <2>4 DEF Grows, RowGrows
<1> QED BY <1>2, <1>3

LEMMA Growth == TInv /\ [Next]_vars => Grows
<1> SUFFICES ASSUME TInv, [Next]_vars PROVE Grows
  OBVIOUS
<1>1. ASSUME NEW e \in Edges, EdgeStep(e) PROVE Grows
  <2>1. CASE LegacyPush(e)
    BY <2>1 DEF LegacyPush, Grows, RowGrows, TInv, DeliveryTypes
  <2>2. CASE ~LegacyPush(e)
    BY <1>1, <2>2, NothingStored
       DEF EdgeStep, PushPending, PushChosen, Push, PushRefused, SenderGivesUp, ApplyReceipts,
           hubVars
  <2> QED BY <2>1, <2>2
<1>2. ASSUME NEW d \in Deliveries, HubStep(d) PROVE Grows
  <2>1. CASE Store(d)
    BY <2>1, StoreGrows
  <2>2. CASE ~Store(d)
    BY <1>2, <2>2, NothingStored
       DEF HubStep, OutOfScope, Damaged, Verified, StoreFails, Answer, CarriedFileArrives,
           RequestArrives, Reject, hubVars
  <2> QED BY <2>1, <2>2
<1>3. CASE HubCrashes \/ AuthorityWithdrawn \/ EvidenceLost \/ UNCHANGED vars
  BY <1>3, NothingStored DEF HubCrashes, AuthorityWithdrawn, EvidenceLost, vars, hubVars
<1> QED BY <1>1, <1>2, <1>3 DEF Next, Step

\* The hub never replaces a run it stored nor an import: a later delivery, of
\* either protocol, only completes it.
THEOREM StoredStays == Spec => StoredNeverChanges
<1>1. TInv /\ [Next]_vars => Grows
  BY Growth
<1>2. Grows =>
        /\ \A r \in Runs : hub[r] # None =>
              /\ hub'[r] # None
              /\ hub'[r].edge = hub[r].edge /\ hub'[r].via = hub[r].via
              /\ hub[r].contract = hub'[r].contract
              /\ hub[r].context => hub'[r].context
              /\ hub[r].artifact => hub'[r].artifact
        /\ \A i \in Imports : imports[i] # None => imports'[i] = imports[i]
  BY DEF Grows, RowGrows
<1> QED BY <1>1, <1>2, Typed, PTL DEF Spec, StoredNeverChanges

-----------------------------------------------------------------------------
(* An acknowledging receipt means that the hub holds the run.              *)

\* The receipts on their way, in the request thread or at the edge, are true.
Kept(e, results) ==
    \A r \in DOMAIN results : results[r] \in Acknowledging => HoldsEvidence(e, r)

ReceiptsAreTrue ==
    /\ \A d \in Deliveries :
            delivery[d].pc # "free" => Kept(EdgeOf[delivery[d].cred], delivery[d].results)
    /\ \A e \in Edges : Kept(e, sender[e].results)

AInv == AcknowledgedIsStored /\ ReceiptsAreTrue

LEMMA NoReceiptsAreTrue ==
  /\ \A e \in Edges : Kept(e, IdleSender.results) /\ Kept(e, FreeDelivery.results)
  BY DEF Kept, IdleSender, FreeDelivery

\* What was held is held.
LEMMA HoldsStays ==
  ASSUME TInv, Grows, NEW e \in Edges, NEW r \in Runs, Holds(e, r)
  PROVE  Holds(e, r)'
  BY DEF Grows, RowGrows, Holds

LEMMA EvidenceStays ==
  ASSUME TInv, Grows, NEW e \in Edges, NEW r \in Runs, HoldsEvidence(e, r)
  PROVE  HoldsEvidence(e, r)'
<1>1. \A i \in Uses[<<e, r>>] : i \in Imports /\ imports[i] = e
  BY ConstantsAssumption DEF HoldsEvidence
<1>2. \A i \in Uses[<<e, r>>] : imports'[i] = e
  BY <1>1, ConstantsAssumption DEF Grows
<1>3. IF r \in Reports THEN hub'[r].artifact ELSE hub'[r].context
  BY DEF Grows, RowGrows, HoldsEvidence, Holds
<1> QED BY <1>2, <1>3, HoldsStays DEF HoldsEvidence

LEMMA KeptStays ==
  ASSUME TInv, Grows, NEW e \in Edges, NEW results \in Results, Kept(e, results),
         NEW r \in DOMAIN results, results[r] \in Acknowledging
  PROVE  HoldsEvidence(e, r)'
  BY EvidenceStays, ResultsAreOfRuns DEF Kept

LEMMA NewRowHolds ==
  ASSUME NEW r \in Runs, NEW c \in Credentials
  PROVE  LET row == NewRow(c, r)
         IN  /\ row \in Rows /\ row.edge = EdgeOf[c] /\ row.via = c
             /\ r \notin Reports => row.context
             /\ r \in Reports => row.artifact
<1> DEFINE a == r \notin Reports
           b == r \in Reports
<1>1. a \in BOOLEAN /\ b \in BOOLEAN /\ EdgeOf[c] \in Edges
  BY ConstantsAssumption
<1>2. NewRow(c, r) = [edge |-> EdgeOf[c], via |-> c, context |-> a, contract |-> b, artifact |-> b]
  BY DEF NewRow
<1> HIDE DEF a, b
<1>3. NewRow(c, r) \in Rows
  BY <1>1, <1>2 DEF Rows
<1>4. LET row == NewRow(c, r)
      IN  row.edge = EdgeOf[c] /\ row.via = c /\ row.context = a /\ row.artifact = b
  BY <1>2
<1> QED BY <1>3, <1>4 DEF a, b

\* The transaction that accepts or completes a run leaves all its evidence.
LEMMA StoreHolds ==
  ASSUME TInv, NEW d \in Deliveries, Store(d), NEW r \in Runs, NEW c \in Credentials,
         r = delivery[d].item, c = delivery[d].cred, ClassOf(c, r) \in Acknowledging
  PROVE  HoldsEvidence(EdgeOf[c], r)'
<1>1. /\ EdgeOf[c] \in Edges
      /\ hub' = [hub EXCEPT ![r] = StoredRow(c, r, ClassOf(c, r))]
      /\ imports' = ImportsOf(EdgeOf[c], r)
      /\ hub \in [Runs -> Rows \cup {None}] /\ imports \in [Imports -> Edges \cup {None}]
  BY StoreEffect DEF TInv, DeliveryTypes
<1>2. ~AuthorityConflict(EdgeOf[c], r)
  BY DEF ClassOf, Acknowledging
<1>3. \A i \in Uses[<<EdgeOf[c], r>>] : imports'[i] = EdgeOf[c]
  <2>1. \A i \in Uses[<<EdgeOf[c], r>>] : i \in Imports /\ imports[i] \in {None, EdgeOf[c]}
    BY <1>1, <1>2, ConstantsAssumption DEF AuthorityConflict
  <2> QED BY <1>1, <2>1 DEF ImportsOf
<1>4. PICK row \in Rows : /\ StoredRow(c, r, ClassOf(c, r)) = row
                          /\ row.edge = EdgeOf[c]
                          /\ r \notin Reports => row.context
                          /\ r \in Reports => row.artifact
  <2>1. CASE ClassOf(c, r) = "accepted"
    BY <2>1, NewRowHolds DEF StoredRow
  <2>2. CASE ClassOf(c, r) = "byte_identical"
    <3>1. hub[r] \in Rows /\ hub[r].edge = EdgeOf[c]
      BY <1>1, <2>2 DEF ClassOf, Identical
    <3>2. StoredRow(c, r, ClassOf(c, r)) = Backfilled(r)
      BY <2>2 DEF StoredRow
    <3> QED BY <3>1, <3>2, BackfillAdds
  <2> QED BY <2>1, <2>2 DEF Acknowledging
<1>5. hub'[r] = row /\ row # None
  BY <1>1, <1>4, RowsAssumption
<1> QED BY <1>3, <1>4, <1>5 DEF HoldsEvidence, Holds

\* The receipts of a thread after an item.
LEMMA ConcludeKept ==
  ASSUME TInv, AInv, Grows, NEW d \in Deliveries, NEW r \in Runs, NEW class \in Classes,
         NEW e \in Edges, e = EdgeOf[delivery[d].cred], delivery[d].pc # "free",
         Conclude(d, r, class), class \in Acknowledging => HoldsEvidence(e, r)',
         UNCHANGED sender
  PROVE  ReceiptsAreTrue'
<1> USE ConstantsAssumption
<1>1. delivery \in [Deliveries -> DeliveryRecords] /\ delivery[d] \in DeliveryRecords
  BY DEF TInv, DeliveryTypes, DeliveryRecords
<1>2. /\ delivery'[d].results = Appended(delivery[d].results, r, class)
      /\ delivery'[d].cred = delivery[d].cred
      /\ \A x \in Deliveries : x # d => delivery'[x] = delivery[x]
  BY <1>1 DEF Conclude, DeliveryRecords
<1>3. Kept(e, delivery[d].results)'
  <2>1. delivery[d].results \in Results /\ Kept(e, delivery[d].results)
    BY <1>1 DEF AInv, ReceiptsAreTrue, DeliveryRecords
  <2>2. \A x \in DOMAIN delivery[d].results :
            delivery[d].results[x] \in Acknowledging => HoldsEvidence(e, x)'
    BY <2>1, KeptStays
  <2> QED BY <1>2, <2>2 DEF Kept, Appended
<1>4. ASSUME NEW x \in Deliveries, delivery'[x].pc # "free"
      PROVE  Kept(EdgeOf[delivery[x].cred], delivery[x].results)'
  <2>1. CASE x = d
    BY <1>2, <1>3, <2>1
  <2>2. CASE x # d
    <3>1. PICK f \in Edges : f = EdgeOf[delivery[x].cred]
      BY <1>1, <1>2, <1>4, <2>2 DEF TInv, UnderWay
    <3>2. delivery'[x] = delivery[x] /\ delivery[x].results \in Results
          /\ Kept(f, delivery[x].results)
      BY <1>1, <1>2, <1>4, <2>2, <3>1 DEF AInv, ReceiptsAreTrue, DeliveryRecords
    <3> QED BY <3>1, <3>2, KeptStays DEF Kept
  <2> QED BY <2>1, <2>2
<1>5. ASSUME NEW f \in Edges PROVE Kept(f, sender[f].results)'
  <2>1. sender[f].results \in Results /\ Kept(f, sender[f].results)
    BY DEF TInv, DeliveryTypes, AInv, ReceiptsAreTrue
  <2> QED BY <2>1, KeptStays DEF Kept
<1> QED BY <1>4, <1>5 DEF ReceiptsAreTrue

\* Receipts that stay where they are, are handed to the edge, or are dropped.
LEMMA ReceiptsStay ==
  ASSUME TInv, AInv, Grows,
         \A d \in Deliveries : delivery'[d].pc # "free" =>
            \/ DOMAIN delivery'[d].results = {}
            \/ /\ delivery[d].pc # "free" /\ delivery'[d].cred = delivery[d].cred
               /\ delivery'[d].results = delivery[d].results,
         \A e \in Edges :
            \/ DOMAIN sender'[e].results = {}
            \/ sender'[e].results = sender[e].results
            \/ \E d \in Deliveries : /\ delivery[d].pc # "free"
                                     /\ EdgeOf[delivery[d].cred] = e
                                     /\ sender'[e].results = delivery[d].results
  PROVE  ReceiptsAreTrue'
<1> USE ConstantsAssumption
<1>0. ASSUME NEW e \in Edges, NEW results \in Results, Kept(e, results) PROVE Kept(e, results)'
  BY <1>0, KeptStays DEF Kept
<1>1. ASSUME NEW d \in Deliveries, delivery'[d].pc # "free"
      PROVE  Kept(EdgeOf[delivery[d].cred], delivery[d].results)'
  <2>1. CASE DOMAIN delivery'[d].results = {}
    BY <2>1 DEF Kept
  <2>2. CASE /\ delivery[d].pc # "free" /\ delivery'[d].cred = delivery[d].cred
             /\ delivery'[d].results = delivery[d].results
    <3>1. PICK e \in Edges, results \in Results :
            e = EdgeOf[delivery[d].cred] /\ results = delivery[d].results
      BY <2>2 DEF TInv, UnderWay, DeliveryTypes
    <3>2. Kept(e, results)'
      BY <1>0, <2>2, <3>1 DEF AInv, ReceiptsAreTrue
    <3> QED BY <2>2, <3>1, <3>2 DEF Kept
  <2> QED BY <1>1, <2>1, <2>2
<1>2. ASSUME NEW e \in Edges PROVE Kept(e, sender[e].results)'
  <2>1. CASE DOMAIN sender'[e].results = {}
    BY <2>1 DEF Kept
  <2>2. CASE sender'[e].results = sender[e].results
    <3>1. PICK results \in Results : results = sender[e].results
      BY DEF TInv, DeliveryTypes
    <3>2. Kept(e, results)'
      BY <1>0, <3>1 DEF AInv, ReceiptsAreTrue
    <3> QED BY <2>2, <3>1, <3>2 DEF Kept
  <2>3. CASE \E d \in Deliveries : /\ delivery[d].pc # "free"
                                  /\ EdgeOf[delivery[d].cred] = e
                                  /\ sender'[e].results = delivery[d].results
    <3>1. PICK d \in Deliveries : /\ delivery[d].pc # "free"
                                 /\ EdgeOf[delivery[d].cred] = e
                                 /\ sender'[e].results = delivery[d].results
      BY <2>3
    <3>2. PICK results \in Results : results = delivery[d].results
      BY DEF TInv, DeliveryTypes
    <3>3. Kept(e, results)'
      BY <1>0, <3>1, <3>2 DEF AInv, ReceiptsAreTrue
    <3> QED BY <3>1, <3>2, <3>3 DEF Kept
  <2> QED BY <2>1, <2>2, <2>3
<1> QED BY <1>1, <1>2 DEF ReceiptsAreTrue

\* What was marked at an edge stays true.
LEMMA MarksStay ==
  ASSUME TInv, AInv, Grows
  PROVE  /\ \A e \in Edges : \A r \in acked[e] : HoldsEvidence(e, r)'
         /\ \A e \in Edges : \A r \in synced[e] : Holds(e, r)'
<1>1. \A e \in Edges : acked[e] \subseteq Runs /\ synced[e] \subseteq Runs
  BY DEF TInv, DeliveryTypes
<1>2. ASSUME NEW e \in Edges, NEW r \in acked[e] PROVE HoldsEvidence(e, r)'
  BY <1>1, EvidenceStays DEF AInv, AcknowledgedIsStored
<1>3. ASSUME NEW e \in Edges, NEW r \in synced[e] PROVE Holds(e, r)'
  BY <1>1, HoldsStays DEF AInv, AcknowledgedIsStored
<1> QED BY <1>2, <1>3

\* Nothing is marked.
LEMMA UnmarkedStays ==
  ASSUME TInv, AInv, Grows, UNCHANGED <<acked, synced>>
  PROVE  AcknowledgedIsStored'
  BY MarksStay DEF AcknowledgedIsStored

LEMMA EmptyResults == DOMAIN IdleSender.results = {} /\ DOMAIN FreeDelivery.results = {}
  BY DEF IdleSender, FreeDelivery

LEMMA EdgeStepMarks ==
  ASSUME TInv, AInv, Grows, NEW e \in Edges, EdgeStep(e)
  PROVE  AInv'
<1> USE EmptyResults
<1>0. /\ sender \in [Edges -> SenderRecords] /\ delivery \in [Deliveries -> DeliveryRecords]
      /\ acked \in [Edges -> SUBSET Runs] /\ synced \in [Edges -> SUBSET Runs]
  BY DEF TInv, DeliveryTypes, SenderRecords, DeliveryRecords
<1>1. ASSUME NEW bundle, Push(e, bundle) PROVE AInv'
  <2>1. \A f \in Edges : \/ DOMAIN sender'[f].results = {}
                         \/ sender'[f].results = sender[f].results
    BY <1>0, <1>1 DEF Push, IdleSender
  <2> QED
    BY <1>1, <2>1, ReceiptsStay, UnmarkedStays DEF Push, AInv, edgeVars
<1>2. CASE PushRefused(e)
  <2>1. \A f \in Edges : \/ DOMAIN sender'[f].results = {}
                         \/ sender'[f].results = sender[f].results
    BY <1>0, <1>2 DEF PushRefused
  <2> QED BY <1>2, <2>1, ReceiptsStay, UnmarkedStays DEF PushRefused, AInv, edgeVars
<1>3. CASE SenderGivesUp(e)
  <2>1. \A f \in Edges : \/ DOMAIN sender'[f].results = {}
                         \/ sender'[f].results = sender[f].results
    BY <1>0, <1>3 DEF SenderGivesUp
  <2>2. ASSUME NEW d \in Deliveries
        PROVE  /\ delivery'[d].pc = delivery[d].pc /\ delivery'[d].cred = delivery[d].cred
               /\ delivery'[d].results = delivery[d].results
    <3>1. \/ delivery'[d] = delivery[d]
          \/ delivery'[d] = [delivery[d] EXCEPT !.online = FALSE]
      BY <1>3 DEF SenderGivesUp
    <3>2. CASE delivery'[d] = delivery[d]
      BY <3>2
    <3>3. CASE delivery'[d] = [delivery[d] EXCEPT !.online = FALSE]
      <4>1. delivery[d] \in DeliveryRecords /\ FALSE \in BOOLEAN
        BY <1>0
      <4> QED BY <3>3, <4>1, OfflineType, Zenon
    <3> QED BY <3>1, <3>2, <3>3
  <2> QED
    BY <1>3, <2>1, <2>2, ReceiptsStay, UnmarkedStays DEF SenderGivesUp, AInv, edgeVars
<1>4. CASE ApplyReceipts(e)
  <2>1. \A f \in Edges : \/ DOMAIN sender'[f].results = {}
                         \/ sender'[f].results = sender[f].results
    BY <1>0, <1>4 DEF ApplyReceipts
  <2>2. ReceiptsAreTrue'
    BY <1>4, <2>1, ReceiptsStay DEF ApplyReceipts
  <2>3. \A r \in Proved(sender[e].results) : HoldsEvidence(e, r)'
    <3>1. sender[e].results \in Results /\ Kept(e, sender[e].results)
      BY <1>0 DEF SenderRecords, AInv, ReceiptsAreTrue
    <3> QED BY <3>1, KeptStays DEF Proved
  <2>4. AcknowledgedIsStored'
    <3>1. \A f \in Edges :
            /\ acked'[f] = IF f = e THEN acked[f] \cup Proved(sender[e].results) ELSE acked[f]
            /\ synced'[f] = IF f = e THEN synced[f] \cup Proved(sender[e].results) ELSE synced[f]
      BY <1>0, <1>4 DEF ApplyReceipts
    <3>2. ASSUME NEW f \in Edges, NEW r \in acked'[f] PROVE HoldsEvidence(f, r)'
      BY <2>3, <3>1, MarksStay
    <3>3. ASSUME NEW f \in Edges, NEW r \in synced'[f] PROVE Holds(f, r)'
      <4>1. CASE r \in synced[f]
        BY <4>1, MarksStay
      <4>2. CASE f = e /\ r \in Proved(sender[e].results)
        BY <2>3, <4>2 DEF HoldsEvidence
      <4> QED BY <3>1, <4>1, <4>2
    <3> QED BY <3>2, <3>3 DEF AcknowledgedIsStored
  <2> QED BY <2>2, <2>4 DEF AInv
<1>5. CASE LegacyPush(e)
  <2>1. ReceiptsAreTrue'
    BY <1>5, ReceiptsStay DEF LegacyPush
  <2>2. PICK r \in Sealed[e] :
            /\ hub' = IF hub[r] = None THEN [hub EXCEPT ![r] = LegacyRow(e)] ELSE hub
            /\ \/ /\ hub[r] = None \/ SameContent(e, r)
                  /\ synced' = [synced EXCEPT ![e] = @ \cup {r}]
               \/ UNCHANGED synced
    BY <1>5 DEF LegacyPush
  <2>3. hub[r] = None \/ SameContent(e, r) => Holds(e, r)'
    <3>1. /\ r \in Runs /\ hub \in [Runs -> Rows \cup {None}]
          /\ LegacyRow(e) \in Rows /\ LegacyRow(e).edge = e
      BY ConstantsAssumption DEF TInv, DeliveryTypes, LegacyRow, Rows
    <3>2. CASE hub[r] = None
      BY <2>2, <3>1, <3>2, RowsAssumption DEF Holds
    <3>3. CASE hub[r] # None /\ SameContent(e, r)
      BY <2>2, <3>1, <3>3 DEF Holds, SameContent
    <3> QED BY <3>2, <3>3
  <2>4. AcknowledgedIsStored'
    <3>1. acked' = acked
      BY <1>5 DEF LegacyPush
    <3>2. CASE UNCHANGED synced
      BY <3>1, <3>2, UnmarkedStays
    <3>3. CASE /\ hub[r] = None \/ SameContent(e, r)
               /\ synced' = [synced EXCEPT ![e] = @ \cup {r}]
      BY <1>0, <2>3, <3>1, <3>3, MarksStay DEF AcknowledgedIsStored
    <3> QED BY <2>2, <3>2, <3>3
  <2> QED BY <2>1, <2>4 DEF AInv
<1> QED
  BY <1>1, <1>2, <1>3, <1>4, <1>5 DEF EdgeStep, PushPending, PushChosen

\* An item that is refused.
LEMMA RejectMarks ==
  ASSUME TInv, AInv, Grows, NEW d \in Deliveries, NEW r \in Runs, NEW class \in Rejections,
         delivery[d].pc # "free", Reject(d, r, class), UNCHANGED <<sender, acked, synced>>
  PROVE  AInv'
<1>1. PICK e \in Edges : e = EdgeOf[delivery[d].cred]
  BY ConstantsAssumption DEF TInv, UnderWay
<1>2. class \in Classes /\ class \notin Acknowledging
  BY DEF Classes, Rejections, Acknowledging
<1>3. ReceiptsAreTrue'
  BY <1>1, <1>2, ConcludeKept DEF Reject
<1> QED BY <1>3, UnmarkedStays DEF AInv

LEMMA HubStepMarks ==
  ASSUME TInv, AInv, Grows, NEW d \in Deliveries, HubStep(d)
  PROVE  AInv'
<1> USE EmptyResults
<1>0. /\ sender \in [Edges -> SenderRecords] /\ delivery \in [Deliveries -> DeliveryRecords]
      /\ delivery[d].todo \subseteq Runs
  BY DEF TInv, DeliveryTypes, SenderRecords, DeliveryRecords
<1>1. CASE OutOfScope(d)
  <2>1. PICK r \in Runs : Reject(d, r, "unauthorized")
    BY <1>0, <1>1 DEF OutOfScope
  <2> QED BY <1>1, <2>1, RejectMarks DEF OutOfScope, Rejections, edgeVars
<1>2. CASE Damaged(d)
  <2>1. PICK r \in Runs : Reject(d, r, "malformed")
    BY <1>0, <1>2 DEF Damaged
  <2> QED BY <1>2, <2>1, RejectMarks DEF Damaged, Rejections, edgeVars
<1>3. CASE StoreFails(d)
  <2>1. delivery[d].item \in Runs
    BY <1>3 DEF StoreFails, TInv, UnderWay
  <2> QED BY <1>3, <2>1, RejectMarks DEF StoreFails, Rejections, edgeVars
<1>4. CASE Verified(d)
  <2>1. PICK r \in delivery[d].todo :
            delivery' = [delivery EXCEPT ![d] = [delivery[d] EXCEPT !.pc = "store", !.item = r]]
    BY <1>4 DEF Verified
  <2>2. \A x \in Deliveries : /\ delivery'[x].cred = delivery[x].cred
                             /\ delivery'[x].results = delivery[x].results
                             /\ delivery'[x].pc # "free" => delivery[x].pc # "free"
    BY <1>0, <1>4, <2>1 DEF Verified, DeliveryRecords
  <2> QED BY <1>4, <2>2, ReceiptsStay, UnmarkedStays DEF Verified, AInv, edgeVars
<1>5. CASE Answer(d)
  <2>1. \A x \in Deliveries : delivery'[x].pc # "free" => delivery'[x] = delivery[x]
    BY <1>0, <1>5 DEF Answer, FreeDelivery
  <2>2. delivery[d].pc # "free"
    BY <1>5 DEF Answer
  <2>3. ASSUME NEW e \in Edges
        PROVE  \/ sender'[e].results = sender[e].results
               \/ EdgeOf[delivery[d].cred] = e /\ sender'[e].results = delivery[d].results
    <3>1. [IdleSender EXCEPT !.pc = "applying", !.results = delivery[d].results].results
            = delivery[d].results
      BY DEF IdleSender
    <3> QED BY <1>0, <1>5, <3>1 DEF Answer, Source
  <2> QED BY <1>5, <2>1, <2>2, <2>3, ReceiptsStay, UnmarkedStays DEF Answer, AInv, edgeVars
<1>6. ASSUME NEW c, NEW bundle, NEW online, Open(d, c, bundle, online),
             \A e \in Edges : DOMAIN sender'[e].results = {}
                               \/ sender'[e].results = sender[e].results,
             UNCHANGED <<acked, synced>>
      PROVE  AInv'
  <2>1. [FreeDelivery EXCEPT !.pc = "open", !.cred = c, !.online = online,
                             !.todo = bundle].results = FreeDelivery.results
    BY DEF FreeDelivery
  <2>2. \A x \in Deliveries : \/ delivery'[x] = delivery[x]
                            \/ DOMAIN delivery'[x].results = {}
    BY <1>0, <1>6, <2>1 DEF Open
  <2> QED BY <1>6, <2>2, ReceiptsStay, UnmarkedStays DEF AInv
<1>7. CASE CarriedFileArrives(d)
  <2>1. PICK c, bundle : Open(d, c, bundle, FALSE)
    BY <1>7 DEF CarriedFileArrives
  <2> QED BY <1>6, <1>7, <2>1 DEF CarriedFileArrives, edgeVars
<1>8. ASSUME NEW f \in Edges, RequestArrives(d, f) PROVE AInv'
  <2>1. [IdleSender EXCEPT !.pc = "waiting"].results = IdleSender.results
    BY DEF IdleSender
  <2>2. \A e \in Edges : DOMAIN sender'[e].results = {}
                         \/ sender'[e].results = sender[e].results
    BY <1>0, <1>8, <2>1 DEF RequestArrives
  <2> QED BY <1>6, <1>8, <2>2 DEF RequestArrives, edgeVars
<1>9. CASE Store(d)
  <2>1. PICK r \in Runs, c \in Credentials : r = delivery[d].item /\ c = delivery[d].cred
    BY <1>9, StoreEffect
  <2>2. PICK e \in Edges : e = EdgeOf[c]
    BY ConstantsAssumption
  <2>3. ClassOf(c, r) \in Classes /\ Conclude(d, r, ClassOf(c, r))
    BY <1>9, <2>1, StoreEffect, ClassIsAClass DEF Classes, Acknowledging, Rejections
  <2>4. ClassOf(c, r) \in Acknowledging => HoldsEvidence(e, r)'
    BY <1>9, <2>1, <2>2, StoreHolds
  <2>5. UNCHANGED <<sender, acked, synced>> /\ delivery[d].pc # "free"
    BY <1>9 DEF Store, edgeVars
  <2>6. PICK class \in Classes : class = ClassOf(c, r)
    BY <2>3
  <2>7. ReceiptsAreTrue'
    BY <2>1, <2>2, <2>3, <2>4, <2>5, <2>6, ConcludeKept
  <2> QED BY <2>5, <2>7, UnmarkedStays DEF AInv
<1> QED BY <1>1, <1>2, <1>3, <1>4, <1>5, <1>7, <1>8, <1>9 DEF HubStep

LEMMA MarksNext == TInv /\ AInv /\ [Next]_vars => AInv'
<1> SUFFICES ASSUME TInv, AInv, [Next]_vars PROVE AInv'
  OBVIOUS
<1> USE EmptyResults
<1>0. Grows
  BY Growth
<1>1. CASE HubCrashes
  <2>1. \A d \in Deliveries : DOMAIN delivery'[d].results = {}
    BY <1>1 DEF HubCrashes
  <2>2. \A e \in Edges : DOMAIN sender'[e].results = {}
                         \/ sender'[e].results = sender[e].results
    BY <1>1 DEF HubCrashes
  <2> QED BY <1>0, <1>1, <2>1, <2>2, ReceiptsStay, UnmarkedStays DEF HubCrashes, AInv, edgeVars
<1>2. CASE AuthorityWithdrawn \/ EvidenceLost \/ UNCHANGED vars
  BY <1>0, <1>2, ReceiptsStay, UnmarkedStays DEF AuthorityWithdrawn, EvidenceLost, AInv, vars, edgeVars
<1> QED BY <1>0, <1>1, <1>2, EdgeStepMarks, HubStepMarks DEF Next, Step

LEMMA MarksInit == Init => AInv
<1> SUFFICES ASSUME Init PROVE AInv
  OBVIOUS
<1>1. AcknowledgedIsStored
  BY DEF Init, AcknowledgedIsStored
<1>2. ReceiptsAreTrue
  BY NoReceiptsAreTrue DEF Init, ReceiptsAreTrue, FreeDelivery
<1> QED BY <1>1, <1>2 DEF AInv

\* A run leaves an edge's pending set only when the hub holds all its evidence,
\* and its watermark moves only when the hub holds it.
THEOREM AcknowledgedRunsAreStored == Spec => []AcknowledgedIsStored
<1>1. AInv => AcknowledgedIsStored
  BY DEF AInv
<1> QED BY <1>1, MarksInit, MarksNext, Typed, PTL DEF Spec

-----------------------------------------------------------------------------
(* The receipts that accept a run and the row that stores it.              *)

Accepted(c, r) == [cred |-> c, run |-> r, class |-> "accepted"] \in receipts

RInv == \A r \in Runs : \A c \in Credentials :
            Accepted(c, r) <=> hub[r] # None /\ hub[r].via = c

LEMMA ReceiptAdded ==
  ASSUME TInv, NEW d \in Deliveries, NEW r \in Runs, NEW class, Conclude(d, r, class)
  PROVE  \A x \in Runs : \A c \in Credentials :
            Accepted(c, x)' <=>
                Accepted(c, x) \/ (x = r /\ c = delivery[d].cred /\ class = "accepted")
<1>1. receipts' = receipts \cup {[cred |-> delivery[d].cred, run |-> r, class |-> class]}
  BY DEF Conclude, Receipt, Credential
<1> QED BY <1>1 DEF Accepted

LEMMA UnstoredAcceptance ==
  ASSUME RInv, UNCHANGED <<hub, receipts>>
  PROVE  RInv'
  BY DEF RInv, Accepted

LEMMA RejectAcceptance ==
  ASSUME TInv, RInv, NEW d \in Deliveries, NEW r \in Runs, NEW class, class # "accepted",
         Reject(d, r, class)
  PROVE  RInv'
  BY ReceiptAdded DEF Reject, RInv

LEMMA StoreAcceptance ==
  ASSUME TInv, RInv, NEW d \in Deliveries, Store(d)
  PROVE  RInv'
<1>1. PICK r \in Runs, c \in Credentials : r = delivery[d].item /\ c = delivery[d].cred
  BY StoreEffect
<1>2. /\ Conclude(d, r, ClassOf(c, r)) /\ hub \in [Runs -> Rows \cup {None}]
      /\ \/ /\ ClassOf(c, r) \in Acknowledging
            /\ hub' = [hub EXCEPT ![r] = StoredRow(c, r, ClassOf(c, r))]
         \/ ClassOf(c, r) \notin Acknowledging /\ UNCHANGED <<hub, imports>>
  BY <1>1, StoreEffect DEF TInv, DeliveryTypes
<1>3. CASE ClassOf(c, r) = "accepted"
  <2>1. hub[r] = None
    BY <1>3 DEF ClassOf
  <2>2. PICK row \in Rows : hub' = [hub EXCEPT ![r] = row] /\ row.via = c
    BY <1>1, <1>2, <1>3, NewRowHolds DEF StoredRow, Acknowledging
  <2>3. row # None
    BY RowsAssumption
  <2> QED BY <1>1, <1>2, <1>3, <2>1, <2>2, <2>3, ReceiptAdded DEF RInv
<1>4. CASE ClassOf(c, r) = "byte_identical"
  <2>1. hub[r] # None /\ hub[r] \in Rows
    BY <1>2, <1>4 DEF ClassOf
  <2>2. PICK row \in Rows : hub' = [hub EXCEPT ![r] = row] /\ row.via = hub[r].via
    BY <1>2, <1>4, <2>1, BackfillAdds DEF StoredRow, Acknowledging
  <2>3. row # None
    BY RowsAssumption
  <2> QED BY <1>2, <1>4, <2>1, <2>2, <2>3, ReceiptAdded DEF RInv
<1>5. CASE ClassOf(c, r) \notin Acknowledging
  BY <1>1, <1>2, <1>5, ReceiptAdded DEF RInv, Acknowledging
<1> QED BY <1>3, <1>4, <1>5 DEF Acknowledging

LEMMA AcceptanceNext == TInv /\ RInv /\ [Next]_vars => RInv'
<1> SUFFICES ASSUME TInv, RInv, [Next]_vars PROVE RInv'
  OBVIOUS
<1>1. ASSUME NEW e \in Edges, LegacyPush(e) PROVE RInv'
  <2>1. PICK r \in Sealed[e] :
            hub' = IF hub[r] = None THEN [hub EXCEPT ![r] = LegacyRow(e)] ELSE hub
    BY <1>1 DEF LegacyPush
  <2>2. /\ r \in Runs /\ hub \in [Runs -> Rows \cup {None}] /\ receipts' = receipts
        /\ LegacyRow(e).via \notin Credentials
    BY <1>1, ConstantsAssumption DEF LegacyPush, TInv, DeliveryTypes, LegacyRow, Legacy
  <2> QED BY <2>1, <2>2 DEF RInv, Accepted
<1>2. ASSUME NEW e \in Edges, EdgeStep(e), ~LegacyPush(e) PROVE RInv'
  BY <1>2, UnstoredAcceptance
     DEF EdgeStep, PushPending, PushChosen, Push, PushRefused, SenderGivesUp, ApplyReceipts,
         hubVars
<1>3. ASSUME NEW d \in Deliveries, HubStep(d) PROVE RInv'
  <2>0. delivery[d].todo \subseteq Runs /\ (delivery[d].pc = "store" => delivery[d].item \in Runs)
    BY DEF TInv, DeliveryTypes, UnderWay
  <2>1. CASE Store(d)
    BY <2>1, StoreAcceptance
  <2>2. CASE OutOfScope(d)
    BY <2>0, <2>2, RejectAcceptance DEF OutOfScope
  <2>3. CASE Damaged(d)
    BY <2>0, <2>3, RejectAcceptance DEF Damaged
  <2>4. CASE StoreFails(d)
    BY <2>0, <2>4, RejectAcceptance DEF StoreFails
  <2>5. CASE Verified(d) \/ Answer(d) \/ CarriedFileArrives(d)
             \/ \E e \in Edges : RequestArrives(d, e)
    BY <2>5, UnstoredAcceptance
       DEF Verified, Answer, CarriedFileArrives, RequestArrives, hubVars
  <2> QED BY <1>3, <2>1, <2>2, <2>3, <2>4, <2>5 DEF HubStep
<1>4. CASE HubCrashes \/ AuthorityWithdrawn \/ EvidenceLost \/ UNCHANGED vars
  BY <1>4, UnstoredAcceptance DEF HubCrashes, AuthorityWithdrawn, EvidenceLost, vars, hubVars
<1> QED BY <1>1, <1>2, <1>3, <1>4 DEF Next, Step

LEMMA AcceptanceInit == Init => RInv
  BY DEF Init, RInv, Accepted

\* A run's acceptance receipts name the one credential that stored it: it is
\* accepted once, in the transaction that inserts its row.
THEOREM AcceptancesAreStores == Spec => []AcceptanceIsTheStore
<1>1. TInv /\ RInv => AcceptanceIsTheStore
  <2> SUFFICES ASSUME TInv, RInv, NEW r \in Runs
               PROVE  {x.cred : x \in {y \in receipts : y.run = r /\ y.class = "accepted"}} =
                        IF hub[r] = None THEN {} ELSE {hub[r].via} \ {Legacy}
    BY DEF AcceptanceIsTheStore
  <2> DEFINE named == {x.cred : x \in {y \in receipts : y.run = r /\ y.class = "accepted"}}
             via == IF hub[r] = None THEN {} ELSE {hub[r].via} \ {Legacy}
  <2>1. receipts \subseteq [cred: Credentials, run: Runs, class: Classes]
    BY DEF TInv, DeliveryTypes
  <2>2. named \subseteq Credentials
    BY <2>1
  <2>3. via \subseteq Credentials
    BY DEF TInv, DeliveryTypes, Rows
  <2>4. ASSUME NEW c \in Credentials PROVE c \in named <=> Accepted(c, r)
    <3>1. ASSUME c \in named PROVE Accepted(c, r)
      <4>1. PICK y \in receipts : y.run = r /\ y.class = "accepted" /\ y.cred = c
        BY <3>1
      <4>2. y = [cred |-> c, run |-> r, class |-> "accepted"]
        BY <2>1, <4>1
      <4> QED BY <4>2 DEF Accepted
    <3>2. ASSUME Accepted(c, r) PROVE c \in named
      BY <3>2 DEF Accepted
    <3> QED BY <3>1, <3>2
  <2>5. ASSUME NEW c \in Credentials PROVE c \in via <=> hub[r] # None /\ hub[r].via = c
    BY ConstantsAssumption DEF Legacy
  <2>6. \A c \in Credentials : c \in named <=> c \in via
    BY <2>4, <2>5 DEF RInv
  <2> QED BY <2>2, <2>3, <2>6
<1> QED BY <1>1, AcceptanceInit, AcceptanceNext, Typed, PTL DEF Spec

-----------------------------------------------------------------------------
(* The authority of a store, and the answer to what is resent.             *)

\* Version 2 stores and completes rows under an authority that is valid when the
\* item is committed: _active_credential_scope is read in the same transaction.
THEOREM StoresAreAuthorized == Spec => StoredUnderAuthority
<1>1. ASSUME TInv, [Next]_vars, NEW d \in Deliveries, NEW r \in Runs,
             delivery[d].item = r, delivery'[d].item # r, hub'[r] # hub[r]
      PROVE  Credential(d) \in active /\ <<Credential(d), SiteOf[r]>> \in scopes
  <2>1. ~\E e \in Edges : EdgeStep(e)
    <3> SUFFICES ASSUME NEW e \in Edges, EdgeStep(e) PROVE FALSE
      OBVIOUS
    <3>1. CASE LegacyPush(e)
      BY <1>1, <3>1 DEF LegacyPush
    <3>2. CASE ~LegacyPush(e)
      BY <1>1, <3>2
         DEF EdgeStep, PushPending, PushChosen, Push, PushRefused, SenderGivesUp, ApplyReceipts,
             hubVars
    <3> QED BY <3>1, <3>2
  <2>2. ~(HubCrashes \/ AuthorityWithdrawn \/ EvidenceLost \/ UNCHANGED vars)
    BY <1>1 DEF HubCrashes, AuthorityWithdrawn, EvidenceLost, vars, hubVars
  <2>3. PICK x \in Deliveries : HubStep(x)
    BY <1>1, <2>1, <2>2 DEF Next, Step
  <2>4. Store(x)
    BY <1>1, <2>3
       DEF HubStep, OutOfScope, Damaged, Verified, StoreFails, Answer, CarriedFileArrives,
           RequestArrives, Reject, hubVars
  <2>5. x = d
    BY <1>1, <2>4, StoreEffect DEF Conclude, TInv, DeliveryTypes
  <2>6. ClassOf(delivery[d].cred, r) \in Acknowledging
    BY <1>1, <2>4, <2>5, StoreEffect
  <2>7. Authorized(delivery[d].cred, r)
    BY <2>6 DEF ClassOf, Acknowledging
  <2> QED BY <2>7 DEF Authorized, InScope, Credential
<1>2. TInv /\ [Next]_vars =>
        \A d \in Deliveries : \A r \in Runs :
            delivery[d].item = r /\ delivery'[d].item # r /\ hub'[r] # hub[r]
                => Credential(d) \in active /\ <<Credential(d), SiteOf[r]>> \in scopes
  BY <1>1
<1> QED BY <1>2, Typed, PTL DEF Spec, StoredUnderAuthority

\* An item has no receipt before it is concluded.
Unconcluded ==
    \A d \in Deliveries :
        /\ delivery[d].todo \cap DOMAIN delivery[d].results = {}
        /\ IF delivery[d].pc = "store" THEN delivery[d].item \in delivery[d].todo
                                        ELSE delivery[d].item = None

LEMMA UnconcludedAfter ==
  ASSUME TInv, Unconcluded, NEW d \in Deliveries, NEW r, NEW class, Conclude(d, r, class)
  PROVE  Unconcluded'
<1>1. delivery \in [Deliveries -> DeliveryRecords]
  BY DEF TInv, DeliveryTypes, DeliveryRecords
<1>2. /\ delivery'[d].todo = delivery[d].todo \ {r} /\ delivery'[d].item = None
      /\ delivery'[d].pc = "open"
      /\ delivery'[d].results = Appended(delivery[d].results, r, class)
      /\ \A x \in Deliveries : x # d => delivery'[x] = delivery[x]
  BY <1>1 DEF Conclude, DeliveryRecords
<1>3. DOMAIN delivery'[d].results = DOMAIN delivery[d].results \cup {r}
  BY <1>2 DEF Appended
<1> QED BY <1>2, <1>3 DEF Unconcluded

LEMMA UnconcludedOpen ==
  ASSUME TInv, Unconcluded, NEW d \in Deliveries, NEW c, NEW bundle, NEW online,
         Open(d, c, bundle, online)
  PROVE  Unconcluded'
<1>1. delivery \in [Deliveries -> DeliveryRecords]
  BY DEF TInv, DeliveryTypes, DeliveryRecords
<1>2. DOMAIN delivery'[d].results = {} /\ delivery'[d].pc = "open" /\ delivery'[d].item = None
  BY <1>1, EmptyResults DEF Open, FreeDelivery
<1>3. \A x \in Deliveries : x # d => delivery'[x] = delivery[x]
  BY <1>1 DEF Open
<1> QED BY <1>2, <1>3 DEF Unconcluded

LEMMA UnconcludedNext == TInv /\ Unconcluded /\ [Next]_vars => Unconcluded'
<1> SUFFICES ASSUME TInv, Unconcluded, [Next]_vars PROVE Unconcluded'
  OBVIOUS
<1>0. delivery \in [Deliveries -> DeliveryRecords]
  BY DEF TInv, DeliveryTypes, DeliveryRecords
<1>1. ASSUME NEW e \in Edges, SenderGivesUp(e) PROVE Unconcluded'
  <2>1. ASSUME NEW d \in Deliveries
        PROVE  /\ delivery'[d].pc = delivery[d].pc /\ delivery'[d].item = delivery[d].item
               /\ delivery'[d].todo = delivery[d].todo
               /\ delivery'[d].results = delivery[d].results
    <3>1. \/ delivery'[d] = delivery[d]
          \/ delivery'[d] = [delivery[d] EXCEPT !.online = FALSE]
      BY <1>1 DEF SenderGivesUp
    <3> QED BY <1>0, <3>1 DEF DeliveryRecords
  <2> QED BY <2>1 DEF Unconcluded
<1>2. ASSUME NEW e \in Edges, EdgeStep(e), ~SenderGivesUp(e) PROVE Unconcluded'
  BY <1>2 DEF EdgeStep, PushPending, PushChosen, Push, PushRefused, ApplyReceipts,
              LegacyPush, Unconcluded
<1>3. ASSUME NEW d \in Deliveries, HubStep(d) PROVE Unconcluded'
  <2>1. CASE OutOfScope(d) \/ Damaged(d) \/ Store(d) \/ StoreFails(d)
    BY <2>1, UnconcludedAfter DEF OutOfScope, Damaged, Store, StoreFails, Reject
  <2>2. CASE CarriedFileArrives(d) \/ \E e \in Edges : RequestArrives(d, e)
    BY <2>2, UnconcludedOpen DEF CarriedFileArrives, RequestArrives
  <2>3. CASE Verified(d)
    <3>1. PICK r \in delivery[d].todo :
            delivery' = [delivery EXCEPT ![d] = [delivery[d] EXCEPT !.pc = "store", !.item = r]]
      BY <2>3 DEF Verified
    <3> QED BY <1>0, <3>1 DEF Unconcluded, DeliveryRecords
  <2>4. CASE Answer(d)
    BY <1>0, <2>4, EmptyResults DEF Answer, Unconcluded, FreeDelivery
  <2> QED BY <1>3, <2>1, <2>2, <2>3, <2>4 DEF HubStep
<1>4. CASE HubCrashes
  BY <1>4, EmptyResults DEF HubCrashes, Unconcluded, FreeDelivery
<1>5. CASE AuthorityWithdrawn \/ EvidenceLost \/ UNCHANGED vars
  BY <1>5 DEF AuthorityWithdrawn, EvidenceLost, vars, Unconcluded
<1> QED BY <1>1, <1>2, <1>3, <1>4, <1>5 DEF Next, Step

LEMMA UnconcludedInit == Init => Unconcluded
  BY EmptyResults DEF Init, Unconcluded, FreeDelivery

\* A run whose evidence the hub has is identical, not a conflict.
LEMMA ResentClass ==
  ASSUME TInv, NEW d \in Deliveries, NEW r \in Runs, Resent(d, r)
  PROVE  ClassOf(delivery[d].cred, r) # "conflict"
<1> DEFINE e == EdgeOf[delivery[d].cred]
<1>1. /\ hub[r] # None /\ hub[r].edge = e /\ (r \in Reports => hub[r].contract)
      /\ \A i \in Uses[<<e, r>>] : imports[i] = e
  BY DEF Resent, HoldsEvidence, Holds, Source
<1>2. Identical(e, r) /\ ~AuthorityConflict(e, r)
  BY <1>1 DEF Identical, AuthorityConflict
<1> QED BY <1>1, <1>2 DEF ClassOf

\* Once the hub has a run's evidence, no delivery of it is answered as a conflict,
\* by whichever credential of its edge and however often it is sent.
THEOREM ResendsAreSafe == Spec => ResendIsNeverConflict
<1>1. ASSUME TInv, Unconcluded, [Next]_vars, NEW d \in Deliveries,
             NEW r \in DOMAIN delivery'[d].results, delivery[d].item = r, Resent(d, r)
      PROVE  delivery'[d].results[r] # "conflict"
  <2>0. /\ delivery \in [Deliveries -> DeliveryRecords]
        /\ delivery' \in [Deliveries -> DeliveryRecords]
    BY <1>1, TypeNext DEF TInv, DeliveryTypes, DeliveryRecords
  <2>1. r \in Runs /\ r # None
    BY <2>0, ResultsAreOfRuns, ConstantsAssumption DEF DeliveryRecords
  <2>2. delivery[d].pc = "store" /\ r \notin DOMAIN delivery[d].results
    BY <1>1, <2>1 DEF Unconcluded
  <2>3. delivery'[d].results # delivery[d].results
    BY <2>2
  <2>4. ~\E e \in Edges : EdgeStep(e)
    <3> SUFFICES ASSUME NEW e \in Edges, EdgeStep(e) PROVE FALSE
      OBVIOUS
    <3>1. CASE SenderGivesUp(e)
      <4>1. \/ delivery'[d] = delivery[d]
            \/ delivery'[d] = [delivery[d] EXCEPT !.online = FALSE]
        BY <3>1 DEF SenderGivesUp
      <4> QED BY <2>0, <2>3, <4>1 DEF DeliveryRecords
    <3>2. CASE ~SenderGivesUp(e)
      BY <2>3, <3>2 DEF EdgeStep, PushPending, PushChosen, Push, PushRefused, ApplyReceipts,
                        LegacyPush
    <3> QED BY <3>1, <3>2
  <2>5. ~(HubCrashes \/ AuthorityWithdrawn \/ EvidenceLost \/ UNCHANGED vars)
    BY <1>1, <2>3, EmptyResults DEF HubCrashes, AuthorityWithdrawn, EvidenceLost, vars
  <2>6. PICK x \in Deliveries : HubStep(x)
    BY <1>1, <2>4, <2>5 DEF Next, Step
  <2>7. x = d
    BY <2>0, <2>3, <2>6
       DEF HubStep, OutOfScope, Damaged, Verified, Store, StoreFails, Answer,
           CarriedFileArrives, RequestArrives, Open, Reject, Conclude
  <2>8. Store(d) \/ StoreFails(d)
    BY <2>2, <2>6, <2>7 DEF HubStep, OutOfScope, Damaged, Verified, Answer,
                            CarriedFileArrives, RequestArrives, Open
  <2>9. PICK class : Conclude(d, r, class) /\ class # "conflict"
    <3>1. CASE Store(d)
      BY <1>1, <2>1, <3>1, StoreEffect, ResentClass
    <3>2. CASE StoreFails(d)
      BY <1>1, <3>2 DEF StoreFails, Reject
    <3> QED BY <2>8, <3>1, <3>2
  <2>10. delivery'[d].results = Appended(delivery[d].results, r, class)
    BY <2>0, <2>9 DEF Conclude, DeliveryRecords
  <2> QED BY <2>9, <2>10 DEF Appended
<1>2. TInv /\ Unconcluded /\ [Next]_vars =>
        \A d \in Deliveries : \A r \in DOMAIN delivery'[d].results :
            delivery[d].item = r /\ Resent(d, r) => delivery'[d].results[r] # "conflict"
  BY <1>1
<1> QED
  BY <1>2, UnconcludedInit, UnconcludedNext, Typed, PTL DEF Spec, ResendIsNeverConflict
=============================================================================
