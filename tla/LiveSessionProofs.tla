------------------------- MODULE LiveSessionProofs -------------------------
(***************************************************************************)
(* Proofs about LiveSession, for any sessions, captures, viewers and       *)
(* workspaces. The ceremony lock is what carries the argument: from the    *)
(* admission to the end of its ceremony only the session's own calls reach *)
(* the sidecar, and no capture runs beside it unless one was already       *)
(* driving when it was admitted.                                           *)
(***************************************************************************)
EXTENDS LiveSession, FiniteSetTheorems, TLAPS

Sessionless == {"none", "disconnect"}
OfTheHolder == {"push", "connect", "generate", "import", "recolour"}

\* Whose ceremony it is, and the lease it goes with.
CeremonyInv ==
    /\ ceremony.step \notin Sessionless => ceremony.session \in Sessions
    /\ ceremony.step \in OfTheHolder => Held(ceremony.session)
    /\ ceremony.step = "disconnect" => lease = None

\* No capture drives the sidecar beside a session that was admitted alone.
Alone == lease # None /\ ~lease.beside

CaptureInv ==
    /\ \A c \in Captures : capture[c].step = "queued" => capture[c].run = "queued"
    /\ Alone => \A c \in Captures : capture[c].step \in {"new", "bound", "seal", "done"}

\* The rows a session binds, and the newest of a workspace, are the workspace's.
OfWorkspace(import, w) == import = None \/ import[1] = w

RegisterInv ==
    /\ \A w \in Workspaces : OfWorkspace(newest[w], w)
    /\ \A s \in Sessions : OfWorkspace(connect[s].register, WorkspaceOf[s])

\* What the sidecar shows of a session that has it for itself.
ViewInv ==
    Alone =>
        /\ ceremony.step # "push" => OfWorkspace(register, WorkspaceOf[lease.id])
        /\ ceremony.step \notin {"push", "connect"} => client = lease.id /\ tree = lease.id
        /\ ceremony.step \in {"import", "recolour"} => ceremony.rows = lease.id

IInv == CeremonyInv /\ CaptureInv /\ RegisterInv /\ ViewInv

-----------------------------------------------------------------------------
CeremonyRecords ==
    [step: {"none", "guard", "push", "connect", "disconnect", "generate", "import", "recolour"},
     session: Sessions \cup {None}, rows: Sources]

ConnectRecords == [pc: {"new", "bound", "done"}, register: Imports \cup {None}]

CaptureRecords ==
    [step: {"new", "bound", "queued", "push", "connect", "window", "disconnect", "seal", "done"},
     run: {"none", "queued", "running", "sealed"}, register: Imports \cup {None}]

Shape ==
    /\ lease \in Leases \cup {None}
    /\ ceremony \in CeremonyRecords
    /\ connect \in [Sessions -> ConnectRecords]
    /\ capture \in [Captures -> CaptureRecords]
    /\ relay \in [Viewers -> Sessions \cup {None}]
    /\ client \in Sources /\ tree \in Sources
    /\ register \in Imports \cup {None}
    /\ newest \in [Workspaces -> Imports \cup {None}]

LEMMA ShapeIsType == Shape <=> TypeOK
  BY DEF Shape, TypeOK, CeremonyRecords, ConnectRecords, CaptureRecords

LEMMA SourceFacts ==
  /\ None \in Sources /\ Sessions \subseteq Sources /\ Captures \subseteq Sources
  /\ \A s \in Sessions \cup Captures : WorkspaceOf[s] \in Workspaces
  /\ \A w \in Workspaces, x \in Sources : <<w, x>> \in Imports
  BY ConstantsAssumption DEF Sources, Imports, Uploaded

LEMMA NoStreams == 0 \in 0..MaxStreams
<1>1. MaxStreams \in Nat
  BY ConstantsAssumption
<1> QED BY <1>1

LEMMA LeaseType ==
  ASSUME NEW x \in Leases, NEW n \in 0..MaxStreams, NEW b \in BOOLEAN
  PROVE  LET y == [x EXCEPT !.streams = n, !.idle = b]
         IN  y \in Leases /\ y.id = x.id /\ y.streams = n /\ y.beside = x.beside
  BY DEF Leases

LEMMA NoCeremonyType ==
  /\ NoCeremony \in CeremonyRecords /\ NoCeremony.step = "none"
  /\ [NoCeremony EXCEPT !.step = "disconnect"] \in CeremonyRecords
  /\ \A s \in Sessions : /\ [NoCeremony EXCEPT !.step = "guard", !.session = s] \in CeremonyRecords
                         /\ [NoCeremony EXCEPT !.step = "generate", !.session = s] \in CeremonyRecords
  BY SourceFacts DEF NoCeremony, CeremonyRecords

LEMMA CeremonySteps ==
  /\ NoCeremony.step = "none"
  /\ \A s \in Sessions : LET x == [NoCeremony EXCEPT !.step = "guard", !.session = s]
                         IN  x.step = "guard" /\ x.session = s
  /\ \A x \in CeremonyRecords, t \in Sources :
        LET y == [x EXCEPT !.step = "import", !.rows = t]
        IN  y.step = "import" /\ y.rows = t /\ y.session = x.session
  BY DEF NoCeremony, CeremonyRecords

LEMMA TypeInit == Init => Shape
<1> SUFFICES ASSUME Init PROVE Shape
  OBVIOUS
<1>1. \A w \in Workspaces : <<w, Uploaded>> \in Imports
  BY SourceFacts DEF Uploaded
<1>2. newest \in [Workspaces -> Imports \cup {None}]
  BY <1>1 DEF Init
<1>3. connect \in [Sessions -> ConnectRecords] /\ capture \in [Captures -> CaptureRecords]
  BY DEF Init, ConnectRecords, CaptureRecords
<1> QED BY <1>2, <1>3, NoCeremonyType, SourceFacts DEF Init, Shape

\* A step of a session, a viewer or a capture keeps every record's shape.
LEMMA NewLeaseType ==
  ASSUME NEW s \in Sessions
  PROVE  NewLease(s) \in Leases /\ NewLease(s).id = s
<1> DEFINE b == \E c \in Captures : Drives(c)
<1>1. b \in BOOLEAN
  BY Zenon
<1>2. NewLease(s) = [id |-> s, streams |-> 0, idle |-> FALSE, aged |-> FALSE, beside |-> b]
  BY DEF NewLease
<1> HIDE DEF b
<1>3. [id |-> s, streams |-> 0, idle |-> FALSE, aged |-> FALSE, beside |-> b] \in Leases
  BY <1>1, NoStreams DEF Leases
<1> QED BY <1>2, <1>3

LEMMA SessionType ==
  ASSUME Shape, NEW s \in Sessions, SessionStep(s)
  PROVE  Shape'
<1> USE SourceFacts, NoCeremonyType
    DEF Shape, sidecarVars, ConnectRecords, Goto, EndCeremony, At, Connected
<1>1. CASE BindRegister(s)
  BY <1>1 DEF BindRegister
<1>2. CASE ReadRunning(s)
  BY <1>2 DEF ReadRunning, Refuse
<1>3. CASE PushRegister(s)
  BY <1>3 DEF PushRegister, CeremonyRecords
<1>4. CASE ConnectBroker(s)
  BY <1>4 DEF ConnectBroker
<1>5. CASE ConnectFails(s)
  BY <1>5 DEF ConnectFails, ReleaseInCeremony
<1>6. CASE SaveBegins(s)
  BY <1>6 DEF SaveBegins
<1>7. CASE SaveGenerates(s)
  BY <1>7 DEF SaveGenerates, CeremonyRecords
<1>8. CASE SaveImports(s)
  <2>1. <<WorkspaceOf[s], ceremony.rows>> \in Imports
    BY DEF CeremonyRecords
  <2>2. newest' \in [Workspaces -> Imports \cup {None}]
    BY <1>8, <2>1 DEF SaveImports
  <2> QED BY <1>8, <2>2 DEF SaveImports, CeremonyRecords
<1>9. CASE SavePushes(s)
  <2>1. <<WorkspaceOf[s], ceremony.rows>> \in Imports
    BY DEF CeremonyRecords
  <2> QED BY <1>9, <2>1 DEF SavePushes
<1>10. CASE Acquire(s)
  <2>1. CASE Refuse(s)
    BY <1>10, <2>1 DEF Acquire, Refuse
  <2>2. CASE lease' = NewLease(s) /\ Goto("push") /\ connect' = [connect EXCEPT ![s].pc = "done"]
    <3>1. NewLease(s) \in Leases
      BY NewLeaseType
    <3>2. ceremony' \in CeremonyRecords
      BY <2>2 DEF CeremonyRecords
    <3>3. connect' \in [Sessions -> ConnectRecords]
      BY <2>2
    <3> QED BY <1>10, <2>2, <3>1, <3>2, <3>3 DEF Acquire
  <2> QED BY <1>10, <2>1, <2>2 DEF Acquire
<1> QED BY <1>1, <1>2, <1>3, <1>4, <1>5, <1>6, <1>7, <1>8, <1>9, <1>10 DEF SessionStep, CeremonyStep

LEMMA ViewerType ==
  ASSUME Shape, NEW v \in Viewers, ViewerStep(v)
  PROVE  Shape'
<1> USE DEF Shape, sidecarVars
<1>1. CASE Attach(v)
  <2>1. lease \in Leases /\ lease.streams + 1 \in 0..MaxStreams /\ lease.id \in Sessions
    BY <1>1, ConstantsAssumption DEF Attach, Leases
  <2>2. [lease EXCEPT !.streams = lease.streams + 1, !.idle = FALSE] \in Leases
    BY <2>1, LeaseType
  <2> QED BY <1>1, <2>1, <2>2 DEF Attach
<1>2. CASE Touch(v)
  BY <1>2 DEF Touch, Held, Leases
<1>3. CASE RelayEnds(v)
  <2>1. CASE ~Held(relay[v])
    BY <1>3, <2>1 DEF RelayEnds, Detached
  <2>2. CASE Held(relay[v])
    <3>1. lease \in Leases /\ Decrement(lease.streams) \in 0..MaxStreams
      BY <2>2, ConstantsAssumption DEF Held, Decrement, Leases
    <3>2. [lease EXCEPT !.streams = Decrement(lease.streams), !.idle = FALSE] \in Leases
      BY <3>1, LeaseType
    <3> QED BY <1>3, <2>2, <3>2 DEF RelayEnds, Detached
  <2> QED BY <2>1, <2>2
<1>4. CASE RelayNeverStarts(v)
  BY <1>4 DEF RelayNeverStarts
<1> QED BY <1>1, <1>2, <1>3, <1>4 DEF ViewerStep

LEMMA CaptureType ==
  ASSUME Shape, NEW c \in Captures, CaptureStep(c)
  PROVE  Shape'
<1> USE SourceFacts DEF Shape, sidecarVars, CaptureRecords, CaptureTo, Connected
<1>1. CASE BindCapture(c)
  BY <1>1 DEF BindCapture
<1>2. CASE CreateCapture(c)
  BY <1>2 DEF CreateCapture
<1>3. CASE ClaimCapture(c)
  BY <1>3 DEF ClaimCapture
<1>4. CASE CapturePushes(c)
  BY <1>4 DEF CapturePushes
<1>5. CASE CaptureConnects(c)
  BY <1>5 DEF CaptureConnects
<1>6. CASE CaptureWindowEnds(c)
  BY <1>6 DEF CaptureWindowEnds
<1>7. CASE CaptureDisconnects(c)
  BY <1>7 DEF CaptureDisconnects
<1>8. CASE CaptureSeals(c)
  BY <1>8 DEF CaptureSeals
<1>9. CASE CaptureRecovered(c)
  BY <1>9 DEF CaptureRecovered
<1> QED BY <1>1, <1>2, <1>3, <1>4, <1>5, <1>6, <1>7, <1>8, <1>9 DEF CaptureStep

\* The lease, the ceremony, the requests, the relays and the sidecar keep their
\* shape, the count of streams its bound.
THEOREM TypeCorrect == Spec => []TypeOK
<1>1. Shape /\ [Next]_vars => Shape'
  <2> SUFFICES ASSUME Shape, [Next]_vars PROVE Shape'
    OBVIOUS
  <2> USE SourceFacts, NoCeremonyType DEF Shape, sidecarVars, EndCeremony, At
  <2>1. CASE Disconnect
    BY <2>1 DEF Disconnect
  <2>2. CASE Stop \/ Reap
    BY <2>2 DEF Stop, Reap, ReleaseInCeremony
  <2>3. CASE GracePasses
    BY <2>3 DEF GracePasses, Leases
  <2>4. CASE CapPasses
    BY <2>4 DEF CapPasses, Leases
  <2>5. CASE UNCHANGED vars
    BY <2>5 DEF vars
  <2> QED BY <2>1, <2>2, <2>3, <2>4, <2>5, SessionType, ViewerType, CaptureType DEF Next
<1> QED BY TypeInit, <1>1, ShapeIsType, PTL DEF Spec

-----------------------------------------------------------------------------
(* The invariant, action by action.                                        *)

LEMMA InvariantInit == Init => IInv
<1> SUFFICES ASSUME Init PROVE IInv
  OBVIOUS
<1>1. CeremonyInv
  BY DEF Init, NoCeremony, CeremonyInv, Sessionless, OfTheHolder
<1>2. CaptureInv
  BY DEF Init, CaptureInv, Alone
<1>3. RegisterInv
  BY DEF Init, RegisterInv, OfWorkspace
<1>4. ViewInv
  BY DEF Init, ViewInv, Alone
<1> QED BY <1>1, <1>2, <1>3, <1>4 DEF IInv

\* A session binds a register of its workspace.
LEMMA BindRegisterKeeps ==
  ASSUME Shape, IInv, NEW s \in Sessions, BindRegister(s)
  PROVE  IInv'
<1> USE SourceFacts DEF Shape, IInv, sidecarVars, BindRegister
<1>1. CeremonyInv'
  BY DEF CeremonyInv, Sessionless, OfTheHolder, Held, CeremonyRecords, NoCeremony
<1>2. CaptureInv'
  BY DEF CaptureInv, Alone, CaptureRecords
<1>3. RegisterInv'
  BY DEF RegisterInv, OfWorkspace, ConnectRecords
<1>4. ViewInv'
  BY DEF ViewInv, Alone, CeremonyInv, CaptureInv, RegisterInv, OfWorkspace, Sessionless,
         OfTheHolder, Held, CeremonyRecords, ConnectRecords, CaptureRecords, NoCeremony
<1> QED BY <1>1, <1>2, <1>3, <1>4

\* The guard decides nothing about the sidecar.
LEMMA ReadRunningKeeps ==
  ASSUME Shape, IInv, NEW s \in Sessions, ReadRunning(s)
  PROVE  IInv'
<1> USE SourceFacts DEF Shape, IInv, sidecarVars
<1>0. /\ ceremony.step = "none" /\ UNCHANGED <<lease, capture, relay, sidecarVars, newest>>
      /\ connect' \in {connect, [connect EXCEPT ![s].pc = "done"]}
      /\ \/ ceremony' = NoCeremony
         \/ ceremony' = [NoCeremony EXCEPT !.step = "guard", !.session = s]
  BY DEF ReadRunning, Refuse, EndCeremony, CeremonyFree
<1>1. /\ ceremony'.step \in {"none", "guard"}
      /\ ceremony'.step = "guard" => ceremony'.session = s
  <2>1. CASE ceremony' = NoCeremony
    BY <2>1, CeremonySteps
  <2>2. CASE ceremony' = [NoCeremony EXCEPT !.step = "guard", !.session = s]
    BY <2>2, CeremonySteps
  <2> QED BY <1>0, <2>1, <2>2
<1>2. CeremonyInv'
  BY <1>1 DEF CeremonyInv, Sessionless, OfTheHolder
<1>3. CaptureInv'
  BY <1>0 DEF CaptureInv, Alone
<1>4. RegisterInv'
  BY <1>0 DEF RegisterInv, OfWorkspace, ConnectRecords
<1>5. ViewInv'
  BY <1>0, <1>1 DEF ViewInv, Alone, OfWorkspace
<1> QED BY <1>2, <1>3, <1>4, <1>5

\* A lease is only acquired when no other is held and no capture is queued.
LEMMA AcquireKeeps ==
  ASSUME Shape, IInv, NEW s \in Sessions, Acquire(s)
  PROVE  IInv'
<1> USE SourceFacts DEF Shape, IInv, sidecarVars
<1>1. CASE Refuse(s)
  <2>1. ceremony'.step = "none" /\ UNCHANGED <<lease, capture, sidecarVars, newest>>
    BY <1>1 DEF Acquire, Refuse, EndCeremony, NoCeremony
  <2>2. CeremonyInv'
    BY <2>1 DEF CeremonyInv, Sessionless, OfTheHolder
  <2>3. CaptureInv'
    BY <2>1 DEF CaptureInv, Alone
  <2>4. RegisterInv'
    BY <1>1, <2>1 DEF Refuse, RegisterInv, OfWorkspace, ConnectRecords
  <2>5. ViewInv'
    BY <2>1 DEF Acquire, At, ViewInv, Alone, OfWorkspace
  <2> QED BY <2>2, <2>3, <2>4, <2>5
<1>2. CASE /\ Runs("queued") = {} /\ lease' = NewLease(s) /\ Goto("push")
           /\ connect' = [connect EXCEPT ![s].pc = "done"]
  <2>1. /\ lease' # None /\ lease'.id = s /\ ceremony'.step = "push"
        /\ ceremony'.session = s /\ UNCHANGED <<capture, sidecarVars, newest>>
    BY <1>2, NewLeaseType, LeaseAssumption DEF Acquire, At, Goto, CeremonyRecords
  <2>2. CeremonyInv'
    BY <2>1 DEF CeremonyInv, Sessionless, OfTheHolder, Held
  <2>3. CaptureInv'
    <3>1. lease'.beside = \E c \in Captures : Drives(c)
      BY <1>2, Zenon DEF NewLease
    <3>2. \A c \in Captures : capture[c].run # "queued"
      BY <1>2 DEF Runs
    <3> QED BY <2>1, <3>1, <3>2 DEF CaptureInv, Alone, Drives, CaptureRecords
  <2>4. RegisterInv'
    BY <1>2, <2>1 DEF RegisterInv, OfWorkspace, ConnectRecords
  <2>5. ViewInv'
    BY <2>1 DEF ViewInv
  <2> QED BY <2>2, <2>3, <2>4, <2>5
<1> QED BY <1>1, <1>2 DEF Acquire

\* The rows pushed are the workspace's.
LEMMA PushRegisterKeeps ==
  ASSUME Shape, IInv, NEW s \in Sessions, PushRegister(s)
  PROVE  IInv'
<1> USE SourceFacts DEF Shape, IInv, sidecarVars, PushRegister, At, Goto
<1>1. CeremonyInv'
  BY DEF CeremonyInv, Sessionless, OfTheHolder, Held, CeremonyRecords, NoCeremony
<1>2. CaptureInv'
  BY DEF CaptureInv, Alone, CaptureRecords
<1>3. RegisterInv'
  BY DEF RegisterInv, OfWorkspace, ConnectRecords
<1>4. ViewInv'
  BY DEF ViewInv, Alone, CeremonyInv, CaptureInv, RegisterInv, OfWorkspace, Sessionless,
         OfTheHolder, Held, CeremonyRecords, ConnectRecords, CaptureRecords, NoCeremony
<1> QED BY <1>1, <1>2, <1>3, <1>4

\* The client and the tree become the session's.
LEMMA ConnectBrokerKeeps ==
  ASSUME Shape, IInv, NEW s \in Sessions, ConnectBroker(s)
  PROVE  IInv'
<1> USE SourceFacts DEF Shape, IInv, sidecarVars, ConnectBroker, At, Connected, EndCeremony
<1>1. CeremonyInv'
  BY DEF CeremonyInv, Sessionless, OfTheHolder, Held, CeremonyRecords, NoCeremony
<1>2. CaptureInv'
  BY DEF CaptureInv, Alone, CaptureRecords
<1>3. RegisterInv'
  BY DEF RegisterInv, OfWorkspace, ConnectRecords
<1>4. ViewInv'
  BY DEF ViewInv, Alone, CeremonyInv, CaptureInv, RegisterInv, OfWorkspace, Sessionless,
         OfTheHolder, Held, CeremonyRecords, ConnectRecords, CaptureRecords, NoCeremony
<1> QED BY <1>1, <1>2, <1>3, <1>4

\* A failed connection gives the lease up.
LEMMA ConnectFailsKeeps ==
  ASSUME Shape, IInv, NEW s \in Sessions, ConnectFails(s)
  PROVE  IInv'
<1> USE SourceFacts DEF Shape, IInv, sidecarVars, ConnectFails, At, Connected, ReleaseInCeremony
<1>1. CeremonyInv'
  BY DEF CeremonyInv, Sessionless, OfTheHolder, Held, CeremonyRecords, NoCeremony
<1>2. CaptureInv'
  BY DEF CaptureInv, Alone, CaptureRecords
<1>3. RegisterInv'
  BY DEF RegisterInv, OfWorkspace, ConnectRecords
<1>4. ViewInv'
  BY DEF ViewInv, Alone, CeremonyInv, CaptureInv, RegisterInv, OfWorkspace, Sessionless,
         OfTheHolder, Held, CeremonyRecords, ConnectRecords, CaptureRecords, NoCeremony
<1> QED BY <1>1, <1>2, <1>3, <1>4

\* A save is begun by the holder.
LEMMA SaveBeginsKeeps ==
  ASSUME Shape, IInv, NEW s \in Sessions, SaveBegins(s)
  PROVE  IInv'
<1> USE SourceFacts DEF Shape, IInv, sidecarVars, SaveBegins, CeremonyFree, MaySave
<1>1. CeremonyInv'
  BY DEF CeremonyInv, Sessionless, OfTheHolder, Held, CeremonyRecords, NoCeremony
<1>2. CaptureInv'
  BY DEF CaptureInv, Alone, CaptureRecords
<1>3. RegisterInv'
  BY DEF RegisterInv, OfWorkspace, ConnectRecords
<1>4. ViewInv'
  BY DEF ViewInv, Alone, CeremonyInv, CaptureInv, RegisterInv, OfWorkspace, Sessionless,
         OfTheHolder, Held, CeremonyRecords, ConnectRecords, CaptureRecords, NoCeremony
<1> QED BY <1>1, <1>2, <1>3, <1>4

\* The rows generated are the tree's.
LEMMA SaveGeneratesKeeps ==
  ASSUME Shape, IInv, NEW s \in Sessions, SaveGenerates(s)
  PROVE  IInv'
<1> USE SourceFacts DEF Shape, IInv, sidecarVars
<1>1. /\ ceremony.step = "generate"
      /\ UNCHANGED <<lease, connect, capture, relay, sidecarVars, newest>>
      /\ \/ ceremony'.step = "none"
         \/ /\ ceremony'.step = "import" /\ ceremony'.rows = tree
            /\ ceremony'.session = ceremony.session
  <2>1. CASE EndCeremony
    BY <2>1, CeremonySteps DEF SaveGenerates, At, EndCeremony
  <2>2. CASE ceremony' = [ceremony EXCEPT !.step = "import", !.rows = tree]
    BY <2>2, CeremonySteps DEF SaveGenerates, At
  <2> QED BY <2>1, <2>2 DEF SaveGenerates
<1>2. CeremonyInv'
  BY <1>1 DEF CeremonyInv, Sessionless, OfTheHolder, Held
<1>3. CaptureInv'
  BY <1>1 DEF CaptureInv, Alone
<1>4. RegisterInv'
  BY <1>1 DEF RegisterInv, OfWorkspace
<1>5. ViewInv'
  BY <1>1 DEF ViewInv, Alone, OfWorkspace
<1> QED BY <1>2, <1>3, <1>4, <1>5

\* An import is of the holder's workspace.
LEMMA SaveImportsKeeps ==
  ASSUME Shape, IInv, NEW s \in Sessions, SaveImports(s)
  PROVE  IInv'
<1> USE SourceFacts DEF Shape, IInv, sidecarVars, SaveImports, At, Goto, EndCeremony
<1>1. CeremonyInv'
  BY DEF CeremonyInv, Sessionless, OfTheHolder, Held, CeremonyRecords, NoCeremony
<1>2. CaptureInv'
  BY DEF CaptureInv, Alone, CaptureRecords
<1>3. RegisterInv'
  BY DEF RegisterInv, OfWorkspace, ConnectRecords
<1>4. ViewInv'
  BY DEF ViewInv, Alone, CeremonyInv, CaptureInv, RegisterInv, OfWorkspace, Sessionless,
         OfTheHolder, Held, CeremonyRecords, ConnectRecords, CaptureRecords, NoCeremony
<1> QED BY <1>1, <1>2, <1>3, <1>4

\* The rows pushed back are the holder's.
LEMMA SavePushesKeeps ==
  ASSUME Shape, IInv, NEW s \in Sessions, SavePushes(s)
  PROVE  IInv'
<1> USE SourceFacts DEF Shape, IInv, sidecarVars, SavePushes, At, EndCeremony
<1>1. CeremonyInv'
  BY DEF CeremonyInv, Sessionless, OfTheHolder, Held, CeremonyRecords, NoCeremony
<1>2. CaptureInv'
  BY DEF CaptureInv, Alone, CaptureRecords
<1>3. RegisterInv'
  BY DEF RegisterInv, OfWorkspace, ConnectRecords
<1>4. ViewInv'
  BY DEF ViewInv, Alone, CeremonyInv, CaptureInv, RegisterInv, OfWorkspace, Sessionless,
         OfTheHolder, Held, CeremonyRecords, ConnectRecords, CaptureRecords, NoCeremony
<1> QED BY <1>1, <1>2, <1>3, <1>4

\* Nobody holds the lease at the disconnect.
LEMMA DisconnectKeeps ==
  ASSUME Shape, IInv, Disconnect
  PROVE  IInv'
<1> USE SourceFacts DEF Shape, IInv, sidecarVars, Disconnect, At, EndCeremony
<1>1. CeremonyInv'
  BY DEF CeremonyInv, Sessionless, OfTheHolder, Held, CeremonyRecords, NoCeremony
<1>2. CaptureInv'
  BY DEF CaptureInv, Alone, CaptureRecords
<1>3. RegisterInv'
  BY DEF RegisterInv, OfWorkspace, ConnectRecords
<1>4. ViewInv'
  BY DEF ViewInv, Alone, CeremonyInv, CaptureInv, RegisterInv, OfWorkspace, Sessionless,
         OfTheHolder, Held, CeremonyRecords, ConnectRecords, CaptureRecords, NoCeremony
<1> QED BY <1>1, <1>2, <1>3, <1>4

\* A stop or a reap gives the lease up.
LEMMA ReleaseKeeps ==
  ASSUME Shape, IInv, CeremonyFree, ReleaseInCeremony, UNCHANGED <<connect, capture, relay, sidecarVars, newest>>
  PROVE  IInv'
<1> USE SourceFacts DEF Shape, IInv, sidecarVars, ReleaseInCeremony, CeremonyFree
<1>1. CeremonyInv'
  BY DEF CeremonyInv, Sessionless, OfTheHolder, Held, CeremonyRecords, NoCeremony
<1>2. CaptureInv'
  BY DEF CaptureInv, Alone, CaptureRecords
<1>3. RegisterInv'
  BY DEF RegisterInv, OfWorkspace, ConnectRecords
<1>4. ViewInv'
  BY DEF ViewInv, Alone, CeremonyInv, CaptureInv, RegisterInv, OfWorkspace, Sessionless,
         OfTheHolder, Held, CeremonyRecords, ConnectRecords, CaptureRecords, NoCeremony
<1> QED BY <1>1, <1>2, <1>3, <1>4

\* A capture binds its register.
LEMMA BindCaptureKeeps ==
  ASSUME Shape, IInv, NEW c \in Captures, BindCapture(c)
  PROVE  IInv'
<1> USE SourceFacts DEF Shape, IInv, sidecarVars, BindCapture
<1>1. CeremonyInv'
  BY DEF CeremonyInv, Sessionless, OfTheHolder, Held, CeremonyRecords, NoCeremony
<1>2. CaptureInv'
  BY DEF CaptureInv, Alone, CaptureRecords
<1>3. RegisterInv'
  BY DEF RegisterInv, OfWorkspace, ConnectRecords
<1>4. ViewInv'
  BY DEF ViewInv, Alone, CeremonyInv, CaptureInv, RegisterInv, OfWorkspace, Sessionless,
         OfTheHolder, Held, CeremonyRecords, ConnectRecords, CaptureRecords, NoCeremony
<1> QED BY <1>1, <1>2, <1>3, <1>4

\* A capture is not created beside a lease.
LEMMA CreateCaptureKeeps ==
  ASSUME Shape, IInv, NEW c \in Captures, CreateCapture(c)
  PROVE  IInv'
<1> USE SourceFacts DEF Shape, IInv, sidecarVars, CreateCapture, LockFree
<1>1. CeremonyInv'
  BY DEF CeremonyInv, Sessionless, OfTheHolder, Held, CeremonyRecords, NoCeremony
<1>2. CaptureInv'
  BY DEF CaptureInv, Alone, CaptureRecords
<1>3. RegisterInv'
  BY DEF RegisterInv, OfWorkspace, ConnectRecords
<1>4. ViewInv'
  BY DEF ViewInv, Alone, CeremonyInv, CaptureInv, RegisterInv, OfWorkspace, Sessionless,
         OfTheHolder, Held, CeremonyRecords, ConnectRecords, CaptureRecords, NoCeremony
<1> QED BY <1>1, <1>2, <1>3, <1>4

\* A queued capture is claimed or cancelled.
LEMMA ClaimCaptureKeeps ==
  ASSUME Shape, IInv, NEW c \in Captures, ClaimCapture(c)
  PROVE  IInv'
<1> USE SourceFacts DEF Shape, IInv, sidecarVars, ClaimCapture
<1>1. CeremonyInv'
  BY DEF CeremonyInv, Sessionless, OfTheHolder, Held, CeremonyRecords, NoCeremony
<1>2. CaptureInv'
  BY DEF CaptureInv, Alone, CaptureRecords
<1>3. RegisterInv'
  BY DEF RegisterInv, OfWorkspace, ConnectRecords
<1>4. ViewInv'
  BY DEF ViewInv, Alone, CeremonyInv, CaptureInv, RegisterInv, OfWorkspace, Sessionless,
         OfTheHolder, Held, CeremonyRecords, ConnectRecords, CaptureRecords, NoCeremony
<1> QED BY <1>1, <1>2, <1>3, <1>4

\* A capture that pushes drives the sidecar.
LEMMA CapturePushesKeeps ==
  ASSUME Shape, IInv, NEW c \in Captures, CapturePushes(c)
  PROVE  IInv'
<1> USE SourceFacts DEF Shape, IInv, sidecarVars, CapturePushes, CaptureTo
<1>1. CeremonyInv'
  BY DEF CeremonyInv, Sessionless, OfTheHolder, Held, CeremonyRecords, NoCeremony
<1>2. CaptureInv'
  BY DEF CaptureInv, Alone, CaptureRecords
<1>3. RegisterInv'
  BY DEF RegisterInv, OfWorkspace, ConnectRecords
<1>4. ViewInv'
  BY DEF ViewInv, Alone, CeremonyInv, CaptureInv, RegisterInv, OfWorkspace, Sessionless,
         OfTheHolder, Held, CeremonyRecords, ConnectRecords, CaptureRecords, NoCeremony
<1> QED BY <1>1, <1>2, <1>3, <1>4

\* A capture that connects drives the sidecar.
LEMMA CaptureConnectsKeeps ==
  ASSUME Shape, IInv, NEW c \in Captures, CaptureConnects(c)
  PROVE  IInv'
<1> USE SourceFacts DEF Shape, IInv, sidecarVars, CaptureConnects, CaptureTo, Connected
<1>1. CeremonyInv'
  BY DEF CeremonyInv, Sessionless, OfTheHolder, Held, CeremonyRecords, NoCeremony
<1>2. CaptureInv'
  BY DEF CaptureInv, Alone, CaptureRecords
<1>3. RegisterInv'
  BY DEF RegisterInv, OfWorkspace, ConnectRecords
<1>4. ViewInv'
  BY DEF ViewInv, Alone, CeremonyInv, CaptureInv, RegisterInv, OfWorkspace, Sessionless,
         OfTheHolder, Held, CeremonyRecords, ConnectRecords, CaptureRecords, NoCeremony
<1> QED BY <1>1, <1>2, <1>3, <1>4

\* A window ends.
LEMMA CaptureWindowEndsKeeps ==
  ASSUME Shape, IInv, NEW c \in Captures, CaptureWindowEnds(c)
  PROVE  IInv'
<1> USE SourceFacts DEF Shape, IInv, sidecarVars, CaptureWindowEnds, CaptureTo
<1>1. CeremonyInv'
  BY DEF CeremonyInv, Sessionless, OfTheHolder, Held, CeremonyRecords, NoCeremony
<1>2. CaptureInv'
  BY DEF CaptureInv, Alone, CaptureRecords
<1>3. RegisterInv'
  BY DEF RegisterInv, OfWorkspace, ConnectRecords
<1>4. ViewInv'
  BY DEF ViewInv, Alone, CeremonyInv, CaptureInv, RegisterInv, OfWorkspace, Sessionless,
         OfTheHolder, Held, CeremonyRecords, ConnectRecords, CaptureRecords, NoCeremony
<1> QED BY <1>1, <1>2, <1>3, <1>4

\* A capture that disconnects drives the sidecar.
LEMMA CaptureDisconnectsKeeps ==
  ASSUME Shape, IInv, NEW c \in Captures, CaptureDisconnects(c)
  PROVE  IInv'
<1> USE SourceFacts DEF Shape, IInv, sidecarVars, CaptureDisconnects, CaptureTo
<1>1. CeremonyInv'
  BY DEF CeremonyInv, Sessionless, OfTheHolder, Held, CeremonyRecords, NoCeremony
<1>2. CaptureInv'
  BY DEF CaptureInv, Alone, CaptureRecords
<1>3. RegisterInv'
  BY DEF RegisterInv, OfWorkspace, ConnectRecords
<1>4. ViewInv'
  BY DEF ViewInv, Alone, CeremonyInv, CaptureInv, RegisterInv, OfWorkspace, Sessionless,
         OfTheHolder, Held, CeremonyRecords, ConnectRecords, CaptureRecords, NoCeremony
<1> QED BY <1>1, <1>2, <1>3, <1>4

\* A run is sealed.
LEMMA CaptureSealsKeeps ==
  ASSUME Shape, IInv, NEW c \in Captures, CaptureSeals(c)
  PROVE  IInv'
<1> USE SourceFacts DEF Shape, IInv, sidecarVars, CaptureSeals
<1>1. CeremonyInv'
  BY DEF CeremonyInv, Sessionless, OfTheHolder, Held, CeremonyRecords, NoCeremony
<1>2. CaptureInv'
  BY DEF CaptureInv, Alone, CaptureRecords
<1>3. RegisterInv'
  BY DEF RegisterInv, OfWorkspace, ConnectRecords
<1>4. ViewInv'
  BY DEF ViewInv, Alone, CeremonyInv, CaptureInv, RegisterInv, OfWorkspace, Sessionless,
         OfTheHolder, Held, CeremonyRecords, ConnectRecords, CaptureRecords, NoCeremony
<1> QED BY <1>1, <1>2, <1>3, <1>4

\* Recovery seals a run that is running.
LEMMA CaptureRecoveredKeeps ==
  ASSUME Shape, IInv, NEW c \in Captures, CaptureRecovered(c)
  PROVE  IInv'
<1> USE SourceFacts DEF Shape, IInv, sidecarVars, CaptureRecovered
<1>1. CeremonyInv'
  BY DEF CeremonyInv, Sessionless, OfTheHolder, Held, CeremonyRecords, NoCeremony
<1>2. CaptureInv'
  BY DEF CaptureInv, Alone, CaptureRecords
<1>3. RegisterInv'
  BY DEF RegisterInv, OfWorkspace, ConnectRecords
<1>4. ViewInv'
  BY DEF ViewInv, Alone, CeremonyInv, CaptureInv, RegisterInv, OfWorkspace, Sessionless,
         OfTheHolder, Held, CeremonyRecords, ConnectRecords, CaptureRecords, NoCeremony
<1> QED BY <1>1, <1>2, <1>3, <1>4

\* A lease that is only counted, touched or aged is the same lease.
LEMMA SameLeaseKeeps ==
  ASSUME Shape, IInv,
         UNCHANGED <<ceremony, connect, capture, sidecarVars, newest>>,
         \/ lease' = lease
         \/ /\ lease # None /\ lease' # None
            /\ lease'.id = lease.id /\ lease'.beside = lease.beside
  PROVE  IInv'
<1> USE DEF IInv, sidecarVars
<1>1. CeremonyInv'
  BY DEF CeremonyInv, Sessionless, OfTheHolder, Held
<1>2. CaptureInv'
  BY DEF CaptureInv, Alone
<1>3. RegisterInv'
  BY DEF RegisterInv, OfWorkspace
<1>4. ViewInv'
  BY DEF ViewInv, Alone, OfWorkspace
<1> QED BY <1>1, <1>2, <1>3, <1>4

LEMMA InvariantNext == Shape /\ IInv /\ [Next]_vars => IInv'
<1> SUFFICES ASSUME Shape, IInv, [Next]_vars PROVE IInv'
  OBVIOUS
<1>0. lease # None => lease \in Leases
  BY DEF Shape
<1>1. ASSUME NEW s \in Sessions, SessionStep(s) PROVE IInv'
  BY <1>1, BindRegisterKeeps, ReadRunningKeeps, AcquireKeeps, PushRegisterKeeps,
     ConnectBrokerKeeps, ConnectFailsKeeps, SaveBeginsKeeps, SaveGeneratesKeeps,
     SaveImportsKeeps, SavePushesKeeps
     DEF SessionStep, CeremonyStep
<1>2. ASSUME NEW v \in Viewers, ViewerStep(v) PROVE IInv'
  <2>1. /\ UNCHANGED <<ceremony, connect, capture, sidecarVars, newest>>
        /\ \/ lease' = lease
           \/ \E n \in 0..MaxStreams, b \in BOOLEAN :
                lease # None /\ lease' = [lease EXCEPT !.streams = n, !.idle = b]
    <3>1. CASE Attach(v)
      <4>1. lease \in Leases /\ lease.streams + 1 \in 0..MaxStreams /\ FALSE \in BOOLEAN
        BY <3>1, ConstantsAssumption DEF Attach, Leases, Shape
      <4> QED BY <3>1, <4>1 DEF Attach
    <3>2. CASE Touch(v)
      <4>1. lease # None => /\ lease \in Leases /\ lease.streams \in 0..MaxStreams
                           /\ [lease EXCEPT !.idle = FALSE] =
                                [lease EXCEPT !.streams = lease.streams, !.idle = FALSE]
        BY DEF Leases, Shape
      <4> QED BY <3>2, <4>1 DEF Touch, Held
    <3>3. CASE RelayEnds(v)
      <4>1. lease # None => Decrement(lease.streams) \in 0..MaxStreams
        BY ConstantsAssumption DEF Decrement, Leases, Shape
      <4> QED BY <3>3, <4>1 DEF RelayEnds, Detached, Held
    <3>4. CASE RelayNeverStarts(v)
      BY <3>4 DEF RelayNeverStarts
    <3> QED BY <1>2, <3>1, <3>2, <3>3, <3>4 DEF ViewerStep
  <2>2. CASE lease' = lease
    BY <2>1, <2>2, SameLeaseKeeps
  <2>3. CASE \E n \in 0..MaxStreams, b \in BOOLEAN :
                lease # None /\ lease' = [lease EXCEPT !.streams = n, !.idle = b]
    <3>1. /\ lease # None /\ lease' \in Leases
          /\ lease'.id = lease.id /\ lease'.beside = lease.beside
      <4>1. PICK n \in 0..MaxStreams, b \in BOOLEAN :
                lease # None /\ lease' = [lease EXCEPT !.streams = n, !.idle = b]
        BY <2>3
      <4>2. lease \in Leases
        BY <4>1 DEF Shape
      <4>3. LET y == [lease EXCEPT !.streams = n, !.idle = b]
            IN  y \in Leases /\ y.id = lease.id /\ y.beside = lease.beside
        BY <4>2, LeaseType, Zenon
      <4> QED BY <4>1, <4>3, Zenon
    <3> QED BY <2>1, <3>1, LeaseAssumption, SameLeaseKeeps
  <2> QED BY <2>1, <2>2, <2>3
<1>3. ASSUME NEW c \in Captures, CaptureStep(c) PROVE IInv'
  BY <1>3, BindCaptureKeeps, CreateCaptureKeeps, ClaimCaptureKeeps, CapturePushesKeeps,
     CaptureConnectsKeeps, CaptureWindowEndsKeeps, CaptureDisconnectsKeeps,
     CaptureSealsKeeps, CaptureRecoveredKeeps
     DEF CaptureStep
<1>4. CASE Stop \/ Reap
  BY <1>4, ReleaseKeeps DEF Stop, Reap
<1>5. CASE GracePasses \/ CapPasses
  <2>1. /\ lease # None /\ lease' \in Leases
        /\ lease'.id = lease.id /\ lease'.beside = lease.beside
    BY <1>5 DEF GracePasses, CapPasses, Shape, Leases
  <2> QED BY <1>5, <2>1, LeaseAssumption, SameLeaseKeeps DEF GracePasses, CapPasses
<1>6. CASE UNCHANGED vars
  BY <1>6, SameLeaseKeeps DEF vars
<1> QED BY <1>1, <1>2, <1>3, <1>4, <1>5, <1>6, DisconnectKeeps DEF Next

LEMMA Typed == Spec => []Shape
  BY TypeCorrect, ShapeIsType, PTL

\* The ceremonies, the captures and the sidecar stand to the lease as IInv says.
THEOREM Invariant == Spec => []IInv
  BY InvariantInit, InvariantNext, Typed, PTL DEF Spec

\* Between ceremonies the sidecar's client, topics and register are those of the
\* session that holds the lease, unless it was admitted while a capture drove.
THEOREM LiveViewBelongsToTheHolder == Spec => []LiveViewIsTheHolders
<1>1. IInv => LiveViewIsTheHolders
  BY DEF IInv, ViewInv, Alone, OfWorkspace, LiveViewIsTheHolders, CeremonyFree
<1> QED BY <1>1, Invariant, PTL

\* A save stores the topics of the session that holds the lease, in its workspace.
THEOREM SavesAreOfTheHolder == Spec => SavedRegisterIsTheHolders
<1>1. ASSUME Shape, IInv, [Next]_vars, NEW w \in Workspaces, newest'[w] # newest[w]
      PROVE  /\ lease # None
             /\ WorkspaceOf[lease.id] = w
             /\ lease.beside \/ newest'[w] = <<w, lease.id>>
  <2>1. PICK s \in Sessions : SaveImports(s)
    BY <1>1 DEF Next, SessionStep, CeremonyStep, BindRegister, ReadRunning, SaveBegins, Acquire,
                PushRegister, ConnectBroker, ConnectFails, SaveGenerates, SavePushes,
                ViewerStep, Attach, Touch, RelayEnds, RelayNeverStarts,
                CaptureStep, BindCapture, CreateCapture, ClaimCapture, CapturePushes,
                CaptureConnects, CaptureWindowEnds, CaptureDisconnects, CaptureSeals,
                CaptureRecovered, Disconnect, Stop, Reap, GracePasses, CapPasses, vars
  <2>2. /\ ceremony.step = "import" /\ ceremony.session = s
        /\ newest' = [newest EXCEPT ![WorkspaceOf[s]] = <<WorkspaceOf[s], ceremony.rows>>]
    BY <1>1, <2>1 DEF SaveImports, At
  <2>3. lease # None /\ lease.id = s
    BY <1>1, <2>2 DEF IInv, CeremonyInv, OfTheHolder, Held
  <2>4. w = WorkspaceOf[s] /\ newest'[w] = <<w, ceremony.rows>>
    BY <1>1, <2>2 DEF Shape
  <2>5. lease.beside \/ ceremony.rows = s
    BY <1>1, <2>2, <2>3 DEF IInv, ViewInv, Alone
  <2> QED BY <2>3, <2>4, <2>5
<1>2. Shape /\ IInv /\ [Next]_vars =>
        \A w \in Workspaces : newest'[w] # newest[w] =>
            /\ lease # None
            /\ WorkspaceOf[lease.id] = w
            /\ lease.beside \/ newest'[w] = <<w, lease.id>>
  BY <1>1
<1> QED BY <1>2, Invariant, Typed, PTL DEF Spec, SavedRegisterIsTheHolders

-----------------------------------------------------------------------------
(* Relays are counted in the session they are attached to.                 *)

\* A session is watched once its request is over, and admitted once.
WatchInv ==
    /\ ceremony.step = "guard" => connect[ceremony.session].pc = "bound"
    /\ lease # None => connect[lease.id].pc = "done"
    /\ \A v \in Viewers : relay[v] # None => connect[relay[v]].pc = "done"
    /\ WatchersAreCounted

LEMMA FewerWatchers ==
  ASSUME NEW S, NEW T, IsFiniteSet(T), S \subseteq T, NEW n \in Nat, Cardinality(T) <= n
  PROVE  Cardinality(S) <= n
<1>1. Cardinality(S) <= Cardinality(T) /\ Cardinality(S) \in Nat /\ Cardinality(T) \in Nat
  BY FS_Subset, FS_CardinalityType
<1> QED BY <1>1

LEMMA WatchersFinite ==
  ASSUME NEW s
  PROVE  IsFiniteSet(Watchers(s)) /\ Cardinality(Watchers(s)) \in Nat
<1>1. Watchers(s) \subseteq Viewers /\ IsFiniteSet(Viewers)
  BY ConstantsAssumption DEF Watchers
<1> QED BY <1>1, FS_Subset, FS_CardinalityType

LEMMA CountedAfter ==
  ASSUME lease' # None =>
            Cardinality({v \in Viewers : relay'[v] = lease'.id}) <= lease'.streams
  PROVE  WatchersAreCounted'
  BY DEF WatchersAreCounted, Watchers

\* The same lease with the same relays.
LEMMA SameWatchers ==
  ASSUME WatchInv, UNCHANGED relay,
         lease' # None => lease # None /\ lease'.id = lease.id /\ lease'.streams = lease.streams
  PROVE  WatchersAreCounted'
<1>1. \A s : Watchers(s)' = Watchers(s)
  BY DEF Watchers
<1> SUFFICES ASSUME lease' # None
             PROVE  Cardinality(Watchers(lease.id)') <= lease'.streams
  BY DEF WatchersAreCounted
<1> QED BY <1>1 DEF WatchInv, WatchersAreCounted

LEMMA ViewerCounts ==
  ASSUME Shape, WatchInv, NEW v \in Viewers, ViewerStep(v)
  PROVE  WatchInv'
<1> USE DEF Shape
<1>0. lease # None => lease \in Leases /\ lease.streams \in Nat /\ lease.id \in Sessions
  BY ConstantsAssumption DEF Leases
<1>1. CASE Attach(v)
  <2> DEFINE s == lease.id
  <2>1. /\ lease # None /\ lease'.id = s /\ lease'.streams = lease.streams + 1
        /\ relay' = [relay EXCEPT ![v] = s] /\ relay[v] = None
        /\ UNCHANGED <<ceremony, connect>> /\ s # None
    BY <1>0, <1>1, ConstantsAssumption DEF Attach, Leases
  <2>2. WatchersAreCounted'
    <3>2. Cardinality(Watchers(s) \cup {v}) = Cardinality(Watchers(s)) + 1
      <4>1. v \notin Watchers(s)
        BY <2>1 DEF Watchers
      <4> QED BY <4>1, WatchersFinite, FS_AddElement
    <3>3. Cardinality(Watchers(s)) <= lease.streams /\ Cardinality(Watchers(s)) \in Nat
      BY <2>1, WatchersFinite DEF WatchInv, WatchersAreCounted
    <3>4. Cardinality(Watchers(s) \cup {v}) <= lease'.streams
      BY <1>0, <2>1, <3>2, <3>3
    <3>5. {x \in Viewers : relay'[x] = lease'.id} = Watchers(s) \cup {v}
      BY <2>1 DEF Watchers
    <3> QED BY <3>4, <3>5, CountedAfter
  <2>3. /\ lease' # None => connect'[lease'.id].pc = "done"
        /\ \A x \in Viewers : relay'[x] # None => connect'[relay'[x]].pc = "done"
    BY <2>1 DEF WatchInv
  <2> QED BY <2>1, <2>2, <2>3 DEF WatchInv
<1>2. CASE Touch(v)
  <2>1. lease' # None => lease # None /\ lease'.id = lease.id /\ lease'.streams = lease.streams
    BY <1>0, <1>2 DEF Touch, Held, Leases
  <2> QED BY <1>2, <2>1, SameWatchers DEF Touch, WatchInv
<1>3. CASE RelayEnds(v)
  <2>1. relay' = [relay EXCEPT ![v] = None] /\ UNCHANGED <<ceremony, connect>> /\ relay[v] # None
    BY <1>3 DEF RelayEnds
  <2>3. CASE Held(relay[v])
    <3> DEFINE s == relay[v]
    <3>1. /\ lease # None /\ lease.id = s /\ lease'.id = s /\ s # None
          /\ lease'.streams = Decrement(lease.streams)
      BY <1>0, <1>3, <2>1, <2>3 DEF RelayEnds, Held, Detached, Leases
    <3>2. v \in Watchers(s) /\ Cardinality(Watchers(s)) <= lease.streams
      BY <3>1 DEF Watchers, WatchInv, WatchersAreCounted
    <3>3. Cardinality(Watchers(s) \ {v}) = Cardinality(Watchers(s)) - 1
      BY <3>2, WatchersFinite, FS_RemoveElement
    <3>4. Watchers(s) # {} => Cardinality(Watchers(s)) # 0
      BY WatchersFinite, FS_EmptySet
    <3>5. Cardinality(Watchers(s) \ {v}) <= lease'.streams
      BY <1>0, <3>1, <3>2, <3>3, <3>4, WatchersFinite DEF Decrement
    <3>6. WatchersAreCounted'
      <4>1. {x \in Viewers : relay'[x] = lease'.id} = Watchers(s) \ {v}
        BY <2>1, <3>1 DEF Watchers
      <4> QED BY <3>5, <4>1, CountedAfter
    <3>7. /\ lease' # None => connect'[lease'.id].pc = "done"
          /\ \A x \in Viewers : relay'[x] # None => connect'[relay'[x]].pc = "done"
      BY <2>1, <3>1 DEF WatchInv
    <3> QED BY <2>1, <3>6, <3>7 DEF WatchInv
  <2>4. CASE ~Held(relay[v])
    <3>1. lease' = lease
      BY <1>3, <2>4 DEF RelayEnds, Detached
    <3>2. WatchersAreCounted'
      <4> DEFINE left == {x \in Viewers : relay'[x] = lease.id}
      <4> SUFFICES ASSUME lease # None PROVE Cardinality(left) <= lease.streams
        BY <3>1, CountedAfter
      <4>0. lease.id # None
        BY <1>0, ConstantsAssumption
      <4>1. left \subseteq Watchers(lease.id)
        BY <2>1, <4>0 DEF Watchers
      <4> HIDE DEF left
      <4> QED BY <1>0, <4>1, WatchersFinite, FewerWatchers DEF WatchInv, WatchersAreCounted
    <3>3. /\ lease' # None => connect'[lease'.id].pc = "done"
          /\ \A x \in Viewers : relay'[x] # None => connect'[relay'[x]].pc = "done"
      BY <2>1, <3>1 DEF WatchInv
    <3> QED BY <2>1, <3>2, <3>3 DEF WatchInv
  <2> QED BY <2>3, <2>4
<1>4. CASE RelayNeverStarts(v)
  <2>1. /\ relay' = [relay EXCEPT ![v] = None]
        /\ UNCHANGED <<lease, ceremony, connect>>
    BY <1>4 DEF RelayNeverStarts
  <2>2. WatchersAreCounted'
    <3> DEFINE left == {x \in Viewers : relay'[x] = lease.id}
    <3> SUFFICES ASSUME lease # None PROVE Cardinality(left) <= lease.streams
      BY <2>1, CountedAfter
    <3>1. lease.id # None
      BY <1>0, ConstantsAssumption
    <3>2. left \subseteq Watchers(lease.id)
      BY <2>1, <3>1 DEF Watchers
    <3> HIDE DEF left
    <3> QED BY <1>0, <3>2, WatchersFinite, FewerWatchers DEF WatchInv, WatchersAreCounted
  <2>3. \A x \in Viewers : relay'[x] # None => connect'[relay'[x]].pc = "done"
    BY <2>1 DEF WatchInv
  <2> QED BY <2>1, <2>2, <2>3 DEF WatchInv
<1> QED BY <1>1, <1>2, <1>3, <1>4 DEF ViewerStep

\* Everything but the relays: a request is over before its session is watched.
LEMMA OtherCounts ==
  ASSUME Shape, IInv, WatchInv, [Next]_vars, ~\E v \in Viewers : ViewerStep(v)
  PROVE  WatchInv'
<1> USE DEF Shape
<1>0. lease # None => lease \in Leases /\ lease.id \in Sessions
  BY DEF Leases
<1>1. relay' = relay
  BY DEF Next, SessionStep, CeremonyStep, BindRegister, ReadRunning, SaveBegins, Acquire,
         PushRegister, ConnectBroker, ConnectFails, SaveGenerates, SaveImports, SavePushes,
         CaptureStep, BindCapture, CreateCapture, ClaimCapture, CapturePushes,
         CaptureConnects, CaptureWindowEnds, CaptureDisconnects, CaptureSeals,
         CaptureRecovered, Disconnect, Stop, Reap, GracePasses, CapPasses, vars
<1>2. ASSUME NEW s \in Sessions, Acquire(s), lease' = NewLease(s), Goto("push"),
             connect' = [connect EXCEPT ![s].pc = "done"]
      PROVE  WatchInv'
  <2>1. /\ lease' # None /\ lease'.id = s /\ lease'.streams = 0
        /\ connect[s].pc = "bound" /\ connect'[s].pc = "done" /\ ceremony'.step = "push"
        /\ \A x \in Sessions : connect[x].pc = "done" => connect'[x].pc = "done"
    <3>1. lease'.streams = 0
      BY <1>2, Zenon DEF NewLease
    <3>2. connect[s].pc = "bound" /\ ceremony'.step = "push"
      BY <1>2 DEF Acquire, At, Goto, WatchInv, CeremonyRecords
    <3> QED BY <1>2, <3>1, <3>2, NewLeaseType, LeaseAssumption DEF ConnectRecords
  <2>2. {v \in Viewers : relay'[v] = s} = {}
    BY <1>1, <2>1, ConstantsAssumption DEF WatchInv
  <2>3. WatchersAreCounted'
    <3>1. Cardinality({v \in Viewers : relay'[v] = lease'.id}) = 0
      BY <2>1, <2>2, FS_EmptySet
    <3>2. Cardinality({v \in Viewers : relay'[v] = lease'.id}) <= lease'.streams
      BY <2>1, <3>1
    <3> QED BY <3>2, CountedAfter
  <2> QED BY <1>1, <2>1, <2>3 DEF WatchInv
<1>3. ASSUME ceremony'.step = "guard" =>
                \/ ceremony' = ceremony
                \/ ceremony'.session \in Sessions /\ connect[ceremony'.session].pc = "bound",
             connect' = connect,
             lease' # None => /\ lease # None /\ lease'.id = lease.id
                              /\ lease'.streams = lease.streams
      PROVE  WatchInv'
  BY <1>1, <1>3, SameWatchers DEF WatchInv
<1>4. ASSUME NEW s \in Sessions, SessionStep(s) PROVE WatchInv'
  <2>1. CASE BindRegister(s)
    <3>1. /\ UNCHANGED <<lease, ceremony>> /\ connect[s].pc = "new"
          /\ \A x \in Sessions : x # s => connect'[x] = connect[x]
      BY <2>1 DEF BindRegister
    <3>2. WatchersAreCounted'
      BY <1>1, <3>1, SameWatchers
    <3>3. ceremony.step = "guard" => ceremony.session \in Sessions /\ ceremony.session # s
      BY <3>1 DEF IInv, CeremonyInv, Sessionless, WatchInv
    <3>4. lease # None => lease.id # s
      BY <3>1 DEF WatchInv
    <3>5. \A v \in Viewers : relay[v] # None => relay[v] \in Sessions /\ relay[v] # s
      BY <3>1 DEF WatchInv
    <3> QED BY <1>0, <1>1, <3>1, <3>2, <3>3, <3>4, <3>5 DEF WatchInv
  <2>2. ASSUME Refuse(s) PROVE WatchInv'
    <3>1. /\ lease' = lease /\ ceremony'.step = "none"
          /\ \A x \in Sessions : connect[x].pc = "done" => connect'[x].pc = "done"
      BY <2>2, CeremonySteps DEF Refuse, EndCeremony, ConnectRecords
    <3>2. WatchersAreCounted'
      BY <1>1, <3>1, SameWatchers
    <3> QED BY <1>0, <1>1, <3>1, <3>2 DEF WatchInv
  <2>3. CASE ReadRunning(s)
    <3>1. CASE Refuse(s)
      BY <2>2, <3>1
    <3>2. CASE ceremony' = [NoCeremony EXCEPT !.step = "guard", !.session = s]
               /\ UNCHANGED <<lease, connect>>
      <4>1. ceremony'.session = s /\ connect[s].pc = "bound"
        BY <2>3, <3>2, CeremonySteps DEF ReadRunning
      <4> QED BY <1>3, <3>2, <4>1
    <3> QED BY <2>3, <3>1, <3>2 DEF ReadRunning
  <2>4. CASE Acquire(s)
    <3>1. CASE Refuse(s)
      BY <2>2, <3>1
    <3>2. CASE ~Refuse(s)
      <4>1. /\ lease' = NewLease(s) /\ Goto("push")
            /\ connect' = [connect EXCEPT ![s].pc = "done"]
        BY <2>4, <3>2 DEF Acquire
      <4> QED BY <1>2, <2>4, <4>1
    <3> QED BY <3>1, <3>2
  <2>5. CASE PushRegister(s) \/ ConnectBroker(s) \/ SaveGenerates(s) \/ SaveImports(s)
             \/ SavePushes(s)
    <3>1. ceremony'.step # "guard"
      <4>1. CASE PushRegister(s)
        BY <4>1 DEF PushRegister, Goto, CeremonyRecords
      <4>2. CASE ConnectBroker(s)
        BY <4>2, CeremonySteps DEF ConnectBroker, EndCeremony
      <4>3. CASE SaveGenerates(s)
        <5>1. LET y == [ceremony EXCEPT !.step = "import", !.rows = tree]
              IN  y.step = "import"
          BY CeremonySteps
        <5> QED BY <4>3, <5>1, CeremonySteps DEF SaveGenerates, EndCeremony
      <4>4. CASE SaveImports(s)
        BY <4>4, CeremonySteps DEF SaveImports, EndCeremony, Goto, CeremonyRecords
      <4>5. CASE SavePushes(s)
        BY <4>5, CeremonySteps DEF SavePushes, EndCeremony
      <4> QED BY <2>5, <4>1, <4>2, <4>3, <4>4, <4>5
    <3> QED
      BY <1>3, <2>5, <3>1 DEF PushRegister, ConnectBroker, SaveGenerates, SaveImports,
         SavePushes
  <2>6. CASE ConnectFails(s)
    <3>1. ceremony'.step # "guard"
      BY <2>6 DEF ConnectFails, ReleaseInCeremony, NoCeremony
    <3> QED BY <1>3, <2>6, <3>1 DEF ConnectFails, ReleaseInCeremony
  <2>7. CASE SaveBegins(s)
    <3>1. ceremony'.step # "guard"
      BY <2>7 DEF SaveBegins, NoCeremony
    <3> QED BY <1>3, <2>7, <3>1 DEF SaveBegins
  <2> QED
    BY <1>4, <2>1, <2>3, <2>4, <2>5, <2>6, <2>7 DEF SessionStep, CeremonyStep
<1>5. ASSUME NEW c \in Captures, CaptureStep(c) PROVE WatchInv'
  BY <1>3, <1>5 DEF CaptureStep, BindCapture, CreateCapture, ClaimCapture, CapturePushes,
         CaptureConnects, CaptureWindowEnds, CaptureDisconnects, CaptureSeals,
         CaptureRecovered
<1>6. CASE Disconnect
  <2>1. ceremony'.step # "guard"
    BY <1>6, CeremonySteps DEF Disconnect, EndCeremony
  <2> QED BY <1>3, <1>6, <2>1 DEF Disconnect
<1>7. CASE Stop \/ Reap
  <2>1. ceremony'.step # "guard"
    BY <1>7 DEF Stop, Reap, ReleaseInCeremony, NoCeremony
  <2> QED BY <1>3, <1>7, <2>1 DEF Stop, Reap, ReleaseInCeremony
<1>8. CASE GracePasses \/ CapPasses
  <2>1. lease # None /\ lease'.id = lease.id /\ lease'.streams = lease.streams
    BY <1>0, <1>8 DEF GracePasses, CapPasses, Leases
  <2> QED BY <1>3, <1>8, <2>1 DEF GracePasses, CapPasses
<1>9. CASE UNCHANGED vars
  BY <1>3, <1>9 DEF vars
<1> QED BY <1>4, <1>5, <1>6, <1>7, <1>8, <1>9 DEF Next

\* A relay attached to the held session is counted in it: no session somebody
\* watches is taken for idle, whatever relays of earlier sessions end late.
THEOREM WatchersCount == Spec => []WatchersAreCounted
<1>1. Init => WatchInv
  BY DEF Init, NoCeremony, WatchInv, WatchersAreCounted
<1>2. Shape /\ IInv /\ WatchInv /\ [Next]_vars => WatchInv'
  BY ViewerCounts, OtherCounts
<1>3. WatchInv => WatchersAreCounted
  BY DEF WatchInv
<1> QED BY <1>1, <1>2, <1>3, Invariant, Typed, PTL DEF Spec
=============================================================================
