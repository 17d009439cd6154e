---------------------------- MODULE LiveSession ----------------------------
(***************************************************************************)
(* The one MQTT discovery sidecar and the two lanes that drive it: live    *)
(* sessions, admitted by an in-process lease and watched through relays,   *)
(* and bounded capture runs. The sidecar holds one broker client, one      *)
(* topic tree and one register for everybody.                              *)
(*                                                                         *)
(* Two locks serialize the requests. The ceremony lock spans a sequence of *)
(* calls to the sidecar; since only its holder is inside such a sequence,  *)
(* variable ceremony is the lock and the place its holder has reached. The *)
(* lease lock makes a critical section atomic; only the admission of a     *)
(* session reads the runs twice under it, in two steps. An import is       *)
(* written <<workspace, source of its rows>>.                              *)
(***************************************************************************)
EXTENDS Naturals, FiniteSets

CONSTANTS
    Sessions,       \* connect requests; each admitted one is a session of its own
    Captures,       \* capture runs that are not dry
    Viewers,        \* browser streams
    Workspaces,     \* project and site
    WorkspaceOf,    \* [Sessions \cup Captures -> Workspaces]
    Registered,     \* workspaces with a register that was uploaded
    MaxStreams,     \* MAX_ATTACHED_STREAMS
    None

ASSUME ConstantsAssumption ==
    /\ WorkspaceOf \in [Sessions \cup Captures -> Workspaces]
    /\ Sessions \cap Captures = {}
    /\ Registered \subseteq Workspaces
    /\ None \notin Sessions \cup Captures \cup Workspaces
    /\ MaxStreams \in Nat /\ IsFiniteSet(Viewers)

\* The dataclass LiveSession; idle and aged say that a period has passed.
Leases == [id: Sessions, streams: 0..MaxStreams, idle: BOOLEAN, aged: BOOLEAN, beside: BOOLEAN]

ASSUME LeaseAssumption == None \notin Leases

VARIABLES
    lease,      \* MqttLiveSessionService._session
    ceremony,   \* holder of ceremony_lock and its next call
    connect,    \* connect_mqtt_live before its ceremony: the rows it has read
    capture,    \* create_mqtt_scanner_run, its run and its engine
    relay,      \* the session each _live_relay is attached to
    client,     \* sidecar: for whom its broker client was made
    tree,       \* sidecar: from whose connection its topics are
    register,   \* sidecar: the import it compares with
    newest      \* the newest accepted import of each workspace

sidecarVars == <<client, tree, register>>
vars == <<lease, ceremony, connect, capture, relay, sidecarVars, newest>>

Uploaded == None  \* the source of rows that came in a file

Sources == Sessions \cup Captures \cup {Uploaded}
Imports == Workspaces \X Sources

NoCeremony == [step |-> "none", session |-> None, rows |-> None]

Init ==
    /\ lease = None
    /\ ceremony = NoCeremony
    /\ connect = [s \in Sessions |-> [pc |-> "new", register |-> None]]
    /\ capture = [c \in Captures |-> [step |-> "new", run |-> "none", register |-> None]]
    /\ relay = [v \in Viewers |-> None]
    /\ client = None /\ tree = None /\ register = None
    /\ newest = [w \in Workspaces |-> IF w \in Registered THEN <<w, Uploaded>> ELSE None]

Held(s) == lease # None /\ lease.id = s

CeremonyFree == ceremony.step = "none"
LockFree == ceremony.step # "guard"

At(step) == ceremony.step = step
Goto(step) == ceremony' = [ceremony EXCEPT !.step = step]
EndCeremony == ceremony' = NoCeremony

-----------------------------------------------------------------------------
(* connect_mqtt_live.                                                      *)

\* _bind_scanner_register and _load_register_rows, before any lock.
BindRegister(s) ==
    /\ connect[s].pc = "new"
    /\ connect' = [connect EXCEPT ![s] = [pc |-> "bound", register |-> newest[WorkspaceOf[s]]]]
    /\ UNCHANGED <<lease, ceremony, capture, relay, sidecarVars, newest>>

Runs(status) == {c \in Captures : capture[c].run = status}

Refuse(s) ==
    /\ connect' = [connect EXCEPT ![s].pc = "done"]
    /\ EndCeremony
    /\ UNCHANGED lease

\* The guard lists the running captures ...
ReadRunning(s) ==
    /\ connect[s].pc = "bound"
    /\ CeremonyFree
    /\ IF Runs("running") # {}
         THEN Refuse(s)
         ELSE /\ ceremony' = [NoCeremony EXCEPT !.step = "guard", !.session = s]
              /\ UNCHANGED <<lease, connect>>
    /\ UNCHANGED <<capture, relay, sidecarVars, newest>>

Drives(c) == capture[c].step \in {"push", "connect", "window", "disconnect"}

\* The history variable beside: a capture drove the sidecar at the admission.
NewLease(s) ==
    [id |-> s, streams |-> 0, idle |-> FALSE, aged |-> FALSE,
     beside |-> \E c \in Captures : Drives(c)]

\* ... then the queued ones, and the lease is acquired or taken over.
Acquire(s) ==
    /\ At("guard") /\ ceremony.session = s
    /\ \/ /\ Runs("queued") # {} \/ lease # None
          /\ Refuse(s)
       \/ /\ Runs("queued") = {}
          /\ lease' = NewLease(s)
          /\ Goto("push")
          /\ connect' = [connect EXCEPT ![s].pc = "done"]
    /\ UNCHANGED <<capture, relay, sidecarVars, newest>>

PushRows(s) ==
    /\ At("push") /\ ceremony.session = s
    /\ register' = IF connect[s].register = None THEN register ELSE connect[s].register
    /\ Goto("connect")
    /\ UNCHANGED <<lease, connect, capture, relay, client, tree, newest>>

\* A workspace without a register pushes an empty one.
PushRegister(s) ==
    /\ At("push") /\ ceremony.session = s
    /\ register' = connect[s].register
    /\ Goto("connect")
    /\ UNCHANGED <<lease, connect, capture, relay, client, tree, newest>>

\* doConnect replaces the client and empties the tree.
Connected(x) == client' = x /\ tree' = x

ConnectBroker(s) ==
    /\ At("connect") /\ ceremony.session = s
    /\ Connected(s)
    /\ EndCeremony
    /\ UNCHANGED <<lease, connect, capture, relay, register, newest>>

\* release: the lease is cleared, and the sidecar is told in the same ceremony.
ReleaseInCeremony ==
    /\ lease' = None
    /\ ceremony' = [NoCeremony EXCEPT !.step = "disconnect"]

\* The sidecar cannot be reached, or its broker refuses the connection.
ConnectFails(s) ==
    /\ ceremony.step \in {"push", "connect"} /\ ceremony.session = s
    /\ \/ UNCHANGED <<client, tree>>
       \/ At("connect") /\ Connected(s)
    /\ ReleaseInCeremony
    /\ UNCHANGED <<connect, capture, relay, register, newest>>

\* The POST of release and reap_if_stale; it is best effort.
Disconnect ==
    /\ At("disconnect")
    /\ client' \in {client, None}
    /\ EndCeremony
    /\ UNCHANGED <<lease, connect, capture, relay, tree, register, newest>>

-----------------------------------------------------------------------------
(* disconnect_mqtt_live and the reaper.                                    *)

\* A stop names the session, or none for whatever is held.
Stop ==
    /\ CeremonyFree
    /\ lease # None
    /\ ReleaseInCeremony
    /\ UNCHANGED <<connect, capture, relay, sidecarVars, newest>>

StaleUnwatched == lease.streams = 0 /\ (lease.idle \/ lease.aged)

Stale == lease.aged \/ (lease.streams = 0 /\ lease.idle)

Reap ==
    /\ CeremonyFree
    /\ lease # None /\ Stale
    /\ ReleaseInCeremony
    /\ UNCHANGED <<connect, capture, relay, sidecarVars, newest>>

\* The clock: IDLE_GRACE_SECONDS since the last stream, ABSOLUTE_CAP_SECONDS.
GracePasses ==
    /\ lease # None /\ ~lease.idle
    /\ lease' = [lease EXCEPT !.idle = TRUE]
    /\ UNCHANGED <<ceremony, connect, capture, relay, sidecarVars, newest>>

CapPasses ==
    /\ lease # None /\ ~lease.aged
    /\ lease' = [lease EXCEPT !.aged = TRUE]
    /\ UNCHANGED <<ceremony, connect, capture, relay, sidecarVars, newest>>

-----------------------------------------------------------------------------
(* save_mqtt_live_as_register.                                             *)

SaveAnySession(s) == connect[s].pc = "done" /\ lease # None

\* _current_session_or_409, inside the ceremony.
MaySave(s) == Held(s)

SaveBegins(s) ==
    /\ CeremonyFree
    /\ MaySave(s)
    /\ ceremony' = [NoCeremony EXCEPT !.step = "generate", !.session = s]
    /\ UNCHANGED <<lease, connect, capture, relay, sidecarVars, newest>>

\* GET /api/generate-register; nothing discovered, or no sidecar, ends the save.
SaveGenerates(s) ==
    /\ At("generate") /\ ceremony.session = s
    /\ \/ EndCeremony
       \/ ceremony' = [ceremony EXCEPT !.step = "import", !.rows = tree]
    /\ UNCHANGED <<lease, connect, capture, relay, sidecarVars, newest>>

\* create_import, for the session's workspace; it may accept no row.
SaveImports(s) ==
    /\ At("import") /\ ceremony.session = s
    /\ \/ EndCeremony /\ UNCHANGED newest
       \/ /\ newest' = [newest EXCEPT ![WorkspaceOf[s]] = <<WorkspaceOf[s], ceremony.rows>>]
          /\ Goto("recolour")
    /\ UNCHANGED <<lease, connect, capture, relay, sidecarVars>>

\* The accepted rows go back into the sidecar, unless it cannot be reached.
SavePushes(s) ==
    /\ At("recolour") /\ ceremony.session = s
    /\ register' \in {register, <<WorkspaceOf[s], ceremony.rows>>}
    /\ EndCeremony
    /\ UNCHANGED <<lease, connect, capture, relay, client, tree, newest>>

-----------------------------------------------------------------------------
(* stream_mqtt_live and _live_relay.                                       *)

Attach(v) ==
    /\ relay[v] = None
    /\ LockFree
    /\ lease # None /\ lease.streams < MaxStreams
    /\ lease' = [lease EXCEPT !.streams = @ + 1, !.idle = FALSE]
    /\ relay' = [relay EXCEPT ![v] = lease.id]
    /\ UNCHANGED <<ceremony, connect, capture, sidecarVars, newest>>

\* A frame is forwarded while the session is held.
Touch(v) ==
    /\ relay[v] # None
    /\ LockFree
    /\ Held(relay[v])
    /\ lease' = [lease EXCEPT !.idle = FALSE]
    /\ UNCHANGED <<ceremony, connect, capture, relay, sidecarVars, newest>>

Decrement(n) == IF n = 0 THEN 0 ELSE n - 1

DetachAny(s) ==
    IF lease # None THEN [lease EXCEPT !.streams = Decrement(@), !.idle = FALSE] ELSE lease

\* stream_detach
Detached(s) ==
    IF Held(s) THEN [lease EXCEPT !.streams = Decrement(@), !.idle = FALSE] ELSE lease

\* The session was lost, the viewer left, the scope was revoked, the time was up.
RelayEnds(v) ==
    /\ relay[v] # None
    /\ LockFree
    /\ lease' = Detached(relay[v])
    /\ relay' = [relay EXCEPT ![v] = None]
    /\ UNCHANGED <<ceremony, connect, capture, sidecarVars, newest>>

\* The viewer left before the response iterated the relay: its finally never runs.
RelayNeverStarts(v) ==
    /\ relay[v] # None
    /\ relay' = [relay EXCEPT ![v] = None]
    /\ UNCHANGED <<lease, ceremony, connect, capture, sidecarVars, newest>>

-----------------------------------------------------------------------------
(* The capture lane.                                                       *)

BindCapture(c) ==
    /\ capture[c].step = "new"
    /\ capture' = [capture EXCEPT ![c].step = "bound",
                                  ![c].register = newest[WorkspaceOf[c]]]
    /\ UNCHANGED <<lease, ceremony, connect, relay, sidecarVars, newest>>

\* The guard and the creation of the run, under the lease lock.
CreateCapture(c) ==
    /\ capture[c].step = "bound"
    /\ LockFree
    /\ capture' = [capture EXCEPT ![c] =
            IF lease = None THEN [@ EXCEPT !.step = "queued", !.run = "queued"]
                            ELSE [@ EXCEPT !.step = "done"]]
    /\ UNCHANGED <<lease, ceremony, connect, relay, sidecarVars, newest>>

\* The run is claimed, or cancelled before that; neither takes the lease lock.
ClaimCapture(c) ==
    /\ capture[c].step = "queued"
    /\ \/ capture' = [capture EXCEPT ![c].step = "push", ![c].run = "running"]
       \/ capture' = [capture EXCEPT ![c].step = "done", ![c].run = "sealed"]
    /\ UNCHANGED <<lease, ceremony, connect, relay, sidecarVars, newest>>

CaptureTo(c, from, step) == capture[c].step = from /\ capture' = [capture EXCEPT ![c].step = step]

\* Without a register the call is skipped and the sidecar keeps the one it has.
CapturePushes(c) ==
    /\ \/ /\ CaptureTo(c, "push", "connect")
          /\ register' = IF capture[c].register = None THEN register ELSE capture[c].register
       \/ CaptureTo(c, "push", "seal") /\ UNCHANGED register
    /\ UNCHANGED <<lease, ceremony, connect, relay, client, tree, newest>>

\* A refused connection leaves its client behind, which goes on trying.
CaptureConnects(c) ==
    /\ \/ CaptureTo(c, "connect", "window") /\ Connected(c)
       \/ CaptureTo(c, "connect", "seal") /\ Connected(c)
       \/ CaptureTo(c, "connect", "seal") /\ UNCHANGED <<client, tree>>
    /\ UNCHANGED <<lease, ceremony, connect, relay, register, newest>>

\* The window is over or cancelled, and the archive exported or not.
CaptureWindowEnds(c) ==
    /\ CaptureTo(c, "window", "disconnect")
    /\ UNCHANGED <<lease, ceremony, connect, relay, sidecarVars, newest>>

CaptureDisconnects(c) ==
    /\ CaptureTo(c, "disconnect", "seal")
    /\ client' \in {client, None}
    /\ UNCHANGED <<lease, ceremony, connect, relay, tree, register, newest>>

CaptureSeals(c) ==
    /\ capture[c].step = "seal"
    /\ capture' = [capture EXCEPT ![c].step = "done", ![c].run = "sealed"]
    /\ UNCHANGED <<lease, ceremony, connect, relay, sidecarVars, newest>>

\* The run's lease lapsed and recovery sealed it; its engine goes on.
CaptureRecovered(c) ==
    /\ capture[c].run = "running"
    /\ capture' = [capture EXCEPT ![c].run = "sealed"]
    /\ UNCHANGED <<lease, ceremony, connect, relay, sidecarVars, newest>>

-----------------------------------------------------------------------------
CeremonyStep(s) ==
    \/ Acquire(s) \/ PushRegister(s) \/ ConnectBroker(s) \/ ConnectFails(s)
    \/ SaveGenerates(s) \/ SaveImports(s) \/ SavePushes(s)

SessionStep(s) == BindRegister(s) \/ ReadRunning(s) \/ SaveBegins(s) \/ CeremonyStep(s)

ViewerStep(v) == Attach(v) \/ Touch(v) \/ RelayEnds(v) \/ RelayNeverStarts(v)

CaptureStep(c) ==
    \/ BindCapture(c) \/ CreateCapture(c) \/ ClaimCapture(c)
    \/ CapturePushes(c) \/ CaptureConnects(c) \/ CaptureWindowEnds(c)
    \/ CaptureDisconnects(c) \/ CaptureSeals(c) \/ CaptureRecovered(c)

Next ==
    \/ \E s \in Sessions : SessionStep(s)
    \/ \E v \in Viewers : ViewerStep(v)
    \/ \E c \in Captures : CaptureStep(c)
    \/ Disconnect \/ Stop \/ Reap
    \/ GracePasses \/ CapPasses

\* The calls of a ceremony have timeouts; the cap passes; and the reaper, which
\* waits for the ceremony lock among others, gets it in the end.
Fairness ==
    /\ \A s \in Sessions : WF_vars(CeremonyStep(s))
    /\ WF_vars(Disconnect)
    /\ WF_vars(CapPasses)
    /\ SF_vars(Reap)

Spec == Init /\ [][Next]_vars
FairSpec == Spec /\ Fairness

-----------------------------------------------------------------------------
(* Properties.                                                             *)

TypeOK ==
    /\ lease \in Leases \cup {None}
    /\ ceremony \in [step: {"none", "guard", "push", "connect", "disconnect",
                            "generate", "import", "recolour"},
                     session: Sessions \cup {None}, rows: Sources]
    /\ connect \in [Sessions -> [pc: {"new", "bound", "done"}, register: Imports \cup {None}]]
    /\ capture \in [Captures -> [step: {"new", "bound", "queued", "push", "connect", "window",
                                        "disconnect", "seal", "done"},
                                 run: {"none", "queued", "running", "sealed"},
                                 register: Imports \cup {None}]]
    /\ relay \in [Viewers -> Sessions \cup {None}]
    /\ client \in Sources /\ tree \in Sources
    /\ register \in Imports \cup {None}
    /\ newest \in [Workspaces -> Imports \cup {None}]

\* Whatever connects, takes over, saves, stops and reaps came before: between
\* ceremonies the sidecar's client and topics are the lease holder's, and its
\* register is one of the holder's workspace. A session that was admitted while a
\* capture still drove the sidecar is left out.
LiveViewIsTheHolders ==
    CeremonyFree /\ lease # None /\ ~lease.beside =>
        /\ client = lease.id
        /\ tree = lease.id
        /\ register = None \/ register[1] = WorkspaceOf[lease.id]

\* The register a save stores is made of the topics of the session that holds the
\* lease when it is stored, in that session's workspace, although the check, the
\* generation and the import are separate calls.
SavedRegisterIsTheHolders ==
    [][\A w \in Workspaces : newest'[w] # newest[w] =>
            /\ lease # None
            /\ WorkspaceOf[lease.id] = w
            /\ lease.beside \/ newest'[w] = <<w, lease.id>>]_vars

Watchers(s) == {v \in Viewers : relay[v] = s}

\* A relay that is attached to the held session is counted in it, whatever relays
\* of earlier sessions end late: nobody's live view is taken for idle.
WatchersAreCounted ==
    lease # None => Cardinality(Watchers(lease.id)) <= lease.streams

\* A session nobody stops is reclaimed, watched or not, even if a relay that never
\* started is counted for ever.
SessionsAreReclaimed == \A s \in Sessions : Held(s) ~> ~Held(s)

\* mqtt_live_session.py:59-60: "a live session and a capture run can never both
\* start".
CaptureOrLive == lease # None => Runs("queued") \cup Runs("running") = {}
=============================================================================
