----------------------------- MODULE VpnExtension -----------------------------
(***************************************************************************)
(* The VPN extension (ClashVpnAbility.ets): the ability that owns the VPN  *)
(* connection, assembles the configuration from chunks, and starts and     *)
(* stops the native core of its process (Engine).                          *)
(*                                                                         *)
(* Callbacks run one at a time on the JS thread of the extension, in any   *)
(* order: requests to start the ability, common events, the resolution of  *)
(* vpnConnection.create().  startEngine is declared async but awaits       *)
(* nothing, so it is part of the step of its caller.                       *)
(*                                                                         *)
(* An instance of the ability is named by the descriptor of its            *)
(* connection; the core belongs to the process and is shared by them.      *)
(***************************************************************************)
EXTENDS Engine, FiniteSets

CONSTANTS
  Session,     \* configSession: one for each attempt of the UI to connect
  NoSession,
  Count,       \* coreConfigChunkCount of each session
  NoChunk      \* the index of a request that carries no chunk

ASSUME CountAssumption == Count \in [Session -> Nat \ {0}]

ASSUME NamesAssumption == NoFd \notin Fd /\ NoSession \notin Session /\ NoChunk \notin Nat

VARIABLES
  life,          \* per instance: "unborn", "up", "gone"
  conn,          \* per instance, its VpnConnection: "none", "pending", "open",
                 \*   "failed", "closed", "late" (opened after the instance was gone)
  tun,           \* per instance: this.tunFd
  session,       \* per instance: configSession
  chunks,        \* per instance: coreConfigChunks, pieces [at, of]
  ready,         \* per instance: coreConfigReady
  engineRunning, \* per instance
  loaded,        \* per instance: nativeCoreLoaded
  statusEvent,   \* per instance: the session that hears its status
  requests,      \* start requests [of, at] on their way to the ability
  owed,          \* start requests that created the instance, onRequest to follow
  wire,          \* CONFIG_CHUNK events on their way
  commands,      \* NATIVE_CORE_COMMAND events on their way
  told,          \* sessions that were told "config subscriber ready"
  verdict,       \* per session: the first "start result" published to it
  file,          \* what the status file holds of these: "ready", and the first
                 \*   result; all sessions share it
  source         \* history: the session whose text the core was last started with

fieldVars == <<session, chunks, ready, engineRunning, loaded, statusEvent>>
instanceVars == <<life, conn, tun, fieldVars>>
channelVars == <<requests, owed, wire, commands>>
saidVars == <<told, verdict, file>>
extVars == <<engineVars, instanceVars, channelVars, saidVars, source>>

Results == {"started", "failed"}

Message(s, at) == [of |-> s, at |-> at]

Up(i) == life[i] = "up"

NobodyUp == \A i \in Fd : ~ Up(i)

\* An instance that has ended and waits for nothing is garbage: nobody reads
\* its fields any more.
Forget(i) ==
  /\ session' = [session EXCEPT ![i] = NoSession]
  /\ chunks' = [chunks EXCEPT ![i] = {}]
  /\ ready' = [ready EXCEPT ![i] = FALSE]
  /\ engineRunning' = [engineRunning EXCEPT ![i] = FALSE]
  /\ loaded' = [loaded EXCEPT ![i] = FALSE]
  /\ statusEvent' = [statusEvent EXCEPT ![i] = NoSession]

-----------------------------------------------------------------------------
(* Collecting the configuration *)

\* Mutant of Pieces: a new session goes on with the array of the old one.
PiecesKept(i, w) ==
  IF w.at = NoChunk THEN chunks[i]
  ELSE {p \in chunks[i] : p.at # w.at} \cup {w}

\* prepareConfigSession empties the array when the session changes; a chunk
\* then goes to its place.
Pieces(i, w) ==
  LET kept == IF session[i] = w.of THEN chunks[i] ELSE {}
  IN IF w.at = NoChunk THEN kept
     ELSE {p \in kept : p.at # w.at} \cup {w}

\* coreConfigReady after the message.
Complete(i, w) ==
  IF w.at = NoChunk THEN session[i] = w.of /\ ready[i]
  ELSE Cardinality(Pieces(i, w)) = Count[w.of]

\* collectConfigChunk, collectConfigChunkInto and prepareConfigSession, up to
\* the request to start.
Collect(i, w) ==
  /\ session' = [session EXCEPT ![i] = w.of]
  /\ chunks' = [chunks EXCEPT ![i] = Pieces(i, w)]
  /\ ready' = [ready EXCEPT ![i] = Complete(i, w)]

\* Mutant of Idle: preparing a session leaves engineRunning alone.
IdleUnlessRunning(i, w) == ~ engineRunning[i]

\* engineRunning is FALSE once the message has been collected: it was, or a
\* new session has reset it.
Idle(i, w) == ~ engineRunning[i] \/ session[i] # w.of

-----------------------------------------------------------------------------
(* Starting the core *)

\* writeStatus, of a start result: to the listener of the latest request, and
\* to the file.
Publish(i, r) ==
  /\ verdict' = [verdict EXCEPT ![statusEvent'[i]] = IF @ = "none" THEN r ELSE @]
  /\ file' = IF file \cap Results = {} THEN file \cup {r} ELSE file
  /\ UNCHANGED told

\* tryStartNativeCore succeeds; said is what the listener hears first.
Launched(i, said) ==
  /\ Start(tun'[i])
  /\ engineRunning' = [engineRunning EXCEPT ![i] = TRUE]
  /\ loaded' = [loaded EXCEPT ![i] = TRUE]
  /\ source' = session'[i]
  /\ Publish(i, said)

\* It fails: already in init, or in start_tun.
LaunchFailed(i) ==
  /\ StartFailed(tun'[i]) \/ UNCHANGED engineVars
  /\ engineRunning' = [engineRunning EXCEPT ![i] = FALSE]
  /\ Publish(i, "failed")
  /\ UNCHANGED <<loaded, source>>

\* requestStartEngine and startEngine, after the fields tun, session, chunks,
\* ready and statusEvent have been set: the core is started once there are a
\* descriptor and all chunks, unless it runs.
Launch(i, idle) ==
  IF idle /\ tun'[i] # NoFd /\ ready'[i]
  THEN Launched(i, "started") \/ LaunchFailed(i)
  ELSE /\ engineRunning' = [engineRunning EXCEPT ![i] = ~ idle]
       /\ UNCHANGED <<engineVars, loaded, source, saidVars>>

\* A request that brings the last chunk asks twice: when the first start fails
\* the second may succeed.
LaunchTwice(i, idle) ==
  \/ Launch(i, idle)
  \/ (idle /\ tun'[i] # NoFd /\ ready'[i] /\ Launched(i, "failed"))

-----------------------------------------------------------------------------
(* The life of the ability *)

\* A start request finds no instance: onCreate.  It says that the subscriber is
\* ready.  Nothing can be started yet, there is no descriptor.
OnCreate(i, w) ==
  /\ NobodyUp
  /\ life[i] = "unborn"
  /\ w \in requests
  /\ requests' = requests \ {w}
  /\ owed' = owed \cup {w}
  /\ life' = [life EXCEPT ![i] = "up"]
  /\ conn' = [conn EXCEPT ![i] = "pending"]
  /\ statusEvent' = [statusEvent EXCEPT ![i] = w.of]
  /\ Collect(i, w)
  /\ told' = told \cup {w.of}
  /\ file' = file \cup {"ready"}
  /\ UNCHANGED <<engineVars, tun, engineRunning, loaded, wire, commands, verdict, source>>

\* onRequest, for the request that created the instance and for later ones.
OnRequest(i, w) ==
  /\ Up(i)
  /\ w \in requests \cup owed
  /\ requests' = IF w \in owed THEN requests ELSE requests \ {w}
  /\ owed' = owed \ {w}
  /\ statusEvent' = [statusEvent EXCEPT ![i] = w.of]
  /\ Collect(i, w)
  /\ UNCHANGED <<life, conn, tun, wire, commands>>
  /\ IF w.at = NoChunk THEN Launch(i, Idle(i, w)) ELSE LaunchTwice(i, Idle(i, w))

\* Mutant of TunCreated: the start is left to the chunks.
TunCreatedWaits(i) ==
  /\ conn[i] = "pending"
  /\ conn' = [conn EXCEPT ![i] = IF Up(i) THEN "open" ELSE "late"]
  /\ tun' = [tun EXCEPT ![i] = i]
  /\ UNCHANGED <<engineVars, life, session, chunks, ready, engineRunning, loaded,
                 statusEvent, channelVars, saidVars, source>>

\* create() resolves.  Nothing cancels it when the ability is destroyed.
TunCreated(i) ==
  /\ conn[i] = "pending"
  /\ conn' = [conn EXCEPT ![i] = IF Up(i) THEN "open" ELSE "late"]
  /\ tun' = [tun EXCEPT ![i] = i]
  /\ UNCHANGED <<life, session, chunks, ready, statusEvent, channelVars>>
  /\ Launch(i, ~ engineRunning[i])

\* create() is rejected.
TunFailed(i) ==
  /\ conn[i] = "pending"
  /\ conn' = [conn EXCEPT ![i] = "failed"]
  /\ IF Up(i) THEN UNCHANGED fieldVars ELSE Forget(i)
  /\ UNCHANGED <<engineVars, life, tun, channelVars, saidVars, source>>

\* Mutant of OnDestroy: the core is stopped only if the current session runs.
OnDestroyRunning(i) ==
  /\ Up(i)
  /\ life' = [life EXCEPT ![i] = "gone"]
  /\ conn' = [conn EXCEPT ![i] = IF @ = "open" THEN "closed" ELSE @]
  /\ tun' = [tun EXCEPT ![i] = NoFd]
  /\ owed' = {}
  /\ IF engineRunning[i] THEN Shut ELSE UNCHANGED engineVars
  /\ IF conn[i] = "pending" THEN UNCHANGED fieldVars ELSE Forget(i)
  /\ UNCHANGED <<requests, wire, commands, saidVars, source>>

\* onDestroy: a core that was started is stopped, then the connection is
\* destroyed, which closes the descriptor.
OnDestroy(i) ==
  /\ Up(i)
  /\ life' = [life EXCEPT ![i] = "gone"]
  /\ conn' = [conn EXCEPT ![i] = IF @ = "open" THEN "closed" ELSE @]
  /\ tun' = [tun EXCEPT ![i] = NoFd]
  /\ owed' = {}
  /\ IF loaded[i] THEN Shut ELSE UNCHANGED engineVars
  /\ IF conn[i] = "pending" THEN UNCHANGED fieldVars ELSE Forget(i)
  /\ UNCHANGED <<requests, wire, commands, saidVars, source>>

-----------------------------------------------------------------------------
(* Events *)

\* A CONFIG_CHUNK event reaches the subscriber of the instance.
OnChunk(i, w) ==
  /\ Up(i)
  /\ w \in wire
  /\ wire' = wire \ {w}
  /\ Collect(i, w)
  /\ UNCHANGED <<life, conn, tun, statusEvent, requests, owed, commands>>
  /\ Launch(i, Idle(i, w))

\* stop: the core is stopped, the collected configuration stays.
OnStopCommand(i) ==
  /\ Up(i)
  /\ "stop" \in commands
  /\ commands' = commands \ {"stop"}
  /\ Shut
  /\ loaded' = [loaded EXCEPT ![i] = FALSE]
  /\ engineRunning' = [engineRunning EXCEPT ![i] = FALSE]
  /\ UNCHANGED <<life, conn, tun, session, chunks, ready, statusEvent,
                 requests, owed, wire, saidVars, source>>

\* selectProxy or setMode.
OnChangeCommand(i) ==
  /\ Up(i)
  /\ "change" \in commands
  /\ commands' = commands \ {"change"}
  /\ Change \/ UNCHANGED engineVars
  /\ UNCHANGED <<instanceVars, requests, owed, wire, saidVars, source>>

\* Events that nobody has subscribed to are gone.
EventsLost ==
  /\ NobodyUp
  /\ wire # {} \/ commands # {}
  /\ wire' = {}
  /\ commands' = {}
  /\ UNCHANGED <<engineVars, instanceVars, requests, owed, saidVars, source>>

\* The backend ends on its own.
EngineExits ==
  /\ Exit
  /\ UNCHANGED <<instanceVars, channelVars, saidVars, source>>

-----------------------------------------------------------------------------
ExtInit ==
  /\ EngineInit
  /\ life = [i \in Fd |-> "unborn"]
  /\ conn = [i \in Fd |-> "none"]
  /\ tun = [i \in Fd |-> NoFd]
  /\ session = [i \in Fd |-> NoSession]
  /\ chunks = [i \in Fd |-> {}]
  /\ ready = [i \in Fd |-> FALSE]
  /\ engineRunning = [i \in Fd |-> FALSE]
  /\ loaded = [i \in Fd |-> FALSE]
  /\ statusEvent = [i \in Fd |-> NoSession]
  /\ requests = {}
  /\ owed = {}
  /\ wire = {}
  /\ commands = {}
  /\ told = {}
  /\ verdict = [s \in Session |-> "none"]
  /\ file = {}
  /\ source = NoSession

OnAnyRequest(i) == \E w \in requests \cup owed : OnCreate(i, w) \/ OnRequest(i, w)

OnAnyChunk(i) == \E w \in wire : OnChunk(i, w)

\* Everything but the arrival of messages and the end of the ability, which
\* VpnService adds.
ExtStep ==
  \/ \E i \in Fd :
       \/ OnAnyRequest(i) \/ OnAnyChunk(i) \/ OnStopCommand(i) \/ OnChangeCommand(i)
       \/ TunCreated(i) \/ TunFailed(i)
  \/ EventsLost
  \/ EngineExits
-----------------------------------------------------------------------------
Indices(s) == 0 .. Count[s] - 1

\* What the page sends of a session: the request to start, and its chunks.
Sendable == UNION {{Message(s, k) : k \in Indices(s) \cup {NoChunk}} : s \in Session}

\* The configuration of a session, in chunks.
Config(s) == {Message(s, k) : k \in Indices(s)}

ExtTypeOK ==
  /\ \A b \in engine : b.fd \in Fd
  /\ running \in BOOLEAN
  /\ tunFd \in Fd \cup {NoFd}
  /\ life \in [Fd -> {"unborn", "up", "gone"}]
  /\ conn \in [Fd -> {"none", "pending", "open", "failed", "closed", "late"}]
  /\ tun \in [Fd -> Fd \cup {NoFd}]
  /\ \A i \in Fd : tun[i] \in {i, NoFd}
  /\ session \in [Fd -> Session \cup {NoSession}]
  /\ chunks \in [Fd -> SUBSET Sendable]
  /\ ready \in [Fd -> BOOLEAN]
  /\ engineRunning \in [Fd -> BOOLEAN]
  /\ loaded \in [Fd -> BOOLEAN]
  /\ statusEvent \in [Fd -> Session \cup {NoSession}]
  /\ requests \cup owed \cup wire \subseteq Sendable
  /\ commands \subseteq {"stop", "change"}
  /\ told \subseteq Session
  /\ verdict \in [Session -> Results \cup {"none"}]
  /\ file \subseteq Results \cup {"ready"}
  /\ source \in Session \cup {NoSession}

\* Two instances are never up at once, and whatever runs, it is on the
\* descriptor of an instance that counts the core as loaded, so that the end
\* of this instance stops it.  An instance gone before its connection came up
\* is the exception.
EngineOwned ==
  /\ \A i, j \in Fd : Up(i) /\ Up(j) => i = j
  /\ \A b \in engine :
       /\ loaded[b.fd]
       /\ (Up(b.fd) /\ conn[b.fd] = "open") \/ conn[b.fd] = "late"

\* A configuration that counts as ready consists of the chunks of its own
\* session, all of them and no other, in whatever order the requests and the
\* events of several sessions arrived.
ConfigWhole ==
  \A i \in Fd : ready[i] => session[i] # NoSession /\ chunks[i] = Config(session[i])

\* An instance that counts the engine as running is right about it: the core
\* was started on its descriptor with the configuration of its session, and
\* nothing has been started or stopped since, unless a connection that came up
\* too late took the core over.
RunningIsCurrent ==
  \A i \in Fd :
    Up(i) /\ engineRunning[i] =>
      \/ running /\ tunFd = i /\ source = session[i]
      \/ \E j \in Fd : conn[j] = "late"
=============================================================================
