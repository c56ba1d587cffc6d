--------------------------- MODULE VpnServiceProofs ---------------------------
(***************************************************************************)
(* The safety of the VPN service, for every number of sessions, chunks and *)
(* instances of the ability.                                               *)
(*                                                                         *)
(* The flows of the UI matter to the extension only through the messages   *)
(* they send, so the proof is in two parts: what a step of the extension   *)
(* keeps, given messages of the right form, and that a step of the UI      *)
(* leaves the extension alone and sends only such messages.                *)
(***************************************************************************)
EXTENDS VpnService, FiniteSetTheorems, TLAPS

\* What a step of the UI leaves alone.
coreOfExt == <<engineVars, instanceVars, source>>

(***************************************************************************)
(* The parts of the inductive invariant.                                   *)
(***************************************************************************)

\* A chunk that an instance holds belongs to the session it collects, in the
\* place of its index: what ConfigWhole needs while chunks are missing.
ChunksOfSession ==
  \A i \in Fd :
    /\ session[i] = NoSession => chunks[i] = {} /\ ~ ready[i]
    /\ session[i] # NoSession => chunks[i] \subseteq Config(session[i])

\* The instance that may have a backend on its descriptor.
Owner(i) ==
  /\ loaded[i]
  /\ (Up(i) /\ conn[i] = "open") \/ conn[i] = "late"

\* The descriptor of the state belongs to an owner while the core counts as
\* running: a restart puts the next backend there.
RunningOwned == running => tunFd \in Fd /\ Owner(tunFd)

\* An instance knows a descriptor only if its connection has come up, and has
\* neither a connection nor an engine before it was created.
LifeCycle ==
  \A i \in Fd :
    /\ tun[i] # NoFd => conn[i] \in {"open", "late"}
    /\ life[i] = "unborn" => conn[i] = "none" /\ ~ engineRunning[i]

\* A flow has chunks to send exactly while it is sending.
SendsInRange ==
  \A s \in Session :
    /\ phase[s] = "sending" => sent[s] < Count[s]
    /\ phase[s] \notin {"sending", "waiting"} => sent[s] = 0 /\ ~ byEvent[s]

ExtInv ==
  /\ ChunksOfSession
  /\ ConfigWhole
  /\ EngineOwned
  /\ RunningOwned
  /\ LifeCycle
  /\ RunningIsCurrent

Inv == TypeOK /\ SendsInRange /\ ExtInv

-----------------------------------------------------------------------------
(* Configurations *)

LEMMA SendableFact ==
  ASSUME NEW w
  PROVE  w \in Sendable <=>
           \E s \in Session : \E k \in Indices(s) \cup {NoChunk} : w = Message(s, k)
  BY DEF Sendable

LEMMA MessageFact ==
  ASSUME NEW w \in Sendable
  PROVE  /\ w.of \in Session
         /\ w.at \in Indices(w.of) \cup {NoChunk}
         /\ w = Message(w.of, w.at)
<1>1. PICK s \in Session : \E k \in Indices(s) \cup {NoChunk} : w = Message(s, k)
  BY SendableFact
<1>2. PICK k \in Indices(s) \cup {NoChunk} : w = Message(s, k)
  BY <1>1
<1>3. w.of = s /\ w.at = k
  BY <1>2 DEF Message
<1>. QED BY <1>2, <1>3

\* A configuration has as many chunks as its session announces.
LEMMA ConfigSize ==
  ASSUME NEW s \in Session
  PROVE  IsFiniteSet(Config(s)) /\ Cardinality(Config(s)) <= Count[s]
<1>1. Count[s] \in Nat \ {0}
  BY CountAssumption
<1>2. IsFiniteSet(Indices(s)) /\ Cardinality(Indices(s)) = Count[s]
  <2>. DEFINE last == Count[s] - 1
  <2>1. last \in Int /\ 0 \in Int /\ ~ 0 > last /\ last - 0 + 1 = Count[s]
    BY <1>1
  <2>. HIDE DEF last
  <2>2. IsFiniteSet(0 .. last) /\ Cardinality(0 .. last) = IF 0 > last THEN 0 ELSE last - 0 + 1
    BY <2>1, FS_Interval
  <2>. QED BY <2>1, <2>2 DEF Indices, last
<1>. DEFINE f == [k \in Indices(s) |-> Message(s, k)]
<1>3. f \in Surjection(Indices(s), Config(s))
  BY DEF Surjection, Config
<1>. QED BY <1>2, <1>3, FS_Surjection

\* Chunks of the right session that are as many as announced are all of them.
LEMMA CountedIsWhole ==
  ASSUME NEW s \in Session, NEW T \in SUBSET Config(s), Cardinality(T) = Count[s]
  PROVE  T = Config(s)
<1>1. Count[s] \in Nat \ {0}
  BY CountAssumption
<1>2. IsFiniteSet(Config(s)) /\ Cardinality(Config(s)) <= Count[s]
  BY ConfigSize
<1>3. Cardinality(Config(s)) \in Nat
  BY <1>2, FS_CardinalityType
<1>4. Cardinality(T) <= Cardinality(Config(s))
  BY <1>2, FS_Subset
<1>5. Cardinality(Config(s)) = Cardinality(T)
  BY <1>1, <1>2, <1>3, <1>4
<1>. QED BY <1>2, <1>5, FS_Subset

\* A chunk joins chunks of its own session only.
LEMMA PiecesFit ==
  ASSUME ExtTypeOK, ChunksOfSession, NEW i \in Fd, NEW w \in Sendable
  PROVE  Pieces(i, w) \subseteq Config(w.of)
<1>. DEFINE kept == IF session[i] = w.of THEN chunks[i] ELSE {}
<1>1. w.of \in Session /\ w.at \in Indices(w.of) \cup {NoChunk} /\ w = Message(w.of, w.at)
  BY MessageFact
<1>2. kept \subseteq Config(w.of)
  BY <1>1, NamesAssumption DEF ChunksOfSession
<1>3. CASE w.at = NoChunk
  BY <1>2, <1>3 DEF Pieces
<1>4. CASE w.at # NoChunk
  <2>1. w \in Config(w.of)
    BY <1>1, <1>4 DEF Config
  <2>. QED BY <1>2, <1>4, <2>1 DEF Pieces
<1>. QED BY <1>3, <1>4

LEMMA ConfigSendable ==
  ASSUME NEW s \in Session
  PROVE  Config(s) \subseteq Sendable
<1>. SUFFICES ASSUME NEW w \in Config(s) PROVE w \in Sendable
  OBVIOUS
<1>. QED BY SendableFact DEF Config

\* Collecting a message keeps chunks and sessions together.
LEMMA CollectKeeps ==
  ASSUME ExtTypeOK, ChunksOfSession, ConfigWhole,
         NEW i \in Fd, NEW w \in Sendable, Collect(i, w)
  PROVE  /\ ChunksOfSession'
         /\ ConfigWhole'
         /\ session' \in [Fd -> Session \cup {NoSession}]
         /\ chunks' \in [Fd -> SUBSET Sendable]
         /\ ready' \in [Fd -> BOOLEAN]
<1>. DEFINE pieces == Pieces(i, w)
            whole == Complete(i, w)
<1>1. w.of \in Session /\ w.of # NoSession
  BY MessageFact, NamesAssumption
<1>2. pieces \subseteq Config(w.of)
  BY PiecesFit
<1>3. pieces \in SUBSET Sendable
  BY <1>1, <1>2, ConfigSendable
<1>4. whole \in BOOLEAN /\ (whole => pieces = Config(w.of))
  <2>1. CASE w.at = NoChunk
    <3>1. whole = (session[i] = w.of /\ ready[i])
      BY <2>1 DEF Complete
    <3>2. session[i] = w.of => pieces = chunks[i]
      BY <2>1 DEF Pieces
    <3>. QED BY <3>1, <3>2 DEF ConfigWhole, ExtTypeOK
  <2>2. CASE w.at # NoChunk
    <3>1. whole = (Cardinality(pieces) = Count[w.of])
      BY <2>2 DEF Complete
    <3>. QED BY <1>1, <1>2, <3>1, CountedIsWhole
  <2>. QED BY <2>1, <2>2
<1>5. /\ session' = [session EXCEPT ![i] = w.of]
      /\ chunks' = [chunks EXCEPT ![i] = pieces]
      /\ ready' = [ready EXCEPT ![i] = whole]
  BY DEF Collect
<1>. HIDE DEF pieces, whole
<1>6. /\ session' \in [Fd -> Session \cup {NoSession}]
      /\ chunks' \in [Fd -> SUBSET Sendable]
      /\ ready' \in [Fd -> BOOLEAN]
  BY <1>1, <1>3, <1>4, <1>5 DEF ExtTypeOK
<1>7. ChunksOfSession'
  BY <1>1, <1>2, <1>5 DEF ChunksOfSession, ExtTypeOK, Config, Indices
<1>8. ConfigWhole'
  BY <1>1, <1>4, <1>5 DEF ConfigWhole, ExtTypeOK, Config, Indices
<1>. QED BY <1>6, <1>7, <1>8

\* So does forgetting an instance.
LEMMA ForgetKeeps ==
  ASSUME ExtTypeOK, ChunksOfSession, ConfigWhole, NEW i \in Fd, Forget(i)
  PROVE  /\ ChunksOfSession'
         /\ ConfigWhole'
         /\ session' \in [Fd -> Session \cup {NoSession}]
         /\ chunks' \in [Fd -> SUBSET Sendable]
         /\ ready' \in [Fd -> BOOLEAN]
         /\ engineRunning' \in [Fd -> BOOLEAN]
         /\ loaded' \in [Fd -> BOOLEAN]
         /\ statusEvent' \in [Fd -> Session \cup {NoSession}]
  BY DEF Forget, ExtTypeOK, ChunksOfSession, ConfigWhole, Config, Indices

-----------------------------------------------------------------------------
(* Starting the core *)

\* The part of the types that a start touches.
StartTypes ==
  /\ \A b \in engine : b.fd \in Fd
  /\ running \in BOOLEAN
  /\ tunFd \in Fd \cup {NoFd}
  /\ engineRunning \in [Fd -> BOOLEAN]
  /\ loaded \in [Fd -> BOOLEAN]
  /\ told \subseteq Session
  /\ verdict \in [Session -> Results \cup {"none"}]
  /\ file \subseteq Results \cup {"ready"}
  /\ source \in Session \cup {NoSession}

\* The invariants that a start touches.
StartInv ==
  /\ EngineOwned
  /\ RunningOwned
  /\ LifeCycle
  /\ RunningIsCurrent

LEMMA PublishTypes ==
  ASSUME StartTypes, NEW i \in Fd, NEW r \in Results, Publish(i, r)
  PROVE  /\ told' \subseteq Session
         /\ verdict' \in [Session -> Results \cup {"none"}]
         /\ file' \subseteq Results \cup {"ready"}
  BY DEF StartTypes, Publish

\* Whether the core is started, refuses, or is not asked: if instance i is up
\* or too late, and what it knows of its descriptor is right, the backend has
\* an owner afterwards and engineRunning is right.
LEMMA LaunchKeeps ==
  ASSUME ExtTypeOK, StartInv, NEW i \in Fd, NEW idle \in BOOLEAN,
         LaunchTwice(i, idle),
         life' = life,
         life[i] # "unborn",
         Up(i) \/ conn'[i] = "late",
         tun'[i] \in {i, NoFd},
         tun'[i] # NoFd => conn'[i] \in {"open", "late"},
         \A j \in Fd : j # i => /\ conn'[j] = conn[j]
                                /\ tun'[j] = tun[j]
                                /\ session'[j] = session[j],
         conn[i] \in {"open", "late"} => conn'[i] = conn[i],
         session' \in [Fd -> Session \cup {NoSession}],
         ~ idle => engineRunning[i] /\ session'[i] = session[i]
  PROVE  StartTypes' /\ StartInv'
<1>0. StartTypes
  BY DEF ExtTypeOK, StartTypes
<1>1. CASE \E said \in Results : idle /\ tun'[i] # NoFd /\ Launched(i, said)
  <2>1. PICK said \in Results : idle /\ tun'[i] # NoFd /\ Launched(i, said)
    BY <1>1
  <2>2. /\ engine' = Fresh(i) /\ running' = TRUE /\ tunFd' = i
        /\ engineRunning' = [engineRunning EXCEPT ![i] = TRUE]
        /\ loaded' = [loaded EXCEPT ![i] = TRUE]
        /\ source' = session'[i]
    BY <2>1 DEF Launched, Start
  <2>3. \A b \in engine' : b.fd = i
    BY <2>2 DEF Fresh
  <2>4. StartTypes'
    BY <1>0, <2>1, <2>2, <2>3, PublishTypes DEF StartTypes, Launched
  <2>5. Owner(i)'
    BY <1>0, <2>1, <2>2 DEF Owner, StartTypes, Up
  <2>6. EngineOwned' /\ RunningOwned' /\ LifeCycle'
    BY <1>0, <2>2, <2>3, <2>5
       DEF StartInv, EngineOwned, RunningOwned, LifeCycle, Owner, Up, StartTypes
  <2>7. RunningIsCurrent'
    <3>1. CASE Up(i)
      BY <3>1, <2>2 DEF StartInv, EngineOwned, RunningIsCurrent, Up
    <3>2. CASE conn'[i] = "late"
      BY <3>2 DEF RunningIsCurrent
    <3>. QED BY <3>1, <3>2
  <2>. QED BY <2>4, <2>6, <2>7 DEF StartInv
<1>2. CASE idle /\ LaunchFailed(i)
  <2>1. /\ engine' \in {engine, {}}
        /\ \/ running' = FALSE /\ tunFd' = tun'[i]
           \/ running' = running /\ tunFd' = tunFd
        /\ engineRunning' = [engineRunning EXCEPT ![i] = FALSE]
        /\ loaded' = loaded /\ source' = source
    BY <1>2 DEF LaunchFailed, StartFailed, engineVars
  <2>2. StartTypes'
    BY <1>0, <1>2, <2>1, PublishTypes DEF StartTypes, LaunchFailed, Results
  <2>3. \A j \in Fd : Owner(j) => Owner(j)'
    BY <2>1 DEF Owner, Up
  <2>4. EngineOwned' /\ RunningOwned' /\ LifeCycle'
    BY <1>0, <2>1, <2>3
       DEF StartInv, EngineOwned, RunningOwned, LifeCycle, Owner, Up, StartTypes
  <2>5. RunningIsCurrent'
    <3>1. CASE Up(i)
      BY <3>1, <1>0, <2>1 DEF StartInv, EngineOwned, RunningIsCurrent, Up, StartTypes
    <3>2. CASE conn'[i] = "late"
      BY <3>2 DEF RunningIsCurrent
    <3>. QED BY <3>1, <3>2
  <2>. QED BY <2>2, <2>4, <2>5 DEF StartInv
<1>3. CASE /\ engineRunning' = [engineRunning EXCEPT ![i] = ~ idle]
           /\ UNCHANGED <<engineVars, loaded, source, saidVars>>
  <2>1. /\ engine' = engine /\ running' = running /\ tunFd' = tunFd
        /\ loaded' = loaded /\ source' = source
        /\ told' = told /\ verdict' = verdict /\ file' = file
    BY <1>3 DEF engineVars, saidVars
  <2>2. StartTypes'
    BY <1>0, <1>3, <2>1 DEF StartTypes
  <2>3. \A j \in Fd : Owner(j) => Owner(j)'
    BY <2>1 DEF Owner, Up
  <2>4. EngineOwned' /\ RunningOwned' /\ LifeCycle'
    BY <1>0, <1>3, <2>1, <2>3
       DEF StartInv, EngineOwned, RunningOwned, LifeCycle, Owner, Up, StartTypes
  <2>5. RunningIsCurrent'
    <3>1. CASE Up(i)
      <4>1. \A j \in Fd : conn[j] = "late" => conn'[j] = "late"
        OBVIOUS
      <4>. QED BY <3>1, <4>1, <1>0, <1>3, <2>1
                  DEF StartInv, EngineOwned, RunningIsCurrent, Up, StartTypes
    <3>2. CASE conn'[i] = "late"
      BY <3>2 DEF RunningIsCurrent
    <3>. QED BY <3>1, <3>2
  <2>. QED BY <2>2, <2>4, <2>5 DEF StartInv
<1>. QED BY <1>1, <1>2, <1>3 DEF LaunchTwice, Launch, Results

-----------------------------------------------------------------------------
(* The steps of the extension *)

\* A message reaches an instance that is up, in a request or as an event.
LEMMA ReceiveKeeps ==
  ASSUME ExtTypeOK, ExtInv, NEW i \in Fd, NEW w \in Sendable,
         Up(i),
         Collect(i, w),
         LaunchTwice(i, Idle(i, w)),
         UNCHANGED <<life, conn, tun, commands>>,
         statusEvent' \in [Fd -> Session \cup {NoSession}],
         requests' \cup owed' \cup wire' \subseteq Sendable
  PROVE  ExtTypeOK' /\ ExtInv'
<1>. DEFINE idle == Idle(i, w)
<1>1. /\ ChunksOfSession'
      /\ ConfigWhole'
      /\ session' \in [Fd -> Session \cup {NoSession}]
      /\ chunks' \in [Fd -> SUBSET Sendable]
      /\ ready' \in [Fd -> BOOLEAN]
  BY CollectKeeps DEF ExtInv
<1>2. session' = [session EXCEPT ![i] = w.of]
  BY DEF Collect
<1>3. idle \in BOOLEAN /\ (~ idle => engineRunning[i] /\ session'[i] = session[i])
  BY <1>2 DEF Idle, ExtTypeOK
<1>4. life[i] # "unborn"
  BY DEF Up
<1>5. /\ tun'[i] \in {i, NoFd}
      /\ tun'[i] # NoFd => conn'[i] \in {"open", "late"}
      /\ \A j \in Fd : j # i => /\ conn'[j] = conn[j]
                                /\ tun'[j] = tun[j]
                                /\ session'[j] = session[j]
  BY <1>2 DEF ExtTypeOK, ExtInv, LifeCycle
<1>. HIDE DEF idle
<1>6. StartTypes' /\ StartInv'
  <2>1. StartInv /\ LaunchTwice(i, idle) /\ life' = life /\ conn' = conn
    BY DEF StartInv, ExtInv, idle
  <2>. QED BY <1>1, <1>3, <1>4, <1>5, <2>1, LaunchKeeps
<1>7. ExtTypeOK'
  BY <1>1, <1>6 DEF ExtTypeOK, StartTypes
<1>. QED BY <1>1, <1>6, <1>7 DEF ExtInv, StartInv

LEMMA OnRequestKeeps ==
  ASSUME ExtTypeOK, ExtInv, NEW i \in Fd, NEW w, OnRequest(i, w)
  PROVE  ExtTypeOK' /\ ExtInv'
<1>1. w \in Sendable
  BY DEF OnRequest, ExtTypeOK
<1>2. LaunchTwice(i, Idle(i, w))
  BY DEF OnRequest, LaunchTwice
<1>3. statusEvent' \in [Fd -> Session \cup {NoSession}]
  BY <1>1, MessageFact DEF OnRequest, ExtTypeOK
<1>4. requests' \cup owed' \cup wire' \subseteq Sendable
  BY DEF OnRequest, ExtTypeOK
<1>. QED BY <1>1, <1>2, <1>3, <1>4, ReceiveKeeps DEF OnRequest

LEMMA OnChunkKeeps ==
  ASSUME ExtTypeOK, ExtInv, NEW i \in Fd, NEW w, OnChunk(i, w)
  PROVE  ExtTypeOK' /\ ExtInv'
<1>1. w \in Sendable
  BY DEF OnChunk, ExtTypeOK
<1>2. LaunchTwice(i, Idle(i, w))
  BY DEF OnChunk, LaunchTwice
<1>3. statusEvent' \in [Fd -> Session \cup {NoSession}]
  BY DEF OnChunk, ExtTypeOK
<1>4. requests' \cup owed' \cup wire' \subseteq Sendable
  BY DEF OnChunk, ExtTypeOK
<1>. QED BY <1>1, <1>2, <1>3, <1>4, ReceiveKeeps DEF OnChunk

\* create() resolves, in time or too late.
LEMMA TunCreatedKeeps ==
  ASSUME ExtTypeOK, ExtInv, NEW i \in Fd, TunCreated(i)
  PROVE  ExtTypeOK' /\ ExtInv'
<1>. DEFINE idle == ~ engineRunning[i]
<1>1. /\ conn[i] = "pending"
      /\ conn' = [conn EXCEPT ![i] = IF Up(i) THEN "open" ELSE "late"]
      /\ tun' = [tun EXCEPT ![i] = i]
      /\ life' = life /\ session' = session /\ chunks' = chunks /\ ready' = ready
      /\ statusEvent' = statusEvent
      /\ requests' = requests /\ owed' = owed /\ wire' = wire /\ commands' = commands
      /\ LaunchTwice(i, idle)
  BY DEF TunCreated, channelVars, LaunchTwice
<1>2. ChunksOfSession' /\ ConfigWhole'
  BY <1>1 DEF ExtInv, ChunksOfSession, ConfigWhole, Config, Indices
<1>3. /\ life[i] # "unborn"
      /\ Up(i) \/ conn'[i] = "late"
      /\ tun'[i] = i
      /\ conn'[i] \in {"open", "late"}
      /\ conn[i] \notin {"open", "late"}
  BY <1>1 DEF ExtInv, LifeCycle, ExtTypeOK
<1>4. idle \in BOOLEAN /\ (~ idle => engineRunning[i] /\ session'[i] = session[i])
  BY <1>1 DEF ExtTypeOK
<1>5. \A j \in Fd : j # i => /\ conn'[j] = conn[j]
                             /\ tun'[j] = tun[j]
                             /\ session'[j] = session[j]
  BY <1>1 DEF ExtTypeOK
<1>. HIDE DEF idle
<1>6. StartTypes' /\ StartInv'
  <2>1. StartInv /\ LaunchTwice(i, idle) /\ life' = life
    BY <1>1 DEF StartInv, ExtInv
  <2>2. session' \in [Fd -> Session \cup {NoSession}]
    BY <1>1 DEF ExtTypeOK
  <2>. QED BY <1>3, <1>4, <1>5, <2>1, <2>2, LaunchKeeps
<1>7. ExtTypeOK'
  BY <1>1, <1>6 DEF ExtTypeOK, StartTypes
<1>. QED BY <1>2, <1>6, <1>7 DEF ExtInv, StartInv

LEMMA OnCreateKeeps ==
  ASSUME ExtTypeOK, ExtInv, NEW i \in Fd, NEW w, OnCreate(i, w)
  PROVE  ExtTypeOK' /\ ExtInv'
<1>1. w \in Sendable /\ w.of \in Session
  BY MessageFact DEF OnCreate, ExtTypeOK
<1>2. /\ ChunksOfSession'
      /\ ConfigWhole'
      /\ session' \in [Fd -> Session \cup {NoSession}]
      /\ chunks' \in [Fd -> SUBSET Sendable]
      /\ ready' \in [Fd -> BOOLEAN]
  BY <1>1, CollectKeeps DEF ExtInv, OnCreate
<1>3. /\ \A j \in Fd : life[j] # "up"
      /\ life[i] = "unborn" /\ conn[i] = "none" /\ ~ engineRunning[i]
      /\ life' = [life EXCEPT ![i] = "up"]
      /\ conn' = [conn EXCEPT ![i] = "pending"]
      /\ engine' = engine /\ running' = running /\ tunFd' = tunFd
      /\ tun' = tun /\ engineRunning' = engineRunning /\ loaded' = loaded /\ source' = source
  BY DEF OnCreate, NobodyUp, Up, engineVars, ExtInv, LifeCycle
<1>4. ExtTypeOK'
  <2>1. requests' \cup owed' \cup wire' \subseteq Sendable /\ commands' = commands
    BY <1>1 DEF ExtTypeOK, OnCreate
  <2>2. statusEvent' \in [Fd -> Session \cup {NoSession}] /\ told' \subseteq Session
    BY <1>1 DEF ExtTypeOK, OnCreate
  <2>3. file' \subseteq Results \cup {"ready"} /\ verdict' = verdict
    BY DEF ExtTypeOK, OnCreate
  <2>4. /\ life' \in [Fd -> {"unborn", "up", "gone"}]
        /\ conn' \in [Fd -> {"none", "pending", "open", "failed", "closed", "late"}]
    BY <1>3 DEF ExtTypeOK
  <2>. QED BY <1>2, <1>3, <2>1, <2>2, <2>3, <2>4 DEF ExtTypeOK
<1>5. \A j \in Fd : Owner(j) => Owner(j)'
  BY <1>3 DEF Owner, Up, ExtTypeOK
<1>6. EngineOwned' /\ RunningOwned'
  BY <1>3, <1>5 DEF ExtInv, ExtTypeOK, EngineOwned, RunningOwned, Owner, Up
<1>7. LifeCycle' /\ RunningIsCurrent'
  BY <1>3 DEF ExtInv, ExtTypeOK, LifeCycle, RunningIsCurrent, Up
<1>. QED BY <1>2, <1>4, <1>6, <1>7 DEF ExtInv

LEMMA TunFailedKeeps ==
  ASSUME ExtTypeOK, ExtInv, NEW i \in Fd, TunFailed(i)
  PROVE  ExtTypeOK' /\ ExtInv'
<1>1. /\ conn[i] = "pending"
      /\ conn' = [conn EXCEPT ![i] = "failed"]
      /\ engine' = engine /\ running' = running /\ tunFd' = tunFd
      /\ life' = life /\ tun' = tun /\ source' = source
      /\ requests' = requests /\ owed' = owed /\ wire' = wire /\ commands' = commands
      /\ told' = told /\ verdict' = verdict /\ file' = file
  BY DEF TunFailed, engineVars, channelVars, saidVars
<1>2. /\ ChunksOfSession'
      /\ ConfigWhole'
      /\ session' \in [Fd -> Session \cup {NoSession}]
      /\ chunks' \in [Fd -> SUBSET Sendable]
      /\ ready' \in [Fd -> BOOLEAN]
      /\ engineRunning' \in [Fd -> BOOLEAN]
      /\ loaded' \in [Fd -> BOOLEAN]
      /\ statusEvent' \in [Fd -> Session \cup {NoSession}]
  <2>1. CASE Forget(i)
    BY <2>1, ForgetKeeps DEF ExtInv
  <2>2. CASE UNCHANGED fieldVars
    BY <2>2 DEF fieldVars, ExtInv, ExtTypeOK, ChunksOfSession, ConfigWhole, Config, Indices
  <2>. QED BY <2>1, <2>2 DEF TunFailed
<1>3. ExtTypeOK'
  BY <1>1, <1>2 DEF ExtTypeOK
<1>4. /\ conn'[i] = "failed"
      /\ \A j \in Fd : j # i => /\ engineRunning'[j] = engineRunning[j]
                                /\ session'[j] = session[j]
                                /\ loaded'[j] = loaded[j]
                                /\ conn'[j] = conn[j]
  BY <1>1 DEF TunFailed, Forget, fieldVars, ExtTypeOK
<1>5. \/ ~ Up(i) /\ engineRunning'[i] = FALSE
      \/ engineRunning'[i] = engineRunning[i] /\ session'[i] = session[i]
  BY DEF TunFailed, Forget, fieldVars, ExtTypeOK
<1>6. \A j \in Fd : Owner(j) => Owner(j)'
  BY <1>1, <1>4 DEF Owner, Up
<1>7. EngineOwned' /\ RunningOwned'
  BY <1>1, <1>6 DEF ExtInv, ExtTypeOK, EngineOwned, RunningOwned, Owner, Up
<1>8. LifeCycle'
  BY <1>1, <1>4 DEF ExtInv, ExtTypeOK, LifeCycle
<1>9. RunningIsCurrent'
  BY <1>1, <1>4, <1>5 DEF ExtInv, ExtTypeOK, RunningIsCurrent, Up
<1>. QED BY <1>2, <1>3, <1>7, <1>8, <1>9 DEF ExtInv

\* The end of an instance: a backend of its own is stopped, and none is left.
LEMMA OnDestroyKeeps ==
  ASSUME ExtTypeOK, ExtInv, NEW i \in Fd, OnDestroy(i)
  PROVE  ExtTypeOK' /\ ExtInv'
<1>1. /\ Up(i)
      /\ life' = [life EXCEPT ![i] = "gone"]
      /\ conn' = [conn EXCEPT ![i] = IF @ = "open" THEN "closed" ELSE @]
      /\ tun' = [tun EXCEPT ![i] = NoFd]
      /\ source' = source
      /\ requests' = requests /\ owed' = {} /\ wire' = wire /\ commands' = commands
      /\ told' = told /\ verdict' = verdict /\ file' = file
  BY DEF OnDestroy, saidVars
<1>2. /\ ChunksOfSession'
      /\ ConfigWhole'
      /\ session' \in [Fd -> Session \cup {NoSession}]
      /\ chunks' \in [Fd -> SUBSET Sendable]
      /\ ready' \in [Fd -> BOOLEAN]
      /\ engineRunning' \in [Fd -> BOOLEAN]
      /\ loaded' \in [Fd -> BOOLEAN]
      /\ statusEvent' \in [Fd -> Session \cup {NoSession}]
  <2>1. CASE Forget(i)
    BY <2>1, ForgetKeeps DEF ExtInv
  <2>2. CASE UNCHANGED fieldVars
    BY <2>2 DEF fieldVars, ExtInv, ExtTypeOK, ChunksOfSession, ConfigWhole, Config, Indices
  <2>. QED BY <2>1, <2>2 DEF OnDestroy
<1>3. \/ engine' = {} /\ running' = FALSE /\ tunFd' = NoFd
      \/ ~ loaded[i] /\ engine' = engine /\ running' = running /\ tunFd' = tunFd
  BY DEF OnDestroy, Shut, engineVars
<1>4. ExtTypeOK'
  BY <1>1, <1>2, <1>3 DEF ExtTypeOK
<1>5. \A j \in Fd : j # i => /\ engineRunning'[j] = engineRunning[j]
                             /\ session'[j] = session[j]
                             /\ loaded'[j] = loaded[j]
                             /\ conn'[j] = conn[j]
                             /\ life'[j] = life[j]
                             /\ tun'[j] = tun[j]
  BY <1>1 DEF OnDestroy, Forget, fieldVars, ExtTypeOK
<1>6. \A j \in Fd : j # i /\ Owner(j) => Owner(j)'
  BY <1>5 DEF Owner, Up
<1>7. EngineOwned' /\ RunningOwned'
  <2>1. \A j \in Fd : ~ Up(j)'
    BY <1>1, <1>5 DEF ExtInv, EngineOwned, ExtTypeOK, Up
  <2>. QED BY <1>3, <1>6, <2>1 DEF ExtInv, ExtTypeOK, EngineOwned, RunningOwned, Owner
<1>8. LifeCycle'
  BY <1>1, <1>5 DEF ExtInv, ExtTypeOK, LifeCycle
<1>9. RunningIsCurrent'
  BY <1>1, <1>5 DEF ExtInv, ExtTypeOK, EngineOwned, RunningIsCurrent, Up
<1>. QED BY <1>2, <1>4, <1>7, <1>8, <1>9 DEF ExtInv

LEMMA OnStopCommandKeeps ==
  ASSUME ExtTypeOK, ExtInv, NEW i \in Fd, OnStopCommand(i)
  PROVE  ExtTypeOK' /\ ExtInv'
<1>1. /\ Up(i)
      /\ engine' = {} /\ running' = FALSE /\ tunFd' = NoFd
      /\ loaded' = [loaded EXCEPT ![i] = FALSE]
      /\ engineRunning' = [engineRunning EXCEPT ![i] = FALSE]
      /\ life' = life /\ conn' = conn /\ tun' = tun /\ source' = source
      /\ session' = session /\ chunks' = chunks /\ ready' = ready
      /\ statusEvent' = statusEvent
      /\ commands' \subseteq commands
      /\ requests' = requests /\ owed' = owed /\ wire' = wire
      /\ told' = told /\ verdict' = verdict /\ file' = file
  BY DEF OnStopCommand, Shut, saidVars
<1>2. ExtTypeOK'
  BY <1>1 DEF ExtTypeOK
<1>3. ChunksOfSession' /\ ConfigWhole'
  BY <1>1 DEF ExtInv, ChunksOfSession, ConfigWhole, Config, Indices
<1>4. EngineOwned' /\ RunningOwned' /\ LifeCycle'
  BY <1>1 DEF ExtInv, ExtTypeOK, EngineOwned, RunningOwned, LifeCycle, Up
<1>5. RunningIsCurrent'
  BY <1>1 DEF ExtInv, ExtTypeOK, EngineOwned, RunningIsCurrent, Up
<1>. QED BY <1>2, <1>3, <1>4, <1>5 DEF ExtInv

\* The backend ends, is replaced or is lost in a restart: what is left runs on
\* the descriptor of the state.
LEMMA EngineMoves ==
  ASSUME ExtTypeOK, ExtInv, Change \/ Exit \/ UNCHANGED engineVars,
         UNCHANGED <<instanceVars, source>>
  PROVE  /\ ExtInv'
         /\ \A b \in engine' : b.fd \in Fd
         /\ UNCHANGED <<running, tunFd>>
<1>1. UNCHANGED <<running, tunFd>>
  BY DEF Change, Exit, engineVars
<1>2. \A b \in engine' : (\E c \in engine : b.fd = c.fd) \/ (running /\ b.fd = tunFd)
  BY DEF Change, Exit, Fresh, engineVars
<1>3. /\ life' = life /\ conn' = conn /\ tun' = tun /\ source' = source
      /\ session' = session /\ chunks' = chunks /\ ready' = ready
      /\ engineRunning' = engineRunning /\ loaded' = loaded
  BY DEF instanceVars, fieldVars
<1>4. ChunksOfSession' /\ ConfigWhole'
  BY <1>3 DEF ExtInv, ChunksOfSession, ConfigWhole, Config, Indices
<1>5. /\ EngineOwned' /\ RunningOwned' /\ LifeCycle'
      /\ \A b \in engine' : b.fd \in Fd
  BY <1>1, <1>2, <1>3
     DEF ExtInv, ExtTypeOK, EngineOwned, RunningOwned, LifeCycle, Owner, Up
<1>6. RunningIsCurrent'
  BY <1>1, <1>3 DEF ExtInv, RunningIsCurrent, Up
<1>. QED BY <1>1, <1>4, <1>5, <1>6 DEF ExtInv

LEMMA ExtStepKeeps == ExtTypeOK /\ ExtInv /\ ExtStep => ExtTypeOK' /\ ExtInv'
<1>. SUFFICES ASSUME ExtTypeOK, ExtInv, ExtStep
              PROVE  ExtTypeOK' /\ ExtInv'
  OBVIOUS
<1>1. ASSUME NEW i \in Fd, OnAnyRequest(i) \/ OnAnyChunk(i)
      PROVE  ExtTypeOK' /\ ExtInv'
  BY <1>1, OnCreateKeeps, OnRequestKeeps, OnChunkKeeps DEF OnAnyRequest, OnAnyChunk
<1>2. ASSUME NEW i \in Fd, TunCreated(i) \/ TunFailed(i) \/ OnStopCommand(i)
      PROVE  ExtTypeOK' /\ ExtInv'
  BY <1>2, TunCreatedKeeps, TunFailedKeeps, OnStopCommandKeeps
<1>3. ASSUME NEW i \in Fd, OnChangeCommand(i)
      PROVE  ExtTypeOK' /\ ExtInv'
  <2>1. Change \/ Exit \/ UNCHANGED engineVars
    BY <1>3 DEF OnChangeCommand
  <2>2. UNCHANGED <<instanceVars, source>> /\ commands' \subseteq commands
        /\ UNCHANGED <<requests, owed, wire, saidVars>>
    BY <1>3 DEF OnChangeCommand
  <2>3. /\ ExtInv'
        /\ \A b \in engine' : b.fd \in Fd
        /\ UNCHANGED <<running, tunFd>>
    BY <2>1, <2>2, EngineMoves
  <2>. QED BY <2>2, <2>3 DEF ExtTypeOK, instanceVars, fieldVars, saidVars
<1>4. CASE EventsLost
  <2>1. UNCHANGED engineVars /\ UNCHANGED <<instanceVars, source>>
    BY <1>4 DEF EventsLost
  <2>2. ExtInv'
    BY <2>1, EngineMoves
  <2>. QED BY <1>4, <2>2
       DEF EventsLost, ExtTypeOK, engineVars, instanceVars, fieldVars, saidVars
<1>5. CASE EngineExits
  <2>1. UNCHANGED <<instanceVars, source>> /\ UNCHANGED <<channelVars, saidVars>>
    BY <1>5 DEF EngineExits
  <2>2. /\ ExtInv'
        /\ \A b \in engine' : b.fd \in Fd
        /\ UNCHANGED <<running, tunFd>>
    BY <1>5, <2>1, EngineMoves DEF EngineExits
  <2>. QED BY <2>1, <2>2 DEF ExtTypeOK, instanceVars, fieldVars, channelVars, saidVars
<1>. QED BY <1>1, <1>2, <1>3, <1>4, <1>5 DEF ExtStep

\* A step that changes no more of the extension than its messages and the
\* status file.
LEMMA MessagesOnly ==
  ASSUME ExtTypeOK, ExtInv, UNCHANGED coreOfExt,
         requests' \cup owed' \cup wire' \subseteq Sendable,
         commands' \subseteq {"stop", "change"},
         UNCHANGED <<told, verdict>>,
         file' \subseteq Results \cup {"ready"}
  PROVE  ExtTypeOK' /\ ExtInv'
<1>1. ExtInv'
  BY EngineMoves DEF coreOfExt
<1>2. ExtTypeOK'
  BY DEF ExtTypeOK, coreOfExt, engineVars, instanceVars, fieldVars
<1>. QED BY <1>1, <1>2

LEMMA StopExtensionKeeps ==
  ASSUME ExtTypeOK, ExtInv, StopExtension \/ UNCHANGED extVars
  PROVE  ExtTypeOK' /\ ExtInv'
<1>1. CASE \E i \in Fd : OnDestroy(i)
  BY <1>1, OnDestroyKeeps
<1>2. CASE UNCHANGED extVars
  <2>1. UNCHANGED coreOfExt /\ UNCHANGED <<requests, owed, wire, commands, saidVars>>
    BY <1>2 DEF extVars, coreOfExt, channelVars
  <2>. QED BY <2>1, MessagesOnly DEF saidVars, ExtTypeOK
<1>. QED BY <1>1, <1>2 DEF StopExtension

-----------------------------------------------------------------------------
(* The steps of the UI *)

LEMMA FlowMessage ==
  ASSUME UiTypeOK, SendsInRange, NEW s \in Session
  PROVE  /\ Message(s, NoChunk) \in Sendable
         /\ phase[s] = "sending" => Message(s, sent[s]) \in Sendable
<1>1. Count[s] \in Nat
  BY CountAssumption
<1>2. phase[s] = "sending" => sent[s] \in Indices(s)
  BY <1>1 DEF UiTypeOK, SendsInRange, Indices
<1>. QED BY <1>2, SendableFact

\* A step of a flow keeps its own bookkeeping ...
LEMMA FlowCounts ==
  ASSUME UiTypeOK, SendsInRange, NEW s \in Session, Begin(s) \/ Flow(s)
  PROVE  UiTypeOK' /\ SendsInRange'
<1>0. Count[s] \in Nat \ {0}
  BY CountAssumption
<1>1. CASE Begin(s)
  BY <1>1 DEF Begin, To, Show, UiTypeOK, SendsInRange
<1>2. CASE FlowStops(s)
  BY <1>2 DEF FlowStops, To, UiTypeOK, SendsInRange
<1>3. CASE FlowStarts(s)
  BY <1>0, <1>3 DEF FlowStarts, To, UiTypeOK, SendsInRange
<1>4. CASE FlowHearsSubscriber(s)
  BY <1>4 DEF FlowHearsSubscriber, UiTypeOK, SendsInRange
<1>5. CASE FlowSends(s)
  BY <1>0, <1>5 DEF FlowSends, To, UiTypeOK, SendsInRange
<1>6. CASE FlowHears(s)
  BY <1>0, <1>6 DEF FlowHears, To, Done, UiTypeOK, SendsInRange
<1>7. CASE FlowProbes(s)
  BY <1>0, <1>7 DEF FlowProbes, To, Done, UiTypeOK, SendsInRange
<1>8. CASE FlowConnects(s)
  BY <1>8 DEF FlowConnects, To, Show, UiTypeOK, SendsInRange
<1>9. CASE FlowFails(s)
  BY <1>0, <1>9 DEF FlowFails, To, Show, Done, UiTypeOK, SendsInRange
<1>. QED BY <1>1, <1>2, <1>3, <1>4, <1>5, <1>6, <1>7, <1>8, <1>9 DEF Flow

\* ... and the extension sees of it a stop or a message.
LEMMA FlowKeeps ==
  ASSUME TypeOK, SendsInRange, ExtInv, NEW s \in Session, Begin(s) \/ Flow(s)
  PROVE  ExtTypeOK' /\ ExtInv'
<1>0. ExtTypeOK /\ UiTypeOK
  BY DEF TypeOK
<1>1. CASE Begin(s) \/ FlowHearsSubscriber(s) \/ FlowHears(s) \/ FlowProbes(s)
  <2>1. UNCHANGED extVars
    BY <1>1 DEF Begin, FlowHearsSubscriber, FlowHears, FlowProbes
  <2>. QED BY <1>0, <2>1, StopExtensionKeeps
<1>2. CASE FlowStops(s) \/ FlowFails(s)
  BY <1>0, <1>2, StopExtensionKeeps DEF FlowStops, FlowFails
<1>3. CASE FlowStarts(s)
  <2>1. UNCHANGED coreOfExt
    BY <1>3 DEF FlowStarts, coreOfExt
  <2>2. requests' \cup owed' \cup wire' \subseteq Sendable
    BY <1>0, <1>3, FlowMessage DEF FlowStarts, ExtTypeOK
  <2>3. /\ commands' \subseteq {"stop", "change"}
        /\ UNCHANGED <<told, verdict>>
        /\ file' \subseteq Results \cup {"ready"}
    BY <1>0, <1>3 DEF FlowStarts, ExtTypeOK
  <2>. QED BY <1>0, <2>1, <2>2, <2>3, MessagesOnly
<1>4. CASE FlowSends(s)
  <2>1. UNCHANGED coreOfExt
    BY <1>4 DEF FlowSends, coreOfExt
  <2>2. requests' \cup owed' \cup wire' \subseteq Sendable
    BY <1>0, <1>4, FlowMessage DEF FlowSends, ExtTypeOK
  <2>3. /\ commands' \subseteq {"stop", "change"}
        /\ UNCHANGED <<told, verdict>>
        /\ file' \subseteq Results \cup {"ready"}
    BY <1>0, <1>4 DEF FlowSends, ExtTypeOK, saidVars
  <2>. QED BY <1>0, <2>1, <2>2, <2>3, MessagesOnly
<1>5. CASE FlowConnects(s)
  <2>1. UNCHANGED coreOfExt
    BY <1>5 DEF FlowConnects, coreOfExt
  <2>2. requests' \cup owed' \cup wire' \subseteq Sendable
    BY <1>0, <1>5 DEF FlowConnects, ExtTypeOK
  <2>3. /\ commands' \subseteq {"stop", "change"}
        /\ UNCHANGED <<told, verdict>>
        /\ file' \subseteq Results \cup {"ready"}
    BY <1>0, <1>5 DEF FlowConnects, ExtTypeOK, saidVars
  <2>. QED BY <1>0, <2>1, <2>2, <2>3, MessagesOnly
<1>. QED BY <1>1, <1>2, <1>3, <1>4, <1>5 DEF Flow

\* The page outside of its flows.
LEMMA PageKeeps ==
  ASSUME TypeOK, SendsInRange, ExtInv,
         Disconnect \/ StatusAnswered \/ StatusHeard \/ UiStopsExtension \/ UiKilled
  PROVE  Inv'
<1>0. ExtTypeOK /\ UiTypeOK
  BY DEF TypeOK
<1>1. StopExtension \/ UNCHANGED extVars
  BY DEF Disconnect, StatusAnswered, StatusHeard, UiStopsExtension, UiKilled
<1>2. ExtTypeOK' /\ ExtInv'
  BY <1>0, <1>1, StopExtensionKeeps
<1>3. \A t \in Session : Count[t] \in Nat \ {0}
  BY CountAssumption
<1>4. UiTypeOK' /\ SendsInRange'
  <2>1. CASE Disconnect
    BY <1>0, <2>1 DEF Disconnect, Show, UiTypeOK, SendsInRange
  <2>2. CASE StatusAnswered
    BY <1>0, <2>2 DEF StatusAnswered, UiTypeOK, SendsInRange
  <2>3. CASE StatusHeard
    BY <1>0, <2>3 DEF StatusHeard, Show, UiTypeOK, SendsInRange
  <2>4. CASE UiStopsExtension
    BY <1>0, <2>4 DEF UiStopsExtension, UiTypeOK, SendsInRange
  <2>5. CASE UiKilled
    <3>1. phase' \in [Session -> {"idle", "ended"}]
      BY <2>5 DEF UiKilled
    <3>2. /\ byEvent' = [t \in Session |-> FALSE] /\ sent' = [t \in Session |-> 0]
          /\ ui' = "DISCONNECTED" /\ status' = "asked" /\ quitting' = FALSE
      BY <2>5 DEF UiKilled
    <3>3. phase' \in [Session -> {"idle", "stopping", "starting", "sending", "waiting",
                                "applying", "connected", "ended"}]
      BY <3>1
    <3>4. \A t \in Session : sent'[t] = 0 /\ 0 <= Count[t]
      BY <1>3, <3>2
    <3>5. UiTypeOK'
      BY <3>2, <3>3, <3>4 DEF UiTypeOK
    <3>6. SendsInRange'
      BY <3>1, <3>2 DEF SendsInRange
    <3>. QED BY <3>5, <3>6
  <2>. QED BY <2>1, <2>2, <2>3, <2>4, <2>5
<1>. QED BY <1>2, <1>4 DEF Inv, TypeOK

LEMMA UiQuitsKeeps ==
  ASSUME TypeOK, SendsInRange, ExtInv, UiQuits
  PROVE  Inv'
<1>0. ExtTypeOK /\ UiTypeOK
  BY DEF TypeOK
<1>1. UNCHANGED coreOfExt
  BY DEF UiQuits, coreOfExt
<1>2. requests' \cup owed' \cup wire' \subseteq Sendable
  BY <1>0 DEF UiQuits, ExtTypeOK
<1>3. /\ commands' \subseteq {"stop", "change"}
      /\ UNCHANGED <<told, verdict>>
      /\ file' \subseteq Results \cup {"ready"}
  BY <1>0 DEF UiQuits, ExtTypeOK, saidVars
<1>4. ExtTypeOK' /\ ExtInv'
  BY <1>0, <1>1, <1>2, <1>3, MessagesOnly
<1>5. UiTypeOK' /\ SendsInRange'
  BY <1>0 DEF UiQuits, UiTypeOK, SendsInRange
<1>. QED BY <1>4, <1>5 DEF Inv, TypeOK

-----------------------------------------------------------------------------
(* The theorems *)

LEMMA InitInv == Init => Inv
<1>. SUFFICES ASSUME Init PROVE Inv
  OBVIOUS
<1>1. \A t \in Session : Count[t] \in Nat \ {0}
  BY CountAssumption
<1>2. ExtTypeOK
  BY DEF Init, ExtInit, EngineInit, ExtTypeOK
<1>3. UiTypeOK /\ SendsInRange
  <2>1. \A t \in Session : phase[t] = "idle" /\ sent[t] = 0 /\ byEvent[t] = FALSE
    BY DEF Init
  <2>2. \A t \in Session : sent[t] <= Count[t]
    BY <1>1, <2>1
  <2>3. SendsInRange
    BY <2>1 DEF SendsInRange
  <2>4. /\ phase \in [Session -> {"idle", "stopping", "starting", "sending", "waiting",
                                "applying", "connected", "ended"}]
        /\ byEvent \in [Session -> BOOLEAN]
        /\ sent \in [Session -> Nat]
    BY DEF Init
  <2>. QED BY <2>2, <2>3, <2>4 DEF Init, UiTypeOK
<1>4. ExtInv
  BY DEF Init, ExtInit, EngineInit, ExtInv, ChunksOfSession, ConfigWhole, EngineOwned,
         RunningOwned, LifeCycle, RunningIsCurrent, Up
<1>. QED BY <1>2, <1>3, <1>4 DEF Inv, TypeOK

LEMMA NextInv == Inv /\ [Next]_vars => Inv'
<1>. SUFFICES ASSUME Inv, [Next]_vars
              PROVE  Inv'
  OBVIOUS
<1>0. TypeOK /\ SendsInRange /\ ExtInv /\ ExtTypeOK /\ UiTypeOK
  BY DEF Inv, TypeOK
<1>1. CASE ExtStep /\ UNCHANGED uiVars
  <2>1. ExtTypeOK' /\ ExtInv'
    BY <1>0, <1>1, ExtStepKeeps
  <2>2. UiTypeOK' /\ SendsInRange'
    BY <1>0, <1>1 DEF uiVars, UiTypeOK, SendsInRange
  <2>. QED BY <2>1, <2>2 DEF Inv, TypeOK
<1>2. ASSUME NEW s \in Session, Begin(s) \/ Flow(s)
      PROVE  Inv'
  <2>1. ExtTypeOK' /\ ExtInv'
    BY <1>0, <1>2, FlowKeeps
  <2>2. UiTypeOK' /\ SendsInRange'
    BY <1>0, <1>2, FlowCounts
  <2>. QED BY <2>1, <2>2 DEF Inv, TypeOK
<1>3. CASE Disconnect \/ StatusAnswered \/ StatusHeard \/ UiStopsExtension \/ UiKilled
  BY <1>0, <1>3, PageKeeps
<1>4. CASE UiQuits
  BY <1>0, <1>4, UiQuitsKeeps
<1>5. CASE UNCHANGED vars
  <2>1. ExtTypeOK' /\ ExtInv'
    BY <1>0, <1>5, StopExtensionKeeps DEF vars
  <2>2. UiTypeOK' /\ SendsInRange'
    BY <1>0, <1>5 DEF vars, uiVars, UiTypeOK, SendsInRange
  <2>. QED BY <2>1, <2>2 DEF Inv, TypeOK
<1>. QED BY <1>1, <1>2, <1>3, <1>4, <1>5 DEF Next

\* The inductive invariant: the types, the bookkeeping of the flows, and the
\* ownership of chunks, descriptors and backends.
THEOREM InvHolds == Spec => []Inv
BY InitInv, NextInv, PTL DEF Spec

\* No flow sends more chunks than it announced, whatever the order of events,
\* failures and kills of the UI (TypeOK of the run).
THEOREM TypeCorrect == Spec => []TypeOK
<1>1. Inv => TypeOK
  BY DEF Inv
<1>. QED BY <1>1, InvHolds, PTL

\* Whatever backend runs in the process of the extension, an instance is
\* responsible for it: onDestroy of this instance stops it, unless its
\* connection came up when the instance was already gone.
THEOREM CoreOwned == Spec => []EngineOwned
<1>1. Inv => EngineOwned
  BY DEF Inv, ExtInv
<1>. QED BY <1>1, InvHolds, PTL

\* A configuration that collectConfigChunk declares ready is exactly the chunks
\* of its session: for any number of chunks and sessions, and any order in
\* which their requests and events arrive.
THEOREM ConfigurationWhole == Spec => []ConfigWhole
<1>1. Inv => ConfigWhole
  BY DEF Inv, ExtInv
<1>. QED BY <1>1, InvHolds, PTL

\* The flag engineRunning, which keeps requestStartEngine from starting the core
\* again, is right whenever it is set, unless a late connection interferes.
THEOREM RunningCurrent == Spec => []RunningIsCurrent
<1>1. Inv => RunningIsCurrent
  BY DEF Inv, ExtInv
<1>. QED BY <1>1, InvHolds, PTL
=============================================================================
