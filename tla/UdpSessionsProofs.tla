-------------------------- MODULE UdpSessionsProofs --------------------------
(***************************************************************************)
(* What holds of the UDP sessions for every number of sessions, channel    *)
(* size and set of destinations.                                           *)
(*                                                                         *)
(* The argument rests on who may know of a connection: while it is being   *)
(* made only its session, which waits for it; while its task runs, the     *)
(* session's entry; and a session that ends takes its entries with it.     *)
(***************************************************************************)
EXTENDS UdpSessions, TLAPS

-----------------------------------------------------------------------------
(* The caches: keys and values *)

\* Removing keys from a cache removes these keys and changes no value.
LEMMA WithoutFact ==
  ASSUME NEW c, NEW S
  PROVE  /\ Keys(Without(c, S)) = Keys(c) \ S
         /\ \A j \in Keys(c) \ S : Without(c, S).val[j] = c.val[j]
  BY DEF Without, Keys

\* Storing a pair adds its key, sets its value, and changes no other value.
LEMMA StoreFact ==
  ASSUME NEW c, NEW k, NEW v
  PROVE  /\ Keys(Store(c, k, v)) = Keys(c) \cup {k}
         /\ Store(c, k, v).val[k] = v
         /\ \A j \in Keys(c) \ {k} : Store(c, k, v).val[j] = c.val[j]
<1> DEFINE rest == Without(c, {k})
<1>1. /\ Keys(rest) = Keys(c) \ {k}
      /\ \A j \in Keys(c) \ {k} : rest.val[j] = c.val[j]
  BY WithoutFact
<1>2. Store(c, k, v).val
        = [j \in Keys(rest) \cup {k} |-> IF j = k THEN v ELSE rest.val[j]]
  BY DEF Store
<1> HIDE DEF rest
<1> QED
  BY <1>1, <1>2 DEF Keys

\* A use of a key changes neither the keys nor the values.
LEMMA TouchFact ==
  ASSUME NEW c, NEW k
  PROVE  /\ Keys(Touch(c, k)) = Keys(c)
         /\ \A j \in Keys(c) : Touch(c, k).val[j] = c.val[j]
<1>1. CASE k \in Keys(c)
  <2>1. Touch(c, k) = Store(c, k, c.val[k])
    BY <1>1 DEF Touch
  <2>2. /\ Keys(Store(c, k, c.val[k])) = Keys(c) \cup {k}
        /\ Store(c, k, c.val[k]).val[k] = c.val[k]
        /\ \A j \in Keys(c) \ {k} : Store(c, k, c.val[k]).val[j] = c.val[j]
    BY StoreFact
  <2> QED
    BY <1>1, <2>1, <2>2
<1>2. CASE k \notin Keys(c)
  BY <1>2 DEF Touch
<1> QED
  BY <1>1, <1>2

\* Pushing a pair is storing it in what the eviction leaves.
LEMMA PushFact ==
  ASSUME NEW c, NEW k, NEW v, NEW cap
  PROVE  /\ Keys(Push(c, k, v, cap)) = (Keys(c) \ Evicted(c, k, cap)) \cup {k}
         /\ Push(c, k, v, cap).val[k] = v
         /\ \A j \in Keys(c) \ (Evicted(c, k, cap) \cup {k}) :
              Push(c, k, v, cap).val[j] = c.val[j]
<1> DEFINE left == Without(c, Evicted(c, k, cap))
<1>1. /\ Keys(left) = Keys(c) \ Evicted(c, k, cap)
      /\ \A j \in Keys(c) \ Evicted(c, k, cap) : left.val[j] = c.val[j]
  BY WithoutFact
<1>2. Push(c, k, v, cap) = Store(left, k, v)
  BY DEF Push
<1> HIDE DEF left
<1>3. /\ Keys(Store(left, k, v)) = Keys(left) \cup {k}
      /\ Store(left, k, v).val[k] = v
      /\ \A j \in Keys(left) \ {k} : Store(left, k, v).val[j] = left.val[j]
  BY StoreFact
<1> QED
  BY <1>1, <1>2, <1>3

-----------------------------------------------------------------------------
(* The inductive invariant *)

\* The channels of the sessions close with the manager.
LetGoWithManager == manager # "running" => Keys(sessions) = {}

\* A connection with an entry has a session that lives; one that is being made
\* has none, and is active; one that runs has, unless its session has ended.
Known(c) ==
  /\ conn[c].listed => conn[c].at # "registered" /\ task[conn[c].owner].at # "ended"
  /\ conn[c].at = "running" => conn[c].listed \/ task[conn[c].owner].at = "ended"
  /\ conn[c].at = "registered" =>
       task[conn[c].owner].at \in {"connect", "ended"} /\ c \in active

EntriesKnown == \A c \in Conns : Known(c)

\* A session makes one connection at a time.
OneRegistered ==
  \A c, e \in Conns :
    conn[c].at = "registered" /\ conn[e].at = "registered" /\ conn[c].owner = conn[e].owner
    => c = e

Bookkeeping == EntriesKnown /\ OneRegistered /\ OneWriter /\ ActiveExplained

IInv == UdpTypeOK /\ LetGoWithManager /\ HeldSessionsLive /\ Bookkeeping

-----------------------------------------------------------------------------
(* What the assignments do *)

\* A session task that goes on changes its place and its channel only.
LEMMA GoesFact ==
  ASSUME task \in Seq(SessionTask), NEW t \in Tasks,
         NEW at \in {"recv", "dns", "connect", "ended"}, NEW queue \in Seq(Dest)
  PROVE  /\ Goes(t, at, queue) \in Seq(SessionTask)
         /\ DOMAIN Goes(t, at, queue) = Tasks
         /\ Goes(t, at, queue)[t] = [app |-> task[t].app, at |-> at, queue |-> queue,
                                     aborted |-> task[t].aborted]
         /\ \A u \in Tasks : u # t => Goes(t, at, queue)[u] = task[u]
<1> DEFINE r == [app |-> task[t].app, at |-> at, queue |-> queue, aborted |-> task[t].aborted]
<1>1. task[t] \in SessionTask
  BY DEF Tasks
<1>2. r \in SessionTask
  BY <1>1 DEF SessionTask
<1>3. Goes(t, at, queue) = [task EXCEPT ![t] = r]
  BY DEF Goes
<1> HIDE DEF r
<1>4. [task EXCEPT ![t] = r] \in Seq(SessionTask)
  BY <1>2 DEF Tasks
<1> QED
  BY <1>3, <1>4 DEF r, Tasks

\* A connection that goes on keeps its session and its destination.
LEMMA BecomesFact ==
  ASSUME conn \in Seq(Connection), NEW c \in Conns,
         NEW at \in {"registered", "running", "exiting", "closed", "gone"},
         NEW listed \in BOOLEAN
  PROVE  /\ Becomes(c, at, listed) \in Seq(Connection)
         /\ DOMAIN Becomes(c, at, listed) = Conns
         /\ Becomes(c, at, listed)[c] = [owner |-> conn[c].owner, dest |-> conn[c].dest,
                                         at |-> at, listed |-> listed]
         /\ \A e \in Conns : e # c => Becomes(c, at, listed)[e] = conn[e]
<1> DEFINE r == [owner |-> conn[c].owner, dest |-> conn[c].dest, at |-> at, listed |-> listed]
<1>1. conn[c] \in Connection
  BY DEF Conns
<1>2. r \in Connection
  BY <1>1 DEF Connection
<1>3. Becomes(c, at, listed) = [conn EXCEPT ![c] = r]
  BY DEF Becomes
<1> HIDE DEF r
<1>4. [conn EXCEPT ![c] = r] \in Seq(Connection)
  BY <1>2 DEF Conns
<1> QED
  BY <1>3, <1>4 DEF r, Conns

\* Dropping entries changes nothing but that they are gone.
LEMMA UnlistedFact ==
  ASSUME conn \in Seq(Connection), NEW C
  PROVE  /\ Unlisted(C) \in Seq(Connection)
         /\ DOMAIN Unlisted(C) = Conns
         /\ Len(Unlisted(C)) = Len(conn)
         /\ \A c \in Conns :
              Unlisted(C)[c] = [owner |-> conn[c].owner, dest |-> conn[c].dest,
                                at |-> conn[c].at, listed |-> conn[c].listed /\ c \notin C]
<1> DEFINE r(c) == [owner |-> conn[c].owner, dest |-> conn[c].dest,
                    at |-> conn[c].at, listed |-> conn[c].listed /\ c \notin C]
<1>1. ASSUME NEW c \in Conns
      PROVE  r(c) \in Connection
  <2>1. conn[c] \in Connection
    BY DEF Conns
  <2> QED
    BY <2>1 DEF Connection
<1>2. Unlisted(C) = [c \in Conns |-> r(c)]
  BY DEF Unlisted
<1>3. Conns = 1 .. Len(conn) /\ Len(conn) \in Nat
  BY DEF Conns
<1> HIDE DEF r
<1>4. Unlisted(C) \in Seq(Connection) /\ DOMAIN Unlisted(C) = Conns /\ Len(Unlisted(C)) = Len(conn)
  BY <1>1, <1>2, <1>3
<1> QED
  BY <1>2, <1>4 DEF r

\* A step of one session task keeps the types of all of them.
LEMMA TaskTypes ==
  ASSUME UdpTypeOK, NEW t \in Tasks,
         NEW at \in {"recv", "dns", "connect", "ended"}, NEW queue \in Seq(Dest),
         Len(queue) <= ChannelSize, task' = Goes(t, at, queue)
  PROVE  /\ task' \in Seq(SessionTask)
         /\ Tasks' = Tasks
         /\ \A u \in Tasks : Len(task'[u].queue) <= ChannelSize
<1>1. task \in Seq(SessionTask) /\ \A u \in Tasks : Len(task[u].queue) <= ChannelSize
  BY DEF UdpTypeOK
<1>2. /\ task' \in Seq(SessionTask)
      /\ DOMAIN task' = Tasks
      /\ task'[t] = [app |-> task[t].app, at |-> at, queue |-> queue,
                     aborted |-> task[t].aborted]
      /\ \A u \in Tasks : u # t => task'[u] = task[u]
  BY <1>1, GoesFact
<1> QED
  BY <1>1, <1>2 DEF Tasks

\* What is left of a channel, and what is in it after try_send, fits.
LEMMA QueueTypes ==
  ASSUME UdpTypeOK, NEW t \in Tasks
  PROVE  /\ task[t].queue \in Seq(Dest)
         /\ Len(task[t].queue) <= ChannelSize
         /\ task[t].at \in {"recv", "dns", "connect", "ended"}
         /\ task[t].queue # <<>> =>
              Tail(task[t].queue) \in Seq(Dest) /\ Len(Tail(task[t].queue)) <= ChannelSize
         /\ \A d \in Dest :
              /\ Offered(task[t].queue, d) \in Seq(Dest)
              /\ Len(Offered(task[t].queue, d)) <= ChannelSize
<1>1. /\ task[t] \in SessionTask
      /\ Len(task[t].queue) <= ChannelSize
      /\ ChannelSize \in Nat
  BY SessionsAssumption DEF UdpTypeOK, Tasks
<1> DEFINE q == task[t].queue
<1>2. q \in Seq(Dest) /\ task[t].at \in {"recv", "dns", "connect", "ended"}
  BY <1>1 DEF SessionTask
<1>3. Len(q) <= ChannelSize
  BY <1>1
<1> HIDE DEF q
<1>4. q # <<>> => Tail(q) \in Seq(Dest) /\ Len(Tail(q)) <= ChannelSize
  BY <1>1, <1>2, <1>3
<1>5. ASSUME NEW d \in Dest
      PROVE  Offered(q, d) \in Seq(Dest) /\ Len(Offered(q, d)) <= ChannelSize
  BY <1>1, <1>2, <1>3 DEF Offered
<1> QED
  BY <1>2, <1>3, <1>4, <1>5 DEF q

\* Steps that leave the manager, the sessions and the number of packets alone
\* keep the types when the tasks and the connections keep theirs.
LEMMA SameManagerTypes ==
  ASSUME UdpTypeOK, UNCHANGED <<manager, sessions, idle, packets>>,
         task' \in Seq(SessionTask), Tasks' = Tasks,
         \A t \in Tasks : Len(task'[t].queue) <= ChannelSize,
         conn' \in Seq(Connection), Conns \subseteq Conns',
         \A c \in Conns' : conn'[c].owner \in Tasks,
         active' \subseteq Conns'
  PROVE  UdpTypeOK'
  BY DEF UdpTypeOK, Keys

\* A step of one connection keeps the types of all of them.
LEMMA ConnTypes ==
  ASSUME UdpTypeOK, NEW c \in Conns,
         NEW at \in {"registered", "running", "exiting", "closed", "gone"},
         NEW listed \in BOOLEAN, conn' = Becomes(c, at, listed)
  PROVE  /\ conn' \in Seq(Connection)
         /\ Conns' = Conns
         /\ \A e \in Conns : conn'[e].owner \in Tasks
<1>1. conn \in Seq(Connection) /\ \A e \in Conns : conn[e].owner \in Tasks
  BY DEF UdpTypeOK
<1>2. /\ conn' \in Seq(Connection)
      /\ DOMAIN conn' = Conns
      /\ conn'[c] = [owner |-> conn[c].owner, dest |-> conn[c].dest, at |-> at,
                     listed |-> listed]
      /\ \A e \in Conns : e # c => conn'[e] = conn[e]
  BY <1>1, BecomesFact
<1>3. conn'[c].owner = conn[c].owner
  BY <1>2
<1> QED
  BY <1>1, <1>2, <1>3 DEF Conns

\* Dropping entries keeps the types of the connections.
LEMMA UnlistedTypes ==
  ASSUME UdpTypeOK, NEW C, conn' = Unlisted(C)
  PROVE  /\ conn' \in Seq(Connection)
         /\ Conns' = Conns
         /\ \A e \in Conns : conn'[e].owner \in Tasks
<1>1. conn \in Seq(Connection) /\ \A e \in Conns : conn[e].owner \in Tasks
  BY DEF UdpTypeOK
<1>2. /\ conn' \in Seq(Connection)
      /\ DOMAIN conn' = Conns
      /\ \A e \in Conns :
           conn'[e] = [owner |-> conn[e].owner, dest |-> conn[e].dest, at |-> conn[e].at,
                       listed |-> conn[e].listed /\ e \notin C]
  BY <1>1, UnlistedFact
<1>3. \A e \in Conns : conn'[e].owner = conn[e].owner
  BY <1>2
<1> QED
  BY <1>1, <1>2, <1>3 DEF Conns

\* Registering a connection adds it behind the others.
LEMMA RegisterFact ==
  ASSUME conn \in Seq(Connection), NEW C, NEW t \in Tasks, Tasks \subseteq Nat,
         NEW d \in Direct \cup Named,
         conn' = Append(Unlisted(C), Registered(t, d))
  PROVE  /\ conn' \in Seq(Connection)
         /\ Conns' = Conns \cup {Len(conn) + 1}
         /\ Len(conn) + 1 \notin Conns
         /\ conn'[Len(conn) + 1] = Registered(t, d)
         /\ \A c \in Conns :
              conn'[c] = [owner |-> conn[c].owner, dest |-> conn[c].dest,
                          at |-> conn[c].at, listed |-> conn[c].listed /\ c \notin C]
<1> DEFINE u == Unlisted(C)
           r == Registered(t, d)
<1>1. r \in Connection
  BY DEF Registered, Connection
<1>2. /\ u \in Seq(Connection)
      /\ DOMAIN u = Conns
      /\ Len(u) = Len(conn)
      /\ \A c \in Conns :
           u[c] = [owner |-> conn[c].owner, dest |-> conn[c].dest,
                   at |-> conn[c].at, listed |-> conn[c].listed /\ c \notin C]
  BY UnlistedFact
<1>3. conn' = Append(u, r)
  OBVIOUS
<1> HIDE DEF u, r
<1>4. /\ conn' \in Seq(Connection)
      /\ DOMAIN conn' = DOMAIN u \cup {Len(u) + 1}
      /\ Len(u) + 1 \notin DOMAIN u
      /\ conn'[Len(u) + 1] = r
      /\ \A c \in DOMAIN u : conn'[c] = u[c]
  BY <1>1, <1>2, <1>3
<1> QED
  BY <1>2, <1>4 DEF r, Conns

\* A new session's task comes behind the others.
LEMMA SpawnFact ==
  ASSUME task \in Seq(SessionTask), NEW a \in App, NEW d \in Dest,
         task' = Append(task, [app |-> a, at |-> "recv", queue |-> <<d>>, aborted |-> FALSE])
  PROVE  /\ task' \in Seq(SessionTask)
         /\ Tasks' = Tasks \cup {Len(task) + 1}
         /\ Len(task) + 1 \notin Tasks
         /\ task'[Len(task) + 1] =
              [app |-> a, at |-> "recv", queue |-> <<d>>, aborted |-> FALSE]
         /\ \A t \in Tasks : task'[t] = task[t]
<1> DEFINE r == [app |-> a, at |-> "recv", queue |-> <<d>>, aborted |-> FALSE]
<1>1. r \in SessionTask
  BY DEF SessionTask
<1> HIDE DEF r
<1>2. task' = Append(task, r)
  BY DEF r
<1>3. /\ task' \in Seq(SessionTask)
      /\ DOMAIN task' = DOMAIN task \cup {Len(task) + 1}
      /\ Len(task) + 1 \notin DOMAIN task
      /\ task'[Len(task) + 1] = r
      /\ \A t \in DOMAIN task : task'[t] = task[t]
  BY <1>1, <1>2
<1> QED
  BY <1>3 DEF r, Tasks

\* Aborting tasks changes nothing but that they are aborted.
LEMMA AbortedFact ==
  ASSUME task \in Seq(SessionTask), NEW S
  PROVE  /\ Aborted(S) \in Seq(SessionTask)
         /\ DOMAIN Aborted(S) = Tasks
         /\ \A t \in Tasks :
              Aborted(S)[t] =
                [app |-> task[t].app, at |-> task[t].at, queue |-> task[t].queue,
                 aborted |-> task[t].aborted \/ \E a \in S : sessions.val[a] = t]
<1> DEFINE r(t) == [app |-> task[t].app, at |-> task[t].at, queue |-> task[t].queue,
                    aborted |-> task[t].aborted \/ \E a \in S : sessions.val[a] = t]
<1>1. ASSUME NEW t \in Tasks
      PROVE  r(t) \in SessionTask
  <2>1. task[t] \in SessionTask
    BY DEF Tasks
  <2> QED
    BY <2>1 DEF SessionTask
<1>2. Aborted(S) = [t \in Tasks |-> r(t)]
  BY DEF Aborted
<1>3. Tasks = 1 .. Len(task) /\ Len(task) \in Nat
  BY DEF Tasks
<1> HIDE DEF r
<1>4. Aborted(S) \in Seq(SessionTask) /\ DOMAIN Aborted(S) = Tasks
  BY <1>1, <1>2, <1>3
<1> QED
  BY <1>2, <1>4 DEF r

\* The fields of the tasks when some are aborted.
LEMMA AbortedFields ==
  ASSUME task \in Seq(SessionTask), NEW S, task' = Aborted(S)
  PROVE  \A t \in Tasks : /\ task'[t].app = task[t].app
                          /\ task'[t].at = task[t].at
                          /\ task'[t].queue = task[t].queue
                          /\ task'[t].aborted <=>
                               task[t].aborted \/ \E a \in S : sessions.val[a] = t
<1>1. SUFFICES ASSUME NEW t \in Tasks
               PROVE  /\ task'[t].app = task[t].app
                      /\ task'[t].at = task[t].at
                      /\ task'[t].queue = task[t].queue
                      /\ task'[t].aborted <=>
                           task[t].aborted \/ \E a \in S : sessions.val[a] = t
  OBVIOUS
<1> DEFINE b == task[t].aborted \/ \E a \in S : sessions.val[a] = t
<1>2. task'[t] = [app |-> task[t].app, at |-> task[t].at, queue |-> task[t].queue,
                  aborted |-> b]
  BY AbortedFact
<1> HIDE DEF b
<1>3. /\ task'[t].app = task[t].app
      /\ task'[t].at = task[t].at
      /\ task'[t].queue = task[t].queue
      /\ task'[t].aborted = b
  BY <1>2
<1> QED
  BY <1>3 DEF b

-----------------------------------------------------------------------------
(* Every step keeps the types *)

\* The steps of the manager.
LEMMA ManagerTypes ==
  ASSUME UdpTypeOK
  PROVE  /\ \A a \in App, d \in Dest : PacketHeld(a, d) \/ PacketNew(a, d) => UdpTypeOK'
         /\ \A a \in App : Quiet(a) => UdpTypeOK'
         /\ CleanupSessions \/ ManagerDropped \/ RuntimeDropped => UdpTypeOK'
<1> USE SessionsAssumption
<1>1. ASSUME NEW a \in App, NEW d \in Dest, PacketHeld(a, d)
      PROVE  UdpTypeOK'
  <2> DEFINE t == sessions.val[a]
  <2>1. /\ a \in Keys(sessions)
        /\ sessions' = Touch(sessions, a)
        /\ idle' = idle \ {a}
        /\ task' = Goes(t, task[t].at, Offered(task[t].queue, d))
        /\ packets' = packets + 1 /\ packets < MaxPackets
        /\ UNCHANGED <<manager, conn, active>>
    BY <1>1 DEF PacketHeld, Alive
  <2>2. t \in Tasks
    BY <2>1 DEF UdpTypeOK
  <2> HIDE DEF t
  <2>3. /\ task[t].at \in {"recv", "dns", "connect", "ended"}
        /\ Offered(task[t].queue, d) \in Seq(Dest)
        /\ Len(Offered(task[t].queue, d)) <= ChannelSize
    BY <2>2, QueueTypes
  <2>4. /\ task' \in Seq(SessionTask)
        /\ Tasks' = Tasks
        /\ \A u \in Tasks : Len(task'[u].queue) <= ChannelSize
    BY <2>1, <2>2, <2>3, TaskTypes
  <2>5. /\ Keys(sessions') = Keys(sessions)
        /\ \A b \in Keys(sessions) : sessions'.val[b] = sessions.val[b]
    BY <2>1, TouchFact
  <2> QED
    BY <2>1, <2>4, <2>5 DEF UdpTypeOK, Conns
<1>2. ASSUME NEW a \in App, NEW d \in Dest, PacketNew(a, d)
      PROVE  UdpTypeOK'
  <2> DEFINE left == Without(sessions, {a})
             n == Len(task) + 1
  <2>1. /\ sessions' = Push(left, a, n, MaxSessions)
        /\ idle' = (idle \cap Keys(sessions')) \ {a}
        /\ task' = Append(task, [app |-> a, at |-> "recv", queue |-> <<d>>, aborted |-> FALSE])
        /\ packets' = packets + 1 /\ packets < MaxPackets
        /\ UNCHANGED <<manager, conn, active>>
    BY <1>2 DEF PacketNew
  <2>2. /\ Keys(left) = Keys(sessions) \ {a}
        /\ \A b \in Keys(sessions) \ {a} : left.val[b] = sessions.val[b]
    BY WithoutFact
  <2>3. /\ task' \in Seq(SessionTask)
        /\ Tasks' = Tasks \cup {n}
        /\ task'[n] = [app |-> a, at |-> "recv", queue |-> <<d>>, aborted |-> FALSE]
        /\ \A t \in Tasks : task'[t] = task[t]
    BY <2>1, SpawnFact DEF UdpTypeOK
  <2> HIDE DEF left, n
  <2>4. /\ Keys(sessions') = (Keys(left) \ Evicted(left, a, MaxSessions)) \cup {a}
        /\ sessions'.val[a] = n
        /\ \A b \in Keys(left) \ (Evicted(left, a, MaxSessions) \cup {a}) :
             sessions'.val[b] = left.val[b]
    BY <2>1, PushFact
  <2>5. Keys(sessions') \subseteq Keys(sessions) \cup {a}
    BY <2>2, <2>4
  <2>6. \A b \in Keys(sessions') : sessions'.val[b] \in Tasks'
    BY <2>2, <2>3, <2>4 DEF UdpTypeOK
  <2>7. \A t \in Tasks' : Len(task'[t].queue) <= ChannelSize
    <3>1. task'[n].queue = <<d>> /\ Len(<<d>>) = 1 /\ 1 <= ChannelSize
      BY <2>3
    <3>2. \A t \in Tasks : Len(task'[t].queue) <= ChannelSize
      BY <2>3 DEF UdpTypeOK
    <3> QED
      BY <2>3, <3>1, <3>2
  <2>8. idle' \subseteq Keys(sessions') /\ Keys(sessions') \subseteq App
    BY <2>1, <2>5 DEF UdpTypeOK
  <2>9. packets' \in 0 .. MaxPackets
    BY <2>1 DEF UdpTypeOK
  <2>10. /\ manager' \in {"running", "dropped", "down"}
         /\ conn' \in Seq(Connection)
         /\ active' \subseteq Conns'
         /\ \A c \in Conns' : conn'[c].owner \in Tasks'
    BY <2>1, <2>3 DEF UdpTypeOK, Conns
  <2> QED
    BY <2>3, <2>6, <2>7, <2>8, <2>9, <2>10 DEF UdpTypeOK
<1>3. ASSUME NEW a \in App, Quiet(a)
      PROVE  UdpTypeOK'
  BY <1>3 DEF Quiet, UdpTypeOK, Tasks, Conns
<1>4. ASSUME CleanupSessions
      PROVE  UdpTypeOK'
  <2>1. /\ sessions' = Without(sessions, Expired)
        /\ idle' = idle \ Expired
        /\ task' = Aborted(Expired)
        /\ UNCHANGED <<manager, conn, active, packets>>
    BY <1>4 DEF CleanupSessions
  <2>2. /\ Keys(sessions') = Keys(sessions) \ Expired
        /\ \A b \in Keys(sessions) \ Expired : sessions'.val[b] = sessions.val[b]
    BY <2>1, WithoutFact
  <2>3. task' \in Seq(SessionTask) /\ DOMAIN task' = Tasks
    BY <2>1, AbortedFact DEF UdpTypeOK
  <2>4. Tasks' = Tasks /\ \A t \in Tasks : task'[t].queue = task[t].queue
    BY <2>1, <2>3, AbortedFields DEF UdpTypeOK, Tasks
  <2> QED
    BY <2>1, <2>2, <2>3, <2>4 DEF UdpTypeOK, Conns
<1>5. ASSUME ManagerDropped
      PROVE  UdpTypeOK'
  <2>1. Keys(sessions') = {}
    BY <1>5 DEF ManagerDropped, EmptyLru, Keys
  <2> QED
    BY <1>5, <2>1 DEF ManagerDropped, UdpTypeOK, Tasks, Conns
<1>6. ASSUME RuntimeDropped
      PROVE  UdpTypeOK'
  BY <1>6 DEF RuntimeDropped, UdpTypeOK, Tasks, Conns
<1> QED
  BY <1>1, <1>2, <1>3, <1>4, <1>5, <1>6

\* The steps of a session task.
LEMMA SessionTypes ==
  ASSUME UdpTypeOK, NEW t \in Tasks,
         \/ SessionRuns(t)
         \/ Connected(t) \/ ConnectFails(t) \/ Retain(t) \/ Cancelled(t)
  PROVE  UdpTypeOK'
<1>0. /\ task \in Seq(SessionTask) /\ conn \in Seq(Connection) /\ Tasks \subseteq Nat
      /\ \A c \in Conns : conn[c].owner \in Tasks
      /\ \A u \in Tasks : Len(task[u].queue) <= ChannelSize
      /\ active \subseteq Conns
  BY DEF UdpTypeOK, Tasks
<1>1. /\ task[t].queue \in Seq(Dest) /\ Len(task[t].queue) <= ChannelSize
      /\ task[t].queue # <<>> =>
           Tail(task[t].queue) \in Seq(Dest) /\ Len(Tail(task[t].queue)) <= ChannelSize
  BY QueueTypes
<1>2. ASSUME NEW at \in {"recv", "dns", "connect"}, task[t].queue # <<>>, task' = Took(t, at)
      PROVE  /\ task' \in Seq(SessionTask)
             /\ Tasks' = Tasks
             /\ \A u \in Tasks : Len(task'[u].queue) <= ChannelSize
  BY <1>1, <1>2, TaskTypes DEF Took
<1>3. ASSUME task' = Goes(t, "recv", task[t].queue)
      PROVE  /\ task' \in Seq(SessionTask)
             /\ Tasks' = Tasks
             /\ \A u \in Tasks : Len(task'[u].queue) <= ChannelSize
  BY <1>1, <1>3, TaskTypes
<1>4. CASE TakeAside(t)
  <2>1. /\ task[t].queue # <<>>
        /\ \E at \in {"recv", "dns"} : task' = Took(t, at)
        /\ UNCHANGED <<manager, sessions, idle, conn, active, packets>>
    BY <1>4 DEF TakeAside, AtRecv
  <2>2. /\ task' \in Seq(SessionTask)
        /\ Tasks' = Tasks
        /\ \A u \in Tasks : Len(task'[u].queue) <= ChannelSize
    BY <1>2, <2>1
  <2> QED
    BY <1>0, <2>1, <2>2, SameManagerTypes DEF Conns
<1>5. CASE QueryAnswered(t)
  <2>1. /\ task' = Goes(t, "recv", task[t].queue)
        /\ UNCHANGED <<manager, sessions, idle, conn, active, packets>>
    BY <1>5 DEF QueryAnswered
  <2> QED
    BY <1>0, <1>3, <2>1, SameManagerTypes DEF Conns
<1>6. CASE Forward(t)
  <2>1. /\ task[t].queue # <<>>
        /\ task' = Took(t, "recv")
        /\ UNCHANGED <<manager, sessions, idle, packets>>
    BY <1>6 DEF Forward, AtRecv
  <2>2. /\ task' \in Seq(SessionTask)
        /\ Tasks' = Tasks
        /\ \A u \in Tasks : Len(task'[u].queue) <= ChannelSize
    BY <1>2, <2>1
  <2>3. PICK c \in Conns : \/ UNCHANGED <<conn, active>>
                           \/ conn' = Unlisted({c}) /\ active' = active \ {c}
    BY <1>6 DEF Forward, Entry
  <2>4. CASE UNCHANGED <<conn, active>>
    BY <1>0, <2>1, <2>2, <2>4, SameManagerTypes DEF Conns
  <2>5. CASE conn' = Unlisted({c}) /\ active' = active \ {c}
    <3>1. /\ conn' \in Seq(Connection)
          /\ Conns' = Conns
          /\ \A e \in Conns : conn'[e].owner \in Tasks
      BY <2>5, UnlistedTypes
    <3> QED
      BY <1>0, <2>1, <2>2, <2>5, <3>1, SameManagerTypes
  <2> QED
    BY <2>3, <2>4, <2>5
<1>7. CASE Connect(t)
  <2> DEFINE d == Head(task[t].queue)
  <2>1. /\ task[t].queue # <<>>
        /\ d \in Direct \cup Named
        /\ conn' = Append(Unlisted(Entry(t, d)), Registered(t, d))
        /\ active' = (active \ Entry(t, d)) \cup {Len(conn) + 1}
        /\ task' = Took(t, "connect")
        /\ UNCHANGED <<manager, sessions, idle, packets>>
    BY <1>7 DEF Connect, AtRecv
  <2> HIDE DEF d
  <2>2. /\ task' \in Seq(SessionTask)
        /\ Tasks' = Tasks
        /\ \A u \in Tasks : Len(task'[u].queue) <= ChannelSize
    BY <1>2, <2>1
  <2>3. /\ conn' \in Seq(Connection)
        /\ Conns' = Conns \cup {Len(conn) + 1}
        /\ conn'[Len(conn) + 1] = Registered(t, d)
        /\ \A c \in Conns :
              conn'[c] = [owner |-> conn[c].owner, dest |-> conn[c].dest,
                          at |-> conn[c].at, listed |-> conn[c].listed /\ c \notin Entry(t, d)]
    BY <1>0, <2>1, RegisterFact
  <2>4. \A c \in Conns' : conn'[c].owner \in Tasks
    <3>1. conn'[Len(conn) + 1].owner = t
      BY <2>3 DEF Registered
    <3>2. ASSUME NEW c \in Conns
          PROVE  conn'[c].owner = conn[c].owner
      <4>1. conn'[c] = [owner |-> conn[c].owner, dest |-> conn[c].dest,
                        at |-> conn[c].at,
                        listed |-> conn[c].listed /\ c \notin Entry(t, d)]
        BY <2>3
      <4> QED
        BY <4>1
    <3> QED
      BY <1>0, <2>3, <3>1, <3>2
  <2> QED
    BY <1>0, <2>1, <2>2, <2>3, <2>4, SameManagerTypes
<1>8. CASE Connected(t)
  <2>1. /\ task' = Goes(t, "recv", task[t].queue)
        /\ UNCHANGED <<manager, sessions, idle, active, packets>>
    BY <1>8 DEF Connected
  <2>2. PICK c \in Conns : conn' = Becomes(c, "running", TRUE)
    BY <1>8 DEF Connected, Pending
  <2>3. /\ conn' \in Seq(Connection)
        /\ Conns' = Conns
        /\ \A e \in Conns : conn'[e].owner \in Tasks
    BY <2>2, ConnTypes
  <2> QED
    BY <1>0, <1>3, <2>1, <2>3, SameManagerTypes
<1>9. CASE ConnectFails(t)
  <2>1. /\ task' = Goes(t, "recv", task[t].queue)
        /\ UNCHANGED <<manager, sessions, idle, packets>>
    BY <1>9 DEF ConnectFails
  <2>2. PICK c \in Conns : conn' = Becomes(c, "gone", FALSE) /\ active' = active \ {c}
    BY <1>9 DEF ConnectFails, Pending
  <2>3. /\ conn' \in Seq(Connection)
        /\ Conns' = Conns
        /\ \A e \in Conns : conn'[e].owner \in Tasks
    BY <2>2, ConnTypes
  <2> QED
    BY <1>0, <1>3, <2>1, <2>2, <2>3, SameManagerTypes
<1>10. CASE Retain(t)
  <2>1. /\ conn' = Unlisted(Finished(Entries(t)))
        /\ active' = active \ Finished(Entries(t))
        /\ UNCHANGED <<manager, sessions, idle, task, packets>>
    BY <1>10 DEF Retain
  <2>2. /\ conn' \in Seq(Connection)
        /\ Conns' = Conns
        /\ \A e \in Conns : conn'[e].owner \in Tasks
    BY <2>1, UnlistedTypes
  <2> QED
    BY <1>0, <2>1, <2>2, SameManagerTypes DEF Tasks
<1>11. CASE Ends(t)
  <2>1. /\ task' = Goes(t, "ended", <<>>)
        /\ conn' = Unlisted(Entries(t))
        /\ active' = active \ Entries(t)
        /\ UNCHANGED <<manager, sessions, idle, packets>>
    BY <1>11 DEF Ends
  <2>2. <<>> \in Seq(Dest) /\ Len(<<>>) <= ChannelSize
    BY SessionsAssumption
  <2>3. /\ task' \in Seq(SessionTask)
        /\ Tasks' = Tasks
        /\ \A u \in Tasks : Len(task'[u].queue) <= ChannelSize
    BY <2>1, <2>2, TaskTypes
  <2>4. /\ conn' \in Seq(Connection)
        /\ Conns' = Conns
        /\ \A e \in Conns : conn'[e].owner \in Tasks
    BY <2>1, UnlistedTypes
  <2> QED
    BY <1>0, <2>1, <2>3, <2>4, SameManagerTypes
<1> QED
  BY <1>4, <1>5, <1>6, <1>7, <1>8, <1>9, <1>10, <1>11
  DEF SessionRuns, ChannelClosed, Cancelled

\* The steps of a destination task.
LEMMA DestinationTypes ==
  ASSUME UdpTypeOK, NEW c \in Conns,
         DestinationExits(c) \/ DestinationEnds(c) \/ DestinationCancelled(c)
  PROVE  UdpTypeOK'
<1>1. PICK at \in {"exiting", "closed", "gone"} : conn' = Becomes(c, at, conn[c].listed)
  BY DEF DestinationExits, DestinationEnds, DestinationCancelled
<1>2. active' \subseteq active /\ UNCHANGED <<manager, sessions, idle, task, packets>>
  BY DEF DestinationExits, DestinationEnds, DestinationCancelled
<1>3. conn[c] \in Connection
  BY DEF UdpTypeOK, Conns
<1>4. conn[c].listed \in BOOLEAN
  BY <1>3 DEF Connection
<1>5. /\ conn' \in Seq(Connection)
      /\ Conns' = Conns
      /\ \A e \in Conns : conn'[e].owner \in Tasks
  BY <1>1, <1>4, ConnTypes
<1> QED
  BY <1>2, <1>5, SameManagerTypes DEF UdpTypeOK, Tasks

-----------------------------------------------------------------------------
(* A session that is held lives *)

\* The steps of the manager: what it aborts it lets go of, and a new session
\* works for the address it is held for.
LEMMA ManagerHolds ==
  ASSUME UdpTypeOK, LetGoWithManager, HeldSessionsLive
  PROVE  /\ \A a \in App, d \in Dest :
              PacketHeld(a, d) \/ PacketNew(a, d) => (LetGoWithManager /\ HeldSessionsLive)'
         /\ \A a \in App : Quiet(a) => (LetGoWithManager /\ HeldSessionsLive)'
         /\ CleanupSessions \/ ManagerDropped \/ RuntimeDropped
              => (LetGoWithManager /\ HeldSessionsLive)'
<1>0. /\ task \in Seq(SessionTask)
      /\ \A a \in Keys(sessions) :
           /\ sessions.val[a] \in Tasks
           /\ task[sessions.val[a]].app = a
           /\ ~task[sessions.val[a]].aborted
           /\ task[sessions.val[a]].at # "ended"
  BY DEF UdpTypeOK, HeldSessionsLive
<1>a. ASSUME \A a \in Keys(sessions)' :
               /\ task'[sessions'.val[a]].app = a
               /\ ~task'[sessions'.val[a]].aborted
               /\ task'[sessions'.val[a]].at # "ended"
      PROVE  HeldSessionsLive'
  BY <1>a DEF HeldSessionsLive, Keys
<1>1. ASSUME NEW a \in App, NEW d \in Dest, PacketHeld(a, d)
      PROVE  (LetGoWithManager /\ HeldSessionsLive)'
  <2> DEFINE t == sessions.val[a]
  <2>1. /\ a \in Keys(sessions)
        /\ sessions' = Touch(sessions, a)
        /\ task' = Goes(t, task[t].at, Offered(task[t].queue, d))
        /\ manager = "running" /\ manager' = manager
    BY <1>1 DEF PacketHeld, Alive
  <2>2. t \in Tasks
    BY <1>0, <2>1
  <2> HIDE DEF t
  <2>3. /\ task[t].at \in {"recv", "dns", "connect", "ended"}
        /\ Offered(task[t].queue, d) \in Seq(Dest)
    BY <2>2, QueueTypes
  <2>4. /\ task'[t] = [app |-> task[t].app, at |-> task[t].at,
                       queue |-> Offered(task[t].queue, d), aborted |-> task[t].aborted]
        /\ \A u \in Tasks : u # t => task'[u] = task[u]
    BY <1>0, <2>1, <2>2, <2>3, GoesFact
  <2>5. \A u \in Tasks : /\ task'[u].app = task[u].app
                         /\ task'[u].at = task[u].at
                         /\ task'[u].aborted = task[u].aborted
    BY <2>4
  <2>6. /\ Keys(sessions') = Keys(sessions)
        /\ \A b \in Keys(sessions) : sessions'.val[b] = sessions.val[b]
    BY <2>1, TouchFact
  <2> QED
    BY <1>0, <1>a, <2>1, <2>5, <2>6 DEF LetGoWithManager
<1>2. ASSUME NEW a \in App, NEW d \in Dest, PacketNew(a, d)
      PROVE  (LetGoWithManager /\ HeldSessionsLive)'
  <2> DEFINE left == Without(sessions, {a})
             n == Len(task) + 1
  <2>1. /\ sessions' = Push(left, a, n, MaxSessions)
        /\ task' = Append(task, [app |-> a, at |-> "recv", queue |-> <<d>>, aborted |-> FALSE])
        /\ manager = "running" /\ manager' = manager
    BY <1>2 DEF PacketNew
  <2>2. /\ Keys(left) = Keys(sessions) \ {a}
        /\ \A b \in Keys(sessions) \ {a} : left.val[b] = sessions.val[b]
    BY WithoutFact
  <2>3. /\ task'[n] = [app |-> a, at |-> "recv", queue |-> <<d>>, aborted |-> FALSE]
        /\ \A t \in Tasks : task'[t] = task[t]
    BY <1>0, <2>1, SpawnFact
  <2> HIDE DEF left, n
  <2>4. /\ Keys(sessions') = (Keys(left) \ Evicted(left, a, MaxSessions)) \cup {a}
        /\ sessions'.val[a] = n
        /\ \A b \in Keys(left) \ (Evicted(left, a, MaxSessions) \cup {a}) :
             sessions'.val[b] = left.val[b]
    BY <2>1, PushFact
  <2>5. \A b \in Keys(sessions') \ {a} :
          b \in Keys(sessions) /\ sessions'.val[b] = sessions.val[b]
    BY <2>2, <2>4
  <2>6. task'[n].app = a /\ ~task'[n].aborted /\ task'[n].at # "ended"
    BY <2>3
  <2>7. \A b \in Keys(sessions') \ {a} : task'[sessions'.val[b]] = task[sessions.val[b]]
    BY <1>0, <2>3, <2>5
  <2>8. \A b \in Keys(sessions') : /\ task'[sessions'.val[b]].app = b
                                   /\ ~task'[sessions'.val[b]].aborted
                                   /\ task'[sessions'.val[b]].at # "ended"
    BY <1>0, <2>4, <2>5, <2>6, <2>7
  <2> QED
    BY <1>a, <2>1, <2>8 DEF LetGoWithManager
<1>3. ASSUME NEW a \in App, Quiet(a)
      PROVE  (LetGoWithManager /\ HeldSessionsLive)'
  BY <1>3 DEF Quiet, LetGoWithManager, HeldSessionsLive
<1>4. ASSUME CleanupSessions
      PROVE  (LetGoWithManager /\ HeldSessionsLive)'
  <2>1. /\ sessions' = Without(sessions, Expired)
        /\ task' = Aborted(Expired)
        /\ manager = "running" /\ manager' = manager
    BY <1>4 DEF CleanupSessions
  <2>2. /\ Keys(sessions') = Keys(sessions) \ Expired
        /\ \A b \in Keys(sessions) \ Expired : sessions'.val[b] = sessions.val[b]
    BY <2>1, WithoutFact
  <2>3. \A t \in Tasks : /\ task'[t].app = task[t].app
                         /\ task'[t].at = task[t].at
                         /\ task'[t].aborted <=>
                              task[t].aborted \/ \E a \in Expired : sessions.val[a] = t
    BY <1>0, <2>1, AbortedFields
  <2>5. ASSUME NEW b \in Keys(sessions')
        PROVE  ~task'[sessions'.val[b]].aborted
    <3>1. b \in Keys(sessions) \ Expired /\ sessions'.val[b] = sessions.val[b]
      BY <2>2
    <3>2. \A a \in Expired : sessions.val[a] # sessions.val[b]
      BY <1>0, <3>1 DEF Expired
    <3> QED
      BY <1>0, <2>3, <3>1, <3>2
  <2> QED
    BY <1>0, <1>a, <2>1, <2>2, <2>3, <2>5 DEF LetGoWithManager
<1>5. ASSUME ManagerDropped
      PROVE  (LetGoWithManager /\ HeldSessionsLive)'
  <2>1. Keys(sessions') = {}
    BY <1>5 DEF ManagerDropped, EmptyLru, Keys
  <2> QED
    BY <1>a, <2>1 DEF LetGoWithManager
<1>6. ASSUME RuntimeDropped
      PROVE  (LetGoWithManager /\ HeldSessionsLive)'
  <2>1. Keys(sessions) = {} /\ sessions' = sessions
    BY <1>6 DEF RuntimeDropped, LetGoWithManager
  <2>2. Keys(sessions') = {}
    BY <2>1
  <2> QED
    BY <1>a, <2>2 DEF LetGoWithManager
<1> QED
  BY <1>1, <1>2, <1>3, <1>4, <1>5, <1>6

\* The steps of a session task: it ends when it is not held any more.
LEMMA SessionHolds ==
  ASSUME UdpTypeOK, LetGoWithManager, HeldSessionsLive, NEW t \in Tasks,
         \/ SessionRuns(t)
         \/ Connected(t) \/ ConnectFails(t) \/ Retain(t) \/ Cancelled(t)
  PROVE  (LetGoWithManager /\ HeldSessionsLive)'
<1>0. /\ task \in Seq(SessionTask)
      /\ \A a \in Keys(sessions) : sessions.val[a] \in Tasks
      /\ UNCHANGED <<manager, sessions>>
  BY DEF UdpTypeOK, SessionRuns, TakeAside, QueryAnswered, Forward, Connect,
         ChannelClosed, Connected, ConnectFails, Retain, Cancelled, Ends
<1>1. /\ task[t].queue \in Seq(Dest)
      /\ task[t].queue # <<>> => Tail(task[t].queue) \in Seq(Dest)
      /\ <<>> \in Seq(Dest)
  BY QueueTypes
<1>2. CASE UNCHANGED task
  BY <1>0, <1>2 DEF LetGoWithManager, HeldSessionsLive
<1>3. ASSUME NEW at \in {"recv", "dns", "connect", "ended"}, NEW queue \in Seq(Dest),
             task' = Goes(t, at, queue), at = "ended" => ~Held(t)
      PROVE  (LetGoWithManager /\ HeldSessionsLive)'
  <2>1. /\ task'[t] = [app |-> task[t].app, at |-> at, queue |-> queue,
                       aborted |-> task[t].aborted]
        /\ \A u \in Tasks : u # t => task'[u] = task[u]
    BY <1>0, <1>3, GoesFact
  <2>2. /\ task'[t].app = task[t].app
        /\ task'[t].at = at
        /\ task'[t].aborted = task[t].aborted
    BY <2>1
  <2>3. \A a \in Keys(sessions) : /\ task'[sessions.val[a]].app = a
                                  /\ ~task'[sessions.val[a]].aborted
                                  /\ task'[sessions.val[a]].at # "ended"
    BY <1>0, <1>3, <2>1, <2>2 DEF HeldSessionsLive, Held
  <2> QED
    BY <1>0, <2>3 DEF LetGoWithManager, HeldSessionsLive
<1>4. CASE TakeAside(t) \/ Forward(t) \/ Connect(t)
  <2>1. /\ task[t].queue # <<>>
        /\ \E at \in {"recv", "dns", "connect"} : task' = Goes(t, at, Tail(task[t].queue))
    BY <1>4 DEF TakeAside, Forward, Connect, AtRecv, Took
  <2> QED
    BY <1>1, <1>3, <2>1
<1>5. CASE QueryAnswered(t) \/ Connected(t) \/ ConnectFails(t)
  <2>1. task' = Goes(t, "recv", task[t].queue)
    BY <1>5 DEF QueryAnswered, Connected, ConnectFails
  <2> QED
    BY <1>1, <1>3, <2>1
<1>6. CASE ChannelClosed(t)
  BY <1>1, <1>3, <1>6 DEF ChannelClosed, SenderDropped, Ends
<1>7. CASE Cancelled(t)
  <2>1. ~Held(t)
    BY <1>7 DEF Cancelled, Held, HeldSessionsLive, LetGoWithManager
  <2> QED
    BY <1>1, <1>3, <1>7, <2>1 DEF Cancelled, Ends
<1>8. CASE Retain(t)
  BY <1>2, <1>8 DEF Retain
<1> QED
  BY <1>4, <1>5, <1>6, <1>7, <1>8 DEF SessionRuns

-----------------------------------------------------------------------------
(* The books are kept *)

\* The fields after dropping entries.
LEMMA UnlistedFields ==
  ASSUME conn \in Seq(Connection), NEW C, conn' = Unlisted(C)
  PROVE  /\ Conns' = Conns
         /\ \A c \in Conns : /\ conn'[c].owner = conn[c].owner
                             /\ conn'[c].dest = conn[c].dest
                             /\ conn'[c].at = conn[c].at
                             /\ conn'[c].listed <=> conn[c].listed /\ c \notin C
<1>1. /\ DOMAIN conn' = Conns
      /\ \A c \in Conns :
           conn'[c] = [owner |-> conn[c].owner, dest |-> conn[c].dest,
                       at |-> conn[c].at, listed |-> conn[c].listed /\ c \notin C]
  BY UnlistedFact
<1>2. ASSUME NEW c \in Conns
      PROVE  /\ conn'[c].owner = conn[c].owner
             /\ conn'[c].dest = conn[c].dest
             /\ conn'[c].at = conn[c].at
             /\ conn'[c].listed <=> conn[c].listed /\ c \notin C
  <2> DEFINE b == conn[c].listed /\ c \notin C
  <2>1. conn'[c] = [owner |-> conn[c].owner, dest |-> conn[c].dest,
                    at |-> conn[c].at, listed |-> b]
    BY <1>1
  <2> HIDE DEF b
  <2>2. /\ conn'[c].owner = conn[c].owner
        /\ conn'[c].dest = conn[c].dest
        /\ conn'[c].at = conn[c].at
        /\ conn'[c].listed = b
    BY <2>1
  <2> QED
    BY <2>2 DEF b
<1> QED
  BY <1>1, <1>2 DEF Conns

\* The fields after a step of the connection c.
LEMMA BecomesFields ==
  ASSUME conn \in Seq(Connection), NEW c \in Conns,
         NEW at \in {"registered", "running", "exiting", "closed", "gone"},
         NEW listed \in BOOLEAN, conn' = Becomes(c, at, listed)
  PROVE  /\ Conns' = Conns
         /\ \A e \in Conns : conn'[e].owner = conn[e].owner /\ conn'[e].dest = conn[e].dest
         /\ conn'[c].at = at /\ conn'[c].listed = listed
         /\ \A e \in Conns : e # c => conn'[e].at = conn[e].at /\ conn'[e].listed = conn[e].listed
<1>1. /\ DOMAIN conn' = Conns
      /\ conn'[c] = [owner |-> conn[c].owner, dest |-> conn[c].dest,
                     at |-> at, listed |-> listed]
      /\ \A e \in Conns : e # c => conn'[e] = conn[e]
  BY BecomesFact
<1>2. /\ conn'[c].owner = conn[c].owner /\ conn'[c].dest = conn[c].dest
      /\ conn'[c].at = at /\ conn'[c].listed = listed
  BY <1>1
<1> QED
  BY <1>1, <1>2 DEF Conns

\* The place of a task after one step of it.
LEMMA GoesFields ==
  ASSUME task \in Seq(SessionTask), NEW t \in Tasks,
         NEW at \in {"recv", "dns", "connect", "ended"}, NEW queue \in Seq(Dest),
         task' = Goes(t, at, queue)
  PROVE  task'[t].at = at /\ \A u \in Tasks : u # t => task'[u].at = task[u].at
<1>1. /\ task'[t] = [app |-> task[t].app, at |-> at, queue |-> queue,
                     aborted |-> task[t].aborted]
      /\ \A u \in Tasks : u # t => task'[u] = task[u]
  BY GoesFact
<1> QED
  BY <1>1

\* What a step that neither ends a session nor lets it go on from connecting
\* leaves alone of the sessions.
SessionsStay ==
  \A t \in Tasks : /\ task'[t].at = "ended" <=> task[t].at = "ended"
                   /\ task[t].at = "connect" => task'[t].at = "connect"

ManagerStays == manager = "down" => manager' = "down"

\* Entries of destination tasks that do not run can be dropped at any time, and
\* nothing happens to the books when no entry is.
LEMMA DropKeeps ==
  ASSUME UdpTypeOK, Bookkeeping, SessionsStay, ManagerStays, NEW C,
         \A c \in Conns \cap C : conn[c].at \in {"closed", "gone"},
         conn' = Unlisted(C), active' = active \ C
  PROVE  Bookkeeping'
<1>0. /\ conn \in Seq(Connection) /\ active \subseteq Conns
      /\ \A c \in Conns : conn[c].owner \in Tasks
  BY DEF UdpTypeOK
<1>1. /\ Conns' = Conns
      /\ \A c \in Conns : /\ conn'[c].owner = conn[c].owner
                          /\ conn'[c].dest = conn[c].dest
                          /\ conn'[c].at = conn[c].at
                          /\ conn'[c].listed <=> conn[c].listed /\ c \notin C
  BY <1>0, UnlistedFields
<1>2. ASSUME NEW c \in Conns
      PROVE  Known(c)'
  <2>1. Known(c) /\ conn[c].owner \in Tasks
    BY <1>0 DEF Bookkeeping, EntriesKnown
  <2> QED
    BY <1>1, <2>1 DEF Known, SessionsStay
<1>3. OneRegistered' /\ OneWriter'
  BY <1>0, <1>1 DEF Bookkeeping, OneRegistered, OneWriter
<1>4. \A c \in Conns : conn'[c].listed /\ conn'[c].at = "running" => c \in active'
  BY <1>0, <1>1 DEF Bookkeeping, ActiveExplained
<1>5. ASSUME NEW c \in active'
      PROVE  \/ Stranded(c)'
             \/ task'[conn'[c].owner].at # "ended" /\ conn'[c].at \in {"registered", "running"}
             \/ manager' = "down" /\ conn'[c].listed
  <2>1. /\ c \in active /\ c \in Conns /\ c \notin C
        /\ conn[c].owner \in Tasks
    BY <1>0
  <2>2. \/ Stranded(c)
        \/ task[conn[c].owner].at # "ended" /\ conn[c].at \in {"registered", "running"}
        \/ manager = "down" /\ conn[c].listed
    BY <2>1 DEF Bookkeeping, ActiveExplained
  <2> QED
    BY <1>1, <2>1, <2>2 DEF Stranded, SessionsStay, ManagerStays
<1> QED
  BY <1>1, <1>2, <1>3, <1>4, <1>5 DEF Bookkeeping, EntriesKnown, ActiveExplained

\* A step that changes neither connections nor records.
LEMMA StayKeeps ==
  ASSUME UdpTypeOK, Bookkeeping, SessionsStay, ManagerStays, UNCHANGED <<conn, active>>
  PROVE  Bookkeeping'
<1>0. /\ active \subseteq Conns /\ Conns' = Conns
      /\ \A c \in Conns : conn[c].owner \in Tasks
  BY DEF UdpTypeOK, Conns
<1>2. EntriesKnown'
  BY <1>0 DEF Bookkeeping, EntriesKnown, Known, SessionsStay
<1>3. OneRegistered' /\ OneWriter'
  BY <1>0 DEF Bookkeeping, OneRegistered, OneWriter
<1>4. ActiveExplained'
  BY <1>0 DEF Bookkeeping, ActiveExplained, Stranded, SessionsStay, ManagerStays
<1> QED
  BY <1>2, <1>3, <1>4 DEF Bookkeeping

\* The manager does not touch the books.
LEMMA ManagerKeeps ==
  ASSUME UdpTypeOK, Bookkeeping
  PROVE  /\ \A a \in App, d \in Dest : PacketHeld(a, d) \/ PacketNew(a, d) => Bookkeeping'
         /\ \A a \in App : Quiet(a) => Bookkeeping'
         /\ CleanupSessions \/ ManagerDropped \/ RuntimeDropped => Bookkeeping'
<1>0. task \in Seq(SessionTask)
  BY DEF UdpTypeOK
<1>1. ASSUME NEW a \in App, NEW d \in Dest, PacketHeld(a, d)
      PROVE  Bookkeeping'
  <2> DEFINE t == sessions.val[a]
  <2>1. /\ t \in Tasks
        /\ task' = Goes(t, task[t].at, Offered(task[t].queue, d))
        /\ UNCHANGED <<manager, conn, active>>
    BY <1>1 DEF PacketHeld, Alive, UdpTypeOK
  <2> HIDE DEF t
  <2>2. /\ task[t].at \in {"recv", "dns", "connect", "ended"}
        /\ Offered(task[t].queue, d) \in Seq(Dest)
    BY <2>1, QueueTypes
  <2>3. task'[t].at = task[t].at /\ \A u \in Tasks : u # t => task'[u].at = task[u].at
    BY <1>0, <2>1, <2>2, GoesFields
  <2> QED
    BY <2>1, <2>3, StayKeeps DEF SessionsStay, ManagerStays
<1>2. ASSUME NEW a \in App, NEW d \in Dest, PacketNew(a, d)
      PROVE  Bookkeeping'
  <2>1. /\ task' = Append(task, [app |-> a, at |-> "recv", queue |-> <<d>>, aborted |-> FALSE])
        /\ UNCHANGED <<manager, conn, active>>
    BY <1>2 DEF PacketNew
  <2>2. \A t \in Tasks : task'[t] = task[t]
    BY <1>0, <2>1, SpawnFact
  <2> QED
    BY <2>1, <2>2, StayKeeps DEF SessionsStay, ManagerStays
<1>3. ASSUME NEW a \in App, Quiet(a)
      PROVE  Bookkeeping'
  BY <1>3, StayKeeps DEF Quiet, SessionsStay, ManagerStays
<1>4. ASSUME CleanupSessions
      PROVE  Bookkeeping'
  <2>1. task' = Aborted(Expired) /\ UNCHANGED <<manager, conn, active>>
    BY <1>4 DEF CleanupSessions
  <2>3. \A t \in Tasks : task'[t].at = task[t].at
    BY <1>0, <2>1, AbortedFields
  <2> QED
    BY <2>1, <2>3, StayKeeps DEF SessionsStay, ManagerStays
<1>5. ASSUME ManagerDropped \/ RuntimeDropped
      PROVE  Bookkeeping'
  BY <1>5, StayKeeps DEF ManagerDropped, RuntimeDropped, SessionsStay, ManagerStays
<1> QED
  BY <1>1, <1>2, <1>3, <1>4, <1>5

\* A connection is registered when the session has none on its way and none to
\* that destination that runs.
LEMMA ConnectKeeps ==
  ASSUME UdpTypeOK, Bookkeeping, NEW t \in Tasks, Connect(t)
  PROVE  Bookkeeping'
<1> DEFINE d == Head(task[t].queue)
           n == Len(conn) + 1
           E == Entry(t, d)
<1>0. /\ task \in Seq(SessionTask) /\ conn \in Seq(Connection)
      /\ Tasks \subseteq Nat /\ active \subseteq Conns
      /\ \A c \in Conns : conn[c].owner \in Tasks
  BY DEF UdpTypeOK, Tasks
<1>1. /\ task[t].at = "recv" /\ task[t].queue # <<>>
      /\ d \in Direct \cup Named
      /\ E = Finished(E)
      /\ conn' = Append(Unlisted(E), Registered(t, d))
      /\ active' = (active \ E) \cup {n}
      /\ task' = Goes(t, "connect", Tail(task[t].queue))
      /\ manager' = manager
  BY DEF Connect, AtRecv, Took
<1>2. \A c \in Conns : c \in E <=> conn[c].owner = t /\ conn[c].dest = d /\ conn[c].listed
  BY DEF Entry
<1>3. \A c \in E : c \in Conns /\ conn[c].at = "gone"
  BY <1>1 DEF Finished, Entry
<1> HIDE DEF d, E
<1>4. Tail(task[t].queue) \in Seq(Dest)
  BY <1>1, QueueTypes
<1>5. task'[t].at = "connect" /\ \A u \in Tasks : u # t => task'[u].at = task[u].at
  BY <1>0, <1>1, <1>4, GoesFields
<1>6. /\ Conns' = Conns \cup {n}
      /\ n \notin Conns
      /\ conn'[n] = Registered(t, d)
      /\ \A c \in Conns :
           conn'[c] = [owner |-> conn[c].owner, dest |-> conn[c].dest,
                       at |-> conn[c].at, listed |-> conn[c].listed /\ c \notin E]
  BY <1>0, <1>1, RegisterFact
<1> HIDE DEF n
<1>7. /\ conn'[n].owner = t /\ conn'[n].dest = d
      /\ conn'[n].at = "registered" /\ ~conn'[n].listed
  BY <1>6 DEF Registered
<1>8. ASSUME NEW c \in Conns
      PROVE  /\ conn'[c].owner = conn[c].owner
             /\ conn'[c].dest = conn[c].dest
             /\ conn'[c].at = conn[c].at
             /\ conn'[c].listed <=> conn[c].listed /\ c \notin E
  <2> DEFINE b == conn[c].listed /\ c \notin E
  <2>1. conn'[c] = [owner |-> conn[c].owner, dest |-> conn[c].dest,
                    at |-> conn[c].at, listed |-> b]
    BY <1>6
  <2> HIDE DEF b
  <2>2. /\ conn'[c].owner = conn[c].owner
        /\ conn'[c].dest = conn[c].dest
        /\ conn'[c].at = conn[c].at
        /\ conn'[c].listed = b
    BY <2>1
  <2> QED
    BY <2>2 DEF b
<1>9. \A c \in Conns : Known(c)
  BY DEF Bookkeeping, EntriesKnown
<1>10. \A c \in Conns : conn[c].at = "registered" => conn[c].owner # t
  BY <1>1, <1>9 DEF Known
<1>11. \A c \in Conns : conn[c].at = "running" /\ conn[c].owner = t => conn[c].dest # d
  BY <1>1, <1>2, <1>3, <1>9 DEF Known
<1>12. ASSUME NEW c \in Conns'
       PROVE  Known(c)'
  <2>1. CASE c \in Conns
    <3>1. Known(c) /\ conn[c].owner \in Tasks
      BY <1>0, <1>9, <2>1
    <3>2. task'[conn[c].owner].at # "ended" <=> task[conn[c].owner].at # "ended"
      BY <1>1, <1>5, <3>1
    <3>3. conn[c].at = "registered" => task'[conn[c].owner].at = task[conn[c].owner].at
      BY <1>5, <1>10, <2>1, <3>1
    <3>4. /\ conn'[c].owner = conn[c].owner
          /\ conn'[c].at = conn[c].at
          /\ conn'[c].listed <=> conn[c].listed /\ c \notin E
      BY <1>8, <2>1
    <3>5. c \in E => conn[c].at = "gone"
      BY <1>3
    <3>6. c \in active /\ c \notin E => c \in active'
      BY <1>1
    <3> QED
      BY <3>1, <3>2, <3>3, <3>4, <3>5, <3>6 DEF Known
  <2>2. CASE c = n
    BY <1>1, <1>5, <1>7, <2>2 DEF Known
  <2> QED
    BY <1>6, <2>1, <2>2
<1>13. OneRegistered'
  <2> SUFFICES ASSUME NEW c \in Conns', NEW e \in Conns',
                      conn'[c].at = "registered", conn'[e].at = "registered",
                      conn'[c].owner = conn'[e].owner
               PROVE  c = e
    BY DEF OneRegistered
  <2>1. CASE c \in Conns /\ e \in Conns
    BY <1>8, <2>1 DEF Bookkeeping, OneRegistered
  <2>2. CASE c = n \/ e = n
    BY <1>6, <1>7, <1>8, <1>10, <2>2
  <2> QED
    BY <1>6, <2>1, <2>2
<1>14. OneWriter'
  <2> SUFFICES ASSUME NEW c \in Conns', NEW e \in Conns',
                      conn'[c].owner = conn'[e].owner, conn'[c].dest = conn'[e].dest,
                      conn'[c].at = "running", conn'[e].at \in {"registered", "running"}
               PROVE  c = e
    BY DEF OneWriter
  <2>1. c \in Conns
    BY <1>6, <1>7
  <2>2. CASE e \in Conns
    BY <1>8, <2>1, <2>2 DEF Bookkeeping, OneWriter
  <2>3. CASE e = n
    BY <1>7, <1>8, <1>11, <2>1, <2>3
  <2> QED
    BY <1>6, <2>2, <2>3
<1>15. \A c \in Conns' : conn'[c].listed /\ conn'[c].at = "running" => c \in active'
  <2> SUFFICES ASSUME NEW c \in Conns', conn'[c].listed, conn'[c].at = "running"
               PROVE  c \in active'
    OBVIOUS
  <2>1. c \in Conns
    BY <1>6, <1>7
  <2> QED
    BY <1>1, <1>8, <2>1 DEF Bookkeeping, ActiveExplained
<1>16. ASSUME NEW c \in active'
       PROVE  \/ Stranded(c)'
              \/ task'[conn'[c].owner].at # "ended" /\ conn'[c].at \in {"registered", "running"}
              \/ manager' = "down" /\ conn'[c].listed
  <2>1. CASE c = n
    BY <1>5, <1>7, <2>1
  <2>2. CASE c \in active /\ c \notin E
    <3>1. c \in Conns /\ conn[c].owner \in Tasks
      BY <1>0, <2>2
    <3>2. \/ Stranded(c)
          \/ task[conn[c].owner].at # "ended" /\ conn[c].at \in {"registered", "running"}
          \/ manager = "down" /\ conn[c].listed
      BY <2>2 DEF Bookkeeping, ActiveExplained
    <3> QED
      BY <1>1, <1>5, <1>8, <2>2, <3>1, <3>2 DEF Stranded
  <2> QED
    BY <1>1, <2>1, <2>2
<1> QED
  BY <1>12, <1>13, <1>14, <1>15, <1>16 DEF Bookkeeping, EntriesKnown, ActiveExplained

\* A connection leaves connecting: it runs with an entry and a record, or it
\* has neither.
LEMMA ConnectedKeeps ==
  ASSUME UdpTypeOK, Bookkeeping, NEW t \in Tasks, Connected(t) \/ ConnectFails(t)
  PROVE  Bookkeeping'
<1>0. /\ task \in Seq(SessionTask) /\ conn \in Seq(Connection) /\ active \subseteq Conns
      /\ \A c \in Conns : conn[c].owner \in Tasks
  BY DEF UdpTypeOK
<1>1. PICK c \in Pending(t) :
        \/ conn' = Becomes(c, "running", TRUE) /\ active' = active
        \/ conn' = Becomes(c, "gone", FALSE) /\ active' = active \ {c}
  BY DEF Connected, ConnectFails
<1>2. /\ task' = Goes(t, "recv", task[t].queue)
      /\ manager' = manager
  BY DEF Connected, ConnectFails
<1>3. /\ c \in Conns /\ conn[c].owner = t /\ conn[c].at = "registered"
      /\ task[t].at = "connect"
  BY <1>1 DEF Pending
<1>4. task[t].queue \in Seq(Dest)
  BY QueueTypes
<1>5. task'[t].at = "recv" /\ \A u \in Tasks : u # t => task'[u].at = task[u].at
  BY <1>0, <1>2, <1>4, GoesFields
<1>6. /\ Conns' = Conns
      /\ \A e \in Conns : conn'[e].owner = conn[e].owner /\ conn'[e].dest = conn[e].dest
      /\ \/ conn'[c].at = "running" /\ conn'[c].listed /\ active' = active
         \/ conn'[c].at = "gone" /\ ~conn'[c].listed /\ active' = active \ {c}
      /\ \A e \in Conns : e # c => conn'[e].at = conn[e].at /\ conn'[e].listed = conn[e].listed
  <2>1. CASE conn' = Becomes(c, "running", TRUE) /\ active' = active
    BY <1>0, <1>3, <2>1, BecomesFields
  <2>2. CASE conn' = Becomes(c, "gone", FALSE) /\ active' = active \ {c}
    BY <1>0, <1>3, <2>2, BecomesFields
  <2> QED
    BY <1>1, <2>1, <2>2
<1>7. \A e \in Conns : Known(e)
  BY DEF Bookkeeping, EntriesKnown
<1>8. \A e \in Conns : conn[e].at = "registered" /\ conn[e].owner = t => e = c
  BY <1>3 DEF Bookkeeping, OneRegistered
<1>9. \A e \in Conns : conn[e].at = "running" /\ conn[e].owner = t => conn[e].dest # conn[c].dest
  BY <1>3 DEF Bookkeeping, OneWriter
<1>10. c \in active
  BY <1>3, <1>7 DEF Known
<1>11. ASSUME NEW e \in Conns
       PROVE  Known(e)'
  <2>1. Known(e) /\ conn[e].owner \in Tasks
    BY <1>0, <1>7
  <2>2. CASE e = c
    BY <1>3, <1>5, <1>6, <2>2 DEF Known
  <2>3. CASE e # c
    BY <1>3, <1>5, <1>6, <1>8, <2>1, <2>3 DEF Known
  <2> QED
    BY <2>2, <2>3
<1>12. OneRegistered'
  BY <1>3, <1>6 DEF Bookkeeping, OneRegistered
<1>13. OneWriter'
  <2> SUFFICES ASSUME NEW e \in Conns, NEW f \in Conns,
                      conn'[e].owner = conn'[f].owner, conn'[e].dest = conn'[f].dest,
                      conn'[e].at = "running", conn'[f].at \in {"registered", "running"}
               PROVE  e = f
    BY <1>6 DEF OneWriter
  <2>1. CASE e # c /\ f # c
    BY <1>6, <2>1 DEF Bookkeeping, OneWriter
  <2>2. CASE e = c /\ f # c
    BY <1>3, <1>6, <1>8, <1>9, <2>2
  <2>3. CASE e # c /\ f = c
    BY <1>3, <1>6, <1>9, <2>3
  <2> QED
    BY <2>1, <2>2, <2>3
<1>14. \A e \in Conns : conn'[e].listed /\ conn'[e].at = "running" => e \in active'
  BY <1>6, <1>10 DEF Bookkeeping, ActiveExplained
<1>15. ASSUME NEW e \in active'
       PROVE  \/ Stranded(e)'
              \/ task'[conn'[e].owner].at # "ended" /\ conn'[e].at \in {"registered", "running"}
              \/ manager' = "down" /\ conn'[e].listed
  <2>1. e \in active /\ e \in Conns /\ conn[e].owner \in Tasks
    BY <1>0, <1>6
  <2>2. CASE e = c
    BY <1>3, <1>5, <1>6, <2>2
  <2>3. CASE e # c
    <3>1. \/ Stranded(e)
          \/ task[conn[e].owner].at # "ended" /\ conn[e].at \in {"registered", "running"}
          \/ manager = "down" /\ conn[e].listed
      BY <2>1 DEF Bookkeeping, ActiveExplained
    <3> QED
      BY <1>2, <1>3, <1>5, <1>6, <2>1, <2>3, <3>1 DEF Stranded
  <2> QED
    BY <2>2, <2>3
<1> QED
  BY <1>6, <1>11, <1>12, <1>13, <1>14, <1>15 DEF Bookkeeping, EntriesKnown, ActiveExplained

\* A session that ends takes its entries and their records with it.
LEMMA EndsKeeps ==
  ASSUME UdpTypeOK, Bookkeeping, NEW t \in Tasks, Ends(t)
  PROVE  Bookkeeping'
<1> DEFINE E == Entries(t)
<1>0. /\ task \in Seq(SessionTask) /\ conn \in Seq(Connection) /\ active \subseteq Conns
      /\ \A c \in Conns : conn[c].owner \in Tasks
  BY DEF UdpTypeOK
<1>1. /\ task' = Goes(t, "ended", <<>>)
      /\ conn' = Unlisted(E)
      /\ active' = active \ E
      /\ manager' = manager
  BY DEF Ends
<1>2. \A c \in Conns : c \in E <=> conn[c].owner = t /\ conn[c].listed
  BY DEF Entries
<1> HIDE DEF E
<1>3. task'[t].at = "ended" /\ \A u \in Tasks : u # t => task'[u].at = task[u].at
  <2>1. <<>> \in Seq(Dest)
    OBVIOUS
  <2> QED
    BY <1>0, <1>1, <2>1, GoesFields
<1>4. /\ Conns' = Conns
      /\ \A c \in Conns : /\ conn'[c].owner = conn[c].owner
                          /\ conn'[c].dest = conn[c].dest
                          /\ conn'[c].at = conn[c].at
                          /\ conn'[c].listed <=> conn[c].listed /\ c \notin E
  BY <1>0, <1>1, UnlistedFields
<1>5. \A c \in Conns : Known(c)
  BY DEF Bookkeeping, EntriesKnown
<1>6. ASSUME NEW c \in Conns
      PROVE  Known(c)'
  <2>1. Known(c) /\ conn[c].owner \in Tasks
    BY <1>0, <1>5
  <2>2. c \in E => conn[c].at # "registered"
    BY <1>2, <2>1 DEF Known
  <2> QED
    BY <1>1, <1>2, <1>3, <1>4, <2>1, <2>2 DEF Known
<1>7. OneRegistered' /\ OneWriter'
  BY <1>4 DEF Bookkeeping, OneRegistered, OneWriter
<1>8. \A c \in Conns : conn'[c].listed /\ conn'[c].at = "running" => c \in active'
  BY <1>1, <1>4 DEF Bookkeeping, ActiveExplained
<1>9. ASSUME NEW c \in active'
      PROVE  \/ Stranded(c)'
             \/ task'[conn'[c].owner].at # "ended" /\ conn'[c].at \in {"registered", "running"}
             \/ manager' = "down" /\ conn'[c].listed
  <2>1. c \in active /\ c \notin E /\ c \in Conns /\ conn[c].owner \in Tasks
    BY <1>0, <1>1
  <2>2. \/ Stranded(c)
        \/ task[conn[c].owner].at # "ended" /\ conn[c].at \in {"registered", "running"}
        \/ manager = "down" /\ conn[c].listed
    BY <2>1 DEF Bookkeeping, ActiveExplained
  <2>3. Known(c)
    BY <1>5, <2>1
  <2> QED
    BY <1>1, <1>2, <1>3, <1>4, <2>1, <2>2, <2>3 DEF Stranded, Known
<1> QED
  BY <1>4, <1>6, <1>7, <1>8, <1>9 DEF Bookkeeping, EntriesKnown, ActiveExplained

\* A destination task that leaves its loop finishes its record; one that is
\* cancelled has lost its record with its entry.
LEMMA DestinationKeeps ==
  ASSUME UdpTypeOK, Bookkeeping, NEW c \in Conns,
         DestinationExits(c) \/ DestinationEnds(c) \/ DestinationCancelled(c)
  PROVE  Bookkeeping'
<1>0. /\ conn \in Seq(Connection) /\ active \subseteq Conns
      /\ \A e \in Conns : conn[e].owner \in Tasks
      /\ conn[c].listed \in BOOLEAN
  <2>1. conn \in Seq(Connection)
    BY DEF UdpTypeOK
  <2>2. conn[c] \in Connection
    BY <2>1 DEF Conns
  <2> QED
    BY <2>1, <2>2 DEF UdpTypeOK, Connection
<1>1. PICK at \in {"exiting", "closed", "gone"} : conn' = Becomes(c, at, conn[c].listed)
  BY DEF DestinationExits, DestinationEnds, DestinationCancelled
<1>2. /\ \/ conn[c].at = "running" /\ active' = active \ {c}
         \/ conn[c].at \in {"exiting", "closed"} /\ active' = active
         \/ conn[c].at = "running" /\ active' = active /\ (~conn[c].listed \/ manager = "down")
      /\ task' = task /\ manager' = manager
  BY DEF DestinationExits, DestinationEnds, DestinationCancelled
<1>3. /\ Conns' = Conns
      /\ \A e \in Conns : conn'[e].owner = conn[e].owner /\ conn'[e].dest = conn[e].dest
      /\ conn'[c].at \in {"exiting", "closed", "gone"} /\ conn'[c].listed = conn[c].listed
      /\ \A e \in Conns : e # c => conn'[e].at = conn[e].at /\ conn'[e].listed = conn[e].listed
  BY <1>0, <1>1, BecomesFields
<1>4. \A e \in Conns : Known(e)
  BY DEF Bookkeeping, EntriesKnown
<1>5. ASSUME NEW e \in Conns
      PROVE  Known(e)'
  <2>1. Known(e)
    BY <1>4
  <2> QED
    BY <1>2, <1>3, <2>1 DEF Known
<1>6. OneRegistered' /\ OneWriter'
  BY <1>3 DEF Bookkeeping, OneRegistered, OneWriter
<1>7. \A e \in Conns : conn'[e].listed /\ conn'[e].at = "running" => e \in active'
  BY <1>2, <1>3 DEF Bookkeeping, ActiveExplained
<1>8. ASSUME NEW e \in active'
      PROVE  \/ Stranded(e)'
             \/ task'[conn'[e].owner].at # "ended" /\ conn'[e].at \in {"registered", "running"}
             \/ manager' = "down" /\ conn'[e].listed
  <2>1. e \in active /\ e \in Conns /\ Known(e)
    BY <1>0, <1>2, <1>4
  <2>2. \/ Stranded(e)
        \/ task[conn[e].owner].at # "ended" /\ conn[e].at \in {"registered", "running"}
        \/ manager = "down" /\ conn[e].listed
    BY <2>1 DEF Bookkeeping, ActiveExplained
  <2> QED
    BY <1>2, <1>3, <2>1, <2>2 DEF Stranded, Known
<1> QED
  BY <1>3, <1>5, <1>6, <1>7, <1>8 DEF Bookkeeping, EntriesKnown, ActiveExplained

\* The steps of a session task.
LEMMA SessionKeeps ==
  ASSUME UdpTypeOK, Bookkeeping, NEW t \in Tasks,
         \/ SessionRuns(t)
         \/ Connected(t) \/ ConnectFails(t) \/ Retain(t) \/ Cancelled(t)
  PROVE  Bookkeeping'
<1>0. /\ task \in Seq(SessionTask)
      /\ task[t].queue \in Seq(Dest)
      /\ task[t].queue # <<>> => Tail(task[t].queue) \in Seq(Dest)
  BY QueueTypes DEF UdpTypeOK
<1>1. CASE TakeAside(t)
  <2>1. PICK at \in {"recv", "dns"} : task' = Goes(t, at, Tail(task[t].queue))
    BY <1>1 DEF TakeAside, Took
  <2>2. task[t].at = "recv" /\ task[t].queue # <<>> /\ UNCHANGED <<manager, conn, active>>
    BY <1>1 DEF TakeAside, AtRecv
  <2>3. task'[t].at = at /\ \A u \in Tasks : u # t => task'[u].at = task[u].at
    BY <1>0, <2>1, <2>2, GoesFields
  <2> QED
    BY <2>2, <2>3, StayKeeps DEF SessionsStay, ManagerStays
<1>2. CASE QueryAnswered(t)
  <2>1. /\ task[t].at = "dns" /\ task' = Goes(t, "recv", task[t].queue)
        /\ UNCHANGED <<manager, conn, active>>
    BY <1>2 DEF QueryAnswered
  <2>2. task'[t].at = "recv" /\ \A u \in Tasks : u # t => task'[u].at = task[u].at
    BY <1>0, <2>1, GoesFields
  <2> QED
    BY <2>1, <2>2, StayKeeps DEF SessionsStay, ManagerStays
<1>3. CASE Forward(t)
  <2>1. /\ task[t].at = "recv" /\ task[t].queue # <<>>
        /\ task' = Goes(t, "recv", Tail(task[t].queue))
        /\ manager' = manager
    BY <1>3 DEF Forward, AtRecv, Took
  <2>2. task'[t].at = "recv" /\ \A u \in Tasks : u # t => task'[u].at = task[u].at
    BY <1>0, <2>1, GoesFields
  <2>3. SessionsStay /\ ManagerStays
    BY <2>1, <2>2 DEF SessionsStay, ManagerStays
  <2>4. PICK c \in Conns :
          \/ UNCHANGED <<conn, active>>
          \/ conn[c].at = "closed" /\ conn' = Unlisted({c}) /\ active' = active \ {c}
    BY <1>3 DEF Forward, Entry
  <2>5. CASE UNCHANGED <<conn, active>>
    BY <2>3, <2>5, StayKeeps
  <2>6. CASE conn[c].at = "closed" /\ conn' = Unlisted({c}) /\ active' = active \ {c}
    <3>1. \A e \in Conns \cap {c} : conn[e].at \in {"closed", "gone"}
      BY <2>6
    <3> QED
      BY <2>3, <2>6, <3>1, DropKeeps
  <2> QED
    BY <2>4, <2>5, <2>6
<1>4. CASE Retain(t)
  <2>1. /\ conn' = Unlisted(Finished(Entries(t)))
        /\ active' = active \ Finished(Entries(t))
        /\ UNCHANGED <<manager, task>>
    BY <1>4 DEF Retain
  <2>2. \A c \in Conns \cap Finished(Entries(t)) : conn[c].at \in {"closed", "gone"}
    BY DEF Finished
  <2>3. SessionsStay /\ ManagerStays
    BY <2>1 DEF SessionsStay, ManagerStays
  <2> QED
    BY <2>1, <2>2, <2>3, DropKeeps
<1> QED
  BY <1>1, <1>2, <1>3, <1>4, ConnectKeeps, ConnectedKeeps, EndsKeeps
  DEF SessionRuns, ChannelClosed, Cancelled

-----------------------------------------------------------------------------
(* The theorems *)

\* Every step, whichever task takes it, keeps the inductive invariant.
LEMMA StepKeeps == IInv /\ [Next]_vars => IInv'
<1> SUFFICES ASSUME IInv, [Next]_vars
             PROVE  IInv'
  OBVIOUS
<1>1. CASE \E a \in App : Quiet(a) \/ \E d \in Dest : PacketHeld(a, d) \/ PacketNew(a, d)
  BY <1>1, ManagerTypes, ManagerHolds, ManagerKeeps DEF IInv
<1>2. CASE CleanupSessions \/ ManagerDropped \/ RuntimeDropped
  BY <1>2, ManagerTypes, ManagerHolds, ManagerKeeps DEF IInv
<1>3. ASSUME NEW t \in Tasks,
             SessionRuns(t) \/ Connected(t) \/ ConnectFails(t) \/ Retain(t) \/ Cancelled(t)
      PROVE  IInv'
  BY <1>3, SessionTypes, SessionHolds, SessionKeeps DEF IInv
<1>4. ASSUME NEW c \in Conns,
             DestinationExits(c) \/ DestinationEnds(c) \/ DestinationCancelled(c)
      PROVE  IInv'
  <2>1. UNCHANGED <<manager, sessions, task>>
    BY <1>4 DEF DestinationExits, DestinationEnds, DestinationCancelled
  <2>2. (LetGoWithManager /\ HeldSessionsLive)'
    BY <2>1 DEF IInv, LetGoWithManager, HeldSessionsLive
  <2> QED
    BY <1>4, <2>2, DestinationTypes, DestinationKeeps DEF IInv
<1>5. CASE UNCHANGED vars
  <2>1. UdpTypeOK' /\ (LetGoWithManager /\ HeldSessionsLive)'
    BY <1>5 DEF vars, IInv, UdpTypeOK, Tasks, Conns, LetGoWithManager, HeldSessionsLive
  <2>2. SessionsStay /\ ManagerStays /\ UNCHANGED <<conn, active>>
    BY <1>5 DEF vars, SessionsStay, ManagerStays
  <2> QED
    BY <2>1, <2>2, StayKeeps DEF IInv
<1> QED
  BY <1>1, <1>2, <1>3, <1>4, <1>5 DEF Next

\* The inductive invariant holds.
THEOREM SessionsSound == Spec => []IInv
<1>1. Init => IInv
  BY SessionsAssumption
  DEF Init, IInv, UdpTypeOK, LetGoWithManager, HeldSessionsLive, Bookkeeping, EntriesKnown,
      OneRegistered, OneWriter, ActiveExplained, Tasks, Conns, EmptyLru, Keys
<1> QED
  BY <1>1, StepKeeps, PTL DEF Spec

\* The specification keeps the types of the sessions and of the tracker.
THEOREM UdpTypeCorrect == Spec => []UdpTypeOK
<1>1. IInv => UdpTypeOK
  BY DEF IInv
<1> QED
  BY <1>1, SessionsSound, PTL

\* A packet never goes to a session that is dead, aborted or another's: the
\* branches of handle_packet that recreate a session are not taken.
THEOREM PacketsReachLiveSessions == Spec => []HeldSessionsLive
<1>1. IInv => HeldSessionsLive
  BY DEF IInv
<1> QED
  BY <1>1, SessionsSound, PTL

\* A session writes to a destination through one connection at a time.
THEOREM WritersAlone == Spec => []OneWriter
<1>1. IInv => OneWriter
  BY DEF IInv, Bookkeeping
<1> QED
  BY <1>1, SessionsSound, PTL

\* The active records are those of connections that are made or work, but for
\* the ones a cancelled session has left behind.
THEOREM RecordsExplained == Spec => []ActiveExplained
<1>1. IInv => ActiveExplained
  BY DEF IInv, Bookkeeping
<1> QED
  BY <1>1, SessionsSound, PTL
=============================================================================
