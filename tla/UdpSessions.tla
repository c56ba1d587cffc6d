----------------------------- MODULE UdpSessions -----------------------------
(***************************************************************************)
(* The UDP side of the TUN backend (tun/udp_manager.rs) and the records it *)
(* keeps in the connection tracker (tun/mod.rs).                           *)
(*                                                                         *)
(* The manager holds one session per local address in an LRU cache.  A     *)
(* session is a task: it takes packets from its channel and hands each to  *)
(* the task of its destination, which it creates (a connection through the *)
(* proxies) when there is none.  Three kinds of tasks run beside each      *)
(* other on two threads; a step is what a task does between two awaits.    *)
(*                                                                         *)
(* Tasks and connections are numbered in the order they come to be: `task` *)
(* and `conn` are sequences, and a connection's place is its id.           *)
(*                                                                         *)
(* Left out: responses (a bounded channel to the TUN writer that feeds     *)
(* nothing back), byte counts, the texts of a record, and the list of      *)
(* closed records, which only the display reads.  The release profile      *)
(* aborts the process on a panic, so that no task dies of one.             *)
(***************************************************************************)
EXTENDS Naturals, Sequences, LruCache

CONSTANTS
  App,          \* local addresses
  Direct,       \* destinations that are addresses
  Named,        \* fake addresses: a destination with a host name
  Aside,        \* port 53, UDP/443, and IPv6 when it is disabled
  MaxSessions,  \* MAX_SESSIONS: 256 in the code
  ChannelSize,  \* CHANNEL_SIZE: 64 in the code
  MaxPackets    \* bound: packets the applications send

Dest == Direct \cup Named \cup Aside

ASSUME SessionsAssumption ==
  /\ MaxSessions \in Nat \ {0}
  /\ ChannelSize \in Nat \ {0}
  /\ MaxPackets \in Nat

VARIABLES
  manager,   \* "running", "dropped", or "down": the runtime goes too
  sessions,  \* the LRU cache: App -> task
  idle,      \* the sessions without a packet for SESSION_TIMEOUT
  task,      \* the session tasks
  conn,      \* the connections and their destination tasks
  active,    \* the ids in ConnectionTracker.active
  packets    \* how many packets were sent

vars == <<manager, sessions, idle, task, conn, active, packets>>

Tasks == DOMAIN task

Conns == DOMAIN conn

-----------------------------------------------------------------------------
(* What the code asks *)

Held(t) == \E a \in Keys(sessions) : sessions.val[a] = t

\* Session::is_alive, and the channel not closed: a session that is held ends
\* at once for both questions.
Alive(a) == a \in Keys(sessions) /\ task[sessions.val[a]].at # "ended"

\* The entry of `destinations` for d in the session t, as a set.
Entry(t, d) ==
  {c \in Conns : conn[c].owner = t /\ conn[c].dest = d /\ conn[c].listed}

Entries(t) == {c \in Conns : conn[c].owner = t /\ conn[c].listed}

\* Mutant of Offered: the channel has no bound.
OfferedAlways(queue, d) == Append(queue, d)

\* try_send: a packet for a full channel is dropped.
Offered(queue, d) == IF Len(queue) < ChannelSize THEN Append(queue, d) ELSE queue

\* The session task t goes on at `at` with `queue` in its channel.
Goes(t, at, queue) ==
  [task EXCEPT ![t] = [app |-> task[t].app, at |-> at, queue |-> queue,
                       aborted |-> task[t].aborted]]

\* The connection c goes on at `at`, with or without an entry in `destinations`.
Becomes(c, at, listed) ==
  [conn EXCEPT ![c] = [owner |-> conn[c].owner, dest |-> conn[c].dest, at |-> at,
                       listed |-> listed]]

\* Drop for DestinationEntry: the destination task is aborted and, where this
\* is used, the record finished.
Unlisted(C) ==
  [c \in Conns |->
     [owner |-> conn[c].owner, dest |-> conn[c].dest, at |-> conn[c].at,
      listed |-> conn[c].listed /\ c \notin C]]

-----------------------------------------------------------------------------
(* The manager *)

\* handle_packet with a session that lives.
PacketHeld(a, d) ==
  /\ manager = "running"
  /\ packets < MaxPackets
  /\ Alive(a)
  /\ sessions' = Touch(sessions, a)
  /\ idle' = idle \ {a}
  /\ LET t == sessions.val[a]
     IN  task' = Goes(t, task[t].at, Offered(task[t].queue, d))
  /\ packets' = packets + 1
  /\ UNCHANGED <<manager, conn, active>>

\* handle_packet without one: create_session.  `put` drops the session it
\* drives out of a full cache: its channel closes, its task goes on.
PacketNew(a, d) ==
  /\ manager = "running"
  /\ packets < MaxPackets
  /\ ~Alive(a)
  /\ sessions' = Push(Without(sessions, {a}), a, Len(task) + 1, MaxSessions)
  /\ idle' = (idle \cap Keys(sessions')) \ {a}
  /\ task' = Append(task, [app |-> a, at |-> "recv", queue |-> <<d>>, aborted |-> FALSE])
  /\ packets' = packets + 1
  /\ UNCHANGED <<manager, conn, active>>

\* Time passes: a has sent nothing for SESSION_TIMEOUT.
Quiet(a) ==
  /\ a \in Keys(sessions)
  /\ idle' = idle \cup {a}
  /\ UNCHANGED <<manager, sessions, task, conn, active, packets>>

Expired == {a \in Keys(sessions) : a \in idle \/ ~Alive(a)}

Aborted(S) ==
  [t \in Tasks |->
     [app |-> task[t].app, at |-> task[t].at, queue |-> task[t].queue,
      aborted |-> task[t].aborted \/ \E a \in S : sessions.val[a] = t]]

\* Mutant of CleanupSessions: the expired sessions are aborted and kept.
CleanupKeeps ==
  /\ manager = "running"
  /\ Expired # {}
  /\ task' = Aborted(Expired)
  /\ UNCHANGED <<manager, sessions, idle, conn, active, packets>>

CleanupSessions ==
  /\ manager = "running"
  /\ Expired # {}
  /\ sessions' = Without(sessions, Expired)
  /\ idle' = idle \ Expired
  /\ task' = Aborted(Expired)
  /\ UNCHANGED <<manager, conn, active, packets>>

\* The manager's task ends, by abort or because the stack thread is gone: all
\* channels to sessions close.
ManagerDropped ==
  /\ manager = "running"
  /\ manager' = "dropped"
  /\ sessions' = EmptyLru
  /\ idle' = {}
  /\ UNCHANGED <<task, conn, active, packets>>

\* stop_shoes_backend drops the runtime: every task ends at its next await.
RuntimeDropped ==
  /\ manager = "dropped"
  /\ manager' = "down"
  /\ UNCHANGED <<sessions, idle, task, conn, active, packets>>

-----------------------------------------------------------------------------
(* A session task *)

AtRecv(t, D) == task[t].at = "recv" /\ task[t].queue # <<>> /\ Head(task[t].queue) \in D

\* The packet at the head is taken and the task goes on at `at`.
Took(t, at) == Goes(t, at, Tail(task[t].queue))

\* A packet that needs no connection.  The answer to an A query that gets a fake
\* address waits up to FAKE_DNS_UPSTREAM_LEARN_TIMEOUT for the upstream; other
\* queries are answered at once or by a task of their own, the rest is dropped.
TakeAside(t) ==
  /\ AtRecv(t, Aside)
  /\ \E at \in {"recv", "dns"} : task' = Took(t, at)
  /\ UNCHANGED <<manager, sessions, idle, conn, active, packets>>

QueryAnswered(t) ==
  /\ task[t].at = "dns"
  /\ task' = Goes(t, "recv", task[t].queue)
  /\ UNCHANGED <<manager, sessions, idle, conn, active, packets>>

\* The destination has an entry whose task has not finished: try_send.  Whether
\* the task writes the packet, has no room for it or is about to end makes no
\* difference here; a closed channel drops the entry.
Forward(t) ==
  /\ AtRecv(t, Direct \cup Named)
  /\ \E c \in Entry(t, Head(task[t].queue)) :
       \/ /\ conn[c].at \in {"running", "exiting"}
          /\ UNCHANGED <<conn, active>>
       \/ /\ conn[c].at = "closed"
          /\ conn' = Unlisted({c})
          /\ active' = active \ {c}
  /\ task' = Took(t, "recv")
  /\ UNCHANGED <<manager, sessions, idle, packets>>

\* The entries of S whose tasks have finished.
Finished(S) == {c \in S : conn[c].at = "gone"}

Registered(t, d) == [owner |-> t, dest |-> d, at |-> "registered", listed |-> FALSE]

\* Mutant of Connect: an entry with a task that is not finished does not count.
ConnectAgain(t) ==
  /\ AtRecv(t, Direct \cup Named)
  /\ LET d == Head(task[t].queue)
     IN  /\ conn' = Append(Unlisted(Finished(Entry(t, d))), Registered(t, d))
         /\ active' = (active \ Finished(Entry(t, d))) \cup {Len(conn) + 1}
  /\ task' = Took(t, "connect")
  /\ UNCHANGED <<manager, sessions, idle, packets>>

\* No entry, or one whose task has finished: the connection is registered, and
\* the task waits for create_connection.
Connect(t) ==
  /\ AtRecv(t, Direct \cup Named)
  /\ LET d == Head(task[t].queue)
     IN  /\ Entry(t, d) = Finished(Entry(t, d))
         /\ conn' = Append(Unlisted(Entry(t, d)), Registered(t, d))
         /\ active' = (active \ Entry(t, d)) \cup {Len(conn) + 1}
  /\ task' = Took(t, "connect")
  /\ UNCHANGED <<manager, sessions, idle, packets>>

\* The connection the session is waiting for, as a set.
Pending(t) ==
  {c \in Conns : conn[c].owner = t /\ conn[c].at = "registered" /\ task[t].at = "connect"}

\* A destination task is created, and the packet that asked for it is its first.
Connected(t) ==
  /\ \E c \in Pending(t) :
       /\ conn[c].dest \in Direct
       /\ conn' = Becomes(c, "running", TRUE)
  /\ task' = Goes(t, "recv", task[t].queue)
  /\ UNCHANGED <<manager, sessions, idle, active, packets>>

\* Mutant of ConnectFails: the record is not finished.
ConnectFailsActive(t) ==
  /\ \E c \in Pending(t) : conn' = Becomes(c, "gone", FALSE)
  /\ task' = Goes(t, "recv", task[t].queue)
  /\ UNCHANGED <<manager, sessions, idle, active, packets>>

\* The connection fails, or it is made and the destination has a host name,
\* for which to_socket_addr_nonblocking knows no address.
ConnectFails(t) ==
  /\ \E c \in Pending(t) :
       /\ conn' = Becomes(c, "gone", FALSE)
       /\ active' = active \ {c}
  /\ task' = Goes(t, "recv", task[t].queue)
  /\ UNCHANGED <<manager, sessions, idle, packets>>

\* The periodic cleanup of `destinations`.
Retain(t) ==
  /\ task[t].at = "recv"
  /\ Finished(Entries(t)) # {}
  /\ conn' = Unlisted(Finished(Entries(t)))
  /\ active' = active \ Finished(Entries(t))
  /\ UNCHANGED <<manager, sessions, idle, task, packets>>

\* The task ends and drops `destinations`.
Ends(t) ==
  /\ task' = Goes(t, "ended", <<>>)
  /\ conn' = Unlisted(Entries(t))
  /\ active' = active \ Entries(t)
  /\ UNCHANGED <<manager, sessions, idle, packets>>

\* Mutant of SenderDropped: the task owns a sender of its own channel.
SenderDroppedNever(t) == FALSE

\* Every sender of the channel is gone: there is one, in the Session.
SenderDropped(t) == ~Held(t)

\* recv returns None: the channel is closed and drained.
ChannelClosed(t) ==
  /\ task[t].at = "recv"
  /\ task[t].queue = <<>>
  /\ SenderDropped(t)
  /\ Ends(t)

\* An aborted task ends at the await it has reached.
Cancelled(t) ==
  /\ task[t].aborted \/ manager = "down"
  /\ task[t].at # "ended"
  /\ Ends(t)

-----------------------------------------------------------------------------
(* A destination task *)

\* An error, the end of the stream, CONNECTION_TIMEOUT or WRITE_TIMEOUT: the
\* loop is left and the record finished.
DestinationExits(c) ==
  /\ conn[c].at = "running"
  /\ conn' = Becomes(c, "exiting", conn[c].listed)
  /\ active' = active \ {c}
  /\ UNCHANGED <<manager, sessions, idle, task, packets>>

\* The receiver is dropped with what is in its channel, then the task has
\* finished.
DestinationEnds(c) ==
  /\ \/ /\ conn[c].at = "exiting"
        /\ conn' = Becomes(c, "closed", conn[c].listed)
     \/ /\ conn[c].at = "closed"
        /\ conn' = Becomes(c, "gone", conn[c].listed)
  /\ UNCHANGED <<manager, sessions, idle, task, active, packets>>

\* Its entry was dropped: the task ends at the await it has reached.
DestinationCancelled(c) ==
  /\ conn[c].at = "running"
  /\ ~conn[c].listed \/ manager = "down"
  /\ conn' = Becomes(c, "gone", conn[c].listed)
  /\ UNCHANGED <<manager, sessions, idle, task, active, packets>>

-----------------------------------------------------------------------------

Init ==
  /\ manager = "running"
  /\ sessions = EmptyLru
  /\ idle = {}
  /\ task = <<>>
  /\ conn = <<>>
  /\ active = {}
  /\ packets = 0

SessionRuns(t) ==
  \/ TakeAside(t) \/ QueryAnswered(t) \/ Forward(t) \/ Connect(t)
  \/ ChannelClosed(t)

Next ==
  \/ \E a \in App : Quiet(a) \/ \E d \in Dest : PacketHeld(a, d) \/ PacketNew(a, d)
  \/ CleanupSessions \/ ManagerDropped \/ RuntimeDropped
  \/ \E t \in Tasks :
       SessionRuns(t) \/ Connected(t) \/ ConnectFails(t) \/ Retain(t) \/ Cancelled(t)
  \/ \E c \in Conns :
       DestinationExits(c) \/ DestinationEnds(c) \/ DestinationCancelled(c)

Spec == Init /\ [][Next]_vars

\* The runtime runs every task that is ready.  A session's answers and waits
\* have timeouts, except create_connection, of which nothing is assumed.
FairSpec ==
  /\ Spec
  /\ \A t \in 1 .. MaxPackets :
       /\ WF_vars(t \in Tasks /\ SessionRuns(t))
       /\ WF_vars(t \in Tasks /\ Cancelled(t))
  /\ \A c \in 1 .. MaxPackets :
       /\ WF_vars(c \in Conns /\ DestinationEnds(c))
       /\ WF_vars(c \in Conns /\ DestinationCancelled(c))

-----------------------------------------------------------------------------
(* Properties *)

SessionTask ==
  [app : App, at : {"recv", "dns", "connect", "ended"}, queue : Seq(Dest), aborted : BOOLEAN]

Connection ==
  [owner : Nat, dest : Direct \cup Named,
   at : {"registered", "running", "exiting", "closed", "gone"}, listed : BOOLEAN]

\* The types of TunUdpManager, of its sessions and of the connection tracker.
UdpTypeOK ==
  /\ manager \in {"running", "dropped", "down"}
  /\ Keys(sessions) \subseteq App
  /\ idle \subseteq Keys(sessions)
  /\ \A a \in Keys(sessions) : sessions.val[a] \in Tasks
  /\ task \in Seq(SessionTask)
  /\ \A t \in Tasks : Len(task[t].queue) <= ChannelSize
  /\ conn \in Seq(Connection)
  /\ \A c \in Conns : conn[c].owner \in Tasks
  /\ active \subseteq Conns
  /\ packets \in 0 .. MaxPackets

\* A packet that handle_packet gives to a session reaches a task that lives, is
\* not about to be cancelled, and works for the sender of the packet.
HeldSessionsLive ==
  \A a \in Keys(sessions) :
    LET s == task[sessions.val[a]]
    IN  s.app = a /\ ~s.aborted /\ s.at # "ended"

\* A session writes to a destination through one connection at a time, so that
\* packets to it keep their order: no second task while one may still write.
OneWriter ==
  \A c, e \in Conns :
    /\ conn[c].owner = conn[e].owner
    /\ conn[c].dest = conn[e].dest
    /\ conn[c].at = "running"
    /\ conn[e].at \in {"registered", "running"}
    => c = e

\* The session was cancelled while it waited for the connection c: nothing is
\* left that would finish the record.
Stranded(c) == conn[c].at = "registered" /\ task[conn[c].owner].at = "ended"

\* Every connection that traffic can flow through is shown as active, and
\* every active one is on its way, working, stranded by a cancelled session, or
\* waits for the end of its session when the runtime is dropped.
ActiveExplained ==
  /\ \A c \in Conns :
       conn[c].listed /\ conn[c].at = "running" => c \in active
  /\ \A c \in active :
       \/ Stranded(c)
       \/ task[conn[c].owner].at # "ended" /\ conn[c].at \in {"registered", "running"}
       \/ manager = "down" /\ conn[c].listed

\* The task t and everything it started have ended.
Over(t) ==
  /\ t \in Tasks
  /\ task[t].at = "ended"
  /\ \A c \in Conns : conn[c].owner = t => conn[c].at \in {"registered", "gone"}

Hangs(t) == t \in Tasks /\ task[t].at = "connect"

\* A session that the manager has let go of, by eviction, timeout or shutdown,
\* ends with all its destination tasks, unless it hangs in create_connection.
LetGoSessionsEnd ==
  \A t \in 1 .. MaxPackets :
    t \in Tasks /\ ~Held(t) ~> [](Over(t) \/ Hangs(t))
=============================================================================
