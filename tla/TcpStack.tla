------------------------------ MODULE TcpStack ------------------------------
(***************************************************************************)
(* The TCP side of a run of the backend: the thread of the stack           *)
(* (run_direct_stack_thread in tcp_stack_direct.rs), the connections that  *)
(* it shares with the relay tasks (tcp_conn.rs) and the server that owns   *)
(* both (run_tun_server in tun/mod.rs).                                    *)
(*                                                                         *)
(* The thread goes round a loop: packets from the TUN, the sockets one by  *)
(* one, then select.  It meets the relays only at the lock of a            *)
(* connection; a step is what either does under one lock.  A relay is a    *)
(* tokio task (copy_bidirectional), seen through its calls: its two        *)
(* halves read, and write and shut down, and sleep until a waker is called *)
(* or they are polled for another reason.                                  *)
(*                                                                         *)
(* Bytes are counted: nothing tells two bytes of a stream apart but their  *)
(* order.  The sockets of smoltcp and the clients on the device are        *)
(* external and modelled as far as the loop looks at them.  The three-way  *)
(* handshake is one step.                                                  *)
(***************************************************************************)
EXTENDS Integers, FiniteSets

CONSTANTS
  Conn,          \* the connections that clients may open, each once
  NoConn,        \* the thread is not at a socket
  SocketSize,    \* TCP_RECV_BUFFER_SIZE, TCP_SEND_BUFFER_SIZE of the socket
  BufferSize,    \* the same of the connection
  MaxSockets     \* MAX_CONCURRENT_CONNECTIONS

ASSUME SizeAssumption ==
  /\ SocketSize \in Nat \ {0} /\ BufferSize \in Nat \ {0} /\ MaxSockets \in Nat \ {0}
  /\ NoConn \notin Conn

VARIABLES
  pc,         \* where the thread is
  at, todo,   \* the socket it is at, and those still to be gone through
  wakes,      \* wake_receiver or wake_sender: what it has yet to wake
  quick,      \* has_tcp_packet: it will not wait in this round
  running,    \* the flag that ends the loop
  server,     \* run_tun_server: up, joining the thread, down
  wired,      \* set_new_conn_tx has been called
  responses,  \* whether UDP responses wait for the thread
  socket,     \* the socket of each connection
  ctl,        \* TcpConnectionControl
  relay,      \* the task of each connection
  tun,        \* the packets of each connection that the TUN holds
  client,     \* the clients: what they have sent, and seen
  due         \* for each connection, the bytes that one end has written and
              \* the other has not read: up to the relay, and down

threadVars == <<pc, at, todo, wakes, quick>>
outerVars  == <<tun, client, due>>
vars == <<threadVars, running, server, wired, responses, socket, ctl, relay, outerVars>>

-----------------------------------------------------------------------------
(* smoltcp *)

NoSocket == [st |-> "none", rx |-> 0, tx |-> 0, out |-> 0, finIn |-> FALSE, fin |-> FALSE,
             finOut |-> FALSE, acked |-> FALSE, passive |-> FALSE, lost |-> 0]

Sockets == {c \in Conn : socket[c].st \in {"open", "closed"}}

CanRecv(s) == s.st = "open" /\ s.rx > 0
CanSend(s) == s.st = "open" /\ ~ s.fin /\ s.tx < SocketSize

\* close: a FIN will follow the data.  If the FIN of the client is here
\* already, its acknowledgement is the end (LAST-ACK).
CloseSocket(s) == [s EXCEPT !.fin = TRUE, !.passive = s.finIn]

\* Everything that is in the socket is sent.
Transmitted(s) == IF s.st = "open" THEN [s EXCEPT !.out = s.tx, !.finOut = s.fin] ELSE s

\* The packets of a connection: a FIN comes after the data, and a reset ends
\* all.  A socket that closed first ends when it has waited (TIME-WAIT).
Polled(s, p, waited) ==
  LET t == [s EXCEPT !.rx = @ + p.data, !.finIn = @ \/ p.fin, !.tx = @ - p.ack,
                     !.out = @ - p.ack, !.acked = @ \/ p.ackFin]
      ended == p.rst \/ (t.acked /\ t.passive) \/ (s.acked /\ s.finIn /\ waited)
  IN IF s.st # "open" THEN s
     ELSE IF ended THEN [t EXCEPT !.st = "closed", !.lost = t.rx]
     ELSE Transmitted(t)

NoPacket == [syn |-> FALSE, data |-> 0, fin |-> FALSE, rst |-> FALSE, ack |-> 0, ackFin |-> FALSE]

Readable == \E c \in Conn : tun[c] # NoPacket

-----------------------------------------------------------------------------
(* A connection: what relay and thread share *)

NewControl == [recv |-> "Normal", send |-> "Normal", in |-> 0, out |-> 0,
               recvWaker |-> FALSE, sendWaker |-> FALSE]

NoRelay == [at |-> "none", reads |-> "idle", writes |-> "idle", recvWoken |-> FALSE,
            sendWoken |-> FALSE]

GoneRelay == [NoRelay EXCEPT !.at = "gone"]

\* TcpConnection::drop.  Its wakers are of a task that is no more.
Dropped(k) ==
  [k EXCEPT !.recv = IF @ = "Normal" THEN "Close" ELSE @,
            !.send = IF @ = "Normal" THEN "Close" ELSE @,
            !.recvWaker = FALSE, !.sendWaker = FALSE]

\* wake_receiver, wake_sender: the waker is taken, its half will be polled.
WakeReceiver(c) ==
  /\ ctl' = [ctl EXCEPT ![c].recvWaker = FALSE]
  /\ relay' = [relay EXCEPT ![c].recvWoken = @ \/ ctl[c].recvWaker]

WakeSender(c) ==
  /\ ctl' = [ctl EXCEPT ![c].sendWaker = FALSE]
  /\ relay' = [relay EXCEPT ![c].sendWoken = @ \/ ctl[c].sendWaker]

-----------------------------------------------------------------------------
(* The thread *)

Least(a, b) == IF a < b THEN a ELSE b

\* The SYN of a connection makes a socket, if there is room for it.  The
\* sockets of one batch are made in any order.
Fresh == {c \in Conn : tun[c].syn /\ socket[c].st = "none"}

\* The start of a round: responses are written, packets read; the loop goes
\* through all sockets.  A connection that nobody can be told of is dropped.
ReadPackets ==
  /\ pc = "top" /\ running
  /\ \E new \in SUBSET Fresh, waited \in BOOLEAN :
       /\ Cardinality(new) = Least(Cardinality(Fresh), MaxSockets - Cardinality(Sockets))
       /\ socket' = [c \in Conn |-> IF c \in new THEN [NoSocket EXCEPT !.st = "open"]
                                    ELSE Polled(socket[c], tun[c], waited)]
       /\ ctl' = [c \in Conn |-> IF c \in new /\ ~ wired THEN Dropped(ctl[c]) ELSE ctl[c]]
       /\ relay' = [c \in Conn |-> IF c \notin new THEN relay[c]
                                   ELSE [relay[c] EXCEPT !.at = IF wired THEN "queued" ELSE "gone"]]
       /\ client' = [c \in Conn |-> IF tun[c].syn /\ c \notin new
                                    THEN [client[c] EXCEPT !.syn = FALSE] ELSE client[c]]
       /\ todo' = Sockets \cup new
  /\ responses' = (responses /\ ~ wired)
  /\ quick' = (\E c \in Conn : tun[c] # NoPacket)
  /\ tun' = [c \in Conn |-> NoPacket]
  /\ pc' = "next"
  /\ UNCHANGED <<at, wakes, running, server, wired, due>>

\* The device fails, or the flag is off: the loop ends, and the sockets and
\* the thread's share of the connections go with it.
Leave ==
  /\ pc' = "ended" /\ at' = NoConn /\ todo' = {} /\ wakes' = FALSE /\ quick' = FALSE
  /\ running' = FALSE
  /\ socket' = [c \in Conn |-> IF c \in Sockets THEN [socket[c] EXCEPT !.st = "gone"] ELSE socket[c]]
  /\ UNCHANGED <<server, wired, ctl, relay, outerVars>>

ReadFails == pc = "top" /\ running /\ Leave /\ responses' = (responses /\ ~ wired)
Stops == pc = "top" /\ ~ running /\ Leave /\ UNCHANGED responses

\* The next socket.  One that smoltcp has closed closes its connection, which
\* wakes both halves (set_closed).
NextSocket ==
  /\ pc = "next" /\ todo # {}
  /\ \E c \in todo :
       /\ todo' = todo \ {c}
       /\ IF socket[c].st = "closed"
          THEN /\ ctl' = [ctl EXCEPT ![c].recv = "Closed", ![c].send = "Closed",
                                     ![c].recvWaker = FALSE, ![c].sendWaker = FALSE]
               /\ relay' = [relay EXCEPT ![c].recvWoken = @ \/ ctl[c].recvWaker,
                                         ![c].sendWoken = @ \/ ctl[c].sendWaker]
               /\ UNCHANGED <<pc, at>>
          ELSE at' = c /\ pc' = "shut" /\ UNCHANGED <<ctl, relay>>
  /\ UNCHANGED <<wakes, quick, running, server, wired, responses, socket, outerVars>>

\* Mutant of ShutWrite: data of the relay that the socket has not taken yet is
\* forgotten.
ShutWriteEarly ==
  /\ pc = "shut"
  /\ IF ctl[at].send = "Close" /\ socket[at].tx = 0
     THEN /\ socket' = [socket EXCEPT ![at] = CloseSocket(@)]
          /\ ctl' = [ctl EXCEPT ![at].send = "Closing"]
     ELSE UNCHANGED <<socket, ctl>>
  /\ pc' = "recv"
  /\ UNCHANGED <<at, todo, wakes, quick, running, server, wired, responses, relay, outerVars>>

\* The writing half is closed once everything before it was acknowledged.  A
\* relay writes nothing more after it has asked for the close, so that the
\* three looks at the connection are one step.
ShutWrite ==
  /\ pc = "shut"
  /\ IF ctl[at].send = "Close" /\ socket[at].tx = 0 /\ ctl[at].out = 0
     THEN /\ socket' = [socket EXCEPT ![at] = CloseSocket(@)]
          /\ ctl' = [ctl EXCEPT ![at].send = "Closing"]
     ELSE UNCHANGED <<socket, ctl>>
  /\ pc' = "recv"
  /\ UNCHANGED <<at, todo, wakes, quick, running, server, wired, responses, relay, outerVars>>

\* Data goes from the socket to the connection, as much as fits, again and
\* again while the relay makes room.
Receive ==
  /\ pc = "recv"
  /\ LET n == Least(socket[at].rx, BufferSize - ctl[at].in)
     IN /\ CanRecv(socket[at]) /\ n > 0
        /\ socket' = [socket EXCEPT ![at].rx = @ - n]
        /\ ctl' = [ctl EXCEPT ![at].in = @ + n]
  /\ wakes' = TRUE
  /\ UNCHANGED <<pc, at, todo, quick, running, server, wired, responses, relay, outerVars>>

\* The client has finished, and everything it sent was handed on.
HalfClosed(s) == s.finIn /\ s.rx = 0

\* Mutant of Received: the half close is noted, and nobody is woken.
ReceivedSilently ==
  /\ pc = "recv" /\ ~ (CanRecv(socket[at]) /\ ctl[at].in < BufferSize)
  /\ IF ctl[at].recv = "Normal" /\ HalfClosed(socket[at])
     THEN ctl' = [ctl EXCEPT ![at].recv = "Closed"] ELSE UNCHANGED ctl
  /\ wakes' = wakes /\ pc' = "wakeReceiver"
  /\ UNCHANGED <<at, todo, quick, running, server, wired, responses, socket, relay, outerVars>>

Received ==
  /\ pc = "recv" /\ ~ (CanRecv(socket[at]) /\ ctl[at].in < BufferSize)
  /\ IF ctl[at].recv = "Normal" /\ HalfClosed(socket[at])
     THEN ctl' = [ctl EXCEPT ![at].recv = "Closed"] /\ wakes' = TRUE
     ELSE UNCHANGED <<ctl, wakes>>
  /\ pc' = "wakeReceiver"
  /\ UNCHANGED <<at, todo, quick, running, server, wired, responses, socket, relay, outerVars>>

WakesReceiver ==
  /\ pc = "wakeReceiver"
  /\ IF wakes THEN WakeReceiver(at) ELSE UNCHANGED <<ctl, relay>>
  /\ wakes' = FALSE /\ pc' = "send"
  /\ UNCHANGED <<at, todo, quick, running, server, wired, responses, socket, outerVars>>

\* Data goes from the connection to the socket.
Send ==
  /\ pc = "send"
  /\ LET n == Least(ctl[at].out, SocketSize - socket[at].tx)
     IN /\ CanSend(socket[at]) /\ n > 0
        /\ socket' = [socket EXCEPT ![at].tx = @ + n]
        /\ ctl' = [ctl EXCEPT ![at].out = @ - n]
  /\ wakes' = TRUE
  /\ UNCHANGED <<pc, at, todo, quick, running, server, wired, responses, relay, outerVars>>

WakesSender ==
  /\ pc = "send" /\ ~ (CanSend(socket[at]) /\ ctl[at].out > 0)
  /\ IF wakes THEN WakeSender(at) ELSE UNCHANGED <<ctl, relay>>
  /\ wakes' = FALSE /\ pc' = "next" /\ at' = NoConn
  /\ UNCHANGED <<todo, quick, running, server, wired, responses, socket, outerVars>>

\* The end of a round: closed sockets are removed, the others transmit.
EndRound ==
  /\ pc = "next" /\ todo = {}
  /\ socket' = [c \in Conn |-> IF socket[c].st = "closed" THEN [socket[c] EXCEPT !.st = "gone"]
                               ELSE Transmitted(socket[c])]
  /\ pc' = IF quick THEN "top" ELSE "select"
  /\ UNCHANGED <<at, todo, wakes, quick, running, server, wired, responses, ctl, relay, outerVars>>

\* Mutant of Wakes: the wait is not limited to 10 ms.
WakesOnPacket == Readable

\* What ends select: a packet, or the timeout, which smoltcp asks for as long
\* as it has a socket.  unpark does not.
Wakes == Readable \/ Sockets # {}

Selected ==
  /\ pc = "select" /\ Wakes
  /\ pc' = "top"
  /\ UNCHANGED <<at, todo, wakes, quick, running, server, wired, responses, socket, ctl, relay, outerVars>>

Thread ==
  \/ ReadPackets \/ Stops \/ NextSocket \/ ShutWrite \/ Receive \/ Received \/ WakesReceiver
  \/ Send \/ WakesSender \/ EndRound \/ Selected

\* select fails ten times in a row; nobody else reads from the device.
SelectFails ==
  /\ pc = "select"
  /\ pc' = "top" /\ running' = FALSE
  /\ UNCHANGED <<at, todo, wakes, quick, server, wired, responses, socket, ctl, relay, outerVars>>

-----------------------------------------------------------------------------
(* The relays *)

Up(c) == relay[c].at = "up"

Accept(c) ==
  /\ relay[c].at = "queued" /\ server = "up"
  /\ relay' = [relay EXCEPT ![c].at = "up"]
  /\ UNCHANGED <<threadVars, running, server, wired, responses, socket, ctl, outerVars>>

\* The relay ends, by an error, a limit of time, a rule, or because both
\* directions are done: its connection is dropped.
DropConnection(c) ==
  /\ Up(c)
  /\ relay' = [relay EXCEPT ![c] = GoneRelay]
  /\ ctl' = [ctl EXCEPT ![c] = Dropped(@)]
  /\ UNCHANGED <<threadVars, running, server, wired, responses, socket, outerVars>>

\* poll_read
PollRead(c) ==
  /\ Up(c) /\ relay[c].reads # "eof"
  /\ \/ /\ ctl[c].in > 0
        /\ ctl' = [ctl EXCEPT ![c].in = @ - 1]
        /\ relay' = [relay EXCEPT ![c].reads = "idle", ![c].recvWoken = FALSE]
        /\ due' = [due EXCEPT ![c].up = @ - 1]
     \/ /\ ctl[c].in = 0 /\ ctl[c].recv = "Closed"
        /\ relay' = [relay EXCEPT ![c].reads = "eof", ![c].recvWoken = FALSE]
        /\ UNCHANGED <<ctl, due>>
     \/ /\ ctl[c].in = 0 /\ ctl[c].recv # "Closed"
        /\ ctl' = [ctl EXCEPT ![c].recvWaker = TRUE]
        /\ relay' = [relay EXCEPT ![c].reads = "wait", ![c].recvWoken = FALSE]
        /\ UNCHANGED due
  /\ UNCHANGED <<threadVars, running, server, wired, responses, socket, tun, client>>

\* poll_write of a byte; an error ends the relay.
PollWrite(c) ==
  /\ Up(c) /\ relay[c].writes \in {"idle", "wait"}
  /\ \/ /\ ctl[c].send = "Normal" /\ ctl[c].out < BufferSize
        /\ ctl' = [ctl EXCEPT ![c].out = @ + 1]
        /\ relay' = [relay EXCEPT ![c].writes = "idle", ![c].sendWoken = FALSE]
        /\ due' = [due EXCEPT ![c].down = @ + 1]
     \/ /\ ctl[c].send = "Normal" /\ ctl[c].out = BufferSize
        /\ ctl' = [ctl EXCEPT ![c].sendWaker = TRUE]
        /\ relay' = [relay EXCEPT ![c].writes = "wait", ![c].sendWoken = FALSE]
        /\ UNCHANGED due
     \/ /\ ctl[c].send # "Normal"
        /\ ctl' = [ctl EXCEPT ![c] = Dropped(@)]
        /\ relay' = [relay EXCEPT ![c] = GoneRelay]
        /\ UNCHANGED due
  /\ UNCHANGED <<threadVars, running, server, wired, responses, socket, tun, client>>

\* poll_shutdown: it waits until the socket is closed on both sides.
PollShutdown(c) ==
  /\ Up(c) /\ relay[c].writes \in {"idle", "shut"}
  /\ IF ctl[c].send = "Closed"
     THEN /\ relay' = [relay EXCEPT ![c].writes = "done", ![c].sendWoken = FALSE]
          /\ UNCHANGED ctl
     ELSE /\ ctl' = [ctl EXCEPT ![c].send = IF @ = "Normal" THEN "Close" ELSE @, ![c].sendWaker = TRUE]
          /\ relay' = [relay EXCEPT ![c].writes = "shut", ![c].sendWoken = FALSE]
  /\ UNCHANGED <<threadVars, running, server, wired, responses, socket, outerVars>>

\* The writing half, when it is polled again.
Resume(c) ==
  \/ relay[c].writes = "wait" /\ PollWrite(c)
  \/ relay[c].writes = "shut" /\ PollShutdown(c)

Relays == \E c \in Conn : Accept(c) \/ DropConnection(c) \/ PollRead(c) \/ PollWrite(c) \/ PollShutdown(c)

-----------------------------------------------------------------------------
(* The server *)

Wire ==
  /\ server = "up" /\ ~ wired
  /\ wired' = TRUE
  /\ UNCHANGED <<threadVars, running, server, responses, socket, ctl, relay, outerVars>>

\* The signal of stop_shoes_backend, or the thread is seen to have ended: the
\* acceptor is aborted with what it has not accepted, and the stack dropped,
\* which turns the flag off and joins the thread.
Shutdown ==
  /\ server = "up" /\ wired
  /\ server' = "joining" /\ running' = FALSE
  /\ ctl' = [c \in Conn |-> IF relay[c].at = "queued" THEN Dropped(ctl[c]) ELSE ctl[c]]
  /\ relay' = [c \in Conn |-> IF relay[c].at = "queued" THEN GoneRelay ELSE relay[c]]
  /\ UNCHANGED <<threadVars, wired, responses, socket, outerVars>>

SeesEnd == ~ running /\ Shutdown

\* The thread is joined; the relays run on until the runtime is dropped.
Joined ==
  /\ server = "joining" /\ pc = "ended"
  /\ server' = "down"
  /\ UNCHANGED <<threadVars, running, wired, responses, socket, ctl, relay, outerVars>>

\* A response of the UDP side, which does not wake the thread.
Respond ==
  /\ server = "up" /\ wired
  /\ responses' = TRUE
  /\ UNCHANGED <<threadVars, running, server, wired, socket, ctl, relay, outerVars>>

-----------------------------------------------------------------------------
(* The clients *)

Put(c, p, cl, bytes) ==
  /\ tun' = [tun EXCEPT ![c] = p] /\ client' = [client EXCEPT ![c] = cl] /\ due' = [due EXCEPT ![c] = bytes]
  /\ UNCHANGED <<threadVars, running, server, wired, responses, socket, ctl, relay>>

Open(c) == socket[c].st = "open" /\ ~ client[c].rst

Syn(c) ==
  /\ ~ client[c].syn /\ socket[c].st = "none"
  /\ Put(c, [tun[c] EXCEPT !.syn = TRUE], [client[c] EXCEPT !.syn = TRUE], due[c])

\* A byte, if the window allows it.
SendByte(c) ==
  /\ Open(c) /\ ~ client[c].fin
  /\ tun[c].data + socket[c].rx < SocketSize
  /\ Put(c, [tun[c] EXCEPT !.data = @ + 1], client[c], [due[c] EXCEPT !.up = @ + 1])

Finish(c) ==
  /\ Open(c) /\ ~ client[c].fin
  /\ Put(c, [tun[c] EXCEPT !.fin = TRUE], [client[c] EXCEPT !.fin = TRUE], due[c])

Reset(c) ==
  /\ Open(c)
  /\ Put(c, [tun[c] EXCEPT !.rst = TRUE], [client[c] EXCEPT !.rst = TRUE], due[c])

\* What was transmitted arrives and is acknowledged.
Acknowledge(c) ==
  /\ Open(c)
  /\ LET n == socket[c].out - tun[c].ack
         f == socket[c].finOut /\ ~ socket[c].acked /\ ~ tun[c].ackFin
     IN /\ n > 0 \/ f
        /\ Put(c, [tun[c] EXCEPT !.ack = socket[c].out, !.ackFin = @ \/ f],
                  [client[c] EXCEPT !.eof = @ \/ f], [due[c] EXCEPT !.down = @ - n])

\* A packet that is not TCP, or of no connection: it ends select.
OtherPacket ==
  /\ pc = "select"
  /\ pc' = "top"
  /\ UNCHANGED <<at, todo, wakes, quick, running, server, wired, responses, socket, ctl, relay, outerVars>>

Clients ==
  OtherPacket \/ \E c \in Conn : Syn(c) \/ SendByte(c) \/ Finish(c) \/ Reset(c) \/ Acknowledge(c)

-----------------------------------------------------------------------------
Init ==
  /\ pc = "top" /\ at = NoConn /\ todo = {} /\ wakes = FALSE /\ quick = FALSE
  /\ running = TRUE /\ server = "up" /\ wired = FALSE /\ responses = FALSE
  /\ socket = [c \in Conn |-> NoSocket] /\ ctl = [c \in Conn |-> NewControl]
  /\ relay = [c \in Conn |-> NoRelay] /\ tun = [c \in Conn |-> NoPacket]
  /\ client = [c \in Conn |-> [syn |-> FALSE, fin |-> FALSE, rst |-> FALSE, eof |-> FALSE]]
  /\ due = [c \in Conn |-> [up |-> 0, down |-> 0]]

Next == Thread \/ ReadFails \/ SelectFails \/ Relays \/ Wire \/ Shutdown \/ Joined \/ Respond \/ Clients

Spec == Init /\ [][Next]_vars

\* The thread is scheduled, the runtime polls what was woken, and the server
\* looks at the flag every 100 ms and at the end of the thread it joins.
FairSpec ==
  /\ Spec
  /\ WF_vars(Thread) /\ WF_vars(Wire) /\ WF_vars(SeesEnd) /\ WF_vars(Joined)
  /\ \A c \in Conn : WF_vars(relay[c].recvWoken /\ PollRead(c))
                     /\ WF_vars(relay[c].sendWoken /\ Resume(c))

-----------------------------------------------------------------------------
\* A stream ends only with everything that belongs to it, by count.  A client
\* that sees the end of the stream has got as many bytes as the relay wrote.  A
\* relay that sees it has read as many as the client sent, unless it has reset
\* the connection, or the relay had ended its own stream before: then a
\* socket may close with data in it that the relay was too slow to take
\* (tcp_stack_direct.rs:580), and the relay is told of an end all the same.
StreamsWhole ==
  \A c \in Conn :
    /\ client[c].eof => due[c].down = 0
    /\ (relay[c].reads = "eof" /\ ~ client[c].rst) =>
         \/ due[c].up = 0
         \/ /\ relay[c].writes \in {"shut", "done"}
            /\ due[c].up = socket[c].lost

ReaderWaits(c) ==
  /\ Up(c) /\ pc # "ended" /\ relay[c].reads = "wait"
  /\ ctl[c].in > 0 \/ ctl[c].recv = "Closed" \/ CanRecv(socket[c])

WriterWaits(c) ==
  /\ Up(c) /\ pc # "ended"
  /\ \/ relay[c].writes = "wait" /\ (ctl[c].out < BufferSize \/ ctl[c].send # "Normal")
     \/ relay[c].writes = "shut" /\ ctl[c].send = "Closed"

\* A relay that sleeps while there is something for it (data, the end of a
\* stream, room to write) is polled again, however its registration and the
\* thread's steps interleave.  The exception is the end of the thread, which
\* calls no waker: its relays sleep until the runtime is dropped.
WaitersWoken ==
  \A c \in Conn : (ReaderWaits(c) ~> ~ ReaderWaits(c)) /\ (WriterWaits(c) ~> ~ WriterWaits(c))

\* The thread is in select without a timeout, and no packet comes.
Asleep == pc = "select" /\ Sockets = {} /\ ~ Readable

\* UDP responses are written and a stop comes to its end, unless the thread
\* sleeps without a socket: unpark does not end select, and both wait for the
\* next packet then.
Served ==
  (responses \/ server = "joining") ~>
    \/ ~ responses /\ server # "joining"
    \/ server = "down"
    \/ Asleep
=============================================================================
