---------------------------- MODULE TcpStackProofs ----------------------------
(***************************************************************************)
(* A proof about TcpStack, for any connections and sizes of the buffers: a *)
(* stream ends only with everything that belongs to it.                    *)
(*                                                                         *)
(* The argument counts bytes.  What one end has written and the other has  *)
(* not read is in the packets, the socket or the connection between them;  *)
(* and each of the three is empty before the end of the stream gets past   *)
(* it.                                                                     *)
(***************************************************************************)
EXTENDS TcpStack, TLAPS

-----------------------------------------------------------------------------
(* The types *)

Socket == [st : {"none", "open", "closed", "gone"}, rx : Nat, tx : Nat, out : Nat,
           finIn : BOOLEAN, fin : BOOLEAN, finOut : BOOLEAN, acked : BOOLEAN,
           passive : BOOLEAN, lost : Nat]
Control == [recv : {"Normal", "Close", "Closed"}, send : {"Normal", "Close", "Closing", "Closed"},
            in : Nat, out : Nat, recvWaker : BOOLEAN, sendWaker : BOOLEAN]
Relay == [at : {"none", "queued", "up", "gone"}, reads : {"idle", "wait", "eof"},
          writes : {"idle", "wait", "shut", "done"}, recvWoken : BOOLEAN, sendWoken : BOOLEAN]
Packet == [syn : BOOLEAN, data : Nat, fin : BOOLEAN, rst : BOOLEAN, ack : Nat, ackFin : BOOLEAN]
Client == [syn : BOOLEAN, fin : BOOLEAN, rst : BOOLEAN, eof : BOOLEAN]
Due == [up : Int, down : Int]

Types ==
  /\ socket \in [Conn -> Socket] /\ ctl \in [Conn -> Control] /\ relay \in [Conn -> Relay]
  /\ tun \in [Conn -> Packet] /\ client \in [Conn -> Client] /\ due \in [Conn -> Due]

\* The sockets of a round are there until it ends, and the one the thread is
\* at is open.  As long as it reads packets, none is left for a socket that is
\* gone.
InLoop == {"shut", "recv", "wakeReceiver", "send"}

Located ==
  /\ todo \subseteq Sockets
  /\ pc \in InLoop => at \in Conn /\ socket[at].st = "open"
  /\ pc # "ended" => \A c \in Conn : socket[c].st = "gone" => tun[c].data = 0

-----------------------------------------------------------------------------
(* One connection: its socket s, its control k, its relay r, its packets p, *)
(* its client cl and the bytes due d.                                      *)

\* Before its SYN has come, nothing has happened to it.
Unborn(s, k, r, p, cl) ==
  s.st = "none" =>
    /\ s = NoSocket /\ k = NewControl /\ r = NoRelay /\ ~ cl.eof
    /\ p.data = 0 /\ p.ack = 0 /\ ~ p.ackFin

\* Down: the FIN is sent after the last byte has been acknowledged, and the
\* relay writes none after it has asked for the FIN.
DownWhole(s, k, p, cl, d) ==
  /\ s.st \in {"none", "open"} => d.down = (k.out + s.tx) - p.ack
  /\ s.st \in {"none", "open"} => p.ack <= s.out /\ s.out <= s.tx
  /\ s.fin => k.send # "Normal" /\ k.out = 0 /\ s.tx = 0
  /\ s.finOut \/ s.acked \/ p.ackFin \/ cl.eof => s.fin
  /\ cl.eof => d.down = 0

\* Up: the relay is told of the end when the FIN of the client is in the socket
\* and the data before it has left, or when the socket was closed.
Ended(s, p) == s.finIn /\ s.rx = 0 /\ p.data = 0
ClosedWith(s, p, cl) == s.lost = s.rx /\ p.data = 0 /\ (cl.rst \/ s.fin)

UpWhole(s, k, r, p, cl, d) ==
  /\ d.up = p.data + s.rx + k.in
  /\ p.rst => cl.rst
  /\ p.fin => cl.fin
  /\ s.finIn => cl.fin /\ p.data = 0
  /\ s.st = "closed" => ClosedWith(s, p, cl)
  /\ k.recv = "Closed" => Ended(s, p) \/ (s.st \in {"closed", "gone"} /\ ClosedWith(s, p, cl))
  /\ r.reads = "eof" => r.at = "up" /\ k.recv = "Closed" /\ k.in = 0

\* A relay that lives has asked itself for the end of its stream.
AskedFor(s, k, r) ==
  r.at \in {"queued", "up"} /\ (k.send \in {"Close", "Closing"} \/ s.fin) =>
    r.at = "up" /\ r.writes \in {"shut", "done"}

Whole(s, k, r, p, cl, d) ==
  /\ Unborn(s, k, r, p, cl) /\ DownWhole(s, k, p, cl, d)
  /\ UpWhole(s, k, r, p, cl, d) /\ AskedFor(s, k, r)

\* With the types.
Good(s, k, r, p, cl, d) ==
  /\ s \in Socket /\ k \in Control /\ r \in Relay /\ p \in Packet /\ cl \in Client /\ d \in Due
  /\ Whole(s, k, r, p, cl, d)

WholeAt(c) == Whole(socket[c], ctl[c], relay[c], tun[c], client[c], due[c])

IInv == Types /\ Located /\ \A c \in Conn : WholeAt(c)

\* What a socket that is open becomes when its packets have been read.
LEMMA PolledFact ==
  ASSUME NEW s \in Socket, NEW p \in Packet, NEW waited \in BOOLEAN, s.st = "open",
         p.ack <= s.out, s.out <= s.tx
  PROVE  LET t == Polled(s, p, waited)
         IN /\ t \in Socket
            /\ t.st \in {"open", "closed"} /\ t.fin = s.fin
            /\ t.rx = s.rx + p.data /\ t.tx = s.tx - p.ack /\ t.out <= t.tx /\ t.out \in Nat
            /\ t.finIn <=> s.finIn \/ p.fin
            /\ t.finOut => s.finOut \/ s.fin
            /\ t.acked => s.acked \/ p.ackFin
            /\ t.st = "closed" => t.lost = t.rx /\ (p.rst \/ s.acked \/ p.ackFin)
<1> DEFINE t == [s EXCEPT !.rx = @ + p.data, !.finIn = @ \/ p.fin, !.tx = @ - p.ack,
                          !.out = @ - p.ack, !.acked = @ \/ p.ackFin]
           ended == p.rst \/ (t.acked /\ t.passive) \/ (s.acked /\ s.finIn /\ waited)
           closed == [t EXCEPT !.st = "closed", !.lost = t.rx]
<1>1. /\ s.rx + p.data \in Nat /\ s.tx - p.ack \in Nat /\ s.out - p.ack \in Nat
      /\ s.out - p.ack <= s.tx - p.ack
  BY DEF Socket, Packet
<1>2. (s.finIn \/ p.fin) \in BOOLEAN /\ (s.acked \/ p.ackFin) \in BOOLEAN
  OBVIOUS
<1>3. t \in Socket
  BY <1>1, <1>2 DEF Socket
<1>4. /\ t.st = "open" /\ t.fin = s.fin /\ t.finOut = s.finOut /\ t.passive = s.passive
      /\ t.rx = s.rx + p.data /\ t.tx = s.tx - p.ack /\ t.out = s.out - p.ack
      /\ t.finIn = (s.finIn \/ p.fin) /\ t.acked = (s.acked \/ p.ackFin)
  BY DEF Socket
<1>5. Polled(s, p, waited) = IF ended THEN closed ELSE Transmitted(t)
  BY DEF Polled
<1> HIDE DEF t
<1>6. /\ closed \in Socket /\ closed.st = "closed" /\ closed.fin = t.fin /\ closed.rx = t.rx
      /\ closed.tx = t.tx /\ closed.out = t.out /\ closed.finIn = t.finIn
      /\ closed.finOut = t.finOut /\ closed.acked = t.acked /\ closed.lost = t.rx
  BY <1>3 DEF Socket
<1> DEFINE u == Transmitted(t)
<1>7. /\ u \in Socket /\ u.st = "open" /\ u.fin = t.fin /\ u.rx = t.rx /\ u.tx = t.tx
      /\ u.out = t.tx /\ u.finIn = t.finIn /\ u.finOut = t.fin /\ u.acked = t.acked
  BY <1>3, <1>4 DEF Transmitted, Socket
<1> HIDE DEF closed, u
<1>10. CASE ended /\ Polled(s, p, waited) = closed
  BY <1>1, <1>4, <1>6, <1>10
<1>11. CASE Polled(s, p, waited) = u
  <2>1. u.tx \in Nat /\ u.out = u.tx /\ u.out <= u.tx
    BY <1>1, <1>4, <1>7
  <2> QED
    BY <1>4, <1>7, <1>11, <2>1
<1> QED
  BY <1>5, <1>10, <1>11 DEF u

\* The packets of a connection are read.
LEMMA PolledGood ==
  ASSUME NEW s, NEW k, NEW r, NEW p, NEW cl, NEW d, Good(s, k, r, p, cl, d),
         NEW waited \in BOOLEAN,
         s.st = "gone" => p.data = 0,
         NEW e \in Client,
         e.fin = cl.fin /\ e.rst = cl.rst /\ e.eof = cl.eof
  PROVE  Good(Polled(s, p, waited),
              k,
              r, NoPacket, e, d)
<1> DEFINE s1 == Polled(s, p, waited)
           k1 == k
           r1 == r
           p1 == NoPacket
           c1 == e
           d1 == d
<1> USE DEF Good, Whole
<1>1. s1 \in Socket /\ k1 \in Control /\ r1 \in Relay /\ p1 \in Packet /\ c1 \in Client /\ d1 \in Due
  <2>1. s1 \in Socket
    <3>1. CASE s.st # "open"
      BY <3>1 DEF Polled
    <3>2. CASE s.st = "open"
      BY <3>2, PolledFact DEF DownWhole
    <3> QED
      BY <3>1, <3>2
  <2>2. NoPacket \in Packet
    BY DEF NoPacket, Packet
  <2> QED
    BY <2>1, <2>2
<1>2. Unborn(s1, k1, r1, p1, c1)
  <2>1. CASE s.st # "open"
    BY <2>1 DEF Unborn, Polled, NoPacket, NoSocket
  <2>2. CASE s.st = "open"
    BY <2>2, PolledFact DEF Unborn, DownWhole
  <2> QED
    BY <2>1, <2>2
<1>3. DownWhole(s1, k1, p1, c1, d1)
  <2>1. CASE s.st # "open"
    BY <2>1 DEF Unborn, DownWhole, Polled, NoPacket, Socket, Packet, Due, Control
  <2>2. CASE s.st = "open"
    <3>1. p.ack <= s.out /\ s.out <= s.tx /\ d.down = (k.out + s.tx) - p.ack
      BY <2>2 DEF DownWhole
    <3>2. /\ s1.fin = s.fin /\ s1.tx = s.tx - p.ack /\ s1.out \in Nat /\ s1.out <= s1.tx
          /\ s1.finOut => s.finOut \/ s.fin
          /\ s1.acked => s.acked \/ p.ackFin
      BY <2>2, <3>1, PolledFact
    <3>3. s.tx \in Nat /\ k.out \in Nat /\ p.ack \in Nat
      BY DEF Socket, Control, Packet
    <3>4. d.down = (k.out + s1.tx) - 0
      BY <3>1, <3>2, <3>3
    <3>5. s.fin => s1.tx = 0
      BY <3>1, <3>2, <3>3 DEF DownWhole, Socket
    <3>6. ~ NoPacket.ackFin /\ NoPacket.ack = 0
      BY DEF NoPacket
    <3> QED
      BY <3>2, <3>4, <3>5, <3>6 DEF DownWhole
  <2> QED
    BY <2>1, <2>2
<1>4. UpWhole(s1, k1, r1, p1, c1, d1)
  <2>1. CASE s.st # "open"
    BY <2>1
    DEF Unborn, UpWhole, Ended, ClosedWith, Polled, NoPacket, NoSocket, Socket, Control
  <2>2. CASE s.st = "open"
    <3>1. p.ack <= s.out /\ s.out <= s.tx /\ (s.acked \/ p.ackFin => s.fin)
      BY <2>2 DEF DownWhole
    <3>2. /\ s1.rx = s.rx + p.data /\ s1.st \in {"open", "closed"} /\ s1.fin = s.fin
          /\ s1.finIn <=> s.finIn \/ p.fin
          /\ s1.st = "closed" => s1.lost = s1.rx /\ (p.rst \/ s.acked \/ p.ackFin)
      BY <2>2, <3>1, PolledFact
    <3>3. d.up = 0 + s1.rx + k.in
      BY <3>2 DEF UpWhole, Socket, Packet, Control
    <3>4. k.recv = "Closed" => s1.finIn /\ s1.rx = 0
      BY <2>2, <3>2 DEF UpWhole, Ended, Socket
    <3>5. s1.st = "closed" => s1.lost = s1.rx /\ (cl.rst \/ s1.fin)
      BY <3>1, <3>2 DEF UpWhole
    <3>6. s1.finIn => cl.fin
      BY <3>2 DEF UpWhole
    <3>7. r.reads = "eof" => r.at = "up" /\ k.recv = "Closed" /\ k.in = 0
      BY DEF UpWhole
    <3>8. NoPacket.data = 0 /\ ~ NoPacket.rst /\ ~ NoPacket.fin
      BY DEF NoPacket
    <3> QED
      BY <3>3, <3>4, <3>5, <3>6, <3>7, <3>8 DEF UpWhole, Ended, ClosedWith
  <2> QED
    BY <2>1, <2>2
<1>5. AskedFor(s1, k1, r1)
  <2>1. CASE s.st # "open"
    BY <2>1 DEF Polled
  <2>2. CASE s.st = "open"
    BY <2>2, PolledFact DEF AskedFor, DownWhole
  <2> QED
    BY <2>1, <2>2
<1> QED
  BY <1>1, <1>2, <1>3, <1>4, <1>5

\* A SYN makes a socket, and a connection that is queued or dropped.
LEMMA BornGood ==
  ASSUME NEW s, NEW k, NEW r, NEW p, NEW cl, NEW d, Good(s, k, r, p, cl, d),
         s.st = "none",
         NEW l \in Control,
         NEW w \in {"queued", "gone"},
         \/ l = k /\ w = "queued"
         \/ l = Dropped(k) /\ w = "gone"
  PROVE  Good([NoSocket EXCEPT !.st = "open"],
              l,
              [r EXCEPT !.at = w], NoPacket, cl, d)
<1> DEFINE s1 == [NoSocket EXCEPT !.st = "open"]
           k1 == l
           r1 == [r EXCEPT !.at = w]
           p1 == NoPacket
           c1 == cl
           d1 == d
<1> USE DEF Good, Whole
<1>1. s1 \in Socket /\ k1 \in Control /\ r1 \in Relay /\ p1 \in Packet /\ c1 \in Client /\ d1 \in Due
  BY
  DEF DownWhole, UpWhole, Socket, Control, Relay, Packet, Client, Due, Dropped, NoPacket,
      NoSocket, NewControl, NoRelay
<1>2. Unborn(s1, k1, r1, p1, c1)
  BY
  DEF Unborn, Socket, Control, Relay, Packet, Client, Due, Dropped, NoPacket, NoSocket,
      NewControl, NoRelay
<1>3. DownWhole(s1, k1, p1, c1, d1)
  BY
  DEF Unborn, DownWhole, AskedFor, Socket, Control, Relay, Packet, Client, Due, Dropped,
      NoPacket, NoSocket, NewControl, NoRelay
<1>4. UpWhole(s1, k1, r1, p1, c1, d1)
  <2>1. k.in = 0 /\ k.recv = "Normal" /\ r.reads = "idle" /\ p.data = 0 /\ s.rx = 0
    BY DEF Unborn, NewControl, NoRelay, NoSocket
  <2>2. l.in = 0 /\ l.recv # "Closed"
    BY <2>1 DEF Dropped, Control
  <2>3. d.up = 0 /\ (p.rst => cl.rst) /\ (p.fin => cl.fin)
    BY <2>1 DEF UpWhole
  <2>4. s1.st = "open" /\ s1.rx = 0 /\ s1.finIn = FALSE /\ r1.reads = "idle"
    BY <2>1 DEF NoSocket, Relay
  <2> QED
    BY <2>2, <2>3, <2>4 DEF UpWhole, NoPacket
<1>5. AskedFor(s1, k1, r1)
  BY
  DEF Unborn, AskedFor, Socket, Control, Relay, Packet, Client, Due, Dropped, NoPacket,
      NoSocket, NewControl, NoRelay
<1> QED
  BY <1>1, <1>2, <1>3, <1>4, <1>5

\* A socket goes, by itself or with the thread.
LEMMA GoneGood ==
  ASSUME NEW s, NEW k, NEW r, NEW p, NEW cl, NEW d, Good(s, k, r, p, cl, d),
         s.st \in {"open", "closed"}
  PROVE  Good([s EXCEPT !.st = "gone"],
              k,
              r, p, cl, d)
<1> DEFINE s1 == [s EXCEPT !.st = "gone"]
           k1 == k
           r1 == r
           p1 == p
           c1 == cl
           d1 == d
<1> USE DEF Good, Whole
<1>1. s1 \in Socket /\ k1 \in Control /\ r1 \in Relay /\ p1 \in Packet /\ c1 \in Client /\ d1 \in Due
  BY DEF DownWhole, UpWhole, Socket, Control, Relay, Packet, Client, Due
<1>2. Unborn(s1, k1, r1, p1, c1)
  BY DEF Unborn, Socket, Control, Relay, Packet, Client, Due
<1>3. DownWhole(s1, k1, p1, c1, d1)
  BY DEF Unborn, DownWhole, AskedFor, Socket, Control, Relay, Packet, Client, Due
<1>4. UpWhole(s1, k1, r1, p1, c1, d1)
  BY
  DEF Unborn, DownWhole, UpWhole, Ended, ClosedWith, Socket, Control, Relay, Packet,
      Client, Due
<1>5. AskedFor(s1, k1, r1)
  BY DEF Unborn, AskedFor, Socket, Control, Relay, Packet, Client, Due
<1> QED
  BY <1>1, <1>2, <1>3, <1>4, <1>5

\* A socket transmits.
LEMMA TransmittedGood ==
  ASSUME NEW s, NEW k, NEW r, NEW p, NEW cl, NEW d, Good(s, k, r, p, cl, d)
  PROVE  Good(Transmitted(s),
              k,
              r, p, cl, d)
<1> DEFINE s1 == Transmitted(s)
           k1 == k
           r1 == r
           p1 == p
           c1 == cl
           d1 == d
<1> USE DEF Good, Whole
<1>1. s1 \in Socket /\ k1 \in Control /\ r1 \in Relay /\ p1 \in Packet /\ c1 \in Client /\ d1 \in Due
  BY
  DEF DownWhole, UpWhole, Socket, Control, Relay, Packet, Client, Due, Transmitted,
      NoSocket
<1>2. Unborn(s1, k1, r1, p1, c1)
  BY DEF Unborn, Socket, Control, Relay, Packet, Client, Due, Transmitted, NoSocket
<1>3. DownWhole(s1, k1, p1, c1, d1)
  BY
  DEF Unborn, DownWhole, AskedFor, Socket, Control, Relay, Packet, Client, Due,
      Transmitted, NoSocket
<1>4. UpWhole(s1, k1, r1, p1, c1, d1)
  BY
  DEF Unborn, DownWhole, UpWhole, Ended, ClosedWith, Socket, Control, Relay, Packet,
      Client, Due, Transmitted, NoSocket
<1>5. AskedFor(s1, k1, r1)
  BY
  DEF Unborn, AskedFor, Socket, Control, Relay, Packet, Client, Due, Transmitted, NoSocket
<1> QED
  BY <1>1, <1>2, <1>3, <1>4, <1>5

\* A closed socket closes its connection.
LEMMA ToldClosedGood ==
  ASSUME NEW s, NEW k, NEW r, NEW p, NEW cl, NEW d, Good(s, k, r, p, cl, d),
         s.st = "closed",
         NEW a \in BOOLEAN,
         NEW b \in BOOLEAN
  PROVE  Good(s,
              [k EXCEPT !.recv = "Closed", !.send = "Closed", !.recvWaker = FALSE, !.sendWaker = FALSE],
              [r EXCEPT !.recvWoken = a, !.sendWoken = b], p, cl, d)
<1> DEFINE s1 == s
           k1 == [k EXCEPT !.recv = "Closed", !.send = "Closed",
                           !.recvWaker = FALSE, !.sendWaker = FALSE]
           r1 == [r EXCEPT !.recvWoken = a, !.sendWoken = b]
           p1 == p
           c1 == cl
           d1 == d
<1> USE DEF Good, Whole
<1>1. s1 \in Socket /\ k1 \in Control /\ r1 \in Relay /\ p1 \in Packet /\ c1 \in Client /\ d1 \in Due
  BY DEF DownWhole, UpWhole, Socket, Control, Relay, Packet, Client, Due
<1>2. Unborn(s1, k1, r1, p1, c1)
  BY DEF Unborn, Socket, Control, Relay, Packet, Client, Due
<1>3. DownWhole(s1, k1, p1, c1, d1)
  BY DEF Unborn, DownWhole, AskedFor, Socket, Control, Relay, Packet, Client, Due
<1>4. UpWhole(s1, k1, r1, p1, c1, d1)
  BY
  DEF Unborn, DownWhole, UpWhole, Ended, ClosedWith, Socket, Control, Relay, Packet,
      Client, Due
<1>5. AskedFor(s1, k1, r1)
  BY DEF Unborn, AskedFor, Socket, Control, Relay, Packet, Client, Due
<1> QED
  BY <1>1, <1>2, <1>3, <1>4, <1>5

\* The writing half is closed.
LEMMA ClosesGood ==
  ASSUME NEW s, NEW k, NEW r, NEW p, NEW cl, NEW d, Good(s, k, r, p, cl, d),
         s.st = "open",
         k.send = "Close",
         s.tx = 0,
         k.out = 0
  PROVE  Good(CloseSocket(s),
              [k EXCEPT !.send = "Closing"],
              r, p, cl, d)
<1> DEFINE s1 == CloseSocket(s)
           k1 == [k EXCEPT !.send = "Closing"]
           r1 == r
           p1 == p
           c1 == cl
           d1 == d
<1> USE DEF Good, Whole
<1>1. s1 \in Socket /\ k1 \in Control /\ r1 \in Relay /\ p1 \in Packet /\ c1 \in Client /\ d1 \in Due
  BY DEF DownWhole, UpWhole, Socket, Control, Relay, Packet, Client, Due, CloseSocket
<1>2. Unborn(s1, k1, r1, p1, c1)
  BY DEF Unborn, Socket, Control, Relay, Packet, Client, Due, CloseSocket
<1>3. DownWhole(s1, k1, p1, c1, d1)
  BY
  DEF Unborn, DownWhole, AskedFor, Socket, Control, Relay, Packet, Client, Due,
      CloseSocket
<1>4. UpWhole(s1, k1, r1, p1, c1, d1)
  BY
  DEF Unborn, DownWhole, UpWhole, Ended, ClosedWith, Socket, Control, Relay, Packet,
      Client, Due, CloseSocket
<1>5. AskedFor(s1, k1, r1)
  BY DEF Unborn, AskedFor, Socket, Control, Relay, Packet, Client, Due, CloseSocket
<1> QED
  BY <1>1, <1>2, <1>3, <1>4, <1>5

\* Data goes from the socket to the connection.
LEMMA ReceivesGood ==
  ASSUME NEW s, NEW k, NEW r, NEW p, NEW cl, NEW d, Good(s, k, r, p, cl, d),
         s.st = "open",
         NEW n \in Nat,
         0 < n,
         n <= s.rx
  PROVE  Good([s EXCEPT !.rx = @ - n],
              [k EXCEPT !.in = @ + n],
              r, p, cl, d)
<1> DEFINE s1 == [s EXCEPT !.rx = @ - n]
           k1 == [k EXCEPT !.in = @ + n]
           r1 == r
           p1 == p
           c1 == cl
           d1 == d
<1> USE DEF Good, Whole
<1>1. s1 \in Socket /\ k1 \in Control /\ r1 \in Relay /\ p1 \in Packet /\ c1 \in Client /\ d1 \in Due
  BY DEF DownWhole, UpWhole, Socket, Control, Relay, Packet, Client, Due
<1>2. Unborn(s1, k1, r1, p1, c1)
  BY DEF Unborn, Socket, Control, Relay, Packet, Client, Due
<1>3. DownWhole(s1, k1, p1, c1, d1)
  BY DEF Unborn, DownWhole, AskedFor, Socket, Control, Relay, Packet, Client, Due
<1>4. UpWhole(s1, k1, r1, p1, c1, d1)
  BY
  DEF Unborn, DownWhole, UpWhole, Ended, ClosedWith, Socket, Control, Relay, Packet,
      Client, Due
<1>5. AskedFor(s1, k1, r1)
  BY DEF Unborn, AskedFor, Socket, Control, Relay, Packet, Client, Due
<1> QED
  BY <1>1, <1>2, <1>3, <1>4, <1>5

\* The relay is told of the FIN.
LEMMA HalfClosesGood ==
  ASSUME NEW s, NEW k, NEW r, NEW p, NEW cl, NEW d, Good(s, k, r, p, cl, d),
         s.st = "open",
         HalfClosed(s)
  PROVE  Good(s,
              [k EXCEPT !.recv = "Closed"],
              r, p, cl, d)
<1> DEFINE s1 == s
           k1 == [k EXCEPT !.recv = "Closed"]
           r1 == r
           p1 == p
           c1 == cl
           d1 == d
<1> USE DEF Good, Whole
<1>1. s1 \in Socket /\ k1 \in Control /\ r1 \in Relay /\ p1 \in Packet /\ c1 \in Client /\ d1 \in Due
  BY DEF DownWhole, UpWhole, Socket, Control, Relay, Packet, Client, Due, HalfClosed
<1>2. Unborn(s1, k1, r1, p1, c1)
  BY DEF Unborn, Socket, Control, Relay, Packet, Client, Due, HalfClosed
<1>3. DownWhole(s1, k1, p1, c1, d1)
  BY
  DEF Unborn, DownWhole, AskedFor, Socket, Control, Relay, Packet, Client, Due, HalfClosed
<1>4. UpWhole(s1, k1, r1, p1, c1, d1)
  BY
  DEF Unborn, DownWhole, UpWhole, Ended, ClosedWith, Socket, Control, Relay, Packet,
      Client, Due, HalfClosed
<1>5. AskedFor(s1, k1, r1)
  BY DEF Unborn, AskedFor, Socket, Control, Relay, Packet, Client, Due, HalfClosed
<1> QED
  BY <1>1, <1>2, <1>3, <1>4, <1>5

\* Data goes from the connection to the socket.
LEMMA SendsGood ==
  ASSUME NEW s, NEW k, NEW r, NEW p, NEW cl, NEW d, Good(s, k, r, p, cl, d),
         s.st = "open",
         ~ s.fin,
         NEW n \in Nat,
         0 < n,
         n <= k.out
  PROVE  Good([s EXCEPT !.tx = @ + n],
              [k EXCEPT !.out = @ - n],
              r, p, cl, d)
<1> DEFINE s1 == [s EXCEPT !.tx = @ + n]
           k1 == [k EXCEPT !.out = @ - n]
           r1 == r
           p1 == p
           c1 == cl
           d1 == d
<1> USE DEF Good, Whole
<1>1. s1 \in Socket /\ k1 \in Control /\ r1 \in Relay /\ p1 \in Packet /\ c1 \in Client /\ d1 \in Due
  BY DEF DownWhole, UpWhole, Socket, Control, Relay, Packet, Client, Due
<1>2. Unborn(s1, k1, r1, p1, c1)
  BY DEF Unborn, Socket, Control, Relay, Packet, Client, Due
<1>3. DownWhole(s1, k1, p1, c1, d1)
  BY DEF Unborn, DownWhole, AskedFor, Socket, Control, Relay, Packet, Client, Due
<1>4. UpWhole(s1, k1, r1, p1, c1, d1)
  BY
  DEF Unborn, DownWhole, UpWhole, Ended, ClosedWith, Socket, Control, Relay, Packet,
      Client, Due
<1>5. AskedFor(s1, k1, r1)
  BY DEF Unborn, AskedFor, Socket, Control, Relay, Packet, Client, Due
<1> QED
  BY <1>1, <1>2, <1>3, <1>4, <1>5

\* Wakers are called or registered.
LEMMA WakersGood ==
  ASSUME NEW s, NEW k, NEW r, NEW p, NEW cl, NEW d, Good(s, k, r, p, cl, d),
         s.st # "none",
         NEW l \in Control,
         l.recv = k.recv /\ l.send = k.send /\ l.in = k.in /\ l.out = k.out,
         NEW q \in Relay,
         q.at = r.at /\ q.reads = r.reads /\ q.writes = r.writes
  PROVE  Good(s,
              l,
              q, p, cl, d)
<1> DEFINE s1 == s
           k1 == l
           r1 == q
           p1 == p
           c1 == cl
           d1 == d
<1> USE DEF Good, Whole
<1>1. s1 \in Socket /\ k1 \in Control /\ r1 \in Relay /\ p1 \in Packet /\ c1 \in Client /\ d1 \in Due
  BY DEF DownWhole, UpWhole, Socket, Control, Relay, Packet, Client, Due
<1>2. Unborn(s1, k1, r1, p1, c1)
  BY DEF Unborn, Socket, Control, Relay, Packet, Client, Due
<1>3. DownWhole(s1, k1, p1, c1, d1)
  BY DEF Unborn, DownWhole, AskedFor, Socket, Control, Relay, Packet, Client, Due
<1>4. UpWhole(s1, k1, r1, p1, c1, d1)
  BY
  DEF Unborn, DownWhole, UpWhole, Ended, ClosedWith, Socket, Control, Relay, Packet,
      Client, Due
<1>5. AskedFor(s1, k1, r1)
  BY DEF Unborn, AskedFor, Socket, Control, Relay, Packet, Client, Due
<1> QED
  BY <1>1, <1>2, <1>3, <1>4, <1>5

\* A relay begins.
LEMMA AcceptGood ==
  ASSUME NEW s, NEW k, NEW r, NEW p, NEW cl, NEW d, Good(s, k, r, p, cl, d),
         r.at = "queued"
  PROVE  Good(s,
              k,
              [r EXCEPT !.at = "up"], p, cl, d)
<1> DEFINE s1 == s
           k1 == k
           r1 == [r EXCEPT !.at = "up"]
           p1 == p
           c1 == cl
           d1 == d
<1> USE DEF Good, Whole
<1>1. s1 \in Socket /\ k1 \in Control /\ r1 \in Relay /\ p1 \in Packet /\ c1 \in Client /\ d1 \in Due
  BY DEF DownWhole, UpWhole, Socket, Control, Relay, Packet, Client, Due, NoRelay
<1>2. Unborn(s1, k1, r1, p1, c1)
  BY DEF Unborn, Socket, Control, Relay, Packet, Client, Due, NoRelay
<1>3. DownWhole(s1, k1, p1, c1, d1)
  BY DEF Unborn, DownWhole, AskedFor, Socket, Control, Relay, Packet, Client, Due, NoRelay
<1>4. UpWhole(s1, k1, r1, p1, c1, d1)
  BY
  DEF Unborn, DownWhole, UpWhole, Ended, ClosedWith, Socket, Control, Relay, Packet,
      Client, Due, NoRelay
<1>5. AskedFor(s1, k1, r1)
  BY DEF Unborn, AskedFor, Socket, Control, Relay, Packet, Client, Due, NoRelay
<1> QED
  BY <1>1, <1>2, <1>3, <1>4, <1>5

\* A connection is dropped.
LEMMA DropGood ==
  ASSUME NEW s, NEW k, NEW r, NEW p, NEW cl, NEW d, Good(s, k, r, p, cl, d),
         r.at \in {"queued", "up"}
  PROVE  Good(s,
              Dropped(k),
              GoneRelay, p, cl, d)
<1> DEFINE s1 == s
           k1 == Dropped(k)
           r1 == GoneRelay
           p1 == p
           c1 == cl
           d1 == d
<1> USE DEF Good, Whole
<1>1. s1 \in Socket /\ k1 \in Control /\ r1 \in Relay /\ p1 \in Packet /\ c1 \in Client /\ d1 \in Due
  BY
  DEF DownWhole, UpWhole, Socket, Control, Relay, Packet, Client, Due, Dropped, GoneRelay,
      NoRelay
<1>2. Unborn(s1, k1, r1, p1, c1)
  BY DEF Unborn, Socket, Control, Relay, Packet, Client, Due, Dropped, GoneRelay, NoRelay
<1>3. DownWhole(s1, k1, p1, c1, d1)
  BY
  DEF Unborn, DownWhole, AskedFor, Socket, Control, Relay, Packet, Client, Due, Dropped,
      GoneRelay, NoRelay
<1>4. UpWhole(s1, k1, r1, p1, c1, d1)
  BY
  DEF Unborn, DownWhole, UpWhole, Ended, ClosedWith, Socket, Control, Relay, Packet,
      Client, Due, Dropped, GoneRelay, NoRelay
<1>5. AskedFor(s1, k1, r1)
  BY
  DEF Unborn, AskedFor, Socket, Control, Relay, Packet, Client, Due, Dropped, GoneRelay,
      NoRelay
<1> QED
  BY <1>1, <1>2, <1>3, <1>4, <1>5

\* A byte is read.
LEMMA ReadsGood ==
  ASSUME NEW s, NEW k, NEW r, NEW p, NEW cl, NEW d, Good(s, k, r, p, cl, d),
         r.at = "up",
         k.in > 0
  PROVE  Good(s,
              [k EXCEPT !.in = @ - 1],
              [r EXCEPT !.reads = "idle", !.recvWoken = FALSE], p, cl, [d EXCEPT !.up = @ - 1])
<1> DEFINE s1 == s
           k1 == [k EXCEPT !.in = @ - 1]
           r1 == [r EXCEPT !.reads = "idle", !.recvWoken = FALSE]
           p1 == p
           c1 == cl
           d1 == [d EXCEPT !.up = @ - 1]
<1> USE DEF Good, Whole
<1>1. s1 \in Socket /\ k1 \in Control /\ r1 \in Relay /\ p1 \in Packet /\ c1 \in Client /\ d1 \in Due
  <2>1. s1 \in Socket
    BY DEF Socket, Control, UpWhole, DownWhole
  <2>2. k1 \in Control
    BY DEF Control
  <2>3. r1 \in Relay
    BY DEF Relay
  <2>4. p1 \in Packet
    BY DEF Packet, Socket
  <2>5. c1 \in Client
    BY DEF Client
  <2>6. d1 \in Due
    BY DEF Due
  <2> QED
    BY <2>1, <2>2, <2>3, <2>4, <2>5, <2>6
<1>2. Unborn(s1, k1, r1, p1, c1)
  BY DEF Unborn, Socket, Control, Relay, Packet, Client, Due, NoRelay, NewControl
<1>3. DownWhole(s1, k1, p1, c1, d1)
  BY
  DEF Unborn, DownWhole, AskedFor, Socket, Control, Relay, Packet, Client, Due, NoRelay,
      NewControl
<1>4. UpWhole(s1, k1, r1, p1, c1, d1)
  BY
  DEF Unborn, DownWhole, UpWhole, Ended, ClosedWith, Socket, Control, Relay, Packet,
      Client, Due, NoRelay, NewControl
<1>5. AskedFor(s1, k1, r1)
  BY DEF Unborn, AskedFor, Socket, Control, Relay, Packet, Client, Due, NoRelay, NewControl
<1> QED
  BY <1>1, <1>2, <1>3, <1>4, <1>5

\* The end of a stream is read.
LEMMA ReadsEndGood ==
  ASSUME NEW s, NEW k, NEW r, NEW p, NEW cl, NEW d, Good(s, k, r, p, cl, d),
         r.at = "up",
         k.in = 0 /\ k.recv = "Closed"
  PROVE  Good(s,
              k,
              [r EXCEPT !.reads = "eof", !.recvWoken = FALSE], p, cl, d)
<1> DEFINE s1 == s
           k1 == k
           r1 == [r EXCEPT !.reads = "eof", !.recvWoken = FALSE]
           p1 == p
           c1 == cl
           d1 == d
<1> USE DEF Good, Whole
<1>1. s1 \in Socket /\ k1 \in Control /\ r1 \in Relay /\ p1 \in Packet /\ c1 \in Client /\ d1 \in Due
  BY DEF DownWhole, UpWhole, Socket, Control, Relay, Packet, Client, Due, NoRelay
<1>2. Unborn(s1, k1, r1, p1, c1)
  BY DEF Unborn, Socket, Control, Relay, Packet, Client, Due, NoRelay
<1>3. DownWhole(s1, k1, p1, c1, d1)
  BY DEF Unborn, DownWhole, AskedFor, Socket, Control, Relay, Packet, Client, Due, NoRelay
<1>4. UpWhole(s1, k1, r1, p1, c1, d1)
  BY
  DEF Unborn, DownWhole, UpWhole, Ended, ClosedWith, Socket, Control, Relay, Packet,
      Client, Due, NoRelay
<1>5. AskedFor(s1, k1, r1)
  BY DEF Unborn, AskedFor, Socket, Control, Relay, Packet, Client, Due, NoRelay
<1> QED
  BY <1>1, <1>2, <1>3, <1>4, <1>5

\* A reader finds nothing.
LEMMA ReaderSleepsGood ==
  ASSUME NEW s, NEW k, NEW r, NEW p, NEW cl, NEW d, Good(s, k, r, p, cl, d),
         r.at = "up",
         k.in = 0 /\ k.recv # "Closed"
  PROVE  Good(s,
              [k EXCEPT !.recvWaker = TRUE],
              [r EXCEPT !.reads = "wait", !.recvWoken = FALSE], p, cl, d)
<1> DEFINE s1 == s
           k1 == [k EXCEPT !.recvWaker = TRUE]
           r1 == [r EXCEPT !.reads = "wait", !.recvWoken = FALSE]
           p1 == p
           c1 == cl
           d1 == d
<1> USE DEF Good, Whole
<1>1. s1 \in Socket /\ k1 \in Control /\ r1 \in Relay /\ p1 \in Packet /\ c1 \in Client /\ d1 \in Due
  BY DEF DownWhole, UpWhole, Socket, Control, Relay, Packet, Client, Due, NoRelay
<1>2. Unborn(s1, k1, r1, p1, c1)
  BY DEF Unborn, Socket, Control, Relay, Packet, Client, Due, NoRelay
<1>3. DownWhole(s1, k1, p1, c1, d1)
  BY DEF Unborn, DownWhole, AskedFor, Socket, Control, Relay, Packet, Client, Due, NoRelay
<1>4. UpWhole(s1, k1, r1, p1, c1, d1)
  BY
  DEF Unborn, DownWhole, UpWhole, Ended, ClosedWith, Socket, Control, Relay, Packet,
      Client, Due, NoRelay
<1>5. AskedFor(s1, k1, r1)
  BY DEF Unborn, AskedFor, Socket, Control, Relay, Packet, Client, Due, NoRelay
<1> QED
  BY <1>1, <1>2, <1>3, <1>4, <1>5

\* A byte is written.
LEMMA WritesGood ==
  ASSUME NEW s, NEW k, NEW r, NEW p, NEW cl, NEW d, Good(s, k, r, p, cl, d),
         r.at = "up",
         r.writes \in {"idle", "wait"},
         k.send = "Normal"
  PROVE  Good(s,
              [k EXCEPT !.out = @ + 1],
              [r EXCEPT !.writes = "idle", !.sendWoken = FALSE], p, cl, [d EXCEPT !.down = @ + 1])
<1> DEFINE s1 == s
           k1 == [k EXCEPT !.out = @ + 1]
           r1 == [r EXCEPT !.writes = "idle", !.sendWoken = FALSE]
           p1 == p
           c1 == cl
           d1 == [d EXCEPT !.down = @ + 1]
<1> USE DEF Good, Whole
<1>1. s1 \in Socket /\ k1 \in Control /\ r1 \in Relay /\ p1 \in Packet /\ c1 \in Client /\ d1 \in Due
  <2>1. s1 \in Socket
    BY DEF Socket, Control, UpWhole, DownWhole
  <2>2. k1 \in Control
    BY DEF Control
  <2>3. r1 \in Relay
    BY DEF Relay
  <2>4. p1 \in Packet
    BY DEF Packet, Socket
  <2>5. c1 \in Client
    BY DEF Client
  <2>6. d1 \in Due
    BY DEF Due
  <2> QED
    BY <2>1, <2>2, <2>3, <2>4, <2>5, <2>6
<1>2. Unborn(s1, k1, r1, p1, c1)
  BY DEF Unborn, Socket, Control, Relay, Packet, Client, Due, NoRelay
<1>3. DownWhole(s1, k1, p1, c1, d1)
  BY DEF Unborn, DownWhole, AskedFor, Socket, Control, Relay, Packet, Client, Due, NoRelay
<1>4. UpWhole(s1, k1, r1, p1, c1, d1)
  BY
  DEF Unborn, DownWhole, UpWhole, Ended, ClosedWith, Socket, Control, Relay, Packet,
      Client, Due, NoRelay
<1>5. AskedFor(s1, k1, r1)
  BY DEF Unborn, AskedFor, Socket, Control, Relay, Packet, Client, Due, NoRelay
<1> QED
  BY <1>1, <1>2, <1>3, <1>4, <1>5

\* A writer finds no room.
LEMMA WriterSleepsGood ==
  ASSUME NEW s, NEW k, NEW r, NEW p, NEW cl, NEW d, Good(s, k, r, p, cl, d),
         r.at = "up",
         r.writes \in {"idle", "wait"},
         k.send = "Normal"
  PROVE  Good(s,
              [k EXCEPT !.sendWaker = TRUE],
              [r EXCEPT !.writes = "wait", !.sendWoken = FALSE], p, cl, d)
<1> DEFINE s1 == s
           k1 == [k EXCEPT !.sendWaker = TRUE]
           r1 == [r EXCEPT !.writes = "wait", !.sendWoken = FALSE]
           p1 == p
           c1 == cl
           d1 == d
<1> USE DEF Good, Whole
<1>1. s1 \in Socket /\ k1 \in Control /\ r1 \in Relay /\ p1 \in Packet /\ c1 \in Client /\ d1 \in Due
  BY DEF DownWhole, UpWhole, Socket, Control, Relay, Packet, Client, Due, NoRelay
<1>2. Unborn(s1, k1, r1, p1, c1)
  BY DEF Unborn, Socket, Control, Relay, Packet, Client, Due, NoRelay
<1>3. DownWhole(s1, k1, p1, c1, d1)
  BY DEF Unborn, DownWhole, AskedFor, Socket, Control, Relay, Packet, Client, Due, NoRelay
<1>4. UpWhole(s1, k1, r1, p1, c1, d1)
  BY
  DEF Unborn, DownWhole, UpWhole, Ended, ClosedWith, Socket, Control, Relay, Packet,
      Client, Due, NoRelay
<1>5. AskedFor(s1, k1, r1)
  BY DEF Unborn, AskedFor, Socket, Control, Relay, Packet, Client, Due, NoRelay
<1> QED
  BY <1>1, <1>2, <1>3, <1>4, <1>5

\* A relay asks for the end of its stream.
LEMMA AsksGood ==
  ASSUME NEW s, NEW k, NEW r, NEW p, NEW cl, NEW d, Good(s, k, r, p, cl, d),
         r.at = "up"
  PROVE  Good(s,
              [k EXCEPT !.send = IF @ = "Normal" THEN "Close" ELSE @, !.sendWaker = TRUE],
              [r EXCEPT !.writes = "shut", !.sendWoken = FALSE], p, cl, d)
<1> DEFINE s1 == s
           k1 == [k EXCEPT !.send = IF @ = "Normal" THEN "Close" ELSE @, !.sendWaker = TRUE]
           r1 == [r EXCEPT !.writes = "shut", !.sendWoken = FALSE]
           p1 == p
           c1 == cl
           d1 == d
<1> USE DEF Good, Whole
<1>1. s1 \in Socket /\ k1 \in Control /\ r1 \in Relay /\ p1 \in Packet /\ c1 \in Client /\ d1 \in Due
  BY DEF DownWhole, UpWhole, Socket, Control, Relay, Packet, Client, Due, NoRelay
<1>2. Unborn(s1, k1, r1, p1, c1)
  BY DEF Unborn, Socket, Control, Relay, Packet, Client, Due, NoRelay
<1>3. DownWhole(s1, k1, p1, c1, d1)
  BY DEF Unborn, DownWhole, AskedFor, Socket, Control, Relay, Packet, Client, Due, NoRelay
<1>4. UpWhole(s1, k1, r1, p1, c1, d1)
  BY
  DEF Unborn, DownWhole, UpWhole, Ended, ClosedWith, Socket, Control, Relay, Packet,
      Client, Due, NoRelay
<1>5. AskedFor(s1, k1, r1)
  BY DEF Unborn, AskedFor, Socket, Control, Relay, Packet, Client, Due, NoRelay
<1> QED
  BY <1>1, <1>2, <1>3, <1>4, <1>5

\* It learns that the stream has ended.
LEMMA DoneGood ==
  ASSUME NEW s, NEW k, NEW r, NEW p, NEW cl, NEW d, Good(s, k, r, p, cl, d),
         r.at = "up"
  PROVE  Good(s,
              k,
              [r EXCEPT !.writes = "done", !.sendWoken = FALSE], p, cl, d)
<1> DEFINE s1 == s
           k1 == k
           r1 == [r EXCEPT !.writes = "done", !.sendWoken = FALSE]
           p1 == p
           c1 == cl
           d1 == d
<1> USE DEF Good, Whole
<1>1. s1 \in Socket /\ k1 \in Control /\ r1 \in Relay /\ p1 \in Packet /\ c1 \in Client /\ d1 \in Due
  BY DEF DownWhole, UpWhole, Socket, Control, Relay, Packet, Client, Due, NoRelay
<1>2. Unborn(s1, k1, r1, p1, c1)
  BY DEF Unborn, Socket, Control, Relay, Packet, Client, Due, NoRelay
<1>3. DownWhole(s1, k1, p1, c1, d1)
  BY DEF Unborn, DownWhole, AskedFor, Socket, Control, Relay, Packet, Client, Due, NoRelay
<1>4. UpWhole(s1, k1, r1, p1, c1, d1)
  BY
  DEF Unborn, DownWhole, UpWhole, Ended, ClosedWith, Socket, Control, Relay, Packet,
      Client, Due, NoRelay
<1>5. AskedFor(s1, k1, r1)
  BY DEF Unborn, AskedFor, Socket, Control, Relay, Packet, Client, Due, NoRelay
<1> QED
  BY <1>1, <1>2, <1>3, <1>4, <1>5

\* A client opens.
LEMMA SynGood ==
  ASSUME NEW s, NEW k, NEW r, NEW p, NEW cl, NEW d, Good(s, k, r, p, cl, d),
         s.st = "none"
  PROVE  Good(s,
              k,
              r, [p EXCEPT !.syn = TRUE], [cl EXCEPT !.syn = TRUE], d)
<1> DEFINE s1 == s
           k1 == k
           r1 == r
           p1 == [p EXCEPT !.syn = TRUE]
           c1 == [cl EXCEPT !.syn = TRUE]
           d1 == d
<1> USE DEF Good, Whole
<1>1. s1 \in Socket /\ k1 \in Control /\ r1 \in Relay /\ p1 \in Packet /\ c1 \in Client /\ d1 \in Due
  BY DEF DownWhole, UpWhole, Socket, Control, Relay, Packet, Client, Due
<1>2. Unborn(s1, k1, r1, p1, c1)
  BY DEF Unborn, Socket, Control, Relay, Packet, Client, Due
<1>3. DownWhole(s1, k1, p1, c1, d1)
  BY DEF Unborn, DownWhole, AskedFor, Socket, Control, Relay, Packet, Client, Due
<1>4. UpWhole(s1, k1, r1, p1, c1, d1)
  BY
  DEF Unborn, DownWhole, UpWhole, Ended, ClosedWith, Socket, Control, Relay, Packet,
      Client, Due
<1>5. AskedFor(s1, k1, r1)
  BY DEF Unborn, AskedFor, Socket, Control, Relay, Packet, Client, Due
<1> QED
  BY <1>1, <1>2, <1>3, <1>4, <1>5

\* A client sends a byte.
LEMMA SendByteGood ==
  ASSUME NEW s, NEW k, NEW r, NEW p, NEW cl, NEW d, Good(s, k, r, p, cl, d),
         s.st = "open",
         ~ cl.fin
  PROVE  Good(s,
              k,
              r, [p EXCEPT !.data = @ + 1], cl, [d EXCEPT !.up = @ + 1])
<1> DEFINE s1 == s
           k1 == k
           r1 == r
           p1 == [p EXCEPT !.data = @ + 1]
           c1 == cl
           d1 == [d EXCEPT !.up = @ + 1]
<1> USE DEF Good, Whole
<1>1. s1 \in Socket /\ k1 \in Control /\ r1 \in Relay /\ p1 \in Packet /\ c1 \in Client /\ d1 \in Due
  BY DEF DownWhole, UpWhole, Socket, Control, Relay, Packet, Client, Due
<1>2. Unborn(s1, k1, r1, p1, c1)
  BY DEF Unborn, Socket, Control, Relay, Packet, Client, Due
<1>3. DownWhole(s1, k1, p1, c1, d1)
  BY DEF Unborn, DownWhole, AskedFor, Socket, Control, Relay, Packet, Client, Due
<1>4. UpWhole(s1, k1, r1, p1, c1, d1)
  BY
  DEF Unborn, DownWhole, UpWhole, Ended, ClosedWith, Socket, Control, Relay, Packet,
      Client, Due
<1>5. AskedFor(s1, k1, r1)
  BY DEF Unborn, AskedFor, Socket, Control, Relay, Packet, Client, Due
<1> QED
  BY <1>1, <1>2, <1>3, <1>4, <1>5

\* A client finishes.
LEMMA FinishGood ==
  ASSUME NEW s, NEW k, NEW r, NEW p, NEW cl, NEW d, Good(s, k, r, p, cl, d),
         s.st = "open"
  PROVE  Good(s,
              k,
              r, [p EXCEPT !.fin = TRUE], [cl EXCEPT !.fin = TRUE], d)
<1> DEFINE s1 == s
           k1 == k
           r1 == r
           p1 == [p EXCEPT !.fin = TRUE]
           c1 == [cl EXCEPT !.fin = TRUE]
           d1 == d
<1> USE DEF Good, Whole
<1>1. s1 \in Socket /\ k1 \in Control /\ r1 \in Relay /\ p1 \in Packet /\ c1 \in Client /\ d1 \in Due
  BY DEF DownWhole, UpWhole, Socket, Control, Relay, Packet, Client, Due
<1>2. Unborn(s1, k1, r1, p1, c1)
  BY DEF Unborn, Socket, Control, Relay, Packet, Client, Due
<1>3. DownWhole(s1, k1, p1, c1, d1)
  BY DEF Unborn, DownWhole, AskedFor, Socket, Control, Relay, Packet, Client, Due
<1>4. UpWhole(s1, k1, r1, p1, c1, d1)
  BY
  DEF Unborn, DownWhole, UpWhole, Ended, ClosedWith, Socket, Control, Relay, Packet,
      Client, Due
<1>5. AskedFor(s1, k1, r1)
  BY DEF Unborn, AskedFor, Socket, Control, Relay, Packet, Client, Due
<1> QED
  BY <1>1, <1>2, <1>3, <1>4, <1>5

\* A client resets the connection.
LEMMA ResetGood ==
  ASSUME NEW s, NEW k, NEW r, NEW p, NEW cl, NEW d, Good(s, k, r, p, cl, d),
         s.st = "open"
  PROVE  Good(s,
              k,
              r, [p EXCEPT !.rst = TRUE], [cl EXCEPT !.rst = TRUE], d)
<1> DEFINE s1 == s
           k1 == k
           r1 == r
           p1 == [p EXCEPT !.rst = TRUE]
           c1 == [cl EXCEPT !.rst = TRUE]
           d1 == d
<1> USE DEF Good, Whole
<1>1. s1 \in Socket /\ k1 \in Control /\ r1 \in Relay /\ p1 \in Packet /\ c1 \in Client /\ d1 \in Due
  BY DEF DownWhole, UpWhole, Socket, Control, Relay, Packet, Client, Due
<1>2. Unborn(s1, k1, r1, p1, c1)
  BY DEF Unborn, Socket, Control, Relay, Packet, Client, Due
<1>3. DownWhole(s1, k1, p1, c1, d1)
  BY DEF Unborn, DownWhole, AskedFor, Socket, Control, Relay, Packet, Client, Due
<1>4. UpWhole(s1, k1, r1, p1, c1, d1)
  BY
  DEF Unborn, DownWhole, UpWhole, Ended, ClosedWith, Socket, Control, Relay, Packet,
      Client, Due
<1>5. AskedFor(s1, k1, r1)
  BY DEF Unborn, AskedFor, Socket, Control, Relay, Packet, Client, Due
<1> QED
  BY <1>1, <1>2, <1>3, <1>4, <1>5

\* A client acknowledges what was transmitted, and sees the end behind it.
LEMMA AcknowledgeGood ==
  ASSUME NEW s, NEW k, NEW r, NEW p, NEW cl, NEW d, Good(s, k, r, p, cl, d),
         s.st = "open",
         NEW f \in BOOLEAN,
         f => s.finOut
  PROVE  Good(s,
              k,
              r, [p EXCEPT !.ack = s.out, !.ackFin = @ \/ f], [cl EXCEPT !.eof = @ \/ f],
              [d EXCEPT !.down = @ - (s.out - p.ack)])
<1> DEFINE s1 == s
           k1 == k
           r1 == r
           p1 == [p EXCEPT !.ack = s.out, !.ackFin = @ \/ f]
           c1 == [cl EXCEPT !.eof = @ \/ f]
           d1 == [d EXCEPT !.down = @ - (s.out - p.ack)]
<1> USE DEF Good, Whole
<1>1. s1 \in Socket /\ k1 \in Control /\ r1 \in Relay /\ p1 \in Packet /\ c1 \in Client /\ d1 \in Due
  <2>1. s1 \in Socket
    BY DEF Socket, Control, UpWhole, DownWhole
  <2>2. k1 \in Control
    BY DEF Control
  <2>3. r1 \in Relay
    BY DEF Relay
  <2>4. p1 \in Packet
    BY DEF Packet, Socket
  <2>5. c1 \in Client
    BY DEF Client
  <2>6. d1 \in Due
    BY DEF Due, Packet, Socket
  <2> QED
    BY <2>1, <2>2, <2>3, <2>4, <2>5, <2>6
<1>2. Unborn(s1, k1, r1, p1, c1)
  BY DEF Unborn, Socket, Control, Relay, Packet, Client, Due
<1>3. DownWhole(s1, k1, p1, c1, d1)
  BY DEF Unborn, DownWhole, AskedFor, Socket, Control, Relay, Packet, Client, Due
<1>4. UpWhole(s1, k1, r1, p1, c1, d1)
  BY
  DEF Unborn, DownWhole, UpWhole, Ended, ClosedWith, Socket, Control, Relay, Packet,
      Client, Due
<1>5. AskedFor(s1, k1, r1)
  BY DEF Unborn, AskedFor, Socket, Control, Relay, Packet, Client, Due
<1> QED
  BY <1>1, <1>2, <1>3, <1>4, <1>5

-----------------------------------------------------------------------------
(* The steps *)

Held == Types /\ \A c \in Conn : WholeAt(c)

\* A function that changes at c only, or not at all.
Becomes(g, f, c, v) == g = [f EXCEPT ![c] = v] \/ (g = f /\ v = f[c])

\* What is known of a connection.
LEMMA GoodAt ==
  ASSUME IInv, NEW c \in Conn
  PROVE  Good(socket[c], ctl[c], relay[c], tun[c], client[c], due[c])
  BY DEF IInv, Types, WholeAt, Good

\* It is enough to look at each connection.
LEMMA EachChanged ==
  ASSUME socket' = [c \in Conn |-> socket'[c]], ctl' = [c \in Conn |-> ctl'[c]],
         relay' = [c \in Conn |-> relay'[c]], tun' = [c \in Conn |-> tun'[c]],
         client' = [c \in Conn |-> client'[c]], due' = [c \in Conn |-> due'[c]],
         \A c \in Conn : Good(socket'[c], ctl'[c], relay'[c], tun'[c], client'[c], due'[c])
  PROVE  Held'
<1>1. \A c \in Conn : WholeAt(c)'
  BY DEF WholeAt, Good
<1>2. /\ \A c \in Conn : socket'[c] \in Socket /\ ctl'[c] \in Control /\ relay'[c] \in Relay
      /\ \A c \in Conn : tun'[c] \in Packet /\ client'[c] \in Client /\ due'[c] \in Due
  BY DEF Good
<1>3. Types'
  BY <1>2 DEF Types
<1> QED
  BY <1>1, <1>3 DEF Held

\* It is enough to look at the connection that changes.
LEMMA OneChanged ==
  ASSUME IInv, NEW c \in Conn, NEW s, NEW k, NEW r, NEW p, NEW cl, NEW d,
         Good(s, k, r, p, cl, d),
         Becomes(socket', socket, c, s), Becomes(ctl', ctl, c, k), Becomes(relay', relay, c, r),
         Becomes(tun', tun, c, p), Becomes(client', client, c, cl), Becomes(due', due, c, d)
  PROVE  Held'
<1>1. s \in Socket /\ k \in Control /\ r \in Relay /\ p \in Packet /\ cl \in Client /\ d \in Due
  BY DEF Good
<1>2. /\ socket' \in [Conn -> Socket] /\ socket'[c] = s
      /\ \A b \in Conn : b # c => socket'[b] = socket[b]
      /\ ctl' \in [Conn -> Control] /\ ctl'[c] = k /\ \A b \in Conn : b # c => ctl'[b] = ctl[b]
  BY <1>1 DEF Becomes, IInv, Types
<1>3. /\ relay' \in [Conn -> Relay] /\ relay'[c] = r /\ \A b \in Conn : b # c => relay'[b] = relay[b]
      /\ tun' \in [Conn -> Packet] /\ tun'[c] = p /\ \A b \in Conn : b # c => tun'[b] = tun[b]
  BY <1>1 DEF Becomes, IInv, Types
<1>4. /\ client' \in [Conn -> Client] /\ client'[c] = cl
      /\ \A b \in Conn : b # c => client'[b] = client[b]
      /\ due' \in [Conn -> Due] /\ due'[c] = d /\ \A b \in Conn : b # c => due'[b] = due[b]
  BY <1>1 DEF Becomes, IInv, Types
<1>5. ASSUME NEW b \in Conn
      PROVE  WholeAt(b)'
  <2>1. CASE b = c
    BY <1>2, <1>3, <1>4, <2>1 DEF WholeAt, Good
  <2>2. CASE b # c
    BY <1>2, <1>3, <1>4, <2>2 DEF WholeAt, IInv
  <2> QED
    BY <2>1, <2>2
<1> QED
  BY <1>2, <1>3, <1>4, <1>5 DEF Held, Types

\* Nothing of it changes.
LEMMA NoneChanged ==
  ASSUME IInv, UNCHANGED <<socket, ctl, relay, tun, client, due>>
  PROVE  Held'
  BY DEF IInv, Held, Types, WholeAt

\* Every step keeps the types and what is known of each connection.
LEMMA HeldStep ==
  ASSUME IInv, [Next]_vars
  PROVE  Held'
<1> USE DEF threadVars, outerVars
<1>1. CASE ReadPackets
  <2>1. PICK new \in SUBSET Fresh, waited \in BOOLEAN :
       /\ socket' = [c \in Conn |-> IF c \in new THEN [NoSocket EXCEPT !.st = "open"]
                                    ELSE Polled(socket[c], tun[c], waited)]
       /\ ctl' = [c \in Conn |-> IF c \in new /\ ~ wired THEN Dropped(ctl[c]) ELSE ctl[c]]
       /\ relay' = [c \in Conn |-> IF c \notin new THEN relay[c]
                                   ELSE [relay[c] EXCEPT !.at = IF wired THEN "queued" ELSE "gone"]]
       /\ client' = [c \in Conn |-> IF tun[c].syn /\ c \notin new
                                    THEN [client[c] EXCEPT !.syn = FALSE] ELSE client[c]]
    BY <1>1 DEF ReadPackets
  <2>2. tun' = [c \in Conn |-> NoPacket] /\ due' = due /\ pc # "ended"
    BY <1>1 DEF ReadPackets
  <2>3. /\ socket' = [c \in Conn |-> socket'[c]] /\ ctl' = [c \in Conn |-> ctl'[c]]
        /\ relay' = [c \in Conn |-> relay'[c]] /\ tun' = [c \in Conn |-> tun'[c]]
        /\ client' = [c \in Conn |-> client'[c]] /\ due' = [c \in Conn |-> due'[c]]
    BY <2>1, <2>2 DEF IInv, Types
  <2>4. ASSUME NEW b \in Conn
        PROVE  Good(socket'[b], ctl'[b], relay'[b], tun'[b], client'[b], due'[b])
    <3>1. tun'[b] = NoPacket /\ due'[b] = due[b]
      BY <2>2
    <3>2. CASE b \in new
      <4>1. socket[b].st = "none"
        BY <3>2 DEF Fresh
      <4>2. socket'[b] = [NoSocket EXCEPT !.st = "open"] /\ client'[b] = client[b]
        BY <2>1, <3>2
      <4>3. \/ /\ ctl'[b] = ctl[b] /\ relay'[b] = [relay[b] EXCEPT !.at = "queued"]
            \/ /\ ctl'[b] = Dropped(ctl[b]) /\ relay'[b] = [relay[b] EXCEPT !.at = "gone"]
        BY <2>1, <3>2
      <4>4. ctl[b] \in Control /\ Dropped(ctl[b]) \in Control
        BY DEF IInv, Types, Dropped, Control
      <4>5. Good([NoSocket EXCEPT !.st = "open"], ctl[b], [relay[b] EXCEPT !.at = "queued"],
                 NoPacket, client[b], due[b])
        BY <4>1, <4>4, GoodAt, BornGood
      <4>6. Good([NoSocket EXCEPT !.st = "open"], Dropped(ctl[b]), [relay[b] EXCEPT !.at = "gone"],
                 NoPacket, client[b], due[b])
        BY <4>1, <4>4, GoodAt, BornGood
      <4> QED
        BY <3>1, <4>2, <4>3, <4>5, <4>6
    <3>3. CASE b \notin new
      <4>1. /\ socket'[b] = Polled(socket[b], tun[b], waited) /\ ctl'[b] = ctl[b] /\ relay'[b] = relay[b]
            /\ client'[b] = client[b] \/ client'[b] = [client[b] EXCEPT !.syn = FALSE]
        BY <2>1, <3>3
      <4>2. client[b] \in Client
        BY DEF IInv, Types
      <4>3. /\ client'[b] \in Client /\ client'[b].fin = client[b].fin
            /\ client'[b].rst = client[b].rst /\ client'[b].eof = client[b].eof
        BY <4>1, <4>2 DEF Client
      <4>4. socket[b].st = "gone" => tun[b].data = 0
        BY <2>2 DEF IInv, Located
      <4> QED
        BY <3>1, <4>1, <4>3, <4>4, GoodAt, PolledGood
    <3> QED
      BY <3>2, <3>3
  <2> QED
    BY <2>3, <2>4, EachChanged
<1>2. CASE ReadFails
  <2>1. /\ socket' = [c \in Conn |-> socket'[c]] /\ ctl' = [c \in Conn |-> ctl'[c]]
        /\ relay' = [c \in Conn |-> relay'[c]] /\ tun' = [c \in Conn |-> tun'[c]]
        /\ client' = [c \in Conn |-> client'[c]] /\ due' = [c \in Conn |-> due'[c]]
    BY <1>2 DEF IInv, Types, ReadFails, Leave, Sockets, outerVars
  <2>2. ASSUME NEW b \in Conn
        PROVE  Good(socket'[b], ctl'[b], relay'[b], tun'[b], client'[b], due'[b])
    <3>1. /\ socket'[b] = IF b \in Sockets THEN [socket[b] EXCEPT !.st = "gone"] ELSE socket[b]
          /\ ctl'[b] = ctl[b] /\ relay'[b] = relay[b] /\ tun'[b] = tun[b]
          /\ client'[b] = client[b] /\ due'[b] = due[b]
      BY <1>2, <2>2 DEF ReadFails, Leave, outerVars
    <3>2. CASE socket[b].st \in {"open", "closed"}
      BY <2>2, <3>1, <3>2, GoodAt, GoneGood DEF Sockets
    <3>3. CASE socket[b].st \notin {"open", "closed"}
      BY <2>2, <3>1, <3>3, GoodAt DEF Sockets
    <3> QED
      BY <3>2, <3>3
  <2> QED
    BY <2>1, <2>2, EachChanged
<1>3. CASE Stops
  <2>1. /\ socket' = [c \in Conn |-> socket'[c]] /\ ctl' = [c \in Conn |-> ctl'[c]]
        /\ relay' = [c \in Conn |-> relay'[c]] /\ tun' = [c \in Conn |-> tun'[c]]
        /\ client' = [c \in Conn |-> client'[c]] /\ due' = [c \in Conn |-> due'[c]]
    BY <1>3 DEF IInv, Types, Stops, Leave, Sockets, outerVars
  <2>2. ASSUME NEW b \in Conn
        PROVE  Good(socket'[b], ctl'[b], relay'[b], tun'[b], client'[b], due'[b])
    <3>1. /\ socket'[b] = IF b \in Sockets THEN [socket[b] EXCEPT !.st = "gone"] ELSE socket[b]
          /\ ctl'[b] = ctl[b] /\ relay'[b] = relay[b] /\ tun'[b] = tun[b]
          /\ client'[b] = client[b] /\ due'[b] = due[b]
      BY <1>3, <2>2 DEF Stops, Leave, outerVars
    <3>2. CASE socket[b].st \in {"open", "closed"}
      BY <2>2, <3>1, <3>2, GoodAt, GoneGood DEF Sockets
    <3>3. CASE socket[b].st \notin {"open", "closed"}
      BY <2>2, <3>1, <3>3, GoodAt DEF Sockets
    <3> QED
      BY <3>2, <3>3
  <2> QED
    BY <2>1, <2>2, EachChanged
<1>4. CASE NextSocket
  <2>1. PICK c \in todo :
          /\ todo' = todo \ {c}
          /\ IF socket[c].st = "closed"
             THEN /\ ctl' = [ctl EXCEPT ![c].recv = "Closed", ![c].send = "Closed",
                                        ![c].recvWaker = FALSE, ![c].sendWaker = FALSE]
                  /\ relay' = [relay EXCEPT ![c].recvWoken = @ \/ ctl[c].recvWaker,
                                            ![c].sendWoken = @ \/ ctl[c].sendWaker]
             ELSE UNCHANGED <<ctl, relay>>
    BY <1>4 DEF NextSocket
  <2>2. c \in Conn
    BY DEF IInv, Located, Sockets
  <2>3. UNCHANGED <<socket, tun, client, due>>
    BY <1>4 DEF NextSocket, outerVars
  <2>4. CASE socket[c].st = "closed"
    <3> DEFINE k == [ctl[c] EXCEPT !.recv = "Closed", !.send = "Closed",
                                   !.recvWaker = FALSE, !.sendWaker = FALSE]
               r == [relay[c] EXCEPT !.recvWoken = @ \/ ctl[c].recvWaker,
                                     !.sendWoken = @ \/ ctl[c].sendWaker]
    <3>1. \A a, b \in BOOLEAN :
            Good(socket[c], k, [relay[c] EXCEPT !.recvWoken = a, !.sendWoken = b],
                 tun[c], client[c], due[c])
      BY <2>2, <2>4, GoodAt, ToldClosedGood
    <3>2. relay[c] \in Relay /\ ctl[c] \in Control
      BY <2>2 DEF IInv, Types
    <3>3. /\ (relay[c].recvWoken \/ ctl[c].recvWaker) \in BOOLEAN
          /\ (relay[c].sendWoken \/ ctl[c].sendWaker) \in BOOLEAN
      OBVIOUS
    <3>4. Good(socket[c], k, r, tun[c], client[c], due[c])
      BY <3>1, <3>3
    <3>5. ctl' = [ctl EXCEPT ![c] = k] /\ relay' = [relay EXCEPT ![c] = r]
      BY <2>1, <2>2, <2>4 DEF IInv, Types
    <3> QED
      BY <2>2, <2>3, <3>4, <3>5, OneChanged DEF Becomes
  <2>5. CASE socket[c].st # "closed"
    BY <2>1, <2>3, <2>5, NoneChanged
  <2> QED
    BY <2>4, <2>5
<1>5. CASE ShutWrite
  <2>1. at \in Conn /\ socket[at].st = "open"
    BY <1>5 DEF IInv, Located, InLoop, ShutWrite
  <2>2. CASE ctl[at].send = "Close" /\ socket[at].tx = 0 /\ ctl[at].out = 0
    <3>1. Good(CloseSocket(socket[at]), [ctl[at] EXCEPT !.send = "Closing"], relay[at],
              tun[at], client[at], due[at])
      BY <1>5, <2>1, <2>2, GoodAt, ClosesGood DEF ShutWrite
    <3> QED
      BY <1>5, <2>1, <2>2, <3>1, OneChanged DEF Becomes, ShutWrite
  <2>3. CASE ~ (ctl[at].send = "Close" /\ socket[at].tx = 0 /\ ctl[at].out = 0)
    BY <1>5, <2>3, NoneChanged DEF ShutWrite
  <2> QED
    BY <2>2, <2>3
<1>6. CASE Receive
  <2> DEFINE n == Least(socket[at].rx, BufferSize - ctl[at].in)
  <2>1. at \in Conn /\ socket[at].st = "open"
    BY <1>6 DEF IInv, Located, InLoop, Receive
  <2>2. n \in Nat /\ 0 < n /\ n <= socket[at].rx
    BY <1>6, <2>1, SizeAssumption DEF Receive, Least, IInv, Types, Socket, Control
  <2>3. /\ socket' = [socket EXCEPT ![at] = [socket[at] EXCEPT !.rx = @ - n]]
        /\ ctl' = [ctl EXCEPT ![at] = [ctl[at] EXCEPT !.in = @ + n]]
        /\ UNCHANGED <<relay, tun, client, due>>
    BY <1>6 DEF Receive, outerVars
  <2> HIDE DEF n
  <2>4. Good([socket[at] EXCEPT !.rx = @ - n], [ctl[at] EXCEPT !.in = @ + n], relay[at],
             tun[at], client[at], due[at])
    BY <2>1, <2>2, GoodAt, ReceivesGood
  <2> QED
    BY <2>1, <2>3, <2>4, OneChanged DEF Becomes
<1>7. CASE Received
  <2>1. at \in Conn /\ socket[at].st = "open"
    BY <1>7 DEF IInv, Located, InLoop, Received
  <2>2. CASE ctl[at].recv = "Normal" /\ HalfClosed(socket[at])
    <3>1. Good(socket[at], [ctl[at] EXCEPT !.recv = "Closed"], relay[at],
              tun[at], client[at], due[at])
      BY <1>7, <2>1, <2>2, GoodAt, HalfClosesGood DEF Received
    <3> QED
      BY <1>7, <2>1, <2>2, <3>1, OneChanged DEF Becomes, Received
  <2>3. CASE ~ (ctl[at].recv = "Normal" /\ HalfClosed(socket[at]))
    BY <1>7, <2>3, NoneChanged DEF Received
  <2> QED
    BY <2>2, <2>3
<1>8. CASE WakesReceiver
  <2>1. at \in Conn /\ socket[at].st = "open"
    BY <1>8 DEF IInv, Located, InLoop, WakesReceiver
  <2>2. CASE wakes
    <3> DEFINE k == [ctl[at] EXCEPT !.recvWaker = FALSE]
               r == [relay[at] EXCEPT !.recvWoken = @ \/ ctl[at].recvWaker]
    <3>1. ctl[at] \in Control /\ relay[at] \in Relay
      BY <2>1 DEF IInv, Types
    <3>2. (relay[at].recvWoken \/ ctl[at].recvWaker) \in BOOLEAN
      OBVIOUS
    <3>3. /\ k \in Control /\ k.recv = ctl[at].recv /\ k.send = ctl[at].send
          /\ k.in = ctl[at].in /\ k.out = ctl[at].out
      BY <3>1 DEF Control
    <3>4. /\ r \in Relay /\ r.at = relay[at].at /\ r.reads = relay[at].reads
          /\ r.writes = relay[at].writes
      BY <3>1, <3>2 DEF Relay
    <3>5. ctl' = [ctl EXCEPT ![at] = k] /\ relay' = [relay EXCEPT ![at] = r]
      BY <1>8, <2>2 DEF WakesReceiver, WakeReceiver
    <3>6. UNCHANGED <<socket, tun, client, due>>
      BY <1>8 DEF WakesReceiver, outerVars
    <3> HIDE DEF k, r
    <3>7. Good(socket[at], k, r, tun[at], client[at], due[at])
      BY <2>1, <3>3, <3>4, GoodAt, WakersGood
    <3> QED
      BY <2>1, <3>5, <3>6, <3>7, OneChanged DEF Becomes
  <2>3. CASE ~ wakes
    BY <1>8, <2>3, NoneChanged DEF WakesReceiver
  <2> QED
    BY <2>2, <2>3
<1>9. CASE Send
  <2> DEFINE n == Least(ctl[at].out, SocketSize - socket[at].tx)
  <2>1. at \in Conn /\ socket[at].st = "open"
    BY <1>9 DEF IInv, Located, InLoop, Send
  <2>2. n \in Nat /\ 0 < n /\ n <= ctl[at].out /\ ~ socket[at].fin
    BY <1>9, <2>1, SizeAssumption DEF Send, Least, CanSend, IInv, Types, Socket, Control
  <2>3. /\ socket' = [socket EXCEPT ![at] = [socket[at] EXCEPT !.tx = @ + n]]
        /\ ctl' = [ctl EXCEPT ![at] = [ctl[at] EXCEPT !.out = @ - n]]
        /\ UNCHANGED <<relay, tun, client, due>>
    BY <1>9 DEF Send, outerVars
  <2> HIDE DEF n
  <2>4. Good([socket[at] EXCEPT !.tx = @ + n], [ctl[at] EXCEPT !.out = @ - n], relay[at],
             tun[at], client[at], due[at])
    BY <2>1, <2>2, GoodAt, SendsGood
  <2> QED
    BY <2>1, <2>3, <2>4, OneChanged DEF Becomes
<1>10. CASE WakesSender
  <2>1. at \in Conn /\ socket[at].st = "open"
    BY <1>10 DEF IInv, Located, InLoop, WakesSender
  <2>2. CASE wakes
    <3> DEFINE k == [ctl[at] EXCEPT !.sendWaker = FALSE]
               r == [relay[at] EXCEPT !.sendWoken = @ \/ ctl[at].sendWaker]
    <3>1. ctl[at] \in Control /\ relay[at] \in Relay
      BY <2>1 DEF IInv, Types
    <3>2. (relay[at].sendWoken \/ ctl[at].sendWaker) \in BOOLEAN
      OBVIOUS
    <3>3. /\ k \in Control /\ k.recv = ctl[at].recv /\ k.send = ctl[at].send
          /\ k.in = ctl[at].in /\ k.out = ctl[at].out
      BY <3>1 DEF Control
    <3>4. /\ r \in Relay /\ r.at = relay[at].at /\ r.reads = relay[at].reads
          /\ r.writes = relay[at].writes
      BY <3>1, <3>2 DEF Relay
    <3>5. ctl' = [ctl EXCEPT ![at] = k] /\ relay' = [relay EXCEPT ![at] = r]
      BY <1>10, <2>2 DEF WakesSender, WakeSender
    <3>6. UNCHANGED <<socket, tun, client, due>>
      BY <1>10 DEF WakesSender, outerVars
    <3> HIDE DEF k, r
    <3>7. Good(socket[at], k, r, tun[at], client[at], due[at])
      BY <2>1, <3>3, <3>4, GoodAt, WakersGood
    <3> QED
      BY <2>1, <3>5, <3>6, <3>7, OneChanged DEF Becomes
  <2>3. CASE ~ wakes
    BY <1>10, <2>3, NoneChanged DEF WakesSender
  <2> QED
    BY <2>2, <2>3
<1>11. CASE EndRound
  <2>1. /\ socket' = [c \in Conn |-> socket'[c]] /\ ctl' = [c \in Conn |-> ctl'[c]]
        /\ relay' = [c \in Conn |-> relay'[c]] /\ tun' = [c \in Conn |-> tun'[c]]
        /\ client' = [c \in Conn |-> client'[c]] /\ due' = [c \in Conn |-> due'[c]]
    BY <1>11 DEF IInv, Types, EndRound, outerVars
  <2>2. ASSUME NEW b \in Conn
        PROVE  Good(socket'[b], ctl'[b], relay'[b], tun'[b], client'[b], due'[b])
    <3>1. /\ socket'[b] = IF socket[b].st = "closed" THEN [socket[b] EXCEPT !.st = "gone"]
                          ELSE Transmitted(socket[b])
          /\ ctl'[b] = ctl[b] /\ relay'[b] = relay[b] /\ tun'[b] = tun[b]
          /\ client'[b] = client[b] /\ due'[b] = due[b]
      BY <1>11, <2>2 DEF EndRound, outerVars
    <3>2. CASE socket[b].st = "closed"
      BY <2>2, <3>1, <3>2, GoodAt, GoneGood
    <3>3. CASE socket[b].st # "closed"
      BY <2>2, <3>1, <3>3, GoodAt, TransmittedGood
    <3> QED
      BY <3>2, <3>3
  <2> QED
    BY <2>1, <2>2, EachChanged
<1>12. CASE Selected \/ SelectFails \/ OtherPacket
  BY <1>12, NoneChanged DEF Selected, SelectFails, OtherPacket
<1>13. ASSUME NEW c \in Conn, Accept(c)
      PROVE  Held'
  <2>1. Good(socket[c], ctl[c], [relay[c] EXCEPT !.at = "up"], tun[c], client[c], due[c])
    BY <1>13, GoodAt, AcceptGood DEF Accept
  <2> QED
    BY <1>13, <2>1, OneChanged DEF Becomes, Accept, outerVars
<1>14. ASSUME NEW c \in Conn, DropConnection(c)
      PROVE  Held'
  <2>1. Good(socket[c], Dropped(ctl[c]), GoneRelay, tun[c], client[c], due[c])
    BY <1>14, GoodAt, DropGood DEF DropConnection, Up
  <2> QED
    BY <1>14, <2>1, OneChanged DEF Becomes, DropConnection, outerVars
<1>15. ASSUME NEW c \in Conn, PollRead(c)
      PROVE  Held'
  <2>1. relay[c].at = "up" /\ relay[c].reads # "eof" /\ UNCHANGED <<socket, tun, client>>
    BY <1>15 DEF PollRead, Up
  <2>2. CASE /\ ctl[c].in > 0
             /\ ctl' = [ctl EXCEPT ![c].in = @ - 1]
             /\ relay' = [relay EXCEPT ![c].reads = "idle", ![c].recvWoken = FALSE]
             /\ due' = [due EXCEPT ![c].up = @ - 1]
    <3>1. Good(socket[c], [ctl[c] EXCEPT !.in = @ - 1],
               [relay[c] EXCEPT !.reads = "idle", !.recvWoken = FALSE],
               tun[c], client[c], [due[c] EXCEPT !.up = @ - 1])
      BY <2>1, <2>2, GoodAt, ReadsGood
    <3>2. relay' = [relay EXCEPT ![c] = [relay[c] EXCEPT !.reads = "idle", !.recvWoken = FALSE]]
      BY <2>2 DEF IInv, Types
    <3> QED
      BY <2>1, <2>2, <3>1, <3>2, OneChanged DEF Becomes
  <2>3. CASE /\ ctl[c].in = 0 /\ ctl[c].recv = "Closed"
             /\ relay' = [relay EXCEPT ![c].reads = "eof", ![c].recvWoken = FALSE]
             /\ UNCHANGED <<ctl, due>>
    <3>1. Good(socket[c], ctl[c],
               [relay[c] EXCEPT !.reads = "eof", !.recvWoken = FALSE],
               tun[c], client[c], due[c])
      BY <2>1, <2>3, GoodAt, ReadsEndGood
    <3>2. relay' = [relay EXCEPT ![c] = [relay[c] EXCEPT !.reads = "eof", !.recvWoken = FALSE]]
      BY <2>3 DEF IInv, Types
    <3> QED
      BY <2>1, <2>3, <3>1, <3>2, OneChanged DEF Becomes
  <2>4. CASE /\ ctl[c].in = 0 /\ ctl[c].recv # "Closed"
             /\ ctl' = [ctl EXCEPT ![c].recvWaker = TRUE]
             /\ relay' = [relay EXCEPT ![c].reads = "wait", ![c].recvWoken = FALSE]
             /\ UNCHANGED due
    <3>1. Good(socket[c], [ctl[c] EXCEPT !.recvWaker = TRUE],
               [relay[c] EXCEPT !.reads = "wait", !.recvWoken = FALSE],
               tun[c], client[c], due[c])
      BY <2>1, <2>4, GoodAt, ReaderSleepsGood
    <3>2. relay' = [relay EXCEPT ![c] = [relay[c] EXCEPT !.reads = "wait", !.recvWoken = FALSE]]
      BY <2>4 DEF IInv, Types
    <3> QED
      BY <2>1, <2>4, <3>1, <3>2, OneChanged DEF Becomes
  <2> QED
    BY <1>15, <2>2, <2>3, <2>4 DEF PollRead
<1>16. ASSUME NEW c \in Conn, PollWrite(c)
      PROVE  Held'
  <2>1. relay[c].at = "up" /\ relay[c].writes \in {"idle", "wait"} /\ UNCHANGED <<socket, tun, client>>
    BY <1>16 DEF PollWrite, Up
  <2>2. CASE /\ ctl[c].send = "Normal"
             /\ ctl' = [ctl EXCEPT ![c].out = @ + 1]
             /\ relay' = [relay EXCEPT ![c].writes = "idle", ![c].sendWoken = FALSE]
             /\ due' = [due EXCEPT ![c].down = @ + 1]
    <3>1. Good(socket[c], [ctl[c] EXCEPT !.out = @ + 1],
               [relay[c] EXCEPT !.writes = "idle", !.sendWoken = FALSE],
               tun[c], client[c], [due[c] EXCEPT !.down = @ + 1])
      BY <2>1, <2>2, GoodAt, WritesGood
    <3>2. relay' = [relay EXCEPT ![c] = [relay[c] EXCEPT !.writes = "idle", !.sendWoken = FALSE]]
      BY <2>2 DEF IInv, Types
    <3> QED
      BY <2>1, <2>2, <3>1, <3>2, OneChanged DEF Becomes
  <2>3. CASE /\ ctl[c].send = "Normal"
             /\ ctl' = [ctl EXCEPT ![c].sendWaker = TRUE]
             /\ relay' = [relay EXCEPT ![c].writes = "wait", ![c].sendWoken = FALSE]
             /\ UNCHANGED due
    <3>1. Good(socket[c], [ctl[c] EXCEPT !.sendWaker = TRUE],
               [relay[c] EXCEPT !.writes = "wait", !.sendWoken = FALSE],
               tun[c], client[c], due[c])
      BY <2>1, <2>3, GoodAt, WriterSleepsGood
    <3>2. relay' = [relay EXCEPT ![c] = [relay[c] EXCEPT !.writes = "wait", !.sendWoken = FALSE]]
      BY <2>3 DEF IInv, Types
    <3> QED
      BY <2>1, <2>3, <3>1, <3>2, OneChanged DEF Becomes
  <2>4. CASE /\ ctl' = [ctl EXCEPT ![c] = Dropped(@)]
             /\ relay' = [relay EXCEPT ![c] = GoneRelay]
             /\ UNCHANGED due
    <3>1. Good(socket[c], Dropped(ctl[c]), GoneRelay, tun[c], client[c], due[c])
      BY <2>1, GoodAt, DropGood
    <3> QED
      BY <2>1, <2>4, <3>1, OneChanged DEF Becomes
  <2> QED
    BY <1>16, <2>2, <2>3, <2>4 DEF PollWrite
<1>17. ASSUME NEW c \in Conn, PollShutdown(c)
      PROVE  Held'
  <2> UNCHANGED <<socket, tun, client>> /\ relay[c] \in Relay /\ ctl[c] \in Control
    BY <1>17 DEF PollShutdown, outerVars, IInv, Types
  <2>1. CASE ctl[c].send = "Closed"
    <3>1. Good(socket[c], ctl[c],
               [relay[c] EXCEPT !.writes = "done", !.sendWoken = FALSE],
               tun[c], client[c], due[c])
      BY <1>17, <2>1, GoodAt, DoneGood DEF PollShutdown, Up
    <3>2. ctl' = ctl
      BY <1>17, <2>1 DEF PollShutdown, IInv, Types
    <3>3. relay' = [relay EXCEPT ![c] = [relay[c] EXCEPT !.writes = "done", !.sendWoken = FALSE]]
      BY <1>17, <2>1 DEF PollShutdown, IInv, Types
    <3>4. due' = due
      BY <1>17, <2>1 DEF PollShutdown, outerVars
    <3> QED
      BY <3>1, <3>2, <3>3, <3>4, OneChanged DEF Becomes
  <2>2. CASE ctl[c].send # "Closed"
    <3>1. Good(socket[c],
               [ctl[c] EXCEPT !.send = IF @ = "Normal" THEN "Close" ELSE @, !.sendWaker = TRUE],
               [relay[c] EXCEPT !.writes = "shut", !.sendWoken = FALSE],
               tun[c], client[c], due[c])
      BY <1>17, <2>2, GoodAt, AsksGood DEF PollShutdown, Up
    <3>2. ctl' = [ctl EXCEPT ![c] =
                    [ctl[c] EXCEPT !.send = IF @ = "Normal" THEN "Close" ELSE @, !.sendWaker = TRUE]]
      BY <1>17, <2>2 DEF PollShutdown, IInv, Types
    <3>3. relay' = [relay EXCEPT ![c] = [relay[c] EXCEPT !.writes = "shut", !.sendWoken = FALSE]]
      BY <1>17, <2>2 DEF PollShutdown, IInv, Types
    <3>4. due' = due
      BY <1>17, <2>2 DEF PollShutdown, outerVars
    <3> QED
      BY <3>1, <3>2, <3>3, <3>4, OneChanged DEF Becomes
  <2> QED
    BY <2>1, <2>2
<1>18. CASE Wire \/ Joined \/ Respond
  BY <1>18, NoneChanged DEF Wire, Joined, Respond
<1>19. CASE Shutdown
  <2>1. /\ socket' = [c \in Conn |-> socket'[c]] /\ ctl' = [c \in Conn |-> ctl'[c]]
        /\ relay' = [c \in Conn |-> relay'[c]] /\ tun' = [c \in Conn |-> tun'[c]]
        /\ client' = [c \in Conn |-> client'[c]] /\ due' = [c \in Conn |-> due'[c]]
    BY <1>19 DEF IInv, Types, Shutdown, outerVars
  <2>2. ASSUME NEW b \in Conn
        PROVE  Good(socket'[b], ctl'[b], relay'[b], tun'[b], client'[b], due'[b])
    <3>1. /\ ctl'[b] = IF relay[b].at = "queued" THEN Dropped(ctl[b]) ELSE ctl[b]
          /\ relay'[b] = IF relay[b].at = "queued" THEN GoneRelay ELSE relay[b]
          /\ socket'[b] = socket[b] /\ tun'[b] = tun[b] /\ client'[b] = client[b] /\ due'[b] = due[b]
      BY <1>19, <2>2 DEF Shutdown, outerVars
    <3>2. CASE relay[b].at = "queued"
      BY <2>2, <3>1, <3>2, GoodAt, DropGood
    <3>3. CASE relay[b].at # "queued"
      BY <2>2, <3>1, <3>3, GoodAt
    <3> QED
      BY <3>2, <3>3
  <2> QED
    BY <2>1, <2>2, EachChanged
<1>20. ASSUME NEW c \in Conn, Syn(c)
      PROVE  Held'
  <2>1. Good(socket[c], ctl[c], relay[c],
            [tun[c] EXCEPT !.syn = TRUE], [client[c] EXCEPT !.syn = TRUE], due[c])
    BY <1>20, GoodAt, SynGood DEF Syn, Open
  <2> QED
    BY <1>20, <2>1, OneChanged DEF Becomes, Syn, Put
<1>21. ASSUME NEW c \in Conn, SendByte(c)
      PROVE  Held'
  <2>1. Good(socket[c], ctl[c], relay[c],
            [tun[c] EXCEPT !.data = @ + 1], client[c], [due[c] EXCEPT !.up = @ + 1])
    BY <1>21, GoodAt, SendByteGood DEF SendByte, Open
  <2> QED
    BY <1>21, <2>1, OneChanged DEF Becomes, SendByte, Put
<1>22. ASSUME NEW c \in Conn, Finish(c)
      PROVE  Held'
  <2>1. Good(socket[c], ctl[c], relay[c],
            [tun[c] EXCEPT !.fin = TRUE], [client[c] EXCEPT !.fin = TRUE], due[c])
    BY <1>22, GoodAt, FinishGood DEF Finish, Open
  <2> QED
    BY <1>22, <2>1, OneChanged DEF Becomes, Finish, Put
<1>23. ASSUME NEW c \in Conn, Reset(c)
      PROVE  Held'
  <2>1. Good(socket[c], ctl[c], relay[c],
            [tun[c] EXCEPT !.rst = TRUE], [client[c] EXCEPT !.rst = TRUE], due[c])
    BY <1>23, GoodAt, ResetGood DEF Reset, Open
  <2> QED
    BY <1>23, <2>1, OneChanged DEF Becomes, Reset, Put
<1>24. ASSUME NEW c \in Conn, Acknowledge(c)
      PROVE  Held'
  <2> DEFINE f == socket[c].finOut /\ ~ socket[c].acked /\ ~ tun[c].ackFin
             p == [tun[c] EXCEPT !.ack = socket[c].out, !.ackFin = @ \/ f]
             cl == [client[c] EXCEPT !.eof = @ \/ f]
             d == [due[c] EXCEPT !.down = @ - (socket[c].out - tun[c].ack)]
  <2>1. f \in BOOLEAN /\ (f => socket[c].finOut) /\ socket[c].st = "open"
    BY <1>24 DEF Acknowledge, Open
  <2>2. Put(c, p, cl, d)
    BY <1>24 DEF Acknowledge
  <2> HIDE DEF f
  <2>3. Good(socket[c], ctl[c], relay[c], p, cl, d)
    BY <2>1, GoodAt, AcknowledgeGood
  <2> HIDE DEF p, cl, d
  <2> QED
    BY <2>2, <2>3, OneChanged DEF Becomes, Put
<1>25. CASE UNCHANGED vars
  BY <1>25, NoneChanged DEF vars
<1> QED
  BY <1>1, <1>2, <1>3, <1>4, <1>5, <1>6, <1>7, <1>8, <1>9, <1>10, <1>11, <1>12, <1>13,
     <1>14, <1>15, <1>16, <1>17, <1>18, <1>19, <1>20, <1>21, <1>22, <1>23, <1>24, <1>25
  DEF Next, Thread, Relays, Clients

\* Every step leaves the thread at an open socket.
LEMMA LocatedStep ==
  ASSUME IInv, [Next]_vars
  PROVE  Located'
<1> USE DEF threadVars, outerVars, Located, InLoop, Sockets
<1>1. CASE ReadPackets
  <2>1. PICK new \in SUBSET Fresh, waited \in BOOLEAN :
          /\ socket' = [c \in Conn |-> IF c \in new THEN [NoSocket EXCEPT !.st = "open"]
                                       ELSE Polled(socket[c], tun[c], waited)]
          /\ todo' = Sockets \cup new
    BY <1>1 DEF ReadPackets
  <2>2. pc' = "next" /\ tun' = [c \in Conn |-> NoPacket]
    BY <1>1 DEF ReadPackets
  <2>3. ASSUME NEW c \in Conn, c \in Sockets \/ c \in new
        PROVE  c \in Conn /\ socket'[c].st \in {"open", "closed"}
    <3>1. CASE c \in new
      BY <2>1, <3>1 DEF NoSocket
    <3>2. CASE c \notin new /\ socket[c].st = "closed"
      BY <2>1, <3>2 DEF Polled
    <3>3. CASE c \notin new /\ socket[c].st = "open"
      <4>1. tun[c].ack <= socket[c].out /\ socket[c].out <= socket[c].tx
        BY <3>3 DEF IInv, WholeAt, Whole, DownWhole
      <4>2. Polled(socket[c], tun[c], waited).st \in {"open", "closed"}
        BY <3>3, <4>1, PolledFact DEF IInv, Types
      <4> QED
        BY <2>1, <3>3, <4>2
    <3> QED
      BY <2>3, <3>1, <3>2, <3>3 DEF Sockets
  <2> QED
    BY <2>1, <2>2, <2>3 DEF NoPacket, Fresh
<1>2. CASE ReadFails
  BY <1>2 DEF IInv, Types, Socket, Control, Relay, Packet, Client, Due, ReadFails, Leave
<1>3. CASE Stops
  BY <1>3 DEF IInv, Types, Socket, Control, Relay, Packet, Client, Due, Stops, Leave
<1>4. CASE NextSocket
  BY <1>4 DEF IInv, Types, Socket, Control, Relay, Packet, Client, Due, NextSocket
<1>5. CASE ShutWrite
  <2>1. at \in Conn /\ socket[at].st = "open" /\ pc = "shut"
    BY <1>5 DEF IInv, ShutWrite
  <2>2. \A c \in Conn : socket'[c].st = socket[c].st
    <3>1. socket' = [socket EXCEPT ![at] = CloseSocket(@)] \/ socket' = socket
      BY <1>5 DEF ShutWrite
    <3>2. socket[at] \in Socket /\ socket \in [Conn -> Socket]
      BY <2>1 DEF IInv, Types
    <3>3. CloseSocket(socket[at]).st = socket[at].st
      BY <3>2 DEF CloseSocket, Socket
    <3> QED
      BY <2>1, <3>1, <3>2, <3>3
  <2> QED
    BY <1>5, <2>1, <2>2 DEF IInv, ShutWrite
<1>6. CASE Receive
  BY <1>6
  DEF IInv, Types, Socket, Control, Relay, Packet, Client, Due, Receive, Least, CanRecv
<1>7. CASE Received
  BY <1>7 DEF IInv, Types, Socket, Control, Relay, Packet, Client, Due, Received, HalfClosed
<1>8. CASE WakesReceiver
  BY <1>8
  DEF IInv, Types, Socket, Control, Relay, Packet, Client, Due, WakesReceiver,
      WakeReceiver
<1>9. CASE Send
  BY <1>9 DEF IInv, Types, Socket, Control, Relay, Packet, Client, Due, Send, Least, CanSend
<1>10. CASE WakesSender
  BY <1>10
  DEF IInv, Types, Socket, Control, Relay, Packet, Client, Due, WakesSender, WakeSender
<1>11. CASE EndRound
  <2>1. \A c \in Conn : socket'[c] = IF socket[c].st = "closed" THEN [socket[c] EXCEPT !.st = "gone"]
                                     ELSE Transmitted(socket[c])
    BY <1>11 DEF EndRound
  <2>2. \A c \in Conn : socket[c] \in Socket /\ (socket[c].st = "closed" => tun[c].data = 0)
    BY DEF IInv, Types, WholeAt, Whole, UpWhole, ClosedWith
  <2>3. \A c \in Conn : socket'[c].st = "gone" => socket[c].st \in {"closed", "gone"}
    BY <2>1, <2>2 DEF Transmitted, Socket
  <2>4. todo' = {} /\ pc' \notin {"shut", "recv", "wakeReceiver", "send"} /\ pc # "ended"
    BY <1>11 DEF EndRound
  <2>5. UNCHANGED tun
    BY <1>11 DEF EndRound
  <2> QED
    BY <2>2, <2>3, <2>4, <2>5 DEF IInv
<1>12. CASE Selected \/ SelectFails \/ OtherPacket
  BY <1>12
  DEF IInv, Types, Socket, Control, Relay, Packet, Client, Due, Selected, SelectFails,
      OtherPacket
<1>13. ASSUME NEW c \in Conn, Accept(c)
      PROVE  Located'
  BY <1>13 DEF IInv, Types, Socket, Control, Relay, Packet, Client, Due, Accept
<1>14. ASSUME NEW c \in Conn, DropConnection(c)
      PROVE  Located'
  BY <1>14
  DEF IInv, Types, Socket, Control, Relay, Packet, Client, Due, DropConnection, Up,
      Dropped, GoneRelay, NoRelay
<1>15. ASSUME NEW c \in Conn, PollRead(c)
      PROVE  Located'
  BY <1>15 DEF IInv, Types, Socket, Control, Relay, Packet, Client, Due, PollRead, Up
<1>16. ASSUME NEW c \in Conn, PollWrite(c)
      PROVE  Located'
  BY <1>16
  DEF IInv, Types, Socket, Control, Relay, Packet, Client, Due, PollWrite, Up, Dropped,
      GoneRelay, NoRelay
<1>17. ASSUME NEW c \in Conn, PollShutdown(c)
      PROVE  Located'
  BY <1>17 DEF IInv, Types, Socket, Control, Relay, Packet, Client, Due, PollShutdown, Up
<1>18. CASE Wire \/ Joined \/ Respond
  BY <1>18
  DEF IInv, Types, Socket, Control, Relay, Packet, Client, Due, Wire, Joined, Respond
<1>19. CASE Shutdown
  BY <1>19
  DEF IInv, Types, Socket, Control, Relay, Packet, Client, Due, Shutdown, GoneRelay,
      NoRelay, Dropped
<1>20. ASSUME NEW c \in Conn, Syn(c)
      PROVE  Located'
  BY <1>20 DEF IInv, Types, Socket, Control, Relay, Packet, Client, Due, Syn, Put
<1>21. ASSUME NEW c \in Conn, SendByte(c)
      PROVE  Located'
  BY <1>21 DEF IInv, Types, Socket, Control, Relay, Packet, Client, Due, SendByte, Open, Put
<1>22. ASSUME NEW c \in Conn, Finish(c)
      PROVE  Located'
  BY <1>22 DEF IInv, Types, Socket, Control, Relay, Packet, Client, Due, Finish, Open, Put
<1>23. ASSUME NEW c \in Conn, Reset(c)
      PROVE  Located'
  BY <1>23 DEF IInv, Types, Socket, Control, Relay, Packet, Client, Due, Reset, Open, Put
<1>24. ASSUME NEW c \in Conn, Acknowledge(c)
      PROVE  Located'
  BY <1>24
  DEF IInv, Types, Socket, Control, Relay, Packet, Client, Due, Acknowledge, Open, Put
<1>25. CASE UNCHANGED vars
  BY <1>25 DEF IInv, Types, Socket, Control, Relay, Packet, Client, Due, vars
<1> QED
  BY <1>1, <1>2, <1>3, <1>4, <1>5, <1>6, <1>7, <1>8, <1>9, <1>10, <1>11, <1>12, <1>13,
     <1>14, <1>15, <1>16, <1>17, <1>18, <1>19, <1>20, <1>21, <1>22, <1>23, <1>24, <1>25
  DEF Next, Thread, Relays, Clients

-----------------------------------------------------------------------------
(* The theorem *)

\* The program starts in a state of the invariant, and no step leaves it.
LEMMA InitIInv == Init => IInv
<1> SUFFICES ASSUME Init PROVE IInv
  OBVIOUS
<1>1. /\ socket = [c \in Conn |-> NoSocket] /\ ctl = [c \in Conn |-> NewControl]
      /\ relay = [c \in Conn |-> NoRelay] /\ tun = [c \in Conn |-> NoPacket]
      /\ client = [c \in Conn |-> [syn |-> FALSE, fin |-> FALSE, rst |-> FALSE, eof |-> FALSE]]
      /\ due = [c \in Conn |-> [up |-> 0, down |-> 0]]
      /\ todo = {} /\ pc = "top"
  BY DEF Init
<1>2. Types
  BY <1>1
  DEF Types, Socket, Control, Relay, Packet, Client, Due, NoSocket, NewControl, NoRelay,
      NoPacket
<1>3. Located
  BY <1>1 DEF Located, InLoop, NoSocket
<1>4. ASSUME NEW c \in Conn
      PROVE  WholeAt(c)
  BY <1>1
  DEF WholeAt, Whole, Unborn, DownWhole, UpWhole, AskedFor, NoSocket, NewControl, NoRelay,
      NoPacket
<1> QED
  BY <1>2, <1>3, <1>4 DEF IInv

\* The inductive invariant holds always.
LEMMA InvariantHolds == Spec => []IInv
<1>1. IInv /\ [Next]_vars => IInv'
  BY HeldStep, LocatedStep DEF Held, IInv
<1> QED
  BY <1>1, InitIInv, PTL DEF Spec

\* However packets, the steps of the thread and the calls of the relays
\* interleave, and whatever the sizes of the buffers: the client that sees the
\* end of a stream has got as many bytes as the relay wrote, and the relay that
\* sees it has read as many as the client sent, but for a reset or what its own
\* end has cut off (tcp_stack_direct.rs, tcp_conn.rs).  Bytes are only counted.
THEOREM StreamsAreWhole == Spec => []StreamsWhole
<1>1. IInv => StreamsWhole
  <2> SUFFICES ASSUME IInv, NEW c \in Conn
               PROVE  /\ client[c].eof => due[c].down = 0
                      /\ (relay[c].reads = "eof" /\ ~ client[c].rst) =>
                           \/ due[c].up = 0
                           \/ /\ relay[c].writes \in {"shut", "done"}
                              /\ due[c].up = socket[c].lost
    BY DEF StreamsWhole
  <2>1. client[c].eof => due[c].down = 0
    BY DEF IInv, WholeAt, Whole, DownWhole
  <2>2. ASSUME relay[c].reads = "eof", ~ client[c].rst
        PROVE  \/ due[c].up = 0
               \/ relay[c].writes \in {"shut", "done"} /\ due[c].up = socket[c].lost
    <3>1. /\ relay[c].at = "up" /\ ctl[c].recv = "Closed" /\ ctl[c].in = 0
          /\ due[c].up = tun[c].data + socket[c].rx + ctl[c].in
          /\ \/ Ended(socket[c], tun[c]) \/ ClosedWith(socket[c], tun[c], client[c])
      BY <2>2 DEF IInv, WholeAt, Whole, UpWhole
    <3>2. tun[c].data \in Nat /\ socket[c].rx \in Nat
      BY DEF IInv, Types, Socket, Packet
    <3>3. CASE Ended(socket[c], tun[c])
      BY <3>1, <3>2, <3>3 DEF Ended
    <3>4. CASE ClosedWith(socket[c], tun[c], client[c])
      <4>1. socket[c].fin /\ due[c].up = socket[c].lost
        BY <2>2, <3>1, <3>2, <3>4 DEF ClosedWith
      <4>2. relay[c].writes \in {"shut", "done"}
        BY <3>1, <4>1 DEF IInv, WholeAt, Whole, AskedFor
      <4> QED
        BY <4>1, <4>2
    <3> QED
      BY <3>1, <3>3, <3>4
  <2> QED
    BY <2>1, <2>2
<1> QED
  BY <1>1, InvariantHolds, PTL
===============================================================================
