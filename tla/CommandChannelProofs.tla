------------------------- MODULE CommandChannelProofs -------------------------
(***************************************************************************)
(* Proofs about CommandChannel, for any number of commands, modes, bytes   *)
(* and sessions: types, the agreement of page and core about the mode, and *)
(* that no byte is shown twice.                                            *)
(***************************************************************************)
EXTENDS CommandChannel, SequenceTheorems, TLAPS

Bytes == 0 .. MaxBytes
Traffic == [speed : Bytes, total : Bytes]

Call == [type : {"unused", "getTraffic", "setMode", "done"}, mode : Mode, session : 0 .. MaxSession]
CommandMessage == [id : Command, type : {"getTraffic", "setMode"}, mode : Mode]
AnswerMessage == [to : Command, ok : BOOLEAN, data : Traffic]

\* The types of the variables, one by one; both directions of the channel are
\* sequences of messages of their kind.
Types ==
  /\ calls \in [Command -> Call]
  /\ wire \in Seq(CommandMessage) /\ answers \in Seq(AnswerMessage)
  /\ mode \in Mode /\ coreMode \in Mode /\ planMode \in Mode
  /\ connected \in BOOLEAN /\ polling \in BOOLEAN /\ up \in BOOLEAN
  /\ running \in BOOLEAN /\ alive \in BOOLEAN /\ late \in BOOLEAN
  /\ last \in Traffic /\ shown \in Traffic
  /\ prev \in Bytes /\ total \in Bytes /\ counted \in Bytes /\ moved \in Bytes
  /\ paid \in Nat /\ session \in 0 .. MaxSession
  /\ latest \in {0} \cup Command
  /\ latest # 0 => calls[latest].type = "setMode"
  /\ verdict \in {"none", "open", "failed", "accepted", "refused"}

Used(c) == calls[c] # Unused

\* Commands are used in the order of their ids.  Their messages keep that
\* order, and everything that is answered was sent before what is not.
InOrder ==
  /\ \A b, c \in Command : b < c /\ Used(c) => Used(b)
  /\ \A i \in DOMAIN wire : Used(wire[i].id)
  /\ \A i \in DOMAIN answers : Used(answers[i].to)
  /\ \A i, j \in DOMAIN wire : i < j => wire[i].id < wire[j].id
  /\ \A i, j \in DOMAIN answers : i < j => answers[i].to < answers[j].to
  /\ \A i \in DOMAIN answers, j \in DOMAIN wire : answers[i].to < wire[j].id

\* A command that is on its way asks for what its caller waits for.
Matched ==
  \A i \in DOMAIN wire :
    Waiting(wire[i].id) =>
      /\ calls[wire[i].id].type = wire[i].type
      /\ calls[wire[i].id].mode = wire[i].mode

\* No call is of a session that has yet to come, and the core of a session
\* runs as long as the extension does.
Sessions ==
  /\ \A c \in Command : calls[c].session <= session
  /\ connected /\ up => running

\* The last mode command of the session.  While it waits, no other one was
\* sent after it, so that its answer, once it is there, speaks of the mode the
\* core still has.
LastIsOpen ==
  /\ latest # 0 <=> verdict = "open"
  /\ verdict \in {"open", "accepted", "refused"} => connected
  /\ latest # 0 =>
       /\ \A c \in Command : calls[c].type = "setMode" => c <= latest
       /\ \A i \in DOMAIN wire : wire[i].type = "setMode" => wire[i].id <= latest
       /\ \A i \in DOMAIN answers :
            answers[i].to = latest /\ up =>
              /\ coreMode = calls[latest].mode
              /\ answers[i].ok /\ alive => planMode = coreMode

\* When it has been answered, no mode command is left that could still act on
\* the core or on the page.
NoneAfterLast ==
  verdict \in {"accepted", "refused"} =>
    /\ \A i \in DOMAIN wire : wire[i].type # "setMode"
    /\ \A i \in DOMAIN answers : calls[answers[i].to].type # "setMode"

\* An answer to a poll of this session.
Live(i) == calls[answers[i].to].type = "getTraffic" /\ calls[answers[i].to].session = session

\* The ledger of the bytes: mark[i] of the bytes of the session had been moved
\* when the core gave answer i, used of them when it gave the answer that was
\* shown last.  What is shown is covered by used, and what the next answer
\* adds, whether by its speed or by its total, by the bytes since then.
Covered(mark, used) ==
  /\ paid <= used
  /\ total - counted <= moved - used
  /\ prev > 0 => total - prev <= moved - used
  /\ \A i \in DOMAIN answers : Live(i) =>
       /\ used <= mark[i]
       /\ answers[i].data.speed <= mark[i] - used
       /\ prev > 0 => answers[i].data.total - prev <= mark[i] - used
       /\ total - counted <= moved - mark[i]
       /\ total - answers[i].data.total <= moved - mark[i]
  /\ \A i, j \in DOMAIN answers : i < j /\ Live(i) /\ Live(j) =>
       /\ mark[i] <= mark[j]
       /\ answers[j].data.speed <= mark[j] - mark[i]
       /\ answers[j].data.total - answers[i].data.total <= mark[j] - mark[i]

Ledger ==
  connected /\ ~ late =>
    \E mark \in [DOMAIN answers -> 0 .. moved], used \in 0 .. moved : Covered(mark, used)

\* Disconnected, the page has forgotten the traffic.
Forgotten == ~ connected /\ ~ late => last = Empty /\ prev = 0 /\ shown = Empty /\ paid = 0

ModeInv == InOrder /\ Matched /\ Sessions /\ LastIsOpen /\ NoneAfterLast /\ LatestModeHolds
BytesInv == Ledger /\ Forgotten

IInv == Types /\ ModeInv /\ BytesInv

-----------------------------------------------------------------------------
(* What the operations do to the channel *)

\* The bounds are numbers, and the values the variables begin with have their types.
LEMMA BoundsFact ==
  /\ MaxCommand \in Nat /\ MaxBytes \in Nat /\ MaxSession \in Nat
  /\ 0 \in Bytes /\ Empty \in Traffic /\ 0 \in 0 .. MaxSession
  /\ Unused \in Call /\ Done \in Call /\ Unused # Done
  /\ Unused.type = "unused" /\ Done.type = "done" /\ Unused.session = 0 /\ Done.session = 0
<1>1. MaxCommand \in Nat /\ MaxBytes \in Nat /\ MaxSession \in Nat
  BY BoundsAssumption
<1>2. 0 \in Bytes /\ 0 \in 0 .. MaxSession
  BY <1>1 DEF Bytes
<1> QED
  BY <1>1, <1>2, DefaultAssumption DEF Empty, Traffic, Unused, Done, Idle, Call

\* What sending a command does: it takes the next id, and the message is the last on the wire.
LEMMA SendFact ==
  ASSUME Types, InOrder, NEW c \in Command, NEW type \in {"getTraffic", "setMode"},
         NEW m \in Mode, Send(c, type, m)
  PROVE  /\ calls' \in [Command -> Call]
         /\ calls'[c].type = type /\ calls'[c].mode = m /\ calls'[c].session = session
         /\ \A b \in Command : b # c => calls'[b] = calls[b]
         /\ ~ Used(c) /\ \A b \in Command : Used(b) <=> b < c
         /\ wire' \in Seq(CommandMessage) /\ Len(wire') = Len(wire) + 1
         /\ \A i \in DOMAIN wire : wire'[i] = wire[i]
         /\ wire'[Len(wire) + 1].id = c /\ wire'[Len(wire) + 1].type = type
         /\ wire'[Len(wire) + 1].mode = m
<1> DEFINE k == [type |-> type, mode |-> m, session |-> session]
           w == [id |-> c, type |-> type, mode |-> m]
<1>1. k \in Call /\ w \in CommandMessage
  BY DEF Types, Call, CommandMessage
<1>2. calls' = [calls EXCEPT ![c] = k] /\ wire' = Append(wire, w)
  BY DEF Send
<1>3. wire \in Seq(CommandMessage) /\ calls \in [Command -> Call]
  BY DEF Types
<1>4. ~ Used(c) /\ \A b \in Command : b < c => Used(b)
  BY DEF Send, Used, Command
<1>5. \A b \in Command : c < b => ~ Used(b)
  BY <1>4 DEF InOrder
<1>6. \A b \in Command : Used(b) <=> b < c
  BY <1>4, <1>5 DEF Command
<1>7. /\ k.type = type /\ k.mode = m /\ k.session = session
      /\ w.id = c /\ w.type = type /\ w.mode = m
  OBVIOUS
<1> HIDE DEF k
<1>8. calls' \in [Command -> Call] /\ calls'[c] = k /\ \A b \in Command : b # c => calls'[b] = calls[b]
  BY <1>1, <1>2, <1>3
<1> HIDE DEF w
<1>9. /\ wire' \in Seq(CommandMessage) /\ Len(wire') = Len(wire) + 1
      /\ \A i \in DOMAIN wire : wire'[i] = wire[i]
      /\ wire'[Len(wire) + 1] = w
  BY <1>1, <1>2, <1>3, AppendProperties
<1> QED
  BY <1>4, <1>6, <1>7, <1>8, <1>9

\* What is left of a queue when its first message is taken.
LEMMA TailFact ==
  ASSUME NEW S, NEW s \in Seq(S), s # <<>>
  PROVE  /\ Head(s) = s[1] /\ s[1] \in S /\ 1 \in DOMAIN s /\ Len(s) \in Nat \ {0}
         /\ Tail(s) \in Seq(S) /\ Len(Tail(s)) = Len(s) - 1
         /\ DOMAIN s = 1 .. Len(s) /\ DOMAIN Tail(s) = 1 .. Len(s) - 1
         /\ \A i \in DOMAIN Tail(s) : i + 1 \in DOMAIN s /\ Tail(s)[i] = s[i + 1]
  BY EmptySeq, HeadTailProperties, LenProperties

\* What an answer of the core does: it is the last on its way, to the command that is taken.
LEMMA ReplyFact ==
  ASSUME Types, wire # <<>>, NEW ok \in BOOLEAN, NEW data \in Traffic, Reply(ok, data)
  PROVE  /\ answers' \in Seq(AnswerMessage) /\ Len(answers') = Len(answers) + 1
         /\ \A i \in DOMAIN answers : answers'[i] = answers[i]
         /\ answers'[Len(answers) + 1].to = wire[1].id
         /\ answers'[Len(answers) + 1].ok = ok /\ answers'[Len(answers) + 1].data = data
<1> DEFINE r == [to |-> wire[1].id, ok |-> ok, data |-> data]
<1>1. wire[1] \in CommandMessage /\ Head(wire) = wire[1]
  BY TailFact DEF Types
<1>2. r \in AnswerMessage /\ answers' = Append(answers, r)
  BY <1>1 DEF Reply, AnswerMessage, CommandMessage
<1>3. answers \in Seq(AnswerMessage)
  BY DEF Types
<1>5. r.to = wire[1].id /\ r.ok = ok /\ r.data = data
  OBVIOUS
<1> HIDE DEF r
<1>4. /\ answers' \in Seq(AnswerMessage) /\ Len(answers') = Len(answers) + 1
      /\ \A i \in DOMAIN answers : answers'[i] = answers[i]
      /\ answers'[Len(answers) + 1] = r
  BY <1>2, <1>3, AppendProperties
<1> QED
  BY <1>4, <1>5

\* A result finds a poll, a mode command, or nobody who waits for it.
PollAnswered(a) ==
  /\ calls[a.to].type = "getTraffic"
  /\ calls' = [calls EXCEPT ![a.to] = Done]
  /\ IF a.ok THEN last' = Updated(a.data) /\ prev' = a.data.total ELSE UNCHANGED <<last, prev>>
  /\ shown' = last'
  /\ late' = (late \/ ~ (connected /\ calls[a.to].session = session))
  /\ paid' = IF late' THEN 0 ELSE IF a.ok THEN paid + last'.speed ELSE paid
  /\ UNCHANGED <<latest, verdict, mode>>

ModeAnswered(a) ==
  /\ calls[a.to].type = "setMode"
  /\ calls' = [calls EXCEPT ![a.to] = Done]
  /\ latest' = IF latest = a.to THEN 0 ELSE latest
  /\ verdict' = IF latest = a.to THEN IF a.ok THEN "accepted" ELSE "refused" ELSE verdict
  /\ mode' = calls[a.to].mode
  /\ paid' = IF late THEN 0 ELSE paid
  /\ UNCHANGED <<last, prev, shown, late>>

Unclaimed(a) ==
  /\ ~ Waiting(a.to)
  /\ paid' = IF late THEN 0 ELSE paid
  /\ UNCHANGED <<calls, latest, verdict, mode, last, prev, shown, late>>

\* Whoever waits for the result that arrives: a poll, a mode command or nobody (the
\* listener compares ids, so that it is never two of them).
LEMMA DeliverFact ==
  ASSUME Types, Deliver
  PROVE  /\ answers # <<>> /\ answers' = Tail(answers) /\ answers[1] \in AnswerMessage
         /\ PollAnswered(answers[1]) \/ ModeAnswered(answers[1]) \/ Unclaimed(answers[1])
         /\ UNCHANGED <<connected, polling, session, wire, coreVars>>
<1> DEFINE a == answers[1]
           polls == {c \in Command : Answered(c, a) /\ calls[c].type = "getTraffic"}
           modes == {c \in Command : Answered(c, a) /\ calls[c].type = "setMode"}
           fresh == \A c \in polls : connected /\ calls[c].session = session
<1>1. answers # <<>> /\ answers' = Tail(answers)
  BY DEF Deliver
<1>2. a \in AnswerMessage /\ a = Head(answers)
  BY <1>1, TailFact DEF Types
<1>3. /\ calls' = [c \in Command |-> IF c \in polls \cup modes THEN Done ELSE calls[c]]
      /\ Settle(modes, IF a.ok THEN "accepted" ELSE "refused")
      /\ IF polls # {} /\ a.ok
         THEN last' = Updated(a.data) /\ prev' = a.data.total
         ELSE UNCHANGED <<last, prev>>
      /\ shown' = IF polls # {} THEN last' ELSE shown
      /\ late' = (late \/ ~ fresh)
      /\ paid' = IF late' THEN 0 ELSE IF polls # {} /\ a.ok THEN paid + last'.speed ELSE paid
      /\ \/ modes = {} /\ UNCHANGED mode
         \/ \E c \in modes : mode' = calls[c].mode
  BY <1>2 DEF Deliver
<1>4. a.to \in Command /\ a.ok \in BOOLEAN
  BY <1>2 DEF AnswerMessage
<1>5. CASE calls[a.to].type = "getTraffic"
  <2>1. polls = {a.to} /\ modes = {}
    BY <1>4, <1>5 DEF Answered, Waiting
  <2>2. calls' = [calls EXCEPT ![a.to] = Done]
    BY <1>3, <1>4, <2>1 DEF Types
  <2>3. latest' = latest /\ verdict' = verdict /\ mode' = mode
    BY <1>3, <2>1 DEF Settle
  <2>4. fresh <=> connected /\ calls[a.to].session = session
    BY <2>1
  <2> QED
    BY <1>1, <1>2, <1>3, <1>5, <2>1, <2>2, <2>3, <2>4 DEF PollAnswered, Deliver
<1>6. CASE calls[a.to].type = "setMode"
  <2>1. polls = {} /\ modes = {a.to}
    BY <1>4, <1>6 DEF Answered, Waiting
  <2>2. calls' = [calls EXCEPT ![a.to] = Done]
    BY <1>3, <1>4, <2>1 DEF Types
  <2>3. /\ latest' = IF latest = a.to THEN 0 ELSE latest
        /\ verdict' = IF latest = a.to THEN IF a.ok THEN "accepted" ELSE "refused" ELSE verdict
        /\ mode' = calls[a.to].mode
    BY <1>3, <2>1 DEF Settle
  <2>4. late' = late
    BY <1>3, <2>1 DEF Types
  <2> QED
    BY <1>1, <1>2, <1>3, <1>6, <2>1, <2>2, <2>3, <2>4 DEF ModeAnswered, Deliver
<1>7. CASE ~ Waiting(a.to)
  <2>1. polls = {} /\ modes = {}
    BY <1>4, <1>7 DEF Answered, Waiting
  <2>2. calls' = calls
    BY <1>3, <2>1 DEF Types
  <2>3. latest' = latest /\ verdict' = verdict /\ mode' = mode
    BY <1>3, <2>1 DEF Settle
  <2>4. late' = late
    BY <1>3, <2>1 DEF Types
  <2> QED
    BY <1>1, <1>2, <1>3, <1>7, <2>1, <2>2, <2>3, <2>4 DEF Unclaimed, Deliver
<1> QED
  BY <1>5, <1>6, <1>7 DEF Waiting

-----------------------------------------------------------------------------
(* Types *)

\* Every step keeps the types.
LEMMA TypesStep ==
  ASSUME Types, InOrder, [Next]_vars
  PROVE  Types'
<1> USE BoundsFact DEF Types, promiseVars, serviceVars, coreVars, historyVars
<1>1. ASSUME NEW c \in Command, Poll(c)
      PROVE  Types'
  <2>1. Send(c, "getTraffic", Default)
    BY <1>1 DEF Poll
  <2>2. calls' \in [Command -> Call] /\ wire' \in Seq(CommandMessage)
    BY <2>1, SendFact, DefaultAssumption
  <2>3. latest # 0 => calls'[latest] = calls[latest]
    BY <2>1, SendFact, DefaultAssumption DEF Used, Unused, Idle
  <2> QED
    BY <1>1, <2>2, <2>3 DEF Poll
<1>2. ASSUME NEW c \in Command, TimeOut(c)
      PROVE  Types'
  <2>1. calls' \in [Command -> Call] /\ \A b \in Command : b # c => calls'[b] = calls[b]
    BY <1>2 DEF TimeOut
  <2>2. shown' \in Traffic
    BY <1>2 DEF TimeOut
  <2>3. /\ latest' \in {0} \cup Command /\ (latest' # 0 => latest' = latest /\ latest # c)
        /\ verdict' \in {"none", "open", "failed", "accepted", "refused"}
    BY <1>2 DEF TimeOut, Settle
  <2> QED
    BY <1>2, <2>1, <2>2, <2>3 DEF TimeOut
<1>3. ASSUME NEW c \in Command, NEW m \in Mode, SetMode(c, m)
      PROVE  Types'
  <2>1. Send(c, "setMode", m)
    BY <1>3 DEF SetMode
  <2>2. calls' \in [Command -> Call] /\ wire' \in Seq(CommandMessage) /\ calls'[c].type = "setMode"
    BY <2>1, SendFact
  <2> QED
    BY <1>3, <2>2 DEF SetMode
<1>4. ASSUME NEW m \in Mode, SetModeOffline(m)
      PROVE  Types'
  BY <1>4 DEF SetModeOffline
<1>5. CASE Connect
  BY <1>5, DefaultAssumption DEF Connect
<1>6. CASE ConnectFails
  <2>1. up' \in BOOLEAN /\ alive' \in BOOLEAN
    BY <1>6 DEF ConnectFails
  <2>2. session' \in 0 .. MaxSession
    BY <1>6 DEF ConnectFails
  <2>3. running' \in BOOLEAN /\ coreMode' \in Mode /\ counted' \in Bytes
    BY <1>6, DefaultAssumption DEF ConnectFails
  <2> QED
    BY <1>6, <2>1, <2>2, <2>3 DEF ConnectFails
<1>7. CASE Disconnect
  BY <1>7 DEF Disconnect
<1>8. CASE Deliver
  <2> DEFINE a == answers[1]
  <2>1. /\ answers # <<>> /\ answers' = Tail(answers) /\ a \in AnswerMessage
        /\ PollAnswered(a) \/ ModeAnswered(a) \/ Unclaimed(a)
        /\ UNCHANGED <<connected, polling, session, wire, coreVars>>
    BY <1>8, DeliverFact
  <2>2. answers' \in Seq(AnswerMessage)
    BY <2>1, TailFact
  <2>3. a.to \in Command /\ a.data \in Traffic
    BY <2>1 DEF AnswerMessage
  <2> HIDE DEF a
  <2>4. CASE PollAnswered(a)
    <3>1. calls' \in [Command -> Call]
      BY <2>3, <2>4 DEF PollAnswered
    <3>2. latest' = latest /\ (latest # 0 => calls'[latest] = calls[latest])
      BY <2>3, <2>4 DEF PollAnswered
    <3>3. Updated(a.data) \in Traffic /\ a.data.total \in Bytes
      BY <2>3 DEF Updated, AtLeast0, Traffic, Bytes
    <3>4. last' \in Traffic /\ prev' \in Bytes /\ shown' \in Traffic /\ late' \in BOOLEAN
      BY <2>4, <3>3 DEF PollAnswered
    <3>5. last'.speed \in Nat
      BY <3>4 DEF Traffic, Bytes
    <3>6. paid' \in Nat
      BY <2>4, <3>5 DEF PollAnswered
    <3> QED
      BY <2>1, <2>2, <2>4, <3>1, <3>2, <3>4, <3>6 DEF PollAnswered
  <2>5. CASE ModeAnswered(a)
    <3>1. calls' \in [Command -> Call] /\ \A b \in Command : b # a.to => calls'[b] = calls[b]
      BY <2>3, <2>5 DEF ModeAnswered
    <3>2. mode' \in Mode
      BY <2>3, <2>5 DEF ModeAnswered, Call
    <3>3. paid' \in Nat
      BY <2>5 DEF ModeAnswered
    <3> QED
      BY <2>1, <2>2, <2>5, <3>1, <3>2, <3>3 DEF ModeAnswered
  <2>6. CASE Unclaimed(a)
    BY <2>1, <2>2, <2>6 DEF Unclaimed
  <2> QED
    BY <2>1, <2>4, <2>5, <2>6
<1>9. CASE LoseCommand
  BY <1>9, TailFact DEF LoseCommand
<1>10. CASE GetTraffic
  <2>1. [speed |-> Speed, total |-> total] \in Traffic
    BY DEF Speed, AtLeast0, Traffic, Bytes
  <2>2. answers' \in Seq(AnswerMessage)
    BY <1>10, <2>1, ReplyFact DEF GetTraffic, Receive
  <2>3. wire' \in Seq(CommandMessage)
    BY <1>10, TailFact DEF GetTraffic, Receive
  <2> QED
    BY <1>10, <2>2, <2>3 DEF GetTraffic, Receive
<1>11. CASE CoreSetMode
  <2>1. wire # <<>> /\ wire' \in Seq(CommandMessage) /\ Head(wire) \in CommandMessage
    BY <1>11, TailFact DEF CoreSetMode, Receive
  <2>2. answers' \in Seq(AnswerMessage)
    BY <1>11, <2>1, ReplyFact DEF CoreSetMode
  <2>3. coreMode' \in Mode /\ planMode' \in Mode /\ total' \in Bytes /\ alive' \in BOOLEAN
    BY <1>11, <2>1 DEF CoreSetMode, CommandMessage
  <2> QED
    BY <1>11, <2>1, <2>2, <2>3 DEF CoreSetMode, Receive
<1>12. CASE Move
  BY <1>12 DEF Move, Bytes
<1>13. CASE Die
  BY <1>13, DefaultAssumption DEF Die
<1>14. CASE UNCHANGED vars
  BY <1>14 DEF vars
<1> QED
  BY <1>1, <1>2, <1>3, <1>4, <1>5, <1>6, <1>7, <1>8, <1>9, <1>10, <1>11, <1>12, <1>13, <1>14
  DEF Next

\* The types one by one are those of the type invariant.
LEMMA TypesGive == ASSUME Types PROVE ChannelTypeOK
<1> USE DEF Types
<1>1. calls \in [Command -> [type : {"unused", "getTraffic", "setMode", "done"}, mode : Mode,
                             session : 0 .. MaxSession]]
  BY DEF Call
<1>2. ASSUME NEW i \in DOMAIN answers
      PROVE  answers[i].to \in Command /\ answers[i].ok \in BOOLEAN /\ answers[i].data \in Traffic
  <2>1. answers[i] \in AnswerMessage
    BY <1>2, ElementOfSeq, LenProperties
  <2> QED
    BY <2>1 DEF AnswerMessage
<1>3. ASSUME NEW i \in DOMAIN wire
      PROVE  wire[i].id \in Command /\ wire[i].mode \in Mode
  <2>1. wire[i] \in CommandMessage
    BY <1>3, ElementOfSeq, LenProperties
  <2> QED
    BY <2>1 DEF CommandMessage
<1>4. {last, shown} \cup {answers[i].data : i \in DOMAIN answers}
        \subseteq [speed : 0 .. MaxBytes, total : 0 .. MaxBytes]
  BY <1>2 DEF Traffic, Bytes
<1>5. {mode, coreMode, planMode} \subseteq Mode
  OBVIOUS
<1>6. {connected, polling, up, running, alive, late} \subseteq BOOLEAN
  OBVIOUS
<1>7. {prev, total, counted, moved} \subseteq 0 .. MaxBytes /\ paid \in Nat
  BY DEF Bytes
<1>8. latest \in {0} \cup {c \in Command : calls[c].type = "setMode"}
  OBVIOUS
<1> QED
  BY <1>1, <1>2, <1>3, <1>4, <1>5, <1>6, <1>7, <1>8 DEF ChannelTypeOK

-----------------------------------------------------------------------------
(* The order of the messages *)

\* The members of the two queues are messages, and ids are positive.
LEMMA IdsFact ==
  ASSUME Types
  PROVE  /\ DOMAIN wire = 1 .. Len(wire) /\ DOMAIN answers = 1 .. Len(answers)
         /\ Len(wire) \in Nat /\ Len(answers) \in Nat
         /\ \A i \in DOMAIN wire : wire[i] \in CommandMessage /\ wire[i].id \in Command
         /\ \A i \in DOMAIN answers :
              answers[i] \in AnswerMessage /\ answers[i].to \in Command /\ answers[i].data \in Traffic
         /\ \A c \in Command : c \in Nat \ {0}
<1>1. wire \in Seq(CommandMessage) /\ answers \in Seq(AnswerMessage)
  BY DEF Types
<1>2. /\ DOMAIN wire = 1 .. Len(wire) /\ DOMAIN answers = 1 .. Len(answers)
      /\ Len(wire) \in Nat /\ Len(answers) \in Nat
  BY <1>1, LenProperties
<1>3. /\ \A i \in DOMAIN wire : wire[i] \in CommandMessage
      /\ \A i \in DOMAIN answers : answers[i] \in AnswerMessage
  BY <1>1, <1>2, ElementOfSeq
<1> QED
  BY <1>2, <1>3, BoundsFact DEF CommandMessage, AnswerMessage, Command

\* A new message is the last on the wire and has the greatest id.
LEMMA SendKeepsOrder ==
  ASSUME Types, InOrder, NEW c \in Command, NEW type \in {"getTraffic", "setMode"},
         NEW m \in Mode, Send(c, type, m), UNCHANGED answers
  PROVE  InOrder'
<1>1. /\ \A b \in Command : Used(b) <=> b < c
      /\ wire' \in Seq(CommandMessage) /\ Len(wire') = Len(wire) + 1
      /\ \A i \in DOMAIN wire : wire'[i] = wire[i]
      /\ wire'[Len(wire) + 1].id = c
  BY SendFact
<1>2. Used(c)' /\ \A b \in Command : b # c => (Used(b)' <=> Used(b))
  BY SendFact DEF Used, Unused, Idle
<1>3. DOMAIN wire' = 1 .. Len(wire) + 1
  BY <1>1, LenProperties
<1>4. \A b \in Command : Used(b)' <=> b <= c
  BY <1>1, <1>2, IdsFact
<1>5. \A i \in DOMAIN wire : wire[i].id < c /\ wire[i].id \in Nat
  BY <1>1, IdsFact DEF InOrder, Used
<1>6. \A i \in DOMAIN answers : answers[i].to < c /\ answers[i].to \in Nat
  BY <1>1, IdsFact DEF InOrder, Used
<1>7. \A b, d \in Command : b < d /\ Used(d)' => Used(b)'
  BY <1>4, IdsFact
<1>8. \A i \in DOMAIN wire' : wire'[i].id \in Command /\ wire'[i].id <= c
  BY <1>1, <1>3, <1>5, IdsFact
<1>9. \A i, j \in DOMAIN wire' : i < j => wire'[i].id < wire'[j].id
  <2> SUFFICES ASSUME NEW i \in DOMAIN wire', NEW j \in DOMAIN wire', i < j
               PROVE  wire'[i].id < wire'[j].id
    OBVIOUS
  <2>1. i \in DOMAIN wire
    BY <1>3, IdsFact
  <2>2. CASE j \in DOMAIN wire
    BY <1>1, <2>1, <2>2 DEF InOrder, Used
  <2>3. CASE j = Len(wire) + 1
    BY <1>1, <1>5, <2>1, <2>3
  <2> QED
    BY <1>3, <2>2, <2>3, IdsFact
<1>10. \A i \in DOMAIN answers, j \in DOMAIN wire' : answers[i].to < wire'[j].id
  BY <1>1, <1>3, <1>6, IdsFact DEF InOrder, Used
<1> QED
  BY <1>4, <1>6, <1>7, <1>8, <1>9, <1>10, IdsFact DEF InOrder, Used

\* Used commands stay used.
LEMMA UsedStays ==
  ASSUME Types, InOrder, \A c \in Command : Used(c)' <=> Used(c)
  PROVE  /\ \A b, c \in Command : b < c /\ Used(c)' => Used(b)'
         /\ \A i \in DOMAIN wire : calls'[wire[i].id] # Unused
         /\ \A i \in DOMAIN answers : calls'[answers[i].to] # Unused
  BY IdsFact DEF InOrder, Used

\* A command that is taken from the wire, without an answer or with one.
LEMMA TakeKeepsOrder ==
  ASSUME Types, InOrder, wire # <<>>, wire' = Tail(wire), UNCHANGED calls,
         \/ UNCHANGED answers
         \/ \E ok \in BOOLEAN, data \in Traffic : Reply(ok, data)
  PROVE  InOrder'
<1> USE DEF Types
<1>1. /\ 1 \in DOMAIN wire /\ DOMAIN wire' = 1 .. Len(wire) - 1
      /\ \A i \in DOMAIN wire' : i + 1 \in DOMAIN wire /\ wire'[i] = wire[i + 1]
  BY TailFact
<1>2. \A c \in Command : Used(c)' <=> Used(c)
  BY DEF Used
<1>3. \A i, j \in DOMAIN wire' : i < j => wire'[i].id < wire'[j].id
  BY <1>1, IdsFact DEF InOrder, Used
<1>4. \A i \in DOMAIN wire' : calls'[wire'[i].id] # Unused /\ wire[1].id < wire'[i].id
  BY <1>1, <1>2, IdsFact DEF InOrder, Used
<1>5. CASE UNCHANGED answers
  <2>1. \A i \in DOMAIN answers, j \in DOMAIN wire' : answers[i].to < wire'[j].id
    BY <1>1 DEF InOrder, Used
  <2> QED
    BY <1>2, <1>3, <1>4, <1>5, <2>1, UsedStays DEF InOrder, Used
<1>6. ASSUME NEW ok \in BOOLEAN, NEW data \in Traffic, Reply(ok, data)
      PROVE  InOrder'
  <2>1. /\ answers' \in Seq(AnswerMessage) /\ Len(answers') = Len(answers) + 1
        /\ \A i \in DOMAIN answers : answers'[i] = answers[i]
        /\ answers'[Len(answers) + 1].to = wire[1].id
    BY <1>6, ReplyFact
  <2>2. DOMAIN answers' = 1 .. Len(answers) + 1
    BY <2>1, LenProperties
  <2>3. \A i \in DOMAIN answers : answers[i].to < wire[1].id
    BY <1>1 DEF InOrder, Used
  <2>4. \A i, j \in DOMAIN answers' : i < j => answers'[i].to < answers'[j].to
    <3> SUFFICES ASSUME NEW i \in DOMAIN answers', NEW j \in DOMAIN answers', i < j
                 PROVE  answers'[i].to < answers'[j].to
      OBVIOUS
    <3>1. i \in DOMAIN answers
      BY <2>2, IdsFact
    <3>2. CASE j \in DOMAIN answers
      BY <2>1, <3>1, <3>2 DEF InOrder, Used
    <3>3. CASE j = Len(answers) + 1
      BY <2>1, <2>3, <3>1, <3>3
    <3> QED
      BY <2>2, <3>2, <3>3, IdsFact
  <2>5. \A i \in DOMAIN answers', j \in DOMAIN wire' : answers'[i].to < wire'[j].id
    <3> SUFFICES ASSUME NEW i \in DOMAIN answers', NEW j \in DOMAIN wire'
                 PROVE  answers'[i].to < wire'[j].id
      OBVIOUS
    <3>1. CASE i \in DOMAIN answers
      BY <1>1, <2>1, <3>1 DEF InOrder, Used
    <3>2. CASE i = Len(answers) + 1
      BY <1>4, <2>1, <3>2
    <3> QED
      BY <2>2, <3>1, <3>2, IdsFact
  <2>6. \A i \in DOMAIN answers' : calls'[answers'[i].to] # Unused
    <3> SUFFICES ASSUME NEW i \in DOMAIN answers'
                 PROVE  calls'[answers'[i].to] # Unused
      OBVIOUS
    <3>1. CASE i \in DOMAIN answers
      BY <1>2, <2>1, <3>1, UsedStays
    <3>2. CASE i = Len(answers) + 1
      BY <1>1, <1>2, <2>1, <3>2, UsedStays
    <3> QED
      BY <2>2, <3>1, <3>2, IdsFact
  <2> QED
    BY <1>2, <1>3, <1>4, <2>4, <2>5, <2>6, UsedStays DEF InOrder, Used
<1> QED
  BY <1>5, <1>6

\* A command that ends.
LEMMA EndKeepsOrder ==
  ASSUME Types, InOrder, NEW c \in Command, Waiting(c), calls' = [calls EXCEPT ![c] = Done],
         UNCHANGED <<wire, answers>>
  PROVE  InOrder'
<1>1. \A b \in Command : Used(b)' <=> Used(b)
  BY BoundsFact DEF Used, Waiting, Types
<1> QED
  BY <1>1, UsedStays DEF InOrder, Used

\* The answer that arrives is the first.
LEMMA DeliverKeepsOrder ==
  ASSUME Types, InOrder, Deliver
  PROVE  InOrder'
<1> DEFINE a == answers[1]
<1>1. /\ answers # <<>> /\ answers' = Tail(answers) /\ a \in AnswerMessage
      /\ PollAnswered(a) \/ ModeAnswered(a) \/ Unclaimed(a)
      /\ UNCHANGED wire
  BY DeliverFact
<1>2. /\ DOMAIN answers' = 1 .. Len(answers) - 1
      /\ \A i \in DOMAIN answers' : i + 1 \in DOMAIN answers /\ answers'[i] = answers[i + 1]
  BY <1>1, TailFact DEF Types
<1>3. \A b \in Command : Used(b)' <=> Used(b)
  BY <1>1, BoundsFact DEF Used, Types, PollAnswered, ModeAnswered, Unclaimed, AnswerMessage
<1>4. \A i, j \in DOMAIN answers' : i < j => answers'[i].to < answers'[j].to
  BY <1>2, IdsFact DEF InOrder, Used
<1>5. \A i \in DOMAIN answers', j \in DOMAIN wire : answers'[i].to < wire[j].id
  BY <1>2 DEF InOrder, Used
<1>6. \A i \in DOMAIN answers' : calls'[answers'[i].to] # Unused
  BY <1>2, <1>3, UsedStays
<1> QED
  BY <1>1, <1>3, <1>4, <1>5, <1>6, UsedStays DEF InOrder, Used

-----------------------------------------------------------------------------
(* The modes *)

\* Every step keeps the order of the messages.
LEMMA OrderStep ==
  ASSUME Types, InOrder, [Next]_vars
  PROVE  InOrder'
<1> USE DEF promiseVars, serviceVars, coreVars, historyVars
<1>1. ASSUME NEW c \in Command, Poll(c)
      PROVE  InOrder'
  BY <1>1, SendKeepsOrder, DefaultAssumption DEF Poll
<1>2. ASSUME NEW c \in Command, TimeOut(c)
      PROVE  InOrder'
  BY <1>2, EndKeepsOrder DEF TimeOut
<1>3. ASSUME NEW c \in Command, NEW m \in Mode, SetMode(c, m)
      PROVE  InOrder'
  BY <1>3, SendKeepsOrder DEF SetMode
<1>4. ASSUME NEW m \in Mode, SetModeOffline(m)
      PROVE  InOrder'
  BY <1>4 DEF InOrder, Used, SetModeOffline
<1>5. CASE Connect
  BY <1>5 DEF InOrder, Used, Connect
<1>6. CASE ConnectFails
  BY <1>6 DEF InOrder, Used, ConnectFails
<1>7. CASE Disconnect
  BY <1>7 DEF InOrder, Used, Disconnect
<1>8. CASE Deliver
  BY <1>8, DeliverKeepsOrder
<1>9. CASE LoseCommand
  BY <1>9, TakeKeepsOrder DEF LoseCommand
<1>10. CASE GetTraffic
  <2>1. [speed |-> Speed, total |-> total] \in Traffic
    BY BoundsFact DEF Types, Speed, AtLeast0, Traffic, Bytes
  <2> QED
    BY <1>10, <2>1, TakeKeepsOrder DEF GetTraffic, Receive
<1>11. CASE CoreSetMode
  <2>1. \E ok \in BOOLEAN : Reply(ok, Empty)
    BY <1>11 DEF CoreSetMode
  <2> QED
    BY <1>11, <2>1, TakeKeepsOrder, BoundsFact DEF CoreSetMode, Receive
<1>12. CASE Move
  BY <1>12 DEF InOrder, Used, Move
<1>13. CASE Die
  BY <1>13 DEF InOrder, Used, Die
<1>14. CASE UNCHANGED vars
  BY <1>14 DEF InOrder, Used, vars
<1> QED
  BY <1>1, <1>2, <1>3, <1>4, <1>5, <1>6, <1>7, <1>8, <1>9, <1>10, <1>11, <1>12, <1>13, <1>14
  DEF Next

\* Every step leaves on the wire what the callers wait for.
LEMMA MatchedStep ==
  ASSUME Types, InOrder, Matched, [Next]_vars
  PROVE  Matched'
<1> USE DEF Waiting, Matched, promiseVars, serviceVars, coreVars, historyVars
<1>1. ASSUME NEW c \in Command, Poll(c)
      PROVE  Matched'
  <2>1. Send(c, "getTraffic", Default)
    BY <1>1 DEF Poll
  <2>2. /\ \A b \in Command : b # c => calls'[b] = calls[b]
        /\ calls'[c].type = "getTraffic" /\ calls'[c].mode = Default
        /\ \A b \in Command : Used(b) <=> b < c
        /\ wire' \in Seq(CommandMessage) /\ Len(wire') = Len(wire) + 1
        /\ \A i \in DOMAIN wire : wire'[i] = wire[i]
        /\ wire'[Len(wire) + 1].id = c /\ wire'[Len(wire) + 1].type = "getTraffic"
        /\ wire'[Len(wire) + 1].mode = Default
    BY <2>1, SendFact, DefaultAssumption
  <2>3. DOMAIN wire' = DOMAIN wire \cup {Len(wire) + 1}
    BY <2>2, IdsFact, LenProperties
  <2>4. \A i \in DOMAIN wire : wire[i].id \in Command /\ wire[i].id # c
    BY <2>2, IdsFact DEF InOrder
  <2> QED
    BY <2>2, <2>3, <2>4
<1>2. ASSUME NEW c \in Command, TimeOut(c)
      PROVE  Matched'
  BY <1>2, IdsFact DEF TimeOut, Types, Done, Idle
<1>3. ASSUME NEW c \in Command, NEW m \in Mode, SetMode(c, m)
      PROVE  Matched'
  <2>1. Send(c, "setMode", m)
    BY <1>3 DEF SetMode
  <2>2. /\ \A b \in Command : b # c => calls'[b] = calls[b]
        /\ calls'[c].type = "setMode" /\ calls'[c].mode = m
        /\ \A b \in Command : Used(b) <=> b < c
        /\ wire' \in Seq(CommandMessage) /\ Len(wire') = Len(wire) + 1
        /\ \A i \in DOMAIN wire : wire'[i] = wire[i]
        /\ wire'[Len(wire) + 1].id = c /\ wire'[Len(wire) + 1].type = "setMode"
        /\ wire'[Len(wire) + 1].mode = m
    BY <2>1, SendFact, DefaultAssumption
  <2>3. DOMAIN wire' = DOMAIN wire \cup {Len(wire) + 1}
    BY <2>2, IdsFact, LenProperties
  <2>4. \A i \in DOMAIN wire : wire[i].id \in Command /\ wire[i].id # c
    BY <2>2, IdsFact DEF InOrder
  <2> QED
    BY <2>2, <2>3, <2>4
<1>4. ASSUME NEW m \in Mode, SetModeOffline(m)
      PROVE  Matched'
  BY <1>4 DEF SetModeOffline
<1>5. CASE Connect
  BY <1>5 DEF Connect
<1>6. CASE ConnectFails
  BY <1>6 DEF ConnectFails
<1>7. CASE Disconnect
  BY <1>7 DEF Disconnect
<1>8. CASE Deliver
  <2> DEFINE a == answers[1]
  <2>1. /\ answers # <<>> /\ answers' = Tail(answers) /\ a \in AnswerMessage
        /\ PollAnswered(a) \/ ModeAnswered(a) \/ Unclaimed(a)
        /\ UNCHANGED <<connected, session, wire, coreVars>>
    BY <1>8, DeliverFact
  <2>2. /\ 1 \in DOMAIN answers /\ DOMAIN answers' = 1 .. Len(answers) - 1
        /\ \A i \in DOMAIN answers' : i + 1 \in DOMAIN answers /\ answers'[i] = answers[i + 1]
    BY <2>1, TailFact DEF Types
  <2>3. \A c \in Command : calls'[c] = calls[c] \/ calls'[c].type = "done"
    BY <2>1, BoundsFact DEF PollAnswered, ModeAnswered, Unclaimed, Types
  <2> QED
    BY <2>1, <2>3, IdsFact
<1>9. CASE LoseCommand
  <2>1. /\ 1 \in DOMAIN wire /\ DOMAIN wire' = 1 .. Len(wire) - 1
        /\ \A i \in DOMAIN wire' : i + 1 \in DOMAIN wire /\ wire'[i] = wire[i + 1]
    BY <1>9, TailFact DEF Types, LoseCommand
  <2> QED
    BY <1>9, <2>1 DEF LoseCommand
<1>10. CASE GetTraffic
  <2>1. /\ 1 \in DOMAIN wire /\ DOMAIN wire' = 1 .. Len(wire) - 1
        /\ \A i \in DOMAIN wire' : i + 1 \in DOMAIN wire /\ wire'[i] = wire[i + 1]
    BY <1>10, TailFact DEF Types, GetTraffic, Receive
  <2> QED
    BY <1>10, <2>1 DEF GetTraffic, Receive
<1>11. CASE CoreSetMode
  <2>1. /\ 1 \in DOMAIN wire /\ DOMAIN wire' = 1 .. Len(wire) - 1
        /\ \A i \in DOMAIN wire' : i + 1 \in DOMAIN wire /\ wire'[i] = wire[i + 1]
    BY <1>11, TailFact DEF Types, CoreSetMode, Receive
  <2> QED
    BY <1>11, <2>1 DEF CoreSetMode, Receive
<1>12. CASE Move
  BY <1>12 DEF Move
<1>13. CASE Die
  BY <1>13 DEF Die
<1>14. CASE UNCHANGED vars
  BY <1>14 DEF vars
<1> QED
  BY <1>1, <1>2, <1>3, <1>4, <1>5, <1>6, <1>7, <1>8, <1>9, <1>10, <1>11, <1>12, <1>13, <1>14
  DEF Next

\* Every step keeps calls in the sessions so far, and the core with the extension.
LEMMA SessionsStep ==
  ASSUME Types, InOrder, Sessions, [Next]_vars
  PROVE  Sessions'
<1> USE DEF Sessions, promiseVars, serviceVars, coreVars, historyVars
<1>1. ASSUME NEW c \in Command, Poll(c)
      PROVE  Sessions'
  BY <1>1, SendFact, DefaultAssumption DEF Poll, Types
<1>2. ASSUME NEW c \in Command, TimeOut(c)
      PROVE  Sessions'
  BY <1>2, BoundsFact DEF TimeOut, Types
<1>3. ASSUME NEW c \in Command, NEW m \in Mode, SetMode(c, m)
      PROVE  Sessions'
  BY <1>3, SendFact DEF SetMode, Types
<1>4. ASSUME NEW m \in Mode, SetModeOffline(m)
      PROVE  Sessions'
  BY <1>4 DEF SetModeOffline
<1>5. CASE Connect
  BY <1>5, BoundsFact DEF Connect, Types, Call
<1>6. CASE ConnectFails
  BY <1>6, BoundsFact DEF ConnectFails, Types, Call
<1>7. CASE Disconnect
  BY <1>7 DEF Disconnect
<1>8. CASE Deliver
  BY <1>8, DeliverFact, BoundsFact DEF PollAnswered, ModeAnswered, Unclaimed, Types, AnswerMessage
<1>9. CASE LoseCommand
  BY <1>9 DEF LoseCommand
<1>10. CASE GetTraffic
  BY <1>10 DEF GetTraffic, Receive
<1>11. CASE CoreSetMode
  BY <1>11 DEF CoreSetMode, Receive
<1>12. CASE Move
  BY <1>12 DEF Move
<1>13. CASE Die
  BY <1>13 DEF Die
<1>14. CASE UNCHANGED vars
  BY <1>14 DEF vars
<1> QED
  BY <1>1, <1>2, <1>3, <1>4, <1>5, <1>6, <1>7, <1>8, <1>9, <1>10, <1>11, <1>12, <1>13, <1>14
  DEF Next

\* Every step keeps what holds while the last mode command waits.
LEMMA LastStep ==
  ASSUME Types, InOrder, Matched, Sessions, LastIsOpen, [Next]_vars
  PROVE  LastIsOpen'
<1> USE DEF LastIsOpen, promiseVars, serviceVars, coreVars, historyVars
<1>1. ASSUME NEW c \in Command, Poll(c)
      PROVE  LastIsOpen'
  <2>1. Send(c, "getTraffic", Default)
    BY <1>1 DEF Poll
  <2>2. /\ \A b \in Command : b # c => calls'[b] = calls[b]
        /\ calls'[c].type = "getTraffic" /\ calls'[c].mode = Default
        /\ \A b \in Command : Used(b) <=> b < c
        /\ wire' \in Seq(CommandMessage) /\ Len(wire') = Len(wire) + 1
        /\ \A i \in DOMAIN wire : wire'[i] = wire[i]
        /\ wire'[Len(wire) + 1].id = c /\ wire'[Len(wire) + 1].type = "getTraffic"
        /\ wire'[Len(wire) + 1].mode = Default
    BY <2>1, SendFact, DefaultAssumption
  <2>3. DOMAIN wire' = DOMAIN wire \cup {Len(wire) + 1}
    BY <2>2, IdsFact, LenProperties
  <2>4. latest # 0 => Used(latest) /\ latest # c
    BY <2>2, IdsFact DEF Used, Types, Unused, Idle
  <2> QED
    BY <1>1, <2>2, <2>3, <2>4 DEF Poll, Types
<1>2. ASSUME NEW c \in Command, TimeOut(c)
      PROVE  LastIsOpen'
  <2>1. \A b \in Command : b # c => calls'[b] = calls[b]
    BY <1>2 DEF TimeOut, Types
  <2>2. calls'[c].type = "done"
    BY <1>2, BoundsFact DEF TimeOut, Types
  <2> QED
    BY <1>2, <2>1, <2>2 DEF TimeOut, Settle, Types
<1>3. ASSUME NEW c \in Command, NEW m \in Mode, SetMode(c, m)
      PROVE  LastIsOpen'
  <2>1. Send(c, "setMode", m)
    BY <1>3 DEF SetMode
  <2>2. /\ \A b \in Command : b # c => calls'[b] = calls[b]
        /\ calls'[c].type = "setMode" /\ calls'[c].mode = m
        /\ \A b \in Command : Used(b) <=> b < c
        /\ wire' \in Seq(CommandMessage) /\ Len(wire') = Len(wire) + 1
        /\ \A i \in DOMAIN wire : wire'[i] = wire[i]
        /\ wire'[Len(wire) + 1].id = c /\ wire'[Len(wire) + 1].type = "setMode"
        /\ wire'[Len(wire) + 1].mode = m
    BY <2>1, SendFact, DefaultAssumption
  <2>3. DOMAIN wire' = DOMAIN wire \cup {Len(wire) + 1}
    BY <2>2, IdsFact, LenProperties
  <2>4. \A b \in Command : calls'[b].type = "setMode" => b <= c
    BY <2>2, IdsFact DEF Used, Unused, Idle
  <2>5. \A i \in DOMAIN wire' : wire'[i].id <= c
    BY <2>2, <2>3, IdsFact DEF InOrder
  <2>6. \A i \in DOMAIN answers : answers[i].to # c
    BY <2>2, IdsFact DEF InOrder
  <2> QED
    BY <1>3, <2>4, <2>5, <2>6, IdsFact DEF SetMode
<1>4. ASSUME NEW m \in Mode, SetModeOffline(m)
      PROVE  LastIsOpen'
  BY <1>4 DEF SetModeOffline
<1>5. CASE Connect
  BY <1>5 DEF Connect
<1>6. CASE ConnectFails
  BY <1>6 DEF ConnectFails
<1>7. CASE Disconnect
  BY <1>7 DEF Disconnect
<1>8. CASE Deliver
  <2> DEFINE a == answers[1]
  <2>1. /\ answers # <<>> /\ answers' = Tail(answers) /\ a \in AnswerMessage
        /\ PollAnswered(a) \/ ModeAnswered(a) \/ Unclaimed(a)
        /\ UNCHANGED <<connected, session, wire, coreVars>>
    BY <1>8, DeliverFact
  <2>2. /\ 1 \in DOMAIN answers /\ DOMAIN answers' = 1 .. Len(answers) - 1
        /\ \A i \in DOMAIN answers' : i + 1 \in DOMAIN answers /\ answers'[i] = answers[i + 1]
    BY <2>1, TailFact DEF Types
  <2>3. CASE PollAnswered(a)
    <3>1. \A c \in Command : calls'[c].type = "setMode" => calls[c].type = "setMode"
      BY <2>1, <2>3, BoundsFact DEF PollAnswered, Types, AnswerMessage
    <3>2. latest # 0 => latest # a.to
      BY <2>3 DEF PollAnswered, Types
    <3>3. latest # 0 => calls'[latest] = calls[latest]
      BY <2>1, <2>3, <3>2 DEF PollAnswered, Types, AnswerMessage
    <3> QED
      BY <2>1, <2>2, <2>3, <3>1, <3>3 DEF PollAnswered
  <2>4. CASE ModeAnswered(a)
    <3>1. \A c \in Command : calls'[c].type = "setMode" => calls[c].type = "setMode"
      BY <2>1, <2>4, BoundsFact DEF ModeAnswered, Types, AnswerMessage
    <3>2. CASE latest = a.to
      BY <2>1, <2>4, <3>2, IdsFact DEF ModeAnswered, AnswerMessage
    <3>3. CASE latest # a.to
      <4>1. latest # 0 => calls'[latest] = calls[latest]
        BY <2>1, <2>4, <3>3 DEF ModeAnswered, Types, AnswerMessage
      <4> QED
        BY <2>1, <2>2, <2>4, <3>1, <3>3, <4>1 DEF ModeAnswered
    <3> QED
      BY <3>2, <3>3
  <2>5. CASE Unclaimed(a)
    BY <2>1, <2>2, <2>5 DEF Unclaimed
  <2> QED
    BY <2>1, <2>3, <2>4, <2>5
<1>9. CASE LoseCommand
  <2>1. /\ 1 \in DOMAIN wire /\ DOMAIN wire' = 1 .. Len(wire) - 1
        /\ \A i \in DOMAIN wire' : i + 1 \in DOMAIN wire /\ wire'[i] = wire[i + 1]
    BY <1>9, TailFact DEF Types, LoseCommand
  <2> QED
    BY <1>9, <2>1 DEF LoseCommand
<1>10. CASE GetTraffic
  <2>1. /\ 1 \in DOMAIN wire /\ DOMAIN wire' = 1 .. Len(wire) - 1
        /\ \A i \in DOMAIN wire' : i + 1 \in DOMAIN wire /\ wire'[i] = wire[i + 1]
    BY <1>10, TailFact DEF Types, GetTraffic, Receive
  <2>3. /\ wire[1].id \in Command
        /\ answers' \in Seq(AnswerMessage) /\ Len(answers') = Len(answers) + 1
        /\ \A i \in DOMAIN answers : answers'[i] = answers[i]
        /\ answers'[Len(answers) + 1].to = wire[1].id
    <3>1. [speed |-> Speed, total |-> total] \in Traffic
      BY BoundsFact DEF Types, Speed, AtLeast0, Traffic, Bytes
    <3> QED
      BY <1>10, <2>1, <3>1, IdsFact, ReplyFact DEF GetTraffic, Receive
  <2>4. DOMAIN answers' = DOMAIN answers \cup {Len(answers) + 1}
    BY <2>3, IdsFact, LenProperties
  <2>5. wire[1].type = "getTraffic"
    BY <1>10, TailFact DEF GetTraffic, Receive, Types
  <2>6. latest # 0 => wire[1].id # latest
    BY <2>1, <2>5 DEF Matched, Waiting, Types
  <2> QED
    BY <1>10, <2>1, <2>3, <2>4, <2>6 DEF GetTraffic, Receive
<1>11. CASE CoreSetMode
  <2>1. /\ 1 \in DOMAIN wire /\ DOMAIN wire' = 1 .. Len(wire) - 1
        /\ \A i \in DOMAIN wire' : i + 1 \in DOMAIN wire /\ wire'[i] = wire[i + 1]
    BY <1>11, TailFact DEF Types, CoreSetMode, Receive
  <2>2. PICK ok \in BOOLEAN : Reply(ok, Empty) /\ (connected /\ up /\ ok /\ alive' => planMode' = coreMode')
    BY <1>11 DEF CoreSetMode, Sessions
  <2>3. /\ wire[1].id \in Command /\ wire # <<>>
        /\ answers' \in Seq(AnswerMessage) /\ Len(answers') = Len(answers) + 1
        /\ \A i \in DOMAIN answers : answers'[i] = answers[i]
        /\ answers'[Len(answers) + 1].to = wire[1].id /\ answers'[Len(answers) + 1].ok = ok
    BY <1>11, <2>1, <2>2, IdsFact, BoundsFact, ReplyFact DEF CoreSetMode, Receive
  <2>4. DOMAIN answers' = DOMAIN answers \cup {Len(answers) + 1}
    BY <2>3, IdsFact, LenProperties
  <2>5. wire[1].type = "setMode" /\ coreMode' = wire[1].mode
    BY <1>11, TailFact DEF CoreSetMode, Receive, Types
  <2>6. ASSUME latest # 0
        PROVE  /\ wire[1].id <= latest
               /\ \A i \in DOMAIN answers : answers[i].to # latest
    BY <2>1, <2>5, <2>6, IdsFact DEF InOrder, Types
  <2>7. ASSUME latest # 0, wire[1].id = latest
        PROVE  coreMode' = calls[latest].mode
    BY <2>1, <2>5, <2>7 DEF Matched, Waiting, Types
  <2>8. ASSUME latest # 0, NEW i \in DOMAIN answers', answers'[i].to = latest, up
        PROVE  /\ coreMode' = calls[latest].mode
               /\ answers'[i].ok /\ alive' => planMode' = coreMode'
    <3>1. i = Len(answers) + 1
      BY <2>3, <2>4, <2>6, <2>8
    <3>2. connected
      BY <2>8
    <3> QED
      BY <2>2, <2>3, <2>7, <2>8, <3>1, <3>2
  <2> QED
    BY <1>11, <2>1, <2>8 DEF CoreSetMode, Receive
<1>12. CASE Move
  BY <1>12 DEF Move
<1>13. CASE Die
  BY <1>13 DEF Die
<1>14. CASE UNCHANGED vars
  BY <1>14 DEF vars
<1> QED
  BY <1>1, <1>2, <1>3, <1>4, <1>5, <1>6, <1>7, <1>8, <1>9, <1>10, <1>11, <1>12, <1>13, <1>14
  DEF Next

\* Every step keeps what holds once it has been answered.
LEMMA NoneStep ==
  ASSUME Types, InOrder, Matched, LastIsOpen, NoneAfterLast, [Next]_vars
  PROVE  NoneAfterLast'
<1> USE DEF NoneAfterLast, promiseVars, serviceVars, coreVars, historyVars
<1>1. ASSUME NEW c \in Command, Poll(c)
      PROVE  NoneAfterLast'
  <2>1. Send(c, "getTraffic", Default)
    BY <1>1 DEF Poll
  <2>2. /\ \A b \in Command : b # c => calls'[b] = calls[b]
        /\ calls'[c].type = "getTraffic" /\ calls'[c].mode = Default
        /\ \A b \in Command : Used(b) <=> b < c
        /\ wire' \in Seq(CommandMessage) /\ Len(wire') = Len(wire) + 1
        /\ \A i \in DOMAIN wire : wire'[i] = wire[i]
        /\ wire'[Len(wire) + 1].id = c /\ wire'[Len(wire) + 1].type = "getTraffic"
        /\ wire'[Len(wire) + 1].mode = Default
    BY <2>1, SendFact, DefaultAssumption
  <2>3. DOMAIN wire' = DOMAIN wire \cup {Len(wire) + 1}
    BY <2>2, IdsFact, LenProperties
  <2>4. \A i \in DOMAIN answers : answers[i].to # c
    BY <2>2, IdsFact DEF InOrder
  <2> QED
    BY <1>1, <2>2, <2>3, <2>4, IdsFact DEF Poll
<1>2. ASSUME NEW c \in Command, TimeOut(c)
      PROVE  NoneAfterLast'
  <2>1. \A b \in Command : calls'[b] = calls[b] \/ calls'[b].type = "done"
    BY <1>2, BoundsFact DEF TimeOut, Types
  <2> QED
    BY <1>2, <2>1, IdsFact DEF TimeOut, Settle
<1>3. ASSUME NEW c \in Command, NEW m \in Mode, SetMode(c, m)
      PROVE  NoneAfterLast'
  BY <1>3 DEF SetMode, Send
<1>4. ASSUME NEW m \in Mode, SetModeOffline(m)
      PROVE  NoneAfterLast'
  BY <1>4 DEF SetModeOffline
<1>5. CASE Connect
  BY <1>5 DEF Connect
<1>6. CASE ConnectFails
  BY <1>6 DEF ConnectFails
<1>7. CASE Disconnect
  BY <1>7 DEF Disconnect
<1>8. CASE Deliver
  <2> DEFINE a == answers[1]
  <2>1. /\ answers # <<>> /\ answers' = Tail(answers) /\ a \in AnswerMessage
        /\ PollAnswered(a) \/ ModeAnswered(a) \/ Unclaimed(a)
        /\ UNCHANGED <<connected, session, wire, coreVars>>
    BY <1>8, DeliverFact
  <2>2. /\ 1 \in DOMAIN answers /\ DOMAIN answers' = 1 .. Len(answers) - 1
        /\ \A i \in DOMAIN answers' : i + 1 \in DOMAIN answers /\ answers'[i] = answers[i + 1]
    BY <2>1, TailFact DEF Types
  <2>3. \A c \in Command : calls'[c] = calls[c] \/ calls'[c].type = "done"
    BY <2>1, BoundsFact DEF PollAnswered, ModeAnswered, Unclaimed, Types
  <2>4. CASE verdict' = verdict
    BY <2>1, <2>2, <2>3, <2>4, IdsFact
  <2>5. CASE verdict' # verdict
    <3>1. latest = a.to /\ calls[a.to].type = "setMode" /\ latest # 0
      BY <2>1, <2>5, IdsFact DEF PollAnswered, ModeAnswered, Unclaimed, AnswerMessage
    <3>2. \A i \in DOMAIN wire : wire[i].type # "setMode"
      BY <2>2, <3>1, IdsFact DEF LastIsOpen, InOrder
    <3>3. \A i \in DOMAIN answers' : calls[answers'[i].to].type # "setMode"
      <4> SUFFICES ASSUME NEW i \in DOMAIN answers'
                   PROVE  calls[answers'[i].to].type # "setMode"
        OBVIOUS
      <4>1. answers'[i].to \in Command /\ latest < answers'[i].to
        BY <2>2, <3>1, IdsFact DEF InOrder
      <4> QED
        BY <3>1, <4>1, IdsFact DEF LastIsOpen, Types
    <3> QED
      BY <2>1, <2>2, <2>3, <3>2, <3>3, IdsFact
  <2> QED
    BY <2>4, <2>5
<1>9. CASE LoseCommand
  <2>1. /\ 1 \in DOMAIN wire /\ DOMAIN wire' = 1 .. Len(wire) - 1
        /\ \A i \in DOMAIN wire' : i + 1 \in DOMAIN wire /\ wire'[i] = wire[i + 1]
    BY <1>9, TailFact DEF Types, LoseCommand
  <2> QED
    BY <1>9, <2>1 DEF LoseCommand
<1>10. CASE GetTraffic
  <2>1. /\ 1 \in DOMAIN wire /\ DOMAIN wire' = 1 .. Len(wire) - 1
        /\ \A i \in DOMAIN wire' : i + 1 \in DOMAIN wire /\ wire'[i] = wire[i + 1]
    BY <1>10, TailFact DEF Types, GetTraffic, Receive
  <2>3. /\ wire[1].id \in Command
        /\ answers' \in Seq(AnswerMessage) /\ Len(answers') = Len(answers) + 1
        /\ \A i \in DOMAIN answers : answers'[i] = answers[i]
        /\ answers'[Len(answers) + 1].to = wire[1].id
    <3>1. [speed |-> Speed, total |-> total] \in Traffic
      BY BoundsFact DEF Types, Speed, AtLeast0, Traffic, Bytes
    <3> QED
      BY <1>10, <2>1, <3>1, IdsFact, ReplyFact DEF GetTraffic, Receive
  <2>4. DOMAIN answers' = DOMAIN answers \cup {Len(answers) + 1}
    BY <2>3, IdsFact, LenProperties
  <2>5. wire[1].type = "getTraffic"
    BY <1>10, TailFact DEF GetTraffic, Receive, Types
  <2>6. calls[wire[1].id].type # "setMode"
    BY <2>1, <2>5 DEF Matched, Waiting
  <2> QED
    BY <1>10, <2>1, <2>3, <2>4, <2>6 DEF GetTraffic, Receive
<1>11. CASE CoreSetMode
  <2>1. 1 \in DOMAIN wire /\ wire[1].type = "setMode"
    BY <1>11, TailFact DEF CoreSetMode, Receive, Types
  <2> QED
    BY <1>11, <2>1 DEF CoreSetMode, Receive
<1>12. CASE Move
  BY <1>12 DEF Move
<1>13. CASE Die
  BY <1>13 DEF Die
<1>14. CASE UNCHANGED vars
  BY <1>14 DEF vars
<1> QED
  BY <1>1, <1>2, <1>3, <1>4, <1>5, <1>6, <1>7, <1>8, <1>9, <1>10, <1>11, <1>12, <1>13, <1>14
  DEF Next

\* With that, every step keeps the agreement of page and core about the mode.
LEMMA ModeStep ==
  ASSUME Types, Sessions, LastIsOpen, NoneAfterLast, LatestModeHolds, [Next]_vars
  PROVE  LatestModeHolds'
<1> USE DEF LatestModeHolds, promiseVars, serviceVars, coreVars, historyVars
<1>1. ASSUME NEW c \in Command, Poll(c)
      PROVE  LatestModeHolds'
  BY <1>1 DEF Poll
<1>2. ASSUME NEW c \in Command, TimeOut(c)
      PROVE  LatestModeHolds'
  BY <1>2 DEF TimeOut, Settle
<1>3. ASSUME NEW c \in Command, NEW m \in Mode, SetMode(c, m)
      PROVE  LatestModeHolds'
  BY <1>3 DEF SetMode
<1>4. ASSUME NEW m \in Mode, SetModeOffline(m)
      PROVE  LatestModeHolds'
  BY <1>4 DEF SetModeOffline
<1>5. CASE Connect
  BY <1>5 DEF Connect
<1>6. CASE ConnectFails
  BY <1>6 DEF ConnectFails
<1>7. CASE Disconnect
  BY <1>7 DEF Disconnect
<1>8. CASE Deliver
  <2> DEFINE a == answers[1]
  <2>1. /\ answers # <<>> /\ answers' = Tail(answers) /\ a \in AnswerMessage
        /\ PollAnswered(a) \/ ModeAnswered(a) \/ Unclaimed(a)
        /\ UNCHANGED <<connected, session, wire, coreVars>>
    BY <1>8, DeliverFact
  <2>2. /\ 1 \in DOMAIN answers /\ DOMAIN answers' = 1 .. Len(answers) - 1
        /\ \A i \in DOMAIN answers' : i + 1 \in DOMAIN answers /\ answers'[i] = answers[i + 1]
    BY <2>1, TailFact DEF Types
  <2>3. CASE PollAnswered(a) \/ Unclaimed(a)
    BY <2>1, <2>3 DEF PollAnswered, Unclaimed
  <2>4. CASE ModeAnswered(a)
    <3>1. CASE latest = a.to
      BY <2>1, <2>2, <2>4, <3>1, IdsFact DEF ModeAnswered, LastIsOpen
    <3>2. CASE latest # a.to
      BY <2>1, <2>2, <2>4, <3>2 DEF ModeAnswered, NoneAfterLast
    <3> QED
      BY <3>1, <3>2
  <2> QED
    BY <2>1, <2>3, <2>4
<1>9. CASE LoseCommand
  BY <1>9 DEF LoseCommand
<1>10. CASE GetTraffic
  BY <1>10 DEF GetTraffic, Receive
<1>11. CASE CoreSetMode
  <2>1. 1 \in DOMAIN wire /\ wire[1].type = "setMode"
    BY <1>11, TailFact DEF CoreSetMode, Receive, Types
  <2> QED
    BY <1>11, <2>1 DEF CoreSetMode, Receive, NoneAfterLast
<1>12. CASE Move
  BY <1>12 DEF Move
<1>13. CASE Die
  BY <1>13 DEF Die
<1>14. CASE UNCHANGED vars
  BY <1>14 DEF vars
<1> QED
  BY <1>1, <1>2, <1>3, <1>4, <1>5, <1>6, <1>7, <1>8, <1>9, <1>10, <1>11, <1>12, <1>13, <1>14
  DEF Next

-----------------------------------------------------------------------------
(* The ledger of the bytes *)

\* Counters are numbers.
LEMMA NumbersFact ==
  ASSUME Types
  PROVE  /\ prev \in Nat /\ total \in Nat /\ counted \in Nat /\ moved \in Nat /\ paid \in Nat
         /\ session \in Nat
         /\ \A i \in DOMAIN answers : answers[i].data.speed \in Nat /\ answers[i].data.total \in Nat
  BY IdsFact, BoundsFact DEF Types, Bytes, Traffic

\* A smaller counter exceeds another one by less.
LEMMA LessRemains ==
  ASSUME NEW a \in Nat, NEW b \in Nat, NEW c \in Nat, NEW d \in Nat, NEW e \in Nat,
         a <= b, b - c <= d - e
  PROVE  a - c <= d - e
  OBVIOUS

\* What a counter exceeds another one by grows by no more than was moved.
LEMMA TotalRemains ==
  ASSUME NEW a \in Nat, NEW b \in Nat, NEW c \in Nat, NEW d \in Nat, NEW m \in Nat, NEW k \in Nat,
         a <= b + d, b - c <= m - k
  PROVE  a - c <= (m + d) - k
  OBVIOUS

\* The same of both counters of the core, or of counters that begin again.
LEMMA MoreRemains ==
  ASSUME NEW a \in Nat, NEW b \in Nat, NEW x \in Nat, NEW y \in Nat, NEW d \in Nat,
         NEW m \in Nat, NEW k \in Nat, k <= m,
         x - y <= a - b + d \/ x - y <= 0, a - b <= m - k
  PROVE  x - y <= (m + d) - k
  OBVIOUS

\* The ledger stays as it is when the answers do, nobody begins to wait for one
\* of them, and the core adds no more to its total than is moved.
LEMMA LedgerStays ==
  ASSUME Types, Ledger, connected, ~ late, UNCHANGED <<answers, prev, paid>>,
         \A i \in DOMAIN answers : Live(i)' => Live(i),
         NEW d \in Nat, moved' = moved + d, total' \in Nat, counted' \in Nat,
         total' <= total + d, total' - counted' <= total - counted + d \/ total' - counted' <= 0
  PROVE  Ledger'
<1>1. PICK mark \in [DOMAIN answers -> 0 .. moved], used \in 0 .. moved : Covered(mark, used)
  BY DEF Ledger
<1>2. mark \in [DOMAIN answers' -> 0 .. moved'] /\ used \in 0 .. moved'
  BY NumbersFact
<1>3. \A i \in DOMAIN answers : mark[i] \in 0 .. moved
  OBVIOUS
<1> used \in Nat /\ used <= moved /\ prev \in Nat /\ total \in Nat /\ counted \in Nat
    /\ moved \in Nat /\ paid \in Nat
  BY NumbersFact
<1>4. paid' <= used /\ total' - counted' <= moved' - used /\ (prev' > 0 => total' - prev' <= moved' - used)
  <2>1. paid <= used /\ total - counted <= moved - used /\ (prev > 0 => total - prev <= moved - used)
    BY <1>1 DEF Covered
  <2>2. total' - counted' <= (moved + d) - used
    BY <2>1, MoreRemains
  <2>3. prev > 0 => total' - prev <= (moved + d) - used
    BY <2>1, TotalRemains
  <2> QED
    BY <2>1, <2>2, <2>3
<1>5. ASSUME NEW i \in DOMAIN answers, Live(i)
      PROVE  /\ used <= mark[i]
             /\ answers[i].data.speed <= mark[i] - used
             /\ prev > 0 => answers[i].data.total - prev <= mark[i] - used
             /\ total' - counted' <= moved' - mark[i]
             /\ total' - answers[i].data.total <= moved' - mark[i]
  <2>1. /\ used <= mark[i]
        /\ answers[i].data.speed <= mark[i] - used
        /\ prev > 0 => answers[i].data.total - prev <= mark[i] - used
        /\ total - counted <= moved - mark[i]
        /\ total - answers[i].data.total <= moved - mark[i]
    BY <1>1, <1>5 DEF Covered
  <2>2. mark[i] \in Nat /\ mark[i] <= moved /\ answers[i].data.total \in Nat
    BY <1>3, NumbersFact
  <2>3. total' - counted' <= (moved + d) - mark[i]
    BY <2>1, <2>2, MoreRemains
  <2>4. total' - answers[i].data.total <= (moved + d) - mark[i]
    BY <2>1, <2>2, TotalRemains
  <2> QED
    BY <2>1, <2>3, <2>4
<1>6. Covered(mark, used)'
  BY <1>1, <1>4, <1>5 DEF Covered
<1> QED
  BY <1>2, <1>6 DEF Ledger

\* The first answer goes: if a poll of the session was waiting for it, what it
\* shows is paid for by the bytes moved up to its mark.
LEMMA LedgerDelivers ==
  ASSUME Types, Ledger, Deliver, connected, ~ late, ~ late'
  PROVE  Ledger'
<1> DEFINE a == answers[1]
<1>1. /\ answers # <<>> /\ answers' = Tail(answers) /\ a \in AnswerMessage
      /\ PollAnswered(a) \/ ModeAnswered(a) \/ Unclaimed(a)
      /\ UNCHANGED <<connected, session, total, counted, moved>>
  BY DeliverFact DEF coreVars
<1>2. /\ 1 \in DOMAIN answers /\ DOMAIN answers' = 1 .. Len(answers) - 1
      /\ \A i \in DOMAIN answers' : i + 1 \in DOMAIN answers /\ answers'[i] = answers[i + 1]
  BY <1>1, TailFact DEF Types
<1>3. PICK mark \in [DOMAIN answers -> 0 .. moved], used \in 0 .. moved : Covered(mark, used)
  BY DEF Ledger
<1>0. PICK next : next = [i \in DOMAIN answers' |-> mark[i + 1]]
  OBVIOUS
<1>4. next \in [DOMAIN answers' -> 0 .. moved'] /\ \A i \in DOMAIN answers' : next[i] = mark[i + 1]
  BY <1>0, <1>1, <1>2
<1>5. \A c \in Command : calls'[c] = calls[c] \/ calls'[c].type = "done"
  BY <1>1, BoundsFact DEF PollAnswered, ModeAnswered, Unclaimed, Types
<1>6. \A i \in DOMAIN answers' : Live(i)' => Live(i + 1)
  BY <1>1, <1>2, <1>5, IdsFact DEF Live
<1>7. \A i \in DOMAIN answers : mark[i] \in 0 .. moved
  OBVIOUS
<1>8. \A i \in DOMAIN answers' : i \in Nat /\ 1 < i + 1
  BY <1>2, IdsFact
<1> HIDE DEF a
<1>9. CASE UNCHANGED <<prev, paid>>
  <2>1. ASSUME NEW i \in DOMAIN answers', Live(i)'
        PROVE  /\ used <= next[i]
               /\ answers'[i].data.speed <= next[i] - used
               /\ prev > 0 => answers'[i].data.total - prev <= next[i] - used
               /\ total - counted <= moved - next[i]
               /\ total - answers'[i].data.total <= moved - next[i]
    BY <1>2, <1>3, <1>4, <1>6, <2>1 DEF Covered
  <2>2. ASSUME NEW i \in DOMAIN answers', NEW j \in DOMAIN answers', i < j, Live(i)', Live(j)'
        PROVE  /\ next[i] <= next[j]
               /\ answers'[j].data.speed <= next[j] - next[i]
               /\ answers'[j].data.total - answers'[i].data.total <= next[j] - next[i]
    <3>1. Live(i + 1) /\ Live(j + 1) /\ i + 1 < j + 1
      BY <1>6, <1>8, <2>2
    <3> QED
      BY <1>2, <1>3, <1>4, <3>1 DEF Covered
  <2>3. Covered(next, used)'
    BY <1>1, <1>3, <1>9, <2>1, <2>2 DEF Covered
  <2> QED
    BY <1>1, <1>4, <2>3 DEF Ledger
<1>10. CASE PollAnswered(a) /\ a.ok
  <2>1. Live(1)
    BY <1>10 DEF PollAnswered, Live, a
  <2>2. last' = Updated(a.data) /\ prev' = a.data.total /\ paid' = paid + last'.speed
    BY <1>10 DEF PollAnswered
  <2>3. last'.speed <= mark[1] - used /\ last'.speed \in Nat
    <3>1. /\ used <= mark[1] /\ a.data.speed <= mark[1] - used
          /\ prev > 0 => a.data.total - prev <= mark[1] - used
      BY <1>2, <1>3, <2>1 DEF Covered, a
    <3>2. /\ mark[1] \in Nat /\ used \in Nat /\ prev \in Nat
          /\ a.data.speed \in Nat /\ a.data.total \in Nat
      BY <1>2, <1>7, NumbersFact DEF a
    <3>3. last'.speed = IF a.data.speed = 0 /\ prev > 0 THEN AtLeast0(a.data.total - prev) ELSE a.data.speed
      BY <2>2 DEF Updated
    <3> QED
      BY <3>1, <3>2, <3>3 DEF AtLeast0
  <2>4. /\ \A i \in DOMAIN answers' : Live(i)' =>
             /\ mark[1] <= mark[i + 1]
             /\ answers[i + 1].data.speed <= mark[i + 1] - mark[1]
             /\ answers[i + 1].data.total - a.data.total <= mark[i + 1] - mark[1]
    BY <1>2, <1>3, <1>6, <1>8, <2>1 DEF Covered, a
  <2>5. paid <= used /\ total - counted <= moved - mark[1] /\ total - a.data.total <= moved - mark[1]
    BY <1>2, <1>3, <2>1 DEF Covered, a
  <2>6. mark[1] \in 0 .. moved'
    BY <1>1, <1>2, <1>7
  <2>7. paid' <= mark[1]
    BY <2>2, <2>3, <2>5, <2>6, NumbersFact
  <2>8. ASSUME NEW i \in DOMAIN answers', NEW j \in DOMAIN answers', i < j, Live(i)', Live(j)'
        PROVE  /\ next[i] <= next[j]
               /\ answers'[j].data.speed <= next[j] - next[i]
               /\ answers'[j].data.total - answers'[i].data.total <= next[j] - next[i]
    <3>1. Live(i + 1) /\ Live(j + 1) /\ i + 1 < j + 1
      BY <1>6, <1>8, <2>8
    <3> QED
      BY <1>2, <1>3, <1>4, <3>1 DEF Covered
  <2>9. ASSUME NEW i \in DOMAIN answers', Live(i)'
        PROVE  total - counted <= moved - next[i] /\ total - answers'[i].data.total <= moved - next[i]
    BY <1>2, <1>3, <1>4, <1>6, <2>9 DEF Covered
  <2>10. Covered(next, mark[1])'
    BY <1>1, <1>2, <1>4, <2>2, <2>4, <2>5, <2>7, <2>8, <2>9 DEF Covered
  <2> QED
    BY <1>4, <2>6, <2>10 DEF Ledger
<1> QED
  BY <1>1, <1>9, <1>10 DEF PollAnswered, ModeAnswered, Unclaimed

\* A new answer: of a poll, with the bytes moved so far as its mark, or of a
\* mode command, which speaks of no bytes.
LEMMA LedgerAnswers ==
  ASSUME Types, Matched, Ledger, connected, ~ late, GetTraffic \/ CoreSetMode
  PROVE  Ledger'
<1>1. PICK ok \in BOOLEAN, data \in Traffic :
        /\ Reply(ok, data)
        /\ GetTraffic => data = [speed |-> Speed, total |-> total]
  <2>1. [speed |-> Speed, total |-> total] \in Traffic
    BY BoundsFact DEF Types, Speed, AtLeast0, Traffic, Bytes
  <2>2. CASE GetTraffic
    BY <2>1, <2>2 DEF GetTraffic
  <2>3. CASE ~ GetTraffic /\ CoreSetMode
    BY <2>3, BoundsFact DEF CoreSetMode
  <2> QED
    BY <2>2, <2>3
<1>2. wire # <<>> /\ 1 \in DOMAIN wire /\ wire[1].id \in Command /\ Head(wire) = wire[1]
  BY TailFact, IdsFact DEF GetTraffic, CoreSetMode, Receive, Types
<1>20. PICK n : n = Len(answers) + 1
  OBVIOUS
<1>3. /\ answers' \in Seq(AnswerMessage) /\ Len(answers') = n
      /\ \A i \in DOMAIN answers : answers'[i] = answers[i]
      /\ answers'[n].to = wire[1].id /\ answers'[n].data = data
  BY <1>1, <1>2, <1>20, ReplyFact
<1>4. /\ DOMAIN answers' = 1 .. n /\ DOMAIN answers = 1 .. n - 1 /\ n \in Nat \ {0}
  BY <1>3, <1>20, IdsFact, LenProperties
<1>5. UNCHANGED <<calls, session, prev, paid, moved, connected, late>>
  BY DEF GetTraffic, CoreSetMode, Receive, serviceVars, historyVars
<1>6. PICK mark \in [DOMAIN answers -> 0 .. moved], used \in 0 .. moved : Covered(mark, used)
  BY DEF Ledger
<1>21. PICK next : next = [i \in DOMAIN answers' |-> IF i = n THEN moved ELSE mark[i]]
  OBVIOUS
<1>7. next \in [DOMAIN answers' -> 0 .. moved'] /\ used \in 0 .. moved'
  BY <1>4, <1>5, <1>21, NumbersFact
<1>8. next[n] = moved /\ \A i \in DOMAIN answers : next[i] = mark[i] /\ mark[i] \in 0 .. moved
  <2>1. n \in DOMAIN answers' /\ \A i \in DOMAIN answers : i \in DOMAIN answers' /\ i # n
    BY <1>4
  <2> QED
    BY <1>21, <2>1
<1>9. \A i \in DOMAIN answers : Live(i)' <=> Live(i)
  BY <1>3, <1>5 DEF Live
<1>10. \A i \in DOMAIN answers' : i = n \/ i \in DOMAIN answers
  BY <1>4
<1>11. \A i, j \in DOMAIN answers' : i < j => i \in DOMAIN answers
  BY <1>4
<1>12. CASE GetTraffic
  <2>1. total' = total /\ counted' = total
    BY <1>12 DEF GetTraffic
  <2>2. data.speed = AtLeast0(total - counted) /\ data.total = total
    BY <1>1, <1>12 DEF Speed
  <2>3. data.speed <= moved - used /\ data.speed \in Nat
    BY <1>6, <2>2, NumbersFact DEF AtLeast0, Covered
  <2>4. ASSUME NEW i \in DOMAIN answers', Live(i)'
        PROVE  /\ used <= next[i]
               /\ answers'[i].data.speed <= next[i] - used
               /\ prev > 0 => answers'[i].data.total - prev <= next[i] - used
               /\ 0 <= moved - next[i]
               /\ total - answers'[i].data.total <= moved - next[i]
    <3>1. CASE i = n
      BY <1>3, <1>6, <1>8, <2>2, <2>3, <3>1, NumbersFact DEF Covered
    <3>2. CASE i \in DOMAIN answers
      BY <1>3, <1>6, <1>8, <1>9, <2>4, <3>2, NumbersFact DEF Covered
    <3> QED
      BY <1>10, <3>1, <3>2
  <2>5. ASSUME NEW i \in DOMAIN answers', NEW j \in DOMAIN answers', i < j, Live(i)', Live(j)'
        PROVE  /\ next[i] <= next[j]
               /\ answers'[j].data.speed <= next[j] - next[i]
               /\ answers'[j].data.total - answers'[i].data.total <= next[j] - next[i]
    <3>1. i \in DOMAIN answers /\ Live(i)
      BY <1>9, <1>11, <2>5
    <3>2. CASE j = n
      <4>1. total - counted <= moved - mark[i] /\ total - answers[i].data.total <= moved - mark[i]
        BY <1>6, <3>1 DEF Covered
      <4>2. data.speed <= moved - mark[i]
        BY <1>8, <2>2, <3>1, <4>1, NumbersFact DEF AtLeast0
      <4> QED
        BY <1>3, <1>8, <2>2, <3>1, <3>2, <4>1, <4>2, NumbersFact
    <3>3. CASE j \in DOMAIN answers
      BY <1>3, <1>6, <1>8, <1>9, <2>5, <3>1, <3>3 DEF Covered
    <3> QED
      BY <1>10, <3>2, <3>3
  <2>6. Covered(next, used)'
    BY <1>5, <1>6, <2>1, <2>4, <2>5, NumbersFact DEF Covered
  <2> QED
    BY <1>7, <2>6 DEF Ledger
<1>13. CASE CoreSetMode
  <2>1. total' \in Nat /\ total' <= total /\ counted' = counted
    <3>1. total \in Nat
      BY NumbersFact
    <3>2. (total' = total \/ total' = 0) /\ counted' = counted
      BY <1>13 DEF CoreSetMode
    <3> QED
      BY <3>1, <3>2
  <2>2. ~ Live(n)'
    BY <1>2, <1>3, <1>5, <1>13 DEF Live, Matched, Waiting, CoreSetMode, Receive
  <2>3. \A i \in DOMAIN answers' : Live(i)' => i \in DOMAIN answers /\ Live(i)
    BY <1>9, <1>10, <2>2
  <2>4. /\ total \in Nat /\ counted \in Nat /\ prev \in Nat /\ moved \in Nat /\ used \in Nat
        /\ \A i \in DOMAIN answers : mark[i] \in Nat /\ answers[i].data.total \in Nat
    BY <1>8, NumbersFact
  <2>5. total' - counted' <= moved - used /\ (prev > 0 => total' - prev <= moved - used) /\ paid <= used
    <3>1. total - counted <= moved - used /\ (prev > 0 => total - prev <= moved - used) /\ paid <= used
      BY <1>6 DEF Covered
    <3> total \in Nat /\ counted \in Nat /\ prev \in Nat /\ moved \in Nat /\ used \in Nat /\ total' \in Nat
      BY <2>1, <2>4
    <3>2. total' - counted <= moved - used
      BY <2>1, <3>1, LessRemains
    <3>3. prev > 0 => total' - prev <= moved - used
      BY <2>1, <3>1, LessRemains
    <3> QED
      BY <2>1, <3>1, <3>2, <3>3
  <2>6. ASSUME NEW i \in DOMAIN answers', Live(i)'
        PROVE  /\ used <= next[i]
               /\ answers'[i].data.speed <= next[i] - used
               /\ prev > 0 => answers'[i].data.total - prev <= next[i] - used
               /\ total' - counted' <= moved - next[i]
               /\ total' - answers'[i].data.total <= moved - next[i]
    <3>1. i \in DOMAIN answers /\ Live(i) /\ answers'[i] = answers[i] /\ next[i] = mark[i]
      BY <1>3, <1>8, <2>3, <2>6
    <3>2. total - counted <= moved - mark[i] /\ total - answers[i].data.total <= moved - mark[i]
      BY <1>6, <3>1 DEF Covered
    <3>3. mark[i] \in Nat /\ answers[i].data.total \in Nat
      BY <2>4, <3>1
    <3>4. total' - counted' <= moved - mark[i] /\ total' - answers[i].data.total <= moved - mark[i]
      BY <2>1, <2>4, <3>2, <3>3
    <3> QED
      BY <1>6, <3>1, <3>4 DEF Covered
  <2>7. ASSUME NEW i \in DOMAIN answers', NEW j \in DOMAIN answers', i < j, Live(i)', Live(j)'
        PROVE  /\ next[i] <= next[j]
               /\ answers'[j].data.speed <= next[j] - next[i]
               /\ answers'[j].data.total - answers'[i].data.total <= next[j] - next[i]
    BY <1>3, <1>6, <1>8, <2>3, <2>7 DEF Covered
  <2>8. Covered(next, used)'
    BY <1>5, <2>5, <2>6, <2>7 DEF Covered
  <2> QED
    BY <1>7, <2>8 DEF Ledger
<1> QED
  BY <1>12, <1>13

\* Every step that leaves the page connected keeps the ledger: connecting opens a new
\* one, because no answer of an earlier session is live in it.
LEMMA LedgerStep ==
  ASSUME Types, InOrder, Matched, Sessions, Ledger, Forgotten, [Next]_vars, connected', ~ late'
  PROVE  Ledger'
<1> USE DEF promiseVars, serviceVars, coreVars, historyVars
<1> DEFINE Frame == UNCHANGED <<prev, paid, session, connected, late, moved, total, counted, answers>>
           Held == \A i \in DOMAIN answers : \/ calls'[answers[i].to] = calls[answers[i].to]
                                              \/ calls'[answers[i].to].type = "done"
<1>1. ASSUME Frame, Held
      PROVE  Ledger'
  <2>1. \A i \in DOMAIN answers : Live(i)' => Live(i)
    BY <1>1 DEF Live
  <2>2. connected /\ ~ late /\ total' <= total /\ moved' = moved + 0 /\ total' - counted' <= total - counted
    BY <1>1, NumbersFact
  <2> QED
    BY <1>1, <2>1, <2>2, NumbersFact, LedgerStays
<1>2. ASSUME NEW c \in Command, Poll(c) \/ \E m \in Mode : SetMode(c, m)
      PROVE  Ledger'
  <2>1. \A i \in DOMAIN answers : calls'[answers[i].to] = calls[answers[i].to]
    <3>1. \E type \in {"getTraffic", "setMode"}, m \in Mode : Send(c, type, m)
      BY <1>2, DefaultAssumption DEF Poll, SetMode
    <3>2. (\A b \in Command : b # c => calls'[b] = calls[b]) /\ ~ Used(c)
      BY <3>1, SendFact
    <3> QED
      BY <3>2, IdsFact DEF InOrder, Used
  <2> QED
    BY <1>1, <1>2, <2>1 DEF Poll, SetMode
<1>3. ASSUME NEW c \in Command, TimeOut(c)
      PROVE  Ledger'
  <2>1. Held
    BY <1>3, IdsFact, BoundsFact DEF TimeOut, Types
  <2> QED
    BY <1>1, <1>3, <2>1 DEF TimeOut
<1>4. CASE LoseCommand
  BY <1>1, <1>4 DEF LoseCommand
<1>5. CASE Connect
  <2>1. /\ ~ connected /\ ~ late /\ session' = session + 1 /\ answers' = answers /\ calls' = calls
        /\ paid' = 0 /\ moved' = 0 /\ total' = 0 /\ counted' = 0 /\ prev' = prev
    BY <1>5 DEF Connect
  <2>2. prev' = 0
    BY <2>1 DEF Forgotten
  <2>3. \A i \in DOMAIN answers : ~ Live(i)'
    BY <2>1, IdsFact, NumbersFact DEF Live, Sessions, Types, Call
  <2>4. PICK mark : mark = [i \in DOMAIN answers |-> 0]
    OBVIOUS
  <2>5. mark \in [DOMAIN answers' -> 0 .. moved'] /\ 0 \in 0 .. moved'
    BY <2>1, <2>4
  <2>6. Covered(mark, 0)'
    BY <2>1, <2>2, <2>3 DEF Covered
  <2> QED
    BY <2>5, <2>6 DEF Ledger
<1>6. CASE Deliver
  <2>1. connected /\ ~ late
    BY <1>6 DEF Deliver
  <2> QED
    BY <1>6, <2>1, LedgerDelivers
<1>7. CASE GetTraffic \/ CoreSetMode
  <2>1. UNCHANGED <<connected, late>>
    BY <1>7 DEF GetTraffic, CoreSetMode, Receive
  <2> QED
    BY <1>7, <2>1, LedgerAnswers
<1>8. CASE Move
  <2>1. connected /\ ~ late
    BY <1>8 DEF Move
  <2>2. /\ total' = total + 1 /\ moved' = moved + 1 /\ counted' = counted
        /\ UNCHANGED <<answers, prev, paid, calls, session>>
    BY <1>8, <2>1 DEF Move
  <2>3. total' \in Nat /\ counted' \in Nat /\ total' <= total + 1 /\ total' - counted' <= total - counted + 1
    BY <2>2, NumbersFact
  <2>4. \A i \in DOMAIN answers : Live(i)' => Live(i)
    BY <2>2 DEF Live
  <2> QED
    BY <2>1, <2>2, <2>3, <2>4, LedgerStays
<1>9. CASE Die
  <2>1. connected /\ ~ late
    BY <1>9 DEF Die
  <2>2. /\ total' = 0 /\ counted' = 0
        /\ UNCHANGED <<answers, prev, paid, calls, session, moved>>
    BY <1>9 DEF Die
  <2>3. moved' = moved + 0 /\ total' <= total + 0 /\ total' - counted' <= 0
    BY <2>2, NumbersFact
  <2>4. \A i \in DOMAIN answers : Live(i)' => Live(i)
    BY <2>2 DEF Live
  <2> QED
    BY <2>1, <2>2, <2>3, <2>4, LedgerStays
<1>10. CASE UNCHANGED vars
  BY <1>1, <1>10 DEF vars
<1>11. ~ (ConnectFails \/ Disconnect \/ \E m \in Mode : SetModeOffline(m))
  BY DEF ConnectFails, Disconnect, SetModeOffline
<1> QED
  BY <1>2, <1>3, <1>4, <1>5, <1>6, <1>7, <1>8, <1>9, <1>10, <1>11 DEF Next

\* Every step keeps a page that is not connected without traffic.
LEMMA ForgottenStep ==
  ASSUME Types, Forgotten, [Next]_vars
  PROVE  Forgotten'
<1> USE DEF Forgotten, Types, promiseVars, serviceVars, coreVars, historyVars
<1>1. ASSUME NEW c \in Command, Poll(c)
      PROVE  Forgotten'
  BY <1>1 DEF Poll
<1>2. ASSUME NEW c \in Command, TimeOut(c)
      PROVE  Forgotten'
  BY <1>2 DEF TimeOut
<1>3. ASSUME NEW c \in Command, NEW m \in Mode, SetMode(c, m)
      PROVE  Forgotten'
  BY <1>3 DEF SetMode
<1>4. ASSUME NEW m \in Mode, SetModeOffline(m)
      PROVE  Forgotten'
  BY <1>4 DEF SetModeOffline
<1>5. CASE Connect
  BY <1>5 DEF Connect
<1>6. CASE ConnectFails
  BY <1>6 DEF ConnectFails
<1>7. CASE Disconnect
  BY <1>7 DEF Disconnect
<1>8. CASE Deliver
  BY <1>8, DeliverFact DEF PollAnswered, ModeAnswered, Unclaimed
<1>9. CASE LoseCommand
  BY <1>9 DEF LoseCommand
<1>10. CASE GetTraffic
  BY <1>10 DEF GetTraffic, Receive
<1>11. CASE CoreSetMode
  BY <1>11 DEF CoreSetMode, Receive
<1>12. CASE Move
  BY <1>12 DEF Move
<1>13. CASE Die
  BY <1>13 DEF Die
<1>14. CASE UNCHANGED vars
  BY <1>14 DEF vars
<1> QED
  BY <1>1, <1>2, <1>3, <1>4, <1>5, <1>6, <1>7, <1>8, <1>9, <1>10, <1>11, <1>12, <1>13, <1>14
  DEF Next

-----------------------------------------------------------------------------
(* The theorems *)

\* The program starts in a state of the invariant.
LEMMA InitIInv == Init => IInv
<1> SUFFICES ASSUME Init PROVE IInv
  OBVIOUS
<1> USE BoundsFact, DefaultAssumption DEF Init
<1>1. /\ wire \in Seq(CommandMessage) /\ answers \in Seq(AnswerMessage)
      /\ DOMAIN wire = {} /\ DOMAIN answers = {}
  OBVIOUS
<1>2. \A c \in Command : calls[c] = Unused
  OBVIOUS
<1>3. Types
  BY <1>1 DEF Types
<1>4. InOrder /\ Matched /\ NoneAfterLast
  BY <1>1, <1>2 DEF InOrder, Matched, NoneAfterLast, Used
<1>5. Sessions
  BY <1>2 DEF Sessions
<1>6. LastIsOpen /\ LatestModeHolds
  BY DEF LastIsOpen, LatestModeHolds
<1>7. Ledger /\ Forgotten
  BY DEF Ledger, Forgotten
<1> QED
  BY <1>3, <1>4, <1>5, <1>6, <1>7 DEF IInv, ModeInv, BytesInv

\* No step leaves the invariant.
LEMMA StepIInv == IInv /\ [Next]_vars => IInv'
<1> SUFFICES ASSUME IInv, [Next]_vars PROVE IInv'
  OBVIOUS
<1>1. Types /\ ModeInv /\ Ledger /\ Forgotten
  BY DEF IInv, BytesInv
<1>2. Types' /\ InOrder'
  BY <1>1, TypesStep, OrderStep DEF ModeInv
<1>3. Matched' /\ Sessions' /\ LastIsOpen' /\ NoneAfterLast' /\ LatestModeHolds'
  BY <1>1, MatchedStep, SessionsStep, LastStep, NoneStep, ModeStep DEF ModeInv
<1>4. Ledger'
  BY <1>1, LedgerStep DEF ModeInv, Ledger
<1>5. Forgotten'
  BY <1>1, ForgottenStep
<1> QED
  BY <1>2, <1>3, <1>4, <1>5 DEF IInv, ModeInv, BytesInv

\* The inductive invariant holds always.
LEMMA InvariantHolds == Spec => []IInv
  BY InitIInv, StepIInv, PTL DEF Spec

\* Every variable keeps its type: speeds and totals stay numbers of bytes, and
\* `latest` is a mode command that waits (updateTrafficFromTotals, saturating_sub).
THEOREM ChannelTypesOK == Spec => []ChannelTypeOK
<1>1. IInv => ChannelTypeOK
  BY TypesGive DEF IInv
<1> QED
  BY <1>1, InvariantHolds, PTL

\* However many mode commands are sent, time out, overtake an answer or are
\* refused, and however often the extension dies: when the latest one of the
\* session has been answered, Home shows the mode of the core (setMode of
\* NapiClashService.ets, set_mode of lib.rs).
THEOREM LatestModeAlwaysHolds == Spec => []LatestModeHolds
<1>1. IInv => LatestModeHolds
  BY DEF IInv, ModeInv
<1> QED
  BY <1>1, InvariantHolds, PTL

\* The speeds a session shows never add up to more than it moved, and a page
\* that is not connected shows none (get_traffic_json, updateTrafficFromTotals,
\* TrafficMonitor.poll).
THEOREM BytesAreShownOnce == Spec => []BytesOnce
<1>1. IInv => BytesOnce
  <2> SUFFICES ASSUME IInv, ~ late PROVE paid <= moved /\ (~ connected => shown = Empty)
    BY DEF BytesOnce
  <2>1. CASE connected
    <3>1. PICK used \in 0 .. moved : paid <= used
      BY <2>1 DEF IInv, BytesInv, Ledger, Covered
    <3> QED
      BY <2>1, <3>1, NumbersFact DEF IInv
  <2>2. CASE ~ connected
    BY <2>2, NumbersFact DEF IInv, BytesInv, Forgotten
  <2> QED
    BY <2>1, <2>2
<1> QED
  BY <1>1, InvariantHolds, PTL
===============================================================================
