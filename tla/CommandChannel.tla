---------------------------- MODULE CommandChannel ----------------------------
(***************************************************************************)
(* Commands of the UI to the native core in the extension, by common       *)
(* events (NativeCoreExtensionService.ets, handleNativeCoreCommand of      *)
(* ClashVpnAbility.ets), and the two uses that keep state on both sides:   *)
(* polling the traffic (TrafficMonitor.ets, NapiClashService.ets,          *)
(* get_traffic_json of lib.rs) and switching the mode.                     *)
(*                                                                         *)
(* UI and extension are two processes with one JS thread each.  The events *)
(* of one publisher arrive in the order of their publication, if somebody  *)
(* listens then; an answer that gets lost is one that comes too late.  One *)
(* direction of the traffic is modelled, and the time between two polls is *)
(* the unit of time, so that a speed is a number of bytes.                 *)
(* Connecting and disconnecting are modelled in detail in VpnService; here *)
(* each is one step.                                                       *)
(***************************************************************************)
EXTENDS Integers, Sequences

CONSTANTS
  MaxCommand,  \* bound: commands that are sent
  Mode,        \* rule, global, direct
  Default,     \* the mode the UI begins with
  MaxBytes,    \* bound: bytes in a session
  MaxSession   \* bound: connects

ASSUME DefaultAssumption == Default \in Mode
ASSUME BoundsAssumption == {MaxCommand, MaxBytes, MaxSession} \subseteq Nat

Command == 1 .. MaxCommand   \* their ids: commandId

VARIABLES
  calls,       \* the promise of each command: [type, mode, session] while it waits
  connected,   \* NapiClashService.state is CONNECTED
  mode,        \* NapiClashService.mode, which Home shows
  last,        \* lastTraffic: [speed, total]
  prev,        \* prevUpload
  polling,     \* the timer of TrafficMonitor runs
  shown,       \* TrafficMonitor.currentData, which Home shows
  session,     \* number of connects so far
  latest,      \* the last mode command of the session while it waits, else 0
  wire,        \* NATIVE_CORE_COMMAND events on their way: [id, type, mode]
  answers,     \* NATIVE_CORE_RESULT events on their way: [to, ok, data]
  up,          \* an extension listens
  running,     \* guard.running of the core
  alive,       \* the backend moves traffic
  total,       \* UPLOAD_BYTES
  counted,     \* last_upload_total
  coreMode,    \* connection_mode
  planMode,    \* the mode the backend was last started with
  moved,       \* history: the bytes of the session
  paid,        \* history: the sum of the speeds shown in the session, until late
  verdict,     \* history: what became of the last mode command of the session
  late         \* history: an answer of an earlier session was used

promiseVars == <<calls, wire>>
serviceVars == <<connected, last, prev>>
historyVars == <<paid, verdict, late>>
coreVars == <<up, running, alive, total, counted, coreMode, planMode, moved>>
vars == <<calls, connected, mode, last, prev, polling, shown, session, latest, wire, answers,
          coreVars, historyVars>>

Empty == [speed |-> 0, total |-> 0]

Idle(type) == [type |-> type, mode |-> Default, session |-> 0]
Unused == Idle("unused")
Done == Idle("done")

Waiting(c) == calls[c].type \in {"getTraffic", "setMode"}

AtLeast0(n) == IF n < 0 THEN 0 ELSE n

-----------------------------------------------------------------------------
(* Sending a command *)

\* sendCommandWithMode: the waiter listens, and the event is published.
Send(c, type, m) ==
  /\ calls[c] = Unused /\ \A b \in 1 .. c - 1 : calls[b] # Unused
  /\ calls' = [calls EXCEPT ![c] = [type |-> type, mode |-> m, session |-> session]]
  /\ wire' = Append(wire, [id |-> c, type |-> type, mode |-> m])

\* TrafficMonitor.poll, up to its await.
Poll(c) ==
  /\ polling /\ connected
  /\ Send(c, "getTraffic", Default)
  /\ UNCHANGED <<serviceVars, mode, polling, shown, session, latest, answers, coreVars, historyVars>>

\* NapiClashService.setMode, up to its await.
SetMode(c, m) ==
  /\ connected
  /\ Send(c, "setMode", m)
  /\ latest' = c /\ verdict' = "open"
  /\ UNCHANGED <<serviceVars, mode, polling, shown, session, answers, coreVars, paid, late>>

SetModeOffline(m) ==
  /\ ~ connected /\ m # mode
  /\ mode' = m
  /\ UNCHANGED <<promiseVars, serviceVars, polling, shown, session, latest, answers, coreVars, historyVars>>

-----------------------------------------------------------------------------
(* The end of a command *)

\* What became of the last mode command, if it is one of these.
Settle(settled, how) ==
  /\ latest' = IF latest \in settled THEN 0 ELSE latest
  /\ verdict' = IF latest \in settled THEN how ELSE verdict

\* Mutant of TimeOut: the time runs only once the command has been received.
TimeOutReceived(c) ==
  /\ Waiting(c) /\ \A i \in DOMAIN wire : wire[i].id # c
  /\ calls' = [calls EXCEPT ![c] = Done]
  /\ shown' = IF calls[c].type = "getTraffic" THEN last ELSE shown
  /\ Settle({c}, "failed")
  /\ UNCHANGED <<wire, serviceVars, mode, polling, session, answers, coreVars, paid, late>>

\* finish with an error: the time is over, or an event could not be published.
\* A poll shows the last traffic again; a mode stays as it is.
TimeOut(c) ==
  /\ Waiting(c)
  /\ calls' = [calls EXCEPT ![c] = Done]
  /\ shown' = IF calls[c].type = "getTraffic" THEN last ELSE shown
  /\ Settle({c}, "failed")
  /\ UNCHANGED <<wire, serviceVars, mode, polling, session, answers, coreVars, paid, late>>

\* updateTrafficFromTotals: without a speed of the core, the difference to the
\* total of the answer before.
Updated(data) ==
  [speed |-> IF data.speed = 0 /\ prev > 0 THEN AtLeast0(data.total - prev) ELSE data.speed,
   total |-> data.total]

\* Mutant of Answered: the result of any command will do.
AnsweredByAny(c, a) == Waiting(c)

\* The listener of a command takes the result that carries its id.
Answered(c, a) == Waiting(c) /\ c = a.to

\* A result arrives.  getTrafficAsync and poll, or setMode, go on after their
\* await.  setMode does not look at the result.
Deliver ==
  /\ answers # <<>>
  /\ LET a == Head(answers)
         polls == {c \in Command : Answered(c, a) /\ calls[c].type = "getTraffic"}
         modes == {c \in Command : Answered(c, a) /\ calls[c].type = "setMode"}
         fresh == \A c \in polls : connected /\ calls[c].session = session
     IN /\ answers' = Tail(answers)
        /\ calls' = [c \in Command |-> IF c \in polls \cup modes THEN Done ELSE calls[c]]
        /\ Settle(modes, IF a.ok THEN "accepted" ELSE "refused")
        /\ IF polls # {} /\ a.ok
           THEN last' = Updated(a.data) /\ prev' = a.data.total
           ELSE UNCHANGED <<last, prev>>
        /\ shown' = IF polls # {} THEN last' ELSE shown
        /\ late' = (late \/ ~ fresh)
        /\ paid' = IF late' THEN 0 ELSE IF polls # {} /\ a.ok THEN paid + last'.speed ELSE paid
        /\ \/ modes = {} /\ UNCHANGED mode
           \/ \E c \in modes : mode' = calls[c].mode
  /\ UNCHANGED <<connected, polling, session, wire, coreVars>>

\* Nobody listens when the command arrives.
LoseCommand ==
  /\ ~ up /\ wire # <<>> /\ wire' = Tail(wire)
  /\ UNCHANGED <<calls, serviceVars, mode, polling, shown, session, latest, answers, coreVars, historyVars>>

-----------------------------------------------------------------------------
(* In the extension *)

Receive(type) ==
  /\ up /\ wire # <<>> /\ Head(wire).type = type
  /\ wire' = Tail(wire)
  /\ UNCHANGED <<calls, serviceVars, mode, polling, shown, session, latest, historyVars>>

Reply(ok, data) == answers' = Append(answers, [to |-> Head(wire).id, ok |-> ok, data |-> data])

\* Mutant of Speed: an ordinary subtraction.
SpeedSigned == total - counted

\* saturating_sub: the counters may have been reset by a restart of the
\* backend, last_upload_total is not.
Speed == AtLeast0(total - counted)

\* Mutant of GetTraffic: the total of this answer is not kept.
GetTrafficForgets ==
  /\ Receive("getTraffic")
  /\ Reply(TRUE, [speed |-> Speed, total |-> total])
  /\ UNCHANGED <<up, running, alive, total, counted, coreMode, planMode, moved>>

\* get_traffic_json
GetTraffic ==
  /\ Receive("getTraffic")
  /\ Reply(TRUE, [speed |-> Speed, total |-> total])
  /\ counted' = total
  /\ UNCHANGED <<up, running, alive, total, coreMode, planMode, moved>>

\* set_mode: a running backend is restarted, which resets the counters.  The
\* build of the plan may fail, and the old backend goes on; or the start.
CoreSetMode ==
  /\ Receive("setMode")
  /\ coreMode' = Head(wire).mode
  /\ \/ ~ running /\ Reply(TRUE, Empty) /\ UNCHANGED <<alive, total, planMode>>
     \/ running /\ Reply(TRUE, Empty) /\ alive' = TRUE /\ total' = 0 /\ planMode' = coreMode'
     \/ running /\ Reply(FALSE, Empty) /\ UNCHANGED <<alive, total, planMode>>
     \/ running /\ Reply(FALSE, Empty) /\ alive' = FALSE /\ total' = 0 /\ UNCHANGED planMode
  /\ UNCHANGED <<up, running, counted, moved>>

\* Traffic goes through the backend.
Move ==
  /\ alive /\ total < MaxBytes /\ moved < MaxBytes
  /\ total' = total + 1 /\ moved' = IF connected THEN moved + 1 ELSE moved
  /\ UNCHANGED <<promiseVars, serviceVars, mode, polling, shown, session, latest, answers,
                 up, running, alive, counted, coreMode, planMode, historyVars>>

\* The process of the extension ends.
Die ==
  /\ up
  /\ up' = FALSE /\ running' = FALSE /\ alive' = FALSE /\ total' = 0 /\ counted' = 0
  /\ coreMode' = Default /\ planMode' = Default
  /\ UNCHANGED <<promiseVars, serviceVars, mode, polling, shown, session, latest, answers, moved, historyVars>>

-----------------------------------------------------------------------------
(* Connecting and disconnecting *)

\* toggleConnection: the core is started with the mode of the document, for
\* which ConfigManager puts rule if it has none.
Connect ==
  /\ ~ connected /\ session < MaxSession
  /\ session' = session + 1
  /\ up' = TRUE /\ running' = TRUE /\ alive' = TRUE /\ total' = 0 /\ counted' = 0
  /\ coreMode' = Default /\ planMode' = Default
  /\ moved' = 0 /\ paid' = 0
  /\ connected' = TRUE /\ polling' = TRUE /\ shown' = Empty
  /\ latest' = 0 /\ verdict' = "none"
  /\ UNCHANGED <<promiseVars, mode, last, prev, answers, late>>

\* The adapter refuses the document: last_upload_total is reset, the counters
\* are not.  The extension is stopped, or that fails too.
ConnectFails ==
  /\ ~ connected /\ session < MaxSession
  /\ session' = session + 1
  /\ up' \in BOOLEAN /\ running' = FALSE /\ alive' = (alive /\ up')
  /\ counted' = 0 /\ coreMode' = Default
  /\ last' = Empty /\ prev' = 0
  /\ UNCHANGED <<promiseVars, connected, mode, polling, shown, latest, answers, total, planMode, moved, historyVars>>

\* The extension is stopped, or that fails, which nobody notices; then
\* setVpnConnected and TrafficMonitor.stop.
Disconnect ==
  /\ connected
  /\ up' \in {FALSE, up}
  /\ running' = (up' /\ running) /\ alive' = (up' /\ alive)
  /\ connected' = FALSE /\ last' = Empty /\ prev' = 0
  /\ polling' = FALSE /\ shown' = Empty
  /\ late' = FALSE /\ paid' = 0 /\ moved' = 0 /\ latest' = 0 /\ verdict' = "none"
  /\ UNCHANGED <<promiseVars, mode, session, answers, total, counted, coreMode, planMode>>

-----------------------------------------------------------------------------
Init ==
  /\ calls = [c \in Command |-> Unused]
  /\ connected = FALSE /\ mode = Default /\ last = Empty /\ prev = 0
  /\ polling = FALSE /\ shown = Empty /\ session = 0 /\ latest = 0
  /\ wire = <<>> /\ answers = <<>>
  /\ up = FALSE /\ running = FALSE /\ alive = FALSE /\ total = 0 /\ counted = 0
  /\ coreMode = Default /\ planMode = Default
  /\ moved = 0 /\ paid = 0 /\ verdict = "none" /\ late = FALSE

Next ==
  \/ \E c \in Command : Poll(c) \/ TimeOut(c) \/ \E m \in Mode : SetMode(c, m)
  \/ \E m \in Mode : SetModeOffline(m)
  \/ Connect \/ ConnectFails \/ Disconnect \/ Deliver \/ LoseCommand
  \/ GetTraffic \/ CoreSetMode \/ Move \/ Die

\* Timers fire, whatever becomes of the events and of the extension.
Fairness == \A c \in Command : WF_vars(TimeOut(c))

Spec == Init /\ [][Next]_vars /\ Fairness

-----------------------------------------------------------------------------
\* Speeds and totals are numbers of bytes.
ChannelTypeOK ==
  /\ calls \in [Command -> [type : {"unused", "getTraffic", "setMode", "done"}, mode : Mode,
                            session : 0 .. MaxSession]]
  /\ {mode, coreMode, planMode} \subseteq Mode
  /\ {connected, polling, up, running, alive, late} \subseteq BOOLEAN
  /\ {last, shown} \cup {answers[i].data : i \in DOMAIN answers}
       \subseteq [speed : 0 .. MaxBytes, total : 0 .. MaxBytes]
  /\ {prev, total, counted, moved} \subseteq 0 .. MaxBytes /\ paid \in Nat
  /\ session \in 0 .. MaxSession /\ latest \in {0} \cup {c \in Command : calls[c].type = "setMode"}
  /\ verdict \in {"none", "open", "failed", "accepted", "refused"}
  /\ \A i \in DOMAIN wire : wire[i].id \in Command /\ wire[i].mode \in Mode
  /\ \A i \in DOMAIN answers : answers[i].to \in Command /\ answers[i].ok \in BOOLEAN

\* When the latest mode command of the session has been answered, Home shows
\* the mode the core has, whatever became of the commands before it; if the
\* answer was a success and the backend is up, it routes by that mode.
LatestModeHolds ==
  connected /\ up /\ verdict \in {"accepted", "refused"} =>
    /\ mode = coreMode
    /\ verdict = "accepted" /\ alive => planMode = mode

\* No byte is shown twice: the speeds that a session shows add up to no more
\* than was moved, with polls that overlap, get lost or time out, and restarts
\* of the backend that reset its counters; disconnected, Home shows none at
\* all.  The exception is an answer of an earlier session: a poll that waits
\* when the page disconnects is answered all the same.
BytesOnce == ~ late => paid <= moved /\ (~ connected => shown = Empty)

\* Every command ends, answered or not: finitely many are sent, and in the end
\* none of them waits.
Settles == <>[](\A c \in Command : ~ Waiting(c))
=============================================================================
