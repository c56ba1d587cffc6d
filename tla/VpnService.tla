------------------------------ MODULE VpnService ------------------------------
(***************************************************************************)
(* The VPN as the user sees it: the connect and disconnect flows of the    *)
(* Home page (HomePage.ets) and the cleanup of the UI ability              *)
(* (ClashAbility.ets), composed with the VPN extension.                    *)
(*                                                                         *)
(* A flow is one run of toggleConnection, an async function.  The page     *)
(* lets no second one begin while connectState is CONNECTING, but the      *)
(* answer to the status query that was sent when the page appeared may set *)
(* connectState in the middle of a flow.  The process of the UI may be     *)
(* killed at any time; the extension lives on.                             *)
(***************************************************************************)
EXTENDS VpnExtension

CONSTANT
  UiEnds       \* bound: whether a run explores the orderly end of the UI

ASSUME UiEndsAssumption == UiEnds \in BOOLEAN

VARIABLES
  phase,       \* per session: where its flow is
  byEvent,     \* per session: its chunks travel as events, not as requests
  sent,        \* per session: chunks sent so far
  ui,          \* connectState of the page, "CLOSED" once its window is gone
  status,      \* the page's status query: "asked", "running" (the answer), "done"
  quitting     \* cleanupRuntime is between its two stops

uiVars == <<phase, byEvent, sent, ui, status, quitting>>
vars == <<extVars, uiVars>>

To(s, p) == phase' = [phase EXCEPT ![s] = p]

\* The flow has nothing more to send.
Done(s) ==
  /\ byEvent' = [byEvent EXCEPT ![s] = FALSE]
  /\ sent' = [sent EXCEPT ![s] = 0]

Show(state) == ui' = IF ui = "CLOSED" THEN ui ELSE state

-----------------------------------------------------------------------------
\* stopVpnExtensionAbility: the instance that is up is destroyed, or an error
\* that the callers swallow leaves it up.
StopExtension ==
  \/ \E i \in Fd : OnDestroy(i)
  \/ UNCHANGED extVars

\* toggleConnection in state DISCONNECTED.
Begin(s) ==
  /\ ui = "DISCONNECTED"
  /\ phase[s] = "idle"
  /\ To(s, "stopping")
  /\ Show("CONNECTING")
  /\ UNCHANGED <<extVars, byEvent, sent, status, quitting>>

\* The subscription has been read, or fetched: an earlier VPN is stopped.
FlowStops(s) ==
  /\ phase[s] = "stopping"
  /\ StopExtension
  /\ To(s, "starting")
  /\ UNCHANGED <<byEvent, sent, ui, status, quitting>>

\* The status file is written anew, unless an extension that is just adding a
\* line puts back what it has read of it, and startVpnExtensionAbility is
\* called with the session and the number of chunks.
FlowStarts(s) ==
  /\ phase[s] = "starting"
  /\ file' \in (IF NobodyUp THEN {{}} ELSE {{}, file})
  /\ requests' = requests \cup {Message(s, NoChunk)}
  /\ To(s, "sending")
  /\ UNCHANGED <<engineVars, instanceVars, owed, wire, commands, told, verdict,
                 source, byEvent, sent, ui, status, quitting>>

\* waitForVpnStatusOrFile: "config subscriber ready" has been heard, as an event
\* or from the file.
FlowHearsSubscriber(s) ==
  /\ phase[s] = "sending"
  /\ sent[s] = 0
  /\ ~ byEvent[s]
  /\ s \in told \/ "ready" \in file
  /\ byEvent' = [byEvent EXCEPT ![s] = TRUE]
  /\ UNCHANGED <<extVars, phase, sent, ui, status, quitting>>

\* Mutant of FlowSends: one chunk too many.
FlowSendsPast(s) ==
  /\ phase[s] = "sending"
  /\ IF byEvent[s]
     THEN wire' = wire \cup {Message(s, sent[s])} /\ UNCHANGED requests
     ELSE requests' = requests \cup {Message(s, sent[s])} /\ UNCHANGED wire
  /\ sent' = [sent EXCEPT ![s] = @ + 1]
  /\ To(s, IF sent[s] = Count[s] THEN "waiting" ELSE "sending")
  /\ UNCHANGED <<engineVars, instanceVars, owed, commands, saidVars, source,
                 byEvent, ui, status, quitting>>

\* The next chunk goes out, as an event or, when no subscriber was heard of
\* within two seconds, in a start request.
FlowSends(s) ==
  /\ phase[s] = "sending"
  /\ IF byEvent[s]
     THEN wire' = wire \cup {Message(s, sent[s])} /\ UNCHANGED requests
     ELSE requests' = requests \cup {Message(s, sent[s])} /\ UNCHANGED wire
  /\ sent' = [sent EXCEPT ![s] = @ + 1]
  /\ To(s, IF sent[s] + 1 = Count[s] THEN "waiting" ELSE "sending")
  /\ UNCHANGED <<engineVars, instanceVars, owed, commands, saidVars, source,
                 byEvent, ui, status, quitting>>

\* waitForVpnStartResult: the result is an event, or else in the file ...
FlowHears(s) ==
  /\ phase[s] = "waiting"
  /\ verdict[s] = "started" \/ (verdict[s] = "none" /\ "started" \in file)
  /\ To(s, "applying")
  /\ Done(s)
  /\ UNCHANGED <<extVars, ui, status, quitting>>

\* ... or the status probe says that a core is running.
FlowProbes(s) ==
  /\ phase[s] = "waiting"
  /\ ~ NobodyUp
  /\ Reported
  /\ To(s, "applying")
  /\ Done(s)
  /\ UNCHANGED <<extVars, ui, status, quitting>>

\* applySavedProxySelectionsToExtension, then the flow has succeeded.
FlowConnects(s) ==
  /\ phase[s] = "applying"
  /\ commands' \in {commands, commands \cup {"change"}}
  /\ To(s, "connected")
  /\ Show("CONNECTED")
  /\ UNCHANGED <<engineVars, instanceVars, requests, owed, wire, saidVars, source,
                 byEvent, sent, status, quitting>>

\* There is no subscription; or a call of the platform fails, the result is a
\* failure, or none comes within 15 seconds: the catch of toggleConnection.
FlowFails(s) ==
  /\ phase[s] \in {"stopping", "starting", "sending", "waiting"}
  /\ StopExtension
  /\ To(s, "ended")
  /\ Done(s)
  /\ Show("DISCONNECTED")
  /\ UNCHANGED <<status, quitting>>

Flow(s) ==
  \/ FlowStops(s) \/ FlowStarts(s) \/ FlowHearsSubscriber(s) \/ FlowSends(s)
  \/ FlowHears(s) \/ FlowProbes(s) \/ FlowConnects(s) \/ FlowFails(s)

-----------------------------------------------------------------------------
\* toggleConnection in state CONNECTED.
Disconnect ==
  /\ ui = "CONNECTED"
  /\ StopExtension
  /\ Show("DISCONNECTED")
  /\ phase' = [s \in Session |-> IF phase[s] = "connected" THEN "ended" ELSE phase[s]]
  /\ UNCHANGED <<byEvent, sent, status, quitting>>

\* The status query of the page is answered, or times out ...
StatusAnswered ==
  /\ status = "asked"
  /\ status' \in (IF ~ NobodyUp /\ Reported THEN {"running", "done"} ELSE {"done"})
  /\ UNCHANGED <<extVars, phase, byEvent, sent, ui, quitting>>

\* ... and refreshExtensionConnectionState goes on, whatever has happened since.
StatusHeard ==
  /\ status = "running"
  /\ status' = "done"
  /\ Show("CONNECTED")
  /\ UNCHANGED <<extVars, phase, byEvent, sent, quitting>>

\* cleanupRuntime, when the window is destroyed: the stop command ...
UiQuits ==
  /\ UiEnds
  /\ ui # "CLOSED"
  /\ ui' = "CLOSED"
  /\ quitting' = TRUE
  /\ commands' = commands \cup {"stop"}
  /\ UNCHANGED <<engineVars, instanceVars, requests, owed, wire, saidVars, source,
                 phase, byEvent, sent, status>>

\* ... and then, answered or timed out, the end of the extension.
UiStopsExtension ==
  /\ quitting
  /\ StopExtension
  /\ quitting' = FALSE
  /\ UNCHANGED <<phase, byEvent, sent, ui, status>>

\* The process of the UI is killed, its flows with it; a new one shows a page.
UiKilled ==
  /\ phase' = [s \in Session |-> IF phase[s] = "idle" THEN "idle" ELSE "ended"]
  /\ byEvent' = [s \in Session |-> FALSE]
  /\ sent' = [s \in Session |-> 0]
  /\ ui' = "DISCONNECTED"
  /\ status' = "asked"
  /\ quitting' = FALSE
  /\ UNCHANGED extVars

-----------------------------------------------------------------------------
Init ==
  /\ ExtInit
  /\ phase = [s \in Session |-> "idle"]
  /\ byEvent = [s \in Session |-> FALSE]
  /\ sent = [s \in Session |-> 0]
  /\ ui = "DISCONNECTED"
  /\ status = "asked"
  /\ quitting = FALSE

Next ==
  \/ ExtStep /\ UNCHANGED uiVars
  \/ \E s \in Session : Begin(s) \/ Flow(s)
  \/ Disconnect
  \/ StatusAnswered \/ StatusHeard
  \/ UiQuits \/ UiStopsExtension
  \/ UiKilled

Spec == Init /\ [][Next]_vars

\* The event loop of the extension takes what has arrived, create() is
\* answered, and a flow that still waits reads what was published.  Nothing is
\* assumed of what users, platform errors and timeouts do.
Fairness ==
  /\ \A i \in Fd :
       /\ WF_vars(OnAnyRequest(i) /\ UNCHANGED uiVars)
       /\ WF_vars(OnAnyChunk(i) /\ UNCHANGED uiVars)
       /\ WF_vars((TunCreated(i) \/ TunFailed(i)) /\ UNCHANGED uiVars)
  /\ \A s \in Session : WF_vars(FlowHears(s))

FairSpec == Spec /\ Fairness
-----------------------------------------------------------------------------
UiTypeOK ==
  /\ phase \in [Session -> {"idle", "stopping", "starting", "sending", "waiting",
                            "applying", "connected", "ended"}]
  /\ byEvent \in [Session -> BOOLEAN]
  /\ sent \in [Session -> Nat]
  /\ \A s \in Session : sent[s] <= Count[s]
  /\ ui \in {"DISCONNECTED", "CONNECTING", "CONNECTED", "CLOSED"}
  /\ status \in {"asked", "running", "done"}
  /\ quitting \in BOOLEAN

\* Every variable has its type, and no flow sends more chunks than it announces.
TypeOK == ExtTypeOK /\ UiTypeOK

\* A flow that has sent everything gets an answer, whichever of the request,
\* the descriptor and the last chunk comes last, and in whatever order the
\* chunks arrive: unless the connection is refused, or the instance ended.
StartDecided ==
  \A s \in Session :
    phase[s] = "waiting" ~>
      \/ phase[s] # "waiting"
      \/ verdict[s] # "none"
      \/ \E i \in Fd : life[i] = "gone" \/ conn[i] = "failed"

\* Connecting starts the native core with the configuration that was sent.
ConnectedRunsOwnConfig ==
  \A s \in Session : phase[s] = "connected" => source = s
=============================================================================
