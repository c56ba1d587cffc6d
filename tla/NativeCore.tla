----------------------------- MODULE NativeCore -----------------------------
(***************************************************************************)
(* The native core (lib.rs): the state behind the C ABI and the embedded   *)
(* shoes backend that it starts, replaces and stops.                       *)
(*                                                                         *)
(* The calls come one after the other (they are synchronous NAPI calls of  *)
(* one JS thread), so each is one step; the backend task runs beside them  *)
(* and may end on its own at any time.  A backend keeps the plan and the   *)
(* descriptor that it was started with.                                    *)
(*                                                                         *)
(* Left out: status and error texts, uptime, engine name, home directory,  *)
(* and traffic totals.                                                     *)
(***************************************************************************)
EXTENDS ConfigAdapter

CONSTANTS
  Fd,          \* the TUN descriptors that callers hand over
  NoFd         \* tun_fd is 0 or -1

ASSUME NoFdAssumption == NoFd \notin Fd

VARIABLES
  running,     \* CoreState.running
  tunFd,       \* CoreState.tun_fd
  handle,      \* SHOES_HANDLE: a backend [fd, plan, alive], {} for None
  result,      \* history: what the last call returned, "ok" or "error"
  edited,      \* history: load_config, a probe, or a change whose plan could
               \* not be built came after the last start
  lost         \* history: a restart stopped the backend and started none

coreVars == <<config, mode, delay, running, tunFd, handle, result, edited, lost>>

Backend(fd, plan) == {[fd |-> fd, plan |-> plan, alive |-> TRUE]}

NoBackend == {}

-----------------------------------------------------------------------------
(* What the callers see *)

BackendAlive == \E b \in handle : b.alive

\* running_snapshot, the "running" of the status JSON.
StatusRunning == IF handle = NoBackend THEN running ELSE BackendAlive

-----------------------------------------------------------------------------
(* Starting and stopping *)

\* start_tun adds a check of its own to the building of the plan.
StartPlan(c, m) ==
  IF c.proxies = <<>> /\ c.groups = <<>> /\ c.rules # <<>> THEN NoPlan ELSE Plan(c, m)

\* start_tun, every outcome: the state takes the document and the descriptor
\* and is not running.
Adopt(fd, doc) ==
  /\ Parse(doc)
  /\ tunFd' = fd
  /\ edited' = FALSE

\* The plan is built and loaded: the old backend is stopped, the new one runs.
StartTun(fd, doc) ==
  /\ Adopt(fd, doc)
  /\ StartPlan(config', mode') # NoPlan
  /\ handle' = Backend(fd, StartPlan(config', mode'))
  /\ running' = TRUE
  /\ result' = "ok"
  /\ lost' = FALSE

\* Mutant of StartTunUnbuilt: the flag of the old backend stays.
StartTunUnbuiltKeepsFlag(fd, doc) ==
  /\ Adopt(fd, doc)
  /\ StartPlan(config', mode') = NoPlan
  /\ result' = "error"
  /\ UNCHANGED <<running, handle, lost>>

\* The plan cannot be built (-102): an old backend goes on as it was.
StartTunUnbuilt(fd, doc) ==
  /\ Adopt(fd, doc)
  /\ StartPlan(config', mode') = NoPlan
  /\ running' = FALSE
  /\ result' = "error"
  /\ UNCHANGED <<handle, lost>>

\* Mutant of StartTunRefused: the flag is set before the backend is started.
StartTunRefusedRuns(fd, doc) ==
  /\ Adopt(fd, doc)
  /\ StartPlan(config', mode') # NoPlan
  /\ handle' = NoBackend
  /\ running' = TRUE
  /\ result' = "error"
  /\ UNCHANGED lost

\* shoes refuses the plan, or no runtime can be created (-101): the old
\* backend is stopped by then.
StartTunRefused(fd, doc) ==
  /\ Adopt(fd, doc)
  /\ StartPlan(config', mode') # NoPlan
  /\ handle' = NoBackend
  /\ running' = FALSE
  /\ result' = "error"
  /\ UNCHANGED lost

\* Mutant of Stop: the backend is told to end but its handle is not taken.
StopKeepsHandle ==
  /\ running' = FALSE
  /\ tunFd' = NoFd
  /\ result' = "ok"
  /\ UNCHANGED <<config, mode, delay, handle, edited, lost>>

Stop ==
  /\ handle' = NoBackend
  /\ running' = FALSE
  /\ tunFd' = NoFd
  /\ result' = "ok"
  /\ UNCHANGED <<config, mode, delay, edited, lost>>

\* The TUN server ends on its own: its stack thread gives up.
BackendExits ==
  /\ \E b \in handle :
       /\ b.alive
       /\ handle' = {[fd |-> b.fd, plan |-> b.plan, alive |-> FALSE]}
  /\ UNCHANGED <<config, mode, delay, running, tunFd, result, edited, lost>>

-----------------------------------------------------------------------------
(* Changing the configuration *)

\* Mutant of ShouldRestart: any core restarts its backend.
ShouldRestartAlways == TRUE

ShouldRestart == running /\ tunFd # NoFd

\* restart_backend_from_state: the plan of the new configuration, on the
\* descriptor of the state.  A plan that cannot be built leaves the old backend
\* running; one that is refused leaves none.
Restart ==
  /\ ShouldRestart
  /\ LET plan == Plan(config', mode')
     IN \/ /\ plan # NoPlan
           /\ handle' = Backend(tunFd, plan)
           /\ result' = "ok"
           /\ edited' = FALSE
           /\ lost' = FALSE
        \/ /\ plan = NoPlan
           /\ result' = "error"
           /\ edited' = TRUE
           /\ UNCHANGED <<handle, lost>>
        \/ /\ plan # NoPlan
           /\ handle' = NoBackend
           /\ result' = "error"
           /\ lost' = TRUE
           /\ UNCHANGED edited
  /\ UNCHANGED <<running, tunFd>>

\* Without a running backend the change waits for the next start.
Pending ==
  /\ ~ ShouldRestart
  /\ result' = "ok"
  /\ edited' = TRUE
  /\ UNCHANGED <<running, tunFd, handle, lost>>

\* Mutant of SelectProxy: the selection is stored and the backend left as it is.
SelectProxyStored(name, member) ==
  /\ Select(name, member)
  /\ result' = "ok"
  /\ UNCHANGED <<running, tunFd, handle, edited, lost>>

SelectProxy(name, member) == Select(name, member) /\ (Restart \/ Pending)

\* An unknown group (-2), or a name that is not a member of it (-3).
SelectRejected(name, member) ==
  /\ ~ Selectable(name, member)
  /\ result' = "error"
  /\ UNCHANGED <<config, mode, delay, running, tunFd, handle, edited, lost>>

SetMode(m) == ChangeMode(m) /\ (Restart \/ Pending)

\* load_config, meant for a core that only measures latencies: it replaces the
\* configuration of a running core too, and does not restart the backend.
LoadConfig(doc) ==
  /\ Sanitize(doc).proxies # <<>>
  /\ Sanitize(doc).groups # <<>>
  /\ Parse(doc)
  /\ result' = "ok"
  /\ edited' = TRUE
  /\ UNCHANGED <<running, tunFd, handle, lost>>

\* test_delay: the groups that follow the delays move, the backend does not.
TestDelay(name, r) ==
  /\ Probe(name, r)
  /\ result' = IF r > 0 THEN "ok" ELSE "error"
  /\ edited' = (edited \/ config' # config)
  /\ UNCHANGED <<running, tunFd, handle, lost>>

-----------------------------------------------------------------------------
CoreInit ==
  /\ ConfigInit
  /\ running = FALSE
  /\ tunFd = NoFd
  /\ handle = NoBackend
  /\ result = "ok"
  /\ edited = FALSE
  /\ lost = FALSE

CoreNext ==
  \/ \E fd \in Fd, doc \in Doc :
       StartTun(fd, doc) \/ StartTunUnbuilt(fd, doc) \/ StartTunRefused(fd, doc)
  \/ Stop
  \/ BackendExits
  \/ \E name \in Names, member \in Targets :
       SelectProxy(name, member) \/ SelectRejected(name, member)
  \/ \E m \in Mode : SetMode(m)
  \/ \E doc \in Doc : LoadConfig(doc)
  \/ \E name \in Names, r \in Delay : TestDelay(name, r)

CoreSpec == CoreInit /\ [][CoreNext]_coreVars
-----------------------------------------------------------------------------
CoreTypeOK ==
  /\ running \in BOOLEAN
  /\ tunFd \in Fd \cup {NoFd}
  /\ \A b \in handle : b.fd \in Fd /\ b.alive \in BOOLEAN
  /\ result \in {"ok", "error"}
  /\ edited \in BOOLEAN
  /\ lost \in BOOLEAN

NoBackendWithoutFd == tunFd = NoFd => handle = NoBackend /\ ~ running
BackendOnFd == running => \A b \in handle : b.fd = tunFd

\* Once stop has returned the caller may close the descriptor: nothing reads or
\* writes it any more.  And a core that counts itself as running drives the
\* descriptor it was given last: no restart brings back an earlier one.
DescriptorKept == NoBackendWithoutFd /\ BackendOnFd

\* The backend routes what the selections, the mode and the rules of the state
\* say, unless a load_config, a probe that moved a group, or a restart whose
\* plan could not be built has come in between.
PlanApplied ==
  running /\ ~ edited => \A b \in handle : b.plan = Plan(config, mode)

\* The status says "running" without a backend only after a restart that was
\* refused.
StatusKnown == StatusRunning /\ ~ BackendAlive => lost

-----------------------------------------------------------------------------
\* A backend of the core as a backend of the engine.
AsEngine(h) == {[fd |-> b.fd, alive |-> b.alive] : b \in h}

Abstract == INSTANCE Engine WITH engine <- AsEngine(handle)

\* What the extension relies on when it loads the core: no sequence of calls,
\* outcomes and exits leads to a backend that Engine could not have.
ImplementsEngine == Abstract!EngineSpec
=============================================================================
