-------------------------------- MODULE Engine --------------------------------
(***************************************************************************)
(* What the native core promises to the VPN extension that loads it: at    *)
(* most one backend, on a descriptor it was given.  Configurations, plans  *)
(* and results are left out; NativeCore implements this module.            *)
(***************************************************************************)
EXTENDS Integers

CONSTANTS Fd, NoFd

VARIABLES
  engine,      \* the backend [fd, alive], {} for none
  running,     \* CoreState.running
  tunFd        \* CoreState.tun_fd

engineVars == <<engine, running, tunFd>>

Fresh(fd) == {[fd |-> fd, alive |-> TRUE]}

-----------------------------------------------------------------------------
\* start_tun, successful.
Start(fd) ==
  /\ engine' = Fresh(fd)
  /\ running' = TRUE
  /\ tunFd' = fd

\* start_tun, failed: an old backend is gone or, if the plan could not even be
\* built, goes on.
StartFailed(fd) ==
  /\ engine' \in {engine, {}}
  /\ running' = FALSE
  /\ tunFd' = fd

\* stop
Shut ==
  /\ engine' = {}
  /\ running' = FALSE
  /\ tunFd' = NoFd

\* The backend ends on its own.
Exit ==
  /\ \E b \in engine : b.alive /\ engine' = {[fd |-> b.fd, alive |-> FALSE]}
  /\ UNCHANGED <<running, tunFd>>

\* select_proxy and set_mode: a running core replaces its backend, or fails to
\* build a plan, or loses the backend.
Change ==
  /\ running /\ tunFd # NoFd
  /\ engine' \in {Fresh(tunFd), engine, {}}
  /\ UNCHANGED <<running, tunFd>>

-----------------------------------------------------------------------------
EngineInit ==
  /\ engine = {}
  /\ running = FALSE
  /\ tunFd = NoFd

EngineNext ==
  \/ \E fd \in Fd : Start(fd) \/ StartFailed(fd)
  \/ Shut
  \/ Exit
  \/ Change

EngineSpec == EngineInit /\ [][EngineNext]_engineVars

\* What a caller of the status sees.
Reported == IF engine = {} THEN running ELSE \E b \in engine : b.alive
=============================================================================
