# ClashHM in TLA+

ClashHM is a proxy client for HarmonyOS.  A page lets the user connect; a VPN
extension, a process of its own, opens a TUN device and starts a native core
(Rust); the core adapts a Clash configuration to the embedded proxy engine
`shoes`, which routes what arrives on the device.  This directory holds TLA+
modules of the parts of the program that decide *what happens when*, the TLC
configurations that check them on small instances, and proofs, checked by TLAPS,
that hold for every instance.

Everything is written from the source; paths below are relative to the
repository.  `shoes/` abbreviates `native-core/vendor/shoes/src/`, `ets/`
abbreviates `clash/src/main/ets/`.

Contents

1. [Components](#1-components)
2. [Plan](#2-plan)
3. [The modules and the code](#3-the-modules-and-the-code)
4. [What each run checks](#4-what-each-run-checks)
5. [Bounds](#5-bounds)
6. [Fairness](#6-fairness)
7. [What is proved](#7-what-is-proved)
8. [Disagreements found](#8-disagreements-found)
9. [What is not modelled, and why](#9-what-is-not-modelled-and-why)

How to run: `tlc -config MCFakeDns.cfg MCFakeDns`, and `tlapm FakeDnsProofs.tla`.

---------------------------------------------------------------------------

## 1. Components

```
   UI process                                  process of the VPN extension
 +---------------------------+               +----------------------------------+
 | HomePage: toggleConnection|  start        | ClashVpnAbility                  |
 | ClashAbility: cleanup     |  requests,    |   connection, chunks, flags      |
 | services: subscriptions,  |  events  -->  |     | NAPI, synchronous          |
 | selections, traffic, core |               |     v                            |
 | commands                  |  <-- status   | native core (lib.rs): CoreState, |
 +---------------------------+  events, file |   SHOES_HANDLE, adapter          |
                                             |     | tokio runtime              |
                                             |     v                            |
                                             | shoes: TUN server, TCP stack,    |
                                             |   UDP sessions, fake DNS, rules  |
                                             +----------------------------------+
```

| Component | State | Operations | What makes it correct |
|---|---|---|---|
| **Home page** `ets/pages/HomePage.ets` | `connectState`; local variables of the running `toggleConnection` | connect: read or fetch the subscription, stop an old VPN, write the status file, start request, chunks, wait for the result, apply the selections; disconnect; status query when the page appears | CONNECTED means that the core runs what this attempt has sent; a flow is answered or times out |
| **UI ability** `ets/clashability/ClashAbility.ets` | – | `cleanupRuntime`: stop command, then the end of the extension | nothing is left running that nobody will stop |
| **VPN extension** `ets/vpnability/ClashVpnAbility.ets` | connection, `tunFd`, `configSession`, `coreConfigChunks`, `coreConfigReady`, `engineRunning`, `nativeCoreLoaded`, `statusEvent` | `onCreate`, `onRequest`, `onDestroy`, chunk events, command events, the resolution of `create()` | the core is started once request, descriptor and all chunks are there, with a whole configuration, and its descriptor is not closed under it |
| **Native core** `native-core/src/lib.rs` | `CoreState` (config, mode, delays, `running`, `tun_fd`), `SHOES_HANDLE` | the C ABI: `start_tun`, `stop`, `select_proxy`, `set_mode`, `load_config`, `test_delay`, `get_status`, traffic and connection queries | at most one backend, on the right descriptor, with the plan of the state; the status tells the truth |
| **Configuration adapter** (in `lib.rs`) | – (functions of the configuration) | sanitise, select, automatic groups, build the rule plan | the plan routes as the document and the mode say |
| **Rule selection** `shoes/client_proxy_selector.rs` | – | `judge` | first match wins, no match is blocked |
| **Fake DNS** `shoes/tun/fake_dns.rs` | two LRU maps, a counter, one mutex | answer a query, look an address up, re-initialise | an address leads to the name it was given for |
| **UDP sessions** `shoes/tun/udp_manager.rs` | LRU of sessions, a task for each | packet in, DNS query, response, cleanup | a session that is dropped ends; records are finished |
| **TCP stack** `shoes/tun/tcp_stack_direct.rs`, `tcp_conn.rs` | control block per connection, wakers | poll loop, read, write, shutdown | whoever waits is woken |
| **Connection tracker** `shoes/tun/mod.rs` | records, totals | register, add bytes, finish | counters only grow; every record is finished |
| **Command channel** `ets/services/NativeCoreExtensionService.ets` | pending commands | send, match the answer, time out | an answer goes to its command |
| **Traffic** `ets/services/TrafficMonitor.ets`, `NapiClashService.ets`, `lib.rs` | last totals, speed | poll, start, stop | totals never shrink; nothing is counted twice |
| **Subscriptions** `ets/services/SubscriptionService.ets` | list in memory, preferences, files | add, update, delete, activate, edit | at most one is active; files and list agree |
| **Selections, settings** `ets/services/ProxySelectionService.ets`, `SettingsService.ets` | preferences | load, save | – |
| **Configuration merger** `ets/services/ConfigManager.ets` | – | expand providers and rule sets | order of rules is kept |

Interactions.  UI and extension share no memory: they exchange *start requests*
(the platform creates the ability for the first one, then calls `onRequest` for
it and for each later one), *common events* (lost when nobody is subscribed),
and a *status file* that both rewrite.  The extension calls the core
synchronously on its one JS thread.  The core runs its backend in a tokio runtime of
its own; a backend may end by itself, and nobody is told.

What is hard:

* **order** – request, descriptor and chunks arrive in any order; two attempts
  to connect interleave; `create()` may resolve after the ability is gone;
* **failure in the middle** – a restart of the backend has three steps, each may
  fail; errors of "stop the extension" are swallowed;
* **stale state** – the status probe and the status file say nothing of the
  session; `running` outlives the backend; addresses outlive the maps;
* **limits** – the fake range, its LRU maps, the depth of groups;
* **kills** – the UI dies in the middle of a flow, the extension goes on;
* **several copies** – every page has a list of subscriptions of its own and saves
  the whole of it; the mode and the traffic are kept on both sides of a lossy
  channel;
* **two readers** – a document that YAML rejects is read by a hand-written reader,
  and a node has dozens of spellings for the same setting.

`PROJECT.json` lists these hazards one by one, with the line where each bites
and the properties that cover it.

## 2. Plan

Modules in order, the most important behaviour first:

| # | Modules | State |
|---|---|---|
| 1 | `LruCache`, `FakeDns`, `FakeDnsProofs` | done |
| 2 | `GroupRouting`, `ConfigAdapter` (proofs in `NativeCoreProofs`) | done |
| 3 | `NativeCore` (on top of 2), `NativeCoreProofs` | done |
| 4 | `Engine` (abstract; its refinement is in `NativeCoreProofs`), `VpnExtension`, `VpnService`, `VpnServiceProofs` | done |
| 5 | `UdpSessions`, `UdpSessionsProofs`: session LRU, tasks, abort, the register/finish pairs of the connection tracker | done |
| 6 | `TcpStack`, `TcpStackProofs`: control block shared by stack thread and tasks, wakers, half close, end of the thread | done |
| 7 | `SubscriptionStore`, `SubscriptionStoreProofs`: several service instances, whole-list saves, awaits in between | done |
| 8 | `CommandChannel`, `CommandChannelProofs`: correlation, timeouts, late answers, traffic counters that are reset at different places | done |
| 9 | `ProxyNode`, `ClientChain`, `ConfigReader` (on top of 2), `ConfigReaderProofs`: the two readers of a document, nodes, chains, provided members, rule sets | done |

Abstract specifications: `Engine` (what the core promises the extension; done).
Of the byte stream that 6 promises, the property `StreamsWhole` states the counts: an end
of stream comes only after as many bytes as were written.  Bytes have no identity in the
model, so nothing is said of their order.  The list of 7 is deliberately not refined to a single atomic
list: the code does not implement one (section 8), and the properties say how
far it is from it.

Theorems, in the order of their weight: the mirror of the two DNS maps and the
life of an answer; that the core implements `Engine`, and that its backend
routes as the adapter promises; the ownership of the descriptor in `VpnService`; the
invariants of the core; the sessions and records of the UDP side; `BytesOnce` and
`LatestModeHolds` of the command channel; `StreamsWhole` of the TCP stack; the
list, the preferences and the files of the subscriptions; the rules and the nodes
that the two readers of a document deliver.  All of these are done
(section 7).  What is left are the settings of a node in `ClientChain`
(`ReadersAgree`, `NoDowngrade`, `SettingsArrive`), which are only model-checked.

## 3. The modules and the code

### LruCache

The caches of the `lru` crate.  A cache is a record of two functions: `val`
(the map) and `rank` (the order of use).  `Touch` is `get`/`get_mut`, `Without`
is `pop`, `Oldest` the victim of `pop_lru`, `Push` both `push` and `put`.

### FakeDns

`fake_dns.rs` with the DNS branch of the session task in `udp_manager.rs`.

* State: the maps `hostToIp`, `ipToHost`, the counter `nextHost`, the mutex
  `lock`, the query each session task works on (`task`), and outside the program the
  answers that applications still believe in (`believed`).
* The lookup of an existing name (`Hit`) is one critical section.  For a new
  name `allocate_fake_ip` searches in a loop *inside* the mutex; `Miss` enters
  it and every iteration is a step (`ProbeFree`, `ProbeEvict`, `ProbeNext`), so
  that whether the loop ends is a question TLC can be asked.
* Delivery of an answer is a step of its own, or it is dropped with a full
  channel.  `Restart` is `init` of the next backend run: the maps are emptied,
  the tasks die with their runtime, the applications keep what they were told.
* Left out: `host_to_real_ipv4`, which only a test reads, and DNS encoding.

### GroupRouting, ConfigAdapter

`GroupRouting` holds the functions of the adapter: sanitising (`Sanitize`),
what a group stands for (`Selected`, `Resolve`), the automatic groups
(`BestMember`), the generated rules (`Plan` with `WithDefault`) and the first
match (`Judge`, from `client_proxy_selector.rs`).  A rule is its kind, the set
of destinations it hits, and its target; a node is its name and the chain it is
built into, or `Failed`.  The one piece of text that matters, the generated
document containing `0.0.0.0/0`, is modelled by the kinds whose entries contain
it (`Wide`).  `ConfigAdapter` adds the state (`config`, `mode`, `delay`) and the
operations on it: a new document, a selection, a mode, a measured delay.
`Documents` is the form in which the parsers deliver a document: they keep no node and
no group without a name (`lib.rs:1179`).  `DocAssumption` says that `Doc`, the
documents of an instance, have that form; `Text` is the set of names.

### NativeCore

The C ABI of `lib.rs` on top of `ConfigAdapter`.  A call is one step: the
NAPI bridge calls synchronously from one JS thread, and every call takes the state
mutex.  Every *outcome* of a call is an action: `StartTun` (0),
`StartTunUnbuilt` (-102: no plan; an old backend goes on), `StartTunRefused`
(-101: the old one is stopped already).  `Restart` is
`restart_backend_from_state` with its three outcomes.  `BackendExits` may happen at
any time.  A backend is a record of its descriptor, the plan it was started
with, and whether it is alive; `handle` is empty or holds one.  Three history
variables (`result`, `edited`, `lost`) let the properties speak of what has
happened.

### Engine

`Engine` is the core as the extension sees it: a backend without its plan, the
flag, the descriptor.  `NativeCore` implements it under the mapping
`AsEngine(handle)`.  TLC checks this on an instance (`ImplementsEngine`),
`NativeCoreProofs` proves it.

### VpnExtension

`ClashVpnAbility.ets` on top of `Engine`.  Callbacks run to completion on
the JS thread, so each is a step: `OnCreate`, `OnRequest`, `OnChunk`,
`TunCreated`/`TunFailed` (the promise of `create()`), `OnStopCommand`,
`OnChangeCommand`, `OnDestroy`.  `startEngine` is declared async and awaits
nothing; it is part of the step of its caller (`Launch`).  An instance of the
ability is identified with the descriptor of its connection; several instances
share one process and hence one core.  Chunks are pairs (session, index).
`verdict` and `file` are what `writeStatus` has published.

A backend that `EngineExits` leaves in place, dead, keeps its descriptor, as
`SHOES_HANDLE` does.

### VpnService

`VpnExtension` composed with the UI.  For each session the phase of its
`toggleConnection`, cut at its awaits: `Begin`, `FlowStops`, `FlowStarts`,
`FlowHearsSubscriber`, `FlowSends` (one chunk), `FlowHears` or `FlowProbes` (the
result, or the status probe), `FlowConnects`, `FlowFails` (the catch clause,
from any await).  The status query of a new page is a second asynchronous
activity (`StatusAnswered`, `StatusHeard`).  `StopExtension` succeeds or fails
without anybody noticing, as in the code.  `UiQuits`, `UiStopsExtension` are the
two halves of `cleanupRuntime`; `UiKilled` is the end of the process without it.

### UdpSessions

`udp_manager.rs` with the records that it keeps in the connection tracker of
`tun/mod.rs`, for one run of the backend (the next one begins with
`reset_connections`, after the old runtime is gone).  Three kinds of tasks run
beside each other; a step is what a task does between two awaits.

* The *manager*: `PacketHeld` and `PacketNew` are `handle_packet` (the packet
  always comes to an address, a session either lives or is created, which may
  drive another out of the LRU cache), `CleanupSessions` is the periodic cleanup.
  `ManagerDropped` is the end of its task, `RuntimeDropped` the drop of the
  runtime, after which every task ends at its next await.
* A *session task* (`task[t]`) is at `recv`, waits for an upstream DNS answer
  (`dns`) or for `create_connection` (`connect`), or has ended.  `TakeAside`
  stands for every packet that needs no connection, `Forward` for one whose
  destination has a task, `Connect` for one that needs a new one, with
  `Connected` or `ConnectFails` as the answer.  `Ends` drops `destinations`.
* A *destination task* (`conn[c].at`) leaves its loop and finishes its record
  (`DestinationExits`), drops its receiver, then counts as finished
  (`DestinationEnds`): the two moments at which `try_send` and `is_finished`
  differ.  `DestinationCancelled` is the abort by the drop of its entry.

Destinations are of three kinds, told apart by what the session does with them:
addresses, fake addresses with a host name behind them (which connect and are
then given up, see section 8), and what never reaches a connection.  The three
branches of `handle_packet` and `create_session` for a session that is in the map but whose
task has died are covered by `Alive`; that they are never taken is part of
`HeldSessionsLive` (a task cannot die of a panic: the release profile aborts the
process).

Left out: responses (the bounded channel to the manager gives nothing back to
its senders), byte counts, the texts of records, the list of closed records.

### TcpStack

The thread of `tcp_stack_direct.rs`, the connection of `tcp_conn.rs` that it shares
with a relay task, and `run_tun_server`.  Thread and relays meet only at the
lock of a connection, so a step is what either does under one lock; `pc` says where
in its loop the thread is.  A round is `ReadPackets` (responses, packets, the poll
of smoltcp), then for each socket `NextSocket` (which closes the connection of a
closed one), `ShutWrite`, `Receive` as often as it moves data, `Received`,
`WakesReceiver`, `Send`, `WakesSender`, and at last `EndRound` and `Selected` or
`SelectFails`.  `Leave` is the end of the thread.

A relay is seen through its calls: `PollRead`, `PollWrite`, `PollShutdown`,
`DropConnection`.  `recvWaker` and `sendWaker` are the registered wakers,
`recvWoken` and `sendWoken` say that a waker was called and its half is still to
be polled; a relay may also be polled for any other reason.  The server is
`Wire`, `Accept`, `Respond`, `Shutdown`, `Joined` (the drop of the stack, which joins the
thread).

smoltcp is external: a socket counts the bytes it holds in each direction, whether
a FIN has come, was sent, was acknowledged, and ends by a reset, by the last
acknowledgement, or after its wait; with a socket `poll_delay` gives a time, without
one it gives none.  Bytes have no identity; `due` counts, per direction, what
one end has written and the other has not read, so that streams need no bound.
The three-way handshake is one step.  Left out: the filter of packets, the pool of
buffers, the batch limit of 64, the timeout of a dead client, errors of
`socket.recv` and `socket.send`, which the guards before them exclude.

### ProxyNode and ClientChain

The data of the adapter before it becomes a rule plan.  A node in a document is a
sequence of entries (section, key, value); `ProxyNode` turns it into the fields of
a `ProxyNode` of the code, once as `proxy_from_yaml` does (`NodeFromYaml`: the
fixed list of direct keys, then the sections in the order of the code) and once
as `proxy_from_flow` does (`NodeFromFlow`: keys matched by their suffix).  The
operators `PluginName`, `WsName`, `TlsName`, `RealityName`, `MuxName`, `H2Name`,
`GrpcName` are the `assign_*_opt` functions: which written name goes to which
field, under which plugin.  `ClientChain` is `build_shoes_client_chain`: the
layers of the client chain of a node from the inside out (`BaseLayer`, `Transport`,
`Plugin`, `Security`), the settings each layer takes from the fields, and the nodes that are
refused.  A value is what the document wrote, so that a setting can be followed
from the document to its layer.  Left out: ports as numbers, lists of ALPN names and
cipher names beyond the choice of the layer.

### ConfigReader

`parse_clash_config`, on top of `GroupRouting` and `ClientChain`.  A document is
its sections, as sequences of lines (kind, indentation, key, value).
`ReadYaml` is the reader by `serde_yaml` in one step: nesting follows the
indentation (`Above`, external), nodes of inline providers join the list, groups get
their provided members, rule sets are expanded in place (`Expanded`).  If the
text is not well formed or yields nothing, the line reader goes through it one
line at a time: a step is a line (`ReadTop`, `ReadFlowNode`, `ReadNewNode`,
`ReadNodeHeader`, `ReadNodeKey`, `ReadStray`, `ReadNewGroup`, `ReadGroupLine`,
`ReadRule`), in the order in which the code asks what a line is; its state is that of the code
(`section`, the open node and group, the nested section with its
indentation).  `ReadEnd` finishes what is still open.

`DocumentAssumption` says which documents there are: an item is one flow line or a
block whose first line is a dash alone, a dash with the name, or a dash with another
key (`first`); it names itself once, on a line of its own level (in a flow item no key
before that ends like `name`); the lines below the first are indented deeper;
the elements of a list are below an open key; the items of `proxies`
begin at one indent; and no two providers or rule sets have the same name, as in a
YAML mapping.  Nothing is assumed of keys, sections, values or of the order of the
lines behind the first.

An item that begins with another key than its name (`- type: ss`, then `name:`) is an
item for YAML only.  The line reader asks for `-` or `- name:` where an item begins, so
it takes that line for one of the item before and its `name:` for a new name of that
(`ReadNodeKey`, `ReadGroupLine`): one of the two is lost and the other has the fields of
both; where no item is open the whole of it is skipped (`ReadStray`).  `LostNodes` and
`LostGroups` say, over the lines of a document, which items those are.

The rules of a document, and the entries of its rule sets, are given a kind for
`GroupRouting` by `Kind`: a GEOIP payload has masks (`Lan`), is a country (`Country`), or
yields nothing; a GEOSITE category has keywords (`Keyworded`), masks only (`Masked`), or
yields nothing.  Which payloads do is a matter of the data files and a parameter here.
Left out: an item whose first line opens a block (`- ws-opts:`), and a rule for
`0.0.0.0/0` that is no `MATCH`, which would suppress the default rule.
`TextAssumption` says that the names the code writes itself are names like any
other.  A key without a value, or one the item does not have, reads as the empty string
(`Blank`), which is what `unwrap_or_default` makes of it.

### CommandChannel

The promise that `sendCommandWithMode` makes for each command, and the events
between the two processes: `wire` (commands) and `answers` (results), each in
the order of publication.  `Send`, `Answered` and `TimeOut` are the three ends of
the promise; `LoseCommand` is an event that nobody hears; a result whose waiter
has gone is dropped by `Deliver`.  `Receive` is the command handler of the
extension, which calls the core at once.  Two commands are modelled with what they keep on
both sides.  `Poll` and `Updated` are the traffic monitor and the arithmetic of
the UI, `GetTraffic` is the difference that the core computes against its last totals;
`SetMode` remembers the last choice of the UI, `CoreSetMode` restarts the backend,
which may be refused.  `Connect`, `ConnectFails`, `Disconnect` are the flows of
`VpnService`, each cut down to one step with what it resets.

### SubscriptionStore

`SubscriptionService.ets` with its callers.  `list` is the list of the page's service,
`cache` and `disk` are the preferences in the memory of the process and on disk, `cards` is
what the page shows, `files` are the downloaded files: that of a profile and those of
its providers, which count as one.  A job is one call that the page has started: an add or an
update waits for its download, saves, waits for the flush, and refreshes the page; two may be
under way at once, because the flag that disables the buttons belongs to the
page and not to the call.  `other` is an instance of the service on another page:
it reads the list, recounts or downloads, and saves the whole of it (Home does
both when it connects).  `Restart` is the end of the process at any point and the next start.

Whatever fails in the preferences is logged and swallowed, and so it is in the model:
`Save` puts the list into the preferences or leaves them as they were, `FlushStore`
writes them or does not, `Restart` and `OtherReads` load the list or go on with an empty
one, and the caller refreshes the page all the same.  A page that has failed to load
its list and then saves overwrites the stored one.  A download writes the files
of the providers first (`FetchedProviders`), then opens and truncates that of the profile;
`FetchFails` may leave either behind, and `Delete` unlinks at most the file of the
profile.

Three history variables let the properties speak of this: `slips`, the races that have
happened, `missed`, the failures to load, put or flush that no later success has
made good, and `strays`, the files that were left to nobody.

## 4. What each run checks

### Runs that pass

| Run | Questions |
|---|---|
| `fake_dns` | `Mirror`: the two LRU maps, which evict on their own, stay inverse to each other. `AnswersHold`: as long as a backend run has served no more names than the range holds, every answer on its way or in an application leads back to its name. `SearchEnds`: the loop ends and gives the mutex back. |
| `config_adapter` | `SelectionsAreMembers`: after any document, selection and probe each group stands for one of its members, and no subscription note is left to select. `TargetsResolve`: the depth limit stops no chain of groups that ends, and every one that does not. `PlanKeepsPromise`: what the backend does with a destination is what rules, mode and selections say. `AutoGroupsMove`: url-test and fallback groups follow the measured delays. |
| `native_core` | `DescriptorKept`: after `stop` nothing uses the descriptor (`NoBackendWithoutFd`), and a restart never brings back an older one (`BackendOnFd`). `PlanApplied`: the backend routes by the current selections, except after the three kinds of change that do not restart it. `StatusKnown`: the one way to a status "running" without a backend is a refused restart. `ImplementsEngine`: the core is an `Engine`. |
| `vpn_service` | Two attempts to connect, two instances. `EngineOwned`: what runs, runs on the descriptor of an instance whose end stops it. `ConfigWhole`: a ready configuration is the chunks of one session, all and no other. `RunningIsCurrent`: `engineRunning` is right. `TypeOK`: includes that no flow sends more than it announced. |
| `vpn_service_one` | One attempt, with the orderly end of the UI as well: `StartDecided`: a flow that has sent everything gets a result, whichever of request, descriptor and last chunk comes last. That the core is owned there as well is proved (section 7). |
| `udp_sessions` | `LetGoSessionsEnd`: a session that was evicted, expired or left behind by the manager ends with all its destination tasks, unless it hangs in `create_connection`, which has no timeout. `HeldSessionsLive`: a packet goes to a session that lives and will not be cancelled. `OneWriter`: no destination of a session has two connections that may write, however the checks of the session and the end of the destination task interleave. `ActiveExplained`: traffic flows only through connections that are shown as active, and an active record has a connection behind it, except in the two cases it names. |
| `config_reader` | `NodesArrive`: every named node of the document arrives, once and in order, but for those that the line reader loses (`LostNodes`). `ReadersAgree`: the line reader gives the same client chains as YAML would have given, but for the forms in `Misread`. `NoDowngrade`: no node that asks for an encrypted connection gets a chain without one (plain TLS counts as one), but for an item whose first line the line reader mistakes. `SettingsArrive`: what the document sets reaches a layer of the chain. `MembersArrive`: listed and provided members of a group arrive, once each. `FirstLineDecides`: a destination goes where the first line of the document that covers it says, rule sets, GEOIP and GEOSITE lines included. The properties are stated over the lines of the document; the exceptions in them (`LostNodes`, `LostGroups`, `Misread`, lists behind a key) are what the line reader is known not to see. |
| `command_channel` | `LatestModeHolds`: once the last choice of a mode is answered, page and core have the same mode, whatever became of the earlier ones. `BytesOnce`: no byte is shown twice in a session, with overlapping polls, timeouts and restarts that reset the counters, and a disconnected page shows no traffic; this allows for the one gap of the code, an answer of an earlier session that arrives in this one (`late`). `Settles`: every command ends. `ChannelTypeOK` includes that no difference is negative (the counters of the core are unsigned). |
| `subscription_store` | `OneActive`, `SomeActive`: at most one subscription is active, and one if there is any. `QuietIsStored`: when nothing is being saved, cards and list agree, list and preferences agree, and preferences and disk agree, each unless a failure that was swallowed and not made good since, or a save of the other instance, has parted them. `FilesOwned`: no file without its subscription but those that were left to nobody. Each names the races or failures after which it may fail; without that clause TLC finds each of them violated (section 8). |
| `tcp_stack` | `StreamsWhole`: who sees the end of a stream has got all of it, in both directions, but for the one case it names. `WaitersWoken`: a relay that sleeps while there is data, an end or room for it is woken, wherever its registration falls between the steps of the thread. `Served`: responses are written and a stop ends, unless the thread sleeps in `select` without a socket. |

Each property comes with a mutant in its module, a changed form of one
definition as a plausible bug would leave it (an eviction that forgets only one map, a
stop that keeps the handle, a chunk array kept across sessions, ...); under
it TLC finds the property violated.

### Runs that end in a violation

`fake_dns_narrow` and `vpn_service_connected` each check one statement of the
documentation or of a comment, and TLC shows a behaviour of the code that
contradicts it; see section 8.

## 5. Bounds

* `fake_dns`: three names, two sessions, a range of four addresses of which two
  are in the pool (`RangeSize`, `PoolSize`), two answers alive at once
  (`MaxBelieved`).  One name more than the pool is what it takes for eviction
  and reuse; a second session is what it takes for a race.
* `fake_dns_narrow`: the pool is larger than the range; the smallest instance of
  a fake-ip-range of /17 or longer.
* `config_adapter`: 27 shapes of three groups (members in both orders, circles,
  notes, built-in targets) with two preset selections, five rule lists, two modes;
  delays -6 (an error code), 1 and 2.  Circles of length two and three and
  chains of the full depth occur.  A behaviour starts from one document, which is
  enough because a document overwrites all that is known.
* `native_core`: three documents (one whose plan can always be built, one whose
  plan depends on the selection, one without nodes), two descriptors, so that
  "old" and "new" can differ; any sequence of calls.
* `vpn_service`: two sessions with two chunks and one, two instances.  Two
  sessions are what it takes for stale messages; two instances for a late
  `create()` beside a new connection.  `UiEnds = FALSE` leaves out the orderly
  end of the UI here (it multiplies the states by seven); `vpn_service_one` has
  it, with one session.  The two instances are interchangeable (`SYMMETRY`); the
  runs with liveness use no symmetry.
* `udp_sessions`: two local addresses for one place in the cache, so that every
  new session evicts; an address of a server, a fake address and one destination
  that is set aside; two packets, each of which makes at most one session and one
  connection: one session is let go of while the other is held, and a
  destination is connected, ends and is replaced.  A channel of one packet is full
  with the first.  Longer histories are the business of the proofs (section 7), which
  cover all properties of this run but the liveness.  Deadlock is not
  checked: a run whose runtime is dropped and whose tasks have all ended is over.
* `tcp_stack`: one connection, buffers of one byte, so that each is full or empty
  at once and the next byte has to wait in the one before it; the streams have no bound.
  Connections share nothing but the thread, which goes through them one by one.  The
  limit of connections is not reached with one (a SYN over the limit is dropped and
  leaves no trace).  Deadlock is not checked: the server may be down.
* `config_reader`: either one node of vless, trojan, ss, hysteria2, vmess or anytls with
  up to two sets of options in any order, among them all sections but `http2-opts`,
  `mux` and `h2mux`, and both plugins; or three items and two groups, each a flow item or a
  block that begins with a dash, its name or another key, in any mixture, with members
  of their own, of a provider that is known and of one that is not; or three rules out of ten,
  also with a rule set between them, of each behaviour, empty or unknown, and with GEOIP
  and GEOSITE lines that yield masks, keywords, a country or nothing.  What only one of the
  readers looks at is varied for that one alone.  No provider is empty, and no
  document gives a key twice.  Nodes and groups do not influence each other except through
  names, so one of interest and one beside it are what a mix-up takes.
* `command_channel`: three commands (two that overlap and one after them), two
  sessions, two bytes per session, so that a byte can move before and after a
  poll and a restart.  Deadlock is not checked: when the commands are used up and
  all have ended, nothing need happen.
* `subscription_store`: three subscriptions, two calls of the page and one other
  instance at a time.  A second call is what every race takes; a third
  subscription is what two adds beside an existing one take.  A behaviour is followed up
  to the second of its races, failures and strays (`OneRace`): each property names those
  that break it, and one is enough to see that it does.  Of the two calls and the other
  instance, two are under way at once (`TwoPending`), and the first subscription is
  the one that has files of providers (`OneProvider`).  The proofs are without these limits.  The calls are interchangeable
  (`SYMMETRY`).  The page has loaded its list before the user acts.
* The messages in flight of `VpnService` are a set.  A session sends each of its
  messages once, so a set loses nothing.
* An instance that has ended is forgotten and never comes back: one instance more
  would be needed for a third life of the ability.

## 6. Fairness

* `FakeDns`: weak fairness of the search loop of a session that holds the mutex.
  It is a loop of a running thread without any wait.  Nothing is assumed of
  queries, deliveries, connections.
* `VpnService` (`FairSpec`): the event loop of the extension takes requests and
  events that have arrived, the platform answers `create()` one way or the
  other, and a flow that waits looks at the result that is there
  (`waitForVpnStartResult` polls).  Nothing is assumed of users, kills, errors or
  timeouts: `StartDecided` allows for each of them explicitly.

* `UdpSessions` (`FairSpec`): the runtime polls every task that can go on: a session
  that has a packet or a closed channel takes it, the wait for the upstream DNS
  answer ends (it has a timeout of 1.5 s), a cancelled task ends, and a
  destination task that has left its loop gets to its end.  Nothing is assumed of
  `create_connection`, of errors or timeouts of connections, of the cleanup or
  of the applications.

* `TcpStack` (`FairSpec`): the thread runs; a half of a relay whose waker was called is
  polled again; `run_tun_server` gets to its wait, looks at the flag every 100 ms,
  and goes on when the thread it joins has ended.  Nothing is assumed of the clients,
  the device, other packets, or of relays that were not woken.

* `CommandChannel`: the timer of every waiting command fires (`setTimeout` is set for
  each, after the subscription).  Nothing is assumed of events, answers, the
  extension or the user.

## 7. What is proved

All theorems are proved for every value of the constants that satisfies the named
assumptions.  But for the liveness and three of the six properties of `ConfigReader`, every
property of section 4 is proved, and the bounds of section 5 concern only the runs.

**FakeDns** (`FakeDnsProofs`).  `TypeCorrect`, `MapsMirror`, `AnswersLeadBack`: the
specification keeps `TypeOK`, `Mirror` and `AnswersHold`, for all sets of names and
sessions and all sizes of range and pool.  Assumed: `RangeSize`, `PoolSize` positive
(`RangeAssumption`), the mark of the free mutex is no session (`NoOneAssumption`).
`Mirror` alone is not inductive: if a search could be going on for a name that
already has an address, its end would give the name a second one.  So the
invariant is `TypeOK /\ SearchLocked /\ Mirror`; `SearchLocked`, the mutual
exclusion of the searches, closes the gap.  `AnswersHold` needs one more fact,
`Recorded`: every name that is in the maps or searched for was asked for in
this run.  Then, as long as few names were asked for, a search finds both maps
with room (`RoomForNew`: the names in the maps are fewer than those asked for), so
that nothing an answer rests on is evicted.  A further lemma is that the
pool is never larger than the maps, so that the insertion of an address evicts
no other (`PoolBound`).  The facts about the LRU operators come first in the module;
`UdpSessionsProofs`, whose cache has other keys, states them for itself.

**ConfigAdapter** (`NativeCoreProofs`, first part).  `GroupsStandForMembers`,
`ProbesMoveGroups`, `TargetsAlwaysResolve`, `PlansKeepPromises`: the four
properties of the adapter, for every set of documents with any numbers of nodes, groups
and rules, after any history of documents, selections, modes and probes.  Assumed
(`DocAssumption`): documents have the form the parsers give them, delays are
integers, and the built-in targets (`DIRECT`, `REJECT`) are names and no
subscription notes.  The invariant, `ConfigInv`, says that every group of the
state is a group of a cleaned document: a name, a member it stands for, no
member without a name, no note among the members.

* The functions of the adapter recurse over sequences and depths (`Only`,
  `Resolve`, `Reached`).  They are recursive functions, that is *some* function that satisfies
  an equation, if there is one.  `RecursionSolvable` shows that there is; what
  they compute is shown by induction over the set of the numbers for which it
  holds (`SetInduction`, from the well-foundedness of the naturals), a form that
  takes no operator as a parameter.
* `TargetsAlwaysResolve` is about the depth limit.  The selections from a target are a
  *walk*.  A walk that is still at a group after as many steps as there are groups has
  been at some group twice (the pigeonhole principle), hence runs in a circle
  and never ends (`WalkRepeats`, `WalkEnds`).  So the limit, which is above the
  number of groups, stops exactly the chains without an end.
* `PlansKeepPromises` compares the plan with the rules as the document has them.  The
  rules that reach the plan are those with an effect, in their order
  (`OnlyInOrder`), so that the first that covers a destination is the same in both
  (`DecidingFact`), and the default rule, if it is added, comes last
  (`RulesDecide`).

**NativeCore** (`NativeCoreProofs`, second part).  `CoreTypeCorrect`, `DescriptorOwned`,
`BackendFollowsState`, `StatusExplained`.  The plan is an unknown function of
configuration and mode: whatever the adapter does, the life of the backend is
right.  The inductive invariant is the conjunction of the checked ones: a restart
takes the descriptor from the state, so `BackendOnFd` needs
`NoBackendWithoutFd`, and so does `StatusKnown` for `stop`.

`CoreRefinesAdapter`: `CoreSpec => ConfigSpec`, every call with every outcome is
a step of the adapter or none.  So the theorems about the adapter hold in the
core, and the two halves meet in `BackendRoutesAsPromised`: the *running backend*,
not only the plan of the state, sends every destination where mode, first matching rule and
selections say, unless a `load_config`, a probe or a restart without a plan has
come in between, or a keyword, country or port rule stands for the default.

**Refinement of Engine** (`NativeCoreProofs`, third part).  `CoreImplementsEngine`:
`CoreSpec => ImplementsEngine`.  Each call, with each outcome, is a step of
`Engine` or changes nothing it sees; a restart is an `Engine!Change`.

**VpnService** (`VpnServiceProofs`).  `TypeCorrect`, `CoreOwned`,
`ConfigurationWhole`, `RunningCurrent`, for any number of sessions, chunks per
session and instances of the ability.  Assumed: every session announces at
least one chunk (`CountAssumption`), the marks for "none" are not names
(`NamesAssumption`).  The invariant `Inv` adds four facts to the checked ones:

* `ChunksOfSession`: even an incomplete array holds only chunks of the session
  it is collected for, each at its place.  With it, counting the chunks is
  enough to know that they are all there (`CountedIsWhole`), which is what
  `collectConfigChunkInto` does.
* `RunningOwned`: while `running` is set, the descriptor of the state belongs to an
  instance that will stop the core: `select_proxy` and `set_mode` restart on
  that descriptor, even after the backend is gone.
* `LifeCycle`: an instance has a descriptor only if its `create()` has
  resolved, and it has neither connection nor engine before it was created.
* `SendsInRange`: a flow has something left to send exactly while it is in the
  phase of sending.

The proof is in two parts.  Lemmas of the extension say that each callback keeps
the invariant, given a message of the right form (`LaunchKeeps` is the heart:
started, failed or not asked).  Lemmas of the UI say that a step of the UI either
stops an instance or only sends such messages (`MessagesOnly`).

**UdpSessions** (`UdpSessionsProofs`).  `UdpTypeCorrect`,
`PacketsReachLiveSessions`, `WritersAlone`, `RecordsExplained`, for any numbers of
addresses, servers and packets and any sizes of cache and channel.  Assumed:
cache and channel have room for one (`SessionsAssumption`).  `OneWriter` and
`ActiveExplained` are not inductive alone: that a session finds no entry for a destination
must mean that it has no connection that works.  The invariant (`IInv`) therefore says
who may know of a connection (`EntriesKnown`): one that is registered has no
entry yet, is active, and belongs to a session that waits for it or was
cancelled; one that runs is in `destinations` of its session unless that has
ended; one in `destinations` has a session that lives.  A session waits for at
most one connection (`OneRegistered`).  `LetGoWithManager` says that without a manager nothing is
held.

**CommandChannel** (`CommandChannelProofs`).  `ChannelTypesOK`, `LatestModeAlwaysHolds`,
`BytesAreShownOnce`, for any numbers of commands, modes, sessions and bytes.
Assumed: the bounds are numbers, the default is a mode.  The ids of commands
rise along both directions of the channel, and everything answered was sent
before what is not (`InOrder`).  For the mode: while the last mode
command of a session waits, none was sent after it, so that its answer, once
given, speaks of the mode the core still has (`LastIsOpen`); after the answer no
other mode command can act on core or page (`NoneAfterLast`).  For the bytes: a
*ledger*.  To each answer on its way belongs the number of bytes that had moved when
the core gave it (`mark`), to the page the number that its display covers (`used`);
they exist (`Ledger`), they rise in the order of the answers, and what an
answer adds, by its speed or by its total, is covered by the bytes between them
(`Covered`).  A restart that sets the counters back only makes the differences
smaller.

**TcpStack** (`TcpStackProofs`).  `StreamsAreWhole`, for any connections, sizes of
buffers and limit of sockets.  Assumed: the sizes are positive, the mark for "no
connection" is none (`SizeAssumption`).  The invariant counts: what one end has written and the
other has not read is exactly what lies in the packets, the socket and the
connection between them, and each of the three is empty before the end of the
stream gets past it (`DownWhole`, `UpWhole`).  `AskedFor` says that a stream
towards the client ends only because the relay asked for it, `Located` that the socket the
thread is at is still open.

**SubscriptionStore** (`SubscriptionStoreProofs`).  `AtMostOneActive`, `AtLeastOneActive`,
`QuietStateIsStored`, `FilesHaveOwners`, `IdsAreUnique`, for any number of
subscriptions and of calls that overlap.  Assumed: `MaxId` is positive.  The invariant is

* `FreshIds`: a list has every id once, and no list has the id of a
  subscription that is still being added.  `IdsAreUnique` is its first half;
  the code looks subscriptions up by their id alone.
* `OneInv`: until two adds overlap, there is at most one add, and one that
  found the list empty, and so was made active, finds it empty when it joins.
* `StoredInv`: what cards, preferences and disk do not show yet, a pending call or the
  other instance is going to write, unless a failure is on record in `missed` or a lost
  change in `slips`.
* `SomeInv` and `FilesOwned` are inductive with these.

**ConfigReader** (`ConfigReaderProofs`).  `FirstLinesDecide`, `AllNodesArrive` and
`AllMembersArrive`, for every document of the assumed shape: any numbers of items, lines, keys, rules,
providers and rule sets, whichever reader takes it.

* *Where the reader is* (`ReaderInv`).  The lines that are left are the end of the text,
  so that the number of lines that have been read (`At`) says which line is next, which
  section it is in (`SectionAt`) and which of its items or rules it belongs to
  (`TodoFact`).  With it each action is known to happen only at a line of its own section
  (`StepCases`), and the sections can be followed one by one.
* *Rules* (`RulesInv`).  The rules read so far are those of the lines before the
  current one (`RulesBefore`); after the end they are all there, cleaned of nothing.
  Both readers therefore make of each line its own sequence of rules (`Makes`): none, one,
  or those of a rule set.  The rest compares two sequences, the lines and the
  plan.  If every element of the first leads to a part of the second, in order, and the
  part of an element holds something that covers a destination exactly when the
  element does, the first that covers it in the one leads to the first in the other
  (`FlattenLeads`, `OnlyLeads`, `JudgeLeads`), and with it to its target.
* *Nodes* (`NodesInv`).  While the text is read, the names of the nodes handed over are
  those of the items before the current one that are not lost, and the open node has the name that the
  lines of its item so far have given it.  A name on a line of its own must not be taken
  for one of a nested section: `NodesInv` says that an open section begins on a line that is
  indented less than everything since, and the shape of items that the naming
  line is under no other (`BlockLine`).  A flow item drops the
  open node, and an item that begins with another key takes its place, which is why
  `Kept` leaves it out; where no node is open such an item is passed over to its end
  (`Stray`, which `StrayFact` follows from item to item).  That both readers find
  the same name in an item is shown for each form: for YAML the order in which keys are
  assigned leaves the name of the node (`YamlName`), for a flow item no key before it ends
  like the name (`FlowNodeName`), for a block item the one naming line stays (`BlockName`).
  Cleaning removes the same names from nodes and from items (`NamesClean`).
* *Members* (`GroupsInv`).  While the text is read, the groups handed over have the names
  of the items before the current one that are not lost, and their members if they begin
  with their name (`Briefs`, `Handed`, `StrayGroupFact`), and the open
  group has the members that the lines of its item so far list; that it takes the elements of
  a list at all depends on `members`, which has been set by the line that the
  list is under (`GroupLine`).  After cleaning a group has those that are known, and
  `KnownFact` says that these are the same for both readers: the nodes that arrived, the
  groups of the document that were handed over (`GroupsKept`) and the built-in targets (`Known`).  So it is enough to compare
  what is known of two lists: for a block item line by line (`BlockMembers`), for a
  flow item at once (`FlowGroupFact`), and through YAML along the two recursions that add
  the nodes of providers (`AllMembersGrow`).  There a name is added unless it is in the list
  before it is cleaned, which `Grown` shows to be the same as being in the list of
  known ones.

**Model-checked only.**

* Liveness: `SearchEnds`, `StartDecided`, `LetGoSessionsEnd`, `Settles`,
  `WaitersWoken`, `Served`.  Fairness rests on `ENABLED`, which the prover
  does not treat.
* `ReadersAgree`, `NoDowngrade` and `SettingsArrive` of `ConfigReader`.  They follow the
  fields of a node through the choice of the layers in `ClientChain`, with dozens of
  spellings and a `Takes` of each protocol; as statements about every document they also
  would need conditions that the documents of the run fulfil by their choice (a
  name that two items share, a flow item whose keys end like each other, a plugin that is named
  twice).  The run goes through sections, plugins, transports and layouts one by one.

## 8. Disagreements found

Each has a run of its own, whose counterexample is the behaviour described.

1. **`fake_dns_narrow`** – `shoes/tun/fake_dns.rs:215`.  The loop evicts when the map
   holds 65534 addresses, but goes through the addresses of the configured
   range only.  With a range of /17 or longer the map never gets that full, and once
   all addresses are taken the loop runs forever, with the mutex held.  The comment
   above it promises an eviction.
2. **`vpn_service_connected`** – `ets/pages/HomePage.ets:590`.  The probe for the start
   result takes any running core for the one of this attempt.

Met while modelling, without a run:

* `native-core/src/lib.rs:2748`: the default rule is added unless the generated
  text contains `0.0.0.0/0`, which also keyword, country and port rules contain.  Such
  a document without a `MATCH` leaves unmatched traffic blocked, while
  `docs/extension-native-core.md:91` says of unsupported rules that "the adapter currently skips
  them and relies on the Clash `MATCH` rule or generated default rule".
  `PlanKeepsPromise` states what happens, with such documents among the inputs.
* `native-core/src/lib.rs:3492`: a refused restart leaves `running` set and no
  backend, so that the status says running; `docs/extension-native-core.md:97` takes
  that status for a core that is still running.  `StatusKnown` says that this is
  the only way.
* `native-core/src/lib.rs:3483`: after a `start_tun` that could not build its plan
  the old backend runs on with `running` cleared; a selection then succeeds without
  being applied, where `docs/extension-native-core.md:93` has it rebuild and
  restart.  `PlanApplied` names the case.
* `native-core/src/lib.rs:2079`: `reality-opts` without `security: reality` gives
  plain TLS; `SubscriptionService.parseVlessLink` itself writes such nodes for
  Reality share links.
* `native-core/src/lib.rs:1067`, `1136`: the line reader takes an item whose first line has
  another key than its name (`- type: ss`) for lines of the item before, and its `name:` for
  a new name of that: a node or a group is lost, the other one has the fields of both.  The
  setting on the first line itself is filed under the key `- type` and lost, so that a node
  that asks for TLS there may get a chain without it.
* `native-core/src/lib.rs:1049`: the line reader drops a block item that a flow
  item follows; it knows flow keys by their suffix (`disable-sni` sets `sni`), and
  loses member lists behind a key, mux sections and `udp` of flow items.
* `native-core/src/lib.rs:966`: entries of a rule set that cannot be read vanish
  and are not reported (`docs/extension-native-core.md:128`).
* `native-core/src/lib.rs:3578`: a restart by `set_mode` or `select_proxy` sets the
  totals back in mid-session, so that the total on Home may shrink.
* `ets/services/NapiClashService.ets:177`: a mode chosen while disconnected is
  shown, and not applied by the next connect, which takes the mode of the
  document (`ets/services/ConfigManager.ets:156`).
* `ets/services/TrafficMonitor.ets:49`: a poll that is answered after a disconnect
  shows the old traffic again.
* `ets/services/SubscriptionService.ets`: a subscription added on a list that is
  emptied meanwhile joins as inactive; two adds that overlap may both be active;
  a tap on the card of a deleted subscription leaves none active; a second
  instance that saves undoes what the page did since it read; a download that ends
  after the deletion, or a kill before the flush, leaves a file without an entry; so does
  an add that fails after its file was opened (line 180), and every deletion of a
  subscription with providers, whose files nothing unlinks (line 243).
* `ets/services/SubscriptionService.ets:44`, `:69`: errors of the preferences are logged and
  the page shows the list as if it were stored.  A list that could not be loaded is
  replaced by an empty one, and the next save puts that in the place of the stored one.
  An add whose download is answered with an error status is listed without a file.
* `native-core/src/lib.rs:2568`: a GEOSITE category that consists of regular
  expressions yields no rule and is not reported as skipped either;
  `docs/extension-native-core.md:128` wants every such entry reported.
* `ets/pages/HomePage.ets:202`: the saved selections are applied when the backend
  routes already; `docs/extension-native-core.md:191` wants them before.
* `cleanupRuntime` stops the VPN with the window, while
  `docs/extension-native-core.md:37` has the extension outlive the UI.
* `closeConnection` and `closeAllConnections` have no handler in the extension
  (`ets/vpnability/ClashVpnAbility.ets:498` answers an error that the callers
  swallow).
* A refused connection publishes no start result, so that the flow runs into its
  timeout.
* `shoes/tun/udp_manager.rs:249`: `put` returns a value only when it replaces the
  same key.  The session that a full cache drives out is dropped instead: it is not
  aborted, as the comment two lines above has it, but ends when it has drained
  its channel (`LetGoSessionsEnd`), and does not if it hangs in
  `create_connection`, which has no timeout.
* `shoes/tun/udp_manager.rs:422`: a session that is cancelled while it waits for
  a connection leaves an active record (`Stranded` in `ActiveExplained`), where
  the TCP side has a guard.
* `shoes/tun/tcp_stack_direct.rs:731`: without a TCP socket `select` waits without a
  timeout, and `unpark`, by which `notify` and `Drop` mean to "Wake up the stack
  thread" (`shoes/tun/tcp_conn.rs:176`), does not end it.  UDP responses and the
  join of a stop then wait for the next packet from the device; `stop` of the core
  waits with them, since it drops the runtime whose worker joins (`Asleep`).
* `shoes/tun/tcp_stack_direct.rs:580`: a socket that is closed while it holds data is
  removed with the data, and its reader sees an orderly end: after the relay has ended its
  own stream, and the client its own, the rest of a slow upload is lost
  (`StreamsWhole`).
* `shoes/tun/tcp_stack_direct.rs:748`: the end of the thread calls no waker; relays that
  sleep are freed by the drop of the runtime only.
* `shoes/tun/mod.rs:545`: the thread runs before it is told where to send new
  connections; one whose SYN is there already is accepted and closed at once.
* `shoes/tun/udp_manager.rs:435`: a destination behind a fake address has a host
  name, for which `to_socket_addr_nonblocking` knows no address; UDP to it is
  connected and given up with every packet.

## 9. What is not modelled, and why

* The TCP relay (`handle_tcp_connection`) and the TCP records of the connection
  tracker, which a guard finishes.
* The merger of `ConfigManager.ets`, the mode rule and DNS settings taken from the
  document (`lib.rs:1204`), stored selections and settings: sequential, and they
  share no state with what is modelled beyond the document that results.
* Text: YAML scanning, share links, quotes and comments, escaping, status wording, DNS and IP packets.
  The properties do not tell texts apart; where one does (`0.0.0.0/0`), it is
  modelled by what it does.
* Read-only commands and queries (`getProxies`, `getConnections`, status texts):
  they change no state of the models.
* Protocol clients and resolvers of `shoes`, vendored: cryptographic
  transports and network input.
* `MockClashService.ets`: invented data behind the same interface, which
  `ets/pages/Index.ets:34` installs when the real service cannot be created.  It
  shares no state with the VPN.
* Presentation, build files, plain data classes.

`PROJECT.json` lists every component with its status.
