------------------------------- MODULE FakeDns -------------------------------
(***************************************************************************)
(* The fake-IP allocator of the TUN backend (tun/fake_dns.rs) and the DNS  *)
(* branch of the UDP session task that drives it (tun/udp_manager.rs).     *)
(*                                                                         *)
(* An application asks for a name; the backend answers an address of the   *)
(* fake range and remembers which name it stands for, in two LRU caches    *)
(* that mirror each other.  When the application later connects to that    *)
(* address the backend looks the name up again.  The caches live as long   *)
(* as one backend run, the answers live in the resolvers of the            *)
(* applications until their TTL is over.                                   *)
(*                                                                         *)
(* allocate_fake_ip holds the mutex for its whole search; each iteration   *)
(* of the search is one step here, and nothing that needs the mutex can    *)
(* run meanwhile.                                                          *)
(*                                                                         *)
(* Left out: host_to_real_ipv4, which the backend writes and only a test   *)
(* reads, and the encoding of DNS messages.                                *)
(***************************************************************************)
EXTENDS Integers, FiniteSets, LruCache

CONSTANTS
  Host,         \* the normalised names that are not in fake-ip-filter
  Session,      \* UDP sessions, each with at most one query in progress
  NoOne,        \* the mutex is free
  RangeSize,    \* addresses of fake-ip-range: 2^(32 - prefix)
  PoolSize,     \* FAKE_IP_POOL_SIZE: 65534 in the code
  MaxBelieved   \* bound: answers alive at once in the resolvers

ASSUME NoOneAssumption == NoOne \notin Session
ASSUME RangeAssumption ==
  /\ RangeSize \in Nat \ {0}
  /\ PoolSize \in Nat \ {0}
  /\ MaxBelieved \in Nat

VARIABLES
  enabled,     \* config.enabled of the running backend
  hostToIp,    \* host_to_ip
  ipToHost,    \* ip_to_host
  nextHost,    \* next_host
  lock,        \* who holds the mutex across several steps
  task,        \* per session: the query its task is working on
  believed,    \* answers alive in the applications' resolvers
  served       \* history: the names this backend run was asked for

vars == <<enabled, hostToIp, ipToHost, nextHost, lock, task,
          believed, served>>

-----------------------------------------------------------------------------
(* The range *)

\* fake_ip_capacity: how many host numbers the search goes through.  A prefix
\* of 31 or 32 leaves one.
Capacity ==
  IF RangeSize <= 2 THEN 1
  ELSE IF RangeSize - 2 < PoolSize THEN RangeSize - 2 ELSE PoolSize

\* fake_ip_from_host, as an offset from the base of the range.
FakeIp(host) == host % RangeSize

Ip == 0 .. RangeSize - 1

\* The addresses the search goes through.
Pool == {FakeIp(host) : host \in 1 .. Capacity}

NoQuery == [at |-> "idle"]

Query(stage, h, ip) == [at |-> stage, host |-> h, ip |-> ip]

-----------------------------------------------------------------------------
(* Answering an A query *)

\* The name already has an address: host_to_ip.get counts as a use, and only
\* in host_to_ip.
Hit(s, h) ==
  /\ lock = NoOne
  /\ task[s].at = "idle"
  /\ enabled
  /\ h \in Keys(hostToIp)
  /\ hostToIp' = Touch(hostToIp, h)
  /\ task' = [task EXCEPT ![s] = Query("reply", h, hostToIp.val[h])]
  /\ UNCHANGED <<enabled, ipToHost, nextHost, lock, believed, served>>

\* The name is new: the search for an address starts, under the mutex.
Miss(s, h) ==
  /\ lock = NoOne
  /\ task[s].at = "idle"
  /\ enabled
  /\ h \notin Keys(hostToIp)
  /\ lock' = s
  /\ task' = [task EXCEPT ![s] = Query("search", h, 0)]
  /\ served' = served \cup {h}
  /\ UNCHANGED <<enabled, hostToIp, ipToHost, nextHost, believed>>

\* Mutant of Candidate: the numbering starts at the network address.
CandidateFromZero == nextHost % Capacity

Candidate == (nextHost % Capacity) + 1

\* One iteration of the search finds a free address: both maps get the pair,
\* and the pair of a name that host_to_ip drives out goes with it.
ProbeFree(s) ==
  LET h    == task[s].host
      ip   == FakeIp(Candidate)
      gone == Evicted(hostToIp, h, PoolSize)
  IN  /\ task[s].at = "search"
      /\ ip \notin Keys(ipToHost)
      /\ nextHost' = Candidate
      /\ hostToIp' = Push(hostToIp, h, ip, PoolSize)
      /\ ipToHost' = Push(Without(ipToHost, {hostToIp.val[g] : g \in gone}),
                          ip, h, PoolSize)
      /\ task' = [task EXCEPT ![s] = Query("reply", h, ip)]
      /\ lock' = NoOne
      /\ UNCHANGED <<enabled, believed, served>>

\* Mutant of Full: the test is off by one.
FullAbove == Size(ipToHost) > PoolSize

\* The test that makes the search evict.
Full == Size(ipToHost) >= PoolSize

\* Mutant of ProbeEvict: the name of the evicted address is not forgotten.
ProbeEvictKeepsName(s) ==
  /\ task[s].at = "search"
  /\ FakeIp(Candidate) \in Keys(ipToHost)
  /\ Full
  /\ nextHost' = Candidate
  /\ \E ip \in Oldest(ipToHost) : ipToHost' = Without(ipToHost, {ip})
  /\ UNCHANGED <<enabled, hostToIp, lock, task, believed, served>>

\* The candidate is taken and the map holds PoolSize addresses: the least
\* recently used address is given up and the search goes on.
ProbeEvict(s) ==
  /\ task[s].at = "search"
  /\ FakeIp(Candidate) \in Keys(ipToHost)
  /\ Full
  /\ nextHost' = Candidate
  /\ \E ip \in Oldest(ipToHost) :
       /\ ipToHost' = Without(ipToHost, {ip})
       /\ hostToIp' = Without(hostToIp, {ipToHost.val[ip]})
  /\ UNCHANGED <<enabled, lock, task, believed, served>>

\* The candidate is taken, the map is not full: on to the next one.
ProbeNext(s) ==
  /\ task[s].at = "search"
  /\ FakeIp(Candidate) \in Keys(ipToHost)
  /\ ~ Full
  /\ nextHost' = Candidate
  /\ UNCHANGED <<enabled, hostToIp, ipToHost, lock, task, believed, served>>

\* The task first waits up to FAKE_DNS_UPSTREAM_LEARN_TIMEOUT for an upstream
\* answer to learn from (stage "reply" lasts that long), then its response
\* reaches the application's resolver ...
Reply(s) ==
  /\ task[s].at = "reply"
  /\ Cardinality(believed) < MaxBelieved
  /\ believed' = believed \cup
       {[host |-> task[s].host, ip |-> task[s].ip, old |-> FALSE]}
  /\ task' = [task EXCEPT ![s] = NoQuery]
  /\ UNCHANGED <<enabled, hostToIp, ipToHost, nextHost, lock, served>>

\* ... or is dropped, the response channel being full.
ReplyDropped(s) ==
  /\ task[s].at = "reply"
  /\ task' = [task EXCEPT ![s] = NoQuery]
  /\ UNCHANGED <<enabled, hostToIp, ipToHost, nextHost, lock, believed, served>>

-----------------------------------------------------------------------------
(* The applications, and the life of the backend *)

\* An application connects to an address it believes in: lookup_hostname,
\* which counts as a use, and only in ip_to_host.
Connect(b) ==
  /\ lock = NoOne
  /\ enabled
  /\ ipToHost' = Touch(ipToHost, b.ip)
  /\ UNCHANGED <<enabled, hostToIp, nextHost, lock, task, believed, served>>

\* DEFAULT_TTL_SECONDS after an answer the application asks again.
Expire(b) ==
  /\ believed' = believed \ {b}
  /\ UNCHANGED <<enabled, hostToIp, ipToHost, nextHost, lock, task, served>>

\* Mutant of Restart: the tasks of the old backend outlive it.
RestartKeepsTasks(on) ==
  /\ lock = NoOne
  /\ enabled' = on
  /\ hostToIp' = EmptyLru
  /\ ipToHost' = EmptyLru
  /\ nextHost' = 0
  /\ believed' = {[host |-> b.host, ip |-> b.ip, old |-> TRUE] : b \in believed}
  /\ served' = {}
  /\ UNCHANGED <<lock, task>>

\* The core replaces its backend: the old runtime is dropped, which ends every
\* session task at an await and waits for a task that is inside the search;
\* the new task calls init, which starts from empty maps.  The resolvers of
\* the applications keep what they were told.
Restart(on) ==
  /\ lock = NoOne
  /\ enabled' = on
  /\ hostToIp' = EmptyLru
  /\ ipToHost' = EmptyLru
  /\ nextHost' = 0
  /\ task' = [s \in Session |-> NoQuery]
  /\ believed' = {[host |-> b.host, ip |-> b.ip, old |-> TRUE] : b \in believed}
  /\ served' = {}
  /\ UNCHANGED lock

-----------------------------------------------------------------------------
Init ==
  /\ enabled \in BOOLEAN
  /\ hostToIp = EmptyLru
  /\ ipToHost = EmptyLru
  /\ nextHost = 0
  /\ lock = NoOne
  /\ task = [s \in Session |-> NoQuery]
  /\ believed = {}
  /\ served = {}

Probe(s) == ProbeFree(s) \/ ProbeEvict(s) \/ ProbeNext(s)

Next ==
  \/ \E s \in Session :
       \/ \E h \in Host : Hit(s, h) \/ Miss(s, h)
       \/ Probe(s)
       \/ Reply(s) \/ ReplyDropped(s)
  \/ \E b \in believed : Connect(b) \/ Expire(b)
  \/ \E on \in BOOLEAN : Restart(on)

\* The search is a loop of a running thread: it takes its next step.
Fairness == \A s \in Session : WF_vars(Probe(s))

Spec == Init /\ [][Next]_vars /\ Fairness
-----------------------------------------------------------------------------
Answers == [host : Host, ip : Ip, old : BOOLEAN]

TypeOK ==
  /\ enabled \in BOOLEAN
  /\ Keys(hostToIp) \subseteq Host
  /\ \A h \in Keys(hostToIp) : hostToIp.val[h] \in Ip
  /\ Keys(ipToHost) \subseteq Pool
  /\ \A ip \in Keys(ipToHost) : ipToHost.val[ip] \in Host
  /\ nextHost \in 0 .. Capacity
  /\ lock \in Session \cup {NoOne}
  /\ task \in [Session -> {NoQuery} \cup
                          [at : {"search", "reply"}, host : Host, ip : Ip]]
  /\ believed \subseteq Answers
  /\ served \subseteq Host

\* The mutex is held across steps by the session that searches, for a name
\* that has no address yet.
SearchLocked ==
  \A s \in Session :
    /\ task[s].at = "search" <=> lock = s
    /\ task[s].at = "search" => task[s].host \notin Keys(hostToIp)

\* The two maps are inverse to each other: whatever was evicted from one is
\* gone from the other, so no two names share an address and a lookup of a
\* handed-out address finds the name that the address is still booked for.
Mirror ==
  /\ \A h \in Keys(hostToIp) :
       /\ hostToIp.val[h] \in Keys(ipToHost)
       /\ ipToHost.val[hostToIp.val[h]] = h
  /\ \A ip \in Keys(ipToHost) :
       /\ ipToHost.val[ip] \in Keys(hostToIp)
       /\ hostToIp.val[ipToHost.val[ip]] = ip

\* An answer of this backend run, delivered or about to be, leads back to the
\* name it was given for as long as the run has served no more names than the
\* range has addresses, however queries, connections and drops interleave.
AnswersHold ==
  Cardinality(served) <= Capacity =>
    /\ \A b \in believed :
         ~ b.old => b.ip \in Keys(ipToHost) /\ ipToHost.val[b.ip] = b.host
    /\ \A s \in Session :
         task[s].at = "reply" =>
           task[s].ip \in Keys(ipToHost) /\ ipToHost.val[task[s].ip] = task[s].host

\* The search for an address ends, so that the mutex is given back and DNS and
\* connections go on.
SearchEnds == (lock # NoOne) ~> (lock = NoOne)
=============================================================================
