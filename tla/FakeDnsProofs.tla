---------------------------- MODULE FakeDnsProofs ----------------------------
(***************************************************************************)
(* Proofs about FakeDns, for every set of names and sessions and every     *)
(* size of the fake range and of the pool: the types, that the two maps    *)
(* mirror each other, and that answers hold.  Mirror alone is not          *)
(* inductive: that a search ends in a new pair and not in a second address *)
(* for a known name needs SearchLocked, the mutual exclusion of the        *)
(* searches.                                                               *)
(***************************************************************************)
EXTENDS FakeDns, FiniteSetTheorems, TLAPS

IInv == TypeOK /\ SearchLocked /\ Mirror

-----------------------------------------------------------------------------
(* The caches: keys and values *)

\* Removing keys from a cache removes these keys and changes no value.
LEMMA WithoutFact ==
  ASSUME NEW c, NEW S
  PROVE  /\ Keys(Without(c, S)) = Keys(c) \ S
         /\ \A j \in Keys(c) \ S : Without(c, S).val[j] = c.val[j]
  BY DEF Without, Keys

\* Storing a pair adds its key, sets its value, and changes no other value.
LEMMA StoreFact ==
  ASSUME NEW c, NEW k, NEW v
  PROVE  /\ Keys(Store(c, k, v)) = Keys(c) \cup {k}
         /\ Store(c, k, v).val[k] = v
         /\ \A j \in Keys(c) \ {k} : Store(c, k, v).val[j] = c.val[j]
<1> DEFINE rest == Without(c, {k})
<1>1. /\ Keys(rest) = Keys(c) \ {k}
      /\ \A j \in Keys(c) \ {k} : rest.val[j] = c.val[j]
  BY WithoutFact
<1>2. Store(c, k, v).val
        = [j \in Keys(rest) \cup {k} |-> IF j = k THEN v ELSE rest.val[j]]
  BY DEF Store
<1> HIDE DEF rest
<1> QED
  BY <1>1, <1>2 DEF Keys

\* A use of a key changes neither the keys nor the values.
LEMMA TouchFact ==
  ASSUME NEW c, NEW k
  PROVE  /\ Keys(Touch(c, k)) = Keys(c)
         /\ \A j \in Keys(c) : Touch(c, k).val[j] = c.val[j]
<1>1. CASE k \in Keys(c)
  <2>1. Touch(c, k) = Store(c, k, c.val[k])
    BY <1>1 DEF Touch
  <2>2. /\ Keys(Store(c, k, c.val[k])) = Keys(c) \cup {k}
        /\ Store(c, k, c.val[k]).val[k] = c.val[k]
        /\ \A j \in Keys(c) \ {k} : Store(c, k, c.val[k]).val[j] = c.val[j]
    BY StoreFact
  <2> QED
    BY <1>1, <2>1, <2>2
<1>2. CASE k \notin Keys(c)
  BY <1>2 DEF Touch
<1> QED
  BY <1>1, <1>2

\* An insertion drives out only keys that are there, and never its own.
LEMMA EvictedFact ==
  ASSUME NEW c, NEW k, NEW cap
  PROVE  Evicted(c, k, cap) \subseteq Keys(c) \ {k}
  BY DEF Evicted, Oldest

\* Pushing a pair is storing it in what the eviction leaves.
LEMMA PushFact ==
  ASSUME NEW c, NEW k, NEW v, NEW cap
  PROVE  /\ Keys(Push(c, k, v, cap)) = (Keys(c) \ Evicted(c, k, cap)) \cup {k}
         /\ Push(c, k, v, cap).val[k] = v
         /\ \A j \in Keys(c) \ (Evicted(c, k, cap) \cup {k}) :
              Push(c, k, v, cap).val[j] = c.val[j]
<1> DEFINE left == Without(c, Evicted(c, k, cap))
<1>1. /\ Keys(left) = Keys(c) \ Evicted(c, k, cap)
      /\ \A j \in Keys(c) \ Evicted(c, k, cap) : left.val[j] = c.val[j]
  BY WithoutFact
<1>2. Push(c, k, v, cap) = Store(left, k, v)
  BY DEF Push
<1> HIDE DEF left
<1>3. /\ Keys(Store(left, k, v)) = Keys(left) \cup {k}
      /\ Store(left, k, v).val[k] = v
      /\ \A j \in Keys(left) \ {k} : Store(left, k, v).val[j] = left.val[j]
  BY StoreFact
<1> QED
  BY <1>1, <1>2, <1>3

-----------------------------------------------------------------------------
(* The range *)

LEMMA CapacityFact == Capacity \in 1 .. PoolSize
  BY RangeAssumption DEF Capacity

\* The search stays in the range: host numbers and addresses.
LEMMA CandidateFact ==
  ASSUME nextHost \in 0 .. Capacity
  PROVE  Candidate \in 1 .. Capacity /\ FakeIp(Candidate) \in Pool
<1>1. Candidate \in 1 .. Capacity
  BY CapacityFact, RangeAssumption DEF Candidate
<1> QED
  BY <1>1 DEF Pool

LEMMA PoolInRange == Pool \subseteq Ip
  BY CapacityFact, RangeAssumption DEF Pool, FakeIp, Ip

\* The pool has no more addresses than the caches have room for.
LEMMA PoolBound == IsFiniteSet(Pool) /\ Cardinality(Pool) <= PoolSize
<1>1. CASE RangeSize = 1
  <2>1. Pool = {0}
    BY <1>1, CapacityFact, RangeAssumption DEF Pool, FakeIp, Capacity
  <2>2. IsFiniteSet({0}) /\ Cardinality({0}) = 1
    BY FS_Singleton
  <2> QED
    BY <2>1, <2>2, RangeAssumption
<1>2. CASE RangeSize # 1
  <2>1. \A n \in 1 .. Capacity : FakeIp(n) = n
    BY <1>2, RangeAssumption DEF FakeIp, Capacity
  <2>2. Pool = 1 .. Capacity
    BY <2>1 DEF Pool
  <2>3. IsFiniteSet(1 .. Capacity) /\ Cardinality(1 .. Capacity) = Capacity
    BY CapacityFact, FS_Interval, RangeAssumption
  <2> QED
    BY <2>2, <2>3, CapacityFact, RangeAssumption
<1> QED
  BY <1>1, <1>2

\* The empty cache has no keys.
LEMMA EmptyFact == Keys(EmptyLru) = {}
  BY DEF Keys, EmptyLru

LEMMA InitIInv == Init => IInv
<1> SUFFICES ASSUME Init PROVE IInv
  OBVIOUS
<1>1. TypeOK
  BY EmptyFact, RangeAssumption DEF Init, TypeOK, Capacity, NoQuery, Answers
<1>2. SearchLocked
  BY EmptyFact, NoOneAssumption DEF Init, SearchLocked, NoQuery
<1>3. Mirror
  BY EmptyFact DEF Init, Mirror
<1> QED
  BY <1>1, <1>2, <1>3 DEF IInv

-----------------------------------------------------------------------------
(* One lemma per action that changes the maps or the searches. *)

LEMMA HitStep ==
  ASSUME IInv, NEW s \in Session, NEW h \in Host, Hit(s, h)
  PROVE  IInv'
<1> USE DEF IInv, Hit
<1>1. /\ Keys(hostToIp)' = Keys(hostToIp)
      /\ \A j \in Keys(hostToIp) : hostToIp'.val[j] = hostToIp.val[j]
  BY TouchFact
<1>2. /\ ipToHost' = ipToHost
      /\ task' = [task EXCEPT ![s] = Query("reply", h, hostToIp.val[h])]
  OBVIOUS
<1>3. TypeOK'
  BY <1>1, <1>2 DEF TypeOK, Query, NoQuery
<1>4. SearchLocked'
  BY <1>1, <1>2 DEF SearchLocked, Query, NoQuery, TypeOK
<1>5. Mirror'
  BY <1>1, <1>2 DEF Mirror
<1> QED
  BY <1>3, <1>4, <1>5

LEMMA MissStep ==
  ASSUME IInv, NEW s \in Session, NEW h \in Host, Miss(s, h)
  PROVE  IInv'
<1> USE DEF IInv, Miss
<1>1. 0 \in Ip
  BY RangeAssumption DEF Ip
<1>2. TypeOK'
  BY <1>1 DEF TypeOK, Query, NoQuery
<1>3. SearchLocked'
  BY NoOneAssumption DEF SearchLocked, Query, NoQuery, TypeOK
<1>4. Mirror'
  BY DEF Mirror
<1> QED
  BY <1>2, <1>3, <1>4

\* A map that misses an address of the pool has room for it.
LEMMA RoomFact ==
  ASSUME NEW c, NEW ip \in Pool, Keys(c) \subseteq Pool \ {ip}
  PROVE  \A k : Evicted(c, k, PoolSize) = {}
<1>1. IsFiniteSet(Pool \ {ip}) /\ Cardinality(Pool \ {ip}) = Cardinality(Pool) - 1
  BY PoolBound, FS_RemoveElement
<1>2. Cardinality(Keys(c)) <= Cardinality(Pool \ {ip})
  BY <1>1, FS_Subset
<1>3. Cardinality(Pool) \in Nat /\ Cardinality(Keys(c)) \in Nat
  BY PoolBound, <1>1, FS_Subset, FS_CardinalityType
<1>4. ~ (Size(c) >= PoolSize)
  BY <1>1, <1>2, <1>3, PoolBound, RangeAssumption DEF Size
<1> QED
  BY <1>4 DEF Evicted

\* The pair of a name driven out of host_to_ip leaves ip_to_host too; ip_to_host
\* drives out nothing, so the new pair is all that is added to what is left.
LEMMA ProbeFreeStep ==
  ASSUME IInv, NEW s \in Session, ProbeFree(s)
  PROVE  IInv'
<1> DEFINE h    == task[s].host
           ip   == FakeIp(Candidate)
           gone == Evicted(hostToIp, h, PoolSize)
           lost == {hostToIp.val[g] : g \in gone}
           left == Without(ipToHost, lost)
<1>1. /\ h \in Host /\ h \notin Keys(hostToIp)
      /\ ip \in Pool /\ ip \notin Keys(ipToHost)
      /\ Candidate \in 0 .. Capacity
  BY CandidateFact DEF IInv, TypeOK, SearchLocked, ProbeFree, NoQuery
<1>2. gone \subseteq Keys(hostToIp)
  BY EvictedFact
<1>3. /\ Keys(hostToIp)' = (Keys(hostToIp) \ gone) \cup {h}
      /\ hostToIp'.val[h] = ip
      /\ \A j \in Keys(hostToIp) \ (gone \cup {h}) : hostToIp'.val[j] = hostToIp.val[j]
  <2>1. hostToIp' = Push(hostToIp, h, ip, PoolSize)
    BY DEF ProbeFree
  <2>2. /\ Keys(Push(hostToIp, h, ip, PoolSize)) = (Keys(hostToIp) \ gone) \cup {h}
        /\ Push(hostToIp, h, ip, PoolSize).val[h] = ip
        /\ \A j \in Keys(hostToIp) \ (gone \cup {h}) :
             Push(hostToIp, h, ip, PoolSize).val[j] = hostToIp.val[j]
    BY PushFact
  <2> QED
    BY <2>1, <2>2
<1>4. /\ Keys(left) = Keys(ipToHost) \ lost
      /\ \A j \in Keys(ipToHost) \ lost : left.val[j] = ipToHost.val[j]
  BY WithoutFact
<1>5. Evicted(left, ip, PoolSize) = {}
  <2>1. Keys(left) \subseteq Pool \ {ip}
    BY <1>1, <1>4 DEF IInv, TypeOK
  <2> QED
    BY <2>1, <1>1, RoomFact
<1>6. /\ Keys(ipToHost)' = (Keys(ipToHost) \ lost) \cup {ip}
      /\ ipToHost'.val[ip] = h
      /\ \A j \in Keys(ipToHost) \ (lost \cup {ip}) : ipToHost'.val[j] = ipToHost.val[j]
  <2>1. ipToHost' = Push(left, ip, h, PoolSize)
    BY DEF ProbeFree
  <2>2. /\ Keys(Push(left, ip, h, PoolSize))
             = (Keys(left) \ Evicted(left, ip, PoolSize)) \cup {ip}
        /\ Push(left, ip, h, PoolSize).val[ip] = h
        /\ \A j \in Keys(left) \ (Evicted(left, ip, PoolSize) \cup {ip}) :
             Push(left, ip, h, PoolSize).val[j] = left.val[j]
    BY PushFact
  <2> QED
    BY <2>1, <2>2, <1>4, <1>5
<1>7. lost \subseteq Keys(ipToHost)
  BY <1>2 DEF IInv, Mirror
<1>8. /\ task' = [task EXCEPT ![s] = Query("reply", h, ip)]
      /\ nextHost' = Candidate
      /\ lock' = NoOne
      /\ UNCHANGED <<enabled, believed, served>>
  BY DEF ProbeFree
<1> HIDE DEF h, ip, gone, lost, left
<1>9. TypeOK'
  BY <1>1, <1>2, <1>3, <1>6, <1>8, PoolInRange DEF IInv, TypeOK, Query
<1>10. SearchLocked'
  <2>1. \A r \in Session \ {s} : task'[r] = task[r] /\ task[r].at # "search"
    BY <1>8 DEF IInv, TypeOK, SearchLocked, ProbeFree
  <2>2. task'[s].at = "reply"
    BY <1>8 DEF IInv, TypeOK, Query
  <2> QED
    BY <2>1, <2>2, <1>8, NoOneAssumption DEF SearchLocked
<1>11. Mirror'
  <2>1. ASSUME NEW g \in Keys(hostToIp)'
        PROVE  /\ hostToIp'.val[g] \in Keys(ipToHost)'
               /\ ipToHost'.val[hostToIp'.val[g]] = g
    <3>1. CASE g = h
      BY <3>1, <1>3, <1>6
    <3>2. CASE g # h
      <4>1. g \in Keys(hostToIp) \ gone /\ hostToIp'.val[g] = hostToIp.val[g]
        BY <3>2, <2>1, <1>3
      <4>2. /\ hostToIp.val[g] \in Keys(ipToHost)
            /\ ipToHost.val[hostToIp.val[g]] = g
        BY <4>1 DEF IInv, Mirror
      <4>3. hostToIp.val[g] \notin lost
        BY <4>1, <4>2, <1>2 DEF lost, IInv, Mirror
      <4>4. hostToIp.val[g] # ip
        BY <4>2, <1>1
      <4> QED
        BY <4>1, <4>2, <4>3, <4>4, <1>6
    <3> QED
      BY <3>1, <3>2
  <2>2. ASSUME NEW a \in Keys(ipToHost)'
        PROVE  /\ ipToHost'.val[a] \in Keys(hostToIp)'
               /\ hostToIp'.val[ipToHost'.val[a]] = a
    <3>1. CASE a = ip
      BY <3>1, <1>3, <1>6
    <3>2. CASE a # ip
      <4>1. a \in Keys(ipToHost) \ lost /\ ipToHost'.val[a] = ipToHost.val[a]
        BY <3>2, <2>2, <1>6
      <4>2. /\ ipToHost.val[a] \in Keys(hostToIp)
            /\ hostToIp.val[ipToHost.val[a]] = a
        BY <4>1 DEF IInv, Mirror
      <4>3. ipToHost.val[a] \notin gone
        BY <4>1, <4>2 DEF lost
      <4>4. ipToHost.val[a] # h
        BY <4>2, <1>1
      <4> QED
        BY <4>1, <4>2, <4>3, <4>4, <1>3
    <3> QED
      BY <3>1, <3>2
  <2> QED
    BY <2>1, <2>2 DEF Mirror
<1> QED
  BY <1>9, <1>10, <1>11 DEF IInv

\* An eviction takes a name and its address out of both maps.
LEMMA ProbeEvictStep ==
  ASSUME IInv, NEW s \in Session, ProbeEvict(s)
  PROVE  IInv'
<1>1. PICK ip \in Oldest(ipToHost) :
        /\ ipToHost' = Without(ipToHost, {ip})
        /\ hostToIp' = Without(hostToIp, {ipToHost.val[ip]})
  BY DEF ProbeEvict
<1>2. ip \in Keys(ipToHost)
  BY DEF Oldest
<1> DEFINE h == ipToHost.val[ip]
<1>3. /\ Keys(ipToHost)' = Keys(ipToHost) \ {ip}
      /\ \A j \in Keys(ipToHost) \ {ip} : ipToHost'.val[j] = ipToHost.val[j]
  BY <1>1, WithoutFact
<1>4. /\ Keys(hostToIp)' = Keys(hostToIp) \ {h}
      /\ \A j \in Keys(hostToIp) \ {h} : hostToIp'.val[j] = hostToIp.val[j]
  BY <1>1, WithoutFact
<1>5. /\ nextHost' = Candidate
      /\ UNCHANGED <<enabled, lock, task, believed, served>>
  BY DEF ProbeEvict
<1>6. TypeOK'
  BY <1>3, <1>4, <1>5, CandidateFact DEF IInv, TypeOK
<1>7. SearchLocked'
  BY <1>4, <1>5 DEF IInv, SearchLocked
<1>8. Mirror'
  BY <1>2, <1>3, <1>4 DEF IInv, Mirror
<1> QED
  BY <1>6, <1>7, <1>8 DEF IInv

LEMMA ProbeNextStep ==
  ASSUME IInv, NEW s \in Session, ProbeNext(s)
  PROVE  IInv'
<1>1. TypeOK'
  BY CandidateFact DEF IInv, TypeOK, ProbeNext
<1> QED
  BY <1>1 DEF IInv, SearchLocked, Mirror, ProbeNext

LEMMA ReplyStep ==
  ASSUME IInv, NEW s \in Session, Reply(s) \/ ReplyDropped(s)
  PROVE  IInv'
<1>1. /\ task[s].at = "reply"
      /\ task' = [task EXCEPT ![s] = NoQuery]
      /\ UNCHANGED <<enabled, hostToIp, ipToHost, nextHost, lock, served>>
  BY DEF Reply, ReplyDropped
<1>2. believed' \subseteq Answers
  <2>1. believed \subseteq Answers
    BY DEF IInv, TypeOK
  <2>2. task[s] \in [at : {"search", "reply"}, host : Host, ip : Ip]
    BY <1>1 DEF IInv, TypeOK, NoQuery
  <2>3. [host |-> task[s].host, ip |-> task[s].ip, old |-> FALSE] \in Answers
    BY <2>2 DEF Answers
  <2> QED
    BY <2>1, <2>3 DEF Reply, ReplyDropped
<1>3. TypeOK'
  BY <1>1, <1>2 DEF IInv, TypeOK
<1>4. SearchLocked'
  BY <1>1 DEF IInv, TypeOK, SearchLocked, NoQuery
<1> QED
  BY <1>1, <1>3, <1>4 DEF IInv, Mirror

LEMMA ConnectStep ==
  ASSUME IInv, NEW b \in believed, Connect(b)
  PROVE  IInv'
<1>1. /\ Keys(ipToHost)' = Keys(ipToHost)
      /\ \A j \in Keys(ipToHost) : ipToHost'.val[j] = ipToHost.val[j]
  BY TouchFact DEF Connect
<1>2. UNCHANGED <<enabled, hostToIp, nextHost, lock, task, believed, served>>
  BY DEF Connect
<1> QED
  BY <1>1, <1>2 DEF IInv, TypeOK, SearchLocked, Mirror

LEMMA ExpireStep ==
  ASSUME IInv, NEW b \in believed, Expire(b)
  PROVE  IInv'
  BY DEF IInv, TypeOK, SearchLocked, Mirror, Expire

LEMMA RestartStep ==
  ASSUME IInv, NEW on \in BOOLEAN, Restart(on)
  PROVE  IInv'
<1>1. TypeOK'
  <2>1. believed' \subseteq Answers
    <3>1. believed \subseteq Answers
      BY DEF IInv, TypeOK
    <3>2. \A b \in Answers : [host |-> b.host, ip |-> b.ip, old |-> TRUE] \in Answers
      BY DEF Answers
    <3>3. believed' = {[host |-> b.host, ip |-> b.ip, old |-> TRUE] : b \in believed}
      BY DEF Restart
    <3> QED
      BY <3>1, <3>2, <3>3
  <2>2. nextHost' \in 0 .. Capacity
    BY CapacityFact, RangeAssumption DEF Restart
  <2>3. /\ Keys(hostToIp)' = {} /\ Keys(ipToHost)' = {}
        /\ task' \in [Session -> {NoQuery}]
        /\ enabled' \in BOOLEAN /\ served' = {} /\ lock' = lock
    BY EmptyFact DEF Restart
  <2> QED
    BY <2>1, <2>2, <2>3 DEF IInv, TypeOK
<1>2. SearchLocked'
  BY NoOneAssumption DEF SearchLocked, Restart, NoQuery
<1>3. Mirror'
  BY EmptyFact DEF Mirror, Restart
<1> QED
  BY <1>1, <1>2, <1>3 DEF IInv

-----------------------------------------------------------------------------
\* The maps stay well typed and inverse to each other, and the searches
\* exclude each other, whatever the size of the range and of the pool.
THEOREM Invariance == Spec => []IInv
<1>1. Init => IInv
  BY InitIInv
<1>2. IInv /\ [Next]_vars => IInv'
  <2> SUFFICES ASSUME IInv, [Next]_vars PROVE IInv'
    OBVIOUS
  <2>1. CASE UNCHANGED vars
    BY <2>1 DEF vars, IInv, TypeOK, SearchLocked, Mirror
  <2>2. ASSUME NEW s \in Session, NEW h \in Host, Hit(s, h) PROVE IInv'
    BY <2>2, HitStep
  <2>3. ASSUME NEW s \in Session, NEW h \in Host, Miss(s, h) PROVE IInv'
    BY <2>3, MissStep
  <2>4. ASSUME NEW s \in Session, Probe(s) PROVE IInv'
    BY <2>4, ProbeFreeStep, ProbeEvictStep, ProbeNextStep DEF Probe
  <2>5. ASSUME NEW s \in Session, Reply(s) \/ ReplyDropped(s) PROVE IInv'
    BY <2>5, ReplyStep
  <2>6. ASSUME NEW b \in believed, Connect(b) \/ Expire(b) PROVE IInv'
    BY <2>6, ConnectStep, ExpireStep
  <2>7. ASSUME NEW on \in BOOLEAN, Restart(on) PROVE IInv'
    BY <2>7, RestartStep
  <2> QED
    BY <2>1, <2>2, <2>3, <2>4, <2>5, <2>6, <2>7 DEF Next
<1> QED
  BY <1>1, <1>2, PTL DEF Spec

\* The variables keep their types.
THEOREM TypeCorrect == Spec => []TypeOK
<1>1. IInv => TypeOK
  BY DEF IInv
<1> QED
  BY Invariance, <1>1, PTL

\* host_to_ip and ip_to_host stay inverse to each other: no two names share an
\* address, and a lookup finds the name an address is booked for.
THEOREM MapsMirror == Spec => []Mirror
<1>1. IInv => Mirror
  BY DEF IInv
<1> QED
  BY Invariance, <1>1, PTL

-----------------------------------------------------------------------------
(* Answers hold.  That needs two more facts: the run was asked for every   *)
(* name that has an address or is searched for, and nothing is evicted     *)
(* until it was asked for more names than there are addresses.             *)

\* The names that the maps and the searches know were asked for in this run.
Recorded ==
  /\ IsFiniteSet(served)
  /\ Keys(hostToIp) \subseteq served
  /\ \A s \in Session : task[s].at = "search" => task[s].host \in served

\* Few names were asked for.
Few == Cardinality(served) <= Capacity

AInv == IInv /\ Recorded /\ AnswersHold

\* While a new name is searched for and few were asked for, both maps have room.
LEMMA RoomForNew ==
  ASSUME IInv, Recorded, Few, NEW s \in Session, task[s].at = "search"
  PROVE  /\ ~ Full
         /\ Evicted(hostToIp, task[s].host, PoolSize) = {}
<1> DEFINE h == task[s].host
           rest == served \ {h}
           f == [ip \in Keys(ipToHost) |-> ipToHost.val[ip]]
<1>1. h \in served /\ h \notin Keys(hostToIp) /\ IsFiniteSet(served)
  BY DEF Recorded, IInv, SearchLocked
<1>2. IsFiniteSet(rest) /\ Cardinality(rest) = Cardinality(served) - 1
  BY <1>1, FS_RemoveElement
<1>3. Cardinality(served) \in Nat /\ Cardinality(rest) \in Nat
  BY <1>1, <1>2, FS_CardinalityType
<1>4. Cardinality(rest) < PoolSize
  BY <1>2, <1>3, CapacityFact, RangeAssumption DEF Few
<1>5. Cardinality(Keys(hostToIp)) <= Cardinality(rest) /\ Cardinality(Keys(hostToIp)) \in Nat
  <2>1. Keys(hostToIp) \in SUBSET rest
    BY <1>1 DEF Recorded
  <2> QED
    BY <1>2, <2>1, FS_Subset, FS_CardinalityType
<1>6. Cardinality(Keys(ipToHost)) <= Cardinality(rest) /\ Cardinality(Keys(ipToHost)) \in Nat
  <2>1. f \in Injection(Keys(ipToHost), rest)
    <3>1. f \in [Keys(ipToHost) -> rest]
      BY <1>1 DEF IInv, Mirror, Recorded
    <3>2. \A a, b \in Keys(ipToHost) : f[a] = f[b] => a = b
      BY DEF IInv, Mirror
    <3> QED
      BY <3>1, <3>2 DEF Injection, IsInjective
  <2> QED
    BY <1>2, <2>1, FS_Injection, FS_CardinalityType
<1>7. ~ Full
  BY <1>3, <1>4, <1>6, RangeAssumption DEF Full, Size
<1>8. ~ (Size(hostToIp) >= PoolSize)
  BY <1>3, <1>4, <1>5, RangeAssumption DEF Size
<1> QED
  BY <1>7, <1>8 DEF Evicted

\* A step that keeps what the addresses stand for, and answers, if at all,
\* with an address and its name.
LEMMA AnswersKept ==
  ASSUME AnswersHold, Few' => Few,
         Few => \A ip \in Keys(ipToHost) :
                  ip \in Keys(ipToHost)' /\ ipToHost'.val[ip] = ipToHost.val[ip],
         \A b \in believed' : ~ b.old =>
           \/ b \in believed
           \/ \E s \in Session : task[s].at = "reply" /\ b.ip = task[s].ip /\ b.host = task[s].host,
         \A s \in Session : task'[s].at = "reply" =>
           \/ task[s] = task'[s]
           \/ task'[s].ip \in Keys(ipToHost)' /\ ipToHost'.val[task'[s].ip] = task'[s].host
  PROVE  AnswersHold'
<1> SUFFICES ASSUME Few'
             PROVE  /\ \A b \in believed' : ~ b.old =>
                         b.ip \in Keys(ipToHost)' /\ ipToHost'.val[b.ip] = b.host
                    /\ \A s \in Session : task'[s].at = "reply" =>
                         task'[s].ip \in Keys(ipToHost)' /\ ipToHost'.val[task'[s].ip] = task'[s].host
  BY DEF AnswersHold, Few
<1>1. /\ \A b \in believed : ~ b.old => b.ip \in Keys(ipToHost) /\ ipToHost.val[b.ip] = b.host
      /\ \A s \in Session : task[s].at = "reply" =>
           task[s].ip \in Keys(ipToHost) /\ ipToHost.val[task[s].ip] = task[s].host
  BY DEF AnswersHold, Few
<1> QED
  BY <1>1

\* A new pair is added and, as long as few names were asked for, none is lost.
LEMMA ProbeFreeAnswers ==
  ASSUME AInv, NEW s \in Session, ProbeFree(s)
  PROVE  Recorded' /\ AnswersHold'
<1> DEFINE h    == task[s].host
           ip   == FakeIp(Candidate)
           gone == Evicted(hostToIp, h, PoolSize)
           lost == {hostToIp.val[g] : g \in gone}
           left == Without(ipToHost, lost)
<1>1. /\ h \in served /\ task[s].at = "search" /\ task \in [Session -> {task[r] : r \in Session}]
      /\ ip \in Pool /\ ip \notin Keys(ipToHost)
  BY CandidateFact DEF AInv, IInv, TypeOK, Recorded, ProbeFree
<1>2. /\ hostToIp' = Push(hostToIp, h, ip, PoolSize)
      /\ ipToHost' = Push(left, ip, h, PoolSize)
      /\ task' = [task EXCEPT ![s] = Query("reply", h, ip)]
      /\ UNCHANGED <<believed, served>>
  BY DEF ProbeFree
<1>3. Keys(left) = Keys(ipToHost) \ lost /\ \A j \in Keys(left) : left.val[j] = ipToHost.val[j]
  BY WithoutFact
<1>4. Evicted(left, ip, PoolSize) = {}
  <2>1. Keys(left) \subseteq Pool \ {ip}
    BY <1>1, <1>3 DEF AInv, IInv, TypeOK
  <2> QED
    BY <2>1, <1>1, RoomFact
<1>5. /\ Keys(ipToHost)' = Keys(left) \cup {ip} /\ ipToHost'.val[ip] = h
      /\ \A j \in Keys(left) \ {ip} : ipToHost'.val[j] = left.val[j]
  <2>1. /\ Keys(Push(left, ip, h, PoolSize))
             = (Keys(left) \ Evicted(left, ip, PoolSize)) \cup {ip}
        /\ Push(left, ip, h, PoolSize).val[ip] = h
        /\ \A j \in Keys(left) \ (Evicted(left, ip, PoolSize) \cup {ip}) :
             Push(left, ip, h, PoolSize).val[j] = left.val[j]
    BY PushFact
  <2> QED
    BY <2>1, <1>2, <1>4
<1>6. Keys(hostToIp)' \subseteq Keys(hostToIp) \cup {h}
  <2>1. Keys(Push(hostToIp, h, ip, PoolSize)) = (Keys(hostToIp) \ gone) \cup {h}
    BY PushFact
  <2> QED
    BY <1>2, <2>1
<1>7. Few => lost = {}
  BY <1>1, RoomForNew DEF AInv
<1>8. task'[s] = Query("reply", h, ip) /\ \A r \in Session \ {s} : task'[r] = task[r]
  BY <1>1, <1>2
<1>9. task'[s].at = "reply" /\ task'[s].host = h /\ task'[s].ip = ip
  BY <1>8 DEF Query
<1> HIDE DEF h, ip, gone, lost, left
<1>10. Recorded'
  BY <1>1, <1>2, <1>6, <1>8, <1>9 DEF AInv, Recorded
<1>11. Few' = Few
  BY <1>2 DEF Few
<1>12. Few => \A j \in Keys(ipToHost) :
                j \in Keys(ipToHost)' /\ ipToHost'.val[j] = ipToHost.val[j]
  BY <1>1, <1>3, <1>5, <1>7
<1>13. AnswersHold'
  BY <1>2, <1>5, <1>8, <1>9, <1>11, <1>12, AnswersKept DEF AInv
<1> QED
  BY <1>10, <1>13

\* The other steps.
LEMMA StepAnswers == AInv /\ [Next]_vars => Recorded' /\ AnswersHold'
<1> SUFFICES ASSUME AInv, [Next]_vars
             PROVE  Recorded' /\ AnswersHold'
  OBVIOUS
<1>0. /\ IInv /\ Recorded /\ AnswersHold
      /\ \A s \in Session : task[s] \in {NoQuery} \cup [at : {"search", "reply"}, host : Host, ip : Ip]
      /\ task \in [Session -> {task[r] : r \in Session}]
  BY DEF AInv, IInv, TypeOK
<1>1. ASSUME NEW s \in Session, NEW h \in Host, Hit(s, h)
      PROVE  Recorded' /\ AnswersHold'
  <2>1. Keys(hostToIp)' = Keys(hostToIp) /\ h \in Keys(hostToIp)
    BY <1>1, TouchFact DEF Hit
  <2>2. /\ task' = [task EXCEPT ![s] = Query("reply", h, hostToIp.val[h])]
        /\ UNCHANGED <<ipToHost, believed, served>>
    BY <1>1 DEF Hit
  <2>3. /\ task'[s].at = "reply" /\ task'[s].host = h /\ task'[s].ip = hostToIp.val[h]
        /\ \A r \in Session \ {s} : task'[r] = task[r]
    BY <1>0, <2>2 DEF Query
  <2>4. hostToIp.val[h] \in Keys(ipToHost) /\ ipToHost.val[hostToIp.val[h]] = h
    BY <1>0, <2>1 DEF IInv, Mirror
  <2>5. Recorded'
    BY <1>0, <2>1, <2>2, <2>3 DEF Recorded
  <2>6. AnswersHold'
    BY <1>0, <2>2, <2>3, <2>4, AnswersKept DEF Few
  <2> QED
    BY <2>5, <2>6
<1>2. ASSUME NEW s \in Session, NEW h \in Host, Miss(s, h)
      PROVE  Recorded' /\ AnswersHold'
  <2>1. /\ task' = [task EXCEPT ![s] = Query("search", h, 0)] /\ served' = served \cup {h}
        /\ UNCHANGED <<hostToIp, ipToHost, believed>>
    BY <1>2 DEF Miss
  <2>2. /\ task'[s].at = "search" /\ task'[s].host = h
        /\ \A r \in Session \ {s} : task'[r] = task[r]
    BY <1>0, <2>1 DEF Query
  <2>3. /\ IsFiniteSet(served')
        /\ Cardinality(served) \in Nat
        /\ Cardinality(served') = Cardinality(served) \/ Cardinality(served') = Cardinality(served) + 1
    BY <1>0, <2>1, FS_AddElement, FS_CardinalityType DEF Recorded
  <2>4. Few' => Few
    BY <2>3, CapacityFact, RangeAssumption DEF Few
  <2>5. Recorded'
    BY <1>0, <2>1, <2>2, <2>3 DEF Recorded
  <2>6. AnswersHold'
    BY <1>0, <2>1, <2>2, <2>4, AnswersKept
  <2> QED
    BY <2>5, <2>6
<1>3. ASSUME NEW s \in Session, ProbeEvict(s)
      PROVE  Recorded' /\ AnswersHold'
  <2>1. task[s].at = "search" /\ Full /\ UNCHANGED <<task, believed, served>>
    BY <1>3 DEF ProbeEvict
  <2>2. ~ Few
    BY <1>0, <2>1, RoomForNew
  <2>3. AnswersHold'
    BY <2>1, <2>2 DEF AnswersHold, Few
  <2>4. PICK ip \in Oldest(ipToHost) : hostToIp' = Without(hostToIp, {ipToHost.val[ip]})
    BY <1>3 DEF ProbeEvict
  <2>5. Keys(hostToIp)' \subseteq Keys(hostToIp)
    BY <2>4, WithoutFact
  <2> QED
    BY <1>0, <2>1, <2>3, <2>5 DEF Recorded
<1>4. ASSUME NEW s \in Session, ProbeNext(s)
      PROVE  Recorded' /\ AnswersHold'
  <2>1. UNCHANGED <<hostToIp, ipToHost, task, believed, served>>
    BY <1>4 DEF ProbeNext
  <2> QED
    BY <1>0, <2>1, AnswersKept DEF Recorded, Few
<1>5. ASSUME NEW s \in Session, Reply(s) \/ ReplyDropped(s)
      PROVE  Recorded' /\ AnswersHold'
  <2>1. /\ task[s].at = "reply" /\ task' = [task EXCEPT ![s] = NoQuery]
        /\ UNCHANGED <<hostToIp, ipToHost, served>>
    BY <1>5 DEF Reply, ReplyDropped
  <2>2. task'[s].at = "idle" /\ \A r \in Session \ {s} : task'[r] = task[r]
    BY <1>0, <2>1 DEF NoQuery
  <2>3. believed' \subseteq believed \cup {[host |-> task[s].host, ip |-> task[s].ip, old |-> FALSE]}
    BY <1>5 DEF Reply, ReplyDropped
  <2>4. Recorded'
    BY <1>0, <2>1, <2>2 DEF Recorded
  <2>5. AnswersHold'
    BY <1>0, <2>1, <2>2, <2>3, AnswersKept DEF Few
  <2> QED
    BY <2>4, <2>5
<1>6. ASSUME NEW b \in believed, Connect(b) \/ Expire(b)
      PROVE  Recorded' /\ AnswersHold'
  <2>1. UNCHANGED <<hostToIp, task, served>> /\ believed' \subseteq believed
    BY <1>6 DEF Connect, Expire
  <2>2. \A j \in Keys(ipToHost) : j \in Keys(ipToHost)' /\ ipToHost'.val[j] = ipToHost.val[j]
    BY <1>6, TouchFact DEF Connect, Expire
  <2> QED
    BY <1>0, <2>1, <2>2, AnswersKept DEF Recorded, Few
<1>7. ASSUME NEW on \in BOOLEAN, Restart(on)
      PROVE  Recorded' /\ AnswersHold'
  <2>1. /\ \A s \in Session : task'[s].at = "idle"
        /\ \A b \in believed' : b.old
        /\ served' = {} /\ Keys(hostToIp)' = {}
    BY <1>7, EmptyFact DEF Restart, NoQuery
  <2> QED
    BY <2>1, FS_EmptySet DEF Recorded, AnswersHold
<1>8. CASE UNCHANGED vars
  BY <1>0, <1>8, AnswersKept DEF vars, Recorded, Few
<1> QED
  BY <1>1, <1>2, <1>3, <1>4, <1>5, <1>6, <1>7, <1>8, ProbeFreeAnswers DEF Next, Probe

\* An answer of the current backend run leads back to its name until the run has
\* been asked for more names than the range has addresses, for every number of
\* sessions and every size of the range and of the pool.
THEOREM AnswersLeadBack == Spec => []AnswersHold
<1>1. Init => Recorded /\ AnswersHold
  BY EmptyFact, FS_EmptySet DEF Init, Recorded, AnswersHold, NoQuery
<1>2. IInv /\ Recorded /\ AnswersHold /\ [Next]_vars => (Recorded /\ AnswersHold)'
  BY StepAnswers DEF AInv
<1> QED
  BY <1>1, <1>2, Invariance, PTL DEF Spec
=============================================================================
