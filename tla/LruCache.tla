------------------------------ MODULE LruCache ------------------------------
(***************************************************************************)
(* The caches of the `lru` crate, as fake_dns.rs and udp_manager.rs use    *)
(* them: a map whose keys are also ordered by recency of use.              *)
(*                                                                         *)
(* `val` maps the keys to their values and `rank` orders the keys: the     *)
(* least recently used key has rank 0 and every use moves a key to the     *)
(* greatest rank.  The capacity, which the crate stores in the cache, is a *)
(* parameter of Push.                                                      *)
(***************************************************************************)
LOCAL INSTANCE Naturals
LOCAL INSTANCE FiniteSets

EmptyLru == [val |-> [k \in {} |-> 0], rank |-> [k \in {} |-> 0]]

Keys(c) == DOMAIN c.val

Size(c) == Cardinality(Keys(c))

\* The caches with keys in K and values in V.
LruCaches(K, V) ==
  {[val |-> f, rank |-> r] : f \in UNION {[D -> V] : D \in SUBSET K},
                             r \in UNION {[D -> 0 .. Cardinality(K)] : D \in SUBSET K}}

\* LruCache::pop for every key of S: the others keep their order.
Without(c, S) ==
  LET left == Keys(c) \ S
  IN  [val  |-> [j \in left |-> c.val[j]],
       rank |-> [j \in left |->
                   Cardinality({i \in left : c.rank[i] < c.rank[j]})]]

\* k gets the value v and becomes the most recently used key.
Store(c, k, v) ==
  LET rest == Without(c, {k})
  IN  [val  |-> [j \in Keys(rest) \cup {k} |-> IF j = k THEN v ELSE rest.val[j]],
       rank |-> [j \in Keys(rest) \cup {k} |->
                   IF j = k THEN Size(rest) ELSE rest.rank[j]]]

\* LruCache::get and LruCache::get_mut: finding a key is a use of it.
Touch(c, k) == IF k \in Keys(c) THEN Store(c, k, c.val[k]) ELSE c

\* The key LruCache::pop_lru takes out, as a set: empty with the cache.
Oldest(c) == {k \in Keys(c) : \A j \in Keys(c) : c.rank[k] <= c.rank[j]}

\* What the insertion of k drives out of a cache with room for `cap` keys.
Evicted(c, k, cap) ==
  IF k \notin Keys(c) /\ Size(c) >= cap THEN Oldest(c) ELSE {}

\* LruCache::push and LruCache::put change the cache alike.  They differ in
\* what they hand back: push the entry it drove out, put only the former
\* value of k itself, so that an entry driven out by put is dropped unseen.
Push(c, k, v, cap) == Store(Without(c, Evicted(c, k, cap)), k, v)
=============================================================================
