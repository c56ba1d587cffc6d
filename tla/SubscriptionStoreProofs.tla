----------------------- MODULE SubscriptionStoreProofs -----------------------
(***************************************************************************)
(* The safety of the subscription store, for every number of subscriptions *)
(* and of calls that are pending at once.                                  *)
(***************************************************************************)
EXTENDS SubscriptionStore, SequenceTheorems, FiniteSetTheorems, TLAPS

-----------------------------------------------------------------------------
(* The inductive invariant *)

Subscription == [id : Nat, active : BOOLEAN]

Subs == Seq(Subscription)

Call == [op : {"idle", "add", "update", "save", "saved"},
         id : Nat, active : BOOLEAN, busy : BOOLEAN]

Instance == [at : {"none", "read", "loaded", "recounted", "fetching", "fetched"}, list : Subs]

Types ==
  /\ list \in Subs /\ cache \in Subs /\ disk \in Subs
  /\ other \in Instance
  /\ jobs \in [Job -> Call]
  /\ used \in Nat

\* No two subscriptions of a list have the same id.
Unique(subs) == \A i, k \in DOMAIN subs : subs[i].id = subs[k].id => i = k

\* At most one is active, and at least one.
AtMostOne(subs) == \A i, k \in Actives(subs) : i = k
SomeOne(subs) == subs = <<>> \/ Actives(subs) # {}

\* The calls that add a subscription.
Adding(j) == jobs[j].op = "add"

\* Ids are new: of the lists, each has its ids once, and no list has the id of
\* a subscription that is still being added.
FreshIds ==
  /\ \A subs \in Lists : Unique(subs) /\ Ids(subs) \subseteq 1 .. used
  /\ \A j \in Job : Adding(j) =>
       /\ jobs[j].id \in 1 .. used
       /\ \A subs \in Lists : jobs[j].id \notin Ids(subs)
       /\ \A k \in Job : Adding(k) /\ jobs[k].id = jobs[j].id => k = j

\* The one that is being added was found to be active because the list was
\* empty, and then the list is empty until it joins.
OneInv == "overlap" \notin slips =>
  /\ \A subs \in Lists : AtMostOne(subs)
  /\ \A j, k \in Job : Adding(j) /\ Adding(k) => j = k
  /\ \A j \in Job : Adding(j) /\ jobs[j].active => list = <<>>

SomeInv == slips \cap {"emptied", "gone card"} = {} => \A subs \in Lists : SomeOne(subs)

\* What the preferences, the disk and the cards do not show yet, a pending call
\* or the other instance will bring there, or could not.
StoredInv ==
  /\ "undone" \notin slips /\ missed \cap {"load", "put"} = {} => cache = list
  /\ \/ disk = cache
     \/ "flush" \in missed
     \/ \E j \in Job : jobs[j].op = "save"
     \/ other.at \in {"recounted", "fetched"}
  /\ cards = Ids(list) \/ \E j \in Job : jobs[j].op \in {"save", "saved"}

IInv == Types /\ FreshIds /\ OneInv /\ SomeInv /\ StoredInv /\ FilesOwned

-----------------------------------------------------------------------------
(* What the operations do to a list *)

\* A sequence without one of its elements: the later ones move up.
LEMMA RemoveAtFact ==
  ASSUME NEW S, NEW s \in Seq(S), NEW n \in 1 .. Len(s)
  PROVE  /\ RemoveAt(s, n) \in Seq(S)
         /\ Len(RemoveAt(s, n)) = Len(s) - 1
         /\ \A i \in 1 .. Len(s) - 1 : RemoveAt(s, n)[i] = s[IF i < n THEN i ELSE i + 1]
<1> DEFINE a == SubSeq(s, 1, n - 1)
           b == SubSeq(s, n + 1, Len(s))
<1>1. n \in Nat /\ 1 <= n /\ n <= Len(s) /\ Len(s) \in Nat
  BY LenProperties
<1>2. a \in Seq(S) /\ Len(a) = n - 1 /\ \A i \in 1 .. n - 1 : a[i] = s[i]
  <2>1. \A i \in 1 .. n - 1 : i \in 1 .. Len(s)
    BY <1>1
  <2> QED
    BY <1>1, <2>1, SubSeqProperties, ElementOfSeq
<1>3. /\ b \in Seq(S) /\ Len(b) = Len(s) - n
      /\ \A i \in 1 .. Len(s) - n : b[i] = s[n + i]
  BY <1>1, SubSeqProperties, ElementOfSeq
<1> HIDE DEF a, b
<1>4. /\ a \o b \in Seq(S) /\ Len(a \o b) = Len(a) + Len(b)
      /\ \A i \in 1 .. Len(a) + Len(b) : (a \o b)[i] = IF i <= Len(a) THEN a[i] ELSE b[i - Len(a)]
  BY <1>2, <1>3, ConcatProperties
<1>5. RemoveAt(s, n) = a \o b
  BY DEF RemoveAt, a, b
<1>6. Len(a) + Len(b) = Len(s) - 1
  BY <1>1, <1>2, <1>3
<1>7. ASSUME NEW i \in 1 .. Len(s) - 1
      PROVE  RemoveAt(s, n)[i] = s[IF i < n THEN i ELSE i + 1]
  <2>1. CASE i < n
    <3>1. i \in 1 .. n - 1 /\ i <= Len(a)
      BY <1>1, <1>2, <2>1
    <3> QED
      BY <1>2, <1>4, <1>5, <1>6, <2>1, <3>1
  <2>2. CASE ~ (i < n)
    <3>1. i - (n - 1) \in 1 .. Len(s) - n /\ ~ (i <= n - 1) /\ n + (i - (n - 1)) = i + 1
      BY <1>1, <2>2
    <3>2. (a \o b)[i] = b[i - (n - 1)]
      BY <1>2, <1>4, <1>6, <3>1
    <3> QED
      BY <1>3, <1>5, <2>2, <3>1, <3>2
  <2> QED
    BY <2>1, <2>2
<1> QED
  BY <1>4, <1>5, <1>6, <1>7

\* A subscription that is in the list is found.
LEMMA AtFact ==
  ASSUME list \in Subs, Unique(list), NEW id \in Ids(list)
  PROVE  At(id) \in 1 .. Len(list) /\ list[At(id)].id = id
<1> DEFINE I == {i \in 1 .. Len(list) : list[i].id = id}
<1>1. PICK k \in 1 .. Len(list) : list[k].id = id
  BY DEF Ids, Subs
<1>2. k \in I /\ \A i \in I : k =< i
  BY <1>1 DEF Unique, Subs
<1>3. At(id) = Min(I)
  BY <1>2 DEF At, SelectInSeq
<1>4. Min(I) \in I
  BY <1>2 DEF Min
<1> QED
  BY <1>3, <1>4

\* An addition to a list.
LEMMA AddedFact ==
  ASSUME NEW subs \in Subs, NEW id \in Nat, NEW active \in BOOLEAN
  PROVE  LET new == Append(subs, Sub(id, active))
         IN /\ new \in Subs
            /\ Ids(new) = Ids(subs) \cup {id}
            /\ Unique(subs) /\ id \notin Ids(subs) => Unique(new)
            /\ AtMostOne(subs) /\ (active => subs = <<>>) => AtMostOne(new)
            /\ SomeOne(subs) /\ (subs = <<>> => active) => SomeOne(new)
<1> DEFINE new == Append(subs, Sub(id, active))
           n == Len(subs) + 1
<1>1. Sub(id, active) \in Subscription
  BY DEF Sub, Subscription
<1>2. /\ new \in Subs /\ Len(new) = n /\ Len(subs) \in Nat
      /\ new[n] = Sub(id, active)
      /\ \A i \in 1 .. Len(subs) : new[i] = subs[i]
  BY <1>1, AppendProperties, LenProperties DEF Subs
<1>3. DOMAIN subs = 1 .. Len(subs) /\ DOMAIN new = 1 .. n
  BY <1>2, LenProperties DEF Subs
<1>4. Sub(id, active).id = id /\ Sub(id, active).active = active
  BY DEF Sub
<1> HIDE DEF new
<1>5. Ids(new) = Ids(subs) \cup {id}
  <2>1. \A i \in DOMAIN new : new[i].id \in Ids(subs) \cup {id}
    BY <1>2, <1>3, <1>4 DEF Ids
  <2>2. \A i \in DOMAIN subs : i \in DOMAIN new /\ new[i].id = subs[i].id
    BY <1>2, <1>3
  <2>3. n \in DOMAIN new /\ new[n].id = id
    BY <1>2, <1>3, <1>4
  <2> QED
    BY <2>1, <2>2, <2>3 DEF Ids
<1>6. Unique(subs) /\ id \notin Ids(subs) => Unique(new)
  BY <1>2, <1>3, <1>4 DEF Unique, Ids
<1>7. AtMostOne(subs) /\ (active => subs = <<>>) => AtMostOne(new)
  <2>1. ASSUME ~ active, NEW i \in Actives(new)
        PROVE  i \in Actives(subs)
    BY <1>2, <1>3, <1>4, <2>1 DEF Actives
  <2>2. CASE subs = <<>>
    BY <1>2, <1>3, <2>2 DEF AtMostOne, Actives
  <2> QED
    BY <2>1, <2>2 DEF AtMostOne
<1>8. SomeOne(subs) /\ (subs = <<>> => active) => SomeOne(new)
  <2>1. ASSUME active
        PROVE  n \in Actives(new)
    <3>1. n \in DOMAIN new /\ new[n] = Sub(id, TRUE)
      BY <1>2, <1>3, <2>1
    <3> QED
      BY <3>1 DEF Actives, Sub
  <2>2. Actives(subs) \subseteq Actives(new)
    BY <1>2, <1>3 DEF Actives
  <2> QED
    BY <2>1, <2>2 DEF SomeOne
<1> QED
  BY <1>2, <1>5, <1>6, <1>7, <1>8 DEF new

\* The choice of a subscription.
Chosen(subs, id) == [i \in DOMAIN subs |-> [subs[i] EXCEPT !.active = (subs[i].id = id)]]

LEMMA ChosenFact ==
  ASSUME NEW subs \in Subs, NEW id
  PROVE  /\ Chosen(subs, id) \in Subs
         /\ Ids(Chosen(subs, id)) = Ids(subs)
         /\ Unique(subs) => Unique(Chosen(subs, id)) /\ AtMostOne(Chosen(subs, id))
         /\ id \in Ids(subs) \/ subs = <<>> => SomeOne(Chosen(subs, id))
         /\ subs = <<>> => Chosen(subs, id) = <<>>
<1> DEFINE new == Chosen(subs, id)
<1>1. DOMAIN new = DOMAIN subs /\ DOMAIN subs = 1 .. Len(subs) /\ Len(subs) \in Nat
  BY LenProperties DEF Subs, Chosen
<1>2. ASSUME NEW i \in DOMAIN subs
      PROVE  new[i] \in Subscription /\ new[i].id = subs[i].id /\ new[i].active = (subs[i].id = id)
  <2>1. subs[i] \in Subscription
    BY <1>1, ElementOfSeq DEF Subs
  <2> QED
    BY <2>1 DEF Subscription, Chosen
<1>3. new \in Subs
  <2>1. new \in [1 .. Len(subs) -> Subscription]
    BY <1>1, <1>2 DEF Chosen
  <2> QED
    BY <1>1, <2>1 DEF Subs
<1>4. subs = <<>> => new = <<>>
  BY <1>1 DEF Chosen
<1> HIDE DEF new
<1>5. Ids(new) = Ids(subs)
  BY <1>1, <1>2 DEF Ids
<1>6. ASSUME Unique(subs)
      PROVE  Unique(new) /\ AtMostOne(new)
  BY <1>1, <1>2, <1>6 DEF Unique, AtMostOne, Actives
<1>7. ASSUME id \in Ids(subs)
      PROVE  SomeOne(new)
  <2>1. PICK i \in DOMAIN subs : subs[i].id = id
    BY <1>7 DEF Ids
  <2>2. i \in Actives(new)
    BY <1>1, <1>2, <2>1 DEF Actives
  <2> QED
    BY <2>2 DEF SomeOne
<1> QED
  BY <1>3, <1>4, <1>5, <1>6, <1>7 DEF new, SomeOne

\* A deletion from the list.
LEMMA WithoutFact ==
  ASSUME list \in Subs, Unique(list), NEW id \in Ids(list)
  PROVE  /\ Without(id) \in Subs
         /\ Ids(Without(id)) = Ids(list) \ {id}
         /\ Unique(Without(id))
         /\ AtMostOne(list) => AtMostOne(Without(id))
         /\ SomeOne(list) => SomeOne(Without(id))
<1> DEFINE n == At(id)
           left == RemoveAt(list, n)
           up(i) == IF i < n THEN i ELSE i + 1
<1>1. n \in 1 .. Len(list) /\ list[n].id = id /\ Len(list) \in Nat /\ DOMAIN list = 1 .. Len(list)
  BY AtFact, LenProperties DEF Subs
<1>2. left \in Subs /\ Len(left) = Len(list) - 1 /\ \A i \in 1 .. Len(list) - 1 : left[i] = list[up(i)]
  BY <1>1, RemoveAtFact DEF Subs
<1>3. DOMAIN left = 1 .. Len(list) - 1 /\ \A i \in DOMAIN left : left[i] \in Subscription
  BY <1>2, LenProperties, ElementOfSeq DEF Subs
<1>4. Without(id) = IF list[n].active /\ left # <<>> THEN [left EXCEPT ![1].active = TRUE] ELSE left
  BY DEF Without
<1> HIDE DEF n, left
<1>5. ASSUME NEW i \in DOMAIN left
      PROVE  up(i) \in DOMAIN list /\ up(i) # n /\ left[i] = list[up(i)]
  BY <1>1, <1>2, <1>3
<1>6. ASSUME NEW i \in DOMAIN left, NEW k \in DOMAIN left, up(i) = up(k)
      PROVE  i = k
  BY <1>1, <1>3, <1>6
<1>7. ASSUME NEW k \in DOMAIN list, k # n
      PROVE  \E i \in DOMAIN left : left[i] = list[k]
  <2>1. CASE k < n
    <3>1. k \in DOMAIN left /\ up(k) = k
      BY <1>1, <1>3, <2>1
    <3> QED
      BY <1>5, <3>1
  <2>2. CASE ~ (k < n)
    <3>1. k - 1 \in DOMAIN left /\ up(k - 1) = k
      BY <1>1, <1>3, <1>7, <2>2
    <3> QED
      BY <1>5, <3>1
  <2> QED
    BY <2>1, <2>2
<1> HIDE DEF up
<1>8. Ids(left) = Ids(list) \ {id}
  <2>1. \A i \in DOMAIN left : left[i].id \in Ids(list) \ {id}
    BY <1>1, <1>5 DEF Ids, Unique
  <2>2. \A k \in DOMAIN list : list[k].id # id => \E i \in DOMAIN left : left[i].id = list[k].id
    BY <1>1, <1>7
  <2> QED
    BY <2>1, <2>2 DEF Ids
<1>9. Unique(left)
  BY <1>5, <1>6 DEF Unique
<1>10. CASE list[n].active /\ left # <<>>
  <2> DEFINE new == [left EXCEPT ![1].active = TRUE]
  <2>1. 1 \in DOMAIN left
    BY <1>1, <1>2, <1>3, <1>10, EmptySeq DEF Subs
  <2>2. DOMAIN new = DOMAIN left /\ \A i \in DOMAIN left : new[i] = [left[i] EXCEPT !.active = (i = 1 \/ @)]
    BY <1>3, <2>1 DEF Subscription
  <2>3. \A i \in DOMAIN left : new[i] \in Subscription /\ new[i].id = left[i].id
    BY <1>3, <2>2 DEF Subscription
  <2>4. new \in Subs
    <3>1. left \in [1 .. Len(list) - 1 -> Subscription]
      BY <1>2, <1>3 DEF Subs
    <3>2. new \in [1 .. Len(list) - 1 -> Subscription]
      BY <1>3, <2>2, <2>3, <3>1
    <3>3. Len(list) - 1 \in Nat
      BY <1>1
    <3> HIDE DEF new
    <3> QED
      BY <3>2, <3>3, SeqDef DEF Subs
  <2>5. 1 \in Actives(new) /\ \A i \in Actives(new) : i = 1 \/ i \in Actives(left)
    BY <1>3, <2>1, <2>2 DEF Subscription, Actives
  <2> HIDE DEF new
  <2>6. Ids(new) = Ids(left) /\ Unique(new)
    BY <1>9, <2>2, <2>3 DEF Ids, Unique
  <2>7. AtMostOne(list) => AtMostOne(new)
    <3>1. n \in Actives(list) /\ \A i \in Actives(left) : up(i) \in Actives(list) /\ up(i) # n
      BY <1>1, <1>5, <1>10 DEF Actives
    <3> QED
      BY <2>5, <3>1 DEF AtMostOne
  <2>8. SomeOne(new)
    BY <2>5 DEF SomeOne
  <2> QED
    BY <1>4, <1>8, <1>10, <2>4, <2>6, <2>7, <2>8 DEF new
<1>11. CASE ~ (list[n].active /\ left # <<>>)
  <2>1. \A i \in Actives(left) : i \in DOMAIN left /\ up(i) \in Actives(list)
    BY <1>5 DEF Actives
  <2>2. AtMostOne(list) => AtMostOne(left)
    BY <1>6, <2>1 DEF AtMostOne
  <2>3. ASSUME SomeOne(list)
        PROVE  SomeOne(left)
    <3>1. CASE left = <<>>
      BY <3>1 DEF SomeOne
    <3>2. CASE ~ list[n].active
      <4>1. PICK k \in DOMAIN list : list[k].active
        BY <1>1, <2>3 DEF SomeOne, Actives
      <4>2. PICK i \in DOMAIN left : left[i] = list[k]
        BY <1>7, <3>2, <4>1
      <4>3. i \in Actives(left)
        BY <4>1, <4>2 DEF Actives
      <4> QED
        BY <4>3 DEF SomeOne
    <3> QED
      BY <1>11, <3>1, <3>2
  <2> QED
    BY <1>2, <1>4, <1>8, <1>9, <1>11, <2>2, <2>3
<1> QED
  BY <1>10, <1>11

-----------------------------------------------------------------------------
(* What a step does to the lists *)

\* A call that adds after a step did so before it, with the same id.
AddsKept == \A j \in Job : Adding(j)' =>
  Adding(j) /\ jobs'[j].id = jobs[j].id /\ jobs'[j].active = jobs[j].active

ListsInv == FreshIds /\ OneInv /\ SomeInv

\* The empty list.
LEMMA EmptyFact == Ids(<<>>) = {} /\ Unique(<<>>) /\ AtMostOne(<<>>) /\ SomeOne(<<>>)
  BY DEF Ids, Unique, AtMostOne, Actives, SomeOne

\* A step that makes no new list but the empty one, and does not touch the list of the page while
\* something is added.
LEMMA ListsShared ==
  ASSUME ListsInv, Lists' \subseteq Lists \cup {<<>>}, AddsKept, slips \subseteq slips',
         used \in Nat, used' \in Nat, used <= used',
         list' = list \/ \A j \in Job : ~ Adding(j)'
  PROVE  ListsInv'
<1>1. 1 .. used \subseteq 1 .. used'
  OBVIOUS
<1>2. FreshIds'
  <2>1. ASSUME NEW subs \in Lists'
        PROVE  Unique(subs) /\ Ids(subs) \subseteq 1 .. used'
    BY <1>1, EmptyFact DEF ListsInv, FreshIds
  <2>2. ASSUME NEW j \in Job, Adding(j)'
        PROVE  /\ jobs'[j].id \in 1 .. used'
               /\ \A subs \in Lists' : jobs'[j].id \notin Ids(subs)
               /\ \A k \in Job : Adding(k)' /\ jobs'[k].id = jobs'[j].id => k = j
    BY <1>1, <2>2, EmptyFact DEF ListsInv, FreshIds, AddsKept
  <2> QED
    BY <2>1, <2>2 DEF FreshIds
<1>3. OneInv'
  BY EmptyFact DEF ListsInv, OneInv, AddsKept
<1>4. SomeInv'
  BY EmptyFact DEF ListsInv, SomeInv
<1> QED
  BY <1>2, <1>3, <1>4 DEF ListsInv

\* A step that makes a new list of the page.
LEMMA ListReplaced ==
  ASSUME ListsInv, Lists' \subseteq Lists \cup {list'}, AddsKept, slips \subseteq slips',
         used' = used,
         Unique(list'), Ids(list') \subseteq 1 .. used,
         \A j \in Job : Adding(j)' => jobs'[j].id \notin Ids(list'),
         "overlap" \notin slips => AtMostOne(list'),
         "overlap" \notin slips => \A j \in Job : Adding(j)' /\ jobs'[j].active => list' = <<>>,
         slips' \cap {"emptied", "gone card"} = {} => SomeOne(list')
  PROVE  ListsInv'
<1>1. FreshIds'
  <2>1. ASSUME NEW subs \in Lists'
        PROVE  Unique(subs) /\ Ids(subs) \subseteq 1 .. used'
    BY DEF ListsInv, FreshIds
  <2>2. ASSUME NEW j \in Job, Adding(j)'
        PROVE  /\ jobs'[j].id \in 1 .. used'
               /\ \A subs \in Lists' : jobs'[j].id \notin Ids(subs)
               /\ \A k \in Job : Adding(k)' /\ jobs'[k].id = jobs'[j].id => k = j
    BY <2>2 DEF ListsInv, FreshIds, AddsKept
  <2> QED
    BY <2>1, <2>2 DEF FreshIds
<1>2. OneInv'
  BY DEF ListsInv, OneInv, AddsKept
<1>3. SomeInv'
  <2> SUFFICES ASSUME slips' \cap {"emptied", "gone card"} = {}, NEW subs \in Lists'
               PROVE  SomeOne(subs)
    BY DEF SomeInv
  <2>1. slips \cap {"emptied", "gone card"} = {}
    OBVIOUS
  <2> QED
    BY <2>1 DEF ListsInv, SomeInv
<1> QED
  BY <1>1, <1>2, <1>3 DEF ListsInv

\* The calls after a step that only changes a call, or begins one.
LEMMA BeginFact ==
  ASSUME Types, NEW j \in Job, NEW op \in {"add", "update"}, NEW id \in Nat, NEW active \in BOOLEAN,
         Begin(j, op, id, active)
  PROVE  /\ jobs' \in [Job -> Call]
         /\ jobs'[j].op = op /\ jobs'[j].id = id /\ jobs'[j].active = active
         /\ \A k \in Job \ {j} : jobs'[k] = jobs[k]
  BY DEF Begin, Types, Call

\* ... that saves the list, or cannot,
LEMMA SaveFact ==
  ASSUME Types, NEW j \in Job, NEW busy \in BOOLEAN, Save(j, busy)
  PROVE  /\ jobs' \in [Job -> Call]
         /\ \/ cache' = list' /\ jobs'[j].op = "save" /\ missed' = missed \ {"load", "put"}
            \/ cache' = cache /\ jobs'[j].op = "saved" /\ missed' = missed \cup {"put"}
         /\ \A k \in Job \ {j} : jobs'[k] = jobs[k]
         /\ AddsKept
<1>1. NoJob \in Call
  BY DEF NoJob, Call
<1>2. ASSUME NEW op \in {"save", "saved"}
      PROVE  /\ [NoJob EXCEPT !.op = op, !.busy = busy] \in Call
             /\ [NoJob EXCEPT !.op = op, !.busy = busy].op = op
  BY <1>1 DEF Call
<1> DEFINE call(op) == [NoJob EXCEPT !.op = op, !.busy = busy]
<1>3. ASSUME NEW op \in {"save", "saved"}, jobs' = [jobs EXCEPT ![j] = call(op)]
      PROVE  /\ jobs' \in [Job -> Call] /\ jobs'[j].op = op
             /\ \A k \in Job \ {j} : jobs'[k] = jobs[k]
             /\ AddsKept
  BY <1>2, <1>3 DEF Types, AddsKept, Adding
<1>4. \/ /\ jobs' = [jobs EXCEPT ![j] = call("save")]
         /\ cache' = list' /\ missed' = missed \ {"load", "put"}
      \/ /\ jobs' = [jobs EXCEPT ![j] = call("saved")]
         /\ cache' = cache /\ missed' = missed \cup {"put"}
  BY DEF Save
<1> HIDE DEF call
<1> QED
  BY <1>3, <1>4

\* ... and that ends one.
LEMMA EndFact ==
  ASSUME Types, NEW j \in Job, jobs' = [jobs EXCEPT ![j] = NoJob]
  PROVE  /\ jobs' \in [Job -> Call]
         /\ jobs'[j].op = "idle"
         /\ \A k \in Job \ {j} : jobs'[k] = jobs[k]
         /\ AddsKept
<1>1. NoJob \in Call /\ NoJob.op = "idle"
  BY DEF NoJob, Call
<1> QED
  BY <1>1 DEF Types, AddsKept, Adding

\* Every step keeps the types.
LEMMA TypesKept == Types /\ FreshIds /\ [Next]_vars => Types'
<1> SUFFICES ASSUME Types, FreshIds, [Next]_vars
             PROVE  Types'
  OBVIOUS
<1>1. ASSUME NEW j \in Job, StartAdd(j)
      PROVE  Types'
  <2>1. used + 1 \in Nat /\ (list = <<>>) \in BOOLEAN
    BY DEF Types
  <2>2. jobs' \in [Job -> Call]
    BY <1>1, <2>1, BeginFact DEF StartAdd
  <2> QED
    BY <1>1, <2>1, <2>2 DEF StartAdd, Types, storedVars
<1>2. ASSUME NEW j \in Job, FetchedAdd(j)
      PROVE  Types'
  <2>1. jobs[j].id \in Nat /\ jobs[j].active \in BOOLEAN
    BY DEF Types, Call
  <2>2. list' \in Subs
    BY <1>2, <2>1, AddedFact DEF FetchedAdd, Types
  <2>3. jobs' \in [Job -> Call] /\ cache' \in {list', cache}
    BY <1>2, SaveFact DEF FetchedAdd
  <2> QED
    BY <1>2, <2>2, <2>3 DEF FetchedAdd, Types
<1>3. ASSUME NEW j \in Job, NEW id \in Id, StartUpdate(j, id)
      PROVE  Types'
  <2>1. id \in Nat
    BY DEF Id
  <2>2. jobs' \in [Job -> Call]
    BY <1>3, <2>1, BeginFact DEF StartUpdate, Types, storedVars
  <2> QED
    BY <1>3, <2>2 DEF StartUpdate, Types, storedVars
<1>4. ASSUME NEW j \in Job, FetchedUpdate(j)
      PROVE  Types'
  BY <1>4, SaveFact DEF FetchedUpdate, Types
<1>5. ASSUME NEW j \in Job, FetchFails(j) \/ FetchedProviders(j)
      PROVE  Types'
  BY <1>5, EndFact DEF FetchFails, FetchedProviders, Types, pageVars, storedVars
<1>6. ASSUME NEW j \in Job, NEW id \in Id, Delete(j, id)
      PROVE  Types'
  <2>1. CASE id \in Ids(list)
    <3>1. list' \in Subs
      BY <1>6, <2>1, WithoutFact DEF Delete, Types, FreshIds, Lists
    <3>2. jobs' \in [Job -> Call] /\ cache' \in {list', cache}
      BY <1>6, <2>1, SaveFact DEF Delete
    <3> QED
      BY <1>6, <3>1, <3>2 DEF Delete, Types
  <2>2. CASE id \notin Ids(list)
    BY <1>6, <2>2 DEF Delete, Types
  <2> QED
    BY <2>1, <2>2
<1>7. ASSUME NEW j \in Job, NEW id \in Id, SetActive(j, id)
      PROVE  Types'
  <2>1. list' \in Subs
    <3>1. list' = Chosen(list, id)
      BY <1>7 DEF SetActive, Chosen
    <3> QED
      BY <3>1, ChosenFact DEF Types
  <2>2. jobs' \in [Job -> Call] /\ cache' \in {list', cache}
    BY <1>7, SaveFact DEF SetActive
  <2> QED
    BY <1>7, <2>1, <2>2 DEF SetActive, Types
<1>8. ASSUME NEW j \in Job, NEW id \in Id, Edit(j, id)
      PROVE  Types'
  BY <1>8, SaveFact DEF Edit, Types
<1>9. ASSUME NEW j \in Job, Flush(j)
      PROVE  Types'
  BY <1>9 DEF Flush, FlushStore, Types, Call
<1>10. ASSUME NEW j \in Job, Refresh(j)
       PROVE  Types'
  BY <1>10, EndFact DEF Refresh, Types, storedVars
<1>11. CASE OtherReads
  BY <1>11 DEF OtherReads, Types, Instance, pageVars, storedVars
<1>12. CASE OtherLoads
  BY <1>12 DEF OtherLoads, Types, Instance, pageVars, storedVars
<1>13. CASE OtherFetches
  BY <1>13 DEF OtherFetches, Types, Instance, pageVars, storedVars
<1>14. NoOther \in Instance /\ <<>> \in Subs
  <2>1. <<>> \in Subs
    BY EmptySeq DEF Subs
  <2> QED
    BY <2>1 DEF NoOther, Instance
<1>15. CASE OtherFetched \/ OtherProviders
  BY <1>14, <1>15 DEF OtherFetched, OtherProviders, Types, Instance, pageVars, storedVars
<1>16. CASE OtherFlushes
  BY <1>14, <1>16 DEF OtherFlushes, FlushStore, Types, Instance, pageVars, storedVars
<1>17. CASE OtherEnds
  BY <1>14, <1>17 DEF OtherEnds, Types, Instance, pageVars, storedVars
<1>18. CASE Restart
  BY <1>14, <1>18 DEF Restart, Types, NoJob, Call
<1>19. CASE UNCHANGED vars
  BY <1>19 DEF Types, vars, storedVars
<1> QED
  BY <1>1, <1>2, <1>3, <1>4, <1>5, <1>6, <1>7, <1>8, <1>9, <1>10, <1>11, <1>12, <1>13, <1>15,
     <1>16, <1>17, <1>18, <1>19 DEF Next

-----------------------------------------------------------------------------
(* What no step undoes *)

\* The lists keep their ids unique, and with the exceptions that slips names,
\* one subscription active.
LEMMA ListsKept == Types /\ ListsInv /\ [Next]_vars => ListsInv'
<1> SUFFICES ASSUME Types, ListsInv, [Next]_vars
             PROVE  ListsInv'
  OBVIOUS
<1>a. used \in Nat /\ Types'
  BY TypesKept DEF ListsInv, Types
<1>1. ASSUME NEW j \in Job, StartAdd(j)
      PROVE  ListsInv'
  <2> DEFINE empty == list = <<>>
  <2>0. empty \in BOOLEAN /\ used + 1 \in Nat /\ Begin(j, "add", used + 1, empty)
    BY <1>1, <1>a DEF StartAdd
  <2> HIDE DEF empty
  <2>1. /\ jobs'[j].op = "add" /\ jobs'[j].id = used + 1 /\ jobs'[j].active = empty
        /\ \A k \in Job \ {j} : jobs'[k] = jobs[k]
    BY <2>0, BeginFact
  <2>2. Lists' = Lists /\ used' = used + 1 /\ list' = list /\ slips \subseteq slips'
    BY <1>1 DEF StartAdd, Lists, storedVars
  <2>3. jobs[j].op = "idle" /\ jobs'[j].op = "add" /\ jobs'[j].id = used + 1
    BY <1>1, <2>1 DEF StartAdd
  <2>4. FreshIds'
    <3>1. 1 .. used \subseteq 1 .. used' /\ used + 1 \in 1 .. used' /\ used + 1 \notin 1 .. used
      BY <1>a, <2>2
    <3>2. ASSUME NEW subs \in Lists'
          PROVE  Unique(subs) /\ Ids(subs) \subseteq 1 .. used' /\ used + 1 \notin Ids(subs)
      BY <2>2, <3>1 DEF ListsInv, FreshIds
    <3>3. ASSUME NEW k \in Job \ {j}, Adding(k)'
          PROVE  /\ jobs'[k].id \in 1 .. used
                 /\ \A subs \in Lists' : jobs'[k].id \notin Ids(subs)
                 /\ \A i \in Job \ {j} : Adding(i)' /\ jobs'[i].id = jobs'[k].id => i = k
      BY <2>1, <2>2, <3>3 DEF ListsInv, FreshIds, Adding
    <3> QED
      BY <2>3, <3>1, <3>2, <3>3 DEF FreshIds
  <2>5. OneInv'
    <3>1. ASSUME "overlap" \notin slips'
          PROVE  "overlap" \notin slips /\ \A k \in Job : ~ Adding(k)
      BY <1>1, <3>1 DEF StartAdd, Adding
    <3>2. jobs'[j].active => list' = <<>>
      BY <2>1, <2>2 DEF empty
    <3> QED
      BY <2>1, <2>2, <3>1, <3>2 DEF ListsInv, OneInv, Adding
  <2>6. SomeInv'
    BY <2>2 DEF ListsInv, SomeInv
  <2> QED
    BY <2>4, <2>5, <2>6 DEF ListsInv
<1>2. ASSUME NEW j \in Job, FetchedAdd(j)
      PROVE  ListsInv'
  <2> DEFINE id == jobs[j].id
             active == jobs[j].active
  <2>1. Adding(j) /\ id \in Nat /\ active \in BOOLEAN /\ list \in Subs
    BY <1>2 DEF FetchedAdd, Types, Call, Adding
  <2>2. /\ list' = Append(list, Sub(id, active)) /\ used' = used /\ UNCHANGED <<disk, other>>
        /\ slips' = IF list = <<>> /\ ~ active THEN slips \cup {"emptied"} ELSE slips
    BY <1>2 DEF FetchedAdd
  <2>3. cache' \in {list', cache} /\ AddsKept /\ ~ Adding(j)'
    BY <1>2, SaveFact DEF FetchedAdd, Adding
  <2>4. Lists' \subseteq Lists \cup {list'}
    BY <2>2, <2>3 DEF Lists
  <2>5. list \in Lists
    BY DEF Lists
  <2>6. id \in 1 .. used /\ id \notin Ids(list) /\ Unique(list) /\ Ids(list) \subseteq 1 .. used
    BY <2>1, <2>5 DEF ListsInv, FreshIds
  <2>7. Ids(list') = Ids(list) \cup {id} /\ Unique(list')
    BY <2>1, <2>2, <2>6, AddedFact
  <2>8. \A k \in Job : Adding(k)' => jobs'[k].id \notin Ids(list')
    BY <2>1, <2>3, <2>5, <2>7 DEF ListsInv, FreshIds, AddsKept
  <2>9. "overlap" \notin slips => AtMostOne(list')
    BY <2>1, <2>2, <2>5, AddedFact DEF ListsInv, OneInv
  <2>10. "overlap" \notin slips => \A k \in Job : ~ Adding(k)'
    BY <2>1, <2>3 DEF ListsInv, OneInv, AddsKept
  <2>11. slips' \cap {"emptied", "gone card"} = {} => SomeOne(list')
    BY <2>1, <2>2, <2>5, AddedFact DEF ListsInv, SomeInv
  <2> HIDE DEF id, active
  <2> QED
    BY <2>2, <2>3, <2>4, <2>6, <2>7, <2>8, <2>9, <2>10, <2>11, ListReplaced
<1>3. ASSUME NEW j \in Job, NEW id \in Id, StartUpdate(j, id)
      PROVE  ListsInv'
  <2>1. Lists' = Lists /\ UNCHANGED <<list, used, slips>>
    BY <1>3 DEF StartUpdate, Lists, storedVars
  <2>2. AddsKept
    <3>1. CASE id \in Ids(list)
      <4> id \in Nat
        BY DEF Id
      <4>1. Begin(j, "update", id, FALSE)
        BY <1>3, <3>1 DEF StartUpdate
      <4>2. jobs'[j].op = "update" /\ \A k \in Job \ {j} : jobs'[k] = jobs[k]
        BY <4>1, BeginFact
      <4> QED
        BY <4>2 DEF AddsKept, Adding
    <3>2. CASE id \notin Ids(list)
      BY <1>3, <3>2 DEF StartUpdate, AddsKept, Adding
    <3> QED
      BY <3>1, <3>2
  <2> QED
    BY <1>a, <2>1, <2>2, ListsShared
<1>4. ASSUME NEW j \in Job, FetchedUpdate(j)
      PROVE  ListsInv'
  <2>1. AddsKept /\ cache' \in {list', cache}
    BY <1>4, SaveFact DEF FetchedUpdate
  <2>2. Lists' \subseteq Lists /\ list' = list /\ used' = used /\ slips \subseteq slips'
    BY <1>4, <2>1 DEF FetchedUpdate, Lists
  <2> QED
    BY <1>a, <2>1, <2>2, ListsShared
<1>5. ASSUME NEW j \in Job, FetchFails(j) \/ FetchedProviders(j)
      PROVE  ListsInv'
  <2>1. AddsKept
    BY <1>5, EndFact DEF FetchFails, FetchedProviders, pageVars, AddsKept, Adding
  <2>2. Lists' = Lists /\ UNCHANGED <<list, used, slips>>
    BY <1>5 DEF FetchFails, FetchedProviders, pageVars, storedVars, Lists
  <2> QED
    BY <1>a, <2>1, <2>2, ListsShared
<1>6. ASSUME NEW j \in Job, NEW id \in Id, Delete(j, id)
      PROVE  ListsInv'
  <2>1. UNCHANGED <<disk, other, used, slips>>
    BY <1>6 DEF Delete
  <2>2. CASE id \in Ids(list)
    <3>1. AddsKept /\ cache' \in {list', cache} /\ list' = Without(id)
      BY <1>6, <2>2, SaveFact DEF Delete
    <3>2. list \in Lists /\ list \in Subs /\ Lists' \subseteq Lists \cup {list'}
      BY <2>1, <3>1 DEF Lists, Types
    <3>3. Unique(list) /\ Ids(list) \subseteq 1 .. used
      BY <3>2 DEF ListsInv, FreshIds
    <3>4. Ids(list') = Ids(list) \ {id} /\ Unique(list')
      BY <2>2, <3>1, <3>2, <3>3, WithoutFact
    <3>5. \A k \in Job : Adding(k)' => jobs'[k].id \notin Ids(list')
      BY <3>1, <3>2, <3>4 DEF ListsInv, FreshIds, AddsKept
    <3>6. "overlap" \notin slips => AtMostOne(list')
      BY <2>2, <3>1, <3>2, <3>3, WithoutFact DEF ListsInv, OneInv
    <3>7. list # <<>>
      BY <2>2 DEF Ids
    <3>8. "overlap" \notin slips => \A k \in Job : Adding(k)' /\ jobs'[k].active => list' = <<>>
      BY <3>1, <3>7 DEF ListsInv, OneInv, AddsKept
    <3>9. slips' \cap {"emptied", "gone card"} = {} => SomeOne(list')
      BY <2>1, <2>2, <3>1, <3>2, <3>3, WithoutFact DEF ListsInv, SomeInv
    <3> QED
      BY <2>1, <3>1, <3>2, <3>3, <3>4, <3>5, <3>6, <3>8, <3>9, ListReplaced
  <2>3. CASE id \notin Ids(list)
    <3>1. UNCHANGED <<list, jobs, cache>>
      BY <1>6, <2>3 DEF Delete
    <3> QED
      BY <1>a, <2>1, <3>1, ListsShared DEF Lists, AddsKept, Adding
  <2> QED
    BY <2>2, <2>3
<1>7. ASSUME NEW j \in Job, NEW id \in Id, SetActive(j, id)
      PROVE  ListsInv'
  <2>1. /\ list' = Chosen(list, id) /\ UNCHANGED <<disk, other, used>>
        /\ slips' = IF id \in Ids(list) THEN slips ELSE slips \cup {"gone card"}
    BY <1>7 DEF SetActive, Chosen
  <2>2. AddsKept /\ cache' \in {list', cache}
    BY <1>7, SaveFact DEF SetActive
  <2>3. list \in Lists /\ list \in Subs /\ Lists' \subseteq Lists \cup {list'}
    BY <2>1, <2>2 DEF Lists, Types
  <2>4. Unique(list) /\ Ids(list) \subseteq 1 .. used
    BY <2>3 DEF ListsInv, FreshIds
  <2>5. Ids(list') = Ids(list) /\ Unique(list') /\ AtMostOne(list') /\ (list = <<>> => list' = <<>>)
    BY <2>1, <2>3, <2>4, ChosenFact
  <2>6. \A k \in Job : Adding(k)' => jobs'[k].id \notin Ids(list')
    BY <2>2, <2>3, <2>5 DEF ListsInv, FreshIds, AddsKept
  <2>7. "overlap" \notin slips => \A k \in Job : Adding(k)' /\ jobs'[k].active => list' = <<>>
    BY <2>2, <2>5 DEF ListsInv, OneInv, AddsKept
  <2>8. slips' \cap {"emptied", "gone card"} = {} => SomeOne(list')
    BY <2>1, <2>3, ChosenFact
  <2> QED
    BY <2>1, <2>2, <2>3, <2>4, <2>5, <2>6, <2>7, <2>8, ListReplaced
<1>8. ASSUME NEW j \in Job, NEW id \in Id, Edit(j, id)
      PROVE  ListsInv'
  <2>1. list' = list /\ UNCHANGED <<disk, other, used, slips>>
    BY <1>8 DEF Edit
  <2>2. AddsKept /\ (cache' = list' \/ cache' = cache)
    BY <1>8, SaveFact DEF Edit, AddsKept, Adding
  <2>3. Lists' \subseteq Lists
    BY <2>1, <2>2 DEF Lists
  <2> QED
    BY <1>a, <2>1, <2>2, <2>3, ListsShared
<1>9. ASSUME NEW j \in Job, Flush(j)
      PROVE  ListsInv'
  <2>1. AddsKept
    BY <1>9 DEF Flush, AddsKept, Adding, Types, Call
  <2>2. Lists' \subseteq Lists /\ UNCHANGED <<list, used, slips>>
    BY <1>9 DEF Flush, FlushStore, Lists
  <2> QED
    BY <1>a, <2>1, <2>2, ListsShared
<1>10. ASSUME NEW j \in Job, Refresh(j)
       PROVE  ListsInv'
  <2>1. AddsKept
    BY <1>10, EndFact DEF Refresh
  <2>2. Lists' = Lists /\ UNCHANGED <<list, used, slips>>
    BY <1>10 DEF Refresh, Lists, storedVars
  <2> QED
    BY <1>a, <2>1, <2>2, ListsShared
<1>11. ASSUME OtherReads \/ OtherLoads \/ OtherFetches \/ OtherProviders \/ OtherFetched
       PROVE  ListsInv'
  <2>1. UNCHANGED <<list, jobs, used>> /\ slips \subseteq slips'
    BY <1>11 DEF OtherReads, OtherLoads, OtherFetches, OtherProviders, OtherFetched, pageVars, storedVars
  <2>2. Lists' \subseteq Lists \cup {<<>>}
    BY <1>11 DEF OtherReads, OtherLoads, OtherFetches, OtherProviders, OtherFetched, pageVars, storedVars, Lists, Types, Instance, NoOther
  <2> QED
    BY <1>a, <2>1, <2>2, ListsShared DEF AddsKept, Adding
<1>12. ASSUME OtherFlushes \/ OtherEnds
       PROVE  ListsInv'
  <2>1. UNCHANGED <<list, jobs, used, slips>>
    BY <1>12 DEF OtherFlushes, OtherEnds, pageVars
  <2>2. Lists' \subseteq Lists \cup {<<>>}
    BY <1>12 DEF OtherFlushes, OtherEnds, FlushStore, pageVars, storedVars, Lists, Types, Instance, NoOther
  <2> QED
    BY <1>a, <2>1, <2>2, ListsShared DEF AddsKept, Adding
<1>13. CASE Restart
  <2>1. used' = used /\ slips \subseteq slips'
    BY <1>13 DEF Restart
  <2>2. \A j \in Job : ~ Adding(j)'
    BY <1>13 DEF Restart, Adding, NoJob
  <2>3. Lists' \subseteq Lists \cup {<<>>}
    BY <1>13 DEF Restart, Lists, NoOther
  <2> QED
    BY <1>a, <2>1, <2>2, <2>3, ListsShared DEF AddsKept
<1>14. CASE UNCHANGED vars
  BY <1>a, <1>14, ListsShared DEF vars, pageVars, storedVars, Lists, AddsKept, Adding
<1> QED
  BY <1>1, <1>2, <1>3, <1>4, <1>5, <1>6, <1>7, <1>8, <1>9, <1>10, <1>11, <1>12, <1>13, <1>14
     DEF Next

\* A call that saves the list will bring it to the disk and the cards; one that
\* cannot will bring it to the cards.
LEMMA SavedStored ==
  ASSUME Types, StoredInv, NEW j \in Job, NEW busy \in BOOLEAN, Save(j, busy),
         jobs[j].op # "save", UNCHANGED <<disk, other>>
  PROVE  StoredInv'
<1>1. \A k \in Job : jobs[k].op = "save" => jobs'[k].op = "save"
  BY SaveFact
<1>2. CASE cache' = list' /\ jobs'[j].op = "save"
  BY <1>2 DEF StoredInv
<1>3. CASE cache' = cache /\ jobs'[j].op = "saved" /\ missed' = missed \cup {"put"}
  <2>1. \/ disk' = cache'
        \/ "flush" \in missed'
        \/ \E k \in Job : jobs'[k].op = "save"
        \/ other'.at \in {"recounted", "fetched"}
    BY <1>1, <1>3 DEF StoredInv
  <2>2. missed' \cap {"load", "put"} # {}
    BY <1>3
  <2> QED
    BY <1>3, <2>1, <2>2 DEF StoredInv
<1> QED
  BY <1>2, <1>3, SaveFact

\* A step that changes neither the lists nor what is still to be done for them.
LEMMA StoredSame ==
  ASSUME StoredInv, UNCHANGED <<list, cache, disk, missed>>, slips \subseteq slips',
         cards' = cards \/ cards' = Ids(list),
         \A k \in Job : jobs[k].op \in {"save", "saved"} => jobs'[k].op = jobs[k].op,
         other.at \in {"recounted", "fetched"} => other'.at = other.at
  PROVE  StoredInv'
<1>1. "undone" \notin slips' /\ missed' \cap {"load", "put"} = {} => cache' = list'
  BY DEF StoredInv
<1>2. \/ disk' = cache'
      \/ "flush" \in missed'
      \/ \E j \in Job : jobs'[j].op = "save"
      \/ other'.at \in {"recounted", "fetched"}
  BY DEF StoredInv
<1>3. cards' = Ids(list') \/ \E j \in Job : jobs'[j].op \in {"save", "saved"}
  BY DEF StoredInv
<1> QED
  BY <1>1, <1>2, <1>3 DEF StoredInv

\* What a flush leaves, or fails to.
LEMMA FlushFact ==
  ASSUME StoredInv, FlushStore, UNCHANGED <<list, cache, cards, slips>>,
         \A k \in Job : jobs[k].op \in {"save", "saved"} => jobs'[k].op \in {"save", "saved"}
  PROVE  StoredInv'
<1>1. disk' = cache' \/ "flush" \in missed'
  BY DEF FlushStore
<1>2. missed' \cap {"load", "put"} = {} => missed \cap {"load", "put"} = {}
  BY DEF FlushStore
<1>3. cards' = Ids(list') \/ \E j \in Job : jobs'[j].op \in {"save", "saved"}
  BY DEF StoredInv
<1> QED
  BY <1>1, <1>2, <1>3 DEF StoredInv

\* The other instance puts its list into the preferences.
LEMMA OtherPutFact ==
  ASSUME StoredInv, UNCHANGED <<list, cards, jobs, missed>>, cache' = other.list,
         slips' = slips \cup Undone, other'.at \in {"recounted", "fetched"}
  PROVE  StoredInv'
<1>1. "undone" \notin slips' => other.list \in {list, cache} /\ "undone" \notin slips
  BY DEF Undone
<1> QED
  BY <1>1 DEF StoredInv

\* What is not stored yet stays on its way.
LEMMA StoredKept == Types /\ StoredInv /\ [Next]_vars => StoredInv'
<1> SUFFICES ASSUME Types, StoredInv, [Next]_vars
             PROVE  StoredInv'
  OBVIOUS
<1>1. ASSUME NEW j \in Job, StartAdd(j)
      PROVE  StoredInv'
  <2>1. jobs[j].op = "idle" /\ \A k \in Job \ {j} : jobs'[k] = jobs[k]
    BY <1>1 DEF StartAdd, Begin, Types
  <2> QED
    BY <1>1, <2>1, StoredSame DEF StartAdd, storedVars
<1>2. ASSUME NEW j \in Job, FetchedAdd(j) \/ FetchedUpdate(j) \/ \E id \in Id : SetActive(j, id)
      PROVE  StoredInv'
  <2>1. jobs[j].op # "save" /\ UNCHANGED <<disk, other>> /\ \E busy \in BOOLEAN : Save(j, busy)
    BY <1>2 DEF FetchedAdd, FetchedUpdate, SetActive
  <2> QED
    BY <2>1, SavedStored
<1>3. ASSUME NEW j \in Job, NEW id \in Id, StartUpdate(j, id)
      PROVE  StoredInv'
  <2>1. jobs[j].op = "idle" /\ \A k \in Job \ {j} : jobs'[k] = jobs[k]
    BY <1>3 DEF StartUpdate, Begin, Types
  <2> QED
    BY <1>3, <2>1, StoredSame DEF StartUpdate, storedVars
<1>4. ASSUME NEW j \in Job, FetchFails(j) \/ FetchedProviders(j)
      PROVE  StoredInv'
  <2>1. \A k \in Job : jobs[k].op \in {"save", "saved"} => jobs'[k] = jobs[k]
    BY <1>4 DEF FetchFails, FetchedProviders, pageVars, Types
  <2>2. UNCHANGED <<list, cache, disk, missed, cards, other, slips>>
    BY <1>4 DEF FetchFails, FetchedProviders, pageVars, storedVars
  <2> QED
    BY <2>1, <2>2, StoredSame
<1>5. ASSUME NEW j \in Job, NEW id \in Id, Delete(j, id) \/ Edit(j, id)
      PROVE  StoredInv'
  <2>1. CASE id \in Ids(list)
    <3>1. jobs[j].op # "save" /\ UNCHANGED <<disk, other>> /\ \E busy \in BOOLEAN : Save(j, busy)
      BY <1>5, <2>1 DEF Delete, Edit
    <3> QED
      BY <3>1, SavedStored
  <2>2. CASE id \notin Ids(list)
    <3>1. cards' = Ids(list) /\ UNCHANGED <<list, jobs, cache, disk, missed, other, slips>>
      BY <1>5, <2>2 DEF Delete, Edit
    <3> QED
      BY <3>1, StoredSame
  <2> QED
    BY <2>1, <2>2
<1>6. ASSUME NEW j \in Job, Flush(j)
      PROVE  StoredInv'
  <2>1. /\ \A k \in Job \ {j} : jobs'[k] = jobs[k]
        /\ jobs'[j].op = "saved"
    BY <1>6 DEF Flush, Types, Call
  <2>2. FlushStore /\ UNCHANGED <<list, cache, cards, slips>>
    BY <1>6 DEF Flush
  <2> QED
    BY <2>1, <2>2, FlushFact
<1>7. ASSUME NEW j \in Job, Refresh(j)
      PROVE  StoredInv'
  <2>1. jobs[j].op = "saved" /\ \A k \in Job \ {j} : jobs'[k] = jobs[k]
    BY <1>7 DEF Refresh, Types
  <2>2. cards' = Ids(list') /\ UNCHANGED <<list, cache, disk, missed, other, slips>>
    BY <1>7 DEF Refresh, storedVars
  <2>3. ASSUME NEW k \in Job, jobs[k].op = "save"
        PROVE  jobs'[k].op = "save"
    BY <2>1, <2>3
  <2> QED
    BY <2>2, <2>3 DEF StoredInv
<1>8. ASSUME OtherReads \/ OtherFetches \/ OtherProviders \/ OtherEnds
      PROVE  StoredInv'
  <2>1. /\ UNCHANGED <<list, cache, disk, missed, cards, jobs, slips>>
        /\ other.at \notin {"recounted", "fetched"}
    BY <1>8 DEF OtherReads, OtherFetches, OtherProviders, OtherEnds, pageVars, storedVars
  <2> QED
    BY <2>1, StoredSame
<1>9. CASE OtherLoads
  <2>1. UNCHANGED <<list, disk, cards, jobs, missed>> /\ other.at = "read"
    BY <1>9 DEF OtherLoads, pageVars
  <2>2. CASE UNCHANGED <<cache, slips>>
    BY <2>1, <2>2, StoredSame
  <2>3. CASE /\ other' = [other EXCEPT !.at = "recounted"]
             /\ cache' = other.list /\ slips' = slips \cup Undone
    <3>1. other'.at = "recounted"
      BY <2>3 DEF Types, Instance
    <3> QED
      BY <2>1, <2>3, <3>1, OtherPutFact
  <2> QED
    BY <1>9, <2>2, <2>3 DEF OtherLoads
<1>10. CASE OtherFetched
  <2>1. UNCHANGED <<list, disk, cards, jobs, missed>> /\ other.at = "fetching"
    BY <1>10 DEF OtherFetched, pageVars
  <2>2. CASE UNCHANGED <<cache, slips>>
    BY <2>1, <2>2, StoredSame
  <2>3. CASE /\ other' = [other EXCEPT !.at = "fetched"]
             /\ cache' = other.list /\ slips' = slips \cup Undone
    <3>1. other'.at = "fetched"
      BY <2>3 DEF Types, Instance
    <3> QED
      BY <2>1, <2>3, <3>1, OtherPutFact
  <2> QED
    BY <1>10, <2>2, <2>3 DEF OtherFetched
<1>11. CASE OtherFlushes
  <2>1. FlushStore /\ UNCHANGED <<list, cache, cards, jobs, slips>>
    BY <1>11 DEF OtherFlushes, pageVars
  <2> QED
    BY <2>1, FlushFact
<1>12. CASE Restart
  BY <1>12 DEF Restart, StoredInv
<1>13. CASE UNCHANGED vars
  BY <1>13, StoredSame DEF vars, pageVars
<1> QED
  BY <1>1, <1>2, <1>3, <1>4, <1>5, <1>6, <1>7, <1>8, <1>9, <1>10, <1>11, <1>12, <1>13
     DEF Next

\* A step that takes no subscription from the list and ends no add, and writes
\* only files whose subscription is there.
LEMMA FilesSame ==
  ASSUME FilesOwned, Ids(list) \subseteq Ids(list'),
         \A j \in Job : Adding(j) => \/ Adding(j)' /\ jobs'[j].id = jobs[j].id
                                     \/ jobs[j].id \in Ids(list'),
         strays \subseteq strays',
         \A f \in files' \ files : f \in strays' \/ f[1] \in Ids(list')
                                   \/ \E j \in Job : Adding(j)' /\ jobs'[j].id = f[1]
  PROVE  FilesOwned'
  BY DEF FilesOwned, Adding

\* A file keeps its subscription.
LEMMA FilesKept == Types /\ FreshIds /\ FilesOwned /\ [Next]_vars => FilesOwned'
<1> SUFFICES ASSUME Types, FreshIds, FilesOwned, [Next]_vars
             PROVE  FilesOwned'
  OBVIOUS
<1>p. \A id : Profile(id)[1] = id /\ Providers(id)[1] = id
  BY DEF Profile, Providers
<1>1. ASSUME NEW j \in Job, FetchedAdd(j)
      PROVE  FilesOwned'
  <2> DEFINE id == jobs[j].id
             active == jobs[j].active
  <2>1. id \in Nat /\ active \in BOOLEAN /\ list \in Subs
    BY DEF Types, Call
  <2>2. /\ list' = Append(list, Sub(id, active))
        /\ files' \subseteq files \cup {Profile(id)} /\ strays' = strays
    BY <1>1 DEF FetchedAdd
  <2>3. Ids(list') = Ids(list) \cup {id}
    BY <2>1, <2>2, AddedFact
  <2>4. \A k \in Job \ {j} : jobs'[k] = jobs[k]
    BY <1>1, SaveFact DEF FetchedAdd
  <2> HIDE DEF active
  <2>5. \A k \in Job : Adding(k) => \/ Adding(k)' /\ jobs'[k].id = jobs[k].id
                                    \/ jobs[k].id \in Ids(list')
    BY <2>3, <2>4 DEF Adding
  <2>6. \A f \in files' \ files : f[1] \in Ids(list')
    BY <1>p, <2>2, <2>3
  <2> HIDE DEF id
  <2> QED
    BY <2>2, <2>3, <2>5, <2>6, FilesSame
<1>2. ASSUME NEW j \in Job, FetchedUpdate(j)
      PROVE  FilesOwned'
  <2>1. list' = list /\ strays \subseteq strays' /\ jobs[j].op = "update"
    BY <1>2 DEF FetchedUpdate
  <2>2. \A f \in files' \ files : f \in strays' \/ f[1] \in Ids(list')
    BY <1>2 DEF FetchedUpdate, Unowned
  <2>3. \A k \in Job \ {j} : jobs'[k] = jobs[k]
    BY <1>2, SaveFact DEF FetchedUpdate
  <2> QED
    BY <2>1, <2>2, <2>3, FilesSame DEF Adding
<1>3. ASSUME NEW j \in Job, FetchedProviders(j)
      PROVE  FilesOwned'
  <2>1. UNCHANGED <<list, jobs>> /\ strays \subseteq strays'
    BY <1>3 DEF FetchedProviders, pageVars
  <2>2. files' = files \cup {Providers(jobs[j].id)}
    BY <1>3 DEF FetchedProviders
  <2>3. \/ Adding(j)'
        \/ Providers(jobs[j].id) \in strays' \/ Providers(jobs[j].id)[1] \in Ids(list')
    BY <1>3, <2>1 DEF FetchedProviders, Adding, Unowned
  <2> QED
    BY <1>p, <2>1, <2>2, <2>3, FilesSame DEF Adding
<1>4. ASSUME NEW j \in Job, FetchFails(j)
      PROVE  FilesOwned'
  <2> DEFINE id == jobs[j].id
  <2>1. /\ list' = list /\ files' \subseteq files \cup {Profile(id)}
        /\ strays' = strays \cup {f \in Unowned(files', Ids(list)) : f[1] = id}
    BY <1>4 DEF FetchFails
  <2>2. \A k \in Job \ {j} : jobs'[k] = jobs[k]
    BY <1>4, EndFact DEF FetchFails
  <2> HIDE DEF id
  <2>3. ASSUME NEW f \in files' \ strays'
        PROVE  f[1] \in Ids(list') \/ \E k \in Job : jobs'[k].op = "add" /\ jobs'[k].id = f[1]
    <3>1. CASE f[1] = id
      BY <2>1, <3>1 DEF Unowned
    <3>2. CASE f[1] # id
      <4>1. f \in files \ strays
        BY <1>p, <2>1, <3>2
      <4> QED
        BY <2>1, <2>2, <3>2, <4>1 DEF FilesOwned, id
    <3> QED
      BY <3>1, <3>2
  <2> QED
    BY <2>3 DEF FilesOwned
<1>5. ASSUME NEW j \in Job, NEW id \in Id, Delete(j, id)
      PROVE  FilesOwned'
  <2>1. CASE id \in Ids(list)
    <3>1. /\ files' \subseteq files /\ list' = Without(id)
          /\ strays' = strays \cup {f \in files' : f[1] = id}
      BY <1>5, <2>1 DEF Delete
    <3>2. Ids(list') = Ids(list) \ {id}
      BY <2>1, <3>1, WithoutFact DEF Types, FreshIds, Lists
    <3>3. jobs[j].op = "idle" /\ \A k \in Job \ {j} : jobs'[k] = jobs[k]
      BY <1>5, <2>1, SaveFact DEF Delete
    <3> QED
      BY <3>1, <3>2, <3>3 DEF FilesOwned
  <2>2. CASE id \notin Ids(list)
    BY <1>5, <2>2 DEF Delete, FilesOwned
  <2> QED
    BY <2>1, <2>2
<1>6. ASSUME NEW j \in Job, NEW id \in Id, SetActive(j, id) \/ Edit(j, id) \/ StartUpdate(j, id)
      PROVE  FilesOwned'
  <2>1. UNCHANGED <<files, strays>> /\ jobs[j].op = "idle"
    BY <1>6 DEF SetActive, Edit, StartUpdate
  <2>2. Ids(list') = Ids(list)
    <3>1. list' = list \/ list' = Chosen(list, id)
      BY <1>6 DEF SetActive, Edit, StartUpdate, Chosen
    <3> QED
      BY <3>1, ChosenFact DEF Types
  <2>3. \A k \in Job \ {j} : jobs'[k] = jobs[k]
    BY <1>6, SaveFact DEF SetActive, Edit, StartUpdate, Begin, Types
  <2> QED
    BY <2>1, <2>2, <2>3, FilesSame DEF Adding
<1>7. ASSUME NEW j \in Job, StartAdd(j) \/ Flush(j) \/ Refresh(j)
      PROVE  FilesOwned'
  <2>1. UNCHANGED <<list, files, strays>> /\ ~ Adding(j)
    BY <1>7 DEF StartAdd, Flush, Refresh, Adding
  <2>2. \A k \in Job \ {j} : jobs'[k] = jobs[k]
    BY <1>7 DEF StartAdd, Flush, Refresh, Begin, Types
  <2> QED
    BY <2>1, <2>2, FilesSame DEF Adding
<1>8. ASSUME OtherReads \/ OtherLoads \/ OtherFetches \/ OtherProviders \/ OtherFetched
             \/ OtherFlushes \/ OtherEnds \/ UNCHANGED vars
      PROVE  FilesOwned'
  <2>1. UNCHANGED <<list, jobs>> /\ strays \subseteq strays'
    BY <1>8 DEF OtherReads, OtherLoads, OtherFetches, OtherProviders, OtherFetched, OtherFlushes,
                OtherEnds, OtherWrites, pageVars, vars
  <2>2. \A f \in files' \ files : f \in strays' \/ f[1] \in Ids(list)
    BY <1>8 DEF OtherReads, OtherLoads, OtherFetches, OtherProviders, OtherFetched, OtherFlushes,
                OtherEnds, OtherWrites, Unowned, vars
  <2> QED
    BY <2>1, <2>2, FilesSame DEF Adding
<1>9. CASE Restart
  BY <1>9 DEF Restart, FilesOwned, Unowned
<1> QED
  BY <1>1, <1>2, <1>3, <1>4, <1>5, <1>6, <1>7, <1>8, <1>9 DEF Next

-----------------------------------------------------------------------------
(* The theorems *)

\* Initially the invariant holds: there is nothing.
LEMMA InitInv == Init => IInv
<1> SUFFICES ASSUME Init
             PROVE  IInv
  OBVIOUS
<1>1. <<>> \in Subs
  BY EmptySeq DEF Subs
<1>2. Types
  BY <1>1 DEF Init, Types, Instance, Call, NoJob, NoOther
<1>3. Lists = {<<>>} /\ \A j \in Job : ~ Adding(j)
  BY DEF Init, Lists, NoOther, Adding, NoJob
<1>4. FreshIds /\ OneInv /\ SomeInv
  BY <1>3, EmptyFact DEF FreshIds, OneInv, SomeInv
<1>5. StoredInv /\ FilesOwned
  BY EmptyFact DEF Init, StoredInv, FilesOwned
<1> QED
  BY <1>2, <1>4, <1>5 DEF IInv

\* Every step keeps it.
LEMMA StepInv == IInv /\ [Next]_vars => IInv'
  BY TypesKept, ListsKept, StoredKept, FilesKept DEF IInv, ListsInv

\* In every state that can be reached, the invariant holds.
LEMMA InvHolds == Spec => []IInv
  BY InitInv, StepInv, PTL DEF Spec

\* A list with at most one active subscription, counted.
LEMMA CountFact ==
  ASSUME NEW subs, AtMostOne(subs)
  PROVE  Cardinality(Actives(subs)) <= 1
<1>1. CASE Actives(subs) = {}
  BY <1>1, FS_EmptySet
<1>2. CASE Actives(subs) # {}
  <2>1. PICK i : i \in Actives(subs)
    BY <1>2
  <2>2. Actives(subs) = {i}
    BY <2>1 DEF AtMostOne
  <2> QED
    BY <2>2, FS_Singleton
<1> QED
  BY <1>1, <1>2

\* At most one subscription is active, in memory and on disk, unless two adds
\* have overlapped, for any number of subscriptions and of pending calls.
THEOREM AtMostOneActive == Spec => []OneActive
<1>1. IInv => OneActive
  BY CountFact DEF IInv, OneInv, OneActive
<1> QED
  BY <1>1, InvHolds, PTL

\* A list that is not empty has an active subscription, unless an add has found
\* its list emptied or the card of a deleted subscription has been tapped.
THEOREM AtLeastOneActive == Spec => []SomeActive
<1>1. IInv => SomeActive
  BY DEF IInv, SomeInv, SomeOne, SomeActive
<1> QED
  BY <1>1, InvHolds, PTL

\* When no save is on its way, the cards show the list, the preferences hold it
\* unless the other instance has saved a list that it had read before a change or
\* the page could not load or save, and the disk holds what the preferences hold
\* unless the last flush has failed.
THEOREM QuietStateIsStored == Spec => []QuietIsStored
<1>1. IInv => QuietIsStored
  BY DEF IInv, StoredInv, Quiet, QuietIsStored
<1> QED
  BY <1>1, InvHolds, PTL

\* A file, of a profile or of its providers, has its subscription in the list or
\* is of one that is being added, unless it was left to nobody: by an add that is
\* given up, a late download, a deletion, or a kill of the UI
\* (fetchSubscriptionContent, materializeRemoteProviders, deleteSubscription).
THEOREM FilesHaveOwners == Spec => []FilesOwned
<1>1. IInv => FilesOwned
  BY DEF IInv
<1> QED
  BY <1>1, InvHolds, PTL

\* No two subscriptions of a list have the same id, and no list has the id of
\* one that is still being added: what deleteSubscription filters out is one
\* subscription, and what an update finds by its id is the one it was asked for.
THEOREM IdsAreUnique == Spec => []FreshIds
<1>1. IInv => FreshIds
  BY DEF IInv
<1> QED
  BY <1>1, InvHolds, PTL
=============================================================================
