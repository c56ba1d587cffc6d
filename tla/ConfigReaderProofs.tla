-------------------------- MODULE ConfigReaderProofs --------------------------
(***************************************************************************)
(* The two readers of a document, for every set of documents of the shape  *)
(* that DocumentAssumption names.                                          *)
(***************************************************************************)
EXTENDS ConfigReader, NativeCoreProofs

-----------------------------------------------------------------------------
(* Concatenation *)

\* Induction up to N.
LEMMA UpTo ==
  ASSUME NEW N \in Nat, NEW T, 0 \in T, \A m \in 1 .. N : m - 1 \in T => m \in T
  PROVE  N \in T /\ \A n \in 0 .. N : n \in T
<1> DEFINE U == {n \in Nat : n \in 0 .. N => n \in T}
<1>1. 0 \in U
  OBVIOUS
<1>2. ASSUME NEW n \in Nat, n \in U PROVE n + 1 \in U
  <2>1. SUFFICES ASSUME NEW m \in 1 .. N, m = n + 1 PROVE m \in T
    OBVIOUS
  <2>2. m - 1 = n /\ n \in T
    BY <1>2, <2>1
  <2> QED
    BY <2>2
<1> HIDE DEF U
<1>3. Nat \subseteq U
  BY <1>1, <1>2, SetInduction
<1> QED
  BY <1>3 DEF U

\* f[n] is what the first n of the sequences ss make together.
Joins(f, ss, X) ==
  /\ f \in [0 .. Len(ss) -> Seq(X)]
  /\ f[0] = <<>>
  /\ \A n \in 1 .. Len(ss) : f[n] = f[n - 1] \o ss[n]

\* The recursion of FlattenSeq has a solution, which it takes the last value of.
LEMMA FlattenRecursion ==
  ASSUME NEW X, NEW ss \in Seq(Seq(X))
  PROVE  \E f : Joins(f, ss, X) /\ FlattenSeq(ss) = f[Len(ss)]
<1> DEFINE N == Len(ss)
           S == Seq(X)
           st == [p \in Nat \X S |-> IF p[1] \in 1 .. N THEN p[2] \o ss[p[1]] ELSE p[2]]
           G(g) == [i \in 1 .. Len(ss) |-> IF i = 1 THEN ss[i] ELSE g[i - 1] \o ss[i]]
           the == CHOOSE g : g = G(g)
<1>0. N \in Nat /\ <<>> \in S /\ \A i \in 1 .. N : ss[i] \in Seq(X)
  OBVIOUS
<1>1. st \in [Nat \X S -> S]
  <2>1. ASSUME NEW p \in Nat \X S
        PROVE  (IF p[1] \in 1 .. N THEN p[2] \o ss[p[1]] ELSE p[2]) \in S
    <3>1. p[2] \in Seq(X) /\ p[1] \in Nat
      OBVIOUS
    <3>2. CASE p[1] \in 1 .. N
      <4>1. ss[p[1]] \in Seq(X)
        BY <1>0, <3>2
      <4> QED
        BY <3>1, <3>2, <4>1
    <3> QED
      BY <3>1, <3>2
  <2> QED
    BY <2>1
<1>2. PICK f : Solves(f, S, <<>>, st, N)
  <2> HIDE DEF st, N, S
  <2> QED
    BY <1>0, <1>1, RecursionSolvable
<1>3. Joins(f, ss, X)
  <2>1. ASSUME NEW n \in 1 .. Len(ss) PROVE f[n] = f[n - 1] \o ss[n]
    <3>1. n - 1 \in 0 .. N /\ n \in Nat
      BY <1>0
    <3>2. f[n - 1] \in S /\ f[n] = st[<<n, f[n - 1]>>]
      BY <1>2, <3>1 DEF Solves
    <3> QED
      BY <3>1, <3>2
  <2> QED
    BY <1>2, <2>1 DEF Solves, Joins
<1>4. CASE N = 0
  BY <1>3, <1>4 DEF FlattenSeq, Joins
<1>5. CASE N # 0
  <2> DEFINE g == [i \in 1 .. N |-> f[i]]
  <2>1. g = G(g)
    <3>1. ASSUME NEW i \in 1 .. N PROVE g[i] = IF i = 1 THEN ss[i] ELSE g[i - 1] \o ss[i]
      <4>1. g[i] = f[i - 1] \o ss[i]
        BY <1>3 DEF Joins
      <4>2. CASE i = 1
        <5>1. f[i - 1] = <<>> /\ ss[i] \in Seq(X)
          BY <1>0, <1>3, <4>2 DEF Joins
        <5> QED
          BY <4>1, <4>2, <5>1
      <4>3. CASE i # 1
        <5>1. i - 1 \in 1 .. N
          BY <1>0, <4>3
        <5> QED
          BY <4>1, <4>3, <5>1
      <4> QED
        BY <4>2, <4>3
    <3> QED
      BY <3>1
  <2>2. the = G(the)
    <3> HIDE DEF G
    <3> QED
      BY <2>1
  <2>3. FlattenSeq(ss) = the[N]
    BY <1>5 DEF FlattenSeq
  <2> HIDE DEF the
  <2>4. DOMAIN the = 1 .. N /\ \A i \in 1 .. N : the[i] = IF i = 1 THEN ss[i] ELSE the[i - 1] \o ss[i]
    BY <2>2
  <2> DEFINE T == {n \in Nat : n \in 1 .. N => the[n] = f[n]}
  <2>5. 0 \in T
    OBVIOUS
  <2>6. ASSUME NEW n \in Nat, n \in T PROVE n + 1 \in T
    <3>1. SUFFICES ASSUME NEW m \in 1 .. N, m = n + 1 PROVE the[m] = f[m]
      OBVIOUS
    <3>0. f[m] = f[m - 1] \o ss[m]
      BY <1>3 DEF Joins
    <3>2. m - 1 = n /\ f[m] = f[m - 1] \o ss[m]
      BY <3>0, <3>1
    <3>3. the[m] = IF m = 1 THEN ss[m] ELSE the[m - 1] \o ss[m]
      BY <2>4
    <3>4. CASE m = 1
      <4>1. f[m - 1] = <<>> /\ ss[m] \in Seq(X)
        BY <1>0, <1>3, <3>4 DEF Joins
      <4>2. <<>> \o ss[m] = ss[m]
        BY <4>1
      <4> QED
        BY <3>2, <3>3, <3>4, <4>1, <4>2
    <3>5. CASE m # 1
      <4>1. n \in 1 .. N
        BY <1>0, <3>1, <3>5
      <4>2. the[n] = f[n]
        BY <2>6, <4>1
      <4> QED
        BY <3>2, <3>3, <3>5, <4>2
    <3> QED
      BY <3>4, <3>5
  <2> HIDE DEF T
  <2>7. Nat \subseteq T
    BY <2>5, <2>6, SetInduction
  <2>8. the[N] = f[N]
    BY <1>0, <1>5, <2>7 DEF T
  <2> QED
    BY <1>3, <2>3, <2>8
<1> QED
  BY <1>4, <1>5

\* What two sequences hold together.
LEMMA ConcatSet ==
  ASSUME NEW X, NEW s \in Seq(X), NEW t \in Seq(X)
  PROVE  ToSet(s \o t) = ToSet(s) \cup ToSet(t)
<1>1. /\ Len(s \o t) = Len(s) + Len(t) /\ Len(s) \in Nat /\ Len(t) \in Nat
      /\ \A i \in 1 .. Len(s) : (s \o t)[i] = s[i]
      /\ \A i \in 1 .. Len(t) : (s \o t)[Len(s) + i] = t[i]
      /\ DOMAIN s = 1 .. Len(s) /\ DOMAIN t = 1 .. Len(t)
      /\ DOMAIN (s \o t) = 1 .. Len(s) + Len(t)
  OBVIOUS
<1>2. ASSUME NEW i \in 1 .. Len(s) + Len(t)
      PROVE  (s \o t)[i] \in ToSet(s) \cup ToSet(t)
  <2>1. CASE i \in 1 .. Len(s)
    BY <1>1, <2>1 DEF ToSet
  <2>2. CASE i \notin 1 .. Len(s)
    <3>1. i - Len(s) \in 1 .. Len(t) /\ Len(s) + (i - Len(s)) = i
      BY <1>1, <2>2
    <3> QED
      BY <1>1, <3>1 DEF ToSet
  <2> QED
    BY <2>1, <2>2
<1>3. ASSUME NEW i \in 1 .. Len(s) PROVE s[i] \in ToSet(s \o t)
  <2>1. i \in 1 .. Len(s) + Len(t)
    BY <1>1
  <2> QED
    BY <1>1, <2>1 DEF ToSet
<1>4. ASSUME NEW i \in 1 .. Len(t) PROVE t[i] \in ToSet(s \o t)
  <2>1. Len(s) + i \in 1 .. Len(s) + Len(t)
    BY <1>1
  <2> QED
    BY <1>1, <2>1 DEF ToSet
<1> QED
  BY <1>1, <1>2, <1>3, <1>4 DEF ToSet

\* What the sequences make together is a sequence of their elements.
LEMMA FlattenFact ==
  ASSUME NEW X, NEW ss \in Seq(Seq(X))
  PROVE  /\ FlattenSeq(ss) \in Seq(X)
         /\ ToSet(FlattenSeq(ss)) = UNION {ToSet(ss[i]) : i \in DOMAIN ss}
<1>1. PICK f : Joins(f, ss, X) /\ FlattenSeq(ss) = f[Len(ss)]
  BY FlattenRecursion
<1>2. /\ \A n \in 0 .. Len(ss) : f[n] \in Seq(X)
      /\ \A n \in 1 .. Len(ss) : f[n] = f[n - 1] \o ss[n]
      /\ f[0] = <<>>
  BY <1>1 DEF Joins
<1>10. /\ Len(ss) \in Nat /\ DOMAIN ss = 1 .. Len(ss)
      /\ \A n \in 1 .. Len(ss) : ss[n] \in Seq(X)
  OBVIOUS
<1> DEFINE Claim(n) == ToSet(f[n]) = UNION {ToSet(ss[i]) : i \in 1 .. n}
           T == {n \in Nat : Claim(n)}
<1>3. Claim(0)
  <2>1. ToSet(f[0]) = {} /\ 1 .. 0 = {}
    BY <1>2 DEF ToSet
  <2> QED
    BY <2>1
<1>4. ASSUME NEW m \in 1 .. Len(ss), Claim(m - 1) PROVE Claim(m)
  <2>1. m - 1 \in 0 .. Len(ss) /\ 1 .. m = 1 .. m - 1 \cup {m}
    BY <1>10
  <2>2. f[m] = f[m - 1] \o ss[m] /\ f[m - 1] \in Seq(X) /\ ss[m] \in Seq(X)
    BY <1>2, <1>10, <2>1
  <2>3. ToSet(f[m]) = ToSet(f[m - 1]) \cup ToSet(ss[m])
    BY <2>2, ConcatSet
  <2> QED
    BY <1>4, <2>1, <2>3
<1> HIDE DEF Claim
<1>5. 0 \in T /\ \A m \in 1 .. Len(ss) : m - 1 \in T => m \in T
  BY <1>3, <1>4, <1>10
<1> HIDE DEF T
<1>6. Len(ss) \in T
  BY <1>5, <1>10, UpTo
<1> QED
  BY <1>1, <1>2, <1>10, <1>6 DEF T, Claim

-----------------------------------------------------------------------------
(* The first element of a kind *)

\* x is the first element of s that is in P.
Leads(x, s, P) ==
  \E q \in 1 .. Len(s) : s[q] = x /\ x \in P /\ \A r \in 1 .. q - 1 : s[r] \notin P

\* If there is one in P there is a first one.
LEMMA SomeLeads ==
  ASSUME NEW X, NEW s \in Seq(X), NEW P, ToSet(s) \cap P # {}
  PROVE  \E x : Leads(x, s, P)
<1> DEFINE I == {q \in 1 .. Len(s) : s[q] \in P}
<1>1. I \in SUBSET Nat /\ I # {} /\ Len(s) \in Nat
  BY DEF ToSet
<1>2. PICK q \in I : \A r \in I : q <= r
  <2> HIDE DEF I
  <2> QED
    BY <1>1, LeastExists
<1>3. \A r \in 1 .. q - 1 : s[r] \notin P
  BY <1>1, <1>2
<1> QED
  BY <1>2, <1>3 DEF Leads

\* The first one of s and t together is in s, or in t if there is none in s.
LEMMA ConcatLeads ==
  ASSUME NEW X, NEW s \in Seq(X), NEW t \in Seq(X), NEW P, NEW x, Leads(x, s \o t, P)
  PROVE  Leads(x, s, P) \/ (Leads(x, t, P) /\ ToSet(s) \cap P = {})
<1>1. /\ Len(s \o t) = Len(s) + Len(t) /\ Len(s) \in Nat /\ Len(t) \in Nat
      /\ \A i \in 1 .. Len(s) : (s \o t)[i] = s[i]
      /\ \A i \in 1 .. Len(t) : (s \o t)[Len(s) + i] = t[i]
      /\ DOMAIN s = 1 .. Len(s)
  OBVIOUS
<1>2. PICK q \in 1 .. Len(s \o t) :
        (s \o t)[q] = x /\ x \in P /\ \A r \in 1 .. q - 1 : (s \o t)[r] \notin P
  BY DEF Leads
<1> HIDE DEF Leads
<1>3. CASE q <= Len(s)
  <2>1. q \in 1 .. Len(s) /\ \A r \in 1 .. q - 1 : r \in 1 .. Len(s)
    BY <1>1, <1>3
  <2>2. s[q] = x /\ \A r \in 1 .. q - 1 : s[r] \notin P
    BY <1>1, <1>2, <2>1
  <2> QED
    BY <1>2, <2>1, <2>2 DEF Leads
<1>4. CASE q > Len(s)
  <2>1. PICK k \in 1 .. Len(t) : q = Len(s) + k
    BY <1>1, <1>4
  <2>2. \A r \in 1 .. Len(s) : s[r] \notin P
    BY <1>1, <1>2, <1>4
  <2>3. ASSUME NEW r \in 1 .. k - 1 PROVE t[r] \notin P
    <3>1. Len(s) + r \in 1 .. q - 1 /\ r \in 1 .. Len(t)
      BY <1>1, <2>1
    <3> QED
      BY <1>1, <1>2, <3>1
  <2>4. t[k] = x
    BY <1>1, <1>2, <2>1
  <2> QED
    BY <1>1, <1>2, <2>2, <2>3, <2>4 DEF Leads, ToSet
<1> QED
  BY <1>1, <1>2, <1>3, <1>4

\* The first one of many sequences together is the first one of the first of
\* them that has one.
LEMMA FlattenLeads ==
  ASSUME NEW X, NEW ss \in Seq(Seq(X)), NEW P, NEW x, Leads(x, FlattenSeq(ss), P)
  PROVE  \E k \in DOMAIN ss : Leads(x, ss[k], P) /\ \A i \in 1 .. k - 1 : ToSet(ss[i]) \cap P = {}
<1>1. PICK f : Joins(f, ss, X) /\ FlattenSeq(ss) = f[Len(ss)]
  BY FlattenRecursion
<1>2. /\ \A n \in 0 .. Len(ss) : f[n] \in Seq(X)
      /\ \A n \in 1 .. Len(ss) : f[n] = f[n - 1] \o ss[n]
      /\ f[0] = <<>>
  BY <1>1 DEF Joins
<1>10. /\ Len(ss) \in Nat /\ DOMAIN ss = 1 .. Len(ss)
      /\ \A n \in 1 .. Len(ss) : ss[n] \in Seq(X)
  OBVIOUS
<1> DEFINE First(n) == \E k \in 1 .. n : Leads(x, ss[k], P)
                                         /\ \A i \in 1 .. k - 1 : ToSet(ss[i]) \cap P = {}
           Clear(n) == \A i \in 1 .. n : ToSet(ss[i]) \cap P = {}
           Claim(n) == /\ Leads(x, f[n], P) => First(n)
                       /\ ToSet(f[n]) \cap P = {} => Clear(n)
           T == {n \in Nat : Claim(n)}
<1>3. Claim(0)
  BY <1>2 DEF Leads
<1>4. ASSUME NEW m \in 1 .. Len(ss), Claim(m - 1) PROVE Claim(m)
  <2>1. m - 1 \in 0 .. Len(ss) /\ 1 .. m = 1 .. m - 1 \cup {m}
    BY <1>10
  <2>2. f[m] = f[m - 1] \o ss[m] /\ f[m - 1] \in Seq(X) /\ ss[m] \in Seq(X)
    BY <1>2, <1>10, <2>1
  <2>3. ToSet(f[m]) = ToSet(f[m - 1]) \cup ToSet(ss[m])
    BY <2>2, ConcatSet
  <2>4. Leads(x, f[m], P) =>
          Leads(x, f[m - 1], P) \/ (Leads(x, ss[m], P) /\ ToSet(f[m - 1]) \cap P = {})
    BY <2>2, ConcatLeads
  <2>5. First(m - 1) => First(m)
    BY <2>1
  <2>6. Leads(x, ss[m], P) /\ Clear(m - 1) => First(m)
    BY <2>1
  <2>7. ToSet(f[m]) \cap P = {} => Clear(m)
    BY <1>4, <2>1, <2>3
  <2> QED
    BY <1>4, <2>4, <2>5, <2>6, <2>7
<1> HIDE DEF Claim
<1>5. 0 \in T /\ \A m \in 1 .. Len(ss) : m - 1 \in T => m \in T
  BY <1>3, <1>4, <1>10
<1> HIDE DEF T
<1>6. Len(ss) \in T
  BY <1>5, <1>10, UpTo
<1> QED
  BY <1>1, <1>10, <1>6 DEF T, Claim

\* What is taken out of a sequence does not change the first one of a set.
LEMMA OnlyLeads ==
  ASSUME NEW X, NEW s \in Seq(X), NEW set, NEW P, NEW x, Leads(x, s, P),
         \A y \in ToSet(s) : y \in P => y \in set
  PROVE  Leads(x, Only(s, set), P)
<1>1. PICK f : Embeds(f, Only(s, set), s, Len(s), set)
  BY OnlyInOrder
<1> DEFINE kept == Only(s, set)
<1>2. kept \in Seq(X) /\ Len(kept) \in Nat /\ Len(s) \in Nat
  BY OnlyKeeps
<1> HIDE DEF kept
<1>3. /\ f \in [1 .. Len(kept) -> 1 .. Len(s)]
      /\ \A i, j \in 1 .. Len(kept) : i < j => f[i] < f[j]
      /\ \A i \in 1 .. Len(kept) : kept[i] = s[f[i]]
      /\ \A k \in 1 .. Len(s) : s[k] \in set <=> \E i \in 1 .. Len(kept) : f[i] = k
  BY <1>1 DEF Embeds, kept
<1>4. PICK q \in 1 .. Len(s) : s[q] = x /\ x \in P /\ \A r \in 1 .. q - 1 : s[r] \notin P
  BY DEF Leads
<1>5. x \in set
  BY <1>2, <1>4 DEF ToSet
<1>6. PICK k \in 1 .. Len(kept) : f[k] = q
  BY <1>3, <1>4, <1>5
<1>7. ASSUME NEW r \in 1 .. k - 1 PROVE kept[r] \notin P
  <2>1. r \in 1 .. Len(kept) /\ r < k
    BY <1>2, <1>6
  <2>2. f[r] < q /\ f[r] \in 1 .. Len(s)
    BY <1>3, <1>6, <2>1
  <2>3. f[r] \in 1 .. q - 1
    BY <2>2
  <2> QED
    BY <1>3, <1>4, <2>1, <2>3
<1>8. kept[k] = x
  BY <1>3, <1>4, <1>6
<1> QED
  BY <1>4, <1>7, <1>8 DEF Leads, kept

-----------------------------------------------------------------------------
(* What the plan of a configuration does *)

\* The backend sends a destination to the target of the first rule that puts
\* something into the plan and that the destination hits.
LEMMA JudgeLeads ==
  ASSUME NEW c, NEW X, c.rules \in Seq(X), NEW dest, NEW r,
         Leads(r, c.rules, {x \in X : x.kind \notin Silent /\ dest \in x.hits}),
         Plan(c, "rule") # NoPlan
  PROVE  Judge(Plan(c, "rule"), dest) = Resolve(r.target, c.groups, c.proxies)
<1> DEFINE P == {x \in X : x.kind \notin Silent /\ dest \in x.hits}
           loud == {x \in ToSet(c.rules) : x.kind \notin Silent}
           emitted == Only(c.rules, loud)
           d == DefaultRule(c.groups, c.proxies)
           entries == WithDefault(emitted, c.groups, c.proxies)
           plan == [i \in DOMAIN entries |->
                      [hits |-> entries[i].hits,
                       out  |-> Resolve(entries[i].target, c.groups, c.proxies)]]
<1>1. Plan(c, "rule") = plan
  BY DEF Plan, EffectiveRules
<1>2. emitted \in Seq(X) /\ ToSet(emitted) = ToSet(c.rules) \cap loud
  BY OnlyKeeps
<1>3. Leads(r, emitted, P)
  <2>1. \A y \in ToSet(c.rules) : y \in P => y \in loud
    OBVIOUS
  <2> HIDE DEF P, loud
  <2> QED
    BY <2>1, OnlyLeads DEF P
<1>4. entries = emitted \/ entries = Append(emitted, d)
  BY DEF WithDefault
<1>5. \A i \in 1 .. Len(emitted) : emitted[i] \in X /\ emitted[i].kind \notin Silent
  <2> HIDE DEF emitted, loud
  <2>1. ASSUME NEW i \in 1 .. Len(emitted) PROVE emitted[i] \in X /\ emitted[i] \in loud
    <3>1. i \in DOMAIN emitted
      BY <1>2
    <3> QED
      BY <1>2, <3>1, Element
  <2> QED
    BY <2>1 DEF loud
<1> HIDE DEF emitted, d, entries
<1>6. /\ Len(emitted) \in Nat /\ Len(entries) \in Nat /\ Len(emitted) <= Len(entries)
      /\ DOMAIN entries = 1 .. Len(entries)
      /\ \A i \in 1 .. Len(emitted) : entries[i] = emitted[i]
  <2>1. CASE entries = emitted
    BY <1>2, <2>1
  <2>2. CASE entries = Append(emitted, d)
    BY <1>2, <2>2
  <2> QED
    BY <1>4, <2>1, <2>2
<1>7. PICK q \in 1 .. Len(emitted) :
        emitted[q] = r /\ r \in P /\ \A k \in 1 .. q - 1 : emitted[k] \notin P
  BY <1>3 DEF Leads
<1>8. q \in 1 .. Len(entries) /\ entries[q] = r /\ dest \in r.hits
  BY <1>6, <1>7
<1>9. ASSUME NEW k \in 1 .. Len(entries), dest \in entries[k].hits PROVE q <= k
  <2>1. SUFFICES ASSUME k < q PROVE FALSE
    BY <1>6, <1>7
  <2>2. k \in 1 .. Len(emitted) /\ k \in 1 .. q - 1
    BY <1>6, <1>7, <2>1
  <2> QED
    BY <1>5, <1>6, <1>7, <1>9, <2>2
<1>10. DOMAIN plan = 1 .. Len(entries) /\ Len(plan) = Len(entries)
  BY <1>6
<1>11. \A k \in 1 .. Len(entries) :
         /\ plan[k].hits = entries[k].hits
         /\ plan[k].out = Resolve(entries[k].target, c.groups, c.proxies)
  BY <1>6
<1> DEFINE I == {i \in 1 .. Len(plan) : dest \in plan[i].hits}
<1> HIDE DEF plan
<1>12. I \in SUBSET Nat /\ I # {} /\ q \in I /\ \A i \in I : q <= i
  BY <1>6, <1>8, <1>9, <1>10, <1>11
<1>13. Judge(plan, dest) = IF (IF I # {} THEN Min(I) ELSE 0) = 0 THEN Reject
                           ELSE plan[IF I # {} THEN Min(I) ELSE 0].out
  BY DEF Judge, SelectInSeq
<1> HIDE DEF I
<1>14. Min(I) = q
  <2>1. Min(I) \in I /\ \A i \in I : Min(I) <= i
    BY <1>12, MinIsLeast
  <2>2. Min(I) \in Nat /\ q \in Nat /\ Min(I) <= q /\ q <= Min(I)
    BY <1>12, <2>1
  <2> QED
    BY <2>2
<1> QED
  BY <1>1, <1>6, <1>7, <1>8, <1>11, <1>12, <1>13, <1>14

-----------------------------------------------------------------------------
(* The rules that a line of the document leads to *)

Rules3 == [type : Text, payload : Text, target : Text \ {Blank}]

\* The rules that put something into the plan and that dest hits.
Hitting3(dest) ==
  {r \in Rules3 : Kind(r.type, r.payload) \notin Silent /\ (r.type = "MATCH" \/ r.payload = dest)}

\* Only a kind that is told apart puts something into the plan.
LEMMA KindFact ==
  /\ \A t, p : Kind(t, p) \notin Silent => t \in ExpandedTypes \cup {"MATCH"}
  /\ \A p : Kind("RULE-SET", p) \in Silent /\ Kind("MATCH", p) \notin Silent
  /\ \A t \in {"DOMAIN", "DOMAIN-SUFFIX", "DOMAIN-KEYWORD", "IP-CIDR", "IP-CIDR6"} : \A p :
       Kind(t, p) \notin Silent
<1>1. \A t, p : Kind(t, p) \notin Silent => t \in ExpandedTypes \cup {"MATCH"}
  BY DEF Kind, Silent, ExpandedTypes
<1>2. \A p : Kind("RULE-SET", p) \in Silent /\ Kind("MATCH", p) \notin Silent
  BY DEF Kind, Silent
<1>3. \A t \in {"DOMAIN", "DOMAIN-SUFFIX", "DOMAIN-KEYWORD", "IP-CIDR", "IP-CIDR6"} : \A p :
        Kind(t, p) \notin Silent
  BY DEF Kind, Silent
<1> QED
  BY <1>1, <1>2, <1>3

\* A sequence of one element.
LEMMA OneElement ==
  ASSUME NEW X, NEW x \in X
  PROVE  <<x>> \in Seq(X) /\ ToSet(<<x>>) = {x}
<1>1. <<x>> \in Seq(X) /\ DOMAIN <<x>> = {1} /\ <<x>>[1] = x
  OBVIOUS
<1> QED
  BY <1>1 DEF ToSet

LEMMA NoElement ==
  ASSUME NEW X
  PROVE  <<>> \in Seq(X) /\ ToSet(<<>>) = {}
  BY DEF ToSet

LEMMA Rule3Fact ==
  ASSUME NEW t \in Text, NEW p \in Text, NEW g \in Text \ {Blank}
  PROVE  LET r == Rule3(t, p, g)
         IN r \in Rules3 /\ r.type = t /\ r.payload = p /\ r.target = g
  BY DEF Rule3, Rules3

LEMMA Retarget ==
  ASSUME NEW t, NEW p, NEW g, NEW h
  PROVE  [Rule3(t, p, h) EXCEPT !.target = g] = Rule3(t, p, g)
  BY DEF Rule3

\* A line is read as the rule it says, or not at all.
LEMMA ParseRuleFact ==
  ASSUME NEW parts \in Seq(Text \ {Blank})
  PROVE  /\ ParseRule(parts) \in Seq(Rules3)
         /\ \A r : r \in ToSet(ParseRule(parts)) <=>
              \/ /\ Len(parts) >= 2 /\ parts[1] = "MATCH"
                 /\ r = Rule3("MATCH", Blank, parts[2])
              \/ /\ Len(parts) >= 3 /\ parts[1] # "MATCH"
                 /\ r = Rule3(parts[1], parts[2], parts[3])
<1>1. Len(parts) \in Nat /\ \A i \in 1 .. Len(parts) : parts[i] \in Text \ {Blank}
  OBVIOUS
<1>20. "MATCH" \in Text /\ Blank \in Text 
  BY TextAssumption
<1>2. CASE Len(parts) >= 2 /\ parts[1] = "MATCH"
  <2>1. ParseRule(parts) = <<Rule3("MATCH", Blank, parts[2])>>
    BY <1>2 DEF ParseRule
  <2>2. Rule3("MATCH", Blank, parts[2]) \in Rules3
    <3>1. parts[2] \in Text \ {Blank}
      BY <1>1, <1>2
    <3> QED
      BY <1>20, <3>1, Rule3Fact
  <2>3. ParseRule(parts) \in Seq(Rules3) /\ ToSet(ParseRule(parts)) = {Rule3("MATCH", Blank, parts[2])}
    BY <2>1, <2>2, OneElement
  <2> QED
    BY <1>2, <2>3
<1>3. CASE Len(parts) >= 3 /\ parts[1] # "MATCH"
  <2>1. ParseRule(parts) = <<Rule3(parts[1], parts[2], parts[3])>>
    BY <1>3 DEF ParseRule
  <2>2. Rule3(parts[1], parts[2], parts[3]) \in Rules3
    <3>1. parts[1] \in Text /\ parts[2] \in Text /\ parts[3] \in Text \ {Blank}
      BY <1>1, <1>3
    <3> QED
      BY <3>1, Rule3Fact
  <2>3. /\ ParseRule(parts) \in Seq(Rules3)
        /\ ToSet(ParseRule(parts)) = {Rule3(parts[1], parts[2], parts[3])}
    BY <2>1, <2>2, OneElement
  <2> QED
    BY <1>3, <2>3
<1>4. CASE ~ (Len(parts) >= 2 /\ parts[1] = "MATCH") /\ ~ (Len(parts) >= 3 /\ parts[1] # "MATCH")
  <2>1. ParseRule(parts) = <<>>
    BY <1>4 DEF ParseRule
  <2> QED
    BY <1>4, <2>1, NoElement
<1> QED
  BY <1>2, <1>3, <1>4

\* An entry of a rule set leads to rules with the target of the set, and to one
\* that puts something into the plan for dest only if it names it.
LEMMA EntryRuleFact ==
  ASSUME NEW e \in [mark : Text, parts : Seq(Text)], NEW b, NEW t \in Text \ {Blank},
         NEW dest,
         b \in {"domain", "ipcidr", "ip-cidr"} => (Len(e.parts) > 1 => e.parts[1] \in ExpandedTypes)
  PROVE  /\ EntryRule(e, b, t) \in Seq(Rules3)
         /\ \A x \in ToSet(EntryRule(e, b, t)) : x.target = t
         /\ Names1(e, b, dest) <=> ToSet(EntryRule(e, b, t)) \cap Hitting3(dest) # {}
<1> DEFINE parts == e.parts
           rule == EntryRule(e, b, t)
<1>1. /\ parts \in Seq(Text) /\ Len(parts) \in Nat /\ \A i \in 1 .. Len(parts) : parts[i] \in Text
      /\ parts = <<>> <=> Len(parts) = 0
  OBVIOUS
<1>20. "MATCH" \in Text /\ Blank \in Text 
  BY TextAssumption
<1>2. ASSUME rule = <<>>, ~ Names1(e, b, dest)
      PROVE  /\ rule \in Seq(Rules3) /\ \A x \in ToSet(rule) : x.target = t
             /\ Names1(e, b, dest) <=> ToSet(rule) \cap Hitting3(dest) # {}
  BY <1>2, NoElement
<1>3. ASSUME NEW r \in Rules3, rule = <<r>>, r.target = t, Names1(e, b, dest) <=> r \in Hitting3(dest)
      PROVE  /\ rule \in Seq(Rules3) /\ \A x \in ToSet(rule) : x.target = t
             /\ Names1(e, b, dest) <=> ToSet(rule) \cap Hitting3(dest) # {}
  BY <1>3, OneElement
<1> HIDE DEF rule
<1>4. CASE e.mark = "#" \/ parts = <<>>
  <2>1. rule = <<>>
    BY <1>4 DEF EntryRule, rule
  <2>2. ~ Names1(e, b, dest)
    BY <1>1, <1>4 DEF Names1
  <2> QED
    BY <1>2, <2>1, <2>2 DEF rule
<1> DEFINE typed == Len(parts) >= 2 /\ parts[1] \in ExpandedTypes
<1>5. CASE e.mark # "#" /\ parts # <<>> /\ typed
  <2> DEFINE r == Rule3(parts[1], parts[2], t)
  <2>1. rule = <<r>>
    BY <1>5 DEF EntryRule, rule
  <2>2. r \in Rules3 /\ r.target = t /\ r.type = parts[1] /\ r.payload = parts[2]
    <3>1. parts[1] \in Text /\ parts[2] \in Text
      BY <1>1, <1>20, <1>5
    <3> QED
      BY <3>1, Rule3Fact
  <2>3. parts[1] # "MATCH"
    BY <1>5 DEF ExpandedTypes
  <2>4. Names1(e, b, dest) <=> Kind(parts[1], parts[2]) \notin Silent /\ parts[2] = dest
    BY <1>1, <1>5, <2>3 DEF Names1
  <2> HIDE DEF r
  <2>5. r \in Hitting3(dest) <=> Kind(parts[1], parts[2]) \notin Silent /\ parts[2] = dest
    BY <2>2, <2>3 DEF Hitting3
  <2> QED
    BY <1>3, <2>1, <2>2, <2>4, <2>5 DEF rule
<1>6. CASE e.mark # "#" /\ parts # <<>> /\ ~ typed /\ b \in {"domain", "ipcidr", "ip-cidr"}
  <2>0. ~ (Len(parts) > 1)
    BY <1>1, <1>6
  <2>1. Len(parts) = 1 /\ parts[1] \in Text
    <3>1. Len(parts) \in Nat /\ Len(parts) # 0
      BY <1>1, <1>6
    <3>2. ASSUME NEW n \in Nat, n # 0, ~ (n > 1) PROVE n = 1
      BY <3>2
    <3>3. Len(parts) = 1
      <4> HIDE DEF parts
      <4> QED
        BY <2>0, <3>1, <3>2
    <3> QED
      BY <1>1, <3>3
  <2> DEFINE type == IF b = "domain" THEN DomainType(e.mark)
                     ELSE IF e.mark = "v6" THEN "IP-CIDR6" ELSE "IP-CIDR"
             r == Rule3(type, parts[1], t)
  <2>2. rule = <<r>>
    BY <1>6 DEF EntryRule, rule
  <2>3. type \in {"DOMAIN", "DOMAIN-SUFFIX", "DOMAIN-KEYWORD", "IP-CIDR", "IP-CIDR6"}
    BY DEF DomainType
  <2>4. type \in Text /\ type # "MATCH" /\ \A p : Kind(type, p) \notin Silent
    <3> HIDE DEF type
    <3>1. type \in Text /\ type # "MATCH"
      BY <2>3, TextAssumption
    <3> QED
      BY <2>3, <3>1, KindFact
  <2> HIDE DEF type
  <2>5. r \in Rules3 /\ r.target = t /\ r.type = type /\ r.payload = parts[1]
    <3>1. parts[1] \in Text
      BY <1>20, <2>1
    <3> QED
      BY <2>4, <3>1, Rule3Fact
  <2>6. Names1(e, b, dest) <=> parts[1] = dest
    BY <1>6, <2>1 DEF Names1
  <2> HIDE DEF r
  <2>7. r \in Hitting3(dest) <=> parts[1] = dest
    BY <2>4, <2>5 DEF Hitting3
  <2> QED
    BY <1>3, <2>2, <2>5, <2>6, <2>7 DEF rule
<1>7. CASE e.mark # "#" /\ parts # <<>> /\ ~ typed /\ b \notin {"domain", "ipcidr", "ip-cidr"}
  <2>1. rule = IF ParseRule(parts) = <<>> THEN <<>> ELSE <<[ParseRule(parts)[1] EXCEPT !.target = t]>>
    BY <1>7 DEF EntryRule, rule
  <2>2. CASE Len(parts) >= 2 /\ parts[1] = "MATCH"
    <3> DEFINE r == Rule3("MATCH", Blank, t)
    <3>1. ParseRule(parts) = <<Rule3("MATCH", Blank, parts[2])>>
      BY <2>2 DEF ParseRule
    <3>2. rule = <<r>>
      <4> DEFINE r0 == Rule3("MATCH", Blank, parts[2])
      <4>1. [r0 EXCEPT !.target = t] = r
        BY Retarget
      <4> HIDE DEF r0
      <4>3. ParseRule(parts)[1] = r0
        BY <3>1 DEF r0
      <4>4. ParseRule(parts) # <<>>
        BY <3>1
      <4>5. rule = <<[r0 EXCEPT !.target = t]>>
        BY <2>1, <4>3, <4>4
      <4> QED
        BY <4>1, <4>5
    <3>3. r \in Rules3 /\ r.target = t /\ r.type = "MATCH"
      BY <1>20, Rule3Fact
    <3> HIDE DEF r
    <3>4. r \in Hitting3(dest) /\ Names1(e, b, dest)
      BY <1>1, <1>7, <2>2, <3>3, KindFact DEF Hitting3, Names1
    <3> QED
      BY <1>3, <3>2, <3>3, <3>4 DEF rule
  <2>3. CASE Len(parts) >= 3 /\ parts[1] # "MATCH"
    <3> DEFINE r == Rule3(parts[1], parts[2], t)
    <3>1. ParseRule(parts) = <<Rule3(parts[1], parts[2], parts[3])>>
      BY <2>3 DEF ParseRule
    <3>2. rule = <<r>>
      <4> DEFINE r0 == Rule3(parts[1], parts[2], parts[3])
      <4>1. [r0 EXCEPT !.target = t] = r
        BY Retarget
      <4> HIDE DEF r0
      <4>3. ParseRule(parts)[1] = r0
        BY <3>1 DEF r0
      <4>4. ParseRule(parts) # <<>>
        BY <3>1
      <4>5. rule = <<[r0 EXCEPT !.target = t]>>
        BY <2>1, <4>3, <4>4
      <4> QED
        BY <4>1, <4>5
    <3>3. r \in Rules3 /\ r.target = t /\ r.type = parts[1]
      <4>1. parts[1] \in Text /\ parts[2] \in Text
        BY <1>1, <1>20, <2>3
      <4> QED
        BY <4>1, Rule3Fact
    <3>4. Kind(parts[1], r.payload) \in Silent
      BY <1>1, <1>7, <2>3, KindFact
    <3> HIDE DEF r
    <3>5. r \notin Hitting3(dest)
      BY <3>3, <3>4 DEF Hitting3
    <3>6. ~ Names1(e, b, dest)
      BY <1>1, <1>7, <2>3 DEF Names1
    <3> QED
      BY <1>3, <3>2, <3>3, <3>5, <3>6 DEF rule
  <2>4. CASE ~ (Len(parts) >= 2 /\ parts[1] = "MATCH") /\ ~ (Len(parts) >= 3 /\ parts[1] # "MATCH")
    <3>1. rule = <<>>
      BY <2>1, <2>4 DEF ParseRule
    <3>2. ~ Names1(e, b, dest)
      BY <1>1, <1>7, <2>4 DEF Names1
    <3> QED
      BY <1>2, <3>1, <3>2 DEF rule
  <2> QED
    BY <2>2, <2>3, <2>4
<1> QED
  BY <1>4, <1>5, <1>6, <1>7 DEF rule

-----------------------------------------------------------------------------
(* The text of a document *)

LEMMA SeqWiden ==
  ASSUME NEW X, NEW s \in Seq(X), NEW Y, X \subseteq Y
  PROVE  s \in Seq(Y)
<1>1. ToSet(s) \subseteq Y
  BY DEF ToSet
<1> QED
  BY <1>1, SeqNarrow

\* all is s, then h, then t.
Follows(all, s, h, t, X) ==
  /\ all \in Seq(X) /\ Len(all) = Len(s) + 1 + Len(t)
  /\ Len(s) \in Nat /\ Len(t) \in Nat
  /\ \A i \in 1 .. Len(s) : all[i] = s[i]
  /\ all[Len(s) + 1] = h
  /\ \A i \in 1 .. Len(t) : all[Len(s) + 1 + i] = t[i]

LEMMA ConcatHead ==
  ASSUME NEW X, NEW s \in Seq(X), NEW h \in X, NEW t \in Seq(X)
  PROVE  Follows(s \o <<h>> \o t, s, h, t, X)
<1> DEFINE a == s \o <<h>>
<1>1. /\ a \in Seq(X) /\ Len(a) = Len(s) + 1 /\ Len(s) \in Nat
      /\ \A i \in 1 .. Len(s) : a[i] = s[i]
      /\ a[Len(s) + 1] = h
  OBVIOUS
<1> HIDE DEF a
<1>2. /\ a \o t \in Seq(X) /\ Len(a \o t) = Len(a) + Len(t) /\ Len(t) \in Nat
      /\ \A i \in 1 .. Len(a) : (a \o t)[i] = a[i]
      /\ \A i \in 1 .. Len(t) : (a \o t)[Len(a) + i] = t[i]
  BY <1>1
<1>3. 1 .. Len(s) \subseteq 1 .. Len(a) /\ Len(s) + 1 \in 1 .. Len(a)
  BY <1>1
<1> QED
  BY <1>1, <1>2, <1>3 DEF a, Follows

Tops == {Top(key) : key \in {"proxies", "proxy-providers", "proxy-groups", "rules"}}

RuleLine(parts) == Line("rule", 1, Blank, parts, <<>>)

AnyLine == LineShape \cup Tops \cup {RuleLine(parts) : parts \in Seq(Text \ {Blank})}

ProxyLines(d) == FlattenSeq(d.proxies)

ProviderLines(d) == FlattenSeq([i \in DOMAIN d.providers |-> FlattenSeq(d.providers[i].items)])

GroupLines(d) == FlattenSeq(d.groups)

RuleLines(d) == [i \in DOMAIN d.rules |-> RuleLine(d.rules[i])]

\* The last lines of the sections.
ProxiesEnd(d) == 1 + Len(ProxyLines(d))

ProvidersEnd(d) == ProxiesEnd(d) + 1 + Len(ProviderLines(d))

GroupsEnd(d) == ProvidersEnd(d) + 1 + Len(GroupLines(d))

LEMMA ItemsFact ==
  /\ Item \subseteq Seq(LineShape) /\ GroupItem \subseteq Item
  /\ \A s : s \in Seq(Item) => s \in Seq(Seq(LineShape))
  /\ \A s : s \in Seq(GroupItem) => s \in Seq(Item)
<1>1. Item \subseteq Seq(LineShape) /\ GroupItem \subseteq Item
  BY DEF Item, GroupItem
<1> QED
  BY <1>1, SeqWiden

LEMMA DocumentFact ==
  ASSUME NEW d \in Document
  PROVE  /\ d.proxies \in Seq(Item) /\ d.groups \in Seq(GroupItem) /\ d.rules \in Seq(Seq(Text \ {Blank}))
         /\ d.providers \in Seq([name : Text, items : Seq(Item)]) /\ d.rulesets \in Seq(RuleSet)
         /\ Aligned(d.proxies) /\ Unique(d.providers) /\ Unique(d.rulesets)
  BY DocumentAssumption

\* What the sections are made of.
LEMMA SectionsFact ==
  ASSUME NEW d \in Document
  PROVE  /\ ProxyLines(d) \in Seq(LineShape)
         /\ ProviderLines(d) \in Seq(LineShape)
         /\ GroupLines(d) \in Seq(LineShape)
         /\ RuleLines(d) \in Seq({RuleLine(parts) : parts \in Seq(Text \ {Blank})})
         /\ Len(RuleLines(d)) = Len(d.rules)
         /\ \A i \in 1 .. Len(d.rules) : RuleLines(d)[i] = RuleLine(d.rules[i])
<1>1. d.proxies \in Seq(Seq(LineShape)) /\ d.groups \in Seq(Seq(LineShape))
  BY DocumentFact, ItemsFact
<1>2. ProxyLines(d) \in Seq(LineShape) /\ GroupLines(d) \in Seq(LineShape)
  BY <1>1, FlattenFact DEF ProxyLines, GroupLines
<1> DEFINE lines == [i \in DOMAIN d.providers |-> FlattenSeq(d.providers[i].items)]
<1>3. lines \in Seq(Seq(LineShape))
  <2>1. d.providers \in Seq([name : Text, items : Seq(Item)])
    BY DocumentFact
  <2>2. ASSUME NEW i \in DOMAIN d.providers PROVE FlattenSeq(d.providers[i].items) \in Seq(LineShape)
    <3>1. d.providers[i] \in [name : Text, items : Seq(Item)]
      BY <2>1, Element
    <3>2. d.providers[i].items \in Seq(Item)
      BY <3>1
    <3>3. d.providers[i].items \in Seq(Seq(LineShape))
      BY <3>2, ItemsFact
    <3> QED
      BY <3>3, FlattenFact
  <2>3. DOMAIN d.providers = 1 .. Len(d.providers) /\ Len(d.providers) \in Nat
    BY <2>1
  <2> QED
    BY <2>2, <2>3
<1>4. ProviderLines(d) \in Seq(LineShape)
  <2> HIDE DEF lines
  <2>1. FlattenSeq(lines) \in Seq(LineShape)
    BY <1>3, FlattenFact
  <2> QED
    BY <2>1 DEF ProviderLines, lines
<1>5. d.rules \in Seq(Seq(Text \ {Blank})) /\ DOMAIN d.rules = 1 .. Len(d.rules) /\ Len(d.rules) \in Nat
  BY DocumentFact
<1>6. \A i \in DOMAIN d.rules : RuleLine(d.rules[i]) \in {RuleLine(parts) : parts \in Seq(Text \ {Blank})}
  <2>1. \A i \in DOMAIN d.rules : d.rules[i] \in Seq(Text \ {Blank})
    BY <1>5
  <2> QED
    BY <2>1
<1>7. /\ RuleLines(d) \in Seq({RuleLine(parts) : parts \in Seq(Text \ {Blank})})
      /\ Len(RuleLines(d)) = Len(d.rules)
      /\ \A i \in 1 .. Len(d.rules) : RuleLines(d)[i] = RuleLine(d.rules[i])
  BY <1>5, <1>6 DEF RuleLines
<1> QED
  BY <1>2, <1>4, <1>7

\* The line at every position of the text.
LEMMA TextFact ==
  ASSUME NEW d \in Document
  PROVE  LET text == TextLines(d)
         IN /\ text \in Seq(AnyLine)
            /\ Len(text) = GroupsEnd(d) + 1 + Len(d.rules)
            /\ text[1] = Top("proxies")
            /\ \A i \in 1 .. Len(ProxyLines(d)) : text[1 + i] = ProxyLines(d)[i]
            /\ text[ProxiesEnd(d) + 1] = Top("proxy-providers")
            /\ \A i \in 1 .. Len(ProviderLines(d)) : text[ProxiesEnd(d) + 1 + i] = ProviderLines(d)[i]
            /\ text[ProvidersEnd(d) + 1] = Top("proxy-groups")
            /\ \A i \in 1 .. Len(GroupLines(d)) : text[ProvidersEnd(d) + 1 + i] = GroupLines(d)[i]
            /\ text[GroupsEnd(d) + 1] = Top("rules")
            /\ \A i \in 1 .. Len(d.rules) : text[GroupsEnd(d) + 1 + i] = RuleLine(d.rules[i])
<1> DEFINE A == <<Top("proxies")>>
           B == ProxyLines(d)
           D == ProviderLines(d)
           F == GroupLines(d)
           H == RuleLines(d)
           t1 == A \o B
           t2 == t1 \o <<Top("proxy-providers")>> \o D
           t3 == t2 \o <<Top("proxy-groups")>> \o F
           t4 == t3 \o <<Top("rules")>> \o H
<1>1. TextLines(d) = t4
  BY DEF TextLines, ProxyLines, ProviderLines, GroupLines, RuleLines, RuleLine
<1>2. /\ Top("proxies") \in AnyLine /\ Top("proxy-providers") \in AnyLine
      /\ Top("proxy-groups") \in AnyLine /\ Top("rules") \in AnyLine
  BY DEF AnyLine, Tops
<1>3. /\ A \in Seq(AnyLine) /\ B \in Seq(AnyLine) /\ D \in Seq(AnyLine) /\ F \in Seq(AnyLine)
      /\ H \in Seq(AnyLine) /\ Len(A) = 1 /\ A[1] = Top("proxies")
      /\ Len(H) = Len(d.rules) /\ \A i \in 1 .. Len(d.rules) : H[i] = RuleLine(d.rules[i])
  <2>1. LineShape \subseteq AnyLine /\ {RuleLine(parts) : parts \in Seq(Text \ {Blank})} \subseteq AnyLine
    BY DEF AnyLine
  <2>2. A \in Seq(AnyLine) /\ Len(A) = 1 /\ A[1] = Top("proxies")
    BY <1>2
  <2> HIDE DEF B, D, F, H, A
  <2> QED
    BY <2>1, <2>2, SectionsFact, SeqWiden DEF B, D, F, H
<1> HIDE DEF A, B, D, F, H
<1>4. /\ t1 \in Seq(AnyLine) /\ Len(t1) = 1 + Len(B) /\ Len(B) \in Nat
      /\ t1[1] = Top("proxies") /\ \A i \in 1 .. Len(B) : t1[1 + i] = B[i]
  <2>1. /\ t1 \in Seq(AnyLine) /\ Len(t1) = Len(A) + Len(B) /\ Len(B) \in Nat
        /\ \A i \in 1 .. Len(A) : t1[i] = A[i]
        /\ \A i \in 1 .. Len(B) : t1[Len(A) + i] = B[i]
    <3>1. A \in Seq(AnyLine) /\ B \in Seq(AnyLine)
      BY <1>3
    <3> QED
      BY <3>1
  <2> HIDE DEF t1
  <2> QED
    BY <1>3, <2>1
<1> HIDE DEF t1
<1>5. /\ t2 \in Seq(AnyLine) /\ Len(t2) = Len(t1) + 1 + Len(D) /\ Len(t1) \in Nat /\ Len(D) \in Nat
      /\ \A i \in 1 .. Len(t1) : t2[i] = t1[i]
      /\ t2[Len(t1) + 1] = Top("proxy-providers")
      /\ \A i \in 1 .. Len(D) : t2[Len(t1) + 1 + i] = D[i]
  <2> HIDE DEF t2
  <2>1. Top("proxy-providers") \in AnyLine /\ t1 \in Seq(AnyLine) /\ D \in Seq(AnyLine)
    BY <1>2, <1>3, <1>4
  <2>2. Follows(t1 \o <<Top("proxy-providers")>> \o D, t1, Top("proxy-providers"), D, AnyLine)
    <3> HIDE DEF Top, AnyLine
    <3> QED
      BY <2>1, ConcatHead
  <2> QED
    BY <2>2 DEF Follows, t2
<1> HIDE DEF t2
<1>6. /\ t3 \in Seq(AnyLine) /\ Len(t3) = Len(t2) + 1 + Len(F) /\ Len(t2) \in Nat /\ Len(F) \in Nat
      /\ \A i \in 1 .. Len(t2) : t3[i] = t2[i]
      /\ t3[Len(t2) + 1] = Top("proxy-groups")
      /\ \A i \in 1 .. Len(F) : t3[Len(t2) + 1 + i] = F[i]
  <2> HIDE DEF t3
  <2>1. Top("proxy-groups") \in AnyLine /\ t2 \in Seq(AnyLine) /\ F \in Seq(AnyLine)
    BY <1>2, <1>3, <1>5
  <2>2. Follows(t2 \o <<Top("proxy-groups")>> \o F, t2, Top("proxy-groups"), F, AnyLine)
    <3> HIDE DEF Top, AnyLine
    <3> QED
      BY <2>1, ConcatHead
  <2> QED
    BY <2>2 DEF Follows, t3
<1> HIDE DEF t3
<1>7. /\ t4 \in Seq(AnyLine) /\ Len(t4) = Len(t3) + 1 + Len(H) /\ Len(t3) \in Nat /\ Len(H) \in Nat
      /\ \A i \in 1 .. Len(t3) : t4[i] = t3[i]
      /\ t4[Len(t3) + 1] = Top("rules")
      /\ \A i \in 1 .. Len(H) : t4[Len(t3) + 1 + i] = H[i]
  <2> HIDE DEF t4
  <2>1. Top("rules") \in AnyLine /\ t3 \in Seq(AnyLine) /\ H \in Seq(AnyLine)
    BY <1>2, <1>3, <1>6
  <2>2. Follows(t3 \o <<Top("rules")>> \o H, t3, Top("rules"), H, AnyLine)
    <3> HIDE DEF Top, AnyLine
    <3> QED
      BY <2>1, ConcatHead
  <2> QED
    BY <2>2 DEF Follows, t4
<1> HIDE DEF t4
<1>8. Len(t1) = ProxiesEnd(d) /\ Len(t2) = ProvidersEnd(d) /\ Len(t3) = GroupsEnd(d)
  BY <1>4, <1>5, <1>6 DEF ProxiesEnd, ProvidersEnd, GroupsEnd, B, D, F
<1>9. /\ \A i \in 1 .. Len(t1) : t4[i] = t1[i]
      /\ \A i \in 1 .. Len(t2) : t4[i] = t2[i]
  <2>1. 1 .. Len(t1) \subseteq 1 .. Len(t2) /\ 1 .. Len(t2) \subseteq 1 .. Len(t3)
    BY <1>5, <1>6
  <2> QED
    BY <1>5, <1>6, <1>7, <2>1
<1>10. /\ 1 \in 1 .. Len(t1) /\ \A i \in 1 .. Len(B) : 1 + i \in 1 .. Len(t1)
       /\ Len(t1) + 1 \in 1 .. Len(t2) /\ \A i \in 1 .. Len(D) : Len(t1) + 1 + i \in 1 .. Len(t2)
       /\ Len(t2) + 1 \in 1 .. Len(t3) /\ \A i \in 1 .. Len(F) : Len(t2) + 1 + i \in 1 .. Len(t3)
  BY <1>4, <1>5, <1>6
<1>11. t4[1] = Top("proxies") /\ \A i \in 1 .. Len(B) : t4[1 + i] = B[i]
  BY <1>4, <1>9, <1>10
<1>12. /\ t4[Len(t1) + 1] = Top("proxy-providers")
       /\ \A i \in 1 .. Len(D) : t4[Len(t1) + 1 + i] = D[i]
  BY <1>5, <1>9, <1>10
<1>13. /\ t4[Len(t2) + 1] = Top("proxy-groups")
       /\ \A i \in 1 .. Len(F) : t4[Len(t2) + 1 + i] = F[i]
  BY <1>6, <1>7, <1>10
<1>14. \A i \in 1 .. Len(d.rules) : t4[Len(t3) + 1 + i] = RuleLine(d.rules[i])
  BY <1>3, <1>7
<1> QED
  BY <1>1, <1>3, <1>7, <1>8, <1>11, <1>12, <1>13, <1>14 DEF B, D, F

-----------------------------------------------------------------------------
(* Where the line reader is *)

\* Names that the readers write are not empty.
LEMMA NotBlank ==
  /\ Blank \notin {"proxies", "proxy-providers", "proxy-groups", "rules"}
  /\ Blank \notin {"plugin-opts", "ws-opts", "ws-headers", "h2-opts", "http2-opts", "grpc-opts",
                   "headers", "reality-opts", "tls-opts", "h2mux", "mux", "smux"}
  /\ Blank \notin {"flow", "dash", "name", "first", "open", "key", "item", "rule", "top"}
  /\ Blank \notin {"proxies", "use", "type"}
  BY Zenon DEF Blank

\* The number of lines that are read.
At == Len(TextLines(doc)) - Len(todo)

SectionAt(n) ==
  IF n = 0 THEN Blank
  ELSE IF n <= ProxiesEnd(doc) THEN "proxies"
  ELSE IF n <= ProvidersEnd(doc) THEN Blank
  ELSE IF n <= GroupsEnd(doc) THEN "proxy-groups" ELSE "rules"

\* The lines behind At are still to be read, and the section is that of the
\* last line that was.
ReaderInv ==
  /\ doc \in Document
  /\ reader \in {"none", "yaml", "lines", "done"}
  /\ reader \in {"none", "lines"} =>
       /\ At \in 0 .. Len(TextLines(doc))
       /\ todo = SubSeq(TextLines(doc), At + 1, Len(TextLines(doc)))
       /\ section = SectionAt(At)
  /\ reader = "none" => At = 0

\* A line is read.
LineStep ==
  /\ reader = "lines" /\ reader' = "lines" /\ doc' = doc
  /\ At \in 0 .. Len(TextLines(doc)) - 1 /\ At' = At + 1
  /\ todo' = SubSeq(TextLines(doc), At + 2, Len(TextLines(doc)))

TopStep(n, key) == At = n /\ Current = Top(key) /\ ReadTop

ProxyStep ==
  /\ At \in 1 .. Len(ProxyLines(doc))
  /\ Current = ProxyLines(doc)[At] /\ section = "proxies"
  /\ ReadFlowNode \/ ReadNewNode \/ ReadNodeHeader \/ ReadNodeKey \/ ReadStray

ProviderStep ==
  /\ At \in ProxiesEnd(doc) + 1 .. ProvidersEnd(doc) - 1
  /\ section = Blank /\ ReadStray

GroupStep ==
  \E k \in 1 .. Len(GroupLines(doc)) :
    /\ At = ProvidersEnd(doc) + k
    /\ Current = GroupLines(doc)[k] /\ section = "proxy-groups"
    /\ ReadNewGroup \/ ReadGroupLine \/ ReadStray

RuleStep ==
  \E k \in 1 .. Len(doc.rules) :
    /\ At = GroupsEnd(doc) + k
    /\ Current = RuleLine(doc.rules[k]) /\ ReadRule

AnyLineStep ==
  \/ TopStep(0, "proxies") \/ TopStep(ProxiesEnd(doc), "proxy-providers")
  \/ TopStep(ProvidersEnd(doc), "proxy-groups") \/ TopStep(GroupsEnd(doc), "rules")
  \/ ProxyStep \/ ProviderStep \/ GroupStep \/ RuleStep

\* The ends of the sections are numbers.
LEMMA EndsFact ==
  ASSUME NEW d \in Document
  PROVE  /\ Len(ProxyLines(d)) \in Nat /\ Len(ProviderLines(d)) \in Nat /\ Len(GroupLines(d)) \in Nat
         /\ Len(d.rules) \in Nat
         /\ ProxiesEnd(d) \in Nat /\ ProvidersEnd(d) \in Nat /\ GroupsEnd(d) \in Nat
         /\ ProxiesEnd(d) = 1 + Len(ProxyLines(d))
         /\ ProvidersEnd(d) = ProxiesEnd(d) + 1 + Len(ProviderLines(d))
         /\ GroupsEnd(d) = ProvidersEnd(d) + 1 + Len(GroupLines(d))
         /\ Len(TextLines(d)) = GroupsEnd(d) + 1 + Len(d.rules)
<1>1. /\ Len(ProxyLines(d)) \in Nat /\ Len(ProviderLines(d)) \in Nat /\ Len(GroupLines(d)) \in Nat
      /\ Len(d.rules) \in Nat
  <2>1. /\ ProxyLines(d) \in Seq(LineShape) /\ ProviderLines(d) \in Seq(LineShape)
        /\ GroupLines(d) \in Seq(LineShape) /\ d.rules \in Seq(Seq(Text \ {Blank}))
    BY SectionsFact, DocumentFact
  <2> QED
    BY <2>1
<1>2. Len(TextLines(d)) = GroupsEnd(d) + 1 + Len(d.rules)
  BY TextFact
<1> QED
  BY <1>1, <1>2 DEF ProxiesEnd, ProvidersEnd, GroupsEnd

LEMMA SectionAtFact ==
  ASSUME doc \in Document, NEW n \in Nat
  PROVE  /\ n = 0 => SectionAt(n) = Blank
         /\ n \in 1 .. ProxiesEnd(doc) => SectionAt(n) = "proxies"
         /\ n \in ProxiesEnd(doc) + 1 .. ProvidersEnd(doc) => SectionAt(n) = Blank
         /\ n \in ProvidersEnd(doc) + 1 .. GroupsEnd(doc) => SectionAt(n) = "proxy-groups"
         /\ n > GroupsEnd(doc) => SectionAt(n) = "rules"
<1> DEFINE a == ProxiesEnd(doc)
           b == ProvidersEnd(doc)
           c == GroupsEnd(doc)
<1>1. a \in Nat /\ b \in Nat /\ c \in Nat /\ a <= b /\ b <= c
  <2> DEFINE p == Len(ProxyLines(doc))
             q == Len(ProviderLines(doc))
             g == Len(GroupLines(doc))
  <2>1. a \in Nat /\ b \in Nat /\ c \in Nat /\ p \in Nat /\ q \in Nat /\ g \in Nat
        /\ b = a + 1 + q /\ c = b + 1 + g
    BY EndsFact
  <2> HIDE DEF a, b, c, p, q, g
  <2> QED
    BY <2>1
<1>2. SectionAt(n) = IF n = 0 THEN Blank ELSE IF n <= a THEN "proxies" ELSE IF n <= b THEN Blank
                     ELSE IF n <= c THEN "proxy-groups" ELSE "rules"
  BY DEF SectionAt
<1> HIDE DEF a, b, c
<1>3. /\ n \in 1 .. a => n # 0 /\ n <= a
      /\ n \in a + 1 .. b => n # 0 /\ ~ (n <= a) /\ n <= b
      /\ n \in b + 1 .. c => n # 0 /\ ~ (n <= a) /\ ~ (n <= b) /\ n <= c
      /\ n > c => n # 0 /\ ~ (n <= a) /\ ~ (n <= b) /\ ~ (n <= c)
  BY <1>1
<1> QED
  BY <1>2, <1>3 DEF a, b, c

\* What the reader of the lines has before it.
LEMMA TodoFact ==
  ASSUME ReaderInv, reader = "lines"
  PROVE  /\ todo = <<>> <=> At = Len(TextLines(doc))
         /\ todo # <<>> =>
              /\ At \in 0 .. Len(TextLines(doc)) - 1
              /\ Current = TextLines(doc)[At + 1]
              /\ Tail(todo) = SubSeq(TextLines(doc), At + 2, Len(TextLines(doc)))
              /\ Len(Tail(todo)) = Len(todo) - 1 /\ Len(todo) \in Nat
<1> DEFINE text == TextLines(doc)
           n == At
<1>1. text \in Seq(AnyLine) /\ Len(text) \in Nat
  BY TextFact DEF ReaderInv
<1>2. n \in 0 .. Len(text) /\ todo = SubSeq(text, n + 1, Len(text))
  BY DEF ReaderInv
<1> HIDE DEF text, n
<1>3. /\ todo \in Seq(AnyLine) /\ Len(todo) = Len(text) - n
      /\ \A i \in 1 .. Len(todo) : todo[i] = text[n + i]
  BY <1>1, <1>2
<1>4. todo = <<>> <=> n = Len(text)
  <2>1. todo = <<>> <=> Len(todo) = 0
    BY <1>3
  <2>2. Len(text) - n = 0 <=> n = Len(text)
    BY <1>1, <1>2
  <2> QED
    BY <1>3, <2>1, <2>2
<1>5. ASSUME todo # <<>>
      PROVE  /\ n \in 0 .. Len(text) - 1 /\ Head(todo) = text[n + 1]
             /\ Tail(todo) = SubSeq(text, n + 2, Len(text))
             /\ Len(Tail(todo)) = Len(todo) - 1 /\ Len(todo) \in Nat
  <2>1. n \in 0 .. Len(text) - 1 /\ Len(todo) \in Nat /\ Len(todo) >= 1
    BY <1>1, <1>2, <1>3, <1>4, <1>5
  <2>2. Head(todo) = todo[1] /\ Len(Tail(todo)) = Len(todo) - 1 /\ Tail(todo) \in Seq(AnyLine)
        /\ \A i \in 1 .. Len(todo) - 1 : Tail(todo)[i] = todo[i + 1]
    BY <1>3, <1>5, <2>1
  <2>3. Head(todo) = text[n + 1]
    BY <1>3, <2>1, <2>2
  <2> DEFINE rest == SubSeq(text, n + 2, Len(text))
  <2>4. /\ rest \in Seq(AnyLine) /\ Len(rest) = Len(text) - n - 1
        /\ \A i \in 1 .. Len(rest) : rest[i] = text[n + 1 + i]
    BY <1>1, <2>1
  <2> HIDE DEF rest
  <2>5. Len(Tail(todo)) = Len(rest) /\ Len(rest) = Len(todo) - 1
    BY <1>1, <1>3, <2>1, <2>2, <2>4
  <2>6. ASSUME NEW i \in 1 .. Len(rest) PROVE Tail(todo)[i] = rest[i]
    <3>1. i \in 1 .. Len(todo) - 1 /\ i + 1 \in 1 .. Len(todo) /\ n + (i + 1) = n + 1 + i
      BY <1>1, <2>1, <2>5
    <3> QED
      BY <1>3, <2>2, <2>4, <3>1
  <2>7. Tail(todo) = rest
    <3> HIDE DEF rest
    <3> DEFINE t == Tail(todo)
    <3> HIDE DEF t
    <3>1. t \in Seq(AnyLine) /\ rest \in Seq(AnyLine) /\ Len(t) = Len(rest)
          /\ \A i \in 1 .. Len(rest) : t[i] = rest[i]
      BY <2>2, <2>4, <2>5, <2>6 DEF t
    <3>2. t = [i \in 1 .. Len(t) |-> t[i]] /\ rest = [i \in 1 .. Len(rest) |-> rest[i]]
      BY <3>1
    <3>3. t = rest
      BY <3>1, <3>2
    <3> QED
      BY <3>3 DEF t
  <2> QED
    BY <2>1, <2>2, <2>3, <2>7 DEF rest
<1> QED
  BY <1>4, <1>5 DEF text, n, Current

LEMMA KindsFact ==
  /\ \A l \in LineShape : l.kind \in {"flow", "dash", "name", "first", "open", "key", "item"}
  /\ \A key : Top(key).kind = "top" /\ Top(key).key = key
  /\ \A parts : RuleLine(parts).kind = "rule" /\ RuleLine(parts).val = parts
  BY DEF LineShape, Top, RuleLine, Line

LEMMA ReadingFact ==
  ASSUME ReaderInv, NEW kinds, NEW where, Reading(kinds, where)
  PROVE  LineStep /\ Current.kind \in kinds /\ section = where
<1>1. /\ reader = "lines" /\ todo # <<>> /\ todo' = Tail(todo) /\ doc' = doc /\ reader' = reader
      /\ Current.kind \in kinds /\ section = where
  BY DEF Reading
<1>2. /\ At \in 0 .. Len(TextLines(doc)) - 1
      /\ Tail(todo) = SubSeq(TextLines(doc), At + 2, Len(TextLines(doc)))
      /\ Len(Tail(todo)) = Len(todo) - 1 /\ Len(todo) \in Nat
  BY <1>1, TodoFact
<1>3. Len(TextLines(doc)) \in Nat
  BY TextFact DEF ReaderInv
<1>4. At' = Len(TextLines(doc)) - (Len(todo) - 1)
  BY <1>1, <1>2 DEF At
<1>5. At' = At + 1
  BY <1>2, <1>3, <1>4 DEF At
<1> QED
  BY <1>1, <1>2, <1>5 DEF LineStep

\* A step of the line reader reads the line that is next, with the action for
\* its section.
LEMMA StepCases ==
  ASSUME ReaderInv, Next
  PROVE  ReadYaml \/ ReadLines \/ ReadEnd \/ (LineStep /\ AnyLineStep)
<1> DEFINE Read == \/ ReadTop \/ ReadFlowNode \/ ReadNewNode \/ ReadNodeHeader \/ ReadNodeKey
                   \/ ReadNewGroup \/ ReadGroupLine \/ ReadRule \/ ReadStray
<1>1. SUFFICES ASSUME Read PROVE LineStep /\ AnyLineStep
  BY DEF Next
<1>2. LineStep
  BY <1>1, ReadingFact DEF ReadTop, ReadFlowNode, ReadNewNode, ReadNodeHeader, ReadNodeKey,
     ReadNewGroup, ReadGroupLine, ReadRule, ReadStray
<1>3. /\ Current.kind = "top" <=> ReadTop
      /\ Current.kind = "rule" => ReadRule \/ ReadStray
      /\ ReadFlowNode \/ ReadNewNode \/ ReadNodeHeader \/ ReadNodeKey => section = "proxies"
      /\ ReadNewGroup \/ ReadGroupLine => section = "proxy-groups"
      /\ ReadRule => section = "rules"
      /\ ReadStray => ~ (section = "rules" /\ Current.kind = "rule")
  BY <1>1 DEF Reading, ReadTop, ReadFlowNode, ReadNewNode, ReadNodeHeader, ReadNodeKey,
     ReadNewGroup, ReadGroupLine, ReadRule, ReadStray
<1> DEFINE text == TextLines(doc)
           a == ProxiesEnd(doc)
           b == ProvidersEnd(doc)
           c == GroupsEnd(doc)
           n == At
<1>4. /\ doc \in Document /\ section = SectionAt(n) /\ reader = "lines" /\ todo # <<>>
      /\ n \in 0 .. Len(text) - 1
  <2>1. todo # <<>>
    BY <1>1 DEF Reading, ReadTop, ReadFlowNode, ReadNewNode, ReadNodeHeader, ReadNodeKey,
       ReadNewGroup, ReadGroupLine, ReadRule, ReadStray
  <2> QED
    BY <1>2, <2>1 DEF LineStep, ReaderInv
<1>5. Current = text[n + 1]
  BY <1>4, TodoFact
<1>6. /\ a \in Nat /\ b \in Nat /\ c \in Nat /\ Len(text) = c + 1 + Len(doc.rules) /\ Len(doc.rules) \in Nat
      /\ a = 1 + Len(ProxyLines(doc)) /\ b = a + 1 + Len(ProviderLines(doc))
      /\ c = b + 1 + Len(GroupLines(doc))
      /\ Len(ProxyLines(doc)) \in Nat /\ Len(ProviderLines(doc)) \in Nat /\ Len(GroupLines(doc)) \in Nat
  BY <1>4, EndsFact
<1>7. /\ ProxyLines(doc) \in Seq(LineShape) /\ ProviderLines(doc) \in Seq(LineShape)
      /\ GroupLines(doc) \in Seq(LineShape)
  BY <1>4, SectionsFact
<1>8. /\ text[1] = Top("proxies")
      /\ \A i \in 1 .. Len(ProxyLines(doc)) : text[1 + i] = ProxyLines(doc)[i]
      /\ text[a + 1] = Top("proxy-providers")
      /\ \A i \in 1 .. Len(ProviderLines(doc)) : text[a + 1 + i] = ProviderLines(doc)[i]
      /\ text[b + 1] = Top("proxy-groups")
      /\ \A i \in 1 .. Len(GroupLines(doc)) : text[b + 1 + i] = GroupLines(doc)[i]
      /\ text[c + 1] = Top("rules")
      /\ \A i \in 1 .. Len(doc.rules) : text[c + 1 + i] = RuleLine(doc.rules[i])
  BY <1>4, TextFact
<1> HIDE DEF Read, text, a, b, c, n
<1> DEFINE p == Len(ProxyLines(doc))
           q == Len(ProviderLines(doc))
           g == Len(GroupLines(doc))
           r == Len(doc.rules)
<1>20. /\ a \in Nat /\ b \in Nat /\ c \in Nat /\ p \in Nat /\ q \in Nat /\ g \in Nat /\ r \in Nat
       /\ a = 1 + p /\ b = a + 1 + q /\ c = b + 1 + g /\ Len(text) = c + 1 + r
       /\ n \in Nat /\ n < c + 1 + r
  <2>1. /\ a \in Nat /\ b \in Nat /\ c \in Nat /\ p \in Nat /\ q \in Nat /\ g \in Nat /\ r \in Nat
        /\ a = 1 + p /\ b = a + 1 + q /\ c = b + 1 + g /\ Len(text) = c + 1 + r
    BY <1>6
  <2> HIDE DEF p, q, g, r
  <2> QED
    BY <1>4, <2>1
<1> HIDE DEF p, q, g, r
<1>9. /\ n = 0 \/ n \in 1 .. p \/ n = a \/ n \in a + 1 .. b - 1 \/ n = b
         \/ n \in b + 1 .. c - 1 \/ n = c \/ n \in c + 1 .. Len(text) - 1
  BY <1>20
<1>21. /\ n \in a + 1 .. b - 1 => n - a \in 1 .. q /\ n = a + (n - a)
       /\ n \in b + 1 .. c - 1 => n - b \in 1 .. g /\ n = b + (n - b)
       /\ n \in c + 1 .. Len(text) - 1 => n - c \in 1 .. r /\ n = c + (n - c)
  BY <1>20
<1>22. /\ n \in 1 .. p => n \in 1 .. a
       /\ n \in a + 1 .. b - 1 => n \in a + 1 .. b
       /\ n \in b + 1 .. c - 1 => n \in b + 1 .. c
       /\ n \in c + 1 .. Len(text) - 1 => n > c
  BY <1>20
<1>10. CASE n = 0
  <2>1. Current = Top("proxies")
    BY <1>5, <1>8, <1>10
  <2> QED
    BY <1>2, <1>3, <1>10, <2>1, KindsFact DEF AnyLineStep, TopStep, n
<1>11. CASE n = a
  <2>1. Current = Top("proxy-providers")
    BY <1>5, <1>8, <1>11
  <2> QED
    BY <1>2, <1>3, <1>11, <2>1, KindsFact DEF AnyLineStep, TopStep, n, a
<1>12. CASE n = b
  <2>1. Current = Top("proxy-groups")
    BY <1>5, <1>8, <1>12
  <2> QED
    BY <1>2, <1>3, <1>12, <2>1, KindsFact DEF AnyLineStep, TopStep, n, b
<1>13. CASE n = c
  <2>1. Current = Top("rules")
    BY <1>5, <1>8, <1>13
  <2> QED
    BY <1>2, <1>3, <1>13, <2>1, KindsFact DEF AnyLineStep, TopStep, n, c
<1>14. CASE n \in 1 .. p
  <2>1. Current = ProxyLines(doc)[n] /\ n \in DOMAIN ProxyLines(doc)
    <3>1. n + 1 = 1 + n
      BY <1>20
    <3> QED
      BY <1>5, <1>7, <1>8, <1>14, <3>1 DEF p
  <2>2. Current.kind \in {"flow", "dash", "name", "first", "open", "key", "item"}
    BY <1>7, <2>1, Element, KindsFact
  <2>3. section = "proxies"
    BY <1>4, <1>20, <1>22, <1>14, SectionAtFact DEF a
  <2>4. ReadFlowNode \/ ReadNewNode \/ ReadNodeHeader \/ ReadNodeKey \/ ReadStray
    BY <1>1, <1>3, <2>2, <2>3 DEF Read
  <2>5. ProxyStep
    BY <1>14, <2>1, <2>3, <2>4 DEF ProxyStep, n, p
  <2> QED
    BY <1>2, <2>5 DEF AnyLineStep
<1>15. CASE n \in a + 1 .. b - 1
  <2>1. PICK k \in 1 .. Len(ProviderLines(doc)) : n = a + k
    BY <1>15, <1>21 DEF q
  <2>2. Current = ProviderLines(doc)[k] /\ k \in DOMAIN ProviderLines(doc)
    <3>1. n + 1 = a + 1 + k
      BY <1>6, <2>1
    <3> QED
      BY <1>5, <1>7, <1>8, <3>1
  <2>3. Current.kind \in {"flow", "dash", "name", "first", "open", "key", "item"}
    BY <1>7, <2>2, Element, KindsFact
  <2>4. section = Blank
    BY <1>4, <1>20, <1>22, <1>15, SectionAtFact DEF a, b
  <2>5. ReadStray
    BY <1>1, <1>3, <2>3, <2>4, NotBlank DEF Read
  <2>6. ProviderStep
    BY <1>15, <2>4, <2>5 DEF ProviderStep, n, a, b
  <2> QED
    BY <1>2, <2>6 DEF AnyLineStep
<1>16. CASE n \in b + 1 .. c - 1
  <2>1. PICK k \in 1 .. Len(GroupLines(doc)) : n = b + k
    BY <1>16, <1>21 DEF g
  <2>2. Current = GroupLines(doc)[k] /\ k \in DOMAIN GroupLines(doc)
    <3>1. n + 1 = b + 1 + k
      BY <1>6, <2>1
    <3> QED
      BY <1>5, <1>7, <1>8, <3>1
  <2>3. Current.kind \in {"flow", "dash", "name", "first", "open", "key", "item"}
    BY <1>7, <2>2, Element, KindsFact
  <2>4. section = "proxy-groups"
    BY <1>4, <1>20, <1>22, <1>16, SectionAtFact DEF a, b, c
  <2>5. ReadNewGroup \/ ReadGroupLine \/ ReadStray
    BY <1>1, <1>3, <2>3, <2>4 DEF Read
  <2>6. GroupStep
    BY <2>1, <2>2, <2>4, <2>5 DEF GroupStep, n, b
  <2> QED
    BY <1>2, <2>6 DEF AnyLineStep
<1>17. CASE n \in c + 1 .. Len(text) - 1
  <2>1. PICK k \in 1 .. Len(doc.rules) : n = c + k
    BY <1>17, <1>21 DEF r
  <2>2. Current = RuleLine(doc.rules[k])
    <3>1. n + 1 = c + 1 + k
      BY <1>6, <2>1
    <3> QED
      BY <1>5, <1>8, <3>1
  <2>3. section = "rules"
    BY <1>4, <1>20, <1>22, <1>17, SectionAtFact DEF a, b, c
  <2>4. ReadRule
    BY <1>3, <2>2, <2>3, KindsFact
  <2>5. RuleStep
    BY <2>1, <2>2, <2>4 DEF RuleStep, n, c
  <2> QED
    BY <1>2, <2>5 DEF AnyLineStep
<1> QED
  BY <1>9, <1>10, <1>11, <1>12, <1>13, <1>14, <1>15, <1>16, <1>17

\* Where the reader is then is known from the document.
LEMMA ReaderStep == ReaderInv /\ [Next]_vars => ReaderInv'
<1> SUFFICES ASSUME ReaderInv, [Next]_vars PROVE ReaderInv'
  OBVIOUS
<1>1. CASE UNCHANGED vars
  BY <1>1 DEF vars, ReaderInv, At, SectionAt
<1>2. CASE ReadYaml
  BY <1>2 DEF ReadYaml, ReaderInv
<1>3. CASE ReadLines
  <2>1. UNCHANGED <<doc, todo, section>> /\ reader' = "lines" /\ reader = "none"
    BY <1>3 DEF ReadLines
  <2> QED
    BY <2>1 DEF ReaderInv, At, SectionAt
<1>4. CASE ReadEnd
  BY <1>4 DEF ReadEnd, ReaderInv
<1>5. CASE LineStep /\ AnyLineStep
  <2>1. /\ doc' = doc /\ At' = At + 1 /\ reader' = "lines" /\ doc \in Document
        /\ At \in 0 .. Len(TextLines(doc)) - 1
        /\ todo' = SubSeq(TextLines(doc), At + 2, Len(TextLines(doc)))
        /\ section = SectionAt(At)
    BY <1>5 DEF LineStep, ReaderInv
  <2> DEFINE n == At
             a == ProxiesEnd(doc)
             b == ProvidersEnd(doc)
             c == GroupsEnd(doc)
             p == Len(ProxyLines(doc))
             q == Len(ProviderLines(doc))
             g == Len(GroupLines(doc))
             r == Len(doc.rules)
             l == Len(TextLines(doc))
  <2>2. /\ a \in Nat /\ b \in Nat /\ c \in Nat /\ p \in Nat /\ q \in Nat /\ g \in Nat /\ r \in Nat
        /\ l \in Nat /\ a = 1 + p /\ b = a + 1 + q /\ c = b + 1 + g /\ n \in Nat /\ n < l
    <3>1. /\ a \in Nat /\ b \in Nat /\ c \in Nat /\ p \in Nat /\ q \in Nat /\ g \in Nat /\ r \in Nat
          /\ a = 1 + p /\ b = a + 1 + q /\ c = b + 1 + g /\ l = c + 1 + r /\ n \in 0 .. l - 1
      BY <2>1, EndsFact
    <3> HIDE DEF a, b, c, p, q, g, r, l, n
    <3> QED
      BY <3>1
  <2>7. n + 1 \in Nat
    BY <2>2
  <2>3. section' = SectionAt(At + 1)
    <3>1. /\ n = 0 => n + 1 \in 1 .. a
          /\ n = a => n + 1 \in a + 1 .. b
          /\ n = b => n + 1 \in b + 1 .. c
          /\ n = c => n + 1 > c
          /\ n \in 1 .. p => n + 1 \in 1 .. a
          /\ n \in a + 1 .. b - 1 => n + 1 \in a + 1 .. b
          /\ \A k \in 1 .. g : n = b + k => n + 1 \in b + 1 .. c
          /\ \A k \in 1 .. r : n = c + k => n + 1 > c
      <4> HIDE DEF a, b, c, p, q, g, r, l, n
      <4> QED
        BY <2>2
    <3>2. CASE TopStep(0, "proxies")
      <4>1. section' = "proxies" /\ At = 0
        BY <3>2, KindsFact DEF TopStep, ReadTop
      <4>2. SectionAt(n + 1) = "proxies"
        BY <2>1, <2>7, <3>1, <4>1, SectionAtFact
      <4> QED
        BY <4>1, <4>2
    <3>3. CASE TopStep(ProxiesEnd(doc), "proxy-providers")
      <4>1. section' = Blank /\ At = ProxiesEnd(doc)
        BY <3>3, KindsFact DEF TopStep, ReadTop
      <4>2. SectionAt(n + 1) = Blank
        BY <2>1, <2>7, <3>1, <4>1, SectionAtFact
      <4> QED
        BY <4>1, <4>2
    <3>4. CASE TopStep(ProvidersEnd(doc), "proxy-groups")
      <4>1. section' = "proxy-groups" /\ At = ProvidersEnd(doc)
        BY <3>4, KindsFact DEF TopStep, ReadTop
      <4>2. SectionAt(n + 1) = "proxy-groups"
        BY <2>1, <2>7, <3>1, <4>1, SectionAtFact
      <4> QED
        BY <4>1, <4>2
    <3>5. CASE TopStep(GroupsEnd(doc), "rules")
      <4>1. section' = "rules" /\ At = GroupsEnd(doc)
        BY <3>5, KindsFact DEF TopStep, ReadTop
      <4>2. SectionAt(n + 1) = "rules"
        BY <2>1, <2>7, <3>1, <4>1, SectionAtFact
      <4> QED
        BY <4>1, <4>2
    <3>6. CASE ProxyStep
      <4>1. section' = section /\ section = "proxies" /\ At \in 1 .. Len(ProxyLines(doc))
        BY <3>6 DEF ProxyStep, ReadFlowNode, ReadNewNode, ReadNodeHeader, ReadNodeKey, ReadStray
      <4>2. SectionAt(n + 1) = "proxies"
        BY <2>1, <2>7, <3>1, <4>1, SectionAtFact
      <4> QED
        BY <4>1, <4>2
    <3>7. CASE ProviderStep
      <4>1. section' = section /\ section = Blank /\ At \in ProxiesEnd(doc) + 1 .. ProvidersEnd(doc) - 1
        BY <3>7 DEF ProviderStep, ReadStray
      <4>2. SectionAt(n + 1) = Blank
        BY <2>1, <2>7, <3>1, <4>1, SectionAtFact
      <4> QED
        BY <4>1, <4>2
    <3>8. CASE GroupStep
      <4>1. section' = section /\ section = "proxy-groups"
            /\ \E k \in 1 .. Len(GroupLines(doc)) : At = ProvidersEnd(doc) + k
        BY <3>8 DEF GroupStep, ReadNewGroup, ReadGroupLine, ReadStray
      <4>2. SectionAt(n + 1) = "proxy-groups"
        BY <2>1, <2>7, <3>1, <4>1, SectionAtFact
      <4> QED
        BY <4>1, <4>2
    <3>9. CASE RuleStep
      <4>1. section' = section /\ section = "rules"
            /\ \E k \in 1 .. Len(doc.rules) : At = GroupsEnd(doc) + k
        BY <3>9 DEF RuleStep, ReadRule, Reading
      <4>2. SectionAt(n + 1) = "rules"
        BY <2>1, <2>7, <3>1, <4>1, SectionAtFact
      <4> QED
        BY <4>1, <4>2
    <3> QED
      BY <1>5, <3>2, <3>3, <3>4, <3>5, <3>6, <3>7, <3>8, <3>9 DEF AnyLineStep
  <2>4. SectionAt(At + 1) = SectionAt(At)'
    BY <2>1 DEF SectionAt
  <2>5. At + 1 \in 0 .. Len(TextLines(doc)) /\ At + 2 = At + 1 + 1
    <3> HIDE DEF n, l
    <3>1. n + 1 \in 0 .. l /\ n + 2 = n + 1 + 1
      BY <2>2
    <3> QED
      BY <3>1 DEF n, l
  <2>6. (At \in 0 .. Len(TextLines(doc)))' /\ (todo = SubSeq(TextLines(doc), At + 1, Len(TextLines(doc))))'
    BY <2>1, <2>5
  <2> QED
    BY <2>1, <2>3, <2>4, <2>6 DEF ReaderInv
<1> QED
  BY <1>1, <1>2, <1>3, <1>4, <1>5, StepCases

LEMMA ReaderStart == Init => ReaderInv
<1> SUFFICES ASSUME Init PROVE ReaderInv
  OBVIOUS
<1>1. doc \in Document /\ todo = TextLines(doc) /\ section = Blank /\ reader = "none"
  BY DEF Init
<1>2. TextLines(doc) \in Seq(AnyLine) /\ Len(TextLines(doc)) \in Nat
  BY <1>1, TextFact
<1>3. At = 0
  BY <1>1, <1>2 DEF At
<1>4. todo = SubSeq(TextLines(doc), 0 + 1, Len(TextLines(doc)))
  <2> DEFINE text == TextLines(doc)
  <2> HIDE DEF text
  <2>1. \A s \in Seq(AnyLine) : s = SubSeq(s, 0 + 1, Len(s))
    OBVIOUS
  <2> QED
    BY <1>1, <1>2, <2>1
<1> QED
  BY <1>1, <1>2, <1>3, <1>4, SectionAtFact DEF ReaderInv

-----------------------------------------------------------------------------
(* What is read so far *)

IsResult(x) == x \in [proxies : {x.proxies}, groups : {x.groups}, rules : {x.rules}]

Is(x, p, g, r) == IsResult(x) /\ x.proxies = p /\ x.groups = g /\ x.rules = r

LEMMA ResultFact ==
  ASSUME NEW x, IsResult(x), NEW p, NEW g, NEW r
  PROVE  /\ Is([x EXCEPT !.proxies = p], p, x.groups, x.rules)
         /\ Is([x EXCEPT !.groups = g], x.proxies, g, x.rules)
         /\ Is([x EXCEPT !.rules = r], x.proxies, x.groups, r)
         /\ Is([x EXCEPT !.proxies = p, !.groups = g], p, g, x.rules)
  BY DEF IsResult, Is

\* The configuration without notes, and the groups of it.
CleanNodes(nodes) == Only(nodes, {p \in ToSet(nodes) : p.name \notin Metadata})

KnownNames(x) == BuiltIn \cup NamesOf(CleanNodes(x.proxies)) \cup NamesOf(x.groups)

CleanGroups(x) ==
  LET groups == [i \in DOMAIN x.groups |-> Cleaned(x.groups[i], KnownNames(x))]
  IN Only(groups, {g \in ToSet(groups) : g.name # NoName /\ g.all # <<>>})

LEMMA SanitizeResult ==
  ASSUME NEW x, IsResult(x)
  PROVE  LET y == Sanitize(x)
         IN /\ IsResult(y) /\ y.rules = x.rules
            /\ y.proxies = CleanNodes(x.proxies) /\ y.groups = CleanGroups(x)
<1>1. Sanitize(x) = [x EXCEPT !.proxies = CleanNodes(x.proxies), !.groups = CleanGroups(x)]
  BY Zenon DEF Sanitize, CleanNodes, KnownNames, CleanGroups
<1>2. Is(Sanitize(x), CleanNodes(x.proxies), CleanGroups(x), x.rules)
  BY <1>1, ResultFact
<1> QED
  BY <1>2 DEF Is

LEMMA RecordResult ==
  ASSUME NEW p, NEW g, NEW r
  PROVE  LET x == [proxies |-> p, groups |-> g, rules |-> r]
         IN IsResult(x) /\ x.proxies = p /\ x.groups = g /\ x.rules = r
  BY DEF IsResult

\* What an action of the line reader adds to the result.
LEMMA AddedFact ==
  ASSUME IsResult(out)
  PROVE  /\ ReadTop => /\ IsResult(out') /\ out'.proxies = out.proxies \o WithName(node)
                       /\ out'.groups = out.groups \o WithName(group) /\ out'.rules = out.rules
         /\ ReadFlowNode => /\ IsResult(out') /\ out'.groups = out.groups /\ out'.rules = out.rules
                            /\ out'.proxies = out.proxies \o WithName(<<NodeFromFlow(Current.entries)>>)
         /\ ReadNewNode => /\ IsResult(out') /\ out'.groups = out.groups /\ out'.rules = out.rules
                           /\ out'.proxies = out.proxies \o WithName(node)
         /\ ReadNodeHeader \/ ReadNodeKey \/ ReadGroupLine \/ ReadStray \/ ReadLines => out' = out
         /\ ReadNewGroup => /\ IsResult(out') /\ out'.proxies = out.proxies /\ out'.rules = out.rules
                            /\ out'.groups = out.groups \o WithName(group)
         /\ ReadRule => /\ IsResult(out') /\ out'.proxies = out.proxies /\ out'.groups = out.groups
                        /\ out'.rules = out.rules \o ParseRule(Current.val)
         /\ ReadEnd => \E x : /\ IsResult(x) /\ x.rules = out.rules
                              /\ x.proxies = out.proxies \o WithName(node)
                              /\ x.groups = out.groups \o WithName(group)
                              /\ out' = Sanitize(x)
<1>1. ASSUME ReadTop
      PROVE  /\ IsResult(out') /\ out'.proxies = out.proxies \o WithName(node)
             /\ out'.groups = out.groups \o WithName(group) /\ out'.rules = out.rules
  <2>1. out' = [out EXCEPT !.proxies = out.proxies \o WithName(node), !.groups = out.groups \o WithName(group)]
    BY <1>1 DEF ReadTop
  <2>2. Is(out', out.proxies \o WithName(node), out.groups \o WithName(group), out.rules)
    BY <2>1, ResultFact
  <2> QED
    BY <2>2 DEF Is
<1>2. ASSUME ReadFlowNode
      PROVE  /\ IsResult(out') /\ out'.groups = out.groups /\ out'.rules = out.rules
             /\ out'.proxies = out.proxies \o WithName(<<NodeFromFlow(Current.entries)>>)
  <2>1. out' = [out EXCEPT !.proxies = out.proxies \o WithName(<<NodeFromFlow(Current.entries)>>)]
    BY <1>2 DEF ReadFlowNode
  <2>2. Is(out', out.proxies \o WithName(<<NodeFromFlow(Current.entries)>>), out.groups, out.rules)
    BY <2>1, ResultFact
  <2> QED
    BY <2>2 DEF Is
<1>3. ASSUME ReadNewNode
      PROVE  /\ IsResult(out') /\ out'.groups = out.groups /\ out'.rules = out.rules
             /\ out'.proxies = out.proxies \o WithName(node)
  <2>1. out' = [out EXCEPT !.proxies = out.proxies \o WithName(node)]
    BY <1>3 DEF ReadNewNode
  <2>2. Is(out', out.proxies \o WithName(node), out.groups, out.rules)
    BY <2>1, ResultFact
  <2> QED
    BY <2>2 DEF Is
<1>4. ReadNodeHeader \/ ReadNodeKey \/ ReadGroupLine \/ ReadStray \/ ReadLines => out' = out
  BY DEF ReadNodeHeader, ReadNodeKey, ReadGroupLine, ReadStray, ReadLines
<1>5. ASSUME ReadNewGroup
      PROVE  /\ IsResult(out') /\ out'.proxies = out.proxies /\ out'.rules = out.rules
             /\ out'.groups = out.groups \o WithName(group)
  <2>1. out' = [out EXCEPT !.groups = out.groups \o WithName(group)]
    BY <1>5 DEF ReadNewGroup
  <2>2. Is(out', out.proxies, out.groups \o WithName(group), out.rules)
    BY <2>1, ResultFact
  <2> QED
    BY <2>2 DEF Is
<1>6. ASSUME ReadRule
      PROVE  /\ IsResult(out') /\ out'.proxies = out.proxies /\ out'.groups = out.groups
             /\ out'.rules = out.rules \o ParseRule(Current.val)
  <2>1. out' = [out EXCEPT !.rules = out.rules \o ParseRule(Current.val)]
    BY <1>6 DEF ReadRule
  <2>2. Is(out', out.proxies, out.groups, out.rules \o ParseRule(Current.val))
    BY <2>1, ResultFact
  <2> QED
    BY <2>2 DEF Is
<1>7. ASSUME ReadEnd
      PROVE  \E x : /\ IsResult(x) /\ x.rules = out.rules
                    /\ x.proxies = out.proxies \o WithName(node)
                    /\ x.groups = out.groups \o WithName(group)
                    /\ out' = Sanitize(x)
  <2> DEFINE x == [out EXCEPT !.proxies = out.proxies \o WithName(node), !.groups = out.groups \o WithName(group)]
  <2>1. out' = Sanitize(x)
    BY <1>7 DEF ReadEnd
  <2>2. Is(x, out.proxies \o WithName(node), out.groups \o WithName(group), out.rules)
    BY ResultFact
  <2> HIDE DEF x
  <2> QED
    BY <2>1, <2>2 DEF Is
<1> QED
  BY <1>1, <1>2, <1>3, <1>4, <1>5, <1>6, <1>7

\* What YAML makes of a document, before it is cleaned.
LEMMA YamlResult ==
  ASSUME NEW d
  PROVE  \E x : IsResult(x) /\ x.rules = RulesFromYaml(d) /\ Yaml(d) = Sanitize(x)
  BY RecordResult DEF Yaml

-----------------------------------------------------------------------------
(* The rules that are read *)

Parsed(d) == [i \in DOMAIN d.rules |-> ParseRule(d.rules[i])]

\* The number of rules that the first n lines hold.
RulesBefore(n) == IF n <= GroupsEnd(doc) + 1 THEN 0 ELSE n - GroupsEnd(doc) - 1

LEMMA RulesBeforeFact ==
  ASSUME GroupsEnd(doc) \in Nat, NEW k \in Nat
  PROVE  RulesBefore(GroupsEnd(doc) + 1 + k) = k
<1>1. ASSUME NEW c \in Nat PROVE (IF c + 1 + k <= c + 1 THEN 0 ELSE c + 1 + k - c - 1) = k
  OBVIOUS
<1> QED
  BY <1>1 DEF RulesBefore

RulesInv ==
  /\ IsResult(out)
  /\ reader \in {"none", "lines"} =>
       \E f : /\ Joins(f, Parsed(doc), Rules3)
              /\ FlattenSeq(Parsed(doc)) = f[Len(Parsed(doc))]
              /\ out.rules = f[RulesBefore(At)]
  /\ reader = "yaml" => out.rules = RulesFromYaml(doc)
  /\ reader = "done" => out.rules = FlattenSeq(Parsed(doc))

LEMMA ParsedFact ==
  ASSUME NEW d \in Document
  PROVE  /\ Parsed(d) \in Seq(Seq(Rules3)) /\ Len(Parsed(d)) = Len(d.rules) /\ DOMAIN Parsed(d) = DOMAIN d.rules
         /\ DOMAIN d.rules = 1 .. Len(d.rules) /\ Len(d.rules) \in Nat
         /\ \A i \in 1 .. Len(d.rules) :
              Parsed(d)[i] = ParseRule(d.rules[i]) /\ d.rules[i] \in Seq(Text \ {Blank})
<1>1. d.rules \in Seq(Seq(Text \ {Blank}))
  BY DocumentFact
<1>2. DOMAIN d.rules = 1 .. Len(d.rules) /\ Len(d.rules) \in Nat
      /\ \A i \in 1 .. Len(d.rules) : d.rules[i] \in Seq(Text \ {Blank})
  BY <1>1
<1>3. \A i \in 1 .. Len(d.rules) : ParseRule(d.rules[i]) \in Seq(Rules3)
  BY <1>2, ParseRuleFact
<1> QED
  BY <1>2, <1>3 DEF Parsed

LEMMA RulesStart == Init => RulesInv
<1> SUFFICES ASSUME Init PROVE RulesInv
  OBVIOUS
<1>1. doc \in Document /\ reader = "none" /\ out = NothingRead /\ At = 0
  BY ReaderStart DEF Init, ReaderInv
<1>2. IsResult(out) /\ out.rules = <<>>
  BY <1>1, RecordResult DEF NothingRead
<1>3. RulesBefore(0) = 0
  BY <1>1, EndsFact DEF RulesBefore
<1>4. PICK f : Joins(f, Parsed(doc), Rules3) /\ FlattenSeq(Parsed(doc)) = f[Len(Parsed(doc))]
  BY <1>1, ParsedFact, FlattenRecursion
<1>5. f[0] = <<>>
  BY <1>4 DEF Joins
<1> QED
  BY <1>1, <1>2, <1>3, <1>4, <1>5 DEF RulesInv

LEMMA RulesStep == ReaderInv /\ RulesInv /\ [Next]_vars => RulesInv'
<1> SUFFICES ASSUME ReaderInv, RulesInv, [Next]_vars PROVE RulesInv'
  OBVIOUS
<1>0. IsResult(out)
  BY DEF RulesInv
<1>1. CASE UNCHANGED vars
  BY <1>1 DEF vars, RulesInv, At, RulesBefore, IsResult
<1>2. CASE ReadYaml
  <2>1. out' = Yaml(doc) /\ doc' = doc /\ reader' = "yaml"
    BY <1>2 DEF ReadYaml
  <2>2. PICK x : IsResult(x) /\ x.rules = RulesFromYaml(doc) /\ Yaml(doc) = Sanitize(x)
    BY YamlResult
  <2>3. IsResult(out') /\ out'.rules = RulesFromYaml(doc)
    BY <2>1, <2>2, SanitizeResult
  <2> QED
    BY <2>1, <2>3 DEF RulesInv, IsResult
<1>3. CASE ReadLines
  <2>1. UNCHANGED <<doc, todo, out>> /\ reader' = "lines" /\ reader = "none"
    BY <1>3 DEF ReadLines
  <2> QED
    BY <2>1 DEF RulesInv, At, RulesBefore, IsResult
<1>4. CASE ReadEnd
  <2>1. reader = "lines" /\ todo = <<>> /\ reader' = "done" /\ doc' = doc /\ doc \in Document
    BY <1>4 DEF ReadEnd, ReaderInv
  <2>2. PICK x : IsResult(x) /\ x.rules = out.rules /\ out' = Sanitize(x)
    BY <1>0, <1>4, AddedFact
  <2>3. IsResult(out') /\ out'.rules = out.rules
    BY <2>2, SanitizeResult
  <2>4. RulesBefore(At) = Len(Parsed(doc))
    <3> DEFINE c == GroupsEnd(doc)
               r == Len(doc.rules)
    <3>1. At = c + 1 + r /\ c \in Nat /\ r \in Nat
      BY <2>1, TodoFact, EndsFact
    <3> HIDE DEF c, r
    <3>2. (IF c + 1 + r <= c + 1 THEN 0 ELSE c + 1 + r - c - 1) = r
      BY <3>1
    <3> QED
      BY <2>1, <3>1, <3>2, ParsedFact DEF RulesBefore, c, r
  <2>5. out.rules = FlattenSeq(Parsed(doc))
    BY <2>1, <2>4 DEF RulesInv
  <2> QED
    BY <2>1, <2>3, <2>5 DEF RulesInv, IsResult
<1>5. CASE LineStep /\ AnyLineStep
  <2>1. reader = "lines" /\ reader' = "lines" /\ doc' = doc /\ At' = At + 1 /\ doc \in Document /\ At \in Nat
    <3>1. Len(TextLines(doc)) \in Nat
      BY TextFact DEF ReaderInv
    <3> QED
      BY <1>5, <3>1 DEF LineStep, ReaderInv
  <2>2. PICK f : /\ Joins(f, Parsed(doc), Rules3)
                 /\ FlattenSeq(Parsed(doc)) = f[Len(Parsed(doc))]
                 /\ out.rules = f[RulesBefore(At)]
    BY <2>1 DEF RulesInv
  <2>3. ASSUME IsResult(out'), out'.rules = f[RulesBefore(At + 1)] PROVE RulesInv'
    <3>1. RulesBefore(At)' = RulesBefore(At + 1)
      BY <2>1 DEF RulesBefore
    <3> QED
      BY <2>1, <2>2, <2>3, <3>1 DEF RulesInv, IsResult
  <2>4. CASE RuleStep
    <3>1. PICK k \in 1 .. Len(doc.rules) :
            At = GroupsEnd(doc) + k /\ Current = RuleLine(doc.rules[k]) /\ ReadRule
      BY <2>4 DEF RuleStep
    <3>2. IsResult(out') /\ out'.rules = out.rules \o ParseRule(doc.rules[k])
      BY <1>0, <3>1, AddedFact, KindsFact
    <3>3. RulesBefore(At) = k - 1 /\ RulesBefore(At + 1) = k
      <4> DEFINE c == GroupsEnd(doc)
                 r == Len(doc.rules)
      <4>1. c \in Nat /\ k \in 1 .. r /\ r \in Nat /\ At = c + k
        BY <2>1, <3>1, EndsFact
      <4> HIDE DEF c, r
      <4>2. k - 1 \in Nat /\ k \in Nat /\ c + k = c + 1 + (k - 1) /\ c + k + 1 = c + 1 + k
        BY <4>1
      <4> QED
        BY <4>1, <4>2, RulesBeforeFact DEF c
    <3>4. f[k] = f[k - 1] \o ParseRule(doc.rules[k])
      BY <2>1, <2>2, ParsedFact DEF Joins
    <3> QED
      BY <2>2, <2>3, <3>2, <3>3, <3>4
  <2>5. CASE ~ RuleStep
    <3>1. IsResult(out') /\ out'.rules = out.rules
      BY <1>0, <1>5, <2>5, AddedFact DEF AnyLineStep, TopStep, ProxyStep, ProviderStep, GroupStep
    <3>2. At <= GroupsEnd(doc)
      <4> DEFINE n == At
                 a == ProxiesEnd(doc)
                 b == ProvidersEnd(doc)
                 c == GroupsEnd(doc)
                 p == Len(ProxyLines(doc))
                 q == Len(ProviderLines(doc))
                 g == Len(GroupLines(doc))
      <4>1. /\ a \in Nat /\ b \in Nat /\ c \in Nat /\ p \in Nat /\ q \in Nat /\ g \in Nat
            /\ a = 1 + p /\ b = a + 1 + q /\ c = b + 1 + g /\ n \in Nat
        BY <2>1, EndsFact
      <4>2. n = 0 \/ n = a \/ n = b \/ n = c \/ n \in 1 .. p \/ n \in a + 1 .. b - 1
            \/ \E k \in 1 .. g : n = b + k
        BY <1>5, <2>5 DEF AnyLineStep, TopStep, ProxyStep, ProviderStep, GroupStep
      <4> HIDE DEF n, a, b, c, p, q, g
      <4>3. n <= c
        BY <4>1, <4>2
      <4> QED
        BY <4>3 DEF n, c
    <3>3. RulesBefore(At) = 0 /\ RulesBefore(At + 1) = 0
      <4> DEFINE n == At
                 c == GroupsEnd(doc)
      <4>1. n \in Nat /\ c \in Nat /\ n <= c
        BY <2>1, <3>2, EndsFact
      <4> HIDE DEF n, c
      <4>2. n <= c + 1 /\ n + 1 <= c + 1
        BY <4>1
      <4> QED
        BY <4>2 DEF RulesBefore, n, c
    <3> QED
      BY <2>2, <2>3, <3>1, <3>3
  <2> QED
    BY <2>4, <2>5
<1> QED
  BY <1>1, <1>2, <1>3, <1>4, <1>5, StepCases

-----------------------------------------------------------------------------
(* Which line decides *)

\* The first element for which something holds.
LEMMA SelectFact ==
  ASSUME NEW I \in SUBSET Nat, 0 \notin I
  PROVE  LET i == IF I # {} THEN Min(I) ELSE 0
         IN /\ i = 0 <=> I = {}
            /\ I # {} => i \in I /\ \A k \in I : i <= k
  BY MinIsLeast

\* Whether a set of that name says something about dest.
SetNames(sets, name, dest) ==
  \E s \in ToSet(sets) : s.name = name /\ \E e \in ToSet(s.payload) : Names1(e, s.behavior, dest)

\* What takes the place of a rule has its target, and hits what it covers.
LEMMA ExpandedFact ==
  ASSUME NEW r \in Rules3, NEW sets \in Seq(RuleSet), Unique(sets), NEW dest
  PROVE  /\ Expanded(r, sets) \in Seq(Rules3)
         /\ \A x \in ToSet(Expanded(r, sets)) : x.target = r.target
         /\ ToSet(Expanded(r, sets)) \cap Hitting3(dest) # {}
              <=> IF r.type = "RULE-SET" THEN SetNames(sets, r.payload, dest) ELSE r \in Hitting3(dest)
<1> DEFINE I == {k \in 1 .. Len(sets) : sets[k].name = r.payload /\ sets[k].payload # <<>>}
           i == SelectInSeq(sets, LAMBDA s : s.name = r.payload /\ s.payload # <<>>)
           ex == Expanded(r, sets)
<1>1. i = IF I # {} THEN Min(I) ELSE 0
  BY DEF SelectInSeq
<1>2. I \in SUBSET Nat /\ 0 \notin I /\ I \subseteq 1 .. Len(sets) /\ DOMAIN sets = 1 .. Len(sets)
  OBVIOUS
<1>3. /\ i = 0 <=> I = {}
      /\ I # {} => i \in I
  <2> HIDE DEF I, i
  <2> QED
    BY <1>1, <1>2, SelectFact
<1>4. ex = IF r.type # "RULE-SET" \/ i = 0 THEN <<r>>
           ELSE FlattenSeq([k \in DOMAIN sets[i].payload |->
                              EntryRule(sets[i].payload[k], sets[i].behavior, r.target)])
  BY DEF Expanded
<1> HIDE DEF i, ex
<1>5. CASE r.type # "RULE-SET"
  <2>1. ex = <<r>>
    BY <1>4, <1>5
  <2>2. ex \in Seq(Rules3) /\ ToSet(ex) = {r}
    BY <2>1, OneElement
  <2> QED
    BY <1>5, <2>2 DEF ex
<1>6. CASE r.type = "RULE-SET" /\ I = {}
  <2>1. ex = <<r>>
    BY <1>3, <1>4, <1>6
  <2>2. ex \in Seq(Rules3) /\ ToSet(ex) = {r}
    BY <2>1, OneElement
  <2>3. r \notin Hitting3(dest)
    BY <1>6, KindFact DEF Hitting3
  <2>4. ~ SetNames(sets, r.payload, dest)
    <3>1. SUFFICES ASSUME NEW k \in 1 .. Len(sets), sets[k].name = r.payload,
                          NEW e \in ToSet(sets[k].payload)
                   PROVE  FALSE
      BY <1>2 DEF SetNames, ToSet
    <3>2. sets[k].payload # <<>>
      BY <3>1 DEF ToSet
    <3> QED
      BY <1>6, <3>1, <3>2
  <2> QED
    BY <1>6, <2>2, <2>3, <2>4 DEF ex
<1>7. CASE r.type = "RULE-SET" /\ I # {}
  <2> DEFINE s == sets[i]
             ss == [k \in DOMAIN s.payload |-> EntryRule(s.payload[k], s.behavior, r.target)]
  <2>1. i \in DOMAIN sets /\ s.name = r.payload /\ s \in RuleSet /\ s \in ToSet(sets)
    <3>1. i \in 1 .. Len(sets) /\ sets[i].name = r.payload
      BY <1>3, <1>7
    <3> QED
      BY <1>2, <3>1, Element
  <2>2. ex = FlattenSeq(ss)
    BY <1>2, <1>3, <1>4, <1>7
  <2>3. /\ s.payload \in Seq([mark : Text, parts : Seq(Text)])
        /\ s.behavior \in {"domain", "ipcidr", "ip-cidr"} =>
             \A k \in DOMAIN s.payload :
               Len(s.payload[k].parts) > 1 => s.payload[k].parts[1] \in ExpandedTypes
    BY <2>1 DEF RuleSet
  <2> HIDE DEF s
  <2>4. DOMAIN s.payload = 1 .. Len(s.payload) /\ Len(s.payload) \in Nat
    BY <2>3
  <2>5. ASSUME NEW k \in DOMAIN s.payload
        PROVE  /\ ss[k] \in Seq(Rules3)
               /\ \A x \in ToSet(ss[k]) : x.target = r.target
               /\ Names1(s.payload[k], s.behavior, dest) <=> ToSet(ss[k]) \cap Hitting3(dest) # {}
    <3>1. s.payload[k] \in [mark : Text, parts : Seq(Text)] /\ r.target \in Text \ {Blank}
      BY <2>3, Element DEF Rules3
    <3>2. s.behavior \in {"domain", "ipcidr", "ip-cidr"} =>
            (Len(s.payload[k].parts) > 1 => s.payload[k].parts[1] \in ExpandedTypes)
      BY <2>3
    <3>3. ss[k] = EntryRule(s.payload[k], s.behavior, r.target)
      OBVIOUS
    <3> HIDE DEF ss
    <3> DEFINE e == s.payload[k]
               b == s.behavior
               t == r.target
    <3>4. /\ e \in [mark : Text, parts : Seq(Text)] /\ t \in Text \ {Blank}
          /\ b \in {"domain", "ipcidr", "ip-cidr"} => (Len(e.parts) > 1 => e.parts[1] \in ExpandedTypes)
      BY <3>1, <3>2
    <3> HIDE DEF e, b, t
    <3>5. /\ EntryRule(e, b, t) \in Seq(Rules3)
          /\ \A x \in ToSet(EntryRule(e, b, t)) : x.target = t
          /\ Names1(e, b, dest) <=> ToSet(EntryRule(e, b, t)) \cap Hitting3(dest) # {}
      BY <3>4, EntryRuleFact
    <3> QED
      BY <3>3, <3>5 DEF e, b, t
  <2>6. ss \in Seq(Seq(Rules3)) /\ DOMAIN ss = DOMAIN s.payload
    <3>1. \A k \in DOMAIN s.payload : EntryRule(s.payload[k], s.behavior, r.target) \in Seq(Rules3)
      BY <2>5
    <3> QED
      BY <2>4, <3>1
  <2> HIDE DEF ss
  <2>7. ex \in Seq(Rules3) /\ ToSet(ex) = UNION {ToSet(ss[k]) : k \in DOMAIN s.payload}
    BY <2>2, <2>6, FlattenFact
  <2>8. \A x \in ToSet(ex) : x.target = r.target
    BY <2>5, <2>7
  <2>9. ToSet(ex) \cap Hitting3(dest) # {}
          <=> \E k \in DOMAIN s.payload : Names1(s.payload[k], s.behavior, dest)
    BY <2>5, <2>7
  <2>10. (\E k \in DOMAIN s.payload : Names1(s.payload[k], s.behavior, dest))
           <=> \E e \in ToSet(s.payload) : Names1(e, s.behavior, dest)
    BY DEF ToSet
  <2>11. \A t \in ToSet(sets) : t.name = r.payload <=> t = s
    BY <2>1 DEF Unique, ToSet, s
  <2>12. SetNames(sets, r.payload, dest) <=> \E e \in ToSet(s.payload) : Names1(e, s.behavior, dest)
    BY <2>1, <2>11 DEF SetNames
  <2> QED
    BY <1>7, <2>7, <2>8, <2>9, <2>10, <2>12 DEF ex
<1> QED
  BY <1>5, <1>6, <1>7

\* What the reader in use makes of a rule that it reads.
Made(r) == IF reader = "yaml" THEN Expanded(r, doc.rulesets) ELSE <<r>>

\* The rules that lead to one which dest hits.
Leading3(dest) == {r \in Rules3 : ToSet(Made(r)) \cap Hitting3(dest) # {}}

LEMMA MadeFact ==
  ASSUME doc \in Document, NEW r \in Rules3, NEW dest
  PROVE  /\ Made(r) \in Seq(Rules3)
         /\ \A x \in ToSet(Made(r)) : x.target = r.target
         /\ r \in Leading3(dest)
              <=> IF reader = "yaml" /\ r.type = "RULE-SET" THEN SetNames(doc.rulesets, r.payload, dest)
                  ELSE r \in Hitting3(dest)
<1>1. CASE reader = "yaml"
  <2>1. Made(r) = Expanded(r, doc.rulesets)
    BY <1>1 DEF Made
  <2>2. doc.rulesets \in Seq(RuleSet) /\ Unique(doc.rulesets)
    BY DocumentFact
  <2>3. /\ Made(r) \in Seq(Rules3)
        /\ \A x \in ToSet(Made(r)) : x.target = r.target
        /\ ToSet(Made(r)) \cap Hitting3(dest) # {}
             <=> IF r.type = "RULE-SET" THEN SetNames(doc.rulesets, r.payload, dest) ELSE r \in Hitting3(dest)
    BY <2>1, <2>2, ExpandedFact
  <2> QED
    BY <1>1, <2>3 DEF Leading3
<1>2. CASE reader # "yaml"
  <2>1. Made(r) \in Seq(Rules3) /\ ToSet(Made(r)) = {r}
    BY <1>2, OneElement DEF Made
  <2> QED
    BY <1>2, <2>1 DEF Leading3
<1> QED
  BY <1>1, <1>2

\* A line covers dest if the rule that is read from it leads to one which dest
\* hits, and that has the target of the line.
LEMMA LineFact ==
  ASSUME doc \in Document, NEW parts \in Seq(Text \ {Blank}), NEW dest
  PROVE  /\ Covers(parts, dest) <=> ToSet(ParseRule(parts)) \cap Leading3(dest) # {}
         /\ \A x \in ToSet(ParseRule(parts)) : x \in Rules3 /\ x.target = TargetOf(parts)
<1>1. Len(parts) \in Nat /\ \A i \in 1 .. Len(parts) : parts[i] \in Text \ {Blank}
  OBVIOUS
<1>2. /\ \A r : r \in ToSet(ParseRule(parts)) <=>
              \/ /\ Len(parts) >= 2 /\ parts[1] = "MATCH"
                 /\ r = Rule3("MATCH", Blank, parts[2])
              \/ /\ Len(parts) >= 3 /\ parts[1] # "MATCH"
                 /\ r = Rule3(parts[1], parts[2], parts[3])
  BY ParseRuleFact
<1>3. CASE Len(parts) >= 2 /\ parts[1] = "MATCH"
  <2> DEFINE x == Rule3("MATCH", Blank, parts[2])
  <2>1. x \in Rules3 /\ x.type = "MATCH" /\ x.target = parts[2]
    <3>1. parts[2] \in Text \ {Blank} /\ "MATCH" \in Text /\ Blank \in Text
      BY <1>1, <1>3, TextAssumption
    <3> QED
      BY <3>1, Rule3Fact
  <2> HIDE DEF x
  <2>2. ToSet(ParseRule(parts)) = {x}
    BY <1>2, <1>3 DEF x
  <2>3. x \in Leading3(dest)
    <3>1. x \in Hitting3(dest) /\ x.type # "RULE-SET"
      BY <2>1, KindFact DEF Hitting3
    <3> QED
      BY <2>1, <3>1, MadeFact
  <2>4. Covers(parts, dest) /\ TargetOf(parts) = parts[2]
    BY <1>1, <1>3 DEF Covers, TargetOf
  <2> QED
    BY <2>1, <2>2, <2>3, <2>4
<1>4. CASE Len(parts) >= 3 /\ parts[1] # "MATCH"
  <2> DEFINE x == Rule3(parts[1], parts[2], parts[3])
  <2>1. x \in Rules3 /\ x.type = parts[1] /\ x.payload = parts[2] /\ x.target = parts[3]
    <3>1. parts[1] \in Text /\ parts[2] \in Text /\ parts[3] \in Text \ {Blank}
      BY <1>1, <1>4
    <3> QED
      BY <3>1, Rule3Fact
  <2> HIDE DEF x
  <2>2. ToSet(ParseRule(parts)) = {x}
    BY <1>2, <1>4 DEF x
  <2>3. x \in Hitting3(dest) <=> Kind(parts[1], parts[2]) \notin Silent /\ parts[2] = dest
    BY <1>4, <2>1 DEF Hitting3
  <2>4. x \in Leading3(dest)
          <=> IF reader = "yaml" /\ parts[1] = "RULE-SET" THEN SetNames(doc.rulesets, parts[2], dest)
              ELSE x \in Hitting3(dest)
    BY <2>1, MadeFact
  <2>5. Covers(parts, dest) <=> \/ Kind(parts[1], parts[2]) \notin Silent /\ parts[2] = dest
                                \/ /\ parts[1] = "RULE-SET" /\ reader = "yaml"
                                   /\ SetNames(doc.rulesets, parts[2], dest)
    <3>1. Len(parts) > 1 /\ Len(parts) > 2
      BY <1>1, <1>4
    <3> QED
      BY Zenon, <1>4, <3>1 DEF Covers, SetNames
  <2>6. TargetOf(parts) = parts[3]
    BY <1>4 DEF TargetOf
  <2> QED
    BY <2>1, <2>2, <2>3, <2>4, <2>5, <2>6, KindFact
<1>5. CASE ~ (Len(parts) >= 2 /\ parts[1] = "MATCH") /\ ~ (Len(parts) >= 3 /\ parts[1] # "MATCH")
  <2>1. ToSet(ParseRule(parts)) = {}
    BY <1>2, <1>5
  <2>2. ~ Covers(parts, dest)
    BY <1>1, <1>5 DEF Covers
  <2> QED
    BY <2>1, <2>2
<1> QED
  BY <1>3, <1>4, <1>5

\* The first rule of the result that dest hits is made from the first line that
\* covers dest.
LEMMA FirstRule ==
  ASSUME doc \in Document, RulesInv, Finished, NEW dest,
         NEW i \in 1 .. Len(doc.rules), Covers(doc.rules[i], dest),
         \A k \in 1 .. Len(doc.rules) : Covers(doc.rules[k], dest) => i <= k
  PROVE  /\ out.rules \in Seq(Rules3)
         /\ \E y : Leads(y, out.rules, Hitting3(dest)) /\ y.target = TargetOf(doc.rules[i])
<1> DEFINE ss == Parsed(doc)
           rules == FlattenSeq(ss)
           H == Hitting3(dest)
           L == Leading3(dest)
<1>1. /\ ss \in Seq(Seq(Rules3)) /\ DOMAIN ss = 1 .. Len(doc.rules) /\ Len(doc.rules) \in Nat
      /\ \A k \in 1 .. Len(doc.rules) : ss[k] = ParseRule(doc.rules[k]) /\ doc.rules[k] \in Seq(Text \ {Blank})
  BY ParsedFact
<1>2. \A k \in 1 .. Len(doc.rules) :
        /\ Covers(doc.rules[k], dest) <=> ToSet(ss[k]) \cap L # {}
        /\ \A x \in ToSet(ss[k]) : x \in Rules3 /\ x.target = TargetOf(doc.rules[k])
  <2> HIDE DEF ss, L
  <2> QED
    BY <1>1, LineFact DEF L
<1> HIDE DEF ss, H, L
<1>3. rules \in Seq(Rules3) /\ ToSet(rules) = UNION {ToSet(ss[k]) : k \in DOMAIN ss}
  BY <1>1, FlattenFact
<1> HIDE DEF rules
<1>4. ToSet(rules) \cap L # {}
  BY <1>1, <1>2, <1>3
\* A rule that leads the rules as they are read is that of line i.
<1>5. ASSUME NEW x, Leads(x, rules, L) PROVE x \in Rules3 /\ x.target = TargetOf(doc.rules[i])
  <2>1. PICK k \in DOMAIN ss : Leads(x, ss[k], L) /\ \A j \in 1 .. k - 1 : ToSet(ss[j]) \cap L = {}
    BY <1>1, <1>5, FlattenLeads DEF rules
  <2>2. x \in ToSet(ss[k]) /\ x \in L
    <3>1. PICK q \in 1 .. Len(ss[k]) : ss[k][q] = x /\ x \in L
      BY <2>1 DEF Leads
    <3>2. ss[k] \in Seq(Rules3)
      BY <1>1
    <3> QED
      BY <3>1, <3>2, Element
  <2>3. Covers(doc.rules[k], dest)
    BY <1>1, <1>2, <2>1, <2>2
  <2>4. i <= k
    BY <1>1, <2>1, <2>3
  <2>5. ~ (i < k)
    <3>1. SUFFICES ASSUME i < k PROVE FALSE
      OBVIOUS
    <3>2. i \in 1 .. k - 1
      BY <1>1, <2>1, <3>1
    <3> QED
      BY <1>2, <2>1, <3>2
  <2>6. i = k
    BY <1>1, <2>1, <2>4, <2>5
  <2> QED
    BY <1>2, <2>2, <2>6
<1>6. CASE reader = "yaml"
  <2> DEFINE made == [k \in DOMAIN rules |-> Expanded(rules[k], doc.rulesets)]
  <2>1. out.rules = FlattenSeq(made)
    BY <1>6 DEF RulesInv, RulesFromYaml, made, rules, ss, Parsed
  <2>2. \A r \in Rules3 : /\ Made(r) = Expanded(r, doc.rulesets)
                          /\ Made(r) \in Seq(Rules3)
                          /\ \A x \in ToSet(Made(r)) : x.target = r.target
                          /\ r \in L <=> ToSet(Made(r)) \cap H # {}
    BY <1>6, MadeFact DEF Made, Leading3, L, H
  <2>3. /\ made \in Seq(Seq(Rules3)) /\ DOMAIN made = 1 .. Len(rules) /\ Len(rules) \in Nat
        /\ \A k \in 1 .. Len(rules) : made[k] = Made(rules[k]) /\ rules[k] \in Rules3
    <3>1. DOMAIN rules = 1 .. Len(rules) /\ Len(rules) \in Nat
      BY <1>3
    <3>2. \A k \in 1 .. Len(rules) : rules[k] \in Rules3
      BY <1>3
    <3>3. \A k \in DOMAIN rules : Expanded(rules[k], doc.rulesets) \in Seq(Rules3)
      BY <2>2, <3>1, <3>2
    <3> QED
      BY <2>2, <3>1, <3>2, <3>3
  <2> HIDE DEF made
  <2>4. out.rules \in Seq(Rules3) /\ ToSet(out.rules) = UNION {ToSet(made[k]) : k \in DOMAIN made}
    BY <2>1, <2>3, FlattenFact
  <2>5. ToSet(out.rules) \cap H # {}
    <3>1. PICK r \in ToSet(rules) : r \in L
      BY <1>4
    <3>2. PICK k \in 1 .. Len(rules) : r = rules[k]
      BY <1>3, <3>1 DEF ToSet
    <3>3. ToSet(made[k]) \cap H # {}
      BY <2>2, <2>3, <3>1, <3>2
    <3> QED
      BY <2>3, <2>4, <3>3
  <2>6. PICK y : Leads(y, out.rules, H)
    BY <2>4, <2>5, SomeLeads
  <2>7. PICK k \in DOMAIN made : Leads(y, made[k], H) /\ \A j \in 1 .. k - 1 : ToSet(made[j]) \cap H = {}
    <3>1. Leads(y, FlattenSeq(made), H)
      BY <2>1, <2>6
    <3>2. made \in Seq(Seq(Rules3))
      BY <2>3
    <3> QED
      BY <3>1, <3>2, FlattenLeads
  <2>8. y \in ToSet(made[k]) /\ y \in H
    <3>1. PICK q \in 1 .. Len(made[k]) : made[k][q] = y /\ y \in H
      BY <2>7 DEF Leads
    <3>2. made[k] \in Seq(Rules3)
      BY <2>3
    <3> QED
      BY <3>1, <3>2, Element
  <2>9. Leads(rules[k], rules, L)
    <3>1. rules[k] \in L
      BY <2>2, <2>3, <2>8
    <3>2. ASSUME NEW j \in 1 .. k - 1 PROVE rules[j] \notin L
      <4>1. j \in 1 .. Len(rules)
        BY <2>3
      <4> QED
        BY <2>2, <2>3, <2>7, <4>1
    <3> QED
      BY <2>3, <3>1, <3>2 DEF Leads
  <2>10. y.target = rules[k].target
    BY <2>2, <2>3, <2>8
  <2> QED
    BY <1>5, <2>4, <2>6, <2>9, <2>10 DEF H
<1>7. CASE reader # "yaml"
  <2>1. out.rules = rules
    BY <1>7 DEF RulesInv, Finished, rules, ss
  <2>2. \A r \in Rules3 : r \in L <=> r \in H
    BY <1>7, MadeFact DEF L, H
  <2>3. ToSet(rules) \cap H # {}
    BY <1>4, <2>2 DEF L, Leading3
  <2>4. PICK y : Leads(y, rules, H)
    BY <1>3, <2>3, SomeLeads
  <2>5. Leads(y, rules, L)
    <3>1. \A q \in 1 .. Len(rules) : rules[q] \in Rules3
      BY <1>3
    <3>2. PICK q \in 1 .. Len(rules) : rules[q] = y /\ y \in H /\ \A j \in 1 .. q - 1 : rules[j] \notin H
      BY <2>4 DEF Leads
    <3>3. \A j \in 1 .. q - 1 : j \in 1 .. Len(rules)
      BY <1>3
    <3> QED
      BY <2>2, <3>1, <3>2, <3>3 DEF Leads
  <2> QED
    BY <1>3, <1>5, <2>1, <2>4, <2>5 DEF H
<1> QED
  BY <1>6, <1>7

\* A rule as the backend plans with it.
AsPlanned(r) ==
  [kind |-> Kind(r.type, r.payload), target |-> r.target,
   hits |-> IF r.type = "MATCH" THEN Dest ELSE {r.payload} \cap Dest]

LEMMA AsPlannedFact ==
  ASSUME NEW r \in Rules3, NEW dest \in Dest
  PROVE  /\ AsPlanned(r).kind \notin Silent /\ dest \in AsPlanned(r).hits <=> r \in Hitting3(dest)
         /\ AsPlanned(r).target = r.target
<1>1. /\ AsPlanned(r).kind = Kind(r.type, r.payload) /\ AsPlanned(r).target = r.target
      /\ AsPlanned(r).hits = IF r.type = "MATCH" THEN Dest ELSE {r.payload} \cap Dest
  BY DEF AsPlanned
<1> QED
  BY <1>1 DEF Hitting3

\* The first rule keeps its place in the plan's rules.
LEMMA FirstPlanned ==
  ASSUME out.rules \in Seq(Rules3), NEW dest \in Dest, NEW y, Leads(y, out.rules, Hitting3(dest)),
         NEW X, X = {AsPlanned(r) : r \in Rules3}
  PROVE  /\ Planned.rules \in Seq(X)
         /\ Leads(AsPlanned(y), Planned.rules, {x \in X : x.kind \notin Silent /\ dest \in x.hits})
         /\ AsPlanned(y).target = y.target
<1> DEFINE rules == out.rules
           P == {x \in X : x.kind \notin Silent /\ dest \in x.hits}
           planned == [i \in DOMAIN rules |-> AsPlanned(rules[i])]
<1>1. Planned.rules = planned
  BY DEF Planned, AsPlanned
<1>2. DOMAIN rules = 1 .. Len(rules) /\ Len(rules) \in Nat /\ \A i \in 1 .. Len(rules) : rules[i] \in Rules3
  OBVIOUS
<1>3. planned \in Seq(X) /\ Len(planned) = Len(rules) /\ \A i \in 1 .. Len(rules) : planned[i] = AsPlanned(rules[i])
  <2>1. \A i \in DOMAIN rules : AsPlanned(rules[i]) \in X
    BY <1>2
  <2> QED
    BY <1>2, <2>1
<1>4. \A r \in Rules3 : AsPlanned(r) \in P <=> r \in Hitting3(dest)
  BY AsPlannedFact
<1> HIDE DEF planned, P
<1>5. PICK q \in 1 .. Len(rules) : rules[q] = y /\ y \in Hitting3(dest)
                                   /\ \A j \in 1 .. q - 1 : rules[j] \notin Hitting3(dest)
  BY DEF Leads
<1>6. \A j \in 1 .. q - 1 : j \in 1 .. Len(rules)
  BY <1>2
<1>7. planned[q] = AsPlanned(y) /\ AsPlanned(y) \in P /\ \A j \in 1 .. q - 1 : planned[j] \notin P
  BY <1>2, <1>3, <1>4, <1>5, <1>6
<1>8. Leads(AsPlanned(y), planned, P)
  BY <1>3, <1>7 DEF Leads
<1>9. AsPlanned(y).target = y.target
  BY DEF AsPlanned
<1> QED
  BY <1>1, <1>3, <1>8, <1>9 DEF P

\* The running backend sends a destination where the first line of the document
\* that covers it says, whichever reader read it, whatever the rule sets hold and
\* whichever payloads GEOIP and GEOSITE know (Lan, Country, Keyworded, Masked):
\* parse_rule_line, rule_from_provider_entry and build_shoes_rules in lib.rs.
THEOREM FirstLinesDecide == Spec => []FirstLineDecides
<1>1. ReaderInv /\ RulesInv => FirstLineDecides
  <2> SUFFICES ASSUME ReaderInv, RulesInv, Finished, NEW dest \in Dest,
                      Plan(Planned, "rule") # NoPlan,
                      SelectInSeq(doc.rules, LAMBDA parts : Covers(parts, dest)) # 0
               PROVE  Judge(Plan(Planned, "rule"), dest)
                        = Resolve(TargetOf(doc.rules[SelectInSeq(doc.rules, LAMBDA parts : Covers(parts, dest))]),
                                  Planned.groups, Planned.proxies)
    BY DEF FirstLineDecides
  <2> DEFINE I == {k \in 1 .. Len(doc.rules) : Covers(doc.rules[k], dest)}
             i == SelectInSeq(doc.rules, LAMBDA parts : Covers(parts, dest))
             X == {AsPlanned(r) : r \in Rules3}
  <2>1. i = IF I # {} THEN Min(I) ELSE 0
    BY DEF SelectInSeq
  <2>2. I \in SUBSET Nat /\ 0 \notin I /\ i # 0
    OBVIOUS
  <2>3. i \in I /\ \A k \in I : i <= k
    <3> HIDE DEF I, i
    <3> QED
      BY <2>1, <2>2, SelectFact
  <2> HIDE DEF i, X
  <2>4. PICK y : Leads(y, out.rules, Hitting3(dest)) /\ y.target = TargetOf(doc.rules[i])
    <3>1. doc \in Document
      BY DEF ReaderInv
    <3> QED
      BY <2>3, <3>1, FirstRule
  <2>5. out.rules \in Seq(Rules3)
    <3>1. doc \in Document
      BY DEF ReaderInv
    <3> QED
      BY <2>3, <3>1, FirstRule
  <2>6. /\ Planned.rules \in Seq(X)
        /\ Leads(AsPlanned(y), Planned.rules, {x \in X : x.kind \notin Silent /\ dest \in x.hits})
        /\ AsPlanned(y).target = y.target
    BY <2>4, <2>5, FirstPlanned DEF X
  <2>7. Judge(Plan(Planned, "rule"), dest) = Resolve(AsPlanned(y).target, Planned.groups, Planned.proxies)
    BY <2>6, JudgeLeads
  <2> QED
    BY <2>4, <2>6, <2>7 DEF i
<1>2. Init => ReaderInv /\ RulesInv
  BY ReaderStart, RulesStart
<1>3. ReaderInv /\ RulesInv /\ [Next]_vars => (ReaderInv /\ RulesInv)'
  BY ReaderStep, RulesStep
<1> QED
  BY <1>1, <1>2, <1>3, PTL DEF Spec

-----------------------------------------------------------------------------
(* Sequences that are mapped and filtered *)

LEMMA EqualSequences ==
  ASSUME NEW X, NEW s \in Seq(X), NEW t \in Seq(X), Len(s) = Len(t),
         \A i \in 1 .. Len(s) : s[i] = t[i]
  PROVE  s = t
<1>1. s = [i \in 1 .. Len(s) |-> s[i]] /\ t = [i \in 1 .. Len(t) |-> t[i]]
  OBVIOUS
<1> QED
  BY <1>1

Same(s, t) == s = t

LEMMA AppendConcat ==
  ASSUME NEW X, NEW s \in Seq(X), NEW t \in Seq(X), NEW e \in X
  PROVE  Same(Append(s \o t, e), s \o Append(t, e))
<1> DEFINE l == Append(s \o t, e)
           r == s \o Append(t, e)
<1>1. /\ l \in Seq(X) /\ r \in Seq(X) /\ Len(s) \in Nat /\ Len(t) \in Nat
      /\ Len(l) = Len(s) + Len(t) + 1 /\ Len(r) = Len(s) + (Len(t) + 1)
  OBVIOUS
<1>2. ASSUME NEW i \in 1 .. Len(l) PROVE l[i] = r[i]
  OBVIOUS
<1> HIDE DEF l, r
<1>3. Len(l) = Len(r)
  BY <1>1
<1>4. l = r
  BY <1>1, <1>2, <1>3, EqualSequences
<1> QED
  BY <1>4 DEF l, r, Same

LEMMA AppendOne ==
  ASSUME NEW X, NEW s \in Seq(X), NEW e \in X
  PROVE  Append(s, e) = s \o <<e>> /\ <<e>> \in Seq(X)
<1>1. /\ <<e>> \in Seq(X) /\ s \o <<e>> \in Seq(X) /\ Append(s, e) \in Seq(X)
      /\ Len(s \o <<e>>) = Len(Append(s, e))
      /\ \A i \in 1 .. Len(Append(s, e)) : Append(s, e)[i] = (s \o <<e>>)[i]
  OBVIOUS
<1> QED
  BY <1>1, EqualSequences

\* What is kept of two sequences together.
LEMMA OnlyConcat ==
  ASSUME NEW X, NEW s \in Seq(X), NEW t \in Seq(X), NEW set
  PROVE  Only(s \o t, set) = Only(s, set) \o Only(t, set)
<1> DEFINE st == s \o t
           S == Len(s)
           N == Len(t)
<1>1. /\ st \in Seq(X) /\ Len(st) = S + N /\ S \in Nat /\ N \in Nat
      /\ \A i \in 1 .. S : st[i] = s[i]
      /\ \A i \in 1 .. N : st[S + i] = t[i]
      /\ \A i \in 1 .. N : t[i] \in X
  OBVIOUS
<1> HIDE DEF st
<1>2. PICK a : Filters(a, s, set, X) /\ Only(s, set) = a[S]
  BY OnlyRecursion
<1>3. PICK b : Filters(b, t, set, X) /\ Only(t, set) = b[N]
  BY OnlyRecursion
<1>4. PICK c : Filters(c, st, set, X) /\ Only(st, set) = c[S + N]
  <2>1. st \in Seq(X)
    BY <1>1
  <2>2. \E c : Filters(c, st, set, X) /\ Only(st, set) = c[Len(st)]
    BY <2>1, OnlyRecursion
  <2> QED
    BY <1>1, <2>2
<1>5. /\ a[0] = <<>> /\ \A n \in 1 .. S : a[n] = IF s[n] \in set THEN Append(a[n - 1], s[n]) ELSE a[n - 1]
      /\ \A n \in 0 .. S : a[n] \in Seq(X)
  BY <1>2 DEF Filters
<1>6. /\ b[0] = <<>> /\ \A n \in 1 .. N : b[n] = IF t[n] \in set THEN Append(b[n - 1], t[n]) ELSE b[n - 1]
      /\ \A n \in 0 .. N : b[n] \in Seq(X)
  BY <1>3 DEF Filters
<1>7. c[0] = <<>> /\ \A n \in 1 .. S + N : c[n] = IF st[n] \in set THEN Append(c[n - 1], st[n]) ELSE c[n - 1]
  BY <1>1, <1>4 DEF Filters
<1> HIDE DEF S, N
<1> DEFINE T == {n \in Nat : c[n] = a[n]}
<1>8. S \in T
  <2>1. 0 \in T
    BY <1>5, <1>7
  <2>2. ASSUME NEW m \in 1 .. S, m - 1 \in T PROVE m \in T
    <3>1. m \in 1 .. S + N /\ m \in Nat
      BY <1>1
    <3> QED
      BY <1>1, <1>5, <1>7, <2>2, <3>1
  <2> HIDE DEF T
  <2> QED
    BY <1>1, <2>1, <2>2, UpTo
<1>9. c[S] = a[S]
  BY <1>8
<1> DEFINE U == {n \in Nat : c[S + n] = a[S] \o b[n]}
<1>10. N \in U
  <2>1. 0 \in U
    <3>1. S + 0 = S /\ a[S] \in Seq(X)
      BY <1>1, <1>5
    <3>2. a[S] \o <<>> = a[S]
      BY <3>1
    <3> QED
      BY <1>6, <1>9, <3>1, <3>2
  <2>2. ASSUME NEW m \in 1 .. N, m - 1 \in U PROVE m \in U
    <3>1. S + m \in 1 .. S + N /\ m \in Nat /\ S + m - 1 = S + (m - 1) /\ m - 1 \in 0 .. N /\ S \in 0 .. S
      BY <1>1
    <3>2. st[S + m] = t[m] /\ t[m] \in X
      BY <1>1
    <3>3. c[S + m] = IF t[m] \in set THEN Append(c[S + (m - 1)], t[m]) ELSE c[S + (m - 1)]
      BY <1>7, <3>1, <3>2
    <3>4. c[S + (m - 1)] = a[S] \o b[m - 1]
      BY <2>2
    <3>5. a[S] \in Seq(X) /\ b[m - 1] \in Seq(X)
      BY <1>5, <1>6, <3>1
    <3>6. Append(a[S] \o b[m - 1], t[m]) = a[S] \o Append(b[m - 1], t[m])
      <4> DEFINE x == a[S]
                 y == b[m - 1]
                 e == t[m]
      <4>1. x \in Seq(X) /\ y \in Seq(X) /\ e \in X
        BY <3>2, <3>5
      <4> HIDE DEF x, y, e
      <4>2. Append(x \o y, e) = x \o Append(y, e)
        <5>1. Same(Append(x \o y, e), x \o Append(y, e))
          BY <4>1, AppendConcat
        <5> QED
          BY <5>1 DEF Same
      <4> QED
        BY <4>2 DEF x, y, e
    <3>7. b[m] = IF t[m] \in set THEN Append(b[m - 1], t[m]) ELSE b[m - 1]
      BY <1>6
    <3>8. c[S + m] = a[S] \o b[m]
      BY <3>3, <3>4, <3>6, <3>7
    <3> QED
      BY <3>1, <3>8
  <2> HIDE DEF U
  <2> QED
    BY <1>1, <2>1, <2>2, UpTo
<1> QED
  BY <1>2, <1>3, <1>4, <1>10 DEF st

\* Only the elements that occur matter.
LEMMA OnlySame ==
  ASSUME NEW X, NEW s \in Seq(X), NEW A, NEW B, \A x \in ToSet(s) : x \in A <=> x \in B
  PROVE  Only(s, A) = Only(s, B)
<1>1. PICK a : Filters(a, s, A, X) /\ Only(s, A) = a[Len(s)]
  BY OnlyRecursion
<1>2. PICK b : Filters(b, s, B, X) /\ Only(s, B) = b[Len(s)]
  BY OnlyRecursion
<1> DEFINE T == {n \in Nat : a[n] = b[n]}
<1>3. Len(s) \in Nat /\ \A n \in 1 .. Len(s) : n \in Nat /\ s[n] \in ToSet(s)
  BY DEF ToSet
<1>4. 0 \in T
  BY <1>1, <1>2 DEF Filters
<1>5. ASSUME NEW m \in 1 .. Len(s), m - 1 \in T PROVE m \in T
  BY <1>1, <1>2, <1>3, <1>5 DEF Filters
<1> HIDE DEF T
<1>6. Len(s) \in T
  BY <1>3, <1>4, <1>5, UpTo
<1> QED
  BY <1>1, <1>2, <1>6 DEF T

Map(F, s) == [i \in DOMAIN s |-> F[s[i]]]

\* m is s, mapped with F.
Maps(m, F, s, X, Y) ==
  /\ m \in Seq(Y) /\ Len(m) = Len(s) /\ Len(s) \in Nat
  /\ DOMAIN m = DOMAIN s /\ DOMAIN s = 1 .. Len(s)
  /\ \A i \in 1 .. Len(s) : m[i] = F[s[i]] /\ s[i] \in X

LEMMA MapFact ==
  ASSUME NEW X, NEW Y, NEW F \in [X -> Y], NEW s \in Seq(X)
  PROVE  Maps(Map(F, s), F, s, X, Y)
<1>1. DOMAIN s = 1 .. Len(s) /\ Len(s) \in Nat /\ \A i \in 1 .. Len(s) : s[i] \in X
  OBVIOUS
<1>2. \A i \in DOMAIN s : F[s[i]] \in Y
  BY <1>1
<1>3. /\ Map(F, s) \in Seq(Y) /\ Len(Map(F, s)) = Len(s) /\ DOMAIN Map(F, s) = DOMAIN s
      /\ \A i \in 1 .. Len(s) : Map(F, s)[i] = F[s[i]]
  BY <1>1, <1>2 DEF Map
<1> QED
  BY <1>1, <1>3 DEF Maps

LEMMA MapConcat ==
  ASSUME NEW X, NEW Y, NEW F \in [X -> Y], NEW s \in Seq(X), NEW t \in Seq(X)
  PROVE  Same(Map(F, s \o t), Map(F, s) \o Map(F, t))
<1> DEFINE l == Map(F, s \o t)
           a == Map(F, s)
           b == Map(F, t)
           st == s \o t
<1>1. /\ st \in Seq(X) /\ Len(st) = Len(s) + Len(t) /\ Len(s) \in Nat /\ Len(t) \in Nat
      /\ \A i \in 1 .. Len(s) : st[i] = s[i]
      /\ \A i \in 1 .. Len(t) : st[Len(s) + i] = t[i]
  OBVIOUS
<1>2. /\ a \in Seq(Y) /\ Len(a) = Len(s) /\ \A i \in 1 .. Len(s) : a[i] = F[s[i]]
      /\ b \in Seq(Y) /\ Len(b) = Len(t) /\ \A i \in 1 .. Len(t) : b[i] = F[t[i]]
  <2> HIDE DEF a, b
  <2>1. Maps(a, F, s, X, Y) /\ Maps(b, F, t, X, Y)
    BY MapFact DEF a, b
  <2> QED
    BY <2>1 DEF Maps
<1>3. l \in Seq(Y) /\ Len(l) = Len(s) + Len(t) /\ \A i \in 1 .. Len(s) + Len(t) : l[i] = F[st[i]]
  <2> HIDE DEF st
  <2>1. st \in Seq(X)
    BY <1>1
  <2>2. Maps(Map(F, st), F, st, X, Y)
    BY <2>1, MapFact
  <2> QED
    BY <1>1, <2>2 DEF st, Maps
<1> HIDE DEF l, a, b, st
<1>4. /\ a \o b \in Seq(Y) /\ Len(a \o b) = Len(s) + Len(t)
      /\ \A i \in 1 .. Len(s) : (a \o b)[i] = a[i]
      /\ \A i \in 1 .. Len(t) : (a \o b)[Len(s) + i] = b[i]
  <2>1. /\ a \in Seq(Y) /\ b \in Seq(Y) /\ Len(a) = Len(s) /\ Len(b) = Len(t)
    BY <1>2
  <2>2. /\ a \o b \in Seq(Y) /\ Len(a \o b) = Len(a) + Len(b)
        /\ \A i \in 1 .. Len(a) : (a \o b)[i] = a[i]
        /\ \A i \in 1 .. Len(b) : (a \o b)[Len(a) + i] = b[i]
    BY <2>1
  <2> QED
    BY <2>1, <2>2
<1>5. ASSUME NEW i \in 1 .. Len(s) + Len(t) PROVE l[i] = (a \o b)[i]
  <2>1. CASE i \in 1 .. Len(s)
    BY <1>1, <1>2, <1>3, <1>4, <2>1
  <2>2. CASE i \notin 1 .. Len(s)
    <3>1. PICK k \in 1 .. Len(t) : i = Len(s) + k
      <4>1. i - Len(s) \in 1 .. Len(t) /\ Len(s) + (i - Len(s)) = i
        BY <1>1, <2>2
      <4> QED
        BY <4>1
    <3>2. st[Len(s) + k] = t[k] /\ b[k] = F[t[k]] /\ (a \o b)[Len(s) + k] = b[k]
      BY <1>1, <1>2, <1>4
    <3>3. l[i] = F[st[i]]
      BY <1>3
    <3> QED
      BY <3>1, <3>2, <3>3
  <2> QED
    BY <2>1, <2>2
<1>6. l = a \o b
  BY <1>3, <1>4, <1>5, EqualSequences
<1> QED
  BY <1>6 DEF l, a, b, Same

\* To map what is kept is to keep of what is mapped.
LEMMA MapOnly ==
  ASSUME NEW X, NEW Y, NEW F \in [X -> Y], NEW s \in Seq(X), NEW A, NEW B,
         \A x \in ToSet(s) : x \in A <=> F[x] \in B
  PROVE  Same(Map(F, Only(s, A)), Only(Map(F, s), B))
<1> DEFINE t == Map(F, s)
           N == Len(s)
<1>1. /\ t \in Seq(Y) /\ Len(t) = N /\ N \in Nat
      /\ \A i \in 1 .. N : t[i] = F[s[i]] /\ s[i] \in X
      /\ \A i \in 1 .. N : s[i] \in A <=> t[i] \in B
  <2> HIDE DEF t
  <2>1. Maps(t, F, s, X, Y)
    BY MapFact DEF t
  <2>2. \A i \in 1 .. N : s[i] \in ToSet(s)
    BY <2>1 DEF Maps, ToSet
  <2> QED
    BY <2>1, <2>2 DEF Maps
<1> HIDE DEF t, N
<1>2. PICK a : Filters(a, s, A, X) /\ Only(s, A) = a[N]
  BY OnlyRecursion DEF N
<1>3. PICK b : Filters(b, t, B, Y) /\ Only(t, B) = b[N]
  BY <1>1, OnlyRecursion
<1>4. /\ a[0] = <<>> /\ \A n \in 1 .. N : a[n] = IF s[n] \in A THEN Append(a[n - 1], s[n]) ELSE a[n - 1]
      /\ \A n \in 0 .. N : a[n] \in Seq(X)
  BY <1>2 DEF Filters, N
<1>5. /\ b[0] = <<>> /\ \A n \in 1 .. N : b[n] = IF t[n] \in B THEN Append(b[n - 1], t[n]) ELSE b[n - 1]
  BY <1>1, <1>3 DEF Filters
<1> DEFINE T == {n \in Nat : Map(F, a[n]) = b[n]}
<1>6. 0 \in T
  BY <1>4, <1>5 DEF Map
<1>7. ASSUME NEW m \in 1 .. N, m - 1 \in T PROVE m \in T
  <2>1. m - 1 \in 0 .. N /\ m \in Nat
    BY <1>1
  <2>2. a[m - 1] \in Seq(X) /\ Map(F, a[m - 1]) = b[m - 1]
    BY <1>4, <1>7, <2>1
  <2>3. CASE s[m] \in A
    <3>1. a[m] = Append(a[m - 1], s[m]) /\ b[m] = Append(b[m - 1], F[s[m]]) /\ s[m] \in X
      BY <1>1, <1>4, <1>5, <2>3
    <3>2. Append(a[m - 1], s[m]) = a[m - 1] \o <<s[m]>> /\ <<s[m]>> \in Seq(X)
      BY <2>2, <3>1, AppendOne
    <3>3. Map(F, <<s[m]>>) = <<F[s[m]]>>
      BY DEF Map
    <3>4. Map(F, a[m]) = b[m - 1] \o <<F[s[m]]>>
      <4> DEFINE x == a[m - 1]
                 y == <<s[m]>>
      <4>1. x \in Seq(X) /\ y \in Seq(X)
        BY <2>2, <3>2
      <4> HIDE DEF x, y
      <4>2. Map(F, x \o y) = Map(F, x) \o Map(F, y)
        <5>1. Same(Map(F, x \o y), Map(F, x) \o Map(F, y))
          BY <4>1, MapConcat
        <5> QED
          BY <5>1 DEF Same
      <4> QED
        BY <2>2, <3>1, <3>2, <3>3, <4>2 DEF x, y
    <3>5. b[m - 1] \in Seq(Y) /\ F[s[m]] \in Y
      <4>1. Maps(Map(F, a[m - 1]), F, a[m - 1], X, Y)
        BY <2>2, MapFact
      <4> QED
        BY <2>2, <3>1, <4>1 DEF Maps
    <3>6. b[m - 1] \o <<F[s[m]]>> = Append(b[m - 1], F[s[m]])
      BY <3>5, AppendOne
    <3> QED
      BY <2>1, <3>1, <3>4, <3>6
  <2>4. CASE s[m] \notin A
    BY <1>1, <1>4, <1>5, <2>1, <2>2, <2>4
  <2> QED
    BY <2>3, <2>4
<1> HIDE DEF T
<1>8. N \in T
  BY <1>1, <1>6, <1>7, UpTo
<1> QED
  BY <1>2, <1>3, <1>8 DEF T, t, Same

\* Only of Only.
LEMMA OnlyOnly ==
  ASSUME NEW X, NEW s \in Seq(X), NEW A, NEW B
  PROVE  Only(Only(s, A), B) = Only(s, A \cap B)
<1> DEFINE N == Len(s)
<1>1. N \in Nat /\ \A n \in 1 .. N : s[n] \in X
  OBVIOUS
<1>2. PICK a : Filters(a, s, A, X) /\ Only(s, A) = a[N]
  BY OnlyRecursion
<1>3. PICK b : Filters(b, s, A \cap B, X) /\ Only(s, A \cap B) = b[N]
  BY OnlyRecursion
<1>4. /\ a[0] = <<>> /\ \A n \in 1 .. N : a[n] = IF s[n] \in A THEN Append(a[n - 1], s[n]) ELSE a[n - 1]
      /\ \A n \in 0 .. N : a[n] \in Seq(X)
  BY <1>2 DEF Filters
<1>5. /\ b[0] = <<>>
      /\ \A n \in 1 .. N : b[n] = IF s[n] \in A \cap B THEN Append(b[n - 1], s[n]) ELSE b[n - 1]
  BY <1>3 DEF Filters
<1> HIDE DEF N
<1> DEFINE T == {n \in Nat : Only(a[n], B) = b[n]}
<1>20. <<>> \in Seq(X) /\ \A e \in X : Only(<<e>>, B) = IF e \in B THEN <<e>> ELSE <<>>
  <2>1. <<>> \in Seq(X)
    OBVIOUS
  <2>2. ASSUME NEW e \in X PROVE Only(<<e>>, B) = IF e \in B THEN <<e>> ELSE <<>>
    <3>1. <<e>> \in Seq(X) /\ Len(<<e>>) = 1 /\ <<e>>[1] = e
      OBVIOUS
    <3>2. PICK c : Filters(c, <<e>>, B, X) /\ Only(<<e>>, B) = c[Len(<<e>>)]
      BY <3>1, OnlyRecursion
    <3>3. 1 \in 1 .. 1 /\ 1 - 1 = 0
      OBVIOUS
    <3>4. c[1] = IF e \in B THEN Append(<<>>, e) ELSE <<>>
      BY <3>1, <3>2, <3>3 DEF Filters
    <3>5. Append(<<>>, e) = <<e>>
      OBVIOUS
    <3> QED
      BY <3>1, <3>2, <3>4, <3>5
  <2> QED
    BY <2>1, <2>2
<1>6. 0 \in T
  <2>1. PICK c : Filters(c, <<>>, B, X) /\ Only(<<>>, B) = c[Len(<<>>)]
    BY <1>20, OnlyRecursion
  <2>2. Only(<<>>, B) = <<>>
    BY <2>1 DEF Filters
  <2> QED
    BY <1>4, <1>5, <2>2
<1>7. ASSUME NEW m \in 1 .. N, m - 1 \in T PROVE m \in T
  <2>1. m - 1 \in 0 .. N /\ m \in Nat
    BY <1>1
  <2>2. a[m - 1] \in Seq(X) /\ Only(a[m - 1], B) = b[m - 1]
    BY <1>4, <1>7, <2>1
  <2>3. CASE s[m] \in A
    <3>1. a[m] = Append(a[m - 1], s[m]) /\ s[m] \in X
      BY <1>1, <1>4, <2>3
    <3>2. Append(a[m - 1], s[m]) = a[m - 1] \o <<s[m]>> /\ <<s[m]>> \in Seq(X)
      BY <2>2, <3>1, AppendOne
    <3>3. Only(a[m], B) = b[m - 1] \o Only(<<s[m]>>, B)
      <4> DEFINE x == a[m - 1]
                 y == <<s[m]>>
      <4>1. x \in Seq(X) /\ y \in Seq(X)
        BY <2>2, <3>2
      <4> HIDE DEF x, y
      <4>2. Only(x \o y, B) = Only(x, B) \o Only(y, B)
        BY <4>1, OnlyConcat
      <4> QED
        BY <2>2, <3>1, <3>2, <4>2 DEF x, y
    <3>4. b[m - 1] \in Seq(X)
      BY <2>2, OnlyKeeps
    <3>5. b[m - 1] \o <<s[m]>> = Append(b[m - 1], s[m]) /\ b[m - 1] \o <<>> = b[m - 1]
      BY <3>1, <3>4, AppendOne
    <3>6. Only(a[m], B) = IF s[m] \in B THEN Append(b[m - 1], s[m]) ELSE b[m - 1]
      BY <1>20, <3>1, <3>3, <3>5
    <3>7. b[m] = IF s[m] \in B THEN Append(b[m - 1], s[m]) ELSE b[m - 1]
      BY <1>5, <2>3
    <3> QED
      BY <2>1, <3>6, <3>7
  <2>4. CASE s[m] \notin A
    BY <1>4, <1>5, <2>1, <2>2, <2>4
  <2> QED
    BY <2>3, <2>4
<1> HIDE DEF T
<1>8. N \in T
  BY <1>1, <1>6, <1>7, UpTo
<1> QED
  BY <1>2, <1>3, <1>8 DEF T

\* What is kept of no or one element.
LEMMA OnlyOne ==
  ASSUME NEW X, NEW e \in X, NEW set
  PROVE  Only(<<>>, set) = <<>> /\ Only(<<e>>, set) = IF e \in set THEN <<e>> ELSE <<>>
<1>1. PICK c : Filters(c, <<>>, set, X) /\ Only(<<>>, set) = c[Len(<<>>)]
  <2>1. <<>> \in Seq(X)
    OBVIOUS
  <2> QED
    BY <2>1, OnlyRecursion
<1>2. <<e>> \in Seq(X) /\ Len(<<e>>) = 1 /\ <<e>>[1] = e /\ Append(<<>>, e) = <<e>>
      /\ 1 \in 1 .. 1 /\ 1 - 1 = 0 /\ Len(<<>>) = 0
  OBVIOUS
<1>3. PICK d : Filters(d, <<e>>, set, X) /\ Only(<<e>>, set) = d[Len(<<e>>)]
  BY <1>2, OnlyRecursion
<1>4. d[1] = IF e \in set THEN Append(<<>>, e) ELSE <<>>
  BY <1>2, <1>3 DEF Filters
<1> QED
  BY <1>1, <1>2, <1>3, <1>4 DEF Filters

\* h is compatible with concatenation.
Splits(h, X, Y) ==
  /\ h \in [Seq(X) -> Seq(Y)] /\ h[<<>>] = <<>>
  /\ \A s, t \in Seq(X) : h[s \o t] = h[s] \o h[t]

\* Then it can be applied to the parts.
LEMMA FlattenSplits ==
  ASSUME NEW X, NEW Y, NEW h, Splits(h, X, Y), NEW ss \in Seq(Seq(X))
  PROVE  /\ [i \in DOMAIN ss |-> h[ss[i]]] \in Seq(Seq(Y))
         /\ Same(h[FlattenSeq(ss)], FlattenSeq([i \in DOMAIN ss |-> h[ss[i]]]))
<1> DEFINE tt == [i \in DOMAIN ss |-> h[ss[i]]]
           N == Len(ss)
<1>1. N \in Nat /\ DOMAIN ss = 1 .. N /\ \A i \in 1 .. N : ss[i] \in Seq(X)
  OBVIOUS
<1>2. \A i \in DOMAIN ss : h[ss[i]] \in Seq(Y)
  BY <1>1 DEF Splits
<1>3. tt \in Seq(Seq(Y)) /\ Len(tt) = N /\ \A i \in 1 .. N : tt[i] = h[ss[i]]
  BY <1>1, <1>2
<1> HIDE DEF tt
<1>4. PICK f : Joins(f, ss, X) /\ FlattenSeq(ss) = f[N]
  BY FlattenRecursion
<1>5. PICK g : Joins(g, tt, Y) /\ FlattenSeq(tt) = g[N]
  BY <1>3, FlattenRecursion
<1>6. /\ f[0] = <<>> /\ \A n \in 1 .. N : f[n] = f[n - 1] \o ss[n]
      /\ \A n \in 0 .. N : f[n] \in Seq(X)
  BY <1>4 DEF Joins
<1>7. g[0] = <<>> /\ \A n \in 1 .. N : g[n] = g[n - 1] \o tt[n]
  BY <1>3, <1>5 DEF Joins
<1> HIDE DEF N
<1> DEFINE T == {n \in Nat : h[f[n]] = g[n]}
<1>8. 0 \in T
  BY <1>6, <1>7 DEF Splits
<1>9. ASSUME NEW m \in 1 .. N, m - 1 \in T PROVE m \in T
  <2>1. m - 1 \in 0 .. N /\ m \in Nat
    BY <1>1
  <2>2. f[m] = f[m - 1] \o ss[m] /\ f[m - 1] \in Seq(X) /\ ss[m] \in Seq(X)
    BY <1>1, <1>6, <2>1
  <2>3. h[f[m]] = h[f[m - 1]] \o h[ss[m]]
    BY <2>2 DEF Splits
  <2> QED
    BY <1>3, <1>7, <1>9, <2>1, <2>3
<1> HIDE DEF T
<1>10. N \in T
  BY <1>1, <1>8, <1>9, UpTo
<1>11. h[FlattenSeq(ss)] = FlattenSeq(tt)
  BY <1>4, <1>5, <1>10 DEF T
<1> QED
  BY <1>3, <1>11 DEF tt, Same

-----------------------------------------------------------------------------
(* The nodes that arrive: the name of a node *)

\* Sections that a node has entries of.
Nesting == {"plugin-opts", "ws-opts", "ws-headers", "h2-opts", "http2-opts", "grpc-opts",
            "reality-opts", "tls-opts", "h2mux", "mux", "smux"}

\* An entry gives a node a name only as the name of the node itself.
LEMMA AssignName ==
  ASSUME NEW p, NEW e, e.sec \in {Blank} \cup Nesting
  PROVE  Assign(p, e).name = IF e.sec = Blank /\ e.key = "name" THEN e.val ELSE p.name
<1>1. CASE e.sec = Blank
  <2>1. PlainName(e.key) = "name" <=> e.key = "name"
    BY DEF PlainName
  <2> HIDE DEF PlainName
  <2> QED
    BY <1>1, <2>1 DEF Assign, AssignPlain, AssignField
<1>2. CASE e.sec # Blank
  <2>1. PluginName(Field(p, "plugin"), e.key) # "name"
    BY DEF PluginName, Unread
  <2>2. WsName(e.key) # "name" /\ H2Name(e.key) # "name" /\ GrpcName(e.key) # "name"
        /\ RealityName(e.key) # "name" /\ TlsName(e.key) # "name" /\ MuxName(e.key) # "name"
    BY DEF WsName, H2Name, GrpcName, RealityName, TlsName, MuxName, Unread
  <2>3. e.sec \in Nesting
    BY <1>2
  <2>4. AssignNested(p, e.sec, e.key, e.val).name = p.name
    <3>1. \A f : f # "name" => AssignField(p, f, e.val).name = p.name
      BY DEF AssignField
    <3> QED
      BY <2>1, <2>2, <2>3, <3>1 DEF AssignNested, Nesting, Muxes
  <2> QED
    BY <1>2, <2>4 DEF Assign
<1> QED
  BY <1>1, <1>2

\* f[n] is the node p after the first n entries.
Fills(f, p, es) ==
  /\ f = [n \in 0 .. Len(es) |-> f[n]]
  /\ f[0] = p
  /\ \A n \in 1 .. Len(es) : f[n] = Assign(f[n - 1], es[n])

LEMMA FilledRecursion ==
  ASSUME NEW p, NEW es, Len(es) \in Nat
  PROVE  \E f : Fills(f, p, es) /\ Filled(p, es) = f[Len(es)]
<1> DEFINE N == Len(es)
           Upto(f, m) == /\ f[0] = p
                         /\ \A n \in 1 .. m : f[n] = Assign(f[n - 1], es[n])
           T == {m \in Nat : \E f : Upto(f, m)}
           G(f) == [n \in 0 .. Len(es) |-> IF n = 0 THEN p ELSE Assign(f[n - 1], es[n])]
           the == CHOOSE f : f = G(f)
<1>1. 0 \in T
  <2>1. Upto([n \in 0 .. 0 |-> p], 0)
    OBVIOUS
  <2> QED
    BY <2>1
<1>2. ASSUME NEW m \in 1 .. N, m - 1 \in T PROVE m \in T
  <2>1. PICK f : Upto(f, m - 1)
    BY <1>2
  <2> DEFINE h == [n \in 0 .. m |-> IF n = m THEN Assign(f[m - 1], es[m]) ELSE f[n]]
  <2>2. h[0] = p
    BY <2>1
  <2>3. ASSUME NEW n \in 1 .. m PROVE h[n] = Assign(h[n - 1], es[n])
    <3>1. n \in 0 .. m /\ n - 1 \in 0 .. m /\ n - 1 # m
      OBVIOUS
    <3>2. h[n - 1] = f[n - 1]
      BY <3>1
    <3>3. CASE n = m
      BY <3>1, <3>2, <3>3
    <3>4. CASE n # m
      <4>1. n \in 1 .. m - 1
        BY <3>4
      <4>2. h[n] = f[n]
        BY <3>1, <3>4
      <4> QED
        BY <2>1, <3>2, <4>1, <4>2
    <3> QED
      BY <3>3, <3>4
  <2>4. Upto(h, m)
    BY <2>2, <2>3
  <2> HIDE DEF h, Upto
  <2> QED
    BY <2>4
<1> HIDE DEF T
<1>3. N \in T
  BY <1>1, <1>2, UpTo
<1>4. PICK f : Upto(f, N)
  BY <1>3 DEF T
<1> DEFINE g == [n \in 0 .. N |-> f[n]]
<1>5. g = G(g)
  <2>1. ASSUME NEW n \in 0 .. N PROVE g[n] = IF n = 0 THEN p ELSE Assign(g[n - 1], es[n])
    <3>1. CASE n = 0
      BY <1>4, <3>1
    <3>2. CASE n # 0
      <4>1. n \in 1 .. N /\ n - 1 \in 0 .. N
        BY <3>2
      <4> QED
        BY <1>4, <3>2, <4>1
    <3> QED
      BY <3>1, <3>2
  <2> QED
    BY <2>1
<1>6. the = G(the)
  <2> HIDE DEF G
  <2> QED
    BY <1>5
<1>7. Filled(p, es) = the[N]
  BY DEF Filled
<1> HIDE DEF the
<1>8. /\ the = [n \in 0 .. N |-> the[n]] /\ the[0] = p
      /\ \A n \in 1 .. N : the[n] = Assign(the[n - 1], es[n])
  BY <1>6
<1> QED
  BY <1>7, <1>8 DEF Fills

\* The name of a node after these entries.
LEMMA FilledName ==
  ASSUME NEW p, NEW es, Len(es) \in Nat, NEW v,
         \A i \in 1 .. Len(es) : /\ es[i].sec \in {Blank} \cup Nesting
                                 /\ es[i].sec = Blank /\ es[i].key = "name" => es[i].val = v,
         p.name = v \/ \E i \in 1 .. Len(es) : es[i].sec = Blank /\ es[i].key = "name"
  PROVE  Filled(p, es).name = v
<1>1. PICK f : Fills(f, p, es) /\ Filled(p, es) = f[Len(es)]
  BY FilledRecursion
<1> DEFINE N == Len(es)
           Naming1(i) == es[i].sec = Blank /\ es[i].key = "name"
           T == {n \in Nat : /\ f[n].name \in {p.name, v}
                             /\ \A i \in 1 .. n : Naming1(i) => f[n].name = v}
<1>2. 0 \in T
  BY <1>1 DEF Fills
<1>3. ASSUME NEW m \in 1 .. N, m - 1 \in T PROVE m \in T
  <2>1. f[m] = Assign(f[m - 1], es[m])
    BY <1>1 DEF Fills
  <2>2. f[m].name = IF Naming1(m) THEN es[m].val ELSE f[m - 1].name
    BY <2>1, AssignName
  <2>3. Naming1(m) => es[m].val = v
    OBVIOUS
  <2>4. \A i \in 1 .. m : i = m \/ i \in 1 .. m - 1
    OBVIOUS
  <2> HIDE DEF Naming1
  <2>5. m \in Nat
    OBVIOUS
  <2>6. CASE Naming1(m)
    BY <2>2, <2>3, <2>5, <2>6
  <2>7. CASE ~ Naming1(m)
    BY <1>3, <2>2, <2>4, <2>5, <2>7
  <2> QED
    BY <2>6, <2>7
<1> HIDE DEF T
<1>4. N \in T
  BY <1>2, <1>3, UpTo
<1> QED
  BY <1>1, <1>4 DEF T

-----------------------------------------------------------------------------
(* The name that an item gives itself *)

LEMMA MaxIsGreatest ==
  ASSUME NEW m \in Nat, NEW S \in SUBSET (0 .. m), S # {}
  PROVE  Max(S) \in S /\ \A x \in S : x <= Max(S)
<1> DEFINE R == {n \in Nat : \E x \in S : n = m - x}
<1>1. PICK r \in R : \A q \in R : r <= q
  <2>1. PICK x \in S : TRUE
    OBVIOUS
  <2>2. x \in 0 .. m
    OBVIOUS
  <2>3. m - x \in Nat
    BY <2>2
  <2>4. m - x \in R
    BY <2>3
  <2>5. R \in SUBSET Nat /\ R # {}
    BY <2>4
  <2> HIDE DEF R
  <2> QED
    BY <2>5, LeastExists
<1>2. PICK x \in S : r = m - x
  OBVIOUS
<1>3. ASSUME NEW y \in S PROVE x >= y
  <2>1. m - y \in R
    OBVIOUS
  <2> QED
    BY <1>1, <1>2, <2>1
<1>4. \E z \in S : \A y \in S : z >= y
  BY <1>3
<1> QED
  BY <1>4 DEF Max

\* Line j of the item is open above line i.
OpenAbove(item, j, i) ==
  /\ item[j].kind = "open" /\ item[j].indent < item[i].indent
  /\ \A k \in j + 1 .. i : item[k].indent > item[j].indent

LEMMA AboveFact ==
  ASSUME NEW item \in Seq(LineShape), NEW i \in DOMAIN item
  PROVE  /\ Above(item)[i] \in 0 .. i - 1 /\ i \in 1 .. Len(item)
         /\ Above(item)[i] # 0 => item[Above(item)[i]].kind = "open"
         /\ Above(item)[i] = 0 => \A j \in 1 .. i - 1 : ~ OpenAbove(item, j, i)
<1> DEFINE S == {0} \cup {j \in 1 .. i - 1 : OpenAbove(item, j, i)}
<1>1. i \in 1 .. Len(item) /\ i - 1 \in Nat /\ S \in SUBSET (0 .. i - 1) /\ S # {}
  OBVIOUS
<1>2. Above(item)[i] = Max(S)
  BY DEF Above, OpenAbove
<1>3. Max(S) \in S /\ \A x \in S : x <= Max(S)
  <2> HIDE DEF S
  <2> QED
    BY <1>1, MaxIsGreatest
<1> QED
  BY <1>1, <1>2, <1>3 DEF OpenAbove

\* The entries of an item.
Entries3 == [sec : Text \cup {"ws-headers"}, key : Text \cup {"name"}, val : Text]

\* A key that occurs once has the value that is written.
LEMMA WrittenFact ==
  ASSUME NEW es \in Seq(Entries3), NEW key
  PROVE  /\ Written(es, key) \in Text
         /\ \A i \in 1 .. Len(es) : es[i].sec = Blank /\ es[i].key = key
              => \E k \in 1 .. Len(es) : /\ es[k].sec = Blank /\ es[k].key = key
                                         /\ Written(es, key) = es[k].val
<1> DEFINE I == {i \in 1 .. Len(es) : es[i].sec = Blank /\ es[i].key = key}
           i == IF I # {} THEN Min(I) ELSE 0
<1>1. Written(es, key) = IF i = 0 THEN Blank ELSE es[i].val
  BY DEF Written, SelectInSeq
<1>2. I \in SUBSET Nat /\ 0 \notin I
  OBVIOUS
<1>3. (i = 0 <=> I = {}) /\ (I # {} => i \in I)
  <2> HIDE DEF I
  <2> QED
    BY <1>2, SelectFact
<1>4. Blank \in Text
  BY TextAssumption
<1>5. \A k \in 1 .. Len(es) : es[k].val \in Text
  <2>1. \A k \in 1 .. Len(es) : es[k] \in Entries3
    OBVIOUS
  <2> QED
    BY <2>1 DEF Entries3
<1> HIDE DEF i
<1> QED
  BY <1>1, <1>3, <1>4, <1>5

\* An item names itself on line i.
NamedOn(item, i) ==
  /\ i \in 1 .. Len(item)
  /\ item[i].kind = "name" \/ (item[i].kind = "key" /\ item[i].key = "name" /\ Above(item)[i] = 0)
  /\ \A k \in 1 .. Len(item) : k # i => item[k].kind # "name" /\ item[k].key # "name"

\* What is known of a block item.
LEMMA BlockFact ==
  ASSUME NEW item \in Item, ~ IsFlow(item)
  PROVE  /\ item \in Seq(LineShape) /\ Len(item) \in Nat /\ Len(item) >= 1 /\ DOMAIN item = 1 .. Len(item)
         /\ item[1].kind \in {"dash", "name", "first"} /\ (Headless(item) <=> item[1].kind = "first")
         /\ \A i \in 1 .. Len(item) :
              /\ i > 1 => item[i].kind \in {"key", "open", "item"} /\ item[i].indent > item[1].indent
              /\ i > 1 \/ ~ Headless(item) => item[i].entries = <<>>
              /\ item[i].kind = "item" => Above(item)[i] # 0
         /\ Headless(item) => LET es == item[1].entries
                              IN Len(es) = 1 /\ es[1].sec = Blank /\ es[1].key # "name"
         /\ \E i \in 1 .. Len(item) : NamedOn(item, i)
<1>1. item \in Seq(LineShape) /\ item # <<>>
  BY DEF Item
<1>2. Len(item) \in Nat /\ Len(item) >= 1 /\ DOMAIN item = 1 .. Len(item)
  BY <1>1
<1>3. /\ item[1].kind \in {"dash", "name", "first"}
      /\ ~ Headless(item) => item[1].entries = <<>>
      /\ \A i \in DOMAIN item \ {1} : /\ item[i].kind \in {"key", "open", "item"} /\ item[i].entries = <<>>
                                      /\ item[i].indent > item[1].indent
                                      /\ item[i].kind = "item" => Above(item)[i] # 0
      /\ Headless(item) => LET es == item[1].entries
                           IN Len(es) = 1 /\ es[1].sec = Blank /\ es[1].key # "name"
  BY DEF Item
<1>7. Headless(item) <=> item[1].kind = "first"
  BY DEF Headless
<1>8. \A i \in 1 .. Len(item) :
        /\ i > 1 => item[i].kind \in {"key", "open", "item"} /\ item[i].indent > item[1].indent
        /\ i > 1 \/ ~ Headless(item) => item[i].entries = <<>>
        /\ item[i].kind = "item" => Above(item)[i] # 0
  <2> SUFFICES ASSUME NEW i \in 1 .. Len(item)
               PROVE  /\ i > 1 => item[i].kind \in {"key", "open", "item"} /\ item[i].indent > item[1].indent
                      /\ i > 1 \/ ~ Headless(item) => item[i].entries = <<>>
                      /\ item[i].kind = "item" => Above(item)[i] # 0
    OBVIOUS
  <2>1. i = 1 \/ (i > 1 /\ i \in DOMAIN item \ {1})
    BY <1>2
  <2>2. CASE i = 1
    BY <1>3, <2>2
  <2>3. CASE i > 1 /\ i \in DOMAIN item \ {1}
    BY <1>3, <2>3
  <2> QED
    BY <2>1, <2>2, <2>3
<1>4. NamesItself(item)
  BY DEF Item
<1>5. \E i \in DOMAIN item :
         /\ item[i].kind = "name" \/ (item[i].kind = "key" /\ item[i].key = "name" /\ Above(item)[i] = 0)
         /\ \A k \in DOMAIN item \ {i} : item[k].kind # "name" /\ item[k].key # "name"
  BY <1>4 DEF NamesItself
<1>6. \E i \in 1 .. Len(item) : NamedOn(item, i)
  BY <1>2, <1>5 DEF NamedOn
<1> QED
  BY <1>1, <1>2, <1>3, <1>6, <1>7, <1>8

\* The entries of one line of an item.
EntriesOf(item, i) ==
  LET j == Above(item)[i]
  IN CASE item[i].kind = "name" -> <<Entry(Blank, "name", item[i].val)>>
       [] item[i].kind = "key"  -> <<Entry(SectionBelow(item, j), item[i].key, item[i].val)>>
       [] item[i].kind = "item" ->
            <<Entry(SectionBelow(item, Above(item)[j]), item[j].key, item[i].val)>>
       [] OTHER                 -> item[i].entries

LEMMA SectionBelowFact ==
  ASSUME NEW item \in Seq(LineShape), NEW j \in 0 .. Len(item)
  PROVE  SectionBelow(item, j) \in Text \cup {"ws-headers"}
<1>1. Blank \in Text
  BY TextAssumption
<1>2. j # 0 => item[j].key \in Text
  <2>1. j # 0 => item[j] \in LineShape
    OBVIOUS
  <2> QED
    BY <2>1 DEF LineShape
<1> QED
  BY <1>1, <1>2 DEF SectionBelow

\* The entry of a line that begins an item with another key than its name.
LEMMA FirstEntry ==
  ASSUME NEW item \in Item, ~ IsFlow(item), NEW i \in 1 .. Len(item), item[i].kind = "first"
  PROVE  \E e \in Entries3 : EntriesOf(item, i) = <<e>> /\ e.key # "name"
<1> DEFINE es == item[1].entries
           X == [sec : Text, key : Text, val : Text]
<1>1. /\ item \in Seq(LineShape) /\ Len(item) \in Nat
      /\ i > 1 => item[i].kind \in {"key", "open", "item"}
      /\ Headless(item) <=> item[1].kind = "first"
      /\ Headless(item) => Len(es) = 1 /\ es[1].key # "name"
  BY BlockFact
<1>2. i = 1
  <2>1. ~ i > 1
    BY <1>1
  <2> QED
    BY <1>1, <2>1
<1>3. Len(es) = 1 /\ es[1].key # "name"
  BY <1>1, <1>2
<1>4. item[1] \in LineShape
  BY <1>1, <1>2
<1>5. es \in Seq(X)
  BY <1>4 DEF LineShape
<1> HIDE DEF X, es
<1>9. es[1] \in X
  BY <1>3, <1>5, Element
<1>6. es = <<es[1]>> /\ es[1] \in X
  <2> DEFINE t == <<es[1]>>
  <2>1. t \in Seq(X) /\ Len(t) = 1 /\ t[1] = es[1]
    BY <1>9
  <2> HIDE DEF t
  <2>2. t \in Seq(X) /\ Len(t) = Len(es) /\ \A n \in 1 .. Len(es) : es[n] = t[n]
    BY <1>3, <2>1
  <2>3. es = t
    BY <1>5, <2>2, SeqEqual
  <2> QED
    BY <1>9, <2>3 DEF t
<1>7. EntriesOf(item, i) = es
  BY <1>2 DEF EntriesOf, es
<1>8. X \subseteq Entries3
  BY DEF X, Entries3
<1> QED
  BY <1>3, <1>6, <1>7, <1>8

\* The entries of a line of a block item: an entry called name is on the line
\* that the item names itself on.
LEMMA EntriesOfFact ==
  ASSUME NEW item \in Item, ~ IsFlow(item), NEW n \in 1 .. Len(item), NamedOn(item, n),
         NEW i \in 1 .. Len(item)
  PROVE  /\ EntriesOf(item, i) \in Seq(Entries3)
         /\ \A e \in ToSet(EntriesOf(item, i)) : e.key = "name" => e.val = item[n].val
         /\ i = n => Entry(Blank, "name", item[n].val) \in ToSet(EntriesOf(item, i))
<1> DEFINE j == Above(item)[i]
<1>1. /\ item \in Seq(LineShape) /\ Len(item) \in Nat /\ DOMAIN item = 1 .. Len(item)
      /\ item[i].kind # "first" => item[i].entries = <<>>
      /\ item[i].kind = "item" => j # 0
  <2>1. /\ item \in Seq(LineShape) /\ Len(item) \in Nat /\ DOMAIN item = 1 .. Len(item)
        /\ i > 1 \/ ~ Headless(item) => item[i].entries = <<>>
        /\ item[i].kind = "item" => j # 0
        /\ Headless(item) <=> item[1].kind = "first"
    BY BlockFact
  <2>2. i > 1 \/ i = 1
    BY <2>1
  <2> QED
    BY <2>1, <2>2
<1>2. item[i] \in LineShape
  BY <1>1
<1>3. item[i].key \in Text /\ item[i].val \in Text
  BY <1>2 DEF LineShape
<1>4. j \in 0 .. i - 1 /\ (j # 0 => item[j].kind = "open")
  BY <1>1, AboveFact
<1>5. j \in 0 .. Len(item)
  BY <1>4
<1>6. \A sec \in Text \cup {"ws-headers"}, key \in Text \cup {"name"}, val \in Text :
        /\ <<Entry(sec, key, val)>> \in Seq(Entries3)
        /\ ToSet(<<Entry(sec, key, val)>>) = {Entry(sec, key, val)}
        /\ Entry(sec, key, val).key = key /\ Entry(sec, key, val).val = val
  <2>1. ASSUME NEW sec \in Text \cup {"ws-headers"}, NEW key \in Text \cup {"name"}, NEW val \in Text
        PROVE  /\ <<Entry(sec, key, val)>> \in Seq(Entries3)
               /\ ToSet(<<Entry(sec, key, val)>>) = {Entry(sec, key, val)}
               /\ Entry(sec, key, val).key = key /\ Entry(sec, key, val).val = val
    <3>1. Entry(sec, key, val) \in Entries3 /\ Entry(sec, key, val).key = key /\ Entry(sec, key, val).val = val
      BY DEF Entry, Entries3
    <3> QED
      BY <3>1, OneElement
  <2> QED
    BY <2>1
<1>7. Blank \in Text \cup {"ws-headers"} /\ "name" \in Text \cup {"name"}
  BY TextAssumption
<1>8. CASE item[i].kind = "name"
  <2>1. EntriesOf(item, i) = <<Entry(Blank, "name", item[i].val)>>
    BY <1>8 DEF EntriesOf
  <2>2. i = n
    BY <1>8 DEF NamedOn
  <2> DEFINE e == Entry(Blank, "name", item[i].val)
  <2>3. <<e>> \in Seq(Entries3) /\ ToSet(<<e>>) = {e} /\ e.val = item[i].val
    <3>1. e \in Entries3 /\ e.val = item[i].val
      BY <1>3, <1>7 DEF Entry, Entries3
    <3> HIDE DEF e
    <3> QED
      BY <3>1, OneElement
  <2> HIDE DEF e
  <2>4. EntriesOf(item, i) = <<e>>
    BY <2>1 DEF e
  <2>5. \A x \in ToSet(EntriesOf(item, i)) : x.val = item[n].val
    BY <2>2, <2>3, <2>4
  <2>6. Entry(Blank, "name", item[n].val) \in ToSet(EntriesOf(item, i))
    BY <2>2, <2>3, <2>4 DEF e
  <2> QED
    BY <2>3, <2>4, <2>5, <2>6
<1>9. CASE item[i].kind = "key"
  <2>1. EntriesOf(item, i) = <<Entry(SectionBelow(item, j), item[i].key, item[i].val)>>
    BY <1>9 DEF EntriesOf
  <2>2. SectionBelow(item, j) \in Text \cup {"ws-headers"} /\ item[i].key \in Text \cup {"name"}
    BY <1>1, <1>3, <1>5, SectionBelowFact
  <2>3. i # n => item[i].key # "name"
    BY DEF NamedOn
  <2>4. i = n => item[i].key = "name" /\ j = 0
    BY <1>9 DEF NamedOn
  <2>5. i = n => SectionBelow(item, j) = Blank
    BY <2>4 DEF SectionBelow
  <2> HIDE DEF j
  <2> QED
    BY <1>3, <1>6, <2>1, <2>2, <2>3, <2>4, <2>5
<1>10. CASE item[i].kind = "item"
  <2>1. EntriesOf(item, i) = <<Entry(SectionBelow(item, Above(item)[j]), item[j].key, item[i].val)>>
    BY <1>10 DEF EntriesOf
  <2>2. j \in 1 .. Len(item) /\ item[j].kind = "open"
    BY <1>1, <1>4, <1>5, <1>10
  <2>3. item[j].key # "name" /\ i # n
    BY <1>10, <2>2 DEF NamedOn
  <2>4. Above(item)[j] \in 0 .. j - 1
    BY <1>1, <2>2, AboveFact
  <2>5. Above(item)[j] \in 0 .. Len(item)
    BY <2>2, <2>4
  <2>6. SectionBelow(item, Above(item)[j]) \in Text \cup {"ws-headers"}
    BY <1>1, <2>5, SectionBelowFact
  <2>7. item[j].key \in Text \cup {"name"}
    <3>1. item[j] \in LineShape
      BY <1>1, <2>2
    <3> QED
      BY <3>1 DEF LineShape
  <2> HIDE DEF j
  <2> QED
    BY <1>3, <1>6, <2>1, <2>3, <2>6, <2>7
<1>11. CASE item[i].kind \notin {"name", "key", "item", "first"}
  <2>1. EntriesOf(item, i) = <<>>
    BY <1>1, <1>11 DEF EntriesOf
  <2>2. i # n
    BY <1>11 DEF NamedOn
  <2>3. <<>> \in Seq(Entries3) /\ ToSet(<<>>) = {}
    BY DEF ToSet
  <2> QED
    BY <2>1, <2>2, <2>3
<1>12. CASE item[i].kind = "first"
  <2>1. PICK e \in Entries3 : EntriesOf(item, i) = <<e>> /\ e.key # "name"
    BY <1>12, FirstEntry
  <2>2. <<e>> \in Seq(Entries3) /\ ToSet(<<e>>) = {e}
    BY OneElement
  <2>3. i # n
    BY <1>12 DEF NamedOn
  <2> QED
    BY <2>1, <2>2, <2>3
<1> QED
  BY <1>8, <1>9, <1>10, <1>11, <1>12

\* What a block item is called.
LEMMA BlockName ==
  ASSUME NEW item \in Item, ~ IsFlow(item), NEW n \in 1 .. Len(item), NamedOn(item, n)
  PROVE  /\ Entries(item) \in Seq(Entries3)
         /\ Written(Entries(item), "name") = item[n].val
<1> DEFINE ss == [i \in DOMAIN item |-> EntriesOf(item, i)]
           es == Entries(item)
<1>1. item \in Seq(LineShape) /\ Len(item) \in Nat /\ DOMAIN item = 1 .. Len(item)
  BY BlockFact
<1>2. es = FlattenSeq(ss)
  BY DEF Entries, EntriesOf
<1>3. \A i \in 1 .. Len(item) :
        /\ EntriesOf(item, i) \in Seq(Entries3)
        /\ \A e \in ToSet(EntriesOf(item, i)) : e.key = "name" => e.val = item[n].val
        /\ i = n => Entry(Blank, "name", item[n].val) \in ToSet(EntriesOf(item, i))
  BY EntriesOfFact
<1>4. ss \in Seq(Seq(Entries3)) /\ DOMAIN ss = 1 .. Len(item) /\ \A i \in 1 .. Len(item) : ss[i] = EntriesOf(item, i)
  BY <1>1, <1>3
<1> HIDE DEF ss, es
<1>5. es \in Seq(Entries3) /\ ToSet(es) = UNION {ToSet(ss[i]) : i \in DOMAIN ss}
  BY <1>2, <1>4, FlattenFact
<1>6. \A e \in ToSet(es) : e.key = "name" => e.val = item[n].val
  BY <1>3, <1>4, <1>5
<1>7. Entry(Blank, "name", item[n].val) \in ToSet(es)
  BY <1>3, <1>4, <1>5
<1>8. PICK i \in 1 .. Len(es) : es[i].sec = Blank /\ es[i].key = "name"
  <2>1. Entry(Blank, "name", item[n].val).sec = Blank /\ Entry(Blank, "name", item[n].val).key = "name"
    BY DEF Entry
  <2>2. DOMAIN es = 1 .. Len(es)
    BY <1>5
  <2> QED
    BY <1>7, <2>1, <2>2 DEF ToSet
<1>9. PICK k \in 1 .. Len(es) : es[k].sec = Blank /\ es[k].key = "name" /\ Written(es, "name") = es[k].val
  BY <1>5, <1>8, WrittenFact
<1>10. es[k] \in ToSet(es)
  <2>1. DOMAIN es = 1 .. Len(es)
    BY <1>5
  <2> QED
    BY <2>1 DEF ToSet
<1> QED
  BY <1>5, <1>6, <1>9, <1>10 DEF es

-----------------------------------------------------------------------------
(* The name of the node that is made of an item *)

\* The keys that the entries of a node have.
Keys ==
  Text \cup {"name", "ws-host"} \cup {DirectKeys[i] : i \in DOMAIN DirectKeys}
    \cup {FlowDotted[i].to : i \in DOMAIN FlowDotted}

\* Entries whose name, if they have one, is v.
Naming(v) ==
  {e \in [sec : {Blank} \cup Nesting, key : Keys, val : Text] :
     e.sec = Blank /\ e.key = "name" => e.val = v}

LEMMA FilledNaming ==
  ASSUME NEW v, NEW es \in Seq(Naming(v)), NEW p,
         p.name = v \/ \E e \in ToSet(es) : e.sec = Blank /\ e.key = "name"
  PROVE  Filled(p, es).name = v
<1>1. Len(es) \in Nat /\ DOMAIN es = 1 .. Len(es) /\ \A i \in 1 .. Len(es) : es[i] \in Naming(v)
  OBVIOUS
<1>2. \A i \in 1 .. Len(es) : /\ es[i].sec \in {Blank} \cup Nesting
                              /\ es[i].sec = Blank /\ es[i].key = "name" => es[i].val = v
  BY <1>1 DEF Naming
<1>3. p.name = v \/ \E i \in 1 .. Len(es) : es[i].sec = Blank /\ es[i].key = "name"
  BY <1>1 DEF ToSet
<1> QED
  BY <1>1, <1>2, <1>3, FilledName

LEMMA Direct1Fact ==
  ASSUME NEW v, NEW key \in Keys, NEW val \in Text, key = "name" => val = v
  PROVE  /\ Direct1(key, val) \in Seq(Naming(v))
         /\ key = "name" /\ val # Blank =>
              \E e \in ToSet(Direct1(key, val)) : e.sec = Blank /\ e.key = "name"
<1> DEFINE k == IF key = "Host" THEN "ws-host" ELSE key
           e == Entry(Blank, k, val)
<1>1. k \in Keys /\ (k = "name" <=> key = "name")
  <2>1. "ws-host" \in Keys
    BY DEF Keys
  <2> QED
    BY <2>1
<1>2. e \in Naming(v) /\ e.sec = Blank /\ e.key = k
  <2> HIDE DEF k
  <2> QED
    BY <1>1 DEF Entry, Naming
<1>3. Direct1(key, val) = IF val = Blank THEN <<>> ELSE <<e>>
  BY DEF Direct1
<1> HIDE DEF e
<1>4. <<e>> \in Seq(Naming(v)) /\ ToSet(<<e>>) = {e}
  BY <1>2, OneElement
<1>5. <<>> \in Seq(Naming(v))
  OBVIOUS
<1>6. CASE val = Blank
  BY <1>3, <1>5, <1>6
<1>7. CASE val # Blank
  <2>1. Direct1(key, val) = <<e>>
    BY <1>3, <1>7
  <2>2. Direct1(key, val) \in Seq(Naming(v)) /\ e \in ToSet(Direct1(key, val))
    BY <1>4, <2>1
  <2> HIDE DEF k
  <2> QED
    BY <1>1, <1>2, <2>2
<1> QED
  BY <1>6, <1>7

LEMMA KeysFact ==
  /\ DOMAIN DirectKeys = 1 .. Len(DirectKeys) /\ Len(DirectKeys) \in Nat
  /\ 1 \in DOMAIN DirectKeys /\ DirectKeys[1] = "name"
  /\ \A i \in DOMAIN DirectKeys : DirectKeys[i] \in Keys
  /\ DOMAIN SectionOrder = 1 .. Len(SectionOrder) /\ Len(SectionOrder) \in Nat
  /\ \A i \in DOMAIN SectionOrder : SectionOrder[i] \in Nesting
  /\ DOMAIN FlowDotted = 1 .. Len(FlowDotted) /\ Len(FlowDotted) \in Nat
  /\ \A i \in DOMAIN FlowDotted : FlowDotted[i].sec \in Nesting /\ FlowDotted[i].to \in Keys
<1>1. /\ DOMAIN DirectKeys = 1 .. Len(DirectKeys) /\ Len(DirectKeys) \in Nat
      /\ 1 \in DOMAIN DirectKeys /\ DirectKeys[1] = "name"
  BY DEF DirectKeys
<1>2. /\ DOMAIN SectionOrder = 1 .. Len(SectionOrder) /\ Len(SectionOrder) \in Nat
      /\ \A i \in DOMAIN SectionOrder : SectionOrder[i] \in Nesting
  BY DEF SectionOrder, Nesting
<1>3. /\ DOMAIN FlowDotted = 1 .. Len(FlowDotted) /\ Len(FlowDotted) \in Nat
      /\ \A i \in DOMAIN FlowDotted : FlowDotted[i].sec \in Nesting
  BY DEF FlowDotted, Nesting
<1>4. /\ \A i \in DOMAIN DirectKeys : DirectKeys[i] \in Keys
      /\ \A i \in DOMAIN FlowDotted : FlowDotted[i].to \in Keys
  BY DEF Keys
<1> QED
  BY <1>1, <1>2, <1>3, <1>4

\* The entries of a section name nothing.
LEMMA SectionFact ==
  ASSUME NEW v, NEW es \in Seq(Entries3), NEW sec \in Nesting
  PROVE  Section(es, sec) \in Seq(Naming(v))
<1> DEFINE ss == [i \in DOMAIN es |-> IF InSection(es[i], sec) THEN <<es[i]>> ELSE <<>>]
<1>1. Len(es) \in Nat /\ DOMAIN es = 1 .. Len(es) /\ \A i \in 1 .. Len(es) : es[i] \in Entries3
  OBVIOUS
<1>2. ASSUME NEW i \in 1 .. Len(es)
      PROVE  (IF InSection(es[i], sec) THEN <<es[i]>> ELSE <<>>) \in Seq(Naming(v))
  <2>1. CASE InSection(es[i], sec)
    <3>1. es[i].sec \in Nesting
      BY <2>1 DEF InSection, Nesting
    <3>2. es[i] = [sec |-> es[i].sec, key |-> es[i].key, val |-> es[i].val]
          /\ es[i].key \in Text \cup {"name"} /\ es[i].val \in Text
      BY <1>1 DEF Entries3
    <3>3. es[i].sec # Blank
      BY <3>1, NotBlank DEF Nesting
    <3>4. es[i] \in Naming(v)
      <4>1. es[i].key \in Keys /\ es[i].sec \in {Blank} \cup Nesting
        BY <3>1, <3>2 DEF Keys
      <4>2. es[i] \in [sec : {Blank} \cup Nesting, key : Keys, val : Text]
        BY <3>2, <4>1
      <4> QED
        BY <3>3, <4>2 DEF Naming
    <3>5. <<es[i]>> \in Seq(Naming(v))
      BY <3>4
    <3> QED
      BY <2>1, <3>5
  <2>2. CASE ~ InSection(es[i], sec)
    BY <2>2
  <2> QED
    BY <2>1, <2>2
<1>3. ss \in Seq(Seq(Naming(v)))
  BY <1>1, <1>2
<1>4. Section(es, sec) = FlattenSeq(ss)
  BY DEF Section
<1> HIDE DEF ss
<1> QED
  BY <1>3, <1>4, FlattenFact

\* The node that serde_yaml's value makes is called what is written.
LEMMA YamlName ==
  ASSUME NEW es \in Seq(Entries3)
  PROVE  NodeFromYaml(es).name = Written(es, "name")
<1> DEFINE v == Written(es, "name")
           X == Naming(v)
           ss == [i \in DOMAIN DirectKeys |-> Direct1(DirectKeys[i], Written(es, DirectKeys[i]))]
           tt == [i \in DOMAIN SectionOrder |-> Section(es, SectionOrder[i])]
<1>1. /\ DOMAIN DirectKeys = 1 .. Len(DirectKeys) /\ Len(DirectKeys) \in Nat
      /\ \A i \in 1 .. Len(DirectKeys) : DirectKeys[i] \in Keys
      /\ 1 \in DOMAIN DirectKeys /\ DirectKeys[1] = "name"
      /\ DOMAIN SectionOrder = 1 .. Len(SectionOrder) /\ Len(SectionOrder) \in Nat
      /\ \A i \in 1 .. Len(SectionOrder) : SectionOrder[i] \in Nesting
  BY KeysFact
<1>2. ASSUME NEW i \in 1 .. Len(DirectKeys)
      PROVE  /\ Direct1(DirectKeys[i], Written(es, DirectKeys[i])) \in Seq(X)
             /\ DirectKeys[i] = "name" /\ v # Blank =>
                  \E e \in ToSet(Direct1(DirectKeys[i], Written(es, DirectKeys[i]))) :
                    e.sec = Blank /\ e.key = "name"
  <2>1. DirectKeys[i] \in Keys /\ Written(es, DirectKeys[i]) \in Text
    BY <1>1, WrittenFact
  <2>2. DirectKeys[i] = "name" => Written(es, DirectKeys[i]) = v
    OBVIOUS
  <2> QED
    BY <2>1, <2>2, Direct1Fact
<1>3. \A i \in 1 .. Len(SectionOrder) : Section(es, SectionOrder[i]) \in Seq(X)
  BY <1>1, SectionFact
<1> HIDE DEF v, X
<1>4. ss \in Seq(Seq(X)) /\ DOMAIN ss = 1 .. Len(DirectKeys)
      /\ ss[1] = Direct1(DirectKeys[1], Written(es, DirectKeys[1]))
  BY <1>1, <1>2
<1>5. tt \in Seq(Seq(X))
  BY <1>1, <1>3
<1>6. NodeFromYaml(es) = Filled(EmptyNode, FlattenSeq(ss) \o FlattenSeq(tt))
  BY DEF NodeFromYaml
<1> HIDE DEF ss, tt
<1>7. /\ FlattenSeq(ss) \in Seq(X) /\ FlattenSeq(tt) \in Seq(X)
      /\ ToSet(FlattenSeq(ss)) = UNION {ToSet(ss[i]) : i \in DOMAIN ss}
  BY <1>4, <1>5, FlattenFact
<1> DEFINE all == FlattenSeq(ss) \o FlattenSeq(tt)
<1>8. all \in Seq(X)
  BY <1>7
<1>9. ToSet(all) = ToSet(FlattenSeq(ss)) \cup ToSet(FlattenSeq(tt))
  BY <1>7, ConcatSet
<1>10. v # Blank => \E e \in ToSet(all) : e.sec = Blank /\ e.key = "name"
  <2>1. v # Blank => \E e \in ToSet(ss[1]) : e.sec = Blank /\ e.key = "name"
    BY <1>1, <1>2, <1>4
  <2>2. 1 \in DOMAIN ss
    BY <1>1, <1>4
  <2> QED
    BY <1>7, <1>9, <2>1, <2>2
<1>11. EmptyNode.name = Blank
  BY DEF EmptyNode
<1> HIDE DEF all
<1>12. Filled(EmptyNode, all).name = v
  BY <1>8, <1>10, <1>11, FilledNaming DEF X
<1> QED
  BY <1>6, <1>12 DEF all, v

LEMMA FlowValueFact ==
  ASSUME NEW es \in Seq(Entries3), NEW key
  PROVE  FlowValue(es, key) \in Text
<1> DEFINE I == {i \in 1 .. Len(es) : es[i].key = key \/ <<es[i].key, key>> \in Suffixed}
           i == IF I # {} THEN Min(I) ELSE 0
<1>1. FlowValue(es, key) = IF i = 0 THEN Blank ELSE es[i].val
  BY DEF FlowValue, SelectInSeq
<1>2. I \in SUBSET Nat /\ 0 \notin I
  OBVIOUS
<1>3. (i = 0 <=> I = {}) /\ (I # {} => i \in I)
  <2> HIDE DEF I
  <2> QED
    BY <1>2, SelectFact
<1>4. Blank \in Text
  BY TextAssumption
<1>5. \A k \in 1 .. Len(es) : es[k].val \in Text
  <2>1. \A k \in 1 .. Len(es) : es[k] \in Entries3
    OBVIOUS
  <2> QED
    BY <2>1 DEF Entries3
<1> HIDE DEF i
<1> QED
  BY <1>1, <1>3, <1>4, <1>5

\* The node that the text of a flow item makes is called what is found there.
LEMMA FlowNodeName ==
  ASSUME NEW es \in Seq(Entries3)
  PROVE  NodeFromFlow(es).name = FlowValue(es, "name")
<1> DEFINE v == FlowValue(es, "name")
           X == Naming(v)
           plain(key) == IF key \in NotInFlow THEN <<>> ELSE Direct1(key, FlowValue(es, key))
           dotted(o) == IF FlowValue(es, o.key) = Blank THEN <<>> ELSE <<Entry(o.sec, o.to, FlowValue(es, o.key))>>
           ss == [i \in DOMAIN DirectKeys |-> plain(DirectKeys[i])]
           tt == [i \in DOMAIN FlowDotted |-> dotted(FlowDotted[i])]
           start == [EmptyNode EXCEPT !.name = v, !.type = FlowValue(es, "type")]
<1>1. start.name = v /\ EmptyNode.name = Blank
  BY DEF EmptyNode
<1>2. NodeFromFlow(es) = IF start.name = Blank THEN EmptyNode ELSE Filled(start, FlattenSeq(ss) \o FlattenSeq(tt))
  BY DEF NodeFromFlow
<1> HIDE DEF start
<1>3. /\ DOMAIN DirectKeys = 1 .. Len(DirectKeys) /\ Len(DirectKeys) \in Nat
      /\ \A i \in 1 .. Len(DirectKeys) : DirectKeys[i] \in Keys
      /\ DOMAIN FlowDotted = 1 .. Len(FlowDotted) /\ Len(FlowDotted) \in Nat
      /\ \A i \in 1 .. Len(FlowDotted) : FlowDotted[i].sec \in Nesting /\ FlowDotted[i].to \in Keys
  BY KeysFact
<1>4. ASSUME NEW i \in 1 .. Len(DirectKeys) PROVE plain(DirectKeys[i]) \in Seq(X)
  <2> DEFINE key == DirectKeys[i]
  <2>1. key \in Keys /\ FlowValue(es, key) \in Text /\ (key = "name" => FlowValue(es, key) = v)
    BY <1>3, FlowValueFact
  <2> HIDE DEF key, v
  <2>2. Direct1(key, FlowValue(es, key)) \in Seq(X)
    BY <2>1, Direct1Fact
  <2>3. <<>> \in Seq(X)
    OBVIOUS
  <2> HIDE DEF X
  <2>4. plain(key) \in Seq(X)
    BY <2>2, <2>3
  <2> QED
    BY <2>4 DEF key
<1>5. ASSUME NEW i \in 1 .. Len(FlowDotted) PROVE dotted(FlowDotted[i]) \in Seq(X)
  <2> DEFINE o == FlowDotted[i]
             val == FlowValue(es, o.key)
             e == Entry(o.sec, o.to, val)
  <2>1. o.sec \in Nesting /\ o.to \in Keys /\ val \in Text
    BY <1>3, FlowValueFact
  <2>2. o.sec # Blank
    BY <2>1, NotBlank DEF Nesting
  <2>3. e \in X
    <3> HIDE DEF o, val, v
    <3>1. e.sec = o.sec
      BY DEF Entry
    <3> QED
      BY <2>1, <2>2, <3>1 DEF Entry, Naming
  <2> HIDE DEF e, X
  <2>4. <<e>> \in Seq(X) /\ <<>> \in Seq(X)
    BY <2>3
  <2> QED
    BY <2>4 DEF e
<1> HIDE DEF v, X
<1>6. ss \in Seq(Seq(X))
  <2> HIDE DEF plain
  <2> QED
    BY <1>3, <1>4
<1>7. tt \in Seq(Seq(X))
  <2> HIDE DEF dotted
  <2> QED
    BY <1>3, <1>5
<1> HIDE DEF ss, tt
<1> DEFINE all == FlattenSeq(ss) \o FlattenSeq(tt)
<1>8. all \in Seq(X)
  <2>1. FlattenSeq(ss) \in Seq(X) /\ FlattenSeq(tt) \in Seq(X)
    BY <1>6, <1>7, FlattenFact
  <2> QED
    BY <2>1
<1> HIDE DEF all
<1>9. Filled(start, all).name = v
  BY <1>1, <1>8, FilledNaming DEF X
<1> QED
  BY <1>1, <1>2, <1>9 DEF all, v

LEMMA FlattenOne ==
  ASSUME NEW X, NEW s \in Seq(X), NEW ss, Len(ss) = 1, ss \in Seq(Seq(X)), ss[1] = s
  PROVE  FlattenSeq(ss) = s
<1>1. PICK f : Joins(f, ss, X) /\ FlattenSeq(ss) = f[Len(ss)]
  BY FlattenRecursion
<1>2. f[0] = <<>> /\ f[1] = f[1 - 1] \o ss[1]
  BY <1>1 DEF Joins
<1>3. 1 - 1 = 0 /\ <<>> \o s = s
  OBVIOUS
<1> QED
  BY <1>1, <1>2, <1>3

LEMMA FlowFact ==
  ASSUME NEW item \in Item, IsFlow(item)
  PROVE  /\ item \in Seq(LineShape) /\ Len(item) = 1 /\ item[1].kind = "flow"
         /\ item[1].entries \in Seq(Entries3) /\ Entries(item) = item[1].entries
         /\ FlowValue(item[1].entries, "name") = Written(item[1].entries, "name")
<1> DEFINE es == item[1].entries
<1>1. item \in Seq(LineShape) /\ Len(item) = 1 /\ item[1].kind = "flow" /\ NamesItself(item)
  BY DEF Item, IsFlow
<1>2. es \in Seq(Entries3)
  <2>1. item[1] \in LineShape
    <3>1. 1 \in DOMAIN item
      BY <1>1
    <3> QED
      BY <1>1, <3>1, Element
  <2>2. es \in Seq([sec : Text, key : Text, val : Text])
    BY <2>1 DEF LineShape
  <2>3. [sec : Text, key : Text, val : Text] \subseteq Entries3
    BY DEF Entries3
  <2> HIDE DEF es
  <2> QED
    BY <2>2, <2>3, SeqWiden
<1>3. Entries(item) = es
  <2> DEFINE ss == [i \in DOMAIN item |-> EntriesOf(item, i)]
  <2>1. Entries(item) = FlattenSeq(ss)
    BY DEF Entries, EntriesOf
  <2>2. DOMAIN item = 1 .. 1 /\ EntriesOf(item, 1) = es
    BY <1>1 DEF EntriesOf
  <2>3. ss = [i \in 1 .. 1 |-> es]
    BY <2>2
  <2> HIDE DEF es
  <2>4. ss \in Seq(Seq(Entries3)) /\ Len(ss) = 1 /\ ss[1] = es
    BY <1>2, <2>3
  <2> HIDE DEF ss
  <2> QED
    BY <1>2, <2>1, <2>4, FlattenOne
<1>4. PICK i \in DOMAIN es :
        /\ es[i].sec = Blank /\ es[i].key = "name"
        /\ \A k \in DOMAIN es \ {i} : es[k].key # "name" /\ (k < i => <<es[k].key, "name">> \notin Suffixed)
  <2>1. LET is == item[1].entries
        IN \E i \in DOMAIN is :
             /\ is[i].sec = Blank /\ is[i].key = "name"
             /\ \A k \in DOMAIN is \ {i} : is[k].key # "name" /\ (k < i => <<is[k].key, "name">> \notin Suffixed)
    BY <1>1 DEF NamesItself, IsFlow
  <2> QED
    BY <2>1
<1> HIDE DEF es
<1>5. DOMAIN es = 1 .. Len(es) /\ Len(es) \in Nat
  BY <1>2
<1>6. Written(es, "name") = es[i].val
  <2>1. PICK k \in 1 .. Len(es) : es[k].sec = Blank /\ es[k].key = "name" /\ Written(es, "name") = es[k].val
    BY <1>2, <1>4, <1>5, WrittenFact
  <2>2. k = i
    BY <1>4, <1>5, <2>1
  <2> QED
    BY <2>1, <2>2
<1>7. FlowValue(es, "name") = es[i].val
  <2> DEFINE I == {k \in 1 .. Len(es) : es[k].key = "name" \/ <<es[k].key, "name">> \in Suffixed}
             j == IF I # {} THEN Min(I) ELSE 0
  <2>1. FlowValue(es, "name") = IF j = 0 THEN Blank ELSE es[j].val
    BY DEF FlowValue, SelectInSeq
  <2>2. I \in SUBSET Nat /\ 0 \notin I /\ i \in I
    BY <1>4, <1>5
  <2>3. \A k \in I : ~ k < i
    <3>1. ASSUME NEW k \in I, k < i PROVE FALSE
      <4>1. k \in DOMAIN es \ {i}
        BY <1>5, <2>2, <3>1
      <4> QED
        BY <1>4, <3>1, <4>1
    <3> QED
      BY <3>1
  <2>4. (j = 0 <=> I = {}) /\ (I # {} => j \in I /\ \A k \in I : j <= k)
    <3> HIDE DEF I
    <3> QED
      BY <2>2, SelectFact
  <2>5. j \in I /\ j <= i /\ ~ j < i /\ j # 0
    BY <2>2, <2>3, <2>4
  <2>6. j = i
    <3>1. i \in Nat /\ j \in Nat
      BY <1>5, <2>2, <2>5
    <3> HIDE DEF j
    <3> QED
      BY <2>5, <3>1
  <2> HIDE DEF j
  <2> QED
    BY <2>1, <2>5, <2>6
<1> QED
  BY <1>1, <1>2, <1>3, <1>6, <1>7 DEF es

\* What the item says its name is.
NameIn(item) == Written(Entries(item), "name")

LEMMA ItemFact ==
  ASSUME NEW item \in Item
  PROVE  /\ NameIn(item) \in Text /\ NodeOf(item).name = NameIn(item)
         /\ IsFlow(item) => NodeFromFlow(item[1].entries).name = NameIn(item)
<1>1. Entries(item) \in Seq(Entries3)
  <2>1. CASE IsFlow(item)
    BY <2>1, FlowFact
  <2>2. CASE ~ IsFlow(item)
    <3>1. PICK n \in 1 .. Len(item) : NamedOn(item, n)
      BY <2>2, BlockFact
    <3> QED
      BY <2>2, <3>1, BlockName
  <2> QED
    BY <2>1, <2>2
<1>2. NameIn(item) \in Text
  BY <1>1, WrittenFact DEF NameIn
<1>3. NodeOf(item).name = NameIn(item)
  BY <1>1, YamlName DEF NodeOf, NameIn
<1>4. ASSUME IsFlow(item) PROVE NodeFromFlow(item[1].entries).name = NameIn(item)
  <2> DEFINE es == item[1].entries
  <2>1. es \in Seq(Entries3) /\ Entries(item) = es /\ FlowValue(es, "name") = Written(es, "name")
    BY <1>4, FlowFact
  <2> HIDE DEF es
  <2>2. NodeFromFlow(es).name = FlowValue(es, "name")
    BY <2>1, FlowNodeName
  <2>3. NodeFromFlow(es).name = NameIn(item)
    BY <2>1, <2>2 DEF NameIn
  <2> QED
    BY <2>3 DEF es
<1> QED
  BY <1>2, <1>3, <1>4

-----------------------------------------------------------------------------
(* The names of nodes *)

\* Sequences of nodes.
Nodes(s) == s \in Seq(ToSet(s)) /\ \A x \in ToSet(s) : x.name \in Text

Named3 == Text \ {Blank}

LEMMA NodesFact ==
  ASSUME NEW X, NEW s \in Seq(X), \A x \in X : x.name \in Text
  PROVE  Nodes(s)
<1>1. ToSet(s) \subseteq X
  BY DEF ToSet
<1>2. s \in Seq(ToSet(s))
  BY SeqNarrow
<1> QED
  BY <1>1, <1>2 DEF Nodes

LEMMA NoNodes ==
  /\ Nodes(<<>>) /\ NamesIn(<<>>) = <<>>
  /\ \A x : x.name \in Text => Nodes(<<x>>) /\ NamesIn(<<x>>) = <<x.name>>
<1>1. <<>> \in Seq({}) /\ ToSet(<<>>) = {}
  BY DEF ToSet
<1>2. Nodes(<<>>) /\ NamesIn(<<>>) = <<>>
  BY <1>1 DEF Nodes, NamesIn
<1>3. ASSUME NEW x, x.name \in Text PROVE Nodes(<<x>>) /\ NamesIn(<<x>>) = <<x.name>>
  <2>1. x \in {x}
    OBVIOUS
  <2>2. <<x>> \in Seq({x}) /\ ToSet(<<x>>) = {x}
    BY <2>1, OneElement
  <2>3. NamesIn(<<x>>) = <<x.name>>
    BY DEF NamesIn
  <2> QED
    BY <1>3, <2>2, <2>3 DEF Nodes
<1> QED
  BY <1>2, <1>3

NameOf(X) == [x \in X |-> x.name]

LEMMA NamesMap ==
  ASSUME NEW X, NEW s \in Seq(X), \A x \in X : x.name \in Text
  PROVE  NameOf(X) \in [X -> Text] /\ Same(NamesIn(s), Map(NameOf(X), s)) /\ NamesIn(s) \in Seq(Text)
<1>1. NameOf(X) \in [X -> Text]
  BY DEF NameOf
<1>2. Maps(Map(NameOf(X), s), NameOf(X), s, X, Text)
  BY <1>1, MapFact
<1>3. \A i \in DOMAIN s : s[i] \in X
  OBVIOUS
<1>4. \A i \in DOMAIN s : NameOf(X)[s[i]] = s[i].name
  BY <1>3 DEF NameOf
<1>5. NamesIn(s) = Map(NameOf(X), s)
  BY <1>4 DEF NamesIn, Map
<1>6. Map(NameOf(X), s) \in Seq(Text)
  BY <1>2 DEF Maps
<1> QED
  BY <1>1, <1>5, <1>6 DEF Same

LEMMA NamesConcat ==
  ASSUME NEW s, Nodes(s), NEW t, Nodes(t)
  PROVE  /\ Nodes(s \o t) /\ Same(NamesIn(s \o t), NamesIn(s) \o NamesIn(t))
         /\ NamesIn(s) \in Seq(Text) /\ NamesIn(t) \in Seq(Text)
<1> DEFINE X == ToSet(s) \cup ToSet(t)
           u == s \o t
<1>1. s \in Seq(ToSet(s)) /\ t \in Seq(ToSet(t)) /\ \A x \in X : x.name \in Text
  BY DEF Nodes
<1>2. ToSet(s) \subseteq X /\ ToSet(t) \subseteq X
  OBVIOUS
<1> HIDE DEF X
<1>3. s \in Seq(X) /\ t \in Seq(X)
  BY <1>1, <1>2, SeqWiden
<1>4. u \in Seq(X)
  BY <1>3
<1> HIDE DEF u
<1>5. /\ NameOf(X) \in [X -> Text]
      /\ Same(NamesIn(s), Map(NameOf(X), s)) /\ Same(NamesIn(t), Map(NameOf(X), t))
      /\ Same(NamesIn(u), Map(NameOf(X), u)) /\ NamesIn(s) \in Seq(Text) /\ NamesIn(t) \in Seq(Text)
  BY <1>1, <1>3, <1>4, NamesMap
<1>6. Same(Map(NameOf(X), s \o t), Map(NameOf(X), s) \o Map(NameOf(X), t))
  BY <1>3, <1>5, MapConcat
<1>7. Nodes(u)
  BY <1>1, <1>4, NodesFact
<1> QED
  BY <1>5, <1>6, <1>7 DEF Same, u

LEMMA NamesWith ==
  ASSUME NEW s, Nodes(s)
  PROVE  Nodes(WithName(s)) /\ Same(NamesIn(WithName(s)), Only(NamesIn(s), Named3))
<1> DEFINE X == ToSet(s)
           F == NameOf(X)
           A == {r \in ToSet(s) : r.name # Blank}
           w == Only(s, A)
<1>1. s \in Seq(X) /\ \A x \in X : x.name \in Text
  BY DEF Nodes
<1>2. w \in Seq(X)
  <2> HIDE DEF A, X
  <2> QED
    BY <1>1, OnlyKeeps
<1>3. \A x \in ToSet(s) : x \in A <=> F[x] \in Named3
  BY <1>1 DEF NameOf, Named3
<1>4. WithName(s) = w
  BY DEF WithName
<1> HIDE DEF X, w
<1>5. F \in [X -> Text] /\ Same(NamesIn(s), Map(F, s)) /\ Same(NamesIn(w), Map(F, w))
  BY <1>1, <1>2, NamesMap
<1> HIDE DEF A, F
<1>6. Same(Map(F, Only(s, A)), Only(Map(F, s), Named3))
  BY <1>1, <1>3, <1>5, MapOnly
<1>7. Nodes(w)
  BY <1>1, <1>2, NodesFact
<1> QED
  BY <1>4, <1>5, <1>6, <1>7 DEF Same, w

LEMMA NamesClean ==
  ASSUME NEW s, Nodes(s)
  PROVE  Same(NamesIn(CleanNodes(s)), Only(NamesIn(s), Text \ Metadata))
<1> DEFINE X == ToSet(s)
           F == NameOf(X)
           A == {p \in ToSet(s) : p.name \notin Metadata}
           B == Text \ Metadata
           w == Only(s, A)
<1>1. s \in Seq(X) /\ \A x \in X : x.name \in Text
  BY DEF Nodes
<1>2. w \in Seq(X)
  <2> HIDE DEF A, X
  <2> QED
    BY <1>1, OnlyKeeps
<1>3. \A x \in ToSet(s) : x \in A <=> F[x] \in B
  BY <1>1 DEF NameOf
<1>4. CleanNodes(s) = w
  BY DEF CleanNodes
<1> HIDE DEF X, w
<1>5. F \in [X -> Text] /\ Same(NamesIn(s), Map(F, s)) /\ Same(NamesIn(w), Map(F, w))
  BY <1>1, <1>2, NamesMap
<1> HIDE DEF A, F, B
<1>6. Same(Map(F, Only(s, A)), Only(Map(F, s), B))
  BY <1>1, <1>3, <1>5, MapOnly
<1> QED
  BY <1>4, <1>5, <1>6 DEF Same, w, B

\* Notes are left out, and what has no name.
LEMMA BothLeftOut ==
  ASSUME NEW s \in Seq(Text)
  PROVE  Same(Only(Only(s, Named3), Text \ Metadata),
              Only(s, {n \in ToSet(s) : n \notin Metadata \cup {Blank}}))
<1> DEFINE A == Named3 \cap (Text \ Metadata)
           B == {n \in ToSet(s) : n \notin Metadata \cup {Blank}}
<1>1. Only(Only(s, Named3), Text \ Metadata) = Only(s, A)
  BY OnlyOnly
<1>2. \A n \in ToSet(s) : n \in Text
  BY DEF ToSet
<1>3. \A n \in ToSet(s) : n \in A <=> n \in B
  BY <1>2 DEF Named3
<1> HIDE DEF A, B
<1>4. Only(s, A) = Only(s, B)
  BY <1>3, OnlySame
<1> QED
  BY <1>1, <1>4 DEF Same, B

-----------------------------------------------------------------------------
(* The names that arrive *)

\* The names of items, those without a name left out.
Arriving == [s \in Seq(Item) |-> Only(ItemNames(s), Named3)]

NameInOf == [item \in Item |-> NameIn(item)]

LEMMA ItemNamesFact ==
  ASSUME NEW s \in Seq(Item)
  PROVE  NameInOf \in [Item -> Text] /\ Same(ItemNames(s), Map(NameInOf, s)) /\ ItemNames(s) \in Seq(Text)
<1>1. NameInOf \in [Item -> Text]
  BY ItemFact DEF NameInOf
<1>2. Maps(Map(NameInOf, s), NameInOf, s, Item, Text)
  BY <1>1, MapFact
<1>3. \A i \in DOMAIN s : s[i] \in Item
  OBVIOUS
<1>4. \A i \in DOMAIN s : NameInOf[s[i]] = NameIn(s[i])
  BY <1>3 DEF NameInOf
<1>5. ItemNames(s) = Map(NameInOf, s)
  BY <1>4 DEF ItemNames, Map, NameIn
<1>6. Map(NameInOf, s) \in Seq(Text)
  BY <1>2 DEF Maps
<1> QED
  BY <1>1, <1>5, <1>6 DEF Same

LEMMA ArrivingSplits ==
  /\ Splits(Arriving, Item, Text)
  /\ \A item \in Item : Arriving[<<item>>] = Only(<<NameIn(item)>>, Named3)
<1>1. ASSUME NEW s \in Seq(Item) PROVE Arriving[s] = Only(ItemNames(s), Named3) /\ Arriving[s] \in Seq(Text)
  <2>1. ItemNames(s) \in Seq(Text)
    BY ItemNamesFact
  <2>2. Only(ItemNames(s), Named3) \in Seq(Text)
    BY <2>1, OnlyKeeps
  <2> QED
    BY <2>2 DEF Arriving
<1>2. Arriving \in [Seq(Item) -> Seq(Text)]
  <2>1. \A s \in Seq(Item) : Only(ItemNames(s), Named3) \in Seq(Text)
    <3>1. ASSUME NEW s \in Seq(Item) PROVE Only(ItemNames(s), Named3) \in Seq(Text)
      BY <1>1
    <3> QED
      BY <3>1
  <2> QED
    BY <2>1 DEF Arriving
<1>3. Arriving[<<>>] = <<>>
  <2>1. <<>> \in Seq(Item) /\ ItemNames(<<>>) = <<>>
    BY DEF ItemNames
  <2>2. Arriving[<<>>] = Only(<<>>, Named3)
    BY <1>1, <2>1
  <2>3. Blank \in Text
    BY TextAssumption
  <2>4. Only(<<>>, Named3) = <<>>
    BY <2>3, OnlyOne
  <2> QED
    BY <2>2, <2>4
<1>4. ASSUME NEW s \in Seq(Item), NEW t \in Seq(Item)
      PROVE  Arriving[s \o t] = Arriving[s] \o Arriving[t]
  <2> DEFINE u == s \o t
             a == ItemNames(s)
             b == ItemNames(t)
  <2>1. u \in Seq(Item)
    OBVIOUS
  <2> HIDE DEF u
  <2>2. /\ NameInOf \in [Item -> Text] /\ a \in Seq(Text) /\ b \in Seq(Text)
        /\ Same(a, Map(NameInOf, s)) /\ Same(b, Map(NameInOf, t))
        /\ Same(ItemNames(u), Map(NameInOf, u))
    BY <2>1, ItemNamesFact
  <2>3. Same(Map(NameInOf, s \o t), Map(NameInOf, s) \o Map(NameInOf, t))
    BY <2>2, MapConcat
  <2> HIDE DEF a, b
  <2>4. ItemNames(u) = a \o b
    BY <2>2, <2>3 DEF u, Same
  <2>5. Only(a \o b, Named3) = Only(a, Named3) \o Only(b, Named3)
    BY <2>2, OnlyConcat
  <2>6. Arriving[u] = Only(ItemNames(u), Named3)
    BY <1>1, <2>1
  <2>7. Arriving[s] = Only(a, Named3) /\ Arriving[t] = Only(b, Named3)
    BY <1>1 DEF a, b
  <2> QED
    BY <2>4, <2>5, <2>6, <2>7 DEF u
<1>5. Splits(Arriving, Item, Text)
  BY <1>2, <1>3, <1>4 DEF Splits
<1>6. ASSUME NEW item \in Item PROVE Arriving[<<item>>] = Only(<<NameIn(item)>>, Named3)
  <2>1. <<item>> \in Seq(Item) /\ ItemNames(<<item>>) = <<NameIn(item)>>
    BY DEF ItemNames, NameIn
  <2> QED
    BY <1>1, <2>1
<1> QED
  BY <1>5, <1>6

LEMMA NodesOfNames ==
  ASSUME NEW s \in Seq(Item)
  PROVE  /\ NodesOf(s) \in Seq({NodeOf(item) : item \in Item})
         /\ Nodes(NodesOf(s)) /\ Same(NamesIn(NodesOf(s)), Arriving[s])
<1> DEFINE X == {NodeOf(item) : item \in Item}
           nodes == [i \in DOMAIN s |-> NodeOf(s[i])]
<1>1. DOMAIN s = 1 .. Len(s) /\ Len(s) \in Nat /\ \A i \in 1 .. Len(s) : s[i] \in Item
  OBVIOUS
<1>2. nodes \in Seq(X) /\ DOMAIN nodes = DOMAIN s /\ \A i \in DOMAIN s : nodes[i] = NodeOf(s[i])
  BY <1>1
<1>3. \A x \in X : x.name \in Text
  BY ItemFact
<1>4. NodesOf(s) = WithName(nodes)
  BY DEF NodesOf
<1> HIDE DEF nodes, X
<1>5. NamesIn(nodes) = ItemNames(s)
  <2>1. \A i \in DOMAIN s : nodes[i].name = NameIn(s[i])
    BY <1>1, <1>2, ItemFact
  <2> QED
    BY <1>2, <2>1 DEF NamesIn, ItemNames, NameIn
<1>6. Nodes(nodes)
  BY <1>2, <1>3, NodesFact
<1>7. Nodes(WithName(nodes)) /\ Same(NamesIn(WithName(nodes)), Only(NamesIn(nodes), Named3))
  BY <1>6, NamesWith
<1>8. WithName(nodes) \in Seq(X)
  BY <1>2, OnlyKeeps DEF WithName
<1> QED
  BY <1>4, <1>5, <1>7, <1>8 DEF Same, Arriving, X

LEMMA FlattenNames ==
  ASSUME NEW X, NEW ss \in Seq(Seq(X)), \A x \in X : x.name \in Text
  PROVE  /\ Nodes(FlattenSeq(ss))
         /\ Same(NamesIn(FlattenSeq(ss)), FlattenSeq([i \in DOMAIN ss |-> NamesIn(ss[i])]))
<1> DEFINE h == [s \in Seq(X) |-> NamesIn(s)]
<1>1. ASSUME NEW s \in Seq(X) PROVE Nodes(s) /\ NamesIn(s) \in Seq(Text)
  BY NodesFact, NamesMap
<1>2. h \in [Seq(X) -> Seq(Text)] /\ \A s \in Seq(X) : h[s] = NamesIn(s)
  BY <1>1
<1>3. <<>> \in Seq(X) /\ \A s, t \in Seq(X) : s \o t \in Seq(X)
  OBVIOUS
<1>4. FlattenSeq(ss) \in Seq(X)
  BY FlattenFact
<1>5. \A i \in DOMAIN ss : ss[i] \in Seq(X)
  OBVIOUS
<1> HIDE DEF h
<1>6. h[<<>>] = <<>>
  BY <1>2, <1>3, NoNodes
<1>7. ASSUME NEW s \in Seq(X), NEW t \in Seq(X) PROVE h[s \o t] = h[s] \o h[t]
  <2>1. Same(NamesIn(s \o t), NamesIn(s) \o NamesIn(t))
    BY <1>1, NamesConcat
  <2>2. h[s \o t] = NamesIn(s \o t)
    BY <1>2, <1>3
  <2>3. h[s] = NamesIn(s) /\ h[t] = NamesIn(t)
    BY <1>2
  <2> QED
    BY <2>1, <2>2, <2>3 DEF Same
<1>8. Splits(h, X, Text)
  BY <1>2, <1>6, <1>7 DEF Splits
<1>9. Same(h[FlattenSeq(ss)], FlattenSeq([i \in DOMAIN ss |-> h[ss[i]]]))
  BY <1>8, FlattenSplits
<1>10. [i \in DOMAIN ss |-> h[ss[i]]] = [i \in DOMAIN ss |-> NamesIn(ss[i])]
  BY <1>2, <1>5
<1>11. h[FlattenSeq(ss)] = NamesIn(FlattenSeq(ss))
  BY <1>2, <1>4
<1> QED
  BY <1>1, <1>4, <1>9, <1>10, <1>11 DEF Same

\* What arrives through YAML, notes included.
LEMMA YamlNames ==
  ASSUME NEW d \in Document
  PROVE  /\ d.proxies \o Providers(d) \in Seq(Item)
         /\ Same(NamesIn(Yaml(d).proxies), Only(Arriving[d.proxies \o Providers(d)], Text \ Metadata))
<1> DEFINE pp == [i \in DOMAIN d.providers |-> d.providers[i].items]
           ss == [i \in DOMAIN d.providers |-> NodesOf(d.providers[i].items)]
           X == {NodeOf(item) : item \in Item}
           own == NodesOf(d.proxies)
           more == FlattenSeq(ss)
           all == own \o more
<1>1. /\ d.proxies \in Seq(Item) /\ DOMAIN d.providers = 1 .. Len(d.providers) /\ Len(d.providers) \in Nat
      /\ \A i \in 1 .. Len(d.providers) : d.providers[i].items \in Seq(Item)
  <2>1. d.providers \in Seq([name : Text, items : Seq(Item)])
    BY DocumentFact
  <2>2. DOMAIN d.providers = 1 .. Len(d.providers) /\ Len(d.providers) \in Nat
    BY <2>1
  <2>3. ASSUME NEW i \in DOMAIN d.providers PROVE d.providers[i].items \in Seq(Item)
    <3>1. d.providers[i] \in [name : Text, items : Seq(Item)]
      BY <2>1, Element
    <3> QED
      BY <3>1
  <2> QED
    BY <2>2, <2>3, DocumentFact
<1>2. pp \in Seq(Seq(Item)) /\ DOMAIN pp = DOMAIN d.providers /\ \A i \in DOMAIN d.providers : pp[i] = d.providers[i].items
  BY <1>1
<1>3. \A i \in DOMAIN d.providers :
        /\ NodesOf(d.providers[i].items) \in Seq(X)
        /\ Same(NamesIn(NodesOf(d.providers[i].items)), Arriving[d.providers[i].items])
  BY <1>1, NodesOfNames
<1>4. ss \in Seq(Seq(X)) /\ DOMAIN ss = DOMAIN d.providers /\ \A i \in DOMAIN d.providers : ss[i] = NodesOf(d.providers[i].items)
  <2> HIDE DEF X
  <2> QED
    BY <1>1, <1>3
<1>5. \A x \in X : x.name \in Text
  BY ItemFact
<1>6. \E x : IsResult(x) /\ x.proxies = all /\ Yaml(d) = Sanitize(x)
  <2> HIDE DEF own, ss
  <2>1. \A p, g, r : LET x == [proxies |-> p, groups |-> g, rules |-> r] IN IsResult(x) /\ x.proxies = p
    BY RecordResult
  <2> DEFINE nodes(i) == NodesOf(d.providers[i].items)
             filled == {i \in DOMAIN d.providers : nodes(i) # <<>>}
             known == [n \in {d.providers[i].name : i \in filled} |->
                         NamesIn(nodes(CHOOSE i \in filled : d.providers[i].name = n))]
             groups == WithName([i \in DOMAIN d.groups |-> GroupFromYaml(Entries(d.groups[i]), known)])
  <2>2. Yaml(d) = Sanitize([proxies |-> all, groups |-> groups, rules |-> RulesFromYaml(d)])
    BY DEF Yaml, own, ss
  <2> HIDE DEF all, groups
  <2> QED
    BY <2>1, <2>2
<1>7. Yaml(d).proxies = CleanNodes(all)
  BY <1>6, SanitizeResult
<1> HIDE DEF pp, ss, X
<1>8. Nodes(own) /\ Same(NamesIn(own), Arriving[d.proxies])
  BY <1>1, NodesOfNames
<1>9. Nodes(more) /\ Same(NamesIn(more), FlattenSeq([i \in DOMAIN ss |-> NamesIn(ss[i])]))
  BY <1>4, <1>5, FlattenNames
<1>10. [i \in DOMAIN ss |-> NamesIn(ss[i])] = [i \in DOMAIN pp |-> Arriving[pp[i]]]
  BY <1>2, <1>3, <1>4 DEF Same
<1>11. Same(Arriving[FlattenSeq(pp)], FlattenSeq([i \in DOMAIN pp |-> Arriving[pp[i]]]))
  BY <1>2, ArrivingSplits, FlattenSplits
<1>12. Providers(d) = FlattenSeq(pp) /\ FlattenSeq(pp) \in Seq(Item)
  BY <1>2, FlattenFact DEF Providers, pp
<1> HIDE DEF own, more
<1>13. Arriving[d.proxies \o Providers(d)] = Arriving[d.proxies] \o Arriving[Providers(d)]
  BY <1>1, <1>12, ArrivingSplits DEF Splits
<1>14. Nodes(all) /\ Same(NamesIn(all), NamesIn(own) \o NamesIn(more))
  BY <1>8, <1>9, NamesConcat
<1> HIDE DEF all
<1>15. NamesIn(all) = Arriving[d.proxies \o Providers(d)]
  BY <1>8, <1>9, <1>10, <1>11, <1>12, <1>13, <1>14 DEF Same
<1>16. Same(NamesIn(CleanNodes(all)), Only(NamesIn(all), Text \ Metadata))
  BY <1>14, NamesClean
<1>17. d.proxies \o Providers(d) \in Seq(Item)
  BY <1>1, <1>12
<1> QED
  BY <1>7, <1>15, <1>16, <1>17 DEF Same

\* The names of what the lines hand over.
NamesByItem(d) ==
  [i \in DOMAIN d.proxies |->
     IF i \in LostNodes(d.proxies) THEN <<>> ELSE Only(<<NameIn(d.proxies[i])>>, Named3)]

LEMMA KeptNames ==
  ASSUME doc \in Document
  PROVE  /\ NamesByItem(doc) \in Seq(Seq(Text)) /\ Len(NamesByItem(doc)) = Len(doc.proxies)
         /\ \A i \in 1 .. Len(doc.proxies) :
              NamesByItem(doc)[i] = IF i \in LostNodes(doc.proxies) THEN <<>>
                                    ELSE Only(<<NameIn(doc.proxies[i])>>, Named3)
         /\ reader # "yaml" => Kept \in Seq(Item) /\ Arriving[Kept] = FlattenSeq(NamesByItem(doc))
<1> DEFINE items == doc.proxies
           kk == [i \in DOMAIN items |-> IF i \in LostNodes(items) THEN <<>> ELSE <<items[i]>>]
<1>1. DOMAIN items = 1 .. Len(items) /\ Len(items) \in Nat /\ \A i \in 1 .. Len(items) : items[i] \in Item
  BY DocumentFact
<1>2. ASSUME NEW i \in 1 .. Len(items)
      PROVE  (IF i \in LostNodes(items) THEN <<>> ELSE <<items[i]>>) \in Seq(Item)
  BY <1>1
<1>3. kk \in Seq(Seq(Item)) /\ DOMAIN kk = 1 .. Len(items) /\ Len(kk) = Len(items)
      /\ \A i \in 1 .. Len(items) : kk[i] = IF i \in LostNodes(items) THEN <<>> ELSE <<items[i]>>
  BY <1>1, <1>2
<1>4. NamesByItem(doc) = [i \in DOMAIN kk |-> Arriving[kk[i]]]
  <2>1. ASSUME NEW i \in 1 .. Len(items)
        PROVE  Arriving[kk[i]] = IF i \in LostNodes(items) THEN <<>> ELSE Only(<<NameIn(items[i])>>, Named3)
    <3>1. Arriving[<<>>] = <<>>
      BY ArrivingSplits DEF Splits
    <3>2. Arriving[<<items[i]>>] = Only(<<NameIn(items[i])>>, Named3)
      BY <1>1, ArrivingSplits
    <3> HIDE DEF kk, items
    <3> QED
      BY <1>3, <3>1, <3>2
  <2> HIDE DEF kk
  <2> QED
    BY <1>1, <1>3, <2>1 DEF NamesByItem
<1> HIDE DEF kk
<1>5. Same(Arriving[FlattenSeq(kk)], FlattenSeq([i \in DOMAIN kk |-> Arriving[kk[i]]]))
  <2>1. kk \in Seq(Seq(Item)) /\ Splits(Arriving, Item, Text)
    BY <1>3, ArrivingSplits
  <2> QED
    BY <2>1, FlattenSplits
<1>10. NamesByItem(doc) \in Seq(Seq(Text))
  <2>1. \A i \in 1 .. Len(items) : Arriving[kk[i]] \in Seq(Text)
    <3>1. \A s \in Seq(Item) : Arriving[s] \in Seq(Text)
      BY ArrivingSplits DEF Splits
    <3>2. \A i \in 1 .. Len(items) : kk[i] \in Seq(Item)
      BY <1>3
    <3> QED
      BY <3>1, <3>2
  <2> QED
    BY <1>1, <1>3, <1>4, <2>1
<1>6. reader # "yaml" => Kept = FlattenSeq(kk)
  BY DEF Kept, kk
<1>7. FlattenSeq(kk) \in Seq(Item)
  BY <1>3, FlattenFact
<1>8. Len(NamesByItem(doc)) = Len(doc.proxies)
  BY <1>1 DEF NamesByItem
<1>9. \A i \in 1 .. Len(doc.proxies) :
        NamesByItem(doc)[i] = IF i \in LostNodes(doc.proxies) THEN <<>>
                              ELSE Only(<<NameIn(doc.proxies[i])>>, Named3)
  BY <1>1 DEF NamesByItem
<1> QED
  BY <1>4, <1>5, <1>6, <1>7, <1>8, <1>9, <1>10 DEF Same

-----------------------------------------------------------------------------
(* The line reader and the nodes *)

\* u is s and t together.
Concat(u, s, t) ==
  /\ Len(u) = Len(s) + Len(t) /\ Len(s) \in Nat /\ Len(t) \in Nat
  /\ \A i \in 1 .. Len(s) : u[i] = s[i]
  /\ \A i \in 1 .. Len(t) : u[Len(s) + i] = t[i]

LEMMA ConcatFact ==
  ASSUME NEW X, NEW s \in Seq(X), NEW t \in Seq(X)
  PROVE  Concat(s \o t, s, t)
  BY DEF Concat

\* The elements of ss[k] are in all after the first a.
Places(all, ss, k, a) ==
  /\ a \in Nat /\ Len(ss[k]) \in Nat /\ Len(all) \in Nat
  /\ a + Len(ss[k]) <= Len(all)
  /\ \A j \in 1 .. Len(ss[k]) : all[a + j] = ss[k][j]

LEMMA PlacesConcat ==
  ASSUME NEW u, NEW s, NEW t, NEW ss, NEW k, NEW a, Concat(u, s, t), Places(s, ss, k, a)
  PROVE  Places(u, ss, k, a)
<1> DEFINE b == Len(ss[k])
           n == Len(s)
<1>1. /\ Len(u) = n + Len(t) /\ n \in Nat /\ Len(t) \in Nat
      /\ \A i \in 1 .. n : u[i] = s[i]
      /\ a \in Nat /\ b \in Nat /\ a + b <= n
      /\ \A j \in 1 .. b : s[a + j] = ss[k][j]
  BY DEF Concat, Places
<1> HIDE DEF b, n
<1>2. Len(u) \in Nat /\ a + b <= Len(u) /\ \A j \in 1 .. b : a + j \in 1 .. n
  BY <1>1
<1>3. \A j \in 1 .. b : u[a + j] = ss[k][j]
  BY <1>1, <1>2
<1> QED
  BY <1>1, <1>2, <1>3 DEF Places, b

\* Where the elements of one sequence are among those of all.
LEMMA JoinsIndex ==
  ASSUME NEW X, NEW ss \in Seq(Seq(X)), NEW f, Joins(f, ss, X),
         NEW k \in 1 .. Len(ss)
  PROVE  Concat(f[k], f[k - 1], ss[k]) /\ Places(f[Len(ss)], ss, k, Len(f[k - 1]))
<1> DEFINE N == Len(ss)
           a == Len(f[k - 1])
           T == {n \in Nat : n \in k .. N => Places(f[n], ss, k, a)}
<1>1. /\ N \in Nat /\ k \in Nat /\ k \in 1 .. N
      /\ \A n \in 1 .. N : ss[n] \in Seq(X) /\ n - 1 \in 0 .. N
  OBVIOUS
<1>2. /\ \A n \in 0 .. N : f[n] \in Seq(X)
      /\ \A n \in 1 .. N : f[n] = f[n - 1] \o ss[n]
  BY DEF Joins
<1>3. ASSUME NEW n \in 1 .. N PROVE Concat(f[n], f[n - 1], ss[n])
  <2>1. f[n - 1] \in Seq(X) /\ ss[n] \in Seq(X) /\ f[n] = f[n - 1] \o ss[n]
    BY <1>1, <1>2
  <2>2. Concat(f[n - 1] \o ss[n], f[n - 1], ss[n])
    BY <2>1, ConcatFact
  <2> QED
    BY <2>1, <2>2
<1>4. Places(f[k], ss, k, a)
  <2>1. Concat(f[k], f[k - 1], ss[k])
    BY <1>3
  <2>2. a \in Nat /\ Len(ss[k]) \in Nat /\ Len(f[k]) = a + Len(ss[k])
        /\ \A j \in 1 .. Len(ss[k]) : f[k][a + j] = ss[k][j]
    BY <2>1 DEF Concat
  <2> HIDE DEF a
  <2> QED
    BY <2>2 DEF Places
<1> HIDE DEF a
<1>6. 0 \in T
  BY <1>1
<1>7. ASSUME NEW m \in 1 .. N, m - 1 \in T PROVE m \in T
  <2>1. SUFFICES ASSUME m \in k .. N PROVE Places(f[m], ss, k, a)
    OBVIOUS
  <2>2. CASE m = k
    BY <1>4, <2>2
  <2>3. CASE m # k
    <3>1. m - 1 \in k .. N /\ m - 1 \in Nat
      BY <1>1, <2>1, <2>3
    <3>2. Places(f[m - 1], ss, k, a)
      BY <1>7, <3>1
    <3>3. Concat(f[m], f[m - 1], ss[m])
      BY <1>3
    <3> QED
      BY <3>2, <3>3, PlacesConcat
  <2> QED
    BY <2>2, <2>3
<1> HIDE DEF T
<1>8. N \in T
  BY <1>1, <1>6, <1>7, UpTo
<1>9. N \in k .. N
  BY <1>1
<1> QED
  BY <1>1, <1>3, <1>8, <1>9 DEF T, a

\* f[k] is the lines, g[k] the names of the first k items.
Lined(f) == Joins(f, doc.proxies, LineShape) /\ ProxyLines(doc) = f[Len(doc.proxies)]

Called(g) == Joins(g, NamesByItem(doc), Text) /\ FlattenSeq(NamesByItem(doc)) = g[Len(doc.proxies)]

\* Whether an item begins with another key than its name follows from the items
\* before it: the last of them that does not begin so is open, or none is.
LEMMA UnseenFact ==
  ASSUME NEW items \in Seq(Item), NEW opens \in SUBSET DOMAIN items,
         NEW k \in 1 .. Len(items), Headless(items[k])
  PROVE  k \in Unseen(items, opens)
           <=> \/ k = 1
               \/ /\ k - 1 \in 1 .. Len(items)
                  /\ IF Headless(items[k - 1]) THEN k - 1 \in Unseen(items, opens) ELSE k - 1 \notin opens
<1> DEFINE Runs(j, i) == j < i /\ ~ Headless(items[j]) /\ \A l \in j + 1 .. i : Headless(items[l])
           U == Unseen(items, opens)
<1>1. DOMAIN items = 1 .. Len(items) /\ Len(items) \in Nat
  OBVIOUS
<1>2. \A i \in 1 .. Len(items) : i \in U <=> Headless(items[i]) /\ ~ \E j \in opens : Runs(j, i)
  BY <1>1 DEF Unseen
<1>3. opens \subseteq 1 .. Len(items)
  BY <1>1
<1>4. CASE k = 1
  <2>1. \A j \in opens : ~ j < 1
    BY <1>1, <1>3
  <2> QED
    BY <1>2, <1>4, <2>1
<1>5. CASE k # 1
  <2>1. PICK m \in 1 .. Len(items) : m = k - 1 /\ k \in Nat /\ m \in Nat
    BY <1>1, <1>5
  <2>2. CASE Headless(items[m])
    <3>1. ASSUME NEW j \in opens, Runs(j, k) PROVE Runs(j, m)
      <4>1. j \in Nat /\ j < k /\ j # m
        BY <1>1, <1>3, <2>2, <3>1
      <4>2. j < m /\ \A l \in j + 1 .. m : l \in j + 1 .. k
        BY <2>1, <4>1
      <4> QED
        BY <3>1, <4>2
    <3>2. ASSUME NEW j \in opens, Runs(j, m) PROVE Runs(j, k)
      <4>1. j \in Nat /\ j < m
        BY <1>1, <1>3, <3>2
      <4>2. j < k /\ \A l \in j + 1 .. k : l \in j + 1 .. m \/ l = k
        BY <2>1, <4>1
      <4> QED
        BY <3>2, <4>2
    <3> HIDE DEF Runs, U
    <3>3. k \in U <=> m \in U
      BY <1>2, <2>2, <3>1, <3>2
    <3> QED
      BY <1>5, <2>1, <2>2, <3>3 DEF U
  <2>3. CASE ~ Headless(items[m])
    <3>1. m \in opens => Runs(m, k)
      <4>1. m < k /\ \A l \in m + 1 .. k : l = k
        BY <2>1
      <4> QED
        BY <2>3, <4>1
    <3>2. ASSUME m \notin opens, NEW j \in opens, Runs(j, k) PROVE FALSE
      <4>1. j \in Nat /\ j < k /\ j # m
        BY <1>1, <1>3, <3>2
      <4>2. m \in j + 1 .. k
        BY <2>1, <4>1
      <4> QED
        BY <2>3, <3>2, <4>2
    <3> HIDE DEF Runs, U
    <3>3. k \in U <=> m \notin opens
      BY <1>2, <3>1, <3>2
    <3> QED
      BY <1>5, <2>1, <2>3, <3>3 DEF U
  <2> QED
    BY <2>2, <2>3
<1> QED
  BY <1>4, <1>5

\* The reader finds no item open that it could take item k for.
Stray(k) == k \in Unseen(doc.proxies, {i \in DOMAIN doc.proxies : ~ IsFlow(doc.proxies[i])})

\* A tuple of one member is not empty.
LEMMA NotNone ==
  ASSUME NEW s, s = <<s[1]>>
  PROVE  s # <<>>
<1> DEFINE a == s[1]
<1>1. s = <<a>>
  OBVIOUS
<1> HIDE DEF a
<1> QED
  BY <1>1

LEMMA StrayFact ==
  ASSUME doc \in Document, NEW k \in 1 .. Len(doc.proxies)
  PROVE  /\ k \in LostNodes(doc.proxies) <=> k \in Overtaken(doc.proxies) \/ Stray(k)
         /\ Stray(k) => Headless(doc.proxies[k])
         /\ Headless(doc.proxies[k]) => ~ IsFlow(doc.proxies[k])
         /\ Headless(doc.proxies[k]) =>
              (Stray(k) <=> \/ k = 1
                            \/ /\ k - 1 \in 1 .. Len(doc.proxies)
                               /\ Stray(k - 1) \/ IsFlow(doc.proxies[k - 1]))
<1> DEFINE items == doc.proxies
           opens == {i \in DOMAIN items : ~ IsFlow(items[i])}
<1>1. items \in Seq(Item) /\ DOMAIN items = 1 .. Len(items)
  BY DocumentFact
<1>2. \A i \in 1 .. Len(items) : Headless(items[i]) => ~ IsFlow(items[i])
  BY DEF Headless, IsFlow
<1>3. \A i \in 1 .. Len(items) : Stray(i) => Headless(items[i])
  BY DEF Stray, Unseen
<1>4. k \in LostNodes(items) <=> k \in Overtaken(items) \/ Stray(k)
  BY DEF LostNodes, Stray
<1>5. ASSUME Headless(items[k])
      PROVE  Stray(k) <=> \/ k = 1
                          \/ k - 1 \in 1 .. Len(items) /\ (Stray(k - 1) \/ IsFlow(items[k - 1]))
  <2> DEFINE m == k - 1
  <2>1. opens \in SUBSET DOMAIN items
    OBVIOUS
  <2>2. \A i \in 1 .. Len(items) : (i \notin opens <=> IsFlow(items[i])) /\ (Stray(i) <=> i \in Unseen(items, opens))
    BY <1>1 DEF Stray
  <2> HIDE DEF opens, items
  <2>3. k \in Unseen(items, opens)
          <=> \/ k = 1
              \/ /\ m \in 1 .. Len(items)
                 /\ IF Headless(items[m]) THEN m \in Unseen(items, opens) ELSE m \notin opens
    BY <1>1, <1>5, <2>1, UnseenFact DEF items
  <2> HIDE DEF m
  <2>4. k \in 1 .. Len(items)
    BY DEF items
  <2>5. Stray(k) <=> k = 1 \/ (m \in 1 .. Len(items) /\ (Stray(m) \/ IsFlow(items[m])))
    BY <1>2, <1>3, <2>2, <2>3, <2>4
  <2> QED
    BY <2>5 DEF m
<1> QED
  BY <1>2, <1>3, <1>4, <1>5

\* The reader has read j lines of a block item.  Below a header that is still
\* open all lines are indented deeper than it.
InBlock(item, j) ==
  /\ node = <<node[1]>>
  /\ \E i \in 1 .. Len(item) : NamedOn(item, i) /\ (i <= j => node[1].name = item[i].val)
  /\ nested \in {Blank} \cup Nesting
  /\ nested # Blank => \E p \in 1 .. j : /\ item[p].kind = "open" /\ item[p].indent = depth
                                         /\ \A q \in p + 1 .. j : item[q].indent > depth

\* The reader has read j lines of item k.
Inside(f, g, k, j) ==
  /\ At = 1 + Len(f[k - 1]) + j
  /\ IF IsFlow(doc.proxies[k]) \/ Stray(k) THEN node = <<>> /\ NamesIn(out.proxies) = g[k]
     ELSE NamesIn(out.proxies) = g[k - 1] /\ InBlock(doc.proxies[k], j)

Reads(f, g) ==
  /\ Nodes(out.proxies)
  /\ At <= 1 => node = <<>> /\ NamesIn(out.proxies) = <<>>
  /\ At \in 2 .. ProxiesEnd(doc) =>
       \E k \in 1 .. Len(doc.proxies) : \E j \in 1 .. Len(doc.proxies[k]) : Inside(f, g, k, j)
  /\ At > ProxiesEnd(doc) => node = <<>> /\ NamesIn(out.proxies) = g[Len(doc.proxies)]

\* The nodes that have been handed over are those of the items before the one
\* that is being read, and that one has the name that its lines gave it so far.
NodesInv ==
  /\ reader \in {"none", "lines"} => \E f, g : Lined(f) /\ Called(g) /\ Reads(f, g)
  /\ reader = "yaml" => out = Yaml(doc)
  /\ reader = "done" => NamesIn(out.proxies) = Only(FlattenSeq(NamesByItem(doc)), Text \ Metadata)

\* All lines of the first k items are read.
Complete(g, k) ==
  \/ /\ k = 0 \/ IsFlow(doc.proxies[k]) \/ Stray(k)
     /\ node = <<>> /\ NamesIn(out.proxies) = g[k]
  \/ /\ k # 0 /\ ~ IsFlow(doc.proxies[k]) /\ ~ Stray(k)
     /\ NamesIn(out.proxies) = g[k - 1]
     /\ node = <<node[1]>> /\ node[1].name = NameIn(doc.proxies[k])
     /\ nested # Blank => doc.proxies[k][1].indent <= depth

\* The lines of items among those of all of them.
LEMMA LinesOfItems ==
  ASSUME NEW items \in Seq(Item), NEW f, Joins(f, items, LineShape)
  PROVE  /\ Len(items) \in Nat /\ \A k \in 1 .. Len(items) : items[k] \in Item
         /\ f[0] = <<>> /\ Len(f[Len(items)]) \in Nat
         /\ \A k \in 1 .. Len(items) :
              /\ Len(f[k - 1]) \in Nat /\ Len(f[k]) \in Nat
              /\ Len(items[k]) \in Nat /\ Len(items[k]) >= 1
              /\ Len(f[k]) = Len(f[k - 1]) + Len(items[k])
              /\ Len(f[k]) <= Len(f[Len(items)])
              /\ \A j \in 1 .. Len(items[k]) : f[Len(items)][Len(f[k - 1]) + j] = items[k][j]
<1> DEFINE N == Len(items)
           all == f[N]
<1>1. items \in Seq(Seq(LineShape))
  BY ItemsFact
<1>2. N \in Nat /\ \A k \in 1 .. N : items[k] \in Item
  OBVIOUS
<1>3. f[0] = <<>> /\ all \in Seq(LineShape)
  <2>1. N \in 0 .. N
    BY <1>2
  <2> QED
    BY <2>1 DEF Joins
<1>4. ASSUME NEW k \in 1 .. N
      PROVE  /\ Len(f[k - 1]) \in Nat /\ Len(f[k]) \in Nat
             /\ Len(items[k]) \in Nat /\ Len(items[k]) >= 1
             /\ Len(f[k]) = Len(f[k - 1]) + Len(items[k])
             /\ Len(f[k]) <= Len(all)
             /\ \A j \in 1 .. Len(items[k]) : all[Len(f[k - 1]) + j] = items[k][j]
  <2>1. Concat(f[k], f[k - 1], items[k]) /\ Places(all, items, k, Len(f[k - 1]))
    BY <1>1, JoinsIndex
  <2> DEFINE a == Len(f[k - 1])
             b == Len(items[k])
             c == Len(f[k])
  <2>2. c = a + b /\ a \in Nat /\ b \in Nat
    BY <2>1 DEF Concat
  <2>3. a + b <= Len(all) /\ \A j \in 1 .. b : all[a + j] = items[k][j]
    BY <2>1 DEF Places
  <2>4. b >= 1
    <3>1. CASE IsFlow(items[k])
      BY <1>2, <3>1, FlowFact
    <3>2. CASE ~ IsFlow(items[k])
      BY <1>2, <3>2, BlockFact
    <3> QED
      BY <3>1, <3>2
  <2> HIDE DEF a, b, c, all
  <2>5. c \in Nat /\ c <= Len(all)
    BY <2>2, <2>3
  <2> QED
    BY <2>2, <2>3, <2>4, <2>5 DEF a, b, c
<1>5. Len(all) \in Nat
  BY <1>3
<1> QED
  BY <1>2, <1>3, <1>4, <1>5

\* The items and their lines.
LEMMA LinedFact ==
  ASSUME doc \in Document, NEW f, Lined(f)
  PROVE  /\ Len(doc.proxies) \in Nat /\ \A k \in 1 .. Len(doc.proxies) : doc.proxies[k] \in Item
         /\ f[0] = <<>>
         /\ \A k \in 1 .. Len(doc.proxies) :
              /\ Len(f[k - 1]) \in Nat /\ Len(f[k]) \in Nat
              /\ Len(doc.proxies[k]) \in Nat /\ Len(doc.proxies[k]) >= 1
              /\ Len(f[k]) = Len(f[k - 1]) + Len(doc.proxies[k])
              /\ Len(f[k]) <= Len(ProxyLines(doc))
              /\ \A j \in 1 .. Len(doc.proxies[k]) :
                   ProxyLines(doc)[Len(f[k - 1]) + j] = doc.proxies[k][j]
<1> DEFINE items == doc.proxies
           all == ProxyLines(doc)
<1>1. items \in Seq(Item)
  BY DocumentFact
<1>2. Joins(f, items, LineShape) /\ all = f[Len(items)]
  BY DEF Lined
<1> HIDE DEF items, all
<1>3. /\ Len(items) \in Nat /\ \A k \in 1 .. Len(items) : items[k] \in Item
      /\ f[0] = <<>>
      /\ \A k \in 1 .. Len(items) :
           /\ Len(f[k - 1]) \in Nat /\ Len(f[k]) \in Nat
           /\ Len(items[k]) \in Nat /\ Len(items[k]) >= 1
           /\ Len(f[k]) = Len(f[k - 1]) + Len(items[k])
           /\ Len(f[k]) <= Len(f[Len(items)])
           /\ \A j \in 1 .. Len(items[k]) : f[Len(items)][Len(f[k - 1]) + j] = items[k][j]
  BY <1>1, <1>2, LinesOfItems
<1>4. \A k \in 1 .. Len(items) :
        /\ Len(f[k]) <= Len(all)
        /\ \A j \in 1 .. Len(items[k]) : all[Len(f[k - 1]) + j] = items[k][j]
  BY <1>2, <1>3
<1> QED
  BY <1>3, <1>4 DEF items, all

\* The names of the first k items.
LEMMA CalledFact ==
  ASSUME doc \in Document, NEW g, Called(g)
  PROVE  /\ g[0] = <<>>
         /\ \A k \in 0 .. Len(doc.proxies) : g[k] \in Seq(Text)
         /\ \A k \in 1 .. Len(doc.proxies) :
              /\ k \in LostNodes(doc.proxies) => g[k] = g[k - 1]
              /\ k \notin LostNodes(doc.proxies) => g[k] = g[k - 1] \o Only(<<NameIn(doc.proxies[k])>>, Named3)
<1> DEFINE nn == NamesByItem(doc)
           N == Len(doc.proxies)
<1>1. /\ Len(nn) = N
      /\ \A k \in 1 .. N : nn[k] = IF k \in LostNodes(doc.proxies) THEN <<>>
                                   ELSE Only(<<NameIn(doc.proxies[k])>>, Named3)
  BY KeptNames
<1>2. N \in Nat
  BY DocumentFact
<1> HIDE DEF nn
<1>3. /\ g[0] = <<>> /\ \A k \in 0 .. N : g[k] \in Seq(Text)
      /\ \A k \in 1 .. N : g[k] = g[k - 1] \o nn[k]
  BY <1>1 DEF Called, Joins, nn
<1>4. ASSUME NEW k \in 1 .. N, k \in LostNodes(doc.proxies) PROVE g[k] = g[k - 1]
  <2>1. g[k - 1] \in Seq(Text)
    BY <1>2, <1>3
  <2>2. g[k - 1] \o <<>> = g[k - 1]
    BY <2>1
  <2> QED
    BY <1>1, <1>3, <1>4, <2>2
<1> QED
  BY <1>1, <1>3, <1>4

\* The reader is between two items, or in the middle of one.
LEMMA Position ==
  ASSUME doc \in Document, NEW f, Lined(f), NEW g, Called(g), Reads(f, g), At \in 1 .. ProxiesEnd(doc)
  PROVE  \/ \E k \in 0 .. Len(doc.proxies) : At = 1 + Len(f[k]) /\ Complete(g, k)
         \/ \E k \in 1 .. Len(doc.proxies) : \E j \in 1 .. Len(doc.proxies[k]) :
              j < Len(doc.proxies[k]) /\ Inside(f, g, k, j)
<1>1. CASE At = 1
  <2>1. f[0] = <<>> /\ g[0] = <<>> /\ Len(doc.proxies) \in Nat
    BY LinedFact, CalledFact
  <2>2. node = <<>> /\ NamesIn(out.proxies) = <<>>
    BY <1>1 DEF Reads
  <2>3. 0 \in 0 .. Len(doc.proxies) /\ At = 1 + Len(f[0]) /\ Complete(g, 0)
    BY <1>1, <2>1, <2>2 DEF Complete
  <2> QED
    BY <2>3
<1>2. CASE At # 1
  <2>1. At \in 2 .. ProxiesEnd(doc)
    BY <1>2, EndsFact
  <2>2. PICK k \in 1 .. Len(doc.proxies) : \E j \in 1 .. Len(doc.proxies[k]) : Inside(f, g, k, j)
    BY <2>1 DEF Reads
  <2>3. PICK j \in 1 .. Len(doc.proxies[k]) : Inside(f, g, k, j)
    BY <2>2
  <2>4. /\ Len(f[k - 1]) \in Nat /\ Len(doc.proxies[k]) \in Nat /\ Len(doc.proxies) \in Nat
        /\ Len(f[k]) = Len(f[k - 1]) + Len(doc.proxies[k]) /\ doc.proxies[k] \in Item
    BY LinedFact
  <2>5. CASE j < Len(doc.proxies[k])
    BY <2>3, <2>5
  <2>6. CASE j = Len(doc.proxies[k])
    <3>1. At = 1 + Len(f[k])
      <4> DEFINE a == Len(f[k - 1])
                 b == Len(doc.proxies[k])
                 c == Len(f[k])
      <4>1. At = 1 + a + j
        BY <2>3 DEF Inside
      <4>2. c = a + b /\ a \in Nat /\ b \in Nat /\ j = b
        BY <2>4, <2>6
      <4> HIDE DEF a, b, c
      <4>3. At = 1 + c
        BY <4>1, <4>2
      <4> QED
        BY <4>3 DEF c
    <3>2. k \in 0 .. Len(doc.proxies) /\ k # 0
      OBVIOUS
    <3>3. CASE IsFlow(doc.proxies[k]) \/ Stray(k)
      BY <2>3, <3>1, <3>2, <3>3 DEF Inside, Complete
    <3>4. CASE ~ (IsFlow(doc.proxies[k]) \/ Stray(k))
      <4> DEFINE item == doc.proxies[k]
      <4>1. NamesIn(out.proxies) = g[k - 1] /\ InBlock(item, j)
        BY <2>3, <3>4 DEF Inside
      <4>2. PICK i \in 1 .. Len(item) : NamedOn(item, i) /\ (i <= j => node[1].name = item[i].val)
        BY <4>1 DEF InBlock
      <4>3. item[i].val = NameIn(item)
        BY <2>4, <3>4, <4>2, BlockName DEF NameIn
      <4>4. i <= j
        BY <2>6
      <4>5. node = <<node[1]>> /\ node[1].name = NameIn(item)
        BY <4>1, <4>2, <4>3, <4>4 DEF InBlock
      <4>7. nested # Blank => item[1].indent <= depth
        <5>1. SUFFICES ASSUME nested # Blank PROVE item[1].indent <= depth
          OBVIOUS
        <5>2. PICK p \in 1 .. j : item[p].kind = "open" /\ item[p].indent = depth
          BY <4>1, <5>1 DEF InBlock
        <5>3. /\ item \in Seq(LineShape) /\ item[1].kind \in {"dash", "name", "first"} /\ 1 \in 1 .. Len(item)
              /\ p \in 1 .. Len(item) /\ (p > 1 => item[p].indent > item[1].indent)
          BY <2>4, <2>6, <3>4, BlockFact
        <5>4. p > 1
          <6>1. p # 1
            BY <5>2, <5>3
          <6> QED
            BY <6>1
        <5>5. item[1] \in LineShape /\ item[p] \in LineShape
          BY <5>3
        <5>6. item[1].indent \in Nat /\ item[p].indent \in Nat
          BY <5>5 DEF LineShape
        <5> QED
          BY <5>2, <5>3, <5>4, <5>6
      <4>6. Complete(g, k)
        BY <3>2, <3>4, <4>1, <4>5, <4>7 DEF Complete
      <4> QED
        BY <3>1, <3>2, <4>6
    <3> QED
      BY <3>3, <3>4
  <2>7. j < Len(doc.proxies[k]) \/ j = Len(doc.proxies[k])
    BY <2>4
  <2> QED
    BY <2>5, <2>6, <2>7
<1> QED
  BY <1>1, <1>2

\* At the end of the section all items are read.
LEMMA AllRead ==
  ASSUME doc \in Document, NEW f, Lined(f), NEW g, Called(g), Reads(f, g), At = ProxiesEnd(doc)
  PROVE  Complete(g, Len(doc.proxies))
<1> DEFINE N == Len(doc.proxies)
           L == Len(ProxyLines(doc))
<1>1. /\ At = 1 + L /\ L \in Nat /\ At \in 1 .. ProxiesEnd(doc) /\ N \in Nat
  BY EndsFact, LinedFact
<1>2. ASSUME NEW k \in 0 .. N, At = 1 + Len(f[k]), Complete(g, k) PROVE k = N
  <2>1. SUFFICES ASSUME k # N PROVE FALSE
    OBVIOUS
  <2>2. PICK m \in 1 .. N : m - 1 = k
    <3>1. k + 1 \in 1 .. N /\ (k + 1) - 1 = k
      BY <1>1, <2>1
    <3> QED
      BY <3>1
  <2> DEFINE a == Len(f[m - 1])
             b == Len(doc.proxies[m])
             c == Len(f[m])
  <2>3. a \in Nat /\ b \in Nat /\ b >= 1 /\ c = a + b /\ c <= L
    BY LinedFact
  <2>4. At = 1 + a
    BY <1>2, <2>2
  <2> HIDE DEF L, a, b, c
  <2> QED
    BY <1>1, <2>3, <2>4
<1>3. ASSUME NEW k \in 1 .. N, NEW j \in 1 .. Len(doc.proxies[k]),
             j < Len(doc.proxies[k]), Inside(f, g, k, j)
      PROVE  FALSE
  <2> DEFINE a == Len(f[k - 1])
             b == Len(doc.proxies[k])
             c == Len(f[k])
  <2>1. a \in Nat /\ b \in Nat /\ c = a + b /\ c <= L
    BY LinedFact
  <2>2. At = 1 + a + j
    BY <1>3 DEF Inside
  <2>3. j < b /\ j \in Nat
    BY <1>3
  <2> HIDE DEF L, a, b, c
  <2> QED
    BY <1>1, <2>1, <2>2, <2>3
<1> HIDE DEF N
<1>4. \/ \E k \in 0 .. N : At = 1 + Len(f[k]) /\ Complete(g, k)
      \/ \E k \in 1 .. N : \E j \in 1 .. Len(doc.proxies[k]) :
           j < Len(doc.proxies[k]) /\ Inside(f, g, k, j)
  BY <1>1, Position DEF N
<1> QED
  BY <1>2, <1>3, <1>4 DEF N

\* Nothing is handed over where nothing is open.
LEMMA NothingOpen ==
  ASSUME Nodes(out.proxies), node = <<>>, NEW s \in Seq(Text), NamesIn(out.proxies) = s
  PROVE  /\ Nodes(out.proxies \o WithName(node))
         /\ NamesIn(out.proxies \o WithName(node)) = s
<1> DEFINE w == WithName(node)
           a == NamesIn(out.proxies)
<1>1. Blank \in Text /\ Only(<<>>, Named3) = <<>>
  BY TextAssumption, OnlyOne
<1>2. Nodes(w) /\ Same(NamesIn(w), <<>>)
  BY <1>1, NoNodes, NamesWith
<1> HIDE DEF w
<1>3. Nodes(out.proxies \o w) /\ Same(NamesIn(out.proxies \o w), a \o NamesIn(w))
  BY <1>2, NamesConcat
<1> HIDE DEF a
<1>4. s \o <<>> = s /\ a = s
  BY DEF a
<1>5. NamesIn(out.proxies \o w) = s
  BY <1>2, <1>3, <1>4 DEF Same
<1> QED
  BY <1>3, <1>5 DEF w

\* What is open is handed over, if no item follows that takes its place.
LEMMA Closing ==
  ASSUME doc \in Document, NEW g, Called(g), NEW k \in 0 .. Len(doc.proxies), Complete(g, k),
         Nodes(out.proxies), k \notin Overtaken(doc.proxies)
  PROVE  /\ Nodes(out.proxies \o WithName(node))
         /\ NamesIn(out.proxies \o WithName(node)) = g[k]
<1> DEFINE w == WithName(node)
           a == NamesIn(out.proxies)
<1>1. /\ Len(doc.proxies) \in Nat /\ DOMAIN doc.proxies = 1 .. Len(doc.proxies)
      /\ \A i \in 1 .. Len(doc.proxies) : doc.proxies[i] \in Item
  BY DocumentFact
<1>2. \A i \in 0 .. Len(doc.proxies) : g[i] \in Seq(Text)
  BY CalledFact
<1>4. CASE node = <<>> /\ a = g[k]
  BY <1>2, <1>4, NothingOpen
<1>5. CASE /\ k # 0 /\ ~ Stray(k) /\ a = g[k - 1]
           /\ node = <<node[1]>> /\ node[1].name = NameIn(doc.proxies[k])
  <2>1. k \in 1 .. Len(doc.proxies)
    BY <1>1, <1>5
  <2>2. NameIn(doc.proxies[k]) \in Text
    BY <1>1, <2>1, ItemFact
  <2>3. Nodes(node) /\ NamesIn(node) = <<NameIn(doc.proxies[k])>>
    BY <1>5, <2>2, NoNodes
  <2>4. Nodes(w) /\ Same(NamesIn(w), Only(<<NameIn(doc.proxies[k])>>, Named3))
    BY <2>3, NamesWith
  <2> HIDE DEF w
  <2>5. Nodes(out.proxies \o w) /\ Same(NamesIn(out.proxies \o w), a \o NamesIn(w))
    BY <2>4, NamesConcat
  <2> HIDE DEF a
  <2>6. k \notin LostNodes(doc.proxies)
    BY <1>5, <2>1, StrayFact
  <2>7. g[k] = g[k - 1] \o Only(<<NameIn(doc.proxies[k])>>, Named3)
    BY <2>1, <2>6, CalledFact
  <2>8. NamesIn(out.proxies \o w) = g[k]
    BY <1>5, <2>4, <2>5, <2>7 DEF Same
  <2> QED
    BY <2>5, <2>8 DEF w
<1> QED
  BY <1>4, <1>5 DEF Complete

\* The first line of an item is read that begins with another key than its name.
LEMMA HeadlessItem ==
  ASSUME ReaderInv, ProxyStep, NEW g, Called(g), Nodes(out.proxies),
         NEW k \in 1 .. Len(doc.proxies), NEW m \in 0 .. Len(doc.proxies), m = k - 1, Complete(g, m),
         Headless(doc.proxies[k]), Current = doc.proxies[k][1]
  PROVE  /\ out' = out
         /\ IF Stray(k) THEN node' = <<>> /\ NamesIn(out.proxies) = g[k]
            ELSE NamesIn(out.proxies) = g[m] /\ node' = <<node'[1]>> /\ nested' = Blank
<1> DEFINE item == doc.proxies[k]
           N == Len(doc.proxies)
           one == Current
<1>1. doc \in Document
  BY DEF ReaderInv
<1>2. one.kind = "first" /\ k \in Nat /\ m \in Nat /\ N \in Nat /\ DOMAIN doc.proxies = 1 .. N
  BY <1>1, DocumentFact DEF Headless
<1>3. ReadNodeKey \/ ReadStray
  BY <1>2 DEF ProxyStep, ReadFlowNode, ReadNewNode, ReadNodeHeader, Reading
<1>4. /\ k \in LostNodes(doc.proxies) <=> k \in Overtaken(doc.proxies) \/ Stray(k)
      /\ Stray(k) <=> k = 1 \/ (m \in 1 .. N /\ (Stray(m) \/ IsFlow(doc.proxies[m])))
  BY <1>1, StrayFact
<1>5. section = "proxies"
  BY DEF ProxyStep
<1>6. CASE Stray(k)
  <2>1. m = 0 \/ Stray(m) \/ IsFlow(doc.proxies[m])
    BY <1>2, <1>4, <1>6
  <2>2. node = <<>> /\ NamesIn(out.proxies) = g[m]
    BY <2>1 DEF Complete
  <2>3. g[k] = g[m]
    BY <1>1, <1>4, <1>6, CalledFact
  <2>4. ReadStray
    BY <1>3, <2>2 DEF ReadNodeKey
  <2> QED
    BY <1>6, <2>2, <2>3, <2>4 DEF ReadStray
<1>7. CASE ~ Stray(k)
  <2>1. m \in 1 .. N /\ ~ Stray(m) /\ ~ IsFlow(doc.proxies[m])
    BY <1>2, <1>4, <1>7
  <2>2. /\ NamesIn(out.proxies) = g[m - 1] /\ node = <<node[1]>>
        /\ nested # Blank => doc.proxies[m][1].indent <= depth
    BY <1>2, <2>1 DEF Complete
  <2>3. NamesIn(out.proxies) = g[m]
    <3>1. m \in Overtaken(doc.proxies)
      <4>1. m + 1 = k
        BY <1>2
      <4> QED
        BY <1>2, <2>1, <4>1 DEF Overtaken
    <3>2. m \in LostNodes(doc.proxies)
      BY <1>1, <2>1, <3>1, StrayFact
    <3> QED
      BY <1>1, <2>1, <2>2, <3>2, CalledFact
  <2>4. node # <<>>
    <3>1. node = <<node[1]>>
      BY <2>2
    <3> QED
      BY <3>1, NotNone
  <2>5. ReadNodeKey
    BY <1>2, <1>3, <1>5, <2>4 DEF ReadStray
  <2>6. NestedAt(one) = Blank
    <3>1. doc.proxies[m][1].indent = one.indent
      BY <1>1, <1>2, <2>1, DocumentFact DEF Aligned
    <3> HIDE DEF one
    <3> QED
      BY <2>2, <3>1 DEF NestedAt
  <2> DEFINE n == AssignField(node[1], Unread, one.val)
  <2>7. out' = out /\ nested' = NestedAt(one) /\ node' = <<n>>
    BY <1>2, <2>5 DEF ReadNodeKey
  <2> HIDE DEF n, one
  <2>8. node' = <<node'[1]>>
    BY <2>7
  <2> QED
    BY <1>7, <2>3, <2>6, <2>7, <2>8
<1> QED
  BY <1>6, <1>7

\* The first line of an item is read.
LEMMA NewItem ==
  ASSUME ReaderInv, LineStep, ProxyStep, IsResult(out),
         NEW f, Lined(f), NEW g, Called(g), Nodes(out.proxies),
         NEW k \in 1 .. Len(doc.proxies), At = 1 + Len(f[k - 1]), Complete(g, k - 1)
  PROVE  Nodes(out.proxies)' /\ Inside(f, g, k, 1)'
<1> DEFINE N == Len(doc.proxies)
           item == doc.proxies[k]
<1>1. doc \in Document /\ doc' = doc /\ At' = At + 1
  BY DEF ReaderInv, LineStep
<1>2. N \in Nat /\ k - 1 \in 0 .. N
  BY <1>1, LinedFact
<1>4. /\ item \in Item /\ Len(f[k - 1]) \in Nat /\ Len(item) \in Nat /\ Len(item) >= 1
      /\ \A j \in 1 .. Len(item) : ProxyLines(doc)[Len(f[k - 1]) + j] = item[j]
  BY <1>1, LinedFact
<1>5. Current = item[1] /\ section = "proxies"
  <2>1. At = Len(f[k - 1]) + 1 /\ 1 \in 1 .. Len(item)
    BY <1>4
  <2>2. ProxyLines(doc)[Len(f[k - 1]) + 1] = item[1]
    BY <1>4, <2>1
  <2> QED
    BY <2>1, <2>2 DEF ProxyStep
<1>6. At' = 1 + Len(f[k - 1]) + 1
  BY <1>1
<1>7. NameIn(item) \in Text
  BY <1>4, ItemFact
<1>11. Stray(k)' = Stray(k)
  BY <1>1 DEF Stray
<1>8. CASE IsFlow(item)
  <2>1. Current.kind = "flow" /\ Current.entries = item[1].entries
    BY <1>5, <1>8 DEF IsFlow
  <2>2. ReadFlowNode
    BY <1>5, <2>1 DEF ProxyStep, ReadNewNode, ReadNodeHeader, ReadNodeKey, ReadStray, Reading
  <2> DEFINE n == NodeFromFlow(Current.entries)
             w == WithName(<<n>>)
  <2>3. n.name = NameIn(item)
    BY <1>4, <1>8, <2>1, ItemFact
  <2> HIDE DEF n
  <2>4. Nodes(<<n>>) /\ NamesIn(<<n>>) = <<NameIn(item)>>
    BY <1>7, <2>3, NoNodes
  <2>5. Nodes(w) /\ Same(NamesIn(w), Only(<<NameIn(item)>>, Named3))
    BY <2>4, NamesWith
  <2>6. out'.proxies = out.proxies \o w /\ node' = <<>>
    BY <2>2, AddedFact DEF ReadFlowNode, n
  <2> HIDE DEF w
  <2>7. Nodes(out.proxies \o w) /\ Same(NamesIn(out.proxies \o w), NamesIn(out.proxies) \o NamesIn(w))
    BY <2>5, NamesConcat
  <2>8. NamesIn(out.proxies) = g[k - 1]
    <3> DEFINE m == k - 1
    <3>1. CASE m # 0 /\ ~ IsFlow(doc.proxies[m])
      <4>1. m \in Overtaken(doc.proxies)
        <5>1. DOMAIN doc.proxies = 1 .. N
          BY <1>1, DocumentFact
        <5>2. m \in DOMAIN doc.proxies /\ m + 1 \in DOMAIN doc.proxies /\ m + 1 = k
          BY <1>2, <3>1, <5>1
        <5> HIDE DEF m
        <5> QED
          BY <1>8, <3>1, <5>2 DEF Overtaken, IsFlow
      <4>2. m \in 1 .. N
        BY <1>2, <3>1
      <4> HIDE DEF m
      <4>5. m \in LostNodes(doc.proxies)
        BY <1>1, <4>1, <4>2, StrayFact
      <4>3. g[m] = g[m - 1]
        BY <1>1, <4>2, <4>5, CalledFact
      <4>4. Complete(g, m)
        BY DEF m
      <4> QED
        BY <4>3, <4>4 DEF Complete, m
    <3>2. CASE ~ (m # 0 /\ ~ IsFlow(doc.proxies[m]))
      BY <3>2 DEF Complete
    <3> QED
      BY <3>1, <3>2
  <2>9. g[k] = g[k - 1] \o Only(<<NameIn(item)>>, Named3)
    <3>1. k \notin Overtaken(doc.proxies)
      BY <1>8 DEF Overtaken
    <3>2. k \notin LostNodes(doc.proxies)
      BY <1>1, <1>8, <3>1, StrayFact
    <3> QED
      BY <1>1, <3>2, CalledFact
  <2>10. NamesIn(out'.proxies) = g[k] /\ Nodes(out'.proxies)
    BY <2>5, <2>6, <2>7, <2>8, <2>9 DEF Same
  <2>11. Nodes(out.proxies)' /\ NamesIn(out.proxies)' = g[k]
    BY <2>10 DEF Nodes, NamesIn
  <2> QED
    BY <1>1, <1>6, <1>8, <1>11, <2>6, <2>11 DEF Inside
<1>9. CASE ~ IsFlow(item) /\ ~ Headless(item)
  <2>1. /\ item[1].kind \in {"dash", "name"} /\ DOMAIN item = 1 .. Len(item)
        /\ \E i \in 1 .. Len(item) : NamedOn(item, i)
    BY <1>4, <1>9, BlockFact
  <2>2. ReadNewNode
    BY <1>5, <2>1 DEF ProxyStep, ReadFlowNode, ReadNodeHeader, ReadNodeKey, ReadStray, Reading
  <2>3. Nodes(out.proxies \o WithName(node)) /\ NamesIn(out.proxies \o WithName(node)) = g[k - 1]
    <3> DEFINE m == k - 1
    <3>1. m \in 0 .. N /\ Complete(g, m) /\ m + 1 = k
      BY <1>2
    <3> HIDE DEF m
    <3>2. m \notin Overtaken(doc.proxies)
      BY <2>1, <3>1 DEF Overtaken
    <3>3. Nodes(out.proxies \o WithName(node)) /\ NamesIn(out.proxies \o WithName(node)) = g[m]
      BY <1>1, <3>1, <3>2, Closing
    <3> QED
      BY <3>3 DEF m
  <2>4. out'.proxies = out.proxies \o WithName(node)
    BY <2>2, AddedFact
  <2>5. Nodes(out.proxies)' /\ NamesIn(out.proxies)' = g[k - 1]
    BY <2>3, <2>4 DEF Nodes, NamesIn
  <2>6. /\ node' = <<[EmptyNode EXCEPT !.name = IF item[1].kind = "name" THEN item[1].val ELSE Blank]>>
        /\ nested' = Blank
    BY <1>5, <2>2 DEF ReadNewNode
  <2> DEFINE v == IF item[1].kind = "name" THEN item[1].val ELSE Blank
             n == [EmptyNode EXCEPT !.name = v]
  <2>7. n.name = v
    BY DEF EmptyNode
  <2> HIDE DEF n
  <2>8. node' = <<n>>
    BY <2>6 DEF n
  <2>9. node' = <<node'[1]>> /\ node'[1].name = v
    BY <2>7, <2>8
  <2>10. PICK i \in 1 .. Len(item) : NamedOn(item, i)
    BY <2>1
  <2>11. i <= 1 => v = item[i].val
    <3>1. i <= 1 <=> i = 1
      BY <1>4
    <3>2. i = 1 => item[1].kind = "name"
      BY <2>1, <2>10 DEF NamedOn
    <3> QED
      BY <3>1, <3>2
  <2> HIDE DEF v
  <2>12. InBlock(item, 1)'
    <3>1. doc.proxies' = doc.proxies
      BY <1>1
    <3>2. \E h \in 1 .. Len(item) : NamedOn(item, h) /\ (h <= 1 => node'[1].name = item[h].val)
      BY <2>9, <2>10, <2>11
    <3> QED
      BY <1>1, <2>6, <2>9, <3>2 DEF InBlock
  <2>13. ~ Stray(k)
    BY <1>1, <1>9, StrayFact
  <2> QED
    BY <1>1, <1>6, <1>9, <1>11, <2>5, <2>12, <2>13 DEF Inside
<1>10. CASE Headless(item)
  <2>1. PICK m \in 0 .. N : m = k - 1
    BY <1>2
  <2>2. Complete(g, m)
    BY <2>1
  <2>3. /\ out' = out
        /\ IF Stray(k) THEN node' = <<>> /\ NamesIn(out.proxies) = g[k]
           ELSE NamesIn(out.proxies) = g[m] /\ node' = <<node'[1]>> /\ nested' = Blank
    BY <1>5, <1>10, <2>1, <2>2, HeadlessItem
  <2>4. ~ IsFlow(item)
    BY <1>1, <1>10, StrayFact
  <2>5. Nodes(out.proxies)' /\ NamesIn(out.proxies)' = NamesIn(out.proxies)
    BY <2>3 DEF Nodes, NamesIn
  <2>6. CASE Stray(k)
    BY <1>1, <1>6, <1>11, <2>3, <2>5, <2>6 DEF Inside
  <2>7. CASE ~ Stray(k)
    <3>1. PICK i \in 1 .. Len(item) : NamedOn(item, i)
      BY <1>4, <2>4, BlockFact
    <3>2. ~ i <= 1
      <4>1. i # 1
        BY <1>10, <3>1 DEF NamedOn, Headless
      <4> QED
        BY <1>4, <4>1
    <3>3. InBlock(item, 1)'
      <4>1. doc.proxies' = doc.proxies
        BY <1>1
      <4>2. \E h \in 1 .. Len(item) : NamedOn(item, h) /\ (h <= 1 => node'[1].name = item[h].val)
        BY <3>1, <3>2
      <4> QED
        BY <1>1, <2>3, <2>7, <4>2 DEF InBlock
    <3>4. NamesIn(out.proxies)' = g[k - 1]
      BY <2>1, <2>3, <2>5, <2>7
    <3> QED
      BY <1>1, <1>6, <1>11, <2>4, <2>5, <2>7, <3>3, <3>4 DEF Inside
  <2> QED
    BY <2>6, <2>7
<1> QED
  BY <1>8, <1>9, <1>10

LEMMA AssignedName ==
  ASSUME NEW p, NEW key, NEW val
  PROVE  /\ AssignPlain(p, key, val).name = IF key = "name" THEN val ELSE p.name
         /\ \A sec \in Nesting : Same(AssignNested(p, sec, key, val).name, p.name)
<1>1. ASSUME NEW sec
      PROVE  LET e == Entry(sec, key, val)
             IN e.sec = sec /\ e.key = key /\ e.val = val
  BY DEF Entry
<1>2. AssignPlain(p, key, val).name = IF key = "name" THEN val ELSE p.name
  <2> DEFINE e == Entry(Blank, key, val)
  <2>1. e.sec = Blank /\ e.key = key /\ e.val = val
    BY <1>1
  <2> HIDE DEF e
  <2>2. Assign(p, e).name = IF e.sec = Blank /\ e.key = "name" THEN e.val ELSE p.name
    BY <2>1, AssignName
  <2> QED
    BY <2>1, <2>2 DEF Assign
<1>3. ASSUME NEW sec \in Nesting PROVE AssignNested(p, sec, key, val).name = p.name
  <2> DEFINE e == Entry(sec, key, val)
  <2>1. e.sec = sec /\ e.key = key /\ e.val = val
    BY <1>1
  <2>3. sec # Blank
    BY NotBlank DEF Nesting
  <2> HIDE DEF e
  <2>2. Assign(p, e).name = IF e.sec = Blank /\ e.key = "name" THEN e.val ELSE p.name
    BY <2>1, AssignName
  <2> QED
    BY <2>1, <2>2, <2>3 DEF Assign
<1> QED
  BY <1>2, <1>3 DEF Same

\* What a line of a block item does: the line that names the item is not taken
\* for one of a section.
LEMMA BlockLine ==
  ASSUME NEW item \in Item, ~ IsFlow(item), NEW j \in 1 .. Len(item), j < Len(item),
         InBlock(item, j), Current = item[j + 1],
         ReadNodeHeader \/ ReadNodeKey
  PROVE  InBlock(item, j + 1)' /\ out' = out
<1> DEFINE l == item[j + 1]
<1>1. /\ item \in Seq(LineShape) /\ Len(item) \in Nat /\ DOMAIN item = 1 .. Len(item)
      /\ \A i \in 1 .. Len(item) : i > 1 => item[i].kind \in {"key", "open", "item"}
  BY BlockFact
<1>2. j + 1 \in 1 .. Len(item) /\ j + 1 > 1 /\ j \in Nat
  BY <1>1
<1>3. l \in LineShape /\ l.kind \in {"key", "open", "item"}
  BY <1>1, <1>2
<1>4. l.indent \in Nat
  BY <1>3 DEF LineShape
<1>5. out' = out
  BY DEF ReadNodeHeader, ReadNodeKey
<1>6. /\ node = <<node[1]>> /\ nested \in {Blank} \cup Nesting
      /\ nested # Blank => \E p \in 1 .. j : /\ item[p].kind = "open" /\ item[p].indent = depth
                                             /\ \A q \in p + 1 .. j : item[q].indent > depth
  BY DEF InBlock
<1>7. PICK i \in 1 .. Len(item) : NamedOn(item, i) /\ (i <= j => node[1].name = item[i].val)
  BY DEF InBlock
<1>8. Current = l
  OBVIOUS
<1>9. NestedAt(l) = nested \/ NestedAt(l) = Blank
  BY DEF NestedAt
<1>10. NestedAt(l) # Blank => NestedAt(l) = nested /\ nested # Blank /\ l.indent > depth
  <2>1. CASE l.indent <= depth
    BY <2>1 DEF NestedAt
  <2>2. CASE ~ l.indent <= depth
    <3>1. NestedAt(l) = nested
      BY <2>2 DEF NestedAt
    <3>2. nested # Blank => l.indent > depth
      <4>1. ASSUME nested # Blank PROVE l.indent > depth
        <5>1. PICK p \in 1 .. j : item[p].kind = "open" /\ item[p].indent = depth
          BY <1>6, <4>1
        <5>2. p \in 1 .. Len(item)
          BY <1>1, <1>2
        <5>3. item[p] \in LineShape
          BY <1>1, <5>2
        <5>4. depth \in Nat
          BY <5>1, <5>3 DEF LineShape
        <5> QED
          BY <1>4, <2>2, <5>4
      <4> QED
        BY <4>1
    <3> QED
      BY <3>1, <3>2
  <2> QED
    BY <2>1, <2>2
<1> DEFINE Open(d, m) == \E p \in 1 .. m : /\ item[p].kind = "open" /\ item[p].indent = d
                                           /\ \A q \in p + 1 .. m : item[q].indent > d
<1>11. NestedAt(l) # Blank => Open(depth, j + 1)
  <2>1. ASSUME NestedAt(l) # Blank PROVE Open(depth, j + 1)
    <3>1. nested # Blank /\ l.indent > depth
      BY <1>10, <2>1
    <3>2. PICK p \in 1 .. j : /\ item[p].kind = "open" /\ item[p].indent = depth
                              /\ \A q \in p + 1 .. j : item[q].indent > depth
      BY <1>6, <3>1
    <3>3. p \in 1 .. j + 1
      BY <1>2
    <3>4. \A q \in p + 1 .. j + 1 : q \in p + 1 .. j \/ q = j + 1
      BY <1>2
    <3>5. \A q \in p + 1 .. j + 1 : item[q].indent > depth
      BY <3>1, <3>2, <3>4
    <3> QED
      BY <3>2, <3>3, <3>5
  <2> QED
    BY <2>1
\* The line that names the item is not below an open header.
<1>12. i = j + 1 => l.kind = "key" /\ l.key = "name" /\ NestedAt(l) = Blank
  <2>1. SUFFICES ASSUME i = j + 1 PROVE l.kind = "key" /\ l.key = "name" /\ NestedAt(l) = Blank
    OBVIOUS
  <2>2. l.kind = "key" /\ l.key = "name" /\ Above(item)[j + 1] = 0
    BY <1>3, <1>7, <2>1 DEF NamedOn
  <2>3. ASSUME NestedAt(l) # Blank PROVE FALSE
    <3>1. nested # Blank /\ l.indent > depth
      BY <1>10, <2>3
    <3>2. PICK p \in 1 .. j + 1 : /\ item[p].kind = "open" /\ item[p].indent = depth
                                  /\ \A q \in p + 1 .. j + 1 : item[q].indent > depth
      BY <1>11, <2>3
    <3>3. p # j + 1
      BY <2>2, <3>2
    <3>4. p \in 1 .. (j + 1) - 1
      BY <1>2, <3>3
    <3>5. OpenAbove(item, p, j + 1)
      <4>1. item[p].indent < item[j + 1].indent
        <5>1. depth \in Int
          <6>1. p \in 1 .. Len(item)
            BY <1>1, <1>2, <3>4
          <6>2. item[p] \in LineShape
            BY <1>1, <6>1
          <6> QED
            BY <3>2, <6>2 DEF LineShape
        <5> QED
          BY <1>4, <3>1, <3>2, <5>1
      <4> QED
        BY <3>2, <4>1 DEF OpenAbove
    <3>6. \A h \in 1 .. (j + 1) - 1 : ~ OpenAbove(item, h, j + 1)
      <4>1. j + 1 \in DOMAIN item
        BY <1>1, <1>2
      <4> QED
        BY <1>1, <2>2, <4>1, AboveFact
    <3> QED
      BY <3>4, <3>5, <3>6
  <2> QED
    BY <2>2, <2>3
<1>13. i # j + 1 => l.key # "name"
  BY <1>2, <1>7 DEF NamedOn
<1>14. i = j + 1 => i <= j + 1
  BY <1>2
<1>15. i # j + 1 => (i <= j <=> i <= j + 1)
  BY <1>2
<1>16. CASE ReadNodeHeader
  <2>1. node' = node /\ l.kind = "open" /\ l.key \in Headers
    BY <1>16 DEF ReadNodeHeader, Reading
  <2>2. i # j + 1
    BY <1>12, <2>1
  <2>3. node' = <<node'[1]>> /\ (i <= j + 1 => node'[1].name = item[i].val)
    BY <1>6, <1>7, <1>15, <2>1, <2>2
  <2>4. CASE l.key = "headers" /\ NestedAt(l) # "ws-opts"
    <3>1. nested' = NestedAt(l) /\ depth' = depth
      BY <1>16, <2>4 DEF ReadNodeHeader
    <3>2. nested' \in {Blank} \cup Nesting
      BY <1>6, <1>9, <3>1
    <3>3. nested' # Blank => Open(depth', j + 1)
      BY <1>11, <3>1
    <3> QED
      BY <1>5, <1>7, <2>3, <3>2, <3>3 DEF InBlock
  <2>5. CASE ~ (l.key = "headers" /\ NestedAt(l) # "ws-opts")
    <3>1. nested' = (IF l.key = "headers" THEN "ws-headers" ELSE l.key) /\ depth' = l.indent
      BY <1>16, <2>5 DEF ReadNodeHeader
    <3>2. nested' \in Nesting
      BY <2>1, <3>1 DEF Headers, Nesting
    <3>3. Open(depth', j + 1)
      <4>1. j + 1 \in 1 .. j + 1 /\ \A q \in (j + 1) + 1 .. j + 1 : FALSE
        BY <1>2
      <4>2. item[j + 1].kind = "open" /\ item[j + 1].indent = depth'
        BY <2>1, <3>1
      <4> QED
        BY <4>1, <4>2
    <3> QED
      BY <1>5, <1>7, <2>3, <3>2, <3>3 DEF InBlock
  <2> QED
    BY <2>4, <2>5
<1>17. CASE ReadNodeKey
  <2>1. /\ nested' = NestedAt(l) /\ depth' = depth
        /\ node' = IF l.kind = "item" THEN node
                   ELSE IF nested' = Blank THEN <<AssignPlain(node[1], l.key, l.val)>>
                   ELSE <<AssignNested(node[1], nested', l.key, l.val)>>
    BY <1>3, <1>17 DEF ReadNodeKey
  <2>2. nested' \in {Blank} \cup Nesting /\ (nested' # Blank => Open(depth', j + 1))
    BY <1>6, <1>9, <1>11, <2>1
  <2>3. node' = <<node'[1]>> /\ node'[1].name = IF i = j + 1 THEN item[i].val ELSE node[1].name
    <3>1. CASE l.kind = "item"
      <4>1. node' = node /\ i # j + 1
        BY <1>12, <2>1, <3>1
      <4> QED
        BY <1>6, <4>1
    <3>2. CASE l.kind # "item" /\ nested' = Blank
      <4> DEFINE n == AssignPlain(node[1], l.key, l.val)
      <4>1. node' = <<n>>
        BY <2>1, <3>2
      <4>2. n.name = IF l.key = "name" THEN l.val ELSE node[1].name
        BY AssignedName
      <4> HIDE DEF n
      <4>3. node' = <<node'[1]>> /\ node'[1] = n
        BY <4>1
      <4> QED
        BY <1>12, <1>13, <4>2, <4>3
    <3>3. CASE l.kind # "item" /\ nested' # Blank
      <4> DEFINE n == AssignNested(node[1], nested', l.key, l.val)
      <4>1. node' = <<n>> /\ nested' \in Nesting /\ i # j + 1
        BY <1>12, <2>1, <2>2, <3>3
      <4>2. n.name = node[1].name
        <5>1. Same(n.name, node[1].name)
          BY <4>1, AssignedName
        <5> QED
          BY <5>1 DEF Same
      <4> HIDE DEF n
      <4>3. node' = <<node'[1]>> /\ node'[1] = n
        BY <4>1
      <4> QED
        BY <4>1, <4>2, <4>3
    <3> QED
      BY <3>1, <3>2, <3>3
  <2>4. i <= j + 1 => node'[1].name = item[i].val
    BY <1>7, <1>14, <1>15, <2>3
  <2> QED
    BY <1>5, <1>7, <2>2, <2>3, <2>4 DEF InBlock
<1> QED
  BY <1>16, <1>17

\* A line in the middle of an item is read.
LEMMA NextLine ==
  ASSUME ReaderInv, LineStep, ProxyStep, NEW f, Lined(f), NEW g,
         Nodes(out.proxies), NEW k \in 1 .. Len(doc.proxies), NEW j \in 1 .. Len(doc.proxies[k]),
         j < Len(doc.proxies[k]), Inside(f, g, k, j)
  PROVE  Nodes(out.proxies)' /\ j + 1 \in 1 .. Len(doc.proxies[k]) /\ Inside(f, g, k, j + 1)'
<1> DEFINE item == doc.proxies[k]
<1>1. doc \in Document /\ doc' = doc /\ At' = At + 1
  BY DEF ReaderInv, LineStep
<1>2. /\ item \in Item /\ Len(f[k - 1]) \in Nat /\ Len(item) \in Nat
      /\ \A m \in 1 .. Len(item) : ProxyLines(doc)[Len(f[k - 1]) + m] = item[m]
  BY <1>1, LinedFact
<1>3. ~ IsFlow(item)
  <2>1. IsFlow(item) => Len(item) = 1
    BY <1>2, FlowFact
  <2> QED
    BY <1>2, <2>1
<1>4. /\ At = 1 + Len(f[k - 1]) + j
      /\ IF Stray(k) THEN node = <<>> /\ NamesIn(out.proxies) = g[k]
         ELSE NamesIn(out.proxies) = g[k - 1] /\ InBlock(item, j)
  BY <1>3 DEF Inside
<1>5. j + 1 \in 1 .. Len(item) /\ j + 1 > 1
  BY <1>2
<1> DEFINE a == Len(f[k - 1])
<1>6. At = a + (j + 1) /\ At' = 1 + a + (j + 1)
  <2>1. a \in Nat /\ j \in Nat /\ At = 1 + a + j
    BY <1>2, <1>4
  <2> HIDE DEF a
  <2> QED
    BY <1>1, <2>1
<1>7. Current = item[j + 1] /\ section = "proxies"
  <2>1. Current = ProxyLines(doc)[At] /\ section = "proxies"
    BY DEF ProxyStep
  <2> HIDE DEF item
  <2> QED
    BY <1>2, <1>5, <1>6, <2>1
<1>8. item[j + 1].kind \in {"key", "open", "item"}
  BY <1>2, <1>3, <1>5, BlockFact
<1>13. ReadNodeHeader \/ ReadNodeKey \/ ReadStray
  BY <1>7, <1>8 DEF ProxyStep, ReadFlowNode, ReadNewNode, Reading
<1>14. Stray(k)' = Stray(k)
  BY <1>1 DEF Stray
<1>15. CASE Stray(k)
  <2>1. ReadStray
    BY <1>4, <1>13, <1>15 DEF ReadNodeHeader, ReadNodeKey
  <2>2. out' = out /\ node' = <<>>
    BY <1>4, <1>15, <2>1 DEF ReadStray
  <2>3. Nodes(out.proxies)' /\ NamesIn(out.proxies)' = g[k]
    BY <1>4, <1>15, <2>2 DEF Nodes, NamesIn
  <2> QED
    BY <1>1, <1>5, <1>6, <1>14, <1>15, <2>2, <2>3 DEF Inside
<1>16. CASE ~ Stray(k)
  <2>1. InBlock(item, j) /\ NamesIn(out.proxies) = g[k - 1]
    BY <1>4, <1>16
  <2>2. node # <<>>
    <3>1. node = <<node[1]>>
      BY <2>1 DEF InBlock
    <3> QED
      BY <3>1, NotNone
  <2>3. ReadNodeHeader \/ ReadNodeKey
    BY <1>7, <1>8, <1>13, <2>2 DEF ReadStray
  <2> HIDE DEF item, a
  <2>4. InBlock(item, j + 1)' /\ out' = out
    <3>1. j \in 1 .. Len(item) /\ j < Len(item)
      BY DEF item
    <3>2. item' = item
      BY <1>1 DEF item
    <3> QED
      BY <1>2, <1>3, <1>7, <2>1, <2>3, <3>1, <3>2, BlockLine
  <2>5. Nodes(out.proxies)' /\ NamesIn(out.proxies)' = g[k - 1]
    BY <2>1, <2>4 DEF Nodes, NamesIn
  <2> QED
    BY <1>1, <1>3, <1>5, <1>6, <1>14, <1>16, <2>4, <2>5 DEF Inside, item, a
<1> QED
  BY <1>15, <1>16

LEMMA NodesStart == Init => NodesInv
<1> SUFFICES ASSUME Init PROVE NodesInv
  OBVIOUS
<1>1. ReaderInv
  BY ReaderStart
<1>2. doc \in Document /\ reader = "none" /\ At = 0 /\ node = <<>> /\ out = NothingRead
  BY <1>1 DEF Init, ReaderInv
<1>3. doc.proxies \in Seq(Seq(LineShape))
  BY <1>2, DocumentFact, ItemsFact
<1>4. PICK f : Joins(f, doc.proxies, LineShape) /\ FlattenSeq(doc.proxies) = f[Len(doc.proxies)]
  BY <1>3, FlattenRecursion
<1>5. NamesByItem(doc) \in Seq(Seq(Text)) /\ Len(NamesByItem(doc)) = Len(doc.proxies)
  BY <1>2, KeptNames
<1>6. PICK g : Joins(g, NamesByItem(doc), Text) /\ FlattenSeq(NamesByItem(doc)) = g[Len(NamesByItem(doc))]
  BY <1>5, FlattenRecursion
<1>7. Lined(f) /\ Called(g)
  BY <1>4, <1>5, <1>6 DEF Lined, Called, ProxyLines
<1>8. out.proxies = <<>>
  BY <1>2 DEF NothingRead
<1>9. Nodes(out.proxies) /\ NamesIn(out.proxies) = <<>>
  BY <1>8, NoNodes
<1>10. ProxiesEnd(doc) \in Nat
  BY <1>2, EndsFact
<1>11. Reads(f, g)
  BY <1>2, <1>9, <1>10 DEF Reads
<1> QED
  BY <1>2, <1>7, <1>11 DEF NodesInv

\* The steps of the line reader.
LEMMA LineNodes ==
  ASSUME ReaderInv, RulesInv, LineStep, AnyLineStep, NEW f, Lined(f), NEW g, Called(g), Reads(f, g)
  PROVE  Reads(f, g)'
<1> DEFINE N == Len(doc.proxies)
           L == Len(ProxyLines(doc))
           E == ProxiesEnd(doc)
<1>1. doc \in Document /\ doc' = doc /\ At' = At + 1 /\ At \in Nat /\ IsResult(out) /\ Nodes(out.proxies)
  BY DEF ReaderInv, LineStep, RulesInv, Reads
<1>2. /\ L \in Nat /\ E \in Nat /\ E = 1 + L /\ ProxiesEnd(doc') = E
      /\ ProvidersEnd(doc) \in Nat /\ ProvidersEnd(doc) > E
      /\ GroupsEnd(doc) \in Nat /\ GroupsEnd(doc) > ProvidersEnd(doc)
  <2>1. /\ Len(ProviderLines(doc)) \in Nat /\ Len(GroupLines(doc)) \in Nat
        /\ L \in Nat /\ E \in Nat /\ E = 1 + L
        /\ ProvidersEnd(doc) \in Nat /\ ProvidersEnd(doc) = E + 1 + Len(ProviderLines(doc))
        /\ GroupsEnd(doc) \in Nat /\ GroupsEnd(doc) = ProvidersEnd(doc) + 1 + Len(GroupLines(doc))
    BY <1>1, EndsFact
  <2> HIDE DEF L, E
  <2> QED
    BY <1>1, <2>1 DEF E
<1>3. N \in Nat /\ doc'.proxies = doc.proxies
  BY <1>1, LinedFact
<1>4. ASSUME NEW k \in 1 .. N, NEW j \in 1 .. Len(doc.proxies[k]), Inside(f, g, k, j)',
             Nodes(out.proxies)', At \in 1 .. L
      PROVE  Reads(f, g)'
  <2>1. At' > 1 /\ At' <= E
    <3> HIDE DEF L, E
    <3> QED
      BY <1>1, <1>2, <1>4
  <2>2. \E h \in 1 .. Len(doc'.proxies) : \E i \in 1 .. Len(doc'.proxies[h]) : Inside(f, g, h, i)'
    BY <1>3, <1>4
  <2>3. ~ At' <= 1 /\ ~ At' > ProxiesEnd(doc')
    <3>1. At' \in Nat
      BY <1>1
    <3> HIDE DEF E
    <3> QED
      BY <1>2, <2>1, <3>1
  <2> QED
    BY <1>4, <2>2, <2>3 DEF Reads
<1>5. CASE TopStep(0, "proxies")
  <2>1. At = 0 /\ ReadTop
    BY <1>5 DEF TopStep
  <2>2. node = <<>> /\ NamesIn(out.proxies) = <<>>
    BY <2>1 DEF Reads
  <2>3. out'.proxies = out.proxies \o WithName(node) /\ node' = <<>>
    BY <1>1, <2>1, AddedFact DEF ReadTop
  <2>4. <<>> \in Seq(Text)
    OBVIOUS
  <2>5. Nodes(out.proxies \o WithName(node)) /\ NamesIn(out.proxies \o WithName(node)) = <<>>
    BY <1>1, <2>2, <2>4, NothingOpen
  <2>6. Nodes(out.proxies)' /\ NamesIn(out.proxies)' = <<>>
    BY <2>3, <2>5 DEF Nodes, NamesIn
  <2>7. At' = 1 /\ ~ At' \in 2 .. ProxiesEnd(doc') /\ ~ At' > ProxiesEnd(doc')
    BY <1>1, <1>2, <2>1
  <2> QED
    BY <2>3, <2>6, <2>7 DEF Reads
<1>6. CASE TopStep(E, "proxy-providers")
  <2>1. At = E /\ ReadTop
    BY <1>6 DEF TopStep
  <2>2. Complete(g, N)
    BY <1>1, <2>1, AllRead
  <2>3. out'.proxies = out.proxies \o WithName(node) /\ node' = <<>>
    BY <1>1, <2>1, AddedFact DEF ReadTop
  <2>4. N \in 0 .. N /\ N \notin Overtaken(doc.proxies)
    <3>1. DOMAIN doc.proxies = 1 .. N
      BY <1>1, DocumentFact
    <3> QED
      BY <1>3, <3>1 DEF Overtaken
  <2>5. Nodes(out.proxies \o WithName(node)) /\ NamesIn(out.proxies \o WithName(node)) = g[N]
    BY <1>1, <2>2, <2>4, Closing
  <2>6. Nodes(out.proxies)' /\ NamesIn(out.proxies)' = g[N]
    BY <2>3, <2>5 DEF Nodes, NamesIn
  <2>7. ~ At' <= 1 /\ ~ At' \in 2 .. ProxiesEnd(doc')
    <3> HIDE DEF L, E
    <3> QED
      BY <1>1, <1>2, <2>1
  <2> QED
    BY <1>3, <2>3, <2>6, <2>7 DEF Reads
\* After the section nothing is added.
<1>7. ASSUME At > E, node' = <<>>, out'.proxies = out.proxies \/ out'.proxies = out.proxies \o WithName(node)
      PROVE  Reads(f, g)'
  <2>1. node = <<>> /\ NamesIn(out.proxies) = g[N]
    BY <1>7 DEF Reads
  <2>2. g[N] \in Seq(Text)
    BY <1>1, <1>3, CalledFact
  <2>3. Nodes(out.proxies \o WithName(node)) /\ NamesIn(out.proxies \o WithName(node)) = g[N]
    BY <1>1, <2>1, <2>2, NothingOpen
  <2>4. Nodes(out'.proxies) /\ NamesIn(out'.proxies) = g[N]
    BY <1>1, <1>7, <2>1, <2>3
  <2>5. Nodes(out.proxies)' /\ NamesIn(out.proxies)' = g[N]
    BY <2>4 DEF Nodes, NamesIn
  <2>6. ~ At' <= 1 /\ ~ At' \in 2 .. ProxiesEnd(doc')
    <3> HIDE DEF L, E
    <3> QED
      BY <1>1, <1>2, <1>7
  <2> QED
    BY <1>3, <1>7, <2>5, <2>6 DEF Reads
<1>8. CASE TopStep(ProvidersEnd(doc), "proxy-groups") \/ TopStep(GroupsEnd(doc), "rules")
  <2>1. At > E /\ ReadTop
    <3> HIDE DEF E
    <3> QED
      BY <1>2, <1>8 DEF TopStep
  <2>2. out'.proxies = out.proxies \o WithName(node) /\ node' = <<>>
    BY <1>1, <2>1, AddedFact DEF ReadTop
  <2> QED
    BY <1>7, <2>1, <2>2
<1>9. CASE ProviderStep
  <2>1. At > E /\ ReadStray
    <3> HIDE DEF E
    <3> QED
      BY <1>2, <1>9 DEF ProviderStep, E
  <2>2. node = <<>>
    BY <2>1 DEF Reads
  <2>3. out'.proxies = out.proxies /\ node' = <<>>
    BY <2>1, <2>2 DEF ReadStray
  <2> QED
    BY <1>7, <2>1, <2>3
<1>10. CASE GroupStep
  <2>1. At > E
    <3>1. PICK k \in 1 .. Len(GroupLines(doc)) : At = ProvidersEnd(doc) + k
      BY <1>10 DEF GroupStep
    <3>2. k \in Nat
      BY <3>1
    <3> HIDE DEF E
    <3> QED
      BY <1>2, <3>1, <3>2
  <2>2. node = <<>>
    BY <2>1 DEF Reads
  <2>3. ReadNewGroup \/ ReadGroupLine \/ ReadStray
    BY <1>10 DEF GroupStep
  <2>4. out'.proxies = out.proxies
    BY <1>1, <2>3, AddedFact
  <2>5. node' = <<>>
    BY <2>2, <2>3 DEF ReadNewGroup, ReadGroupLine, ReadStray
  <2> QED
    BY <1>7, <2>1, <2>4, <2>5
<1>11. CASE RuleStep
  <2>1. At > E
    <3>1. PICK k \in 1 .. Len(doc.rules) : At = GroupsEnd(doc) + k
      BY <1>11 DEF RuleStep
    <3>2. k \in Nat
      BY <3>1
    <3> HIDE DEF E
    <3> QED
      BY <1>2, <3>1, <3>2
  <2>2. node = <<>>
    BY <2>1 DEF Reads
  <2>3. ReadRule
    BY <1>11 DEF RuleStep
  <2>4. out'.proxies = out.proxies
    BY <1>1, <2>3, AddedFact
  <2>5. node' = <<>>
    BY <2>2, <2>3 DEF ReadRule
  <2> QED
    BY <1>7, <2>1, <2>4, <2>5
<1>12. CASE ProxyStep
  <2>1. At \in 1 .. L
    BY <1>12 DEF ProxyStep
  <2>2. At \in 1 .. E
    <3> HIDE DEF L, E
    <3> QED
      BY <1>2, <2>1
  <2>3. CASE \E k \in 0 .. N : At = 1 + Len(f[k]) /\ Complete(g, k)
    <3>1. PICK k \in 0 .. N : At = 1 + Len(f[k]) /\ Complete(g, k)
      BY <2>3
    <3>2. k # N
      <4>1. SUFFICES ASSUME k = N PROVE FALSE
        OBVIOUS
      <4>2. Len(f[k]) = L
        BY <4>1 DEF Lined
      <4> HIDE DEF L
      <4> QED
        BY <1>2, <2>1, <3>1, <4>2
    <3>3. PICK m \in 1 .. N : m - 1 = k
      <4>1. k + 1 \in 1 .. N /\ (k + 1) - 1 = k
        BY <1>3, <3>2
      <4> QED
        BY <4>1
    <3>4. At = 1 + Len(f[m - 1]) /\ Complete(g, m - 1)
      BY <3>1, <3>3
    <3>5. Nodes(out.proxies)' /\ Inside(f, g, m, 1)'
      BY <1>1, <1>12, <3>4, NewItem
    <3>6. 1 \in 1 .. Len(doc.proxies[m])
      <4>1. Len(doc.proxies[m]) \in Nat /\ Len(doc.proxies[m]) >= 1
        BY <1>1, LinedFact
      <4> QED
        BY <4>1
    <3> HIDE DEF N, L
    <3> QED
      BY <1>4, <2>1, <3>5, <3>6
  <2>4. CASE \E k \in 1 .. N : \E j \in 1 .. Len(doc.proxies[k]) :
               j < Len(doc.proxies[k]) /\ Inside(f, g, k, j)
    <3>1. PICK k \in 1 .. N : \E j \in 1 .. Len(doc.proxies[k]) :
               j < Len(doc.proxies[k]) /\ Inside(f, g, k, j)
      BY <2>4
    <3>2. PICK j \in 1 .. Len(doc.proxies[k]) : j < Len(doc.proxies[k]) /\ Inside(f, g, k, j)
      BY <3>1
    <3>3. Nodes(out.proxies)' /\ j + 1 \in 1 .. Len(doc.proxies[k]) /\ Inside(f, g, k, j + 1)'
      BY <1>1, <1>12, <3>2, NextLine
    <3> HIDE DEF N, L
    <3> QED
      BY <1>4, <2>1, <3>3
  <2> QED
    BY <1>1, <2>2, <2>3, <2>4, Position
<1> QED
  BY <1>5, <1>6, <1>8, <1>9, <1>10, <1>11, <1>12 DEF AnyLineStep

LEMMA NodesStep == ReaderInv /\ RulesInv /\ NodesInv /\ [Next]_vars => NodesInv'
<1> SUFFICES ASSUME ReaderInv, RulesInv, NodesInv, [Next]_vars PROVE NodesInv'
  OBVIOUS
<1>1. doc \in Document /\ IsResult(out)
  BY DEF ReaderInv, RulesInv
<1>2. ASSUME doc' = doc, NEW f, Lined(f), NEW g, Called(g) PROVE Lined(f)' /\ Called(g)'
  BY <1>2 DEF Lined, Called, Joins, ProxyLines, NamesByItem
<1>3. CASE UNCHANGED vars
  <2>1. NodesInv' = NodesInv
    BY <1>3 DEF vars, NodesInv, Lined, Called, Reads, Inside, InBlock, Stray, At, NamesByItem, Joins, Nodes,
                NamesIn, ProxyLines, ProxiesEnd
  <2> QED
    BY <2>1
<1>4. CASE ReadYaml
  BY <1>4 DEF ReadYaml, NodesInv
<1>5. CASE ReadLines
  <2>1. /\ doc' = doc /\ todo' = todo /\ node' = node /\ out' = out /\ nested' = nested /\ depth' = depth
        /\ reader = "none" /\ reader' = "lines"
    BY <1>5 DEF ReadLines
  <2>2. PICK f, g : Lined(f) /\ Called(g) /\ Reads(f, g)
    BY <2>1 DEF NodesInv
  <2>3. Reads(f, g)' = Reads(f, g)
    BY <2>1 DEF Reads, Inside, InBlock, Stray, At, Nodes, NamesIn, ProxyLines, ProxiesEnd
  <2> QED
    BY <1>2, <2>1, <2>2, <2>3 DEF NodesInv
<1>6. CASE ReadEnd
  <2>1. reader = "lines" /\ todo = <<>> /\ reader' = "done" /\ doc' = doc
    BY <1>6 DEF ReadEnd
  <2>2. PICK f, g : Lined(f) /\ Called(g) /\ Reads(f, g)
    BY <2>1 DEF NodesInv
  <2>3. At = Len(TextLines(doc))
    BY <2>1, TodoFact
  <2>4. At > ProxiesEnd(doc)
    <3> DEFINE a == ProxiesEnd(doc)
               b == ProvidersEnd(doc)
               c == GroupsEnd(doc)
               p == Len(ProviderLines(doc))
               q == Len(GroupLines(doc))
               r == Len(doc.rules)
    <3>1. /\ a \in Nat /\ b \in Nat /\ c \in Nat /\ p \in Nat /\ q \in Nat /\ r \in Nat
          /\ b = a + 1 + p /\ c = b + 1 + q /\ At = c + 1 + r
      BY <1>1, <2>3, EndsFact
    <3> HIDE DEF a, b, c, p, q, r
    <3>2. At > a
      BY <3>1
    <3> QED
      BY <3>2 DEF a
  <2>5. node = <<>> /\ NamesIn(out.proxies) = g[Len(doc.proxies)] /\ Nodes(out.proxies)
    BY <2>2, <2>4 DEF Reads
  <2>6. PICK x : IsResult(x) /\ x.proxies = out.proxies \o WithName(node) /\ out' = Sanitize(x)
    BY <1>1, <1>6, AddedFact
  <2>7. out'.proxies = CleanNodes(x.proxies)
    BY <2>6, SanitizeResult
  <2> DEFINE N == Len(doc.proxies)
  <2>8. g[N] \in Seq(Text)
    <3>1. N \in Nat
      BY <1>1, DocumentFact
    <3> QED
      BY <1>1, <2>2, <3>1, CalledFact
  <2>9. Nodes(x.proxies) /\ NamesIn(x.proxies) = g[N]
    BY <2>5, <2>6, <2>8, NothingOpen
  <2>10. Same(NamesIn(CleanNodes(x.proxies)), Only(NamesIn(x.proxies), Text \ Metadata))
    BY <2>9, NamesClean
  <2>11. FlattenSeq(NamesByItem(doc)) = g[N]
    BY <2>2 DEF Called
  <2>12. NamesIn(out'.proxies) = Only(FlattenSeq(NamesByItem(doc)), Text \ Metadata)
    BY <2>7, <2>9, <2>10, <2>11 DEF Same
  <2>13. NamesIn(out.proxies)' = Only(FlattenSeq(NamesByItem(doc')), Text \ Metadata)
    BY <2>1, <2>12 DEF NamesIn
  <2> QED
    BY <2>1, <2>13 DEF NodesInv, NamesByItem
<1>7. CASE LineStep /\ AnyLineStep
  <2>1. reader = "lines" /\ reader' = "lines" /\ doc' = doc
    BY <1>7 DEF LineStep
  <2>2. PICK f, g : Lined(f) /\ Called(g) /\ Reads(f, g)
    BY <2>1 DEF NodesInv
  <2>3. Reads(f, g)'
    BY <1>7, <2>2, LineNodes
  <2> QED
    BY <1>2, <2>1, <2>2, <2>3 DEF NodesInv
<1> QED
  BY <1>3, <1>4, <1>5, <1>6, <1>7, StepCases

\* The names that arrive, at the end of either reader.
LEMMA KeptArrive ==
  ASSUME ReaderInv, NodesInv, Finished
  PROVE  Kept \in Seq(Item) /\ NamesIn(out.proxies) = Only(Arriving[Kept], Text \ Metadata)
<1>1. doc \in Document
  BY DEF ReaderInv
<1>2. CASE reader = "yaml"
  <2>1. out = Yaml(doc) /\ Kept = doc.proxies \o Providers(doc)
    BY <1>2 DEF NodesInv, Kept
  <2>2. /\ doc.proxies \o Providers(doc) \in Seq(Item)
        /\ Same(NamesIn(Yaml(doc).proxies), Only(Arriving[doc.proxies \o Providers(doc)], Text \ Metadata))
    BY <1>1, YamlNames
  <2> QED
    BY <2>1, <2>2 DEF Same
<1>3. CASE reader = "done"
  <2>1. NamesIn(out.proxies) = Only(FlattenSeq(NamesByItem(doc)), Text \ Metadata)
    BY <1>3 DEF NodesInv
  <2>2. Kept \in Seq(Item) /\ Arriving[Kept] = FlattenSeq(NamesByItem(doc))
    BY <1>1, <1>3, KeptNames
  <2> QED
    BY <2>1, <2>2
<1> QED
  BY <1>2, <1>3 DEF Finished

\* For every set of documents of the assumed shape the names that arrive are
\* those of the document in its order, notes left out: through YAML of all items
\* and then those of the providers; of the lines of all items but LostNodes, which
\* are the block items that a flow item or one that begins with another key than
\* its name follows, and items of the latter kind that follow no block item.
\* (parse_clash_config and sanitize_config in lib.rs; of the lines, the items of
\* the document begin at one indent.)
THEOREM AllNodesArrive == Spec => []NodesArrive
<1>1. ReaderInv /\ NodesInv => NodesArrive
  <2> SUFFICES ASSUME ReaderInv, NodesInv, Finished
               PROVE  NamesIn(out.proxies)
                        = Only(ItemNames(Kept), {n \in ToSet(ItemNames(Kept)) : n \notin Metadata \cup {Blank}})
    BY DEF NodesArrive
  <2>1. Kept \in Seq(Item) /\ NamesIn(out.proxies) = Only(Arriving[Kept], Text \ Metadata)
    BY KeptArrive
  <2> DEFINE s == ItemNames(Kept)
  <2>2. s \in Seq(Text) /\ Arriving[Kept] = Only(s, Named3)
    BY <2>1, ItemNamesFact DEF Arriving
  <2> HIDE DEF s
  <2>3. Same(Only(Only(s, Named3), Text \ Metadata),
             Only(s, {n \in ToSet(s) : n \notin Metadata \cup {Blank}}))
    BY <2>2, BothLeftOut
  <2> QED
    BY <2>1, <2>2, <2>3 DEF Same, s
<1>2. Init => ReaderInv /\ RulesInv /\ NodesInv
  BY ReaderStart, RulesStart, NodesStart
<1>3. ReaderInv /\ RulesInv /\ NodesInv /\ [Next]_vars => (ReaderInv /\ RulesInv /\ NodesInv)'
  BY ReaderStep, RulesStep, NodesStep
<1> QED
  BY <1>1, <1>2, <1>3, PTL DEF Spec

-----------------------------------------------------------------------------
(* The members that arrive: the lists of names *)

\* f[n] are the names with those of the first n of more.
Adds(f, names, more) ==
  /\ f \in [0 .. Len(more) -> Seq(Text)]
  /\ f[0] = names
  /\ \A n \in 1 .. Len(more) :
       f[n] = IF more[n] \in ToSet(f[n - 1]) THEN f[n - 1] ELSE Append(f[n - 1], more[n])

\* The recursion of AddAll has a solution, which it takes the last value of.
LEMMA AddRecursion ==
  ASSUME NEW names \in Seq(Text), NEW more \in Seq(Text)
  PROVE  \E f : Adds(f, names, more) /\ AddAll(names, more) = f[Len(more)]
<1> DEFINE N == Len(more)
           S == Seq(Text)
           st == [p \in Nat \X S |-> IF p[1] \in 1 .. N /\ more[p[1]] \notin ToSet(p[2])
                                     THEN Append(p[2], more[p[1]]) ELSE p[2]]
           G(f) == [n \in 0 .. Len(more) |->
                      IF n = 0 THEN names
                      ELSE LET before == f[n - 1]
                           IN IF more[n] \in ToSet(before) THEN before ELSE Append(before, more[n])]
           the == CHOOSE f : f = G(f)
<1>0. N \in Nat /\ names \in S
  OBVIOUS
<1>1. st \in [Nat \X S -> S]
  OBVIOUS
<1>2. PICK f : Solves(f, S, names, st, N)
  <2> HIDE DEF st, N, S
  <2> QED
    BY <1>0, <1>1, RecursionSolvable
<1>3. f = G(f)
  <2>1. ASSUME NEW n \in 0 .. N PROVE f[n] = G(f)[n]
    <3>1. CASE n = 0
      BY <1>2, <3>1 DEF Solves
    <3>2. CASE n \in 1 .. N
      <4>0. n \in Nat /\ n - 1 \in 0 .. N
        BY <3>2
      <4>1. f[n - 1] \in Seq(Text) /\ <<n, f[n - 1]>> \in Nat \X S
        BY <1>2, <4>0 DEF Solves
      <4>2. f[n] = st[<<n, f[n - 1]>>]
        BY <1>2, <3>2 DEF Solves
      <4> QED
        BY <3>2, <4>1, <4>2
    <3> QED
      BY <3>1, <3>2
  <2>2. f \in [0 .. N -> S]
    BY <1>2 DEF Solves
  <2> QED
    BY <2>1, <2>2
<1>4. the = G(the)
  <2> HIDE DEF G
  <2> QED
    BY <1>3
<1>5. AddAll(names, more) = the[Len(more)]
  BY DEF AddAll
<1> HIDE DEF the
<1>6. the[0] = names /\ DOMAIN the = 0 .. Len(more)
  BY <1>4
<1>7. ASSUME NEW n \in 1 .. Len(more)
      PROVE  the[n] = IF more[n] \in ToSet(the[n - 1]) THEN the[n - 1] ELSE Append(the[n - 1], more[n])
  <2>1. n \in 0 .. Len(more) /\ n # 0
    OBVIOUS
  <2>2. the[n] = G(the)[n]
    BY <1>4
  <2> QED
    BY <2>1, <2>2
<1>8. the \in [0 .. Len(more) -> Seq(Text)]
  <2> DEFINE T == {n \in Nat : the[n] \in Seq(Text)}
  <2>1. 0 \in T
    BY <1>6
  <2>2. ASSUME NEW n \in 1 .. N, n - 1 \in T PROVE n \in T
    <3>1. the[n - 1] \in Seq(Text) /\ more[n] \in Text /\ n \in Nat
      BY <2>2
    <3>2. Append(the[n - 1], more[n]) \in Seq(Text)
      BY <3>1
    <3>3. the[n] = IF more[n] \in ToSet(the[n - 1]) THEN the[n - 1] ELSE Append(the[n - 1], more[n])
      BY <1>7
    <3>4. the[n] \in Seq(Text)
      BY <3>1, <3>2, <3>3
    <3> QED
      BY <3>1, <3>4
  <2> HIDE DEF T
  <2>3. \A n \in 0 .. N : n \in T
    BY <1>0, <2>1, <2>2, UpTo
  <2>4. ASSUME NEW n \in 0 .. Len(more) PROVE the[n] \in Seq(Text)
    BY <2>3 DEF T
  <2>5. the = [n \in 0 .. Len(more) |-> the[n]]
    BY <1>4
  <2> QED
    BY <2>4, <2>5
<1> QED
  BY <1>5, <1>6, <1>7, <1>8 DEF Adds

LEMMA AddAllSeq ==
  ASSUME NEW names \in Seq(Text), NEW more \in Seq(Text)
  PROVE  AddAll(names, more) \in Seq(Text)
<1>1. PICK f : Adds(f, names, more) /\ AddAll(names, more) = f[Len(more)]
  BY AddRecursion
<1>2. Len(more) \in 0 .. Len(more)
  OBVIOUS
<1> QED
  BY <1>1, <1>2 DEF Adds

\* f[n] are the members with those that the first n of the uses bring.
Gathers(f, listed, uses, known) ==
  /\ f \in [0 .. Len(uses) -> Seq(Text)]
  /\ f[0] = listed
  /\ \A n \in 1 .. Len(uses) :
       f[n] = IF uses[n] \in DOMAIN known THEN AddAll(f[n - 1], known[uses[n]])
              ELSE IF f[n - 1] = <<>> THEN <<uses[n]>> ELSE f[n - 1]

\* The recursion of AllMembers has a solution, which it takes the last value of.
LEMMA GatherRecursion ==
  ASSUME NEW listed \in Seq(Text), NEW uses \in Seq(Text), NEW known,
         \A name \in DOMAIN known : known[name] \in Seq(Text)
  PROVE  \E f : Gathers(f, listed, uses, known) /\ AllMembers(listed, uses, known) = f[Len(uses)]
<1> DEFINE N == Len(uses)
           S == Seq(Text)
           next(n, s) == IF uses[n] \in DOMAIN known THEN AddAll(s, known[uses[n]])
                         ELSE IF s = <<>> THEN <<uses[n]>> ELSE s
           st == [p \in Nat \X S |-> IF p[1] \in 1 .. N THEN next(p[1], p[2]) ELSE p[2]]
           G(f) == [n \in 0 .. Len(uses) |->
                      IF n = 0 THEN listed
                      ELSE LET before == f[n - 1]
                           IN IF uses[n] \in DOMAIN known THEN AddAll(before, known[uses[n]])
                              ELSE IF before = <<>> THEN <<uses[n]>> ELSE before]
           the == CHOOSE f : f = G(f)
<1>0. N \in Nat /\ listed \in S /\ \A n \in 1 .. N : uses[n] \in Text
  OBVIOUS
<1>9. ASSUME NEW n \in 1 .. N, NEW s \in S PROVE next(n, s) \in S
  <2>1. CASE uses[n] \in DOMAIN known
    <3>1. known[uses[n]] \in Seq(Text)
      BY <2>1
    <3>2. AddAll(s, known[uses[n]]) \in Seq(Text)
      BY <3>1, AddAllSeq
    <3> QED
      BY <2>1, <3>2
  <2>2. CASE uses[n] \notin DOMAIN known
    <3>1. uses[n] \in Text
      BY <1>0
    <3>2. <<uses[n]>> \in Seq(Text)
      BY <3>1
    <3> QED
      BY <2>2, <3>2
  <2> QED
    BY <2>1, <2>2
<1>1. st \in [Nat \X S -> S]
  <2> HIDE DEF next, S
  <2>1. ASSUME NEW p \in Nat \X S PROVE (IF p[1] \in 1 .. N THEN next(p[1], p[2]) ELSE p[2]) \in S
    BY <1>9
  <2> QED
    BY <2>1
<1>2. PICK f : Solves(f, S, listed, st, N)
  <2> HIDE DEF st, N, S
  <2> QED
    BY <1>0, <1>1, RecursionSolvable
<1>3. f = G(f)
  <2>1. ASSUME NEW n \in 0 .. N PROVE f[n] = G(f)[n]
    <3>1. CASE n = 0
      BY <1>2, <3>1 DEF Solves
    <3>2. CASE n \in 1 .. N
      <4>0. n \in Nat /\ n - 1 \in 0 .. N
        BY <3>2
      <4>1. f[n - 1] \in Seq(Text) /\ <<n, f[n - 1]>> \in Nat \X S
        BY <1>2, <4>0 DEF Solves
      <4>2. f[n] = st[<<n, f[n - 1]>>]
        BY <1>2, <3>2 DEF Solves
      <4>3. f[n] = next(n, f[n - 1])
        <5> HIDE DEF next
        <5> QED
          BY <3>2, <4>1, <4>2
      <4> QED
        BY <3>2, <4>3
    <3> QED
      BY <3>1, <3>2
  <2>2. f \in [0 .. N -> S]
    BY <1>2 DEF Solves
  <2> QED
    BY <2>1, <2>2
<1>4. the = G(the)
  <2> HIDE DEF G
  <2> QED
    BY <1>3
<1>5. AllMembers(listed, uses, known) = the[Len(uses)]
  BY DEF AllMembers
<1> HIDE DEF the
<1>6. the[0] = listed /\ DOMAIN the = 0 .. Len(uses)
  BY <1>4
<1>7. ASSUME NEW n \in 1 .. Len(uses) PROVE the[n] = next(n, the[n - 1])
  <2>1. n \in 0 .. Len(uses) /\ n # 0
    OBVIOUS
  <2>2. the[n] = G(the)[n]
    BY <1>4
  <2> QED
    BY <2>1, <2>2
<1>8. the \in [0 .. Len(uses) -> Seq(Text)]
  <2> DEFINE T == {n \in Nat : the[n] \in S}
  <2>1. 0 \in T
    BY <1>6
  <2>2. ASSUME NEW n \in 1 .. N, n - 1 \in T PROVE n \in T
    <3> HIDE DEF next, S
    <3>1. n \in Nat /\ the[n - 1] \in S
      BY <2>2
    <3> QED
      BY <1>7, <1>9, <3>1
  <2> HIDE DEF T
  <2>3. \A n \in 0 .. N : n \in T
    BY <1>0, <2>1, <2>2, UpTo
  <2>4. ASSUME NEW n \in 0 .. Len(uses) PROVE the[n] \in Seq(Text)
    BY <2>3 DEF T
  <2>5. the = [n \in 0 .. Len(uses) |-> the[n]]
    BY <1>4
  <2> QED
    BY <2>4, <2>5
<1> QED
  BY <1>5, <1>6, <1>7, <1>8 DEF Gathers

\* t is s with the elements of E that s does not have, once each.
Grown(t, s, E) ==
  /\ t \in Seq(Text) /\ Len(s) <= Len(t) /\ \A i \in 1 .. Len(s) : t[i] = s[i]
  /\ ToSet(t) = ToSet(s) \cup E
  /\ IsFiniteSet(E \ ToSet(s)) /\ Len(t) = Len(s) + Cardinality(E \ ToSet(s))

LEMMA GrowsOne ==
  ASSUME NEW s \in Seq(Text), NEW t, NEW E, Grown(t, s, E), NEW v \in Text
  PROVE  /\ v \in ToSet(t) => Grown(t, s, E \cup {v})
         /\ v \notin ToSet(t) => Grown(Append(t, v), s, E \cup {v})
<1>1. /\ t \in Seq(Text) /\ Len(s) <= Len(t) /\ \A i \in 1 .. Len(s) : t[i] = s[i]
      /\ ToSet(t) = ToSet(s) \cup E
      /\ IsFiniteSet(E \ ToSet(s)) /\ Len(t) = Len(s) + Cardinality(E \ ToSet(s))
  BY DEF Grown
<1>0. Len(s) \in Nat /\ Len(t) \in Nat
  BY <1>1
<1>2. ASSUME v \in ToSet(t) PROVE Grown(t, s, E \cup {v})
  <2>1. (E \cup {v}) \ ToSet(s) = E \ ToSet(s) /\ ToSet(t) = ToSet(s) \cup (E \cup {v})
    BY <1>1, <1>2
  <2> QED
    BY <1>1, <2>1 DEF Grown
<1>3. ASSUME v \notin ToSet(t) PROVE Grown(Append(t, v), s, E \cup {v})
  <2> DEFINE D == E \ ToSet(s)
             u == Append(t, v)
             F == E \cup {v}
  <2>1. F \ ToSet(s) = D \cup {v} /\ v \notin D
    BY <1>1, <1>3
  <2>2. IsFiniteSet(D \cup {v}) /\ Cardinality(D \cup {v}) = Cardinality(D) + 1
    <3> HIDE DEF D
    <3> QED
      BY <1>1, <2>1, FS_AddElement DEF D
  <2>3. Cardinality(D) \in Nat
    <3> HIDE DEF D
    <3> QED
      BY <1>1, FS_CardinalityType DEF D
  <2>4. /\ u \in Seq(Text) /\ Len(u) = Len(t) + 1 /\ \A i \in 1 .. Len(t) : u[i] = t[i]
        /\ ToSet(u) = ToSet(t) \cup {v}
    <3>0. t \in Seq(Text)
      BY <1>1
    <3>1. ToSet(u) = ToSet(t) \cup {v}
      BY <3>0, AppendedSet
    <3>2. u \in Seq(Text) /\ Len(u) = Len(t) + 1 /\ \A i \in 1 .. Len(t) : u[i] = t[i]
      BY <3>0
    <3> QED
      BY <3>1, <3>2
  <2> HIDE DEF u, D
  <2>5. Len(s) <= Len(u) /\ \A i \in 1 .. Len(s) : i \in 1 .. Len(t)
    <3> DEFINE a == Len(s)
               b == Len(t)
               c == Len(u)
    <3>1. a \in Nat /\ b \in Nat /\ a <= b /\ c = b + 1
      BY <1>0, <1>1, <2>4
    <3> HIDE DEF a, b, c
    <3>2. a <= c /\ \A i \in 1 .. a : i \in 1 .. b
      BY <3>1
    <3> QED
      BY <3>2 DEF a, b, c
  <2>6. \A i \in 1 .. Len(s) : u[i] = s[i]
    BY <1>1, <2>4, <2>5
  <2>7. ToSet(u) = ToSet(s) \cup F
    BY <1>1, <2>4
  <2>8. Len(u) = Len(s) + Cardinality(F \ ToSet(s)) /\ IsFiniteSet(F \ ToSet(s))
    <3>1. Len(t) = Len(s) + Cardinality(D)
      BY <1>1 DEF D
    <3> HIDE DEF F
    <3>2. Len(u) = Len(s) + (Cardinality(D) + 1)
      BY <1>1, <2>3, <2>4, <3>1
    <3> QED
      BY <2>1, <2>2, <3>2
  <2> HIDE DEF F
  <2>9. Grown(u, s, F)
    BY <2>4, <2>5, <2>6, <2>7, <2>8 DEF Grown
  <2> QED
    BY <2>9 DEF u, F
<1> QED
  BY <1>2, <1>3

LEMMA StartsGrown ==
  ASSUME NEW s \in Seq(Text)
  PROVE  Grown(s, s, {})
<1>1. {} \ ToSet(s) = {} /\ ToSet(s) = ToSet(s) \cup {}
  OBVIOUS
<1>2. IsFiniteSet({}) /\ Cardinality({}) = 0
  BY FS_EmptySet
<1>3. Len(s) = Len(s) + 0 /\ Len(s) <= Len(s)
  OBVIOUS
<1> QED
  BY <1>1, <1>2, <1>3 DEF Grown

LEMMA KeptOne ==
  ASSUME NEW a \in Seq(Text), NEW v \in Text, NEW K
  PROVE  Same(Only(Append(a, v), K), IF v \in K THEN Append(Only(a, K), v) ELSE Only(a, K))
<1> DEFINE w == <<v>>
<1>1. Append(a, v) = a \o w /\ w \in Seq(Text)
  BY AppendOne
<1>3. Only(w, K) = IF v \in K THEN w ELSE <<>>
  BY OnlyOne
<1> HIDE DEF w
<1>2. Only(a \o w, K) = Only(a, K) \o Only(w, K)
  BY <1>1, OnlyConcat
<1> DEFINE b == Only(a, K)
<1>4. b \in Seq(Text)
  BY OnlyKeeps
<1> HIDE DEF b
<1>5. b \o <<>> = b /\ Append(b, v) = b \o w
  BY <1>4, AppendOne DEF w
<1> QED
  BY <1>1, <1>2, <1>3, <1>5 DEF b, Same

\* Of what AddAll adds, K keeps each name once.
LEMMA AddAllGrows ==
  ASSUME NEW names \in Seq(Text), NEW more \in Seq(Text), NEW K, NEW s \in Seq(Text), NEW E,
         Grown(Only(names, K), s, E)
  PROVE  Grown(Only(AddAll(names, more), K), s, E \cup (ToSet(more) \cap K))
<1>1. PICK f : Adds(f, names, more) /\ AddAll(names, more) = f[Len(more)]
  BY AddRecursion
<1> DEFINE N == Len(more)
           M(n) == {more[i] : i \in 1 .. n}
           T == {n \in Nat : Grown(Only(f[n], K), s, E \cup (M(n) \cap K))}
<1>2. /\ f \in [0 .. N -> Seq(Text)] /\ f[0] = names
      /\ \A n \in 1 .. N : f[n] = IF more[n] \in ToSet(f[n - 1]) THEN f[n - 1] ELSE Append(f[n - 1], more[n])
  BY <1>1 DEF Adds
<1>3. N \in Nat /\ DOMAIN more = 1 .. N /\ \A n \in 1 .. N : more[n] \in Text
  OBVIOUS
<1>4. 0 \in T
  <2>1. E \cup (M(0) \cap K) = E
    OBVIOUS
  <2> HIDE DEF M
  <2> QED
    BY <1>2, <2>1
<1>5. ASSUME NEW n \in 1 .. N, n - 1 \in T PROVE n \in T
  <2> DEFINE a == f[n - 1]
             v == more[n]
             F == E \cup (M(n - 1) \cap K)
             t == Only(a, K)
  <2>1. a \in Seq(Text) /\ v \in Text /\ n \in Nat
    <3>1. n - 1 \in 0 .. N /\ n \in Nat
      BY <1>3
    <3>2. a \in Seq(Text)
      BY <1>2, <3>1
    <3>3. v \in Text
      BY <1>3
    <3> QED
      BY <3>1, <3>2, <3>3
  <2>2. Grown(t, s, F)
    BY <1>5
  <2>3. E \cup (M(n) \cap K) = IF v \in K THEN F \cup {v} ELSE F
    <3>1. M(n) = M(n - 1) \cup {v}
      OBVIOUS
    <3> HIDE DEF M, v
    <3> QED
      BY <3>1
  <2>4. f[n] = IF v \in ToSet(a) THEN a ELSE Append(a, v)
    BY <1>2
  <2>5. SUFFICES Grown(Only(f[n], K), s, E \cup (M(n) \cap K))
    BY <2>1
  <2> HIDE DEF a, v, F, t, M
  <2>6. Same(Only(Append(a, v), K), IF v \in K THEN Append(Only(a, K), v) ELSE Only(a, K))
    BY <2>1, KeptOne
  <2>7. ToSet(t) = ToSet(a) \cap K
    BY <2>1, OnlyKeeps DEF t
  <2>8. /\ v \in ToSet(t) => Grown(t, s, F \cup {v})
        /\ v \notin ToSet(t) => Grown(Append(t, v), s, F \cup {v})
    BY <2>1, <2>2, GrowsOne
  <2>9. CASE v \notin K
    <3>1. Only(f[n], K) = t
      BY <2>4, <2>6, <2>9 DEF Same, t
    <3> QED
      BY <2>2, <2>3, <2>9, <3>1
  <2>10. CASE v \in K /\ v \in ToSet(a)
    <3>1. Only(f[n], K) = t
      BY <2>4, <2>10 DEF t
    <3> QED
      BY <2>3, <2>7, <2>8, <2>10, <3>1
  <2>11. CASE v \in K /\ v \notin ToSet(a)
    <3>1. Only(f[n], K) = Append(t, v)
      BY <2>4, <2>6, <2>11 DEF Same, t
    <3> QED
      BY <2>3, <2>7, <2>8, <2>11, <3>1
  <2> QED
    BY <2>9, <2>10, <2>11
<1> HIDE DEF T
<1>6. N \in T
  BY <1>3, <1>4, <1>5, UpTo
<1>7. M(N) = ToSet(more)
  BY <1>3 DEF ToSet
<1> HIDE DEF M
<1> QED
  BY <1>1, <1>6, <1>7 DEF T

\* The names that the first n of the uses bring.
Brought(uses, known, n) ==
  UNION {ToSet(known[uses[i]]) : i \in {j \in 1 .. n : uses[j] \in DOMAIN known}}

\* If no use is in K itself, K keeps the members that are listed and each name
\* of the providers once.
LEMMA AllMembersGrow ==
  ASSUME NEW listed \in Seq(Text), NEW uses \in Seq(Text), NEW known,
         \A name \in DOMAIN known : known[name] \in Seq(Text),
         NEW K, ToSet(uses) \cap K = {}
  PROVE  /\ AllMembers(listed, uses, known) \in Seq(Text)
         /\ Grown(Only(AllMembers(listed, uses, known), K), Only(listed, K),
                  Brought(uses, known, Len(uses)) \cap K)
<1>1. PICK f : Gathers(f, listed, uses, known) /\ AllMembers(listed, uses, known) = f[Len(uses)]
  BY GatherRecursion
<1> DEFINE N == Len(uses)
           s == Only(listed, K)
           B(n) == Brought(uses, known, n)
           T == {n \in Nat : Grown(Only(f[n], K), s, B(n) \cap K)}
<1>2. /\ f \in [0 .. N -> Seq(Text)] /\ f[0] = listed
      /\ \A n \in 1 .. N :
           f[n] = IF uses[n] \in DOMAIN known THEN AddAll(f[n - 1], known[uses[n]])
                  ELSE IF f[n - 1] = <<>> THEN <<uses[n]>> ELSE f[n - 1]
  BY <1>1 DEF Gathers
<1>3. N \in Nat /\ \A n \in 1 .. N : uses[n] \in Text /\ uses[n] \notin K
  <2>1. \A n \in 1 .. N : uses[n] \in Text /\ uses[n] \in ToSet(uses)
    BY DEF ToSet
  <2> QED
    BY <2>1
<1>4. s \in Seq(Text)
  BY OnlyKeeps
<1> HIDE DEF s
<1>5. 0 \in T
  <2>1. B(0) \cap K = {}
    BY DEF Brought
  <2>2. Grown(s, s, {})
    BY <1>4, StartsGrown
  <2> HIDE DEF B
  <2> QED
    BY <1>2, <2>1, <2>2 DEF s
<1>6. ASSUME NEW n \in 1 .. N, n - 1 \in T PROVE n \in T
  <2> DEFINE a == f[n - 1]
             u == uses[n]
  <2>1. a \in Seq(Text) /\ u \in Text /\ u \notin K /\ n \in Nat
    <3>1. n - 1 \in 0 .. N
      BY <1>3
    <3> QED
      BY <1>2, <1>3, <3>1
  <2>2. Grown(Only(a, K), s, B(n - 1) \cap K)
    BY <1>6
  <2>3. SUFFICES Grown(Only(f[n], K), s, B(n) \cap K)
    BY <2>1
  <2>4. f[n] = IF u \in DOMAIN known THEN AddAll(a, known[u]) ELSE IF a = <<>> THEN <<u>> ELSE a
    BY <1>2
  <2> DEFINE J == {j \in 1 .. n - 1 : uses[j] \in DOMAIN known}
             H == {j \in 1 .. n : uses[j] \in DOMAIN known}
  <2>5. (\A i \in 1 .. n : i \in 1 .. n - 1 \/ i = n) /\ (\A i \in 1 .. n - 1 : i \in 1 .. n) /\ n \in 1 .. n
    OBVIOUS
  <2>6. H = IF u \in DOMAIN known THEN J \cup {n} ELSE J
    BY <2>5
  <2>12. B(n - 1) = UNION {ToSet(known[uses[i]]) : i \in J} /\ B(n) = UNION {ToSet(known[uses[i]]) : i \in H}
    BY DEF Brought
  <2>7. B(n) = IF u \in DOMAIN known THEN B(n - 1) \cup ToSet(known[u]) ELSE B(n - 1)
    <3> HIDE DEF J, H, B
    <3>1. CASE u \in DOMAIN known
      BY <2>6, <2>12, <3>1
    <3>2. CASE u \notin DOMAIN known
      BY <2>6, <2>12, <3>2
    <3> QED
      BY <3>1, <3>2
  <2> HIDE DEF a, u, B
  <2>8. CASE u \in DOMAIN known
    <3>1. known[u] \in Seq(Text)
      BY <2>8
    <3>2. Grown(Only(AddAll(a, known[u]), K), s, (B(n - 1) \cap K) \cup (ToSet(known[u]) \cap K))
      BY <1>4, <2>1, <2>2, <3>1, AddAllGrows
    <3>3. (B(n - 1) \cap K) \cup (ToSet(known[u]) \cap K) = B(n) \cap K
      BY <2>7, <2>8
    <3> QED
      BY <2>4, <2>8, <3>2, <3>3
  <2>9. CASE u \notin DOMAIN known
    <3>1. Only(<<>>, K) = <<>> /\ Only(<<u>>, K) = <<>>
      BY <2>1, OnlyOne
    <3>2. Only(f[n], K) = Only(a, K)
      BY <2>4, <2>9, <3>1
    <3> QED
      BY <2>2, <2>7, <2>9, <3>2
  <2> QED
    BY <2>8, <2>9
<1> HIDE DEF T
<1>7. N \in T
  BY <1>3, <1>5, <1>6, UpTo
<1>8. f[N] \in Seq(Text)
  BY <1>2, <1>3
<1> QED
  BY <1>1, <1>7, <1>8 DEF T, s

-----------------------------------------------------------------------------
(* The members that arrive: groups as they are read *)

GroupShape == [name : Text, type : Text, now : Text, all : Seq(Text)]

\* What is known of groups: their names and members.
Brief(g) == <<g.name, g.all>>

Briefs(s) == {Brief(g) : g \in ToSet(s)}

LEMMA BriefsFact ==
  /\ Briefs(<<>>) = {} /\ <<>> \in Seq(GroupShape)
  /\ \A g \in GroupShape : Briefs(<<g>>) = {Brief(g)} /\ <<g>> \in Seq(GroupShape)
  /\ \A s, t \in Seq(GroupShape) : s \o t \in Seq(GroupShape) /\ Briefs(s \o t) = Briefs(s) \cup Briefs(t)
<1>1. Briefs(<<>>) = {} /\ <<>> \in Seq(GroupShape)
  <2>1. ToSet(<<>>) = {}
    BY NoElement
  <2> QED
    BY <2>1 DEF Briefs
<1>2. ASSUME NEW g \in GroupShape PROVE Briefs(<<g>>) = {Brief(g)} /\ <<g>> \in Seq(GroupShape)
  <2>1. ToSet(<<g>>) = {g} /\ <<g>> \in Seq(GroupShape)
    BY OneElement
  <2> QED
    BY <2>1 DEF Briefs
<1>3. ASSUME NEW s \in Seq(GroupShape), NEW t \in Seq(GroupShape)
      PROVE  s \o t \in Seq(GroupShape) /\ Briefs(s \o t) = Briefs(s) \cup Briefs(t)
  <2>1. ToSet(s \o t) = ToSet(s) \cup ToSet(t)
    BY ConcatSet
  <2> QED
    BY <2>1 DEF Briefs
<1> QED
  BY <1>1, <1>2, <1>3

\* A group without a name is dropped.
LEMMA NamedGroup ==
  /\ WithName(<<>>) = <<>>
  /\ \A g \in GroupShape : WithName(<<g>>) = IF g.name # Blank THEN <<g>> ELSE <<>>
<1>1. WithName(<<>>) = <<>>
  <2>1. \A K : Only(<<>>, K) = <<>>
    <3>1. Blank \in Text
      BY TextAssumption
    <3> QED
      BY <3>1, OnlyOne
  <2> QED
    BY <2>1 DEF WithName
<1>2. ASSUME NEW g \in GroupShape PROVE WithName(<<g>>) = IF g.name # Blank THEN <<g>> ELSE <<>>
  <2> DEFINE K == {r \in ToSet(<<g>>) : r.name # Blank}
  <2>1. ToSet(<<g>>) = {g}
    BY OneElement
  <2>2. g \in K <=> g.name # Blank
    BY <2>1
  <2>3. WithName(<<g>>) = Only(<<g>>, K)
    BY DEF WithName
  <2> HIDE DEF K
  <2>4. Only(<<g>>, K) = IF g \in K THEN <<g>> ELSE <<>>
    BY OnlyOne
  <2> QED
    BY <2>2, <2>3, <2>4
<1> QED
  BY <1>1, <1>2

\* The values of the list elements among the lines of a block item.
Vals(item) == [i \in DOMAIN item |-> IF item[i].kind = "item" THEN <<item[i].val>> ELSE <<>>]

LEMMA ValsFact ==
  ASSUME NEW item \in Seq(LineShape)
  PROVE  Vals(item) \in Seq(Seq(Text)) /\ Len(Vals(item)) = Len(item) /\ Len(item) \in Nat
         /\ \A i \in 1 .. Len(item) : Vals(item)[i] = IF item[i].kind = "item" THEN <<item[i].val>> ELSE <<>>
<1>1. DOMAIN item = 1 .. Len(item) /\ Len(item) \in Nat /\ \A i \in 1 .. Len(item) : item[i] \in LineShape
  OBVIOUS
<1>2. ASSUME NEW i \in 1 .. Len(item)
      PROVE  (IF item[i].kind = "item" THEN <<item[i].val>> ELSE <<>>) \in Seq(Text)
  <2>1. item[i].val \in Text
    BY <1>1 DEF LineShape
  <2> QED
    BY <2>1
<1> QED
  BY <1>1, <1>2 DEF Vals

\* The members that the line reader finds in an item.
LineMembers(item) == IF IsFlow(item) THEN FlowGroup(item[1].entries).all ELSE FlattenSeq(Vals(item))

\* The reader finds no group open that it could take item k for.
StrayGroup(k) ==
  k \in Unseen(doc.groups, {i \in DOMAIN doc.groups : IsFlow(doc.groups[i]) => ItemNames(doc.groups)[i] # Blank})

\* No group is open behind item k.
Closed(k) == StrayGroup(k) \/ (IsFlow(doc.groups[k]) /\ NameIn(doc.groups[k]) = Blank)

LEMMA StrayGroupFact ==
  ASSUME doc \in Document, NEW k \in 1 .. Len(doc.groups)
  PROVE  /\ k \in LostGroups(doc.groups)
              <=> StrayGroup(k) \/ (k + 1 \in 1 .. Len(doc.groups) /\ Headless(doc.groups[k + 1]))
         /\ StrayGroup(k) => Headless(doc.groups[k])
         /\ Headless(doc.groups[k]) => ~ IsFlow(doc.groups[k])
         /\ Headless(doc.groups[k]) =>
              (StrayGroup(k) <=> k = 1 \/ (k - 1 \in 1 .. Len(doc.groups) /\ Closed(k - 1)))
<1> DEFINE items == doc.groups
           opens == {i \in DOMAIN items : IsFlow(items[i]) => ItemNames(items)[i] # Blank}
<1>1. items \in Seq(Item) /\ DOMAIN items = 1 .. Len(items)
  <2>1. items \in Seq(GroupItem)
    BY DocumentFact
  <2> QED
    BY <2>1, ItemsFact
<1>2. \A i \in 1 .. Len(items) : Headless(items[i]) => ~ IsFlow(items[i])
  BY DEF Headless, IsFlow
<1>3. \A i \in 1 .. Len(items) : StrayGroup(i) => Headless(items[i])
  BY DEF StrayGroup, Unseen
<1>4. k \in LostGroups(items) <=> StrayGroup(k) \/ (k + 1 \in 1 .. Len(items) /\ Headless(items[k + 1]))
  BY <1>1 DEF LostGroups, StrayGroup
<1>6. \A i \in 1 .. Len(items) : ItemNames(items)[i] = NameIn(items[i])
  BY <1>1 DEF ItemNames, NameIn
<1>5. ASSUME Headless(items[k])
      PROVE  StrayGroup(k) <=> k = 1 \/ (k - 1 \in 1 .. Len(items) /\ Closed(k - 1))
  <2> DEFINE m == k - 1
  <2>1. opens \in SUBSET DOMAIN items
    OBVIOUS
  <2>2. /\ \A i \in 1 .. Len(items) : i \notin opens <=> IsFlow(items[i]) /\ NameIn(items[i]) = Blank
        /\ \A i \in 1 .. Len(items) : StrayGroup(i) <=> i \in Unseen(items, opens)
    <3>1. \A i \in 1 .. Len(items) : i \in opens <=> (IsFlow(items[i]) => NameIn(items[i]) # Blank)
      BY <1>1, <1>6
    <3>2. \A i \in 1 .. Len(items) : StrayGroup(i) <=> i \in Unseen(items, opens)
      BY DEF StrayGroup
    <3> QED
      BY <3>1, <3>2
  <2> HIDE DEF opens, items
  <2>3. k \in Unseen(items, opens)
          <=> \/ k = 1
              \/ /\ m \in 1 .. Len(items)
                 /\ IF Headless(items[m]) THEN m \in Unseen(items, opens) ELSE m \notin opens
    BY <1>1, <1>5, <2>1, UnseenFact DEF items
  <2> HIDE DEF m
  <2>4. k \in 1 .. Len(items)
    BY DEF items
  <2>5. m \in 1 .. Len(items) => (Closed(m) <=> StrayGroup(m) \/ (IsFlow(items[m]) /\ NameIn(items[m]) = Blank))
    BY DEF Closed, items
  <2>6. StrayGroup(k) <=> k = 1 \/ (m \in 1 .. Len(items) /\ Closed(m))
    <3>1. CASE m \in 1 .. Len(items)
      <4>1. CASE Headless(items[m])
        BY <1>2, <2>2, <2>3, <2>4, <2>5, <3>1, <4>1
      <4>2. CASE ~ Headless(items[m])
        BY <1>3, <2>2, <2>3, <2>4, <2>5, <3>1, <4>2
      <4> QED
        BY <4>1, <4>2
    <3>2. CASE m \notin 1 .. Len(items)
      BY <2>2, <2>3, <2>4, <3>2
    <3> QED
      BY <3>1, <3>2
  <2> QED
    BY <2>6 DEF m
<1> QED
  BY <1>2, <1>3, <1>4, <1>5

\* The groups s are those of the first k items that the line reader hands over,
\* under their names, and but for those that begin with another key than their
\* name with the members that it finds in them.
Handed(s, k) ==
  /\ \A n : (\E b \in Briefs(s) : b[1] = n)
             <=> n # Blank /\ \E i \in 1 .. k : i \notin LostGroups(doc.groups) /\ NameIn(doc.groups[i]) = n
  /\ \A i \in 1 .. k :
       i \notin LostGroups(doc.groups) /\ NameIn(doc.groups[i]) # Blank /\ ~ Headless(doc.groups[i])
         => <<NameIn(doc.groups[i]), LineMembers(doc.groups[i])>> \in Briefs(s)

LEMMA HandedNone == Handed(<<>>, 0)
<1>1. Briefs(<<>>) = {}
  BY BriefsFact
<1> QED
  BY <1>1 DEF Handed

\* An item that adds no group.
LEMMA HandedSkip ==
  ASSUME NEW s, NEW k \in Nat \ {0}, Handed(s, k - 1),
         k \in LostGroups(doc.groups) \/ NameIn(doc.groups[k]) = Blank
  PROVE  Handed(s, k)
<1> DEFINE L == LostGroups(doc.groups)
           G(i) == NameIn(doc.groups[i])
           P(i) == <<NameIn(doc.groups[i]), LineMembers(doc.groups[i])>>
           H(i) == Headless(doc.groups[i])
           B == Briefs(s)
<1>1. (\A i \in 1 .. k : i \in 1 .. k - 1 \/ i = k) /\ (\A i \in 1 .. k - 1 : i \in 1 .. k)
  OBVIOUS
<1>2. /\ \A n : (\E b \in B : b[1] = n) <=> n # Blank /\ \E i \in 1 .. k - 1 : i \notin L /\ G(i) = n
      /\ \A i \in 1 .. k - 1 : i \notin L /\ G(i) # Blank /\ ~ H(i) => P(i) \in B
  BY DEF Handed
<1>3. k \in L \/ G(k) = Blank
  OBVIOUS
<1> HIDE DEF L, G, P, H, B
<1>4. /\ \A n : (\E b \in B : b[1] = n) <=> n # Blank /\ \E i \in 1 .. k : i \notin L /\ G(i) = n
      /\ \A i \in 1 .. k : i \notin L /\ G(i) # Blank /\ ~ H(i) => P(i) \in B
  BY <1>1, <1>2, <1>3
<1> QED
  BY <1>4 DEF Handed, L, G, P, H, B

\* An item whose group is handed over, if it has a name.
LEMMA HandedNext ==
  ASSUME NEW s \in Seq(GroupShape), NEW k \in Nat \ {0}, Handed(s, k - 1), k \notin LostGroups(doc.groups),
         NEW g \in GroupShape, g.name = NameIn(doc.groups[k]),
         ~ Headless(doc.groups[k]) => g.all = LineMembers(doc.groups[k])
  PROVE  Handed(s \o WithName(<<g>>), k)
<1>1. CASE g.name = Blank
  <2>1. WithName(<<g>>) = <<>>
    BY <1>1, NamedGroup
  <2>2. s \o <<>> = s
    OBVIOUS
  <2> QED
    BY <1>1, <2>1, <2>2, HandedSkip
<1>2. CASE g.name # Blank
  <2> DEFINE L == LostGroups(doc.groups)
             G(i) == NameIn(doc.groups[i])
             P(i) == <<NameIn(doc.groups[i]), LineMembers(doc.groups[i])>>
             H(i) == Headless(doc.groups[i])
             B == Briefs(s)
             c == Brief(g)
             t == s \o WithName(<<g>>)
             C == Briefs(t)
  <2>1. (\A i \in 1 .. k : i \in 1 .. k - 1 \/ i = k) /\ (\A i \in 1 .. k - 1 : i \in 1 .. k) /\ k \in 1 .. k
    OBVIOUS
  <2>2. /\ \A n : (\E b \in B : b[1] = n) <=> n # Blank /\ \E i \in 1 .. k - 1 : i \notin L /\ G(i) = n
        /\ \A i \in 1 .. k - 1 : i \notin L /\ G(i) # Blank /\ ~ H(i) => P(i) \in B
    BY DEF Handed
  <2>3. C = B \cup {c}
    <3>1. WithName(<<g>>) = <<g>>
      BY <1>2, NamedGroup
    <3>2. Briefs(<<g>>) = {Brief(g)} /\ <<g>> \in Seq(GroupShape)
      BY BriefsFact
    <3>3. Briefs(s \o <<g>>) = Briefs(s) \cup Briefs(<<g>>)
      BY <3>2, BriefsFact
    <3> QED
      BY <3>1, <3>2, <3>3
  <2>4. k \notin L /\ c[1] = G(k) /\ G(k) # Blank /\ (~ H(k) => P(k) = c)
    BY <1>2 DEF Brief
  <2> HIDE DEF L, G, P, H, B, c, C
  <2>5. \A n : (\E b \in C : b[1] = n) <=> n # Blank /\ \E i \in 1 .. k : i \notin L /\ G(i) = n
    BY <2>1, <2>2, <2>3, <2>4
  <2>6. \A i \in 1 .. k : i \notin L /\ G(i) # Blank /\ ~ H(i) => P(i) \in C
    BY <2>1, <2>2, <2>3, <2>4
  <2> QED
    BY <2>5, <2>6 DEF Handed, L, G, P, H, C
<1> QED
  BY <1>1, <1>2

\* The elements that are listed under a key.
LEMMA ListedFact ==
  ASSUME NEW es \in Seq(Entries3), NEW key
  PROVE  Listed(es, key) \in Seq(Text)
<1> DEFINE ss == [i \in DOMAIN es |-> IF es[i].sec = Blank /\ es[i].key = key THEN <<es[i].val>> ELSE <<>>]
<1>1. DOMAIN es = 1 .. Len(es) /\ Len(es) \in Nat /\ \A i \in 1 .. Len(es) : es[i] \in Entries3
  OBVIOUS
<1>2. ASSUME NEW i \in 1 .. Len(es)
      PROVE  (IF es[i].sec = Blank /\ es[i].key = key THEN <<es[i].val>> ELSE <<>>) \in Seq(Text)
  <2>1. es[i].val \in Text
    BY <1>1 DEF Entries3
  <2> QED
    BY <2>1
<1>3. ss \in Seq(Seq(Text))
  BY <1>1, <1>2
<1>4. Listed(es, key) = FlattenSeq(ss)
  BY DEF Listed
<1> HIDE DEF ss
<1> QED
  BY <1>3, <1>4, FlattenFact

\* The group that the line reader makes of a flow item.
LEMMA FlowGroupFact ==
  ASSUME NEW item \in Item, IsFlow(item)
  PROVE  LET g == FlowGroup(item[1].entries)
         IN /\ g \in GroupShape /\ g.name = NameIn(item) /\ g.all = LineMembers(item)
            /\ g.all = IF Listed(Entries(item), "proxies") # <<>> THEN Listed(Entries(item), "proxies")
                       ELSE Listed(Entries(item), "use")
<1> DEFINE es == item[1].entries
           p == Listed(es, "proxies")
           u == Listed(es, "use")
           all == IF p # <<>> THEN p ELSE u
           now == IF all = <<>> THEN Blank ELSE Head(all)
           g == FlowGroup(es)
<1>1. es \in Seq(Entries3) /\ Entries(item) = es /\ FlowValue(es, "name") = Written(es, "name")
  BY FlowFact
<1>2. p \in Seq(Text) /\ u \in Seq(Text)
  BY <1>1, ListedFact
<1>3. FlowValue(es, "name") \in Text /\ FlowValue(es, "type") \in Text
  BY <1>1, FlowValueFact
<1>4. g = [name |-> FlowValue(es, "name"), type |-> FlowValue(es, "type"), now |-> now, all |-> all]
  BY DEF FlowGroup
<1>5. NameIn(item) = FlowValue(es, "name") /\ LineMembers(item) = g.all
  BY <1>1 DEF NameIn, LineMembers
<1> HIDE DEF p, u, g
<1>6. all \in Seq(Text)
  BY <1>2
<1>7. now \in Text
  <2>1. Blank \in Text
    BY TextAssumption
  <2> HIDE DEF all
  <2>2. all # <<>> => Head(all) \in Text
    BY <1>6
  <2> QED
    BY <2>1, <2>2
<1> HIDE DEF all, now
<1>8. g \in GroupShape /\ g.name = NameIn(item) /\ g.all = LineMembers(item) /\ g.all = all
  BY <1>3, <1>4, <1>5, <1>6, <1>7 DEF GroupShape
<1> QED
  BY <1>1, <1>8 DEF g, all, p, u

-----------------------------------------------------------------------------
(* The members that arrive: where the reader is among the groups *)

\* f[k] are the lines of the first k groups.
GroupLined(f) == Joins(f, doc.groups, LineShape) /\ GroupLines(doc) = f[Len(doc.groups)]

\* The reader has read j lines of a block item.
InGroup(item, j) ==
  /\ group = <<group[1]>> /\ group[1] \in GroupShape
  /\ \E i \in 1 .. Len(item) : NamedOn(item, i) /\ (i <= j => group[1].name = item[i].val)
  /\ ~ Headless(item) =>
       /\ \E h : /\ Joins(h, Vals(item), Text) /\ FlattenSeq(Vals(item)) = h[Len(item)]
                 /\ group[1].all = h[j]
       /\ \A p \in 1 .. j : item[p].kind = "open" /\ item[p].key \in {"proxies", "use"} => members

\* The reader has read j lines of item k.
InsideGroup(f, k, j) ==
  /\ At = ProvidersEnd(doc) + 1 + Len(f[k - 1]) + j
  /\ Handed(out.groups, k - 1)
  /\ IF StrayGroup(k) THEN group = <<>>
     ELSE IF IsFlow(doc.groups[k]) THEN group = WithName(<<FlowGroup(doc.groups[k][1].entries)>>)
     ELSE InGroup(doc.groups[k], j)

ReadsGroups(f) ==
  /\ out.groups \in Seq(GroupShape)
  /\ At <= ProvidersEnd(doc) + 1 => group = <<>> /\ out.groups = <<>>
  /\ At \in ProvidersEnd(doc) + 2 .. GroupsEnd(doc) =>
       \E k \in 1 .. Len(doc.groups) : \E j \in 1 .. Len(doc.groups[k]) : InsideGroup(f, k, j)
  /\ At > GroupsEnd(doc) => group = <<>> /\ Handed(out.groups, Len(doc.groups))

\* All lines of the first k items are read.
CompleteGroups(k) ==
  \/ /\ k = 0 \/ Closed(k)
     /\ group = <<>> /\ Handed(out.groups, k)
  \/ /\ k # 0 /\ ~ Closed(k)
     /\ Handed(out.groups, k - 1)
     /\ group = <<group[1]>> /\ group[1] \in GroupShape /\ group[1].name = NameIn(doc.groups[k])
     /\ ~ Headless(doc.groups[k]) => group[1].all = LineMembers(doc.groups[k])

\* The groups and their lines.
LEMMA GroupLinedFact ==
  ASSUME doc \in Document, NEW f, GroupLined(f)
  PROVE  /\ Len(doc.groups) \in Nat
         /\ \A k \in 1 .. Len(doc.groups) : doc.groups[k] \in GroupItem /\ doc.groups[k] \in Item
         /\ f[0] = <<>>
         /\ \A k \in 1 .. Len(doc.groups) :
              /\ Len(f[k - 1]) \in Nat /\ Len(f[k]) \in Nat
              /\ Len(doc.groups[k]) \in Nat /\ Len(doc.groups[k]) >= 1
              /\ Len(f[k]) = Len(f[k - 1]) + Len(doc.groups[k])
              /\ Len(f[k]) <= Len(GroupLines(doc))
              /\ \A j \in 1 .. Len(doc.groups[k]) : GroupLines(doc)[Len(f[k - 1]) + j] = doc.groups[k][j]
<1> DEFINE items == doc.groups
           all == GroupLines(doc)
<1>1. items \in Seq(GroupItem)
  BY DocumentFact
<1>2. items \in Seq(Item)
  BY <1>1, ItemsFact
<1>3. Joins(f, items, LineShape) /\ all = f[Len(items)]
  BY DEF GroupLined
<1> HIDE DEF items, all
<1>4. \A k \in 1 .. Len(items) : items[k] \in GroupItem
  BY <1>1
<1>5. /\ Len(items) \in Nat /\ \A k \in 1 .. Len(items) : items[k] \in Item
      /\ f[0] = <<>> /\ Len(f[Len(items)]) \in Nat
      /\ \A k \in 1 .. Len(items) :
           /\ Len(f[k - 1]) \in Nat /\ Len(f[k]) \in Nat
           /\ Len(items[k]) \in Nat /\ Len(items[k]) >= 1
           /\ Len(f[k]) = Len(f[k - 1]) + Len(items[k])
           /\ Len(f[k]) <= Len(f[Len(items)])
           /\ \A j \in 1 .. Len(items[k]) : f[Len(items)][Len(f[k - 1]) + j] = items[k][j]
  BY <1>2, <1>3, LinesOfItems
<1>6. /\ Len(items) \in Nat /\ \A k \in 1 .. Len(items) : items[k] \in GroupItem /\ items[k] \in Item
      /\ f[0] = <<>>
      /\ \A k \in 1 .. Len(items) :
           /\ Len(f[k - 1]) \in Nat /\ Len(f[k]) \in Nat
           /\ Len(items[k]) \in Nat /\ Len(items[k]) >= 1
           /\ Len(f[k]) = Len(f[k - 1]) + Len(items[k])
           /\ Len(f[k]) <= Len(all)
           /\ \A j \in 1 .. Len(items[k]) : all[Len(f[k - 1]) + j] = items[k][j]
  BY <1>3, <1>4, <1>5
<1> QED
  BY <1>6 DEF items, all

\* A line in the middle of a block item is read.
LEMMA GroupLine ==
  ASSUME NEW item \in GroupItem, ~ IsFlow(item), NEW j \in 1 .. Len(item), j < Len(item),
         InGroup(item, j), Current = item[j + 1], ReadGroupLine
  PROVE  InGroup(item, j + 1)'
<1> DEFINE l == item[j + 1]
           g == group[1]
<1>1. /\ item \in Item /\ item \in Seq(LineShape) /\ Len(item) \in Nat /\ DOMAIN item = 1 .. Len(item)
      /\ \A i \in 1 .. Len(item) : /\ i > 1 => item[i].kind \in {"key", "open", "item"}
                                   /\ item[i].kind = "item" => Above(item)[i] # 0
  BY ItemsFact, BlockFact
<1>2. j \in Nat /\ j + 1 \in 1 .. Len(item) /\ j + 1 > 1 /\ j = (j + 1) - 1
  BY <1>1
<1>3. l \in LineShape /\ l.kind \in {"key", "open", "item"}
  BY <1>1, <1>2
<1>4. group = <<g>> /\ g \in GroupShape
  BY DEF InGroup
<1>5. PICK i \in 1 .. Len(item) : NamedOn(item, i) /\ (i <= j => g.name = item[i].val)
  BY DEF InGroup
<1>7. ~ Headless(item) => \A p \in 1 .. j : item[p].kind = "open" /\ item[p].key \in {"proxies", "use"} => members
  BY DEF InGroup
<1>8. l.val \in Text /\ g.all \in Seq(Text)
  BY <1>3, <1>4 DEF LineShape, GroupShape
<1> DEFINE lists == l.kind = "open" /\ l.key \in {"proxies", "use"}
           named == l.kind = "key" /\ l.key \in {"name", "type"}
<1>9. /\ group' = IF named /\ l.key = "name" THEN <<[g EXCEPT !.name = l.val]>>
                  ELSE IF named THEN <<[g EXCEPT !.type = l.val]>>
                  ELSE IF l.kind = "item" /\ members
                  THEN <<[g EXCEPT !.all = Append(@, l.val), !.now = IF @ = Blank THEN l.val ELSE @]>>
                  ELSE group
      /\ members' = (lists \/ members)
  BY <1>3 DEF ReadGroupLine
<1>10. ~ Headless(item) /\ l.kind = "item" => members
  <2>1. SUFFICES ASSUME ~ Headless(item), l.kind = "item" PROVE members
    OBVIOUS
  <2> DEFINE a == Above(item)[j + 1]
  <2>2. a \in 0 .. (j + 1) - 1 /\ (a # 0 => item[a].kind = "open")
    BY <1>1, <1>2, AboveFact
  <2>3. a # 0 /\ item[a].key \in {"proxies", "use"}
    BY <1>1, <1>2, <2>1 DEF GroupItem
  <2> HIDE DEF a
  <2>4. a \in 1 .. j
    BY <1>2, <2>2, <2>3
  <2> QED
    BY <1>7, <2>1, <2>2, <2>3, <2>4
<1>11. /\ i = j + 1 => l.kind = "key" /\ l.key = "name" /\ l.val = item[i].val
       /\ i # j + 1 => l.key # "name"
  BY <1>2, <1>3, <1>5, NotBlank DEF NamedOn
<1>12. (i = j + 1 => i <= j + 1) /\ (i # j + 1 => (i <= j <=> i <= j + 1))
  BY <1>2
<1>13. ~ Headless(item) =>
         \A p \in 1 .. j + 1 : item[p].kind = "open" /\ item[p].key \in {"proxies", "use"} => members'
  <2>1. \A p \in 1 .. j + 1 : p \in 1 .. j \/ p = j + 1
    BY <1>2
  <2> HIDE DEF l
  <2> QED
    BY <1>7, <1>9, <2>1 DEF l
<1>14. ASSUME NEW h, Joins(h, Vals(item), Text), g.all = h[j]
       PROVE  h[j + 1] = IF l.kind = "item" THEN Append(g.all, l.val) ELSE g.all
  <2>1. Vals(item)[j + 1] = (IF l.kind = "item" THEN <<l.val>> ELSE <<>>) /\ Len(Vals(item)) = Len(item)
    BY <1>1, <1>2, ValsFact
  <2>2. h[j + 1] = h[(j + 1) - 1] \o Vals(item)[j + 1]
    BY <1>2, <1>14, <2>1 DEF Joins
  <2>3. h[j + 1] = g.all \o Vals(item)[j + 1]
    BY <1>2, <1>14, <2>2
  <2>4. g.all \o <<>> = g.all
    BY <1>8
  <2>5. Append(g.all, l.val) = g.all \o <<l.val>>
    BY <1>8, AppendOne
  <2> HIDE DEF l, g
  <2> QED
    BY <2>1, <2>3, <2>4, <2>5
<1> HIDE DEF l, g
\* What becomes of the group.
<1>15. SUFFICES ASSUME NEW n, group' = <<n>>, n \in GroupShape,
                       n.name = (IF i = j + 1 THEN l.val ELSE g.name),
                       ~ Headless(item) =>
                         n.all = (IF l.kind = "item" THEN Append(g.all, l.val) ELSE g.all)
                PROVE  InGroup(item, j + 1)'
  <2>1. CASE l.kind = "key" /\ l.key = "name"
    <3> DEFINE n == [g EXCEPT !.name = l.val]
    <3>1. group' = <<n>>
      BY <1>9, <2>1
    <3>2. n \in GroupShape /\ n.name = l.val /\ n.all = g.all
      BY <1>4, <1>8 DEF GroupShape
    <3>3. i = j + 1 /\ l.kind # "item"
      BY <1>11, <2>1
    <3> QED
      BY <1>15, <3>1, <3>2, <3>3
  <2>2. CASE l.kind = "key" /\ l.key = "type"
    <3> DEFINE n == [g EXCEPT !.type = l.val]
    <3>1. group' = <<n>>
      BY <1>9, <2>2
    <3>2. n \in GroupShape /\ n.name = g.name /\ n.all = g.all
      BY <1>4, <1>8 DEF GroupShape
    <3>3. i # j + 1 /\ l.kind # "item"
      BY <1>11, <2>2
    <3> QED
      BY <1>15, <3>1, <3>2, <3>3
  <2>3. CASE l.kind = "item" /\ members
    <3> DEFINE n == [g EXCEPT !.all = Append(@, l.val), !.now = IF @ = Blank THEN l.val ELSE @]
    <3>1. group' = <<n>>
      BY <1>9, <2>3
    <3>2. Append(g.all, l.val) \in Seq(Text)
      BY <1>8
    <3>3. n \in GroupShape /\ n.name = g.name /\ n.all = Append(g.all, l.val)
      BY <1>4, <1>8, <3>2 DEF GroupShape
    <3>4. i # j + 1
      BY <1>11, <2>3
    <3> QED
      BY <1>15, <2>3, <3>1, <3>3, <3>4
  <2>4. CASE ~ (l.kind = "item" /\ members) /\ ~ (l.kind = "key" /\ l.key \in {"name", "type"})
    <3>1. group' = <<g>>
      BY <1>4, <1>9, <2>4
    <3>2. i # j + 1 /\ (~ Headless(item) => l.kind # "item")
      BY <1>10, <1>11, <2>4
    <3> QED
      BY <1>4, <1>15, <3>1, <3>2
  <2> QED
    BY <2>1, <2>2, <2>3, <2>4
<1>16. group' = <<group'[1]>> /\ group'[1] = n
  BY <1>15
<1>17. i <= j + 1 => n.name = item[i].val
  BY <1>5, <1>11, <1>12, <1>15
<1>18. ~ Headless(item) => \E h : /\ Joins(h, Vals(item), Text) /\ FlattenSeq(Vals(item)) = h[Len(item)]
                                  /\ n.all = h[j + 1]
  <2>1. SUFFICES ASSUME ~ Headless(item)
                 PROVE  \E h : /\ Joins(h, Vals(item), Text) /\ FlattenSeq(Vals(item)) = h[Len(item)]
                               /\ n.all = h[j + 1]
    OBVIOUS
  <2>2. PICK h : /\ Joins(h, Vals(item), Text) /\ FlattenSeq(Vals(item)) = h[Len(item)]
                 /\ g.all = h[j]
    BY <2>1 DEF InGroup, g
  <2>3. n.all = h[j + 1]
    BY <1>14, <1>15, <2>1, <2>2
  <2> QED
    BY <2>2, <2>3
<1> QED
  BY <1>5, <1>13, <1>15, <1>16, <1>17, <1>18 DEF InGroup

\* The line that is read in the section of the groups.
LEMMA LineOfGroups ==
  ASSUME doc \in Document, GroupStep, NEW m \in Nat, At = ProvidersEnd(doc) + m
  PROVE  Current = GroupLines(doc)[m] /\ (ReadNewGroup \/ ReadGroupLine \/ ReadStray) /\ section = "proxy-groups"
<1>1. PICK k \in 1 .. Len(GroupLines(doc)) :
        /\ At = ProvidersEnd(doc) + k
        /\ Current = GroupLines(doc)[k] /\ section = "proxy-groups"
        /\ ReadNewGroup \/ ReadGroupLine \/ ReadStray
  BY DEF GroupStep
<1>2. ProvidersEnd(doc) \in Nat /\ k \in Nat
  BY EndsFact
<1>3. k = m
  <2> DEFINE P == ProvidersEnd(doc)
  <2>1. P \in Nat /\ P + k = P + m
    BY <1>1, <1>2
  <2> HIDE DEF P
  <2> QED
    BY <1>2, <2>1
<1> QED
  BY <1>1, <1>3

\* What is open is handed over, if no item follows that takes its place.
LEMMA HandedOver ==
  ASSUME doc \in Document, out.groups \in Seq(GroupShape),
         NEW k \in 0 .. Len(doc.groups), CompleteGroups(k),
         ~ (k + 1 \in 1 .. Len(doc.groups) /\ Headless(doc.groups[k + 1]))
  PROVE  /\ WithName(group) \in Seq(GroupShape)
         /\ out.groups \o WithName(group) \in Seq(GroupShape)
         /\ Handed(out.groups \o WithName(group), k)
<1>1. CASE group = <<>> /\ Handed(out.groups, k)
  <2>1. WithName(group) = <<>> /\ <<>> \in Seq(GroupShape)
    BY <1>1, NamedGroup, BriefsFact
  <2>2. out.groups \o <<>> = out.groups
    OBVIOUS
  <2> QED
    BY <1>1, <2>1, <2>2
<1>2. CASE /\ k # 0 /\ ~ Closed(k)
           /\ Handed(out.groups, k - 1)
           /\ group = <<group[1]>> /\ group[1] \in GroupShape /\ group[1].name = NameIn(doc.groups[k])
           /\ ~ Headless(doc.groups[k]) => group[1].all = LineMembers(doc.groups[k])
  <2> DEFINE g == group[1]
  <2>1. k \in 1 .. Len(doc.groups) /\ k \in Nat \ {0}
    BY <1>2
  <2>2. k \notin LostGroups(doc.groups)
    <3>1. ~ StrayGroup(k)
      BY <1>2 DEF Closed
    <3> QED
      BY <2>1, <3>1, StrayGroupFact
  <2>3. /\ Handed(out.groups, k - 1) /\ g \in GroupShape /\ g.name = NameIn(doc.groups[k])
        /\ ~ Headless(doc.groups[k]) => g.all = LineMembers(doc.groups[k])
    BY <1>2
  <2>4. group = <<g>>
    BY <1>2
  <2> HIDE DEF g
  <2>5. Handed(out.groups \o WithName(<<g>>), k)
    BY <2>1, <2>2, <2>3, HandedNext
  <2>6. WithName(<<g>>) \in Seq(GroupShape)
    BY <2>3, NamedGroup, BriefsFact
  <2>7. out.groups \o WithName(<<g>>) \in Seq(GroupShape)
    BY <2>6, BriefsFact
  <2> QED
    BY <2>4, <2>5, <2>6, <2>7
<1> QED
  BY <1>1, <1>2 DEF CompleteGroups

\* The last line of an item is read.
LEMMA GroupEnds ==
  ASSUME doc \in Document, NEW f, GroupLined(f), NEW k \in 1 .. Len(doc.groups),
         InsideGroup(f, k, Len(doc.groups[k]))
  PROVE  At = ProvidersEnd(doc) + 1 + Len(f[k]) /\ CompleteGroups(k)
<1> DEFINE item == doc.groups[k]
<1>1. /\ item \in Item /\ Len(item) \in Nat /\ Len(f[k - 1]) \in Nat
      /\ Len(f[k]) = Len(f[k - 1]) + Len(item)
  BY GroupLinedFact
<1>2. At = ProvidersEnd(doc) + 1 + Len(f[k])
  <2> DEFINE p == ProvidersEnd(doc)
             x == Len(f[k - 1])
             y == Len(item)
             z == Len(f[k])
  <2>1. p \in Nat /\ x \in Nat /\ y \in Nat /\ z = x + y /\ At = p + 1 + x + y
    BY <1>1, EndsFact DEF InsideGroup
  <2> HIDE DEF p, x, y, z
  <2>2. At = p + 1 + z
    BY <2>1
  <2> QED
    BY <2>2 DEF p, z
<1>3. Handed(out.groups, k - 1) /\ k \in Nat \ {0}
  BY DEF InsideGroup
<1>4. SUFFICES CompleteGroups(k)
  BY <1>2
<1>5. CASE StrayGroup(k)
  <2>1. k \in LostGroups(doc.groups)
    BY <1>5, StrayGroupFact
  <2>2. Handed(out.groups, k)
    BY <1>3, <2>1, HandedSkip
  <2>3. group = <<>>
    BY <1>5 DEF InsideGroup
  <2> QED
    BY <1>5, <2>2, <2>3 DEF CompleteGroups, Closed
<1>6. ASSUME NEW g, g \in GroupShape, g.name = NameIn(item), ~ Headless(item) => g.all = LineMembers(item),
             group = <<g>>, ~ Closed(k)
      PROVE  CompleteGroups(k)
  <2>1. group = <<group[1]>> /\ group[1] = g
    BY <1>6
  <2> QED
    BY <1>3, <1>6, <2>1 DEF CompleteGroups
<1>7. CASE ~ StrayGroup(k) /\ IsFlow(item)
  <2> DEFINE g == FlowGroup(item[1].entries)
  <2>1. g \in GroupShape /\ g.name = NameIn(item) /\ g.all = LineMembers(item)
    BY <1>1, <1>7, FlowGroupFact
  <2>2. group = WithName(<<g>>)
    BY <1>7 DEF InsideGroup
  <2> HIDE DEF g
  <2>3. CASE NameIn(item) = Blank
    <3>1. group = <<>>
      BY <2>1, <2>2, <2>3, NamedGroup
    <3>2. Handed(out.groups, k)
      BY <1>3, <2>3, HandedSkip
    <3> QED
      BY <1>7, <2>3, <3>1, <3>2 DEF CompleteGroups, Closed
  <2>4. CASE NameIn(item) # Blank
    <3>1. group = <<g>>
      BY <2>1, <2>2, <2>4, NamedGroup
    <3>2. ~ Closed(k)
      BY <1>7, <2>4 DEF Closed
    <3> QED
      BY <1>6, <2>1, <3>1, <3>2
  <2> QED
    BY <2>3, <2>4
<1>8. CASE ~ StrayGroup(k) /\ ~ IsFlow(item)
  <2> DEFINE g == group[1]
  <2>1. InGroup(item, Len(item))
    BY <1>8 DEF InsideGroup
  <2>2. group = <<g>> /\ g \in GroupShape
    BY <2>1 DEF InGroup
  <2>3. PICK i \in 1 .. Len(item) : NamedOn(item, i) /\ (i <= Len(item) => g.name = item[i].val)
    BY <2>1 DEF InGroup
  <2>4. item[i].val = NameIn(item)
    BY <1>1, <1>8, <2>3, BlockName DEF NameIn
  <2>5. g.name = NameIn(item)
    <3>1. i <= Len(item)
      BY <1>1
    <3> QED
      BY <2>3, <2>4, <3>1
  <2>6. ~ Headless(item) => g.all = LineMembers(item)
    BY <1>8, <2>1 DEF InGroup, LineMembers
  <2>7. ~ Closed(k)
    BY <1>8 DEF Closed
  <2> HIDE DEF g, item
  <2> QED
    BY <1>6, <2>2, <2>5, <2>6, <2>7
<1> QED
  BY <1>5, <1>7, <1>8

\* The first line of an item is read.
LEMMA NewGroupItem ==
  ASSUME ReaderInv, LineStep, GroupStep, IsResult(out), out.groups \in Seq(GroupShape),
         NEW f, GroupLined(f), NEW k \in 1 .. Len(doc.groups),
         At = ProvidersEnd(doc) + 1 + Len(f[k - 1]), CompleteGroups(k - 1)
  PROVE  out'.groups \in Seq(GroupShape) /\ InsideGroup(f, k, 1)'
<1> DEFINE item == doc.groups[k]
           p == ProvidersEnd(doc)
           x == Len(f[k - 1])
<1>1. doc \in Document /\ doc' = doc /\ At' = At + 1
  BY DEF ReaderInv, LineStep
<1>2. /\ item \in Item /\ x \in Nat /\ Len(item) \in Nat /\ Len(item) >= 1
      /\ \A j \in 1 .. Len(item) : GroupLines(doc)[x + j] = item[j]
  BY <1>1, GroupLinedFact
<1>3. p \in Nat
  BY <1>1, EndsFact
<1>4. At = p + (x + 1) /\ At' = p + 1 + x + 1 /\ x + 1 \in Nat
  <2>1. At = p + 1 + x
    OBVIOUS
  <2>2. x \in Nat /\ At' = At + 1
    BY <1>1, <1>2
  <2> HIDE DEF p, x
  <2> QED
    BY <1>3, <2>1, <2>2
<1>5. Current = item[1] /\ section = "proxy-groups" /\ (ReadNewGroup \/ ReadGroupLine \/ ReadStray)
  <2>1. 1 \in 1 .. Len(item)
    BY <1>2
  <2>2. GroupLines(doc)[x + 1] = item[1]
    BY <1>2, <2>1
  <2> HIDE DEF item, x
  <2> QED
    BY <1>1, <1>4, <2>2, LineOfGroups
<1>12. At' = ProvidersEnd(doc') + 1 + Len(f[k - 1]) + 1
  BY <1>1, <1>4
<1>15. StrayGroup(k)' = StrayGroup(k) /\ doc.groups' = doc.groups
  BY <1>1 DEF StrayGroup
<1>11. ASSUME Handed(out'.groups, k - 1) PROVE Handed(out.groups, k - 1)'
  BY <1>1, <1>11 DEF Handed, Briefs
<1>16. CASE Headless(item)
  <2>1. PICK m \in 0 .. Len(doc.groups) : m = k - 1
    <3>1. Len(doc.groups) \in Nat
      BY <1>1, GroupLinedFact
    <3> QED
      BY <3>1
  <2>2. CompleteGroups(m) /\ (StrayGroup(k) <=> k = 1 \/ (m \in 1 .. Len(doc.groups) /\ Closed(m)))
    BY <1>1, <1>16, <2>1, StrayGroupFact
  <2>3. Current.kind = "first" /\ ~ IsFlow(item)
    BY <1>5, <1>16 DEF Headless, IsFlow
  <2>4. ReadGroupLine \/ ReadStray
    BY <1>5, <2>3 DEF ReadNewGroup, Reading
  <2>5. out' = out
    BY <1>1, <2>4, AddedFact
  <2>6. m = 0 \/ m \in 1 .. Len(doc.groups)
    BY <2>1
  <2>7. k \in Nat /\ (k = 1 <=> m = 0) /\ m + 1 = k
    BY <2>1
  <2>8. CASE StrayGroup(k)
    <3>1. group = <<>> /\ Handed(out.groups, m)
      BY <2>2, <2>6, <2>7, <2>8 DEF CompleteGroups
    <3>2. ReadStray
      BY <2>4, <3>1 DEF ReadGroupLine
    <3>3. group' = <<>>
      BY <3>1, <3>2 DEF ReadStray
    <3>4. Handed(out.groups, k - 1)'
      BY <1>11, <2>1, <2>5, <3>1
    <3> QED
      BY <1>12, <1>15, <2>5, <2>8, <3>3, <3>4 DEF InsideGroup
  <2>9. CASE ~ StrayGroup(k)
    <3>1. m \in 1 .. Len(doc.groups) /\ ~ Closed(m) /\ m # 0
      BY <2>2, <2>6, <2>7, <2>9
    <3>2. Handed(out.groups, m - 1) /\ group = <<group[1]>> /\ group[1] \in GroupShape
      BY <2>2, <3>1 DEF CompleteGroups
    <3>3. Handed(out.groups, m)
      <4>1. m \in LostGroups(doc.groups)
        BY <1>1, <1>16, <2>7, <3>1, StrayGroupFact
      <4>2. m \in Nat \ {0}
        BY <3>1
      <4> QED
        BY <3>2, <4>1, <4>2, HandedSkip
    <3>4. group # <<>>
      <4>1. group = <<group[1]>>
        BY <3>2
      <4> QED
        BY <4>1, NotNone
    <3>5. ReadGroupLine
      BY <1>5, <2>3, <2>4, <3>4 DEF ReadStray
    <3> DEFINE g == group[1]
               one == Current
               n == [g EXCEPT !.all = Append(@, one.val), !.now = IF @ = Blank THEN one.val ELSE @]
    <3>6. group' = IF members THEN <<n>> ELSE group
      BY <2>3, <3>5 DEF ReadGroupLine
    <3>7. one.val \in Text
      <4>1. item \in Seq(LineShape) /\ 1 \in 1 .. Len(item)
        BY <1>2, <2>3, BlockFact
      <4>2. item[1] \in LineShape
        BY <4>1
      <4> QED
        BY <1>5, <4>2 DEF LineShape
    <3>8. n \in GroupShape
      <4>1. g \in GroupShape /\ g.all \in Seq(Text)
        BY <3>2 DEF GroupShape
      <4> HIDE DEF g, one
      <4>2. Append(g.all, one.val) \in Seq(Text)
        BY <3>7, <4>1
      <4> QED
        BY <3>7, <4>1, <4>2 DEF GroupShape
    <3>9. group = <<g>> /\ g \in GroupShape
      BY <3>2
    <3> HIDE DEF n, g, one
    <3>10. group' = <<group'[1]>> /\ group'[1] \in GroupShape
      BY <3>6, <3>8, <3>9
    <3>11. PICK i \in 1 .. Len(item) : NamedOn(item, i)
      BY <1>2, <2>3, BlockFact
    <3>12. ~ i <= 1
      <4>1. i # 1
        BY <1>16, <3>11 DEF NamedOn, Headless
      <4> QED
        BY <1>2, <4>1
    <3>13. InGroup(item, 1)'
      <4>1. \E h \in 1 .. Len(item) : NamedOn(item, h) /\ (h <= 1 => group'[1].name = item[h].val)
        BY <3>11, <3>12
      <4> QED
        BY <1>15, <1>16, <3>10, <4>1 DEF InGroup
    <3>14. Handed(out.groups, k - 1)'
      BY <1>11, <2>1, <2>5, <3>3
    <3> QED
      BY <1>12, <1>15, <2>3, <2>5, <2>9, <3>13, <3>14 DEF InsideGroup
  <2> QED
    BY <2>8, <2>9
<1>17. SUFFICES ASSUME ~ Headless(item) PROVE out'.groups \in Seq(GroupShape) /\ InsideGroup(f, k, 1)'
  BY <1>16
<1>6. Current.kind \in {"flow", "dash", "name"} /\ (IsFlow(item) <=> Current.kind = "flow")
  <2>1. CASE IsFlow(item)
    BY <1>5, <2>1 DEF IsFlow
  <2>2. CASE ~ IsFlow(item)
    BY <1>2, <1>5, <1>17, <2>2, BlockFact DEF IsFlow
  <2> QED
    BY <2>1, <2>2
<1>7. ReadNewGroup
  BY <1>5, <1>6 DEF ReadGroupLine, ReadStray, Reading
<1>8. out'.groups = out.groups \o WithName(group)
  BY <1>1, <1>7, AddedFact
<1>9. out'.groups \in Seq(GroupShape) /\ Handed(out.groups, k - 1)'
  <2>1. PICK m \in 0 .. Len(doc.groups) : m = k - 1
    <3>1. Len(doc.groups) \in Nat
      BY <1>1, GroupLinedFact
    <3> QED
      BY <3>1
  <2>2. m + 1 = k /\ CompleteGroups(m)
    BY <2>1
  <2>3. out'.groups \in Seq(GroupShape) /\ Handed(out'.groups, m)
    BY <1>1, <1>8, <1>17, <2>2, HandedOver
  <2> QED
    BY <1>11, <2>1, <2>3
<1>10. /\ group' = IF Current.kind = "flow" THEN WithName(<<FlowGroup(Current.entries)>>)
                   ELSE <<BlockGroup(IF Current.kind = "name" THEN Current.val ELSE Blank)>>
       /\ members' = FALSE
  BY <1>7 DEF ReadNewGroup
<1>18. ~ StrayGroup(k)
  BY <1>1, <1>17, StrayGroupFact
<1>13. CASE IsFlow(item)
  <2>1. group' = WithName(<<FlowGroup(item[1].entries)>>)
    BY <1>5, <1>6, <1>10, <1>13
  <2> QED
    BY <1>9, <1>12, <1>13, <1>15, <1>18, <2>1 DEF InsideGroup
<1>14. CASE ~ IsFlow(item)
  <2> DEFINE v == IF item[1].kind = "name" THEN item[1].val ELSE Blank
             g == BlockGroup(v)
  <2>1. /\ item \in Seq(LineShape) /\ item[1].kind \in {"dash", "name"} /\ DOMAIN item = 1 .. Len(item)
        /\ \E i \in 1 .. Len(item) : NamedOn(item, i)
    BY <1>2, <1>14, <1>17, BlockFact
  <2>2. group' = <<g>>
    BY <1>5, <1>6, <1>10, <1>14
  <2>3. g \in GroupShape /\ g.name = v /\ g.all = <<>>
    <3>1. v \in Text
      <4>1. item[1] \in LineShape
        BY <1>2, <2>1
      <4> QED
        BY <4>1, TextAssumption DEF LineShape
    <3>2. Blank \in Text /\ "select" \in Text /\ <<>> \in Seq(Text)
      BY TextAssumption
    <3> HIDE DEF v
    <3> QED
      BY <3>1, <3>2 DEF BlockGroup, GroupShape
  <2>4. PICK i \in 1 .. Len(item) : NamedOn(item, i)
    BY <2>1
  <2>5. i <= 1 => v = item[i].val
    <3>1. i <= 1 <=> i = 1
      BY <1>2
    <3>2. i = 1 => item[1].kind = "name"
      BY <2>1, <2>4 DEF NamedOn
    <3> QED
      BY <3>1, <3>2
  <2> HIDE DEF g, v
  <2>6. group' = <<group'[1]>> /\ group'[1] = g
    BY <2>2
  <2>7. \A q \in 1 .. 1 : ~ (item[q].kind = "open" /\ item[q].key \in {"proxies", "use"})
    <3>1. \A q \in 1 .. 1 : q = 1
      OBVIOUS
    <3> QED
      BY <2>1, <3>1
  <2>8. /\ Vals(item) \in Seq(Seq(Text)) /\ Len(Vals(item)) = Len(item)
        /\ \A q \in 1 .. Len(item) : Vals(item)[q] = IF item[q].kind = "item" THEN <<item[q].val>> ELSE <<>>
    BY <2>1, ValsFact
  <2>9. PICK h : Joins(h, Vals(item), Text) /\ FlattenSeq(Vals(item)) = h[Len(item)]
    BY <2>8, FlattenRecursion
  <2>10. h[1] = <<>>
    <3>1. 1 \in 1 .. Len(item) /\ 1 - 1 = 0
      BY <1>2
    <3>2. Vals(item)[1] = <<>>
      BY <2>1, <2>8, <3>1
    <3>3. h[0] = <<>> /\ h[1] = h[0] \o Vals(item)[1]
      BY <2>8, <2>9, <3>1 DEF Joins
    <3> QED
      BY <3>2, <3>3
  <2>11. InGroup(item, 1)'
    <3>1. doc.groups' = doc.groups
      BY <1>1
    <3>2. \E q \in 1 .. Len(item) : NamedOn(item, q) /\ (q <= 1 => group'[1].name = item[q].val)
      BY <2>3, <2>4, <2>5, <2>6
    <3>3. \E q : /\ Joins(q, Vals(item), Text) /\ FlattenSeq(Vals(item)) = q[Len(item)]
                 /\ group'[1].all = q[1]
      BY <2>3, <2>6, <2>9, <2>10
    <3>4. group'[1] \in GroupShape
      BY <2>3, <2>6
    <3> QED
      BY <1>1, <2>6, <2>7, <3>2, <3>3, <3>4 DEF InGroup
  <2> QED
    BY <1>9, <1>12, <1>14, <1>15, <1>18, <2>11 DEF InsideGroup
<1> QED
  BY <1>9, <1>13, <1>14

\* A line in the middle of an item is read.
LEMMA NextGroupLine ==
  ASSUME ReaderInv, LineStep, GroupStep, NEW f, GroupLined(f),
         NEW k \in 1 .. Len(doc.groups), NEW j \in 1 .. Len(doc.groups[k]),
         j < Len(doc.groups[k]), InsideGroup(f, k, j)
  PROVE  out' = out /\ j + 1 \in 1 .. Len(doc.groups[k]) /\ InsideGroup(f, k, j + 1)'
<1> DEFINE item == doc.groups[k]
           p == ProvidersEnd(doc)
           x == Len(f[k - 1])
<1>1. doc \in Document /\ doc' = doc /\ At' = At + 1
  BY DEF ReaderInv, LineStep
<1>2. /\ item \in GroupItem /\ item \in Item /\ x \in Nat /\ Len(item) \in Nat
      /\ \A m \in 1 .. Len(item) : GroupLines(doc)[x + m] = item[m]
  BY <1>1, GroupLinedFact
<1>3. ~ IsFlow(item)
  <2>1. IsFlow(item) => Len(item) = 1
    BY <1>2, FlowFact
  <2> QED
    BY <1>2, <2>1
<1>4. /\ At = p + 1 + x + j /\ Handed(out.groups, k - 1)
      /\ IF StrayGroup(k) THEN group = <<>> ELSE InGroup(item, j)
  BY <1>3 DEF InsideGroup
<1>5. j + 1 \in 1 .. Len(item) /\ j + 1 > 1
  BY <1>2
<1>6. At = p + (x + (j + 1)) /\ At' = p + 1 + x + (j + 1) /\ x + (j + 1) \in Nat
  <2>1. p \in Nat
    BY <1>1, EndsFact
  <2>2. j \in Nat
    BY <1>2
  <2> HIDE DEF p, x
  <2> QED
    BY <1>1, <1>2, <1>4, <2>1, <2>2
<1>7. Current = item[j + 1] /\ (ReadNewGroup \/ ReadGroupLine \/ ReadStray) /\ section = "proxy-groups"
  <2>1. GroupLines(doc)[x + (j + 1)] = item[j + 1]
    BY <1>2, <1>5
  <2> HIDE DEF item, x
  <2> QED
    BY <1>1, <1>6, <2>1, LineOfGroups
<1>8. item[j + 1].kind \in {"key", "open", "item"}
  BY <1>2, <1>3, <1>5, BlockFact
<1>9. ReadGroupLine \/ ReadStray
  BY <1>7, <1>8 DEF ReadNewGroup, Reading
<1>10. out' = out
  BY <1>9 DEF ReadGroupLine, ReadStray
<1>11. StrayGroup(k)' = StrayGroup(k) /\ Handed(out.groups, k - 1)'
  BY <1>1, <1>4, <1>10 DEF StrayGroup, Handed, Briefs
<1>12. At' = ProvidersEnd(doc') + 1 + Len(f[k - 1]) + (j + 1)
  BY <1>1, <1>6
<1>13. CASE StrayGroup(k)
  <2>1. ReadStray
    BY <1>4, <1>9, <1>13 DEF ReadGroupLine
  <2>2. group' = <<>>
    BY <1>4, <1>13, <2>1 DEF ReadStray
  <2> QED
    BY <1>5, <1>10, <1>11, <1>12, <1>13, <2>2 DEF InsideGroup
<1>14. CASE ~ StrayGroup(k)
  <2>1. group # <<>>
    <3>1. group = <<group[1]>>
      BY <1>4, <1>14 DEF InGroup
    <3> QED
      BY <3>1, NotNone
  <2>2. ReadGroupLine
    BY <1>7, <1>8, <1>9, <2>1 DEF ReadStray
  <2> HIDE DEF item
  <2>3. InGroup(item, j + 1)'
    <3>1. j \in 1 .. Len(item) /\ j < Len(item)
      BY DEF item
    <3>2. item' = item
      BY <1>1 DEF item
    <3> QED
      BY <1>2, <1>3, <1>4, <1>7, <1>14, <2>2, <3>1, <3>2, GroupLine
  <2> QED
    BY <1>1, <1>3, <1>5, <1>10, <1>11, <1>12, <1>14, <2>3 DEF InsideGroup, item
<1> QED
  BY <1>13, <1>14

\* The reader is between two groups, or in the middle of one.
LEMMA GroupPosition ==
  ASSUME doc \in Document, NEW f, GroupLined(f), ReadsGroups(f),
         At \in ProvidersEnd(doc) + 1 .. GroupsEnd(doc)
  PROVE  \/ \E k \in 0 .. Len(doc.groups) : At = ProvidersEnd(doc) + 1 + Len(f[k]) /\ CompleteGroups(k)
         \/ \E k \in 1 .. Len(doc.groups) : \E j \in 1 .. Len(doc.groups[k]) :
              j < Len(doc.groups[k]) /\ InsideGroup(f, k, j)
<1> DEFINE P == ProvidersEnd(doc)
<1>1. P \in Nat /\ Len(doc.groups) \in Nat /\ f[0] = <<>>
  BY EndsFact, GroupLinedFact
<1>2. CASE At = P + 1
  <2>1. group = <<>> /\ out.groups = <<>>
    <3>1. At <= P + 1
      <4> HIDE DEF P
      <4> QED
        BY <1>1, <1>2
    <3> QED
      BY <3>1 DEF ReadsGroups
  <2>2. CompleteGroups(0)
    BY <2>1, HandedNone DEF CompleteGroups
  <2>3. At = P + 1 + Len(f[0])
    <3>1. Len(f[0]) = 0
      BY <1>1
    <3> HIDE DEF P
    <3> QED
      BY <1>1, <1>2, <3>1
  <2>4. 0 \in 0 .. Len(doc.groups)
    BY <1>1
  <2> QED
    BY <2>2, <2>3, <2>4
<1>3. CASE At # P + 1
  <2>1. At \in P + 2 .. GroupsEnd(doc)
    <3>1. At \in P + 1 .. GroupsEnd(doc) /\ GroupsEnd(doc) \in Nat
      BY EndsFact
    <3> HIDE DEF P
    <3> QED
      BY <1>1, <1>3, <3>1
  <2>2. PICK k \in 1 .. Len(doc.groups) : \E j \in 1 .. Len(doc.groups[k]) : InsideGroup(f, k, j)
    BY <2>1 DEF ReadsGroups
  <2>3. PICK j \in 1 .. Len(doc.groups[k]) : InsideGroup(f, k, j)
    BY <2>2
  <2>4. CASE j = Len(doc.groups[k])
    <3>1. At = P + 1 + Len(f[k]) /\ CompleteGroups(k)
      BY <2>3, <2>4, GroupEnds
    <3>2. k \in 0 .. Len(doc.groups)
      BY <1>1
    <3> QED
      BY <3>1, <3>2
  <2>5. j < Len(doc.groups[k]) \/ j = Len(doc.groups[k])
    <3>1. Len(doc.groups[k]) \in Nat
      BY GroupLinedFact
    <3> QED
      BY <3>1
  <2> QED
    BY <2>3, <2>4, <2>5
<1> QED
  BY <1>2, <1>3

\* At the end of the section all groups are read.
LEMMA AllGroupsRead ==
  ASSUME doc \in Document, NEW f, GroupLined(f), ReadsGroups(f), At = GroupsEnd(doc)
  PROVE  CompleteGroups(Len(doc.groups))
<1> DEFINE N == Len(doc.groups)
           L == Len(GroupLines(doc))
           P == ProvidersEnd(doc)
<1>1. L \in Nat /\ N \in Nat /\ P \in Nat
  BY EndsFact, GroupLinedFact
<1>2. At = P + 1 + L
  BY EndsFact
<1>3. At \in P + 1 .. GroupsEnd(doc)
  <2>1. At = GroupsEnd(doc)
    OBVIOUS
  <2> HIDE DEF P, L
  <2> QED
    BY <1>1, <1>2, <2>1
<1>4. ASSUME NEW k \in 0 .. N, At = P + 1 + Len(f[k]), CompleteGroups(k) PROVE k = N
  <2>1. SUFFICES ASSUME k # N PROVE FALSE
    OBVIOUS
  <2>2. PICK m \in 1 .. N : m - 1 = k
    <3>1. k + 1 \in 1 .. N /\ (k + 1) - 1 = k
      BY <1>1, <2>1
    <3> QED
      BY <3>1
  <2> DEFINE a == Len(f[m - 1])
             b == Len(doc.groups[m])
             c == Len(f[m])
  <2>3. a \in Nat /\ b \in Nat /\ b >= 1 /\ c = a + b /\ c <= L
    BY GroupLinedFact
  <2>4. At = P + 1 + a
    BY <1>4, <2>2
  <2> HIDE DEF L, P, a, b, c
  <2> QED
    BY <1>1, <1>2, <2>3, <2>4
<1>5. ASSUME NEW k \in 1 .. N, NEW j \in 1 .. Len(doc.groups[k]),
             j < Len(doc.groups[k]), InsideGroup(f, k, j)
      PROVE  FALSE
  <2> DEFINE a == Len(f[k - 1])
             b == Len(doc.groups[k])
             c == Len(f[k])
  <2>1. a \in Nat /\ b \in Nat /\ c = a + b /\ c <= L
    BY GroupLinedFact
  <2>2. At = P + 1 + a + j
    BY <1>5 DEF InsideGroup
  <2>3. j < b /\ j \in Nat
    BY <1>5
  <2> HIDE DEF L, P, a, b, c
  <2> QED
    BY <1>1, <1>2, <2>1, <2>2, <2>3
<1> HIDE DEF N
<1>6. \/ \E k \in 0 .. N : At = P + 1 + Len(f[k]) /\ CompleteGroups(k)
      \/ \E k \in 1 .. N : \E j \in 1 .. Len(doc.groups[k]) :
           j < Len(doc.groups[k]) /\ InsideGroup(f, k, j)
  BY <1>3, GroupPosition DEF N
<1> QED
  BY <1>4, <1>5, <1>6 DEF N

\* A step before the section or after it.
LEMMA OutsideGroups ==
  ASSUME ReaderInv, RulesInv, LineStep, AnyLineStep, NEW f, GroupLined(f), ReadsGroups(f), ~ GroupStep
  PROVE  ReadsGroups(f)'
<1> DEFINE N == Len(doc.groups)
           P == ProvidersEnd(doc)
           Q == GroupsEnd(doc)
<1>1. doc \in Document /\ doc' = doc /\ At' = At + 1 /\ At \in Nat /\ IsResult(out) /\ N \in Nat
  <2>1. doc \in Document /\ doc' = doc /\ At' = At + 1 /\ At \in Nat /\ IsResult(out)
    BY DEF ReaderInv, LineStep, RulesInv
  <2> QED
    BY <2>1, DocumentFact
<1>2. /\ P \in Nat /\ Q \in Nat /\ Q > P /\ ProvidersEnd(doc') = P /\ GroupsEnd(doc') = Q
      /\ ProxiesEnd(doc) \in Nat /\ ProxiesEnd(doc) < P
      /\ Len(ProxyLines(doc)) \in Nat /\ ProxiesEnd(doc) = 1 + Len(ProxyLines(doc))
      /\ Len(ProviderLines(doc)) \in Nat /\ P = ProxiesEnd(doc) + 1 + Len(ProviderLines(doc))
  <2>1. /\ Len(ProviderLines(doc)) \in Nat /\ Len(GroupLines(doc)) \in Nat /\ Len(ProxyLines(doc)) \in Nat
        /\ ProxiesEnd(doc) \in Nat /\ P \in Nat /\ P = ProxiesEnd(doc) + 1 + Len(ProviderLines(doc))
        /\ Q \in Nat /\ Q = P + 1 + Len(GroupLines(doc)) /\ ProxiesEnd(doc) = 1 + Len(ProxyLines(doc))
    BY <1>1, EndsFact
  <2> HIDE DEF P, Q
  <2>2. Q > P /\ ProxiesEnd(doc) < P
    BY <2>1
  <2> QED
    BY <1>1, <2>1, <2>2 DEF P, Q
<1>3. out.groups \in Seq(GroupShape)
  BY DEF ReadsGroups
\* Before the section nothing is open.
<1>4. ASSUME At <= P, group' = <<>>, out'.groups = out.groups \/ out'.groups = out.groups \o WithName(group)
      PROVE  ReadsGroups(f)'
  <2>1. group = <<>> /\ out.groups = <<>>
    <3>1. At <= P + 1
      <4> HIDE DEF P
      <4> QED
        BY <1>1, <1>2, <1>4
    <3> QED
      BY <3>1 DEF ReadsGroups
  <2>2. out'.groups = <<>>
    BY <1>4, <2>1, NamedGroup
  <2>3. ~ At' \in ProvidersEnd(doc') + 2 .. GroupsEnd(doc') /\ ~ At' > GroupsEnd(doc')
    <3> HIDE DEF P, Q
    <3> QED
      BY <1>1, <1>2, <1>4
  <2>4. out'.groups \in Seq(GroupShape)
    BY <2>2, BriefsFact
  <2> QED
    BY <1>4, <2>2, <2>3, <2>4 DEF ReadsGroups
\* After the section nothing is added.
<1>5. ASSUME At >= Q, group' = <<>>, out'.groups \in Seq(GroupShape), Handed(out'.groups, N)
      PROVE  ReadsGroups(f)'
  <2>1. ~ At' <= ProvidersEnd(doc') + 1 /\ ~ At' \in ProvidersEnd(doc') + 2 .. GroupsEnd(doc')
    <3> HIDE DEF P, Q
    <3> QED
      BY <1>1, <1>2, <1>5
  <2>2. Handed(out.groups, Len(doc.groups))'
    BY <1>1, <1>5 DEF Briefs, Handed
  <2> QED
    BY <1>5, <2>1, <2>2 DEF ReadsGroups
<1>6. CASE TopStep(0, "proxies") \/ TopStep(ProxiesEnd(doc), "proxy-providers") \/ TopStep(P, "proxy-groups")
  <2>1. At <= P /\ ReadTop
    <3> HIDE DEF P
    <3> QED
      BY <1>2, <1>6 DEF TopStep
  <2>2. out'.groups = out.groups \o WithName(group) /\ group' = <<>>
    BY <1>1, <2>1, AddedFact DEF ReadTop
  <2> QED
    BY <1>4, <2>1, <2>2
<1>7. CASE TopStep(Q, "rules")
  <2>1. At = Q /\ ReadTop
    BY <1>7 DEF TopStep
  <2>2. CompleteGroups(N)
    BY <1>1, <2>1, AllGroupsRead
  <2>3. out'.groups = out.groups \o WithName(group) /\ group' = <<>>
    BY <1>1, <2>1, AddedFact DEF ReadTop
  <2>4. out'.groups \in Seq(GroupShape) /\ Handed(out'.groups, N)
    <3>1. N \in 0 .. N /\ ~ N + 1 \in 1 .. N
      BY <1>1
    <3> QED
      BY <1>1, <1>3, <2>2, <2>3, <3>1, HandedOver
  <2>5. At >= Q
    <3> HIDE DEF Q
    <3> QED
      BY <1>2, <2>1
  <2> QED
    BY <1>5, <2>3, <2>4, <2>5
<1>8. CASE ProxyStep
  <2>1. At <= P
    <3>1. At \in 1 .. Len(ProxyLines(doc))
      BY <1>8 DEF ProxyStep
    <3> HIDE DEF P
    <3> QED
      BY <1>2, <3>1
  <2>2. group = <<>>
    <3>1. At <= P + 1
      <4> HIDE DEF P
      <4> QED
        BY <1>1, <1>2, <2>1
    <3> QED
      BY <3>1 DEF ReadsGroups
  <2>3. ReadFlowNode \/ ReadNewNode \/ ReadNodeHeader \/ ReadNodeKey \/ ReadStray
    BY <1>8 DEF ProxyStep
  <2>4. out'.groups = out.groups
    BY <1>1, <2>3, AddedFact
  <2>5. group' = <<>>
    BY <2>2, <2>3 DEF ReadFlowNode, ReadNewNode, ReadNodeHeader, ReadNodeKey, ReadStray
  <2> QED
    BY <1>4, <2>1, <2>4, <2>5
<1>9. CASE ProviderStep
  <2>1. At <= P /\ ReadStray
    <3>1. At \in ProxiesEnd(doc) + 1 .. P - 1 /\ ReadStray
      BY <1>9 DEF ProviderStep
    <3> HIDE DEF P
    <3> QED
      BY <1>1, <1>2, <3>1
  <2>2. group = <<>>
    <3>1. At <= P + 1
      <4> HIDE DEF P
      <4> QED
        BY <1>1, <1>2, <2>1
    <3> QED
      BY <3>1 DEF ReadsGroups
  <2>3. out'.groups = out.groups /\ group' = <<>>
    BY <2>1, <2>2 DEF ReadStray
  <2> QED
    BY <1>4, <2>1, <2>3
<1>10. CASE RuleStep
  <2>1. At > Q
    <3>1. PICK k \in 1 .. Len(doc.rules) : At = Q + k
      BY <1>10 DEF RuleStep
    <3>2. k \in Nat /\ k >= 1
      BY <3>1
    <3> HIDE DEF Q
    <3> QED
      BY <1>2, <3>1, <3>2
  <2>2. group = <<>> /\ Handed(out.groups, N)
    BY <2>1 DEF ReadsGroups
  <2>3. ReadRule
    BY <1>10 DEF RuleStep
  <2>4. out'.groups = out.groups
    BY <1>1, <2>3, AddedFact
  <2>5. group' = <<>>
    BY <2>2, <2>3 DEF ReadRule
  <2>6. At >= Q
    <3> HIDE DEF Q
    <3> QED
      BY <1>1, <1>2, <2>1
  <2> QED
    BY <1>3, <1>5, <2>2, <2>4, <2>5, <2>6
<1> QED
  BY <1>6, <1>7, <1>8, <1>9, <1>10 DEF AnyLineStep

\* A line of the section is read.
LEMMA WithinGroups ==
  ASSUME ReaderInv, RulesInv, LineStep, GroupStep, NEW f, GroupLined(f), ReadsGroups(f)
  PROVE  ReadsGroups(f)'
<1> DEFINE N == Len(doc.groups)
           L == Len(GroupLines(doc))
           P == ProvidersEnd(doc)
           Q == GroupsEnd(doc)
<1>1. /\ doc \in Document /\ doc' = doc /\ At' = At + 1 /\ At \in Nat /\ IsResult(out)
      /\ out.groups \in Seq(GroupShape)
  BY DEF ReaderInv, LineStep, RulesInv, ReadsGroups
<1>2. N \in Nat /\ doc'.groups = doc.groups
  BY <1>1, GroupLinedFact
<1>3. P \in Nat /\ L \in Nat /\ Q = P + 1 + L /\ ProvidersEnd(doc') = P /\ GroupsEnd(doc') = Q
  BY <1>1, EndsFact
<1>4. PICK m \in 1 .. L : At = P + m
  BY DEF GroupStep
<1>5. m \in Nat /\ 1 <= m /\ m <= L
  BY <1>3, <1>4
<1>6. At \in P + 1 .. Q /\ ~ At' <= P + 1 /\ ~ At' > Q
  <2> HIDE DEF L, P, Q
  <2> QED
    BY <1>1, <1>3, <1>4, <1>5
<1>7. ASSUME NEW k \in 1 .. N, NEW j \in 1 .. Len(doc.groups[k]), InsideGroup(f, k, j)',
             out'.groups \in Seq(GroupShape)
      PROVE  ReadsGroups(f)'
  <2>1. \E h \in 1 .. Len(doc'.groups) : \E i \in 1 .. Len(doc'.groups[h]) : InsideGroup(f, h, i)'
    BY <1>2, <1>7
  <2>2. ~ At' <= ProvidersEnd(doc') + 1 /\ ~ At' > GroupsEnd(doc')
    BY <1>3, <1>6
  <2> QED
    BY <1>7, <2>1, <2>2 DEF ReadsGroups
<1>8. CASE \E k \in 0 .. N : At = P + 1 + Len(f[k]) /\ CompleteGroups(k)
  <2>1. PICK k \in 0 .. N : At = P + 1 + Len(f[k]) /\ CompleteGroups(k)
    BY <1>8
  <2>2. k # N
    <3>1. SUFFICES ASSUME k = N PROVE FALSE
      OBVIOUS
    <3>2. Len(f[k]) = L
      BY <3>1 DEF GroupLined
    <3>3. At = P + 1 + L
      BY <2>1, <3>2
    <3> HIDE DEF L, P
    <3> QED
      BY <1>3, <1>4, <1>5, <3>3
  <2>3. PICK n \in 1 .. N : n - 1 = k
    <3>1. k + 1 \in 1 .. N /\ (k + 1) - 1 = k
      BY <1>2, <2>2
    <3> QED
      BY <3>1
  <2>4. At = P + 1 + Len(f[n - 1]) /\ CompleteGroups(n - 1)
    BY <2>1, <2>3
  <2>5. out'.groups \in Seq(GroupShape) /\ InsideGroup(f, n, 1)'
    BY <1>1, <2>4, NewGroupItem
  <2>6. 1 \in 1 .. Len(doc.groups[n])
    <3>1. Len(doc.groups[n]) \in Nat /\ Len(doc.groups[n]) >= 1
      BY <1>1, GroupLinedFact
    <3> QED
      BY <3>1
  <2> HIDE DEF N
  <2> QED
    BY <1>7, <2>5, <2>6
<1>9. CASE \E k \in 1 .. N : \E j \in 1 .. Len(doc.groups[k]) : j < Len(doc.groups[k]) /\ InsideGroup(f, k, j)
  <2>1. PICK k \in 1 .. N : \E j \in 1 .. Len(doc.groups[k]) : j < Len(doc.groups[k]) /\ InsideGroup(f, k, j)
    BY <1>9
  <2>2. PICK j \in 1 .. Len(doc.groups[k]) : j < Len(doc.groups[k]) /\ InsideGroup(f, k, j)
    BY <2>1
  <2>3. out' = out /\ j + 1 \in 1 .. Len(doc.groups[k]) /\ InsideGroup(f, k, j + 1)'
    BY <2>2, NextGroupLine
  <2>4. out'.groups \in Seq(GroupShape)
    BY <1>1, <2>3
  <2> HIDE DEF N
  <2> QED
    BY <1>7, <2>3, <2>4
<1> QED
  BY <1>1, <1>6, <1>8, <1>9, GroupPosition

-----------------------------------------------------------------------------
(* The members that arrive: the groups that are handed over *)

\* The result of the line reader is x, cleaned.
CleanedLines(x) ==
  /\ IsResult(x) /\ x.groups \in Seq(GroupShape) /\ Handed(x.groups, Len(doc.groups))
  /\ out.proxies = CleanNodes(x.proxies) /\ out.groups = CleanGroups(x)

GroupsInv ==
  /\ reader \in {"none", "lines"} => \E f : GroupLined(f) /\ ReadsGroups(f)
  /\ reader = "done" => \E x : CleanedLines(x)

LEMMA GroupsStart == Init => GroupsInv
<1> SUFFICES ASSUME Init PROVE GroupsInv
  OBVIOUS
<1>1. ReaderInv
  BY ReaderStart
<1>2. doc \in Document /\ reader = "none" /\ At = 0 /\ group = <<>> /\ out = NothingRead
  BY <1>1 DEF Init, ReaderInv
<1>3. doc.groups \in Seq(Seq(LineShape))
  <2>1. doc.groups \in Seq(GroupItem)
    BY <1>2, DocumentFact
  <2> QED
    BY <2>1, ItemsFact
<1>4. PICK f : Joins(f, doc.groups, LineShape) /\ FlattenSeq(doc.groups) = f[Len(doc.groups)]
  BY <1>3, FlattenRecursion
<1>5. GroupLined(f)
  BY <1>4 DEF GroupLined, GroupLines
<1>6. out.groups = <<>> /\ <<>> \in Seq(GroupShape)
  BY <1>2, BriefsFact DEF NothingRead
<1>7. ReadsGroups(f)
  <2> DEFINE P == ProvidersEnd(doc)
             Q == GroupsEnd(doc)
  <2>1. P \in Nat /\ Q \in Nat /\ At = 0
    BY <1>2, EndsFact
  <2>2. ~ At \in P + 2 .. Q /\ ~ At > Q
    <3> HIDE DEF P, Q
    <3> QED
      BY <2>1
  <2> QED
    BY <1>2, <1>6, <2>2 DEF ReadsGroups
<1> QED
  BY <1>2, <1>5, <1>7 DEF GroupsInv

LEMMA GroupsStep == ReaderInv /\ RulesInv /\ GroupsInv /\ [Next]_vars => GroupsInv'
<1> SUFFICES ASSUME ReaderInv, RulesInv, GroupsInv, [Next]_vars PROVE GroupsInv'
  OBVIOUS
<1>1. doc \in Document /\ IsResult(out)
  BY DEF ReaderInv, RulesInv
<1>2. ASSUME doc' = doc, NEW f, GroupLined(f) PROVE GroupLined(f)'
  BY <1>2 DEF GroupLined, Joins, GroupLines
<1>3. CASE UNCHANGED vars
  <2>1. GroupsInv' = GroupsInv
    BY <1>3 DEF vars, GroupsInv, GroupLined, ReadsGroups, InsideGroup, InGroup, StrayGroup, At, Joins, Briefs,
                Handed, GroupLines, ProvidersEnd, GroupsEnd, CleanedLines
  <2> QED
    BY <2>1
<1>4. CASE ReadYaml
  BY <1>4 DEF ReadYaml, GroupsInv
<1>5. CASE ReadLines
  <2>1. /\ doc' = doc /\ todo' = todo /\ group' = group /\ out' = out /\ members' = members
        /\ reader = "none" /\ reader' = "lines"
    BY <1>5 DEF ReadLines
  <2>2. PICK f : GroupLined(f) /\ ReadsGroups(f)
    BY <2>1 DEF GroupsInv
  <2>3. ReadsGroups(f)' = ReadsGroups(f)
    BY <2>1 DEF ReadsGroups, InsideGroup, InGroup, StrayGroup, At, Briefs, Handed, ProvidersEnd,
           GroupsEnd
  <2> QED
    BY <1>2, <2>1, <2>2, <2>3 DEF GroupsInv
<1>6. CASE ReadEnd
  <2>1. reader = "lines" /\ todo = <<>> /\ reader' = "done" /\ doc' = doc
    BY <1>6 DEF ReadEnd
  <2>2. PICK f : GroupLined(f) /\ ReadsGroups(f)
    BY <2>1 DEF GroupsInv
  <2>3. At = Len(TextLines(doc))
    BY <2>1, TodoFact
  <2>4. At > GroupsEnd(doc)
    <3> DEFINE c == GroupsEnd(doc)
               r == Len(doc.rules)
    <3>1. c \in Nat /\ r \in Nat /\ At = c + 1 + r
      BY <1>1, <2>3, EndsFact
    <3> HIDE DEF c, r
    <3>2. At > c
      BY <3>1
    <3> QED
      BY <3>2 DEF c
  <2>5. group = <<>> /\ Handed(out.groups, Len(doc.groups)) /\ out.groups \in Seq(GroupShape)
    BY <2>2, <2>4 DEF ReadsGroups
  <2>6. PICK x : IsResult(x) /\ x.groups = out.groups \o WithName(group) /\ out' = Sanitize(x)
    BY <1>1, <1>6, AddedFact
  <2>7. out.groups \o <<>> = out.groups
    BY <2>5
  <2>8. x.groups = out.groups
    BY <2>5, <2>6, <2>7, NamedGroup
  <2>9. out'.proxies = CleanNodes(x.proxies) /\ out'.groups = CleanGroups(x)
    BY <2>6, SanitizeResult
  <2>10. Handed(x.groups, Len(doc.groups))' = Handed(x.groups, Len(doc.groups))
    BY <2>1 DEF Handed
  <2>11. CleanedLines(x)'
    BY <2>5, <2>6, <2>8, <2>9, <2>10 DEF CleanedLines
  <2> QED
    BY <2>1, <2>11 DEF GroupsInv
<1>7. CASE LineStep /\ AnyLineStep
  <2>1. reader = "lines" /\ reader' = "lines" /\ doc' = doc
    BY <1>7 DEF LineStep
  <2>2. PICK f : GroupLined(f) /\ ReadsGroups(f)
    BY <2>1 DEF GroupsInv
  <2>3. ReadsGroups(f)'
    BY <1>7, <2>2, OutsideGroups, WithinGroups
  <2> QED
    BY <1>2, <2>1, <2>2, <2>3 DEF GroupsInv
<1> QED
  BY <1>3, <1>4, <1>5, <1>6, <1>7, StepCases

-----------------------------------------------------------------------------
(* The members that arrive: the groups that are kept *)

\* The groups of the configuration are those of x, cleaned: the kept groups of
\* the document that have a name.  m[i] are the members of group i.
GroupsOf(x, m) ==
  /\ IsResult(x) /\ x.groups \in Seq(GroupShape)
  /\ \A n : (\E b \in Briefs(x.groups) : b[1] = n)
             <=> n # Blank /\ \E i \in GroupsKept : NameIn(doc.groups[i]) = n
  /\ \A i \in GroupsKept :
       NameIn(doc.groups[i]) # Blank /\ (reader = "yaml" \/ ~ Headless(doc.groups[i]))
         => <<NameIn(doc.groups[i]), m[i]>> \in Briefs(x.groups)
  /\ out.proxies = CleanNodes(x.proxies) /\ out.groups = CleanGroups(x)

\* What is known is what the document names.
LEMMA KnownFact ==
  ASSUME NEW x, NEW m, GroupsOf(x, m)
  PROVE  KnownNames(x) = Known
<1> DEFINE names == {ItemNames(doc.groups)[i] : i \in GroupsKept} \ {Blank}
<1>1. NamesOf(x.groups) = {b[1] : b \in Briefs(x.groups)}
  <2>1. \A g : Brief(g)[1] = g.name
    BY DEF Brief
  <2>2. Briefs(x.groups) = {Brief(x.groups[i]) : i \in DOMAIN x.groups}
    BY DEF Briefs, ToSet
  <2>3. NamesOf(x.groups) = {Brief(x.groups[i])[1] : i \in DOMAIN x.groups}
    BY <2>1 DEF NamesOf
  <2> QED
    BY <2>2, <2>3
<1>2. \A i \in GroupsKept : ItemNames(doc.groups)[i] = NameIn(doc.groups[i])
  BY DEF GroupsKept, ItemNames, NameIn
<1>3. \A n : n \in NamesOf(x.groups) <=> n # Blank /\ \E i \in GroupsKept : NameIn(doc.groups[i]) = n
  BY <1>1 DEF GroupsOf
<1>6. NamesOf(x.groups) = names
  BY <1>2, <1>3
<1>7. NamesOf(CleanNodes(x.proxies)) = NamesOf(out.proxies)
  BY DEF GroupsOf
<1> HIDE DEF names
<1> QED
  BY <1>6, <1>7 DEF KnownNames, Known, names

\* A group that has a member that is known is kept with those.
LEMMA MemberKept ==
  ASSUME NEW x, x.groups \in Seq(GroupShape), NEW g \in ToSet(x.groups), g.name # Blank,
         Only(g.all, KnownNames(x)) # <<>>
  PROVE  \E c \in ToSet(CleanGroups(x)) : c.name = g.name /\ c.all = Only(g.all, KnownNames(x))
<1> DEFINE K == KnownNames(x)
           clean == [i \in DOMAIN x.groups |-> Cleaned(x.groups[i], K)]
           X == {Cleaned(h, K) : h \in GroupShape}
           A == {h \in ToSet(clean) : h.name # NoName /\ h.all # <<>>}
           c == Cleaned(g, K)
<1>1. /\ DOMAIN x.groups = 1 .. Len(x.groups) /\ Len(x.groups) \in Nat
      /\ \A i \in 1 .. Len(x.groups) : x.groups[i] \in GroupShape
  OBVIOUS
<1>2. PICK i \in DOMAIN x.groups : x.groups[i] = g
  BY DEF ToSet
<1>3. clean \in Seq(X)
  BY <1>1
<1>4. c \in ToSet(clean)
  BY <1>2 DEF ToSet
<1>5. g \in GroupShape
  BY <1>1, <1>2
<1>6. c.name = g.name /\ c.all = Only(g.all, K)
  <2> DEFINE all == Only(g.all, K)
             now == IF g.now \in ToSet(all) \ Metadata THEN g.now
                    ELSE IF all = <<>> THEN NoName ELSE Head(all)
  <2>1. c = [g EXCEPT !.all = all, !.now = now]
    BY DEF Cleaned
  <2> HIDE DEF all, now, c
  <2> QED
    BY <1>5, <2>1 DEF GroupShape, all
<1>7. CleanGroups(x) = Only(clean, A)
  BY DEF CleanGroups
<1>8. c \in A
  <2> HIDE DEF clean, c, K
  <2> QED
    BY <1>4, <1>6, TextAssumption DEF K
<1> HIDE DEF clean, X, A, c, K
<1>9. ToSet(Only(clean, A)) = ToSet(clean) \cap A
  BY <1>3, OnlyKeeps
<1> QED
  BY <1>4, <1>6, <1>7, <1>8, <1>9 DEF K

\* A group of the document that is left with a member arrives.
LEMMA GroupArrives ==
  ASSUME NEW x, NEW m, GroupsOf(x, m), NEW i \in GroupsKept, reader = "yaml" \/ ~ Headless(doc.groups[i]),
         NameIn(doc.groups[i]) # Blank, Only(m[i], Known) # <<>>
  PROVE  \E g \in ToSet(out.groups) : g.name = NameIn(doc.groups[i]) /\ g.all = Only(m[i], Known)
<1> DEFINE b == <<NameIn(doc.groups[i]), m[i]>>
<1>1. b \in Briefs(x.groups)
  BY DEF GroupsOf
<1>2. PICK g \in ToSet(x.groups) : Brief(g) = b
  BY <1>1 DEF Briefs
<1>3. g.name = NameIn(doc.groups[i]) /\ g.all = m[i]
  BY <1>2 DEF Brief
<1>4. KnownNames(x) = Known
  BY KnownFact
<1>5. x.groups \in Seq(GroupShape) /\ out.groups = CleanGroups(x)
  BY DEF GroupsOf
<1> HIDE DEF b
<1> QED
  BY <1>3, <1>4, <1>5, MemberKept

\* What MembersArrive says of the members.
LEMMA GrownFact ==
  ASSUME NEW s \in Seq(Text), NEW t, NEW E, Grown(t, s, E)
  PROVE  LET extra == E \ ToSet(s)
         IN /\ s # <<>> \/ extra # {} => t # <<>>
            /\ IsPrefix(s, t) /\ ToSet(t) = ToSet(s) \cup extra
            /\ Len(t) = Len(s) + Cardinality(extra)
<1> DEFINE extra == E \ ToSet(s)
<1>1. /\ t \in Seq(Text) /\ Len(s) <= Len(t) /\ \A i \in 1 .. Len(s) : t[i] = s[i]
      /\ ToSet(t) = ToSet(s) \cup E /\ Len(t) = Len(s) + Cardinality(extra)
  BY DEF Grown
<1>2. IsPrefix(s, t)
  <2>1. SubSeq(s, 1, Len(s)) = SubSeq(t, 1, Len(s))
    <3> DEFINE u == SubSeq(s, 1, Len(s))
               v == SubSeq(t, 1, Len(s))
    <3>1. Len(s) \in Nat /\ Len(t) \in Nat
      BY <1>1
    <3>2. u \in Seq(Text) /\ Len(u) = Len(s) /\ \A i \in 1 .. Len(s) : u[i] = s[i]
      BY <3>1
    <3>3. v \in Seq(Text) /\ Len(v) = Len(s) /\ \A i \in 1 .. Len(s) : v[i] = t[i]
      BY <1>1, <3>1
    <3> HIDE DEF u, v
    <3>4. \A i \in 1 .. Len(u) : u[i] = v[i]
      BY <1>1, <3>2, <3>3
    <3>5. u = v
      BY <3>2, <3>3, <3>4, EqualSequences
    <3> QED
      BY <3>5 DEF u, v
  <2> QED
    BY <1>1, <2>1 DEF IsPrefix
<1>3. ToSet(t) = ToSet(s) \cup extra
  BY <1>1
<1>4. s # <<>> \/ extra # {} => t # <<>>
  <2>1. ToSet(<<>>) = {}
    BY NoElement
  <2>2. t = <<>> => extra = {}
    BY <1>3, <2>1
  <2>3. t = <<>> => s = <<>>
    BY <1>1
  <2> QED
    BY <2>2, <2>3
<1> QED
  BY <1>1, <1>2, <1>3, <1>4

-----------------------------------------------------------------------------
(* The members that arrive through YAML *)

\* No name that is known is empty.
LEMMA NamesNotBlank ==
  ASSUME ReaderInv, NodesInv, Finished
  PROVE  Blank \notin Known
<1> DEFINE s == ItemNames(Kept)
<1>1. Kept \in Seq(Item) /\ NamesIn(out.proxies) = Only(Arriving[Kept], Text \ Metadata)
  BY KeptArrive
<1>2. s \in Seq(Text) /\ Arriving[Kept] = Only(s, Named3)
  BY <1>1, ItemNamesFact DEF Arriving
<1> HIDE DEF s
<1>3. Arriving[Kept] \in Seq(Text) /\ ToSet(Arriving[Kept]) = ToSet(s) \cap Named3
  BY <1>2, OnlyKeeps
<1>4. ToSet(NamesIn(out.proxies)) = ToSet(Arriving[Kept]) \cap (Text \ Metadata)
  BY <1>1, <1>3, OnlyKeeps
<1>5. NamesOf(out.proxies) = ToSet(NamesIn(out.proxies))
  BY DEF NamesOf, NamesIn, ToSet
<1>6. Blank \notin BuiltIn
  BY TextAssumption
<1> QED
  BY <1>3, <1>4, <1>5, <1>6 DEF Known, Named3

\* The names of the nodes of each provider that has any.
Brings(d) == {i \in DOMAIN d.providers : NodesOf(d.providers[i].items) # <<>>}

NamesOfProvider(d) ==
  [n \in {d.providers[i].name : i \in Brings(d)} |->
     NamesIn(NodesOf(d.providers[CHOOSE i \in Brings(d) : d.providers[i].name = n].items))]

LEMMA ProviderFact ==
  ASSUME NEW d \in Document
  PROVE  /\ \A i \in DOMAIN d.providers : d.providers[i].items \in Seq(Item)
         /\ \A i \in Brings(d) : /\ d.providers[i].name \in DOMAIN NamesOfProvider(d)
                                 /\ NamesOfProvider(d)[d.providers[i].name]
                                      = Only(ItemNames(d.providers[i].items), Named3)
         /\ \A n \in DOMAIN NamesOfProvider(d) :
              /\ NamesOfProvider(d)[n] \in Seq(Text)
              /\ \E i \in Brings(d) : d.providers[i].name = n
<1> DEFINE P == d.providers
           B == Brings(d)
           N(i) == NamesIn(NodesOf(P[i].items))
           known == NamesOfProvider(d)
<1>1. \A i \in DOMAIN P : P[i].items \in Seq(Item)
  <2>1. P \in Seq([name : Text, items : Seq(Item)])
    BY DocumentFact
  <2>2. ASSUME NEW i \in DOMAIN P PROVE P[i].items \in Seq(Item)
    <3>1. P[i] \in [name : Text, items : Seq(Item)]
      BY <2>1, Element
    <3> QED
      BY <3>1
  <2> QED
    BY <2>2
<1>2. \A i, j \in DOMAIN P : P[i].name = P[j].name => i = j
  BY DocumentFact DEF Unique
<1>3. B \subseteq DOMAIN P
  BY DEF Brings
<1>4. known = [n \in {P[i].name : i \in B} |-> N(CHOOSE i \in B : P[i].name = n)]
  BY DEF NamesOfProvider
<1>5. \A i \in DOMAIN P : N(i) = Only(ItemNames(P[i].items), Named3) /\ N(i) \in Seq(Text)
  <2>1. ASSUME NEW s \in Seq(Item)
        PROVE  NamesIn(NodesOf(s)) = Only(ItemNames(s), Named3) /\ NamesIn(NodesOf(s)) \in Seq(Text)
    <3>1. Same(NamesIn(NodesOf(s)), Arriving[s])
      BY NodesOfNames
    <3>2. Arriving[s] = Only(ItemNames(s), Named3) /\ ItemNames(s) \in Seq(Text)
      BY ItemNamesFact DEF Arriving
    <3>3. Only(ItemNames(s), Named3) \in Seq(Text)
      BY <3>2, OnlyKeeps
    <3> QED
      BY <3>1, <3>2, <3>3 DEF Same
  <2> QED
    BY <1>1, <2>1
<1> HIDE DEF P, B, N, known
<1>6. ASSUME NEW i \in B PROVE P[i].name \in DOMAIN known /\ known[P[i].name] = N(i)
  <2>1. P[i].name \in {P[j].name : j \in B}
    OBVIOUS
  <2>2. (CHOOSE j \in B : P[j].name = P[i].name) = i
    BY <1>2, <1>3
  <2> QED
    BY <1>4, <2>1, <2>2
<1>7. ASSUME NEW n \in DOMAIN known PROVE known[n] \in Seq(Text) /\ \E i \in B : P[i].name = n
  <2>1. PICK i \in B : P[i].name = n
    BY <1>4
  <2> QED
    BY <1>3, <1>5, <1>6, <2>1
<1>8. \A i \in B : P[i].name \in DOMAIN known /\ known[P[i].name] = Only(ItemNames(P[i].items), Named3)
  BY <1>3, <1>5, <1>6
<1> QED
  BY <1>1, <1>7, <1>8 DEF P, B, known

\* The entries of an item.
LEMMA EntriesFact ==
  ASSUME NEW item \in Item
  PROVE  Entries(item) \in Seq(Entries3)
<1>1. CASE IsFlow(item)
  BY <1>1, FlowFact
<1>2. CASE ~ IsFlow(item)
  <2>1. PICK n \in 1 .. Len(item) : NamedOn(item, n)
    BY <1>2, BlockFact
  <2> QED
    BY <1>2, <2>1, BlockName
<1> QED
  BY <1>1, <1>2

YamlMembers ==
  [i \in DOMAIN doc.groups |->
     AllMembers(Listed(Entries(doc.groups[i]), "proxies"), Listed(Entries(doc.groups[i]), "use"),
                NamesOfProvider(doc))]

\* A group that is read from YAML.
LEMMA YamlGroupFact ==
  ASSUME NEW es \in Seq(Entries3), NEW known, \A n \in DOMAIN known : known[n] \in Seq(Text)
  PROVE  LET g == GroupFromYaml(es, known)
         IN /\ g \in GroupShape /\ g.name = Written(es, "name")
            /\ g.all = AllMembers(Listed(es, "proxies"), Listed(es, "use"), known)
<1> DEFINE all == AllMembers(Listed(es, "proxies"), Listed(es, "use"), known)
           now == Written(es, "now")
           type == Written(es, "type")
           now1 == IF now = Blank /\ all # <<>> THEN Head(all) ELSE now
           type1 == IF type = Blank THEN "select" ELSE type
           g == GroupFromYaml(es, known)
<1>1. Listed(es, "proxies") \in Seq(Text) /\ Listed(es, "use") \in Seq(Text)
  BY ListedFact
<1>2. all \in Seq(Text)
  <2> DEFINE s == Listed(es, "proxies")
             u == Listed(es, "use")
  <2>1. s \in Seq(Text) /\ u \in Seq(Text) /\ all = AllMembers(s, u, known)
    BY <1>1
  <2> HIDE DEF s, u, all
  <2>2. AllMembers(s, u, known) \in Seq(Text)
    <3>1. ToSet(u) \cap {} = {}
      OBVIOUS
    <3> QED
      BY <2>1, <3>1, AllMembersGrow
  <2> QED
    BY <2>1, <2>2
<1>3. Written(es, "name") \in Text /\ now \in Text /\ type \in Text /\ "select" \in Text
  BY WrittenFact, TextAssumption
<1>4. g = [name |-> Written(es, "name"), type |-> type1, now |-> now1, all |-> all]
  BY DEF GroupFromYaml
<1> HIDE DEF all, now, type, g
<1>5. type1 \in Text /\ now1 \in Text
  <2>1. all # <<>> => Head(all) \in Text
    BY <1>2
  <2> QED
    BY <1>3, <2>1
<1> HIDE DEF type1, now1
<1>6. g \in GroupShape /\ g.name = Written(es, "name") /\ g.all = all
  BY <1>2, <1>3, <1>4, <1>5 DEF GroupShape
<1> QED
  BY <1>6 DEF g, all

\* The groups that have a name.
LEMMA NamedGroups ==
  ASSUME NEW s \in Seq(GroupShape)
  PROVE  WithName(s) \in Seq(GroupShape) /\ Briefs(WithName(s)) = {Brief(g) : g \in {h \in ToSet(s) : h.name # Blank}}
<1> DEFINE A == {h \in ToSet(s) : h.name # Blank}
<1>1. WithName(s) = Only(s, A)
  BY DEF WithName
<1> HIDE DEF A
<1>2. Only(s, A) \in Seq(GroupShape) /\ ToSet(Only(s, A)) = ToSet(s) \cap A
  BY OnlyKeeps
<1>3. ToSet(WithName(s)) = A
  BY <1>1, <1>2 DEF A
<1> QED
  BY <1>1, <1>2, <1>3 DEF Briefs, A

\* What YAML makes of the groups.
LEMMA YamlGroupsOf ==
  ASSUME doc \in Document, reader = "yaml", out = Yaml(doc)
  PROVE  \E x : GroupsOf(x, YamlMembers)
<1> DEFINE items == doc.groups
           K == NamesOfProvider(doc)
           gs == [i \in DOMAIN items |-> GroupFromYaml(Entries(items[i]), K)]
           J == {j \in DOMAIN items : NameIn(items[j]) # Blank}
<1>1. DOMAIN items = 1 .. Len(items) /\ Len(items) \in Nat /\ \A i \in DOMAIN items : items[i] \in Item
  <2>1. items \in Seq(Item)
    BY DocumentFact, ItemsFact
  <2> QED
    BY <2>1
<1>2. \A n \in DOMAIN K : K[n] \in Seq(Text)
  BY ProviderFact
<1>3. \E x : IsResult(x) /\ x.groups = WithName(gs) /\ Yaml(doc) = Sanitize(x)
  <2> DEFINE nodes(i) == NodesOf(doc.providers[i].items)
             filled == {i \in DOMAIN doc.providers : nodes(i) # <<>>}
             known == [n \in {doc.providers[i].name : i \in filled} |->
                         NamesIn(nodes(CHOOSE i \in filled : doc.providers[i].name = n))]
             p == NodesOf(doc.proxies) \o FlattenSeq([i \in DOMAIN doc.providers |-> nodes(i)])
             g == WithName([i \in DOMAIN doc.groups |-> GroupFromYaml(Entries(doc.groups[i]), known)])
             r == RulesFromYaml(doc)
  <2>1. Yaml(doc) = Sanitize([proxies |-> p, groups |-> g, rules |-> r])
    BY DEF Yaml
  <2>2. g = WithName(gs)
    BY DEF NamesOfProvider, Brings
  <2> HIDE DEF p, g, r, gs
  <2>3. LET x == [proxies |-> p, groups |-> g, rules |-> r] IN IsResult(x) /\ x.groups = g
    BY DEF IsResult
  <2> QED
    BY <2>1, <2>2, <2>3
<1>4. PICK x : IsResult(x) /\ x.groups = WithName(gs) /\ Yaml(doc) = Sanitize(x)
  BY <1>3
<1>5. out.proxies = CleanNodes(x.proxies) /\ out.groups = CleanGroups(x)
  BY <1>4, SanitizeResult
<1>6. \A i \in DOMAIN items : gs[i] \in GroupShape /\ Brief(gs[i]) = <<NameIn(items[i]), YamlMembers[i]>>
  <2>1. ASSUME NEW i \in DOMAIN items
        PROVE  gs[i] \in GroupShape /\ gs[i].name = NameIn(items[i]) /\ gs[i].all = YamlMembers[i]
    <3> DEFINE es == Entries(items[i])
    <3>1. es \in Seq(Entries3)
      BY <1>1, EntriesFact
    <3>2. gs[i] = GroupFromYaml(es, K)
      OBVIOUS
    <3>3. YamlMembers[i] = AllMembers(Listed(es, "proxies"), Listed(es, "use"), K) /\ NameIn(items[i]) = Written(es, "name")
      BY DEF YamlMembers, NameIn
    <3> HIDE DEF es, gs, K
    <3> QED
      BY <1>2, <3>1, <3>2, <3>3, YamlGroupFact
  <2> QED
    BY <2>1 DEF Brief
<1>7. gs \in Seq(GroupShape) /\ DOMAIN gs = DOMAIN items
  <2> DEFINE G(i) == GroupFromYaml(Entries(items[i]), K)
             N == Len(items)
  <2>1. gs = [i \in 1 .. N |-> G(i)] /\ N \in Nat /\ DOMAIN gs = DOMAIN items
    BY <1>1
  <2>2. \A i \in 1 .. N : gs[i] \in GroupShape
    BY <1>1, <1>6
  <2> HIDE DEF gs, G, N
  <2> QED
    BY <2>1, <2>2
<1>8. \A i \in DOMAIN items : gs[i].name # Blank <=> i \in J
  <2>1. \A i \in DOMAIN items : gs[i].name = NameIn(items[i])
    BY DEF GroupFromYaml, NameIn
  <2> HIDE DEF gs
  <2> QED
    BY <2>1
<1> HIDE DEF gs
<1>9. Briefs(x.groups) = {Brief(g) : g \in {h \in ToSet(gs) : h.name # Blank}} /\ x.groups \in Seq(GroupShape)
  BY <1>4, <1>7, NamedGroups
<1>10. {h \in ToSet(gs) : h.name # Blank} = {gs[i] : i \in J}
  BY <1>7, <1>8 DEF ToSet
<1>11. Briefs(x.groups) = {Brief(gs[i]) : i \in J}
  BY <1>9, <1>10
<1>12. Briefs(x.groups) = {<<NameIn(items[i]), YamlMembers[i]>> : i \in J}
  <2>1. \A i \in J : Brief(gs[i]) = <<NameIn(items[i]), YamlMembers[i]>>
    BY <1>6
  <2> QED
    BY <1>11, <2>1
<1>13. GroupsKept = DOMAIN items
  BY DEF GroupsKept
<1>14. \A n : (\E b \in Briefs(x.groups) : b[1] = n) <=> n # Blank /\ \E i \in DOMAIN items : NameIn(items[i]) = n
  <2> DEFINE B(i) == <<NameIn(items[i]), YamlMembers[i]>>
  <2>1. \A i : B(i)[1] = NameIn(items[i])
    OBVIOUS
  <2>2. Briefs(x.groups) = {B(i) : i \in J}
    BY <1>12
  <2>3. \A i : i \in J <=> i \in DOMAIN items /\ NameIn(items[i]) # Blank
    OBVIOUS
  <2> HIDE DEF B, J, items
  <2> QED
    BY <2>1, <2>2, <2>3
<1>15. \A i \in DOMAIN items : NameIn(items[i]) # Blank => <<NameIn(items[i]), YamlMembers[i]>> \in Briefs(x.groups)
  BY <1>12
<1> QED
  BY <1>4, <1>5, <1>9, <1>13, <1>14, <1>15 DEF GroupsOf

\* What an element that is listed under a key says.
LEMMA ListedSet ==
  ASSUME NEW es \in Seq(Entries3), NEW key
  PROVE  \A i \in DOMAIN es : es[i].sec = Blank /\ es[i].key = key => es[i].val \in ToSet(Listed(es, key))
<1> DEFINE ss == [i \in DOMAIN es |-> IF es[i].sec = Blank /\ es[i].key = key THEN <<es[i].val>> ELSE <<>>]
<1>1. DOMAIN es = 1 .. Len(es) /\ Len(es) \in Nat /\ \A i \in 1 .. Len(es) : es[i] \in Entries3
  OBVIOUS
<1>2. \A i \in 1 .. Len(es) : es[i].val \in Text
  BY <1>1 DEF Entries3
<1>3. ss \in Seq(Seq(Text)) /\ DOMAIN ss = DOMAIN es
  <2>1. ASSUME NEW i \in 1 .. Len(es)
        PROVE  (IF es[i].sec = Blank /\ es[i].key = key THEN <<es[i].val>> ELSE <<>>) \in Seq(Text)
    BY <1>2
  <2> QED
    BY <1>1, <2>1
<1>4. ASSUME NEW i \in DOMAIN es, es[i].sec = Blank, es[i].key = key PROVE es[i].val \in ToSet(ss[i])
  <2>1. ss[i] = <<es[i].val>>
    BY <1>4
  <2>2. ToSet(<<es[i].val>>) = {es[i].val}
    BY OneElement
  <2> QED
    BY <2>1, <2>2
<1>5. Listed(es, key) = FlattenSeq(ss)
  BY DEF Listed
<1> HIDE DEF ss
<1>6. ToSet(FlattenSeq(ss)) = UNION {ToSet(ss[i]) : i \in DOMAIN ss}
  BY <1>3, FlattenFact
<1> QED
  BY <1>3, <1>4, <1>5, <1>6

\* What the uses bring is what the providers of the document hold.
LEMMA BroughtFact ==
  ASSUME doc \in Document, reader = "yaml", Blank \notin Known, NEW es \in Seq(Entries3)
  PROVE  LET uses == Listed(es, "use")
         IN Brought(uses, NamesOfProvider(doc), Len(uses)) \cap Known = Provided(es) \cap Known
<1> DEFINE uses == Listed(es, "use")
           P == doc.providers
           known == NamesOfProvider(doc)
           B == Brought(uses, known, Len(uses))
<1>1. uses \in Seq(Text)
  BY ListedFact
<1>2. ToSet(uses) = {uses[i] : i \in 1 .. Len(uses)}
  <2> HIDE DEF uses
  <2>1. DOMAIN uses = 1 .. Len(uses)
    BY <1>1
  <2> QED
    BY <2>1 DEF ToSet
<1>3. B = UNION {ToSet(known[uses[i]]) : i \in {j \in 1 .. Len(uses) : uses[j] \in DOMAIN known}}
  BY DEF Brought
<1>4. Provided(es) = UNION {ToSet(ItemNames(P[i].items)) : i \in {j \in DOMAIN P : P[j].name \in ToSet(uses)}}
  BY DEF Provided
<1>5. /\ \A i \in DOMAIN P : P[i].items \in Seq(Item)
      /\ \A i \in Brings(doc) : /\ P[i].name \in DOMAIN known
                                /\ known[P[i].name] = Only(ItemNames(P[i].items), Named3)
      /\ \A n \in DOMAIN known : \E i \in Brings(doc) : P[i].name = n
  BY ProviderFact
<1>6. \A i \in DOMAIN P :
        /\ ItemNames(P[i].items) \in Seq(Text)
        /\ ToSet(Only(ItemNames(P[i].items), Named3)) = ToSet(ItemNames(P[i].items)) \cap Named3
        /\ NamesIn(NodesOf(P[i].items)) = Only(ItemNames(P[i].items), Named3)
  <2>1. ASSUME NEW s \in Seq(Item)
        PROVE  /\ ItemNames(s) \in Seq(Text)
               /\ ToSet(Only(ItemNames(s), Named3)) = ToSet(ItemNames(s)) \cap Named3
               /\ NamesIn(NodesOf(s)) = Only(ItemNames(s), Named3)
    <3>1. Same(NamesIn(NodesOf(s)), Arriving[s]) /\ ItemNames(s) \in Seq(Text)
      BY NodesOfNames, ItemNamesFact
    <3>2. Arriving[s] = Only(ItemNames(s), Named3)
      BY DEF Arriving
    <3>3. ToSet(Only(ItemNames(s), Named3)) = ToSet(ItemNames(s)) \cap Named3
      BY <3>1, OnlyKeeps
    <3> QED
      BY <3>1, <3>2, <3>3 DEF Same
  <2> QED
    BY <1>5, <2>1
<1>7. \A i \in DOMAIN P : ToSet(ItemNames(P[i].items)) \cap Named3 # {} => i \in Brings(doc)
  <2>1. SUFFICES ASSUME NEW i \in DOMAIN P, ToSet(ItemNames(P[i].items)) \cap Named3 # {}, NodesOf(P[i].items) = <<>>
                 PROVE  FALSE
    BY DEF Brings
  <2>2. NamesIn(NodesOf(P[i].items)) = <<>>
    BY <2>1, NoNodes
  <2>3. ToSet(NamesIn(NodesOf(P[i].items))) = ToSet(ItemNames(P[i].items)) \cap Named3
    BY <1>6
  <2>4. ToSet(<<>>) = {}
    BY NoElement
  <2> HIDE DEF P
  <2> QED
    BY <2>1, <2>2, <2>3, <2>4
<1>8. \A i \in DOMAIN P : ToSet(ItemNames(P[i].items)) \subseteq Text
  <2>1. \A s \in Seq(Text) : ToSet(s) \subseteq Text
    BY DEF ToSet
  <2> QED
    BY <1>6, <2>1
<1>9. Brings(doc) \subseteq DOMAIN P
  BY DEF Brings
<1> HIDE DEF uses, P, known, B
<1>10. ASSUME NEW v \in Provided(es), v \in Known PROVE v \in B
  <2>1. PICK i \in DOMAIN P : P[i].name \in ToSet(uses) /\ v \in ToSet(ItemNames(P[i].items))
    BY <1>4
  <2>2. v \in Named3
    BY <1>8, <1>10, <2>1 DEF Named3
  <2>3. i \in Brings(doc)
    BY <1>7, <2>1, <2>2
  <2>4. P[i].name \in DOMAIN known /\ v \in ToSet(known[P[i].name])
    BY <1>5, <1>6, <2>1, <2>2, <2>3
  <2>5. PICK k \in 1 .. Len(uses) : uses[k] = P[i].name
    BY <1>2, <2>1
  <2> QED
    BY <1>3, <2>4, <2>5
<1>11. ASSUME NEW v \in B PROVE v \in Provided(es)
  <2>1. PICK k \in 1 .. Len(uses) : uses[k] \in DOMAIN known /\ v \in ToSet(known[uses[k]])
    BY <1>3
  <2>2. PICK i \in Brings(doc) : P[i].name = uses[k]
    BY <1>5, <2>1
  <2>3. v \in ToSet(ItemNames(P[i].items)) /\ i \in DOMAIN P
    BY <1>5, <1>6, <1>9, <2>1, <2>2
  <2>4. P[i].name \in ToSet(uses)
    BY <1>2, <2>2
  <2> QED
    BY <1>4, <2>3, <2>4
<1> QED
  BY <1>10, <1>11 DEF uses, B, known

\* The members of a group of the document that are known, through YAML.
LEMMA YamlGrown ==
  ASSUME doc \in Document, reader = "yaml", Blank \notin Known, NEW i \in DOMAIN doc.groups,
         ToSet(Listed(Entries(doc.groups[i]), "use")) \cap Known = {}
  PROVE  Grown(Only(YamlMembers[i], Known), Only(Listed(Entries(doc.groups[i]), "proxies"), Known),
               Provided(Entries(doc.groups[i])) \cap Known)
<1> DEFINE es == Entries(doc.groups[i])
           listed == Listed(es, "proxies")
           uses == Listed(es, "use")
           known == NamesOfProvider(doc)
<1>1. es \in Seq(Entries3)
  <2>1. doc.groups \in Seq(Item)
    BY DocumentFact, ItemsFact
  <2>2. doc.groups[i] \in Item
    BY <2>1, Element
  <2> QED
    BY <2>2, EntriesFact
<1>2. YamlMembers[i] = AllMembers(listed, uses, known)
  BY DEF YamlMembers
<1>3. ToSet(uses) \cap Known = {}
  OBVIOUS
<1>4. \A n \in DOMAIN known : known[n] \in Seq(Text)
  BY ProviderFact
<1>5. Brought(uses, known, Len(uses)) \cap Known = Provided(es) \cap Known
  <2> HIDE DEF es
  <2> QED
    BY <1>1, BroughtFact
<1>6. listed \in Seq(Text) /\ uses \in Seq(Text)
  <2> HIDE DEF es
  <2> QED
    BY <1>1, ListedFact
<1> HIDE DEF es, listed, uses, known
<1>7. Grown(Only(AllMembers(listed, uses, known), Known), Only(listed, Known),
            Brought(uses, known, Len(uses)) \cap Known)
  BY <1>3, <1>4, <1>6, AllMembersGrow
<1>8. Grown(Only(YamlMembers[i], Known), Only(listed, Known), Provided(es) \cap Known)
  BY <1>2, <1>5, <1>7
<1> QED
  BY <1>8 DEF es, listed

-----------------------------------------------------------------------------
(* The members that arrive through the lines *)

\* One more sequence.
LEMMA FlattenAppend ==
  ASSUME NEW X, NEW ss \in Seq(Seq(X)), NEW s \in Seq(X)
  PROVE  Same(FlattenSeq(Append(ss, s)), FlattenSeq(ss) \o s)
<1> DEFINE N == Len(ss)
           tt == Append(ss, s)
<1>1. /\ N \in Nat /\ tt \in Seq(Seq(X)) /\ Len(tt) = N + 1 /\ tt[N + 1] = s
      /\ \A n \in 1 .. N : tt[n] = ss[n] /\ n \in 1 .. N + 1
      /\ N + 1 \in 1 .. N + 1 /\ (N + 1) - 1 = N
  OBVIOUS
<1> HIDE DEF N, tt
<1>2. PICK f : Joins(f, ss, X) /\ FlattenSeq(ss) = f[N]
  BY FlattenRecursion DEF N
<1>3. PICK g : Joins(g, tt, X) /\ FlattenSeq(tt) = g[Len(tt)]
  BY <1>1, FlattenRecursion
<1>4. /\ f[0] = <<>> /\ g[0] = <<>>
      /\ \A n \in 1 .. N : f[n] = f[n - 1] \o ss[n]
      /\ \A n \in 1 .. N : g[n] = g[n - 1] \o tt[n]
      /\ g[N + 1] = g[(N + 1) - 1] \o tt[N + 1]
  BY <1>1, <1>2, <1>3 DEF Joins, N
<1> DEFINE T == {n \in Nat : f[n] = g[n]}
<1>5. 0 \in T
  BY <1>4
<1>6. ASSUME NEW m \in 1 .. N, m - 1 \in T PROVE m \in T
  <2>1. f[m - 1] = g[m - 1] /\ m \in Nat
    BY <1>6
  <2>2. f[m] = g[m]
    BY <1>1, <1>4, <2>1
  <2> QED
    BY <2>1, <2>2
<1> HIDE DEF T
<1>7. N \in T
  BY <1>1, <1>5, <1>6, UpTo
<1>8. f[N] = g[N]
  BY <1>7 DEF T
<1>9. g[Len(tt)] = g[N] \o s
  BY <1>1, <1>4
<1> QED
  BY <1>2, <1>3, <1>8, <1>9 DEF Same, tt

\* One more entry.
LEMMA ListedAppend ==
  ASSUME NEW es \in Seq(Entries3), NEW e \in Entries3, NEW key
  PROVE  Same(Listed(es \o <<e>>, key),
              IF e.sec = Blank /\ e.key = key THEN Append(Listed(es, key), e.val) ELSE Listed(es, key))
<1> DEFINE M(x) == IF x.sec = Blank /\ x.key = key THEN <<x.val>> ELSE <<>>
           N == Len(es)
           ts == es \o <<e>>
           ss == [i \in DOMAIN es |-> M(es[i])]
           tt == [i \in DOMAIN ts |-> M(ts[i])]
<1>1. /\ N \in Nat /\ DOMAIN es = 1 .. N /\ \A i \in 1 .. N : es[i] \in Entries3
      /\ DOMAIN ts = 1 .. N + 1 /\ ts[N + 1] = e /\ \A i \in 1 .. N : ts[i] = es[i]
  OBVIOUS
<1>2. \A x \in Entries3 : M(x) \in Seq(Text) /\ x.val \in Text
  <2>1. \A x \in Entries3 : x.val \in Text
    BY DEF Entries3
  <2> QED
    BY <2>1
<1>3. Listed(ts, key) = FlattenSeq(tt) /\ Listed(es, key) = FlattenSeq(ss)
  BY DEF Listed
<1> HIDE DEF N, ts, M
<1>4. ss \in Seq(Seq(Text)) /\ Len(ss) = N /\ \A i \in 1 .. N : ss[i] = M(es[i])
  BY <1>1, <1>2
<1>5. /\ tt \in Seq(Seq(Text)) /\ Len(tt) = N + 1 /\ tt[N + 1] = M(e)
      /\ \A i \in 1 .. N : tt[i] = M(es[i])
  <2>1. \A i \in 1 .. N + 1 : ts[i] \in Entries3
    <3>1. \A i \in 1 .. N + 1 : i \in 1 .. N \/ i = N + 1
      BY <1>1
    <3> QED
      BY <1>1, <3>1
  <2>2. N + 1 \in 1 .. N + 1 /\ \A i \in 1 .. N : i \in 1 .. N + 1
    BY <1>1
  <2> QED
    BY <1>1, <1>2, <2>1, <2>2
<1> HIDE DEF ss, tt
<1>6. tt = Append(ss, M(e))
  <2> DEFINE uu == Append(ss, M(e))
  <2>1. M(e) \in Seq(Text)
    BY <1>2
  <2>2. uu \in Seq(Seq(Text)) /\ Len(uu) = N + 1 /\ uu[N + 1] = M(e) /\ \A i \in 1 .. N : uu[i] = ss[i]
    BY <1>1, <1>4, <2>1
  <2> HIDE DEF uu
  <2>3. \A i \in 1 .. Len(tt) : tt[i] = uu[i]
    <3>1. \A i \in 1 .. N + 1 : i \in 1 .. N \/ i = N + 1
      BY <1>1
    <3> QED
      BY <1>4, <1>5, <2>2, <3>1
  <2>4. tt = uu
    BY <1>5, <2>2, <2>3, EqualSequences
  <2> QED
    BY <2>4 DEF uu
<1>7. Same(FlattenSeq(Append(ss, M(e))), FlattenSeq(ss) \o M(e))
  BY <1>2, <1>4, FlattenAppend
<1> DEFINE l == Listed(es, key)
<1>8. l \in Seq(Text)
  BY ListedFact
<1>9. Listed(ts, key) = l \o M(e)
  BY <1>3, <1>6, <1>7 DEF Same
<1> HIDE DEF l
<1>10. CASE e.sec = Blank /\ e.key = key
  <2>1. M(e) = <<e.val>> /\ e.val \in Text
    BY <1>2, <1>10 DEF M
  <2>2. Append(l, e.val) = l \o <<e.val>>
    BY <1>8, <2>1, AppendOne
  <2> QED
    BY <1>9, <1>10, <2>1, <2>2 DEF Same, l, ts
<1>11. CASE ~ (e.sec = Blank /\ e.key = key)
  <2>1. M(e) = <<>>
    BY <1>11 DEF M
  <2>2. l \o <<>> = l
    BY <1>8
  <2> QED
    BY <1>9, <1>11, <2>1, <2>2 DEF Same, l, ts
<1> QED
  BY <1>10, <1>11

\* Nothing is kept of what K has nothing of.
LEMMA OnlyNone ==
  ASSUME NEW s \in Seq(Text), NEW K, ToSet(s) \cap K = {}
  PROVE  Only(s, K) = <<>>
<1> DEFINE t == Only(s, K)
<1>1. t \in Seq(Text) /\ ToSet(t) = {}
  BY OnlyKeeps
<1> HIDE DEF t
<1>2. t = <<>>
  <2>1. SUFFICES ASSUME t # <<>> PROVE FALSE
    OBVIOUS
  <2>2. 1 \in DOMAIN t
    BY <1>1, <2>1
  <2> QED
    BY <1>1, <2>2 DEF ToSet
<1> QED
  BY <1>2 DEF t

\* What a line of a block group says.
LEMMA GroupEntry ==
  ASSUME NEW item \in GroupItem, ~ IsFlow(item), ~ Headless(item), NEW i \in 1 .. Len(item),
         ~ (item[i].kind = "key" /\ item[i].key = "proxies")
  PROVE  \/ item[i].kind # "item" /\ EntriesOf(item, i) = <<>>
         \/ \E e \in Entries3 : /\ EntriesOf(item, i) = <<e>>
                                /\ item[i].kind # "item" => e.key # "proxies"
                                /\ item[i].kind = "item" =>
                                     e.sec = Blank /\ e.key \in {"proxies", "use"} /\ e.val = item[i].val
<1> DEFINE j == Above(item)[i]
<1>1. /\ item \in Item /\ item \in Seq(LineShape) /\ Len(item) \in Nat /\ DOMAIN item = 1 .. Len(item)
      /\ item[i].entries = <<>> /\ (item[i].kind = "item" => j # 0)
  <2>1. item \in Item
    BY ItemsFact
  <2>2. /\ item \in Seq(LineShape) /\ Len(item) \in Nat /\ DOMAIN item = 1 .. Len(item)
        /\ item[1].kind # "first"
        /\ i > 1 => item[i].kind \in {"key", "open", "item"}
        /\ item[i].kind # "first" => item[i].entries = <<>>
        /\ item[i].kind = "item" => j # 0
    BY <2>1, BlockFact
  <2>3. item[i].kind # "first"
    <3>1. i = 1 \/ i > 1
      BY <2>2
    <3> QED
      BY <2>2, <3>1
  <2> QED
    BY <2>1, <2>2, <2>3
<1>2. item[i].key \in Text /\ item[i].val \in Text
  <2>1. item[i] \in LineShape
    BY <1>1
  <2> QED
    BY <2>1 DEF LineShape
<1>3. j \in 0 .. i - 1
  BY <1>1, AboveFact
<1>4. j \in 0 .. Len(item)
  BY <1>1, <1>3
<1>5. \A sec \in Text \cup {"ws-headers"}, key \in Text \cup {"name"}, val \in Text :
        LET e == Entry(sec, key, val) IN e \in Entries3 /\ e.sec = sec /\ e.key = key /\ e.val = val
  BY DEF Entry, Entries3
<1>6. CASE item[i].kind = "name"
  <2> DEFINE e == Entry(Blank, "name", item[i].val)
  <2>1. EntriesOf(item, i) = <<e>>
    BY <1>6 DEF EntriesOf
  <2>2. e \in Entries3 /\ e.key = "name"
    <3>1. Blank \in Text
      BY TextAssumption
    <3> QED
      BY <1>2, <3>1 DEF Entry, Entries3
  <2> HIDE DEF e
  <2> QED
    BY <1>6, <2>1, <2>2
<1>7. CASE item[i].kind = "key"
  <2> DEFINE e == Entry(SectionBelow(item, j), item[i].key, item[i].val)
  <2>1. EntriesOf(item, i) = <<e>>
    BY <1>7 DEF EntriesOf
  <2>2. e \in Entries3 /\ e.key = item[i].key
    <3>1. SectionBelow(item, j) \in Text \cup {"ws-headers"}
      BY <1>1, <1>4, SectionBelowFact
    <3> DEFINE sec == SectionBelow(item, j)
    <3>2. sec \in Text \cup {"ws-headers"} /\ e = Entry(sec, item[i].key, item[i].val)
      BY <3>1
    <3> HIDE DEF sec, e
    <3> QED
      BY <1>2, <3>2 DEF Entry, Entries3
  <2> HIDE DEF e
  <2> QED
    BY <1>7, <2>1, <2>2
<1>8. CASE item[i].kind = "item"
  <2> DEFINE e == Entry(SectionBelow(item, Above(item)[j]), item[j].key, item[i].val)
  <2>1. EntriesOf(item, i) = <<e>>
    BY <1>8 DEF EntriesOf
  <2>2. item[j].key \in {"proxies", "use"} /\ Above(item)[j] = 0
    BY <1>1, <1>8 DEF GroupItem
  <2>3. SectionBelow(item, Above(item)[j]) = Blank
    BY <2>2 DEF SectionBelow
  <2>4. j \in 1 .. Len(item)
    BY <1>1, <1>4, <1>8
  <2>5. item[j].key \in Text /\ Blank \in Text
    <3>1. item[j] \in LineShape
      BY <1>1, <2>4
    <3> QED
      BY <3>1, TextAssumption DEF LineShape
  <2> HIDE DEF j
  <2>6. e \in Entries3 /\ e.sec = Blank /\ e.key = item[j].key /\ e.val = item[i].val
    BY <1>2, <1>5, <2>3, <2>5
  <2> HIDE DEF e
  <2> QED
    BY <1>8, <2>1, <2>2, <2>6
<1>9. CASE item[i].kind \notin {"name", "key", "item"}
  <2>1. EntriesOf(item, i) = <<>>
    BY <1>1, <1>9 DEF EntriesOf
  <2> QED
    BY <1>9, <2>1
<1> QED
  BY <1>6, <1>7, <1>8, <1>9

\* Of the members that the lines of a block group list, those are known that
\* YAML would list under proxies.
LEMMA BlockMembers ==
  ASSUME NEW item \in GroupItem, ~ IsFlow(item), ~ Headless(item), NEW K,
         ToSet(Listed(Entries(item), "use")) \cap K = {},
         ~ \E l \in ToSet(item) : l.kind = "key" /\ l.key = "proxies"
  PROVE  /\ FlattenSeq(Vals(item)) \in Seq(Text)
         /\ Only(FlattenSeq(Vals(item)), K) = Only(Listed(Entries(item), "proxies"), K)
<1> DEFINE N == Len(item)
           ss == [i \in DOMAIN item |-> EntriesOf(item, i)]
           vv == Vals(item)
<1>1. /\ item \in Item /\ item \in Seq(LineShape) /\ N \in Nat /\ DOMAIN item = 1 .. N
      /\ \A i \in 1 .. N : item[i].val \in Text
  <2>1. item \in Item /\ item \in Seq(LineShape) /\ N \in Nat /\ DOMAIN item = 1 .. N
    BY ItemsFact, BlockFact
  <2>2. \A i \in 1 .. N : item[i] \in LineShape
    BY <2>1
  <2> QED
    BY <2>1, <2>2 DEF LineShape
<1>2. Entries(item) = FlattenSeq(ss)
  BY DEF Entries, EntriesOf
<1>3. ss \in Seq(Seq(Entries3)) /\ Len(ss) = N /\ \A i \in 1 .. N : ss[i] = EntriesOf(item, i)
  <2>1. PICK n \in 1 .. Len(item) : NamedOn(item, n)
    BY <1>1, BlockFact
  <2>2. \A i \in 1 .. N : EntriesOf(item, i) \in Seq(Entries3)
    BY <1>1, <2>1, EntriesOfFact
  <2> QED
    BY <1>1, <2>2
<1>4. vv \in Seq(Seq(Text)) /\ Len(vv) = N /\ \A i \in 1 .. N : vv[i] = IF item[i].kind = "item" THEN <<item[i].val>> ELSE <<>>
  BY <1>1, ValsFact
<1>5. \A i \in 1 .. N : ~ (item[i].kind = "key" /\ item[i].key = "proxies")
  BY <1>1 DEF ToSet
<1> HIDE DEF N, ss, vv
<1>6. PICK f : Joins(f, ss, Entries3) /\ FlattenSeq(ss) = f[N]
  BY <1>3, FlattenRecursion
<1>7. PICK h : Joins(h, vv, Text) /\ FlattenSeq(vv) = h[N]
  BY <1>4, FlattenRecursion
<1>8. /\ \A n \in 0 .. N : f[n] \in Seq(Entries3) /\ h[n] \in Seq(Text)
      /\ f[0] = <<>> /\ h[0] = <<>>
      /\ \A n \in 1 .. N : f[n] = f[n - 1] \o ss[n] /\ h[n] = h[n - 1] \o vv[n]
  BY <1>3, <1>4, <1>6, <1>7 DEF Joins
\* What an entry under use lists is not in K.
<1>9. ASSUME NEW n \in 1 .. N, NEW e \in Entries3, EntriesOf(item, n) = <<e>>, e.sec = Blank, e.key = "use"
      PROVE  e.val \notin K
  <2> DEFINE es == Entries(item)
  <2>1. es \in Seq(Entries3) /\ ToSet(es) = UNION {ToSet(ss[i]) : i \in DOMAIN ss}
    BY <1>2, <1>3, FlattenFact
  <2>2. e \in ToSet(ss[n]) /\ n \in DOMAIN ss
    <3>1. ToSet(<<e>>) = {e}
      BY OneElement
    <3>2. DOMAIN ss = 1 .. N
      BY <1>3
    <3> QED
      BY <1>3, <1>9, <3>1, <3>2
  <2> HIDE DEF es
  <2>3. PICK i \in DOMAIN es : es[i] = e
    <3>1. e \in ToSet(es)
      BY <2>1, <2>2
    <3> QED
      BY <3>1 DEF ToSet
  <2>4. e.val \in ToSet(Listed(es, "use"))
    BY <1>9, <2>1, <2>3, ListedSet
  <2> QED
    BY <2>4 DEF es
<1> DEFINE L(n) == Listed(f[n], "proxies")
           T == {n \in Nat : Only(h[n], K) = Only(L(n), K)}
<1>10. \A n \in 0 .. N : L(n) \in Seq(Text)
  BY <1>8, ListedFact
<1>11. 0 \in T
  <2>1. L(0) = <<>>
    <3> DEFINE M == [i \in DOMAIN <<>> |-> IF (<<>>)[i].sec = Blank /\ (<<>>)[i].key = "proxies" THEN <<(<<>>)[i].val>> ELSE <<>>]
    <3>1. Listed(<<>>, "proxies") = FlattenSeq(M)
      BY DEF Listed
    <3>2. M = <<>>
      OBVIOUS
    <3>3. FlattenSeq(<<>>) = <<>>
      <4> DEFINE none == <<>>
      <4>1. none \in Seq(Seq(Text)) /\ Len(none) = 0
        OBVIOUS
      <4> HIDE DEF none
      <4>2. PICK q : Joins(q, none, Text) /\ FlattenSeq(none) = q[Len(none)]
        BY <4>1, FlattenRecursion
      <4>3. FlattenSeq(none) = <<>>
        BY <4>1, <4>2 DEF Joins
      <4> QED
        BY <4>3 DEF none
    <3> HIDE DEF M
    <3> QED
      BY <1>8, <3>1, <3>2, <3>3
  <2> HIDE DEF L
  <2> QED
    BY <1>8, <2>1
<1>12. ASSUME NEW n \in 1 .. N, n - 1 \in T PROVE n \in T
  <2> DEFINE a == h[n - 1]
             g == f[n - 1]
             l == L(n - 1)
             v == item[n].val
  <2>1. a \in Seq(Text) /\ g \in Seq(Entries3) /\ l \in Seq(Text) /\ v \in Text /\ n \in Nat
    <3>1. n - 1 \in 0 .. N /\ n \in Nat
      BY <1>1
    <3> HIDE DEF L
    <3> QED
      BY <1>1, <1>8, <1>10, <3>1
  <2>2. Only(a, K) = Only(l, K)
    BY <1>12
  <2>3. SUFFICES Only(h[n], K) = Only(L(n), K)
    BY <2>1
  <2>4. f[n] = g \o EntriesOf(item, n) /\ h[n] = a \o (IF item[n].kind = "item" THEN <<v>> ELSE <<>>)
    BY <1>3, <1>4, <1>8
  <2>5. l = Listed(g, "proxies") /\ L(n) = Listed(f[n], "proxies")
    OBVIOUS
  <2>6. \/ item[n].kind # "item" /\ EntriesOf(item, n) = <<>>
        \/ \E e \in Entries3 : /\ EntriesOf(item, n) = <<e>>
                               /\ item[n].kind # "item" => e.key # "proxies"
                               /\ item[n].kind = "item" => e.sec = Blank /\ e.key \in {"proxies", "use"} /\ e.val = v
    BY <1>5, GroupEntry DEF N
  <2> HIDE DEF a, g, l, v, L
  <2>7. a \o <<>> = a /\ g \o <<>> = g /\ Append(a, v) = a \o <<v>>
    BY <2>1, AppendOne
  <2>8. CASE item[n].kind # "item" /\ EntriesOf(item, n) = <<>>
    BY <2>2, <2>4, <2>5, <2>7, <2>8
  <2>9. ASSUME NEW e \in Entries3, EntriesOf(item, n) = <<e>>
        PROVE  L(n) = IF e.sec = Blank /\ e.key = "proxies" THEN Append(l, e.val) ELSE l
    <3>1. Same(Listed(g \o <<e>>, "proxies"),
               IF e.sec = Blank /\ e.key = "proxies" THEN Append(Listed(g, "proxies"), e.val) ELSE Listed(g, "proxies"))
      BY <2>1, ListedAppend
    <3> QED
      BY <2>4, <2>5, <2>9, <3>1 DEF Same
  <2>10. ASSUME NEW e \in Entries3, EntriesOf(item, n) = <<e>>, item[n].kind # "item", e.key # "proxies"
         PROVE  Only(h[n], K) = Only(L(n), K)
    BY <2>2, <2>4, <2>7, <2>9, <2>10
  <2>11. /\ Same(Only(Append(a, v), K), IF v \in K THEN Append(Only(a, K), v) ELSE Only(a, K))
         /\ Same(Only(Append(l, v), K), IF v \in K THEN Append(Only(l, K), v) ELSE Only(l, K))
    BY <2>1, KeptOne
  <2>12. ASSUME NEW e \in Entries3, EntriesOf(item, n) = <<e>>, item[n].kind = "item",
                e.sec = Blank, e.key \in {"proxies", "use"}, e.val = v
         PROVE  Only(h[n], K) = Only(L(n), K)
    <3>1. h[n] = Append(a, v)
      BY <2>4, <2>7, <2>12
    <3>2. CASE e.key = "proxies"
      <4>1. L(n) = Append(l, v)
        BY <2>9, <2>12, <3>2
      <4> QED
        BY <2>2, <2>11, <3>1, <4>1 DEF Same
    <3>3. CASE e.key = "use"
      <4>1. L(n) = l
        BY <2>9, <2>12, <3>3
      <4>2. v \notin K
        BY <1>9, <2>12, <3>3
      <4> QED
        BY <2>2, <2>11, <3>1, <4>1, <4>2 DEF Same
    <3> QED
      BY <2>12, <3>2, <3>3
  <2> QED
    BY <2>6, <2>8, <2>10, <2>12
<1> HIDE DEF T, L
<1>13. N \in T
  BY <1>1, <1>11, <1>12, UpTo
<1>14. Only(h[N], K) = Only(L(N), K) /\ h[N] \in Seq(Text)
  BY <1>1, <1>8, <1>13 DEF T
<1> QED
  BY <1>2, <1>6, <1>7, <1>14 DEF L, vv

\* The members that the line reader finds, known ones only.
LEMMA LinesKept ==
  ASSUME NEW item \in GroupItem, ~ Headless(item), NEW K,
         ToSet(Listed(Entries(item), "use")) \cap K = {},
         ~ \E l \in ToSet(item) : l.kind = "key" /\ l.key = "proxies"
  PROVE  Only(LineMembers(item), K) = Only(Listed(Entries(item), "proxies"), K)
<1> DEFINE es == Entries(item)
           p == Listed(es, "proxies")
           u == Listed(es, "use")
<1>1. item \in Item
  BY ItemsFact
<1>2. p \in Seq(Text) /\ u \in Seq(Text)
  <2>1. es \in Seq(Entries3)
    BY <1>1, EntriesFact
  <2> HIDE DEF es
  <2> QED
    BY <2>1, ListedFact
<1>3. CASE IsFlow(item)
  <2>1. LineMembers(item) = IF p # <<>> THEN p ELSE u
    BY <1>1, <1>3, FlowGroupFact
  <2>2. ToSet(u) \cap K = {}
    OBVIOUS
  <2> HIDE DEF p, u
  <2>3. Only(u, K) = <<>>
    BY <1>2, <2>2, OnlyNone
  <2>4. Only(<<>>, K) = <<>>
    BY TextAssumption, OnlyOne
  <2>5. Only(LineMembers(item), K) = Only(p, K)
    BY <2>1, <2>3, <2>4
  <2> QED
    BY <2>5 DEF p
<1>4. CASE ~ IsFlow(item)
  <2>1. LineMembers(item) = FlattenSeq(Vals(item))
    BY <1>4 DEF LineMembers
  <2> QED
    BY <1>4, <2>1, BlockMembers
<1> QED
  BY <1>3, <1>4

LinesMembers == [i \in DOMAIN doc.groups |-> LineMembers(doc.groups[i])]

\* What the line reader makes of the groups.
LEMMA LinesGroupsOf ==
  ASSUME doc \in Document, reader = "done", NEW x, CleanedLines(x)
  PROVE  GroupsOf(x, LinesMembers)
<1> DEFINE N == Len(doc.groups)
           L == LostGroups(doc.groups)
<1>1. DOMAIN doc.groups = 1 .. N
  BY DocumentFact
<1>2. \A i : i \in GroupsKept <=> i \in 1 .. N /\ i \notin L
  BY <1>1 DEF GroupsKept
<1>3. \A i \in 1 .. N : LinesMembers[i] = LineMembers(doc.groups[i])
  BY <1>1 DEF LinesMembers
<1>4. /\ \A n : (\E b \in Briefs(x.groups) : b[1] = n)
             <=> n # Blank /\ \E i \in 1 .. N : i \notin L /\ NameIn(doc.groups[i]) = n
      /\ \A i \in 1 .. N :
           i \notin L /\ NameIn(doc.groups[i]) # Blank /\ ~ Headless(doc.groups[i])
             => <<NameIn(doc.groups[i]), LineMembers(doc.groups[i])>> \in Briefs(x.groups)
  BY DEF CleanedLines, Handed
<1> HIDE DEF N, L
<1>5. /\ \A n : (\E b \in Briefs(x.groups) : b[1] = n)
             <=> n # Blank /\ \E i \in GroupsKept : NameIn(doc.groups[i]) = n
      /\ \A i \in GroupsKept :
           NameIn(doc.groups[i]) # Blank /\ ~ Headless(doc.groups[i])
             => <<NameIn(doc.groups[i]), LinesMembers[i]>> \in Briefs(x.groups)
  BY <1>2, <1>3, <1>4
<1> QED
  BY <1>5 DEF GroupsOf, CleanedLines

\* For every set of documents of the assumed shape the groups that the reader
\* hands over keep the members they list that are known, and get those of their
\* providers once.  That is every group through YAML; of the lines it is not the
\* group before one that begins with another key than its name, and nothing is
\* said of the members of the latter, which has them from the group before
\* (group_from_yaml, the group part of parse_clash_config and sanitize_config in
\* lib.rs).
THEOREM AllMembersArrive == Spec => []MembersArrive
<1>1. ReaderInv /\ NodesInv /\ GroupsInv => MembersArrive
  <2> SUFFICES ASSUME ReaderInv, NodesInv, GroupsInv, Finished, NEW i \in GroupsKept
               PROVE  LET es     == Entries(doc.groups[i])
                          listed == Only(Listed(es, "proxies"), Known)
                          extra  == (Provided(es) \cap Known) \ ToSet(listed)
                          inline == \E l \in ToSet(doc.groups[i]) : l.kind = "key" /\ l.key = "proxies"
                      IN /\ Written(es, "name") # Blank /\ (listed # <<>> \/ extra # {})
                         /\ ToSet(Listed(es, "use")) \cap Known = {}
                         /\ reader = "yaml" \/ (~ inline /\ ~ Headless(doc.groups[i]))
                         =>
                           \E g \in ToSet(out.groups) :
                             /\ g.name = Written(es, "name")
                             /\ IsPrefix(listed, g.all)
                             /\ ToSet(g.all) = ToSet(listed) \cup extra
                             /\ Len(g.all) = Len(listed) + Cardinality(extra)
    BY DEF MembersArrive
  <2> DEFINE es == Entries(doc.groups[i])
             listed == Only(Listed(es, "proxies"), Known)
             E == Provided(es) \cap Known
             extra == E \ ToSet(listed)
             inline == \E l \in ToSet(doc.groups[i]) : l.kind = "key" /\ l.key = "proxies"
  <2>1. SUFFICES ASSUME NameIn(doc.groups[i]) # Blank, listed # <<>> \/ extra # {},
                        ToSet(Listed(es, "use")) \cap Known = {},
                        reader = "yaml" \/ (~ inline /\ ~ Headless(doc.groups[i]))
                 PROVE  \E g \in ToSet(out.groups) :
                          /\ g.name = NameIn(doc.groups[i])
                          /\ IsPrefix(listed, g.all)
                          /\ ToSet(g.all) = ToSet(listed) \cup extra
                          /\ Len(g.all) = Len(listed) + Cardinality(extra)
    BY DEF NameIn
  <2>2. doc \in Document /\ doc.groups[i] \in GroupItem /\ doc.groups[i] \in Item
    <3>1. doc \in Document
      BY DEF ReaderInv
    <3>2. doc.groups \in Seq(GroupItem)
      BY <3>1, DocumentFact
    <3>3. i \in DOMAIN doc.groups
      BY DEF GroupsKept
    <3>4. doc.groups[i] \in GroupItem
      BY <3>2, <3>3, Element
    <3> QED
      BY <3>1, <3>4, ItemsFact
  <2>3. Blank \notin Known
    BY NamesNotBlank
  <2>4. listed \in Seq(Text)
    <3> DEFINE s == Listed(es, "proxies")
    <3>1. s \in Seq(Text)
      BY <2>2, EntriesFact, ListedFact
    <3> HIDE DEF s
    <3>2. Only(s, Known) \in Seq(Text)
      BY <3>1, OnlyKeeps
    <3> QED
      BY <3>2 DEF s
\* Either reader has the members of the group.
  <2>5. \E x, m : GroupsOf(x, m) /\ Grown(Only(m[i], Known), listed, E)
    <3>1. CASE reader = "yaml"
      <4>1. out = Yaml(doc)
        BY <3>1 DEF NodesInv
      <4>2. PICK x : GroupsOf(x, YamlMembers)
        BY <2>2, <3>1, <4>1, YamlGroupsOf
      <4>3. Grown(Only(YamlMembers[i], Known), listed, E)
        <5>1. i \in DOMAIN doc.groups
          BY DEF GroupsKept
        <5> QED
          BY <2>1, <2>2, <2>3, <3>1, <5>1, YamlGrown
      <4> QED
        BY <4>2, <4>3
    <3>2. CASE reader = "done"
      <4>1. PICK x : CleanedLines(x)
        BY <3>2 DEF GroupsInv
      <4>2. GroupsOf(x, LinesMembers)
        BY <2>2, <3>2, <4>1, LinesGroupsOf
      <4>3. Only(LinesMembers[i], Known) = listed
        <5>1. Only(LineMembers(doc.groups[i]), Known) = listed
          BY <2>1, <2>2, <3>2, LinesKept
        <5> QED
          BY <5>1 DEF LinesMembers, GroupsKept
      <4>4. E = {}
        BY <3>2 DEF Provided
      <4> HIDE DEF listed, E
      <4>5. Grown(listed, listed, E)
        BY <2>4, <4>4, StartsGrown
      <4> QED
        BY <4>2, <4>3, <4>5
    <3> QED
      BY <3>1, <3>2 DEF Finished
  <2>6. PICK x, m : GroupsOf(x, m) /\ Grown(Only(m[i], Known), listed, E)
    BY <2>5
  <2> DEFINE t == Only(m[i], Known)
  <2> HIDE DEF listed, E, es, t
  <2>7. /\ t # <<>> /\ IsPrefix(listed, t) /\ ToSet(t) = ToSet(listed) \cup extra
        /\ Len(t) = Len(listed) + Cardinality(extra)
    BY <2>1, <2>4, <2>6, GrownFact DEF t
  <2>8. PICK g \in ToSet(out.groups) : g.name = NameIn(doc.groups[i]) /\ g.all = t
    BY <2>1, <2>6, <2>7, GroupArrives DEF t
  <2> QED
    BY <2>7, <2>8
<1>2. Init => ReaderInv /\ RulesInv /\ NodesInv /\ GroupsInv
  BY ReaderStart, RulesStart, NodesStart, GroupsStart
<1>3. /\ ReaderInv /\ RulesInv /\ NodesInv /\ GroupsInv /\ [Next]_vars
      => (ReaderInv /\ RulesInv /\ NodesInv /\ GroupsInv)'
  BY ReaderStep, RulesStep, NodesStep, GroupsStep
<1> QED
  BY <1>1, <1>2, <1>3, PTL DEF Spec
=============================================================================
