-------------------------- MODULE NativeCoreProofs --------------------------
(***************************************************************************)
(* The native core, for every set of documents, descriptors and delays, in *)
(* four parts: recursive functions and sequences; the configuration        *)
(* (ConfigAdapter), that is selections, chains of groups, the plan; the    *)
(* safety of the core, for which Plan is an unknown function of            *)
(* configuration and mode; and the refinement of Engine.                   *)
(*                                                                         *)
(* The recursive functions of GroupRouting are read as what they are: some *)
(* solution of an equation.  For each there is a lemma that a solution     *)
(* exists, and what it computes is shown by induction in the form of       *)
(* SetInduction, which needs no operator as a parameter.                   *)
(***************************************************************************)
EXTENDS NativeCore, SequenceTheorems, FiniteSetTheorems, WellFoundedInduction, TLAPS

-----------------------------------------------------------------------------
(* Numbers and recursion *)

\* The order of the numbers, as a relation.
LessThan == {p \in Nat \X Nat : p[1] < p[2]}

\* A set of numbers that is not empty has a least element.
LEMMA LeastExists ==
  ASSUME NEW T \in SUBSET Nat, T # {}
  PROVE  \E x \in T : \A y \in T : x <= y
<1>1. IsWellFoundedOn(LessThan, Nat)
  BY NatLessThanWellFounded DEF OpToRel, LessThan
<1>2. \E x \in T : \A y \in T : ~ (<<y, x>> \in LessThan)
  BY <1>1, WFMin
<1>3. PICK x \in T : \A y \in T : ~ (<<y, x>> \in LessThan)
  BY <1>2
<1>4. ASSUME NEW y \in T PROVE x <= y
  <2>1. x \in Nat /\ y \in Nat /\ <<y, x>> \in Nat \X Nat
    OBVIOUS
  <2>2. ~ (y < x)
    BY <1>3, <2>1 DEF LessThan
  <2> QED
    BY <2>1, <2>2
<1> QED
  BY <1>4

\* Induction over a set of numbers.
LEMMA SetInduction ==
  ASSUME NEW T, 0 \in T, \A n \in Nat : n \in T => n + 1 \in T
  PROVE  Nat \subseteq T
<1> SUFFICES ASSUME Nat \ T # {} PROVE FALSE
  OBVIOUS
<1>1. PICK x \in Nat \ T : \A y \in Nat \ T : x <= y
  BY LeastExists
<1>2. x - 1 \in Nat /\ x - 1 \notin Nat \ T
  BY <1>1
<1> QED
  BY <1>1, <1>2

\* f[0] is z, and each step of st leads to the next value.
Solves(f, S, z, st, N) ==
  f \in [0 .. N -> S] /\ f[0] = z /\ \A n \in 1 .. N : f[n] = st[<<n, f[n - 1]>>]

\* A recursion over 0 .. N, whose step is a function, has a solution.
LEMMA RecursionSolvable ==
  ASSUME NEW S, NEW z \in S, NEW st \in [Nat \X S -> S], NEW N \in Nat
  PROVE  \E f : Solves(f, S, z, st, N)
<1> DEFINE T == {k \in Nat : \E f : Solves(f, S, z, st, k)}
<1>1. 0 \in T
  <2>1. Solves([n \in 0 .. 0 |-> z], S, z, st, 0)
    BY DEF Solves
  <2> QED
    BY <2>1
<1>2. ASSUME NEW k \in Nat, k \in T PROVE k + 1 \in T
  <2>1. PICK f : Solves(f, S, z, st, k)
    BY <1>2
  <2> DEFINE g == [n \in 0 .. k + 1 |-> IF n \in 0 .. k THEN f[n] ELSE st[<<k + 1, f[k]>>]]
  <2>2. f[k] \in S /\ st[<<k + 1, f[k]>>] \in S
    BY <2>1 DEF Solves
  <2>3. g \in [0 .. k + 1 -> S]
    BY <2>1, <2>2 DEF Solves
  <2>4. g[0] = z
    BY <2>1 DEF Solves
  <2>5. ASSUME NEW n \in 1 .. k + 1 PROVE g[n] = st[<<n, g[n - 1]>>]
    <3>1. CASE n = k + 1
      <4>1. g[n - 1] = f[k] /\ g[n] = st[<<k + 1, f[k]>>]
        BY <3>1
      <4> QED
        BY <3>1, <4>1
    <3>2. CASE n \in 1 .. k
      <4>1. n \in 0 .. k /\ n - 1 \in 0 .. k /\ n \in 0 .. k + 1 /\ n - 1 \in 0 .. k + 1
        BY <3>2
      <4>2. g[n] = f[n] /\ g[n - 1] = f[n - 1]
        BY <4>1
      <4> QED
        BY <2>1, <3>2, <4>2 DEF Solves
    <3> QED
      BY <3>1, <3>2
  <2> HIDE DEF g
  <2>6. Solves(g, S, z, st, k + 1)
    BY <2>3, <2>4, <2>5 DEF Solves
  <2> QED
    BY <2>6
<1> HIDE DEF T
<1>3. Nat \subseteq T
  BY <1>1, <1>2, SetInduction
<1> QED
  BY <1>3 DEF T

\* What a sequence holds after one more element.
LEMMA AppendedSet ==
  ASSUME NEW X, NEW s \in Seq(X), NEW e \in X
  PROVE  ToSet(Append(s, e)) = ToSet(s) \cup {e}
<1>1. Len(s) \in Nat /\ Append(s, e) \in Seq(X) /\ Len(Append(s, e)) = Len(s) + 1
  OBVIOUS
<1>2. \A i \in 1 .. Len(s) : Append(s, e)[i] = s[i]
  OBVIOUS
<1>3. Append(s, e)[Len(s) + 1] = e
  OBVIOUS
<1>4. DOMAIN s = 1 .. Len(s) /\ DOMAIN Append(s, e) = 1 .. Len(s) + 1
  OBVIOUS
<1> QED
  BY <1>1, <1>2, <1>3, <1>4 DEF ToSet

\* only[n] is what Only keeps of the first n elements.
Filters(only, s, set, X) ==
  /\ only \in [0 .. Len(s) -> Seq(X)]
  /\ only[0] = <<>>
  /\ \A n \in 1 .. Len(s) :
       only[n] = IF s[n] \in set THEN Append(only[n - 1], s[n]) ELSE only[n - 1]

\* The recursion of Only has a solution, which Only takes the last value of.
LEMMA OnlyRecursion ==
  ASSUME NEW X, NEW s \in Seq(X), NEW set
  PROVE  \E only : Filters(only, s, set, X) /\ Only(s, set) = only[Len(s)]
<1> DEFINE N == Len(s)
           S == Seq(X)
           st == [p \in Nat \X S |-> IF p[1] \in 1 .. N /\ s[p[1]] \in set
                                     THEN Append(p[2], s[p[1]]) ELSE p[2]]
           G(only) == [n \in 0 .. Len(s) |->
                         IF n = 0 THEN <<>>
                         ELSE IF s[n] \in set THEN Append(only[n - 1], s[n]) ELSE only[n - 1]]
           the == CHOOSE only : only = G(only)
<1>0. N \in Nat /\ <<>> \in Seq(X)
  OBVIOUS
<1>1. st \in [Nat \X S -> S]
  OBVIOUS
<1>2. PICK f : Solves(f, S, <<>>, st, N)
  <2>1. <<>> \in S
    OBVIOUS
  <2> HIDE DEF st, N, S
  <2> QED
    BY <1>0, <1>1, <2>1, RecursionSolvable
<1>3. f = G(f)
  <2>1. ASSUME NEW n \in 0 .. N PROVE f[n] = G(f)[n]
    <3>1. CASE n = 0
      BY <1>2, <3>1 DEF Solves
    <3>2. CASE n \in 1 .. N
      <4>0. n \in Nat /\ n - 1 \in 0 .. N
        BY <3>2
      <4>1. f[n - 1] \in Seq(X) /\ <<n, f[n - 1]>> \in Nat \X S
        BY <1>2, <4>0 DEF Solves
      <4>2. f[n] = st[<<n, f[n - 1]>>]
        BY <1>2, <3>2 DEF Solves
      <4> QED
        BY <3>2, <4>1, <4>2
    <3> QED
      BY <3>1, <3>2
  <2>2. f \in [0 .. N -> S]
    BY <1>2 DEF Solves
  <2> QED
    BY <2>1, <2>2
<1>4. the = G(the)
  <2> HIDE DEF G
  <2> QED
    BY <1>3
<1>5. Only(s, set) = the[Len(s)]
  BY DEF Only
<1> HIDE DEF the
<1>6. the[0] = <<>> /\ DOMAIN the = 0 .. Len(s)
  BY <1>4
<1>7. ASSUME NEW n \in 1 .. Len(s)
      PROVE  the[n] = IF s[n] \in set THEN Append(the[n - 1], s[n]) ELSE the[n - 1]
  <2>1. n \in 0 .. Len(s) /\ n # 0
    OBVIOUS
  <2>2. the[n] = G(the)[n]
    BY <1>4
  <2> QED
    BY <2>1, <2>2
<1>8. the \in [0 .. Len(s) -> Seq(X)]
  <2> DEFINE T == {n \in Nat : n <= Len(s) => the[n] \in Seq(X)}
  <2>1. 0 \in T
    BY <1>6
  <2>2. ASSUME NEW n \in Nat, n \in T PROVE n + 1 \in T
    <3>1. SUFFICES ASSUME n + 1 <= Len(s) PROVE the[n + 1] \in Seq(X)
      OBVIOUS
    <3>2. n + 1 \in 1 .. Len(s) /\ n + 1 - 1 = n /\ the[n] \in Seq(X)
      BY <2>2, <3>1
    <3>3. the[n + 1] = IF s[n + 1] \in set THEN Append(the[n], s[n + 1]) ELSE the[n]
      BY <1>7, <3>2
    <3> QED
      BY <3>2, <3>3
  <2> HIDE DEF T
  <2>3. Nat \subseteq T
    BY <2>1, <2>2, SetInduction
  <2>4. ASSUME NEW n \in 0 .. Len(s) PROVE the[n] \in Seq(X)
    BY <2>3 DEF T
  <2>5. the = [n \in 0 .. Len(s) |-> the[n]]
    BY <1>4
  <2> QED
    BY <2>4, <2>5
<1> QED
  BY <1>5, <1>6, <1>7, <1>8 DEF Filters

\* Only keeps exactly the elements that are in the set.
LEMMA OnlyKeeps ==
  ASSUME NEW X, NEW s \in Seq(X), NEW set
  PROVE  /\ Only(s, set) \in Seq(X)
         /\ ToSet(Only(s, set)) = ToSet(s) \cap set
<1>0. PICK only : Filters(only, s, set, X) /\ Only(s, set) = only[Len(s)]
  BY OnlyRecursion
<1>1. /\ only \in [0 .. Len(s) -> Seq(X)] /\ only[0] = <<>>
      /\ \A n \in 1 .. Len(s) :
           only[n] = IF s[n] \in set THEN Append(only[n - 1], s[n]) ELSE only[n - 1]
  BY <1>0 DEF Filters
<1> DEFINE T == {n \in Nat : n <= Len(s) => ToSet(only[n]) = {s[i] : i \in 1 .. n} \cap set}
<1>2. 0 \in T
  BY <1>1 DEF ToSet
<1>3. ASSUME NEW n \in Nat, n \in T PROVE n + 1 \in T
  <2>1. SUFFICES ASSUME n + 1 <= Len(s)
                 PROVE  ToSet(only[n + 1]) = {s[i] : i \in 1 .. n + 1} \cap set
    OBVIOUS
  <2>2. n + 1 \in 1 .. Len(s) /\ n \in 0 .. Len(s) /\ n + 1 - 1 = n
    BY <2>1
  <2>3. only[n] \in Seq(X) /\ s[n + 1] \in X
    BY <1>1, <2>2
  <2>4. only[n + 1] = IF s[n + 1] \in set THEN Append(only[n], s[n + 1]) ELSE only[n]
    BY <1>1, <2>2
  <2>5. ToSet(only[n]) = {s[i] : i \in 1 .. n} \cap set
    BY <1>3, <2>1
  <2>6. {s[i] : i \in 1 .. n + 1} = {s[i] : i \in 1 .. n} \cup {s[n + 1]}
    BY <2>2
  <2>7. ToSet(Append(only[n], s[n + 1])) = ToSet(only[n]) \cup {s[n + 1]}
    BY <2>3, AppendedSet
  <2> QED
    BY <2>4, <2>5, <2>6, <2>7
<1> HIDE DEF T
<1>4. Nat \subseteq T
  BY <1>2, <1>3, SetInduction
<1>5. ToSet(only[Len(s)]) = {s[i] : i \in 1 .. Len(s)} \cap set
  BY <1>4 DEF T
<1>6. ToSet(s) = {s[i] : i \in 1 .. Len(s)}
  BY DEF ToSet
<1>7. only[Len(s)] \in Seq(X)
  BY <1>1
<1> QED
  BY <1>0, <1>5, <1>6, <1>7

\* kept are the elements of the first n of s that are in the set, in their
\* order: f says which ones.
Embeds(f, kept, s, n, set) ==
  /\ f \in [1 .. Len(kept) -> 1 .. n]
  /\ \A i, j \in 1 .. Len(kept) : i < j => f[i] < f[j]
  /\ \A i \in 1 .. Len(kept) : kept[i] = s[f[i]]
  /\ \A k \in 1 .. n : s[k] \in set <=> \E i \in 1 .. Len(kept) : f[i] = k

\* Only keeps the elements in their order.
LEMMA OnlyInOrder ==
  ASSUME NEW X, NEW s \in Seq(X), NEW set
  PROVE  \E f : Embeds(f, Only(s, set), s, Len(s), set)
<1>0. PICK only : Filters(only, s, set, X) /\ Only(s, set) = only[Len(s)]
  BY OnlyRecursion
<1>1. /\ only \in [0 .. Len(s) -> Seq(X)] /\ only[0] = <<>>
      /\ \A n \in 1 .. Len(s) :
           only[n] = IF s[n] \in set THEN Append(only[n - 1], s[n]) ELSE only[n - 1]
  BY <1>0 DEF Filters
<1> DEFINE T == {n \in Nat : n <= Len(s) => \E f : Embeds(f, only[n], s, n, set)}
<1>2. 0 \in T
  <2>1. Len(only[0]) = 0 /\ 1 .. 0 = {}
    BY <1>1
  <2>2. [i \in {} |-> 0] \in [{} -> {}]
    OBVIOUS
  <2>3. Embeds([i \in {} |-> 0], only[0], s, 0, set)
    BY <2>1, <2>2 DEF Embeds
  <2> QED
    BY <2>3
<1>3. ASSUME NEW n \in Nat, n \in T PROVE n + 1 \in T
  <2>1. SUFFICES ASSUME n + 1 <= Len(s)
                 PROVE  \E f : Embeds(f, only[n + 1], s, n + 1, set)
    OBVIOUS
  <2>2. n + 1 \in 1 .. Len(s) /\ n \in 0 .. Len(s) /\ n + 1 - 1 = n
    BY <2>1
  <2> DEFINE kept == only[n]
             e == s[n + 1]
             L == Len(kept)
  <2>3. kept \in Seq(X) /\ e \in X /\ L \in Nat
    BY <1>1, <2>2
  <2>4. only[n + 1] = IF e \in set THEN Append(kept, e) ELSE kept
    BY <1>1, <2>2
  <2>5. PICK f : Embeds(f, kept, s, n, set)
    BY <1>3, <2>1
  <2> HIDE DEF kept, e
  <2>6. /\ \A i \in 1 .. L : f[i] \in 1 .. n /\ kept[i] = s[f[i]]
        /\ \A i, j \in 1 .. L : i < j => f[i] < f[j]
        /\ \A k \in 1 .. n : s[k] \in set <=> \E i \in 1 .. L : f[i] = k
    BY <2>5 DEF Embeds
  <2>7. CASE e \notin set
    <3>1. f \in [1 .. L -> 1 .. n + 1]
      BY <2>5 DEF Embeds
    <3>2. ASSUME NEW k \in 1 .. n + 1
          PROVE  s[k] \in set <=> \E i \in 1 .. L : f[i] = k
      BY <2>6, <2>7, <3>2 DEF e
    <3>3. Embeds(f, kept, s, n + 1, set)
      BY <2>6, <3>1, <3>2 DEF Embeds
    <3> QED
      BY <2>4, <2>7, <3>3
  <2>8. CASE e \in set
    <3> DEFINE more == Append(kept, e)
               g == [i \in 1 .. L + 1 |-> IF i = L + 1 THEN n + 1 ELSE f[i]]
    <3>1. Len(more) = L + 1 /\ more[L + 1] = e /\ \A i \in 1 .. L : more[i] = kept[i]
      BY <2>3
    <3>2. g[L + 1] = n + 1 /\ \A i \in 1 .. L : g[i] = f[i] /\ g[i] \in 1 .. n
      BY <2>3, <2>6
    <3>3. \A i \in 1 .. L + 1 : i \in 1 .. L \/ i = L + 1
      BY <2>3
    <3>4. g \in [1 .. L + 1 -> 1 .. n + 1]
      BY <2>3, <2>6
    <3> HIDE DEF more, g
    <3>5. \A i, j \in 1 .. L + 1 : i < j => g[i] < g[j]
      BY <2>3, <2>6, <3>2, <3>3
    <3>6. \A i \in 1 .. L + 1 : more[i] = s[g[i]]
      BY <2>6, <3>1, <3>2, <3>3 DEF e
    <3>7. ASSUME NEW k \in 1 .. n + 1
          PROVE  s[k] \in set <=> \E i \in 1 .. L + 1 : g[i] = k
      <4>1. CASE k = n + 1
        BY <2>3, <2>8, <3>2, <4>1 DEF e
      <4>2. CASE k \in 1 .. n
        <5>1. s[k] \in set <=> \E i \in 1 .. L : g[i] = k
          BY <2>6, <3>2, <4>2
        <5>2. g[L + 1] # k
          BY <3>2, <4>2
        <5>3. \A i \in 1 .. L : i \in 1 .. L + 1
          BY <2>3
        <5> QED
          BY <3>3, <5>1, <5>2, <5>3
      <4> QED
        BY <4>1, <4>2
    <3>8. Embeds(g, more, s, n + 1, set)
      BY <3>1, <3>4, <3>5, <3>6, <3>7 DEF Embeds
    <3> QED
      BY <2>4, <2>8, <3>8 DEF more
  <2> QED
    BY <2>7, <2>8
<1> HIDE DEF T
<1>4. Nat \subseteq T
  BY <1>2, <1>3, SetInduction
<1>5. \E f : Embeds(f, only[Len(s)], s, Len(s), set)
  BY <1>4 DEF T
<1> QED
  BY <1>0, <1>5

-----------------------------------------------------------------------------
(* Sequences, first indices and names *)

\* A sequence is one over every set that holds its elements.
LEMMA SeqNarrow ==
  ASSUME NEW X, NEW s \in Seq(X), NEW Y, ToSet(s) \subseteq Y
  PROVE  s \in Seq(Y)
<1>1. s \in [1 .. Len(s) -> X] /\ Len(s) \in Nat /\ DOMAIN s = 1 .. Len(s)
  OBVIOUS
<1>2. \A i \in 1 .. Len(s) : s[i] \in Y
  BY <1>1 DEF ToSet
<1>3. s \in [1 .. Len(s) -> Y]
  BY <1>1, <1>2
<1> QED
  BY <1>1, <1>3

\* What stands in a sequence.
LEMMA Element ==
  ASSUME NEW X, NEW s \in Seq(X), NEW i \in DOMAIN s
  PROVE  s[i] \in X /\ s[i] \in ToSet(s)
  BY DEF ToSet

\* The least number of a set.
LEMMA MinIsLeast ==
  ASSUME NEW I \in SUBSET Nat, I # {}
  PROVE  Min(I) \in I /\ \A i \in I : Min(I) <= i
<1>1. \E x \in I : \A y \in I : x <= y
  BY LeastExists
<1> QED
  BY <1>1 DEF Min

\* Named finds a record of that name.
LEMMA NamedFact ==
  ASSUME NEW X, NEW s \in Seq(X), NEW name \in NamesOf(s)
  PROVE  \E i \in DOMAIN s : Named(s, name) = s[i] /\ s[i].name = name
<1> DEFINE I == {i \in 1 .. Len(s) : s[i].name = name}
<1>1. DOMAIN s = 1 .. Len(s) /\ Len(s) \in Nat
  OBVIOUS
<1>2. I \in SUBSET Nat /\ I # {}
  BY <1>1 DEF NamesOf
<1>3. Named(s, name) = s[Min(I)]
  BY <1>2 DEF Named, SelectInSeq
<1>4. Min(I) \in I
  BY <1>2, MinIsLeast
<1> QED
  BY <1>1, <1>3, <1>4

\* GroupIndex finds a group of that name, if it finds one.
LEMMA GroupIndexFact ==
  ASSUME NEW X, config.groups \in Seq(X), NEW name, GroupIndex(name) # 0
  PROVE  GroupIndex(name) \in 1 .. Len(config.groups)
<1> DEFINE I == {i \in 1 .. Len(config.groups) : config.groups[i].name = name}
<1>1. GroupIndex(name) = IF I # {} THEN Min(I) ELSE 0
  BY DEF GroupIndex, SelectInSeq
<1>2. I \in SUBSET Nat /\ I # {}
  BY <1>1
<1>3. Min(I) \in I
  BY <1>2, MinIsLeast
<1> QED
  BY <1>1, <1>2, <1>3

-----------------------------------------------------------------------------
(* Groups and their selections *)

\* A group of a cleaned document: it stands for a member, and its members are
\* no subscription notes.
KeptGroups ==
  {g \in [name : Text \ {NoName}, type : STRING,
           now  : Text \ {NoName}, all  : Seq(Text \ {NoName})] :
     g.now \in ToSet(g.all) /\ ToSet(g.all) \cap Metadata \subseteq GroupNames}

\* The inductive invariant of the adapter.
ConfigInv ==
  /\ config \in [proxies : Seq([name : Text \ {NoName}, chain : Text \cup {Failed}]),
                 groups  : Seq(KeptGroups),
                 rules   : Seq([kind : RuleKinds, hits : SUBSET Dest, target : Text])]
  /\ mode \in Mode
  /\ delay \in [DOMAIN delay -> Int]

\* The members of a group that answered.
AliveIn(g, d) == {k \in DOMAIN g.all : g.all[k] \in DOMAIN d /\ d[g.all[k]] > 0}

\* The member k of g answered first or fastest, as the type of the group wants.
Best(g, d, k) ==
  \A j \in AliveIn(g, d) : IF g.type = "fallback" THEN k <= j ELSE d[g.all[k]] <= d[g.all[j]]

\* BestMember finds the best of those that answered, and nothing if none did
\* or the group does not move by itself.
LEMMA BestMemberFact ==
  ASSUME NEW g \in KeptGroups, NEW d, d \in [DOMAIN d -> Int]
  PROVE  IF AliveIn(g, d) = {} \/ g.type \notin {"url-test", "fallback"}
         THEN BestMember(g, d) = NoName
         ELSE BestMember(g, d) # NoName
              /\ \E k \in AliveIn(g, d) : BestMember(g, d) = g.all[k] /\ Best(g, d, k)
<1> DEFINE alive == AliveIn(g, d)
           better(i, j) == \/ d[g.all[i]] < d[g.all[j]]
                           \/ d[g.all[i]] = d[g.all[j]] /\ i <= j
           fastest == CHOOSE i \in alive : \A j \in alive : better(i, j)
           first == CHOOSE i \in alive : \A j \in alive : i <= j
<1>1. g.all \in Seq(Text \ {NoName}) /\ DOMAIN g.all = 1 .. Len(g.all) /\ Len(g.all) \in Nat
  BY DEF KeptGroups
<1>2. alive \in SUBSET Nat /\ alive \subseteq DOMAIN g.all
  BY <1>1 DEF AliveIn
<1>3. BestMember(g, d) = IF alive = {} THEN NoName
                         ELSE CASE g.type = "url-test" -> g.all[fastest]
                                [] g.type = "fallback" -> g.all[first]
                                [] OTHER -> NoName
  BY DEF BestMember, AliveIn
<1>4. \A k \in alive : d[g.all[k]] \in Nat /\ g.all[k] # NoName
  <2>1. SUFFICES ASSUME NEW k \in alive PROVE d[g.all[k]] \in Nat /\ g.all[k] # NoName
    OBVIOUS
  <2>2. g.all[k] \in Text \ {NoName}
    BY <1>1, <1>2
  <2>3. d[g.all[k]] \in Int /\ d[g.all[k]] > 0
    BY DEF AliveIn
  <2> QED
    BY <2>2, <2>3
<1>5. ASSUME alive # {} PROVE first \in alive /\ \A j \in alive : first <= j
  <2>1. \E i \in alive : \A j \in alive : i <= j
    BY <1>2, <1>5, LeastExists
  <2> HIDE DEF alive
  <2> QED
    BY <2>1
<1>6. ASSUME alive # {} PROVE fastest \in alive /\ \A j \in alive : better(fastest, j)
  <2> DEFINE V == {d[g.all[k]] : k \in alive}
  <2> HIDE DEF alive
  <2>1. V \in SUBSET Nat /\ V # {}
    BY <1>4, <1>6
  <2>2. PICK v \in V : \A w \in V : v <= w
    BY <2>1, LeastExists
  <2> DEFINE I == {k \in alive : d[g.all[k]] = v}
  <2>3. I \in SUBSET Nat /\ I # {}
    BY <1>2
  <2>4. PICK i \in I : \A j \in I : i <= j
    BY <2>3, LeastExists
  <2>5. ASSUME NEW j \in alive PROVE better(i, j)
    <3>1. /\ d[g.all[i]] = v /\ d[g.all[j]] \in V /\ v <= d[g.all[j]]
          /\ v \in Nat /\ d[g.all[j]] \in Nat
      BY <1>4, <2>1, <2>2
    <3>2. CASE d[g.all[j]] = v
      BY <2>4, <3>1, <3>2
    <3>3. CASE d[g.all[j]] # v
      BY <3>1, <3>3
    <3> QED
      BY <3>2, <3>3
  <2>6. \E k \in alive : \A j \in alive : better(k, j)
    BY <2>5
  <2> HIDE DEF better
  <2> QED
    BY <2>6
<1> HIDE DEF fastest, first
<1>7. CASE alive = {} \/ g.type \notin {"url-test", "fallback"}
  BY <1>3, <1>7
<1>8. CASE alive # {} /\ g.type = "url-test"
  <2>1. BestMember(g, d) = g.all[fastest]
    BY <1>3, <1>8
  <2>2. \A j \in alive : d[g.all[fastest]] <= d[g.all[j]]
    BY <1>4, <1>6, <1>8
  <2> QED
    BY <1>4, <1>6, <1>8, <2>1, <2>2 DEF Best
<1>9. CASE alive # {} /\ g.type = "fallback"
  <2>1. BestMember(g, d) = g.all[first]
    BY <1>3, <1>9
  <2> QED
    BY <1>4, <1>5, <1>9, <2>1 DEF Best
<1> QED
  BY <1>7, <1>8, <1>9

\* The groups move to their best members and stay kept.
LEMMA AutoSelectedFact ==
  ASSUME NEW groups \in Seq(KeptGroups), NEW d, d \in [DOMAIN d -> Int]
  PROVE  /\ AutoSelected(groups, d) \in Seq(KeptGroups)
         /\ DOMAIN AutoSelected(groups, d) = DOMAIN groups
         /\ \A i \in DOMAIN groups :
              LET g == AutoSelected(groups, d)[i]
              IN /\ g.all = groups[i].all /\ g.type = groups[i].type
                 /\ IF AliveIn(g, d) = {} \/ g.type \notin {"url-test", "fallback"}
                    THEN g = groups[i]
                    ELSE \E k \in AliveIn(g, d) : g.now = g.all[k] /\ Best(g, d, k)
<1> DEFINE new == AutoSelected(groups, d)
<1>1. DOMAIN groups = 1 .. Len(groups) /\ Len(groups) \in Nat
  OBVIOUS
<1>2. /\ new = [i \in DOMAIN groups |-> new[i]]
      /\ \A i \in DOMAIN groups :
           new[i] = IF BestMember(groups[i], d) = NoName THEN groups[i]
                    ELSE [groups[i] EXCEPT !.now = BestMember(groups[i], d)]
  BY DEF AutoSelected
<1> HIDE DEF new
<1>3. ASSUME NEW i \in DOMAIN groups
      PROVE  /\ new[i] \in KeptGroups
             /\ new[i].all = groups[i].all /\ new[i].type = groups[i].type
             /\ IF AliveIn(new[i], d) = {} \/ new[i].type \notin {"url-test", "fallback"}
                THEN new[i] = groups[i]
                ELSE \E k \in AliveIn(new[i], d) : new[i].now = new[i].all[k] /\ Best(new[i], d, k)
  <2> DEFINE g == groups[i]
             best == BestMember(g, d)
  <2>1. g \in KeptGroups
    BY <1>1
  <2>2. new[i] = IF best = NoName THEN g ELSE [g EXCEPT !.now = best]
    BY <1>2
  <2>3. IF AliveIn(g, d) = {} \/ g.type \notin {"url-test", "fallback"}
        THEN best = NoName
        ELSE best # NoName /\ \E k \in AliveIn(g, d) : best = g.all[k] /\ Best(g, d, k)
    BY <2>1, BestMemberFact
  <2> HIDE DEF g, best
  <2>4. new[i].all = g.all /\ new[i].type = g.type
    BY <2>1, <2>2 DEF KeptGroups
  <2>5. AliveIn(new[i], d) = AliveIn(g, d)
    BY <2>4 DEF AliveIn
  <2>6. ASSUME NEW k \in AliveIn(g, d) PROVE Best(new[i], d, k) <=> Best(g, d, k)
    BY <2>4, <2>5 DEF Best
  <2>7. CASE AliveIn(g, d) = {} \/ g.type \notin {"url-test", "fallback"}
    <3>1. new[i] = g
      BY <2>2, <2>3, <2>7
    <3> QED
      BY <2>1, <2>5, <2>7, <3>1 DEF g
  <2>8. CASE ~ (AliveIn(g, d) = {} \/ g.type \notin {"url-test", "fallback"})
    <3>1. PICK k \in AliveIn(g, d) : best = g.all[k] /\ Best(g, d, k)
      BY <2>3, <2>8
    <3>2. new[i] = [g EXCEPT !.now = best]
      BY <2>2, <2>3, <2>8
    <3>3. new[i].now = best
      BY <2>1, <3>2 DEF KeptGroups
    <3>4. k \in 1 .. Len(g.all) /\ best \in Text \ {NoName} /\ best \in ToSet(g.all)
      BY <2>1, <3>1 DEF KeptGroups, AliveIn, ToSet
    <3>5. new[i] \in KeptGroups
      BY <2>1, <3>2, <3>4 DEF KeptGroups
    <3> QED
      BY <2>4, <2>5, <2>6, <2>8, <3>1, <3>3, <3>5 DEF g
  <2> QED
    BY <2>7, <2>8
<1>4. new \in Seq(KeptGroups)
  <2>1. new \in [1 .. Len(groups) -> KeptGroups]
    BY <1>1, <1>2, <1>3
  <2> QED
    BY <1>1, <2>1
<1> QED
  BY <1>2, <1>3, <1>4 DEF new

\* What cleaning leaves of a group.
LEMMA CleanedFact ==
  ASSUME NEW g \in [name : Text \ {NoName}, type : STRING, now : Text, all : Seq(Text)],
         NEW known, NoName \in Text, NoName \notin known
  PROVE  LET c == Cleaned(g, known)
         IN /\ c \in [name : Text \ {NoName}, type : STRING, now : Text,
                      all : Seq(Text \ {NoName})]
            /\ ToSet(c.all) \subseteq known
            /\ c.all # <<>> => c.now \in ToSet(c.all) /\ c.now # NoName
<1> DEFINE all == Only(g.all, known)
           now == IF g.now \in ToSet(all) \ Metadata THEN g.now
                  ELSE IF all = <<>> THEN NoName ELSE Head(all)
<1>1. all \in Seq(Text) /\ ToSet(all) \subseteq known
  BY OnlyKeeps
<1>2. Cleaned(g, known) = [g EXCEPT !.all = all, !.now = now]
  BY DEF Cleaned
<1>3. ToSet(all) \subseteq Text \ {NoName}
  BY <1>1 DEF ToSet
<1>4. all \in Seq(Text \ {NoName})
  BY <1>1, <1>3, SeqNarrow
<1> HIDE DEF all
<1>5. ASSUME all # <<>> PROVE now \in ToSet(all) /\ now # NoName
  <2>1. Head(all) = all[1] /\ 1 \in DOMAIN all
    BY <1>4, <1>5
  <2>2. Head(all) \in ToSet(all)
    BY <2>1 DEF ToSet
  <2> QED
    BY <1>3, <1>5, <2>2
<1>6. now \in Text
  BY <1>3, <1>5
<1> HIDE DEF now
<1> QED
  BY <1>1, <1>2, <1>4, <1>5, <1>6

\* A cleaned document has kept groups only.
LEMMA SanitizeFact ==
  ASSUME NEW doc \in Doc
  PROVE  LET clean == Sanitize(doc)
         IN /\ clean.proxies \in Seq([name : Text \ {NoName}, chain : Text \cup {Failed}])
            /\ clean.groups \in Seq(KeptGroups)
            /\ clean.rules = doc.rules
<1> DEFINE Nodes == [name : Text \ {NoName}, chain : Text \cup {Failed}]
           Given == [name : Text \ {NoName}, type : STRING, now : Text, all : Seq(Text)]
           Whole == [name : Text \ {NoName}, type : STRING, now : Text, all : Seq(Text \ {NoName})]
           notes == {p \in ToSet(doc.proxies) : p.name \notin Metadata}
           proxies == Only(doc.proxies, notes)
           known == BuiltIn \cup NamesOf(proxies) \cup NamesOf(doc.groups)
           groups == [i \in DOMAIN doc.groups |-> Cleaned(doc.groups[i], known)]
           filled == {g \in ToSet(groups) : g.name # NoName /\ g.all # <<>>}
           kept == Only(groups, filled)
<1>1. doc \in Documents /\ NoName \in Text /\ BuiltIn \subseteq Text \ {NoName}
      /\ BuiltIn \cap Metadata = {}
  BY DocAssumption
<1>2. /\ doc.proxies \in Seq(Nodes)
      /\ doc.groups \in Seq(Given)
  BY <1>1 DEF Documents
<1>3. Sanitize(doc) = [doc EXCEPT !.proxies = proxies, !.groups = kept]
  BY DEF Sanitize
<1>4. proxies \in Seq(Nodes) /\ ToSet(proxies) \subseteq notes
  BY <1>2, OnlyKeeps
<1>5. \A n \in NamesOf(proxies) : n \in Text \ {NoName} /\ n \notin Metadata
  <2>1. SUFFICES ASSUME NEW i \in DOMAIN proxies
                 PROVE  proxies[i].name \in Text \ {NoName} /\ proxies[i].name \notin Metadata
    BY DEF NamesOf
  <2>2. proxies[i] \in Nodes /\ proxies[i] \in notes
    <3> HIDE DEF proxies, notes, Nodes
    <3> QED
      BY <1>4, Element
  <2> QED
    BY <2>2
<1>6. \A n \in NamesOf(doc.groups) : n \in Text \ {NoName} /\ n \in GroupNames
  <2>1. SUFFICES ASSUME NEW i \in DOMAIN doc.groups
                 PROVE  doc.groups[i].name \in Text \ {NoName} /\ doc.groups[i].name \in GroupNames
    BY DEF NamesOf
  <2>2. doc.groups[i].name \in Text \ {NoName}
    <3>1. doc.groups[i] \in Given
      BY <1>2, Element
    <3> QED
      BY <3>1
  <2>3. doc.groups[i].name \in NamesOf(doc.groups)
    BY DEF NamesOf
  <2> QED
    BY <2>2, <2>3 DEF GroupNames
<1>7. NoName \notin known /\ known \cap Metadata \subseteq GroupNames
  BY <1>1, <1>5, <1>6
<1> HIDE DEF proxies, known
<1>8. \A i \in DOMAIN doc.groups :
        /\ groups[i] \in Whole
        /\ ToSet(groups[i].all) \subseteq known
        /\ groups[i].all # <<>> => groups[i].now \in ToSet(groups[i].all) /\ groups[i].now # NoName
  <2>1. SUFFICES ASSUME NEW i \in DOMAIN doc.groups
                 PROVE  /\ groups[i] \in Whole
                        /\ ToSet(groups[i].all) \subseteq known
                        /\ groups[i].all # <<>> => groups[i].now \in ToSet(groups[i].all)
                                                 /\ groups[i].now # NoName
    OBVIOUS
  <2>2. doc.groups[i] \in Given
    BY <1>2, Element
  <2>3. groups[i] = Cleaned(doc.groups[i], known)
    OBVIOUS
  <2> QED
    BY <1>1, <1>7, <2>2, <2>3, CleanedFact
<1>9. groups \in Seq(Whole)
  <2>1. DOMAIN doc.groups = 1 .. Len(doc.groups) /\ Len(doc.groups) \in Nat
    BY <1>2
  <2>2. groups \in [1 .. Len(doc.groups) -> Whole]
    BY <1>8, <2>1
  <2> QED
    BY <2>1, <2>2
<1>10. kept \in Seq(Whole) /\ ToSet(kept) \subseteq filled
  BY <1>9, OnlyKeeps
<1>11. filled \subseteq KeptGroups
  <2>1. SUFFICES ASSUME NEW g \in filled PROVE g \in KeptGroups
    OBVIOUS
  <2>2. PICK i \in DOMAIN doc.groups : g = groups[i]
    BY DEF ToSet
  <2>3. g.all # <<>>
    OBVIOUS
  <2>4. /\ g \in Whole /\ ToSet(g.all) \subseteq known
        /\ g.now \in ToSet(g.all) /\ g.now # NoName
    BY <1>8, <2>2, <2>3
  <2> HIDE DEF filled, groups
  <2> QED
    BY <1>7, <2>4 DEF KeptGroups
<1>12. kept \in Seq(KeptGroups)
  <2> HIDE DEF kept, filled
  <2> QED
    BY <1>10, <1>11, SeqNarrow
<1> HIDE DEF kept
<1>13. doc \in [proxies : Seq(Nodes), groups : {doc.groups}, rules : {doc.rules}, mode : {doc.mode}]
  BY <1>1, <1>2 DEF Documents
<1> QED
  BY <1>3, <1>4, <1>12, <1>13

\* Every step of the adapter keeps the invariant.
LEMMA ConfigStep ==
  ASSUME ConfigInv, [ConfigNext]_configVars
  PROVE  ConfigInv'
<1> DEFINE Nodes == [name : Text \ {NoName}, chain : Text \cup {Failed}]
           Rules == [kind : RuleKinds, hits : SUBSET Dest, target : Text]
<1>1. /\ config \in [proxies : Seq(Nodes), groups : Seq(KeptGroups), rules : Seq(Rules)]
      /\ mode \in Mode /\ delay \in [DOMAIN delay -> Int]
  BY DEF ConfigInv
<1>2. ASSUME NEW doc \in Doc, Parse(doc) PROVE ConfigInv'
  <2> DEFINE clean == Sanitize(doc)
  <2>1. clean.proxies \in Seq(Nodes) /\ clean.groups \in Seq(KeptGroups) /\ clean.rules = doc.rules
    BY SanitizeFact
  <2>2. doc.rules \in Seq(Rules) /\ doc.mode \in Mode
    BY DocAssumption DEF Documents
  <2>3. /\ config' = [proxies |-> clean.proxies, groups |-> clean.groups, rules |-> clean.rules]
        /\ mode' = doc.mode /\ delay' = NothingMeasured
    BY <1>2 DEF Parse
  <2> HIDE DEF clean
  <2>4. NothingMeasured \in [DOMAIN NothingMeasured -> Int]
    BY DEF NothingMeasured
  <2> QED
    BY <2>1, <2>2, <2>3, <2>4 DEF ConfigInv
<1>3. ASSUME NEW name, NEW member, Select(name, member) PROVE ConfigInv'
  <2> DEFINE k == GroupIndex(name)
             g == config.groups[k]
  <2>1. k \in 1 .. Len(config.groups) /\ member \in ToSet(g.all)
    <3>1. k # 0 /\ member \in ToSet(g.all)
      BY <1>3 DEF Select, Selectable
    <3> QED
      BY <1>1, <3>1, GroupIndexFact
  <2>2. /\ config' = [config EXCEPT !.groups[k].now = member]
        /\ mode' = mode /\ delay' = delay
    BY <1>3 DEF Select
  <2> HIDE DEF k
  <2>3. g \in KeptGroups
    BY <1>1, <2>1
  <2>4. member \in Text \ {NoName}
    BY <2>1, <2>3 DEF KeptGroups, ToSet
  <2> DEFINE new == [g EXCEPT !.now = member]
  <2>5. new \in KeptGroups
    BY <2>1, <2>3, <2>4 DEF KeptGroups
  <2>6. config' = [config EXCEPT !.groups = [config.groups EXCEPT ![k] = new]]
    BY <2>2
  <2> HIDE DEF new
  <2>7. [config.groups EXCEPT ![k] = new] \in Seq(KeptGroups)
    BY <1>1, <2>1, <2>5
  <2> QED
    BY <1>1, <2>2, <2>6, <2>7 DEF ConfigInv
<1>4. ASSUME NEW m \in Mode, ChangeMode(m) PROVE ConfigInv'
  BY <1>1, <1>4 DEF ChangeMode, ConfigInv
<1>5. ASSUME NEW n, NEW r \in Delay, Probe(n, r) PROVE ConfigInv'
  <2>1. delay' = Measured(delay, n, r) /\ mode' = mode
        /\ config' = [config EXCEPT !.groups = AutoSelected(config.groups, delay')]
    BY <1>5 DEF Probe
  <2>2. r \in Int
    BY DocAssumption
  <2>3. delay' \in [DOMAIN delay' -> Int]
    BY <1>1, <2>1, <2>2 DEF Measured
  <2>4. AutoSelected(config.groups, delay') \in Seq(KeptGroups)
    BY <1>1, <2>3, AutoSelectedFact
  <2> QED
    BY <1>1, <2>1, <2>3, <2>4 DEF ConfigInv
<1>6. CASE UNCHANGED configVars
  BY <1>1, <1>6 DEF configVars, ConfigInv
<1> QED
  BY <1>2, <1>3, <1>4, <1>5, <1>6 DEF ConfigNext, Edit

\* The configuration is well typed in every reachable state, and its groups are
\* kept ones.
THEOREM ConfigInvHolds == ConfigSpec => []ConfigInv
<1>1. ConfigInit => ConfigInv
  <2>1. ASSUME ConfigInit PROVE ConfigInv
    <3>1. /\ <<>> \in Seq(KeptGroups)
          /\ <<>> \in Seq([name : Text \ {NoName}, chain : Text \cup {Failed}])
          /\ <<>> \in Seq([kind : RuleKinds, hits : SUBSET Dest, target : Text])
      OBVIOUS
    <3>2. config = [proxies |-> <<>>, groups |-> <<>>, rules |-> <<>>] /\ mode \in Mode
      BY <2>1 DEF ConfigInit, Empty, Mode
    <3>3. delay \in [DOMAIN delay -> Int]
      BY <2>1 DEF ConfigInit, NothingMeasured
    <3> QED
      BY <3>1, <3>2, <3>3 DEF ConfigInv
  <2> QED
    BY <2>1
<1>2. ConfigInv /\ [ConfigNext]_configVars => ConfigInv'
  BY ConfigStep
<1> QED
  BY <1>1, <1>2, PTL DEF ConfigSpec

\* Every group stands for one of its own members and offers no subscription
\* note, whatever documents, selections and probes came before.
THEOREM GroupsStandForMembers == ConfigSpec => []SelectionsAreMembers
<1>1. ConfigInv => SelectionsAreMembers
  <2>1. SUFFICES ASSUME ConfigInv, NEW i \in DOMAIN config.groups
                 PROVE  LET g == config.groups[i]
                        IN g.now \in ToSet(g.all) /\ ToSet(g.all) \cap Metadata \subseteq GroupNames
    BY DEF SelectionsAreMembers
  <2>2. config.groups[i] \in KeptGroups
    BY <2>1 DEF ConfigInv
  <2> QED
    BY <2>2 DEF KeptGroups
<1> QED
  BY <1>1, ConfigInvHolds, PTL

\* What a probe does to the groups.
Moved(n, r) ==
  Probe(n, r) =>
    \A i \in DOMAIN config.groups :
      LET g     == config.groups'[i]
          alive == {k \in DOMAIN g.all : g.all[k] \in DOMAIN delay' /\ delay'[g.all[k]] > 0}
      IN IF alive = {} \/ g.type \notin {"url-test", "fallback"} THEN g = config.groups[i]
         ELSE \E k \in alive :
                /\ g.now = g.all[k]
                /\ \A j \in alive : IF g.type = "fallback" THEN k <= j
                                     ELSE delay'[g.all[k]] <= delay'[g.all[j]]

\* A probe moves the url-test groups to a fastest member, the fallback groups to
\* the first that answered, and nothing else.
THEOREM ProbesMoveGroups == ConfigSpec => AutoGroupsMove
<1>1. ASSUME ConfigInv, NEW n \in Names, NEW r \in Delay PROVE Moved(n, r)
  <2>1. SUFFICES ASSUME Probe(n, r), NEW i \in DOMAIN config.groups
                 PROVE  LET g     == config.groups'[i]
                            alive == {k \in DOMAIN g.all :
                                        g.all[k] \in DOMAIN delay' /\ delay'[g.all[k]] > 0}
                        IN IF alive = {} \/ g.type \notin {"url-test", "fallback"}
                           THEN g = config.groups[i]
                           ELSE \E k \in alive :
                                  /\ g.now = g.all[k]
                                  /\ \A j \in alive : IF g.type = "fallback" THEN k <= j
                                                       ELSE delay'[g.all[k]] <= delay'[g.all[j]]
    BY DEF Moved
  <2>2. delay' = Measured(delay, n, r)
        /\ config' = [config EXCEPT !.groups = AutoSelected(config.groups, delay')]
    BY <2>1 DEF Probe
  <2>3. r \in Int
    BY DocAssumption
  <2>4. config.groups \in Seq(KeptGroups) /\ delay \in [DOMAIN delay -> Int]
    BY <1>1 DEF ConfigInv
  <2>5. delay' \in [DOMAIN delay' -> Int]
    BY <2>2, <2>3, <2>4 DEF Measured
  <2>6. config'.groups = AutoSelected(config.groups, delay')
    BY <1>1, <2>2 DEF ConfigInv
  <2> DEFINE d == delay'
             news == config'.groups
             olds == config.groups
             new == news[i]
  <2>8. d \in [DOMAIN d -> Int] /\ news = AutoSelected(olds, d)
        /\ olds \in Seq(KeptGroups) /\ i \in DOMAIN olds
    BY <2>1, <2>4, <2>5, <2>6
  <2> HIDE DEF d, news, olds
  <2>7. IF AliveIn(new, d) = {} \/ new.type \notin {"url-test", "fallback"}
        THEN new = olds[i]
        ELSE \E k \in AliveIn(new, d) : new.now = new.all[k] /\ Best(new, d, k)
    BY <2>8, AutoSelectedFact
  <2> QED
    BY <2>7 DEF AliveIn, Best, d, news, olds
<1>2. ConfigInv => \A n \in Names, r \in Delay : Moved(n, r)
  BY <1>1
<1> QED
  BY <1>2, ConfigInvHolds, PTL DEF AutoGroupsMove, Moved

-----------------------------------------------------------------------------
(* Chains of selections *)

\* Everything a chain of selections from t can meet.
Meets(t) ==
  BuiltIn \cup NamesOf(config.groups) \cup NamesOf(config.proxies) \cup {t, NoName}
    \cup UNION {ToSet(config.groups[i].all) : i \in DOMAIN config.groups}

\* One step along the selections; the end of a chain stays where it is.
Follow(u) == IF IsGroup(u) THEN Next1(u) ELSE u

\* A group stands for one of its members, so no step leaves the chain's range.
LEMMA FollowMeets ==
  ASSUME ConfigInv, NEW t, NEW u \in Meets(t)
  PROVE  Follow(u) \in Meets(t)
<1>1. CASE ~ IsGroup(u)
  BY <1>1 DEF Follow
<1>2. CASE IsGroup(u)
  <2>1. config.groups \in Seq(KeptGroups) /\ u \in NamesOf(config.groups)
    BY <1>2 DEF ConfigInv, IsGroup
  <2>2. PICK i \in DOMAIN config.groups : Named(config.groups, u) = config.groups[i]
    BY <2>1, NamedFact
  <2>3. config.groups[i] \in KeptGroups
    BY <2>1, Element
  <2>4. Selected(config.groups[i]) \in ToSet(config.groups[i].all)
    BY <2>3 DEF Selected, KeptGroups
  <2> QED
    BY <1>2, <2>2, <2>4 DEF Follow, Next1, Meets
<1> QED
  BY <1>1, <1>2

\* The chain of selections from t, step by step, as far as Resolve may go.
Walk(w, t) ==
  /\ w \in [0 .. Len(config.groups) + 2 -> Meets(t)]
  /\ w[0] = t
  /\ \A k \in 1 .. Len(config.groups) + 2 : w[k] = Follow(w[k - 1])

\* There is such a walk from every target.
LEMMA WalkExists ==
  ASSUME ConfigInv, NEW t
  PROVE  \E w : Walk(w, t)
<1> DEFINE N == Len(config.groups) + 2
           V == Meets(t)
           st == [p \in Nat \X V |-> Follow(p[2])]
<1>1. N \in Nat /\ t \in V
  BY DEF ConfigInv, Meets
<1>2. st \in [Nat \X V -> V]
  <2>1. \A p \in Nat \X V : Follow(p[2]) \in V
    BY FollowMeets
  <2> QED
    BY <2>1
<1> HIDE DEF V, N
<1>3. PICK w : Solves(w, V, t, st, N)
  <2> HIDE DEF st
  <2> QED
    BY <1>1, <1>2, RecursionSolvable
<1>4. w \in [0 .. N -> V] /\ w[0] = t /\ \A n \in 1 .. N : w[n] = st[<<n, w[n - 1]>>]
  BY <1>3 DEF Solves
<1>5. ASSUME NEW k \in 1 .. N PROVE w[k] = Follow(w[k - 1])
  <2>1. k - 1 \in 0 .. N /\ k \in Nat
    BY <1>1
  <2>2. <<k, w[k - 1]>> \in Nat \X V
    BY <1>4, <2>1
  <2> QED
    BY <1>4, <2>2
<1> QED
  BY <1>4, <1>5 DEF Walk, N, V

\* Reached is what the walk meets in as many steps as there are groups.
LEMMA ReachedFact ==
  ASSUME ConfigInv, NEW t, NEW w, Walk(w, t)
  PROVE  Reached(t) = {w[i] : i \in 0 .. Len(config.groups)}
<1> DEFINE n == Len(config.groups)
           Grown(seen) == seen \cup {Next1(u) : u \in {v \in seen : IsGroup(v)}}
           G(reach) == [k \in 0 .. Len(config.groups) |->
                          IF k = 0 THEN {t} ELSE Grown(reach[k - 1])]
           the == CHOOSE reach : reach = G(reach)
           seen(k) == {w[i] : i \in 0 .. k}
           f == [k \in 0 .. Len(config.groups) |-> seen(k)]
<1>1. n \in Nat
  BY DEF ConfigInv
<1>2. ASSUME NEW k \in 1 .. n
      PROVE  seen(k) = Grown(seen(k - 1))
  <2>1. \A i \in 1 .. n : w[i] = IF IsGroup(w[i - 1]) THEN Next1(w[i - 1]) ELSE w[i - 1]
    BY <1>1 DEF Walk, Follow
  <2>2. ASSUME NEW i \in 0 .. k
        PROVE  w[i] \in Grown(seen(k - 1))
    <3>1. CASE i < k
      BY <1>1, <3>1
    <3>2. CASE i = k
      <4>1. w[k - 1] \in seen(k - 1)
        BY <1>1
      <4> HIDE DEF seen
      <4> QED
        BY <2>1, <3>2, <4>1
    <3> QED
      BY <1>1, <3>1, <3>2
  <2>3. ASSUME NEW i \in 0 .. k - 1, IsGroup(w[i]) PROVE Next1(w[i]) \in seen(k)
    <3>1. i + 1 \in 1 .. n /\ i + 1 \in 0 .. k /\ i + 1 - 1 = i
      BY <1>1
    <3>2. w[i + 1] = Next1(w[i])
      BY <2>1, <2>3, <3>1
    <3> QED
      BY <3>1, <3>2
  <2>4. seen(k - 1) \subseteq seen(k)
    BY <1>1
  <2> QED
    BY <2>2, <2>3, <2>4
<1>3. seen(0) = {t}
  BY DEF Walk
<1>4. Reached(t) = the[n]
  BY DEF Reached
<1> HIDE DEF seen, Grown
<1>5. f = G(f)
  <2>1. ASSUME NEW k \in 0 .. n PROVE f[k] = G(f)[k]
    <3>1. CASE k = 0
      BY <1>1, <1>3, <3>1
    <3>2. CASE k \in 1 .. n
      <4>1. k - 1 \in 0 .. n
        BY <1>1, <3>2
      <4>2. f[k] = seen(k) /\ f[k - 1] = seen(k - 1)
        BY <4>1
      <4> QED
        BY <1>2, <3>2, <4>2
    <3> QED
      BY <3>1, <3>2
  <2> QED
    BY <2>1
<1>6. the = G(the)
  <2> HIDE DEF G, f
  <2> QED
    BY <1>5
<1> HIDE DEF the
<1>7. the[0] = {t}
  BY <1>1, <1>6
<1>8. ASSUME NEW k \in 1 .. n
      PROVE  the[k] = Grown(the[k - 1])
  <2>1. k \in 0 .. Len(config.groups) /\ k # 0
    BY <1>1
  <2>2. the[k] = G(the)[k]
    BY <1>6
  <2> QED
    BY <2>1, <2>2
<1> DEFINE T == {k \in Nat : k <= n => the[k] = seen(k)}
<1>9. 0 \in T
  BY <1>3, <1>7
<1>10. ASSUME NEW k \in Nat, k \in T PROVE k + 1 \in T
  <2>1. SUFFICES ASSUME k + 1 <= n PROVE the[k + 1] = seen(k + 1)
    OBVIOUS
  <2>2. k + 1 \in 1 .. n /\ k + 1 - 1 = k /\ the[k] = seen(k)
    BY <1>1, <1>10, <2>1
  <2> QED
    BY <1>2, <1>8, <2>2
<1> HIDE DEF T
<1>11. Nat \subseteq T
  BY <1>9, <1>10, SetInduction
<1>12. the[n] = seen(n)
  BY <1>1, <1>11 DEF T
<1> QED
  BY <1>4, <1>12 DEF seen

\* The walk comes to its end after m steps, and stays there.
EndsAfter(w, m) ==
  /\ ~ IsGroup(w[m])
  /\ \A i \in 0 .. m - 1 : IsGroup(w[i])
  /\ \A i \in m .. Len(config.groups) + 2 : w[i] = w[m]

\* A walk that passes through more groups than there are repeats one.
LEMMA WalkRepeats ==
  ASSUME ConfigInv, NEW t, NEW w, Walk(w, t),
         \A i \in 0 .. Len(config.groups) : IsGroup(w[i])
  PROVE  \E i, j \in 0 .. Len(config.groups) : i < j /\ w[i] = w[j]
<1> DEFINE n == Len(config.groups)
           at(u) == CHOOSE k \in 1 .. n : config.groups[k].name = u
           h == [i \in 0 .. n |-> at(w[i])]
<1>1. n \in Nat /\ DOMAIN config.groups = 1 .. n
  BY DEF ConfigInv
<1>2. ASSUME NEW i \in 0 .. n PROVE at(w[i]) \in 1 .. n /\ config.groups[at(w[i])].name = w[i]
  <2>1. \E k \in 1 .. n : config.groups[k].name = w[i]
    BY <1>1 DEF IsGroup, NamesOf
  <2> QED
    BY <2>1
<1> HIDE DEF at
<1>3. h \in [0 .. n -> 1 .. n]
  BY <1>2
<1>4. IsFiniteSet(1 .. n) /\ IsFiniteSet(0 .. n) /\ Cardinality(1 .. n) < Cardinality(0 .. n)
  <2>1. n \in Int /\ 0 \in Int /\ 1 \in Int
    BY <1>1
  <2>2. IsFiniteSet(1 .. n) /\ Cardinality(1 .. n) = IF 1 > n THEN 0 ELSE n - 1 + 1
    BY <2>1, FS_Interval
  <2>3. IsFiniteSet(0 .. n) /\ Cardinality(0 .. n) = IF 0 > n THEN 0 ELSE n - 0 + 1
    BY <2>1, FS_Interval
  <2> QED
    BY <1>1, <2>2, <2>3
<1>5. PICK x \in 0 .. n, y \in 0 .. n : x # y /\ h[x] = h[y]
  <2> HIDE DEF h, n
  <2> QED
    BY <1>3, <1>4, FS_PigeonHole
<1>6. w[x] = w[y]
  BY <1>2, <1>5
<1>7. x < y \/ y < x
  BY <1>1, <1>5
<1> QED
  BY <1>6, <1>7

\* A walk either ends after at most as many steps as there are groups, or not
\* at all.
LEMMA WalkEnds ==
  ASSUME ConfigInv, NEW t, NEW w, Walk(w, t)
  PROVE  \/ \E m \in 0 .. Len(config.groups) : EndsAfter(w, m)
         \/ \A i \in 0 .. Len(config.groups) + 2 : IsGroup(w[i])
<1> DEFINE n == Len(config.groups)
           N == n + 2
           M == {i \in 0 .. N : ~ IsGroup(w[i])}
<1>1. n \in Nat
  BY DEF ConfigInv
<1>2. \A i \in 1 .. N : w[i] = Follow(w[i - 1])
  BY DEF Walk
<1>3. CASE M = {}
  BY <1>3
<1>4. CASE M # {}
  <2>1. M \in SUBSET Nat
    BY <1>1
  <2>2. PICK m \in M : \A i \in M : m <= i
    BY <1>4, <2>1, LeastExists
  <2>3. m \in 0 .. N /\ ~ IsGroup(w[m]) /\ \A i \in 0 .. m - 1 : IsGroup(w[i])
    <3>1. ASSUME NEW i \in 0 .. m - 1 PROVE IsGroup(w[i])
      <4>1. i \in 0 .. N /\ ~ (m <= i)
        BY <1>1
      <4> QED
        BY <2>2, <4>1
    <3> QED
      BY <3>1
  <2>4. \A i \in m .. N : w[i] = w[m]
    <3> DEFINE T == {d \in Nat : m + d <= N => w[m + d] = w[m]}
    <3>1. 0 \in T
      BY <1>1
    <3>2. ASSUME NEW d \in Nat, d \in T PROVE d + 1 \in T
      <4>1. SUFFICES ASSUME m + (d + 1) <= N PROVE w[m + (d + 1)] = w[m]
        OBVIOUS
      <4>2. m + (d + 1) \in 1 .. N /\ m + (d + 1) - 1 = m + d /\ m + d <= N
        BY <1>1, <4>1
      <4>3. w[m + d] = w[m]
        BY <3>2, <4>2
      <4>4. w[m + (d + 1)] = Follow(w[m])
        BY <1>2, <4>2, <4>3
      <4> QED
        BY <2>3, <4>4 DEF Follow
    <3> HIDE DEF T
    <3>3. Nat \subseteq T
      BY <3>1, <3>2, SetInduction
    <3>4. ASSUME NEW i \in m .. N PROVE w[i] = w[m]
      <4>1. i - m \in Nat /\ m + (i - m) = i /\ i <= N
        BY <1>1, <2>3
      <4> QED
        BY <3>3, <4>1 DEF T
    <3> QED
      BY <3>4
  <2>5. m <= n
    <3> SUFFICES ASSUME n < m PROVE FALSE
      BY <1>1, <2>3
    <3>1. \A i \in 0 .. n : IsGroup(w[i])
      BY <1>1, <2>3
    <3>2. PICK i \in 0 .. n, j \in 0 .. n : i < j /\ w[i] = w[j]
      BY <3>1, WalkRepeats
    <3> DEFINE T == {d \in Nat : j + d <= N => w[i + d] = w[j + d]}
    <3>3. 0 \in T
      BY <1>1, <3>2
    <3>4. ASSUME NEW d \in Nat, d \in T PROVE d + 1 \in T
      <4>1. SUFFICES ASSUME j + (d + 1) <= N PROVE w[i + (d + 1)] = w[j + (d + 1)]
        OBVIOUS
      <4>2. /\ i + (d + 1) \in 1 .. N /\ i + (d + 1) - 1 = i + d
            /\ j + (d + 1) \in 1 .. N /\ j + (d + 1) - 1 = j + d /\ j + d <= N
        BY <1>1, <3>2, <4>1
      <4>3. w[i + d] = w[j + d]
        BY <3>4, <4>2
      <4> QED
        BY <1>2, <4>2, <4>3
    <3> HIDE DEF T
    <3>5. Nat \subseteq T
      BY <3>3, <3>4, SetInduction
    <3>6. m - j \in Nat /\ j + (m - j) = m /\ m <= N
      BY <1>1, <2>3
    <3>7. w[i + (m - j)] = w[m]
      BY <3>5, <3>6 DEF T
    <3>8. i + (m - j) \in 0 .. m - 1
      BY <1>1, <2>3, <3>2
    <3> QED
      BY <2>3, <3>7, <3>8
  <2>6. m \in 0 .. n
    BY <1>1, <2>3, <2>5
  <2> QED
    BY <2>3, <2>4, <2>6 DEF EndsAfter
<1> QED
  BY <1>3, <1>4

\* Expected takes what the walk ends at.
LEMMA ExpectedFact ==
  ASSUME ConfigInv, NEW t, NEW w, Walk(w, t)
  PROVE  /\ \A m \in 0 .. Len(config.groups) :
              EndsAfter(w, m) =>
                Expected(t) = IF w[m] \in BuiltIn THEN w[m]
                              ELSE IF w[m] \in NamesOf(config.proxies)
                                THEN Named(config.proxies, w[m]).chain
                              ELSE IF m = 0 THEN SelectedProxy(config.groups, config.proxies)
                              ELSE Failed
         /\ (\A i \in 0 .. Len(config.groups) + 2 : IsGroup(w[i])) => Expected(t) = Failed
<1> DEFINE n == Len(config.groups)
<1>1. n \in Nat /\ w[0] = t
  BY DEF ConfigInv, Walk
<1>2. Ends(t) = {u \in {w[i] : i \in 0 .. n} : ~ IsGroup(u)}
  BY ReachedFact DEF Ends
<1>3. ASSUME \A i \in 0 .. n + 2 : IsGroup(w[i]) PROVE Expected(t) = Failed
  <2>1. Ends(t) = {}
    BY <1>1, <1>2, <1>3
  <2> QED
    BY <2>1 DEF Expected
<1>4. ASSUME NEW m \in 0 .. n, EndsAfter(w, m)
      PROVE  Expected(t) = IF w[m] \in BuiltIn THEN w[m]
                           ELSE IF w[m] \in NamesOf(config.proxies)
                             THEN Named(config.proxies, w[m]).chain
                           ELSE IF m = 0 THEN SelectedProxy(config.groups, config.proxies)
                           ELSE Failed
  <2>1. ASSUME NEW i \in 0 .. n PROVE IsGroup(w[i]) \/ w[i] = w[m]
    <3>1. i \in 0 .. m - 1 \/ i \in m .. n + 2
      BY <1>1
    <3> QED
      BY <1>4, <3>1 DEF EndsAfter
  <2>2. ~ IsGroup(w[m])
    BY <1>4 DEF EndsAfter
  <2>3. Ends(t) = {w[m]}
    BY <1>2, <2>1, <2>2
  <2>4. (CHOOSE x \in Ends(t) : TRUE) = w[m]
    BY <2>3
  <2>5. w[m] = t <=> m = 0
    <3>1. CASE m = 0
      BY <1>1, <3>1
    <3>2. CASE m # 0
      <4>1. 0 \in 0 .. m - 1
        BY <1>1, <3>2
      <4>2. IsGroup(t)
        BY <1>1, <1>4, <4>1 DEF EndsAfter
      <4> QED
        BY <2>2, <3>2, <4>2
    <3> QED
      BY <3>1, <3>2
  <2> QED
    BY <2>3, <2>4, <2>5 DEF Expected
<1> QED
  BY <1>3, <1>4

\* What Resolve makes of a target that is no group, at the given depth.
Final(depth, u) ==
  IF u \in BuiltIn THEN u
  ELSE IF u \in NamesOf(config.proxies) THEN Named(config.proxies, u).chain
  ELSE IF depth = 0 THEN SelectedProxy(config.groups, config.proxies)
  ELSE Failed

\* chain[depth][u] is what Resolve computes for the target u.
Chains(chain, t) ==
  /\ \A u \in Meets(t) : chain[Len(config.groups) + 2][u] = Failed
  /\ \A depth \in 0 .. Len(config.groups) + 1, u \in Meets(t) :
       chain[depth][u] = IF IsGroup(u) THEN chain[depth + 1][Follow(u)] ELSE Final(depth, u)

\* The recursion of Resolve has a solution, which Resolve takes its value from.
LEMMA ResolveRecursion ==
  ASSUME ConfigInv, NEW t
  PROVE  \E chain : Chains(chain, t) /\ Resolve(t, config.groups, config.proxies) = chain[0][t]
<1> DEFINE n == Len(config.groups)
           N == n + 2
           V == Meets(t)
           Value(chain, depth, u) ==
             IF depth > MaxDepth(config.groups) THEN Failed
             ELSE IF u \in BuiltIn THEN u
             ELSE IF u \in NamesOf(config.proxies) THEN Named(config.proxies, u).chain
             ELSE IF u \in NamesOf(config.groups)
               THEN chain[depth + 1][Selected(Named(config.groups, u))]
             ELSE IF depth = 0 THEN SelectedProxy(config.groups, config.proxies)
             ELSE Failed
           G(chain) == [depth \in 0 .. MaxDepth(config.groups) + 1 |->
                          [u \in V |-> Value(chain, depth, u)]]
           the == CHOOSE chain : chain = G(chain)
<1>1. Resolve(t, config.groups, config.proxies) = the[0][t]
  BY DEF Resolve, Meets
<1>2. n \in Nat /\ MaxDepth(config.groups) = n + 1 /\ N \in Nat
  BY DEF ConfigInv, MaxDepth
<1>3. ASSUME NEW chain, NEW depth \in 0 .. n + 1, NEW u \in V
      PROVE  Value(chain, depth, u) =
               IF IsGroup(u) THEN chain[depth + 1][Follow(u)] ELSE Final(depth, u)
  BY <1>2 DEF IsGroup, Follow, Next1, Final
<1>4. ASSUME NEW chain, NEW u \in V PROVE Value(chain, N, u) = Failed
  BY <1>2
<1>5. \A u \in V : Follow(u) \in V
  BY FollowMeets
<1> HIDE DEF Value, V
<1>6. \E chain : chain = G(chain)
  <2> DEFINE Out == {Failed} \cup {Final(d, u) : d \in Int, u \in V}
             S == [V -> Out]
             z == [u \in V |-> Failed]
             Level(k, next) == [u \in V |-> IF IsGroup(u) THEN next[Follow(u)] ELSE Final(N - k, u)]
             st == [p \in Nat \X S |-> Level(p[1], p[2])]
  <2>1. z \in S
    OBVIOUS
  <2>2. ASSUME NEW k \in Nat, NEW next \in S PROVE Level(k, next) \in S
    <3>1. ASSUME NEW u \in V
          PROVE  (IF IsGroup(u) THEN next[Follow(u)] ELSE Final(N - k, u)) \in Out
      <4>1. next[Follow(u)] \in Out
        BY <1>5
      <4>2. N - k \in Int
        BY <1>2
      <4>3. Final(N - k, u) \in Out
        BY <4>2
      <4> QED
        BY <4>1, <4>3
    <3> QED
      BY <3>1
  <2> HIDE DEF S, Level
  <2>3. st \in [Nat \X S -> S]
    BY <2>2
  <2>4. \A k \in Nat, next \in S : st[<<k, next>>] = Level(k, next)
    OBVIOUS
  <2> HIDE DEF st, z, N
  <2>5. PICK f : Solves(f, S, z, st, N)
    BY <1>2, <2>1, <2>3, RecursionSolvable
  <2>6. /\ f \in [0 .. N -> S] /\ f[0] = z
        /\ \A k \in 1 .. N : f[k] = st[<<k, f[k - 1]>>]
    BY <2>5 DEF Solves
  <2>7. ASSUME NEW k \in 1 .. N PROVE f[k] = Level(k, f[k - 1])
    <3>1. k - 1 \in 0 .. N /\ k \in Nat
      BY <1>2
    <3>2. f[k - 1] \in S
      BY <2>6, <3>1
    <3> QED
      BY <2>4, <2>6, <3>1, <3>2
  <2> DEFINE c == [depth \in 0 .. N |-> f[N - depth]]
  <2>8. ASSUME NEW depth \in 0 .. N PROVE c[depth] = [u \in V |-> Value(c, depth, u)]
    <3>1. CASE depth = N
      <4>1. c[depth] = z
        BY <1>2, <2>6, <3>1
      <4>2. \A u \in V : Value(c, depth, u) = Failed
        <5> HIDE DEF c
        <5> QED
          BY <1>4, <3>1
      <4> QED
        BY <4>1, <4>2 DEF z
    <3>2. CASE depth # N
      <4>1. depth \in 0 .. n + 1 /\ N - depth \in 1 .. N /\ N - depth - 1 = N - (depth + 1)
            /\ depth + 1 \in 0 .. N /\ N - (N - depth) = depth
        BY <1>2, <3>2 DEF N
      <4>2. c[depth] = Level(N - depth, f[N - (depth + 1)])
        BY <2>7, <4>1
      <4>3. c[depth + 1] = f[N - (depth + 1)]
        BY <4>1
      <4> HIDE DEF c
      <4>4. c[depth] = [u \in V |-> IF IsGroup(u) THEN c[depth + 1][Follow(u)] ELSE Final(depth, u)]
        BY <4>1, <4>2, <4>3 DEF Level
      <4>5. \A u \in V : Value(c, depth, u) =
                           IF IsGroup(u) THEN c[depth + 1][Follow(u)] ELSE Final(depth, u)
        BY <1>3, <4>1
      <4> QED
        BY <4>4, <4>5
    <3> QED
      BY <3>1, <3>2
  <2>9. MaxDepth(config.groups) + 1 = N
    BY <1>2 DEF N
  <2>10. DOMAIN c = 0 .. N /\ c = [depth \in 0 .. N |-> c[depth]]
    OBVIOUS
  <2> HIDE DEF c
  <2>11. c = G(c)
    BY <2>8, <2>9, <2>10
  <2> QED
    BY <2>11
<1>7. the = G(the)
  <2> HIDE DEF G
  <2> QED
    BY <1>6
<1> HIDE DEF the
<1>8. ASSUME NEW depth \in 0 .. N, NEW u \in V PROVE the[depth][u] = Value(the, depth, u)
  <2>1. MaxDepth(config.groups) + 1 = N
    BY <1>2
  <2>2. G(the)[depth] = [v \in V |-> Value(the, depth, v)]
    BY <2>1
  <2> QED
    BY <1>7, <2>2
<1>9. \A u \in V : the[N][u] = Failed
  BY <1>2, <1>4, <1>8
<1>10. ASSUME NEW depth \in 0 .. n + 1, NEW u \in V
       PROVE  the[depth][u] = IF IsGroup(u) THEN the[depth + 1][Follow(u)] ELSE Final(depth, u)
  <2>1. depth \in 0 .. N
    BY <1>2
  <2> QED
    BY <1>3, <1>8, <2>1
<1> QED
  BY <1>1, <1>9, <1>10 DEF Chains, V

\* Resolve gives what the walk ends at, or fails if it does not end.
LEMMA ResolveFact ==
  ASSUME ConfigInv, NEW t, NEW w, Walk(w, t)
  PROVE  /\ \A m \in 0 .. Len(config.groups) :
              EndsAfter(w, m) => Resolve(t, config.groups, config.proxies) = Final(m, w[m])
         /\ (\A i \in 0 .. Len(config.groups) + 2 : IsGroup(w[i]))
              => Resolve(t, config.groups, config.proxies) = Failed
<1> DEFINE n == Len(config.groups)
           N == n + 2
<1>1. n \in Nat /\ w[0] = t /\ \A i \in 0 .. N : w[i] \in Meets(t)
  BY DEF ConfigInv, Walk
<1>2. PICK chain : Chains(chain, t) /\ Resolve(t, config.groups, config.proxies) = chain[0][t]
  BY ResolveRecursion
<1>3. ASSUME NEW m \in 0 .. N, \A i \in 0 .. m - 1 : IsGroup(w[i])
      PROVE  chain[0][t] = chain[m][w[m]]
  <2> DEFINE T == {k \in Nat : k <= m => chain[0][t] = chain[k][w[k]]}
  <2>1. 0 \in T
    BY <1>1
  <2>2. ASSUME NEW k \in Nat, k \in T PROVE k + 1 \in T
    <3>1. SUFFICES ASSUME k + 1 <= m PROVE chain[0][t] = chain[k + 1][w[k + 1]]
      OBVIOUS
    <3>2. k \in 0 .. n + 1 /\ k \in 0 .. m - 1 /\ k + 1 \in 1 .. N /\ k + 1 - 1 = k
          /\ k \in 0 .. N
      BY <1>1, <3>1
    <3>3. chain[0][t] = chain[k][w[k]]
      BY <2>2, <3>2
    <3>4. IsGroup(w[k]) /\ w[k] \in Meets(t)
      BY <1>1, <1>3, <3>2
    <3>5. chain[k][w[k]] = chain[k + 1][Follow(w[k])]
      BY <1>2, <3>2, <3>4 DEF Chains
    <3>6. w[k + 1] = Follow(w[k])
      BY <3>2 DEF Walk
    <3> QED
      BY <3>3, <3>5, <3>6
  <2> HIDE DEF T
  <2>3. Nat \subseteq T
    BY <2>1, <2>2, SetInduction
  <2>4. m \in Nat /\ m <= m
    BY <1>1
  <2> QED
    BY <2>3, <2>4 DEF T
<1>4. ASSUME NEW m \in 0 .. n, EndsAfter(w, m)
      PROVE  Resolve(t, config.groups, config.proxies) = Final(m, w[m])
  <2>1. m \in 0 .. n + 1 /\ m \in 0 .. N
    BY <1>1
  <2>2. chain[0][t] = chain[m][w[m]]
    BY <1>3, <1>4, <2>1 DEF EndsAfter
  <2>3. chain[m][w[m]] = Final(m, w[m])
    BY <1>1, <1>2, <1>4, <2>1 DEF Chains, EndsAfter
  <2> QED
    BY <1>2, <2>2, <2>3
<1>5. ASSUME \A i \in 0 .. N : IsGroup(w[i])
      PROVE  Resolve(t, config.groups, config.proxies) = Failed
  <2>1. N \in 0 .. N /\ \A i \in 0 .. N - 1 : i \in 0 .. N
    BY <1>1
  <2>2. chain[0][t] = chain[N][w[N]]
    BY <1>3, <1>5, <2>1
  <2>3. chain[N][w[N]] = Failed
    BY <1>1, <1>2, <2>1 DEF Chains
  <2> QED
    BY <1>2, <2>2, <2>3
<1> QED
  BY <1>4, <1>5

\* Whatever the target: both follow the same walk, and the depth limit is out of
\* the reach of a walk that ends.
LEMMA ResolveIsExpected ==
  ASSUME ConfigInv, NEW t
  PROVE  Resolve(t, config.groups, config.proxies) = Expected(t)
<1>1. PICK w : Walk(w, t)
  BY WalkExists
<1>2. CASE \E m \in 0 .. Len(config.groups) : EndsAfter(w, m)
  <2>1. PICK m \in 0 .. Len(config.groups) : EndsAfter(w, m)
    BY <1>2
  <2>2. Resolve(t, config.groups, config.proxies) = Final(m, w[m])
    BY <1>1, <2>1, ResolveFact
  <2>3. Expected(t) = Final(m, w[m])
    BY <1>1, <2>1, ExpectedFact DEF Final
  <2> QED
    BY <2>2, <2>3
<1>3. CASE \A i \in 0 .. Len(config.groups) + 2 : IsGroup(w[i])
  BY <1>1, <1>3, ResolveFact, ExpectedFact
<1> QED
  BY <1>1, <1>2, <1>3, WalkEnds

\* The depth limit of build_rule_client_chain never stops a chain of selections
\* that ends, and stops every circle, with any number of groups.
THEOREM TargetsAlwaysResolve == ConfigSpec => []TargetsResolve
<1>1. ConfigInv => TargetsResolve
  BY ResolveIsExpected DEF TargetsResolve
<1> QED
  BY <1>1, ConfigInvHolds, PTL

-----------------------------------------------------------------------------
(* The plan *)

\* A built-in target resolves to itself.
LEMMA BuiltInResolves ==
  ASSUME ConfigInv, NEW t \in BuiltIn
  PROVE  Expected(t) = t
<1>1. PICK chain : Chains(chain, t) /\ Resolve(t, config.groups, config.proxies) = chain[0][t]
  BY ResolveRecursion
<1>2. 0 \in 0 .. Len(config.groups) + 1 /\ t \in Meets(t) /\ ~ IsGroup(t)
  BY DEF ConfigInv, Meets, IsGroup
<1>3. chain[0][t] = Final(0, t)
  BY <1>1, <1>2 DEF Chains
<1> QED
  BY <1>1, <1>3, ResolveIsExpected DEF Final

\* As long as there are groups, one stands for the configuration.
LEMMA SelectedGroupFact ==
  ASSUME NEW groups \in Seq(KeptGroups), groups # <<>>
  PROVE  SelectedGroup(groups) \in 1 .. Len(groups)
<1> DEFINE P == {i \in 1 .. Len(groups) : groups[i].name \in Preferred}
           I == {i \in 1 .. Len(groups) : Selected(groups[i]) # NoName}
           p == IF P # {} THEN Min(P) ELSE 0
           q == IF I # {} THEN Min(I) ELSE 0
<1>1. SelectedGroup(groups) = IF p # 0 THEN p ELSE q
  BY DEF SelectedGroup, SelectInSeq
<1>2. P \in SUBSET Nat /\ I \in SUBSET Nat
  OBVIOUS
<1>3. 1 \in I
  <2>1. 1 \in 1 .. Len(groups)
    OBVIOUS
  <2>2. groups[1] \in KeptGroups
    BY <2>1
  <2> QED
    BY <2>1, <2>2 DEF Selected, KeptGroups
<1>4. Min(I) \in I
  <2> HIDE DEF I
  <2> QED
    BY <1>2, <1>3, MinIsLeast
<1>5. P # {} => Min(P) \in P
  <2> HIDE DEF P
  <2> QED
    BY <1>2, MinIsLeast
<1> QED
  BY <1>1, <1>3, <1>4, <1>5

\* The entries of a plan.
PlanOf(entries) ==
  [i \in DOMAIN entries |->
     [hits |-> entries[i].hits,
      out  |-> Resolve(entries[i].target, config.groups, config.proxies)]]

\* The entries that hit dest.
Hitting(entries, dest) == {i \in 1 .. Len(entries) : dest \in entries[i].hits}

\* The first entry that hits decides.
LEMMA JudgeFact ==
  ASSUME ConfigInv, NEW X, NEW entries \in Seq(X), NEW dest, NEW k \in Hitting(entries, dest),
         \A i \in Hitting(entries, dest) : k <= i
  PROVE  Judge(PlanOf(entries), dest) = Expected(entries[k].target)
<1> DEFINE plan == PlanOf(entries)
           I == {i \in 1 .. Len(plan) : dest \in plan[i].hits}
<1>1. DOMAIN entries = 1 .. Len(entries) /\ Len(entries) \in Nat
  OBVIOUS
<1>2. Len(plan) = Len(entries)
  BY <1>1 DEF PlanOf
<1>3. \A i \in 1 .. Len(entries) :
        plan[i].hits = entries[i].hits /\ plan[i].out = Expected(entries[i].target)
  BY <1>1, ResolveIsExpected DEF PlanOf
<1>4. I = Hitting(entries, dest)
  <2> HIDE DEF plan
  <2> QED
    BY <1>2, <1>3 DEF Hitting
<1>5. Judge(plan, dest) = IF (IF I # {} THEN Min(I) ELSE 0) = 0 THEN Reject
                          ELSE plan[IF I # {} THEN Min(I) ELSE 0].out
  BY DEF Judge, SelectInSeq
<1>6. k \in 1 .. Len(entries) /\ I \in SUBSET Nat
  BY <1>1 DEF Hitting
<1>7. Min(I) = k
  <2> HIDE DEF I, plan
  <2>1. Min(I) \in I /\ Min(I) <= k
    BY <1>4, <1>6, MinIsLeast
  <2>2. k <= Min(I)
    BY <1>4, <2>1
  <2>3. k \in Nat
    BY <1>1, <1>6
  <2>4. Min(I) \in Nat
    BY <1>6, <2>1
  <2> QED
    BY <2>1, <2>2, <2>3, <2>4
<1>8. I # {} /\ k # 0
  BY <1>4, <1>6
<1>9. Judge(plan, dest) = plan[k].out
  <2> HIDE DEF I, plan
  <2> QED
    BY <1>5, <1>7, <1>8
<1> QED
  BY <1>3, <1>6, <1>9

\* The rules of a mode other than "rule": one MATCH, which stays the only entry.
LEMMA OneMatch ==
  ASSUME ConfigInv, NEW target, NEW dest \in Dest,
         EffectiveRules(mode, config.groups, config.rules)
           = <<[kind |-> "MATCH", hits |-> Dest, target |-> target]>>,
         Plan(config, mode) # NoPlan
  PROVE  Judge(Plan(config, mode), dest) = Expected(target)
<1> DEFINE r == [kind |-> "MATCH", hits |-> Dest, target |-> target]
           rules == <<r>>
           emitted == Only(rules, {x \in ToSet(rules) : x.kind \notin Silent})
<1>1. Plan(config, mode) = PlanOf(WithDefault(emitted, config.groups, config.proxies))
  BY DEF Plan, PlanOf
<1>2. rules \in Seq({r}) /\ ToSet(rules) = {r}
  BY DEF ToSet
<1>3. emitted \in Seq({r}) /\ ToSet(emitted) = {r}
  <2>1. "MATCH" \notin Silent
    BY DEF Silent
  <2>2. r.kind = "MATCH"
    OBVIOUS
  <2>3. ToSet(rules) \cap {x \in ToSet(rules) : x.kind \notin Silent} = {r}
    BY <1>2, <2>1, <2>2
  <2> HIDE DEF r, rules
  <2> QED
    BY <1>2, <2>3, OnlyKeeps
<1>4. r.kind \in Wide /\ r.hits = Dest /\ r.target = target
  BY DEF Wide
<1> HIDE DEF r, emitted
<1>5. PICK i \in DOMAIN emitted : emitted[i] = r
  BY <1>3 DEF ToSet
<1>6. WithDefault(emitted, config.groups, config.proxies) = emitted
  BY <1>4, <1>5 DEF WithDefault
<1>7. Hitting(emitted, dest) \in SUBSET Nat /\ i \in Hitting(emitted, dest)
  BY <1>3, <1>4, <1>5 DEF Hitting
<1>8. PICK k \in Hitting(emitted, dest) : \A j \in Hitting(emitted, dest) : k <= j
  BY <1>7, LeastExists
<1>9. emitted[k] = r
  BY <1>3 DEF Hitting
<1>10. Judge(PlanOf(emitted), dest) = Expected(emitted[k].target)
  BY <1>3, <1>8, JudgeFact
<1> QED
  BY <1>1, <1>4, <1>6, <1>9, <1>10

\* The rules of the document that have an effect.
Supported == Only(config.rules, {r \in ToSet(config.rules) : r.kind \notin Silent})

\* The first of them that hits is the first rule of the document that does.
LEMMA DecidingFact ==
  ASSUME ConfigInv, NEW dest \in Dest
  PROVE  /\ Unmatched(dest) <=> Hitting(Supported, dest) = {}
         /\ \A k \in Hitting(Supported, dest) :
              (\A i \in Hitting(Supported, dest) : k <= i)
                => Supported[k].target = config.rules[Deciding(dest)].target
         /\ (\E i \in DOMAIN Supported : Supported[i].kind \in Wide)
              => \E i \in DOMAIN config.rules : config.rules[i].kind \in Wide
<1> DEFINE Rules == [kind : RuleKinds, hits : SUBSET Dest, target : Text]
           rules == config.rules
           effective == {r \in ToSet(rules) : r.kind \notin Silent}
           n == Len(rules)
           L == Len(Supported)
           I == {i \in 1 .. n : rules[i].kind \notin Silent /\ dest \in rules[i].hits}
<1>1. rules \in Seq(Rules) /\ n \in Nat /\ DOMAIN rules = 1 .. n
  BY DEF ConfigInv
<1>2. Supported \in Seq(Rules) /\ L \in Nat /\ DOMAIN Supported = 1 .. L
  <2> HIDE DEF Rules
  <2> QED
    BY <1>1, OnlyKeeps DEF Supported
<1>3. PICK f : Embeds(f, Supported, rules, n, effective)
  <2> HIDE DEF Rules
  <2> QED
    BY <1>1, OnlyInOrder DEF Supported
<1>4. \A k \in 1 .. n : rules[k] \in effective <=> rules[k].kind \notin Silent
  BY <1>1 DEF ToSet
<1>5. Deciding(dest) = IF I # {} THEN Min(I) ELSE 0
  BY DEF Deciding, SelectInSeq
<1> HIDE DEF rules, effective, n, L, Rules
<1>6. \A i \in 1 .. L : f[i] \in 1 .. n /\ Supported[i] = rules[f[i]]
  BY <1>3 DEF Embeds, L
<1>7. \A i \in Hitting(Supported, dest) : i \in 1 .. L /\ f[i] \in I
  <2>1. ASSUME NEW i \in Hitting(Supported, dest) PROVE i \in 1 .. L /\ f[i] \in I
    <3>1. i \in 1 .. L /\ dest \in rules[f[i]].hits /\ f[i] \in 1 .. n
      BY <1>6 DEF Hitting, L
    <3>2. rules[f[i]] \in effective
      BY <1>3, <3>1 DEF Embeds, L
    <3> QED
      BY <1>4, <3>1, <3>2
  <2> QED
    BY <2>1
<1>8. \A k \in I : \E i \in Hitting(Supported, dest) : f[i] = k
  <2>1. ASSUME NEW k \in I PROVE \E i \in Hitting(Supported, dest) : f[i] = k
    <3>1. PICK i \in 1 .. L : f[i] = k
      BY <1>3, <1>4 DEF Embeds, L
    <3>2. dest \in Supported[i].hits
      BY <1>6, <3>1
    <3> QED
      BY <3>1, <3>2 DEF Hitting, L
  <2> QED
    BY <2>1
<1>9. I \in SUBSET Nat /\ (I # {} => Min(I) \in I /\ \A i \in I : Min(I) <= i)
  <2>1. I \in SUBSET Nat
    BY <1>1
  <2> HIDE DEF I
  <2> QED
    BY <2>1, MinIsLeast
<1>10. \A i \in I : i # 0
  BY <1>1
<1> HIDE DEF I
<1>11. Unmatched(dest) <=> Hitting(Supported, dest) = {}
  BY <1>5, <1>7, <1>8, <1>9, <1>10 DEF Unmatched
<1>12. ASSUME NEW k \in Hitting(Supported, dest), \A i \in Hitting(Supported, dest) : k <= i
       PROVE  Supported[k].target = rules[Deciding(dest)].target
  <2>1. k \in 1 .. L /\ f[k] \in I
    BY <1>7
  <2>2. PICK i \in Hitting(Supported, dest) : f[i] = Min(I)
    BY <1>8, <1>9, <2>1
  <2>3. i \in 1 .. L /\ k <= i
    BY <1>7, <1>12, <2>2
  <2>4. k = i \/ f[k] < f[i]
    BY <1>2, <1>3, <2>1, <2>3 DEF Embeds, L
  <2>5. f[i] <= f[k] /\ f[i] \in Nat /\ f[k] \in Nat
    BY <1>9, <2>1, <2>2
  <2>6. f[k] = Min(I)
    BY <2>2, <2>4, <2>5
  <2>7. Deciding(dest) = f[k]
    BY <1>5, <2>1, <2>6
  <2> QED
    BY <1>6, <2>1, <2>7
<1>13. (\E i \in DOMAIN Supported : Supported[i].kind \in Wide)
         => \E i \in DOMAIN rules : rules[i].kind \in Wide
  <2>1. DOMAIN Supported = 1 .. L /\ DOMAIN rules = 1 .. n
    BY <1>1, <1>2
  <2> QED
    BY <1>6, <2>1
<1> QED
  BY <1>11, <1>12, <1>13 DEF rules

\* In rule mode the first supported rule that hits decides, or the default.
LEMMA RulesDecide ==
  ASSUME ConfigInv, mode = "rule", config.groups # <<>>, NEW dest \in Dest,
         Plan(config, mode) # NoPlan
  PROVE  \/ Judge(Plan(config, mode), dest) = Promised(dest)
         \/ Unmatched(dest) /\ DefaultTaken
<1> DEFINE Rules == [kind : RuleKinds, hits : SUBSET Dest, target : Text]
           default == DefaultRule(config.groups, config.proxies)
           entries == WithDefault(Supported, config.groups, config.proxies)
           X == Rules \cup {default}
           n == Len(Supported)
<1>1. Plan(config, mode) = PlanOf(entries)
  BY DEF Plan, PlanOf, EffectiveRules, Supported
<1>2. Supported \in Seq(Rules)
  <2>1. config.rules \in Seq(Rules)
    BY DEF ConfigInv
  <2> HIDE DEF Rules
  <2> QED
    BY <2>1, OnlyKeeps DEF Supported
<1>3. DOMAIN Supported = 1 .. n /\ n \in Nat /\ Supported \in Seq(X)
  <2> HIDE DEF Rules, default
  <2>1. ToSet(Supported) \subseteq Rules
    <3>1. \A i \in DOMAIN Supported : Supported[i] \in Rules
      BY <1>2, Element
    <3> QED
      BY <3>1 DEF ToSet
  <2>2. Supported \in Seq(X)
    BY <1>2, <2>1, SeqNarrow
  <2> QED
    BY <1>2, <2>2
<1>4. default.hits = Dest /\ default.target = Selected(MainGroup)
  <2>1. SelectedGroup(config.groups) \in 1 .. Len(config.groups) /\ Len(config.groups) \in Nat
    BY SelectedGroupFact DEF ConfigInv
  <2>2. SelectedGroup(config.groups) # 0
    BY <2>1
  <2> QED
    BY <2>2 DEF DefaultRule, MainGroup
<1> HIDE DEF default, X, Rules
<1>5. CASE Unmatched(dest)
  <2>1. CASE \E i \in DOMAIN Supported : Supported[i].kind \in Wide
    BY <1>5, <2>1, DecidingFact DEF DefaultTaken
  <2>2. CASE ~ \E i \in DOMAIN Supported : Supported[i].kind \in Wide
    <3>1. entries = Append(Supported, default)
      BY <2>2 DEF WithDefault, default
    <3>2. default \in X
      BY DEF X
    <3>3. /\ entries \in Seq(X) /\ Len(entries) = n + 1
          /\ \A i \in 1 .. n : entries[i] = Supported[i]
          /\ entries[n + 1] = default
      BY <1>3, <3>1, <3>2
    <3> HIDE DEF entries
    <3>4. \A i \in 1 .. n : dest \notin entries[i].hits
      BY <1>3, <1>5, <3>3, DecidingFact DEF Hitting
    <3>5. Hitting(entries, dest) = {n + 1}
      <4>1. dest \in entries[n + 1].hits
        BY <1>4, <3>3
      <4>2. \A i \in 1 .. n + 1 : i \in 1 .. n \/ i = n + 1
        BY <1>3
      <4>3. n + 1 \in 1 .. n + 1
        BY <1>3
      <4> QED
        BY <3>3, <3>4, <4>1, <4>2, <4>3 DEF Hitting
    <3>6. n + 1 \in Hitting(entries, dest) /\ \A i \in Hitting(entries, dest) : n + 1 <= i
      BY <1>3, <3>5
    <3>7. Judge(PlanOf(entries), dest) = Expected(entries[n + 1].target)
      BY <3>3, <3>6, JudgeFact
    <3>8. Promised(dest) = Expected(Selected(MainGroup))
      BY <1>5 DEF Promised
    <3> QED
      BY <1>1, <1>4, <3>3, <3>7, <3>8
  <2> QED
    BY <2>1, <2>2
<1>6. CASE ~ Unmatched(dest)
  <2>1. Hitting(Supported, dest) \in SUBSET Nat /\ Hitting(Supported, dest) # {}
    BY <1>3, <1>6, DecidingFact DEF Hitting
  <2>2. PICK k \in Hitting(Supported, dest) : \A i \in Hitting(Supported, dest) : k <= i
    BY <2>1, LeastExists
  <2>3. k \in 1 .. n /\ dest \in Supported[k].hits
    BY DEF Hitting
  <2>4. /\ entries \in Seq(X) /\ Len(entries) \in {n, n + 1}
        /\ \A i \in 1 .. n : entries[i] = Supported[i]
    <3>1. entries = Supported \/ entries = Append(Supported, default)
      BY DEF WithDefault, default
    <3>2. default \in X
      BY DEF X
    <3>3. CASE entries = Supported
      BY <1>3, <3>3
    <3>4. CASE entries = Append(Supported, default)
      <4> HIDE DEF entries
      <4> QED
        BY <1>3, <3>2, <3>4
    <3> QED
      BY <3>1, <3>3, <3>4
  <2> HIDE DEF entries
  <2>5. k \in Hitting(entries, dest)
    BY <1>3, <2>3, <2>4 DEF Hitting
  <2>6. ASSUME NEW i \in Hitting(entries, dest) PROVE k <= i
    <3>1. i \in 1 .. Len(entries) /\ dest \in entries[i].hits
      BY DEF Hitting
    <3>2. CASE i \in 1 .. n
      <4>1. i \in Hitting(Supported, dest)
        BY <2>4, <3>1, <3>2 DEF Hitting
      <4> QED
        BY <2>2, <4>1
    <3>3. CASE i = n + 1
      BY <1>3, <2>3, <3>3
    <3> QED
      BY <1>3, <2>4, <3>1, <3>2, <3>3
  <2>7. Judge(PlanOf(entries), dest) = Expected(entries[k].target)
    BY <2>4, <2>5, <2>6, JudgeFact
  <2>8. Promised(dest) = Expected(config.rules[Deciding(dest)].target)
    BY <1>6 DEF Promised
  <2>9. Supported[k].target = config.rules[Deciding(dest)].target
    BY <2>2, DecidingFact
  <2> QED
    BY <1>1, <2>3, <2>4, <2>7, <2>8, <2>9
<1> QED
  BY <1>5, <1>6

\* A plan that was built sends every destination where mode, rules and the main
\* group say, for all documents.
THEOREM PlansKeepPromises == ConfigSpec => []PlanKeepsPromise
<1>1. ConfigInv => PlanKeepsPromise
  <2>1. SUFFICES ASSUME ConfigInv, Plan(config, mode) # NoPlan, config.groups # <<>>,
                        NEW dest \in Dest
                 PROVE  \/ Judge(Plan(config, mode), dest) = Promised(dest)
                        \/ Unmatched(dest) /\ DefaultTaken
    BY DEF PlanKeepsPromise
  <2>2. CASE mode = "direct"
    <3>1. EffectiveRules(mode, config.groups, config.rules)
            = <<[kind |-> "MATCH", hits |-> Dest, target |-> Direct]>>
      BY <2>2 DEF EffectiveRules
    <3>2. Judge(Plan(config, mode), dest) = Expected(Direct)
      BY <2>1, <3>1, OneMatch
    <3>3. Expected(Direct) = Direct
      BY <2>1, BuiltInResolves DEF BuiltIn
    <3> QED
      BY <2>2, <3>2, <3>3 DEF Promised
  <2>3. CASE mode = "global"
    <3>1. SelectedGroup(config.groups) \in 1 .. Len(config.groups) /\ Len(config.groups) \in Nat
      BY <2>1, SelectedGroupFact DEF ConfigInv
    <3>2. SelectedGroup(config.groups) # 0
      BY <3>1
    <3>3. EffectiveRules(mode, config.groups, config.rules)
            = <<[kind |-> "MATCH", hits |-> Dest, target |-> MainGroup.name]>>
      BY <2>3, <3>2 DEF EffectiveRules, MainGroup
    <3>4. Judge(Plan(config, mode), dest) = Expected(MainGroup.name)
      BY <2>1, <3>3, OneMatch
    <3> QED
      BY <2>3, <3>4 DEF Promised
  <2>4. CASE mode = "rule"
    BY <2>1, <2>4, RulesDecide
  <2> QED
    BY <2>1, <2>2, <2>3, <2>4 DEF ConfigInv, Mode
<1> QED
  BY <1>1, ConfigInvHolds, PTL

-----------------------------------------------------------------------------
(* The life of the backend *)

\* The inductive invariant: the checked invariants, which support each other.
\* A restart takes its descriptor from the state, so BackendOnFd and the type
\* need NoBackendWithoutFd, and StatusKnown needs it for stop.
CoreInv ==
  /\ CoreTypeOK
  /\ NoBackendWithoutFd
  /\ BackendOnFd
  /\ PlanApplied
  /\ StatusKnown

\* The only backend after a start, and that there is one.
LEMMA BackendFact ==
  ASSUME NEW fd, NEW plan
  PROVE  /\ \A b \in Backend(fd, plan) : b.fd = fd /\ b.plan = plan /\ b.alive = TRUE
         /\ \E b \in Backend(fd, plan) : b.alive
         /\ Backend(fd, plan) # NoBackend
  BY DEF Backend, NoBackend

\* A restart, after a change of the configuration or the mode, keeps the
\* invariant whatever its outcome.
LEMMA RestartKeeps == CoreInv /\ Restart => CoreInv'
<1> SUFFICES ASSUME CoreInv, Restart PROVE CoreInv'
  OBVIOUS
<1> DEFINE plan == Plan(config', mode')
<1>1. running /\ tunFd \in Fd /\ running' = running /\ tunFd' = tunFd
  BY DEF CoreInv, CoreTypeOK, Restart, ShouldRestart
<1>2. CASE plan # NoPlan /\ handle' = Backend(tunFd, plan)
             /\ result' = "ok" /\ edited' = FALSE /\ lost' = FALSE
  <2>1. /\ \A b \in handle' : b.fd = tunFd /\ b.plan = plan /\ b.alive = TRUE
        /\ \E b \in handle' : b.alive
    BY <1>2, BackendFact
  <2>2. CoreTypeOK' /\ NoBackendWithoutFd' /\ BackendOnFd'
    BY <1>1, <1>2, <2>1, NoFdAssumption
       DEF CoreInv, CoreTypeOK, NoBackendWithoutFd, BackendOnFd
  <2>3. PlanApplied' /\ StatusKnown'
    BY <2>1 DEF PlanApplied, StatusKnown, BackendAlive
  <2> QED
    BY <2>2, <2>3 DEF CoreInv
<1>3. CASE plan = NoPlan /\ result' = "error" /\ edited' = TRUE
             /\ handle' = handle /\ lost' = lost
  BY <1>1, <1>3 DEF CoreInv, CoreTypeOK, NoBackendWithoutFd,
       BackendOnFd, PlanApplied, StatusKnown, StatusRunning, BackendAlive
<1>4. CASE plan # NoPlan /\ handle' = NoBackend /\ result' = "error"
             /\ lost' = TRUE /\ edited' = edited
  BY <1>1, <1>4, NoFdAssumption DEF CoreInv, CoreTypeOK, NoBackendWithoutFd,
       BackendOnFd, PlanApplied, StatusKnown, NoBackend
<1> QED
  BY <1>2, <1>3, <1>4 DEF Restart

\* So does a change that waits for the next start.
LEMMA PendingKeeps == CoreInv /\ Pending => CoreInv'
  BY DEF CoreInv, CoreTypeOK, NoBackendWithoutFd, BackendOnFd, PlanApplied,
         StatusKnown, StatusRunning, BackendAlive, Pending

\* And so does every outcome of start_tun.
LEMMA StartKeeps ==
  ASSUME CoreInv, NEW fd \in Fd, NEW doc \in Doc,
         StartTun(fd, doc) \/ StartTunUnbuilt(fd, doc) \/ StartTunRefused(fd, doc)
  PROVE  CoreInv'
<1>1. CASE StartTun(fd, doc)
  <2>1. handle' = Backend(fd, StartPlan(config', mode')) /\ tunFd' = fd /\ running' = TRUE
        /\ result' = "ok" /\ edited' = FALSE /\ lost' = FALSE
    BY <1>1 DEF StartTun, Adopt
  <2>2. StartPlan(config', mode') = Plan(config', mode')
    BY <1>1 DEF StartTun, StartPlan
  <2> QED
    <3>1. /\ \A b \in handle' : b.fd = fd /\ b.plan = Plan(config', mode') /\ b.alive = TRUE
          /\ \E b \in handle' : b.alive
      <4> DEFINE plan == Plan(config', mode')
      <4>1. handle' = Backend(fd, plan)
        BY <2>1, <2>2
      <4> HIDE DEF plan
      <4>2. /\ \A b \in handle' : b.fd = fd /\ b.plan = plan /\ b.alive = TRUE
            /\ \E b \in handle' : b.alive
        BY <4>1, BackendFact
      <4> QED
        BY <4>2 DEF plan
    <3>2. CoreTypeOK' /\ NoBackendWithoutFd' /\ BackendOnFd'
      BY <2>1, <3>1, NoFdAssumption DEF CoreTypeOK, NoBackendWithoutFd, BackendOnFd
    <3>3. PlanApplied' /\ StatusKnown'
      BY <3>1 DEF PlanApplied, StatusKnown, BackendAlive
    <3> QED
      BY <3>2, <3>3 DEF CoreInv
<1>2. CASE StartTunUnbuilt(fd, doc)
  <2>1. handle' = handle /\ tunFd' = fd /\ running' = FALSE /\ result' = "error"
        /\ edited' = FALSE /\ lost' = lost
    BY <1>2 DEF StartTunUnbuilt, Adopt
  <2> QED
    BY <2>1, NoFdAssumption DEF CoreInv, CoreTypeOK, NoBackendWithoutFd,
         BackendOnFd, PlanApplied, StatusKnown, StatusRunning, BackendAlive
<1>3. CASE StartTunRefused(fd, doc)
  <2>1. handle' = NoBackend /\ tunFd' = fd /\ running' = FALSE /\ result' = "error"
        /\ edited' = FALSE /\ lost' = lost
    BY <1>3 DEF StartTunRefused, Adopt
  <2> QED
    BY <2>1, NoFdAssumption DEF CoreInv, CoreTypeOK, NoBackendWithoutFd,
         BackendOnFd, PlanApplied, StatusKnown, StatusRunning, BackendAlive, NoBackend
<1> QED
  BY <1>1, <1>2, <1>3

\* The conjunction of the checked invariants holds in every reachable state.
THEOREM CoreInvariance == CoreSpec => []CoreInv
<1>1. CoreInit => CoreInv
  BY DEF CoreInit, CoreInv, CoreTypeOK, NoBackendWithoutFd, BackendOnFd,
         PlanApplied, StatusKnown, StatusRunning, BackendAlive, NoBackend
<1>2. CoreInv /\ [CoreNext]_coreVars => CoreInv'
  <2> SUFFICES ASSUME CoreInv, [CoreNext]_coreVars PROVE CoreInv'
    OBVIOUS
  <2>1. ASSUME NEW fd \in Fd, NEW doc \in Doc,
               StartTun(fd, doc) \/ StartTunUnbuilt(fd, doc) \/ StartTunRefused(fd, doc)
        PROVE  CoreInv'
    BY <2>1, StartKeeps
  <2>2. CASE Stop
    BY <2>2 DEF Stop, CoreInv, CoreTypeOK, NoBackendWithoutFd, BackendOnFd,
         PlanApplied, StatusKnown, StatusRunning, BackendAlive, NoBackend
  <2>3. CASE BackendExits
    <3>1. PICK b \in handle : handle' = {[fd |-> b.fd, plan |-> b.plan, alive |-> FALSE]}
      BY <2>3 DEF BackendExits
    <3>2. UNCHANGED <<config, mode, running, tunFd, result, edited, lost>>
      BY <2>3 DEF BackendExits
    <3>3. CoreTypeOK' /\ NoBackendWithoutFd' /\ BackendOnFd'
      BY <3>1, <3>2 DEF CoreInv, CoreTypeOK, NoBackendWithoutFd, BackendOnFd, NoBackend
    <3>4. PlanApplied'
      BY <3>1, <3>2 DEF CoreInv, PlanApplied
    <3>5. StatusKnown'
      BY <3>1 DEF StatusKnown, StatusRunning, BackendAlive, NoBackend
    <3> QED
      BY <3>3, <3>4, <3>5 DEF CoreInv
  <2>4. ASSUME NEW name \in Names, NEW member \in Targets, SelectProxy(name, member)
        PROVE  CoreInv'
    BY <2>4, RestartKeeps, PendingKeeps DEF SelectProxy
  <2>5. ASSUME NEW name \in Names, NEW member \in Targets, SelectRejected(name, member)
        PROVE  CoreInv'
    BY <2>5 DEF SelectRejected, CoreInv, CoreTypeOK, NoBackendWithoutFd, BackendOnFd,
         PlanApplied, StatusKnown, StatusRunning, BackendAlive
  <2>6. ASSUME NEW m \in Mode, SetMode(m) PROVE CoreInv'
    BY <2>6, RestartKeeps, PendingKeeps DEF SetMode
  <2>7. ASSUME NEW doc \in Doc, LoadConfig(doc) PROVE CoreInv'
    <3>1. result' = "ok" /\ edited' = TRUE /\ UNCHANGED <<running, tunFd, handle, lost>>
      BY <2>7 DEF LoadConfig
    <3> QED
      BY <3>1 DEF CoreInv, CoreTypeOK, NoBackendWithoutFd, BackendOnFd,
           PlanApplied, StatusKnown, StatusRunning, BackendAlive
  <2>8. ASSUME NEW name \in Names, NEW r \in Delay, TestDelay(name, r) PROVE CoreInv'
    <3>1. /\ result' \in {"ok", "error"}
          /\ edited' = (edited \/ config' # config)
          /\ UNCHANGED <<running, tunFd, handle, lost>>
          /\ mode' = mode
      BY <2>8 DEF TestDelay, Probe
    <3> QED
      BY <3>1 DEF CoreInv, CoreTypeOK, NoBackendWithoutFd, BackendOnFd,
           PlanApplied, StatusKnown, StatusRunning, BackendAlive
  <2>9. CASE UNCHANGED coreVars
    BY <2>9 DEF coreVars, CoreInv, CoreTypeOK, NoBackendWithoutFd, BackendOnFd,
         PlanApplied, StatusKnown, StatusRunning, BackendAlive
  <2> QED
    BY <2>1, <2>2, <2>3, <2>4, <2>5, <2>6, <2>7, <2>8, <2>9 DEF CoreNext
<1> QED
  BY <1>1, <1>2, PTL DEF CoreSpec

\* The variables of the core keep their types.
THEOREM CoreTypeCorrect == CoreSpec => []CoreTypeOK
<1>1. CoreInv => CoreTypeOK
  BY DEF CoreInv
<1> QED
  BY <1>1, CoreInvariance, PTL

\* Once stop has returned nothing drives the descriptor any more, and a running
\* core drives the one it was given last.
THEOREM DescriptorOwned == CoreSpec => []DescriptorKept
<1>1. CoreInv => DescriptorKept
  BY DEF CoreInv, DescriptorKept
<1> QED
  BY <1>1, CoreInvariance, PTL

\* What the backend routes is what the state says, but for the named exceptions.
THEOREM BackendFollowsState == CoreSpec => []PlanApplied
<1>1. CoreInv => PlanApplied
  BY DEF CoreInv
<1> QED
  BY <1>1, CoreInvariance, PTL

\* A status of "running" without a backend goes back to a refused restart.
THEOREM StatusExplained == CoreSpec => []StatusKnown
<1>1. CoreInv => StatusKnown
  BY DEF CoreInv
<1> QED
  BY <1>1, CoreInvariance, PTL

-----------------------------------------------------------------------------
(* The core and the adapter *)

\* Every step of the core is a step of the adapter or leaves it alone.
LEMMA CoreStepIsConfigStep == [CoreNext]_coreVars => [ConfigNext]_configVars
<1> SUFFICES ASSUME [CoreNext]_coreVars PROVE [ConfigNext]_configVars
  OBVIOUS
<1>1. ASSUME NEW fd \in Fd, NEW doc \in Doc,
             StartTun(fd, doc) \/ StartTunUnbuilt(fd, doc) \/ StartTunRefused(fd, doc)
      PROVE  ConfigNext
  BY <1>1 DEF StartTun, StartTunUnbuilt, StartTunRefused, Adopt, ConfigNext
<1>2. CASE Stop \/ BackendExits
  BY <1>2 DEF Stop, BackendExits, configVars
<1>3. ASSUME NEW name \in Names, NEW member \in Targets, SelectProxy(name, member)
      PROVE  ConfigNext
  BY <1>3 DEF SelectProxy, ConfigNext, Edit
<1>4. ASSUME NEW name \in Names, NEW member \in Targets, SelectRejected(name, member)
      PROVE  UNCHANGED configVars
  BY <1>4 DEF SelectRejected, configVars
<1>5. ASSUME NEW m \in Mode, SetMode(m) PROVE ConfigNext
  BY <1>5 DEF SetMode, ConfigNext, Edit
<1>6. ASSUME NEW doc \in Doc, LoadConfig(doc) PROVE ConfigNext
  BY <1>6 DEF LoadConfig, ConfigNext
<1>7. ASSUME NEW name \in Names, NEW r \in Delay, TestDelay(name, r) PROVE ConfigNext
  BY <1>7 DEF TestDelay, ConfigNext, Edit
<1>8. CASE UNCHANGED coreVars
  BY <1>8 DEF coreVars, configVars
<1> QED
  BY <1>1, <1>2, <1>3, <1>4, <1>5, <1>6, <1>7, <1>8 DEF CoreNext

\* Calls, outcomes and exits of the core are steps of the adapter or nothing to
\* it, so that whatever holds for the adapter holds in the core.
THEOREM CoreRefinesAdapter == CoreSpec => ConfigSpec
<1>1. CoreInit => ConfigInit
  BY DEF CoreInit
<1> QED
  BY <1>1, CoreStepIsConfigStep, PTL DEF CoreSpec, ConfigSpec

\* No backend is started with a plan that could not be built.
PlansBuilt == \A b \in handle : b.plan # NoPlan

\* Every step keeps that.
LEMMA PlansBuiltStep ==
  ASSUME PlansBuilt, [CoreNext]_coreVars
  PROVE  PlansBuilt'
<1>1. ASSUME handle' = handle \/ handle' = NoBackend PROVE PlansBuilt'
  BY <1>1 DEF PlansBuilt, NoBackend
<1>2. ASSUME NEW fd, NEW plan, plan # NoPlan, handle' = Backend(fd, plan) PROVE PlansBuilt'
  <2>1. handle' = {[fd |-> fd, plan |-> plan, alive |-> TRUE]}
    BY <1>2 DEF Backend
  <2> QED
    BY <1>2, <2>1 DEF PlansBuilt
<1>3. ASSUME Restart PROVE PlansBuilt'
  <2> DEFINE plan == Plan(config', mode')
  <2>1. \/ plan # NoPlan /\ handle' = Backend(tunFd, plan)
        \/ handle' = handle
        \/ handle' = NoBackend
    BY <1>3 DEF Restart
  <2> HIDE DEF plan
  <2> QED
    BY <1>1, <1>2, <2>1
<1>4. ASSUME NEW fd \in Fd, NEW doc \in Doc, StartTun(fd, doc) PROVE PlansBuilt'
  <2> DEFINE plan == StartPlan(config', mode')
  <2>1. plan # NoPlan /\ handle' = Backend(fd, plan)
    BY <1>4 DEF StartTun
  <2> HIDE DEF plan
  <2> QED
    BY <1>2, <2>1
<1>5. ASSUME NEW fd \in Fd, NEW doc \in Doc,
             StartTunUnbuilt(fd, doc) \/ StartTunRefused(fd, doc)
      PROVE  PlansBuilt'
  BY <1>1, <1>5 DEF StartTunUnbuilt, StartTunRefused
<1>6. CASE BackendExits
  BY <1>6 DEF BackendExits, PlansBuilt
<1>7. ASSUME NEW name \in Names, NEW member \in Targets,
             SelectProxy(name, member) \/ SelectRejected(name, member)
      PROVE  PlansBuilt'
  BY <1>1, <1>3, <1>7 DEF SelectProxy, SelectRejected, Pending
<1>8. ASSUME NEW m \in Mode, SetMode(m) PROVE PlansBuilt'
  BY <1>1, <1>3, <1>8 DEF SetMode, Pending
<1>9. CASE Stop \/ (\E doc \in Doc : LoadConfig(doc))
           \/ (\E name \in Names, r \in Delay : TestDelay(name, r)) \/ UNCHANGED coreVars
  BY <1>1, <1>9 DEF Stop, LoadConfig, TestDelay, coreVars
<1> QED
  BY <1>4, <1>5, <1>6, <1>7, <1>8, <1>9 DEF CoreNext

\* The backend, not only a plan, sends every destination where mode, rules and
\* selections of the state say: as long as the core runs and no load_config,
\* probe or unbuildable restart has come in between.
RoutesAsPromised ==
  running /\ ~ edited /\ config.groups # <<>> =>
    \A b \in handle : \A dest \in Dest :
      \/ Judge(b.plan, dest) = Promised(dest)
      \/ Unmatched(dest) /\ DefaultTaken

\* From the plans of the adapter and the life of the backend together.
THEOREM BackendRoutesAsPromised == CoreSpec => []RoutesAsPromised
<1>1. CoreInit => PlansBuilt
  BY DEF CoreInit, PlansBuilt, NoBackend
<1>2. CoreSpec => []PlansBuilt
  BY <1>1, PlansBuiltStep, PTL DEF CoreSpec
<1>3. CoreSpec => []PlanKeepsPromise
  BY CoreRefinesAdapter, PlansKeepPromises, PTL
<1>4. PlansBuilt /\ PlanApplied /\ PlanKeepsPromise => RoutesAsPromised
  BY DEF PlansBuilt, PlanApplied, PlanKeepsPromise, RoutesAsPromised
<1> QED
  BY <1>2, <1>3, <1>4, BackendFollowsState, PTL

-----------------------------------------------------------------------------
(* The native core implements Engine, the core as the extension sees it:   *)
(* the backend without its plan, the flag and the descriptor.              *)

\* What is seen of a backend,
LEMMA OneBackend ==
  ASSUME NEW b
  PROVE  AsEngine({b}) = {[fd |-> b.fd, alive |-> b.alive]}
<1>1. \A x : x \in AsEngine({b}) <=> \E c \in {b} : x = [fd |-> c.fd, alive |-> c.alive]
  BY DEF AsEngine
<1>. QED BY <1>1

\* ... of one that has just been started,
LEMMA FreshBackend ==
  ASSUME NEW fd, NEW plan
  PROVE  AsEngine(Backend(fd, plan)) = Abstract!Fresh(fd)
<1>. DEFINE b == [fd |-> fd, plan |-> plan, alive |-> TRUE]
<1>1. AsEngine({b}) = {[fd |-> b.fd, alive |-> b.alive]}
  BY OneBackend
<1>. QED BY <1>1 DEF Backend, Abstract!Fresh

\* ... and of none.
LEMMA NoneIsNone == AsEngine(NoBackend) = {}
  BY DEF AsEngine, NoBackend

\* A restart shows as a change of the engine.
LEMMA RestartIsChange ==
  ASSUME Restart
  PROVE  Abstract!Change
<1>1. running /\ tunFd # NoFd /\ UNCHANGED <<running, tunFd>>
  BY DEF Restart, ShouldRestart
<1>2. \/ handle' = Backend(tunFd, Plan(config', mode'))
      \/ handle' = handle
      \/ handle' = NoBackend
  BY DEF Restart
<1>3. CASE handle' = Backend(tunFd, Plan(config', mode'))
  <2>1. AsEngine(handle)' = AsEngine(Backend(tunFd, Plan(config', mode')))
    BY <1>3 DEF AsEngine
  <2>2. AsEngine(handle)' = Abstract!Fresh(tunFd)
    BY <2>1, FreshBackend
  <2>. QED BY <1>1, <2>2 DEF Abstract!Change
<1>4. CASE handle' = handle
  BY <1>1, <1>4 DEF Abstract!Change, AsEngine
<1>5. CASE handle' = NoBackend
  BY <1>1, <1>5, NoneIsNone DEF Abstract!Change, AsEngine
<1>. QED BY <1>2, <1>3, <1>4, <1>5

\* Every step of the core is a step of the engine, or shows nothing.
LEMMA StepIsEngineStep ==
  ASSUME CoreNext
  PROVE  Abstract!EngineNext \/ UNCHANGED Abstract!engineVars
<1>1. CASE \E fd \in Fd, doc \in Doc : StartTun(fd, doc)
  <2>1. PICK fd \in Fd, doc \in Doc : StartTun(fd, doc)
    BY <1>1
  <2>2. /\ handle' = Backend(fd, StartPlan(config', mode'))
        /\ running' = TRUE /\ tunFd' = fd
    BY <2>1 DEF StartTun, Adopt
  <2>3. AsEngine(handle)' = AsEngine(Backend(fd, StartPlan(config', mode')))
    BY <2>2 DEF AsEngine
  <2>4. Abstract!Start(fd)
    BY <2>2, <2>3, FreshBackend DEF Abstract!Start
  <2>. QED BY <2>4 DEF Abstract!EngineNext
<1>2. CASE \E fd \in Fd, doc \in Doc : StartTunUnbuilt(fd, doc)
  BY <1>2 DEF StartTunUnbuilt, Adopt, AsEngine, Abstract!StartFailed, Abstract!EngineNext
<1>3. CASE \E fd \in Fd, doc \in Doc : StartTunRefused(fd, doc)
  BY <1>3, NoneIsNone
     DEF StartTunRefused, Adopt, AsEngine, Abstract!StartFailed, Abstract!EngineNext
<1>4. CASE Stop
  BY <1>4, NoneIsNone DEF Stop, AsEngine, Abstract!Shut, Abstract!EngineNext
<1>5. CASE BackendExits
  <2>1. PICK b \in handle : b.alive /\ handle' = {[fd |-> b.fd, plan |-> b.plan, alive |-> FALSE]}
    BY <1>5 DEF BackendExits
  <2>2. [fd |-> b.fd, alive |-> b.alive] \in AsEngine(handle)
    BY DEF AsEngine
  <2>. DEFINE ended == [fd |-> b.fd, plan |-> b.plan, alive |-> FALSE]
  <2>3. AsEngine(handle)' = {[fd |-> b.fd, alive |-> FALSE]}
    <3>1. AsEngine({ended}) = {[fd |-> ended.fd, alive |-> ended.alive]}
      BY OneBackend
    <3>2. AsEngine(handle)' = AsEngine({ended})
      BY <2>1 DEF AsEngine
    <3>. QED BY <3>1, <3>2
  <2>4. UNCHANGED <<running, tunFd>>
    BY <1>5 DEF BackendExits
  <2>5. Abstract!Exit
    BY <2>1, <2>2, <2>3, <2>4 DEF Abstract!Exit
  <2>. QED BY <2>5 DEF Abstract!EngineNext
<1>6. CASE \/ \E name \in Names, member \in Targets : SelectProxy(name, member)
           \/ \E m \in Mode : SetMode(m)
  <2>1. Restart \/ Pending
    BY <1>6 DEF SelectProxy, SetMode
  <2>2. CASE Restart
    BY <2>2, RestartIsChange DEF Abstract!EngineNext
  <2>3. CASE Pending
    BY <2>3 DEF Pending, AsEngine, Abstract!engineVars
  <2>. QED BY <2>1, <2>2, <2>3
<1>7. CASE \E name \in Names, member \in Targets : SelectRejected(name, member)
  BY <1>7 DEF SelectRejected, AsEngine, Abstract!engineVars
<1>8. CASE \E doc \in Doc : LoadConfig(doc)
  BY <1>8 DEF LoadConfig, AsEngine, Abstract!engineVars
<1>9. CASE \E name \in Names, r \in Delay : TestDelay(name, r)
  BY <1>9 DEF TestDelay, AsEngine, Abstract!engineVars
<1>. QED
  BY <1>1, <1>2, <1>3, <1>4, <1>5, <1>6, <1>7, <1>8, <1>9 DEF CoreNext

\* The native core implements the engine that the extension relies on, for
\* every set of documents, descriptors and probe results.
THEOREM CoreImplementsEngine == CoreSpec => ImplementsEngine
<1>1. CoreInit => Abstract!EngineInit
  BY NoneIsNone DEF CoreInit, Abstract!EngineInit
<1>2. [CoreNext]_coreVars => [Abstract!EngineNext]_(Abstract!engineVars)
  <2>1. ASSUME UNCHANGED coreVars
        PROVE  UNCHANGED Abstract!engineVars
    BY <2>1 DEF coreVars, Abstract!engineVars, AsEngine
  <2>. QED BY <2>1, StepIsEngineStep
<1>. QED BY <1>1, <1>2, PTL DEF CoreSpec, ImplementsEngine, Abstract!EngineSpec
=============================================================================
