---------------------------- MODULE Ordered_proofs ----------------------------
(***************************************************************************)
(* What the operators on numbers and sequences return that the modules     *)
(* are built from, for every finite set of numbers and every sequence:     *)
(* those of Ordered, and FlattenSeq.                                       *)
(***************************************************************************)
EXTENDS Ordered, SequencesExt, FiniteSetTheorems, WellFoundedInduction, TLAPS

(* Every set of natural numbers but the empty one has a least element.     *)
LEMMA LeastElement ==
  ASSUME NEW S \in SUBSET Nat, S # {}
  PROVE  \E x \in S : \A y \in S : x <= y
<1>1. PICK x \in S : \A y \in S : ~ (<<y, x>> \in OpToRel(<, Nat))
  BY NatLessThanWellFounded, WFMin
<1>2. ASSUME NEW y \in S, ~ (x <= y)
      PROVE  FALSE
  <2>1. <<y, x>> \in Nat \X Nat /\ <<y, x>>[1] < <<y, x>>[2]
    BY <1>2
  <2>2. <<y, x>> \in {ss \in Nat \X Nat : ss[1] < ss[2]}
    BY <2>1
  <2> QED
    BY <1>1, <2>2, Zenon DEF OpToRel
<1> QED
  BY <1>2

-----------------------------------------------------------------------------
(* Ascending and Filtered *)

(* How many numbers of S are not greater than i.                           *)
Rank(S, i) == Cardinality({j \in S : j <= i})

(* The rank grows with the number.                                         *)
LEMMA RankGrows ==
  ASSUME NEW S \in SUBSET Int, IsFiniteSet(S)
  PROVE  /\ \A i \in S : Rank(S, i) \in 1..Cardinality(S)
         /\ \A i, j \in S : i < j => Rank(S, i) < Rank(S, j)
<1> DEFINE upTo(i) == {j \in S : j <= i}
<1>1. \A i \in S : /\ IsFiniteSet(upTo(i)) /\ Cardinality(upTo(i)) \in Nat
                   /\ Cardinality(upTo(i)) <= Cardinality(S)
  BY FS_Subset, FS_CardinalityType
<1>2. \A i \in S : Cardinality(upTo(i)) # 0
  <2> SUFFICES ASSUME NEW i \in S PROVE Cardinality(upTo(i)) # 0
    OBVIOUS
  <2>1. i \in upTo(i)
    OBVIOUS
  <2> QED
    BY <1>1, <2>1, FS_EmptySet
<1>3. Cardinality(S) \in Nat
  BY FS_CardinalityType
<1>4. ASSUME NEW i \in S, NEW j \in S, i < j
      PROVE  Cardinality(upTo(i)) < Cardinality(upTo(j))
  <2>0. \A k \in S : k \in Int
    OBVIOUS
  <2>1. j \in upTo(j) /\ j \notin upTo(i)
    BY <1>4, <2>0
  <2>2. \A k \in S : k <= i => k <= j
    BY <1>4, <2>0
  <2>3. upTo(i) \in SUBSET upTo(j)
    BY <2>2
  <2>4. /\ Cardinality(upTo(i)) <= Cardinality(upTo(j))
        /\ Cardinality(upTo(j)) = Cardinality(upTo(i)) => upTo(j) = upTo(i)
    BY <1>1, <2>3, FS_Subset
  <2> QED
    BY <1>1, <2>1, <2>4
<1> QED
  BY <1>1, <1>2, <1>3, <1>4 DEF Rank

(* Ascending(S) goes through all of S, each number once, from the least to *)
(* the greatest.                                                           *)
LEMMA AscendingOrders ==
  ASSUME NEW S \in SUBSET Int, IsFiniteSet(S)
  PROVE  /\ Cardinality(S) \in Nat
         /\ Ascending(S) \in [1..Cardinality(S) -> S]
         /\ \A j, k \in 1..Cardinality(S) :
              j < k => Ascending(S)[j] < Ascending(S)[k]
         /\ \A i \in S : \E k \in 1..Cardinality(S) : Ascending(S)[k] = i
<1> DEFINE n == Cardinality(S)
           f == [i \in S |-> Rank(S, i)]
           a == Ascending(S)
<1>1. n \in Nat
  BY FS_CardinalityType
<1>2. f \in Injection(S, 1..n)
  <2>1. f \in [S -> 1..n]
    BY RankGrows
  <2>2. ASSUME NEW i \in S, NEW j \in S, f[i] = f[j] PROVE i = j
    <3>1. Rank(S, i) = Rank(S, j) /\ Rank(S, i) \in 1..n
      BY <2>2, RankGrows
    <3>2. ~ (i < j) /\ ~ (j < i)
      BY <3>1, RankGrows
    <3> QED
      BY <3>2
  <2> QED
    BY <2>1, <2>2 DEF Injection, IsInjective
<1>3. f \in Surjection(S, 1..n)
  <2>1. IsFiniteSet(1..n) /\ Cardinality(1..n) = n
    BY <1>1, FS_Interval
  <2> QED
    BY <1>2, <2>1, FS_Injection
<1>4. \A k \in 1..n : \E i \in S : Rank(S, i) = k
  BY <1>3 DEF Surjection
<1>5. /\ a \in [1..n -> S]
      /\ \A k \in 1..n : Rank(S, a[k]) = k
  BY <1>4 DEF Ascending, Rank
<1> HIDE DEF a
<1>6. ASSUME NEW j \in 1..n, NEW k \in 1..n, j < k PROVE a[j] < a[k]
  <2>1. /\ a[j] \in S /\ a[k] \in S /\ Rank(S, a[j]) = j /\ Rank(S, a[k]) = k
        /\ j \in Int /\ k \in Int
    BY <1>1, <1>5
  <2>2. a[j] \in Int /\ a[k] \in Int
    BY <2>1
  <2>3. \A x, y \in S : x < y => Rank(S, x) < Rank(S, y)
    BY RankGrows
  <2>4. a[k] < a[j] => k < j
    <3>1. a[k] < a[j] => Rank(S, a[k]) < Rank(S, a[j])
      BY <2>1, <2>3, Zenon
    <3> QED
      BY <2>1, <3>1
  <2>5. a[k] # a[j]
    BY <1>6, <2>1
  <2> QED
    BY <1>6, <2>1, <2>2, <2>4, <2>5
<1>7. ASSUME NEW i \in S PROVE \E k \in 1..n : a[k] = i
  <2>1. Rank(S, i) \in 1..n
    BY RankGrows
  <2>2. a[Rank(S, i)] \in S /\ Rank(S, a[Rank(S, i)]) = Rank(S, i)
    BY <1>5, <2>1
  <2>3. f[a[Rank(S, i)]] = f[i]
    BY <2>2
  <2>4. a[Rank(S, i)] = i
    BY <1>2, <2>2, <2>3 DEF Injection, IsInjective
  <2> QED
    BY <2>1, <2>4
<1> QED
  BY <1>1, <1>5, <1>6, <1>7 DEF a

(* The places of a sequence are finitely many.                             *)
LEMMA PlacesFinite ==
  ASSUME NEW T, NEW s \in Seq(T), NEW places \in SUBSET (DOMAIN s)
  PROVE  places \in SUBSET Int /\ IsFiniteSet(places)
<1>1. IsFiniteSet(1..Len(s)) /\ DOMAIN s = 1..Len(s)
  BY FS_Interval
<1> QED
  BY <1>1, FS_Subset

(* r has the elements of s at these places, in their order.                *)
InOrderFrom(r, s, places) ==
    \E order \in [DOMAIN r -> places] :
      /\ \A k \in DOMAIN order : r[k] = s[order[k]]
      /\ \A j, k \in DOMAIN order : j < k => order[j] < order[k]
      /\ \A i \in places : \E k \in DOMAIN order : order[k] = i

(* Filtered() returns a sequence of the elements at the places given and   *)
(* of no others, and keeps their order.                                    *)
LEMMA FilteredKeeps ==
  ASSUME NEW T, NEW s \in Seq(T), NEW places \in SUBSET (DOMAIN s)
  PROVE  /\ Filtered(s, places) \in Seq(T)
         /\ Len(Filtered(s, places)) = Cardinality(places)
         /\ Range(Filtered(s, places)) = {s[i] : i \in places}
         /\ InOrderFrom(Filtered(s, places), s, places)
<1> DEFINE n == Cardinality(places)
           order == Ascending(places)
           r == Filtered(s, places)
<1>1. /\ n \in Nat
      /\ order \in [1..n -> places]
      /\ \A j, k \in 1..n : j < k => order[j] < order[k]
      /\ \A i \in places : \E k \in 1..n : order[k] = i
  BY PlacesFinite, AscendingOrders
<1>2. r = [k \in 1..n |-> s[order[k]]]
  BY DEF Filtered
<1> HIDE DEF n, order, r
<1>3. \A i \in places : s[i] \in T
  OBVIOUS
<1>4. \A k \in 1..n : s[order[k]] \in T
  BY <1>1, <1>3
<1>5. r \in Seq(T) /\ Len(r) = n /\ DOMAIN r = 1..n
  BY <1>1, <1>2, <1>4
<1>6. Range(r) = {s[i] : i \in places}
  BY <1>1, <1>2, <1>5 DEF Range
<1>7. /\ order \in [DOMAIN r -> places]
      /\ \A k \in DOMAIN order : r[k] = s[order[k]]
      /\ \A j, k \in DOMAIN order : j < k => order[j] < order[k]
      /\ \A i \in places : \E k \in DOMAIN order : order[k] = i
  BY <1>1, <1>2, <1>5
<1> QED
  BY <1>5, <1>6, <1>7 DEF InOrderFrom, r, n
-----------------------------------------------------------------------------
(* FlattenSeq *)

(* The recursive function in FlattenSeq, as far as n.                      *)
Flattens(f, seqs, n) ==
    f = [i \in 1..n |-> IF i = 1 THEN seqs[i] ELSE f[i-1] \o seqs[i]]

(* FlattenSeq is defined by a recursive function; there is one that does    *)
(* what its definition says.                                               *)
LEMMA FlattenExists ==
  ASSUME NEW T, NEW seqs \in Seq(Seq(T))
  PROVE  \A n \in 0..Len(seqs) : \E f : Flattens(f, seqs, n)
<1> DEFINE bad == {n \in 0..Len(seqs) : ~ \E f : Flattens(f, seqs, n)}
<1>1. Len(seqs) \in Nat
  OBVIOUS
<1>2. SUFFICES ASSUME bad # {} PROVE FALSE
  OBVIOUS
<1>3. PICK n \in bad : \A m \in bad : n <= m
  <2>1. bad \in SUBSET Nat
    BY <1>1
  <2> HIDE DEF bad
  <2> QED
    BY <1>2, <2>1, LeastElement
<1>4. n # 0
  <2> DEFINE g == [i \in 1..0 |-> << >>]
  <2>1. Flattens(g, seqs, 0)
    BY DEF Flattens
  <2> QED
    BY <2>1, <1>3
<1>5. n \in Nat /\ n - 1 \in 0..Len(seqs) /\ n-1 \notin bad
  <2>1. n \in Nat /\ n <= Len(seqs)
    BY <1>1
  <2>2. n - 1 \in 0..Len(seqs) /\ ~ (n <= n - 1)
    BY <1>1, <1>4, <2>1
  <2> QED
    BY <1>3, <2>1, <2>2
<1>6. PICK f : Flattens(f, seqs, n-1)
  BY <1>5
<1> DEFINE g == [i \in 1..n |-> IF i = n THEN (IF n = 1 THEN seqs[n] ELSE f[n-1] \o seqs[n]) ELSE f[i]]
<1>7. \A i \in 1..n : g[i] = IF i = 1 THEN seqs[i] ELSE g[i-1] \o seqs[i]
  <2> TAKE i \in 1..n
  <2>1. CASE i = n
    BY <2>1, <1>5
  <2>2. CASE i # n
    <3>1. i \in 1..(n-1) /\ g[i] = f[i]
      BY <2>2, <1>5
    <3>2. i # 1 => i - 1 \in 1..(n-1) /\ g[i-1] = f[i-1]
      BY <2>2, <1>5
    <3>3. f[i] = IF i = 1 THEN seqs[i] ELSE f[i-1] \o seqs[i]
      BY <1>6, <3>1 DEF Flattens
    <3> QED
      BY <3>1, <3>2, <3>3
  <2> QED
    BY <2>1, <2>2
<1>8. Flattens(g, seqs, n)
  <2>1. g = [i \in 1..n |-> g[i]]
    OBVIOUS
  <2> HIDE DEF g
  <2> QED
    BY <1>7, <2>1 DEF Flattens
<1> QED
  BY <1>3, <1>8

(* So FlattenSeq returns what that function comes to.                      *)
LEMMA FlattenSays ==
  ASSUME NEW T, NEW seqs \in Seq(Seq(T)), Len(seqs) # 0
  PROVE  \E f : Flattens(f, seqs, Len(seqs)) /\ FlattenSeq(seqs) = f[Len(seqs)]
<1> DEFINE f == CHOOSE f : Flattens(f, seqs, Len(seqs))
<1>1. Flattens(f, seqs, Len(seqs))
  BY FlattenExists
<1>2. FlattenSeq(seqs) = f[Len(seqs)]
  BY DEF FlattenSeq, Flattens
<1> QED
  BY <1>1, <1>2

(* Joining two sequences loses nothing and adds nothing.                   *)
LEMMA ConcatRange ==
  ASSUME NEW T, NEW s \in Seq(T), NEW t \in Seq(T)
  PROVE  s \o t \in Seq(T) /\ Range(s \o t) = Range(s) \cup Range(t)
<1> DEFINE r == s \o t
<1>1. /\ r \in Seq(T) /\ Len(s) \in Nat /\ Len(t) \in Nat
      /\ DOMAIN s = 1..Len(s) /\ DOMAIN t = 1..Len(t)
      /\ DOMAIN r = 1..(Len(s) + Len(t))
      /\ \A i \in 1..Len(s) : r[i] = s[i]
      /\ \A i \in 1..Len(t) : r[Len(s) + i] = t[i]
  OBVIOUS
<1>2. \A i \in DOMAIN s : i \in DOMAIN r
  BY <1>1
<1>3. \A i \in DOMAIN t : Len(s) + i \in DOMAIN r
  BY <1>1
<1>4. \A i \in DOMAIN r : i \in DOMAIN s \/ (i - Len(s) \in DOMAIN t /\ Len(s) + (i - Len(s)) = i)
  BY <1>1
<1> HIDE DEF r
<1>5. ASSUME NEW i \in DOMAIN r
      PROVE  (\E j \in DOMAIN s : s[j] = r[i]) \/ (\E j \in DOMAIN t : t[j] = r[i])
  <2>1. CASE i \in DOMAIN s
    BY <1>1, <2>1
  <2>2. CASE i - Len(s) \in DOMAIN t /\ Len(s) + (i - Len(s)) = i
    <3>1. t[i - Len(s)] = r[i]
      BY <1>1, <2>2
    <3> QED
      BY <2>2, <3>1
  <2> QED
    BY <1>4, <2>1, <2>2
<1>6. \A i \in DOMAIN s : \E j \in DOMAIN r : r[j] = s[i]
  BY <1>1, <1>2
<1>7. \A i \in DOMAIN t : \E j \in DOMAIN r : r[j] = t[i]
  BY <1>1, <1>3
<1>8. Range(r) = Range(s) \cup Range(t)
  BY <1>5, <1>6, <1>7 DEF Range
<1> QED
  BY <1>1, <1>8 DEF r

(* What the first n sequences hold, and a sequence of just that.           *)
UpTo(seqs, n) == UNION {Range(seqs[j]) : j \in 1..n}
Collects(s, seqs, n, T) == s \in Seq(T) /\ Range(s) = UpTo(seqs, n)

(* FlattenSeq returns the elements of all the sequences and no others.     *)
LEMMA FlattenKeeps ==
  ASSUME NEW T, NEW seqs \in Seq(Seq(T))
  PROVE  /\ FlattenSeq(seqs) \in Seq(T)
         /\ Range(FlattenSeq(seqs)) = UNION {Range(seqs[j]) : j \in DOMAIN seqs}
<1> DEFINE N == Len(seqs)
<1>1. N \in Nat /\ DOMAIN seqs = 1..N /\ \A j \in 1..N : seqs[j] \in Seq(T)
  OBVIOUS
<1>2. CASE N = 0
  <2>1. FlattenSeq(seqs) = seqs /\ seqs = << >>
    BY <1>2 DEF FlattenSeq
  <2> QED
    BY <2>1 DEF Range
<1>3. CASE N # 0
  <2>1. PICK f : Flattens(f, seqs, N) /\ FlattenSeq(seqs) = f[N]
    BY <1>3, FlattenSays
  <2>2. \A n \in 1..N : f[n] = IF n = 1 THEN seqs[n] ELSE f[n-1] \o seqs[n]
    BY <2>1 DEF Flattens
  <2> DEFINE bad == {n \in 1..N : ~Collects(f[n], seqs, n, T)}
  <2>3. bad \in SUBSET Nat
    BY <1>1
  <2>4. ASSUME NEW n \in 1..N, \A m \in bad : n <= m
        PROVE  Collects(f[n], seqs, n, T)
    <3>1. n \in Nat /\ seqs[n] \in Seq(T)
      BY <1>1
    <3>3. CASE n = 1
      <4>1. f[n] = seqs[n] /\ 1..n = {n}
        BY <1>1, <2>2, <3>3
      <4> QED
        BY <3>1, <4>1 DEF Collects, UpTo
    <3>4. CASE n # 1
      <4>1. n - 1 \in 1..N /\ ~ (n <= n - 1)
        BY <1>1, <3>1, <3>4
      <4>2. Collects(f[n - 1], seqs, n - 1, T)
        BY <2>4, <4>1
      <4>3. f[n] = f[n-1] \o seqs[n] /\ f[n-1] \in Seq(T)
        BY <2>2, <3>4, <4>2 DEF Collects
      <4>4. f[n] \in Seq(T) /\ Range(f[n]) = Range(f[n-1]) \cup Range(seqs[n])
        BY <3>1, <4>3, ConcatRange
      <4>5. 1..n = (1..(n-1)) \cup {n}
        BY <3>1
      <4>6. UpTo(seqs, n) = UpTo(seqs, n - 1) \cup Range(seqs[n])
        BY <4>5, Zenon DEF UpTo
      <4> QED
        BY <4>2, <4>4, <4>6 DEF Collects
    <3> QED
      BY <3>3, <3>4
  <2> HIDE DEF N
  <2>5. bad = {}
    <3>1. SUFFICES ASSUME bad # {} PROVE FALSE
      OBVIOUS
    <3>2. PICK n \in bad : \A m \in bad : n <= m
      <4> HIDE DEF bad
      <4> QED
        BY <2>3, <3>1, LeastElement
    <3> QED
      BY <2>4, <3>2
  <2>6. Collects(f[N], seqs, N, T)
    BY <1>1, <1>3, <2>5
  <2> QED
    BY <1>1, <2>1, <2>6 DEF Collects, UpTo
<1> QED
  BY <1>2, <1>3

(* What is appended to a sequence joins its elements.                      *)
LEMMA RangeAppend ==
    ASSUME NEW T, NEW s \in Seq(T), NEW r \in T
    PROVE  Range(Append(s, r)) = Range(s) \cup {r}
  <1>1. DOMAIN Append(s, r) = DOMAIN s \cup {Len(s) + 1}
    OBVIOUS
  <1>2. /\ \A i \in DOMAIN s : Append(s, r)[i] = s[i]
        /\ Append(s, r)[Len(s) + 1] = r
    OBVIOUS
  <1> QED
    BY <1>1, <1>2, Zenon DEF Range

-----------------------------------------------------------------------------
(* Records that are told apart by their ids, as the stores keep them.      *)
DistinctIds(s) == \A i, j \in DOMAIN s : i # j => s[i].id # s[j].id

(* An id belongs to one record.                                            *)
LEMMA OneOfEachId ==
  ASSUME NEW s, DistinctIds(s), NEW x \in Range(s), NEW y \in Range(s), x.id = y.id
  PROVE  x = y
BY DEF DistinctIds, Range

(* What is left of them is told apart.                                     *)
LEMMA FilteredIds ==
  ASSUME NEW T, NEW s \in Seq(T), DistinctIds(s), NEW places \in SUBSET (DOMAIN s)
  PROVE  DistinctIds(Filtered(s, places))
<1> DEFINE r == Filtered(s, places)
<1>0. r \in Seq(T) /\ InOrderFrom(r, s, places)
  BY FilteredKeeps
<1> HIDE DEF r
<1>1. PICK order \in [DOMAIN r -> places] :
        /\ \A k \in DOMAIN order : r[k] = s[order[k]]
        /\ \A j, k \in DOMAIN order : j < k => order[j] < order[k]
  BY <1>0 DEF InOrderFrom
<1>2. r \in Seq(T)
  BY <1>0
<1>3. ASSUME NEW j \in DOMAIN r, NEW k \in DOMAIN r, j # k
      PROVE  r[j].id # r[k].id
  <2>1. order[j] \in DOMAIN s /\ order[k] \in DOMAIN s
    BY <1>1
  <2>2. j \in Nat /\ k \in Nat /\ order[j] \in Nat /\ order[k] \in Nat
    BY <1>2, <2>1
  <2>3. order[j] # order[k]
    BY <1>1, <1>3, <2>2
  <2> QED
    BY <1>1, <2>1, <2>3 DEF DistinctIds
<1> QED
  BY <1>3 DEF DistinctIds, r

(* ... and so is a new one with an id of its own.                          *)
LEMMA AppendedId ==
  ASSUME NEW T, NEW s \in Seq(T), DistinctIds(s), NEW e \in T,
         \A x \in Range(s) : x.id # e.id
  PROVE  DistinctIds(Append(s, e))
<1> DEFINE r == Append(s, e)
           n == Len(s)
<1>1. /\ n \in Nat /\ DOMAIN s = 1..n /\ DOMAIN r = 1..(n + 1)
      /\ \A i \in 1..n : r[i] = s[i]
      /\ r[n + 1] = e
  OBVIOUS
<1>2. \A i \in 1..(n + 1) : i \in 1..n \/ i = n + 1
  BY <1>1
<1>3. \A i \in 1..n : s[i].id # e.id
  BY <1>1 DEF Range
<1> HIDE DEF r, n
<1>4. DistinctIds(r)
  BY <1>1, <1>2, <1>3 DEF DistinctIds
<1> QED
  BY <1>4 DEF r

(* A record put in the place of the one with its id, at the end.           *)
LEMMA OneRewritten ==
  ASSUME NEW T, NEW s \in Seq(T), DistinctIds(s), NEW e \in T
  PROVE  LET r == Append(Filtered(s, {i \in DOMAIN s : s[i].id # e.id}), e)
         IN  /\ r \in Seq(T)
             /\ DistinctIds(r)
             /\ Range(r) = {x \in Range(s) : x.id # e.id} \cup {e}
<1> DEFINE places == {i \in DOMAIN s : s[i].id # e.id}
           f == Filtered(s, places)
<1>1. places \in SUBSET (DOMAIN s)
  OBVIOUS
<1>2. Range(f) = {x \in Range(s) : x.id # e.id}
  <2>1. Range(f) = {s[i] : i \in places}
    <3> HIDE DEF places
    <3> QED
      BY <1>1, FilteredKeeps
  <2> QED
    BY <2>1 DEF Range
<1>3. f \in Seq(T) /\ DistinctIds(f)
  <2> HIDE DEF places
  <2> QED
    BY <1>1, FilteredKeeps, FilteredIds
<1> HIDE DEF f
<1>4. \A x \in Range(f) : x.id # e.id
  BY <1>2
<1>5. Append(f, e) \in Seq(T) /\ Range(Append(f, e)) = Range(f) \cup {e}
  BY <1>3, RangeAppend
<1>6. DistinctIds(Append(f, e))
  BY <1>3, <1>4, AppendedId
<1> QED
  BY <1>2, <1>5, <1>6 DEF f
===============================================================================
