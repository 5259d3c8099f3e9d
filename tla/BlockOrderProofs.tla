-------------------------- MODULE BlockOrderProofs --------------------------
(***************************************************************************)
(* Proofs about BlockOrder, for any blocks, any number of requests and     *)
(* whatever clients do: positions stay unique, an insert places its block, *)
(* a reorder is applied, and a page without gaps sees no false conflict.   *)
(***************************************************************************)
EXTENDS BlockOrder, FiniteSetTheorems, SequenceTheorems, TLAPS

-----------------------------------------------------------------------------
(* Listings: sequences of the members of a set in the order of a numbering *)

(* A finite set with one number per member can be listed in their order:   *)
(* a member's place is the number of members below it.                     *)
Below(S, f, b) == {a \in S : f[a] < f[b]}
Rank(S, f) == [b \in S |-> Cardinality(Below(S, f, b))]

Sorted(s, f) == \A i, j \in 1..Len(s) : i < j => f[s[i]] < f[s[j]]
ListingOf(s, f) == Sorted(s, f) /\ ToSet(s) = DOMAIN f

LEMMA RankFacts ==
    ASSUME NEW S, IsFiniteSet(S), NEW f \in [S -> Nat], IsInjective(f)
    PROVE  /\ Rank(S, f) \in [S -> 0..(Cardinality(S) - 1)]
           /\ \A a, b \in S : f[a] < f[b] => Rank(S, f)[a] < Rank(S, f)[b]
           /\ Rank(S, f) \in Surjection(S, 0..(Cardinality(S) - 1))
<1> DEFINE n == Cardinality(S)
           rank == Rank(S, f)
<1>1. n \in Nat
  BY FS_CardinalityType
<1>2. ASSUME NEW b \in S
      PROVE  IsFiniteSet(Below(S, f, b)) /\ rank[b] = Cardinality(Below(S, f, b))
  <2>1. Below(S, f, b) \in SUBSET S
    BY DEF Below
  <2> QED BY <2>1, FS_Subset DEF Rank
<1>3. ASSUME NEW b \in S PROVE rank[b] \in 0..(n - 1)
  <2>1. Below(S, f, b) \in SUBSET (S \ {b})
    BY DEF Below
  <2>2. IsFiniteSet(S \ {b}) /\ Cardinality(S \ {b}) = n - 1
    BY FS_RemoveElement
  <2>3. Cardinality(Below(S, f, b)) <= n - 1
    BY <2>1, <2>2, FS_Subset
  <2>4. Cardinality(Below(S, f, b)) \in Nat
    BY <1>2, FS_CardinalityType
  <2> QED BY <1>1, <1>2, <2>3, <2>4
<1>4. ASSUME NEW a \in S, NEW b \in S, f[a] < f[b] PROVE rank[a] < rank[b]
  <2>1. Below(S, f, a) \in SUBSET (Below(S, f, b) \ {a})
    BY <1>4 DEF Below
  <2>2. a \in Below(S, f, b)
    BY <1>4 DEF Below
  <2>3. /\ IsFiniteSet(Below(S, f, b) \ {a})
        /\ Cardinality(Below(S, f, b) \ {a}) = Cardinality(Below(S, f, b)) - 1
    BY <1>2, <2>2, FS_RemoveElement
  <2>4. Cardinality(Below(S, f, a)) <= Cardinality(Below(S, f, b)) - 1
    BY <2>1, <2>3, FS_Subset
  <2>5. rank[a] \in Nat /\ rank[b] \in Nat
    BY <1>1, <1>3
  <2> QED BY <1>2, <2>4, <2>5
<1>5. rank \in [S -> 0..(n - 1)]
  <2>1. rank = [b \in S |-> rank[b]]
    BY DEF Rank
  <2> QED BY <1>3, <2>1
<1>6. rank \in Injection(S, 0..(n - 1))
  <2>1. ASSUME NEW a \in S, NEW b \in S, rank[a] = rank[b] PROVE a = b
    <3>1. rank[a] \in Nat /\ rank[b] \in Nat
      BY <1>1, <1>3
    <3>2. ~(f[a] < f[b]) /\ ~(f[b] < f[a])
      BY <1>4, <2>1, <3>1
    <3>3. f[a] = f[b]
      BY <3>2
    <3> QED BY <3>3 DEF IsInjective
  <2> QED BY <1>5, <2>1 DEF Injection, IsInjective
<1>7. IsFiniteSet(0..(n - 1)) /\ Cardinality(0..(n - 1)) = n
  BY <1>1, FS_Interval, SMTT(30)
<1>8. rank \in Surjection(S, 0..(n - 1))
  BY <1>6, <1>7, FS_Injection
<1> QED BY <1>4, <1>5, <1>8

LEMMA ListingExists ==
    ASSUME NEW S, IsFiniteSet(S), NEW f \in [S -> Nat], IsInjective(f)
    PROVE  \E s \in [1..Cardinality(S) -> S] :
              \A i, j \in 1..Cardinality(S) : i < j => f[s[i]] < f[s[j]]
<1> DEFINE n == Cardinality(S)
           rank == Rank(S, f)
           s == [i \in 1..n |-> CHOOSE b \in S : rank[b] = i - 1]
<1>1. n \in Nat
  BY FS_CardinalityType
<1>2. ASSUME NEW i \in 1..n PROVE s[i] \in S /\ rank[s[i]] = i - 1
  <2>1. i - 1 \in 0..(n - 1)
    BY <1>1
  <2>2. \E b \in S : rank[b] = i - 1
    BY <2>1, RankFacts DEF Surjection
  <2> QED BY <2>2
<1>3. s \in [1..n -> S] /\ rank = Rank(S, f)
  BY <1>2
<1> HIDE DEF s, rank
<1>4. ASSUME NEW i \in 1..n, NEW j \in 1..n, i < j PROVE f[s[i]] < f[s[j]]
  <2>1. rank[s[i]] < rank[s[j]]
    BY <1>2, <1>4
  <2>2. s[i] \in S /\ s[j] \in S /\ rank[s[i]] \in Int /\ rank[s[j]] \in Int
    BY <1>2
  <2>3. s[i] # s[j]
    BY <2>1, <2>2
  <2>5. ASSUME f[s[j]] < f[s[i]] PROVE FALSE
    <3>1. rank[s[j]] < rank[s[i]]
      BY <1>3, <2>2, <2>5, RankFacts
    <3> QED BY <2>1, <2>2, <3>1
  <2>4. f[s[i]] # f[s[j]]
    BY <2>2, <2>3 DEF IsInjective
  <2> QED BY <2>2, <2>4, <2>5
<1> QED BY <1>3, <1>4

LEMMA ListingIsFull ==
    ASSUME NEW S, IsFiniteSet(S), NEW f \in [S -> Nat],
           NEW s \in [1..Cardinality(S) -> S],
           \A i, j \in 1..Cardinality(S) : i < j => f[s[i]] < f[s[j]]
    PROVE  \A b \in S : \E i \in 1..Cardinality(S) : s[i] = b
<1> DEFINE n == Cardinality(S)
<1>1. n \in Nat
  BY FS_CardinalityType
<1>2. ASSUME NEW i \in 1..n, NEW j \in 1..n, s[i] = s[j] PROVE i = j
  <2>1. ~(i < j) /\ ~(j < i)
    BY <1>2
  <2> QED BY <1>1, <2>1
<1>3. s \in Injection(1..n, S)
  BY <1>2 DEF Injection, IsInjective
<1>4. IsFiniteSet(1..n) /\ Cardinality(1..n) = n
  BY <1>1, FS_Interval
<1>5. s \in Surjection(1..n, S)
  BY <1>3, <1>4, FS_Injection
<1> QED BY <1>5 DEF Surjection

-----------------------------------------------------------------------------
(* The page and its constraint                                             *)

PageInv ==
    /\ rows \in Seq(Blocks) /\ IsInjective(rows)
    /\ position \in [Page -> Nat] /\ IsInjective(position)
    /\ version \in [Page -> Nat \ {0}]
    /\ used \in SUBSET Blocks /\ Page \subseteq used

(* What a request has read is a listing of the page as it was, and a       *)
(* reorder names every block of the page as it was, once.                  *)
RequestInv(r) ==
    /\ r \in Requests(r.seen)
    /\ DOMAIN r.seen \in SUBSET Blocks /\ r.seen \in [DOMAIN r.seen -> Nat]
    /\ r.pc = "create" => ListingOf(r.order, r.seen)
    /\ r.pc \in {"reorder", "measured"} =>
          IsInjective(r.order) /\ ToSet(r.order) = DOMAIN r.seen

OrderInv ==
    /\ PageInv
    /\ DOMAIN request = Handlers
    /\ \A h \in Handlers : RequestInv(request[h])

LEMMA RowFacts ==
    ASSUME rows \in Seq(Blocks)
    PROVE  /\ Len(rows) \in Nat /\ DOMAIN rows = 1..Len(rows)
           /\ rows \in [1..Len(rows) -> Page]
           /\ Page \subseteq Blocks /\ Page = ToSet(rows)
BY LenProperties DEF Page, ToSet

LEMMA PageSize ==
    ASSUME PageInv
    PROVE  IsFiniteSet(Page) /\ Cardinality(Page) = Len(rows)
<1>1. rows \in Bijection(1..Len(rows), Page)
  <2>1. rows \in Injection(1..Len(rows), Page)
    BY RowFacts DEF PageInv, Injection
  <2>2. rows \in Surjection(1..Len(rows), Page)
    BY RowFacts DEF PageInv, Surjection, Page
  <2> QED BY <2>1, <2>2 DEF Bijection
<1> DEFINE n == Len(rows)
<1>2. n \in Nat
  BY RowFacts DEF PageInv
<1> HIDE DEF n
<1>3. IsFiniteSet(1..n) /\ Cardinality(1..n) = n
  BY <1>2, FS_Interval
<1> QED BY <1>1, <1>3, FS_Bijection DEF ExistsBijection, n

LEMMA PageListing ==
    ASSUME PageInv
    PROVE  /\ ByPosition \in Seq(Blocks) /\ Len(ByPosition) = Len(rows)
           /\ ListingOf(ByPosition, position)
<1> DEFINE n == Len(rows)
<1>1. n \in Nat /\ Page \subseteq Blocks
  BY RowFacts DEF PageInv
<1>2. IsFiniteSet(Page) /\ Cardinality(Page) = n /\ position \in [Page -> Nat]
  BY PageSize DEF PageInv
<1>3. /\ ByPosition \in [1..n -> Page]
      /\ \A i, j \in 1..n : i < j => position[ByPosition[i]] < position[ByPosition[j]]
  <2>1. \E s \in [1..n -> Page] :
            \A i, j \in 1..n : i < j => position[s[i]] < position[s[j]]
    BY <1>2, ListingExists DEF PageInv
  <2> QED BY <2>1 DEF ByPosition
<1>4. \A b \in Page : \E i \in 1..n : ByPosition[i] = b
  <2> DEFINE m == Cardinality(Page)
  <2>1. /\ ByPosition \in [1..m -> Page]
        /\ \A i, j \in 1..m : i < j => position[ByPosition[i]] < position[ByPosition[j]]
    BY <1>2, <1>3
  <2>2. \A b \in Page : \E i \in 1..m : ByPosition[i] = b
    BY <1>2, <2>1, ListingIsFull
  <2> QED BY <1>2, <2>2
<1>5. ByPosition \in Seq(Blocks) /\ Len(ByPosition) = n /\ DOMAIN ByPosition = 1..n
  <2>1. ByPosition \in Seq(Page)
    BY <1>1, <1>3, SeqDef
  <2> QED BY <1>1, <1>3, <2>1, LenProperties
<1>6. ToSet(ByPosition) = DOMAIN position
  BY <1>2, <1>3, <1>4, <1>5 DEF ToSet
<1> QED BY <1>3, <1>5, <1>6 DEF ListingOf, Sorted

-----------------------------------------------------------------------------
(* The requests                                                            *)

Asks(h, new) == request' = [request EXCEPT ![h] = new]

LEMMA RequestChange ==
    ASSUME OrderInv, NEW h \in Handlers, NEW new, RequestInv(new), Asks(h, new)
    PROVE  /\ DOMAIN request' = Handlers
           /\ \A g \in Handlers : RequestInv(request'[g])
<1>1. /\ DOMAIN request' = Handlers
      /\ \A g \in Handlers : request'[g] = IF g = h THEN new ELSE request[g]
  BY DEF OrderInv, Asks
<1> QED BY <1>1 DEF OrderInv

LEMMA NothingAsked == RequestInv(NoRequest)
<1> DEFINE none == [b \in {} |-> 0]
<1>1. DOMAIN none = {} /\ none \in [{} -> Nat]
  OBVIOUS
<1>2. <<>> \in Seq(Blocks)
  OBVIOUS
<1> HIDE DEF none
<1>3. NoRequest = [pc |-> "idle", index |-> 0, order |-> <<>>, seen |-> none, size |-> 0]
  BY DEF NoRequest, none
<1> QED BY <1>1, <1>2, <1>3 DEF RequestInv, Requests, Points

LEMMA AnswerStep ==
    ASSUME OrderInv, NEW h \in Handlers, Answer(h), PageInv'
    PROVE  OrderInv'
BY NothingAsked, RequestChange DEF Answer, Asks, OrderInv

LEMMA RejectedStep ==
    ASSUME OrderInv, NEW h \in Handlers, Rejected(h)
    PROVE  OrderInv'
<1>1. PageInv'
  BY DEF Rejected, OrderInv, PageInv, Page
<1> QED BY <1>1, AnswerStep DEF Rejected

-----------------------------------------------------------------------------
(* The rows                                                                *)

(* A block more, at a place that is free.                                  *)
LEMMA InsertFacts ==
    ASSUME PageInv, NEW b \in Blocks \ used, NEW at \in Nat, NEW positions \in [Page -> Nat],
           IsInjective(positions), \A c \in Page : positions[c] # at,
           Insert(b, at, positions)
    PROVE  /\ Page' = Page \union {b} /\ b \notin Page
           /\ position'[b] = at /\ \A c \in Page : position'[c] = positions[c]
           /\ PageInv'
<1>1. /\ Len(rows) \in Nat /\ DOMAIN rows = 1..Len(rows)
      /\ rows \in [1..Len(rows) -> Page] /\ Page = ToSet(rows) /\ Page \subseteq Blocks
  BY RowFacts DEF PageInv
<1>2. b \notin Page
  BY DEF PageInv
<1>3. /\ rows' \in Seq(Blocks) /\ Len(rows') = Len(rows) + 1
      /\ \A i \in 1..Len(rows) : rows'[i] = rows[i]
      /\ rows'[Len(rows) + 1] = b
  BY DEF Insert, PageInv
<1>4. Page' = Page \union {b}
  <2>1. \A c : c \in Page' <=> \E i \in 1..Len(rows') : rows'[i] = c
    BY DEF Page
  <2>2. \A c : c \in Page <=> \E i \in 1..Len(rows) : rows[i] = c
    BY DEF Page
  <2>3. \A i \in 1..(Len(rows) + 1) : i \in 1..Len(rows) \/ i = Len(rows) + 1
    BY <1>1
  <2>4. 1..Len(rows) \subseteq 1..(Len(rows) + 1) /\ Len(rows) + 1 \in 1..(Len(rows) + 1)
    BY <1>1
  <2> QED BY <1>3, <2>1, <2>2, <2>3, <2>4
<1>5. IsInjective(rows')
  <2>1. DOMAIN rows' = 1..(Len(rows) + 1)
    BY <1>3, LenProperties
  <2>2. ASSUME NEW i \in DOMAIN rows', NEW j \in DOMAIN rows', rows'[i] = rows'[j]
        PROVE  i = j
    <3>1. i \in 1..Len(rows) \/ i = Len(rows) + 1
      BY <1>1, <2>1
    <3>2. j \in 1..Len(rows) \/ j = Len(rows) + 1
      BY <1>1, <2>1
    <3> QED BY <1>1, <1>2, <1>3, <2>2, <3>1, <3>2 DEF PageInv, IsInjective
  <2> QED BY <2>2 DEF IsInjective
<1>6. /\ position' \in [Page' -> Nat] /\ IsInjective(position')
      /\ position'[b] = at /\ \A c \in Page : position'[c] = positions[c]
  BY <1>2, <1>4 DEF Insert, IsInjective
<1>7. version' \in [Page' -> Nat \ {0}]
  BY <1>2, <1>4 DEF Insert, PageInv
<1>8. used' \in SUBSET Blocks /\ Page' \subseteq used'
  BY <1>4 DEF Insert, PageInv
<1> QED BY <1>2, <1>3, <1>4, <1>5, <1>6, <1>7, <1>8 DEF PageInv

LEMMA DeleteFacts ==
    ASSUME PageInv, NEW b \in Page, rows' = RemoveAt(rows, Index(rows, b))
    PROVE  /\ rows' \in Seq(Blocks) /\ IsInjective(rows')
           /\ Page' = Page \ {b}
<1> DEFINE n == Len(rows)
           k == Index(rows, b)
<1>1. /\ n \in Nat /\ DOMAIN rows = 1..n /\ rows \in [1..n -> Page] /\ Page \subseteq Blocks
      /\ rows \in Seq(Blocks)
  BY RowFacts DEF PageInv
<1>2. k \in 1..n /\ rows[k] = b
  <2>1. \E i \in 1..n : rows[i] = b
    BY DEF Page
  <2> QED BY <2>1 DEF Index
<1> HIDE DEF k
<1>3. /\ rows' \in Seq(Blocks) /\ Len(rows') = n - 1
      /\ \A i \in 1..(n - 1) : rows'[i] = IF i < k THEN rows[i] ELSE rows[i + 1]
  <2> DEFINE s1 == SubSeq(rows, 1, k - 1)
             s2 == SubSeq(rows, k + 1, n)
  <2>1. /\ s1 \in Seq(Blocks) /\ Len(s1) = k - 1
        /\ \A i \in 1..(k - 1) : s1[i] = rows[i]
    <3>1. \A i \in 1..(k - 1) : rows[i] \in Blocks
      BY <1>1, <1>2
    <3> QED BY <1>1, <1>2, <3>1, SubSeqProperties
  <2>2. /\ s2 \in Seq(Blocks) /\ Len(s2) = n - k
        /\ \A i \in 1..(n - k) : s2[i] = rows[i + k]
    <3>1. \A i \in (k + 1)..n : rows[i] \in Blocks
      BY <1>1, <1>2
    <3>2. /\ s2 \in Seq(Blocks) /\ Len(s2) = IF k + 1 <= n THEN n - (k + 1) + 1 ELSE 0
          /\ \A i \in 1..(n - (k + 1) + 1) : s2[i] = rows[(k + 1) + i - 1]
      BY <1>1, <1>2, <3>1, SubSeqProperties
    <3> QED BY <1>1, <1>2, <3>2
  <2>3. rows' = s1 \o s2
    BY DEF RemoveAt, k
  <2> HIDE DEF s1, s2
  <2>4. /\ rows' \in Seq(Blocks) /\ Len(rows') = Len(s1) + Len(s2)
        /\ \A i \in 1..(Len(s1) + Len(s2)) :
              rows'[i] = IF i <= Len(s1) THEN s1[i] ELSE s2[i - Len(s1)]
    BY <2>1, <2>2, <2>3, ConcatProperties
  <2>5. n \in Nat /\ k \in 1..n
    BY <1>1, <1>2
  <2> HIDE DEF n
  <2>6. Len(s1) + Len(s2) = n - 1
    BY <2>1, <2>2, <2>5
  <2>7. ASSUME NEW i \in 1..(n - 1) PROVE rows'[i] = IF i < k THEN rows[i] ELSE rows[i + 1]
    <3>1. rows'[i] = IF i <= k - 1 THEN s1[i] ELSE s2[i - (k - 1)]
      BY <2>1, <2>4, <2>6
    <3>2. CASE i < k
      BY <2>1, <2>5, <3>1, <3>2
    <3>3. CASE i >= k
      <4>1. i - (k - 1) \in 1..(n - k) /\ (i - (k - 1)) + k = i + 1
        BY <2>5, <3>3
      <4>2. ~(i <= k - 1) /\ ~(i < k)
        BY <2>5, <3>3
      <4>3. s2[i - (k - 1)] = rows[i + 1]
        BY <2>2, <4>1
      <4> QED BY <3>1, <4>2, <4>3
    <3> QED BY <2>5, <3>2, <3>3
  <2> QED BY <2>4, <2>6, <2>7
<1>4. \A i, j \in 1..n : rows[i] = rows[j] => i = j
  BY <1>1 DEF PageInv, IsInjective
<1>5. IsInjective(rows')
  <2>1. DOMAIN rows' = 1..(n - 1)
    BY <1>3, LenProperties
  <2>2. ASSUME NEW i \in 1..(n - 1), NEW j \in 1..(n - 1), rows'[i] = rows'[j] PROVE i = j
    BY <1>1, <1>2, <1>3, <1>4, <2>2
  <2> QED BY <2>1, <2>2 DEF IsInjective
<1>6. Page' = Page \ {b}
  <2>1. \A c : c \in Page' <=> \E i \in 1..(n - 1) : rows'[i] = c
    BY <1>3 DEF Page
  <2>2. \A c : c \in Page <=> \E i \in 1..n : rows[i] = c
    BY DEF Page
  <2>3. ASSUME NEW i \in 1..(n - 1) PROVE rows'[i] \in Page \ {b}
    BY <1>1, <1>2, <1>3, <1>4, SMTT(30)
  <2>4. ASSUME NEW i \in 1..n, rows[i] # b PROVE \E j \in 1..(n - 1) : rows'[j] = rows[i]
    <3>1. CASE i < k
      BY <1>1, <1>2, <1>3, <3>1
    <3>2. CASE i > k
      <4>1. i - 1 \in 1..(n - 1) /\ rows'[i - 1] = rows[i]
        BY <1>1, <1>2, <1>3, <3>2
      <4> QED BY <4>1
    <3> QED BY <1>1, <1>2, <2>4, <3>1, <3>2
  <2> QED BY <2>1, <2>2, <2>3, <2>4
<1> QED BY <1>3, <1>5, <1>6

(* Rows moved aside and then given their targets keep places of their own. *)
LEMMA MovedFacts ==
    ASSUME PageInv, NEW order \in Seq(Blocks), NEW target \in [ToSet(order) -> Nat],
           IsInjective(target), NEW offset \in Nat, ~TargetConflict(order, target, offset)
    PROVE  Moved(target, offset) \in [Page -> Nat] /\ IsInjective(Moved(target, offset))
<1> DEFINE moved == Moved(target, offset)
<1>1. DOMAIN target = ToSet(order)
  OBVIOUS
<1>2. moved = [b \in Page |-> IF b \in ToSet(order) THEN target[b] ELSE position[b] + offset]
  BY <1>1 DEF Moved
<1>3. position \in [Page -> Nat]
  BY DEF PageInv
<1>4. moved \in [Page -> Nat]
  BY <1>2, <1>3
<1>5. ASSUME NEW a \in Page, NEW b \in Page, a \in ToSet(order), b \notin ToSet(order)
      PROVE  moved[a] # moved[b]
  <2>1. PICK i \in 1..Len(order) : order[i] = a
    BY <1>5, LenProperties DEF ToSet
  <2>2. b \notin {order[k] : k \in 1..i}
    BY <1>5, <2>1, LenProperties DEF ToSet
  <2>3. position[b] + offset # target[a]
    BY <2>1, <2>2 DEF TargetConflict
  <2> QED BY <1>2, <1>5, <2>3
<1>6. ASSUME NEW a \in Page, NEW b \in Page, moved[a] = moved[b] PROVE a = b
  <2>1. CASE a \in ToSet(order) /\ b \in ToSet(order)
    BY <1>1, <1>2, <1>6, <2>1 DEF IsInjective
  <2>2. CASE a \notin ToSet(order) /\ b \notin ToSet(order)
    <3>1. position[a] + offset = position[b] + offset
      BY <1>2, <1>6, <2>2
    <3>2. position[a] = position[b]
      BY <1>3, <3>1
    <3> QED BY <1>3, <3>2 DEF PageInv, IsInjective
  <2> QED BY <1>5, <1>6, <2>1, <2>2
<1> QED BY <1>2, <1>4, <1>6 DEF IsInjective

-----------------------------------------------------------------------------
(* The invariant                                                           *)

LEMMA SeenIsInjective ==
    ASSUME NEW s \in Seq(Blocks), NEW f, f \in [DOMAIN f -> Nat], ListingOf(s, f)
    PROVE  /\ IsInjective(f)
           /\ \A i, j \in 1..Len(s) : i < j => f[s[i]] < f[s[j]]
           /\ \A i \in 1..Len(s) : s[i] \in DOMAIN f /\ f[s[i]] \in Nat
           /\ \A b \in DOMAIN f : \E i \in 1..Len(s) : s[i] = b
           /\ Len(s) \in Nat
<1>1. Len(s) \in Nat /\ DOMAIN s = 1..Len(s)
  BY LenProperties
<1>2. \A i, j \in 1..Len(s) : i < j => f[s[i]] < f[s[j]]
  BY DEF ListingOf, Sorted
<1>3. /\ \A b \in DOMAIN f : \E i \in 1..Len(s) : s[i] = b
      /\ \A i \in 1..Len(s) : s[i] \in DOMAIN f
  BY <1>1 DEF ListingOf, ToSet
<1>4. \A i \in 1..Len(s) : f[s[i]] \in Nat
  BY <1>3
<1>5. ASSUME NEW a \in DOMAIN f, NEW b \in DOMAIN f, f[a] = f[b] PROVE a = b
  <2>1. PICK i \in 1..Len(s) : s[i] = a
    BY <1>3
  <2>2. PICK j \in 1..Len(s) : s[j] = b
    BY <1>3
  <2>3. ~(i < j) /\ ~(j < i)
    BY <1>2, <1>4, <1>5, <2>1, <2>2
  <2> QED BY <1>1, <2>1, <2>2, <2>3
<1> QED BY <1>1, <1>2, <1>3, <1>4, <1>5 DEF IsInjective

(* What a create has read, and where it is going to put its block.         *)
LEMMA CreateFacts ==
    ASSUME OrderInv, NEW h \in Handlers, request[h].pc = "create"
    PROVE  /\ request[h].order \in Seq(Blocks) /\ request[h].index \in Nat
           /\ request[h].seen \in [DOMAIN request[h].seen -> Nat]
           /\ ListingOf(request[h].order, request[h].seen)
           /\ ToSet(request[h].order) = DOMAIN request[h].seen
<1>1. RequestInv(request[h])
  BY DEF OrderInv
<1> QED BY <1>1 DEF RequestInv, Requests, ListingOf

LEMMA ShiftedFacts ==
    ASSUME OrderInv, NEW h \in Handlers, request[h].pc = "create",
           request[h].index < Len(request[h].order)
    PROVE  /\ InsertPosition(h) \in Nat
           /\ Shifted(h) \in [ToSet(request[h].order) -> Nat]
           /\ IsInjective(Shifted(h))
           /\ \A b \in DOMAIN Shifted(h) : Shifted(h)[b] # InsertPosition(h)
<1> DEFINE order == request[h].order
           seen == request[h].seen
           at == InsertPosition(h)
           shifted == Shifted(h)
<1>1. /\ order \in Seq(Blocks) /\ request[h].index \in Nat
      /\ seen \in [DOMAIN seen -> Nat] /\ ListingOf(order, seen)
      /\ ToSet(order) = DOMAIN seen
  BY CreateFacts
<1>2. IsInjective(seen) /\ \A i \in 1..Len(order) : seen[order[i]] \in Nat
  BY <1>1, SeenIsInjective
<1>3. Len(order) \in Nat
  BY <1>1, LenProperties
<1>4. at \in Nat
  <2>1. request[h].index + 1 \in 1..Len(order)
    BY <1>1, <1>3
  <2> QED BY <1>2, <2>1 DEF InsertPosition
<1>5. shifted = [c \in DOMAIN seen |-> IF seen[c] >= at THEN seen[c] + 1 ELSE seen[c]]
  BY DEF Shifted
<1> HIDE DEF shifted, at, seen
<1>6. \A b \in DOMAIN seen : seen[b] \in Nat
  BY <1>1
<1>7. shifted \in [DOMAIN seen -> Nat]
  BY <1>5, <1>6
<1>8. ASSUME NEW b \in DOMAIN seen PROVE shifted[b] # at
  BY <1>4, <1>5, <1>6
<1>9. ASSUME NEW a \in DOMAIN seen, NEW b \in DOMAIN seen, shifted[a] = shifted[b]
      PROVE  a = b
  <2>1. seen[a] = seen[b]
    BY <1>4, <1>5, <1>6, <1>9
  <2> QED BY <1>2, <2>1 DEF IsInjective
<1> QED BY <1>1, <1>4, <1>5, <1>7, <1>8, <1>9 DEF shifted, at, seen, IsInjective

LEMMA NumberedFacts ==
    ASSUME NEW order \in Seq(Blocks), IsInjective(order)
    PROVE  /\ Numbered(order) \in [ToSet(order) -> Nat]
           /\ IsInjective(Numbered(order))
           /\ \A i \in 1..Len(order) :
                 order[i] \in ToSet(order) /\ Numbered(order)[order[i]] = i - 1
<1>1. Len(order) \in Nat /\ DOMAIN order = 1..Len(order)
  BY LenProperties
<1>2. ASSUME NEW b \in ToSet(order)
      PROVE  Index(order, b) \in 1..Len(order) /\ order[Index(order, b)] = b
  <2>1. \E i \in 1..Len(order) : order[i] = b
    BY <1>1 DEF ToSet
  <2> QED BY <2>1 DEF Index
<1>3. \A b \in ToSet(order) : Numbered(order)[b] = Index(order, b) - 1
  BY DEF Numbered
<1>4. Numbered(order) \in [ToSet(order) -> Nat] /\ DOMAIN Numbered(order) = ToSet(order)
  <2>1. \A b \in ToSet(order) : Index(order, b) - 1 \in Nat
    BY <1>1, <1>2
  <2> QED BY <2>1 DEF Numbered
<1>5. IsInjective(Numbered(order))
  <2>1. ASSUME NEW a \in ToSet(order), NEW b \in ToSet(order),
               Numbered(order)[a] = Numbered(order)[b]
        PROVE  a = b
    <3>1. Index(order, a) \in Int /\ Index(order, b) \in Int
      BY <1>1, <1>2
    <3>2. Index(order, a) = Index(order, b)
      BY <1>3, <2>1, <3>1
    <3> QED BY <1>2, <3>2
  <2> QED BY <1>4, <2>1 DEF IsInjective
<1>6. ASSUME NEW i \in 1..Len(order)
      PROVE  order[i] \in ToSet(order) /\ Numbered(order)[order[i]] = i - 1
  <2>1. order[i] \in ToSet(order)
    BY <1>1 DEF ToSet
  <2>2. Index(order, order[i]) = i
    BY <1>1, <1>2, <2>1 DEF IsInjective
  <2> QED BY <1>3, <2>1, <2>2
<1> QED BY <1>4, <1>5, <1>6

LEMMA AppendStep ==
    ASSUME OrderInv, NEW h \in Handlers, NEW b \in Blocks, AppendBlock(h, b)
    PROVE  OrderInv'
<1> DEFINE order == request[h].order
           seen == request[h].seen
           at == IF order = <<>> THEN 0 ELSE seen[Last(order)] + 1
<1>1. /\ request[h].pc = "create" /\ b \notin used
      /\ IF Taken(at) THEN Rejected(h) ELSE Insert(b, at, position) /\ Answer(h)
  BY DEF AppendBlock
<1>2. at \in Nat
  <2>1. /\ order \in Seq(Blocks) /\ seen \in [DOMAIN seen -> Nat]
        /\ ListingOf(order, seen)
    BY <1>1, CreateFacts
  <2>2. ASSUME order # <<>> PROVE seen[Last(order)] \in Nat
    <3>1. Len(order) \in 1..Len(order)
      BY <2>1, <2>2, EmptySeq
    <3>2. seen[order[Len(order)]] \in Nat
      BY <2>1, <3>1, SeenIsInjective
    <3> QED BY <3>2 DEF Last
  <2> QED BY <2>2
<1>3. CASE Taken(at)
  BY <1>1, <1>3, RejectedStep
<1>4. CASE ~Taken(at)
  <2>1. PageInv
    BY DEF OrderInv
  <2>2. PageInv'
    BY <1>1, <1>2, <1>4, <2>1, InsertFacts DEF PageInv, Taken
  <2> QED BY <1>1, <1>4, <2>2, AnswerStep
<1> QED BY <1>3, <1>4

LEMMA InsertStep ==
    ASSUME OrderInv, NEW h \in Handlers, NEW b \in Blocks, InsertBlock(h, b)
    PROVE  OrderInv'
<1> DEFINE order == request[h].order
           offset == Len(order) + 1
           positions == Moved(Shifted(h), offset)
           at == InsertPosition(h)
<1>1. /\ request[h].pc = "create" /\ request[h].index < Len(order) /\ b \notin used
      /\ IF \/ OffsetConflict(offset) \/ TargetConflict(order, Shifted(h), offset)
            \/ \E c \in Page : positions[c] = at
         THEN Rejected(h)
         ELSE Insert(b, at, positions) /\ Answer(h)
  BY DEF InsertBlock
<1>2. CASE Rejected(h)
  BY <1>2, RejectedStep
<1>3. CASE ~Rejected(h)
  <2>1. order \in Seq(Blocks) /\ offset \in Nat
    BY <1>1, CreateFacts, LenProperties
  <2>2. positions \in [Page -> Nat] /\ IsInjective(positions)
    BY <1>1, <1>3, <2>1, ShiftedFacts, MovedFacts DEF OrderInv
  <2>3. PageInv'
    BY <1>1, <1>3, <2>2, ShiftedFacts, InsertFacts DEF OrderInv
  <2> QED BY <1>1, <1>3, <2>3, AnswerStep
<1> QED BY <1>2, <1>3

LEMMA ReorderStep ==
    ASSUME OrderInv, NEW h \in Handlers, ReorderBlocks(h)
    PROVE  OrderInv'
<1> DEFINE order == request[h].order
           offset == request[h].size + 1
           moved == Moved(Numbered(order), offset)
<1>1. /\ request[h].pc = "measured"
      /\ \/ Rejected(h)
         \/ /\ ~TargetConflict(order, Numbered(order), offset)
            /\ position' = moved
            /\ version' = [b \in Page |->
                              IF b \in ToSet(order) THEN version[b] + 1 ELSE version[b]]
            /\ Answer(h) /\ UNCHANGED <<rows, used>>
  BY DEF ReorderBlocks
<1>2. CASE Rejected(h)
  BY <1>2, RejectedStep
<1>3. CASE ~Rejected(h)
  <2>1. order \in Seq(Blocks) /\ offset \in Nat /\ IsInjective(order)
    BY <1>1 DEF OrderInv, RequestInv, Requests
  <2>2. moved \in [Page -> Nat] /\ IsInjective(moved)
    BY <1>1, <1>3, <2>1, NumberedFacts, MovedFacts DEF OrderInv
  <2>3. Page' = Page
    BY <1>1, <1>3 DEF Page
  <2>4. \A b \in Page : version[b] \in Nat \ {0} /\ version[b] + 1 \in Nat \ {0}
    BY DEF OrderInv, PageInv
  <2> HIDE DEF moved
  <2>5. version' \in [Page -> Nat \ {0}]
    BY <1>1, <1>3, <2>4
  <2>6. PageInv'
    BY <1>1, <1>3, <2>2, <2>3, <2>5 DEF OrderInv, PageInv
  <2> QED BY <1>1, <1>3, <2>6, AnswerStep
<1> QED BY <1>2, <1>3

(* A request that reads, and writes nothing.                               *)
LEMMA ReadingStep ==
    ASSUME OrderInv, NEW h \in Handlers,
           \/ \E index \in 0..Len(rows) : Create(h, index)
           \/ \E order \in SetToSeqs(Page), seen \in Views : Reorder(h, order, seen)
           \/ Measure(h)
    PROVE  OrderInv'
<1>a. /\ Len(rows) \in Nat /\ Page \subseteq Blocks
      /\ position \in [Page -> Nat] /\ version \in [Page -> Nat \ {0}]
      /\ IsFiniteSet(Page) /\ Cardinality(Page) = Len(rows)
  BY RowFacts, PageSize DEF OrderInv, PageInv
<1>s. ASSUME NEW new, RequestInv(new), Asks(h, new), UNCHANGED <<rows, position, version, used>>
      PROVE  OrderInv'
  <2>1. PageInv'
    BY <1>s DEF OrderInv, PageInv, Page
  <2> QED BY <1>s, <2>1, RequestChange DEF OrderInv
<1>n. ASSUME NEW p \in Points, NEW i \in Nat, NEW order \in Seq(Blocks),
             NEW seen, DOMAIN seen \in SUBSET Blocks, seen \in [DOMAIN seen -> Nat],
             p = "create" => ListingOf(order, seen),
             p \in {"reorder", "measured"} =>
                IsInjective(order) /\ ToSet(order) = DOMAIN seen,
             NEW new,
             \/ new = [NoRequest EXCEPT !.pc = p, !.index = i, !.order = order, !.seen = seen]
             \/ new = [NoRequest EXCEPT !.pc = p, !.order = order, !.seen = seen],
             Asks(h, new), UNCHANGED <<rows, position, version, used>>
      PROVE  OrderInv'
  <2> DEFINE none == NoRequest.seen
  <2>1. NoRequest \in Requests(none)
    BY NothingAsked DEF RequestInv
  <2> HIDE DEF none
  <2>2. /\ new \in Requests(seen) /\ new.seen = seen /\ new.pc = p /\ new.order = order
    BY <1>n, <2>1 DEF Requests
  <2>3. RequestInv(new)
    BY <1>n, <2>2 DEF RequestInv
  <2> QED BY <1>n, <1>s, <2>3
<1>1. ASSUME NEW index \in 0..Len(rows), Create(h, index) PROVE OrderInv'
  <2>1. ByPosition \in Seq(Blocks) /\ ListingOf(ByPosition, position) /\ index \in Nat
    BY <1>a, PageListing DEF OrderInv
  <2>2. "create" \in Points /\ DOMAIN position = Page
    BY <1>a DEF Points
  <2> DEFINE new == [NoRequest EXCEPT !.pc = "create", !.index = index,
                                      !.order = ByPosition, !.seen = position]
  <2>3. Asks(h, new) /\ UNCHANGED <<rows, position, version, used>>
    BY <1>1 DEF Create, Asks
  <2> QED BY <1>a, <1>n, <2>1, <2>2, <2>3
<1>2. ASSUME NEW order \in SetToSeqs(Page), NEW seen \in Views, Reorder(h, order, seen)
      PROVE  OrderInv'
  <2>1. CASE seen # version
    BY <1>2, <2>1, RejectedStep DEF Reorder
  <2>2. CASE seen = version
    <3>2. /\ order \in [1..Len(rows) -> Page]
          /\ \A i, j \in 1..Len(rows) : i # j => order[i] # order[j]
      BY <1>a DEF SetToSeqs
    <3>3. /\ order \in Seq(Blocks) /\ DOMAIN order = 1..Len(rows) /\ IsInjective(order)
      <4>1. order \in Seq(Page)
        <5>1. \E n \in Nat : order \in [1..n -> Page]
          BY <1>a, <3>2
        <5> QED BY <5>1, SeqDef
      <4> QED BY <1>a, <3>2, <4>1 DEF IsInjective
    <3>4. ToSet(order) = Page
      <4>1. order \in Injection(1..Len(rows), Page)
        BY <3>2, <3>3 DEF Injection
      <4>2. /\ IsFiniteSet(1..Len(rows)) /\ Cardinality(1..Len(rows)) = Len(rows)
        <5> DEFINE n == Len(rows)
        <5>1. n \in Nat
          BY <1>a
        <5> HIDE DEF n
        <5>2. IsFiniteSet(1..n) /\ Cardinality(1..n) = n
          BY <5>1, FS_Interval
        <5> QED BY <5>2 DEF n
      <4>3. order \in Surjection(1..Len(rows), Page)
        BY <1>a, <4>1, <4>2, FS_Injection
      <4> QED BY <3>2, <3>3, <4>3 DEF Surjection, ToSet
    <3>5. DOMAIN version = Page /\ version \in [Page -> Nat]
      BY <1>a
    <3>6. "reorder" \in Points /\ 0 \in Nat
      BY DEF Points
    <3> DEFINE new == [NoRequest EXCEPT !.pc = "reorder", !.order = order, !.seen = version]
    <3>7. Asks(h, new)
      BY <1>2, <2>2 DEF Reorder, Asks
    <3>8. UNCHANGED <<rows, position, version, used>>
      BY <1>2, <2>2 DEF Reorder
    <3> QED BY <1>a, <1>n, <3>3, <3>4, <3>5, <3>6, <3>7, <3>8
  <2> QED BY <2>1, <2>2
<1>3. CASE Measure(h)
  <2> DEFINE new == [request[h] EXCEPT !.pc = "measured", !.size = Len(rows)]
  <2>1. RequestInv(request[h]) /\ request[h].pc = "reorder"
    BY <1>3 DEF Measure, OrderInv
  <2>2. /\ new \in Requests(new.seen) /\ new.seen = request[h].seen
        /\ new.order = request[h].order /\ new.pc = "measured"
    BY <1>a, <2>1 DEF RequestInv, Requests, Points
  <2>3. RequestInv(new)
    BY <2>1, <2>2 DEF RequestInv
  <2>4. Asks(h, new) /\ UNCHANGED <<rows, position, version, used>>
    BY <1>3 DEF Measure, Asks
  <2> HIDE DEF new
  <2> QED BY <1>s, <2>3, <2>4
<1> QED BY <1>1, <1>2, <1>3

(* A request that is a single statement.                                   *)
LEMMA StatementStep ==
    ASSUME OrderInv, NEW h \in Handlers, NEW b \in Page,
           \/ EditBlock(h, b) \/ DeleteBlock(h, b)
           \/ \E to \in 0..MaxPosition : MoveBlock(h, b, to)
    PROVE  OrderInv'
<1>a. PageInv /\ position \in [Page -> Nat] /\ version \in [Page -> Nat \ {0}]
  BY DEF OrderInv, PageInv
<1>b. [version EXCEPT ![b] = @ + 1] \in [Page -> Nat \ {0}]
  BY <1>a
<1>1. CASE EditBlock(h, b)
  <2>1. PageInv'
    BY <1>1, <1>a, <1>b DEF EditBlock, PageInv, Page
  <2> QED BY <1>1, <2>1, AnswerStep DEF EditBlock
<1>2. ASSUME NEW to \in 0..MaxPosition, MoveBlock(h, b, to) PROVE OrderInv'
  <2>1. CASE position[b] # to /\ Taken(to)
    BY <1>2, <2>1, RejectedStep DEF MoveBlock
  <2>2. CASE ~(position[b] # to /\ Taken(to))
    <3>1. /\ position' = [position EXCEPT ![b] = to]
          /\ version' = [version EXCEPT ![b] = @ + 1]
          /\ Answer(h) /\ UNCHANGED <<rows, used>>
      BY <1>2, <2>2 DEF MoveBlock
    <3>2. position' \in [Page -> Nat]
      BY <1>a, <3>1, BoundsAssumption
    <3>3. IsInjective(position')
      BY <1>a, <2>2, <3>1 DEF PageInv, IsInjective, Taken
    <3>4. PageInv'
      BY <1>a, <1>b, <3>1, <3>2, <3>3 DEF PageInv, Page
    <3> QED BY <3>1, <3>4, AnswerStep
  <2> QED BY <2>1, <2>2
<1>3. CASE DeleteBlock(h, b)
  <2>1. /\ rows' \in Seq(Blocks) /\ IsInjective(rows') /\ Page' = Page \ {b}
    BY <1>3, <1>a, DeleteFacts DEF DeleteBlock
  <2>2. /\ position' = [c \in Page \ {b} |-> position[c]]
        /\ version' = [c \in Page \ {b} |-> version[c]]
        /\ used' = used /\ Answer(h)
    BY <1>3 DEF DeleteBlock
  <2>3. position' \in [Page' -> Nat] /\ version' \in [Page' -> Nat \ {0}]
    BY <1>a, <2>1, <2>2
  <2>4. IsInjective(position')
    BY <1>a, <2>2 DEF PageInv, IsInjective
  <2>5. PageInv'
    BY <1>a, <2>1, <2>2, <2>3, <2>4 DEF PageInv
  <2> QED BY <2>2, <2>5, AnswerStep
<1> QED BY <1>1, <1>2, <1>3

LEMMA OrderStep == ASSUME OrderInv, [Next]_vars PROVE OrderInv'
<1>1. CASE UNCHANGED vars
  BY <1>1 DEF vars, OrderInv, PageInv, Page
<1>2. CASE Next
  BY <1>2, AppendStep, InsertStep, ReorderStep, ReadingStep, StatementStep DEF Next
<1> QED BY <1>1, <1>2

LEMMA OrderStart == Init => OrderInv
<1> SUFFICES ASSUME Init PROVE OrderInv
  OBVIOUS
<1> DEFINE none == [b \in {} |-> 0]
<1>1. rows = <<>> /\ position = none /\ version = none /\ used = {}
  BY DEF Init
<1>2. rows \in Seq(Blocks) /\ Len(rows) = 0 /\ DOMAIN rows = {}
  BY <1>1
<1>3. Page = {}
  BY <1>2 DEF Page
<1>4. /\ none \in [{} -> Nat] /\ none \in [{} -> Nat \ {0}] /\ IsInjective(none)
  BY DEF IsInjective
<1> HIDE DEF none
<1>5. PageInv
  BY <1>1, <1>2, <1>3, <1>4 DEF PageInv, IsInjective
<1>6. DOMAIN request = Handlers /\ \A h \in Handlers : RequestInv(request[h])
  BY NothingAsked DEF Init
<1> QED BY <1>5, <1>6 DEF OrderInv

LEMMA OrderIsKept == Spec => []OrderInv
BY OrderStart, OrderStep, PTL DEF Spec

(* Positions are unique, whatever the rows met while they were moved, and  *)
(* every variable keeps its type.                                          *)
THEOREM PositionsAreUnique == Spec => []TypeOK
<1>1. OrderInv => TypeOK
  BY DEF OrderInv, PageInv, RequestInv, TypeOK
<1> QED BY <1>1, OrderIsKept, PTL

-----------------------------------------------------------------------------
(* What an answer is: one step of the request that is answered             *)

LEMMA AnsweredBy ==
    ASSUME OrderInv, Next, NEW h \in Handlers, request'[h].pc # request[h].pc
    PROVE  /\ request[h].pc = "create" =>
                 \E b \in Blocks : AppendBlock(h, b) \/ InsertBlock(h, b)
           /\ request[h].pc = "measured" => ReorderBlocks(h)
<1>1. PICK g \in Handlers :
        \/ \E index \in 0..Len(rows) : Create(g, index)
        \/ \E b \in Blocks : AppendBlock(g, b) \/ InsertBlock(g, b)
        \/ \E order \in SetToSeqs(Page), seen \in Views : Reorder(g, order, seen)
        \/ Measure(g) \/ ReorderBlocks(g)
        \/ \E b \in Page :
              \/ EditBlock(g, b) \/ DeleteBlock(g, b)
              \/ \E to \in 0..MaxPosition : MoveBlock(g, b, to)
  BY DEF Next
<1>2. \E new : Asks(g, new)
  <2>1. Answer(g) => \E new : Asks(g, new)
    BY DEF Answer, Asks
  <2>2. ASSUME NEW index, Create(g, index) PROVE \E new : Asks(g, new)
    BY <2>2 DEF Create, Asks
  <2>3. ASSUME NEW b, AppendBlock(g, b) \/ InsertBlock(g, b) PROVE Answer(g)
    BY <2>3 DEF AppendBlock, InsertBlock, Rejected
  <2>4. ASSUME NEW order, NEW seen, Reorder(g, order, seen) PROVE \E new : Asks(g, new)
    BY <2>1, <2>4 DEF Reorder, Rejected, Asks
  <2>5. Measure(g) => \E new : Asks(g, new)
    <3> SUFFICES ASSUME Measure(g) PROVE \E new : Asks(g, new)
      OBVIOUS
    <3>1. Asks(g, [request[g] EXCEPT !.pc = "measured", !.size = Len(rows)])
      BY DEF Measure, Asks
    <3> QED BY <3>1
  <2>6. ReorderBlocks(g) => Answer(g)
    BY DEF ReorderBlocks, Rejected
  <2>7. ASSUME NEW b, EditBlock(g, b) \/ DeleteBlock(g, b) PROVE Answer(g)
    BY <2>7 DEF EditBlock, DeleteBlock
  <2>8. ASSUME NEW b, NEW to, MoveBlock(g, b, to) PROVE Answer(g)
    BY <2>8 DEF MoveBlock, Rejected
  <2> QED BY <1>1, <2>1, <2>2, <2>3, <2>4, <2>5, <2>6, <2>7, <2>8
<1>3. g = h
  <2>1. \A f \in Handlers : f # g => request'[f] = request[f]
    BY <1>2 DEF Asks, OrderInv
  <2> QED BY <2>1
<1>4. ASSUME request[h].pc = "create"
      PROVE  \E b \in Blocks : AppendBlock(h, b) \/ InsertBlock(h, b)
  BY <1>1, <1>3, <1>4 DEF Create, Reorder, Measure, ReorderBlocks, EditBlock, DeleteBlock,
                          MoveBlock
<1>5. ASSUME request[h].pc = "measured" PROVE ReorderBlocks(h)
  BY <1>1, <1>3, <1>5 DEF Create, AppendBlock, InsertBlock, Reorder, Measure, EditBlock,
                          DeleteBlock, MoveBlock
<1> QED BY <1>4, <1>5

LEMMA ListingSize ==
    ASSUME NEW s \in Seq(Blocks), NEW f, f \in [DOMAIN f -> Nat], ListingOf(s, f),
           NEW n \in 0..Len(s)
    PROVE  Cardinality({s[i] : i \in 1..n}) = n
<1> DEFINE first == {s[i] : i \in 1..n}
           t == [i \in 1..n |-> s[i]]
<1>1. /\ Len(s) \in Nat /\ \A i, j \in 1..Len(s) : i < j => f[s[i]] < f[s[j]]
      /\ \A i \in 1..Len(s) : f[s[i]] \in Nat
  BY SeenIsInjective
<1>2. n \in Nat /\ 1..n \subseteq 1..Len(s)
  BY <1>1
<1>3. ASSUME NEW i \in 1..n, NEW j \in 1..n, s[i] = s[j] PROVE i = j
  <2>1. ~(i < j) /\ ~(j < i)
    BY <1>1, <1>2, <1>3
  <2> QED BY <1>2, <2>1
<1>4. t \in Bijection(1..n, first)
  <2>1. t \in Injection(1..n, first)
    BY <1>3 DEF Injection, IsInjective
  <2>2. t \in Surjection(1..n, first)
    BY DEF Surjection
  <2> QED BY <2>1, <2>2 DEF Bijection
<1>5. IsFiniteSet(1..n) /\ Cardinality(1..n) = n
  <2>1. n \in Nat
    BY <1>2
  <2>2. n \in Int /\ 1 \in Int /\ (IF 1 > n THEN 0 ELSE n - 1 + 1) = n
    BY <2>1
  <2>3. /\ IsFiniteSet(1..n)
        /\ Cardinality(1..n) = IF 1 > n THEN 0 ELSE n - 1 + 1
    BY <2>2, FS_Interval
  <2> QED BY <2>2, <2>3
<1> HIDE DEF first, t
<1>6. Cardinality(first) = n
  BY <1>4, <1>5, FS_Bijection DEF ExistsBijection
<1> QED BY <1>6 DEF first

(* What a create reads of a page that stays as it is: all of it.           *)
LEMMA PageRead ==
    ASSUME OrderInv, NEW h \in Handlers, request[h].pc = "create", PositionsHold(h)
    PROVE  /\ Len(request[h].order) = Len(rows)
           /\ ListingOf(request[h].order, position)
           /\ \A b \in Page : \E i \in 1..Len(rows) : request[h].order[i] = b
<1> DEFINE order == request[h].order
<1>1. /\ order \in Seq(Blocks) /\ ListingOf(order, position)
      /\ position \in [Page -> Nat] /\ DOMAIN position = Page
  BY CreateFacts DEF PositionsHold, OrderInv, PageInv
<1>2. /\ Len(order) \in Nat /\ \A i \in 1..Len(order) : order[i] \in Page
      /\ \A b \in Page : \E i \in 1..Len(order) : order[i] = b
  BY <1>1, SeenIsInjective
<1>3. {order[i] : i \in 1..Len(order)} = Page
  BY <1>2
<1>4. Cardinality(Page) = Len(order)
  <2>1. Len(order) \in 0..Len(order)
    BY <1>2
  <2>2. Cardinality({order[i] : i \in 1..Len(order)}) = Len(order)
    BY <1>1, <2>1, ListingSize
  <2> QED BY <1>3, <2>2
<1>5. Cardinality(Page) = Len(rows)
  BY PageSize DEF OrderInv
<1> QED BY <1>1, <1>2, <1>4, <1>5

-----------------------------------------------------------------------------
(* Inserting                                                               *)

LEMMA AppendFacts ==
    ASSUME OrderInv, NEW h \in Handlers, NEW b \in Blocks, AppendBlock(h, b), PositionsHold(h)
    PROVE  /\ request[h].index >= Len(rows)
           /\ PageInv' /\ Page' = Page \union {b} /\ b \notin used /\ used' = used \union {b}
           /\ \A c \in Page : position'[c] = position[c] /\ position'[c] < position'[b]
<1> DEFINE order == request[h].order
           at == IF order = <<>> THEN 0 ELSE request[h].seen[Last(order)] + 1
<1>1. /\ request[h].pc = "create" /\ b \notin used /\ request[h].index >= Len(order)
      /\ IF Taken(at) THEN Rejected(h) ELSE Insert(b, at, position) /\ Answer(h)
  BY DEF AppendBlock
<1>2. /\ order \in Seq(Blocks) /\ Len(order) = Len(rows) /\ ListingOf(order, position)
      /\ \A c \in Page : \E i \in 1..Len(order) : order[i] = c
      /\ position \in [Page -> Nat] /\ IsInjective(position)
  BY <1>1, CreateFacts, PageRead DEF OrderInv, PageInv
<1>3. /\ Len(order) \in Nat
      /\ \A i, j \in 1..Len(order) : i < j => position[order[i]] < position[order[j]]
      /\ \A i \in 1..Len(order) : order[i] \in Page /\ position[order[i]] \in Nat
  BY <1>2, SeenIsInjective
<1>4. at \in Nat /\ \A c \in Page : position[c] < at
  <2>1. CASE order = <<>>
    <3>1. Page = {}
      BY <1>2, <2>1
    <3> QED BY <2>1, <3>1
  <2>2. CASE order # <<>>
    <3>1. Len(order) \in 1..Len(order)
      BY <1>2, <2>2, EmptySeq
    <3>2. at = position[order[Len(order)]] + 1
      BY <2>2 DEF Last, PositionsHold
    <3>3. at \in Nat
      BY <1>3, <3>1, <3>2, SMTT(30)
    <3>4. ASSUME NEW c \in Page PROVE position[c] < at
      <4>1. PICK i \in 1..Len(order) : order[i] = c
        BY <1>2
      <4>2. i = Len(order) \/ i < Len(order)
        BY <1>3
      <4>3. position[c] \in Nat /\ position[order[Len(order)]] \in Nat
        BY <1>3, <3>1, <4>1
      <4>4. position[c] <= position[order[Len(order)]]
        <5> DEFINE m == Len(order)
        <5>1. m \in 1..Len(order) /\ (i = m \/ i < m)
          BY <3>1, <4>2
        <5> HIDE DEF m
        <5>2. i < m => position[order[i]] < position[order[m]]
          BY <1>3, <5>1
        <5>3. position[order[i]] \in Nat /\ position[order[m]] \in Nat
          BY <1>3, <5>1
        <5>4. position[order[i]] <= position[order[m]]
          BY <5>1, <5>2, <5>3
        <5> QED BY <4>1, <5>4 DEF m
      <4> QED BY <3>2, <4>3, <4>4
    <3> QED BY <3>3, <3>4
  <2> QED BY <2>1, <2>2
<1> HIDE DEF at
<1>5. \A c \in Page : position[c] \in Nat
  BY <1>2
<1>6. ~Taken(at)
  BY <1>4, <1>5 DEF Taken
<1>7. /\ Page' = Page \union {b} /\ PageInv'
      /\ position'[b] = at /\ \A c \in Page : position'[c] = position[c]
  <2>1. \A c \in Page : position[c] # at
    BY <1>6 DEF Taken
  <2> QED BY <1>1, <1>2, <1>4, <1>6, <2>1, InsertFacts DEF OrderInv
<1>8. used' = used \union {b}
  BY <1>1, <1>6 DEF Insert
<1> QED BY <1>1, <1>2, <1>4, <1>7, <1>8

LEMMA PlaceFacts ==
    ASSUME OrderInv, NEW h \in Handlers, NEW b \in Blocks, InsertBlock(h, b), PositionsHold(h),
           ~Rejected(h)
    PROVE  /\ request[h].index < Len(rows)
           /\ PageInv' /\ Page' = Page \union {b} /\ b \notin used /\ used' = used \union {b}
           /\ \A a, c \in Page : position[a] < position[c] => position'[a] < position'[c]
           /\ \A c \in Page :
                 position'[c] < position'[b] <=>
                    \E i \in 1..request[h].index : request[h].order[i] = c
<1> DEFINE order == request[h].order
           offset == Len(order) + 1
           positions == Moved(Shifted(h), offset)
           at == InsertPosition(h)
           index == request[h].index
<1>1. /\ request[h].pc = "create" /\ index < Len(order) /\ b \notin used
      /\ ~TargetConflict(order, Shifted(h), offset) /\ ~(\E c \in Page : positions[c] = at)
      /\ Insert(b, at, positions)
  BY DEF InsertBlock
<1>2. /\ order \in Seq(Blocks) /\ Len(order) = Len(rows) /\ ListingOf(order, position)
      /\ \A c \in Page : \E i \in 1..Len(order) : order[i] = c
      /\ position \in [Page -> Nat] /\ IsInjective(position) /\ index \in Nat
  BY <1>1, CreateFacts, PageRead DEF OrderInv, PageInv
<1>3. /\ Len(order) \in Nat
      /\ \A i, j \in 1..Len(order) : i < j => position[order[i]] < position[order[j]]
      /\ \A i \in 1..Len(order) : order[i] \in Page /\ position[order[i]] \in Nat
  BY <1>2, SeenIsInjective
<1>4. index + 1 \in 1..Len(order) /\ at = position[order[index + 1]] /\ at \in Nat
  <2>1. index + 1 \in 1..Len(order)
    BY <1>1, <1>2, <1>3
  <2> QED BY <1>3, <2>1 DEF InsertPosition, PositionsHold
<1>5. positions \in [Page -> Nat] /\ IsInjective(positions)
  <2>1. offset \in Nat
    BY <1>3
  <2> QED BY <1>1, <1>2, <2>1, ShiftedFacts, MovedFacts DEF OrderInv
<1>6. /\ Page' = Page \union {b} /\ PageInv' /\ position'[b] = at
      /\ \A c \in Page : position'[c] = positions[c]
  BY <1>1, <1>4, <1>5, InsertFacts DEF OrderInv
<1>7. ASSUME NEW c \in Page
      PROVE  /\ position'[c] = IF position[c] >= at THEN position[c] + 1 ELSE position[c]
             /\ position[c] \in Nat
  <2>1. Shifted(h)[c] = IF position[c] >= at THEN position[c] + 1 ELSE position[c]
    BY <1>2 DEF Shifted, PositionsHold
  <2>2. positions[c] = Shifted(h)[c]
    BY <1>2 DEF Moved, Shifted, PositionsHold
  <2> QED BY <1>2, <1>6, <2>1, <2>2
<1> HIDE DEF at, positions, index
<1>8. ASSUME NEW a \in Page, NEW c \in Page, position[a] < position[c]
      PROVE  position'[a] < position'[c]
  BY <1>4, <1>7, <1>8
<1>9. ASSUME NEW c \in Page
      PROVE  position'[c] < position'[b] <=> \E i \in 1..index : order[i] = c
  <2>1. position'[c] < position'[b] <=> position[c] < at
    BY <1>4, <1>6, <1>7
  <2>2. PICK k \in 1..Len(order) : order[k] = c
    BY <1>2
  <2>3. position[c] < at <=> k <= index
    <3>1. k < index + 1 \/ k = index + 1 \/ k > index + 1
      BY <1>2, <1>3
    <3>2. /\ k < index + 1 => position[c] < at
          /\ k > index + 1 => at < position[c]
          /\ k = index + 1 => at = position[c]
      BY <1>3, <1>4, <2>2
    <3>3. k \in Int /\ index \in Int /\ position[c] \in Int /\ at \in Int
      BY <1>2, <1>3, <1>4, <1>7
    <3> QED BY <3>1, <3>2, <3>3
  <2>4. \A i \in 1..Len(order) : order[i] = c => i = k
    <3> SUFFICES ASSUME NEW i \in 1..Len(order), order[i] = c PROVE i = k
      OBVIOUS
    <3>1. ~(i < k) /\ ~(k < i)
      BY <1>3, <1>7, <2>2
    <3> QED BY <1>3, <3>1
  <2>5. 1..index \subseteq 1..Len(order)
    BY <1>2, <1>3, <1>4
  <2>6. k <= index <=> k \in 1..index
    BY <1>2, <1>3
  <2> QED BY <2>1, <2>2, <2>3, <2>4, <2>5, <2>6
<1>10. used' = used \union {b}
  BY <1>1 DEF Insert
<1>11. index < Len(rows)
  BY <1>1, <1>2 DEF index
<1> QED BY <1>1, <1>6, <1>8, <1>9, <1>10, <1>11 DEF index

(* An insert into a page that kept its positions since it was read leaves  *)
(* the order of the others, and puts its block where it was asked for.     *)
THEOREM InsertsLandInPlace == Spec => InsertPlacesBlock
<1> DEFINE Placed(h) ==
              Inserts(h) /\ PositionsHold(h) =>
                 /\ \A a, b \in Page : position[a] < position[b] => position'[a] < position'[b]
                 /\ \A b \in used' \ used :
                       Cardinality({a \in Page : position'[a] < position'[b]}) =
                           (IF request[h].index < Len(rows) THEN request[h].index
                            ELSE Len(rows))
<1>1. ASSUME OrderInv, Next, NEW h \in Handlers PROVE Placed(h)
  <2> SUFFICES ASSUME Inserts(h), PositionsHold(h)
               PROVE  /\ \A a, b \in Page :
                            position[a] < position[b] => position'[a] < position'[b]
                      /\ \A b \in used' \ used :
                            Cardinality({a \in Page : position'[a] < position'[b]}) =
                                (IF request[h].index < Len(rows) THEN request[h].index
                                 ELSE Len(rows))
    OBVIOUS
  <2>1. PICK b \in Blocks : AppendBlock(h, b) \/ InsertBlock(h, b)
    BY <1>1, AnsweredBy DEF Inserts, Answers
  <2>2. ~Rejected(h)
    BY DEF Rejected, Inserts
  <2>3. request[h].index \in Nat /\ Len(rows) \in Nat /\ request[h].pc = "create"
    BY <1>1, CreateFacts, RowFacts DEF OrderInv, PageInv, Inserts
  <2>4. CASE AppendBlock(h, b)
    <3>1. /\ request[h].index >= Len(rows) /\ used' \ used = {b}
          /\ \A c \in Page : position'[c] = position[c] /\ position'[c] < position'[b]
      BY <1>1, <2>4, AppendFacts
    <3>2. {a \in Page : position'[a] < position'[b]} = Page
      BY <3>1
    <3>3. Cardinality(Page) = Len(rows)
      BY <1>1, PageSize DEF OrderInv
    <3>4. ~(request[h].index < Len(rows))
      BY <2>3, <3>1
    <3>5. Cardinality({a \in Page : position'[a] < position'[b]}) =
             (IF request[h].index < Len(rows) THEN request[h].index ELSE Len(rows))
      BY <3>2, <3>3, <3>4
    <3>6. \A x \in used' \ used : x = b
      BY <3>1
    <3>7. \A x \in used' \ used :
             Cardinality({a \in Page : position'[a] < position'[x]}) =
                (IF request[h].index < Len(rows) THEN request[h].index ELSE Len(rows))
      BY <3>5, <3>6
    <3> QED BY <3>1, <3>7
  <2>5. CASE InsertBlock(h, b)
    <3>1. /\ request[h].index < Len(rows) /\ used' \ used = {b}
          /\ \A a, c \in Page : position[a] < position[c] => position'[a] < position'[c]
          /\ \A c \in Page :
                position'[c] < position'[b] <=>
                   \E i \in 1..request[h].index : request[h].order[i] = c
      BY <1>1, <2>2, <2>5, PlaceFacts
    <3>2. /\ request[h].order \in Seq(Blocks) /\ ListingOf(request[h].order, position)
          /\ Len(request[h].order) = Len(rows)
          /\ position \in [Page -> Nat] /\ DOMAIN position = Page
      BY <1>1, <2>3, CreateFacts, PageRead DEF OrderInv, PageInv
    <3>3. \A i \in 1..Len(rows) : request[h].order[i] \in Page
      BY <3>2, SeenIsInjective
    <3>4. {a \in Page : position'[a] < position'[b]} =
             {request[h].order[i] : i \in 1..request[h].index}
      <4>1. 1..request[h].index \subseteq 1..Len(rows)
        BY <2>3, <3>1
      <4> QED BY <3>1, <3>3, <4>1
    <3>5. request[h].index \in 0..Len(request[h].order)
      BY <2>3, <3>1, <3>2
    <3>6. Cardinality({request[h].order[i] : i \in 1..request[h].index}) = request[h].index
      BY <3>2, <3>5, ListingSize
    <3> QED BY <3>1, <3>4, <3>6
  <2> QED BY <2>1, <2>4, <2>5
<1>2. OrderInv /\ [Next]_vars => [\A h \in Handlers : Placed(h)]_vars
  BY <1>1
<1> QED BY <1>2, OrderIsKept, PTL DEF Spec, InsertPlacesBlock

-----------------------------------------------------------------------------
(* Reordering                                                              *)

LEMMA MeasuredFacts ==
    ASSUME OrderInv, NEW h \in Handlers, request[h].pc = "measured"
    PROVE  LET order == request[h].order
           IN  /\ order \in Seq(Blocks) /\ IsInjective(order) /\ Len(order) \in Nat
               /\ request[h].size \in Nat
               /\ ToSet(order) = DOMAIN request[h].seen
               /\ \A b : b \in ToSet(order) <=> \E i \in 1..Len(order) : order[i] = b
<1>1. RequestInv(request[h])
  BY DEF OrderInv
<1>2. /\ request[h].order \in Seq(Blocks) /\ IsInjective(request[h].order)
      /\ request[h].size \in Nat /\ ToSet(request[h].order) = DOMAIN request[h].seen
  BY <1>1 DEF RequestInv, Requests
<1> QED BY <1>2, LenProperties DEF ToSet

(* A reorder that is not refused leaves the blocks it names in the order   *)
(* asked for, whatever happened since its reads, and the blocks created    *)
(* meanwhile behind them, if none had been deleted when it counted them.   *)
THEOREM ReordersAreApplied == Spec => ReorderApplied
<1> DEFINE Applied(h) ==
              Reorders(h) =>
                  LET order == request[h].order
                      named == ToSet(order) \cap Page
                  IN  /\ \A i, j \in 1..Len(order) :
                             i < j /\ order[i] \in Page /\ order[j] \in Page
                                 => position'[order[i]] < position'[order[j]]
                      /\ Len(order) <= request[h].size =>
                             \A a \in named, b \in Page \ named :
                                position'[a] < position'[b]
<1>1. ASSUME OrderInv, Next, NEW h \in Handlers PROVE Applied(h)
  <2> DEFINE order == request[h].order
             size == request[h].size
  <2> SUFFICES ASSUME Reorders(h)
               PROVE  /\ \A i, j \in 1..Len(order) :
                             i < j /\ order[i] \in Page /\ order[j] \in Page
                                 => position'[order[i]] < position'[order[j]]
                      /\ Len(order) <= size =>
                             \A a \in ToSet(order) \cap Page,
                                b \in Page \ (ToSet(order) \cap Page) :
                                position'[a] < position'[b]
    OBVIOUS
  <2>1. ReorderBlocks(h) /\ ~Rejected(h) /\ request[h].pc = "measured"
    BY <1>1, AnsweredBy DEF Reorders, Answers, Rejected
  <2>2. position' = Moved(Numbered(order), size + 1)
    BY <2>1 DEF ReorderBlocks
  <2>3. /\ order \in Seq(Blocks) /\ IsInjective(order) /\ Len(order) \in Nat /\ size \in Nat
        /\ \A b : b \in ToSet(order) <=> \E i \in 1..Len(order) : order[i] = b
        /\ position \in [Page -> Nat]
    BY <1>1, <2>1, MeasuredFacts DEF OrderInv, PageInv
  <2>4. /\ DOMAIN Numbered(order) = ToSet(order)
        /\ \A i \in 1..Len(order) : Numbered(order)[order[i]] = i - 1
    BY <2>3, NumberedFacts
  <2>5. ASSUME NEW i \in 1..Len(order), order[i] \in Page PROVE position'[order[i]] = i - 1
    BY <2>2, <2>3, <2>4, <2>5 DEF Moved
  <2>6. ASSUME NEW b \in Page, b \notin ToSet(order)
        PROVE  position'[b] = position[b] + (size + 1) /\ position[b] \in Nat
    BY <2>2, <2>3, <2>4, <2>6 DEF Moved
  <2> HIDE DEF order, size
  <2>7. ASSUME NEW i \in 1..Len(order), NEW j \in 1..Len(order), i < j,
               order[i] \in Page, order[j] \in Page
        PROVE  position'[order[i]] < position'[order[j]]
    BY <2>3, <2>5, <2>7
  <2>8. ASSUME Len(order) <= size, NEW a \in ToSet(order) \cap Page,
               NEW b \in Page \ (ToSet(order) \cap Page)
        PROVE  position'[a] < position'[b]
    <3>1. PICK i \in 1..Len(order) : order[i] = a
      BY <2>3
    <3>2. position'[a] = i - 1
      BY <2>5, <3>1
    <3>3. position'[b] = position[b] + (size + 1) /\ position[b] \in Nat
      BY <2>6
    <3> QED BY <2>3, <2>8, <3>2, <3>3
  <2> QED BY <2>7, <2>8
<1>2. OrderInv /\ [Next]_vars => [\A h \in Handlers : Applied(h)]_vars
  BY <1>1
<1> QED BY <1>2, OrderIsKept, PTL DEF Spec, ReorderApplied

-----------------------------------------------------------------------------
(* Conflicts                                                               *)

LEMMA DenseFacts ==
    ASSUME PageInv, Dense
    PROVE  /\ \A b \in Page : position[b] \in Nat /\ position[b] < Len(rows)
           /\ \A offset \in Nat : offset >= Len(rows) => ~OffsetConflict(offset)
<1>1. Len(rows) \in Nat /\ rows \in [1..Len(rows) -> Page] /\ position \in [Page -> Nat]
  BY RowFacts DEF PageInv
<1>2. ASSUME NEW b \in Page PROVE position[b] \in Nat /\ position[b] < Len(rows)
  <2>1. position[b] \in 0..(Len(rows) - 1)
    BY DEF Dense
  <2> QED BY <1>1, <2>1
<1>3. ASSUME NEW offset \in Nat, offset >= Len(rows), NEW i \in 1..Len(rows),
             NEW j \in 1..Len(rows)
      PROVE  position[rows[i]] + offset # position[rows[j]]
  <2>1. rows[i] \in Page /\ rows[j] \in Page
    BY <1>1
  <2>2. /\ position[rows[i]] \in Nat /\ position[rows[j]] \in Nat
        /\ position[rows[j]] < Len(rows)
    BY <1>2, <2>1
  <2> QED BY <1>1, <1>3, <2>2
<1> QED BY <1>2, <1>3 DEF OffsetConflict

LEMMA CreateSucceeds ==
    ASSUME OrderInv, NEW h \in Handlers, NEW b \in Blocks, Dense, PositionsHold(h),
           AppendBlock(h, b) \/ InsertBlock(h, b)
    PROVE  used' # used
<1>1. CASE AppendBlock(h, b)
  BY <1>1, AppendFacts
<1>2. CASE InsertBlock(h, b)
  <2> DEFINE order == request[h].order
             offset == Len(order) + 1
             at == InsertPosition(h)
             positions == Moved(Shifted(h), offset)
  <2>1. /\ request[h].pc = "create" /\ request[h].index < Len(order) /\ b \notin used
        /\ IF \/ OffsetConflict(offset) \/ TargetConflict(order, Shifted(h), offset)
              \/ \E c \in Page : positions[c] = at
           THEN Rejected(h)
           ELSE Insert(b, at, positions) /\ Answer(h)
    BY <1>2 DEF InsertBlock
  <2>2. /\ order \in Seq(Blocks) /\ Len(order) = Len(rows) /\ ToSet(order) = DOMAIN position
        /\ position \in [Page -> Nat] /\ DOMAIN position = Page /\ Len(order) \in Nat
    BY <2>1, CreateFacts, PageRead, LenProperties DEF PositionsHold, OrderInv, PageInv
  <2>3. \A c \in Page : position[c] \in Nat /\ position[c] < Len(order)
    BY <2>2, DenseFacts DEF OrderInv
  <2>4. ~OffsetConflict(offset)
    BY <2>2, DenseFacts DEF OrderInv
  <2>5. /\ at \in Nat /\ DOMAIN Shifted(h) = Page
        /\ \A c \in Page : Shifted(h)[c] # at
    BY <2>1, <2>2, ShiftedFacts
  <2>6. \A c \in Page : Shifted(h)[c] < offset
    <3>1. \A c \in Page : Shifted(h)[c] \in {position[c], position[c] + 1}
      BY <2>2 DEF Shifted, PositionsHold
    <3> QED BY <2>2, <2>3, <3>1
  <2>7. ~TargetConflict(order, Shifted(h), offset)
    <3> SUFFICES ASSUME NEW i \in 1..Len(order), NEW c \in Page, order[i] \in Page
                 PROVE  position[c] + offset # Shifted(h)[order[i]]
      BY DEF TargetConflict
    <3>1. Shifted(h)[order[i]] < offset /\ Shifted(h)[order[i]] \in Nat
      BY <2>1, <2>2, <2>6, ShiftedFacts
    <3>2. position[c] \in Nat
      BY <2>3
    <3> QED BY <2>2, <3>1, <3>2
  <2>8. \A c \in Page : positions[c] = Shifted(h)[c]
    BY <2>5 DEF Moved
  <2>9. Insert(b, at, positions)
    BY <2>1, <2>4, <2>5, <2>7, <2>8
  <2> QED BY <2>1, <2>9 DEF Insert
<1> QED BY <1>1, <1>2

LEMMA ReorderSucceeds ==
    ASSUME OrderInv, NEW h \in Handlers, Dense, VersionsHold(h), rows # <<>>,
           ReorderBlocks(h)
    PROVE  version' # version
<1> DEFINE order == request[h].order
           offset == request[h].size + 1
<1>1. /\ request[h].pc = "measured"
      /\ IF OffsetConflict(offset) \/ TargetConflict(order, Numbered(order), offset)
         THEN Rejected(h)
         ELSE version' = [b \in Page |->
                             IF b \in ToSet(order) THEN version[b] + 1 ELSE version[b]]
  BY DEF ReorderBlocks
<1>2. /\ order \in Seq(Blocks) /\ IsInjective(order) /\ ToSet(order) = Page
      /\ version \in [Page -> Nat \ {0}] /\ Len(order) \in Nat /\ DOMAIN order = 1..Len(order)
      /\ request[h].size = Len(rows)
      /\ \A b : b \in ToSet(order) <=> \E i \in 1..Len(order) : order[i] = b
  BY <1>1, MeasuredFacts, LenProperties DEF VersionsHold, OrderInv, PageInv
<1>3. /\ Len(rows) \in Nat /\ rows \in [1..Len(rows) -> Page] /\ Len(rows) # 0
  BY RowFacts, EmptySeq DEF OrderInv, PageInv
<1>4. Len(order) = Len(rows)
  <2> DEFINE m == Len(order)
  <2>1. order \in Bijection(1..m, Page)
    <3>1. order \in [1..m -> Page]
      BY <1>2
    <3> QED BY <1>2, <3>1 DEF Bijection, Injection, Surjection
  <2>2. m \in Nat
    BY <1>2
  <2> HIDE DEF m
  <2>3. IsFiniteSet(1..m) /\ Cardinality(1..m) = m
    BY <2>2, FS_Interval
  <2>4. Cardinality(Page) = m
    BY <2>1, <2>3, FS_Bijection DEF ExistsBijection
  <2> QED BY <2>4, PageSize DEF OrderInv, m
<1>5. ~OffsetConflict(offset)
  BY <1>2, <1>3, DenseFacts DEF OrderInv
<1>6. ~TargetConflict(order, Numbered(order), offset)
  <2> SUFFICES ASSUME NEW i \in 1..Len(order), NEW c \in Page
               PROVE  position[c] + offset # Numbered(order)[order[i]]
    BY DEF TargetConflict
  <2>1. Numbered(order)[order[i]] = i - 1
    BY <1>2, NumberedFacts
  <2>2. position[c] \in Nat
    BY DenseFacts DEF OrderInv
  <2> QED BY <1>2, <1>3, <1>4, <2>1, <2>2
<1>7. rows[1] \in Page /\ version[rows[1]] \in Nat
  BY <1>2, <1>3
<1>8. version'[rows[1]] = version[rows[1]] + 1
  BY <1>1, <1>2, <1>5, <1>6, <1>7
<1> QED BY <1>7, <1>8

(* On a page without gaps that did not change since the request read it,   *)
(* nobody is told of a conflict: moving the rows aside never meets the     *)
(* constraint on their positions.                                          *)
THEOREM ConflictsAreReal == Spec => NoFalseConflict
<1> DEFINE Heard(h) ==
              Answers(h) /\ Dense =>
                  /\ request[h].pc = "create" /\ PositionsHold(h) => Inserts(h)
                  /\ request[h].pc = "measured" /\ VersionsHold(h) /\ rows # <<>>
                         => Reorders(h)
<1>1. ASSUME OrderInv, Next, NEW h \in Handlers PROVE Heard(h)
  <2> SUFFICES ASSUME Answers(h), Dense
               PROVE  /\ request[h].pc = "create" /\ PositionsHold(h) => Inserts(h)
                      /\ request[h].pc = "measured" /\ VersionsHold(h) /\ rows # <<>>
                             => Reorders(h)
    OBVIOUS
  <2>1. ASSUME request[h].pc = "create", PositionsHold(h) PROVE Inserts(h)
    <3>1. PICK b \in Blocks : AppendBlock(h, b) \/ InsertBlock(h, b)
      BY <1>1, <2>1, AnsweredBy DEF Answers
    <3> QED BY <1>1, <2>1, <3>1, CreateSucceeds DEF Inserts
  <2>2. ASSUME request[h].pc = "measured", VersionsHold(h), rows # <<>> PROVE Reorders(h)
    <3>1. ReorderBlocks(h)
      BY <1>1, <2>2, AnsweredBy DEF Answers
    <3> QED BY <1>1, <2>2, <3>1, ReorderSucceeds DEF Reorders
  <2> QED BY <2>1, <2>2
<1>2. OrderInv /\ [Next]_vars => [\A h \in Handlers : Heard(h)]_vars
  BY <1>1
<1> QED BY <1>2, OrderIsKept, PTL DEF Spec, NoFalseConflict
=============================================================================
