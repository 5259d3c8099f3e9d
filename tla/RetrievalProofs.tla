-------------------------- MODULE RetrievalProofs --------------------------
(***************************************************************************)
(* Proofs about Retrieval, for any workspace, query, limit and scores: the *)
(* order, the compaction and the cut of a search lose nothing better,      *)
(* answers are refused for want of evidence and only for that, and related *)
(* pages are the best that any of their passages found.                    *)
(***************************************************************************)
EXTENDS Retrieval, FiniteSetTheorems, SequenceTheorems, TLAPS

-----------------------------------------------------------------------------
(* Orders: in a finite set with a strict order every place is taken        *)

StrictOrder(S, R) ==
    /\ \A a \in S : <<a, a>> \notin R
    /\ \A a, b, c \in S : <<a, b>> \in R /\ <<b, c>> \in R => <<a, c>> \in R
    /\ \A a, b \in S : a # b => <<a, b>> \in R \/ <<b, a>> \in R

(* A member's place is the number of members before it.                    *)
Ahead(S, R, a) == {b \in S : <<b, a>> \in R}
Rank(S, R) == [a \in S |-> Cardinality(Ahead(S, R, a))]

LEMMA RankFacts ==
    ASSUME NEW S, IsFiniteSet(S), NEW R, StrictOrder(S, R)
    PROVE  /\ Rank(S, R) \in Surjection(S, 0..(Cardinality(S) - 1))
           /\ \A a \in S : Rank(S, R)[a] \in 0..(Cardinality(S) - 1)
           /\ \A i \in 0..(Cardinality(S) - 1) : \E a \in S : Rank(S, R)[a] = i
           /\ \A a, b \in S : <<a, b>> \in R => Rank(S, R)[a] < Rank(S, R)[b]
<1> DEFINE n == Cardinality(S)
           rank == Rank(S, R)
<1>1. n \in Nat
  BY FS_CardinalityType
<1>2. ASSUME NEW b \in S
      PROVE  IsFiniteSet(Ahead(S, R, b)) /\ rank[b] = Cardinality(Ahead(S, R, b))
  <2>1. Ahead(S, R, b) \in SUBSET S
    BY DEF Ahead
  <2> QED BY <2>1, FS_Subset DEF Rank
<1>3. ASSUME NEW b \in S PROVE rank[b] \in 0..(n - 1)
  <2>1. Ahead(S, R, b) \in SUBSET (S \ {b})
    BY DEF Ahead, StrictOrder
  <2>2. IsFiniteSet(S \ {b}) /\ Cardinality(S \ {b}) = n - 1
    BY FS_RemoveElement
  <2>3. Cardinality(Ahead(S, R, b)) <= n - 1
    BY <2>1, <2>2, FS_Subset
  <2>4. Cardinality(Ahead(S, R, b)) \in Nat
    BY <1>2, FS_CardinalityType
  <2> QED BY <1>1, <1>2, <2>3, <2>4
<1>4. ASSUME NEW a \in S, NEW b \in S, <<a, b>> \in R PROVE rank[a] < rank[b]
  <2>1. Ahead(S, R, a) \in SUBSET (Ahead(S, R, b) \ {a})
    BY <1>4 DEF Ahead, StrictOrder
  <2>2. a \in Ahead(S, R, b)
    BY <1>4 DEF Ahead
  <2>3. /\ IsFiniteSet(Ahead(S, R, b) \ {a})
        /\ Cardinality(Ahead(S, R, b) \ {a}) = Cardinality(Ahead(S, R, b)) - 1
    BY <1>2, <2>2, FS_RemoveElement
  <2>4. Cardinality(Ahead(S, R, a)) <= Cardinality(Ahead(S, R, b)) - 1
    BY <2>1, <2>3, FS_Subset
  <2>5. rank[a] \in Nat /\ rank[b] \in Nat
    BY <1>1, <1>3
  <2> QED BY <1>2, <2>4, <2>5
<1>5. rank \in [S -> 0..(n - 1)]
  <2>1. rank = [b \in S |-> rank[b]]
    BY DEF Rank
  <2> QED BY <1>3, <2>1
<1>6. rank \in Injection(S, 0..(n - 1))
  <2>1. ASSUME NEW a \in S, NEW b \in S, rank[a] = rank[b] PROVE a = b
    <3>1. rank[a] \in Int /\ rank[b] \in Int
      BY <1>1, <1>3
    <3>2. <<a, b>> \notin R /\ <<b, a>> \notin R
      BY <1>4, <2>1, <3>1
    <3> QED BY <3>2 DEF StrictOrder
  <2> QED BY <1>5, <2>1 DEF Injection, IsInjective
<1>7. IsFiniteSet(0..(n - 1)) /\ Cardinality(0..(n - 1)) = n
  BY <1>1, FS_Interval, SMTT(30)
<1>8. rank \in Surjection(S, 0..(n - 1))
  BY <1>6, <1>7, FS_Injection
<1> QED BY <1>4, <1>8 DEF Surjection

(* So that choosing for each place the member with that many before it     *)
(* lists all of them, in their order.                                      *)
InOrder(S, R) ==
    [i \in 1..Cardinality(S) |->
        CHOOSE a \in S : Cardinality({b \in S : <<b, a>> \in R}) = i - 1]

LEMMA OrderFacts ==
    ASSUME NEW S, IsFiniteSet(S), NEW R, StrictOrder(S, R)
    PROVE  /\ InOrder(S, R) \in [1..Cardinality(S) -> S]
           /\ \A a \in S : \E i \in 1..Cardinality(S) : InOrder(S, R)[i] = a
           /\ \A i, j \in 1..Cardinality(S) :
                 i < j => <<InOrder(S, R)[i], InOrder(S, R)[j]>> \in R
<1> DEFINE n == Cardinality(S)
           rank == Rank(S, R)
           s == InOrder(S, R)
<1>1. n \in Nat
  BY FS_CardinalityType
<1>2. ASSUME NEW i \in 1..n PROVE s[i] \in S /\ rank[s[i]] = i - 1
  <2>1. i - 1 \in 0..(n - 1)
    BY <1>1
  <2>2. \E a \in S : Cardinality(Ahead(S, R, a)) = i - 1
    <3>1. PICK a \in S : Rank(S, R)[a] = i - 1
      BY <2>1, RankFacts
    <3> QED BY <3>1 DEF Rank
  <2>3. s[i] = CHOOSE a \in S : Cardinality(Ahead(S, R, a)) = i - 1
    BY DEF InOrder, Ahead
  <2>4. s[i] \in S /\ Cardinality(Ahead(S, R, s[i])) = i - 1
    BY <2>2, <2>3
  <2> QED BY <2>4 DEF Rank
<1>3. s \in [1..n -> S]
  <2> DEFINE e(i) == CHOOSE a \in S : Cardinality({b \in S : <<b, a>> \in R}) = i - 1
  <2>1. InOrder(S, R) = [i \in 1..n |-> e(i)]
    BY DEF InOrder
  <2> HIDE DEF e
  <2> QED BY <1>2, <2>1
<1>4. ASSUME NEW i \in 1..n, NEW j \in 1..n, i < j PROVE <<s[i], s[j]>> \in R
  <2>1. s[i] \in S /\ s[j] \in S /\ rank[s[i]] < rank[s[j]] /\ rank[s[i]] \in Int
    BY <1>2, <1>4
  <2>2. <<s[j], s[i]>> \notin R /\ s[i] # s[j]
    BY <1>2, <1>4, <2>1, RankFacts
  <2> QED BY <2>1, <2>2 DEF StrictOrder
<1>5. ASSUME NEW a \in S PROVE \E i \in 1..n : s[i] = a
  <2>1. rank[a] \in 0..(n - 1)
    BY RankFacts
  <2>2. rank[a] + 1 \in 1..n
    BY <1>1, <2>1
  <2>3. s[rank[a] + 1] \in S /\ rank[s[rank[a] + 1]] = rank[a]
    BY <1>2, <2>1, <2>2
  <2>4. s[rank[a] + 1] = a
    <3>1. <<s[rank[a] + 1], a>> \notin R /\ <<a, s[rank[a] + 1]>> \notin R
      BY <2>1, <2>3, RankFacts
    <3> QED BY <2>3, <3>1 DEF StrictOrder
  <2> QED BY <2>2, <2>4
<1> QED BY <1>3, <1>4, <1>5

LEMMA FirstExists ==
    ASSUME NEW S, IsFiniteSet(S), S # {}, NEW R, StrictOrder(S, R)
    PROVE  \E m \in S : \A x \in S : <<x, m>> \notin R
<1>1. Cardinality(S) \in Nat /\ Cardinality(S) # 0
  BY FS_CardinalityType, FS_EmptySet
<1>2. 0 \in 0..(Cardinality(S) - 1)
  BY <1>1
<1>3. PICK m \in S : Rank(S, R)[m] = 0
  BY <1>2, RankFacts
<1>4. ASSUME NEW x \in S, <<x, m>> \in R PROVE FALSE
  <2>1. Rank(S, R)[x] \in 0..(Cardinality(S) - 1) /\ Rank(S, R)[x] < Rank(S, R)[m]
    BY <1>4, RankFacts
  <2> QED BY <1>1, <1>3, <2>1
<1> QED BY <1>4

(* A finite set of numbers has a largest.                                  *)
LEMMA LargestExists ==
    ASSUME NEW S \in SUBSET Int, IsFiniteSet(S), S # {}
    PROVE  Max(S) \in S /\ \A x \in S : Max(S) >= x
<1> DEFINE R == {p \in S \X S : p[1] > p[2]}
<1>1. StrictOrder(S, R)
  BY DEF StrictOrder
<1>2. \A a, b \in S : <<a, b>> \notin R => b >= a
  OBVIOUS
<1> HIDE DEF R
<1>3. PICK m \in S : \A x \in S : <<x, m>> \notin R
  BY <1>1, FirstExists, Zenon
<1>4. \A x \in S : m >= x
  BY <1>2, <1>3
<1> QED BY <1>3, <1>4 DEF Max

LEMMA LargestIs ==
    ASSUME NEW S \in SUBSET Int, NEW m \in S, \A x \in S : m >= x
    PROVE  Max(S) = m
<1>1. Max(S) \in S /\ \A x \in S : Max(S) >= x
  BY DEF Max
<1>2. Max(S) \in Int /\ m \in Int /\ Max(S) >= m /\ m >= Max(S)
  BY <1>1
<1> QED BY <1>2

LEMMA MaxOfTwo ==
    ASSUME NEW x \in Int, NEW y \in Int
    PROVE  Max({x, y}) = (IF x >= y THEN x ELSE y) /\ Min({x, y}) = (IF x >= y THEN y ELSE x)
  BY DEF Max, Min

(* Induction up to n, for a set of numbers: the first one missing would    *)
(* follow from the one before it.                                          *)
LEMMA Upwards ==
    ASSUME NEW n \in Nat, NEW Good, 0 \in Good,
           \A i \in 1..n : i - 1 \in Good => i \in Good
    PROVE  \A i \in 0..n : i \in Good
<1> DEFINE Bad == (0..n) \ Good
           R == {p \in Bad \X Bad : p[1] < p[2]}
<1> SUFFICES ASSUME Bad # {} PROVE FALSE
  OBVIOUS
<1>1. Bad \in SUBSET (0..n)
  OBVIOUS
<1>2. IsFiniteSet(Bad)
  <2>1. IsFiniteSet(0..n)
    BY FS_Interval
  <2> HIDE DEF Bad
  <2> QED BY <1>1, <2>1, FS_Subset
<1>3. StrictOrder(Bad, R)
  BY DEF StrictOrder
<1>4. PICK m \in Bad : \A x \in Bad : <<x, m>> \notin R
  <2> HIDE DEF Bad, R
  <2> QED BY <1>2, <1>3, FirstExists, Zenon
<1>5. m \in 1..n
  OBVIOUS
<1>6. m - 1 \notin Bad
  <2> SUFFICES ASSUME m - 1 \in Bad PROVE FALSE
    OBVIOUS
  <2>1. <<m - 1, m>> \in R
    BY <1>5
  <2> HIDE DEF Bad, R
  <2> QED BY <1>4, <2>1
<1> QED BY <1>5, <1>6

(* What is computed step by step exists, and is of its type at each step.  *)
KeepType(next, n, T) == \A i \in 1..n : \A v \in T : next[i][v] \in T
Computed(base, next, n, T) ==
    \E f \in [0..n -> T] : f[0] = base /\ \A i \in 1..n : f[i] = next[i][f[i - 1]]

LEMMA StepsExist ==
    ASSUME NEW n \in Nat, NEW T, NEW base \in T, NEW next, KeepType(next, n, T)
    PROVE  Computed(base, next, n, T)
<1> DEFINE Done(k) == \E f \in [0..k -> T] :
                        f[0] = base /\ \A i \in 1..k : f[i] = next[i][f[i - 1]]
           Good == {k \in 0..n : Done(k)}
<1>1. 0 \in Good
  <2>1. [i \in 0..0 |-> base] \in [0..0 -> T] /\ [i \in 0..0 |-> base][0] = base
    OBVIOUS
  <2>2. 0 \in 0..n /\ 1..0 = {}
    OBVIOUS
  <2> QED BY <2>1, <2>2
<1>2. ASSUME NEW k \in 1..n, k - 1 \in Good PROVE k \in Good
  <2>1. PICK f \in [0..(k - 1) -> T] :
            f[0] = base /\ \A i \in 1..(k - 1) : f[i] = next[i][f[i - 1]]
    BY <1>2
  <2> DEFINE v == next[k][f[k - 1]]
             g == [i \in 0..k |-> IF i = k THEN v ELSE f[i]]
  <2>2. v \in T
    <3>1. f[k - 1] \in T
      BY <2>1
    <3> QED BY <3>1 DEF KeepType
  <2>3. \A i \in 0..(k - 1) : g[i] = f[i]
    OBVIOUS
  <2>4. g[k] = v /\ g[k - 1] = f[k - 1]
    OBVIOUS
  <2>5. g \in [0..k -> T]
    <3>1. \A i \in 0..k : i # k => i \in 0..(k - 1)
      OBVIOUS
    <3> HIDE DEF v
    <3> QED BY <2>1, <2>2, <3>1
  <2>6. g[0] = base
    BY <2>1, <2>3
  <2>7. ASSUME NEW i \in 1..k PROVE g[i] = next[i][g[i - 1]]
    <3>1. CASE i = k
      BY <2>4, <3>1
    <3>2. CASE i # k
      <4>1. i \in 1..(k - 1) /\ i \in 0..(k - 1) /\ i - 1 \in 0..(k - 1)
        BY <3>2
      <4> HIDE DEF g
      <4> QED BY <2>1, <2>3, <4>1
    <3> QED BY <3>1, <3>2
  <2> HIDE DEF g
  <2>8. Done(k)
    BY <2>5, <2>6, <2>7
  <2> HIDE DEF Done
  <2> QED BY <2>8
<1> HIDE DEF Good
<1>3. \A k \in 0..n : k \in Good
  BY <1>1, <1>2, Upwards
<1>4. n \in Good
  BY <1>3
<1> QED BY <1>4 DEF Good, Computed

-----------------------------------------------------------------------------
(* Sorted sources                                                          *)

(* The candidates of a search, or what is left of them: finitely many      *)
(* sources with their scores.                                              *)
Scored(c) ==
    /\ IsFiniteSet(DOMAIN c) /\ DOMAIN c \subseteq Sources
    /\ \A s \in DOMAIN c : c[s] \in Nat

(* What two sources of the same score are sorted by.                       *)
BreaksTies(order, S) ==
    /\ \A s \in S : order[s] \in Nat
    /\ \A s, t \in S : order[s] = order[t] => s = t

Firsts(c, order) == {p \in (DOMAIN c) \X (DOMAIN c) : Before(c, order, p[1], p[2])}

LEMMA FirstsOrder ==
    ASSUME NEW c, Scored(c), NEW order, BreaksTies(order, DOMAIN c)
    PROVE  /\ StrictOrder(DOMAIN c, Firsts(c, order))
           /\ Ranked(c, order) = InOrder(DOMAIN c, Firsts(c, order))
<1>1. /\ \A s \in DOMAIN c : c[s] \in Nat /\ order[s] \in Nat
      /\ \A s, t \in DOMAIN c : order[s] = order[t] => s = t
  BY DEF Scored, BreaksTies
<1>2. ASSUME NEW s \in DOMAIN c, NEW t \in DOMAIN c
      PROVE  <<s, t>> \in Firsts(c, order) <=> Before(c, order, s, t)
  BY DEF Firsts
<1>a. \A s, t \in DOMAIN c : s # t => Before(c, order, s, t) \/ Before(c, order, t, s)
  BY <1>1 DEF Before
<1>b. \A s, t, u \in DOMAIN c :
          Before(c, order, s, t) /\ Before(c, order, t, u) => Before(c, order, s, u)
  BY <1>1 DEF Before
<1>c. \A s \in DOMAIN c : ~Before(c, order, s, s)
  BY <1>1 DEF Before
<1>3. StrictOrder(DOMAIN c, Firsts(c, order))
  BY <1>2, <1>a, <1>b, <1>c DEF StrictOrder
<1>4. ASSUME NEW s \in DOMAIN c
      PROVE  {t \in DOMAIN c : Before(c, order, t, s)}
                 = {t \in DOMAIN c : <<t, s>> \in Firsts(c, order)}
  BY <1>2
<1>5. \A i : (CHOOSE s \in DOMAIN c :
                 Cardinality({t \in DOMAIN c : Before(c, order, t, s)}) = i - 1)
           = (CHOOSE s \in DOMAIN c :
                 Cardinality({t \in DOMAIN c : <<t, s>> \in Firsts(c, order)}) = i - 1)
  BY <1>4
<1>6. Ranked(c, order) = InOrder(DOMAIN c, Firsts(c, order))
  <2> DEFINE e(i) == CHOOSE s \in DOMAIN c :
                        Cardinality({t \in DOMAIN c : Before(c, order, t, s)}) = i - 1
             f(i) == CHOOSE s \in DOMAIN c :
                        Cardinality({t \in DOMAIN c : <<t, s>> \in Firsts(c, order)}) = i - 1
  <2>1. Ranked(c, order) = [i \in 1..Cardinality(DOMAIN c) |-> e(i)]
    BY DEF Ranked
  <2>2. InOrder(DOMAIN c, Firsts(c, order)) = [i \in 1..Cardinality(DOMAIN c) |-> f(i)]
    BY DEF InOrder
  <2>3. \A i : e(i) = f(i)
    BY <1>5
  <2> HIDE DEF e, f
  <2> QED BY <2>1, <2>2, <2>3
<1> QED BY <1>3, <1>6

(* They are listed once each, better ones first.                           *)
LEMMA RankedFacts ==
    ASSUME NEW c, Scored(c), NEW order, BreaksTies(order, DOMAIN c)
    PROVE  LET r == Ranked(c, order) IN
           /\ r \in Seq(DOMAIN c) /\ Len(r) = Cardinality(DOMAIN c)
           /\ \A s \in DOMAIN c : \E i \in 1..Len(r) : r[i] = s
           /\ \A i, j \in 1..Len(r) : i < j => c[r[i]] >= c[r[j]] /\ r[i] # r[j]
<1> DEFINE n == Cardinality(DOMAIN c)
           r == Ranked(c, order)
<1>1. n \in Nat /\ IsFiniteSet(DOMAIN c)
  BY FS_CardinalityType DEF Scored
<1>2. /\ r \in [1..n -> DOMAIN c]
      /\ \A s \in DOMAIN c : \E i \in 1..n : r[i] = s
      /\ \A i, j \in 1..n : i < j => <<r[i], r[j]>> \in Firsts(c, order)
  <2>1. StrictOrder(DOMAIN c, Firsts(c, order)) /\ r = InOrder(DOMAIN c, Firsts(c, order))
    BY FirstsOrder
  <2> QED BY <1>1, <2>1, OrderFacts
<1> HIDE DEF r
<1>3. r \in Seq(DOMAIN c) /\ Len(r) = n
  BY <1>1, <1>2
<1>4. ASSUME NEW i \in 1..n, NEW j \in 1..n, i < j
      PROVE  c[r[i]] >= c[r[j]] /\ r[i] # r[j]
  <2>1. r[i] \in DOMAIN c /\ r[j] \in DOMAIN c /\ Before(c, order, r[i], r[j])
    BY <1>2, <1>4 DEF Firsts
  <2>2. /\ c[r[i]] \in Nat /\ c[r[j]] \in Nat
        /\ order[r[i]] \in Nat /\ order[r[j]] \in Nat
    BY <2>1 DEF Scored, BreaksTies
  <2> QED BY <2>1, <2>2 DEF Before
<1> QED BY <1>2, <1>3, <1>4 DEF r

LEMMA HeadFacts ==
    ASSUME NEW T, NEW s \in Seq(T), NEW k \in 0..Len(s)
    PROVE  /\ SubSeq(s, 1, k) \in Seq(T) /\ Len(SubSeq(s, 1, k)) = k
           /\ \A i \in 1..k : SubSeq(s, 1, k)[i] = s[i]
<1>1. Len(s) \in Nat /\ k \in Int
  BY LenProperties
<1>2. \A i \in 1..k : s[i] \in T
  BY <1>1, ElementOfSeq
<1>3. /\ SubSeq(s, 1, k) \in Seq(T)
      /\ Len(SubSeq(s, 1, k)) = IF 1 <= k THEN k - 1 + 1 ELSE 0
      /\ \A i \in 1..(k - 1 + 1) : SubSeq(s, 1, k)[i] = s[1 + i - 1]
  BY <1>1, <1>2, SubSeqProperties
<1>4. Len(SubSeq(s, 1, k)) = k
  BY <1>1, <1>3
<1>5. ASSUME NEW i \in 1..k PROVE SubSeq(s, 1, k)[i] = s[i]
  <2>1. i \in 1..(k - 1 + 1) /\ 1 + i - 1 = i
    BY <1>1
  <2>2. SubSeq(s, 1, k)[i] = s[1 + i - 1]
    BY <1>3, <2>1
  <2> QED BY <2>1, <2>2
<1> QED BY <1>3, <1>4, <1>5

LEMMA BestFacts ==
    ASSUME NEW T, NEW s \in Seq(T), NEW n \in Nat
    PROVE  /\ Best(s, n) \in Seq(T)
           /\ Len(Best(s, n)) = IF n <= Len(s) THEN n ELSE Len(s)
           /\ \A i \in 1..Len(Best(s, n)) : i \in 1..Len(s) /\ Best(s, n)[i] = s[i]
<1>1. Len(s) \in Nat
  BY LenProperties
<1>2. Min({n, Len(s)}) = IF n <= Len(s) THEN n ELSE Len(s)
  BY <1>1 DEF Min
<1>3. PICK m \in 0..Len(s) : m = Min({n, Len(s)}) /\ Best(s, n) = SubSeq(s, 1, m)
  <2>1. Min({n, Len(s)}) \in 0..Len(s)
    BY <1>1, <1>2
  <2> QED BY <2>1 DEF Best
<1>4. /\ Best(s, n) \in Seq(T) /\ Len(Best(s, n)) = m
      /\ \A i \in 1..m : Best(s, n)[i] = s[i]
  BY <1>3, HeadFacts
<1>5. m = IF n <= Len(s) THEN n ELSE Len(s)
  BY <1>2, <1>3
<1>6. \A i \in 1..m : i \in 1..Len(s)
  BY <1>1
<1> QED BY <1>4, <1>5, <1>6

(* The head of a ranking: what it leaves out is no better than anything in *)
(* it, and it leaves out nothing unless it is full.                        *)
HeadOf(c, best, n) ==
    /\ best \in Seq(DOMAIN c) /\ Elements(best) \subseteq DOMAIN c
    /\ Len(best) <= n /\ Cardinality(Elements(best)) = Len(best)
    /\ IsFiniteSet(Elements(best))
    /\ \A i, j \in 1..Len(best) : i < j => c[best[i]] >= c[best[j]] /\ best[i] # best[j]
    /\ \A s \in DOMAIN c \ Elements(best) :
          Len(best) = n /\ \A t \in Elements(best) : c[t] >= c[s]

LEMMA BestRanked ==
    ASSUME NEW c, Scored(c), NEW order, BreaksTies(order, DOMAIN c), NEW n \in Nat
    PROVE  HeadOf(c, Best(Ranked(c, order), n), n)
<1> DEFINE r == Ranked(c, order)
           best == Best(r, n)
<1>a. r \in Seq(DOMAIN c)
  BY RankedFacts
<1>1. /\ r \in Seq(DOMAIN c)
      /\ \A s \in DOMAIN c : \E i \in 1..Len(r) : r[i] = s
      /\ \A i, j \in 1..Len(r) : i < j => c[r[i]] >= c[r[j]] /\ r[i] # r[j]
  BY RankedFacts
<1> HIDE DEF r
<1>2. /\ best \in Seq(DOMAIN c)
      /\ Len(best) = IF n <= Len(r) THEN n ELSE Len(r)
      /\ \A i \in 1..Len(best) : i \in 1..Len(r) /\ best[i] = r[i]
  BY <1>a, BestFacts
<1> HIDE DEF best
<1>3. Len(r) \in Nat /\ Len(best) \in Nat /\ DOMAIN best = 1..Len(best)
  BY <1>1, <1>2, LenProperties
<1>4. Elements(best) \subseteq DOMAIN c
  BY <1>2, <1>3, ElementOfSeq DEF Elements
<1>5. \A i, j \in 1..Len(best) : i < j => c[best[i]] >= c[best[j]] /\ best[i] # best[j]
  BY <1>1, <1>2
<1>6. Len(best) <= n
  BY <1>2, <1>3
<1>7. Cardinality(Elements(best)) = Len(best) /\ IsFiniteSet(Elements(best))
  <2>1. best \in Surjection(1..Len(best), Elements(best))
    BY <1>2, <1>3 DEF Surjection, Elements
  <2>2. \A i, j \in 1..Len(best) : best[i] = best[j] => i = j
    BY <1>3, <1>5
  <2>3. best \in Injection(1..Len(best), Elements(best))
    BY <2>1, <2>2 DEF Surjection, Injection, IsInjective
  <2>4. IsFiniteSet(1..Len(best)) /\ Cardinality(1..Len(best)) = Len(best)
    <3>1. PICK m \in Nat : m = Len(best)
      BY <1>3
    <3>2. IsFiniteSet(1..m) /\ Cardinality(1..m) = m
      BY FS_Interval
    <3> QED BY <3>1, <3>2
  <2> QED BY <2>1, <2>3, <2>4, FS_Surjection
<1>8. ASSUME NEW s \in DOMAIN c \ Elements(best), NEW t \in Elements(best) PROVE c[t] >= c[s]
  <2>1. PICK i \in 1..Len(r) : r[i] = s
    BY <1>1, <1>8
  <2>2. PICK j \in 1..Len(best) : best[j] = t
    BY <1>3, <1>8 DEF Elements
  <2>3. i \notin 1..Len(best)
    BY <1>2, <1>3, <1>8, <2>1 DEF Elements
  <2>4. j \in 1..Len(r) /\ j < i /\ r[j] = t
    BY <1>2, <1>3, <2>2, <2>3
  <2> QED BY <1>1, <2>1, <2>4
<1>9. ASSUME NEW s \in DOMAIN c \ Elements(best) PROVE Len(best) = n
  <2>1. PICK i \in 1..Len(r) : r[i] = s
    BY <1>1, <1>9
  <2>2. i \notin 1..Len(best)
    BY <1>2, <1>3, <1>9, <2>1 DEF Elements
  <2> QED BY <1>2, <1>3, <2>2
<1> QED BY <1>2, <1>4, <1>5, <1>6, <1>7, <1>8, <1>9 DEF best, r, HeadOf

LEMMA KeysBreakTies ==
    ASSUME NEW c, Scored(c)
    PROVE  BreaksTies(KeyOrder, DOMAIN c)
  BY ConstantsAssumption DEF Scored, BreaksTies

(* A filter keeps the members of S and their order.                        *)
LEMMA KeptFacts ==
    ASSUME NEW T, NEW s \in Seq(T), NEW S
    PROVE  /\ Kept(s, S) \in Seq(T) /\ Elements(Kept(s, S)) = Elements(s) \cap S
           /\ \A i, j \in 1..Len(Kept(s, S)) : i < j =>
                 \E k, l \in 1..Len(s) : k < l /\ Kept(s, S)[i] = s[k] /\ Kept(s, S)[j] = s[l]
<1> DEFINE places == {i \in DOMAIN s : s[i] \in S}
           R == {p \in places \X places : p[1] < p[2]}
           order == InOrder(places, R)
           n == Cardinality(places)
<1>1. Len(s) \in Nat /\ DOMAIN s = 1..Len(s) /\ \A i \in 1..Len(s) : s[i] \in T
  BY LenProperties, ElementOfSeq
<1>2. places \in SUBSET (1..Len(s)) /\ places \subseteq Int
  BY <1>1
<1>3. IsFiniteSet(places)
  <2>1. PICK m \in Nat : m = Len(s)
    BY <1>1
  <2>2. IsFiniteSet(1..m)
    BY FS_Interval
  <2> HIDE DEF places
  <2> QED BY <1>2, <2>1, <2>2, FS_Subset
<1>4. n \in Nat
  BY <1>3, FS_CardinalityType
<1>5. StrictOrder(places, R)
  <2>1. \A a, b \in places : <<a, b>> \in R <=> a < b
    OBVIOUS
  <2> HIDE DEF places, R
  <2> QED BY <1>2, <2>1 DEF StrictOrder
<1>6. Kept(s, S) = [k \in 1..n |-> s[order[k]]]
  <2> DEFINE e(k) == CHOOSE i \in places : Cardinality({j \in places : j < i}) = k - 1
             f(k) == CHOOSE i \in places : Cardinality({j \in places : <<j, i>> \in R}) = k - 1
  <2>1. ASSUME NEW i \in places
        PROVE  {j \in places : j < i} = {j \in places : <<j, i>> \in R}
    OBVIOUS
  <2>2. \A k : e(k) = f(k)
    BY <2>1
  <2>3. Kept(s, S) = [k \in 1..n |-> s[e(k)]]
    BY DEF Kept
  <2>4. order = [k \in 1..n |-> f(k)]
    BY DEF InOrder
  <2> HIDE DEF e, f, order, n
  <2> QED BY <2>2, <2>3, <2>4
<1>7. /\ order \in [1..n -> places]
      /\ \A i \in places : \E k \in 1..n : order[k] = i
      /\ \A i, j \in 1..n : i < j => <<order[i], order[j]>> \in R
  <2> HIDE DEF places, R
  <2> QED BY <1>3, <1>5, OrderFacts
<1>8. \A i \in places : i \in 1..Len(s) /\ s[i] \in T /\ s[i] \in S
  BY <1>1
<1>9. \A a, b \in places : <<a, b>> \in R => a < b
  OBVIOUS
<1>a. \A i \in 1..Len(s) : s[i] \in S => i \in places
  BY <1>1
<1> HIDE DEF places, R, order, n
<1>10. Kept(s, S) \in [1..n -> T] /\ \A k \in 1..n : Kept(s, S)[k] = s[order[k]]
  BY <1>6, <1>7, <1>8
<1>11. Kept(s, S) \in Seq(T) /\ Len(Kept(s, S)) = n /\ DOMAIN Kept(s, S) = 1..n
  BY <1>4, <1>10
<1>12. Elements(Kept(s, S)) = Elements(s) \cap S
  <2>1. ASSUME NEW x \in Elements(Kept(s, S)) PROVE x \in Elements(s) \cap S
    <3>1. PICK k \in 1..n : x = Kept(s, S)[k]
      BY <1>11 DEF Elements
    <3>2. order[k] \in places /\ x = s[order[k]]
      BY <1>7, <1>10, <3>1
    <3> QED BY <1>1, <1>8, <3>2 DEF Elements
  <2>2. ASSUME NEW x \in Elements(s) \cap S PROVE x \in Elements(Kept(s, S))
    <3>1. PICK i \in 1..Len(s) : x = s[i]
      BY <1>1 DEF Elements
    <3>2. PICK k \in 1..n : order[k] = i
      BY <1>7, <1>a, <3>1
    <3> QED BY <1>10, <1>11, <3>1, <3>2 DEF Elements
  <2> QED BY <2>1, <2>2
<1>13. ASSUME NEW i \in 1..n, NEW j \in 1..n, i < j
       PROVE  \E k, l \in 1..Len(s) : k < l /\ Kept(s, S)[i] = s[k] /\ Kept(s, S)[j] = s[l]
  <2>1. order[i] \in places /\ order[j] \in places /\ order[i] < order[j]
    BY <1>7, <1>9, <1>13
  <2> QED BY <1>8, <1>10, <2>1
<1> QED BY <1>11, <1>12, <1>13

-----------------------------------------------------------------------------
(* Scores                                                                  *)

LEMMA Places ==
    /\ \A s \in Sources : PageOf[s] \in Pages \union {NoPage}
    /\ \A b \in Blocks :
          PageOf[b] \in Pages /\ b \notin Pages /\ b \notin Files /\ b \in Sources
    /\ \A p \in Pages : p \notin Files /\ p \notin Blocks /\ p \in Sources
    /\ NoPage \notin Pages
  BY ConstantsAssumption DEF Sources

LEMMA JoinedType ==
    ASSUME NEW texts \in SUBSET Texts
    PROVE  Joined(texts) \in Texts
<1>1. UNION {t.words : t \in texts} \in SUBSET Words
  BY DEF Texts
<1> QED BY <1>1 DEF Joined, Texts

LEMMA KeywordType ==
    ASSUME NEW title \in Texts, NEW text \in Texts
    PROVE  KeywordScore(title, text) \in Nat
<1>1. Joined({title, text}) \in Texts
  BY JoinedType
<1>2. Coverage[Joined({title, text}).words] \in 0..100
  BY <1>1, ConstantsAssumption DEF Texts
<1> DEFINE n == Coverage[Joined({title, text}).words]
                + (IF Joined({title, text}).phrase THEN 50 ELSE 0)
                + (IF title.words = Words THEN 35 ELSE 0)
<1>3. n \in Nat
  BY <1>2
<1>4. KeywordScore(title, text) = Min({100, n})
  BY DEF KeywordScore
<1> HIDE DEF n
<1>5. Min({100, n}) \in Nat
  BY <1>3 DEF Min
<1> QED BY <1>4, <1>5

(* The scores of a reading are numbers.                                    *)
LEMMA ReadingScored ==
    ASSUME NEW r \in Readings
    PROVE  Scored(Candidates(r))
<1>1. /\ \A s \in Pages \union Files : r.title[s] \in Texts
      /\ \A s \in Sources : r.body[s] \in Texts
      /\ \A s \in Pages \union Blocks : r.near[s] \in 0..100
      /\ r.written \subseteq Blocks
  BY ConstantsAssumption DEF Readings
<1>2. ASSUME NEW x \in 0..100 PROVE Near(x) \in Nat
  BY DEF Near
<1>3. ASSUME NEW x \in Nat, NEW k \in Nat, NEW b \in Nat PROVE Weighted(x, k, b) \in Nat
  BY DEF Weighted
<1>4. ASSUME NEW p \in Pages PROVE PageScore(r, p) \in Nat
  <2>1. PageBody(r, p) \in Texts
    <3>1. {r.body[b] : b \in BlocksOf(p) \cap r.written} \in SUBSET Texts
      BY <1>1, Places DEF BlocksOf
    <3> QED BY <3>1, JoinedType DEF PageBody
  <2>2. PageSimilarity(r, p) \in Nat
    <3> DEFINE C == {p} \union BlocksOf(p)
               S == {r.near[c] : c \in C}
    <3>1. C \subseteq Pages \union Blocks
      BY DEF BlocksOf
    <3>2. S \in SUBSET (0..100) /\ r.near[p] \in S
      BY <1>1, <3>1
    <3>3. S \in SUBSET Int /\ S # {}
      BY <3>2
    <3>4. IsFiniteSet(S)
      <4>1. IsFiniteSet(0..100)
        <5>1. PICK m \in Nat : m = 100
          OBVIOUS
        <5>2. IsFiniteSet(0..m)
          BY FS_Interval
        <5> QED BY <5>1, <5>2
      <4> HIDE DEF S
      <4> QED BY <3>2, <4>1, FS_Subset
    <3>5. PageSimilarity(r, p) = Near(Max(S))
      BY DEF PageSimilarity
    <3> HIDE DEF S
    <3>6. Max(S) \in 0..100
      BY <3>2, <3>3, <3>4, LargestExists
    <3> QED BY <1>2, <3>5, <3>6
  <2>3. KeywordScore(r.title[p], PageBody(r, p)) \in Nat
    BY <1>1, <2>1, KeywordType
  <2>6. PICK keyword \in Nat : keyword = KeywordScore(r.title[p], PageBody(r, p))
    BY <2>3
  <2>7. PICK similarity \in Nat : similarity = PageSimilarity(r, p)
    BY <2>2
  <2>4. Weighted(similarity, keyword, 500) \in Nat
    BY <1>3
  <2>5. PageScore(r, p) = Weighted(PageSimilarity(r, p), keyword, 500)
                          + (IF keyword > 0 /\ r.title[p].phrase THEN 2500 ELSE 0)
    BY <2>6 DEF PageScore
  <2> QED BY <2>7, <2>4, <2>5
<1>5. ASSUME NEW b \in Blocks PROVE BlockScore(r, b) \in Nat
  <2>1. KeywordScore(r.title[PageOf[b]], r.body[b]) \in Nat
    BY <1>1, Places, KeywordType
  <2>2. Near(r.near[b]) \in Nat
    BY <1>1, <1>2
  <2> QED BY <1>3, <2>1, <2>2, ZenonT(30) DEF BlockScore
<1>6. ASSUME NEW f \in Files PROVE FileScore(r, f) \in Nat
  <2>1. KeywordScore(r.title[f], r.body[f]) \in Nat
    BY <1>1, KeywordType DEF Sources
  <2> QED BY <2>1 DEF FileScore
<1> DEFINE v == [s \in Sources |-> IF s \in Pages THEN PageScore(r, s)
                                   ELSE IF s \in Files THEN FileScore(r, s)
                                   ELSE IF s \in r.written THEN BlockScore(r, s)
                                   ELSE 0]
<1>7. \A s \in Sources : v[s] \in Nat
  BY <1>1, <1>4, <1>5, <1>6
<1>8. Candidates(r) = [s \in {t \in Sources : v[t] > 0} |-> v[s]]
  BY DEF Candidates
<1> HIDE DEF v
<1>9. DOMAIN Candidates(r) \in SUBSET Sources
  BY <1>8
<1>10. IsFiniteSet(DOMAIN Candidates(r))
  BY <1>9, FS_Subset, ConstantsAssumption
<1> QED BY <1>7, <1>8, <1>9, <1>10 DEF Scored

(* What the compaction does: a page gives way to its blocks and hands its  *)
(* score on to them.                                                       *)
Covered(c) == {PageOf[b] : b \in (DOMAIN c) \cap Blocks}

LEMMA CompactedFacts ==
    ASSUME NEW c, Scored(c)
    PROVE  /\ Scored(Compacted(c)) /\ DOMAIN Compacted(c) = DOMAIN c \ Covered(c)
           /\ Covered(c) \subseteq Pages
           /\ \A b \in (DOMAIN c) \cap Blocks : b \in DOMAIN Compacted(c)
           /\ \A s \in DOMAIN Compacted(c) : Compacted(c)[s] >= c[s]
           /\ \A b \in (DOMAIN c) \cap Blocks :
                 PageOf[b] \in DOMAIN c => Compacted(c)[b] >= c[PageOf[b]]
<1> DEFINE v(s) == IF s \in Blocks /\ PageOf[s] \in DOMAIN c
                   THEN Max({c[s], c[PageOf[s]]}) ELSE c[s]
<1>1. Covered(c) \subseteq Pages
  BY Places DEF Covered
<1>2. Compacted(c) = [s \in DOMAIN c \ Covered(c) |-> v(s)]
  BY DEF Compacted, Covered
<1>3. ASSUME NEW s \in DOMAIN c
      PROVE  /\ v(s) \in Nat /\ v(s) >= c[s]
             /\ s \in Blocks /\ PageOf[s] \in DOMAIN c => v(s) >= c[PageOf[s]]
  <2>1. CASE s \in Blocks /\ PageOf[s] \in DOMAIN c
    <3>1. c[s] \in Nat /\ c[PageOf[s]] \in Nat
      BY <2>1 DEF Scored
    <3>2. Max({c[s], c[PageOf[s]]}) = IF c[s] >= c[PageOf[s]] THEN c[s] ELSE c[PageOf[s]]
      BY <3>1, MaxOfTwo
    <3> QED BY <2>1, <3>1, <3>2
  <2>2. CASE ~(s \in Blocks /\ PageOf[s] \in DOMAIN c)
    BY <2>2 DEF Scored
  <2> QED BY <2>1, <2>2
<1> HIDE DEF v
<1>4. DOMAIN Compacted(c) = DOMAIN c \ Covered(c)
  BY <1>2
<1>5. Scored(Compacted(c))
  <2>1. IsFiniteSet(DOMAIN c \ Covered(c))
    BY FS_Difference DEF Scored
  <2> QED BY <1>2, <1>3, <1>4, <2>1 DEF Scored
<1>6. \A b \in (DOMAIN c) \cap Blocks : b \in DOMAIN Compacted(c)
  BY <1>1, <1>4, Places
<1> QED BY <1>1, <1>2, <1>3, <1>4, <1>5, <1>6

-----------------------------------------------------------------------------
(* Searches                                                                *)

SearchInv ==
    /\ limit \in Nat
    /\ step \in {"idle", "search"} => candidates = Nothing /\ context = Nothing
    /\ NothingBetterIsLeftOut

LEMMA NothingFacts ==
    /\ Elements(Nothing) = {} /\ DOMAIN Nothing = {} /\ Len(Nothing) = 0
    /\ Cardinality(Elements(Nothing)) = 0
<1>1. DOMAIN Nothing = {} /\ Len(Nothing) = 0
  BY DEF Nothing
<1>2. Elements(Nothing) = {}
  BY <1>1 DEF Elements
<1> QED BY <1>1, <1>2, FS_EmptySet

LEMMA NothingLeftOut ==
    ASSUME limit' \in Nat, candidates' = Nothing, context' = Nothing
    PROVE  NothingBetterIsLeftOut'
  BY NothingFacts DEF NothingBetterIsLeftOut

LEMMA SearchIsFair ==
    ASSUME SearchInv, Search
    PROVE  NothingBetterIsLeftOut'
<1>1. PICK r \in Readings : candidates' = Candidates(r)
  BY DEF Search
<1>2. PICK c : c = candidates' /\ Scored(c)
  BY <1>1, ReadingScored
<1>3. PICK k : k = Compacted(c) /\ score' = k
  BY <1>2 DEF Search
<1>4. PICK best : best = Best(Ranked(k, KeyOrder), limit) /\ context' = best
  BY <1>3 DEF Search
<1>5. limit' = limit /\ limit \in Nat
  BY DEF Search, SearchInv
<1>6. /\ Scored(k) /\ DOMAIN k = DOMAIN c \ Covered(c) /\ Covered(c) \subseteq Pages
      /\ \A b \in (DOMAIN c) \cap Blocks : b \in DOMAIN k
      /\ \A s \in DOMAIN k : k[s] >= c[s]
      /\ \A b \in (DOMAIN c) \cap Blocks : PageOf[b] \in DOMAIN c => k[b] >= c[PageOf[b]]
  BY <1>2, <1>3, CompactedFacts
<1>7. /\ Elements(best) \subseteq DOMAIN k
      /\ Len(best) <= limit /\ Cardinality(Elements(best)) = Len(best)
      /\ \A s \in DOMAIN k \ Elements(best) :
            Len(best) = limit /\ \A t \in Elements(best) : k[t] >= k[s]
  <2>1. Scored(k) /\ BreaksTies(KeyOrder, DOMAIN k)
    BY <1>6, KeysBreakTies
  <2>2. HeadOf(k, best, limit)
    BY <1>4, <1>5, <2>1, BestRanked
  <2> QED BY <2>2 DEF HeadOf
<1>8. \A s \in DOMAIN c : c[s] \in Nat
  BY <1>2 DEF Scored
<1>9. \A s \in DOMAIN k : k[s] \in Nat
  BY <1>6 DEF Scored
<1>10. ASSUME NEW s \in DOMAIN c \ Elements(best)
       PROVE  \/ s \in Pages /\ \E b \in Elements(best) \cap Blocks :
                                    PageOf[b] = s /\ k[b] >= c[s]
              \/ /\ Len(best) = limit
                 /\ \A t \in Elements(best) : k[t] >= c[s]
  <2>1. CASE s \in DOMAIN k
    BY <1>6, <1>7, <1>8, <1>9, <2>1
  <2>2. CASE s \in Covered(c)
    <3>1. PICK b \in (DOMAIN c) \cap Blocks : PageOf[b] = s
      BY <2>2 DEF Covered
    <3>2. s \in Pages /\ b \in DOMAIN k /\ k[b] >= c[s]
      BY <1>6, <2>2, <3>1
    <3>3. CASE b \in Elements(best)
      BY <3>1, <3>2, <3>3
    <3>4. CASE b \notin Elements(best)
      BY <1>7, <1>8, <1>9, <3>2, <3>4
    <3> QED BY <3>3, <3>4
  <2> QED BY <1>6, <2>1, <2>2
<1>11. ASSUME NEW s \in Elements(best), NEW t \in Elements(best),
              s # t, PageOf[s] = PageOf[t], s \in Pages
       PROVE  t \in Files
  <2>1. /\ s \in DOMAIN c /\ t \in DOMAIN c /\ s \notin Covered(c) /\ t \in Sources
        /\ PageOf[s] = s
    BY <1>2, <1>6, <1>7, <1>11, ConstantsAssumption DEF Scored
  <2>2. t \notin Pages
    BY <1>11, <2>1, ConstantsAssumption
  <2>3. t \notin Blocks
    BY <1>11, <2>1 DEF Covered
  <2> QED BY <2>1, <2>2, <2>3 DEF Sources
<1> QED BY <1>2, <1>3, <1>4, <1>5, <1>7, <1>10, <1>11 DEF NothingBetterIsLeftOut

LEMMA SearchStep == SearchInv /\ [Next]_vars => SearchInv'
<1> SUFFICES ASSUME SearchInv, [Next]_vars PROVE SearchInv'
  OBVIOUS
<1> Limits \subseteq Nat
  BY ConstantsAssumption
<1>1. CASE Search
  <2>1. step' = "searched" /\ limit' \in Nat
    BY <1>1 DEF Search, SearchInv
  <2> QED BY <1>1, <2>1, SearchIsFair DEF SearchInv
<1>2. CASE StartSearch \/ SkipSearch
  <2>1. /\ limit' \in Nat /\ candidates' = Nothing /\ context' = Nothing
    BY <1>2 DEF StartSearch, SkipSearch, SearchInv, search
  <2> QED BY <2>1, NothingLeftOut DEF SearchInv
<1>3. CASE ShowSources \/ ReadTool \/ ProposeChange \/ Decided \/ Reconnected \/ Respond
  <2>1. /\ UNCHANGED <<limit, candidates, score, context>>
        /\ step \in {"search", "searched", "create", "ask", "proposed", "answered"}
        /\ step' \in {"ask", "proposed", "answered"}
    BY <1>3 DEF ShowSources, ReadTool, ProposeChange, Decided, Reconnected, Resumes, Respond,
                search
  <2>2. CASE step = "search"
    BY <2>1, <2>2, NothingLeftOut DEF SearchInv
  <2>3. CASE step # "search"
    BY <2>1, <2>3 DEF SearchInv, NothingBetterIsLeftOut
  <2> QED BY <2>2, <2>3
<1>4. CASE FinishAnswer \/ StartRelated \/ SearchPassage \/ ListRelated
  <2>1. limit' \in Nat
    BY <1>4 DEF FinishAnswer, StartRelated, SearchPassage, ListRelated, SearchInv
  <2>2. step' \in {"done", "listed", "passages"}
    BY <1>4 DEF FinishAnswer, StartRelated, SearchPassage, ListRelated
  <2> QED BY <2>1, <2>2 DEF SearchInv, NothingBetterIsLeftOut
<1>5. CASE UNCHANGED vars
  BY <1>5 DEF vars, search, SearchInv, NothingBetterIsLeftOut
<1> QED BY <1>1, <1>2, <1>3, <1>4, <1>5 DEF Next

LEMMA SearchStart == Init => SearchInv
  BY DEF Init, SearchInv, NothingBetterIsLeftOut

(* Whatever a search reads, its order, compaction and cut leave out only   *)
(* what is worse than everything returned, or a page its block stands for. *)
THEOREM NothingBetterIsMissed == Spec => []NothingBetterIsLeftOut
<1>1. SearchInv => NothingBetterIsLeftOut
  BY DEF SearchInv
<1> QED BY <1>1, SearchStart, SearchStep, PTL DEF Spec

-----------------------------------------------------------------------------
(* Answers                                                                 *)

LEMMA SelectedFacts ==
    ASSUME NEW s \in Seq(Sources), NEW match
    PROVE  /\ Selected(s, match) \in Seq(Sources)
           /\ Elements(Selected(s, match)) \subseteq Elements(s)
           /\ s = Nothing => Selected(s, match) = Nothing
<1> DEFINE scores == {match[s[i]] : i \in DOMAIN s}
           near == {t \in Sources : match[t] >= 15 /\ 2 * match[t] >= Max(scores)}
           blank == \A x \in scores : x = 0
<1>1. Selected(s, match) = IF blank THEN s ELSE Kept(s, near)
  BY DEF Selected
<1>2. s = Nothing => blank
  BY NothingFacts
<1> HIDE DEF near, blank
<1>3. Kept(s, near) \in Seq(Sources) /\ Elements(Kept(s, near)) \subseteq Elements(s)
  BY KeptFacts
<1> QED BY <1>1, <1>2, <1>3

(* Until the answer is there the sources shown are those of the start.     *)
(* Nothing was shown before, so that the first segment requires evidence   *)
(* exactly as long as there is none.                                       *)
Unasked ==
    /\ first = Nothing /\ shown = Nothing
    /\ ~resumed /\ ~evidence

Asked ==
    /\ shown = first /\ Elements(first) \subseteq Elements(context)
    /\ ~resumed => first = Selected(context, lexical)
    /\ required => first = Nothing /\ ~evidence
    /\ ~required => resumed \/ evidence \/ first # Nothing

Answered ==
    /\ refused => first = Nothing /\ ~evidence
    /\ ~refused => resumed \/ evidence \/ first # Nothing

AnswerInv ==
    /\ context \in Seq(Sources)
    /\ step \in {"idle", "search", "searched", "create"} => Unasked
    /\ step \in {"ask", "proposed", "answered"} => Asked
    /\ step = "answered" => Answered
    /\ AnswersAreGrounded

LEMMA ContextType ==
    ASSUME SearchInv, Search
    PROVE  context' \in Seq(Sources)
<1>1. PICK r \in Readings : candidates' = Candidates(r)
  BY DEF Search
<1>2. PICK k : /\ k = Compacted(candidates') /\ Scored(k)
               /\ context' = Best(Ranked(k, KeyOrder), limit)
  BY <1>1, ReadingScored, CompactedFacts DEF Search
<1>3. context' \in Seq(DOMAIN k) /\ DOMAIN k \subseteq Sources
  BY <1>2, KeysBreakTies, BestRanked DEF SearchInv, Scored, HeadOf
<1> QED BY <1>3

LEMMA ShownFirst ==
    ASSUME AnswerInv, ShowSources
    PROVE  Asked'
<1>1. /\ first' = Selected(context, lexical) /\ shown' = first'
      /\ required' = (first' = Nothing)
      /\ UNCHANGED <<context, lexical, resumed, evidence>>
  BY DEF ShowSources, search
<1>2. ~evidence /\ context \in Seq(Sources)
  BY DEF ShowSources, AnswerInv, Unasked
<1>3. Elements(first') \subseteq Elements(context')
  BY <1>1, <1>2, SelectedFacts
<1> QED BY <1>1, <1>2, <1>3 DEF Asked

LEMMA StaysAsked ==
    ASSUME AnswerInv, \/ ReadTool \/ ProposeChange \/ Decided \/ Reconnected
    PROVE  Asked'
<1>1. UNCHANGED <<context, lexical, first, shown>>
  BY DEF ReadTool, ProposeChange, Decided, Reconnected, Resumes, agent, search
<1>2. CASE ReadTool
  <2>1. Asked /\ UNCHANGED resumed
    BY <1>2 DEF ReadTool, AnswerInv
  <2>2. PICK something \in BOOLEAN : /\ required' = (required /\ ~something)
                                     /\ evidence' = (evidence \/ something)
    BY <1>2 DEF ReadTool
  <2>3. CASE something
    BY <1>1, <2>1, <2>2, <2>3 DEF Asked
  <2>4. CASE ~something
    BY <1>1, <2>1, <2>2, <2>4 DEF Asked
  <2> QED BY <2>3, <2>4
<1>3. CASE ProposeChange
  <2>1. Asked /\ UNCHANGED <<resumed, required, evidence>>
    BY <1>3 DEF ProposeChange, AnswerInv, agent
  <2> QED BY <1>1, <2>1 DEF Asked
<1>4. CASE Decided \/ Reconnected
  <2>1. required' = FALSE /\ resumed' = TRUE
    BY <1>4 DEF Decided, Reconnected, Resumes
  <2>2. shown = first /\ Elements(first) \subseteq Elements(context)
    <3>1. CASE Asked
      BY <3>1 DEF Asked
    <3>2. CASE Unasked
      BY <3>2, NothingFacts DEF Unasked
    <3> QED BY <1>4, <3>1, <3>2 DEF Decided, Reconnected, AnswerInv
  <2> QED BY <1>1, <2>1, <2>2 DEF Asked
<1> QED BY <1>2, <1>3, <1>4

LEMMA FinishedGrounded ==
    ASSUME AnswerInv, FinishAnswer
    PROVE  AnswersAreGrounded'
<1>1. /\ step = "answered" /\ UNCHANGED <<context, first, resumed, evidence, refused>>
      /\ Asked /\ Answered /\ context \in Seq(Sources)
  BY DEF FinishAnswer, AnswerInv
<1>2. CASE resumed
  <2>1. shown' = first
    BY <1>1, <1>2 DEF FinishAnswer, Asked
  <2> QED BY <1>1, <1>2, <2>1 DEF AnswersAreGrounded, Answered
<1>3. CASE ~resumed
  <2>1. shown' = context \/ shown' = first
    BY <1>1, <1>3 DEF FinishAnswer, KeepScores, Rescore, Asked
  <2>2. Elements(first) \subseteq Elements(shown')
    BY <1>1, <2>1 DEF Asked
  <2>3. context = Nothing => first = Nothing
    BY <1>1, <1>3, SelectedFacts DEF Asked
  <2>4. refused \/ evidence \/ shown' # Nothing
    BY <1>1, <1>3, <2>1, <2>3 DEF Answered
  <2> QED BY <1>1, <2>1, <2>2, <2>4 DEF AnswersAreGrounded, Answered
<1> QED BY <1>2, <1>3

LEMMA AnswerStep == AnswerInv /\ SearchInv /\ [Next]_vars => AnswerInv'
<1> SUFFICES ASSUME AnswerInv, SearchInv, [Next]_vars PROVE AnswerInv'
  OBVIOUS
<1>1. CASE Search
  <2>1. step = "search" /\ step' = "searched" /\ UNCHANGED agent
    BY <1>1 DEF Search
  <2> QED BY <1>1, <2>1, ContextType DEF AnswerInv, AnswersAreGrounded, Unasked, agent
<1>2. CASE StartSearch \/ SkipSearch
  <2>1. /\ step = "idle" /\ step' \in {"search", "searched", "create"}
        /\ UNCHANGED <<context, first, shown, resumed, evidence>>
    BY <1>2 DEF StartSearch, SkipSearch, search, agent
  <2> QED BY <2>1 DEF AnswerInv, AnswersAreGrounded, Unasked
<1>3. CASE StartRelated \/ SearchPassage \/ ListRelated
  <2>1. step' \in {"passages", "listed"} /\ context' = context
    BY <1>3 DEF StartRelated, SearchPassage, ListRelated, search
  <2> QED BY <2>1 DEF AnswerInv, AnswersAreGrounded
<1>4. CASE ShowSources \/ ReadTool \/ ProposeChange \/ Decided \/ Reconnected
  <2>1. step' \in {"ask", "proposed"} /\ context' = context
    BY <1>4 DEF ShowSources, ReadTool, ProposeChange, Decided, Reconnected, Resumes, search
  <2>2. Asked'
    BY <1>4, ShownFirst, StaysAsked
  <2> QED BY <2>1, <2>2 DEF AnswerInv, AnswersAreGrounded
<1>5. CASE Respond
  <2>1. /\ Asked /\ step' = "answered" /\ refused' = required
        /\ UNCHANGED <<context, lexical, first, shown, required, resumed, evidence>>
    BY <1>5 DEF Respond, search, AnswerInv
  <2>2. Asked'
    BY <2>1 DEF Asked
  <2>3. Answered'
    BY <2>1, Zenon DEF Asked, Answered
  <2> QED BY <2>1, <2>2, <2>3 DEF AnswerInv, AnswersAreGrounded
<1>6. CASE FinishAnswer
  <2>1. step' = "done" /\ context' = context
    BY <1>6 DEF FinishAnswer
  <2> QED BY <1>6, <2>1, FinishedGrounded DEF AnswerInv
<1>7. CASE UNCHANGED vars
  BY <1>7 DEF vars, search, agent, AnswerInv, AnswersAreGrounded, Unasked, Asked, Answered
<1> QED BY <1>1, <1>2, <1>3, <1>4, <1>5, <1>6, <1>7 DEF Next

LEMMA AnswerStart == Init => AnswerInv
<1> SUFFICES ASSUME Init PROVE AnswerInv
  OBVIOUS
<1>1. context \in Seq(Sources)
  BY DEF Init, Nothing
<1> QED BY <1>1 DEF Init, AnswerInv, AnswersAreGrounded, Unasked

(* A question is not answered without a source or the result of a tool     *)
(* unless a decision or a reconnect came in between, it is refused only    *)
(* without both, and no source shown at first goes away, whatever is       *)
(* searched, read and rescored.                                            *)
THEOREM AnswersAreNotBare == Spec => []AnswersAreGrounded
<1>1. AnswerInv => AnswersAreGrounded
  BY DEF AnswerInv
<1> QED BY <1>1, SearchStart, SearchStep, AnswerStart, AnswerStep, PTL DEF Spec

-----------------------------------------------------------------------------
(* Related pages                                                           *)

Findings == Sources \X Nat
Summaries == [score : Nat, strongest : Sources \union {NoPage},
              blockScore : Nat, block : Blocks \union {NoPage}]

(* What counts for a page: its sources that reach the least score.         *)
Hit(g, p) == PageOf[g[1]] = p /\ g[2] >= 2500

(* A summary of the findings F about page p: its strongest source, and its *)
(* strongest block.                                                        *)
Summary(known, F, p) ==
    /\ known \in Summaries
    /\ \A g \in F : Hit(g, p) =>
          /\ g[2] <= known.score
          /\ g[1] \in Blocks => g[2] <= known.blockScore
    /\ known.score > 0 => <<known.strongest, known.score>> \in F
                           /\ Hit(<<known.strongest, known.score>>, p)
    /\ known.blockScore > 0 => /\ <<known.block, known.blockScore>> \in F
                               /\ Hit(<<known.block, known.blockScore>>, p)
                               /\ known.block \in Blocks
    /\ known.blockScore = 0 => known.block = NoPage

(* One more source keeps it a summary.                                     *)
LEMMA ImprovedSummary ==
    ASSUME NEW known, NEW F \in SUBSET Findings, NEW p, Summary(known, F, p),
           NEW c, NEW s \in Sources, c[s] \in Nat, PageOf[s] = p, c[s] >= 2500
    PROVE  Summary(Improved(known, c, s), F \union {<<s, c[s]>>}, p)
<1> DEFINE new == Improved(known, c, s)
           stronger == c[s] > known.score
           block == s \in Blocks /\ c[s] > known.blockScore
<1>1. /\ known.score \in Nat /\ known.strongest \in Sources \union {NoPage}
      /\ known.blockScore \in Nat /\ known.block \in Blocks \union {NoPage}
  BY DEF Summary, Summaries
<1>2. new = [score |-> IF stronger THEN c[s] ELSE known.score,
             strongest |-> IF stronger THEN s ELSE known.strongest,
             blockScore |-> IF block THEN c[s] ELSE known.blockScore,
             block |-> IF block THEN s ELSE known.block]
  BY DEF Improved
<1> HIDE DEF new
<1>3. new \in Summaries
  BY <1>1, <1>2 DEF Summaries
<1>4. Hit(<<s, c[s]>>, p)
  BY DEF Hit
<1>5. ASSUME NEW g \in F \union {<<s, c[s]>>}, Hit(g, p)
      PROVE  g[2] <= new.score /\ (g[1] \in Blocks => g[2] <= new.blockScore)
  <2>1. CASE g = <<s, c[s]>>
    BY <1>1, <1>2, <2>1
  <2>2. CASE g \in F
    <3>1. g[2] \in Nat /\ g[2] <= known.score /\ (g[1] \in Blocks => g[2] <= known.blockScore)
      BY <1>5, <2>2 DEF Summary, Findings
    <3> QED BY <1>1, <1>2, <3>1
  <2> QED BY <2>1, <2>2
<1>6. new.score > 0 => /\ <<new.strongest, new.score>> \in F \union {<<s, c[s]>>}
                       /\ Hit(<<new.strongest, new.score>>, p)
  BY <1>2, <1>4 DEF Summary
<1>7. new.blockScore > 0 => /\ <<new.block, new.blockScore>> \in F \union {<<s, c[s]>>}
                            /\ Hit(<<new.block, new.blockScore>>, p)
                            /\ new.block \in Blocks
  BY <1>2, <1>4 DEF Summary
<1>8. new.blockScore = 0 => new.block = NoPage
  BY <1>2 DEF Summary
<1> QED BY <1>3, <1>5, <1>6, <1>7, <1>8 DEF Summary, new

(* A source of another page, or a weak one, changes nothing.               *)
LEMMA SameSummary ==
    ASSUME NEW known, NEW F, NEW p, Summary(known, F, p), NEW g, ~Hit(g, p)
    PROVE  Summary(known, F \union {g}, p)
  BY DEF Summary

Summarised(infos, F) == \A p \in Pages : Summary(infos[p], F, p)

(* The findings of one passage.                                            *)
FoundBy(c, sources) == {<<sources[i], c[sources[i]]>> : i \in DOMAIN sources}

(* The loop over the sources of one passage, which starts from what the    *)
(* passages before it have found.                                          *)
LEMMA GatheredFacts ==
    ASSUME NEW F \in SUBSET Findings, byPage \in [Pages -> Summaries], Summarised(byPage, F),
           NEW c, Scored(c), NEW sources \in Seq(DOMAIN c)
    PROVE  /\ Gathered(c, sources) \in [Pages -> Summaries]
           /\ Summarised(Gathered(c, sources), F \union FoundBy(c, sources))
<1> DEFINE T == [Pages -> Summaries]
           Skips(s) == PageOf[s] = NoPage \/ c[s] < 2500
           One(v, s) == IF Skips(s) THEN v ELSE [v EXCEPT ![PageOf[s]] = Improved(@, c, s)]
           Upto(i) == F \union {<<sources[j], c[sources[j]]>> : j \in 1..i}
<1>1. PICK n \in Nat : n = Len(sources) /\ DOMAIN sources = 1..n
  BY LenProperties
<1>2. ASSUME NEW i \in 1..n
      PROVE  /\ sources[i] \in DOMAIN c /\ sources[i] \in Sources
             /\ c[sources[i]] \in Nat /\ PageOf[sources[i]] \in Pages \union {NoPage}
  <2>1. sources[i] \in DOMAIN c
    BY <1>1, ElementOfSeq
  <2> QED BY <2>1, Places DEF Scored
<1>3. ASSUME NEW v \in T, NEW i \in 1..n PROVE One(v, sources[i]) \in T
  <2> DEFINE s == sources[i]
  <2>1. s \in Sources /\ c[s] \in Nat
    BY <1>2
  <2> HIDE DEF s
  <2>2. CASE Skips(s)
    BY <2>2 DEF s
  <2>3. CASE ~Skips(s)
    <3>1. PageOf[s] \in Pages
      BY <1>2, <2>3 DEF s
    <3>2. v[PageOf[s]] \in Summaries
      BY <3>1
    <3>3. Improved(v[PageOf[s]], c, s) \in Summaries
      BY <2>1, <3>2 DEF Improved, Summaries
    <3> QED BY <2>3, <3>1, <3>3 DEF s
  <2> QED BY <2>2, <2>3
<1>4. PICK f \in [0..n -> T] :
          f[0] = byPage /\ \A i \in 1..n : f[i] = One(f[i - 1], sources[i])
  <2> DEFINE next == [i \in 1..n |-> [v \in T |-> One(v, sources[i])]]
  <2>1. \A i \in 1..n : \A v \in T : next[i][v] = One(v, sources[i])
    <3> HIDE DEF One, T
    <3> QED OBVIOUS
  <2>2. KeepType(next, n, T)
    <3> HIDE DEF next, One, T
    <3> QED BY <1>3, <2>1 DEF KeepType
  <2> HIDE DEF next, T, One
  <2>3. PICK f \in [0..n -> T] : f[0] = byPage /\ \A i \in 1..n : f[i] = next[i][f[i - 1]]
    <3>1. PICK base \in T : base = byPage
      BY DEF T
    <3>2. Computed(base, next, n, T)
      BY <2>2, StepsExist
    <3> QED BY <3>1, <3>2 DEF Computed
  <2>4. ASSUME NEW i \in 1..n PROVE f[i] = One(f[i - 1], sources[i])
    <3>1. i - 1 \in 0..n
      OBVIOUS
    <3>2. f[i - 1] \in T
      BY <3>1
    <3> QED BY <2>1, <2>3, <3>2
  <2> QED BY <2>3, <2>4
<1>5. PICK g : g = [i \in 0..n |-> IF i = 0 THEN byPage ELSE One(g[i - 1], sources[i])]
               /\ Gathered(c, sources) = g[n]
  <2> DEFINE Rule(g) ==
               g = [i \in 0..n |-> IF i = 0 THEN byPage ELSE One(g[i - 1], sources[i])]
  <2>1. Rule(f)
    <3>1. ASSUME NEW i \in 0..n
          PROVE  f[i] = IF i = 0 THEN byPage ELSE One(f[i - 1], sources[i])
      <4>1. i = 0 \/ i \in 1..n
        OBVIOUS
      <4> HIDE DEF One
      <4> QED BY <1>4, <4>1
    <3> HIDE DEF One
    <3> QED BY <1>4, <3>1
  <2>2. Gathered(c, sources) = (CHOOSE g : Rule(g))[n]
    BY <1>1 DEF Gathered
  <2>3. Rule(CHOOSE g : Rule(g))
    <3> HIDE DEF Rule
    <3> QED BY <2>1
  <2>4. \E g : Rule(g) /\ Gathered(c, sources) = g[n]
    <3> HIDE DEF Rule
    <3> QED BY <2>2, <2>3
  <2> QED BY <2>4, Zenon
<1>6. g[0] = byPage /\ \A i \in 1..n : g[i] = One(g[i - 1], sources[i])
  <2> HIDE DEF One
  <2>1. g[0] = byPage
    BY <1>5
  <2>2. ASSUME NEW i \in 1..n PROVE g[i] = One(g[i - 1], sources[i])
    BY <1>5
  <2> QED BY <2>1, <2>2
<1> DEFINE Good == {i \in 0..n : g[i] \in T /\ Summarised(g[i], Upto(i))}
<1>7. 0 \in Good
  <2>1. Upto(0) = F
    OBVIOUS
  <2>2. g[0] \in T /\ Summarised(g[0], Upto(0))
    <3> HIDE DEF Upto
    <3> QED BY <1>6, <2>1
  <2> HIDE DEF Upto, T
  <2> QED BY <2>2
<1>8. ASSUME NEW i \in 1..n, i - 1 \in Good PROVE i \in Good
  <2> DEFINE s == sources[i]
             v == g[i - 1]
  <2>1. /\ s \in Sources /\ c[s] \in Nat /\ PageOf[s] \in Pages \union {NoPage}
    BY <1>2
  <2>2. v \in T /\ Summarised(v, Upto(i - 1))
    BY <1>8
  <2>3. Upto(i) = Upto(i - 1) \union {<<s, c[s]>>}
    <3>1. 1..i = (1..(i - 1)) \union {i}
      OBVIOUS
    <3> QED BY <3>1
  <2>4. Upto(i - 1) \in SUBSET Findings
    BY <1>2 DEF Findings
  <2>5. g[i] = One(v, s) /\ g[i] \in T
    <3> HIDE DEF One
    <3>1. g[i] = One(v, s)
      BY <1>6
    <3> HIDE DEF T, v
    <3> QED BY <1>3, <2>2, <3>1
  <2> HIDE DEF s, v, Upto, T
  <2>6. ASSUME NEW p \in Pages PROVE Summary(g[i][p], Upto(i), p)
    <3>1. Summary(v[p], Upto(i - 1), p)
      BY <2>2 DEF Summarised
    <3>2. CASE ~Skips(s) /\ PageOf[s] = p
      <4>1. g[i][p] = Improved(v[p], c, s)
        BY <2>2, <2>5, <3>2 DEF T
      <4>2. c[s] >= 2500
        BY <2>1, <3>2
      <4> QED BY <2>1, <2>3, <2>4, <3>1, <3>2, <4>1, <4>2, ImprovedSummary
    <3>3. CASE Skips(s) \/ PageOf[s] # p
      <4>1. g[i][p] = v[p]
        BY <2>2, <2>5, <3>3 DEF T
      <4>2. ~Hit(<<s, c[s]>>, p)
        BY <2>1, <3>3, Places DEF Hit
      <4> QED BY <2>3, <3>1, <4>1, <4>2, SameSummary, SMTT(30)
    <3> QED BY <3>2, <3>3
  <2>7. Summarised(g[i], Upto(i))
    BY <2>6 DEF Summarised
  <2> QED BY <2>5, <2>7
<1>9. n \in Good
  <2> HIDE DEF Good
  <2>1. \A i \in 0..n : i \in Good
    BY <1>7, <1>8, Upwards
  <2> QED BY <2>1
<1>10. Upto(n) = F \union FoundBy(c, sources)
  BY <1>1 DEF FoundBy
<1>11. g[n] \in T /\ Summarised(g[n], Upto(n))
  <2> HIDE DEF Upto, T
  <2> QED BY <1>9
<1> HIDE DEF Upto
<1> QED BY <1>5, <1>10, <1>11

(* What Strength looks for among all findings is what the summary holds.   *)
LEMMA StrengthFacts ==
    ASSUME NEW F \in SUBSET Findings, NEW p \in Pages, NEW known, Summary(known, F, p)
    PROVE  Strength(F, p, Sources) = known.score /\ Strength(F, p, Blocks) = known.blockScore
<1>1. known.score \in Nat /\ known.blockScore \in Nat
  BY DEF Summary, Summaries
<1>2. ASSUME NEW g \in F PROVE g[1] \in Sources /\ g[2] \in Nat
  BY DEF Findings
<1>3. ASSUME NEW S \in {Sources, Blocks}, NEW m \in Nat,
             \A g \in F : Hit(g, p) /\ g[1] \in S => g[2] <= m,
             m > 0 => \E g \in F : Hit(g, p) /\ g[1] \in S /\ g[2] = m
      PROVE  Strength(F, p, S) = m
  <2> DEFINE V == {0} \union {g[2] : g \in {h \in F : PageOf[h[1]] = p /\ h[1] \in S
                                                             /\ h[2] >= 2500}}
  <2>1. V \in SUBSET Int
    BY <1>2
  <2>2. \A x \in V : m >= x
    BY <1>3 DEF Hit
  <2>3. m \in V
    <3>1. CASE m = 0
      BY <3>1
    <3>2. CASE m > 0
      <4>1. PICK g \in F : Hit(g, p) /\ g[1] \in S /\ g[2] = m
        BY <1>3, <3>2
      <4> QED BY <4>1 DEF Hit
    <3> QED BY <3>1, <3>2
  <2>4. Strength(F, p, S) = Max(V)
    BY DEF Strength
  <2> HIDE DEF V
  <2> QED BY <2>1, <2>2, <2>3, <2>4, LargestIs
<1>4. Strength(F, p, Sources) = known.score
  <2>1. \A g \in F : Hit(g, p) /\ g[1] \in Sources => g[2] <= known.score
    BY DEF Summary
  <2>2. ASSUME known.score > 0
        PROVE  \E g \in F : Hit(g, p) /\ g[1] \in Sources /\ g[2] = known.score
    BY <1>2, <2>2 DEF Summary
  <2> QED BY <1>1, <1>3, <2>1, <2>2
<1>5. Strength(F, p, Blocks) = known.blockScore
  <2>1. \A g \in F : Hit(g, p) /\ g[1] \in Blocks => g[2] <= known.blockScore
    BY DEF Summary
  <2>2. ASSUME known.blockScore > 0
        PROVE  \E g \in F : Hit(g, p) /\ g[1] \in Blocks /\ g[2] = known.blockScore
    BY <2>2 DEF Summary
  <2> QED BY <1>1, <1>3, <2>1, <2>2
<1> QED BY <1>4, <1>5

(* While passages are searched, what is known of each page sums up all     *)
(* that was found, and nothing was found on the page asked about.          *)
PassagesInv ==
    /\ page \in Pages /\ limit \in Nat
    /\ found \in SUBSET Findings /\ \A g \in found : PageOf[g[1]] # page
    /\ byPage \in [Pages -> Summaries] /\ Summarised(byPage, found)

RelatedInv ==
    /\ step = "idle" => /\ byPage = [p \in Pages |-> Unknown]
                        /\ found = {} /\ items = Nothing /\ gone = {}
    /\ step = "passages" => PassagesInv
    /\ RelatedShowsTheBest

LEMMA NothingKnown ==
    ASSUME NEW p
    PROVE  Unknown \in Summaries /\ Summary(Unknown, {}, p)
  BY DEF Unknown, Summary, Summaries

LEMMA RelatedStarts ==
    ASSUME RelatedInv, StartRelated
    PROVE  RelatedInv'
<1>1. /\ step = "idle" /\ step' \in {"listed", "passages"}
      /\ limit' \in Nat /\ page' \in Pages
      /\ UNCHANGED <<byPage, found, gone, items>>
      /\ byPage = [p \in Pages |-> Unknown] /\ found = {} /\ items = Nothing
  BY ConstantsAssumption DEF StartRelated, RelatedInv
<1>2. byPage \in [Pages -> Summaries] /\ Summarised(byPage, found)
  BY <1>1, NothingKnown DEF Summarised
<1>3. PassagesInv'
  BY <1>1, <1>2 DEF PassagesInv, Summarised
<1>4. ASSUME NEW p \in Pages PROVE Strength(found, p, Sources) = 0
  <2>1. Summary(Unknown, found, p) /\ found \in SUBSET Findings
    BY <1>1, NothingKnown
  <2> QED BY <2>1, StrengthFacts DEF Unknown
<1>5. DOMAIN items' = {}
  BY <1>1, NothingFacts
<1>6. RelatedShowsTheBest'
  BY <1>1, <1>4, <1>5 DEF RelatedShowsTheBest
<1> QED BY <1>1, <1>3, <1>6 DEF RelatedInv

LEMMA PassageSearched ==
    ASSUME RelatedInv, SearchPassage
    PROVE  RelatedInv'
<1> PassagesInv /\ step = "passages" /\ step' = "passages" /\ UNCHANGED <<page, limit>>
  BY DEF RelatedInv, SearchPassage
<1>1. PICK outcome \in Outcomes :
          LET c == Compacted([s \in {t \in DOMAIN outcome : PageOf[t] # page} |-> outcome[s]])
              result == Best(Ranked(c, KeyOrder), Max({8 * limit, 24}))
          IN  /\ byPage' = Gathered(c, result)
              /\ found' = found \union {<<result[i], c[result[i]]>> : i \in DOMAIN result}
  BY DEF SearchPassage
<1> DEFINE others == [s \in {t \in DOMAIN outcome : PageOf[t] # page} |-> outcome[s]]
<1>2. Scored(others) /\ \A s \in DOMAIN others : PageOf[s] # page
  <2>1. /\ DOMAIN others \in SUBSET Sources
        /\ \A s \in DOMAIN others : others[s] \in Nat /\ PageOf[s] # page
    BY ConstantsAssumption
  <2> HIDE DEF others
  <2>2. IsFiniteSet(DOMAIN others)
    BY <2>1, FS_Subset, ConstantsAssumption
  <2> QED BY <2>1, <2>2 DEF Scored
<1>3. PICK c : c = Compacted(others)
  OBVIOUS
<1>4. PICK result : result = Best(Ranked(c, KeyOrder), Max({8 * limit, 24}))
  OBVIOUS
<1>5. byPage' = Gathered(c, result) /\ found' = found \union FoundBy(c, result)
  BY <1>1, <1>3, <1>4 DEF FoundBy
<1> HIDE DEF others
<1>6. Scored(c) /\ DOMAIN c \subseteq DOMAIN others
  BY <1>2, <1>3, CompactedFacts
<1>7. result \in Seq(DOMAIN c)
  <2>1. Max({8 * limit, 24}) \in Nat
    <3>1. 8 * limit \in Nat
      BY DEF PassagesInv
    <3> QED BY <3>1, MaxOfTwo
  <2> QED BY <1>4, <1>6, <2>1, KeysBreakTies, BestRanked DEF HeadOf
<1>8. /\ found \in SUBSET Findings /\ byPage \in [Pages -> Summaries]
      /\ Summarised(byPage, found)
  BY DEF PassagesInv
<1>9. byPage' \in [Pages -> Summaries] /\ Summarised(byPage', found')
  <2>1. /\ Gathered(c, result) \in [Pages -> Summaries]
        /\ Summarised(Gathered(c, result), found \union FoundBy(c, result))
    BY <1>6, <1>7, <1>8, GatheredFacts
  <2> QED BY <1>5, <2>1
<1>10. \A i \in DOMAIN result : result[i] \in DOMAIN c
  <2>1. DOMAIN result = 1..Len(result)
    BY <1>7, LenProperties
  <2> QED BY <1>7, <2>1, ElementOfSeq
<1>11. \A s \in DOMAIN c : s \in Sources /\ c[s] \in Nat /\ PageOf[s] # page
  BY <1>2, <1>6 DEF Scored
<1>12. found' \in SUBSET Findings /\ \A g \in found' : PageOf[g[1]] # page
  BY <1>5, <1>8, <1>10, <1>11 DEF PassagesInv, Findings, FoundBy
<1>13. PassagesInv'
  BY <1>9, <1>12 DEF PassagesInv, Summarised
<1> QED BY <1>13 DEF RelatedInv, RelatedShowsTheBest

(* The pages that are listed.                                              *)
LEMMA DestinationFacts ==
    ASSUME PassagesInv
    PROVE  /\ Destinations \in Seq(Pages) /\ Elements(Destinations) \subseteq Pages
           /\ IsFiniteSet(Elements(Destinations))
           /\ \A p \in Elements(Destinations) : byPage[p].score > 0
           /\ \A i, j \in 1..Len(Destinations) : i < j =>
                 /\ Destinations[i] # Destinations[j]
                 /\ byPage[Destinations[i]].score >= byPage[Destinations[j]].score
           /\ \A p \in Pages \ Elements(Destinations) :
                 \/ byPage[p].score = 0
                 \/ /\ Cardinality(Elements(Destinations)) = limit
                    /\ \A q \in Elements(Destinations) : byPage[q].score >= byPage[p].score
<1> DEFINE c == [p \in {q \in Pages : byPage[q].score > 0} |-> byPage[p].score]
           best == Best(Ranked(c, IdOrder), limit)
<1>1. \A p \in Pages : byPage[p].score \in Nat
  BY DEF PassagesInv, Summaries
<1>2. /\ DOMAIN c \in SUBSET Sources /\ DOMAIN c \subseteq Pages
      /\ \A p \in Pages : p \in DOMAIN c <=> byPage[p].score > 0
      /\ \A p \in DOMAIN c : c[p] = byPage[p].score
  BY DEF Sources
<1>3. Destinations = best
  BY DEF Destinations
<1> HIDE DEF c
<1>4. Scored(c)
  <2>1. IsFiniteSet(DOMAIN c)
    BY <1>2, FS_Subset, ConstantsAssumption
  <2> QED BY <1>1, <1>2, <2>1 DEF Scored
<1>5. /\ best \in Seq(DOMAIN c) /\ Elements(best) \subseteq DOMAIN c
      /\ Cardinality(Elements(best)) = Len(best) /\ IsFiniteSet(Elements(best))
      /\ \A i, j \in 1..Len(best) : i < j => c[best[i]] >= c[best[j]] /\ best[i] # best[j]
      /\ \A s \in DOMAIN c \ Elements(best) :
            Len(best) = limit /\ \A t \in Elements(best) : c[t] >= c[s]
  <2>1. BreaksTies(IdOrder, DOMAIN c)
    BY <1>2, ConstantsAssumption DEF BreaksTies
  <2>2. limit \in Nat
    BY DEF PassagesInv
  <2>3. HeadOf(c, best, limit)
    BY <1>4, <2>1, <2>2, BestRanked
  <2> HIDE DEF best
  <2> QED BY <2>3 DEF HeadOf
<1> HIDE DEF best
<1>6. best \in Seq(Pages) /\ \A i \in 1..Len(best) : best[i] \in DOMAIN c
  BY <1>2, <1>5, ElementOfSeq
<1>7. ASSUME NEW p \in Pages \ Elements(best)
      PROVE  \/ byPage[p].score = 0
             \/ /\ Cardinality(Elements(best)) = limit
                /\ \A q \in Elements(best) : byPage[q].score >= byPage[p].score
  <2>1. CASE p \in DOMAIN c
    BY <1>2, <1>5, <2>1
  <2>2. CASE p \notin DOMAIN c
    BY <1>1, <1>2, <2>2
  <2> QED BY <2>1, <2>2
<1>8. \A i, j \in 1..Len(best) : i < j =>
          best[i] # best[j] /\ byPage[best[i]].score >= byPage[best[j]].score
  BY <1>2, <1>5, <1>6
<1>9. Elements(best) \subseteq Pages /\ \A p \in Elements(best) : byPage[p].score > 0
  BY <1>2, <1>5
<1> QED BY <1>3, <1>5, <1>6, <1>7, <1>8, <1>9

LEMMA PagesListed ==
    ASSUME RelatedInv, ListRelated
    PROVE  RelatedInv'
<1>1. /\ PassagesInv /\ step' = "listed"
      /\ UNCHANGED <<limit, page, byPage, found>>
  BY DEF ListRelated, RelatedInv
<1>2. PICK destinations : destinations = Destinations
  OBVIOUS
<1>3. PICK chosen : /\ chosen = Kept(destinations, Pages \ gone')
                    /\ items' = [i \in DOMAIN chosen |->
                                   [page |-> chosen[i], evidence |-> Evidence(chosen[i])]]
  BY <1>2 DEF ListRelated
<1>4. /\ destinations \in Seq(Pages) /\ Elements(destinations) \subseteq Pages
      /\ IsFiniteSet(Elements(destinations))
      /\ \A p \in Elements(destinations) : byPage[p].score > 0
      /\ \A i, j \in 1..Len(destinations) : i < j =>
            /\ destinations[i] # destinations[j]
            /\ byPage[destinations[i]].score >= byPage[destinations[j]].score
      /\ \A p \in Pages \ Elements(destinations) :
            \/ byPage[p].score = 0
            \/ /\ Cardinality(Elements(destinations)) = limit
               /\ \A q \in Elements(destinations) : byPage[q].score >= byPage[p].score
  BY <1>1, <1>2, DestinationFacts
<1>5. /\ chosen \in Seq(Pages)
      /\ Elements(chosen) = Elements(destinations) \cap (Pages \ gone')
      /\ \A i, j \in 1..Len(chosen) : i < j =>
            \E k, l \in 1..Len(destinations) :
               k < l /\ chosen[i] = destinations[k] /\ chosen[j] = destinations[l]
  <2>1. PICK there : there = Pages \ gone'
    OBVIOUS
  <2>2. destinations \in Seq(Pages) /\ chosen = Kept(destinations, there)
    BY <1>3, <1>4, <2>1
  <2>3. /\ Kept(destinations, there) \in Seq(Pages)
        /\ Elements(Kept(destinations, there)) = Elements(destinations) \cap there
        /\ \A i, j \in 1..Len(Kept(destinations, there)) : i < j =>
              \E k, l \in 1..Len(destinations) :
                 /\ k < l /\ Kept(destinations, there)[i] = destinations[k]
                 /\ Kept(destinations, there)[j] = destinations[l]
    <3>1. /\ Kept(destinations, there) \in Seq(Pages)
          /\ Elements(Kept(destinations, there)) = Elements(destinations) \cap there
      BY <2>2, KeptFacts
    <3>2. \A i, j \in 1..Len(Kept(destinations, there)) : i < j =>
              \E k, l \in 1..Len(destinations) :
                 /\ k < l /\ Kept(destinations, there)[i] = destinations[k]
                 /\ Kept(destinations, there)[j] = destinations[l]
      BY <2>2, KeptFacts
    <3> QED BY <3>1, <3>2
  <2>4. \A i, j \in 1..Len(chosen) : i < j =>
            \E k, l \in 1..Len(destinations) :
               k < l /\ chosen[i] = destinations[k] /\ chosen[j] = destinations[l]
    BY <2>2, <2>3
  <2> QED BY <2>1, <2>2, <2>3, <2>4
<1>6. DOMAIN chosen = 1..Len(chosen) /\ \A i \in DOMAIN chosen : chosen[i] \in Elements(chosen)
  BY <1>5, LenProperties DEF Elements
<1>7. DOMAIN items' = DOMAIN chosen /\ \A i \in DOMAIN chosen :
          items'[i].page = chosen[i] /\ items'[i].evidence = Evidence(chosen[i])
  BY <1>3
<1>8. ASSUME NEW p \in Pages
      PROVE  /\ Strength(found, p, Sources) = byPage[p].score
             /\ Strength(found, p, Blocks) = byPage[p].blockScore
             /\ byPage[p].score \in Nat /\ byPage[p].blockScore \in Nat
  <2>1. Summary(byPage[p], found, p) /\ found \in SUBSET Findings /\ byPage[p] \in Summaries
    BY <1>1 DEF PassagesInv, Summarised
  <2> QED BY <2>1, StrengthFacts DEF Summaries
<1>9. ASSUME NEW p \in Pages \ (gone' \union {items'[i].page : i \in DOMAIN items'})
      PROVE  \/ Strength(found, p, Sources) = 0
             \/ Cardinality({q \in Pages \ {p} :
                               Strength(found, q, Sources) >= Strength(found, p, Sources)})
                    >= limit
  <2>1. p \notin Elements(chosen)
    BY <1>7, <1>9 DEF Elements
  <2>2. p \in Pages \ Elements(destinations)
    BY <1>5, <1>9, <2>1
  <2>3. CASE byPage[p].score = 0
    BY <1>8, <2>3
  <2>4. CASE byPage[p].score # 0
    <3> DEFINE Better == {q \in Pages \ {p} :
                             Strength(found, q, Sources) >= Strength(found, p, Sources)}
    <3>1. /\ Cardinality(Elements(destinations)) = limit
          /\ \A q \in Elements(destinations) : byPage[q].score >= byPage[p].score
      BY <1>4, <2>2, <2>4
    <3>2. Elements(destinations) \in SUBSET Better
      BY <1>4, <1>8, <2>2, <3>1
    <3>3. IsFiniteSet(Better)
      <4>1. Better \in SUBSET Sources
        BY DEF Sources
      <4> HIDE DEF Better
      <4> QED BY <4>1, FS_Subset, ConstantsAssumption
    <3> HIDE DEF Better
    <3>4. Cardinality(Elements(destinations)) <= Cardinality(Better)
          /\ Cardinality(Better) \in Nat
      BY <3>2, <3>3, FS_Subset, FS_CardinalityType
    <3>5. Cardinality(Better) >= limit
      BY <1>1, <3>1, <3>4 DEF PassagesInv
    <3> QED BY <3>5 DEF Better
  <2> QED BY <2>3, <2>4
<1>10. ASSUME NEW i \in DOMAIN chosen, NEW p, p = chosen[i]
       PROVE  LET kind == IF Strength(found, p, Blocks) > 0 THEN Blocks ELSE Sources
              IN /\ p # page /\ PageOf[Evidence(p)] = p /\ Evidence(p) \in kind
                 /\ <<Evidence(p), Strength(found, p, kind)>> \in found
  <2>1. p \in Pages /\ byPage[p].score > 0
    BY <1>4, <1>5, <1>6, <1>10
  <2>2. Summary(byPage[p], found, p) /\ byPage[p] \in Summaries
    BY <1>1, <2>1 DEF PassagesInv, Summarised
  <2>3. ASSUME NEW g \in found PROVE g[1] \in Sources /\ PageOf[g[1]] # page
    BY <1>1, <2>3 DEF PassagesInv, Findings
  <2>4. /\ <<byPage[p].strongest, byPage[p].score>> \in found
        /\ PageOf[byPage[p].strongest] = p
    BY <2>1, <2>2 DEF Summary, Hit
  <2>5. p # page /\ byPage[p].strongest \in Sources
    BY <2>3, <2>4
  <2>6. CASE byPage[p].blockScore > 0
    <3>1. /\ <<byPage[p].block, byPage[p].blockScore>> \in found
          /\ PageOf[byPage[p].block] = p /\ byPage[p].block \in Blocks
      BY <2>2, <2>6 DEF Summary, Hit
    <3>2. Evidence(p) = byPage[p].block
      BY <3>1, ConstantsAssumption DEF Evidence, Sources
    <3> QED BY <1>8, <2>1, <2>5, <2>6, <3>1, <3>2
  <2>7. CASE byPage[p].blockScore = 0
    <3>1. Evidence(p) = byPage[p].strongest
      BY <2>2, <2>7 DEF Summary, Evidence
    <3> QED BY <1>8, <2>1, <2>4, <2>5, <2>7, <3>1
  <2> QED BY <1>8, <2>1, <2>6, <2>7
<1>11. ASSUME NEW i \in DOMAIN items', NEW j \in DOMAIN items', i < j
       PROVE  /\ items'[i].page # items'[j].page
              /\ Strength(found, items'[i].page, Sources)
                     >= Strength(found, items'[j].page, Sources)
  <2>1. PICK k, l \in 1..Len(destinations) :
            k < l /\ chosen[i] = destinations[k] /\ chosen[j] = destinations[l]
    <3>1. i \in 1..Len(chosen) /\ j \in 1..Len(chosen)
      BY <1>6, <1>7
    <3> QED BY <1>5, <1>11, <3>1
  <2>2. chosen[i] \in Pages /\ chosen[j] \in Pages
    BY <1>5, <1>6, <1>7, <1>11
  <2> QED BY <1>4, <1>7, <1>8, <2>1, <2>2
<1>12. RelatedShowsTheBest'
  BY <1>1, <1>7, <1>9, <1>10, <1>11 DEF RelatedShowsTheBest
<1> QED BY <1>1, <1>12 DEF RelatedInv

LEMMA RelatedStep == RelatedInv /\ [Next]_vars => RelatedInv'
<1> SUFFICES ASSUME RelatedInv, [Next]_vars PROVE RelatedInv'
  OBVIOUS
<1>1. CASE \/ StartSearch \/ Search \/ SkipSearch \/ ShowSources \/ ReadTool
           \/ ProposeChange \/ Decided \/ Reconnected \/ Respond \/ FinishAnswer
  <2>1. step' \notin {"idle", "passages", "listed"}
    BY <1>1 DEF StartSearch, Search, SkipSearch, ShowSources, ReadTool, ProposeChange,
                Decided, Reconnected, Resumes, Respond, FinishAnswer
  <2> QED BY <2>1 DEF RelatedInv, RelatedShowsTheBest
<1>2. CASE UNCHANGED vars
  BY <1>2 DEF vars, related, RelatedInv, PassagesInv, RelatedShowsTheBest
<1> QED BY <1>1, <1>2, RelatedStarts, PassageSearched, PagesListed DEF Next

LEMMA RelatedStart == Init => RelatedInv
  BY DEF Init, RelatedInv, RelatedShowsTheBest

(* Whatever the passages find, in whichever order, the pages listed are    *)
(* the strongest ones found, each with its strongest block.                *)
THEOREM BestPagesAreShown == Spec => []RelatedShowsTheBest
<1>1. RelatedInv => RelatedShowsTheBest
  BY DEF RelatedInv
<1> QED BY <1>1, RelatedStart, RelatedStep, PTL DEF Spec
=============================================================================
