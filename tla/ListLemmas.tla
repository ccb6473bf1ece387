----------------------------- MODULE ListLemmas -----------------------------
(***************************************************************************)
(* What the proofs of several components use of the library's operators on *)
(* sets of numbers and on sequences.                                       *)
(***************************************************************************)
EXTENDS Integers, Sequences, SequencesExt, FiniteSets, SequenceTheorems,
        FiniteSetTheorems, WellFoundedInduction, TLAPS

\* A set of natural numbers that is not empty has a least element.
LEMMA LeastExists ==
  ASSUME NEW S \in SUBSET Nat, S # {}
  PROVE  \E x \in S : \A y \in S : x <= y
<1> DEFINE R == {p \in Nat \X Nat : p[1] < p[2]}
<1>1. IsWellFoundedOn(R, Nat)
  BY NatLessThanWellFounded DEF OpToRel
<1>2. \E x \in S : \A y \in S : ~ (<<y, x>> \in R)
  <2> HIDE DEF R
  <2> QED BY <1>1, WFMin
<1>3. \A x \in S, y \in S : <<y, x>> \in R <=> y < x
  OBVIOUS
<1>4. PICK x \in S : \A y \in S : ~ (<<y, x>> \in R)
  BY <1>2
<1>5. \A y \in S : ~ (y < x)
  BY <1>3, <1>4
<1> QED BY <1>5

\* Min is that element.
LEMMA MinIsLeast ==
  ASSUME NEW S \in SUBSET Nat, S # {}
  PROVE  Min(S) \in S /\ \A y \in S : Min(S) <= y
BY LeastExists DEF Min

\* The list without its entry at i.
LEMMA RemoveAtProperties ==
  ASSUME NEW T, NEW s \in Seq(T), NEW i \in 1 .. Len(s)
  PROVE  /\ RemoveAt(s, i) \in Seq(T)
         /\ Len(RemoveAt(s, i)) = Len(s) - 1
         /\ \A j \in 1 .. Len(s) - 1 : RemoveAt(s, i)[j] = IF j < i THEN s[j] ELSE s[j + 1]
<1> DEFINE a == SubSeq(s, 1, i - 1)
           b == SubSeq(s, i + 1, Len(s))
<1>1. /\ a \in Seq(T) /\ Len(a) = i - 1
      /\ \A j \in 1 .. i - 1 : a[j] = s[j]
  BY SubSeqProperties
<1>2. /\ b \in Seq(T) /\ Len(b) = Len(s) - i
      /\ \A j \in 1 .. Len(s) - i : b[j] = s[i + j]
  BY SubSeqProperties
<1>3. RemoveAt(s, i) = a \o b
  BY DEF RemoveAt
<1> HIDE DEF a, b
<1>4. /\ a \o b \in Seq(T) /\ Len(a \o b) = Len(a) + Len(b)
      /\ \A j \in 1 .. Len(a) + Len(b) :
           (a \o b)[j] = IF j <= Len(a) THEN a[j] ELSE b[j - Len(a)]
  BY <1>1, <1>2, ConcatProperties
<1> QED BY <1>1, <1>2, <1>3, <1>4

\* What is removed is the first entry that is e.
LEMMA RemoveFirstProperties ==
  ASSUME NEW T, NEW s \in Seq(T), NEW e, \E i \in 1 .. Len(s) : s[i] = e
  PROVE  \E i \in 1 .. Len(s) : /\ s[i] = e
                                /\ \A j \in 1 .. i - 1 : s[j] # e
                                /\ RemoveFirst(s, e) = RemoveAt(s, i)
<1> DEFINE I == {i \in 1 .. Len(s) : s[i] = e}
           m == Min(I)
<1>1. I \in SUBSET Nat /\ I # {}
  OBVIOUS
<1>2. m \in I /\ \A y \in I : m <= y
  <2> HIDE DEF I
  <2> QED BY <1>1, MinIsLeast
<1>3. RemoveFirst(s, e) = RemoveAt(s, m)
  BY <1>1 DEF RemoveFirst, SelectInSeq
<1> HIDE DEF m
<1> QED BY <1>2, <1>3

\* What is removed is the first entry for a name.
LEMMA RemoveNamedProperties ==
  ASSUME NEW T, NEW s \in Seq(T), NEW n, \E i \in 1 .. Len(s) : s[i].filename = n
  PROVE  \E i \in 1 .. Len(s) :
           /\ s[i].filename = n
           /\ \A j \in 1 .. i - 1 : s[j].filename # n
           /\ RemoveFirstMatch(s, LAMBDA f : f.filename = n) = RemoveAt(s, i)
<1> DEFINE I == {i \in 1 .. Len(s) : s[i].filename = n}
           m == Min(I)
<1>1. I \in SUBSET Nat /\ I # {}
  OBVIOUS
<1>2. m \in I /\ \A y \in I : m <= y
  <2> HIDE DEF I
  <2> QED BY <1>1, MinIsLeast
<1> DEFINE r == RemoveFirstMatch(s, LAMBDA f : f.filename = n)
<1>3. r = RemoveAt(s, m)
  BY <1>1 DEF RemoveFirstMatch, SelectInSeq
<1> HIDE DEF m, r
<1>4. \E i \in 1 .. Len(s) : /\ s[i].filename = n
                             /\ \A j \in 1 .. i - 1 : s[j].filename # n
                             /\ r = RemoveAt(s, i)
  BY <1>2, <1>3
<1> QED BY <1>4 DEF r

\* An image of a finite set has at most as many elements.
LEMMA ImageCardinality ==
  ASSUME NEW S, IsFiniteSet(S), NEW f
  PROVE  /\ IsFiniteSet({f[x] : x \in S})
         /\ Cardinality({f[x] : x \in S}) <= Cardinality(S)
<1> DEFINE T == {f[x] : x \in S}
           g == [x \in S |-> f[x]]
<1>1. g \in Surjection(S, T)
  BY DEF Surjection
<1> HIDE DEF T, g
<1>2. IsFiniteSet(T) /\ Cardinality(T) <= Cardinality(S)
  BY <1>1, FS_Surjection
<1> QED BY <1>2 DEF T

\* An element more, and no more than one element.
LEMMA OneMore ==
  ASSUME NEW S, IsFiniteSet(S), NEW n \in Nat, Cardinality(S) <= n, NEW x
  PROVE  IsFiniteSet(S \cup {x}) /\ Cardinality(S \cup {x}) <= n + 1
<1>1. /\ IsFiniteSet(S \cup {x})
      /\ Cardinality(S \cup {x}) = IF x \in S THEN Cardinality(S) ELSE Cardinality(S) + 1
  BY FS_AddElement
<1>2. Cardinality(S) \in Nat
  BY FS_CardinalityType
<1> QED BY <1>1, <1>2

LEMMA AtMostOne ==
  ASSUME NEW S, S = {} \/ \E x : S = {x}
  PROVE  IsFiniteSet(S) /\ Cardinality(S) \in Nat /\ Cardinality(S) <= 1
<1>1. CASE S = {}
  BY <1>1, FS_EmptySet
<1>2. CASE \E x : S = {x}
  <2>1. PICK x : S = {x}
    BY <1>2
  <2>2. IsFiniteSet({x}) /\ Cardinality({x}) = 1
    BY FS_Singleton
  <2> QED BY <2>1, <2>2
<1> QED BY <1>1, <1>2

LEMMA AtMostThree ==
  ASSUME NEW x, NEW y, NEW z
  PROVE  IsFiniteSet({x, y, z}) /\ Cardinality({x, y, z}) <= 3
<1> DEFINE one == {x}
           two == one \cup {y}
           three == two \cup {z}
<1>1. IsFiniteSet(one) /\ Cardinality(one) <= 1
  BY AtMostOne
<1>2. IsFiniteSet(two) /\ Cardinality(two) <= 1 + 1
  <2> HIDE DEF one
  <2> QED BY <1>1, OneMore
<1>3. IsFiniteSet(three) /\ Cardinality(three) <= (1 + 1) + 1
  <2> HIDE DEF two
  <2>1. 1 + 1 \in Nat
    OBVIOUS
  <2> QED BY <1>2, <2>1, OneMore
<1>4. {x, y, z} = three
  OBVIOUS
<1> HIDE DEF three
<1> QED BY <1>3, <1>4

\* FlattenSeq puts the sequences one behind the other.
LEMMA FlattenRecursion ==
  ASSUME NEW T, NEW ss \in Seq(Seq(T)), Len(ss) # 0
  PROVE  \E f \in [1 .. Len(ss) -> Seq(T)] :
           /\ FlattenSeq(ss) = f[Len(ss)]
           /\ f[1] = ss[1]
           /\ \A i \in 2 .. Len(ss) : f[i] = f[i - 1] \o ss[i]
<1> DEFINE n == Len(ss)
           Joined(f, k) == \A i \in 1 .. k : f[i] = IF i = 1 THEN ss[i] ELSE f[i - 1] \o ss[i]
           Bad == {k \in 0 .. n : ~ \E f \in [1 .. k -> Seq(T)] : Joined(f, k)}
<1>1. n \in Nat /\ n # 0 /\ \A i \in 1 .. n : ss[i] \in Seq(T)
  BY LenProperties
<1>2. Bad = {}
  <2> SUFFICES ASSUME Bad # {} PROVE FALSE
    OBVIOUS
  <2>1. Bad \in SUBSET Nat
    OBVIOUS
  <2>2. PICK k \in Bad : \A j \in Bad : k <= j
    <3> HIDE DEF Bad
    <3> QED BY <2>1, LeastExists
  <2>3. k \in Nat /\ k <= n
    BY <1>1
  <2>4. k # 0
    <3> SUFFICES ASSUME k = 0 PROVE FALSE
      OBVIOUS
    <3>1. [i \in 1 .. 0 |-> <<>>] \in [1 .. 0 -> Seq(T)] /\ Joined([i \in 1 .. 0 |-> <<>>], 0)
      OBVIOUS
    <3> QED BY <3>1
  <2>5. k - 1 \in 0 .. n /\ k - 1 \notin Bad
    <3> HIDE DEF Bad
    <3> QED BY <1>1, <2>2, <2>3, <2>4
  <2>6. PICK g \in [1 .. k - 1 -> Seq(T)] : Joined(g, k - 1)
    BY <2>5
  <2> DEFINE last == IF k = 1 THEN ss[k] ELSE g[k - 1] \o ss[k]
             f == [i \in 1 .. k |-> IF i = k THEN last ELSE g[i]]
  <2>7. last \in Seq(T)
    <3>1. k \in 1 .. n
      BY <1>1, <2>3, <2>4
    <3>2. ss[k] \in Seq(T)
      BY <1>1, <3>1
    <3>3. k # 1 => k - 1 \in 1 .. k - 1
      BY <2>3, <2>4
    <3>4. k # 1 => g[k - 1] \in Seq(T)
      BY <3>3
    <3> QED BY <3>2, <3>4, ConcatProperties
  <2> HIDE DEF last
  <2>8. f \in [1 .. k -> Seq(T)]
    <3>1. \A i \in 1 .. k : i = k \/ i \in 1 .. k - 1
      BY <2>3, <2>4
    <3> QED BY <2>7, <3>1
  <2>9. Joined(f, k)
    <3> SUFFICES ASSUME NEW i \in 1 .. k
                 PROVE  f[i] = IF i = 1 THEN ss[i] ELSE f[i - 1] \o ss[i]
      OBVIOUS
    <3>1. i # 1 => i - 1 \in 1 .. k /\ i - 1 # k
      BY <2>3, <2>4
    <3>2. i # 1 => f[i - 1] = g[i - 1]
      BY <3>1
    <3>3. CASE i = k
      BY <3>2, <3>3 DEF last
    <3>4. CASE i # k
      <4>1. i \in 1 .. k - 1
        BY <2>3, <2>4, <3>4
      <4> QED BY <2>6, <3>2, <3>4, <4>1
    <3> QED BY <3>3, <3>4
  <2> HIDE DEF f, Joined
  <2> QED BY <2>8, <2>9
<1>3. PICK f \in [1 .. n -> Seq(T)] : Joined(f, n)
  <2>1. n \in 0 .. n
    BY <1>1
  <2> QED BY <1>2, <2>1
<1> DEFINE Def(g) == g = [i \in 1 .. n |-> IF i = 1 THEN ss[i] ELSE g[i - 1] \o ss[i]]
           flatten == CHOOSE g : Def(g)
<1>4. Def(f)
  BY <1>3
<1>5. Def(flatten)
  <2> HIDE DEF Def
  <2> QED BY <1>4
<1>6. FlattenSeq(ss) = flatten[n]
  BY <1>1 DEF FlattenSeq
<1> HIDE DEF flatten
<1>7. \A i \in 1 .. n : flatten[i] = f[i]
  <2> DEFINE Differ == {i \in 1 .. n : flatten[i] # f[i]}
  <2> SUFFICES ASSUME Differ # {} PROVE FALSE
    OBVIOUS
  <2>1. Differ \in SUBSET Nat
    BY <1>1
  <2>2. PICK i \in Differ : \A j \in Differ : i <= j
    <3> HIDE DEF Differ
    <3> QED BY <2>1, LeastExists
  <2>3. i \in 1 .. n /\ (i # 1 => i - 1 \in 1 .. n /\ i - 1 < i)
    BY <1>1
  <2>4. i # 1 => flatten[i - 1] = f[i - 1]
    <3> SUFFICES ASSUME i # 1, i - 1 \in Differ PROVE FALSE
      BY <2>3
    <3> HIDE DEF Differ
    <3> QED BY <1>1, <2>2, <2>3
  <2>5. flatten[i] = IF i = 1 THEN ss[i] ELSE flatten[i - 1] \o ss[i]
    BY <1>5, <2>3
  <2>6. f[i] = IF i = 1 THEN ss[i] ELSE f[i - 1] \o ss[i]
    BY <1>3, <2>3
  <2> QED BY <2>4, <2>5, <2>6
<1>8. n \in 1 .. n /\ 1 \in 1 .. n
  BY <1>1
<1>9. FlattenSeq(ss) = f[n] /\ f[1] = ss[1]
  BY <1>3, <1>6, <1>7, <1>8
<1>10. \A i \in 2 .. n : f[i] = f[i - 1] \o ss[i]
  <2>1. \A i \in 2 .. n : i \in 1 .. n /\ i # 1
    BY <1>1
  <2> QED BY <1>3, <2>1
<1> QED BY <1>9, <1>10

\* What a property of all elements says of the sequences, it says of their chain.
LEMMA FlattenType ==
  ASSUME NEW T, NEW ss \in Seq(Seq(T))
  PROVE  FlattenSeq(ss) \in Seq(T)
<1>1. CASE Len(ss) = 0
  <2>1. FlattenSeq(ss) = ss
    BY <1>1 DEF FlattenSeq
  <2>2. ss = <<>>
    BY <1>1, EmptySeq
  <2> QED BY <2>1, <2>2, EmptySeq
<1>2. CASE Len(ss) # 0
  <2>1. PICK f \in [1 .. Len(ss) -> Seq(T)] : FlattenSeq(ss) = f[Len(ss)]
    BY <1>2, FlattenRecursion
  <2>2. Len(ss) \in 1 .. Len(ss)
    BY <1>2, LenProperties
  <2> QED BY <2>1, <2>2
<1> QED BY <1>1, <1>2

\* Going round n places.
LEMMA NextInTurn ==
  ASSUME NEW n \in Nat \ {0}, NEW m \in Nat, m < n
  PROVE  /\ m % n = m
         /\ (m + 1) % n = IF m + 1 < n THEN m + 1 ELSE 0
<1>1. n % n = 0 /\ \A k \in Nat : k < n => k % n = k
  OBVIOUS
<1>2. CASE m + 1 < n
  BY <1>1, <1>2
<1>3. CASE m + 1 = n
  BY <1>1, <1>3
<1> QED BY <1>2, <1>3
-----------------------------------------------------------------------------
(***************************************************************************)
(* How many entries of a list have a name.                                 *)
(***************************************************************************)
Named(s, n) == {i \in DOMAIN s : s[i].filename = n}

LEMMA SameSize ==
  ASSUME NEW S, NEW T, IsFiniteSet(S), NEW f \in [S -> T],
         \A x, y \in S : f[x] = f[y] => x = y, \A z \in T : \E x \in S : f[x] = z
  PROVE  IsFiniteSet(T) /\ Cardinality(T) = Cardinality(S)
<1>1. f \in Bijection(S, T)
  BY DEF Bijection, Injection, Surjection, IsInjective
<1>2. ExistsBijection(S, T)
  BY <1>1 DEF ExistsBijection
<1> QED BY <1>2, FS_Bijection

LEMMA NamedFinite ==
  ASSUME NEW T, NEW s \in Seq(T), NEW n
  PROVE  IsFiniteSet(Named(s, n)) /\ Cardinality(Named(s, n)) \in Nat
<1>1. Named(s, n) \subseteq 1 .. Len(s) /\ Len(s) \in Nat
  BY LenProperties DEF Named
<1>2. IsFiniteSet(1 .. Len(s))
  BY <1>1, FS_Interval
<1> QED BY <1>1, <1>2, FS_Subset, FS_CardinalityType

LEMMA DisjointUnion ==
  ASSUME NEW S, NEW T, IsFiniteSet(S), IsFiniteSet(T), S \cap T = {}
  PROVE  IsFiniteSet(S \cup T) /\ Cardinality(S \cup T) = Cardinality(S) + Cardinality(T)
<1>1. /\ IsFiniteSet(S \cup T)
      /\ Cardinality(S \cup T) = Cardinality(S) + Cardinality(T) - Cardinality(S \cap T)
  BY FS_Union
<1>2. Cardinality(S \cap T) = 0
  BY FS_EmptySet
<1>3. Cardinality(S) \in Nat /\ Cardinality(T) \in Nat
  BY FS_CardinalityType
<1> QED BY <1>1, <1>2, <1>3

LEMMA NamedConcat ==
  ASSUME NEW T, NEW a \in Seq(T), NEW b \in Seq(T), NEW n
  PROVE  Cardinality(Named(a \o b, n)) = Cardinality(Named(a, n)) + Cardinality(Named(b, n))
<1>1. PICK k \in Nat : k = Len(a)
  BY LenProperties
<1>2. PICK l \in Nat : l = Len(b)
  BY LenProperties
<1>3. PICK c : c = a \o b
  OBVIOUS
<1>4. /\ DOMAIN a = 1 .. k /\ DOMAIN b = 1 .. l /\ DOMAIN c = 1 .. k + l
      /\ \A i \in 1 .. k + l : c[i] = IF i <= k THEN a[i] ELSE b[i - k]
  BY <1>1, <1>2, <1>3, ConcatProperties, LenProperties
<1> DEFINE A == Named(a, n)
           B == Named(b, n)
           shift == [i \in B |-> k + i]
           C == {k + i : i \in B}
<1>5. IsFiniteSet(A) /\ IsFiniteSet(B)
  BY NamedFinite
<1>6. B \subseteq 1 .. l /\ A \subseteq 1 .. k
  BY <1>4 DEF Named
<1>7. IsFiniteSet(C) /\ Cardinality(C) = Cardinality(B)
  <2>1. shift \in [B -> C] /\ \A z \in C : \E x \in B : shift[x] = z
    OBVIOUS
  <2>2. \A x, y \in B : shift[x] = shift[y] => x = y
    <3>1. \A x, y \in B : x \in Nat /\ y \in Nat /\ shift[x] = k + x /\ shift[y] = k + y
      BY <1>6
    <3> QED BY <3>1
  <2> HIDE DEF shift, B, C
  <2> QED BY <1>5, <2>1, <2>2, SameSize
<1>8. A \cap C = {}
  BY <1>6
<1>9. Named(c, n) = A \cup C
  <2>1. ASSUME NEW i \in Named(c, n) PROVE i \in A \cup C
    <3>1. i \in 1 .. k + l /\ c[i].filename = n
      BY <1>4 DEF Named
    <3>2. CASE i <= k
      <4>1. i \in 1 .. k /\ c[i] = a[i]
        BY <1>4, <3>1, <3>2
      <4> QED BY <1>4, <3>1, <4>1 DEF Named
    <3>3. CASE i > k
      <4>1. i - k \in 1 .. l /\ c[i] = b[i - k] /\ i = k + (i - k)
        BY <1>4, <3>1, <3>3
      <4>2. i - k \in B
        BY <1>4, <3>1, <4>1 DEF Named
      <4> HIDE DEF B
      <4> QED BY <4>1, <4>2
    <3> QED BY <3>1, <3>2, <3>3
  <2>2. ASSUME NEW i \in A PROVE i \in Named(c, n)
    <3>1. i \in 1 .. k /\ a[i].filename = n
      BY <1>4 DEF Named
    <3>2. i \in 1 .. k + l /\ c[i] = a[i]
      BY <1>4, <3>1
    <3> QED BY <1>4, <3>1, <3>2 DEF Named
  <2>3. ASSUME NEW j \in B PROVE k + j \in Named(c, n)
    <3>1. j \in 1 .. l /\ b[j].filename = n
      BY <1>4 DEF Named
    <3>2. k + j \in 1 .. k + l /\ ~(k + j <= k) /\ (k + j) - k = j
      BY <3>1
    <3>3. c[k + j] = b[j]
      BY <1>4, <3>2
    <3> QED BY <1>4, <3>1, <3>2, <3>3 DEF Named
  <2> HIDE DEF A, B
  <2> QED BY <2>1, <2>2, <2>3
<1>10. Cardinality(A \cup C) = Cardinality(A) + Cardinality(C)
  <2> HIDE DEF A, C
  <2> QED BY <1>5, <1>7, <1>8, DisjointUnion
<1> QED BY <1>3, <1>7, <1>9, <1>10

LEMMA NamedOne ==
  ASSUME NEW r, NEW n
  PROVE  Cardinality(Named(<<r>>, n)) = IF r.filename = n THEN 1 ELSE 0
<1>1. \A i : i \in Named(<<r>>, n) <=> i = 1 /\ r.filename = n
  BY DEF Named
<1>2. CASE r.filename = n
  <2>1. Named(<<r>>, n) = {1}
    BY <1>1, <1>2
  <2> QED BY <1>2, <2>1, FS_Singleton
<1>3. CASE r.filename # n
  <2>1. Named(<<r>>, n) = {}
    BY <1>1, <1>3
  <2> QED BY <1>3, <2>1, FS_EmptySet
<1> QED BY <1>2, <1>3

LEMMA NamedReverse ==
  ASSUME NEW T, NEW s \in Seq(T), NEW n
  PROVE  Cardinality(Named(Reverse(s), n)) = Cardinality(Named(s, n))
<1>1. PICK k \in Nat : k = Len(s)
  BY LenProperties
<1>2. PICK r : r = Reverse(s)
  OBVIOUS
<1>3. DOMAIN s = 1 .. k /\ DOMAIN r = 1 .. k /\ \A i \in 1 .. k : r[i] = s[(k - i) + 1]
  BY <1>1, <1>2, LenProperties DEF Reverse
<1>4. \A i \in 1 .. k : (k - i) + 1 \in 1 .. k /\ (k - ((k - i) + 1)) + 1 = i
  OBVIOUS
<1> DEFINE A == Named(s, n)
           B == Named(r, n)
           turn == [i \in A |-> (k - i) + 1]
<1>5. \A i \in A : i \in 1 .. k /\ s[i].filename = n
  BY <1>3 DEF Named
<1>6. \A i \in B : i \in 1 .. k /\ r[i].filename = n
  BY <1>3 DEF Named
<1>7. \A i \in A : turn[i] \in B
  <2> SUFFICES ASSUME NEW i \in A PROVE (k - i) + 1 \in B
    OBVIOUS
  <2>1. i \in 1 .. k /\ s[i].filename = n
    BY <1>5
  <2>2. (k - i) + 1 \in 1 .. k /\ r[(k - i) + 1] = s[i]
    BY <1>3, <1>4, <2>1
  <2> QED BY <1>3, <2>1, <2>2 DEF Named
<1>8. \A i \in B : (k - i) + 1 \in A
  <2> SUFFICES ASSUME NEW i \in B PROVE (k - i) + 1 \in A
    OBVIOUS
  <2>1. i \in 1 .. k /\ r[i].filename = n
    BY <1>6
  <2>2. (k - i) + 1 \in 1 .. k /\ r[i] = s[(k - i) + 1]
    BY <1>3, <1>4, <2>1
  <2> QED BY <1>3, <2>1, <2>2 DEF Named
<1>9. IsFiniteSet(A)
  BY NamedFinite
<1>10. turn \in [A -> B] /\ \A x \in A : turn[x] = (k - x) + 1
  <2> HIDE DEF A, B
  <2> QED BY <1>7
<1>11. \A x, y \in A : turn[x] = turn[y] => x = y
  <2>1. \A x \in A : x \in Nat /\ turn[x] = (k - x) + 1
    BY <1>5
  <2> HIDE DEF A, turn
  <2> QED BY <2>1
<1>12. \A z \in B : \E x \in A : turn[x] = z
  <2> SUFFICES ASSUME NEW z \in B PROVE \E x \in A : turn[x] = z
    OBVIOUS
  <2>1. (k - z) + 1 \in A /\ z \in 1 .. k
    BY <1>6, <1>8
  <2>2. turn[(k - z) + 1] = z
    BY <1>4, <1>10, <2>1
  <2> HIDE DEF A, turn
  <2> QED BY <2>1, <2>2
<1> HIDE DEF A, B, turn
<1>13. Cardinality(B) = Cardinality(A)
  BY <1>9, <1>10, <1>11, <1>12, SameSize
<1> QED BY <1>2, <1>13 DEF A, B

LEMMA NamedRemoveAt ==
  ASSUME NEW T, NEW s \in Seq(T), NEW i \in 1 .. Len(s), NEW n
  PROVE  Cardinality(Named(s, n)) = Cardinality(Named(RemoveAt(s, i), n))
                                      + (IF s[i].filename = n THEN 1 ELSE 0)
<1>1. PICK k \in Nat : k = Len(s)
  BY LenProperties
<1>2. PICK a : a = SubSeq(s, 1, i - 1)
  OBVIOUS
<1>3. PICK b : b = SubSeq(s, i + 1, Len(s))
  OBVIOUS
<1>4. PICK m : m = <<s[i]>>
  OBVIOUS
<1>5. /\ a \in Seq(T) /\ Len(a) = i - 1
      /\ \A j \in 1 .. i - 1 : a[j] = s[j]
  BY <1>2, SubSeqProperties
<1>6. /\ b \in Seq(T) /\ Len(b) = k - i
      /\ \A j \in 1 .. k - i : b[j] = s[i + j]
  BY <1>1, <1>3, SubSeqProperties
<1>7. m \in Seq(T) /\ Len(m) = 1 /\ m[1] = s[i]
  BY <1>4
<1>8. PICK x : x = a \o m
  OBVIOUS
<1>9. /\ x \in Seq(T) /\ Len(x) = i
      /\ \A j \in 1 .. i : x[j] = IF j <= i - 1 THEN a[j] ELSE m[j - (i - 1)]
  <2>1. /\ x \in Seq(T) /\ Len(x) = Len(a) + Len(m)
        /\ \A j \in 1 .. Len(a) + Len(m) : x[j] = IF j <= Len(a) THEN a[j] ELSE m[j - Len(a)]
    BY <1>5, <1>7, <1>8, ConcatProperties
  <2>2. Len(a) + Len(m) = i
    BY <1>5, <1>7
  <2> QED BY <1>5, <2>1, <2>2
<1>10. PICK y : y = x \o b
  OBVIOUS
<1>11. /\ y \in Seq(T) /\ Len(y) = k
       /\ \A j \in 1 .. k : y[j] = IF j <= i THEN x[j] ELSE b[j - i]
  <2>1. /\ y \in Seq(T) /\ Len(y) = Len(x) + Len(b)
        /\ \A j \in 1 .. Len(x) + Len(b) : y[j] = IF j <= Len(x) THEN x[j] ELSE b[j - Len(x)]
    BY <1>6, <1>9, <1>10, ConcatProperties
  <2>2. Len(x) + Len(b) = k
    BY <1>1, <1>6, <1>9
  <2> QED BY <1>9, <2>1, <2>2
<1>12. \A j \in 1 .. k : y[j] = s[j]
  <2> SUFFICES ASSUME NEW j \in 1 .. k PROVE y[j] = s[j]
    OBVIOUS
  <2>1. CASE j < i
    <3>1. j \in 1 .. i - 1 /\ j \in 1 .. i /\ j <= i
      BY <2>1
    <3> QED BY <1>5, <1>9, <1>11, <3>1
  <2>2. CASE j = i
    <3>1. i \in 1 .. i /\ ~(i <= i - 1) /\ i - (i - 1) = 1
      OBVIOUS
    <3> QED BY <1>7, <1>9, <1>11, <2>2, <3>1
  <2>3. CASE j > i
    <3>1. j - i \in 1 .. k - i /\ i + (j - i) = j /\ ~(j <= i)
      BY <1>1, <2>3
    <3> QED BY <1>6, <1>11, <3>1
  <2> QED BY <2>1, <2>2, <2>3
<1>13. DOMAIN y = 1 .. k /\ DOMAIN s = 1 .. k
  BY <1>1, <1>11, LenProperties
<1>14. Named(y, n) = Named(s, n)
  BY <1>12, <1>13 DEF Named
<1>15. Cardinality(Named(y, n)) = Cardinality(Named(x, n)) + Cardinality(Named(b, n))
  BY <1>6, <1>9, <1>10, NamedConcat
<1>16. Cardinality(Named(x, n)) = Cardinality(Named(a, n)) + Cardinality(Named(m, n))
  BY <1>5, <1>7, <1>8, NamedConcat
<1>17. RemoveAt(s, i) = a \o b
  BY <1>2, <1>3 DEF RemoveAt
<1>18. Cardinality(Named(a \o b, n)) = Cardinality(Named(a, n)) + Cardinality(Named(b, n))
  BY <1>5, <1>6, NamedConcat
<1>19. Cardinality(Named(m, n)) = IF s[i].filename = n THEN 1 ELSE 0
  BY <1>4, NamedOne
<1>20. PICK p \in Nat : p = Cardinality(Named(a, n))
  BY <1>5, NamedFinite
<1>21. PICK q \in Nat : q = Cardinality(Named(b, n))
  BY <1>6, NamedFinite
<1> QED BY <1>14, <1>15, <1>16, <1>17, <1>18, <1>19, <1>20, <1>21

\* The chain of lists that each have a name at most once has it as often as
\* there are lists that have it.
LEMMA FlattenCount ==
  ASSUME NEW T, NEW ss \in Seq(Seq(T)), NEW n, NEW J \in SUBSET (1 .. Len(ss)),
         \A j \in 1 .. Len(ss) : Cardinality(Named(ss[j], n)) = IF j \in J THEN 1 ELSE 0
  PROVE  Cardinality(Named(FlattenSeq(ss), n)) = Cardinality(J)
<1>1. PICK l \in Nat : l = Len(ss)
  BY LenProperties
<1>2. CASE l = 0
  <2>1. ss = <<>> /\ FlattenSeq(ss) = ss
    BY <1>1, <1>2, EmptySeq DEF FlattenSeq
  <2>2. Named(FlattenSeq(ss), n) = {}
    BY <2>1 DEF Named
  <2>3. J = {}
    BY <1>1, <1>2
  <2> QED BY <2>2, <2>3
<1>3. CASE l # 0
  <2>1. PICK f \in [1 .. l -> Seq(T)] : /\ FlattenSeq(ss) = f[l]
                                        /\ f[1] = ss[1]
                                        /\ \A i \in 2 .. l : f[i] = f[i - 1] \o ss[i]
    <3>1. Len(ss) # 0
      BY <1>1, <1>3
    <3>2. \E f \in [1 .. Len(ss) -> Seq(T)] : /\ FlattenSeq(ss) = f[Len(ss)]
                                             /\ f[1] = ss[1]
                                             /\ \A i \in 2 .. Len(ss) : f[i] = f[i - 1] \o ss[i]
      BY ZenonT(60), <3>1, FlattenRecursion
    <3> QED BY <1>1, <3>2
  <2>2. \A j \in J : j \in Nat /\ 1 <= j /\ j <= l
    BY <1>1
  <2> DEFINE Upto(k) == {j \in J : j <= k}
             Right(k) == Cardinality(Named(f[k], n)) = Cardinality(Upto(k))
             Bad == {k \in 1 .. l : ~Right(k)}
  <2>3. \A k \in 1 .. l : Upto(k) \subseteq 1 .. l /\ IsFiniteSet(Upto(k)) /\ Cardinality(Upto(k)) \in Nat
    <3> SUFFICES ASSUME NEW k \in 1 .. l
                 PROVE  Upto(k) \subseteq 1 .. l /\ IsFiniteSet(Upto(k)) /\ Cardinality(Upto(k)) \in Nat
      OBVIOUS
    <3>1. Upto(k) \subseteq 1 .. l
      BY <1>1
    <3>2. IsFiniteSet(1 .. l)
      BY FS_Interval
    <3> HIDE DEF Upto
    <3> QED BY <3>1, <3>2, FS_Subset, FS_CardinalityType
  <2>4. Right(1)
    <3>1. Cardinality(Named(f[1], n)) = IF 1 \in J THEN 1 ELSE 0
      BY <1>1, <1>3, <2>1
    <3>2. \A j \in J : j <= 1 <=> j = 1
      <4>1. \A j \in Nat : 1 <= j => (j <= 1 <=> j = 1)
        OBVIOUS
      <4> QED BY <2>2, <4>1
    <3>3. CASE 1 \in J
      <4>1. Upto(1) = {1}
        BY <3>2, <3>3
      <4>2. Cardinality({1}) = 1
        BY FS_Singleton
      <4> QED BY <3>1, <3>3, <4>1, <4>2
    <3>4. CASE 1 \notin J
      <4>1. Upto(1) = {}
        BY <3>2, <3>4
      <4> QED BY <3>1, <3>4, <4>1, FS_EmptySet
    <3> QED BY <3>3, <3>4
  <2>5. ASSUME NEW k \in 2 .. l, Right(k - 1) PROVE Right(k)
    <3>1. k - 1 \in 1 .. l /\ k \in 1 .. l /\ k \in Nat
      BY <1>1
    <3>2. PICK g : g = f[k - 1]
      OBVIOUS
    <3>3. g \in Seq(T) /\ ss[k] \in Seq(T) /\ f[k] = g \o ss[k]
      <4>1. ss[k] \in Seq(T)
        BY <1>1, <3>1
      <4> QED BY <2>1, <3>1, <3>2, <4>1
    <3>4. Cardinality(Named(f[k], n)) = Cardinality(Named(g, n)) + Cardinality(Named(ss[k], n))
      BY <3>3, NamedConcat
    <3>5. Cardinality(Named(ss[k], n)) = IF k \in J THEN 1 ELSE 0
      BY <1>1, <3>1
    <3>6. Cardinality(Named(g, n)) = Cardinality(Upto(k - 1))
      BY <2>5, <3>2
    <3>7. PICK c \in Nat : c = Cardinality(Upto(k - 1))
      BY <2>3, <3>1
    <3>8. CASE k \in J
      <4>1. Upto(k) = Upto(k - 1) \cup {k} /\ k \notin Upto(k - 1)
        <5>1. \A j \in J : j <= k <=> j = k \/ j <= k - 1
          BY <2>2, <3>1
        <5>2. k <= k /\ ~(k <= k - 1)
          BY <3>1
        <5> QED BY <3>8, <5>1, <5>2
      <4>2. IsFiniteSet(Upto(k - 1))
        BY <2>3, <3>1
      <4> HIDE DEF Upto
      <4>3. Cardinality(Upto(k - 1) \cup {k}) = Cardinality(Upto(k - 1)) + 1
        BY <4>1, <4>2, FS_AddElement
      <4> QED BY <3>4, <3>5, <3>6, <3>7, <3>8, <4>1, <4>3
    <3>9. CASE k \notin J
      <4>1. Upto(k) = Upto(k - 1)
        <5>1. \A j \in J : j <= k <=> j = k \/ j <= k - 1
          BY <2>2, <3>1
        <5> QED BY <3>9, <5>1
      <4> HIDE DEF Upto
      <4> QED BY <3>4, <3>5, <3>6, <3>7, <3>9, <4>1
    <3> QED BY <3>8, <3>9
  <2>6. Bad = {}
    <3> SUFFICES ASSUME Bad # {} PROVE FALSE
      OBVIOUS
    <3>1. Bad \in SUBSET Nat
      OBVIOUS
    <3>2. PICK k \in Bad : \A j \in Bad : k <= j
      <4> HIDE DEF Bad
      <4> QED BY <3>1, LeastExists
    <3>3. k \in 1 .. l /\ ~Right(k)
      OBVIOUS
    <3> HIDE DEF Right
    <3>4. k \in 2 .. l /\ k - 1 \in 1 .. l /\ k - 1 < k
      BY <2>4, <3>3
    <3>5. Right(k - 1)
      <4> SUFFICES ASSUME ~Right(k - 1) PROVE FALSE
        OBVIOUS
      <4>1. k - 1 \in Bad
        BY <3>4
      <4> HIDE DEF Bad
      <4> QED BY <3>2, <3>4, <4>1
    <3> QED BY <2>5, <3>3, <3>4, <3>5
  <2>7. Right(l)
    <3>1. l \in 1 .. l
      BY <1>3
    <3> HIDE DEF Right
    <3> QED BY <2>6, <3>1
  <2>8. Upto(l) = J
    BY <2>2
  <2> QED BY <2>1, <2>7, <2>8
<1> QED BY <1>2, <1>3
-----------------------------------------------------------------------------
(***************************************************************************)
(* Folds.  FoldLeft is defined by recursion over the sets of positions.    *)
(***************************************************************************)

\* The function that FoldLeft defines and applies to all positions.
IsFold(g, T, base, step, seq) ==
  /\ g \in [SUBSET (DOMAIN seq) -> T]
  /\ \A s \in SUBSET (DOMAIN seq) :
       g[s] = IF s = {} THEN base ELSE step[<<g[s \ {Max(s)}], seq[Max(s)]>>]

\* It exists, where each step stays in T.
LEMMA FoldExists ==
  ASSUME NEW T, NEW E, NEW base \in T, NEW step \in [T \X E -> T], NEW seq \in Seq(E)
  PROVE  \E g : IsFold(g, T, base, step, seq)
<1> DEFINE n == Len(seq)
           Folds(g, k) == \A s \in SUBSET (1 .. k) :
             g[s] = IF s = {} THEN base ELSE step[<<g[s \ {Max(s)}], seq[Max(s)]>>]
           Bad == {k \in 0 .. n : ~ \E g \in [SUBSET (1 .. k) -> T] : Folds(g, k)}
<1>1. n \in Nat /\ DOMAIN seq = 1 .. n /\ \A i \in 1 .. n : seq[i] \in E
  BY LenProperties
<1>2. Bad = {}
  <2> SUFFICES ASSUME Bad # {} PROVE FALSE
    OBVIOUS
  <2>1. Bad \in SUBSET Nat
    OBVIOUS
  <2>2. PICK k \in Bad : \A j \in Bad : k <= j
    <3> HIDE DEF Bad
    <3> QED BY <2>1, LeastExists
  <2>3. k \in Nat /\ k <= n
    BY <1>1
  <2>4. k # 0
    <3> SUFFICES ASSUME k = 0 PROVE FALSE
      OBVIOUS
    <3> DEFINE f == [s \in SUBSET (1 .. 0) |-> base]
    <3>1. \A s \in SUBSET (1 .. 0) : s = {}
      OBVIOUS
    <3>2. f \in [SUBSET (1 .. 0) -> T]
      OBVIOUS
    <3>3. Folds(f, 0)
      BY <3>1
    <3> HIDE DEF f, Folds
    <3> QED BY <3>2, <3>3
  <2>5. k - 1 \in 0 .. n /\ k - 1 \notin Bad
    <3> HIDE DEF Bad
    <3> QED BY <1>1, <2>2, <2>3, <2>4
  <2>6. PICK g \in [SUBSET (1 .. k - 1) -> T] : Folds(g, k - 1)
    BY <2>5
  <2> DEFINE f == [s \in SUBSET (1 .. k) |->
                     IF k \in s THEN step[<<g[s \ {k}], seq[k]>>] ELSE g[s]]
  <2>7. /\ \A s \in SUBSET (1 .. k) : k \in s => s \ {k} \in SUBSET (1 .. k - 1)
        /\ \A s \in SUBSET (1 .. k) : k \notin s => s \in SUBSET (1 .. k - 1)
        /\ \A s \in SUBSET (1 .. k - 1) : s \in SUBSET (1 .. k) /\ k \notin s
    <3>1. \A i \in Nat : /\ i \in 1 .. k /\ i # k => i \in 1 .. k - 1
                         /\ i \in 1 .. k - 1 => i \in 1 .. k /\ i # k
      BY <2>3, <2>4
    <3>2. (1 .. k) \subseteq Nat /\ (1 .. k - 1) \subseteq Nat
      BY <2>3
    <3> QED BY <3>1, <3>2
  <2>8. seq[k] \in E
    BY <1>1, <2>3, <2>4
  <2>9. f \in [SUBSET (1 .. k) -> T]
    <3> SUFFICES ASSUME NEW s \in SUBSET (1 .. k) PROVE f[s] \in T
      OBVIOUS
    <3>1. CASE k \in s
      <4>1. g[s \ {k}] \in T
        BY <2>7, <3>1
      <4>2. <<g[s \ {k}], seq[k]>> \in T \X E
        BY <2>8, <4>1
      <4> QED BY <3>1, <4>2
    <3>2. CASE k \notin s
      BY <2>7, <3>2
    <3> QED BY <3>1, <3>2
  <2>10. \A s \in SUBSET (1 .. k - 1) : f[s] = g[s]
    BY <2>7
  <2>11. Folds(f, k)
    <3> SUFFICES ASSUME NEW s \in SUBSET (1 .. k)
                 PROVE  f[s] = IF s = {} THEN base
                               ELSE step[<<f[s \ {Max(s)}], seq[Max(s)]>>]
      OBVIOUS
    <3>1. CASE k \in s
      <4>1. Max(s) = k
        <5>1. \A y \in s : y \in Nat /\ y <= k
          BY <2>3
        <5>2. \A x \in s : (\A y \in s : x >= y) => x = k
          BY <2>3, <3>1, <5>1
        <5>3. \A y \in s : k >= y
          BY <2>3, <5>1
        <5> QED BY <3>1, <5>2, <5>3 DEF Max
      <4>2. f[s \ {k}] = g[s \ {k}]
        BY <2>7, <2>10, <3>1
      <4>3. f[s] = step[<<g[s \ {k}], seq[k]>>]
        BY <3>1
      <4> HIDE DEF f
      <4> QED BY <3>1, <4>1, <4>2, <4>3
    <3>2. CASE k \notin s
      <4>1. s \in SUBSET (1 .. k - 1) /\ s \ {Max(s)} \in SUBSET (1 .. k - 1)
        BY <2>7, <3>2
      <4>2. f[s] = g[s] /\ f[s \ {Max(s)}] = g[s \ {Max(s)}]
        BY <2>10, <4>1
      <4> HIDE DEF f
      <4> QED BY <2>6, <4>1, <4>2
    <3> QED BY <3>1, <3>2
  <2> HIDE DEF f, Folds
  <2> QED BY <2>9, <2>11
<1>3. n \in 0 .. n
  BY <1>1
<1>4. \E g \in [SUBSET (1 .. n) -> T] : Folds(g, n)
  <2> HIDE DEF Folds, n
  <2> QED BY <1>2, <1>3
<1>5. DOMAIN seq = 1 .. n
  BY <1>1
<1>6. PICK g \in [SUBSET (1 .. n) -> T] : Folds(g, n)
  BY <1>4
<1> HIDE DEF n
<1>7. IsFold(g, T, base, step, seq)
  BY <1>5, <1>6 DEF IsFold
<1> QED BY <1>7

\* What holds at the beginning of a fold and is kept by its steps holds at its end.
LEMMA FoldInduction ==
  ASSUME NEW n \in Nat, NEW J, NEW it, it[{}] \in J,
         \A k \in 1 .. n : it[1 .. k - 1] \in J => it[1 .. k] \in J
  PROVE  it[1 .. n] \in J
<1> DEFINE Bad == {k \in 0 .. n : it[1 .. k] \notin J}
<1>1. Bad = {}
  <2> SUFFICES ASSUME Bad # {} PROVE FALSE
    OBVIOUS
  <2>1. Bad \in SUBSET Nat
    OBVIOUS
  <2>2. PICK k \in Bad : \A j \in Bad : k <= j
    <3> HIDE DEF Bad
    <3> QED BY <2>1, LeastExists
  <2>3. k \in Nat /\ k <= n /\ it[1 .. k] \notin J
    OBVIOUS
  <2>4. k # 0
    <3>1. 1 .. 0 = {}
      OBVIOUS
    <3> QED BY <2>3, <3>1
  <2>5. k - 1 \in 0 .. n /\ k - 1 \notin Bad /\ k \in 1 .. n
    <3> HIDE DEF Bad
    <3> QED BY <2>2, <2>3, <2>4
  <2>6. it[1 .. k - 1] \in J
    BY <2>5
  <2> QED BY <2>3, <2>5, <2>6
<1> QED BY <1>1

\* The positions up to k, and the last of them.
LEMMA LastPosition ==
  ASSUME NEW k \in Nat, k # 0
  PROVE  1 .. k # {} /\ Max(1 .. k) = k /\ (1 .. k) \ {k} = 1 .. k - 1
<1>1. k \in 1 .. k /\ \A y \in 1 .. k : y \in Nat /\ y <= k
  OBVIOUS
<1>2. Max(1 .. k) = k
  BY <1>1 DEF Max
<1> QED BY <1>1, <1>2

\* A set of positions that is not empty has a last one.
LEMMA MaxInSet ==
  ASSUME NEW n \in Nat, NEW S \in SUBSET (1 .. n), S # {}
  PROVE  Max(S) \in S /\ \A y \in S : Max(S) >= y
<1> DEFINE B == {k \in Nat : \A y \in S : y <= k}
<1>1. B \in SUBSET Nat /\ n \in B
  OBVIOUS
<1>2. PICK k \in B : \A j \in B : k <= j
  <2> HIDE DEF B
  <2> QED BY <1>1, LeastExists
<1>3. k \in Nat /\ \A y \in S : y <= k /\ y \in Nat
  OBVIOUS
<1>4. k \in S
  <2> SUFFICES ASSUME k \notin S PROVE FALSE
    OBVIOUS
  <2>1. \A y \in S : y <= k - 1 /\ y >= 1
    BY <1>3
  <2>2. k - 1 \in Nat
    <3>1. PICK y \in S : y \in Nat /\ y <= k - 1
      BY <1>3, <2>1
    <3> QED BY <1>3, <3>1
  <2>3. k - 1 \in B
    BY <2>1, <2>2
  <2> HIDE DEF B
  <2> QED BY <1>2, <1>3, <2>3
<1>5. \A y \in S : k >= y
  BY <1>3
<1>6. \E x \in S : \A y \in S : x >= y
  BY ONLY <1>4, <1>5
<1> QED BY ONLY <1>6 DEF Max
-----------------------------------------------------------------------------
(***************************************************************************)
(* Induction over sequences, without an operator as parameter: what holds  *)
(* is membership in a set.                                                 *)
(***************************************************************************)
LEMMA SeqInduction ==
  ASSUME NEW T, NEW J, <<>> \in J,
         \A s \in Seq(T), e \in T : s \in J => Append(s, e) \in J
  PROVE  \A s \in Seq(T) : s \in J
<1> DEFINE Bad == {n \in Nat : \E s \in Seq(T) : Len(s) = n /\ s \notin J}
<1> SUFFICES ASSUME NEW s0 \in Seq(T), s0 \notin J PROVE FALSE
  OBVIOUS
<1>1. Bad \in SUBSET Nat /\ Bad # {}
  <2>1. Len(s0) \in Bad
    BY LenProperties
  <2> QED BY <2>1
<1>2. PICK n \in Bad : \A m \in Bad : n <= m
  <2> HIDE DEF Bad
  <2> QED BY <1>1, LeastExists
<1>3. PICK s \in Seq(T) : Len(s) = n /\ s \notin J
  BY <1>2
<1>4. s # <<>>
  BY <1>3
<1>5. PICK t \in Seq(T), e \in T : s = Append(t, e)
  BY <1>4, SequenceEmptyOrAppend
<1>6. Len(t) \in Nat /\ n \in Nat /\ n = Len(t) + 1
  BY <1>3, <1>5, AppendProperties, LenProperties
<1>7. t \in J
  <2>1. Len(t) \notin Bad
    <3> HIDE DEF Bad
    <3> QED BY <1>2, <1>6
  <2> QED BY <1>6, <2>1
<1> QED BY <1>3, <1>5, <1>7

\* Nothing and one sequence, chained.
LEMMA FlattenSmall ==
  ASSUME NEW T, NEW x \in Seq(T)
  PROVE  FlattenSeq(<<>>) = <<>> /\ FlattenSeq(<<x>>) = x
<1>1. Len(<<>>) = 0
  OBVIOUS
<1>2. FlattenSeq(<<>>) = <<>>
  BY <1>1 DEF FlattenSeq
<1>3. PICK ss : ss = <<x>>
  OBVIOUS
<1>4. ss \in Seq(Seq(T)) /\ Len(ss) = 1 /\ ss[1] = x
  BY <1>3
<1>5. PICK f \in [1 .. Len(ss) -> Seq(T)] : FlattenSeq(ss) = f[Len(ss)] /\ f[1] = ss[1]
  <2>1. Len(ss) # 0
    BY <1>4
  <2> QED BY ZenonT(60), <1>4, <2>1, FlattenRecursion
<1> QED BY <1>2, <1>3, <1>4, <1>5

\* One more sequence comes last in the chain.
LEMMA FlattenAppend ==
  ASSUME NEW T, NEW ss \in Seq(Seq(T)), NEW x \in Seq(T)
  PROVE  FlattenSeq(Append(ss, x)) = FlattenSeq(ss) \o x
<1>1. PICK n \in Nat : n = Len(ss)
  BY LenProperties
<1>2. PICK tt : tt = Append(ss, x)
  OBVIOUS
<1>3. /\ tt \in Seq(Seq(T)) /\ Len(tt) = n + 1 /\ tt[n + 1] = x
      /\ \A i \in 1 .. n : tt[i] = ss[i]
  BY <1>1, <1>2, AppendProperties
<1>4. CASE n = 0
  <2>1. ss = <<>>
    BY <1>1, <1>4, EmptySeq
  <2>2. tt = <<x>>
    BY <1>2, <2>1
  <2> QED BY <1>2, <2>1, <2>2, FlattenSmall, ConcatEmptySeq
<1>5. CASE n # 0
  <2>1. PICK f \in [1 .. n -> Seq(T)] : /\ FlattenSeq(ss) = f[n]
                                        /\ f[1] = ss[1]
                                        /\ \A i \in 2 .. n : f[i] = f[i - 1] \o ss[i]
    <3>1. Len(ss) # 0
      BY <1>1, <1>5
    <3>2. \E f \in [1 .. Len(ss) -> Seq(T)] : /\ FlattenSeq(ss) = f[Len(ss)]
                                             /\ f[1] = ss[1]
                                             /\ \A i \in 2 .. Len(ss) : f[i] = f[i - 1] \o ss[i]
      BY ZenonT(60), <3>1, FlattenRecursion
    <3> QED BY <1>1, <3>2
  <2>2. PICK g \in [1 .. n + 1 -> Seq(T)] : /\ FlattenSeq(tt) = g[n + 1]
                                            /\ g[1] = tt[1]
                                            /\ \A i \in 2 .. n + 1 : g[i] = g[i - 1] \o tt[i]
    <3>1. Len(tt) # 0
      BY <1>3
    <3>2. tt \in Seq(Seq(T))
      BY <1>3
    <3>3. \E h \in [1 .. Len(tt) -> Seq(T)] : /\ FlattenSeq(tt) = h[Len(tt)]
                                             /\ h[1] = tt[1]
                                             /\ \A i \in 2 .. Len(tt) : h[i] = h[i - 1] \o tt[i]
      BY ONLY ZenonT(60), <3>1, <3>2, FlattenRecursion
    <3> QED BY <1>3, <3>3
  <2> DEFINE Differ == {i \in 1 .. n : f[i] # g[i]}
  <2>3. Differ = {}
    <3> SUFFICES ASSUME Differ # {} PROVE FALSE
      OBVIOUS
    <3>1. Differ \in SUBSET Nat
      OBVIOUS
    <3>2. PICK i \in Differ : \A j \in Differ : i <= j
      <4> HIDE DEF Differ
      <4> QED BY <3>1, LeastExists
    <3>3. i \in 1 .. n /\ f[i] # g[i]
      OBVIOUS
    <3>4. i # 1
      BY <1>3, <2>1, <2>2, <3>3
    <3>5. i \in 2 .. n /\ i \in 2 .. n + 1 /\ i - 1 \in 1 .. n /\ i - 1 < i
      BY <3>3, <3>4
    <3>6. f[i - 1] = g[i - 1]
      <4>1. i - 1 \notin Differ
        <5> HIDE DEF Differ
        <5> QED BY <3>1, <3>2, <3>5
      <4> QED BY <3>5, <4>1
    <3>7. f[i] = f[i - 1] \o ss[i] /\ g[i] = g[i - 1] \o tt[i]
      BY ONLY <2>1, <2>2, <3>5
    <3>8. tt[i] = ss[i]
      BY <1>3, <3>3
    <3> QED BY ONLY <3>3, <3>6, <3>7, <3>8
  <2>4. n \in 1 .. n /\ n + 1 \in 2 .. n + 1 /\ (n + 1) - 1 = n
    BY <1>5
  <2>5. f[n] = g[n]
    BY <2>3, <2>4
  <2>6. g[n + 1] = g[n] \o tt[n + 1]
    BY <2>2, <2>4
  <2> QED BY <1>2, <1>3, <2>1, <2>2, <2>5, <2>6
<1> QED BY <1>4, <1>5

LEMMA Reassociate ==
  ASSUME NEW T, NEW x, NEW y, NEW z, x \in Seq(T), y \in Seq(T), z \in Seq(T)
  PROVE  (x \o y) \o z = x \o (y \o z)
BY ConcatAssociative

\* The chain of two lists of sequences.
LEMMA FlattenConcat ==
  ASSUME NEW T, NEW a \in Seq(Seq(T)), NEW b \in Seq(Seq(T))
  PROVE  FlattenSeq(a \o b) = FlattenSeq(a) \o FlattenSeq(b)
<1> DEFINE J == {s \in Seq(Seq(T)) : FlattenSeq(a \o s) = FlattenSeq(a) \o FlattenSeq(s)}
<1>1. FlattenSeq(a) \in Seq(T)
  BY FlattenType
<1>2. <<>> \in J
  <2>1. a \o <<>> = a /\ FlattenSeq(a) \o <<>> = FlattenSeq(a)
    BY <1>1, ConcatEmptySeq
  <2>2. <<>> \in Seq(T)
    BY EmptySeq
  <2>3. FlattenSeq(<<>>) = <<>>
    BY <2>2, FlattenSmall
  <2> QED BY <2>1, <2>3, EmptySeq
<1>3. ASSUME NEW s \in Seq(Seq(T)), NEW e \in Seq(T), s \in J
      PROVE  Append(s, e) \in J
  <2>1. PICK u : u = a \o s
    OBVIOUS
  <2>2. u \in Seq(Seq(T)) /\ FlattenSeq(u) = FlattenSeq(a) \o FlattenSeq(s)
    BY <1>3, <2>1, ConcatProperties
  <2>3. a \o Append(s, e) = Append(u, e)
    <3>1. PICK o : o = <<e>>
      OBVIOUS
    <3>2. Append(s, e) = s \o o /\ Append(u, e) = u \o o /\ o \in Seq(Seq(T))
      BY <2>2, <3>1, AppendIsConcat
    <3>3. a \in Seq(Seq(T)) /\ s \in Seq(Seq(T)) /\ o \in Seq(Seq(T))
      BY <3>2
    <3>4. (a \o s) \o o = a \o (s \o o)
      BY ONLY SMTT(60), <3>3, Reassociate
    <3> QED BY <2>1, <3>2, <3>4
  <2>4. FlattenSeq(Append(u, e)) = FlattenSeq(u) \o e
    BY <2>2, FlattenAppend
  <2>5. FlattenSeq(Append(s, e)) = FlattenSeq(s) \o e
    BY FlattenAppend
  <2>6. FlattenSeq(s) \in Seq(T)
    BY FlattenType
  <2>7. (FlattenSeq(a) \o FlattenSeq(s)) \o e = FlattenSeq(a) \o (FlattenSeq(s) \o e)
    <3>1. PICK p, q : p = FlattenSeq(a) /\ q = FlattenSeq(s)
      OBVIOUS
    <3>2. p \in Seq(T) /\ q \in Seq(T) /\ e \in Seq(T)
      BY <1>1, <2>6, <3>1
    <3>3. (p \o q) \o e = p \o (q \o e)
      BY ONLY SMTT(60), <3>2, Reassociate
    <3> QED BY <3>1, <3>3
  <2>8. FlattenSeq(a \o Append(s, e)) = FlattenSeq(a) \o FlattenSeq(Append(s, e))
    BY <2>2, <2>3, <2>4, <2>5, <2>7
  <2>9. Append(s, e) \in Seq(Seq(T))
    BY AppendProperties
  <2> QED BY <2>8, <2>9
<1> HIDE DEF J
<1>4. b \in J
  BY <1>2, <1>3, SeqInduction
<1> QED BY <1>4 DEF J

\* The two equations of the next lemma have names, so that it can be cited.
IsAppended(longer, seq, e) == longer = Append(seq, e)
FoldsOneMore(h, longer, step, g, seq, e) == h[DOMAIN longer] = step[<<g[DOMAIN seq], e>>]

\* A fold over one more element is one more step.
LEMMA FoldStep ==
  ASSUME NEW T, NEW E, NEW base \in T, NEW step \in [T \X E -> T], NEW seq \in Seq(E),
         NEW e \in E, NEW longer, IsAppended(longer, seq, e), NEW g, NEW h,
         IsFold(g, T, base, step, seq), IsFold(h, T, base, step, longer)
  PROVE  FoldsOneMore(h, longer, step, g, seq, e)
<1>1. PICK n \in Nat : n = Len(seq)
  BY LenProperties
<1>2. /\ longer \in Seq(E) /\ Len(longer) = n + 1 /\ longer[n + 1] = e
      /\ \A i \in 1 .. n : longer[i] = seq[i]
  BY <1>1, AppendProperties DEF IsAppended
<1>3. DOMAIN seq = 1 .. n /\ DOMAIN longer = 1 .. n + 1
  BY <1>1, <1>2, LenProperties
<1>4. g[{}] = base /\ h[{}] = base
  BY DEF IsFold
<1>5. ASSUME NEW k \in 1 .. n
      PROVE  g[1 .. k] = step[<<g[1 .. k - 1], seq[k]>>]
  <2>1. 1 .. k # {} /\ Max(1 .. k) = k /\ (1 .. k) \ {k} = 1 .. k - 1
    BY SMTT(30), LastPosition
  <2>2. PICK p : p = 1 .. k
    OBVIOUS
  <2>3. p \in SUBSET (DOMAIN seq) /\ p # {}
    BY <1>3, <2>1, <2>2
  <2>4. g[p] = step[<<g[p \ {Max(p)}], seq[Max(p)]>>]
    BY <2>3 DEF IsFold
  <2> QED BY <2>1, <2>2, <2>4
<1>6. ASSUME NEW k \in 1 .. n + 1
      PROVE  h[1 .. k] = step[<<h[1 .. k - 1], longer[k]>>]
  <2>1. 1 .. k # {} /\ Max(1 .. k) = k /\ (1 .. k) \ {k} = 1 .. k - 1
    BY SMTT(30), LastPosition
  <2>2. PICK p : p = 1 .. k
    OBVIOUS
  <2>3. p \in SUBSET (DOMAIN longer) /\ p # {}
    BY <1>3, <2>1, <2>2
  <2>4. h[p] = step[<<h[p \ {Max(p)}], longer[Max(p)]>>]
    BY <2>3 DEF IsFold
  <2> QED BY <2>1, <2>2, <2>4
<1> DEFINE Differ == {k \in 0 .. n : g[1 .. k] # h[1 .. k]}
<1>7. Differ = {}
  <2> SUFFICES ASSUME Differ # {} PROVE FALSE
    OBVIOUS
  <2>1. Differ \in SUBSET Nat
    OBVIOUS
  <2>2. PICK k \in Differ : \A j \in Differ : k <= j
    <3> HIDE DEF Differ
    <3> QED BY <2>1, LeastExists
  <2>3. k \in 0 .. n /\ g[1 .. k] # h[1 .. k]
    OBVIOUS
  <2>4. k # 0
    <3>1. 1 .. 0 = {}
      OBVIOUS
    <3> QED BY <1>4, <2>3, <3>1
  <2>5. k \in 1 .. n /\ k \in 1 .. n + 1 /\ k - 1 \in 0 .. n /\ k - 1 < k
    BY <2>3, <2>4
  <2>6. k - 1 \notin Differ
    <3> HIDE DEF Differ
    <3> QED BY <2>1, <2>2, <2>5
  <2>7. g[1 .. k - 1] = h[1 .. k - 1]
    BY <2>5, <2>6
  <2> QED BY <1>2, <1>5, <1>6, <2>3, <2>5, <2>7
<1>8. g[1 .. n] = h[1 .. n]
  <2>1. n \in 0 .. n
    OBVIOUS
  <2> QED BY <1>7, <2>1
<1>9. h[1 .. n + 1] = step[<<h[1 .. n], longer[n + 1]>>]
  <2>1. n + 1 \in 1 .. n + 1 /\ (n + 1) - 1 = n
    OBVIOUS
  <2> QED BY <1>6, <2>1
<1> QED BY <1>2, <1>3, <1>8, <1>9 DEF FoldsOneMore

\* y is s with the entry e put in behind its first k entries.
PutBehind(T, s, k, e, y) ==
  \E a, o, b \in Seq(T) : /\ s = a \o b /\ o = <<e>>
                          /\ Len(a) = k /\ Len(o) = 1 /\ o[1] = e
                          /\ y = (a \o o) \o b

LEMMA InsertAtSplits ==
  ASSUME NEW T, NEW s \in Seq(T), NEW k \in 0 .. Len(s), NEW e \in T
  PROVE  PutBehind(T, s, k, e, InsertAt(s, k + 1, e))
<1>1. PICK n \in Nat : n = Len(s) /\ DOMAIN s = 1 .. n
  BY LenProperties
<1>2. PICK a, o, b : a = SubSeq(s, 1, k) /\ o = <<e>> /\ b = SubSeq(s, k + 1, Len(s))
  OBVIOUS
<1>3. a \in Seq(T) /\ Len(a) = k
  <2>1. \A j \in 1 .. k : s[j] \in T
    BY <1>1, ElementOfSeq
  <2> QED BY <1>1, <1>2, <2>1, SubSeqProperties
<1>4. b \in Seq(T) /\ o \in Seq(T) /\ Len(o) = 1 /\ o[1] = e
  <2>1. \A j \in k + 1 .. n : s[j] \in T
    BY <1>1, ElementOfSeq
  <2> QED BY <1>1, <1>2, <2>1, SubSeqProperties
<1>5. s = a \o b
  <2>1. 1 \in 1 .. Len(s) + 1 /\ k \in 1 - 1 .. Len(s) /\ Len(s) \in k .. Len(s)
    BY <1>1
  <2>2. SubSeq(s, 1, k) \o SubSeq(s, k + 1, Len(s)) = SubSeq(s, 1, Len(s))
    BY <2>1, ConcatAdjacentSubSeq
  <2> QED BY <1>2, <2>2, SubSeqFull
<1>6. InsertAt(s, k + 1, e) = (a \o o) \o b
  <2>1. (k + 1) - 1 = k
    BY <1>1
  <2> QED BY <1>2, <2>1 DEF InsertAt
<1>7. PICK y : y = InsertAt(s, k + 1, e)
  OBVIOUS
<1>8. PutBehind(T, s, k, e, y)
  BY <1>2, <1>3, <1>4, <1>5, <1>6, <1>7 DEF PutBehind
<1> QED BY <1>7, <1>8

\* Every entry keeps its place or moves one on.
LEMMA PutBehindProperties ==
  ASSUME NEW T, NEW s \in Seq(T), NEW k \in 0 .. Len(s), NEW e \in T, NEW y,
         PutBehind(T, s, k, e, y)
  PROVE  /\ y \in Seq(T)
         /\ Len(y) = Len(s) + 1
         /\ \A j \in 1 .. Len(s) + 1 :
              y[j] = IF j <= k THEN s[j] ELSE IF j = k + 1 THEN e ELSE s[j - 1]
<1>1. PICK n \in Nat : n = Len(s)
  BY LenProperties
<1>2. PICK a, o, b \in Seq(T) : /\ s = a \o b /\ o = <<e>>
                                /\ Len(a) = k /\ Len(o) = 1 /\ o[1] = e
                                /\ y = (a \o o) \o b
  BY DEF PutBehind
<1>3. s = a \o b /\ Len(a) = k
  BY <1>2
<1>4. Len(o) = 1 /\ o[1] = e
  BY <1>2
<1>5. PICK x : x = a \o o
  OBVIOUS
<1>6. PICK l \in Nat : l = Len(b)
  BY <1>3, LenProperties
<1>7. /\ n = k + l
      /\ \A j \in 1 .. n : s[j] = IF j <= k THEN a[j] ELSE b[j - k]
  <2>1. /\ Len(s) = Len(a) + Len(b)
        /\ \A j \in 1 .. Len(a) + Len(b) : s[j] = IF j <= Len(a) THEN a[j] ELSE b[j - Len(a)]
    BY <1>3, ConcatProperties
  <2> QED BY <1>1, <1>3, <1>6, <2>1
<1>8. /\ x \in Seq(T) /\ Len(x) = k + 1
      /\ \A j \in 1 .. k + 1 : x[j] = IF j <= k THEN a[j] ELSE e
  <2>1. /\ x \in Seq(T) /\ Len(x) = Len(a) + Len(o)
        /\ \A j \in 1 .. Len(a) + Len(o) : x[j] = IF j <= Len(a) THEN a[j] ELSE o[j - Len(a)]
    BY <1>3, <1>5, ConcatProperties
  <2>2. Len(a) + Len(o) = k + 1
    BY <1>3, <1>4
  <2>3. \A j \in 1 .. k + 1 : ~(j <= k) => j - k = 1
    BY <1>1
  <2> QED BY <1>3, <1>4, <2>1, <2>2, <2>3
<1>9. /\ y \in Seq(T) /\ Len(y) = n + 1
      /\ \A j \in 1 .. n + 1 : y[j] = IF j <= k + 1 THEN x[j] ELSE b[j - (k + 1)]
  <2>1. /\ y \in Seq(T) /\ Len(y) = Len(x) + Len(b)
        /\ \A j \in 1 .. Len(x) + Len(b) : y[j] = IF j <= Len(x) THEN x[j] ELSE b[j - Len(x)]
    BY <1>2, <1>5, <1>8, ConcatProperties
  <2>2. Len(x) + Len(b) = n + 1
    BY <1>1, <1>6, <1>7, <1>8
  <2> QED BY <1>8, <2>1, <2>2
<1>10. ASSUME NEW j \in 1 .. n + 1
       PROVE  y[j] = IF j <= k THEN s[j] ELSE IF j = k + 1 THEN e ELSE s[j - 1]
  <2>0. k \in Nat /\ k <= n
    BY <1>1
  <2>1. CASE j <= k
    <3>1. j \in 1 .. k + 1 /\ j <= k + 1 /\ j \in 1 .. n
      BY <2>0, <2>1
    <3> QED BY <1>7, <1>8, <1>9, <2>1, <3>1
  <2>2. CASE j = k + 1
    <3>1. j \in 1 .. k + 1 /\ ~(j <= k) /\ j <= k + 1
      BY <2>0, <2>2
    <3> QED BY <1>8, <1>9, <2>2, <3>1
  <2>3. CASE j > k + 1
    <3>1. /\ ~(j <= k) /\ j # k + 1 /\ ~(j <= k + 1) /\ j - 1 \in 1 .. n
          /\ ~(j - 1 <= k) /\ (j - 1) - k = j - (k + 1)
      BY <2>0, <2>3
    <3>2. y[j] = b[j - (k + 1)]
      BY <1>9, <3>1
    <3>3. s[j - 1] = b[j - (k + 1)]
      BY ONLY <1>7, <3>1
    <3> QED BY <3>1, <3>2, <3>3
  <2> QED BY <2>0, <2>1, <2>2, <2>3
<1> QED BY <1>1, <1>9, <1>10

\* Lists that differ at position k + 1 only are the same on both sides of it.
Around(T, s, e, a, b) == \E o \in Seq(T) : o = <<e>> /\ s = (a \o o) \o b

LEMMA SplitAround ==
  ASSUME NEW T, NEW s \in Seq(T), NEW t \in Seq(T), NEW k \in Nat, k < Len(s),
         Len(t) = Len(s), \A i \in 1 .. Len(s) : i # k + 1 => s[i] = t[i]
  PROVE  \E a, b \in Seq(T) : Around(T, s, s[k + 1], a, b) /\ Around(T, t, t[k + 1], a, b)
<1>1. PICK n \in Nat : n = Len(s) /\ DOMAIN s = 1 .. n
  BY LenProperties
<1>2. PICK a, b : a = SubSeq(s, 1, k) /\ b = SubSeq(s, k + 2, n)
  OBVIOUS
<1>3. a \in Seq(T) /\ Len(a) = k /\ \A j \in 1 .. k : a[j] = s[j]
  <2>1. \A j \in 1 .. k : s[j] \in T
    BY <1>1, ElementOfSeq
  <2> QED BY <1>1, <1>2, <2>1, SubSeqProperties
<1>4. b \in Seq(T) /\ Len(b) = n - (k + 1) /\ \A j \in 1 .. n - (k + 1) : b[j] = s[j + (k + 1)]
  <2>1. \A j \in k + 2 .. n : s[j] \in T
    BY <1>1, ElementOfSeq
  <2>2. k + 2 \in 1 .. n + 1
    BY <1>1
  <2> QED BY <1>1, <1>2, <2>1, <2>2, SubSeqProperties
<1>5. PICK r : r = a \o b
  OBVIOUS
<1>6. PICK m \in Nat : m = n - 1 /\ k <= m
  BY <1>1
<1>7. /\ r \in Seq(T) /\ Len(r) = m
      /\ \A j \in 1 .. m : r[j] = IF j <= k THEN s[j] ELSE s[j + 1]
  <2>1. /\ r \in Seq(T) /\ Len(r) = Len(a) + Len(b)
        /\ \A j \in 1 .. Len(a) + Len(b) : r[j] = IF j <= Len(a) THEN a[j] ELSE b[j - Len(a)]
    <3>1. a \in Seq(T) /\ b \in Seq(T)
      BY <1>3, <1>4
    <3> QED BY ONLY <1>5, <3>1, ConcatProperties
  <2>2. Len(a) + Len(b) = m
    BY <1>1, <1>3, <1>4, <1>6
  <2>3. \A j \in 1 .. m : ~(j <= k) => j - k \in 1 .. n - (k + 1) /\ (j - k) + (k + 1) = j + 1
    BY <1>1, <1>6
  <2>4. \A j \in 1 .. m : j <= k => j \in 1 .. k
    BY <1>1, <1>6
  <2> QED BY <1>3, <1>4, <2>1, <2>2, <2>3, <2>4
<1>8. ASSUME NEW u \in Seq(T), Len(u) = n, \A i \in 1 .. n : i # k + 1 => s[i] = u[i]
      PROVE  Around(T, u, u[k + 1], a, b)
  <2>1. u[k + 1] \in T
    BY <1>1, <1>8, ElementOfSeq
  <2>2. PICK e \in T : e = u[k + 1]
    BY <2>1
  <2>3. PICK o : o = <<e>>
    OBVIOUS
  <2>31. o \in Seq(T) /\ Len(o) = 1 /\ o[1] = e
    BY ONLY <2>2, <2>3
  <2>4. PICK y : y = (a \o o) \o b
    OBVIOUS
  <2>5. PutBehind(T, r, k, e, y)
    BY <1>3, <1>4, <1>5, <2>3, <2>31, <2>4 DEF PutBehind
  <2>6. k \in 0 .. Len(r)
    BY <1>6, <1>7
  <2>7. /\ y \in Seq(T) /\ Len(y) = Len(r) + 1
        /\ \A j \in 1 .. Len(r) + 1 :
             y[j] = IF j <= k THEN r[j] ELSE IF j = k + 1 THEN e ELSE r[j - 1]
    <3>1. r \in Seq(T) /\ e \in T
      BY <1>7, <2>2
    <3> QED BY ONLY <2>5, <2>6, <3>1, PutBehindProperties
  <2>8. Len(r) + 1 = n
    BY <1>1, <1>6, <1>7
  <2>9. ASSUME NEW j \in 1 .. n PROVE y[j] = u[j]
    <3>1. CASE j <= k
      <4>1. j \in 1 .. m /\ j # k + 1
        BY <1>6, <3>1
      <4> QED BY <1>7, <1>8, <2>7, <2>8, <3>1, <4>1
    <3>2. CASE j = k + 1
      <4>1. ~(j <= k)
        BY <3>2
      <4> QED BY <2>2, <2>7, <2>8, <3>2, <4>1
    <3>3. CASE j > k + 1
      <4>1. j - 1 \in 1 .. m /\ ~(j - 1 <= k) /\ (j - 1) + 1 = j /\ ~(j <= k) /\ j # k + 1
        BY <1>6, <3>3
      <4> QED BY <1>7, <1>8, <2>7, <2>8, <4>1
    <3> QED BY <3>1, <3>2, <3>3
  <2>10. y = u
    BY <1>8, <2>7, <2>8, <2>9, SeqEqual
  <2> QED BY <2>2, <2>3, <2>31, <2>4, <2>10 DEF Around
<1>9. Around(T, s, s[k + 1], a, b)
  BY <1>1, <1>8
<1>10. Around(T, t, t[k + 1], a, b)
  BY <1>1, <1>8
<1> QED BY <1>3, <1>4, <1>9, <1>10

LEMMA FlattenAround ==
  ASSUME NEW T, NEW s, NEW e \in Seq(T), NEW a \in Seq(Seq(T)), NEW b \in Seq(Seq(T)),
         Around(Seq(T), s, e, a, b)
  PROVE  /\ FlattenSeq(s) = (FlattenSeq(a) \o e) \o FlattenSeq(b)
         /\ FlattenSeq(a) \in Seq(T) /\ FlattenSeq(b) \in Seq(T)
<1>1. PICK o \in Seq(Seq(T)) : o = <<e>> /\ s = (a \o o) \o b
  BY DEF Around
<1>2. PICK x : x = a \o o
  OBVIOUS
<1>3. x \in Seq(Seq(T))
  <2>1. PICK Q : Q = Seq(T)
    OBVIOUS
  <2>2. a \in Seq(Q) /\ o \in Seq(Q)
    BY <2>1
  <2>3. x \in Seq(Q)
    BY ONLY <1>2, <2>2, ConcatProperties
  <2> QED BY <2>1, <2>3
<1>4. FlattenSeq(x) = FlattenSeq(a) \o FlattenSeq(o)
  BY <1>2, FlattenConcat
<1>5. FlattenSeq(o) = e
  BY <1>1, FlattenSmall
<1>6. FlattenSeq(s) = FlattenSeq(x) \o FlattenSeq(b)
  BY <1>1, <1>2, <1>3, FlattenConcat
<1> QED BY <1>4, <1>5, <1>6, FlattenType

\* Nothing put together is nothing.
LEMMA ThreeEmpty ==
  ASSUME NEW T, NEW x, NEW y, NEW z, x \in Seq(T), y \in Seq(T), z \in Seq(T),
         <<>> = (x \o y) \o z
  PROVE  x = <<>> /\ y = <<>> /\ z = <<>>
<1>1. PICK u : u = x \o y
  OBVIOUS
<1>2. u \in Seq(T) /\ Len(u) = Len(x) + Len(y)
  BY <1>1, ConcatProperties
<1>3. Len(<<>>) = Len(u) + Len(z)
  BY <1>1, <1>2, ConcatProperties
<1>4. Len(x) \in Nat /\ Len(y) \in Nat /\ Len(z) \in Nat /\ Len(<<>>) = 0
  BY LenProperties
<1>5. Len(x) = 0 /\ Len(y) = 0 /\ Len(z) = 0
  BY <1>2, <1>3, <1>4
<1> QED BY <1>5, EmptySeq

-----------------------------------------------------------------------------
(***************************************************************************)
(* Lists that grow by insertions.                                          *)
(***************************************************************************)

\* Where z occurs in a list, and how often.
Occurrences(s, z) == {i \in DOMAIN s : s[i] = z}
Count(s, z) == Cardinality(Occurrences(s, z))

LEMMA CountType ==
  ASSUME NEW T, NEW s \in Seq(T), NEW z
  PROVE  /\ IsFiniteSet(Occurrences(s, z)) /\ Count(s, z) \in Nat
         /\ Count(s, z) = 0 <=> \A i \in DOMAIN s : s[i] # z
<1>1. Occurrences(s, z) \subseteq 1 .. Len(s) /\ Len(s) \in Nat
  BY LenProperties DEF Occurrences
<1>2. IsFiniteSet(1 .. Len(s))
  BY <1>1, FS_Interval
<1>3. IsFiniteSet(Occurrences(s, z)) /\ Count(s, z) \in Nat
  BY <1>1, <1>2, FS_Subset, FS_CardinalityType DEF Count
<1>4. Count(s, z) = 0 <=> Occurrences(s, z) = {}
  BY <1>3, FS_EmptySet DEF Count
<1>5. Occurrences(s, z) = {} <=> \A i \in DOMAIN s : s[i] # z
  BY DEF Occurrences
<1> QED BY <1>3, <1>4, <1>5

\* An entry that is put in counts once, for itself.
LEMMA CountPut ==
  ASSUME NEW T, NEW s \in Seq(T), NEW k \in 0 .. Len(s), NEW e \in T, NEW y,
         PutBehind(T, s, k, e, y), NEW z
  PROVE  Count(y, z) = Count(s, z) + (IF z = e THEN 1 ELSE 0)
<1>1. PICK n \in Nat : n = Len(s) /\ DOMAIN s = 1 .. n
  BY LenProperties
<1>2. /\ y \in Seq(T) /\ DOMAIN y = 1 .. n + 1
      /\ \A j \in 1 .. n + 1 :
           y[j] = IF j <= k THEN s[j] ELSE IF j = k + 1 THEN e ELSE s[j - 1]
  <2>1. /\ y \in Seq(T) /\ Len(y) = Len(s) + 1
        /\ \A j \in 1 .. Len(s) + 1 :
             y[j] = IF j <= k THEN s[j] ELSE IF j = k + 1 THEN e ELSE s[j - 1]
    BY PutBehindProperties
  <2>2. DOMAIN y = 1 .. Len(y)
    BY <2>1, LenProperties
  <2> QED BY <1>1, <2>1, <2>2
<1>3. PICK A, B, f : /\ A = Occurrences(s, z) /\ B = Occurrences(y, z) \ {k + 1}
                     /\ f = [i \in A |-> IF i <= k THEN i ELSE i + 1]
  OBVIOUS
<1>4. \A i \in A : i \in 1 .. n /\ s[i] = z
  BY <1>1, <1>3 DEF Occurrences
<1>5. ASSUME NEW i \in A PROVE f[i] \in B
  <2>1. CASE i <= k
    <3>1. f[i] = i /\ i \in 1 .. n + 1 /\ i # k + 1
      BY <1>1, <1>3, <1>4, <2>1
    <3>2. y[i] = z
      BY <1>2, <1>4, <2>1, <3>1
    <3> QED BY <1>2, <1>3, <3>1, <3>2 DEF Occurrences
  <2>2. CASE ~(i <= k)
    <3>1. PICK j : j = i + 1
      OBVIOUS
    <3>2. f[i] = j /\ j \in 1 .. n + 1 /\ j # k + 1 /\ ~(j <= k) /\ j - 1 = i
      BY <1>1, <1>3, <1>4, <2>2, <3>1
    <3>3. y[j] = z
      BY <1>2, <1>4, <3>2
    <3> QED BY <1>2, <1>3, <3>2, <3>3 DEF Occurrences
  <2> QED BY <2>1, <2>2
<1>6. f \in [A -> B]
  BY <1>3, <1>5
<1>7. \A i, j \in A : f[i] = f[j] => i = j
  BY <1>1, <1>3, <1>4
<1>8. ASSUME NEW j \in B PROVE \E i \in A : f[i] = j
  <2>1. j \in 1 .. n + 1 /\ y[j] = z /\ j # k + 1
    BY <1>2, <1>3 DEF Occurrences
  <2>2. CASE j <= k
    <3>1. j \in 1 .. n /\ s[j] = z
      BY <1>1, <1>2, <2>1, <2>2
    <3>2. j \in A
      BY <1>1, <1>3, <3>1 DEF Occurrences
    <3>3. f[j] = j
      BY <1>3, <2>2, <3>2
    <3> QED BY <3>2, <3>3
  <2>3. CASE ~(j <= k)
    <3>1. PICK i : i = j - 1
      OBVIOUS
    <3>2. i \in 1 .. n /\ ~(i <= k) /\ i + 1 = j
      BY <1>1, <2>1, <2>3, <3>1
    <3>3. s[i] = z
      BY <1>2, <2>1, <2>3, <3>1
    <3>4. i \in A
      BY <1>1, <1>3, <3>2, <3>3 DEF Occurrences
    <3>5. f[i] = j
      BY <1>3, <3>2, <3>4
    <3> QED BY <3>4, <3>5
  <2> QED BY <2>2, <2>3
<1>9. IsFiniteSet(A)
  BY <1>3, CountType
<1>10. IsFiniteSet(B) /\ Cardinality(B) = Count(s, z) /\ Count(s, z) \in Nat
  <2>1. IsFiniteSet(B) /\ Cardinality(B) = Cardinality(A)
    BY <1>6, <1>7, <1>8, <1>9, SameSize
  <2> QED BY <1>3, <2>1, CountType DEF Count
<1>11. y[k + 1] = e /\ k + 1 \in 1 .. n + 1
  <2>1. k + 1 \in 1 .. n + 1 /\ ~(k + 1 <= k)
    BY <1>1
  <2> QED BY <1>2, <2>1
<1>12. CASE z = e
  <2>1. Occurrences(y, z) = B \cup {k + 1} /\ k + 1 \notin B
    BY <1>2, <1>3, <1>11, <1>12 DEF Occurrences
  <2>2. Cardinality(B \cup {k + 1}) = Cardinality(B) + 1
    BY <1>10, <2>1, FS_AddElement
  <2> QED BY <1>10, <1>12, <2>1, <2>2 DEF Count
<1>13. CASE z # e
  <2>1. Occurrences(y, z) = B
    BY <1>3, <1>11, <1>13 DEF Occurrences
  <2> QED BY <1>10, <1>13, <2>1 DEF Count
<1> QED BY <1>12, <1>13

\* Every entry of old is in new, in the same order.
Embeds(old, new) ==
  \E place \in [DOMAIN old -> DOMAIN new] :
    /\ \A i, j \in DOMAIN old : i < j => place[i] < place[j]
    /\ \A i \in DOMAIN old : new[place[i]] = old[i]

LEMMA EmbedsItself ==
  ASSUME NEW T, NEW s \in Seq(T)
  PROVE  Embeds(s, s)
<1>1. PICK p : p = [i \in DOMAIN s |-> i]
  OBVIOUS
<1>2. p \in [DOMAIN s -> DOMAIN s] /\ \A i \in DOMAIN s : p[i] = i
  BY <1>1
<1> QED BY <1>2 DEF Embeds

LEMMA EmbedsPut ==
  ASSUME NEW T, NEW old \in Seq(T), NEW s \in Seq(T), Embeds(old, s),
         NEW k \in 0 .. Len(s), NEW e \in T, NEW y, PutBehind(T, s, k, e, y)
  PROVE  Embeds(old, y)
<1>1. PICK n \in Nat : n = Len(s) /\ DOMAIN s = 1 .. n
  BY LenProperties
<1>2. /\ DOMAIN y = 1 .. n + 1
      /\ \A j \in 1 .. n + 1 :
           y[j] = IF j <= k THEN s[j] ELSE IF j = k + 1 THEN e ELSE s[j - 1]
  <2>1. /\ y \in Seq(T) /\ Len(y) = Len(s) + 1
        /\ \A j \in 1 .. Len(s) + 1 :
             y[j] = IF j <= k THEN s[j] ELSE IF j = k + 1 THEN e ELSE s[j - 1]
    BY PutBehindProperties
  <2>2. DOMAIN y = 1 .. Len(y)
    BY <2>1, LenProperties
  <2> QED BY <1>1, <2>1, <2>2
<1>3. PICK place \in [DOMAIN old -> DOMAIN s] :
        /\ \A i, j \in DOMAIN old : i < j => place[i] < place[j]
        /\ \A i \in DOMAIN old : s[place[i]] = old[i]
  BY DEF Embeds
<1>4. PICK p : p = [i \in DOMAIN old |-> IF place[i] <= k THEN place[i] ELSE place[i] + 1]
  OBVIOUS
<1>5. ASSUME NEW i \in DOMAIN old PROVE p[i] \in 1 .. n + 1 /\ y[p[i]] = old[i]
  <2>1. PICK m \in 1 .. n : m = place[i]
    BY <1>1, <1>3
  <2>2. CASE m <= k
    <3>1. p[i] = m /\ m \in 1 .. n + 1
      BY <1>1, <1>4, <2>1, <2>2
    <3> QED BY <1>2, <1>3, <2>1, <2>2, <3>1
  <2>3. CASE ~(m <= k)
    <3>1. PICK j : j = m + 1
      OBVIOUS
    <3>2. p[i] = j /\ j \in 1 .. n + 1 /\ ~(j <= k) /\ j # k + 1 /\ j - 1 = m
      BY <1>1, <1>4, <2>1, <2>3, <3>1
    <3>3. y[j] = s[m]
      BY <1>2, <3>2
    <3> QED BY <1>3, <2>1, <3>2, <3>3
  <2> QED BY <2>2, <2>3
<1>6. ASSUME NEW i \in DOMAIN old, NEW j \in DOMAIN old, i < j PROVE p[i] < p[j]
  <2>1. place[i] \in Nat /\ place[j] \in Nat /\ place[i] < place[j]
    BY <1>1, <1>3, <1>6
  <2> QED BY <1>1, <1>4, <2>1
<1>7. p \in [DOMAIN old -> DOMAIN y]
  BY <1>2, <1>4, <1>5
<1> QED BY <1>5, <1>6, <1>7 DEF Embeds

\* new is old with the entries of added put in, at whatever places.
Grown(T, old, added, new) ==
  /\ new \in Seq(T) /\ added \in Seq(T)
  /\ Embeds(old, new)
  /\ \A z : Count(new, z) = Count(old, z) + Count(added, z)

LEMMA GrownStart ==
  ASSUME NEW T, NEW s \in Seq(T)
  PROVE  Grown(T, s, <<>>, s)
<1>1. PICK o : o = <<>>
  OBVIOUS
<1>2. o \in Seq(T) /\ DOMAIN o = {}
  BY <1>1
<1>3. \A z : Count(o, z) = 0 /\ Count(s, z) \in Nat
  BY <1>2, CountType
<1>4. Grown(T, s, o, s)
  BY <1>2, <1>3, EmbedsItself DEF Grown
<1> QED BY <1>1, <1>4

\* One entry more.
IsLonger(T, s, e, t) == PutBehind(T, s, Len(s), e, t)

LEMMA AppendIsLonger ==
  ASSUME NEW T, NEW s \in Seq(T), NEW e \in T
  PROVE  IsLonger(T, s, e, Append(s, e))
<1>1. PICK t : t = Append(s, e)
  OBVIOUS
<1>2. PICK o, b : o = <<e>> /\ b = <<>>
  OBVIOUS
<1>3. o \in Seq(T) /\ Len(o) = 1 /\ o[1] = e
  BY <1>2
<1>4. b \in Seq(T)
  BY <1>2
<1>5. s = s \o b
  BY <1>2, ConcatEmptySeq
<1>6. PICK u \in Seq(T) : u = s \o o
  BY <1>3, ConcatProperties
<1>7. u \o b = u
  BY <1>2, <1>6, ConcatEmptySeq
<1>8. t = s \o o
  BY <1>1, <1>2, AppendIsConcat
<1>9. PutBehind(T, s, Len(s), e, t)
  BY <1>2, <1>5, <1>6, <1>7, <1>8, <1>3, <1>4 DEF PutBehind
<1> QED BY <1>1, <1>9 DEF IsLonger

LEMMA GrownNext ==
  ASSUME NEW T, NEW old \in Seq(T), NEW added, NEW s, Grown(T, old, added, s),
         NEW k \in 0 .. Len(s), NEW e \in T, NEW y, PutBehind(T, s, k, e, y),
         NEW more, IsLonger(T, added, e, more)
  PROVE  Grown(T, old, more, y)
<1>1. s \in Seq(T) /\ added \in Seq(T) /\ Embeds(old, s)
  BY DEF Grown
<1>2. y \in Seq(T) /\ Embeds(old, y)
  BY <1>1, PutBehindProperties, EmbedsPut
<1>3. Len(added) \in 0 .. Len(added) /\ PutBehind(T, added, Len(added), e, more)
  BY <1>1, LenProperties DEF IsLonger
<1>4. more \in Seq(T)
  BY <1>1, <1>3, PutBehindProperties
<1>5. ASSUME NEW z PROVE Count(y, z) = Count(old, z) + Count(more, z)
  <2>1. Count(y, z) = Count(s, z) + (IF z = e THEN 1 ELSE 0)
    BY <1>1, CountPut
  <2>2. Count(more, z) = Count(added, z) + (IF z = e THEN 1 ELSE 0)
    BY <1>1, <1>3, CountPut
  <2>3. Count(s, z) = Count(old, z) + Count(added, z)
    BY DEF Grown
  <2>4. Count(old, z) \in Nat /\ Count(added, z) \in Nat /\ Count(s, z) \in Nat
    BY <1>1, CountType
  <2> QED BY <2>1, <2>2, <2>3, <2>4
<1> QED BY <1>2, <1>4, <1>5 DEF Grown
=============================================================================
