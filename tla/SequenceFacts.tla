---------------------------- MODULE SequenceFacts ----------------------------
(* What the proofs about the web server, the echo programs and the trace      *)
(* driver need to know of numbers, sequences and sums, whatever they stand    *)
(* for.                                                                       *)
EXTENDS Integers, Sequences, SequencesExt, FiniteSetsExt, SequenceTheorems, FiniteSetTheorems,
        WellFoundedInduction, TLAPS

(* The least of some numbers: the way to an induction over data, by the least *)
(* number that breaks the rule.                                               *)
LEMMA LeastNumber ==
    ASSUME NEW S \in SUBSET Nat, S # {}
    PROVE  \E n \in S : \A m \in S : n <= m
<1> DEFINE R == OpToRel(<, Nat)
<1>1. IsWellFoundedOn(R, Nat)
  BY NatLessThanWellFounded
<1>2. \A m, n \in Nat : m < n => << m, n >> \in R
  BY DEF OpToRel
<1> HIDE DEF R
<1>3. PICK n \in S : \A m \in S : << m, n >> \notin R
  BY <1>1, WFMin
<1>4. ASSUME NEW m \in S PROVE n <= m
  <2>1. m \in Nat /\ n \in Nat /\ ~(m < n)
    BY <1>2, <1>3
  <2> QED
    BY <2>1
<1> QED
  BY <1>4

(* Min finds it.                                                              *)
LEMMA MinIsLeast ==
    ASSUME NEW S \in SUBSET Nat, S # {}
    PROVE  Min(S) \in S /\ \A m \in S : Min(S) <= m
BY LeastNumber DEF Min

-----------------------------------------------------------------------------
(* Sequences                                                                  *)

(* Taking the first element of a sequence that has one.                       *)
LEMMA FirstTaken ==
    ASSUME NEW S, NEW s \in Seq(S), s # << >>
    PROVE  /\ Head(s) \in S /\ Tail(s) \in Seq(S) /\ Len(Tail(s)) = Len(s) - 1
           /\ Len(s) \in Nat \ {0}
           /\ Len(s) = 1 <=> Tail(s) = << >>
<1>1. /\ Head(s) \in S /\ Tail(s) \in Seq(S) /\ Len(Tail(s)) = Len(s) - 1
      /\ Len(s) \in Nat \ {0}
  BY HeadTailProperties, EmptySeq
<1>2. Tail(s) = << >> => Len(s) = 1
  BY <1>1
<1>3. Tail(s) # << >> => Len(s) # 1
  BY <1>1, EmptySeq
<1> QED
  BY <1>1, <1>2, <1>3

(* To append to a sequence leaves what is in it alone.                        *)
LEMMA AppendKeepsFront ==
    ASSUME NEW S, NEW s \in Seq(S), NEW m \in S
    PROVE  \A i \in 1 .. Len(s) : Append(s, m)[i] = s[i]
BY AppendProperties

(* To append to the second of two sequences is to append to both.             *)
LEMMA ConcatThenAppend ==
    ASSUME NEW S, NEW s \in Seq(S), NEW t \in Seq(S), NEW m \in S
    PROVE  s \o Append(t, m) = Append(s \o t, m)
<1>1. << m >> \in Seq(S) /\ Append(t, m) = t \o << m >>
  BY AppendIsConcat
<1>2. s \o t \in Seq(S)
  BY ConcatProperties
<1>3. Append(s \o t, m) = (s \o t) \o << m >>
  BY <1>2, AppendIsConcat
<1>4. (s \o t) \o << m >> = s \o (t \o << m >>)
  BY <1>1, ConcatAssociative
<1> QED
  BY <1>1, <1>3, <1>4

(* The first n elements of a sequence, and the others.                        *)
LEMMA CutInTwo ==
    ASSUME NEW S, NEW s \in Seq(S), NEW n \in 0 .. Len(s)
    PROVE  /\ SubSeq(s, 1, n) \in Seq(S) /\ SubSeq(s, n + 1, Len(s)) \in Seq(S)
           /\ Len(SubSeq(s, 1, n)) = n /\ Len(SubSeq(s, n + 1, Len(s))) = Len(s) - n
           /\ \A i \in 1 .. n : SubSeq(s, 1, n)[i] = s[i]
           /\ \A i \in 1 .. Len(s) - n : SubSeq(s, n + 1, Len(s))[i] = s[n + i]
           /\ SubSeq(s, 1, n) \o SubSeq(s, n + 1, Len(s)) = s
<1> DEFINE u == SubSeq(s, 1, n)
           v == SubSeq(s, n + 1, Len(s))
<1>1. Len(s) \in Nat /\ n \in Nat /\ n <= Len(s)
  BY LenProperties
<1>2. u \in Seq(S) /\ Len(u) = n /\ \A i \in 1 .. n : u[i] = s[i]
  BY <1>1
<1>3. v \in Seq(S) /\ Len(v) = Len(s) - n /\ \A i \in 1 .. Len(s) - n : v[i] = s[n + i]
  BY <1>1
<1> HIDE DEF u, v
<1> DEFINE w == u \o v
<1>4. /\ w \in Seq(S) /\ Len(w) = Len(s)
      /\ \A i \in 1 .. Len(s) : w[i] = IF i <= n THEN u[i] ELSE v[i - n]
  BY <1>1, <1>2, <1>3, ConcatProperties
<1> HIDE DEF w
<1>5. ASSUME NEW i \in 1 .. Len(s) PROVE w[i] = s[i]
  <2>1. CASE i <= n
    BY <1>1, <1>2, <1>4, <2>1
  <2>2. CASE ~(i <= n)
    <3>1. i - n \in 1 .. Len(s) - n /\ n + (i - n) = i
      BY <1>1, <2>2
    <3> QED
      BY <1>3, <1>4, <2>2, <3>1
  <2> QED
    BY <2>1, <2>2
<1>6. w = s
  BY <1>4, <1>5, SeqEqual
<1> QED
  BY <1>2, <1>3, <1>6 DEF u, v, w

(* t is s with one more element, at place p.                                  *)
Inserted(s, p, e, t) ==
    /\ Len(t) = Len(s) + 1
    /\ \A i \in 1 .. p - 1 : t[i] = s[i]
    /\ t[p] = e
    /\ \A i \in p + 1 .. Len(s) + 1 : t[i] = s[i - 1]

(* InsertAt makes it so.                                                      *)
LEMMA InsertedElement ==
    ASSUME NEW S, NEW s \in Seq(S), NEW p \in 1 .. Len(s) + 1, NEW e \in S
    PROVE  InsertAt(s, p, e) \in Seq(S) /\ Inserted(s, p, e, InsertAt(s, p, e))
<1> DEFINE n == p - 1
           u == SubSeq(s, 1, n)
           v == SubSeq(s, n + 1, Len(s))
           t == u \o << e >>
           w == t \o v
<1>1. Len(s) \in Nat /\ p \in Nat /\ n \in 0 .. Len(s) /\ p = n + 1
  BY LenProperties
<1>2. InsertAt(s, p, e) = w
  BY <1>1 DEF InsertAt
<1> HIDE DEF n
<1>3. /\ u \in Seq(S) /\ v \in Seq(S) /\ Len(u) = n /\ Len(v) = Len(s) - n
      /\ \A i \in 1 .. n : u[i] = s[i]
      /\ \A i \in 1 .. Len(s) - n : v[i] = s[n + i]
  BY <1>1, CutInTwo
<1> HIDE DEF u, v
<1>4. << e >> \in Seq(S) /\ Len(<< e >>) = 1 /\ << e >>[1] = e
  OBVIOUS
<1>5. /\ t \in Seq(S) /\ Len(t) = n + 1
      /\ \A i \in 1 .. n + 1 : t[i] = IF i <= n THEN u[i] ELSE e
  <2>1. /\ t \in Seq(S) /\ Len(t) = Len(u) + Len(<< e >>)
        /\ \A i \in 1 .. Len(u) + Len(<< e >>) :
               t[i] = IF i <= Len(u) THEN u[i] ELSE << e >>[i - Len(u)]
    BY <1>3, <1>4, ConcatProperties
  <2>2. ASSUME NEW i \in 1 .. n + 1, ~(i <= n) PROVE i - n = 1
    BY <1>1, <2>2
  <2> QED
    BY <1>1, <1>3, <1>4, <2>1, <2>2
<1> HIDE DEF t
<1>6. /\ w \in Seq(S) /\ Len(w) = Len(s) + 1
      /\ \A i \in 1 .. Len(s) + 1 : w[i] = IF i <= n + 1 THEN t[i] ELSE v[i - (n + 1)]
  <2>1. /\ w \in Seq(S) /\ Len(w) = Len(t) + Len(v)
        /\ \A i \in 1 .. Len(t) + Len(v) :
               w[i] = IF i <= Len(t) THEN t[i] ELSE v[i - Len(t)]
    BY <1>3, <1>5, ConcatProperties
  <2> QED
    BY <1>1, <1>3, <1>5, <2>1
<1> HIDE DEF w
<1>7. ASSUME NEW i \in p + 1 .. Len(s) + 1 PROVE w[i] = s[i - 1]
  <2>1. i \in 1 .. Len(s) + 1 /\ ~(i <= n + 1)
        /\ i - (n + 1) \in 1 .. Len(s) - n /\ n + (i - (n + 1)) = i - 1
    BY <1>1
  <2> QED
    BY <1>3, <1>6, <2>1
<1>8. ASSUME NEW i \in 1 .. p - 1 PROVE w[i] = s[i]
  <2>1. i \in 1 .. Len(s) + 1 /\ i <= n + 1 /\ i \in 1 .. n + 1 /\ i \in 1 .. n /\ i <= n
    BY <1>1
  <2> QED
    BY <1>3, <1>5, <1>6, <2>1
<1>9. w[p] = e
  <2>1. p \in 1 .. Len(s) + 1 /\ p <= n + 1 /\ p \in 1 .. n + 1 /\ ~(p <= n)
    BY <1>1
  <2> QED
    BY <1>5, <1>6, <2>1
<1> QED
  BY <1>2, <1>6, <1>7, <1>8, <1>9 DEF Inserted

-----------------------------------------------------------------------------
(* Prefixes                                                                   *)

(* Element by element.                                                        *)
LEMMA PrefixElements ==
    ASSUME NEW S, NEW s \in Seq(S), NEW t \in Seq(S)
    PROVE  IsPrefix(s, t) <=> Len(s) <= Len(t) /\ \A i \in 1 .. Len(s) : s[i] = t[i]
<1>1. Len(s) \in Nat /\ Len(t) \in Nat /\ SubSeq(s, 1, Len(s)) = s
  BY LenProperties, SubSeqFull
<1>2. CASE Len(s) <= Len(t)
  <2> DEFINE u == SubSeq(t, 1, Len(s))
  <2>1. u \in Seq(S) /\ Len(u) = Len(s) /\ \A i \in 1 .. Len(s) : u[i] = t[i]
    BY <1>1, <1>2
  <2> HIDE DEF u
  <2>2. (\A i \in 1 .. Len(s) : s[i] = t[i]) => s = u
    BY <2>1, SeqEqual
  <2>3. s = u => \A i \in 1 .. Len(s) : s[i] = t[i]
    BY <2>1
  <2> QED
    BY <1>1, <1>2, <2>2, <2>3 DEF IsPrefix, u
<1>3. CASE ~(Len(s) <= Len(t))
  BY <1>3 DEF IsPrefix
<1> QED
  BY <1>2, <1>3

(* A sequence begins what is put together from it.                            *)
LEMMA PrefixOfConcat ==
    ASSUME NEW S, NEW s \in Seq(S), NEW t \in Seq(S)
    PROVE  IsPrefix(s, s \o t)
<1> DEFINE u == s \o t
<1>1. /\ u \in Seq(S) /\ Len(u) = Len(s) + Len(t) /\ Len(s) \in Nat /\ Len(t) \in Nat
      /\ \A i \in 1 .. Len(s) : u[i] = s[i]
  BY ConcatProperties, LenProperties
<1> HIDE DEF u
<1>2. IsPrefix(s, u)
  BY <1>1, PrefixElements
<1> QED
  BY <1>2 DEF u

(* And itself, with one element more.                                         *)
LEMMA PrefixOfAppend ==
    ASSUME NEW S, NEW s \in Seq(S), NEW m \in S
    PROVE  IsPrefix(s, Append(s, m))
<1>1. Append(s, m) = s \o << m >> /\ << m >> \in Seq(S)
  BY AppendIsConcat
<1>2. IsPrefix(s, s \o << m >>)
  BY <1>1, PrefixOfConcat
<1> QED
  BY <1>1, <1>2

(* The empty sequence begins every other, and each begins itself.             *)
LEMMA TrivialPrefixes ==
    ASSUME NEW S, NEW s \in Seq(S)
    PROVE  IsPrefix(<< >>, s) /\ IsPrefix(s, s)
<1> DEFINE e == << >>
<1>1. e \in Seq(S) /\ Len(e) = 0 /\ Len(s) \in Nat
  BY EmptySeq, LenProperties
<1> HIDE DEF e
<1>2. IsPrefix(e, s)
  <2>1. Len(e) <= Len(s) /\ \A i \in 1 .. Len(e) : e[i] = s[i]
    BY <1>1
  <2> QED
    BY <1>1, <2>1, PrefixElements
<1>3. IsPrefix(s, s)
  BY <1>1, PrefixElements
<1> QED
  BY <1>2, <1>3 DEF e

(* What begins the beginning of something begins that.                        *)
LEMMA PrefixOfPrefix ==
    ASSUME NEW S, NEW s \in Seq(S), NEW t \in Seq(S), NEW u \in Seq(S),
           IsPrefix(s, t), IsPrefix(t, u)
    PROVE  IsPrefix(s, u)
<1>1. Len(s) \in Nat /\ Len(t) \in Nat /\ Len(u) \in Nat
  BY LenProperties
<1>2. Len(s) <= Len(t) /\ \A i \in 1 .. Len(s) : s[i] = t[i]
  BY PrefixElements
<1>3. Len(t) <= Len(u) /\ \A i \in 1 .. Len(t) : t[i] = u[i]
  BY PrefixElements
<1>4. Len(s) <= Len(u) /\ \A i \in 1 .. Len(s) : s[i] = u[i]
  BY <1>1, <1>2, <1>3
<1> QED
  BY <1>4, PrefixElements

(* A prefix stays one behind something in common.                             *)
LEMMA PrefixBehind ==
    ASSUME NEW S, NEW p \in Seq(S), NEW s \in Seq(S), NEW t \in Seq(S), IsPrefix(s, t)
    PROVE  IsPrefix(p \o s, p \o t)
<1> DEFINE u == p \o s
           v == p \o t
<1>1. Len(p) \in Nat /\ Len(s) \in Nat /\ Len(t) \in Nat
  BY LenProperties
<1>2. Len(s) <= Len(t) /\ \A i \in 1 .. Len(s) : s[i] = t[i]
  BY PrefixElements
<1>3. /\ u \in Seq(S) /\ Len(u) = Len(p) + Len(s)
      /\ \A i \in 1 .. Len(p) + Len(s) : u[i] = IF i <= Len(p) THEN p[i] ELSE s[i - Len(p)]
  BY ConcatProperties
<1>4. /\ v \in Seq(S) /\ Len(v) = Len(p) + Len(t)
      /\ \A i \in 1 .. Len(p) + Len(t) : v[i] = IF i <= Len(p) THEN p[i] ELSE t[i - Len(p)]
  BY ConcatProperties
<1> HIDE DEF u, v
<1>5. ASSUME NEW i \in 1 .. Len(u) PROVE u[i] = v[i]
  <2>1. i \in 1 .. Len(p) + Len(s) /\ i \in 1 .. Len(p) + Len(t)
    BY <1>1, <1>2, <1>3
  <2>2. CASE i <= Len(p)
    BY <1>3, <1>4, <2>1, <2>2
  <2>3. CASE ~(i <= Len(p))
    <3>1. i - Len(p) \in 1 .. Len(s)
      BY <1>1, <2>1, <2>3
    <3> QED
      BY <1>2, <1>3, <1>4, <2>1, <2>3, <3>1
  <2> QED
    BY <2>2, <2>3
<1>6. Len(u) <= Len(v)
  BY <1>1, <1>2, <1>3, <1>4
<1>7. IsPrefix(u, v)
  BY <1>3, <1>4, <1>5, <1>6, PrefixElements
<1> QED
  BY <1>7 DEF u, v

(* A prefix that is as long as the whole is the whole.                        *)
LEMMA LongPrefix ==
    ASSUME NEW S, NEW s \in Seq(S), NEW t \in Seq(S), IsPrefix(s, t), Len(s) >= Len(t)
    PROVE  s = t
<1>1. Len(s) \in Nat /\ Len(t) \in Nat
  BY LenProperties
<1>2. Len(s) <= Len(t) /\ \A i \in 1 .. Len(s) : s[i] = t[i]
  BY PrefixElements
<1>3. Len(s) = Len(t)
  BY <1>1, <1>2
<1> QED
  BY <1>2, <1>3, SeqEqual

-----------------------------------------------------------------------------
(* Sums                                                                       *)

(* The sums of w over the subsets of I, taken as FoldSet takes them.          *)
IsSum(g, w, I) ==
    g = [s \in SUBSET I |->
            IF s = {} THEN 0 ELSE g[s \ {CHOOSE x \in s : TRUE}] + w[CHOOSE x \in s : TRUE]]

(* There are such sums.                                                       *)
LEMMA SumExists ==
    ASSUME NEW I, IsFiniteSet(I), NEW w
    PROVE  \E g : IsSum(g, w, I)
<1> DEFINE one(s) == CHOOSE x \in s : TRUE
           D(k) == {s \in SUBSET I : Cardinality(s) <= k}
           Up(g, k) == [s \in D(k) |-> IF s = {} THEN 0 ELSE g[s \ {one(s)}] + w[one(s)]]
           P(k) == \E g : g = Up(g, k)
           S == {k \in Nat : ~P(k)}
<1>1. \A s \in SUBSET I : IsFiniteSet(s) /\ Cardinality(s) \in Nat
  BY FS_Subset, FS_CardinalityType
<1>2. ASSUME NEW s \in SUBSET I, s # {}
      PROVE  /\ s \ {one(s)} \in SUBSET I /\ Cardinality(s \ {one(s)}) = Cardinality(s) - 1
             /\ Cardinality(s) # 0
  <2>1. one(s) \in s
    BY <1>2
  <2> QED
    BY <1>1, <1>2, <2>1, FS_RemoveElement, FS_EmptySet
<1> HIDE DEF one
<1>3. P(0)
  <2>1. \A s \in D(0) : s = {}
    <3>1. ASSUME NEW s \in D(0) PROVE s = {}
      <4>1. s \in SUBSET I /\ Cardinality(s) <= 0
        OBVIOUS
      <4>2. Cardinality(s) = 0
        BY <1>1, <4>1
      <4> QED
        BY <1>2, <4>1, <4>2
    <3> QED
      BY <3>1
  <2> DEFINE g == [s \in D(0) |-> 0]
  <2>2. g = Up(g, 0)
    BY <2>1
  <2> QED
    BY <2>2
<1>4. ASSUME NEW k \in Nat, P(k) PROVE P(k + 1)
  <2>1. PICK g : g = Up(g, k)
    BY <1>4
  <2> DEFINE h == Up(g, k + 1)
  <2>2. ASSUME NEW s \in D(k + 1), s # {} PROVE s \ {one(s)} \in D(k) /\ s \ {one(s)} \in D(k + 1)
    <3>1. s \in SUBSET I /\ Cardinality(s) <= k + 1
      OBVIOUS
    <3>2. /\ s \ {one(s)} \in SUBSET I /\ Cardinality(s \ {one(s)}) = Cardinality(s) - 1
          /\ Cardinality(s) \in Nat
      BY <1>1, <1>2, <2>2, <3>1
    <3> QED
      BY <1>4, <3>1, <3>2
  <2>3. ASSUME NEW s \in D(k) PROVE s \in D(k + 1) /\ h[s] = g[s]
    <3>1. s \in SUBSET I /\ Cardinality(s) <= k
      OBVIOUS
    <3>2. s \in D(k + 1)
      BY <1>1, <1>4, <3>1
    <3> HIDE DEF D
    <3>3. h[s] = IF s = {} THEN 0 ELSE g[s \ {one(s)}] + w[one(s)]
      BY <3>2
    <3>4. g[s] = IF s = {} THEN 0 ELSE g[s \ {one(s)}] + w[one(s)]
      <4>1. Up(g, k)[s] = IF s = {} THEN 0 ELSE g[s \ {one(s)}] + w[one(s)]
        OBVIOUS
      <4> HIDE DEF Up
      <4> QED
        BY <2>1, <4>1
    <3> QED
      BY <3>2, <3>3, <3>4
  <2> HIDE DEF D
  <2>4. h = Up(h, k + 1)
    <3>1. \A s \in D(k + 1) : s # {} => h[s \ {one(s)}] = g[s \ {one(s)}]
      BY <2>2, <2>3
    <3> HIDE DEF h
    <3>2. \A s \in D(k + 1) : (IF s = {} THEN 0 ELSE g[s \ {one(s)}] + w[one(s)])
                           = (IF s = {} THEN 0 ELSE h[s \ {one(s)}] + w[one(s)])
      BY <3>1
    <3>3. Up(g, k + 1) = Up(h, k + 1)
      BY <3>2
    <3> QED
      BY <3>3 DEF h
  <2> QED
    BY <2>4
<1>5. P(Cardinality(I))
  <2> HIDE DEF P
  <2>1. ASSUME S # {} PROVE FALSE
    <3>1. PICK k \in S : \A m \in S : k <= m
      BY <2>1, LeastNumber
    <3>2. k \in Nat /\ ~P(k) /\ k # 0
      BY <1>3, <3>1
    <3>3. k - 1 \in Nat /\ ~(k <= k - 1) /\ (k - 1) + 1 = k
      BY <3>2
    <3>4. P(k - 1)
      BY <3>1, <3>3
    <3> HIDE DEF S
    <3> QED
      BY <1>4, <3>2, <3>3, <3>4
  <2>2. Cardinality(I) \in Nat
    BY FS_CardinalityType
  <2> QED
    BY <2>1, <2>2
<1>6. D(Cardinality(I)) = SUBSET I
  BY FS_Subset
<1>7. PICK g : g = Up(g, Cardinality(I))
  BY <1>5
<1> HIDE DEF D
<1>8. IsSum(g, w, I)
  BY <1>6, <1>7 DEF IsSum, one
<1> QED
  BY <1>8

(* Two sums whose terms differ by z differ by that, where z is in the sum.    *)
LEMMA SumsDiffer ==
    ASSUME NEW I, IsFiniteSet(I), NEW v \in [I -> Int], NEW w \in [I -> Int], NEW z \in I,
           \A x \in I \ {z} : v[x] = w[x],
           NEW f, IsSum(f, v, I), NEW g, IsSum(g, w, I)
    PROVE  f[I] \in Int /\ g[I] = f[I] + w[z] - v[z]
<1> DEFINE one(s) == CHOOSE x \in s : TRUE
           Q(s) == f[s] \in Int /\ g[s] = f[s] + (IF z \in s THEN w[z] - v[z] ELSE 0)
           S == {k \in Nat : \E s \in SUBSET I : Cardinality(s) = k /\ ~Q(s)}
<1>1. ASSUME NEW s \in SUBSET I
      PROVE  /\ f[s] = IF s = {} THEN 0 ELSE f[s \ {one(s)}] + v[one(s)]
             /\ g[s] = IF s = {} THEN 0 ELSE g[s \ {one(s)}] + w[one(s)]
  BY DEF IsSum
<1>2. ASSUME NEW s \in SUBSET I PROVE Cardinality(s) \in Nat /\ IsFiniteSet(s)
  BY FS_Subset, FS_CardinalityType
<1>3. ASSUME S # {} PROVE FALSE
  <2>1. PICK k \in S : \A m \in S : k <= m
    BY <1>3, LeastNumber
  <2>2. PICK s \in SUBSET I : Cardinality(s) = k /\ ~Q(s)
    BY <2>1
  <2>3. k \in Nat /\ \A t \in SUBSET I : Cardinality(t) < k => Q(t)
    <3>1. ASSUME NEW t \in SUBSET I, Cardinality(t) < k, ~Q(t) PROVE FALSE
      <4> HIDE DEF Q
      <4>1. Cardinality(t) \in S
        BY <1>2, <3>1
      <4>2. k <= Cardinality(t) /\ Cardinality(t) \in Nat /\ k \in Nat
        BY <1>2, <2>1, <4>1
      <4> QED
        BY <3>1, <4>2
    <3> HIDE DEF Q
    <3> QED
      BY <2>1, <3>1
  <2> HIDE DEF S
  <2>4. s # {}
    <3>1. ASSUME s = {} PROVE Q(s)
      <4>1. f[s] = 0 /\ g[s] = 0
        <5> HIDE DEF one
        <5> QED
          BY <1>1, <3>1
      <4>2. z \notin s
        BY <3>1
      <4> QED
        BY <4>1, <4>2
    <3> HIDE DEF Q
    <3> QED
      BY <2>2, <3>1
  <2> DEFINE a == one(s)
             t == s \ {a}
  <2>5. a \in s
    BY <2>4
  <2>6. t \in SUBSET I /\ Cardinality(t) = Cardinality(s) - 1
    BY <1>2, <2>5, FS_RemoveElement
  <2>7. f[s] = f[t] + v[a] /\ g[s] = g[t] + w[a]
    BY <1>1, <2>4
  <2> HIDE DEF a, one
  <2>8. Q(t)
    <3>1. Cardinality(t) < k
      BY <2>2, <2>3, <2>6
    <3> HIDE DEF Q, t
    <3> QED
      BY <2>3, <2>6, <3>1
  <2>9. a \in I /\ z \in s <=> (z = a \/ z \in t)
    BY <2>5
  <2>10. v[a] \in Int /\ w[a] \in Int /\ v[z] \in Int /\ w[z] \in Int
    BY <2>5
  <2>11. a # z => v[a] = w[a]
    BY <2>5
  <2>12. z = a => z \notin t
    OBVIOUS
  <2> HIDE DEF t
  <2>13. Q(s)
    <3>1. f[s] \in Int
      BY <2>7, <2>8, <2>10
    <3>2. CASE a = z
      BY <2>5, <2>7, <2>8, <2>10, <2>12, <3>1, <3>2
    <3>3. CASE a # z
      <4>1. z \in s <=> z \in t
        BY <3>3 DEF t
      <4> QED
        BY <2>7, <2>8, <2>10, <2>11, <3>1, <3>3, <4>1
    <3> QED
      BY <3>2, <3>3
  <2> QED
    BY <2>2, <2>13
<1>4. \A s \in SUBSET I : Q(s)
  <2> HIDE DEF Q
  <2>1. ASSUME NEW s \in SUBSET I, ~Q(s) PROVE FALSE
    <3>1. Cardinality(s) \in S
      BY <1>2, <2>1
    <3> HIDE DEF S
    <3> QED
      BY <1>3, <3>1
  <2> QED
    BY <2>1
<1>5. Q(I)
  <2>1. I \in SUBSET I
    OBVIOUS
  <2> HIDE DEF Q
  <2> QED
    BY <1>4, <2>1
<1>6. v[z] \in Int /\ w[z] \in Int
  OBVIOUS
<1> QED
  BY <1>5, <1>6

(* A sum of nothing but 0.                                                    *)
LEMMA SumOfZeros ==
    ASSUME NEW I, IsFiniteSet(I), NEW w, \A x \in I : w[x] = 0, NEW f, IsSum(f, w, I)
    PROVE  f[I] = 0
<1> DEFINE one(s) == CHOOSE x \in s : TRUE
           S == {k \in Nat : \E s \in SUBSET I : Cardinality(s) = k /\ f[s] # 0}
<1>1. ASSUME NEW s \in SUBSET I
      PROVE  f[s] = IF s = {} THEN 0 ELSE f[s \ {one(s)}] + w[one(s)]
  BY DEF IsSum
<1>2. ASSUME NEW s \in SUBSET I PROVE Cardinality(s) \in Nat /\ IsFiniteSet(s)
  BY FS_Subset, FS_CardinalityType
<1>3. ASSUME S # {} PROVE FALSE
  <2>1. PICK k \in S : \A m \in S : k <= m
    BY <1>3, LeastNumber
  <2>2. PICK s \in SUBSET I : Cardinality(s) = k /\ f[s] # 0
    BY <2>1
  <2>3. k \in Nat
    BY <2>1
  <2>4. s # {}
    BY <1>1, <2>2
  <2> DEFINE a == one(s)
             t == s \ {a}
  <2>5. a \in s
    BY <2>4
  <2>6. t \in SUBSET I /\ Cardinality(t) = k - 1 /\ Cardinality(t) \in Nat
    BY <1>2, <2>2, <2>5, FS_RemoveElement
  <2>7. f[s] = f[t] + w[a] /\ w[a] = 0
    BY <1>1, <2>4, <2>5
  <2> HIDE DEF t, a
  <2>8. f[t] = 0
    <3>1. ASSUME f[t] # 0 PROVE FALSE
      <4>1. k - 1 \in S
        BY <2>6, <3>1
      <4>2. k <= k - 1
        BY <2>1, <4>1
      <4> QED
        BY <2>3, <4>2
    <3> QED
      BY <3>1
  <2> QED
    BY <2>2, <2>7, <2>8
<1>4. I \in SUBSET I /\ Cardinality(I) \in Nat
  BY FS_CardinalityType
<1> QED
  BY <1>3, <1>4

=============================================================================
