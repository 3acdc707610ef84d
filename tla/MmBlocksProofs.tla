--------------------------- MODULE MmBlocksProofs ---------------------------
(* Proofs about MmBlocks, for every arena, every set of clients and every    *)
(* set of request sizes.  One lemma per helper of mm.c says what it does to  *)
(* the blocks; the invariance proof has one step per call of the client.     *)
EXTENDS MmBlocks, TLAPS

BlockType == [lo : Nat, hi : Nat, alloc : BOOLEAN]

Allocated(B) == {b \in B : b.alloc}

EvenBlocks(B) == \A b \in B : Even(b.lo) /\ Even(b.hi)

-----------------------------------------------------------------------------
(* Request sizes                                                              *)

(* A request is served by an aligned block of at least the minimum that holds *)
(* its payload and two tags (mm.c:198).                                       *)
LEMMA AdjustedSizeFits ==
    ASSUME NEW size \in Nat
    PROVE  /\ AdjustedSize(size) \in Nat
           /\ AdjustedSize(size) >= MINIMUM
           /\ AdjustedSize(size) >= size + DSIZE
           /\ Even(AdjustedSize(size))
  BY DEF AdjustedSize, ALIGN, MAX, MINIMUM, DSIZE, Even

(* Even addresses are closed under sums.                                      *)
LEMMA EvenSum ==
    ASSUME NEW m \in Nat, NEW n \in Nat, Even(m), Even(n)
    PROVE  Even(m + n)
  BY DEF Even

-----------------------------------------------------------------------------
(* coalesce                                                                   *)

(* At most one free block ends where b starts, and merging begins there.      *)
LEMMA MergedLoCases ==
    ASSUME NEW B, NEW top \in Nat, NEW n,
           B \subseteq BlockType, n \in BlockType,
           Disjoint(B \cup {n}, top)
    PROVE  \/ FreeBefore(B, n) = {} /\ MergedLo(B, n) = n.lo
           \/ \E x \in B : /\ ~x.alloc /\ x.hi = n.lo
                           /\ FreeBefore(B, n) = {x} /\ MergedLo(B, n) = x.lo
<1>1. CASE FreeBefore(B, n) = {}
  BY <1>1 DEF MergedLo
<1>2. CASE FreeBefore(B, n) # {}
  <2>1. PICK x : x \in FreeBefore(B, n)
    BY <1>2
  <2>2. \A y \in FreeBefore(B, n) : y = x
    BY <2>1 DEF FreeBefore, Disjoint, BlockType
  <2>3. FreeBefore(B, n) = {x}
    BY <2>1, <2>2
  <2>4. (CHOOSE y \in FreeBefore(B, n) : TRUE) = x
    BY <2>3
  <2> QED
    BY <2>1, <2>3, <2>4 DEF MergedLo, FreeBefore
<1> QED
  BY <1>1, <1>2

(* At most one free block starts where b ends, and merging stops at its end.  *)
LEMMA MergedHiCases ==
    ASSUME NEW B, NEW top \in Nat, NEW n,
           B \subseteq BlockType, n \in BlockType,
           Disjoint(B \cup {n}, top)
    PROVE  \/ FreeAfter(B, n) = {} /\ MergedHi(B, n) = n.hi
           \/ \E y \in B : /\ ~y.alloc /\ y.lo = n.hi
                           /\ FreeAfter(B, n) = {y} /\ MergedHi(B, n) = y.hi
<1>1. CASE FreeAfter(B, n) = {}
  BY <1>1 DEF MergedHi
<1>2. CASE FreeAfter(B, n) # {}
  <2>1. PICK y : y \in FreeAfter(B, n)
    BY <1>2
  <2>2. \A z \in FreeAfter(B, n) : z = y
    BY <2>1 DEF FreeAfter, Disjoint, BlockType
  <2>3. FreeAfter(B, n) = {y}
    BY <2>1, <2>2
  <2>4. (CHOOSE z \in FreeAfter(B, n) : TRUE) = y
    BY <2>3
  <2> QED
    BY <2>1, <2>3, <2>4 DEF MergedHi, FreeAfter
<1> QED
  BY <1>1, <1>2

(* Adding a free block n to blocks of which no two neighbours are free, so    *)
(* that all of them tile the heap, leaves a well-formed heap with the same    *)
(* allocated blocks.  This is what mm_free, place, extend_heap and            *)
(* mm_realloc rely on coalesce for.                                           *)
LEMMA CoalesceWellFormed ==
    ASSUME NEW B, NEW top \in Nat, NEW n,
           B \subseteq BlockType, n \in BlockType, ~n.alloc, n \notin B,
           Disjoint(B \cup {n}, top), Covering(B \cup {n}, top),
           NoContiguousFree(B)
    PROVE  /\ Coalesce(B, n) \subseteq BlockType
           /\ WellFormed(Coalesce(B, n), top)
           /\ Allocated(Coalesce(B, n)) = Allocated(B)
           /\ Merged(B, n) \in Coalesce(B, n)
           /\ Merged(B, n) \in BlockType
           /\ ~Merged(B, n).alloc
           /\ Merged(B, n).lo <= n.lo /\ n.hi <= Merged(B, n).hi
<1> DEFINE L == FreeBefore(B, n)
           R == FreeAfter(B, n)
           m == Merged(B, n)
           C == Coalesce(B, n)
<1>0. FirstBlock \in Nat
  BY ArenaAssumption DEF FirstBlock
<1>1. \A b \in B : /\ b.lo \in Nat /\ b.hi \in Nat
                   /\ FirstBlock <= b.lo /\ b.lo < b.hi /\ b.hi <= top
                   /\ b.hi <= n.lo \/ n.hi <= b.lo
  BY DEF Disjoint, BlockType
<1>2. n.lo \in Nat /\ n.hi \in Nat /\ FirstBlock <= n.lo /\ n.lo < n.hi /\ n.hi <= top
  BY DEF Disjoint, BlockType
<1>3. \A b, c \in B : b = c \/ b.hi <= c.lo \/ c.hi <= b.lo
  BY DEF Disjoint
<1>4. \/ L = {} /\ m.lo = n.lo
      \/ \E x \in B : ~x.alloc /\ x.hi = n.lo /\ L = {x} /\ m.lo = x.lo
  BY MergedLoCases DEF Merged, Block
<1>5. \/ R = {} /\ m.hi = n.hi
      \/ \E y \in B : ~y.alloc /\ y.lo = n.hi /\ R = {y} /\ m.hi = y.hi
  BY MergedHiCases DEF Merged, Block
<1>6. /\ m \in BlockType /\ ~m.alloc
      /\ FirstBlock <= m.lo /\ m.lo <= n.lo /\ n.hi <= m.hi /\ m.hi <= top
  <2>1. m.lo \in Nat /\ FirstBlock <= m.lo /\ m.lo <= n.lo
    BY <1>0, <1>1, <1>2, <1>4
  <2>2. m.hi \in Nat /\ n.hi <= m.hi /\ m.hi <= top
    BY <1>1, <1>2, <1>5
  <2> QED
    BY <2>1, <2>2 DEF Merged, Block, BlockType
<1>7. C = (B \ (L \cup R)) \cup {m}
  BY DEF Coalesce
<1>8. C \subseteq BlockType /\ m \in C
  BY <1>6, <1>7
<1>9. Allocated(C) = Allocated(B)
  BY <1>6, <1>7 DEF Allocated, FreeBefore, FreeAfter
<1>10. \A b \in B \ (L \cup R) : b.hi <= m.lo \/ m.hi <= b.lo
  <2> SUFFICES ASSUME NEW b \in B, b \notin L, b \notin R
               PROVE  b.hi <= m.lo \/ m.hi <= b.lo
    OBVIOUS
  <2>1. CASE b.hi <= n.lo
    BY <1>1, <1>3, <1>4, <2>1, <1>2
  <2>2. CASE n.hi <= b.lo
    BY <1>1, <1>3, <1>5, <2>2, <1>2
  <2> QED
    BY <1>1, <2>1, <2>2
<1>11. Disjoint(C, top)
  <2>1. \A b \in C : FirstBlock <= b.lo /\ b.lo < b.hi /\ b.hi <= top
    BY <1>0, <1>1, <1>2, <1>6, <1>7 DEF BlockType
  <2>2. \A b, c \in C : b = c \/ b.hi <= c.lo \/ c.hi <= b.lo
    BY <1>3, <1>7, <1>10
  <2> QED
    BY <2>1, <2>2 DEF Disjoint
<1>12. Covering(C, top)
  <2>1. /\ \E b \in B \cup {n} : b.lo = FirstBlock
        /\ \E b \in B \cup {n} : b.hi = top
        /\ \A b \in B \cup {n} : b.hi = top \/ \E c \in B \cup {n} : c.lo = b.hi
    BY DEF Covering
  <2>2. \E b \in C : b.lo = FirstBlock
    <3>1. PICK b \in B \cup {n} : b.lo = FirstBlock
      BY <2>1
    <3>2. b = n => m.lo = FirstBlock
      BY <1>1, <1>2, <1>4, <3>1
    <3>3. b \in L => m.lo = FirstBlock
      BY <1>4, <3>1
    <3>4. b \notin R
      BY <1>1, <1>2, <3>1 DEF FreeAfter
    <3> QED
      BY <1>7, <3>1, <3>2, <3>3, <3>4
  <2>3. \E b \in C : b.hi = top
    <3>1. PICK b \in B \cup {n} : b.hi = top
      BY <2>1
    <3>2. b = n => m.hi = top
      BY <1>1, <1>2, <1>5, <3>1
    <3>3. b \in R => m.hi = top
      BY <1>5, <3>1
    <3>4. b \notin L
      BY <1>1, <1>2, <3>1 DEF FreeBefore
    <3> QED
      BY <1>7, <3>1, <3>2, <3>3, <3>4
  <2>4. ASSUME NEW b \in C
        PROVE  b.hi = top \/ \E c \in C : c.lo = b.hi
    <3>1. CASE b = m
      <4>1. PICK d \in B \cup {n} : d.hi = m.hi /\ n.lo <= d.lo
        BY <1>1, <1>2, <1>5
      <4>2. CASE d.hi = top
        BY <3>1, <4>1, <4>2
      <4>3. CASE d.hi # top
        <5>1. PICK c \in B \cup {n} : c.lo = d.hi
          BY <2>1, <4>3
        <5>2. c # n /\ c \notin L
          BY <1>1, <1>2, <1>6, <4>1, <5>1 DEF FreeBefore
        <5>3. c \notin R
          <6>1. CASE R = {}
            BY <6>1
          <6>2. CASE R # {}
            <7>1. PICK y \in B : R = {y} /\ m.hi = y.hi
              BY <1>5, <6>2
            <7>2. c.lo = y.hi /\ y.lo < y.hi /\ y.lo \in Nat /\ y.hi \in Nat
              BY <1>1, <4>1, <5>1, <7>1
            <7> QED
              BY <7>1, <7>2
          <6> QED
            BY <6>1, <6>2
        <5> QED
          BY <1>7, <3>1, <4>1, <5>1, <5>2, <5>3
      <4> QED
        BY <4>2, <4>3
    <3>2. CASE b # m /\ b.hi # top
      <4>1. b \in B /\ b \notin L /\ b \notin R
        BY <1>7, <3>2
      <4>2. PICK c \in B \cup {n} : c.lo = b.hi
        BY <2>1, <3>2, <4>1
      <4>3. CASE c = n
        <5>1. L = {}
          <6> SUFFICES ASSUME NEW x \in B, x.hi = n.lo, L = {x}
                       PROVE  FALSE
            BY <1>4
          <6>1. x.hi = b.hi /\ x # b
            BY <4>1, <4>2, <4>3
          <6>2. /\ x.lo < x.hi /\ b.lo < b.hi
                /\ x.lo \in Nat /\ x.hi \in Nat /\ b.lo \in Nat /\ b.hi \in Nat
                /\ x.hi <= b.lo \/ b.hi <= x.lo
            BY <1>1, <1>3, <4>1, <6>1
          <6> QED
            BY <6>1, <6>2
        <5> QED
          BY <1>4, <1>7, <4>2, <4>3, <5>1
      <4>4. CASE c \in L
        BY <1>4, <1>7, <4>2, <4>4
      <4>5. c \notin R
        <5>1. c \in R => b.hi = n.hi
          BY <4>2 DEF FreeAfter
        <5>2. /\ b.lo < b.hi /\ b.lo \in Nat /\ b.hi \in Nat
              /\ b.hi <= n.lo \/ n.hi <= b.lo
          BY <1>1, <4>1
        <5> QED
          BY <1>2, <5>1, <5>2
      <4> QED
        BY <1>7, <4>2, <4>3, <4>4, <4>5
    <3> QED
      BY <3>1, <3>2
  <2> QED
    BY <2>2, <2>3, <2>4 DEF Covering
<1>13. NoContiguousFree(C)
  <2> SUFFICES ASSUME NEW b \in C, NEW c \in C, b.hi = c.lo
               PROVE  b.alloc \/ c.alloc
    BY DEF NoContiguousFree
  <2>1. CASE b = m /\ c = m
    BY <2>1, <1>2, <1>6 DEF BlockType
  <2>2. CASE b = m /\ c # m
    <3>1. c \in B /\ c \notin R
      BY <1>7, <2>2
    <3> QED
      BY <1>5, <2>2, <3>1 DEF FreeAfter, NoContiguousFree
  <2>3. CASE b # m /\ c = m
    <3>1. b \in B /\ b \notin L
      BY <1>7, <2>3
    <3> QED
      BY <1>4, <2>3, <3>1 DEF FreeBefore, NoContiguousFree
  <2>4. CASE b # m /\ c # m
    BY <1>7, <2>4 DEF NoContiguousFree
  <2> QED
    BY <2>1, <2>2, <2>3, <2>4
<1> QED
  BY <1>6, <1>8, <1>9, <1>11, <1>12, <1>13 DEF WellFormed

(* Merging keeps every block pointer aligned.                                 *)
LEMMA CoalesceEven ==
    ASSUME NEW B, NEW top \in Nat, NEW n,
           B \subseteq BlockType, n \in BlockType,
           Disjoint(B \cup {n}, top),
           EvenBlocks(B), Even(n.lo), Even(n.hi)
    PROVE  EvenBlocks(Coalesce(B, n))
<1>1. Even(MergedLo(B, n))
  <2>1. CASE MergedLo(B, n) = n.lo
    BY <2>1
  <2>2. CASE \E x \in B : MergedLo(B, n) = x.lo
    BY <2>2 DEF EvenBlocks
  <2>3. MergedLo(B, n) = n.lo \/ \E x \in B : MergedLo(B, n) = x.lo
    <3>1. \/ FreeBefore(B, n) = {} /\ MergedLo(B, n) = n.lo
          \/ \E x \in B : /\ ~x.alloc /\ x.hi = n.lo
                          /\ FreeBefore(B, n) = {x} /\ MergedLo(B, n) = x.lo
      BY MergedLoCases
    <3> QED
      BY <3>1
  <2> QED
    BY <2>1, <2>2, <2>3
<1>2. Even(MergedHi(B, n))
  <2>1. CASE MergedHi(B, n) = n.hi
    BY <2>1
  <2>2. CASE \E y \in B : MergedHi(B, n) = y.hi
    BY <2>2 DEF EvenBlocks
  <2>3. MergedHi(B, n) = n.hi \/ \E y \in B : MergedHi(B, n) = y.hi
    <3>1. \/ FreeAfter(B, n) = {} /\ MergedHi(B, n) = n.hi
          \/ \E y \in B : /\ ~y.alloc /\ y.lo = n.hi
                          /\ FreeAfter(B, n) = {y} /\ MergedHi(B, n) = y.hi
      BY MergedHiCases
    <3> QED
      BY <3>1
  <2> QED
    BY <2>1, <2>2, <2>3
<1> QED
  BY <1>1, <1>2 DEF EvenBlocks, Coalesce, Merged, Block

-----------------------------------------------------------------------------
(* The other helpers of mm.c                                                  *)

(* A heap between two calls: typed, tiled, coalesced and aligned.             *)
Heap(B, top) ==
    /\ B \subseteq BlockType
    /\ WellFormed(B, top)
    /\ EvenBlocks(B)

(* Changing the tag of one block changes no boundary.                         *)
LEMMA Relabel ==
    ASSUME NEW B, NEW top \in Nat, NEW f \in B, NEW g \in BlockType,
           B \subseteq BlockType, Disjoint(B, top), Covering(B, top),
           g.lo = f.lo, g.hi = f.hi
    PROVE  /\ Disjoint((B \ {f}) \cup {g}, top)
           /\ Covering((B \ {f}) \cup {g}, top)
           /\ g \notin B \ {f}
<1> DEFINE C == (B \ {f}) \cup {g}
<1>1. Disjoint(C, top)
  BY DEF Disjoint
<1>2. Covering(C, top)
  <2>1. \A b \in B : \E c \in C : c.lo = b.lo /\ c.hi = b.hi
    OBVIOUS
  <2>2. \A c \in C : \E b \in B : c.lo = b.lo /\ c.hi = b.hi
    OBVIOUS
  <2>3. \A c \in C : c.hi = top \/ \E d \in C : d.lo = c.hi
    <3> TAKE c \in C
    <3>1. PICK b \in B : c.hi = b.hi
      BY <2>2
    <3>2. b.hi = top \/ \E d \in B : d.lo = b.hi
      BY DEF Covering
    <3> QED
      BY <2>1, <3>1, <3>2
  <2>4. (\E c \in C : c.lo = FirstBlock) /\ (\E c \in C : c.hi = top)
    BY <2>1 DEF Covering
  <2> QED
    BY <2>3, <2>4 DEF Covering
<1>3. g \notin B \ {f}
  <2> SUFFICES ASSUME g \in B, g # f
               PROVE  FALSE
    OBVIOUS
  <2>1. /\ g.lo < g.hi /\ g.lo \in Nat /\ g.hi \in Nat
        /\ g.hi <= f.lo \/ f.hi <= g.lo
    BY DEF Disjoint, BlockType
  <2> QED
    BY <2>1
<1> QED
  BY <1>1, <1>2, <1>3

(* mm_free: the block becomes free, and every other allocation stands.        *)
LEMMA ReleaseHeap ==
    ASSUME NEW B, NEW top \in Nat, Heap(B, top), NEW b \in B, b.alloc
    PROVE  /\ Heap(Release(B, b), top)
           /\ Allocated(Release(B, b)) = Allocated(B) \ {b}
<1> DEFINE n == Block(b.lo, b.hi, FALSE)
<1>1. /\ B \subseteq BlockType /\ Disjoint(B, top) /\ Covering(B, top)
      /\ NoContiguousFree(B) /\ EvenBlocks(B)
  BY DEF Heap, WellFormed
<1>2. n \in BlockType /\ ~n.alloc /\ n.lo = b.lo /\ n.hi = b.hi
  BY <1>1 DEF Block, BlockType
<1>3. /\ Disjoint((B \ {b}) \cup {n}, top) /\ Covering((B \ {b}) \cup {n}, top)
      /\ n \notin B \ {b}
  <2>1. n \in BlockType /\ b \in B
    BY <1>2
  <2> HIDE DEF n
  <2> QED
    BY <1>1, <1>2, <2>1, Relabel
<1>4. NoContiguousFree(B \ {b})
  BY <1>1 DEF NoContiguousFree
<1>5. /\ Coalesce(B \ {b}, n) \subseteq BlockType
      /\ WellFormed(Coalesce(B \ {b}, n), top)
      /\ Allocated(Coalesce(B \ {b}, n)) = Allocated(B \ {b})
  BY <1>1, <1>2, <1>3, <1>4, CoalesceWellFormed
<1>6. EvenBlocks(Coalesce(B \ {b}, n))
  <2>1. EvenBlocks(B \ {b}) /\ Even(n.lo) /\ Even(n.hi)
    BY <1>1, <1>2 DEF EvenBlocks
  <2> QED
    BY <1>1, <1>2, <1>3, <2>1, CoalesceEven
<1>7. Allocated(B \ {b}) = Allocated(B) \ {b}
  BY DEF Allocated
<1> QED
  BY <1>5, <1>6, <1>7 DEF Release, Heap

(* Cutting a block in two at an aligned address: the front is allocated and   *)
(* the rest is free and merged (place, and mm_realloc in place).              *)
LEMMA CutHeap ==
    ASSUME NEW B, NEW top \in Nat, Heap(B, top), NEW f \in B,
           NEW mid \in Nat, f.lo < mid, mid < f.hi, Even(mid)
    PROVE  LET front == Block(f.lo, mid, TRUE)
               C == Coalesce((B \ {f}) \cup {front}, Block(mid, f.hi, FALSE))
           IN  /\ Heap(C, top)
               /\ Allocated(C) = (Allocated(B) \ {f}) \cup {front}
<1> DEFINE front == Block(f.lo, mid, TRUE)
           n == Block(mid, f.hi, FALSE)
           D == (B \ {f}) \cup {front}
           C == Coalesce(D, n)
<1>0. /\ B \subseteq BlockType /\ Disjoint(B, top) /\ Covering(B, top)
      /\ NoContiguousFree(B) /\ EvenBlocks(B)
  BY DEF Heap, WellFormed
<1>1. /\ front \in BlockType /\ front.lo = f.lo /\ front.hi = mid /\ front.alloc
      /\ n \in BlockType /\ n.lo = mid /\ n.hi = f.hi /\ ~n.alloc
  BY <1>0 DEF Block, BlockType
<1>2. \A b \in B : /\ b.lo \in Nat /\ b.hi \in Nat
                   /\ FirstBlock <= b.lo /\ b.lo < b.hi /\ b.hi <= top
                   /\ b = f \/ b.hi <= f.lo \/ f.hi <= b.lo
  BY <1>0 DEF Disjoint, BlockType
<1>3. FirstBlock \in Nat
  BY ArenaAssumption DEF FirstBlock
<1> HIDE DEF front, n
<1>4. n \notin D
  <2>1. f.lo < f.hi /\ f.lo \in Nat /\ f.hi \in Nat
    BY <1>2
  <2>2. n # front
    BY <1>1
  <2>3. n \notin B \ {f}
    BY <1>1, <1>2, <2>1
  <2> QED
    BY <2>2, <2>3
<1>5. Disjoint(D \cup {n}, top)
  <2>1. \A b \in D \cup {n} : FirstBlock <= b.lo /\ b.lo < b.hi /\ b.hi <= top
    BY <1>1, <1>2, <1>3
  <2>2. ASSUME NEW b \in D \cup {n}, NEW c \in D \cup {n}
        PROVE  b = c \/ b.hi <= c.lo \/ c.hi <= b.lo
    <3>1. CASE b \in B \ {f} /\ c \in B \ {f}
      BY <1>0, <3>1 DEF Disjoint
    <3>2. CASE b \in {front, n} /\ c \in B \ {f}
      BY <1>1, <1>2, <3>2
    <3>3. CASE b \in B \ {f} /\ c \in {front, n}
      BY <1>1, <1>2, <3>3
    <3>4. CASE b \in {front, n} /\ c \in {front, n}
      BY <1>1, <1>2, <3>4
    <3> QED
      BY <3>1, <3>2, <3>3, <3>4
  <2> QED
    BY <2>1, <2>2 DEF Disjoint
<1>6. Covering(D \cup {n}, top)
  <2>1. \A b \in B : \E c \in D \cup {n} : c.lo = b.lo
    BY <1>1
  <2>2. \A b \in B : \E c \in D \cup {n} : c.hi = b.hi
    BY <1>1
  <2>3. ASSUME NEW c \in D \cup {n}
        PROVE  c.hi = top \/ \E d \in D \cup {n} : d.lo = c.hi
    <3>1. CASE c = front
      BY <1>1, <3>1
    <3>2. CASE c # front
      <4>1. PICK b \in B : b.hi = c.hi
        BY <1>1, <3>2
      <4>2. b.hi = top \/ \E d \in B : d.lo = b.hi
        BY <1>0 DEF Covering
      <4> QED
        BY <2>1, <4>1, <4>2
    <3> QED
      BY <3>1, <3>2
  <2> QED
    BY <1>0, <2>1, <2>2, <2>3 DEF Covering
<1>7. NoContiguousFree(D)
  BY <1>0, <1>1 DEF NoContiguousFree
<1>8. D \subseteq BlockType
  BY <1>0, <1>1
<1>9. /\ C \subseteq BlockType /\ WellFormed(C, top) /\ Allocated(C) = Allocated(D)
  BY <1>1, <1>4, <1>5, <1>6, <1>7, <1>8, CoalesceWellFormed
<1>10. EvenBlocks(C)
  <2>1. EvenBlocks(D) /\ Even(n.lo) /\ Even(n.hi)
    BY <1>0, <1>1 DEF EvenBlocks
  <2> QED
    BY <1>1, <1>5, <1>8, <2>1, CoalesceEven
<1>11. Allocated(D) = (Allocated(B) \ {f}) \cup {front}
  BY <1>1 DEF Allocated
<1> QED
  BY <1>9, <1>10, <1>11 DEF Heap, front, n

(* place: the free block f serves asize, and only f changes hands.            *)
LEMMA PlaceHeap ==
    ASSUME NEW B, NEW top \in Nat, Heap(B, top),
           NEW f \in B, ~f.alloc,
           NEW asize \in Nat, asize >= MINIMUM, Even(asize), Size(f) >= asize
    PROVE  /\ Heap(Place(B, f, asize), top)
           /\ \E a \in BlockType :
                 /\ a.alloc /\ a.lo = f.lo /\ Size(a) >= asize
                 /\ Allocated(Place(B, f, asize)) = Allocated(B) \cup {a}
           /\ \A b \in Allocated(B) : b.lo # f.lo
<1>1. /\ B \subseteq BlockType /\ Disjoint(B, top) /\ Covering(B, top)
      /\ NoContiguousFree(B) /\ EvenBlocks(B)
  BY DEF Heap, WellFormed
<1>2. /\ f.lo \in Nat /\ f.hi \in Nat /\ f.lo < f.hi /\ Even(f.lo)
  BY <1>1 DEF Disjoint, BlockType, EvenBlocks
<1>3. \A b \in Allocated(B) : b.lo # f.lo
  <2> SUFFICES ASSUME NEW b \in B, b.alloc, b.lo = f.lo
               PROVE  FALSE
    BY DEF Allocated
  <2>1. /\ b.lo \in Nat /\ b.hi \in Nat /\ b.lo < b.hi
        /\ b.hi <= f.lo \/ f.hi <= b.lo
    BY <1>1 DEF Disjoint, BlockType
  <2> QED
    BY <1>2, <2>1
<1>4. CASE Size(f) - asize >= MINIMUM
  <2> DEFINE mid == f.lo + asize
             front == Block(f.lo, mid, TRUE)
             C == Coalesce((B \ {f}) \cup {front}, Block(mid, f.hi, FALSE))
  <2>1. mid \in Nat /\ f.lo < mid /\ mid < f.hi /\ Even(mid)
    <3>1. Even(mid)
      BY <1>2, EvenSum
    <3>2. mid \in Nat /\ f.lo < mid /\ mid < f.hi
      BY <1>2, <1>4 DEF Size, MINIMUM
    <3> QED
      BY <3>1, <3>2
  <2>2. Heap(C, top) /\ Allocated(C) = (Allocated(B) \ {f}) \cup {front}
    <3> HIDE DEF mid
    <3> QED
      BY <2>1, CutHeap
  <2>3. Place(B, f, asize) = C
    BY <1>4 DEF Place
  <2>4. Allocated(B) \ {f} = Allocated(B)
    BY DEF Allocated
  <2>5. front \in BlockType /\ front.alloc /\ front.lo = f.lo /\ Size(front) >= asize
    BY <1>2, <2>1 DEF Block, BlockType, Size
  <2> HIDE DEF C, front
  <2> QED
    BY <1>3, <2>2, <2>3, <2>4, <2>5
<1>5. CASE ~(Size(f) - asize >= MINIMUM)
  <2> DEFINE g == Block(f.lo, f.hi, TRUE)
             C == (B \ {f}) \cup {g}
  <2>1. g \in BlockType /\ g.alloc /\ g.lo = f.lo /\ g.hi = f.hi
    BY <1>2 DEF Block, BlockType
  <2>2. Place(B, f, asize) = C
    BY <1>5 DEF Place
  <2> HIDE DEF g
  <2>3. Disjoint(C, top) /\ Covering(C, top)
    BY <1>1, <2>1, Relabel
  <2>4. NoContiguousFree(C)
    BY <1>1, <2>1 DEF NoContiguousFree
  <2>5. C \subseteq BlockType /\ EvenBlocks(C)
    BY <1>1, <2>1 DEF EvenBlocks
  <2>6. Allocated(C) = Allocated(B) \cup {g}
    BY <2>1 DEF Allocated
  <2>7. Size(g) >= asize
    BY <2>1 DEF Size
  <2> QED
    BY <1>3, <2>1, <2>2, <2>3, <2>4, <2>5, <2>6, <2>7 DEF Heap, WellFormed
<1> QED
  BY <1>4, <1>5

(* extend_heap: the new block, merged with a free last one, serves asize.     *)
LEMMA ExtendHeap ==
    ASSUME NEW B, NEW top \in Nat, Heap(B, top), Even(top),
           NEW asize \in Nat, asize >= MINIMUM, Even(asize)
    PROVE  LET m == Merged(B, Fresh(top, asize))
           IN  /\ Heap(Extend(B, top, asize), top + asize)
               /\ Allocated(Extend(B, top, asize)) = Allocated(B)
               /\ m \in Extend(B, top, asize) /\ ~m.alloc
               /\ Size(m) >= asize
               /\ m.lo = MergedLo(B, Fresh(top, asize))
<1> DEFINE n == Fresh(top, asize)
           m == Merged(B, n)
           bound == top + asize
<1>1. /\ B \subseteq BlockType /\ Disjoint(B, top) /\ Covering(B, top)
      /\ NoContiguousFree(B) /\ EvenBlocks(B)
  BY DEF Heap, WellFormed
<1>2. bound \in Nat /\ top < bound /\ Even(bound) /\ FirstBlock \in Nat
  BY EvenSum, ArenaAssumption DEF MINIMUM, FirstBlock
<1>3. n \in BlockType /\ ~n.alloc /\ n.lo = top /\ n.hi = bound
  BY DEF Fresh, Block, BlockType
<1> HIDE DEF n, bound
<1>4. \A b \in B : /\ b.lo \in Nat /\ b.hi \in Nat
                   /\ FirstBlock <= b.lo /\ b.lo < b.hi /\ b.hi <= top
  BY <1>1 DEF Disjoint, BlockType
<1>5. n \notin B
  BY <1>2, <1>3, <1>4
<1>6. Disjoint(B \cup {n}, bound)
  <2>1. FirstBlock <= top
    <3>1. PICK b \in B : b.hi = top
      BY <1>1 DEF Covering
    <3> QED
      BY <1>2, <1>4, <3>1
  <2>2. \A b \in B \cup {n} : FirstBlock <= b.lo /\ b.lo < b.hi /\ b.hi <= bound
    BY <1>2, <1>3, <1>4, <2>1
  <2>3. \A b, c \in B \cup {n} : b = c \/ b.hi <= c.lo \/ c.hi <= b.lo
    BY <1>1, <1>3, <1>4 DEF Disjoint
  <2> QED
    BY <2>2, <2>3 DEF Disjoint
<1>7. Covering(B \cup {n}, bound)
  BY <1>1, <1>3 DEF Covering
<1>8. /\ Coalesce(B, n) \subseteq BlockType /\ WellFormed(Coalesce(B, n), bound)
      /\ Allocated(Coalesce(B, n)) = Allocated(B)
      /\ m \in Coalesce(B, n) /\ m \in BlockType /\ ~m.alloc
      /\ m.lo <= n.lo /\ n.hi <= m.hi
  BY <1>1, <1>2, <1>3, <1>5, <1>6, <1>7, CoalesceWellFormed
<1>9. EvenBlocks(Coalesce(B, n))
  BY <1>1, <1>2, <1>3, <1>6, CoalesceEven
<1>10. Size(m) >= asize
  BY <1>3, <1>8 DEF Size, BlockType, bound
<1>11. m.lo = MergedLo(B, n)
  BY DEF Merged, Block
<1> QED
  BY <1>8, <1>9, <1>10, <1>11 DEF Extend, Heap, n, bound

(* A block is known by its block pointer.                                     *)
LEMMA UniquePointer ==
    ASSUME NEW B, NEW top \in Nat, Heap(B, top), NEW b \in B, NEW c \in B, b.lo = c.lo
    PROVE  b = c
<1>1. /\ b.lo \in Nat /\ b.hi \in Nat /\ b.lo < b.hi
      /\ c.lo \in Nat /\ c.hi \in Nat /\ c.lo < c.hi
      /\ b = c \/ b.hi <= c.lo \/ c.hi <= b.lo
  BY DEF Heap, WellFormed, Disjoint, BlockType
<1> QED
  BY <1>1

(* Every block pointer is a real address, above the prologue.                 *)
LEMMA PointerNotNull ==
    ASSUME NEW B, NEW top \in Nat, Heap(B, top), NEW b \in B
    PROVE  /\ b.lo # NULL /\ b.lo \in Nat /\ b.hi \in Nat
           /\ FirstBlock \in Nat /\ FirstBlock <= b.lo /\ b.lo < b.hi /\ b.hi <= top
<1>1. FirstBlock \in Nat /\ FirstBlock > 0
  BY ArenaAssumption DEF FirstBlock
<1>2. /\ b.lo \in Nat /\ b.hi \in Nat
      /\ FirstBlock <= b.lo /\ b.lo < b.hi /\ b.hi <= top
  BY DEF Heap, WellFormed, Disjoint, BlockType
<1> QED
  BY <1>1, <1>2 DEF NULL

(* mm_malloc answers NULL and changes nothing, or hands out one new allocated *)
(* block of at least asize and leaves every other allocation as it was.       *)
LEMMA AllocationsHeap ==
    ASSUME NEW B, NEW top \in Nat, Heap(B, top), Even(top), top <= Limit,
           NEW asize \in Nat, asize >= MINIMUM, Even(asize),
           NEW r \in Allocations(B, top, asize)
    PROVE  /\ r.brk \in Nat /\ Even(r.brk) /\ top <= r.brk /\ r.brk <= Limit
           /\ Heap(r.blocks, r.brk)
           /\ \/ r.ptr = NULL /\ r.brk = top /\ Allocated(r.blocks) = Allocated(B)
              \/ \E a \in BlockType :
                    /\ a.alloc /\ a.lo = r.ptr /\ a.lo # NULL /\ Size(a) >= asize
                    /\ Allocated(r.blocks) = Allocated(B) \cup {a}
                    /\ \A b \in Allocated(B) : b.lo # a.lo
<1>1. CASE Fits(B, asize) # {}
  <2>1. PICK f \in Fits(B, asize) : r = Outcome(Place(B, f, asize), top, f.lo)
    BY <1>1 DEF Allocations
  <2>2. f \in B /\ ~f.alloc /\ Size(f) >= asize
    BY <2>1 DEF Fits
  <2>3. r.blocks = Place(B, f, asize) /\ r.brk = top /\ r.ptr = f.lo
    BY <2>1 DEF Outcome
  <2>4. /\ Heap(r.blocks, top)
        /\ \E a \in BlockType :
              /\ a.alloc /\ a.lo = f.lo /\ Size(a) >= asize
              /\ Allocated(r.blocks) = Allocated(B) \cup {a}
        /\ \A b \in Allocated(B) : b.lo # f.lo
    BY <2>2, <2>3, PlaceHeap
  <2>5. f.lo # NULL
    BY <2>2, PointerNotNull
  <2> QED
    BY <2>3, <2>4, <2>5
<1>2. CASE Fits(B, asize) = {} /\ top + asize <= Limit
  <2> DEFINE E == Extend(B, top, asize)
             m == Merged(B, Fresh(top, asize))
             bound == top + asize
  <2>1. r = Outcome(Place(E, m, asize), bound, MergedLo(B, Fresh(top, asize)))
    BY <1>2 DEF Allocations
  <2>2. /\ Heap(E, bound) /\ Allocated(E) = Allocated(B)
        /\ m \in E /\ ~m.alloc /\ Size(m) >= asize
        /\ m.lo = MergedLo(B, Fresh(top, asize))
    BY ExtendHeap
  <2>3. r.blocks = Place(E, m, asize) /\ r.brk = bound /\ r.ptr = m.lo
    BY <2>1, <2>2 DEF Outcome
  <2>4. bound \in Nat /\ Even(bound) /\ top <= bound /\ bound <= Limit
    BY <1>2, EvenSum
  <2> HIDE DEF E, m, bound
  <2>5. /\ Heap(r.blocks, bound)
        /\ \E a \in BlockType :
              /\ a.alloc /\ a.lo = m.lo /\ Size(a) >= asize
              /\ Allocated(r.blocks) = Allocated(E) \cup {a}
        /\ \A b \in Allocated(E) : b.lo # m.lo
    BY <2>2, <2>3, <2>4, PlaceHeap
  <2>6. m.lo # NULL
    BY <2>2, <2>4, PointerNotNull
  <2> QED
    BY <2>2, <2>3, <2>4, <2>5, <2>6
<1>3. CASE Fits(B, asize) = {} /\ ~(top + asize <= Limit)
  <2>1. r = Outcome(B, top, NULL)
    BY <1>3 DEF Allocations
  <2> QED
    BY <2>1 DEF Outcome
<1> QED
  BY <1>1, <1>2, <1>3

(* An allocated block and the free one after it, taken as one block.          *)
LEMMA JoinHeap ==
    ASSUME NEW B, NEW top \in Nat, Heap(B, top),
           NEW b \in B, b.alloc, NEW n \in B, n.lo = b.hi
    PROVE  LET J == Block(b.lo, n.hi, TRUE)
           IN  /\ Heap((B \ {b, n}) \cup {J}, top)
               /\ J \notin B
<1> DEFINE J == Block(b.lo, n.hi, TRUE)
           C == (B \ {b, n}) \cup {J}
<1>1. /\ B \subseteq BlockType /\ Disjoint(B, top) /\ Covering(B, top)
      /\ NoContiguousFree(B) /\ EvenBlocks(B)
  BY DEF Heap, WellFormed
<1>2. \A c \in B : /\ c.lo \in Nat /\ c.hi \in Nat
                   /\ FirstBlock <= c.lo /\ c.lo < c.hi /\ c.hi <= top
  BY <1>1 DEF Disjoint, BlockType
<1>3. \A c, d \in B : c = d \/ c.hi <= d.lo \/ d.hi <= c.lo
  BY <1>1 DEF Disjoint
<1>4. J \in BlockType /\ J.alloc /\ J.lo = b.lo /\ J.hi = n.hi
  BY <1>2 DEF Block, BlockType
<1> HIDE DEF J
<1>5. b.lo < b.hi /\ b.hi < n.hi /\ b # n
  BY <1>2
<1>6. J \notin B
  BY <1>2, <1>3, <1>4, <1>5
<1>7. Disjoint(C, top)
  <2>1. FirstBlock <= J.lo /\ J.lo < J.hi /\ J.hi <= top
    BY <1>2, <1>4, <1>5
  <2>2. \A c \in B \ {b, n} : c.hi <= J.lo \/ J.hi <= c.lo
    <3> SUFFICES ASSUME NEW c \in B, c # b, c # n
                 PROVE  c.hi <= b.lo \/ n.hi <= c.lo
      BY <1>4
    <3>1. /\ c.hi <= b.lo \/ b.hi <= c.lo
          /\ c.hi <= n.lo \/ n.hi <= c.lo
      BY <1>3
    <3> QED
      BY <1>2, <3>1
  <2> QED
    BY <1>2, <1>3, <2>1, <2>2 DEF Disjoint
<1>8. Covering(C, top)
  <2>1. \E c \in C : c.lo = FirstBlock
    <3>1. PICK c \in B : c.lo = FirstBlock
      BY <1>1 DEF Covering
    <3>2. FirstBlock \in Nat
      BY ArenaAssumption DEF FirstBlock
    <3>3. c # n
      BY <1>2, <3>1, <3>2
    <3> QED
      BY <1>4, <3>1, <3>3
  <2>2. \E c \in C : c.hi = top
    <3>1. PICK c \in B : c.hi = top
      BY <1>1 DEF Covering
    <3>2. c # b
      BY <1>2, <1>5, <3>1
    <3> QED
      BY <1>4, <3>1, <3>2
  <2>3. \A c \in C : c.hi = top \/ \E d \in C : d.lo = c.hi
    <3> SUFFICES ASSUME NEW c \in C, c.hi # top
                 PROVE  \E d \in C : d.lo = c.hi
      OBVIOUS
    <3>1. PICK e \in B : e.hi = c.hi /\ e # b
      BY <1>4, <1>5
    <3>2. PICK d \in B : d.lo = e.hi
      BY <1>1, <3>1 DEF Covering
    <3>3. d # n
      BY <1>2, <1>3, <1>5, <3>1, <3>2
    <3> QED
      BY <1>4, <3>1, <3>2, <3>3
  <2> QED
    BY <2>1, <2>2, <2>3 DEF Covering
<1>9. NoContiguousFree(C)
  BY <1>1, <1>4 DEF NoContiguousFree
<1>10. C \subseteq BlockType /\ EvenBlocks(C)
  BY <1>1, <1>4 DEF EvenBlocks
<1> QED
  BY <1>6, <1>7, <1>8, <1>9, <1>10 DEF Heap, WellFormed, J

(* mm_realloc in place: b keeps its pointer and its first asize words, and    *)
(* no other allocation changes, whether the block shrinks ...                 *)
LEMMA ShrinkHeap ==
    ASSUME NEW B, NEW top \in Nat, Heap(B, top), NEW b \in B, b.alloc,
           NEW asize \in Nat, asize >= MINIMUM, Even(asize), ShrinksInPlace(b, asize)
    PROVE  LET front == Block(b.lo, b.lo + asize, TRUE)
               C == Cut(B, b, b.hi, asize)
           IN  /\ Heap(C, top)
               /\ Allocated(C) = (Allocated(B) \ {b}) \cup {front}
<1> DEFINE mid == b.lo + asize
<1>1. b.lo \in Nat /\ b.hi \in Nat /\ Even(b.lo)
  BY DEF Heap, BlockType, EvenBlocks
<1>2. mid \in Nat /\ b.lo < mid /\ mid < b.hi
  BY <1>1 DEF ShrinksInPlace, Size, MINIMUM
<1>3. Even(mid)
  BY <1>1, EvenSum
<1> HIDE DEF mid
<1>4. LET front == Block(b.lo, mid, TRUE)
          C == Coalesce((B \ {b}) \cup {front}, Block(mid, b.hi, FALSE))
      IN  Heap(C, top) /\ Allocated(C) = (Allocated(B) \ {b}) \cup {front}
  BY <1>2, <1>3, CutHeap
<1> QED
  BY <1>4 DEF Cut, mid

(* ... or grows into the free block n after it.                               *)
GrowCase(B, top, b, n, asize) ==
    /\ top \in Nat /\ Heap(B, top)
    /\ b \in B /\ b.alloc /\ n \in B
    /\ asize \in Nat /\ asize >= MINIMUM /\ Even(asize)
    /\ GrowsInto(b, n, asize)

(* What the cut then leaves: a heap where b has the size asked for.           *)
GrowDone(B, top, b, n, asize) ==
    LET C == Cut(B \ {n}, b, n.hi, asize) IN
    /\ Heap(C, top)
    /\ Allocated(C) = (Allocated(B) \ {b}) \cup {Block(b.lo, b.lo + asize, TRUE)}

(* A block grown into its free neighbour leaves a heap, and only it changes.  *)
LEMMA GrowHeap ==
    ASSUME NEW B, NEW top, NEW b, NEW n, NEW asize, GrowCase(B, top, b, n, asize)
    PROVE  GrowDone(B, top, b, n, asize)
<1>0. /\ top \in Nat /\ Heap(B, top)
      /\ b \in B /\ b.alloc /\ n \in B
      /\ asize \in Nat /\ asize >= MINIMUM /\ Even(asize)
      /\ GrowsInto(b, n, asize)
  BY DEF GrowCase
<1> DEFINE mid == b.lo + asize
           J == Block(b.lo, n.hi, TRUE)
           D == (B \ {b, n}) \cup {J}
           front == Block(b.lo, mid, TRUE)
           C == Coalesce((D \ {J}) \cup {front}, Block(mid, n.hi, FALSE))
<1>1. b.lo \in Nat /\ b.hi \in Nat /\ n.hi \in Nat /\ Even(b.lo)
  BY <1>0 DEF Heap, BlockType, EvenBlocks
<1>2. mid \in Nat /\ b.lo < mid /\ mid < n.hi
  BY <1>0, <1>1 DEF GrowsInto, Size, MINIMUM, DSIZE
<1>3. Even(mid)
  BY <1>0, <1>1, EvenSum
<1>4. ~n.alloc /\ n.lo = b.hi
  BY <1>0 DEF GrowsInto
<1>5. Heap(D, top) /\ J \notin B
  BY <1>0, <1>4, JoinHeap
<1>6. J \in D /\ J.lo = b.lo /\ J.hi = n.hi /\ J.alloc
  BY DEF Block
<1> HIDE DEF mid, J
<1>7. Heap(C, top) /\ Allocated(C) = (Allocated(D) \ {J}) \cup {front}
  <2> HIDE DEF D
  <2>1. LET cut == Block(J.lo, mid, TRUE)
            E == Coalesce((D \ {J}) \cup {cut}, Block(mid, J.hi, FALSE))
        IN  Heap(E, top) /\ Allocated(E) = (Allocated(D) \ {J}) \cup {cut}
    <3>1. /\ J \in D /\ J.lo < mid /\ mid < J.hi
          /\ mid \in Nat /\ Even(mid) /\ Heap(D, top)
      BY <1>0, <1>2, <1>3, <1>5, <1>6
    <3> QED
      BY <1>0, <3>1, CutHeap
  <2> QED
    BY <1>6, <2>1
<1>8. D \ {J} = (B \ {n}) \ {b}
  BY <1>0, <1>5
<1>9. Allocated(D) \ {J} = Allocated(B) \ {b}
  BY <1>0, <1>4, <1>5, <1>6 DEF Allocated
<1> QED
  BY <1>7, <1>8, <1>9 DEF GrowDone, Cut, mid

-----------------------------------------------------------------------------
(* Who holds what: the allocated blocks and the client's slots                *)

Held(A, slots) ==
    /\ \A id \in Ids : IsLive(slots[id]) =>
          \E b \in A : b.lo = slots[id].ptr /\ slots[id].size <= Size(b) - DSIZE
    /\ \A b \in A : \E id \in Ids : slots[id].ptr = b.lo
    /\ \A id, other \in Ids :
          IsLive(slots[id]) /\ slots[id].ptr = slots[other].ptr => id = other

(* PayloadsHeld is about the allocated blocks only.                           *)
LEMMA PayloadsHeldAsHeld == PayloadsHeld <=> Held(Allocated(blocks), live)
  BY DEF PayloadsHeld, Held, HoldsBlock, Allocated

(* An empty slot receives a new block.                                        *)
LEMMA GrantHeld ==
    ASSUME NEW A, NEW slots \in Slots, Held(A, slots),
           NEW id \in Ids, ~IsLive(slots[id]),
           NEW a, a.lo \in Nat, a.lo # NULL,
           \A b \in A : b.lo # a.lo /\ b.lo # NULL,
           NEW size \in Nat, size <= Size(a) - DSIZE
    PROVE  LET new == [slots EXCEPT ![id] = [ptr |-> a.lo, size |-> size]]
           IN  new \in Slots /\ Held(A \cup {a}, new)
<1> DEFINE new == [slots EXCEPT ![id] = [ptr |-> a.lo, size |-> size]]
<1>1. new \in Slots
  BY DEF Slots
<1>2. new[id].ptr = a.lo /\ new[id].size = size
  BY DEF Slots
<1>3. \A other \in Ids \ {id} : new[other] = slots[other]
  BY DEF Slots
<1>4. \A other \in Ids : slots[other].ptr # a.lo
  BY DEF Held, IsLive
<1> HIDE DEF new
<1>5. \A i \in Ids : IsLive(new[i]) =>
        \E b \in A \cup {a} : b.lo = new[i].ptr /\ new[i].size <= Size(b) - DSIZE
  BY <1>2, <1>3 DEF Held
<1>6. \A b \in A \cup {a} : \E i \in Ids : new[i].ptr = b.lo
  <2>1. \A b \in A : b.lo # NULL => \E i \in Ids \ {id} : slots[i].ptr = b.lo
    BY DEF Held, IsLive
  <2> QED
    BY <1>2, <1>3, <2>1
<1>7. \A i, j \in Ids : IsLive(new[i]) /\ new[i].ptr = new[j].ptr => i = j
  BY <1>2, <1>3, <1>4 DEF Held
<1> QED
  BY <1>1, <1>5, <1>6, <1>7 DEF Held, new

(* A slot gives its block up.                                                 *)
LEMMA DropHeld ==
    ASSUME NEW A, NEW slots \in Slots, Held(A, slots),
           NEW id \in Ids, IsLive(slots[id]),
           NEW b \in A, b.lo = slots[id].ptr, \A c \in A : c.lo = b.lo => c = b
    PROVE  LET new == [slots EXCEPT ![id] = NoBlock]
           IN  new \in Slots /\ Held(A \ {b}, new)
<1> DEFINE new == [slots EXCEPT ![id] = NoBlock]
<1>1. new \in Slots
  BY DEF Slots, NoBlock, NULL
<1>2. ~IsLive(new[id])
  BY DEF Slots, NoBlock, IsLive
<1>3. \A other \in Ids \ {id} : new[other] = slots[other]
  BY DEF Slots
<1>4. \A other \in Ids \ {id} : slots[other].ptr # b.lo
  BY DEF Held
<1> HIDE DEF new
<1>5. \A i \in Ids : IsLive(new[i]) =>
        \E c \in A \ {b} : c.lo = new[i].ptr /\ new[i].size <= Size(c) - DSIZE
  BY <1>2, <1>3, <1>4 DEF Held
<1>6. \A c \in A \ {b} : \E i \in Ids : new[i].ptr = c.lo
  <2> SUFFICES ASSUME NEW c \in A, c # b
               PROVE  \E i \in Ids : new[i].ptr = c.lo
    OBVIOUS
  <2>1. PICK i \in Ids : slots[i].ptr = c.lo
    BY DEF Held
  <2>2. i # id
    BY <2>1
  <2> QED
    BY <1>3, <2>1, <2>2
<1>7. \A i, j \in Ids : IsLive(new[i]) /\ new[i].ptr = new[j].ptr => i = j
  BY <1>2, <1>3 DEF Held, IsLive
<1> QED
  BY <1>1, <1>5, <1>6, <1>7 DEF Held, new

(* A slot exchanges its block b for the block a.                              *)
LEMMA MoveHeld ==
    ASSUME NEW A, NEW slots \in Slots, Held(A, slots),
           NEW id \in Ids, IsLive(slots[id]),
           NEW b \in A, b.lo = slots[id].ptr, \A c \in A : c.lo = b.lo => c = b,
           NEW a, a.lo \in Nat, a.lo # NULL,
           \A c \in A \ {b} : c.lo # a.lo /\ c.lo # NULL,
           NEW size \in Nat, size <= Size(a) - DSIZE
    PROVE  LET new == [slots EXCEPT ![id] = [ptr |-> a.lo, size |-> size]]
           IN  new \in Slots /\ Held((A \ {b}) \cup {a}, new)
<1> DEFINE emptied == [slots EXCEPT ![id] = NoBlock]
           entry == [ptr |-> a.lo, size |-> size]
           rest == A \ {b}
<1>1. emptied \in Slots /\ Held(rest, emptied)
  BY DropHeld
<1>2. ~IsLive(emptied[id])
  BY DEF Slots, NoBlock, IsLive
<1>3. [emptied EXCEPT ![id] = entry] = [slots EXCEPT ![id] = entry]
  BY DEF Slots
<1> HIDE DEF emptied, rest
<1>4. [emptied EXCEPT ![id] = entry] \in Slots /\ Held(rest \cup {a}, [emptied EXCEPT ![id] = entry])
  <2>1. \A c \in rest : c.lo # a.lo /\ c.lo # NULL
    BY DEF rest
  <2> QED
    BY <1>1, <1>2, <2>1, GrantHeld
<1> QED
  BY <1>3, <1>4 DEF rest

-----------------------------------------------------------------------------
(* The invariant                                                              *)

(* Inductive as it stands: a heap between two calls, and slots that hold its  *)
(* allocated blocks.  Before the first mm_init there are no blocks at all.    *)
IInv == TypeOK /\ HeapWellFormed /\ PayloadsHeld /\ Aligned

(* The same, of any blocks, break and slots.                                  *)
Good(B, top, slots) ==
    /\ top \in Nat /\ Even(top)
    /\ slots \in Slots
    /\ Held(Allocated(B), slots)
    /\ B = {} \/ (Heap(B, top) /\ top <= Limit)

(* The invariant in terms of the heap lemmas above.                            *)
LEMMA IInvIsGood == IInv <=> Good(blocks, brk, live)
<1>1. IInv => Good(blocks, brk, live)
  <2> SUFFICES ASSUME IInv
               PROVE  Good(blocks, brk, live)
    OBVIOUS
  <2>1. Held(Allocated(blocks), live)
    BY PayloadsHeldAsHeld DEF IInv
  <2>2. brk \in Nat /\ Even(brk) /\ live \in Slots
    BY DEF IInv, TypeOK, Aligned
  <2>3. blocks = {} \/ (Heap(blocks, brk) /\ brk <= Limit)
    <3>1. blocks # {} => Heap(blocks, brk) /\ brk <= Limit
      BY DEF IInv, TypeOK, HeapWellFormed, Aligned, Heap, EvenBlocks, BlockType
    <3> QED
      BY <3>1
  <2> QED
    BY <2>1, <2>2, <2>3 DEF Good
<1>2. Good(blocks, brk, live) => IInv
  <2> SUFFICES ASSUME Good(blocks, brk, live)
               PROVE  IInv
    OBVIOUS
  <2>1. PayloadsHeld
    BY PayloadsHeldAsHeld DEF Good
  <2>2. CASE blocks = {}
    BY <2>1, <2>2 DEF Good, IInv, TypeOK, HeapWellFormed, Aligned
  <2>3. CASE Heap(blocks, brk) /\ brk <= Limit
    BY <2>1, <2>3
       DEF Good, IInv, TypeOK, HeapWellFormed, Aligned, Heap, EvenBlocks, BlockType
  <2> QED
    BY <2>2, <2>3 DEF Good
<1> QED
  BY <1>1, <1>2

(* What the invariant says of a slot that holds b.                            *)
LEMMA HolderFacts ==
    ASSUME NEW B, NEW top, NEW slots, Good(B, top, slots),
           NEW id \in Ids, IsLive(slots[id]),
           NEW b \in B, b.alloc, b.lo = slots[id].ptr
    PROVE  /\ top \in Nat /\ Heap(B, top) /\ top <= Limit
           /\ b \in Allocated(B)
           /\ \A c \in Allocated(B) : c.lo = b.lo => c = b
           /\ \A c \in Allocated(B) : c.lo # NULL
           /\ b.lo \in Nat /\ b.hi \in Nat /\ b.lo # NULL
<1>1. top \in Nat /\ Heap(B, top) /\ top <= Limit
  BY DEF Good
<1>2. b \in Allocated(B)
  BY DEF Allocated
<1>3. \A c \in Allocated(B) : c.lo = b.lo => c = b
  BY <1>1, UniquePointer DEF Allocated
<1>4. \A c \in Allocated(B) : c.lo # NULL
  BY <1>1, PointerNotNull DEF Allocated
<1>5. b.lo \in Nat /\ b.hi \in Nat /\ b.lo # NULL
  BY <1>1, PointerNotNull
<1> QED
  BY <1>1, <1>2, <1>3, <1>4, <1>5

(* mm_init leaves one free block between the prologue and the epilogue.       *)
LEMMA NewTraceGood ==
    ASSUME NewTrace
    PROVE  Good(blocks', brk', live')
<1> DEFINE b == Block(FirstBlock, FirstBlock + MINIMUM, FALSE)
<1>1. FirstBlock \in Nat /\ Even(FirstBlock) /\ FirstBlock + MINIMUM <= Limit
  BY ArenaAssumption DEF FirstBlock, Limit, MINIMUM, Even
<1>2. brk' \in Nat /\ Even(brk') /\ brk' <= Limit
  BY <1>1 DEF NewTrace, MINIMUM, Even
<1>3. b \in BlockType /\ b.lo = FirstBlock /\ b.hi = brk' /\ ~b.alloc /\ b.lo < b.hi
  BY <1>1 DEF Block, BlockType, NewTrace, MINIMUM
<1>4. blocks' = {b}
  BY DEF NewTrace
<1> HIDE DEF b
<1>5. Heap(blocks', brk')
  <2>1. Disjoint({b}, brk')
    BY <1>1, <1>2, <1>3 DEF Disjoint, BlockType
  <2>2. Covering({b}, brk') /\ NoContiguousFree({b})
    BY <1>1, <1>3 DEF Covering, NoContiguousFree, BlockType
  <2>3. EvenBlocks({b})
    BY <1>1, <1>2, <1>3 DEF EvenBlocks
  <2> QED
    BY <1>3, <1>4, <2>1, <2>2, <2>3 DEF Heap, WellFormed
<1>6. live' \in Slots /\ Held({}, live')
  BY DEF NewTrace, Slots, Held, IsLive, NoBlock, NULL
<1>7. Allocated(blocks') = {}
  BY <1>3, <1>4 DEF Allocated
<1> QED
  BY <1>2, <1>5, <1>6, <1>7 DEF Good

(* mm_malloc: the slot gets a block of its own, or keeps nothing.             *)
LEMMA MallocGood ==
    ASSUME Good(blocks, brk, live), NEW id \in Ids, NEW size \in Sizes, Malloc(id, size)
    PROVE  Good(blocks', brk', live')
<1> DEFINE asize == AdjustedSize(size)
<1>1. /\ Heap(blocks, brk) /\ brk <= Limit /\ brk \in Nat /\ Even(brk)
      /\ live \in Slots /\ Held(Allocated(blocks), live) /\ ~IsLive(live[id])
  BY DEF Good, Malloc
<1>2. size \in Nat
  BY SizesAssumption
<1>3. asize \in Nat /\ asize >= MINIMUM /\ asize >= size + DSIZE /\ Even(asize)
  BY <1>2, AdjustedSizeFits
<1>4. PICK r \in Allocations(blocks, brk, asize) :
        blocks' = r.blocks /\ brk' = r.brk /\ Receive(id, r.ptr, size)
  BY DEF Malloc
<1> HIDE DEF asize
<1>5. /\ brk' \in Nat /\ Even(brk') /\ brk' <= Limit
      /\ Heap(blocks', brk')
      /\ \/ r.ptr = NULL /\ Allocated(blocks') = Allocated(blocks)
         \/ \E a \in BlockType :
               /\ a.alloc /\ a.lo = r.ptr /\ a.lo # NULL /\ Size(a) >= asize
               /\ Allocated(blocks') = Allocated(blocks) \cup {a}
               /\ \A b \in Allocated(blocks) : b.lo # a.lo
  BY <1>1, <1>3, <1>4, AllocationsHeap
<1>6. CASE r.ptr = NULL /\ Allocated(blocks') = Allocated(blocks)
  <2>1. live' = live
    BY <1>4, <1>6 DEF Receive
  <2> QED
    BY <1>1, <1>5, <1>6, <2>1 DEF Good
<1>7. ASSUME NEW a \in BlockType,
             a.lo = r.ptr, a.lo # NULL, Size(a) >= asize,
             Allocated(blocks') = Allocated(blocks) \cup {a},
             \A b \in Allocated(blocks) : b.lo # a.lo
      PROVE  Good(blocks', brk', live')
  <2>1. live' = [live EXCEPT ![id] = [ptr |-> a.lo, size |-> size]]
    BY <1>4, <1>7 DEF Receive
  <2>2. a.lo \in Nat /\ Size(a) \in Int /\ size <= Size(a) - DSIZE
    BY <1>2, <1>3, <1>7 DEF BlockType, Size, DSIZE
  <2>3. \A b \in Allocated(blocks) : b.lo # a.lo /\ b.lo # NULL
    BY <1>1, <1>7, PointerNotNull DEF Allocated
  <2>4. live' \in Slots /\ Held(Allocated(blocks) \cup {a}, live')
    BY <1>1, <1>2, <1>7, <2>1, <2>2, <2>3, GrantHeld
  <2> QED
    BY <1>5, <1>7, <2>4 DEF Good
<1> QED
  BY <1>5, <1>6, <1>7

(* mm_free: the slot's block goes back to the heap.                           *)
LEMMA FreeGood ==
    ASSUME Good(blocks, brk, live), NEW id \in Ids, Free(id)
    PROVE  Good(blocks', brk', live')
<1>1. PICK b \in blocks : HoldsBlock(id, b) /\ blocks' = Release(blocks, b)
  BY DEF Free
<1>2. IsLive(live[id]) /\ live' = [live EXCEPT ![id] = NoBlock] /\ brk' = brk
  BY DEF Free
<1>3. b.alloc /\ b.lo = live[id].ptr
  BY <1>1 DEF HoldsBlock
<1>4. /\ brk \in Nat /\ Heap(blocks, brk) /\ brk <= Limit /\ b \in Allocated(blocks)
      /\ \A c \in Allocated(blocks) : c.lo = b.lo => c = b
  BY <1>2, <1>3, HolderFacts
<1>5. Heap(blocks', brk) /\ Allocated(blocks') = Allocated(blocks) \ {b}
  BY <1>1, <1>3, <1>4, ReleaseHeap
<1>6. live' \in Slots /\ Held(Allocated(blocks) \ {b}, live')
  BY <1>2, <1>3, <1>4, DropHeld DEF Good
<1> QED
  BY <1>2, <1>4, <1>5, <1>6 DEF Good

(* In place: the slot keeps its pointer, and its block becomes the front.     *)
LEMMA InPlaceGood ==
    ASSUME Good(blocks, brk, live), NEW id \in Ids, NEW size \in Nat,
           IsLive(live[id]),
           NEW b \in blocks, b.alloc, b.lo = live[id].ptr,
           NEW asize \in Nat, asize >= size + DSIZE,
           Heap(blocks', brk),
           Allocated(blocks') = (Allocated(blocks) \ {b}) \cup {Block(b.lo, b.lo + asize, TRUE)},
           Receive(id, live[id].ptr, size), brk' = brk
    PROVE  Good(blocks', brk', live')
<1> DEFINE front == Block(b.lo, b.lo + asize, TRUE)
<1>1. /\ brk \in Nat /\ brk <= Limit /\ b \in Allocated(blocks)
      /\ \A c \in Allocated(blocks) : c.lo = b.lo => c = b
      /\ \A c \in Allocated(blocks) : c.lo # NULL
      /\ b.lo \in Nat /\ b.lo # NULL
  BY HolderFacts
<1>2. front.lo = b.lo /\ size <= Size(front) - DSIZE
  BY <1>1 DEF Block, Size, DSIZE
<1>3. live' = [live EXCEPT ![id] = [ptr |-> front.lo, size |-> size]]
  BY <1>1, <1>2 DEF Receive, IsLive
<1> HIDE DEF front
<1>4. \A c \in Allocated(blocks) \ {b} : c.lo # front.lo /\ c.lo # NULL
  BY <1>1, <1>2
<1>5. live' \in Slots /\ Held((Allocated(blocks) \ {b}) \cup {front}, live')
  BY <1>1, <1>2, <1>3, <1>4, MoveHeld DEF Good
<1> QED
  BY <1>1, <1>5 DEF Good, front

(* mm_realloc in place: the block shrinks, or grows into the next one.        *)
LEMMA ReallocInPlaceGood ==
    ASSUME Good(blocks, brk, live), NEW id \in Ids, NEW size \in Sizes,
           ReallocShrink(id, size) \/ ReallocGrow(id, size)
    PROVE  Good(blocks', brk', live')
<1> DEFINE asize == AdjustedSize(size)
<1>1. size \in Nat
  BY SizesAssumption
<1>2. asize \in Nat /\ asize >= MINIMUM /\ asize >= size + DSIZE /\ Even(asize)
  BY <1>1, AdjustedSizeFits
<1>3. CASE ReallocShrink(id, size)
  <2>1. PICK b \in blocks :
          /\ HoldsBlock(id, b) /\ ShrinksInPlace(b, asize)
          /\ blocks' = Cut(blocks, b, b.hi, asize)
    BY <1>3 DEF ReallocShrink
  <2>2. IsLive(live[id]) /\ Receive(id, live[id].ptr, size) /\ brk' = brk
    BY <1>3 DEF ReallocShrink
  <2>3. b.alloc /\ b.lo = live[id].ptr
    BY <2>1 DEF HoldsBlock
  <2>4. brk \in Nat /\ Heap(blocks, brk)
    BY <2>2, <2>3, HolderFacts
  <2> HIDE DEF asize
  <2>5. /\ Heap(blocks', brk)
        /\ Allocated(blocks') = (Allocated(blocks) \ {b}) \cup {Block(b.lo, b.lo + asize, TRUE)}
    <3>1. /\ Heap(Cut(blocks, b, b.hi, asize), brk)
          /\ Allocated(Cut(blocks, b, b.hi, asize))
                = (Allocated(blocks) \ {b}) \cup {Block(b.lo, b.lo + asize, TRUE)}
      <4>1. /\ asize \in Nat /\ asize >= MINIMUM /\ Even(asize)
            /\ ShrinksInPlace(b, asize)
            /\ b.alloc /\ brk \in Nat /\ Heap(blocks, brk)
        BY <1>2, <2>1, <2>3, <2>4
      <4> QED
        BY <4>1, ShrinkHeap, Zenon
    <3> QED
      BY <2>1, <3>1
  <2> QED
    BY <1>1, <1>2, <2>2, <2>3, <2>5, InPlaceGood
<1>4. CASE ReallocGrow(id, size)
  <2>1. PICK b \in blocks, n \in blocks :
          /\ HoldsBlock(id, b) /\ GrowsInto(b, n, asize)
          /\ blocks' = Cut(blocks \ {n}, b, n.hi, asize)
    BY <1>4 DEF ReallocGrow
  <2>2. IsLive(live[id]) /\ Receive(id, live[id].ptr, size) /\ brk' = brk
    BY <1>4 DEF ReallocGrow
  <2>3. b.alloc /\ b.lo = live[id].ptr
    BY <2>1 DEF HoldsBlock
  <2>4. brk \in Nat /\ Heap(blocks, brk)
    BY <2>2, <2>3, HolderFacts
  <2> HIDE DEF asize
  <2>5. /\ Heap(blocks', brk)
        /\ Allocated(blocks') = (Allocated(blocks) \ {b}) \cup {Block(b.lo, b.lo + asize, TRUE)}
    <3>1. GrowCase(blocks, brk, b, n, asize)
      BY <1>2, <2>1, <2>3, <2>4 DEF GrowCase
    <3>2. GrowDone(blocks, brk, b, n, asize)
      BY <3>1, GrowHeap
    <3> QED
      BY <2>1, <3>2 DEF GrowDone
  <2> QED
    BY <1>1, <1>2, <2>2, <2>3, <2>5, InPlaceGood
<1> QED
  BY <1>3, <1>4

(* The block already has the size asked for.                                  *)
LEMMA ReallocSameGood ==
    ASSUME Good(blocks, brk, live), NEW id \in Ids, NEW size \in Sizes,
           ReallocSame(id, size)
    PROVE  Good(blocks', brk', live')
<1>1. size \in Nat
  BY SizesAssumption
<1>2. PICK b \in blocks : HoldsBlock(id, b) /\ Size(b) = AdjustedSize(size)
  BY DEF ReallocSame
<1>3. /\ IsLive(live[id]) /\ Receive(id, live[id].ptr, size)
      /\ brk' = brk /\ blocks' = blocks
  BY DEF ReallocSame
<1>4. b.alloc /\ b.lo = live[id].ptr
  BY <1>2 DEF HoldsBlock
<1>5. /\ brk \in Nat /\ Heap(blocks, brk) /\ brk <= Limit /\ b \in Allocated(blocks)
      /\ \A c \in Allocated(blocks) : c.lo = b.lo => c = b
      /\ \A c \in Allocated(blocks) : c.lo # NULL
      /\ b.lo \in Nat /\ b.lo # NULL
  BY <1>3, <1>4, HolderFacts
<1>6. size <= Size(b) - DSIZE
  BY <1>1, <1>2, AdjustedSizeFits DEF DSIZE
<1>7. live' = [live EXCEPT ![id] = [ptr |-> b.lo, size |-> size]]
  BY <1>3, <1>4 DEF Receive, IsLive
<1>8. \A c \in Allocated(blocks) \ {b} : c.lo # b.lo /\ c.lo # NULL
  BY <1>5
<1>9. live' \in Slots /\ Held((Allocated(blocks) \ {b}) \cup {b}, live')
  BY <1>1, <1>3, <1>4, <1>5, <1>6, <1>7, <1>8, MoveHeld DEF Good
<1>10. (Allocated(blocks) \ {b}) \cup {b} = Allocated(blocks')
  BY <1>3, <1>5
<1> QED
  BY <1>3, <1>5, <1>9, <1>10 DEF Good

(* The payload moves to a new block, and then its old block is freed.         *)
LEMMA ReallocMoveGood ==
    ASSUME Good(blocks, brk, live), NEW id \in Ids, NEW size \in Sizes,
           ReallocMove(id, size)
    PROVE  Good(blocks', brk', live')
<1> DEFINE inner == AdjustedSize(size)
           asize == AdjustedSize(inner)
<1>1. size \in Nat
  BY SizesAssumption
<1>2. inner \in Nat /\ inner >= size + DSIZE
  BY <1>1, AdjustedSizeFits
<1>3. asize \in Nat /\ asize >= MINIMUM /\ asize >= inner + DSIZE /\ Even(asize)
  <2> HIDE DEF inner
  <2> QED
    BY <1>2, AdjustedSizeFits
<1>4. PICK b \in blocks, r \in Allocations(blocks, brk, asize) :
        /\ HoldsBlock(id, b) /\ r.ptr # NULL
        /\ blocks' = Release(r.blocks, b) /\ brk' = r.brk /\ Receive(id, r.ptr, size)
  BY DEF ReallocMove
<1> HIDE DEF inner, asize
<1>5. IsLive(live[id])
  BY DEF ReallocMove
<1>6. b.alloc /\ b.lo = live[id].ptr
  BY <1>4 DEF HoldsBlock
<1>7. /\ brk \in Nat /\ Even(brk) /\ Heap(blocks, brk) /\ brk <= Limit
      /\ b \in Allocated(blocks)
      /\ \A c \in Allocated(blocks) : c.lo = b.lo => c = b
      /\ \A c \in Allocated(blocks) : c.lo # NULL
  BY <1>5, <1>6, HolderFacts DEF Good
<1>8. /\ brk' \in Nat /\ Even(brk') /\ brk' <= Limit /\ Heap(r.blocks, brk')
      /\ \/ r.ptr = NULL /\ Allocated(r.blocks) = Allocated(blocks)
         \/ \E a \in BlockType :
               /\ a.alloc /\ a.lo = r.ptr /\ a.lo # NULL /\ Size(a) >= asize
               /\ Allocated(r.blocks) = Allocated(blocks) \cup {a}
               /\ \A c \in Allocated(blocks) : c.lo # a.lo
  BY <1>3, <1>4, <1>7, AllocationsHeap
<1>9. PICK a \in BlockType :
        /\ a.lo = r.ptr /\ a.lo # NULL /\ Size(a) >= asize
        /\ Allocated(r.blocks) = Allocated(blocks) \cup {a}
        /\ \A c \in Allocated(blocks) : c.lo # a.lo
  BY <1>4, <1>8
<1>10. b \in r.blocks
  BY <1>7, <1>9 DEF Allocated
<1>11. Heap(blocks', brk') /\ Allocated(blocks') = Allocated(r.blocks) \ {b}
  BY <1>4, <1>6, <1>8, <1>10, ReleaseHeap
<1>12. Allocated(blocks') = (Allocated(blocks) \ {b}) \cup {a}
  BY <1>7, <1>9, <1>11
<1>13. live' = [live EXCEPT ![id] = [ptr |-> a.lo, size |-> size]]
  BY <1>4, <1>9 DEF Receive
<1>14. a.lo \in Nat /\ size <= Size(a) - DSIZE
  BY <1>1, <1>2, <1>3, <1>9 DEF BlockType, Size, DSIZE
<1>15. \A c \in Allocated(blocks) \ {b} : c.lo # a.lo /\ c.lo # NULL
  BY <1>7, <1>9
<1>16. live' \in Slots /\ Held((Allocated(blocks) \ {b}) \cup {a}, live')
  BY <1>1, <1>5, <1>6, <1>7, <1>9, <1>13, <1>14, <1>15, MoveHeld DEF Good
<1> QED
  BY <1>8, <1>11, <1>12, <1>16 DEF Good

-----------------------------------------------------------------------------
(* The theorems                                                               *)

(* Before the first mm_init there is no heap and nobody holds a block.        *)
LEMMA InitIInv == Init => IInv
<1> SUFFICES ASSUME Init
             PROVE  Good(blocks, brk, live)
  BY IInvIsGood
<1>1. brk \in Nat /\ Even(brk)
  BY ArenaAssumption DEF Init, Even
<1>2. live \in Slots /\ Held({}, live)
  BY DEF Init, Slots, Held, IsLive, NoBlock, NULL
<1>3. blocks = {} /\ Allocated(blocks) = {}
  BY DEF Init, Allocated
<1> QED
  BY <1>1, <1>2, <1>3 DEF Good

(* Every call of the client leaves a good heap and slots that match it.       *)
LEMMA StepGood ==
    ASSUME Good(blocks, brk, live), [Next]_vars
    PROVE  Good(blocks', brk', live')
<1>1. CASE NewTrace
  BY <1>1, NewTraceGood
<1>2. ASSUME NEW id \in Ids, Free(id)
      PROVE  Good(blocks', brk', live')
  BY <1>2, FreeGood
<1>3. ASSUME NEW id \in Ids, NEW size \in Sizes,
             \/ Malloc(id, size)
             \/ ReallocSame(id, size)
             \/ ReallocShrink(id, size)
             \/ ReallocGrow(id, size)
             \/ ReallocMove(id, size)
      PROVE  Good(blocks', brk', live')
  <2>1. CASE Malloc(id, size)
    BY <2>1, MallocGood
  <2>2. CASE ReallocSame(id, size)
    BY <2>2, ReallocSameGood
  <2>3. CASE ReallocShrink(id, size) \/ ReallocGrow(id, size)
    BY <2>3, ReallocInPlaceGood
  <2>4. CASE ReallocMove(id, size)
    BY <2>4, ReallocMoveGood
  <2> QED
    BY <1>3, <2>1, <2>2, <2>3, <2>4
<1>4. CASE UNCHANGED vars
  BY <1>4 DEF vars
<1> QED
  BY <1>1, <1>2, <1>3, <1>4 DEF Next

(* The invariant is inductive: no call of the client disturbs it.             *)
LEMMA StepIInv == IInv /\ [Next]_vars => IInv'
<1>1. IInv /\ [Next]_vars => Good(blocks, brk, live)'
  BY IInvIsGood, StepGood
<1>2. (IInv <=> Good(blocks, brk, live))'
  BY IInvIsGood, PTL
<1> QED
  BY <1>1, <1>2

(* Whatever the client calls, the invariant holds.                            *)
THEOREM Invariance == Spec => []IInv
  BY InitIInv, StepIInv, PTL DEF Spec

(* mm.c: the blocks, the break and the slots always have their types.         *)
THEOREM TypesCorrect == Spec => []TypeOK
<1>1. IInv => TypeOK
  BY DEF IInv
<1> QED
  BY <1>1, Invariance, PTL

(* mm.c, every call: the blocks tile the heap without gap or overlap, inside  *)
(* the arena, and coalesce never leaves two free neighbours.                  *)
THEOREM HeapAlwaysWellFormed == Spec => []HeapWellFormed
<1>1. IInv => HeapWellFormed
  BY DEF IInv
<1> QED
  BY <1>1, Invariance, PTL

(* mm_malloc, mm_free, mm_realloc: a live payload lies in an allocated block  *)
(* no other slot has, and no block stays allocated after its slot is freed.   *)
THEOREM PayloadsAlwaysHeld == Spec => []PayloadsHeld
<1>1. IInv => PayloadsHeld
  BY DEF IInv
<1> QED
  BY <1>1, Invariance, PTL

(* No live payload, one block: the first has no allocated block after it, and *)
(* no free one may follow it.                                                 *)
LEMMA GoodFreedIsWhole ==
    ASSUME NEW B, NEW top, NEW slots, Good(B, top, slots),
           B # {}, \A id \in Ids : ~IsLive(slots[id])
    PROVE  B = {Block(FirstBlock, top, FALSE)}
<1>1. Heap(B, top) /\ top \in Nat /\ Held(Allocated(B), slots)
  BY DEF Good
<1>2. \A b \in B : ~b.alloc
  <2> SUFFICES ASSUME NEW b \in B, b.alloc
               PROVE  FALSE
    OBVIOUS
  <2>1. PICK id \in Ids : slots[id].ptr = b.lo
    BY <1>1 DEF Held, Allocated
  <2> QED
    BY <1>1, <2>1, PointerNotNull DEF IsLive
<1>3. PICK b \in B : b.lo = FirstBlock
  BY <1>1 DEF Heap, WellFormed, Covering
<1>4. b.hi = top
  BY <1>1, <1>2 DEF Heap, WellFormed, Covering, NoContiguousFree
<1>5. \A c \in B : c = b
  BY <1>1, <1>3, <1>4, ArenaAssumption
     DEF Heap, WellFormed, Disjoint, BlockType, FirstBlock
<1>6. b = Block(FirstBlock, top, FALSE)
  BY <1>1, <1>2, <1>3, <1>4 DEF Heap, BlockType, Block
<1> QED
  BY <1>5, <1>6

(* mm_free, coalesce: when the client holds nothing, the heap is one free     *)
(* block from the prologue to the epilogue.                                   *)
THEOREM FreedHeapAlwaysWhole == Spec => []FreedHeapIsWhole
<1>1. IInv => FreedHeapIsWhole
  BY IInvIsGood, GoodFreedIsWhole DEF FreedHeapIsWhole
<1> QED
  BY <1>1, Invariance, PTL

(* mm_malloc, mm_realloc: block pointers are 8-byte aligned whatever sizes    *)
(* are asked for.                                                             *)
THEOREM PointersAlwaysAligned == Spec => []Aligned
<1>1. IInv => Aligned
  BY DEF IInv
<1> QED
  BY <1>1, Invariance, PTL

-----------------------------------------------------------------------------
(* The blocks implement the promise                                           *)

(* Promise extends the same parameters, under names of its own.               *)
LEMMA SameParameters ==
    /\ Promise!NoBlock = NoBlock
    /\ Promise!FirstBlock = FirstBlock /\ Promise!Limit = Limit
    /\ \A n : Promise!Even(n) <=> Even(n)
    /\ \A slot : Promise!IsLive(slot) <=> IsLive(slot)
BY DEF Promise!NoBlock, NoBlock, Promise!FirstBlock, FirstBlock, Promise!Limit, Limit,
       Promise!Even, Even, Promise!IsLive, IsLive, Promise!NULL, NULL

(* A payload a slot holds is aligned, below the break, and shares no word     *)
(* with another slot's.                                                       *)
LEMMA HeldAsPromised ==
    ASSUME NEW B, NEW top, NEW slots, Good(B, top, slots),
           NEW id \in Ids, IsLive(slots[id])
    PROVE  LET p == slots[id].ptr
               size == slots[id].size
           IN  /\ p \in FirstBlock .. Limit
               /\ Even(p) /\ p + size <= top
               /\ \A other \in Ids \ {id} :
                     IsLive(slots[other]) => ~Promise!Overlaps(p, size, slots[other])
<1>1. slots \in Slots /\ Held(Allocated(B), slots)
  BY DEF Good
<1>2. PICK b \in Allocated(B) : b.lo = slots[id].ptr /\ slots[id].size <= Size(b) - DSIZE
  BY <1>1 DEF Held
<1>3. top \in Nat /\ Heap(B, top) /\ top <= Limit
  BY <1>2 DEF Good, Allocated
<1>4. /\ \A c \in Allocated(B) : c.lo \in Nat /\ c.hi \in Nat
      /\ Even(b.lo) /\ FirstBlock <= b.lo /\ b.hi <= top
      /\ \A c \in Allocated(B) : c = b \/ b.hi <= c.lo \/ c.hi <= b.lo
  BY <1>3 DEF Heap, WellFormed, Disjoint, EvenBlocks, BlockType, Allocated
<1>5. FirstBlock \in Nat /\ Limit \in Nat
  BY ArenaAssumption DEF FirstBlock, Limit
<1>6. \A i \in Ids : slots[i].ptr \in Nat /\ slots[i].size \in Nat
  BY <1>1 DEF Slots
<1>7. /\ slots[id].ptr \in FirstBlock .. Limit
      /\ Even(slots[id].ptr) /\ slots[id].ptr + slots[id].size <= top
  BY <1>2, <1>3, <1>4, <1>5, <1>6 DEF Size, DSIZE
<1>8. ASSUME NEW other \in Ids \ {id}, IsLive(slots[other])
      PROVE  ~Promise!Overlaps(slots[id].ptr, slots[id].size, slots[other])
  <2>1. PICK c \in Allocated(B) :
          c.lo = slots[other].ptr /\ slots[other].size <= Size(c) - DSIZE
    BY <1>1, <1>8 DEF Held
  <2>2. c # b
    BY <1>1, <1>2, <1>8, <2>1 DEF Held
  <2>3. b.hi <= c.lo \/ c.hi <= b.lo
    BY <1>4, <2>2
  <2> QED
    BY <1>2, <1>4, <1>6, <2>1, <2>3 DEF Promise!Overlaps, Size, DSIZE
<1> QED
  BY <1>7, <1>8

(* A slot that is filled by a step gets what the package promises.            *)
LEMMA ReceiveAsPromised ==
    ASSUME live \in Slots, Good(blocks', brk', live'),
           NEW id \in Ids, NEW size \in Nat,
           NEW ptr, ptr # NULL, Receive(id, ptr, size),
           brk' \in brk .. Limit
    PROVE  Promise!Grant(id, size)
<1>1. live' = [live EXCEPT ![id] = [ptr |-> ptr, size |-> size]]
  BY DEF Receive
<1>2. /\ live'[id] = [ptr |-> ptr, size |-> size]
      /\ \A other \in Ids \ {id} : live'[other] = live[other]
  BY <1>1 DEF Slots
<1>3. IsLive(live'[id])
  BY <1>2 DEF IsLive
<1>4. /\ ptr \in FirstBlock .. Limit
      /\ Even(ptr) /\ ptr + size <= brk'
      /\ \A other \in Ids \ {id} :
            IsLive(live'[other]) => ~Promise!Overlaps(ptr, size, live'[other])
  BY <1>2, <1>3, HeldAsPromised
<1>5. Promise!MayReceive(id, ptr, size)
  BY <1>2, <1>4, SameParameters DEF Promise!MayReceive
<1> QED
  BY <1>1, <1>4, <1>5, SameParameters DEF Promise!Grant, Promise!Hold, Promise!HeapMayGrow

(* Each call of the client is a step of the promise, or leaves it alone.      *)
LEMMA StepAsPromised ==
    ASSUME Good(blocks, brk, live), Good(blocks', brk', live'), [Next]_vars
    PROVE  [Promise!Next]_<< live, brk >>
<1>1. /\ live \in Slots /\ brk \in Nat /\ Even(brk)
      /\ blocks # {} => Heap(blocks, brk) /\ brk <= Limit
  BY DEF Good
<1>2. CASE NewTrace
  <2>1. brk' \in Base .. Limit
    BY <1>2, ArenaAssumption DEF NewTrace, FirstBlock, Limit, MINIMUM
  <2> QED
    BY <1>2, <2>1, SameParameters DEF NewTrace, Promise!Next, Promise!NewTrace
<1>3. ASSUME NEW id \in Ids, Free(id)
      PROVE  Promise!Next
  BY <1>3, SameParameters DEF Free, Promise!Next, Promise!Free
<1>4. ASSUME NEW id \in Ids, NEW size \in Sizes, Malloc(id, size)
      PROVE  Promise!Next
  <2>1. size \in Nat /\ size \in Sizes \ {0} /\ ~IsLive(live[id])
    BY <1>4, SizesAssumption DEF Malloc
  <2>2. PICK r \in Allocations(blocks, brk, AdjustedSize(size)) :
           brk' = r.brk /\ Receive(id, r.ptr, size)
    BY <1>4 DEF Malloc
  <2>3. /\ brk' \in brk .. Limit
        /\ r.ptr = NULL => brk' = brk
    <3>1. Heap(blocks, brk) /\ brk <= Limit
      BY <1>1, <1>4 DEF Malloc
    <3>2. brk' \in Nat /\ brk <= brk' /\ brk' <= Limit /\ (r.ptr = NULL => brk' = brk)
      BY <1>1, <2>1, <2>2, <3>1, AdjustedSizeFits, AllocationsHeap
    <3> QED
      BY <1>1, <3>2, ArenaAssumption DEF Limit
  <2>4. Promise!Malloc(id, size)
    <3>1. CASE r.ptr = NULL
      BY <2>1, <2>2, <2>3, <3>1, SameParameters DEF Receive, Promise!Malloc
    <3>2. CASE r.ptr # NULL
      BY <1>1, <2>1, <2>2, <2>3, <3>2, ReceiveAsPromised, SameParameters DEF Promise!Malloc
    <3> QED
      BY <3>1, <3>2
  <2> QED
    BY <2>1, <2>4 DEF Promise!Next
<1>5. ASSUME NEW id \in Ids, NEW size \in Sizes,
             \/ ReallocSame(id, size)
             \/ ReallocShrink(id, size)
             \/ ReallocGrow(id, size)
             \/ ReallocMove(id, size)
      PROVE  Promise!Next
  <2>1. IsLive(live[id]) /\ size \in Nat /\ size \in Sizes \ {0}
    BY <1>5, SizesAssumption DEF ReallocSame, ReallocShrink, ReallocGrow, ReallocMove
  <2>2. Heap(blocks, brk) /\ brk <= Limit /\ Limit \in Nat
    BY <1>1, <1>5, ArenaAssumption
       DEF ReallocSame, ReallocShrink, ReallocGrow, ReallocMove, HoldsBlock, Limit
  <2>3. brk' \in brk .. Limit /\ \E ptr : ptr # NULL /\ Receive(id, ptr, size)
    <3>1. CASE ReallocSame(id, size) \/ ReallocShrink(id, size) \/ ReallocGrow(id, size)
      <4>1. Receive(id, live[id].ptr, size) /\ brk' = brk
        BY <3>1 DEF ReallocSame, ReallocShrink, ReallocGrow
      <4> QED
        BY <1>1, <2>1, <2>2, <4>1 DEF IsLive
    <3>2. CASE ReallocMove(id, size)
      <4>1. PICK r \in Allocations(blocks, brk, AdjustedSize(AdjustedSize(size))) :
               r.ptr # NULL /\ brk' = r.brk /\ Receive(id, r.ptr, size)
        BY <3>2 DEF ReallocMove
      <4>2. /\ AdjustedSize(AdjustedSize(size)) \in Nat
            /\ AdjustedSize(AdjustedSize(size)) >= MINIMUM
            /\ Even(AdjustedSize(AdjustedSize(size)))
        BY <2>1, AdjustedSizeFits
      <4>3. brk' \in Nat /\ brk <= brk' /\ brk' <= Limit
        BY <1>1, <2>2, <4>1, <4>2, AllocationsHeap
      <4> QED
        BY <1>1, <2>2, <4>1, <4>3
    <3> QED
      BY <1>5, <3>1, <3>2
  <2>4. Promise!Realloc(id, size)
    BY <1>1, <2>1, <2>3, ReceiveAsPromised, SameParameters DEF Promise!Realloc
  <2> QED
    BY <2>1, <2>4 DEF Promise!Next
<1>6. CASE UNCHANGED vars
  BY <1>6 DEF vars
<1> QED
  BY <1>2, <1>3, <1>4, <1>5, <1>6 DEF Next

(* mm.c, every call: however blocks are split, merged and moved, what the     *)
(* client sees is the abstract allocator: aligned payloads below the break    *)
(* that never overlap, a failed request that changes nothing.                 *)
THEOREM BlocksKeepPromise == Spec => PromiseSpec
<1>1. Init => Promise!Init
  BY SameParameters DEF Init, Promise!Init
<1>2. IInv /\ IInv' /\ [Next]_vars => [Promise!Next]_<< live, brk >>
  <2>1. IInv /\ [Next]_vars => Good(blocks, brk, live) /\ Good(blocks', brk', live')
    BY IInvIsGood, StepGood
  <2> QED
    BY <2>1, StepAsPromised
<1> QED
  BY <1>1, <1>2, Invariance, PTL DEF Spec, PromiseSpec, Promise!Spec

=============================================================================
