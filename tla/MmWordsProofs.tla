---------------------------- MODULE MmWordsProofs ----------------------------
(* Proofs about MmWords, for every arena, every set of slots and every set of *)
(* request sizes, where the word beside the arena is odd (OutsideWords = {1}, *)
(* see README).                                                               *)
(*                                                                            *)
(* The proofs go from the words to the client.  A heap "holds" blocks when    *)
(* its tags are theirs and its free list chains some of them; it is settled   *)
(* when those are the free ones, the blocks leave no gap, and the epilogue    *)
(* follows the last.  One section per function of mm.c proves that the        *)
(* function leads from a settled heap to a settled heap, to which blocks      *)
(* (those of the operator of MmBlocks for the function), and that it touches  *)
(* no payload in use.  The invariant adds that the client's payloads lie in   *)
(* blocks of their own and hold what was stored.                              *)
EXTENDS MmWordsBlocks, SequenceFacts

-----------------------------------------------------------------------------
(* Words                                                                      *)

(* A heap in use, whose word outside the arena is odd.                        *)
InUse(h) ==
    h \in [mem : [Arena -> Nat], brk : Nat, free_listp : Nat,
           outside : {1}, status : {"running"}]

(* k is h with at most the words of S written.                                *)
Wrote(h, k, S) ==
    /\ InUse(k)
    /\ k.brk = h.brk
    /\ \A a : a \notin S => GET(k, a) = GET(h, a)

(* The assumption on the arena, in the forms the proofs need.                 *)
LEMMA ArenaBounds ==
    /\ Base \in Nat /\ MAX_HEAP \in Nat /\ Limit \in Nat /\ Prologue \in Nat /\ FirstBlock \in Nat
    /\ Limit = Base + MAX_HEAP /\ Prologue = Base + 2 /\ FirstBlock = Base + 6
    /\ Base + 12 <= Limit /\ Base > 0
    /\ Even(Base) /\ Even(Prologue) /\ Even(FirstBlock)
  BY ArenaAssumption DEF Limit, Prologue, FirstBlock, DSIZE, MINIMUM, Even

(* A read returns a number, whatever the address: the word of the arena, or   *)
(* the odd word beside it.                                                    *)
LEMMA GetIs ==
    ASSUME NEW h, InUse(h), NEW a
    PROVE  /\ GET(h, a) \in Nat
           /\ a \in Arena => GET(h, a) = h.mem[a]
           /\ a \notin Arena => GET(h, a) = 1
  BY DEF InUse, GET

(* A store into the arena changes that word and no other.                     *)
LEMMA PutWrites ==
    ASSUME NEW h, InUse(h), NEW a \in Arena, NEW v \in Nat
    PROVE  /\ Wrote(h, PUT(h, a, v), {a})
           /\ GET(PUT(h, a, v), a) = v
           /\ PUT(h, a, v).free_listp = h.free_listp
<1> DEFINE k == [h EXCEPT !.mem = [h.mem EXCEPT ![a] = v]]
<1>1. PUT(h, a, v) = k
  BY DEF PUT, InUse
<1>2. /\ InUse(k) /\ k.brk = h.brk /\ k.free_listp = h.free_listp /\ k.outside = h.outside
      /\ k.mem = [h.mem EXCEPT ![a] = v]
  BY DEF InUse
<1>3. h.mem \in [Arena -> Nat]
  BY DEF InUse
<1> HIDE DEF k
<1>4. \A x : x # a => GET(k, x) = GET(h, x)
  BY <1>2, <1>3 DEF GET
<1>5. GET(k, a) = v
  BY <1>2, <1>3 DEF GET
<1> QED
  BY <1>1, <1>2, <1>4, <1>5 DEF Wrote

(* Writes one after the other.                                                *)
LEMMA WroteTrans ==
    ASSUME NEW h, NEW k, NEW m, NEW S, NEW T, Wrote(h, k, S), Wrote(k, m, T)
    PROVE  Wrote(h, m, S \cup T)
  BY DEF Wrote

(* A set of words may be widened.                                             *)
LEMMA WroteMore ==
    ASSUME NEW h, NEW k, NEW S, NEW T, Wrote(h, k, S), S \subseteq T
    PROVE  Wrote(h, k, T)
  BY DEF Wrote

-----------------------------------------------------------------------------
(* Tags                                                                       *)

(* A header word as its size and its allocated bit.                           *)
LEMMA TagReads ==
    ASSUME NEW h, NEW a, NEW size \in Nat, Even(size), NEW bit \in {0, 1},
           GET(h, a) = PACK(size, bit)
    PROVE  GET_SIZE(h, a) = size /\ GET_ALLOC(h, a) = bit
  BY DEF PACK, GET_SIZE, GET_ALLOC, Even

(* Both tags of a block at bp.                                                *)
LEMMA PutTagsWrites ==
    ASSUME NEW h, InUse(h), NEW bp \in Nat, NEW size \in Nat, NEW bit \in {0, 1},
           Even(size), bp - 1 \in Arena, bp + size - 2 \in Arena
    PROVE  LET k == PutTags(h, bp, size, bit)
           IN  /\ Wrote(h, k, {bp - 1, bp + size - 2})
               /\ GET(k, bp - 1) = size + bit /\ GET(k, bp + size - 2) = size + bit
               /\ k.free_listp = h.free_listp
<1> DEFINE v == PACK(size, bit)
           a == bp - 1
           z == bp + size - 2
           j == PUT(h, a, v)
           k == PUT(j, z, v)
<1>1. v \in Nat /\ v = size + bit /\ HDRP(bp) = a
  BY DEF PACK, HDRP, WSIZE
<1>2. Wrote(h, j, {a}) /\ GET(j, a) = v /\ j.free_listp = h.free_listp
  BY <1>1, PutWrites
<1>3. GET_SIZE(j, a) = size
  BY <1>2, TagReads
<1>4. FTRP(j, bp) = z
  BY <1>1, <1>3 DEF FTRP, DSIZE
<1>5. PutTags(h, bp, size, bit) = k
  BY <1>1, <1>4 DEF PutTags, PutFooter
<1>6. Wrote(j, k, {z}) /\ GET(k, z) = v /\ k.free_listp = j.free_listp
  BY <1>1, <1>2, PutWrites DEF Wrote
<1> HIDE DEF k, j, v
<1>7. GET(k, a) = v
  BY <1>2, <1>6 DEF Wrote
<1>8. Wrote(h, k, {a} \cup {z})
  BY <1>2, <1>6, WroteTrans
<1> QED
  BY <1>1, <1>2, <1>5, <1>6, <1>7, <1>8

-----------------------------------------------------------------------------
(* The free list                                                              *)

(* The addresses a node of the list may have: aligned, with room for both     *)
(* links.                                                                     *)
LinkPtrs == {x \in Prologue .. (Limit - 2) : Even(x)}

LinkWords(F) == UNION {{x, x + 1} : x \in F \cup {Prologue}}

(* The links of h chain the nodes F from free_listp to the prologue, forwards *)
(* and backwards.  rank, which falls along the chain, says that it has no     *)
(* cycle; N is a bound of it.                                                 *)
Chained(h, F, rank, N) ==
    /\ N \in Nat
    /\ rank \in [F \cup {Prologue} -> 0 .. N]
    /\ h.free_listp \in F \cup {Prologue}
    /\ \A x \in F : /\ NEXT_FREE(h, x) \in F \cup {Prologue}
                    /\ PREV_FREE(h, NEXT_FREE(h, x)) = x
                    /\ rank[NEXT_FREE(h, x)] < rank[x]
    /\ PREV_FREE(h, h.free_listp) = NULL
    /\ \A x \in F \cup {Prologue} :
          x # h.free_listp => /\ PREV_FREE(h, x) \in F
                              /\ NEXT_FREE(h, PREV_FREE(h, x)) = x

Linked(h, F) ==
    /\ F \subseteq LinkPtrs \ {Prologue}
    /\ \E rank, N : Chained(h, F, rank, N)

(* A block pointer and the word after it are words of the arena, and it is    *)
(* not NULL.                                                                  *)
LEMMA LinkPtrFacts ==
    ASSUME NEW x \in LinkPtrs
    PROVE  x \in Nat /\ x # NULL /\ x \in Arena /\ x + 1 \in Arena /\ Even(x) /\ WSIZE = 1
  BY ArenaBounds DEF LinkPtrs, Arena, NULL, WSIZE

(* The prologue can carry links too.                                          *)
LEMMA PrologueIsLinkPtr == Prologue \in LinkPtrs
  BY ArenaBounds DEF LinkPtrs

(* Storing one link changes no other link and leaves free_listp.              *)
LEMMA SetPrevWrites ==
    ASSUME NEW h, InUse(h), NEW x \in LinkPtrs, NEW p \in Nat
    PROVE  LET k == SetPrev(h, x, p)
           IN  /\ Wrote(h, k, {x}) /\ k.free_listp = h.free_listp
               /\ \A y \in LinkPtrs : NEXT_FREE(k, y) = NEXT_FREE(h, y)
               /\ PREV_FREE(k, x) = p
               /\ \A y \in LinkPtrs : y # x => PREV_FREE(k, y) = PREV_FREE(h, y)
<1> DEFINE k == SetPrev(h, x, p)
<1>1. Wrote(h, k, {x}) /\ k.free_listp = h.free_listp /\ GET(k, x) = p
  BY LinkPtrFacts, PutWrites DEF SetPrev
<1> HIDE DEF k
<1>2. \A y \in LinkPtrs : y \in Nat /\ Even(y) /\ y + 1 # x
  BY LinkPtrFacts DEF Even
<1> QED
  BY <1>1, <1>2 DEF Wrote, NEXT_FREE, PREV_FREE, WSIZE, k

(* The same for the link to the next block.                                   *)
LEMMA SetNextWrites ==
    ASSUME NEW h, InUse(h), NEW x \in LinkPtrs, NEW p \in Nat
    PROVE  LET k == SetNext(h, x, p)
           IN  /\ Wrote(h, k, {x + 1}) /\ k.free_listp = h.free_listp
               /\ NEXT_FREE(k, x) = p
               /\ \A y \in LinkPtrs : y # x => NEXT_FREE(k, y) = NEXT_FREE(h, y)
               /\ \A y \in LinkPtrs : PREV_FREE(k, y) = PREV_FREE(h, y)
<1> DEFINE k == SetNext(h, x, p)
<1>1. Wrote(h, k, {x + 1}) /\ k.free_listp = h.free_listp /\ GET(k, x + 1) = p
  BY LinkPtrFacts, PutWrites DEF SetNext, WSIZE
<1> HIDE DEF k
<1>2. \A y \in LinkPtrs : y \in Nat /\ Even(y) /\ y # x + 1 /\ (y + 1 = x + 1 => y = x)
  BY LinkPtrFacts DEF Even
<1>3. GET(k, x + 1) = p
  BY <1>1
<1>4. \A y \in LinkPtrs : PREV_FREE(k, y) = PREV_FREE(h, y)
  BY <1>1, <1>2 DEF Wrote, PREV_FREE
<1>5. /\ NEXT_FREE(k, x) = p
      /\ \A y \in LinkPtrs : y # x => NEXT_FREE(k, y) = NEXT_FREE(h, y)
  BY <1>1, <1>2 DEF Wrote, NEXT_FREE, WSIZE
<1> QED
  BY <1>1, <1>4, <1>5 DEF k

(* free_listp is no word of the arena: moving it changes no link.             *)
LEMMA MoveListHead ==
    ASSUME NEW h, InUse(h), NEW p \in Nat
    PROVE  LET k == [h EXCEPT !.free_listp = p]
           IN  /\ Wrote(h, k, {}) /\ k.free_listp = p
               /\ \A y : NEXT_FREE(k, y) = NEXT_FREE(h, y)
               /\ \A y : PREV_FREE(k, y) = PREV_FREE(h, y)
<1> DEFINE k == [h EXCEPT !.free_listp = p]
<1>1. InUse(k) /\ k.brk = h.brk /\ k.free_listp = p /\ k.mem = h.mem /\ k.outside = h.outside
  BY DEF InUse
<1> HIDE DEF k
<1>2. \A a : GET(k, a) = GET(h, a)
  BY <1>1 DEF GET
<1> QED
  BY <1>1, <1>2 DEF Wrote, NEXT_FREE, PREV_FREE, k

(* Words written elsewhere leave the chain.                                   *)
LEMMA ChainKept ==
    ASSUME NEW h, NEW k, NEW S, NEW F, Linked(h, F), Wrote(h, k, S),
           k.free_listp = h.free_listp, S \cap LinkWords(F) = {}
    PROVE  Linked(k, F)
<1>1. \A x \in F \cup {Prologue} : x \notin S /\ x + 1 \notin S
  BY DEF LinkWords
<1>2. \A x \in F \cup {Prologue} : PREV_FREE(k, x) = PREV_FREE(h, x) /\ NEXT_FREE(k, x) = NEXT_FREE(h, x)
  BY <1>1 DEF Wrote, PREV_FREE, NEXT_FREE, WSIZE
<1>3. PICK rank, N : Chained(h, F, rank, N)
  BY DEF Linked
<1>4. Chained(k, F, rank, N)
  BY <1>2, <1>3 DEF Chained
<1> QED
  BY <1>4 DEF Linked

(* removeFreeBlock takes bp out of the chain and keeps the rest in order.     *)
LEMMA Unlink ==
    ASSUME NEW h, InUse(h), NEW F, Linked(h, F), NEW bp \in F
    PROVE  LET k == removeFreeBlock(h, bp)
           IN  /\ Wrote(h, k, LinkWords(F \ {bp}))
               /\ Linked(k, F \ {bp})
<1> DEFINE G == F \ {bp}
           p == PREV_FREE(h, bp)
           n == NEXT_FREE(h, bp)
           j == ForwardLink(h, bp)
           k == BackLink(j, bp)
<1>1. PICK rank, N : Chained(h, F, rank, N)
  BY DEF Linked
<1>2. /\ F \cup {Prologue} \subseteq LinkPtrs /\ Prologue \notin F
      /\ \A x \in F \cup {Prologue} : x \in Nat /\ x # NULL /\ x \in LinkPtrs
  BY LinkPtrFacts, PrologueIsLinkPtr DEF Linked
<1>3. /\ n \in F \cup {Prologue} /\ n # bp
  <2>1. rank[n] \in Nat /\ rank[bp] \in Nat /\ rank[n] < rank[bp] /\ n \in F \cup {Prologue}
    BY <1>1 DEF Chained
  <2> QED
    BY <2>1
<1>4. \/ bp = h.free_listp /\ p = NULL
      \/ bp # h.free_listp /\ p \in F /\ p # NULL /\ p # bp /\ NEXT_FREE(h, p) = bp
  <2>1. CASE bp = h.free_listp
    BY <1>1, <2>1 DEF Chained
  <2>2. CASE bp # h.free_listp
    <3>1. p \in F /\ NEXT_FREE(h, p) = bp
      BY <1>1, <2>2 DEF Chained
    <3>2. rank[bp] < rank[p] /\ rank[p] \in Nat
      BY <1>1, <3>1 DEF Chained
    <3> QED
      BY <1>2, <2>2, <3>1, <3>2
  <2> QED
    BY <2>1, <2>2
<1>5. removeFreeBlock(h, bp) = k
  BY <1>2 DEF removeFreeBlock
<1>6. /\ InUse(j) /\ Wrote(h, j, {a \in {p + 1} : p # NULL})
      /\ \A y \in LinkPtrs : PREV_FREE(j, y) = PREV_FREE(h, y)
      /\ \A y \in LinkPtrs : NEXT_FREE(j, y) = IF p # NULL /\ y = p THEN n ELSE NEXT_FREE(h, y)
      /\ j.free_listp = IF p # NULL THEN h.free_listp ELSE n
  <2>1. CASE p # NULL
    <3>1. j = SetNext(h, p, n)
      BY <2>1 DEF ForwardLink
    <3>2. p \in LinkPtrs /\ n \in Nat
      BY <1>2, <1>3, <1>4, <2>1
    <3> QED
      BY <2>1, <3>1, <3>2, SetNextWrites DEF Wrote
  <2>2. CASE p = NULL
    <3>1. j = [h EXCEPT !.free_listp = n]
      BY <2>2 DEF ForwardLink
    <3> QED
      BY <1>2, <1>3, <2>2, <3>1, MoveListHead DEF Wrote
  <2> QED
    BY <2>1, <2>2
<1>7. PREV_FREE(j, bp) = p /\ NEXT_FREE(j, bp) = n
  BY <1>2, <1>4, <1>6
<1>8. p \in Nat
  BY <1>2, <1>4 DEF NULL
<1>9. k = SetPrev(j, n, p)
  BY <1>2, <1>3, <1>7 DEF BackLink
<1>10. /\ Wrote(j, k, {n}) /\ k.free_listp = j.free_listp
       /\ \A y \in LinkPtrs : NEXT_FREE(k, y) = NEXT_FREE(j, y)
       /\ PREV_FREE(k, n) = p
       /\ \A y \in LinkPtrs : y # n => PREV_FREE(k, y) = PREV_FREE(j, y)
  <2>1. n \in LinkPtrs
    BY <1>2, <1>3
  <2>2. InUse(j)
    BY <1>6
  <2> HIDE DEF j, k, p, n
  <2> QED
    BY <1>8, <1>9, <2>1, <2>2, SetPrevWrites
<1> HIDE DEF j, k
<1>11. Wrote(h, k, LinkWords(G))
  <2>1. Wrote(h, k, {a \in {p + 1} : p # NULL} \cup {n})
    BY <1>6, <1>10, WroteTrans
  <2>2. n \in G \cup {Prologue} /\ (p # NULL => p \in G)
    BY <1>3, <1>4
  <2>3. {a \in {p + 1} : p # NULL} \cup {n} \subseteq LinkWords(G)
    BY <2>2 DEF LinkWords
  <2> QED
    BY <2>1, <2>3, WroteMore
<1> DEFINE rest == [x \in G \cup {Prologue} |-> rank[x]]
<1>12. Chained(k, G, rest, N)
  <2> HIDE DEF G, p, n
  <2>0. n \in G \cup {Prologue} /\ G \cup {Prologue} = (F \cup {Prologue}) \ {bp}
    BY <1>2, <1>3 DEF G
  <2>1. N \in Nat /\ rest \in [G \cup {Prologue} -> 0 .. N]
    BY <1>1, <2>0 DEF Chained
  <2>2. k.free_listp \in G \cup {Prologue}
    BY <1>1, <1>4, <1>6, <1>10, <2>0 DEF Chained
  <2>3. ASSUME NEW x \in G
        PROVE  /\ NEXT_FREE(k, x) \in G \cup {Prologue}
               /\ PREV_FREE(k, NEXT_FREE(k, x)) = x
               /\ rest[NEXT_FREE(k, x)] < rest[x]
    <3>0. x \in F /\ x # bp /\ x \in LinkPtrs
      BY <1>2 DEF G
    <3>1. /\ NEXT_FREE(h, x) \in F \cup {Prologue} /\ PREV_FREE(h, NEXT_FREE(h, x)) = x
          /\ rank[NEXT_FREE(h, x)] < rank[x]
          /\ NEXT_FREE(h, x) = bp => p = x
      BY <1>1, <3>0 DEF Chained, p
    <3>2. CASE p # NULL /\ x = p
      <4>1. NEXT_FREE(k, x) = n /\ PREV_FREE(k, n) = x
        BY <1>2, <1>3, <1>6, <1>10, <3>0, <3>2
      <4>2. NEXT_FREE(h, x) = bp
        BY <1>4, <3>2
      <4>3. rank[n] < rank[bp] /\ rank[bp] < rank[x]
        BY <1>1, <3>0, <4>2 DEF Chained, n
      <4>4. rank[n] \in Nat /\ rank[bp] \in Nat /\ rank[x] \in Nat
        BY <1>1, <1>3, <3>0 DEF Chained
      <4> QED
        BY <2>0, <4>1, <4>3, <4>4
    <3>3. CASE ~(p # NULL /\ x = p)
      <4>1. NEXT_FREE(k, x) = NEXT_FREE(h, x)
        BY <1>6, <1>10, <3>0, <3>3
      <4>2. NEXT_FREE(h, x) # bp
        BY <1>2, <3>0, <3>1, <3>3
      <4>3. NEXT_FREE(h, x) # n
        <5>1. PREV_FREE(h, n) = bp
          BY <1>1 DEF Chained, n
        <5> QED
          BY <3>0, <3>1, <5>1
      <4>4. PREV_FREE(k, NEXT_FREE(h, x)) = x
        BY <1>2, <1>6, <1>10, <3>1, <4>3
      <4> QED
        BY <2>0, <3>1, <4>1, <4>2, <4>4
    <3> QED
      BY <3>2, <3>3
  <2>4. PREV_FREE(k, k.free_listp) = NULL
    <3>1. CASE p = NULL
      <4>1. k.free_listp = n
        BY <1>6, <1>10, <3>1
      <4> QED
        BY <1>2, <1>3, <1>10, <3>1, <4>1
    <3>2. CASE p # NULL
      <4>1. k.free_listp = h.free_listp /\ bp # h.free_listp
        BY <1>4, <1>6, <1>10, <3>2
      <4>2. PREV_FREE(h, h.free_listp) = NULL /\ h.free_listp \in LinkPtrs
        BY <1>1, <1>2 DEF Chained
      <4>3. n # h.free_listp
        <5>1. PREV_FREE(h, n) = bp /\ bp # NULL
          BY <1>1, <1>2 DEF Chained, n
        <5> QED
          BY <4>2, <5>1
      <4> QED
        BY <1>6, <1>10, <4>1, <4>2, <4>3
    <3> QED
      BY <3>1, <3>2
  <2>5. ASSUME NEW x \in G \cup {Prologue}, x # k.free_listp
        PROVE  PREV_FREE(k, x) \in G /\ NEXT_FREE(k, PREV_FREE(k, x)) = x
    <3>0. x \in F \cup {Prologue} /\ x # bp /\ x \in LinkPtrs
      BY <1>2, <2>0
    <3>1. CASE x = n
      <4>1. p # NULL /\ p \in F /\ p # bp /\ p \in LinkPtrs
        BY <1>2, <1>4, <1>6, <1>10, <2>5, <3>1
      <4>2. PREV_FREE(k, x) = p /\ NEXT_FREE(k, p) = n
        BY <1>6, <1>10, <3>0, <3>1, <4>1
      <4> QED
        BY <3>1, <4>1, <4>2 DEF G
    <3>2. CASE x # n
      <4>1. PREV_FREE(k, x) = PREV_FREE(h, x)
        BY <1>6, <1>10, <3>0, <3>2
      <4>2. x # h.free_listp
        BY <1>4, <1>6, <1>10, <2>5, <3>0, <3>2
      <4>3. PREV_FREE(h, x) \in F /\ NEXT_FREE(h, PREV_FREE(h, x)) = x
        BY <1>1, <3>0, <4>2 DEF Chained
      <4>4. PREV_FREE(h, x) # bp
        BY <3>2, <4>3 DEF n
      <4>5. ~(p # NULL /\ PREV_FREE(h, x) = p)
        BY <1>4, <3>0, <4>3
      <4>6. NEXT_FREE(k, PREV_FREE(h, x)) = x
        BY <1>2, <1>6, <1>10, <4>3, <4>5
      <4> QED
        BY <4>1, <4>3, <4>4, <4>6 DEF G
    <3> QED
      BY <3>1, <3>2
  <2> QED
    BY <2>1, <2>2, <2>3, <2>4, <2>5 DEF Chained
<1>13. G \subseteq LinkPtrs \ {Prologue}
  BY DEF Linked
<1> QED
  BY <1>5, <1>11, <1>12, <1>13 DEF Linked

(* PushFree puts bp, which is not in the chain, at its head.                  *)
LEMMA Push ==
    ASSUME NEW h, InUse(h), NEW F, Linked(h, F), NEW bp \in LinkPtrs,
           bp \notin F, bp # Prologue
    PROVE  LET k == PushFree(h, bp)
           IN  /\ Wrote(h, k, LinkWords(F \cup {bp}))
               /\ Linked(k, F \cup {bp})
<1> DEFINE G == F \cup {bp}
           q == h.free_listp
           i == SetNext(h, bp, q)
           j == SetPrev(i, q, bp)
           l == SetPrev(j, bp, NULL)
           k == [l EXCEPT !.free_listp = bp]
<1>1. PICK rank, N : Chained(h, F, rank, N)
  BY DEF Linked
<1>2. /\ F \cup {Prologue} \subseteq LinkPtrs /\ Prologue \notin F
      /\ \A x \in G \cup {Prologue} : x \in Nat /\ x # NULL /\ x \in LinkPtrs
  BY LinkPtrFacts, PrologueIsLinkPtr DEF Linked
<1>3. q \in F \cup {Prologue} /\ q # bp /\ q \in LinkPtrs /\ q \in Nat /\ PREV_FREE(h, q) = NULL
  BY <1>1, <1>2 DEF Chained
<1>4. bp \in Nat /\ NULL \in Nat
  BY <1>2 DEF NULL
<1>5. PushFree(h, bp) = k
  <2>1. i.free_listp = q
    BY <1>3, SetNextWrites
  <2> QED
    BY <2>1 DEF PushFree
<1> HIDE DEF q
<1>6. /\ Wrote(h, i, {bp + 1}) /\ InUse(i)
      /\ NEXT_FREE(i, bp) = q
      /\ \A y \in LinkPtrs : y # bp => NEXT_FREE(i, y) = NEXT_FREE(h, y)
      /\ \A y \in LinkPtrs : PREV_FREE(i, y) = PREV_FREE(h, y)
  BY <1>3, SetNextWrites DEF Wrote
<1> HIDE DEF i
<1>7. /\ Wrote(i, j, {q}) /\ InUse(j)
      /\ \A y \in LinkPtrs : NEXT_FREE(j, y) = NEXT_FREE(i, y)
      /\ PREV_FREE(j, q) = bp
      /\ \A y \in LinkPtrs : y # q => PREV_FREE(j, y) = PREV_FREE(i, y)
  <2>1. InUse(i) /\ q \in LinkPtrs /\ bp \in Nat
    BY <1>3, <1>4, <1>6
  <2>2. /\ Wrote(i, j, {q})
        /\ \A y \in LinkPtrs : NEXT_FREE(j, y) = NEXT_FREE(i, y)
        /\ PREV_FREE(j, q) = bp
        /\ \A y \in LinkPtrs : y # q => PREV_FREE(j, y) = PREV_FREE(i, y)
    BY <2>1, SetPrevWrites
  <2> QED
    BY <2>2 DEF Wrote
<1> HIDE DEF j
<1>8. /\ Wrote(j, l, {bp}) /\ InUse(l)
      /\ \A y \in LinkPtrs : NEXT_FREE(l, y) = NEXT_FREE(j, y)
      /\ PREV_FREE(l, bp) = NULL
      /\ \A y \in LinkPtrs : y # bp => PREV_FREE(l, y) = PREV_FREE(j, y)
  BY <1>4, <1>7, SetPrevWrites DEF Wrote
<1> HIDE DEF l
<1>9. /\ Wrote(l, k, {}) /\ InUse(k) /\ k.free_listp = bp
      /\ \A y \in LinkPtrs : NEXT_FREE(k, y) = NEXT_FREE(l, y)
      /\ \A y \in LinkPtrs : PREV_FREE(k, y) = PREV_FREE(l, y)
  BY <1>4, <1>8, MoveListHead DEF Wrote
<1> HIDE DEF k
<1>10. Wrote(h, k, LinkWords(G))
  <2>1. Wrote(h, j, {bp + 1} \cup {q})
    BY <1>6, <1>7, WroteTrans
  <2>2. Wrote(j, k, {bp} \cup {})
    BY <1>8, <1>9, WroteTrans
  <2>3. Wrote(h, k, ({bp + 1} \cup {q}) \cup ({bp} \cup {}))
    BY <2>1, <2>2, WroteTrans
  <2>4. ({bp + 1} \cup {q}) \cup ({bp} \cup {}) \subseteq LinkWords(G)
    BY <1>3 DEF LinkWords
  <2> QED
    BY <2>3, <2>4, WroteMore
<1>11. /\ \A y \in LinkPtrs : NEXT_FREE(k, y) = IF y = bp THEN q ELSE NEXT_FREE(h, y)
       /\ \A y \in LinkPtrs : PREV_FREE(k, y) = IF y = bp THEN NULL
                                                 ELSE IF y = q THEN bp ELSE PREV_FREE(h, y)
  BY <1>6, <1>7, <1>8, <1>9
<1> DEFINE new == [x \in G \cup {Prologue} |-> IF x = bp THEN N + 1 ELSE rank[x]]
<1>12. Chained(k, G, new, N + 1)
  <2> HIDE DEF G
  <2>0. G \cup {Prologue} = (F \cup {Prologue}) \cup {bp} /\ G = F \cup {bp}
    BY DEF G
  <2>1. N + 1 \in Nat /\ new \in [G \cup {Prologue} -> 0 .. (N + 1)]
    <3>1. N \in Nat /\ \A x \in F \cup {Prologue} : rank[x] \in 0 .. N
      BY <1>1 DEF Chained
    <3>2. \A x \in G \cup {Prologue} : (IF x = bp THEN N + 1 ELSE rank[x]) \in 0 .. (N + 1)
      BY <2>0, <3>1
    <3> QED
      BY <3>1, <3>2
  <2>2. k.free_listp \in G \cup {Prologue}
    BY <1>9, <2>0
  <2>3. ASSUME NEW x \in G
        PROVE  /\ NEXT_FREE(k, x) \in G \cup {Prologue}
               /\ PREV_FREE(k, NEXT_FREE(k, x)) = x
               /\ new[NEXT_FREE(k, x)] < new[x]
    <3>1. CASE x = bp
      <4>1. NEXT_FREE(k, x) = q /\ PREV_FREE(k, q) = bp
        BY <1>3, <1>11, <3>1
      <4>2. new[q] = rank[q] /\ new[bp] = N + 1 /\ rank[q] \in 0 .. N /\ N \in Nat
        BY <1>1, <1>3, <2>0 DEF Chained
      <4> HIDE DEF new
      <4> QED
        BY <1>3, <2>0, <3>1, <4>1, <4>2
    <3>2. CASE x # bp
      <4>1. x \in F /\ x \in LinkPtrs
        BY <1>2, <2>0, <3>2
      <4>2. /\ NEXT_FREE(h, x) \in F \cup {Prologue} /\ PREV_FREE(h, NEXT_FREE(h, x)) = x
            /\ rank[NEXT_FREE(h, x)] < rank[x]
        BY <1>1, <4>1 DEF Chained
      <4>3. NEXT_FREE(k, x) = NEXT_FREE(h, x)
        BY <1>11, <3>2, <4>1
      <4>4. NEXT_FREE(h, x) # bp /\ NEXT_FREE(h, x) # q /\ NEXT_FREE(h, x) \in LinkPtrs
        BY <1>2, <1>3, <4>1, <4>2
      <4>5. PREV_FREE(k, NEXT_FREE(h, x)) = x
        BY <1>11, <4>2, <4>4
      <4>6. new[NEXT_FREE(h, x)] = rank[NEXT_FREE(h, x)] /\ new[x] = rank[x]
        BY <2>0, <3>2, <4>1, <4>2, <4>4
      <4> HIDE DEF new
      <4> QED
        BY <2>0, <4>2, <4>3, <4>5, <4>6
    <3> QED
      BY <3>1, <3>2
  <2>4. PREV_FREE(k, k.free_listp) = NULL
    BY <1>9, <1>11
  <2>5. ASSUME NEW x \in G \cup {Prologue}, x # k.free_listp
        PROVE  PREV_FREE(k, x) \in G /\ NEXT_FREE(k, PREV_FREE(k, x)) = x
    <3>0. x \in F \cup {Prologue} /\ x # bp /\ x \in LinkPtrs
      BY <1>2, <1>9, <2>0, <2>5
    <3>1. CASE x = q
      BY <1>3, <1>11, <2>0, <3>0, <3>1
    <3>2. CASE x # q
      <4>1. PREV_FREE(h, x) \in F /\ NEXT_FREE(h, PREV_FREE(h, x)) = x
        BY <1>1, <3>0, <3>2 DEF Chained, q
      <4>2. PREV_FREE(k, x) = PREV_FREE(h, x)
        BY <1>11, <3>0, <3>2
      <4>3. NEXT_FREE(k, PREV_FREE(h, x)) = x
        BY <1>2, <1>11, <4>1
      <4> QED
        BY <2>0, <4>1, <4>2, <4>3
    <3> QED
      BY <3>1, <3>2
  <2> HIDE DEF new
  <2> QED
    BY <2>1, <2>2, <2>3, <2>4, <2>5 DEF Chained
<1>13. G \subseteq LinkPtrs \ {Prologue}
  BY DEF Linked
<1> HIDE DEF new
<1> QED
  BY <1>5, <1>10, <1>12, <1>13 DEF Linked

-----------------------------------------------------------------------------
(* The scan of the list                                                       *)

(* The nodes a scan from p meets, up to the k-th.                             *)
ScanTo(h, p, k, f) ==
    f = [n \in 0 .. k |-> IF n = 0 THEN p ELSE NEXT_FREE(h, f[n - 1])]

(* A walk along the links is a function of the number of steps.               *)
LEMMA ScanExists ==
    ASSUME NEW h, NEW p, NEW k \in Nat
    PROVE  \E f : ScanTo(h, p, k, f)
<1> DEFINE Bad == {i \in Nat : ~\E f : ScanTo(h, p, i, f)}
<1>1. SUFFICES ASSUME Bad # {} PROVE FALSE
  OBVIOUS
<1>2. PICK i \in Bad : \A m \in Bad : i <= m
  BY <1>1, LeastNumber
<1>3. CASE i = 0
  <2> DEFINE f == [n \in 0 .. 0 |-> p]
  <2>1. f = [n \in 0 .. 0 |-> IF n = 0 THEN p ELSE NEXT_FREE(h, f[n - 1])]
    OBVIOUS
  <2> HIDE DEF f
  <2>2. ScanTo(h, p, 0, f)
    BY <2>1 DEF ScanTo
  <2> QED
    BY <1>2, <1>3, <2>2
<1>4. CASE i # 0
  <2>1. i - 1 \in Nat /\ i - 1 \notin Bad
    BY <1>2, <1>4
  <2>2. PICK f : ScanTo(h, p, i - 1, f)
    BY <2>1
  <2> DEFINE g == [n \in 0 .. i |-> IF n = 0 THEN p ELSE NEXT_FREE(h, f[n - 1])]
  <2>3. \A n \in 0 .. (i - 1) : g[n] = f[n]
    <3>1. \A n \in 0 .. (i - 1) : f[n] = IF n = 0 THEN p ELSE NEXT_FREE(h, f[n - 1])
      BY <2>2 DEF ScanTo
    <3>2. \A n \in 0 .. (i - 1) : n \in 0 .. i
      BY <2>1
    <3> QED
      BY <3>1, <3>2
  <2>4. \A n \in 0 .. i : n # 0 => n - 1 \in 0 .. (i - 1)
    BY <2>1
  <2>5. \A n \in 0 .. i : n # 0 => g[n - 1] = f[n - 1]
    BY <2>3, <2>4
  <2>6. g = [n \in 0 .. i |-> IF n = 0 THEN p ELSE NEXT_FREE(h, g[n - 1])]
    BY <2>5
  <2> HIDE DEF g
  <2>7. ScanTo(h, p, i, g)
    BY <2>6 DEF ScanTo
  <2> QED
    BY <1>2, <2>7
<1> QED
  BY <1>3, <1>4

(* FreeListNode starts at free_listp and follows the next links, on any heap. *)
LEMMA ScanNodes ==
    ASSUME NEW h
    PROVE  /\ ScanBound \in Nat /\ ScanBound = MAX_HEAP
           /\ FreeListNode(h)[0] = h.free_listp
           /\ \A n \in 0 .. ScanBound :
                 n # 0 => FreeListNode(h)[n] = NEXT_FREE(h, FreeListNode(h)[n - 1])
<1> DEFINE node == FreeListNode(h)
<1>1. ScanBound \in Nat /\ ScanBound = MAX_HEAP
  BY ArenaBounds DEF ScanBound
<1>2. \E f : f = [n \in 0 .. ScanBound |-> IF n = 0 THEN h.free_listp ELSE NEXT_FREE(h, f[n - 1])]
  <2>1. PICK f : ScanTo(h, h.free_listp, ScanBound, f)
    BY <1>1, ScanExists
  <2>2. f = [n \in 0 .. ScanBound |-> IF n = 0 THEN h.free_listp ELSE NEXT_FREE(h, f[n - 1])]
    BY <2>1 DEF ScanTo
  <2> QED
    BY <2>2
<1>3. node = [n \in 0 .. ScanBound |-> IF n = 0 THEN h.free_listp ELSE NEXT_FREE(h, node[n - 1])]
  BY <1>2 DEF FreeListNode
<1> HIDE DEF node
<1>4. 0 \in 0 .. ScanBound
  BY <1>1
<1>5. \A n \in 0 .. ScanBound : node[n] = IF n = 0 THEN h.free_listp ELSE NEXT_FREE(h, node[n - 1])
  BY <1>3
<1> QED
  BY <1>1, <1>4, <1>5 DEF node

(* A scan from free_listp meets each node of the chain once and then the      *)
(* prologue, within the bound.                                                *)
ListRuns(h, F, N) ==
    /\ N \in 0 .. ScanBound
    /\ FreeListNode(h)[N] = Prologue
    /\ \A m \in 0 .. (N - 1) : FreeListNode(h)[m] \in F
    /\ \A x \in F : \E m \in 0 .. (N - 1) : FreeListNode(h)[m] = x
    /\ \A m, l \in 0 .. N : FreeListNode(h)[m] = FreeListNode(h)[l] => m = l
    /\ PREV_FREE(h, FreeListNode(h)[0]) = NULL
    /\ \A m \in 1 .. N : PREV_FREE(h, FreeListNode(h)[m]) = FreeListNode(h)[m - 1]

(* On a linked list the scan of find_fit passes each free block once and      *)
(* arrives at the prologue within its bound.                                  *)
LEMMA ListWalk ==
    ASSUME NEW h, NEW F, Linked(h, F)
    PROVE  \E N : ListRuns(h, F, N)
<1> DEFINE node == FreeListNode(h)
           Met == {n \in Nat : n <= ScanBound /\ node[n] = Prologue}
<1>1. PICK rank, M : Chained(h, F, rank, M)
  BY DEF Linked
<1>2. /\ F \subseteq Arena /\ Prologue \notin F /\ IsFiniteSet(F) /\ Cardinality(F) <= MAX_HEAP
      /\ Cardinality(F) \in Nat
  <2>1. F \subseteq Base .. (Limit - 1) /\ Prologue \notin F
    BY LinkPtrFacts DEF Linked, Arena
  <2>2. IsFiniteSet(Base .. (Limit - 1)) /\ Cardinality(Base .. (Limit - 1)) = MAX_HEAP
    <3>1. Base \in Int /\ Limit - 1 \in Int /\ ~(Base > Limit - 1) /\ (Limit - 1) - Base + 1 = MAX_HEAP
      BY ArenaBounds
    <3> QED
      BY <3>1, FS_Interval
  <2> QED
    BY <2>1, <2>2, FS_Subset, FS_CardinalityType DEF Arena
<1>3. /\ ScanBound \in Nat /\ ScanBound = MAX_HEAP
      /\ node[0] = h.free_listp
      /\ \A n \in 0 .. ScanBound : n # 0 => node[n] = NEXT_FREE(h, node[n - 1])
  BY ScanNodes
<1> HIDE DEF node
<1>4. \A x \in F \cup {Prologue} : rank[x] \in Nat /\ rank[x] <= M
  BY <1>1 DEF Chained
<1>5. ASSUME NEW K \in 0 .. ScanBound, \A m \in 0 .. (K - 1) : node[m] # Prologue
      PROVE  /\ \A m \in 0 .. K : node[m] \in F \cup {Prologue}
             /\ \A m \in 0 .. (K - 1) : node[m] \in F
  <2> DEFINE Bad == {i \in Nat : i <= K /\ node[i] \notin F \cup {Prologue}}
  <2>1. Bad = {}
    <3>1. SUFFICES ASSUME Bad # {} PROVE FALSE
      OBVIOUS
    <3>2. PICK i \in Bad : \A m \in Bad : i <= m
      BY <3>1, LeastNumber
    <3>3. i # 0
      BY <1>1, <1>3, <3>2 DEF Chained
    <3>4. i - 1 \in Nat /\ i - 1 \notin Bad /\ i - 1 \in 0 .. (K - 1) /\ i \in 0 .. ScanBound
      BY <1>3, <3>2, <3>3
    <3>5. node[i - 1] \in F
      BY <1>5, <3>2, <3>4
    <3>6. node[i] \in F \cup {Prologue}
      BY <1>1, <1>3, <3>3, <3>4, <3>5 DEF Chained
    <3> QED
      BY <3>2, <3>6
  <2> HIDE DEF Bad
  <2>2. \A m \in 0 .. K : m \in Nat /\ m <= K
    BY <1>3
  <2> USE DEF Bad
  <2>3. \A m \in 0 .. K : node[m] \in F \cup {Prologue}
    BY <2>1, <2>2
  <2>4. \A m \in 0 .. (K - 1) : m \in 0 .. K
    BY <1>3
  <2> QED
    BY <1>5, <2>3, <2>4
<1>6. ASSUME NEW K \in 0 .. ScanBound, \A m \in 0 .. (K - 1) : node[m] # Prologue,
             NEW m \in 0 .. K, NEW l \in 0 .. K, m < l
      PROVE  node[m] # node[l]
  <2> DEFINE Bad == {i \in Nat : m + i + 1 <= K /\ ~(rank[node[m + i + 1]] < rank[node[m]])}
  <2>0. K \in Nat /\ K <= ScanBound /\ m \in Nat /\ l \in Nat /\ l <= K
    BY <1>3
  <2>1. /\ \A j \in 0 .. K : node[j] \in F \cup {Prologue}
        /\ \A j \in 0 .. (K - 1) : node[j] \in F
    BY <1>5, <1>6
  <2>2. \A j \in 0 .. (K - 1) : j + 1 \in 0 .. K /\ node[j + 1] = NEXT_FREE(h, node[j])
    <3>1. ASSUME NEW j \in 0 .. (K - 1) PROVE node[j + 1] = NEXT_FREE(h, node[(j + 1) - 1])
      BY <1>3, <2>0
    <3>2. \A j \in 0 .. (K - 1) : (j + 1) - 1 = j /\ j + 1 \in 0 .. K
      BY <2>0
    <3> QED
      BY <3>1, <3>2
  <2>3. \A j \in 0 .. (K - 1) : rank[node[j + 1]] < rank[node[j]]
    BY <1>1, <2>1, <2>2 DEF Chained
  <2>4. Bad = {}
    <3>1. SUFFICES ASSUME Bad # {} PROVE FALSE
      OBVIOUS
    <3>2. PICK i \in Bad : \A j \in Bad : i <= j
      BY <3>1, LeastNumber
    <3>3. i \in Nat /\ m + i \in 0 .. (K - 1) /\ m + i + 1 \in 0 .. K
      BY <2>0, <3>2
    <3>4. rank[node[m + i + 1]] < rank[node[m + i]]
      BY <2>3, <3>3
    <3>5. /\ rank[node[m + i + 1]] \in Nat /\ rank[node[m + i]] \in Nat /\ rank[node[m]] \in Nat
      <4>1. m + i \in 0 .. K
        BY <2>0, <3>3
      <4> QED
        BY <1>4, <2>1, <3>3, <4>1
    <3>6. CASE i = 0
      <4>1. m + i = m
        BY <2>0, <3>6
      <4> QED
        BY <3>2, <3>4, <4>1
    <3>7. CASE i # 0
      <4>1. i - 1 \in Nat /\ i - 1 \notin Bad /\ m + (i - 1) + 1 = m + i /\ m + i <= K
        BY <2>0, <3>2, <3>3, <3>7
      <4>2. rank[node[m + i]] < rank[node[m]]
        BY <4>1
      <4> QED
        BY <3>2, <3>4, <3>5, <4>2
    <3> QED
      BY <3>6, <3>7
  <2>5. l - m - 1 \in Nat /\ m + (l - m - 1) + 1 = l
    BY <1>6, <2>0
  <2>6. rank[node[l]] < rank[node[m]]
    BY <2>0, <2>4, <2>5
  <2>7. rank[node[l]] \in Nat
    BY <1>4, <2>1
  <2> QED
    BY <2>6, <2>7
<1>7. Met # {}
  <2>1. SUFFICES ASSUME \A m \in 0 .. ScanBound : node[m] # Prologue PROVE FALSE
    BY <1>3
  <2>2. \A m \in 0 .. (ScanBound - 1) : m \in 0 .. ScanBound
    BY <1>3
  <2>3. ScanBound \in 0 .. ScanBound /\ \A m \in 0 .. (ScanBound - 1) : node[m] # Prologue
    BY <1>3, <2>1, <2>2
  <2>4. \A m \in 0 .. ScanBound : node[m] \in F
    BY <1>5, <2>1, <2>3
  <2>5. \A m, l \in 0 .. ScanBound : m < l => node[m] # node[l]
    BY <1>6, <2>3
  <2> DEFINE f == [m \in 0 .. ScanBound |-> node[m]]
  <2>6. f \in [0 .. ScanBound -> F] /\ \A m, l \in 0 .. ScanBound : f[m] = f[l] => m = l
    <3>1. \A m, l \in 0 .. ScanBound : m = l \/ m < l \/ l < m
      BY <1>3
    <3> QED
      BY <2>4, <2>5, <3>1
  <2>7. f \in Injection(0 .. ScanBound, F)
    <3> HIDE DEF f
    <3> QED
      BY <2>6 DEF Injection, IsInjective
  <2> HIDE DEF f
  <2>8. Cardinality(0 .. ScanBound) <= Cardinality(F)
    BY <1>2, <2>7, FS_Injection
  <2>9. Cardinality(0 .. ScanBound) = ScanBound + 1
    BY <1>3, FS_Interval
  <2> QED
    BY <1>2, <1>3, <2>8, <2>9
<1>8. PICK N \in Met : \A m \in Met : N <= m
  BY <1>7, LeastNumber
<1>9. /\ N \in 0 .. ScanBound /\ N \in Nat /\ node[N] = Prologue
      /\ \A m \in 0 .. (N - 1) : node[m] # Prologue
  BY <1>3, <1>8
<1>10. /\ \A m \in 0 .. N : node[m] \in F \cup {Prologue}
       /\ \A m \in 0 .. (N - 1) : node[m] \in F
  BY <1>5, <1>9
<1>11. \A m, l \in 0 .. N : node[m] = node[l] => m = l
  <2>1. \A m, l \in 0 .. N : m < l => node[m] # node[l]
    BY <1>6, <1>9
  <2>2. \A m, l \in 0 .. N : m = l \/ m < l \/ l < m
    BY <1>9
  <2> QED
    BY <2>1, <2>2
<1>12. \A m \in 0 .. (N - 1) : m + 1 \in 0 .. N /\ node[m + 1] = NEXT_FREE(h, node[m])
  <2>1. ASSUME NEW m \in 0 .. (N - 1) PROVE node[m + 1] = NEXT_FREE(h, node[(m + 1) - 1])
    BY <1>3, <1>9
  <2>2. \A m \in 0 .. (N - 1) : (m + 1) - 1 = m /\ m + 1 \in 0 .. N
    BY <1>9
  <2> QED
    BY <2>1, <2>2
<1>13. \A x \in F : \E m \in 0 .. (N - 1) : node[m] = x
  <2> DEFINE Missed == {x \in F : ~\E m \in 0 .. (N - 1) : node[m] = x}
             Depth == {M - rank[x] : x \in Missed}
  <2>1. SUFFICES ASSUME Missed # {} PROVE FALSE
    OBVIOUS
  <2>2. Depth \in SUBSET Nat /\ Depth # {}
    <3>1. M \in Nat
      BY <1>1 DEF Chained
    <3> QED
      BY <1>4, <2>1, <3>1
  <2>3. PICK d \in Depth : \A e \in Depth : d <= e
    BY <2>2, LeastNumber
  <2>4. PICK x \in Missed : d = M - rank[x]
    BY <2>3
  <2>5. x # h.free_listp
    <3>1. ASSUME x = h.free_listp PROVE FALSE
      <4>1. node[0] = x /\ x \in F
        BY <1>3, <2>4, <3>1
      <4>2. N # 0
        BY <1>2, <1>9, <4>1
      <4>3. 0 \in 0 .. (N - 1)
        BY <1>9, <4>2
      <4> QED
        BY <2>4, <4>1, <4>3
    <3> QED
      BY <3>1
  <2> DEFINE p == PREV_FREE(h, x)
  <2>6. p \in F /\ NEXT_FREE(h, p) = x /\ rank[x] < rank[p]
    BY <1>1, <2>4, <2>5 DEF Chained
  <2>7. p \notin Missed
    <3>1. ASSUME p \in Missed PROVE FALSE
      <4>1. M - rank[p] \in Depth
        BY <3>1
      <4>2. M - rank[x] <= M - rank[p]
        BY <2>3, <2>4, <4>1
      <4>3. M \in Nat /\ rank[p] \in Nat /\ rank[x] \in Nat
        BY <1>1, <1>4, <2>4, <2>6 DEF Chained
      <4> QED
        BY <2>6, <4>2, <4>3
    <3> QED
      BY <3>1
  <2>8. PICK m \in 0 .. (N - 1) : node[m] = p
    BY <2>6, <2>7
  <2>9. m + 1 \in 0 .. N /\ node[m + 1] = x
    BY <1>12, <2>6, <2>8
  <2>10. m + 1 # N
    BY <1>2, <1>9, <2>4, <2>9
  <2>11. m + 1 \in 0 .. (N - 1)
    BY <1>9, <2>8, <2>10
  <2> QED
    BY <2>4, <2>9, <2>11
<1>14. PREV_FREE(h, node[0]) = NULL
  BY <1>1, <1>3 DEF Chained
<1>15. \A m \in 1 .. N : PREV_FREE(h, node[m]) = node[m - 1]
  <2>1. ASSUME NEW m \in 1 .. N
        PROVE  m - 1 \in 0 .. (N - 1) /\ (m - 1) + 1 = m
    BY <1>9
  <2>2. ASSUME NEW m \in 1 .. N PROVE node[m - 1] \in F /\ node[m] = NEXT_FREE(h, node[m - 1])
    BY <1>10, <1>12, <2>1
  <2> QED
    BY <1>1, <2>2 DEF Chained
<1> QED
  BY <1>9, <1>10, <1>11, <1>13, <1>14, <1>15 DEF ListRuns, node

-----------------------------------------------------------------------------
(* Blocks and their tags                                                      *)

BlockType == [lo : Nat, hi : Nat, alloc : BOOLEAN]

(* Aligned blocks with room for two tags and two links, between the first     *)
(* block pointer and top, no two of which share a word.                       *)
Apart(B, top) ==
    /\ B \subseteq BlockType
    /\ \A b \in B : /\ FirstBlock <= b.lo /\ b.lo + 4 <= b.hi /\ b.hi <= top
                    /\ Even(b.lo) /\ Even(b.hi)
    /\ \A b, c \in B : b = c \/ b.hi <= c.lo \/ c.hi <= b.lo

Bit(b) == IF b.alloc THEN 1 ELSE 0

Pointers(B) == {b.lo : b \in B}
FreePointers(B) == {b.lo : b \in {c \in B : ~c.alloc}}

PayloadWords(b) == b.lo .. (b.hi - 3)

(* The two tags of each block, and the two of the prologue that the code      *)
(* reads: its header ends the scan of the list, its footer stops coalesce.    *)
Tagged(h, B) ==
    /\ GET(h, Base + 1) = MINIMUM + 1
    /\ GET(h, FirstBlock - 2) = MINIMUM + 1
    /\ \A b \in B : /\ GET(h, b.lo - 1) = (b.hi - b.lo) + Bit(b)
                    /\ GET(h, b.hi - 2) = (b.hi - b.lo) + Bit(b)

(* The epilogue.                                                              *)
Ended(h) == GET(h, h.brk - 1) = 1

(* The tags of h are those of the blocks B, and its free list chains F.       *)
Holds(h, B, F) ==
    /\ InUse(h)
    /\ FirstBlock <= h.brk /\ h.brk <= Limit /\ Even(h.brk)
    /\ Apart(B, h.brk)
    /\ Tagged(h, B)
    /\ Linked(h, F)
    /\ F \subseteq Pointers(B)

(* The words of S are the same in both heaps.                                 *)
Keeps(h, k, S) == \A a \in S : GET(k, a) = GET(h, a)

(* What two changes keep, both together keep.                                 *)
LEMMA KeepsTrans ==
    ASSUME NEW h, NEW k, NEW m, NEW S, Keeps(h, k, S), Keeps(k, m, S)
    PROVE  Keeps(h, m, S)
  BY DEF Keeps

(* A block has its tags and links in the arena, and an even size.             *)
LEMMA BlockFacts ==
    ASSUME NEW B, NEW top \in Nat, Apart(B, top), top <= Limit, NEW b \in B
    PROVE  /\ b \in BlockType /\ b.lo \in Nat /\ b.hi \in Nat /\ b.alloc \in BOOLEAN
           /\ FirstBlock <= b.lo /\ b.lo + 4 <= b.hi /\ b.hi <= top
           /\ Even(b.lo) /\ Even(b.hi)
           /\ b.hi - b.lo \in Nat /\ Even(b.hi - b.lo) /\ b.hi - b.lo # 0
           /\ b.lo - 1 \in Arena /\ b.hi - 2 \in Arena
           /\ b.lo \in LinkPtrs /\ b.lo # Prologue
           /\ Bit(b) \in {0, 1}
<1>1. /\ b \in BlockType /\ b.lo \in Nat /\ b.hi \in Nat /\ b.alloc \in BOOLEAN
      /\ FirstBlock <= b.lo /\ b.lo + 4 <= b.hi /\ b.hi <= top
      /\ Even(b.lo) /\ Even(b.hi)
  BY DEF Apart, BlockType
<1>2. b.hi - b.lo \in Nat /\ Even(b.hi - b.lo) /\ b.hi - b.lo # 0
  BY <1>1 DEF Even
<1>3. b.lo - 1 \in Arena /\ b.hi - 2 \in Arena
  BY <1>1, ArenaBounds DEF Arena
<1>4. b.lo \in LinkPtrs /\ b.lo # Prologue
  BY <1>1, ArenaBounds DEF LinkPtrs
<1> QED
  BY <1>1, <1>2, <1>3, <1>4 DEF Bit

(* No link of the list lies on a tag, or in the payload of a block that is    *)
(* not on the list.                                                           *)
LEMMA LinksApart ==
    ASSUME NEW B, NEW top \in Nat, Apart(B, top), top <= Limit, FirstBlock <= top, Even(top),
           NEW F, F \subseteq Pointers(B)
    PROVE  /\ Base + 1 \notin LinkWords(F) /\ FirstBlock - 2 \notin LinkWords(F)
           /\ top - 1 \notin LinkWords(F)
           /\ \A b \in B : b.lo - 1 \notin LinkWords(F) /\ b.hi - 2 \notin LinkWords(F)
           /\ \A b \in B : b.lo \notin F => \A a \in PayloadWords(b) : a \notin LinkWords(F)
<1>0. /\ Base \in Nat /\ Prologue = Base + 2 /\ FirstBlock = Base + 6 /\ Even(Base) /\ top \in Nat
  BY ArenaBounds
<1>1. SUFFICES ASSUME NEW x \in F \cup {Prologue}
      PROVE  /\ Base + 1 # x /\ Base + 1 # x + 1 /\ FirstBlock - 2 # x /\ FirstBlock - 2 # x + 1
             /\ top - 1 # x /\ top - 1 # x + 1
             /\ \A b \in B : /\ b.lo - 1 # x /\ b.lo - 1 # x + 1
                             /\ b.hi - 2 # x /\ b.hi - 2 # x + 1
             /\ \A b \in B : b.lo \notin F => \A a \in PayloadWords(b) : a # x /\ a # x + 1
  BY DEF LinkWords
<1>2. \A b \in B : /\ b.lo \in Nat /\ b.hi \in Nat /\ Even(b.lo) /\ Even(b.hi)
                   /\ FirstBlock <= b.lo /\ b.lo + 4 <= b.hi /\ b.hi <= top
  BY BlockFacts
<1>3. CASE x = Prologue
  <2>1. /\ Base + 1 # x /\ Base + 1 # x + 1 /\ FirstBlock - 2 # x /\ FirstBlock - 2 # x + 1
        /\ top - 1 # x /\ top - 1 # x + 1
    BY <1>0, <1>3 DEF Even
  <2>2. ASSUME NEW b \in B
        PROVE  /\ b.lo - 1 # x /\ b.lo - 1 # x + 1
               /\ b.hi - 2 # x /\ b.hi - 2 # x + 1
               /\ \A a \in PayloadWords(b) : a # x /\ a # x + 1
    BY <1>0, <1>2, <1>3 DEF PayloadWords
  <2> QED
    BY <2>1, <2>2
<1>4. CASE x \in F
  <2>1. PICK c \in B : x = c.lo
    BY <1>4 DEF Pointers
  <2>2. /\ x \in Nat /\ c.hi \in Nat /\ Even(x) /\ FirstBlock <= x /\ x + 4 <= c.hi /\ c.hi <= top
    BY <1>2, <2>1
  <2>3. /\ Base + 1 # x /\ Base + 1 # x + 1 /\ FirstBlock - 2 # x /\ FirstBlock - 2 # x + 1
        /\ top - 1 # x /\ top - 1 # x + 1
    BY <1>0, <2>2
  <2>4. ASSUME NEW b \in B
        PROVE  /\ b.lo - 1 # x /\ b.lo - 1 # x + 1
               /\ b.hi - 2 # x /\ b.hi - 2 # x + 1
               /\ b.lo \notin F => \A a \in PayloadWords(b) : a # x /\ a # x + 1
    <3>1. /\ b.lo \in Nat /\ b.hi \in Nat /\ Even(b.lo) /\ Even(b.hi) /\ b.lo + 4 <= b.hi
      BY <1>2
    <3>2. b = c \/ b.hi <= x \/ c.hi <= b.lo
      BY <2>1 DEF Apart
    <3>3. CASE b = c
      BY <1>4, <2>1, <2>2, <3>1, <3>3 DEF Even
    <3>4. CASE b.hi <= x
      BY <2>2, <3>1, <3>4 DEF PayloadWords
    <3>5. CASE c.hi <= b.lo
      BY <2>2, <3>1, <3>5 DEF PayloadWords
    <3> QED
      BY <3>2, <3>3, <3>4, <3>5
  <2> QED
    BY <2>3, <2>4
<1> QED
  BY <1>3, <1>4

(* Rewriting links only.                                                      *)
LEMMA Relink ==
    ASSUME NEW h, NEW B, NEW F, Holds(h, B, F), NEW k, NEW G,
           Wrote(h, k, LinkWords(G)), Linked(k, G), G \subseteq Pointers(B)
    PROVE  /\ Holds(k, B, G) /\ k.brk = h.brk
           /\ Ended(h) => Ended(k)
           /\ \A b \in B : b.lo \notin G => Keeps(h, k, PayloadWords(b))
<1>1. /\ InUse(k) /\ k.brk = h.brk /\ \A a : a \notin LinkWords(G) => GET(k, a) = GET(h, a)
  BY DEF Wrote
<1>2. /\ h.brk \in Nat /\ FirstBlock <= h.brk /\ h.brk <= Limit /\ Even(h.brk)
      /\ Apart(B, h.brk) /\ Tagged(h, B)
  BY DEF Holds, InUse
<1>3. /\ Base + 1 \notin LinkWords(G) /\ FirstBlock - 2 \notin LinkWords(G)
      /\ h.brk - 1 \notin LinkWords(G)
      /\ \A b \in B : b.lo - 1 \notin LinkWords(G) /\ b.hi - 2 \notin LinkWords(G)
      /\ \A b \in B : b.lo \notin G => \A a \in PayloadWords(b) : a \notin LinkWords(G)
  BY <1>2, LinksApart
<1>4. Tagged(k, B)
  BY <1>1, <1>2, <1>3 DEF Tagged
<1>5. Ended(h) => Ended(k)
  BY <1>1, <1>3 DEF Ended
<1>6. \A b \in B : b.lo \notin G => Keeps(h, k, PayloadWords(b))
  BY <1>1, <1>3 DEF Keeps
<1> QED
  BY <1>1, <1>2, <1>4, <1>5, <1>6 DEF Holds

(* Writing the tags of one block g, new or changed, beside others.            *)
LEMMA Retag ==
    ASSUME NEW h, NEW B, NEW F, Holds(h, B, F),
           NEW C, Apart(C, h.brk), NEW g \in C, C \ {g} \subseteq B, F \subseteq Pointers(C)
    PROVE  LET k == PutTags(h, g.lo, g.hi - g.lo, Bit(g))
           IN  /\ Holds(k, C, F) /\ k.brk = h.brk
               /\ Ended(h) => Ended(k)
               /\ \A b \in C : Keeps(h, k, PayloadWords(b))
<1> DEFINE k == PutTags(h, g.lo, g.hi - g.lo, Bit(g))
           S == {g.lo - 1, g.hi - 2}
<1>1. /\ h.brk \in Nat /\ FirstBlock <= h.brk /\ h.brk <= Limit /\ Even(h.brk) /\ InUse(h)
      /\ Tagged(h, B) /\ Linked(h, F)
  BY DEF Holds, InUse
<1>2. /\ g.lo \in Nat /\ g.hi \in Nat /\ g.hi - g.lo \in Nat /\ Even(g.hi - g.lo) /\ Bit(g) \in {0, 1}
      /\ g.lo - 1 \in Arena /\ g.lo + (g.hi - g.lo) - 2 = g.hi - 2 /\ g.hi - 2 \in Arena
      /\ g.lo + 4 <= g.hi /\ FirstBlock <= g.lo /\ g.hi <= h.brk /\ Even(g.lo) /\ Even(g.hi)
  BY <1>1, BlockFacts
<1>3. /\ Wrote(h, k, S) /\ k.free_listp = h.free_listp
      /\ GET(k, g.lo - 1) = (g.hi - g.lo) + Bit(g) /\ GET(k, g.hi - 2) = (g.hi - g.lo) + Bit(g)
  <2> DEFINE lo == g.lo
             n == g.hi - g.lo
             bit == Bit(g)
             j == PutTags(h, lo, n, bit)
  <2>1. /\ lo \in Nat /\ n \in Nat /\ bit \in {0, 1} /\ Even(n) /\ lo - 1 \in Arena
        /\ lo + n - 2 \in Arena
    BY <1>2
  <2>2. InUse(h)
    BY <1>1
  <2> HIDE DEF lo, n, bit
  <2>3. /\ Wrote(h, j, {lo - 1, lo + n - 2})
        /\ GET(j, lo - 1) = n + bit /\ GET(j, lo + n - 2) = n + bit
        /\ j.free_listp = h.free_listp
    BY <2>1, <2>2, PutTagsWrites
  <2>4. j = k /\ lo - 1 = g.lo - 1 /\ lo + n - 2 = g.hi - 2 /\ n + bit = (g.hi - g.lo) + Bit(g)
    BY <1>2 DEF lo, n, bit
  <2> HIDE DEF j, k
  <2> QED
    BY <2>3, <2>4
<1> HIDE DEF k
<1>4. S \cap LinkWords(F) = {}
  BY <1>1, LinksApart
<1>5. Linked(k, F)
  BY <1>1, <1>3, <1>4, ChainKept
<1>6. /\ InUse(k) /\ k.brk = h.brk /\ \A a : a \notin S => GET(k, a) = GET(h, a)
  BY <1>3 DEF Wrote
<1>7. /\ Base + 1 \notin S /\ FirstBlock - 2 \notin S /\ h.brk - 1 \notin S
  <2>1. /\ Base + 1 # g.lo - 1 /\ Base + 1 # g.hi - 2 /\ FirstBlock - 2 # g.lo - 1
        /\ FirstBlock - 2 # g.hi - 2 /\ h.brk - 1 # g.lo - 1
    BY <1>1, <1>2, ArenaBounds
  <2>2. h.brk - 1 # g.hi - 2
    BY <1>1, <1>2 DEF Even
  <2> QED
    BY <2>1, <2>2
<1>8. ASSUME NEW b \in C
      PROVE  /\ b # g => b.lo - 1 \notin S /\ b.hi - 2 \notin S
             /\ \A a \in PayloadWords(b) : a \notin S
  <2>1. /\ b.lo \in Nat /\ b.hi \in Nat /\ Even(b.lo) /\ Even(b.hi) /\ b.lo + 4 <= b.hi
    BY <1>1, BlockFacts
  <2>2. b = g \/ b.hi <= g.lo \/ g.hi <= b.lo
    BY DEF Apart
  <2>3. CASE b = g
    BY <1>2, <2>3 DEF PayloadWords
  <2>4. CASE b.hi <= g.lo
    <3>1. b.lo - 1 # g.lo - 1 /\ b.lo - 1 # g.hi - 2 /\ b.hi - 2 # g.lo - 1 /\ b.hi - 2 # g.hi - 2
      BY <1>2, <2>1, <2>4
    <3>2. \A a \in PayloadWords(b) : a # g.lo - 1 /\ a # g.hi - 2
      BY <1>2, <2>1, <2>4 DEF PayloadWords
    <3> QED
      BY <3>1, <3>2
  <2>5. CASE g.hi <= b.lo
    <3>1. b.lo - 1 # g.lo - 1 /\ b.lo - 1 # g.hi - 2 /\ b.hi - 2 # g.lo - 1 /\ b.hi - 2 # g.hi - 2
      BY <1>2, <2>1, <2>5
    <3>2. \A a \in PayloadWords(b) : a # g.lo - 1 /\ a # g.hi - 2
      BY <1>2, <2>1, <2>5 DEF PayloadWords
    <3> QED
      BY <3>1, <3>2
  <2> QED
    BY <2>2, <2>3, <2>4, <2>5
<1>9. Tagged(k, C)
  <2>1. ASSUME NEW b \in C
        PROVE  /\ GET(k, b.lo - 1) = (b.hi - b.lo) + Bit(b)
               /\ GET(k, b.hi - 2) = (b.hi - b.lo) + Bit(b)
    <3>1. CASE b = g
      BY <1>3, <3>1
    <3>2. CASE b # g
      <4>1. b \in B
        BY <3>2
      <4>2. /\ GET(h, b.lo - 1) = (b.hi - b.lo) + Bit(b)
            /\ GET(h, b.hi - 2) = (b.hi - b.lo) + Bit(b)
        BY <1>1, <4>1 DEF Tagged
      <4> QED
        BY <1>6, <1>8, <3>2, <4>2
    <3> QED
      BY <3>1, <3>2
  <2>2. GET(k, Base + 1) = MINIMUM + 1 /\ GET(k, FirstBlock - 2) = MINIMUM + 1
    BY <1>1, <1>6, <1>7 DEF Tagged
  <2> QED
    BY <2>1, <2>2 DEF Tagged
<1>10. Holds(k, C, F)
  BY <1>1, <1>5, <1>6, <1>9 DEF Holds
<1>11. Ended(h) => Ended(k)
  BY <1>6, <1>7 DEF Ended
<1>12. \A b \in C : Keeps(h, k, PayloadWords(b))
  BY <1>6, <1>8 DEF Keeps
<1> QED
  BY <1>6, <1>10, <1>11, <1>12 DEF k

-----------------------------------------------------------------------------
(* What the tags say of a block and its neighbours                            *)

(* What the macros of mm.c read from the tags of a block: its size, its       *)
(* allocated bit, and the block after it and, seen from there, before it.     *)
LEMMA BlockReads ==
    ASSUME NEW h, NEW B, NEW F, Holds(h, B, F), NEW b \in B
    PROVE  /\ GET_SIZE(h, HDRP(b.lo)) = b.hi - b.lo
           /\ GET_ALLOC(h, HDRP(b.lo)) = Bit(b)
           /\ NEXT_BLKP(h, b.lo) = b.hi
           /\ FTRP(h, b.lo) = b.hi - 2
           /\ PREV_BLKP(h, b.hi) = b.lo
           /\ GET_ALLOC(h, b.hi - 2) = Bit(b)
           /\ GET(h, HDRP(b.lo)) = GET(h, FTRP(h, b.lo))
<1>1. /\ b.lo \in Nat /\ b.hi \in Nat /\ b.hi - b.lo \in Nat /\ Even(b.hi - b.lo) /\ Bit(b) \in {0, 1}
  BY BlockFacts DEF Holds, InUse
<1>2. /\ GET(h, b.lo - 1) = PACK(b.hi - b.lo, Bit(b))
      /\ GET(h, b.hi - 2) = PACK(b.hi - b.lo, Bit(b))
  BY DEF Holds, Tagged, PACK
<1> DEFINE n == b.hi - b.lo
<1>3. n \in Nat /\ Even(n) /\ n = b.hi - b.lo
  BY <1>1
<1> HIDE DEF n
<1>4. /\ GET_SIZE(h, b.lo - 1) = n /\ GET_ALLOC(h, b.lo - 1) = Bit(b)
      /\ GET_SIZE(h, b.hi - 2) = n /\ GET_ALLOC(h, b.hi - 2) = Bit(b)
  BY <1>1, <1>2, <1>3, TagReads
<1>5. b.lo + n = b.hi /\ b.lo + n - 2 = b.hi - 2 /\ b.hi - n = b.lo
  BY <1>1, <1>3
<1> QED
  BY <1>2, <1>3, <1>4, <1>5 DEF HDRP, FTRP, NEXT_BLKP, PREV_BLKP, WSIZE, DSIZE

(* coalesce sees the epilogue or the block after, as it is.                   *)
LEMMA NextReads ==
    ASSUME NEW h, NEW B, NEW F, Holds(h, B, F), Ended(h), NEW b \in B
    PROVE  /\ b.hi = h.brk => NextAlloc(h, b.lo)
           /\ \A c \in B : c.lo = b.hi => (NextAlloc(h, b.lo) <=> c.alloc)
<1>1. NEXT_BLKP(h, b.lo) = b.hi
  BY BlockReads
<1>2. ASSUME b.hi = h.brk PROVE NextAlloc(h, b.lo)
  <2>1. GET(h, HDRP(b.hi)) = 1
    BY <1>2 DEF Ended, HDRP, WSIZE
  <2> QED
    BY <1>1, <2>1 DEF NextAlloc, GET_ALLOC
<1>3. ASSUME NEW c \in B, c.lo = b.hi PROVE NextAlloc(h, b.lo) <=> c.alloc
  <2>1. GET_ALLOC(h, HDRP(b.hi)) = Bit(c)
    BY <1>3, BlockReads
  <2> QED
    BY <1>1, <2>1 DEF NextAlloc, Bit
<1> QED
  BY <1>2, <1>3

(* Before the first block it finds an address whose footer lies before the    *)
(* arena, and the odd word there; otherwise the block before, as it is.       *)
LEMMA PrevReads ==
    ASSUME NEW h, NEW B, NEW F, Holds(h, B, F), NEW b \in B
    PROVE  /\ b.lo = FirstBlock => PrevAlloc(h, b.lo)
           /\ \A c \in B : c.hi = b.lo => (PrevAlloc(h, b.lo) <=> c.alloc)
<1>1. ASSUME b.lo = FirstBlock PROVE PrevAlloc(h, b.lo)
  <2>0. InUse(h)
    BY DEF Holds
  <2>1. GET(h, FirstBlock - 2) = PACK(6, 1)
    BY DEF Holds, Tagged, PACK, MINIMUM
  <2>2. GET_SIZE(h, FirstBlock - 2) = 6
    BY <2>1, TagReads DEF Even
  <2>3. PREV_BLKP(h, b.lo) = Base
    BY <1>1, <2>2, ArenaBounds DEF PREV_BLKP, DSIZE
  <2>4. GET(h, Base - 1) = 1
    <3>1. Base - 1 \notin Arena
      BY ArenaBounds DEF Arena
    <3> QED
      BY <2>0, <3>1, GetIs
  <2>5. GET_SIZE(h, Base - 1) = 0
    BY <2>4 DEF GET_SIZE
  <2>6. FTRP(h, Base) = Base - 2
    BY <2>5, ArenaBounds DEF FTRP, HDRP, WSIZE, DSIZE
  <2>7. GET(h, Base - 2) = 1
    <3>1. Base - 2 \notin Arena
      BY ArenaBounds DEF Arena
    <3> QED
      BY <2>0, <3>1, GetIs
  <2>8. GET_ALLOC(h, Base - 2) = 1
    BY <2>7 DEF GET_ALLOC
  <2> QED
    BY <2>3, <2>6, <2>8 DEF PrevAlloc
<1>2. ASSUME NEW c \in B, c.hi = b.lo PROVE PrevAlloc(h, b.lo) <=> c.alloc
  <2>1. PREV_BLKP(h, b.lo) = c.lo /\ FTRP(h, c.lo) = c.hi - 2 /\ GET_ALLOC(h, c.hi - 2) = Bit(c)
    BY <1>2, BlockReads
  <2>2. c.lo # b.lo
    BY <1>2, BlockFacts DEF Holds, InUse
  <2> QED
    BY <2>1, <2>2 DEF PrevAlloc, Bit
<1> QED
  BY <1>1, <1>2

-----------------------------------------------------------------------------
(* Blocks that leave no gap                                                   *)

Covers(B, top) ==
    /\ top = FirstBlock \/ \E b \in B : b.lo = FirstBlock
    /\ top = FirstBlock \/ \E b \in B : b.hi = top
    /\ \A b \in B : b.lo = FirstBlock \/ \E c \in B : c.hi = b.lo
    /\ \A b \in B : b.hi = top \/ \E c \in B : c.lo = b.hi

(* The blocks D of B are neighbours of each other and fill m.                 *)
Fills(B, D, m) ==
    /\ D \subseteq B
    /\ m \in BlockType
    /\ \E b \in D : b.lo = m.lo
    /\ \E b \in D : b.hi = m.hi
    /\ \A b \in D : m.lo <= b.lo /\ b.hi <= m.hi
    /\ \A b \in D : b.lo = m.lo \/ \E c \in D : c.hi = b.lo
    /\ \A b \in D : b.hi = m.hi \/ \E c \in D : c.lo = b.hi
    /\ \A b \in B \ D : b.hi <= m.lo \/ m.hi <= b.lo

(* Putting one block in the place of those it fills leaves blocks apart.      *)
LEMMA FilledApart ==
    ASSUME NEW B, NEW top \in Nat, Apart(B, top), NEW D, NEW m, Fills(B, D, m)
    PROVE  Apart((B \ D) \cup {m}, top)
<1> DEFINE C == (B \ D) \cup {m}
<1>1. PICK x \in D : x.lo = m.lo
  BY DEF Fills
<1>2. PICK y \in D : y.hi = m.hi
  BY DEF Fills
<1>3. \A b \in B : /\ b.lo \in Nat /\ b.hi \in Nat /\ FirstBlock <= b.lo /\ b.lo + 4 <= b.hi /\ b.hi <= top
                   /\ Even(b.lo) /\ Even(b.hi)
  BY DEF Apart, BlockType
<1>4. x \in B /\ y \in B /\ m \in BlockType /\ m.lo \in Nat /\ m.hi \in Nat
      /\ m.lo <= y.lo
  BY <1>1, <1>2 DEF Fills, BlockType
<1>5. FirstBlock <= m.lo /\ m.lo + 4 <= m.hi /\ m.hi <= top /\ Even(m.lo) /\ Even(m.hi)
  BY <1>1, <1>2, <1>3, <1>4, ArenaBounds
<1>6. C \subseteq BlockType
  BY <1>4 DEF Apart
<1>7. \A b \in C : /\ FirstBlock <= b.lo /\ b.lo + 4 <= b.hi /\ b.hi <= top
                   /\ Even(b.lo) /\ Even(b.hi)
  BY <1>3, <1>5
<1>8. \A b, c \in C : b = c \/ b.hi <= c.lo \/ c.hi <= b.lo
  BY DEF Apart, Fills
<1> QED
  BY <1>6, <1>7, <1>8 DEF Apart

(* And it leaves no gap.                                                      *)
LEMMA FilledCovers ==
    ASSUME NEW B, NEW top \in Nat, Apart(B, top), Covers(B, top), NEW D, NEW m, Fills(B, D, m)
    PROVE  Covers((B \ D) \cup {m}, top)
<1> DEFINE C == (B \ D) \cup {m}
<1>0. FirstBlock \in Nat /\ m.lo \in Nat /\ m.hi \in Nat
      /\ \A b \in B : b.lo \in Nat /\ b.hi \in Nat /\ FirstBlock <= b.lo /\ b.lo + 4 <= b.hi /\ b.hi <= top
  BY ArenaBounds DEF Apart, BlockType, Fills
<1>1. \A b \in D : b \in B /\ m.lo <= b.lo /\ b.hi <= m.hi
  BY DEF Fills
<1>2. ASSUME NEW b \in B PROVE \A c \in B : b.lo = c.lo \/ b.hi = c.hi => b = c
  BY <1>0 DEF Apart
<1>3. ASSUME NEW b \in B \ D, NEW c \in D
      PROVE  /\ c.hi = b.lo => b.lo = m.hi
             /\ c.lo = b.hi => b.hi = m.lo
  <2>1. c.hi = m.hi \/ \E d \in D : d.lo = c.hi
    BY DEF Fills
  <2>2. c.lo = m.lo \/ \E d \in D : d.hi = c.lo
    BY DEF Fills
  <2>3. \A d \in D : d.lo # b.lo /\ d.hi # b.hi
    BY <1>1, <1>2
  <2> QED
    BY <2>1, <2>2, <2>3
<1>4. \A b \in B \ D : b.lo = FirstBlock \/ \E c \in C : c.hi = b.lo
  <2>1. SUFFICES ASSUME NEW b \in B \ D, b.lo # FirstBlock PROVE \E c \in C : c.hi = b.lo
    OBVIOUS
  <2>2. PICK c \in B : c.hi = b.lo
    BY <2>1 DEF Covers
  <2>3. CASE c \in D
    <3>1. b.lo = m.hi /\ m \in C
      BY <1>3, <2>2, <2>3
    <3> QED
      BY <3>1
  <2> QED
    BY <2>2, <2>3
<1>5. \A b \in B \ D : b.hi = top \/ \E c \in C : c.lo = b.hi
  <2>1. SUFFICES ASSUME NEW b \in B \ D, b.hi # top PROVE \E c \in C : c.lo = b.hi
    OBVIOUS
  <2>2. PICK c \in B : c.lo = b.hi
    BY <2>1 DEF Covers
  <2>3. CASE c \in D
    <3>1. b.hi = m.lo /\ m \in C
      BY <1>3, <2>2, <2>3
    <3> QED
      BY <3>1
  <2> QED
    BY <2>2, <2>3
<1>6. m.lo = FirstBlock \/ \E c \in C : c.hi = m.lo
  <2>1. PICK x \in D : x.lo = m.lo
    BY DEF Fills
  <2>2. CASE x.lo = FirstBlock
    BY <2>1, <2>2
  <2>3. CASE x.lo # FirstBlock
    <3>1. PICK c \in B : c.hi = x.lo
      BY <1>1, <2>3 DEF Covers
    <3>2. c \notin D
      BY <1>0, <1>1, <2>1, <3>1
    <3> QED
      BY <2>1, <3>1, <3>2
  <2> QED
    BY <2>2, <2>3
<1>7. m.hi = top \/ \E c \in C : c.lo = m.hi
  <2>1. PICK y \in D : y.hi = m.hi
    BY DEF Fills
  <2>2. CASE y.hi = top
    BY <2>1, <2>2
  <2>3. CASE y.hi # top
    <3>1. PICK c \in B : c.lo = y.hi
      BY <1>1, <2>3 DEF Covers
    <3>2. c \notin D
      BY <1>0, <1>1, <2>1, <3>1
    <3> QED
      BY <2>1, <3>1, <3>2
  <2> QED
    BY <2>2, <2>3
<1>8. top = FirstBlock \/ \E b \in C : b.lo = FirstBlock
  <2>1. SUFFICES ASSUME top # FirstBlock PROVE \E b \in C : b.lo = FirstBlock
    OBVIOUS
  <2>2. PICK b \in B : b.lo = FirstBlock
    BY <2>1 DEF Covers
  <2>3. CASE b \in D
    <3>1. PICK x \in D : x.lo = m.lo
      BY DEF Fills
    <3>2. m.lo = FirstBlock
      BY <1>0, <1>1, <2>2, <2>3, <3>1
    <3> QED
      BY <3>2
  <2> QED
    BY <2>2, <2>3
<1>9. top = FirstBlock \/ \E b \in C : b.hi = top
  <2>1. SUFFICES ASSUME top # FirstBlock PROVE \E b \in C : b.hi = top
    OBVIOUS
  <2>2. PICK b \in B : b.hi = top
    BY <2>1 DEF Covers
  <2>3. CASE b \in D
    <3>1. PICK y \in D : y.hi = m.hi
      BY DEF Fills
    <3>2. m.hi = top
      BY <1>0, <1>1, <2>2, <2>3, <3>1
    <3> QED
      BY <3>2
  <2> QED
    BY <2>2, <2>3
<1> QED
  BY <1>4, <1>5, <1>6, <1>7, <1>8, <1>9 DEF Covers

(* A block is known by its pointer.                                           *)
LEMMA UniquePointer ==
    ASSUME NEW B, NEW top \in Nat, Apart(B, top), NEW b \in B, NEW c \in B, b.lo = c.lo \/ b.hi = c.hi
    PROVE  b = c
  BY DEF Apart, BlockType

(* The free blocks after a merge: the merged block takes the place of its     *)
(* parts, and no block in use is touched.                                     *)
LEMMA FilledPointers ==
    ASSUME NEW B, NEW top \in Nat, Apart(B, top), NEW D, NEW m, Fills(B, D, m), ~m.alloc,
           \A b \in D : ~b.alloc
    PROVE  /\ FreePointers((B \ D) \cup {m}) = (FreePointers(B) \ Pointers(D)) \cup {m.lo}
           /\ \A b \in B \cup ((B \ D) \cup {m}) : b.alloc => b \in (B \ D) /\ b \in B
<1>1. \A b \in B : \A c \in D : b.lo = c.lo => b = c
  BY UniquePointer DEF Fills
<1>2. D \subseteq B
  BY DEF Fills
<1>3. ASSUME NEW p \in FreePointers((B \ D) \cup {m})
      PROVE  p \in (FreePointers(B) \ Pointers(D)) \cup {m.lo}
  BY <1>1, <1>2 DEF FreePointers, Pointers
<1>4. ASSUME NEW p \in (FreePointers(B) \ Pointers(D)) \cup {m.lo}
      PROVE  p \in FreePointers((B \ D) \cup {m})
  BY DEF FreePointers, Pointers
<1> QED
  BY <1>3, <1>4

-----------------------------------------------------------------------------
(* coalesce                                                                   *)

(* Between two calls of the package: the list holds exactly the free blocks.  *)
Settled(h, B) ==
    /\ Holds(h, B, FreePointers(B))
    /\ Ended(h)
    /\ Covers(B, h.brk)

(* k is settled with the blocks C, and no payload of B in use changed.        *)
SettledFrom(h, B, k, C) ==
    /\ Settled(k, C)
    /\ k.brk = h.brk
    /\ \A b \in B : b.alloc => b \in C /\ Keeps(h, k, PayloadWords(b))

(* The free block n of B awaits its place in the list.                        *)
Awaits(h, B, n) ==
    /\ n \in B /\ ~n.alloc
    /\ Holds(h, B, FreePointers(B) \ {n.lo})
    /\ Ended(h)
    /\ Covers(B, h.brk)

(* The parts of Holds that most steps use.                                    *)
LEMMA HoldsFacts ==
    ASSUME NEW h, NEW B, NEW F, Holds(h, B, F)
    PROVE  /\ InUse(h) /\ Apart(B, h.brk) /\ h.brk \in Nat /\ h.brk <= Limit /\ Linked(h, F)
           /\ FirstBlock <= h.brk /\ Even(h.brk)
           /\ F \subseteq Pointers(B)
           /\ \A b \in B : b.lo \in LinkPtrs /\ b.lo # Prologue
  BY BlockFacts DEF Holds, InUse

(* Taking a node off the list.                                                *)
LEMMA UnlinkHolds ==
    ASSUME NEW h, NEW B, NEW F, Holds(h, B, F), NEW p \in F
    PROVE  LET k == removeFreeBlock(h, p)
           IN  /\ Holds(k, B, F \ {p}) /\ k.brk = h.brk
               /\ Ended(h) => Ended(k)
               /\ \A b \in B : b.lo \notin F \ {p} => Keeps(h, k, PayloadWords(b))
<1> DEFINE k == removeFreeBlock(h, p)
<1>1. Wrote(h, k, LinkWords(F \ {p})) /\ Linked(k, F \ {p})
  BY HoldsFacts, Unlink
<1>2. F \ {p} \subseteq Pointers(B)
  BY HoldsFacts
<1> HIDE DEF k
<1> QED
  BY <1>1, <1>2, Relink DEF k

(* Pushing the last free block on it.                                         *)
LEMMA PushSettles ==
    ASSUME NEW h, NEW B, NEW m, Awaits(h, B, m)
    PROVE  SettledFrom(h, B, PushFree(h, m.lo), B)
<1> DEFINE k == PushFree(h, m.lo)
           F == FreePointers(B) \ {m.lo}
<1>1. /\ m \in B /\ ~m.alloc /\ Holds(h, B, F) /\ Ended(h) /\ Covers(B, h.brk)
  BY DEF Awaits
<1>2. /\ InUse(h) /\ Linked(h, F) /\ m.lo \in LinkPtrs /\ m.lo # Prologue /\ m.lo \notin F
      /\ Apart(B, h.brk) /\ h.brk \in Nat
  BY <1>1, HoldsFacts
<1>3. F \cup {m.lo} = FreePointers(B) /\ FreePointers(B) \subseteq Pointers(B)
  BY <1>1 DEF FreePointers, Pointers
<1>4. Wrote(h, k, LinkWords(F \cup {m.lo})) /\ Linked(k, F \cup {m.lo})
  <2> HIDE DEF F
  <2> QED
    BY <1>2, Push
<1> HIDE DEF k, F
<1>5. /\ Holds(k, B, FreePointers(B)) /\ k.brk = h.brk /\ Ended(k)
      /\ \A b \in B : b.lo \notin FreePointers(B) => Keeps(h, k, PayloadWords(b))
  BY <1>1, <1>3, <1>4, Relink
<1>6. \A b \in B : b.alloc => b.lo \notin FreePointers(B)
  BY <1>2, UniquePointer DEF FreePointers
<1> QED
  BY <1>1, <1>5, <1>6 DEF SettledFrom, Settled, k

(* Blocks D of B are joined into the free block m, which goes on the list.    *)
LEMMA JoinSettles ==
    ASSUME NEW h, NEW B, NEW D, NEW m, Covers(B, h.brk), Ended(h),
           Fills(B, D, m), ~m.alloc, \A b \in D : ~b.alloc,
           Holds(h, B, FreePointers(B) \ Pointers(D))
    PROVE  LET k == PushFree(PutTags(h, m.lo, m.hi - m.lo, 0), m.lo)
           IN  SettledFrom(h, B, k, (B \ D) \cup {m})
<1> DEFINE C == (B \ D) \cup {m}
           F == FreePointers(B) \ Pointers(D)
           j == PutTags(h, m.lo, m.hi - m.lo, 0)
           k == PushFree(j, m.lo)
<1>1. /\ Apart(B, h.brk) /\ h.brk \in Nat
  BY HoldsFacts
<1>2. Apart(C, h.brk) /\ Covers(C, h.brk)
  BY <1>1, FilledApart, FilledCovers
<1>3. /\ FreePointers(C) = F \cup {m.lo}
      /\ \A b \in B \cup C : b.alloc => b \in C /\ b \in B
  BY <1>1, FilledPointers
<1>4. m.lo \notin F
  <2>1. PICK x \in D : x.lo = m.lo
    BY DEF Fills
  <2> QED
    BY <2>1 DEF Pointers
<1>5. F = FreePointers(C) \ {m.lo} /\ F \subseteq Pointers(C)
  <2>1. FreePointers(C) \subseteq Pointers(C)
    BY DEF FreePointers, Pointers
  <2> HIDE DEF F, C
  <2> QED
    BY <1>3, <1>4, <2>1
<1>6. m \in C /\ C \ {m} \subseteq B /\ Bit(m) = 0
  BY DEF Bit
<1> HIDE DEF C, F
<1>7. /\ Holds(j, C, F) /\ j.brk = h.brk /\ Ended(j)
      /\ \A b \in C : Keeps(h, j, PayloadWords(b))
  <2>1. Holds(h, B, F)
    BY DEF F
  <2> QED
    BY <1>2, <1>5, <1>6, <2>1, Retag
<1> HIDE DEF j
<1>8. Awaits(j, C, m)
  BY <1>2, <1>5, <1>6, <1>7 DEF Awaits
<1>9. SettledFrom(j, C, k, C)
  BY <1>8, PushSettles
<1> HIDE DEF k
<1>10. \A b \in B : b.alloc => b \in C /\ Keeps(h, k, PayloadWords(b))
  BY <1>3, <1>7, <1>9, KeepsTrans DEF SettledFrom
<1>11. Settled(k, C) /\ k.brk = h.brk
  BY <1>7, <1>9 DEF SettledFrom
<1>12. SettledFrom(h, B, k, C)
  BY <1>10, <1>11 DEF SettledFrom
<1> QED
  BY <1>12 DEF k, j, C

(* The free neighbours of n, with n, are the blocks D, and make the block m.  *)
MergesInto(B, n, D, m) ==
    /\ n \in D
    /\ MB!FreeBefore(B \ {n}, n) \cup MB!FreeAfter(B \ {n}, n) = D \ {n}
    /\ MB!MergedLo(B \ {n}, n) = m.lo
    /\ MB!MergedHi(B \ {n}, n) = m.hi

(* Coalesce of module MmBlocks, where it is known which blocks merge into     *)
(* which.                                                                     *)
LEMMA CoalescedAs ==
    ASSUME NEW B, NEW n \in B, NEW D, NEW m, m \in BlockType, ~m.alloc,
           MergesInto(B, n, D, m)
    PROVE  /\ MB!Coalesce(B \ {n}, n) = (B \ D) \cup {m}
           /\ MB!Merged(B \ {n}, n) = m
<1>1. MB!Merged(B \ {n}, n) = m
  BY DEF MergesInto, MB!Merged, MB!Block, BlockType
<1>2. (B \ {n}) \ (D \ {n}) = B \ D
  BY DEF MergesInto
<1> QED
  BY <1>1, <1>2 DEF MergesInto, MB!Coalesce

(* What coalesce decides on: whether a free block ends where n begins, or     *)
(* begins where n ends.                                                       *)
LEMMA NeighboursSeen ==
    ASSUME NEW h, NEW B, NEW F, Holds(h, B, F), Ended(h), Covers(B, h.brk), NEW n \in B
    PROVE  /\ PrevAlloc(h, n.lo) <=> \A c \in B : c.hi = n.lo => c.alloc
           /\ NextAlloc(h, n.lo) <=> \A c \in B : c.lo = n.hi => c.alloc
<1>0. /\ FirstBlock \in Nat /\ h.brk \in Nat
      /\ \A b \in B : b.lo \in Nat /\ b.hi \in Nat /\ b.lo + 4 <= b.hi /\ FirstBlock <= b.lo /\ b.hi <= h.brk
  BY HoldsFacts, BlockFacts, ArenaBounds
<1>1. PrevAlloc(h, n.lo) <=> \A c \in B : c.hi = n.lo => c.alloc
  <2>1. CASE n.lo = FirstBlock
    <3>1. \A c \in B : c.hi # n.lo
      BY <1>0, <2>1
    <3> QED
      BY <2>1, <3>1, PrevReads
  <2>2. CASE n.lo # FirstBlock
    <3>1. PICK c \in B : c.hi = n.lo
      BY <2>2 DEF Covers
    <3>2. \A x \in B : x.hi = n.lo => x = c
      BY <1>0, <3>1, HoldsFacts, UniquePointer
    <3> QED
      BY <3>1, <3>2, PrevReads
  <2> QED
    BY <2>1, <2>2
<1>2. NextAlloc(h, n.lo) <=> \A c \in B : c.lo = n.hi => c.alloc
  <2>1. CASE n.hi = h.brk
    <3>1. \A c \in B : c.lo # n.hi
      BY <1>0, <2>1
    <3> QED
      BY <2>1, <3>1, NextReads
  <2>2. CASE n.hi # h.brk
    <3>1. PICK c \in B : c.lo = n.hi
      BY <2>2 DEF Covers
    <3>2. \A x \in B : x.lo = n.hi => x = c
      BY <1>0, <3>1, HoldsFacts, UniquePointer
    <3> QED
      BY <3>1, <3>2, NextReads
  <2> QED
    BY <2>1, <2>2
<1> QED
  BY <1>1, <1>2

(* What coalesce does, stated of its answer r.                                *)
Coalesced(h, B, n, r) ==
    /\ SettledFrom(h, B, r.heap, MB!Coalesce(B \ {n}, n))
    /\ r.ptr = MB!MergedLo(B \ {n}, n)
    /\ r.ptr = MB!Merged(B \ {n}, n).lo
    /\ MB!Merged(B \ {n}, n) \in MB!Coalesce(B \ {n}, n)

(* The blocks D, n among them, are joined into m.                             *)
LEMMA JoinCoalesces ==
    ASSUME NEW h, NEW B, NEW n, Awaits(h, B, n), NEW D, NEW m, Fills(B, D, m),
           ~m.alloc, \A b \in D : ~b.alloc, MergesInto(B, n, D, m),
           NEW k, Holds(k, B, FreePointers(B) \ Pointers(D)), k.brk = h.brk, Ended(k),
           \A b \in B : b.alloc => Keeps(h, k, PayloadWords(b)),
           NEW size, size = m.hi - m.lo
    PROVE  Coalesced(h, B, n, Joined(k, m.lo, size))
<1>1. SettledFrom(k, B, PushFree(PutTags(k, m.lo, size, 0), m.lo), (B \ D) \cup {m})
  BY JoinSettles DEF Awaits
<1>2. /\ MB!Coalesce(B \ {n}, n) = (B \ D) \cup {m}
      /\ MB!Merged(B \ {n}, n) = m
  <2>1. n \in B /\ m \in BlockType
    BY DEF Awaits, Fills
  <2> QED
    BY <2>1, CoalescedAs
<1> DEFINE j == PushFree(PutTags(k, m.lo, size, 0), m.lo)
<1>3. Joined(k, m.lo, size).heap = j /\ Joined(k, m.lo, size).ptr = m.lo
  BY DEF Joined
<1> HIDE DEF j
<1>4. SettledFrom(h, B, j, (B \ D) \cup {m})
  BY <1>1, KeepsTrans DEF SettledFrom, j
<1> QED
  BY <1>2, <1>3, <1>4 DEF Coalesced, MergesInto

(* A free block taken off the list, as coalesce and place do it.              *)
LEMMA UnlinkFree ==
    ASSUME NEW h, NEW B, NEW F, Holds(h, B, F), Ended(h), F \subseteq FreePointers(B),
           NEW p \in F, NEW G, G = F \ {p}
    PROVE  LET k == removeFreeBlock(h, p)
           IN  /\ Holds(k, B, G) /\ k.brk = h.brk /\ Ended(k)
               /\ \A b \in B : b.alloc => Keeps(h, k, PayloadWords(b))
<1> DEFINE k == removeFreeBlock(h, p)
<1>1. /\ Holds(k, B, F \ {p}) /\ k.brk = h.brk
      /\ Ended(h) => Ended(k)
      /\ \A b \in B : b.lo \notin F \ {p} => Keeps(h, k, PayloadWords(b))
  BY UnlinkHolds
<1>2. \A b \in B : b.alloc => b.lo \notin FreePointers(B)
  BY HoldsFacts, UniquePointer DEF FreePointers
<1> HIDE DEF k
<1>3. \A b \in B : b.alloc => b.lo \notin F \ {p}
  BY <1>2
<1> QED
  BY <1>1, <1>3 DEF k

(* coalesce, on a block that awaits its place in the list: each of its four   *)
(* cases, told apart by the tags of the neighbours, merges the block with     *)
(* exactly its free neighbours.                                               *)
LEMMA Coalesces ==
    ASSUME NEW h, NEW B, NEW n, Awaits(h, B, n)
    PROVE  Coalesced(h, B, n, coalesce(h, n.lo))
<1> DEFINE F == FreePointers(B) \ {n.lo}
           r == coalesce(h, n.lo)
<1>1. /\ n \in B /\ ~n.alloc /\ Holds(h, B, F) /\ Ended(h) /\ Covers(B, h.brk)
  BY DEF Awaits
<1>2. /\ Apart(B, h.brk) /\ h.brk \in Nat /\ h.brk <= Limit
      /\ \A b \in B : b.lo # NULL
  BY <1>1, HoldsFacts, LinkPtrFacts
<1>3. \A b \in B : /\ b \in BlockType /\ b.lo \in Nat /\ b.hi \in Nat /\ b.lo + 4 <= b.hi
                   /\ b.alloc \in BOOLEAN /\ FirstBlock <= b.lo /\ b.hi <= h.brk
  BY <1>2, BlockFacts
<1>4. \A b, c \in B : b = c \/ b.hi <= c.lo \/ c.hi <= b.lo
  BY <1>2 DEF Apart
<1>5. \A b \in B : b.alloc => b.lo \notin FreePointers(B)
  BY <1>2, UniquePointer DEF FreePointers
<1>6. \A b, c \in B : b.lo = c.lo => b = c
  BY <1>2, UniquePointer
<1>7. GET_SIZE(h, HDRP(n.lo)) = n.hi - n.lo /\ NEXT_BLKP(h, n.lo) = n.hi
  BY <1>1, BlockReads
<1>8. /\ PrevAlloc(h, n.lo) <=> \A c \in B : c.hi = n.lo => c.alloc
      /\ NextAlloc(h, n.lo) <=> \A c \in B : c.lo = n.hi => c.alloc
  BY <1>1, NeighboursSeen
<1>9. F \subseteq FreePointers(B)
  OBVIOUS
<1> HIDE DEF F
<1>10. \A c \in B : c # n => c \in B \ {n}
  OBVIOUS
<1>11. \A b, c \in B : b.hi = c.hi => b = c
  BY <1>2, UniquePointer
<1>12. PrevAlloc(h, n.lo) => MB!FreeBefore(B \ {n}, n) = {} /\ MB!MergedLo(B \ {n}, n) = n.lo
  <2>1. ASSUME PrevAlloc(h, n.lo) PROVE MB!FreeBefore(B \ {n}, n) = {}
    BY <1>8, <2>1 DEF MB!FreeBefore
  <2> QED
    BY <2>1 DEF MB!MergedLo
<1>13. NextAlloc(h, n.lo) => MB!FreeAfter(B \ {n}, n) = {} /\ MB!MergedHi(B \ {n}, n) = n.hi
  <2>1. ASSUME NextAlloc(h, n.lo) PROVE MB!FreeAfter(B \ {n}, n) = {}
    BY <1>8, <2>1 DEF MB!FreeAfter
  <2> QED
    BY <2>1 DEF MB!MergedHi
<1>14. ASSUME NEW c \in B, c.hi = n.lo, ~c.alloc
       PROVE  MB!FreeBefore(B \ {n}, n) = {c} /\ MB!MergedLo(B \ {n}, n) = c.lo
  <2>1. c # n
    BY <1>1, <1>3, <1>14
  <2>2. MB!FreeBefore(B \ {n}, n) = {c}
    BY <1>14, <1>10, <1>11, <2>1 DEF MB!FreeBefore
  <2>3. (CHOOSE x \in {c} : TRUE) = c
    OBVIOUS
  <2> QED
    BY <2>2, <2>3 DEF MB!MergedLo
<1>15. ASSUME NEW d \in B, d.lo = n.hi, ~d.alloc
       PROVE  MB!FreeAfter(B \ {n}, n) = {d} /\ MB!MergedHi(B \ {n}, n) = d.hi
  <2>1. d # n
    BY <1>1, <1>3, <1>15
  <2>2. MB!FreeAfter(B \ {n}, n) = {d}
    BY <1>6, <1>15, <1>10, <2>1 DEF MB!FreeAfter
  <2>3. (CHOOSE x \in {d} : TRUE) = d
    OBVIOUS
  <2> QED
    BY <2>2, <2>3 DEF MB!MergedHi
<1>16. CASE PrevAlloc(h, n.lo) /\ NextAlloc(h, n.lo)
  <2>1. r.heap = PushFree(h, n.lo) /\ r.ptr = n.lo
    BY <1>16 DEF coalesce
  <2>2. SettledFrom(h, B, r.heap, B)
    BY <2>1, PushSettles
  <2>3. /\ MB!FreeBefore(B \ {n}, n) = {} /\ MB!MergedLo(B \ {n}, n) = n.lo
        /\ MB!FreeAfter(B \ {n}, n) = {} /\ MB!MergedHi(B \ {n}, n) = n.hi
    BY <1>16, <1>12, <1>13
  <2> DEFINE D == {n}
  <2>6. MergesInto(B, n, D, n)
    BY <2>3 DEF MergesInto
  <2>4. MB!Coalesce(B \ {n}, n) = (B \ D) \cup {n} /\ MB!Merged(B \ {n}, n) = n
    <3> HIDE DEF D
    <3> QED
      BY <1>1, <1>3, <2>6, CoalescedAs
  <2>5. (B \ {n}) \cup {n} = B
    BY <1>1
  <2> HIDE DEF r
  <2> QED
    BY <1>1, <2>1, <2>2, <2>3, <2>4, <2>5 DEF Coalesced, r
<1>17. CASE PrevAlloc(h, n.lo) /\ ~NextAlloc(h, n.lo)
  <2>1. PICK d \in B : d.lo = n.hi /\ ~d.alloc
    BY <1>8, <1>17
  <2> DEFINE k == removeFreeBlock(h, d.lo)
             m == MB!Block(n.lo, d.hi, FALSE)
             size == (n.hi - n.lo) + (d.hi - d.lo)
             D == {n, d}
  <2>2. GET_SIZE(h, HDRP(d.lo)) = d.hi - d.lo
    BY <1>1, <2>1, BlockReads
  <2>3. r = Joined(k, n.lo, size)
    BY <1>7, <1>17, <2>1, <2>2 DEF coalesce, WithoutNext
  <2>4. d.lo \in F /\ F \ {d.lo} = FreePointers(B) \ Pointers(D) /\ d # n
    BY <1>1, <1>3, <1>6, <2>1 DEF FreePointers, Pointers, F
  <2>5. /\ Holds(k, B, FreePointers(B) \ Pointers(D)) /\ k.brk = h.brk /\ Ended(k)
        /\ \A b \in B : b.alloc => Keeps(h, k, PayloadWords(b))
    BY <1>1, <1>9, <2>4, UnlinkFree
  <2>6. Fills(B, D, m)
    <3>1. m \in BlockType /\ m.lo = n.lo /\ m.hi = d.hi
      BY <1>1, <1>3, <2>1 DEF MB!Block, BlockType
    <3> HIDE DEF m
    <3>2. \A b \in B \ D : b.hi <= m.lo \/ m.hi <= b.lo
      BY <1>1, <1>3, <1>4, <2>1, <3>1
    <3> QED
      BY <1>1, <1>3, <2>1, <3>1, <3>2 DEF Fills
  <2>7. /\ MB!FreeBefore(B \ {n}, n) = {} /\ MB!MergedLo(B \ {n}, n) = n.lo
        /\ MB!FreeAfter(B \ {n}, n) = {d} /\ MB!MergedHi(B \ {n}, n) = d.hi
    BY <1>17, <1>12, <1>15, <2>1
  <2>8. /\ n \in D /\ ~m.alloc /\ (\A b \in D : ~b.alloc) /\ m.lo = n.lo /\ m.hi = d.hi
        /\ MergesInto(B, n, D, m) /\ size = m.hi - m.lo
    <3>1. ~m.alloc /\ m.lo = n.lo /\ m.hi = d.hi
      BY DEF MB!Block
    <3>2. n \in D /\ (\A b \in D : ~b.alloc) /\ {} \cup {d} = D \ {n}
      BY <1>1, <2>1, <2>4
    <3>3. size = d.hi - n.lo
      BY <1>1, <1>3, <2>1
    <3> HIDE DEF m, D, size
    <3>4. MergesInto(B, n, D, m)
      BY <2>7, <3>1, <3>2 DEF MergesInto
    <3> QED
      BY <3>1, <3>2, <3>3, <3>4
  <2> HIDE DEF D, m, size, k
  <2>9. Coalesced(h, B, n, Joined(k, m.lo, size))
    BY <2>5, <2>6, <2>7, <2>8, JoinCoalesces
  <2> QED
    BY <2>3, <2>8, <2>9
<1>18. CASE ~PrevAlloc(h, n.lo) /\ NextAlloc(h, n.lo)
  <2>1. PICK c \in B : c.hi = n.lo /\ ~c.alloc
    BY <1>8, <1>18
  <2> DEFINE k == removeFreeBlock(h, c.lo)
             m == MB!Block(c.lo, n.hi, FALSE)
             size == (n.hi - n.lo) + (c.hi - c.lo)
             D == {c, n}
  <2>2. GET_SIZE(h, HDRP(c.lo)) = c.hi - c.lo /\ PREV_BLKP(h, n.lo) = c.lo
    BY <1>1, <2>1, BlockReads
  <2>3. r = Joined(k, c.lo, size)
    BY <1>7, <1>18, <2>1, <2>2 DEF coalesce
  <2>4. c.lo \in F /\ F \ {c.lo} = FreePointers(B) \ Pointers(D) /\ c # n
    BY <1>1, <1>3, <1>6, <2>1 DEF FreePointers, Pointers, F
  <2>5. /\ Holds(k, B, FreePointers(B) \ Pointers(D)) /\ k.brk = h.brk /\ Ended(k)
        /\ \A b \in B : b.alloc => Keeps(h, k, PayloadWords(b))
    BY <1>1, <1>9, <2>4, UnlinkFree
  <2>6. Fills(B, D, m)
    <3>1. m \in BlockType /\ m.lo = c.lo /\ m.hi = n.hi
      BY <1>1, <1>3, <2>1 DEF MB!Block, BlockType
    <3> HIDE DEF m
    <3>2. \A b \in B \ D : b.hi <= m.lo \/ m.hi <= b.lo
      BY <1>1, <1>3, <1>4, <2>1, <3>1
    <3> QED
      BY <1>1, <1>3, <2>1, <3>1, <3>2 DEF Fills
  <2>7. /\ MB!FreeBefore(B \ {n}, n) = {c} /\ MB!MergedLo(B \ {n}, n) = c.lo
        /\ MB!FreeAfter(B \ {n}, n) = {} /\ MB!MergedHi(B \ {n}, n) = n.hi
    BY <1>18, <1>13, <1>14, <2>1
  <2>8. /\ n \in D /\ ~m.alloc /\ (\A b \in D : ~b.alloc) /\ m.lo = c.lo /\ m.hi = n.hi
        /\ MergesInto(B, n, D, m) /\ size = m.hi - m.lo
    <3>1. ~m.alloc /\ m.lo = c.lo /\ m.hi = n.hi
      BY DEF MB!Block
    <3>2. n \in D /\ (\A b \in D : ~b.alloc) /\ {c} \cup {} = D \ {n}
      BY <1>1, <2>1, <2>4
    <3>3. size = n.hi - c.lo
      BY <1>1, <1>3, <2>1
    <3> HIDE DEF m, D, size
    <3>4. MergesInto(B, n, D, m)
      BY <2>7, <3>1, <3>2 DEF MergesInto
    <3> QED
      BY <3>1, <3>2, <3>3, <3>4
  <2> HIDE DEF D, m, size, k
  <2>9. Coalesced(h, B, n, Joined(k, m.lo, size))
    BY <2>5, <2>6, <2>7, <2>8, JoinCoalesces
  <2> QED
    BY <2>3, <2>8, <2>9
<1>19. CASE ~PrevAlloc(h, n.lo) /\ ~NextAlloc(h, n.lo)
  <2>1. PICK c \in B : c.hi = n.lo /\ ~c.alloc
    BY <1>8, <1>19
  <2>2. PICK d \in B : d.lo = n.hi /\ ~d.alloc
    BY <1>8, <1>19
  <2> DEFINE j == removeFreeBlock(h, c.lo)
             k == removeFreeBlock(j, d.lo)
             m == MB!Block(c.lo, d.hi, FALSE)
             size == (n.hi - n.lo) + (c.hi - c.lo) + (d.hi - d.lo)
             D == {c, n, d}
             G == F \ {c.lo}
  <2>3. /\ GET_SIZE(h, HDRP(c.lo)) = c.hi - c.lo /\ PREV_BLKP(h, n.lo) = c.lo
        /\ GET_SIZE(h, HDRP(d.lo)) = d.hi - d.lo
    BY <1>1, <2>1, <2>2, BlockReads
  <2>4. /\ c.lo \in F /\ d.lo \in G /\ G \ {d.lo} = FreePointers(B) \ Pointers(D) /\ c # n /\ d # n /\ c # d
    BY <1>1, <1>3, <1>6, <2>1, <2>2 DEF FreePointers, Pointers, F
  <2>5. /\ Holds(j, B, G) /\ j.brk = h.brk /\ Ended(j)
        /\ \A b \in B : b.alloc => Keeps(h, j, PayloadWords(b))
    BY <1>1, <1>9, <2>4, UnlinkFree
  <2> HIDE DEF j
  <2>6. /\ Holds(k, B, G \ {d.lo}) /\ k.brk = h.brk /\ Ended(k)
        /\ \A b \in B : b.alloc => Keeps(j, k, PayloadWords(b))
    BY <1>1, <1>9, <2>4, <2>5, UnlinkFree
  <2> HIDE DEF k
  <2>7. \A b \in B : b.alloc => Keeps(h, k, PayloadWords(b))
    BY <2>5, <2>6, KeepsTrans
  <2>8. NEXT_BLKP(j, n.lo) = d.lo
    BY <1>1, <2>2, <2>5, BlockReads
  <2>9. PREV_BLKP(k, n.lo) = c.lo
    BY <1>1, <2>1, <2>6, BlockReads
  <2>10. r = Joined(k, c.lo, size)
    <3>1. GET_SIZE(h, HDRP(PREV_BLKP(h, n.lo))) = c.hi - c.lo
      BY <2>3
    <3>2. GET_SIZE(h, HDRP(NEXT_BLKP(h, n.lo))) = d.hi - d.lo
      BY <1>7, <2>2, <2>3
    <3>3. removeFreeBlock(h, PREV_BLKP(h, n.lo)) = j
      BY <2>3 DEF j
    <3>4. WithoutNext(j, n.lo) = k
      BY <2>8 DEF WithoutNext, k
    <3>5. r = JoinedToPrev(k, n.lo, size)
      BY <1>7, <1>19, <3>1, <3>2, <3>3, <3>4 DEF coalesce
    <3> QED
      BY <2>9, <3>5 DEF JoinedToPrev
  <2>11. Fills(B, D, m)
    <3>1. m \in BlockType /\ m.lo = c.lo /\ m.hi = d.hi
      BY <1>1, <1>3, <2>1 DEF MB!Block, BlockType
    <3> HIDE DEF m
    <3>2. \A b \in B \ D : b.hi <= m.lo \/ m.hi <= b.lo
      BY <1>1, <1>3, <1>4, <2>1, <2>2, <3>1
    <3> QED
      BY <1>1, <1>3, <2>1, <2>2, <3>1, <3>2 DEF Fills
  <2>12. /\ MB!FreeBefore(B \ {n}, n) = {c} /\ MB!MergedLo(B \ {n}, n) = c.lo
         /\ MB!FreeAfter(B \ {n}, n) = {d} /\ MB!MergedHi(B \ {n}, n) = d.hi
    BY <1>14, <1>15, <2>1, <2>2
  <2>13. /\ n \in D /\ ~m.alloc /\ (\A b \in D : ~b.alloc) /\ m.lo = c.lo /\ m.hi = d.hi
         /\ MergesInto(B, n, D, m) /\ size = m.hi - m.lo
    <3>1. ~m.alloc /\ m.lo = c.lo /\ m.hi = d.hi
      BY DEF MB!Block
    <3>2. n \in D /\ (\A b \in D : ~b.alloc) /\ {c} \cup {d} = D \ {n}
      BY <1>1, <2>1, <2>2, <2>4
    <3>3. size = d.hi - c.lo
      BY <1>1, <1>3, <2>1, <2>2
    <3> HIDE DEF m, D, size
    <3>4. MergesInto(B, n, D, m)
      BY <2>12, <3>1, <3>2 DEF MergesInto
    <3> QED
      BY <3>1, <3>2, <3>3, <3>4
  <2>14. Holds(k, B, FreePointers(B) \ Pointers(D))
    BY <2>4, <2>6
  <2> HIDE DEF D, m, size, G
  <2>15. Coalesced(h, B, n, Joined(k, m.lo, size))
    BY <2>6, <2>7, <2>11, <2>12, <2>13, <2>14, JoinCoalesces
  <2> QED
    BY <2>10, <2>13, <2>15
<1> QED
  BY <1>16, <1>17, <1>18, <1>19

-----------------------------------------------------------------------------
(* mm_free                                                                    *)

(* The blocks A that were in use are in C, and their payloads as they were.   *)
Carries(h, A, k, C) ==
    \A b \in A : b.alloc => b \in C /\ Keeps(h, k, PayloadWords(b))

(* Payloads carried through two calls.                                        *)
LEMMA CarriesTrans ==
    ASSUME NEW h, NEW A, NEW k, NEW C, NEW m, NEW D, Carries(h, A, k, C), Carries(k, C, m, D)
    PROVE  Carries(h, A, m, D)
<1> SUFFICES ASSUME NEW b \in A, b.alloc
             PROVE  b \in D /\ Keeps(h, m, PayloadWords(b))
  BY DEF Carries
<1>1. b \in C /\ Keeps(h, k, PayloadWords(b))
  BY DEF Carries
<1>2. b \in D /\ Keeps(k, m, PayloadWords(b))
  BY <1>1 DEF Carries
<1> QED
  BY <1>1, <1>2, KeepsTrans

(* Settled with C, from a heap whose blocks in use were among A.              *)
Reaches(h, A, k, C) == Settled(k, C) /\ Carries(h, A, k, C)

(* coalesce, stated so.                                                       *)
LEMMA CoalesceReaches ==
    ASSUME NEW h, NEW B, NEW n, Awaits(h, B, n), NEW A, A = B \ {n}
    PROVE  LET r == coalesce(h, n.lo)
           IN  /\ Reaches(h, A, r.heap, MB!Coalesce(A, n)) /\ r.heap.brk = h.brk
               /\ r.ptr = MB!MergedLo(A, n)
               /\ r.ptr = MB!Merged(A, n).lo
               /\ MB!Merged(A, n) \in MB!Coalesce(A, n)
<1> DEFINE r == coalesce(h, n.lo)
<1>1. Coalesced(h, B, n, r)
  BY Coalesces
<1> HIDE DEF r
<1>2. /\ SettledFrom(h, B, r.heap, MB!Coalesce(A, n))
      /\ r.ptr = MB!MergedLo(A, n)
      /\ r.ptr = MB!Merged(A, n).lo
      /\ MB!Merged(A, n) \in MB!Coalesce(A, n)
  BY <1>1 DEF Coalesced
<1>3. Reaches(h, A, r.heap, MB!Coalesce(A, n)) /\ r.heap.brk = h.brk
  BY <1>2 DEF SettledFrom, Reaches, Carries
<1> QED
  BY <1>2, <1>3 DEF r

(* A block of B with another mark.                                            *)
Remarks(B, b, n, C) ==
    b \in B /\ n \in BlockType /\ n.lo = b.lo /\ n.hi = b.hi /\ C = (B \ {b}) \cup {n}

(* A block that only changes its allocated bit leaves the tiling as it was.   *)
LEMMA Remarked ==
    ASSUME NEW B, NEW top \in Nat, Apart(B, top), NEW b, NEW n, NEW C, Remarks(B, b, n, C)
    PROVE  /\ Apart(C, top)
           /\ Covers(B, top) => Covers(C, top)
<1>0. b \in B /\ n \in BlockType /\ n.lo = b.lo /\ n.hi = b.hi /\ C = (B \ {b}) \cup {n}
  BY DEF Remarks
<1> DEFINE D == {b}
<1>1. /\ \A c \in B : c.lo \in Nat /\ c.hi \in Nat /\ c.lo + 4 <= c.hi
      /\ \A c \in B : c = b \/ c.hi <= b.lo \/ b.hi <= c.lo
  BY <1>0 DEF Apart, BlockType
<1>2. Fills(B, D, n)
  BY <1>0, <1>1 DEF Fills
<1>3. C = (B \ D) \cup {n}
  BY <1>0
<1> HIDE DEF D
<1> QED
  BY <1>2, <1>3, FilledApart, FilledCovers

(* mm_free of a block in use.                                                 *)
LEMMA FreeReaches ==
    ASSUME NEW h, NEW B, Settled(h, B), NEW b \in B, b.alloc
    PROVE  LET k == mm_free(h, b.lo)
           IN  Reaches(h, B \ {b}, k, MB!Release(B, b)) /\ k.brk = h.brk
<1> DEFINE n == MB!Block(b.lo, b.hi, FALSE)
           A == B \ {b}
           C == A \cup {n}
           F == FreePointers(B)
           j == PutTags(h, n.lo, n.hi - n.lo, Bit(n))
           k == mm_free(h, b.lo)
<1>1. /\ Holds(h, B, F) /\ Ended(h) /\ Covers(B, h.brk) /\ Apart(B, h.brk) /\ h.brk \in Nat
      /\ h.brk <= Limit
  BY HoldsFacts DEF Settled
<1>2. b \in BlockType /\ b.lo # NULL
  BY <1>1, BlockFacts, LinkPtrFacts
<1>3. n \in BlockType /\ n.lo = b.lo /\ n.hi = b.hi /\ ~n.alloc /\ Bit(n) = 0
  BY <1>2 DEF MB!Block, BlockType, Bit
<1>4. k = coalesce(j, n.lo).heap
  <2>1. GET_SIZE(h, HDRP(b.lo)) = b.hi - b.lo
    BY <1>1, BlockReads
  <2> QED
    BY <1>2, <1>3, <2>1 DEF mm_free
<1>5. MB!Release(B, b) = MB!Coalesce(A, n)
  BY DEF MB!Release
<1> HIDE DEF n
<1>6. n \notin B
  BY <1>1, <1>3, UniquePointer
<1>7. Apart(C, h.brk) /\ Covers(C, h.brk)
  <2>1. Remarks(B, b, n, C)
    BY <1>3 DEF Remarks
  <2> QED
    BY <1>1, <2>1, Remarked
<1>8. F = FreePointers(C) \ {n.lo}
  <2>1. \A c \in B : c.lo = b.lo => c = b
    BY <1>1, UniquePointer
  <2> QED
    BY <1>3, <2>1 DEF FreePointers
<1>9. n \in C /\ C \ {n} \subseteq B /\ C \ {n} = A
  BY <1>6
<1>10. F \subseteq Pointers(C)
  BY <1>8 DEF FreePointers, Pointers
<1>11. \A c \in A : c \in C
  OBVIOUS
<1> HIDE DEF C, F
<1>12. /\ Holds(j, C, F) /\ j.brk = h.brk /\ Ended(j)
       /\ \A c \in C : Keeps(h, j, PayloadWords(c))
  <2>1. /\ Holds(h, B, F) /\ Ended(h) /\ Apart(C, h.brk) /\ n \in C /\ C \ {n} \subseteq B
        /\ F \subseteq Pointers(C)
    BY <1>1, <1>7, <1>9, <1>10
  <2> QED
    BY <2>1, Retag
<1> HIDE DEF j, k, A
<1>13. Awaits(j, C, n)
  BY <1>3, <1>7, <1>8, <1>9, <1>12 DEF Awaits
<1> DEFINE r == coalesce(j, n.lo)
<1>14. Reaches(j, A, r.heap, MB!Coalesce(A, n)) /\ r.heap.brk = j.brk
  BY <1>9, <1>13, CoalesceReaches
<1> HIDE DEF r
<1>15. Carries(h, A, j, A)
  BY <1>11, <1>12 DEF Carries
<1>16. Carries(h, A, r.heap, MB!Coalesce(A, n))
  BY <1>14, <1>15, CarriesTrans DEF Reaches
<1>17. Reaches(h, A, k, MB!Release(B, b)) /\ k.brk = h.brk
  BY <1>4, <1>5, <1>12, <1>14, <1>16 DEF Reaches, r
<1> QED
  BY <1>17 DEF k, A

-----------------------------------------------------------------------------
(* find_fit                                                                   *)

Fitted(h, B, asize, r) ==
    /\ r.heap = h
    /\ r.ptr = NULL => MB!Fits(B, asize) = {}
    /\ r.ptr # NULL => \E f \in MB!Fits(B, asize) : r.ptr = f.lo

(* find_fit answers a free block of the size asked for, or NULL when the heap *)
(* has none.                                                                  *)
LEMMA FindFit ==
    ASSUME NEW h, NEW B, Settled(h, B), NEW asize \in Nat
    PROVE  Fitted(h, B, asize, find_fit(h, asize))
<1> DEFINE F == FreePointers(B)
           node == FreeListNode(h)
           Stops(n) == \/ GET_ALLOC(h, HDRP(node[n])) = 1
                       \/ asize <= GET_SIZE(h, HDRP(node[n]))
           First(n) == Stops(n) /\ \A m \in 0 .. (n - 1) : ~Stops(m)
           n0 == CHOOSE n \in 0 .. ScanBound : First(n)
           r == find_fit(h, asize)
           St == {n \in 0 .. ScanBound : Stops(n)}
<1>1. /\ Holds(h, B, F) /\ Linked(h, F) /\ Tagged(h, B)
      /\ \A b \in B : b.lo # NULL
  BY HoldsFacts, LinkPtrFacts DEF Settled, Holds
<1>2. PICK N : ListRuns(h, F, N)
  BY <1>1, ListWalk
<1>3. /\ N \in 0 .. ScanBound /\ node[N] = Prologue
      /\ \A m \in 0 .. (N - 1) : node[m] \in F
      /\ \A x \in F : \E m \in 0 .. (N - 1) : node[m] = x
  BY <1>2 DEF ListRuns
<1>4. ScanBound \in Nat
  BY ScanNodes
<1>5. GET_ALLOC(h, HDRP(Prologue)) = 1
  <2>1. HDRP(Prologue) = Base + 1
    BY ArenaBounds DEF HDRP, WSIZE
  <2>2. GET(h, HDRP(Prologue)) = 7
    BY <1>1, <2>1 DEF Tagged, MINIMUM
  <2> QED
    BY <2>2 DEF GET_ALLOC
<1>6. ASSUME NEW m \in 0 .. (N - 1)
      PROVE  \E f \in B : /\ ~f.alloc /\ node[m] = f.lo
                          /\ GET_ALLOC(h, HDRP(node[m])) = 0
                          /\ GET_SIZE(h, HDRP(node[m])) = f.hi - f.lo
  <2>1. PICK f \in B : ~f.alloc /\ node[m] = f.lo
    BY <1>3 DEF FreePointers
  <2>2. GET_ALLOC(h, HDRP(f.lo)) = Bit(f) /\ GET_SIZE(h, HDRP(f.lo)) = f.hi - f.lo
    BY <1>1, BlockReads
  <2> QED
    BY <2>1, <2>2 DEF Bit
<1>7. Stops(N)
  BY <1>3, <1>5
<1>8. r = IF \A n \in 0 .. ScanBound : ~Stops(n)
          THEN [heap |-> [h EXCEPT !.status = "crashed"], ptr |-> NULL]
          ELSE [heap |-> h, ptr |-> IF GET_ALLOC(h, HDRP(node[n0])) = 1 THEN NULL ELSE node[n0]]
  BY DEF find_fit
<1> HIDE DEF Stops, F
<1>9. \E n \in 0 .. ScanBound : First(n)
  <2>1. St \subseteq Nat /\ St # {}
    BY <1>3, <1>4, <1>7
  <2>2. PICK n \in St : \A m \in St : n <= m
    BY <2>1, LeastNumber
  <2>3. ASSUME NEW m \in 0 .. (n - 1)
        PROVE  ~Stops(m)
    <3>1. m \in 0 .. ScanBound /\ ~(n <= m) 
      BY <1>4, <2>2
    <3> QED
      BY <2>2, <3>1
  <2> QED
    BY <2>2, <2>3
<1>10. n0 \in 0 .. ScanBound /\ First(n0)
  BY <1>9
<1> HIDE DEF n0
<1>11. n0 <= N
  <2> SUFFICES ASSUME ~(n0 <= N) PROVE FALSE
    OBVIOUS
  <2>1. N \in 0 .. (n0 - 1)
    BY <1>3, <1>4, <1>10
  <2> QED
    BY <1>7, <1>10, <2>1
<1>12. r = [heap |-> h, ptr |-> IF GET_ALLOC(h, HDRP(node[n0])) = 1 THEN NULL ELSE node[n0]]
  BY <1>8, <1>10
<1> HIDE DEF r
<1>13. CASE n0 = N
  <2>1. r.heap = h /\ r.ptr = NULL
    BY <1>3, <1>5, <1>12, <1>13
  <2>2. ASSUME NEW f \in B, ~f.alloc, f.hi - f.lo >= asize
        PROVE  FALSE
    <3>1. f.lo \in F
      BY <2>2 DEF FreePointers, F
    <3>2. PICK m \in 0 .. (N - 1) : node[m] = f.lo
      BY <1>3, <3>1
    <3>3. GET_SIZE(h, HDRP(f.lo)) = f.hi - f.lo
      BY <1>1, BlockReads
    <3>4. f.hi \in Nat /\ f.lo \in Nat
      BY <1>1, HoldsFacts, BlockFacts
    <3>5. Stops(m)
      BY <2>2, <3>2, <3>3, <3>4 DEF Stops
    <3> QED
      BY <1>10, <1>13, <3>2, <3>5
  <2>3. MB!Fits(B, asize) = {}
    BY <2>2 DEF MB!Fits, MB!Size
  <2> QED
    BY <2>1, <2>3 DEF Fitted, r
<1>14. CASE n0 # N
  <2>1. n0 \in 0 .. (N - 1)
    BY <1>3, <1>4, <1>10, <1>11, <1>14
  <2>2. PICK f \in B : /\ ~f.alloc /\ node[n0] = f.lo
                       /\ GET_ALLOC(h, HDRP(node[n0])) = 0
                       /\ GET_SIZE(h, HDRP(node[n0])) = f.hi - f.lo
    BY <1>6, <2>1
  <2>3. asize <= f.hi - f.lo
    BY <1>10, <2>2 DEF Stops
  <2>4. f.hi \in Nat /\ f.lo \in Nat
    BY <1>1, HoldsFacts, BlockFacts
  <2>5. f \in MB!Fits(B, asize)
    BY <2>2, <2>3, <2>4 DEF MB!Fits, MB!Size
  <2>6. r.heap = h /\ r.ptr = f.lo /\ f.lo # NULL
    BY <1>1, <1>12, <2>2
  <2> QED
    BY <2>5, <2>6 DEF Fitted, r
<1> QED
  BY <1>13, <1>14

(* The parameters, as the module of the blocks names them.                    *)
LEMMA SameParams ==
    /\ MB!MINIMUM = MINIMUM /\ MB!DSIZE = DSIZE /\ MB!NULL = NULL
    /\ MB!Limit = Limit /\ MB!FirstBlock = FirstBlock /\ MB!NoBlock = NoBlock
    /\ \A size : MB!AdjustedSize(size) = AdjustedSize(size)
  BY DEF MB!MINIMUM, MINIMUM, MB!DSIZE, DSIZE, MB!NULL, NULL, MB!Limit, Limit,
         MB!FirstBlock, FirstBlock, MB!NoBlock, NoBlock, MB!AdjustedSize, AdjustedSize,
         MB!MAX, MAX, MB!ALIGN, ALIGN

-----------------------------------------------------------------------------
(* place                                                                      *)

(* The block f in two.                                                        *)
SplitsInto(f, front, rest) ==
    /\ front \in BlockType /\ rest \in BlockType
    /\ front.lo = f.lo /\ front.hi = rest.lo /\ rest.hi = f.hi
    /\ front.lo + 4 <= front.hi /\ rest.lo + 4 <= rest.hi
    /\ Even(front.hi)

(* A block split in two leaves blocks apart and no gap.                       *)
LEMMA SplitBlocks ==
    ASSUME NEW B, NEW top \in Nat, Apart(B, top), NEW f \in B, NEW front, NEW rest,
           SplitsInto(f, front, rest),
           NEW C, C = (B \ {f}) \cup {front}, NEW D, D = C \cup {rest}
    PROVE  /\ Apart(C, top) /\ Apart(D, top)
           /\ Covers(B, top) => Covers(D, top)
           /\ rest \notin C
<1>1. \A b \in B : /\ b \in BlockType /\ b.lo \in Nat /\ b.hi \in Nat
                   /\ FirstBlock <= b.lo /\ b.lo + 4 <= b.hi /\ b.hi <= top
                   /\ Even(b.lo) /\ Even(b.hi)
                   /\ (b = f \/ b.hi <= f.lo \/ f.hi <= b.lo)
  BY DEF Apart, BlockType
<1>2. /\ front \in BlockType /\ rest \in BlockType
      /\ front.lo \in Nat /\ front.hi \in Nat /\ rest.lo \in Nat /\ rest.hi \in Nat
      /\ front.lo = f.lo /\ front.hi = rest.lo /\ rest.hi = f.hi
      /\ front.lo + 4 <= front.hi /\ rest.lo + 4 <= rest.hi
      /\ Even(front.hi)
  BY DEF SplitsInto, BlockType
<1>3. \A b, c \in B : b = c \/ b.hi <= c.lo \/ c.hi <= b.lo
  BY DEF Apart
<1>4. /\ FirstBlock \in Nat
  BY ArenaBounds
<1>5. \A b \in D : /\ b \in BlockType /\ FirstBlock <= b.lo /\ b.lo + 4 <= b.hi /\ b.hi <= top
                   /\ Even(b.lo) /\ Even(b.hi)
  <2>1. /\ FirstBlock <= front.lo /\ front.hi <= top /\ FirstBlock <= rest.lo /\ rest.hi <= top
        /\ Even(front.lo) /\ Even(rest.lo) /\ Even(rest.hi)
    BY <1>1, <1>2, <1>4
  <2> QED
    BY <1>1, <1>2, <2>1
<1>6. \A b \in B \ {f} : /\ b.hi <= front.lo \/ front.hi <= b.lo
                         /\ b.hi <= rest.lo \/ rest.hi <= b.lo
  BY <1>1, <1>2
<1>7. \A b, c \in D : b = c \/ b.hi <= c.lo \/ c.hi <= b.lo
  <2>1. front.hi <= rest.lo
    BY <1>2
  <2> QED
    BY <1>3, <1>6, <2>1
<1>8. Apart(D, top)
  BY <1>5, <1>7 DEF Apart
<1>9. Apart(C, top)
  BY <1>5, <1>7 DEF Apart
<1>10. rest \notin C
  <2>1. rest # front
    BY <1>2
  <2>2. rest \notin B \ {f}
    BY <1>1, <1>2, <1>6
  <2> QED
    BY <2>1, <2>2
<1>11. ASSUME Covers(B, top)
       PROVE  Covers(D, top)
  <2>1. top # FirstBlock => (\E b \in D : b.lo = FirstBlock) /\ (\E b \in D : b.hi = top)
    BY <1>2, <1>11 DEF Covers
  <2>2. ASSUME NEW b \in D
        PROVE  b.lo = FirstBlock \/ \E c \in D : c.hi = b.lo
    <3>1. CASE b = rest
      BY <1>2, <3>1
    <3>2. ASSUME NEW x \in B, x.lo = b.lo
          PROVE  b.lo = FirstBlock \/ \E c \in D : c.hi = b.lo
      <4>1. x.lo = FirstBlock \/ \E c \in B : c.hi = x.lo
        BY <1>11 DEF Covers
      <4> QED
        BY <1>2, <3>2, <4>1
    <3>3. CASE b \in C
      BY <1>2, <3>2, <3>3
    <3> QED
      BY <3>1, <3>3
  <2>3. ASSUME NEW b \in D
        PROVE  b.hi = top \/ \E c \in D : c.lo = b.hi
    <3>1. CASE b = front
      BY <1>2, <3>1
    <3>2. ASSUME NEW x \in B, x.hi = b.hi
          PROVE  b.hi = top \/ \E c \in D : c.lo = b.hi
      <4>1. x.hi = top \/ \E c \in B : c.lo = x.hi
        BY <1>11 DEF Covers
      <4> QED
        BY <1>2, <3>2, <4>1
    <3>3. CASE b # front
      BY <1>2, <3>2, <3>3
    <3> QED
      BY <3>1, <3>3
  <2> QED
    BY <2>1, <2>2, <2>3 DEF Covers
<1> QED
  BY <1>8, <1>9, <1>10, <1>11

(* The tags of g are to be written over those of B, which makes them C.       *)
Retags(h, B, F, C, g) ==
    /\ Holds(h, B, F) /\ Ended(h)
    /\ Apart(C, h.brk) /\ g \in C /\ C \ {g} \subseteq B
    /\ F \subseteq Pointers(C)

(* Writing the tags of the block g that takes the place of others.            *)
LEMMA Retagged ==
    ASSUME NEW h, NEW B, NEW F, NEW C, NEW g, Retags(h, B, F, C, g)
    PROVE  LET k == PutTags(h, g.lo, g.hi - g.lo, Bit(g))
           IN  /\ Holds(k, C, F) /\ k.brk = h.brk /\ Ended(k)
               /\ \A b \in C : Keeps(h, k, PayloadWords(b))
  BY Retag DEF Retags

(* The front g of the free block f is taken: its tags are written, and f      *)
(* leaves the list.                                                           *)
LEMMA TakeFrontHolds ==
    ASSUME NEW h, NEW B, Settled(h, B), NEW f \in B, ~f.alloc, NEW asize \in Nat,
           NEW g \in BlockType, g.lo = f.lo, g.hi = g.lo + asize, g.alloc,
           NEW C, C = (B \ {f}) \cup {g}, Apart(C, h.brk)
    PROVE  LET k == TakeFront(h, f.lo, asize)
           IN  /\ Holds(k, C, FreePointers(C)) /\ Ended(k) /\ k.brk = h.brk
               /\ Carries(h, B, k, C)
<1> DEFINE F == FreePointers(B)
           j == PutTags(h, g.lo, g.hi - g.lo, Bit(g))
           k == removeFreeBlock(j, f.lo)
           p == f.lo
<1>1. /\ Holds(h, B, F) /\ Ended(h) /\ Apart(B, h.brk) /\ h.brk \in Nat /\ h.brk <= Limit
  BY HoldsFacts DEF Settled
<1>2. \A b, c \in B : b.lo = c.lo => b = c
  BY <1>1, UniquePointer
<1>3. p \in F /\ F \subseteq Pointers(C)
  BY DEF FreePointers, Pointers
<1>4. F \ {p} = FreePointers(C)
  BY <1>2 DEF FreePointers
<1>5. g \in C /\ C \ {g} \subseteq B
  OBVIOUS
<1>6. \A b \in B : b.alloc => b \in C /\ b.lo \notin F \ {p}
  BY <1>2 DEF FreePointers
<1>7. TakeFront(h, f.lo, asize) = k
  <2>1. Bit(g) = 1 /\ g.hi - g.lo = asize
    BY DEF Bit, BlockType
  <2> QED
    BY <2>1 DEF TakeFront
<1> HIDE DEF F, p
<1>8. /\ Holds(j, C, F) /\ j.brk = h.brk /\ Ended(j)
      /\ \A b \in C : Keeps(h, j, PayloadWords(b))
  <2>1. /\ Holds(h, B, F) /\ Ended(h) /\ Apart(C, h.brk) /\ g \in C /\ C \ {g} \subseteq B
        /\ F \subseteq Pointers(C)
    BY <1>1, <1>3, <1>5
  <2>2. Retags(h, B, F, C, g)
    BY <2>1 DEF Retags
  <2> QED
    BY <2>2, Retagged
<1> HIDE DEF j
<1>9. /\ Holds(k, C, F \ {p}) /\ k.brk = j.brk
      /\ Ended(j) => Ended(k)
      /\ \A b \in C : b.lo \notin F \ {p} => Keeps(j, k, PayloadWords(b))
  <2>1. k = removeFreeBlock(j, p)
    BY DEF p
  <2> HIDE DEF k
  <2>2. /\ Holds(removeFreeBlock(j, p), C, F \ {p}) /\ removeFreeBlock(j, p).brk = j.brk
        /\ Ended(j) => Ended(removeFreeBlock(j, p))
        /\ \A b \in C : b.lo \notin F \ {p} => Keeps(j, removeFreeBlock(j, p), PayloadWords(b))
    BY <1>3, <1>8, UnlinkHolds
  <2> QED
    BY <2>1, <2>2
<1> HIDE DEF k
<1>10. Carries(h, B, k, C)
  BY <1>6, <1>8, <1>9, KeepsTrans DEF Carries
<1> QED
  BY <1>4, <1>7, <1>8, <1>9, <1>10

(* The rest of it, up to the end of f, becomes a free block.                  *)
LEMMA FreeRestReaches ==
    ASSUME NEW h, NEW C, Holds(h, C, FreePointers(C)), Ended(h), NEW g \in C,
           NEW rest \in BlockType, ~rest.alloc, rest.lo = g.hi,
           NEW D, D = C \cup {rest}, Apart(D, h.brk), Covers(D, h.brk), rest \notin C,
           NEW size, size = rest.hi - rest.lo
    PROVE  LET k == FreeRest(h, g.lo, size)
           IN  Reaches(h, C, k, MB!Coalesce(C, rest)) /\ k.brk = h.brk
<1> DEFINE F == FreePointers(C)
           j == PutTags(h, rest.lo, rest.hi - rest.lo, Bit(rest))
           r == coalesce(j, rest.lo)
<1>1. h.brk \in Nat
  BY HoldsFacts
<1>2. FreeRest(h, g.lo, size) = r.heap
  <2>1. NEXT_BLKP(h, g.lo) = rest.lo
    BY BlockReads
  <2> QED
    BY <2>1 DEF FreeRest, Bit
<1>3. rest \in D /\ D \ {rest} \subseteq C /\ C = D \ {rest}
  OBVIOUS
<1>4. F = FreePointers(D) \ {rest.lo}
  <2>1. \A b \in C : b.lo # rest.lo
    BY <1>1, UniquePointer
  <2> QED
    BY <2>1 DEF FreePointers
<1>5. F \subseteq Pointers(D)
  BY <1>4 DEF FreePointers, Pointers
<1>6. \A b \in C : b \in D
  OBVIOUS
<1> HIDE DEF F
<1>7. /\ Holds(j, D, F) /\ j.brk = h.brk /\ Ended(j)
      /\ \A b \in D : Keeps(h, j, PayloadWords(b))
  <2>1. /\ Holds(h, C, F) /\ Ended(h) /\ Apart(D, h.brk) /\ rest \in D /\ D \ {rest} \subseteq C
        /\ F \subseteq Pointers(D)
    BY <1>3, <1>5 DEF F
  <2>2. Retags(h, C, F, D, rest)
    BY <2>1 DEF Retags
  <2> QED
    BY <2>2, Retagged
<1> HIDE DEF j
<1>8. Awaits(j, D, rest)
  BY <1>3, <1>4, <1>7 DEF Awaits
<1>9. Reaches(j, C, r.heap, MB!Coalesce(C, rest)) /\ r.heap.brk = j.brk
  BY <1>3, <1>8, CoalesceReaches
<1> HIDE DEF r
<1>10. Carries(h, C, j, C)
  BY <1>6, <1>7 DEF Carries
<1>11. Carries(h, C, r.heap, MB!Coalesce(C, rest))
  BY <1>9, <1>10, CarriesTrans DEF Reaches
<1> QED
  BY <1>2, <1>7, <1>9, <1>11 DEF Reaches

(* An allocated block of C serves a request for asize at p.                   *)
Serves(C, p, asize) == \E g \in C : g.alloc /\ g.lo = p /\ asize <= g.hi - g.lo

(* place, on a free block that is large enough, is Place of module MmBlocks.  *)
LEMMA PlaceReaches ==
    ASSUME NEW h, NEW B, Settled(h, B), NEW f \in B, ~f.alloc,
           NEW asize \in Nat, Even(asize), 6 <= asize, asize <= f.hi - f.lo
    PROVE  LET k == place(h, f.lo, asize)
           IN  /\ Reaches(h, B, k, MB!Place(B, f, asize)) /\ k.brk = h.brk
               /\ Serves(MB!Place(B, f, asize), f.lo, asize)
<1>1. /\ Holds(h, B, FreePointers(B)) /\ Ended(h) /\ Apart(B, h.brk) /\ h.brk \in Nat /\ h.brk <= Limit
      /\ Covers(B, h.brk)
  BY HoldsFacts DEF Settled
<1>2. /\ f.lo \in Nat /\ f.hi \in Nat /\ Even(f.lo) /\ Even(f.hi) /\ f.lo + 4 <= f.hi
  BY <1>1, BlockFacts
<1>3. GET_SIZE(h, HDRP(f.lo)) = f.hi - f.lo /\ MB!Size(f) = f.hi - f.lo
  BY <1>1, BlockReads DEF MB!Size
<1>4. CASE f.hi - f.lo - asize >= MINIMUM
  <2> DEFINE front == MB!Block(f.lo, f.lo + asize, TRUE)
             rest == MB!Block(f.lo + asize, f.hi, FALSE)
             C == (B \ {f}) \cup {front}
             D == C \cup {rest}
             j == TakeFront(h, f.lo, asize)
             size == f.hi - f.lo - asize
             k == FreeRest(j, f.lo, size)
  <2>1. /\ place(h, f.lo, asize) = k
        /\ MB!Place(B, f, asize) = MB!Coalesce(C, rest)
    <3>1. place(h, f.lo, asize) = k
      BY <1>3, <1>4 DEF place
    <3>2. MB!Size(f) - asize >= MINIMUM
      BY <1>3, <1>4
    <3>3. MB!Place(B, f, asize) = MB!Coalesce(C, rest)
      BY <3>2, SameParams DEF MB!Place
    <3> QED
      BY <3>1, <3>3
  <2>2. /\ front \in BlockType /\ front.lo = f.lo /\ front.hi = f.lo + asize /\ front.alloc
        /\ rest \in BlockType /\ rest.lo = f.lo + asize /\ rest.hi = f.hi /\ ~rest.alloc
    BY <1>2 DEF MB!Block, BlockType
  <2> HIDE DEF front, rest
  <2>3. SplitsInto(f, front, rest) /\ size = rest.hi - rest.lo
    <3>1. Even(f.lo + asize)
      BY <1>2 DEF Even
    <3>2. f.lo + 4 <= f.lo + asize /\ f.lo + asize + 4 <= f.hi /\ size = f.hi - (f.lo + asize)
      BY <1>2, <1>4 DEF MINIMUM
    <3> QED
      BY <2>2, <3>1, <3>2 DEF SplitsInto
  <2>4. Apart(C, h.brk) /\ Apart(D, h.brk) /\ Covers(D, h.brk) /\ rest \notin C
    <3>1. C = (B \ {f}) \cup {front} /\ D = C \cup {rest}
      OBVIOUS
    <3> HIDE DEF C, D
    <3> QED
      BY <1>1, <2>3, <3>1, SplitBlocks
  <2>5. /\ Holds(j, C, FreePointers(C)) /\ Ended(j) /\ j.brk = h.brk
        /\ Carries(h, B, j, C)
    <3>1. front.hi = front.lo + asize
      BY <2>2
    <3> QED
      BY <2>2, <2>4, <3>1, TakeFrontHolds
  <2>6. front \in C
    OBVIOUS
  <2> HIDE DEF C, D, size, j
  <2>7. Reaches(j, C, k, MB!Coalesce(C, rest)) /\ k.brk = j.brk
    <3>1. rest.lo = front.hi /\ D = C \cup {rest} /\ Apart(D, j.brk) /\ Covers(D, j.brk)
      BY <2>2, <2>4, <2>5 DEF D
    <3>2. /\ Reaches(j, C, FreeRest(j, front.lo, size), MB!Coalesce(C, rest))
          /\ FreeRest(j, front.lo, size).brk = j.brk
      BY <2>2, <2>3, <2>4, <2>5, <2>6, <3>1, FreeRestReaches
    <3>3. k = FreeRest(j, front.lo, size)
      BY <2>2
    <3> HIDE DEF k
    <3> QED
      BY <3>2, <3>3
  <2> HIDE DEF k
  <2>8. Carries(h, B, k, MB!Coalesce(C, rest))
    BY <2>5, <2>7, CarriesTrans DEF Reaches
  <2>9. front \in MB!Coalesce(C, rest)
    BY <2>2, <2>6, <2>7 DEF Reaches, Carries
  <2>10. Serves(MB!Coalesce(C, rest), f.lo, asize)
    <3>1. asize <= front.hi - front.lo
      BY <1>2, <2>2
    <3> QED
      BY <2>2, <2>9, <3>1 DEF Serves
  <2> QED
    BY <2>1, <2>5, <2>7, <2>8, <2>10 DEF Reaches
<1>5. CASE ~(f.hi - f.lo - asize >= MINIMUM)
  <2> DEFINE g == MB!Block(f.lo, f.hi, TRUE)
             C == (B \ {f}) \cup {g}
             size == f.hi - f.lo
             k == TakeFront(h, f.lo, size)
  <2>1. /\ place(h, f.lo, asize) = k
        /\ MB!Place(B, f, asize) = C
    <3>1. place(h, f.lo, asize) = k
      BY <1>3, <1>5 DEF place
    <3>2. ~(MB!Size(f) - asize >= MINIMUM)
      BY <1>3, <1>5
    <3>3. MB!Place(B, f, asize) = C
      BY <3>2, SameParams DEF MB!Place
    <3> QED
      BY <3>1, <3>3
  <2>2. /\ g \in BlockType /\ g.lo = f.lo /\ g.hi = f.hi /\ g.alloc
        /\ size \in Nat /\ g.hi = g.lo + size
    BY <1>2 DEF MB!Block, BlockType
  <2> HIDE DEF g, size
  <2>3. Apart(C, h.brk) /\ Covers(C, h.brk)
    <3>1. Remarks(B, f, g, C)
      BY <2>2 DEF Remarks
    <3> HIDE DEF C
    <3> QED
      BY <1>1, <3>1, Remarked
  <2>4. /\ Holds(k, C, FreePointers(C)) /\ Ended(k) /\ k.brk = h.brk
        /\ Carries(h, B, k, C)
    BY <2>2, <2>3, TakeFrontHolds
  <2>5. Serves(C, f.lo, asize)
    BY <2>2 DEF Serves
  <2> HIDE DEF k, C
  <2> QED
    BY <2>1, <2>3, <2>4, <2>5 DEF Reaches, Settled
<1> QED
  BY <1>4, <1>5

-----------------------------------------------------------------------------
(* extend_heap                                                                *)

(* The break moved up by mem_sbrk: the words and blocks stay.                 *)
LEMMA SbrkHolds ==
    ASSUME NEW h, NEW B, NEW F, Holds(h, B, F), NEW asize \in Nat, Even(asize),
           h.brk + asize <= Limit
    PROVE  LET k == mem_sbrk(h, asize)
           IN  /\ Holds(k, B, F) /\ k.brk = h.brk + asize
               /\ \A a : GET(k, a) = GET(h, a)
<1> DEFINE k == mem_sbrk(h, asize)
<1>1. /\ InUse(h) /\ Apart(B, h.brk) /\ h.brk \in Nat /\ h.brk <= Limit /\ Linked(h, F)
      /\ FirstBlock <= h.brk /\ Even(h.brk) /\ F \subseteq Pointers(B) /\ Tagged(h, B)
  BY HoldsFacts DEF Holds
<1>2. k = [h EXCEPT !.brk = h.brk + asize]
  <2>1. ~SbrkFails(h, asize)
    BY <1>1, ArenaBounds DEF SbrkFails
  <2> QED
    BY <2>1 DEF mem_sbrk
<1>3. /\ InUse(k) /\ k.brk = h.brk + asize /\ k.mem = h.mem /\ k.outside = h.outside
      /\ k.free_listp = h.free_listp
  BY <1>1, <1>2 DEF InUse
<1> HIDE DEF k
<1>4. \A a : GET(k, a) = GET(h, a)
  BY <1>3 DEF GET
<1>5. Linked(k, F)
  <2>1. PICK rank, N : Chained(h, F, rank, N)
    BY <1>1 DEF Linked
  <2>2. \A x : NEXT_FREE(k, x) = NEXT_FREE(h, x) /\ PREV_FREE(k, x) = PREV_FREE(h, x)
    BY <1>4 DEF NEXT_FREE, PREV_FREE
  <2>3. Chained(k, F, rank, N)
    BY <1>3, <2>1, <2>2 DEF Chained
  <2> QED
    BY <1>1, <2>3 DEF Linked
<1>6. Tagged(k, B)
  BY <1>1, <1>4 DEF Tagged
<1>7. Even(h.brk + asize) /\ FirstBlock <= h.brk + asize
  BY <1>1, ArenaBounds DEF Even
<1>8. Apart(B, h.brk + asize)
  <2>1. \A b \in B : b.hi <= h.brk + asize
    BY <1>1 DEF Apart, BlockType
  <2> QED
    BY <1>1, <2>1 DEF Apart
<1>9. Holds(k, B, F)
  BY <1>1, <1>3, <1>5, <1>6, <1>7, <1>8 DEF Holds
<1> QED
  BY <1>3, <1>4, <1>9 DEF k

(* The epilogue written below the break.                                      *)
LEMMA EpilogueHolds ==
    ASSUME NEW h, NEW B, NEW F, Holds(h, B, F)
    PROVE  LET k == PUT(h, h.brk - 1, 1)
           IN  /\ Holds(k, B, F) /\ Ended(k) /\ k.brk = h.brk
               /\ \A b \in B : Keeps(h, k, PayloadWords(b))
<1> DEFINE a == h.brk - 1
           S == {a}
           k == PUT(h, a, 1)
<1>1. /\ InUse(h) /\ Apart(B, h.brk) /\ h.brk \in Nat /\ h.brk <= Limit /\ Linked(h, F)
      /\ FirstBlock <= h.brk /\ Even(h.brk) /\ F \subseteq Pointers(B) /\ Tagged(h, B)
  BY HoldsFacts DEF Holds
<1>2. a \in Arena
  BY <1>1, ArenaBounds DEF Arena
<1>3. Wrote(h, k, S) /\ GET(k, a) = 1 /\ k.free_listp = h.free_listp
  <2> HIDE DEF a
  <2> QED
    BY <1>1, <1>2, PutWrites
<1> HIDE DEF k
<1>4. S \cap LinkWords(F) = {}
  BY <1>1, LinksApart
<1>5. Linked(k, F)
  BY <1>1, <1>3, <1>4, ChainKept
<1>6. InUse(k) /\ k.brk = h.brk /\ \A x : x # a => GET(k, x) = GET(h, x)
  BY <1>3 DEF Wrote
<1>7. ASSUME NEW b \in B
      PROVE  /\ b.lo - 1 # a /\ b.hi - 2 # a /\ \A x \in PayloadWords(b) : x # a
  <2>1. /\ b.lo \in Nat /\ b.hi \in Nat /\ Even(b.lo) /\ Even(b.hi) /\ b.lo + 4 <= b.hi
        /\ b.hi <= h.brk
    BY <1>1, BlockFacts
  <2>2. b.lo - 1 # a /\ \A x \in PayloadWords(b) : x # a
    BY <1>1, <2>1 DEF PayloadWords
  <2>3. b.hi - 2 # a
    BY <1>1, <2>1 DEF Even
  <2> QED
    BY <2>2, <2>3
<1>8. Base + 1 # a /\ FirstBlock - 2 # a
  BY <1>1, ArenaBounds
<1> HIDE DEF a
<1>9. Tagged(k, B)
  BY <1>1, <1>6, <1>7, <1>8 DEF Tagged
<1>10. Holds(k, B, F)
  BY <1>1, <1>5, <1>6, <1>9 DEF Holds
<1>11. Ended(k)
  BY <1>3, <1>6 DEF Ended, a
<1>12. \A b \in B : Keeps(h, k, PayloadWords(b))
  BY <1>6, <1>7 DEF Keeps
<1> QED
  BY <1>6, <1>10, <1>11, <1>12 DEF k, a

(* A free block n added at the break.                                         *)
Adds(B, top, n, C, end) ==
    /\ n \in BlockType /\ ~n.alloc /\ n.lo = top /\ n.hi = end
    /\ top + 4 <= end /\ Even(end)
    /\ C = B \cup {n}

(* A block added at the break leaves blocks apart and no gap.                 *)
LEMMA AddedBlock ==
    ASSUME NEW B, NEW top \in Nat, Apart(B, top), Covers(B, top), FirstBlock <= top, Even(top),
           NEW n, NEW C, NEW end \in Nat, Adds(B, top, n, C, end)
    PROVE  /\ Apart(C, end) /\ Covers(C, end)
           /\ n \notin B /\ B = C \ {n}
           /\ FreePointers(B) = FreePointers(C) \ {n.lo}
<1>1. /\ n \in BlockType /\ ~n.alloc /\ n.lo = top /\ n.hi = end
      /\ top + 4 <= end /\ Even(end)
      /\ C = B \cup {n}
  BY DEF Adds
<1>2. \A b \in B : /\ b \in BlockType /\ b.lo \in Nat /\ b.hi \in Nat
                   /\ FirstBlock <= b.lo /\ b.lo + 4 <= b.hi /\ b.hi <= top
                   /\ Even(b.lo) /\ Even(b.hi)
  BY DEF Apart, BlockType
<1>3. \A b, c \in B : b = c \/ b.hi <= c.lo \/ c.hi <= b.lo
  BY DEF Apart
<1>4. FirstBlock \in Nat
  BY ArenaBounds
<1>5. \A b \in B : b.hi <= n.lo /\ b.hi <= end /\ b.lo # n.lo /\ b # n
  BY <1>1, <1>2
<1>6. Apart(C, end)
  BY <1>1, <1>2, <1>3, <1>4, <1>5 DEF Apart
<1>7. B = C \ {n}
  BY <1>1, <1>5
<1>8. FreePointers(B) = FreePointers(C) \ {n.lo}
  BY <1>1, <1>5 DEF FreePointers
<1>9. Covers(C, end)
  <2>1. (\E b \in C : b.lo = FirstBlock) /\ (\E b \in C : b.hi = end)
    BY <1>1 DEF Covers
  <2>2. ASSUME NEW b \in C
        PROVE  b.lo = FirstBlock \/ \E c \in C : c.hi = b.lo
    BY <1>1 DEF Covers
  <2>3. ASSUME NEW b \in C
        PROVE  b.hi = end \/ \E c \in C : c.lo = b.hi
    <3>1. CASE b = n
      BY <1>1, <3>1
    <3>2. CASE b \in B
      <4>1. b.hi = top \/ \E c \in B : c.lo = b.hi
        BY <3>2 DEF Covers
      <4> QED
        BY <1>1, <4>1
    <3> QED
      BY <1>1, <3>1, <3>2
  <2> QED
    BY <2>1, <2>2, <2>3 DEF Covers
<1> QED
  BY <1>5, <1>6, <1>7, <1>8, <1>9

(* The words extend_heap asks mem_sbrk for.                                   *)
ExtensionOf(words) ==
    MAX((IF words % 2 = 1 THEN words + 1 ELSE words) * WSIZE, MINIMUM)

(* extend_heap fails when the arena has no room, and is otherwise Extend of   *)
(* module MmBlocks: the new block is merged with a free one before it.        *)
LEMMA ExtendReaches ==
    ASSUME NEW h, NEW B, Holds(h, B, FreePointers(B)), Covers(B, h.brk),
           NEW words, NEW asize \in Nat, Even(asize), 6 <= asize, ExtensionOf(words) = asize
    PROVE  LET r == extend_heap(h, words)
               n == MB!Fresh(h.brk, asize)
           IN  /\ h.brk + asize > Limit => r = [heap |-> h, ptr |-> NULL]
               /\ h.brk + asize <= Limit
                    => /\ Reaches(h, B, r.heap, MB!Extend(B, h.brk, asize))
                       /\ r.heap.brk = h.brk + asize
                       /\ r.ptr = MB!MergedLo(B, n)
                       /\ r.ptr = MB!Merged(B, n).lo
                       /\ MB!Merged(B, n) \in MB!Extend(B, h.brk, asize)
<1> DEFINE n == MB!Fresh(h.brk, asize)
           F == FreePointers(B)
           C == B \cup {n}
           i == mem_sbrk(h, asize)
           j == PutTags(i, n.lo, n.hi - n.lo, Bit(n))
           k == PUT(j, j.brk - 1, 1)
           r == coalesce(k, n.lo)
<1>1. /\ Apart(B, h.brk) /\ h.brk \in Nat /\ h.brk <= Limit
      /\ FirstBlock <= h.brk /\ Even(h.brk)
  BY HoldsFacts
<1>2. Limit \in Nat
  BY ArenaBounds
<1>3. CASE h.brk + asize > Limit
  <2>1. SbrkFails(h, asize)
    BY <1>3 DEF SbrkFails
  <2>2. extend_heap(h, words) = [heap |-> h, ptr |-> NULL]
    BY <2>1 DEF extend_heap, ExtensionOf
  <2> QED
    BY <1>1, <1>2, <1>3, <2>2
<1>4. CASE h.brk + asize <= Limit
  <2>1. ~SbrkFails(h, asize)
    BY <1>1, <1>2, <1>4 DEF SbrkFails
  <2>2. /\ n \in BlockType /\ ~n.alloc /\ n.lo = h.brk /\ n.hi = h.brk + asize /\ Bit(n) = 0
        /\ n.hi - n.lo = asize
    BY <1>1 DEF MB!Fresh, MB!Block, BlockType, Bit
  <2>3. MB!Extend(B, h.brk, asize) = MB!Coalesce(B, n)
    BY DEF MB!Extend
  <2> HIDE DEF n
  <2>4. Adds(B, h.brk, n, C, h.brk + asize) /\ h.brk + asize \in Nat
    <3>1. Even(h.brk + asize)
      BY <1>1 DEF Even
    <3> QED
      BY <1>1, <2>2, <3>1 DEF Adds
  <2>5. n \in C /\ C \ {n} \subseteq B /\ F \subseteq Pointers(C)
    BY DEF FreePointers, Pointers
  <2>13. \A b \in B : b \in C
    OBVIOUS
  <2> HIDE DEF C
  <2>6. /\ Apart(C, h.brk + asize) /\ Covers(C, h.brk + asize)
        /\ n \notin B /\ B = C \ {n}
        /\ F = FreePointers(C) \ {n.lo}
    BY <1>1, <2>4, AddedBlock
  <2> HIDE DEF F
  <2>7. /\ Holds(i, B, F) /\ i.brk = h.brk + asize
        /\ \A a : GET(i, a) = GET(h, a)
    <3>1. Holds(h, B, F)
      BY DEF F
    <3> QED
      BY <1>4, <3>1, SbrkHolds
  <2>14. extend_heap(h, words) = coalesce(PutEpilogue(j, h.brk), n.lo)
    BY <2>1, <2>2 DEF extend_heap, ExtensionOf
  <2> HIDE DEF i
  <2>8. /\ Holds(j, C, F) /\ j.brk = h.brk + asize
        /\ \A b \in C : Keeps(i, j, PayloadWords(b))
    <3>1. Holds(i, B, F) /\ Apart(C, i.brk) /\ n \in C /\ C \ {n} \subseteq B /\ F \subseteq Pointers(C)
      BY <2>5, <2>6, <2>7
    <3> QED
      BY <2>7, <3>1, Retag
  <2> HIDE DEF j
  <2>9. PutEpilogue(j, h.brk) = k
    <3>1. NEXT_BLKP(j, h.brk) = j.brk
      BY <2>2, <2>5, <2>8, BlockReads
    <3> QED
      BY <3>1 DEF PutEpilogue, HDRP, WSIZE, PACK
  <2>10. /\ Holds(k, C, F) /\ Ended(k) /\ k.brk = h.brk + asize
         /\ \A b \in C : Keeps(j, k, PayloadWords(b))
    BY <2>8, EpilogueHolds
  <2> HIDE DEF k
  <2>11. Awaits(k, C, n)
    BY <2>2, <2>5, <2>6, <2>10 DEF Awaits
  <2>12. /\ Reaches(k, B, r.heap, MB!Coalesce(B, n)) /\ r.heap.brk = k.brk
         /\ r.ptr = MB!MergedLo(B, n)
         /\ r.ptr = MB!Merged(B, n).lo
         /\ MB!Merged(B, n) \in MB!Coalesce(B, n)
    BY <2>6, <2>11, CoalesceReaches
  <2> HIDE DEF r
  <2>15. Carries(h, B, k, B)
    BY <2>7, <2>8, <2>10, <2>13 DEF Carries, Keeps
  <2>16. Reaches(h, B, r.heap, MB!Coalesce(B, n))
    BY <2>12, <2>15, CarriesTrans DEF Reaches
  <2> USE DEF n
  <2>17. extend_heap(h, words) = r
    BY <2>9, <2>14 DEF r
  <2> QED
    BY <1>1, <1>2, <1>4, <2>3, <2>10, <2>12, <2>16, <2>17
<1> QED
  BY <1>1, <1>2, <1>3, <1>4

-----------------------------------------------------------------------------
(* mm_malloc                                                                  *)

(* The block size for a request: even, at least the minimum, with room for    *)
(* the payload and two tags.                                                  *)
LEMMA AdjustedFacts ==
    ASSUME NEW size \in Nat, size > 0
    PROVE  /\ AdjustedSize(size) \in Nat /\ Even(AdjustedSize(size))
           /\ 6 <= AdjustedSize(size) /\ size + 2 <= AdjustedSize(size)
  BY DEF AdjustedSize, MAX, ALIGN, MINIMUM, DSIZE, Even

(* What mm_malloc answers for a block of asize: an outcome of the allocator   *)
(* of blocks, and, when it is a block, one that serves the request and was    *)
(* no one's.                                                                  *)
Malloced(h, B, asize, r, o) ==
    /\ o \in MB!Allocations(B, h.brk, asize)
    /\ r.ptr = o.ptr /\ r.heap.brk = o.brk
    /\ Reaches(h, B, r.heap, o.blocks)
    /\ r.ptr = NULL => /\ r.heap = h /\ o.blocks = B
                       /\ MB!Fits(B, asize) = {} /\ h.brk + asize > Limit
    /\ r.ptr # NULL => /\ Serves(o.blocks, r.ptr, asize)
                       /\ \A b \in B : b.alloc => b.lo # r.ptr

(* A call that changes nothing.                                               *)
LEMMA ReachesSame ==
    ASSUME NEW h, NEW B, Settled(h, B)
    PROVE  Reaches(h, B, h, B)
  BY DEF Reaches, Carries, Keeps

(* mm_malloc, for every request on every settled heap: it finds, extends, or  *)
(* answers NULL and leaves the heap alone.                                    *)
LEMMA MallocReaches ==
    ASSUME NEW h, NEW B, Settled(h, B), NEW size \in Nat, size > 0
    PROVE  \E o : Malloced(h, B, AdjustedSize(size), mm_malloc(h, size), o)
<1> DEFINE asize == AdjustedSize(size)
           words == MAX(asize, MINIMUM) \div WSIZE
           fit == find_fit(h, asize)
           e == extend_heap(h, words)
           n == MB!Fresh(h.brk, asize)
           m == MB!Merged(B, n)
           E == MB!Extend(B, h.brk, asize)
           r == mm_malloc(h, size)
<1>1. /\ Holds(h, B, FreePointers(B)) /\ Ended(h) /\ Apart(B, h.brk) /\ h.brk \in Nat /\ h.brk <= Limit
      /\ Covers(B, h.brk)
  BY HoldsFacts DEF Settled
<1>2. asize \in Nat /\ Even(asize) /\ 6 <= asize
  BY AdjustedFacts
<1>3. r = FitOrExtend(fit, asize)
  BY DEF mm_malloc
<1> HIDE DEF asize
<1>4. ExtensionOf(words) = asize
  BY <1>2 DEF ExtensionOf, MAX, WSIZE, MINIMUM, Even
<1> HIDE DEF words
<1>5. Fitted(h, B, asize, fit)
  BY <1>2, FindFit
<1> HIDE DEF fit
<1>6. \A f \in B : f.lo # NULL
  BY <1>1, HoldsFacts, LinkPtrFacts
<1>7. CASE fit.ptr # NULL
  <2>1. PICK f \in MB!Fits(B, asize) : fit.ptr = f.lo
    BY <1>5, <1>7 DEF Fitted
  <2>2. f \in B /\ ~f.alloc /\ asize <= f.hi - f.lo
    <3>1. f \in B /\ ~f.alloc /\ f.hi - f.lo >= asize
      BY DEF MB!Fits, MB!Size
    <3>2. f.hi \in Nat /\ f.lo \in Nat
      BY <1>1, <3>1, BlockFacts
    <3> QED
      BY <1>2, <3>1, <3>2
  <2> DEFINE k == place(h, f.lo, asize)
             P == MB!Place(B, f, asize)
             o == MB!Outcome(P, h.brk, f.lo)
  <2>3. r.heap = k /\ r.ptr = f.lo
    BY <1>3, <1>5, <1>7, <2>1 DEF FitOrExtend, Placed, Fitted
  <2>4. Reaches(h, B, k, P) /\ k.brk = h.brk /\ Serves(P, f.lo, asize)
    BY <1>2, <2>2, PlaceReaches
  <2>5. o \in MB!Allocations(B, h.brk, asize)
    BY <2>1 DEF MB!Allocations
  <2>6. o.blocks = P /\ o.brk = h.brk /\ o.ptr = f.lo
    BY DEF MB!Outcome
  <2>7. \A b \in B : b.alloc => b.lo # f.lo
    BY <1>1, <2>2, UniquePointer
  <2> HIDE DEF k, P, o, r
  <2>8. Malloced(h, B, asize, r, o)
    BY <1>6, <2>2, <2>3, <2>4, <2>5, <2>6, <2>7 DEF Malloced
  <2> QED
    BY <2>8 DEF asize, r
<1>8. CASE fit.ptr = NULL /\ h.brk + asize > Limit
  <2> DEFINE o == MB!Outcome(B, h.brk, NULL)
  <2>1. MB!Fits(B, asize) = {} /\ fit.heap = h
    BY <1>5, <1>8 DEF Fitted
  <2>2. e = [heap |-> h, ptr |-> NULL]
    BY <1>1, <1>2, <1>4, <1>8, ExtendReaches
  <2>3. r.heap = h /\ r.ptr = NULL
    BY <1>3, <1>8, <2>1, <2>2 DEF FitOrExtend, Placed, words
  <2>4. o \in MB!Allocations(B, h.brk, asize)
    <3>1. ~(h.brk + asize <= Limit)
      BY <1>1, <1>2, <1>8, ArenaBounds
    <3> QED
      BY <2>1, <3>1, SameParams DEF MB!Allocations
  <2>5. o.blocks = B /\ o.brk = h.brk /\ o.ptr = NULL
    BY DEF MB!Outcome
  <2> HIDE DEF o, r
  <2>6. Malloced(h, B, asize, r, o)
    BY <1>8, <2>1, <2>3, <2>4, <2>5, ReachesSame DEF Malloced
  <2> QED
    BY <2>6 DEF asize, r
<1>9. CASE fit.ptr = NULL /\ h.brk + asize <= Limit
  <2> DEFINE k == place(e.heap, m.lo, asize)
             P == MB!Place(E, m, asize)
             p == MB!MergedLo(B, n)
             o == MB!Outcome(P, h.brk + asize, p)
  <2>1. MB!Fits(B, asize) = {} /\ fit.heap = h
    BY <1>5, <1>9 DEF Fitted
  <2>2. /\ Reaches(h, B, e.heap, E) /\ e.heap.brk = h.brk + asize
        /\ e.ptr = p /\ e.ptr = m.lo /\ m \in E
    BY <1>1, <1>2, <1>4, <1>9, ExtendReaches
  <2>3. ~m.alloc /\ asize <= m.hi - m.lo
    <3>1. n.lo = h.brk /\ n.hi = h.brk + asize
      BY DEF MB!Fresh, MB!Block
    <3>2. ~m.alloc /\ m.lo = p /\ m.hi = MB!MergedHi(B, n)
      BY DEF MB!Merged, MB!Block
    <3> HIDE DEF n, m, p
    <3>3. \A b \in B : b.lo \in Nat /\ b.hi \in Nat /\ b.lo + 4 <= b.hi /\ b.hi <= h.brk
      BY <1>1, BlockFacts
    <3>4. p \in Nat /\ p <= h.brk
      <4>1. CASE MB!FreeBefore(B, n) = {}
        BY <1>1, <3>1, <4>1 DEF MB!MergedLo, p
      <4>2. CASE MB!FreeBefore(B, n) # {}
        <5>1. PICK x : x \in MB!FreeBefore(B, n) /\ p = x.lo
          BY <4>2 DEF MB!MergedLo, p
        <5>2. x \in B
          BY <5>1 DEF MB!FreeBefore
        <5> QED
          BY <1>1, <3>3, <5>1, <5>2
      <4> QED
        BY <4>1, <4>2
    <3>5. MB!MergedHi(B, n) = h.brk + asize
      <4>1. \A x \in B : x.lo # n.hi
        BY <1>1, <1>2, <3>1, <3>3
      <4>2. MB!FreeAfter(B, n) = {}
        BY <4>1 DEF MB!FreeAfter
      <4> QED
        BY <3>1, <4>2 DEF MB!MergedHi
    <3> QED
      BY <1>1, <1>2, <3>2, <3>4, <3>5
  <2>4. /\ Settled(e.heap, E) /\ Carries(h, B, e.heap, E)
    BY <2>2 DEF Reaches
  <2>5. Apart(E, e.heap.brk) /\ e.heap.brk \in Nat /\ \A b \in E : b.lo # NULL
    BY <2>4, HoldsFacts, LinkPtrFacts DEF Settled
  <2>6. o \in MB!Allocations(B, h.brk, asize)
    BY <1>9, <2>1, SameParams DEF MB!Allocations
  <2>7. o.blocks = P /\ o.brk = h.brk + asize /\ o.ptr = p
    BY DEF MB!Outcome
  <2>12. e.ptr # NULL
    BY <2>2, <2>5
  <2>8. r.heap = k /\ r.ptr = p
    <3>1. r = Placed(e, asize)
      BY <1>3, <1>9, <2>1 DEF FitOrExtend, words
    <3> QED
      BY <2>2, <2>12, <3>1 DEF Placed
  <2> HIDE DEF m, E, e
  <2>9. Reaches(e.heap, E, k, P) /\ k.brk = e.heap.brk /\ Serves(P, m.lo, asize)
    BY <1>2, <2>2, <2>3, <2>4, PlaceReaches
  <2>10. \A b \in B : b.alloc => b.lo # p
    <3> SUFFICES ASSUME NEW b \in B, b.alloc, b.lo = p
                 PROVE  FALSE
      OBVIOUS
    <3>1. b \in E
      BY <2>4 DEF Carries
    <3> QED
      BY <2>2, <2>3, <2>5, <3>1, UniquePointer
  <2> HIDE DEF k, P, o, r, p
  <2>11. Reaches(h, B, k, P)
    BY <2>4, <2>9, CarriesTrans DEF Reaches
  <2>13. Malloced(h, B, asize, r, o)
    BY <2>2, <2>6, <2>7, <2>8, <2>9, <2>10, <2>11, <2>12 DEF Malloced
  <2> QED
    BY <2>13 DEF asize, r
<1> QED
  BY <1>7, <1>8, <1>9, <1>1, <1>2, ArenaBounds

-----------------------------------------------------------------------------
(* mm_init                                                                    *)

(* What a trace starts with.                                                  *)
FirstBlocks == {MB!Block(FirstBlock, FirstBlock + MINIMUM, FALSE)}

(* The heap before mm_init: memory of any content, the break at its start.    *)
Fresh(h) == InUse(h) /\ h.brk = Base

(* The prologue and the epilogue mm_init lays are tags of a heap without      *)
(* blocks, whose list is empty.                                               *)
LEMMA LaidHolds ==
    ASSUME NEW h, Fresh(h)
    PROVE  LET k == Laid(mem_sbrk(h, 3 * DSIZE), h.brk)
           IN  /\ Holds(k, {}, {}) /\ k.brk = FirstBlock
               /\ ~SbrkFails(h, 3 * DSIZE)
<1> DEFINE i == mem_sbrk(h, 3 * DSIZE)
           k == Laid(i, h.brk)
           word == << 0, PACK(MINIMUM, 1), 0, 0, PACK(MINIMUM, 1), PACK(0, 1) >>
           mem == [a \in Arena |-> IF a \in Base .. (Base + 5) THEN word[a - Base + 1] ELSE h.mem[a]]
<1>1. InUse(h) /\ h.brk = Base /\ 3 * DSIZE = 6
  BY DEF Fresh, DSIZE
<1>2. /\ Base \in Nat /\ Base + 12 <= Limit /\ Limit \in Nat /\ FirstBlock = Base + 6 /\ Prologue = Base + 2
      /\ Even(FirstBlock)
  BY ArenaBounds
<1>3. ~SbrkFails(h, 3 * DSIZE)
  BY <1>1, <1>2 DEF SbrkFails
<1>4. i = [h EXCEPT !.brk = FirstBlock]
  BY <1>1, <1>2, <1>3 DEF mem_sbrk
<1>5. k = [h EXCEPT !.brk = FirstBlock, !.mem = mem, !.free_listp = Prologue]
  BY <1>1, <1>2, <1>4 DEF Laid, Prologue, InUse
<1>6. /\ word[1] = 0 /\ word[2] = 7 /\ word[3] = 0 /\ word[4] = 0 /\ word[5] = 7 /\ word[6] = 1
  BY DEF PACK, MINIMUM
<1> HIDE DEF word
<1>7. mem \in [Arena -> Nat]
  <2>1. \A a \in Base .. (Base + 5) : word[a - Base + 1] \in Nat
    <3> SUFFICES ASSUME NEW a \in Base .. (Base + 5)
                 PROVE  word[a - Base + 1] \in Nat
      OBVIOUS
    <3>1. a - Base + 1 \in 1 .. 6
      BY <1>2
    <3>2. \A x \in 1 .. 6 : word[x] \in Nat
      BY <1>6
    <3> QED
      BY <3>1, <3>2
  <2> QED
    BY <1>1, <2>1 DEF InUse
<1>8. /\ Base + 1 \in Arena /\ Base + 2 \in Arena /\ Base + 4 \in Arena
  BY <1>2 DEF Arena
<1>9. mem[Base + 1] = 7 /\ mem[Base + 2] = 0 /\ mem[Base + 4] = 7
  <2>1. ASSUME NEW x \in 1 .. 6
        PROVE  mem[Base + x - 1] = word[x]
    <3> DEFINE a == Base + x - 1
               y == a - Base + 1
    <3>1. a \in Arena /\ a \in Base .. (Base + 5) /\ y = x
      BY <1>2 DEF Arena
    <3>2. mem[a] = word[y]
      BY <3>1
    <3> HIDE DEF mem, a, y
    <3>3. mem[a] = word[x]
      BY <3>1, <3>2
    <3> QED
      BY <3>3 DEF a
  <2>2. mem[Base + 2 - 1] = word[2] /\ mem[Base + 3 - 1] = word[3] /\ mem[Base + 5 - 1] = word[5]
    BY <2>1
  <2>3. Base + 2 - 1 = Base + 1 /\ Base + 3 - 1 = Base + 2 /\ Base + 5 - 1 = Base + 4
    BY <1>2
  <2> HIDE DEF mem
  <2> QED
    BY <1>6, <2>2, <2>3
<1> HIDE DEF mem
<1>15. FirstBlock \in Nat /\ Prologue \in Nat
  BY <1>2
<1> HIDE DEF k
<1>10. InUse(k) /\ k.brk = FirstBlock /\ k.mem = mem /\ k.free_listp = Prologue
  BY <1>1, <1>5, <1>7, <1>15 DEF InUse
<1> HIDE DEF i
<1>11. GET(k, Base + 1) = 7 /\ GET(k, Prologue) = 0 /\ GET(k, FirstBlock - 2) = 7
  <2>1. FirstBlock - 2 = Base + 4
    BY <1>2
  <2> QED
    BY <1>2, <1>8, <1>9, <1>10, <2>1 DEF GET
<1>12. Linked(k, {})
  <2> DEFINE rank == [x \in {Prologue} |-> 0]
  <2>1. Chained(k, {}, rank, 0)
    BY <1>10, <1>11 DEF Chained, PREV_FREE, NULL
  <2> QED
    BY <2>1 DEF Linked
<1>13. Apart({}, k.brk) /\ Tagged(k, {})
  BY <1>11 DEF Apart, Tagged, MINIMUM
<1>14. Holds(k, {}, {})
  BY <1>2, <1>10, <1>12, <1>13 DEF Holds
<1> QED
  BY <1>3, <1>10, <1>14 DEF k, i

(* mm_init, over memory of any content: one free block of the minimum.        *)
LEMMA InitReaches ==
    ASSUME NEW h, Fresh(h)
    PROVE  Settled(mm_init(h).heap, FirstBlocks) /\ mm_init(h).heap.brk = FirstBlock + MINIMUM
<1> DEFINE k == Laid(mem_sbrk(h, 3 * DSIZE), h.brk)
           words == CHUNKSIZE \div WSIZE
           e == extend_heap(k, words)
           n == MB!Fresh(FirstBlock, 6)
<1>1. Holds(k, {}, {}) /\ k.brk = FirstBlock /\ ~SbrkFails(h, 3 * DSIZE)
  BY LaidHolds
<1>2. mm_init(h).heap = e.heap
  BY <1>1 DEF mm_init, Started
<1>3. ExtensionOf(words) = 6
  BY DEF ExtensionOf, MAX, MINIMUM, CHUNKSIZE, WSIZE
<1> HIDE DEF k, words
<1>4. FreePointers({}) = {} /\ Covers({}, k.brk)
  BY <1>1 DEF FreePointers, Covers
<1>5. Even(6) /\ k.brk + 6 <= Limit
  BY <1>1, ArenaBounds DEF Even
<1>6. Reaches(k, {}, e.heap, MB!Extend({}, k.brk, 6)) /\ e.heap.brk = k.brk + 6
  BY <1>1, <1>3, <1>4, <1>5, ExtendReaches
<1> HIDE DEF e
<1>7. MB!Extend({}, k.brk, 6) = {MB!Merged({}, n)}
  BY <1>1 DEF MB!Extend, MB!Coalesce, MB!FreeBefore, MB!FreeAfter
<1>8. MB!Merged({}, n) = MB!Block(FirstBlock, FirstBlock + 6, FALSE)
  <2>1. MB!FreeBefore({}, n) = {} /\ MB!FreeAfter({}, n) = {}
    BY DEF MB!FreeBefore, MB!FreeAfter
  <2>2. n.lo = FirstBlock /\ n.hi = FirstBlock + 6
    BY DEF MB!Fresh, MB!Block
  <2> QED
    BY <2>1, <2>2 DEF MB!Merged, MB!MergedLo, MB!MergedHi
<1>9. Settled(e.heap, FirstBlocks)
  BY <1>6, <1>7, <1>8 DEF Reaches, FirstBlocks, MINIMUM
<1> QED
  BY <1>1, <1>2, <1>6, <1>9 DEF MINIMUM

-----------------------------------------------------------------------------
(* Payloads                                                                   *)

(* Storing into the payload of a block in use leaves the allocator as it was  *)
(* and every other payload alone.                                             *)
LEMMA PayloadStored ==
    ASSUME NEW h, NEW B, Settled(h, B), NEW b \in B, b.alloc,
           NEW k, Wrote(h, k, PayloadWords(b)), k.free_listp = h.free_listp
    PROVE  /\ Settled(k, B)
           /\ \A c \in B : c.alloc /\ c # b => Keeps(h, k, PayloadWords(c))
<1> DEFINE F == FreePointers(B)
           S == PayloadWords(b)
<1>1. /\ Holds(h, B, F) /\ Ended(h) /\ Covers(B, h.brk) /\ Apart(B, h.brk) /\ h.brk \in Nat
      /\ h.brk <= Limit /\ FirstBlock <= h.brk /\ Even(h.brk) /\ Linked(h, F)
      /\ F \subseteq Pointers(B) /\ Tagged(h, B)
  BY HoldsFacts DEF Settled, Holds
<1>2. InUse(k) /\ k.brk = h.brk /\ \A x : x \notin S => GET(k, x) = GET(h, x)
  BY DEF Wrote
<1>3. b.lo \notin F
  BY <1>1, UniquePointer DEF FreePointers
<1>4. S \cap LinkWords(F) = {}
  <2> HIDE DEF F
  <2> QED
    BY <1>1, <1>3, LinksApart
<1>5. Linked(k, F)
  <2> HIDE DEF F
  <2> QED
    BY <1>1, <1>4, ChainKept
<1>6. /\ b.lo \in Nat /\ b.hi \in Nat /\ Even(b.lo) /\ Even(b.hi) /\ b.lo + 4 <= b.hi
      /\ b.hi <= h.brk /\ FirstBlock <= b.lo
  BY <1>1, BlockFacts
<1>7. Base + 1 \notin S /\ FirstBlock - 2 \notin S /\ h.brk - 1 \notin S
  BY <1>1, <1>6, ArenaBounds, SMTT(30) DEF PayloadWords
<1>8. ASSUME NEW c \in B
      PROVE  /\ c.lo - 1 \notin S /\ c.hi - 2 \notin S
             /\ c # b => \A x \in PayloadWords(c) : x \notin S
  <2>1. /\ c.lo \in Nat /\ c.hi \in Nat /\ c.lo + 4 <= c.hi
    BY <1>1, BlockFacts
  <2>2. b = c \/ b.hi <= c.lo \/ c.hi <= b.lo
    BY <1>1 DEF Apart
  <2>3. CASE b = c
    BY <1>6, <2>3 DEF PayloadWords
  <2>4. CASE b.hi <= c.lo
    BY <1>6, <2>1, <2>4, SMTT(30) DEF PayloadWords
  <2>5. CASE c.hi <= b.lo
    BY <1>6, <2>1, <2>5, SMTT(30) DEF PayloadWords
  <2> QED
    BY <2>2, <2>3, <2>4, <2>5
<1> HIDE DEF S, F
<1>9. Tagged(k, B)
  BY <1>1, <1>2, <1>7, <1>8 DEF Tagged
<1>10. Holds(k, B, F)
  BY <1>1, <1>2, <1>5, <1>9 DEF Holds
<1>11. Ended(k)
  BY <1>1, <1>2, <1>7 DEF Ended
<1>12. Settled(k, B)
  BY <1>1, <1>2, <1>10, <1>11 DEF Settled, F
<1> QED
  BY <1>2, <1>8, <1>12 DEF Keeps

(* k is h with the words of S stored anew, each a number.                     *)
LEMMA StoreWrites ==
    ASSUME NEW h, InUse(h), NEW mem \in [Arena -> Nat], NEW S,
           \A a \in Arena : a \notin S => mem[a] = h.mem[a]
    PROVE  LET k == [h EXCEPT !.mem = mem]
           IN  /\ Wrote(h, k, S) /\ k.free_listp = h.free_listp
               /\ \A a \in Arena : GET(k, a) = mem[a]
<1> DEFINE k == [h EXCEPT !.mem = mem]
<1>1. /\ InUse(k) /\ k.brk = h.brk /\ k.free_listp = h.free_listp /\ k.outside = h.outside
      /\ k.mem = mem
  BY DEF InUse
<1> HIDE DEF k
<1>2. \A a : a \notin S => GET(k, a) = GET(h, a)
  BY <1>1 DEF GET
<1>3. \A a \in Arena : GET(k, a) = mem[a]
  BY <1>1 DEF GET
<1> QED
  BY <1>1, <1>2, <1>3 DEF Wrote, k

(* The client's memset, within the payload of its block.                      *)
LEMMA FillStored ==
    ASSUME NEW h, NEW B, Settled(h, B), NEW b \in B, b.alloc,
           NEW id, FillWord(id) \in Nat, NEW from \in Nat, NEW size \in Nat, size + 2 <= b.hi - b.lo
    PROVE  LET k == FillFrom(h, id, b.lo, from, size)
           IN  /\ Settled(k, B) /\ k.brk = h.brk
               /\ \A c \in B : c.alloc /\ c # b => Keeps(h, k, PayloadWords(c))
               /\ \A i \in 0 .. (size - 1) :
                     GET(k, b.lo + i) = IF i < from THEN GET(h, b.lo + i) ELSE FillWord(id)
<1> DEFINE T == (b.lo + from) .. (b.lo + size - 1)
           w == FillWord(id)
           mem == [a \in Arena |-> IF a \in T THEN w ELSE h.mem[a]]
           k == [h EXCEPT !.mem = mem]
           S == PayloadWords(b)
<1>1. InUse(h) /\ Apart(B, h.brk) /\ h.brk \in Nat /\ h.brk <= Limit
  BY HoldsFacts DEF Settled
<1>2. /\ b.lo \in Nat /\ b.hi \in Nat /\ FirstBlock <= b.lo /\ b.lo + 4 <= b.hi /\ b.hi <= h.brk
  BY <1>1, BlockFacts
<1>3. FillFrom(h, id, b.lo, from, size) = k
  BY DEF FillFrom
<1>4. T \subseteq S
  BY <1>2 DEF PayloadWords
<1>5. \A i \in 0 .. (size - 1) : b.lo + i \in Arena /\ (b.lo + i \in T <=> ~(i < from))
  BY <1>1, <1>2, ArenaBounds DEF Arena
<1>6. mem \in [Arena -> Nat]
  BY <1>1 DEF InUse
<1> HIDE DEF T, w, S
<1>7. \A a \in Arena : a \notin S => mem[a] = h.mem[a]
  BY <1>4
<1>8. \A a \in Arena : mem[a] = IF a \in T THEN w ELSE h.mem[a]
  OBVIOUS
<1> HIDE DEF mem
<1>9. /\ Wrote(h, k, S) /\ k.free_listp = h.free_listp
      /\ \A a \in Arena : GET(k, a) = mem[a]
  BY <1>1, <1>6, <1>7, StoreWrites
<1> HIDE DEF k
<1>10. /\ Settled(k, B)
       /\ \A c \in B : c.alloc /\ c # b => Keeps(h, k, PayloadWords(c))
  BY <1>9, PayloadStored DEF S
<1>11. k.brk = h.brk
  BY <1>9 DEF Wrote
<1>12. ASSUME NEW i \in 0 .. (size - 1)
       PROVE  GET(k, b.lo + i) = IF i < from THEN GET(h, b.lo + i) ELSE FillWord(id)
  <2> DEFINE a == b.lo + i
  <2>1. a \in Arena /\ (a \in T <=> ~(i < from))
    BY <1>5
  <2> HIDE DEF a
  <2>2. GET(k, a) = IF i < from THEN GET(h, a) ELSE w
    BY <1>8, <1>9, <2>1 DEF GET
  <2> QED
    BY <2>2 DEF a, w
<1> QED
  BY <1>3, <1>10, <1>11, <1>12

(* memcpy into the payload of a block in use.                                 *)
LEMMA CopyStored ==
    ASSUME NEW h, NEW B, Settled(h, B), NEW g \in B, g.alloc,
           NEW ptr \in Nat, NEW n \in Nat, n > 0, n + 2 <= g.hi - g.lo
    PROVE  LET k == memcpy(h, g.lo, ptr, n)
           IN  /\ Settled(k, B) /\ k.brk = h.brk
               /\ \A c \in B : c.alloc /\ c # g => Keeps(h, k, PayloadWords(c))
               /\ \A i \in 0 .. (n - 1) : GET(k, g.lo + i) = GET(h, ptr + i)
<1> DEFINE T == g.lo .. (g.lo + n - 1)
           mem == [a \in Arena |-> IF a \in T THEN GET(h, ptr + (a - g.lo)) ELSE h.mem[a]]
           k == [h EXCEPT !.mem = mem]
           S == PayloadWords(g)
<1>1. InUse(h) /\ Apart(B, h.brk) /\ h.brk \in Nat /\ h.brk <= Limit
  BY HoldsFacts DEF Settled
<1>2. /\ g.lo \in Nat /\ g.hi \in Nat /\ FirstBlock <= g.lo /\ g.lo + 4 <= g.hi /\ g.hi <= h.brk
  BY <1>1, BlockFacts
<1>3. memcpy(h, g.lo, ptr, n) = k
  <2>1. h.status # "crashed"
    BY <1>1 DEF InUse
  <2>2. g.lo \in Arena /\ g.lo + n - 1 \in Arena
    BY <1>1, <1>2, ArenaBounds DEF Arena
  <2> QED
    BY <2>1, <2>2 DEF memcpy
<1>4. T \subseteq S
  BY <1>2 DEF PayloadWords
<1>5. \A i \in 0 .. (n - 1) : g.lo + i \in Arena /\ g.lo + i \in T /\ ptr + ((g.lo + i) - g.lo) = ptr + i
  BY <1>1, <1>2, ArenaBounds DEF Arena
<1>6. mem \in [Arena -> Nat]
  <2>1. \A x : GET(h, x) \in Nat
    BY <1>1, GetIs
  <2> QED
    BY <1>1, <2>1 DEF InUse
<1> HIDE DEF T, S
<1>7. \A a \in Arena : a \notin S => mem[a] = h.mem[a]
  BY <1>4
<1>8. \A a \in Arena : a \in T => mem[a] = GET(h, ptr + (a - g.lo))
  OBVIOUS
<1> HIDE DEF mem
<1>9. /\ Wrote(h, k, S) /\ k.free_listp = h.free_listp
      /\ \A a \in Arena : GET(k, a) = mem[a]
  BY <1>1, <1>6, <1>7, StoreWrites
<1> HIDE DEF k
<1>10. /\ Settled(k, B)
       /\ \A c \in B : c.alloc /\ c # g => Keeps(h, k, PayloadWords(c))
  BY <1>9, PayloadStored DEF S
<1>11. k.brk = h.brk
  BY <1>9 DEF Wrote
<1>12. ASSUME NEW i \in 0 .. (n - 1)
       PROVE  GET(k, g.lo + i) = GET(h, ptr + i)
  <2> DEFINE a == g.lo + i
             y == ptr + (a - g.lo)
             z == ptr + i
  <2>1. a \in Arena /\ a \in T /\ y = z
    BY <1>5
  <2>2. mem[a] = GET(h, y)
    BY <1>8, <2>1
  <2> HIDE DEF a, y, z
  <2>3. GET(k, a) = GET(h, z)
    BY <1>9, <2>1, <2>2
  <2> QED
    BY <2>3 DEF a, z
<1> QED
  BY <1>3, <1>10, <1>11, <1>12

-----------------------------------------------------------------------------
(* mm_realloc in place                                                        *)

(* m, a block in use of A or two blocks of the heap seen as one, is cut into  *)
(* front and rest, and the rest is freed.                                     *)
Cuts(h, B, A, m, front, rest, C) ==
    /\ Holds(h, B, FreePointers(A)) /\ Ended(h)
    /\ m \in A /\ m.alloc /\ A \ {m} \subseteq B
    /\ Apart(A, h.brk) /\ Covers(A, h.brk)
    /\ SplitsInto(m, front, rest) /\ front.alloc /\ rest.alloc
    /\ C = (A \ {m}) \cup {front}

(* A block, marked free.                                                      *)
Freed(b) == MB!Block(b.lo, b.hi, FALSE)

(* CutAndFree leaves the front in use and frees what is behind it.            *)
LEMMA CutReaches ==
    ASSUME NEW h, NEW B, NEW A, NEW m, NEW front, NEW rest, NEW C,
           Cuts(h, B, A, m, front, rest, C)
    PROVE  LET k == CutAndFree(h, m.lo, front.hi - front.lo, m.hi - m.lo)
           IN  /\ Reaches(h, C, k, MB!Coalesce(C, Freed(rest)))
               /\ k.brk = h.brk
<1> DEFINE F == FreePointers(A)
           D == C \cup {rest}
           asize == front.hi - front.lo
           j == PutTags(h, front.lo, front.hi - front.lo, Bit(front))
           i == PutTags(j, rest.lo, rest.hi - rest.lo, Bit(rest))
           k == mm_free(i, rest.lo)
           R == MB!Coalesce(C, Freed(rest))
<1>1. /\ Holds(h, B, F) /\ Ended(h)
      /\ m \in A /\ m.alloc /\ A \ {m} \subseteq B
      /\ Apart(A, h.brk) /\ Covers(A, h.brk)
      /\ SplitsInto(m, front, rest) /\ front.alloc /\ rest.alloc
      /\ C = (A \ {m}) \cup {front}
  BY DEF Cuts
<1>2. h.brk \in Nat
  BY <1>1, HoldsFacts
<1>3. Apart(C, h.brk) /\ Apart(D, h.brk) /\ Covers(D, h.brk) /\ rest \notin C
  <2>1. D = C \cup {rest}
    OBVIOUS
  <2> HIDE DEF D
  <2> QED
    BY <1>1, <1>2, <2>1, SplitBlocks
<1>4. F = FreePointers(C) /\ F = FreePointers(D) /\ F \subseteq Pointers(C) /\ F \subseteq Pointers(D)
  BY <1>1 DEF FreePointers, Pointers
<1>5. /\ front \in C /\ C \ {front} \subseteq B
      /\ rest \in D /\ D \ {rest} \subseteq C /\ C = D \ {rest}
  BY <1>1, <1>3
<1>6. CutAndFree(h, m.lo, asize, m.hi - m.lo) = FreeTail(j, NEXT_BLKP(j, front.lo), rest.hi - rest.lo)
  <2>1. m.lo = front.lo /\ Bit(front) = 1
    BY <1>1 DEF SplitsInto, Bit
  <2>2. m.hi - m.lo - asize = rest.hi - rest.lo
    BY <1>1 DEF SplitsInto, BlockType
  <2> QED
    BY <2>1, <2>2 DEF CutAndFree, TailAfter
<1>7. Retags(h, B, F, C, front)
  BY <1>1, <1>3, <1>4, <1>5 DEF Retags
<1> HIDE DEF F, D
<1>8. /\ Holds(j, C, F) /\ j.brk = h.brk /\ Ended(j)
      /\ \A b \in C : Keeps(h, j, PayloadWords(b))
  BY <1>7, Retagged
<1> HIDE DEF j
<1>9. NEXT_BLKP(j, front.lo) = rest.lo
  <2>1. NEXT_BLKP(j, front.lo) = front.hi
    BY <1>5, <1>8, BlockReads
  <2> QED
    BY <1>1, <2>1 DEF SplitsInto
<1>10. CutAndFree(h, m.lo, asize, m.hi - m.lo) = k
  BY <1>1, <1>6, <1>9 DEF FreeTail, Bit
<1>11. Retags(j, C, F, D, rest)
  BY <1>3, <1>4, <1>5, <1>8 DEF Retags
<1>12. /\ Holds(i, D, F) /\ i.brk = j.brk /\ Ended(i)
       /\ \A b \in D : Keeps(j, i, PayloadWords(b))
  BY <1>11, Retagged
<1> HIDE DEF i
<1>13. Settled(i, D)
  BY <1>3, <1>4, <1>8, <1>12 DEF Settled
<1>14. Reaches(i, D \ {rest}, k, MB!Release(D, rest)) /\ k.brk = i.brk
  BY <1>1, <1>5, <1>13, FreeReaches
<1>15. MB!Release(D, rest) = R
  BY <1>5 DEF MB!Release, Freed
<1> HIDE DEF k, R
<1>16. Reaches(i, C, k, R)
  BY <1>5, <1>14, <1>15
<1>17. Carries(h, C, i, C)
  BY <1>5, <1>8, <1>12, KeepsTrans DEF Carries
<1>18. Reaches(h, C, k, R)
  BY <1>16, <1>17, CarriesTrans DEF Reaches
<1> QED
  BY <1>8, <1>10, <1>12, <1>14, <1>18 DEF R

-----------------------------------------------------------------------------
(* mm_realloc                                                                 *)

(* n words moved from p in h to q in k.                                       *)
WordsKept(h, p, k, q, n) == \A i \in 0 .. (n - 1) : GET(k, q + i) = GET(h, p + i)

(* The block b has become one at r.ptr that serves asize and holds what b     *)
(* held, as far as both reach; the other blocks in use are as they were.      *)
Resized(h, B, b, asize, r, C) ==
    /\ Reaches(h, B \ {b}, r.heap, C)
    /\ Serves(C, r.ptr, asize)
    /\ \A c \in B \ {b} : c.alloc => c.lo # r.ptr
    /\ \A n \in Nat : n + 2 <= asize /\ n + 2 <= b.hi - b.lo => WordsKept(h, b.lo, r.heap, r.ptr, n)

(* Words of a payload that is kept.                                           *)
LEMMA PayloadKept ==
    ASSUME NEW h, NEW k, NEW b \in BlockType, Keeps(h, k, PayloadWords(b)),
           NEW n \in Nat, n + 2 <= b.hi - b.lo
    PROVE  WordsKept(h, b.lo, k, b.lo, n)
<1> SUFFICES ASSUME NEW i \in 0 .. (n - 1)
             PROVE  GET(k, b.lo + i) = GET(h, b.lo + i)
  BY DEF WordsKept
<1> DEFINE a == b.lo + i
<1>1. a \in PayloadWords(b)
  BY DEF PayloadWords, BlockType
<1> HIDE DEF a
<1>2. GET(k, a) = GET(h, a)
  BY <1>1 DEF Keeps
<1> QED
  BY <1>2 DEF a

(* A cut at asize, from a heap k that may differ from h in free blocks.       *)
CutsFor(h, B, b, asize, end, k, A, m, front, rest, C) ==
    /\ Carries(h, B, k, B)
    /\ Cuts(k, B, A, m, front, rest, C)
    /\ m.lo = b.lo /\ m.hi = end
    /\ \A c \in B : c.alloc /\ c # b => c \in A \ {m}
    /\ asize = front.hi - front.lo

(* So a block that is cut keeps its first words.                              *)
LEMMA CutResizes ==
    ASSUME NEW h, NEW B, Settled(h, B), NEW b \in B, b.alloc,
           NEW k, NEW A, NEW m, NEW front, NEW rest, NEW C, NEW asize, NEW end,
           CutsFor(h, B, b, asize, end, k, A, m, front, rest, C)
    PROVE  LET r == [heap |-> CutAndFree(k, b.lo, asize, end - b.lo), ptr |-> b.lo]
           IN  /\ Resized(h, B, b, asize, r,
                          MB!Coalesce(C, Freed(rest)))
               /\ r.heap.brk = k.brk
<1> DEFINE R == MB!Coalesce(C, Freed(rest))
           z == CutAndFree(k, b.lo, asize, end - b.lo)
           r == [heap |-> z, ptr |-> b.lo]
<1>0. /\ Carries(h, B, k, B)
      /\ Cuts(k, B, A, m, front, rest, C)
      /\ m.lo = b.lo /\ m.hi = end
      /\ \A c \in B : c.alloc /\ c # b => c \in A \ {m}
      /\ asize = front.hi - front.lo
  BY DEF CutsFor
<1>1. front \in C /\ \A c \in B : c.alloc /\ c # b => c \in C
  BY <1>0 DEF Cuts
<1>2. Reaches(k, C, z, R) /\ z.brk = k.brk
  <2> DEFINE y == CutAndFree(k, m.lo, front.hi - front.lo, m.hi - m.lo)
  <2>1. y = z
    BY <1>0
  <2> HIDE DEF z
  <2>3. Reaches(k, C, y, R) /\ y.brk = k.brk
    BY <1>0, CutReaches
  <2> QED
    BY <2>1, <2>3
<1>3. /\ front.alloc /\ front.lo = b.lo /\ front \in BlockType
  BY <1>0 DEF Cuts, SplitsInto
<1>4. Apart(B, h.brk) /\ h.brk \in Nat /\ h.brk <= Limit
  BY HoldsFacts DEF Settled
<1>5. b \in BlockType
  BY <1>4, BlockFacts
<1> HIDE DEF R, z
<1>6. Carries(h, B \ {b}, z, R)
  <2>1. Carries(h, B \ {b}, k, C)
    BY <1>0, <1>1 DEF Carries
  <2>2. Carries(k, C, z, R)
    BY <1>2 DEF Reaches
  <2> QED
    BY <2>1, <2>2, CarriesTrans
<1>7. front \in R /\ Keeps(k, z, PayloadWords(front)) /\ Keeps(h, k, PayloadWords(b))
  BY <1>0, <1>1, <1>2, <1>3 DEF Reaches, Carries
<1>8. Serves(R, b.lo, asize)
  <2>1. asize <= front.hi - front.lo
    BY <1>0, <1>3 DEF BlockType
  <2> QED
    BY <1>3, <1>7, <2>1 DEF Serves
<1>9. \A c \in B \ {b} : c.alloc => c.lo # b.lo
  BY <1>4, UniquePointer
<1>10. ASSUME NEW n \in Nat, n + 2 <= asize, n + 2 <= b.hi - b.lo
       PROVE  WordsKept(h, b.lo, z, b.lo, n)
  <2>1. WordsKept(k, front.lo, z, front.lo, n)
    BY <1>0, <1>3, <1>7, <1>10, PayloadKept
  <2>2. WordsKept(h, b.lo, k, b.lo, n)
    BY <1>5, <1>7, <1>10, PayloadKept
  <2> QED
    BY <1>3, <2>1, <2>2 DEF WordsKept
<1>11. r.heap = z /\ r.ptr = b.lo
  OBVIOUS
<1> HIDE DEF r
<1>12. Resized(h, B, b, asize, r, R)
  BY <1>2, <1>6, <1>8, <1>9, <1>10, <1>11 DEF Resized, Reaches
<1> QED
  BY <1>2, <1>11, <1>12 DEF r, R, z

(* mm_realloc to a smaller size in place is Cut of module MmBlocks.           *)
LEMMA ShrinkResizes ==
    ASSUME NEW h, NEW B, Settled(h, B), NEW b \in B, b.alloc,
           NEW asize \in Nat, Even(asize), MB!ShrinksInPlace(b, asize)
    PROVE  LET r == [heap |-> CutAndFree(h, b.lo, asize, b.hi - b.lo), ptr |-> b.lo]
           IN  /\ Resized(h, B, b, asize, r, MB!Cut(B, b, b.hi, asize))
               /\ r.heap.brk = h.brk
<1> DEFINE front == MB!Block(b.lo, b.lo + asize, TRUE)
           rest == MB!Block(b.lo + asize, b.hi, TRUE)
           C == (B \ {b}) \cup {front}
<1>1. /\ Holds(h, B, FreePointers(B)) /\ Ended(h) /\ Covers(B, h.brk) /\ Apart(B, h.brk)
      /\ h.brk \in Nat /\ h.brk <= Limit
  BY HoldsFacts DEF Settled
<1>2. /\ b.lo \in Nat /\ b.hi \in Nat /\ Even(b.lo) /\ Even(b.hi) /\ b.lo + 4 <= b.hi
  BY <1>1, BlockFacts
<1>3. asize > 6 /\ b.hi - b.lo - asize > 6
  BY SameParams DEF MB!ShrinksInPlace, MB!Size, MINIMUM
<1>4. /\ front \in BlockType /\ rest \in BlockType /\ front.alloc /\ rest.alloc
      /\ front.lo = b.lo /\ front.hi = b.lo + asize /\ rest.lo = b.lo + asize /\ rest.hi = b.hi
  BY <1>2 DEF MB!Block, BlockType
<1>5. MB!Cut(B, b, b.hi, asize) = MB!Coalesce(C, Freed(rest))
  BY <1>4 DEF MB!Cut, Freed
<1> HIDE DEF front, rest
<1>6. SplitsInto(b, front, rest)
  <2>1. Even(b.lo + asize)
    BY <1>2 DEF Even
  <2>2. b.lo + 4 <= b.lo + asize /\ b.lo + asize + 4 <= b.hi
    BY <1>2, <1>3
  <2> QED
    BY <1>4, <2>1, <2>2 DEF SplitsInto
<1>7. Cuts(h, B, B, b, front, rest, C)
  BY <1>1, <1>4, <1>6 DEF Cuts
<1>8. Carries(h, B, h, B)
  BY ReachesSame DEF Reaches
<1>9. asize = front.hi - front.lo
  BY <1>2, <1>4
<1>10. \A c \in B : c.alloc /\ c # b => c \in B \ {b}
  OBVIOUS
<1> HIDE DEF C
<1>11. LET r == [heap |-> CutAndFree(h, b.lo, asize, b.hi - b.lo), ptr |-> b.lo]
       IN  /\ Resized(h, B, b, asize, r, MB!Coalesce(C, Freed(rest)))
           /\ r.heap.brk = h.brk
  <2>1. CutsFor(h, B, b, asize, b.hi, h, B, b, front, rest, C)
    BY <1>7, <1>8, <1>9, <1>10 DEF CutsFor
  <2> QED
    BY <2>1, CutResizes
<1> QED
  BY <1>5, <1>11

(* b grown to asize into the block n after it.                                *)
GrownInto(B, b, n, asize) == MB!Cut(B \ {n}, b, n.hi, asize)

(* mm_realloc into the free block behind: it leaves the list, and what is     *)
(* left of both is cut.                                                       *)
LEMMA GrowResizes ==
    ASSUME NEW h, NEW B, Settled(h, B), NEW b \in B, b.alloc, NEW n \in B,
           NEW asize \in Nat, Even(asize), MB!GrowsInto(b, n, asize)
    PROVE  LET r == [heap |-> CutAndFree(removeFreeBlock(h, n.lo), b.lo, asize, n.hi - b.lo),
                     ptr |-> b.lo]
           IN  /\ Resized(h, B, b, asize, r, GrownInto(B, b, n, asize))
               /\ r.heap.brk = h.brk
<1> DEFINE front == MB!Block(b.lo, b.lo + asize, TRUE)
           rest == MB!Block(b.lo + asize, n.hi, TRUE)
           m == MB!Block(b.lo, n.hi, TRUE)
           D == {b, n}
           A == (B \ D) \cup {m}
           C == (A \ {m}) \cup {front}
           k == removeFreeBlock(h, n.lo)
           F == FreePointers(B)
           G == FreePointers(A)
           p == n.lo
<1>1. /\ Holds(h, B, F) /\ Ended(h) /\ Covers(B, h.brk) /\ Apart(B, h.brk)
      /\ h.brk \in Nat /\ h.brk <= Limit
  BY HoldsFacts DEF Settled
<1>2. /\ b \in BlockType /\ n \in BlockType
      /\ b.lo \in Nat /\ b.hi \in Nat /\ Even(b.lo) /\ Even(b.hi) /\ b.lo + 4 <= b.hi
      /\ n.lo \in Nat /\ n.hi \in Nat /\ Even(n.lo) /\ Even(n.hi) /\ n.lo + 4 <= n.hi
  BY <1>1, BlockFacts
<1>3. ~n.alloc /\ n.lo = b.hi /\ asize > b.hi - b.lo /\ n.hi - b.lo - asize > 2
  BY SameParams DEF MB!GrowsInto, MB!Size, DSIZE
<1>4. /\ front \in BlockType /\ rest \in BlockType /\ front.alloc /\ rest.alloc
      /\ front.lo = b.lo /\ front.hi = b.lo + asize /\ rest.lo = b.lo + asize /\ rest.hi = n.hi
      /\ m \in BlockType /\ m.alloc /\ m.lo = b.lo /\ m.hi = n.hi
  BY <1>2 DEF MB!Block, BlockType
<1>5. GrownInto(B, b, n, asize)
        = MB!Coalesce(((B \ {n}) \ {b}) \cup {front}, Freed(rest))
  BY <1>4 DEF MB!Cut, Freed, GrownInto
<1> HIDE DEF front, rest, m
<1>6. SplitsInto(m, front, rest)
  <2>1. Even(b.lo + asize)
    BY <1>2 DEF Even
  <2>2. b.lo + 4 <= b.lo + asize /\ b.lo + asize + 4 <= n.hi
    <3> DEFINE d == n.hi - b.lo
    <3>1. d \in Nat /\ Even(d)
      BY <1>2, <1>3 DEF Even
    <3> HIDE DEF d
    <3>2. d - asize # 3
      BY <3>1 DEF Even
    <3> USE DEF d
    <3> QED
      BY <1>2, <1>3, <3>2
  <2> QED
    BY <1>4, <2>1, <2>2 DEF SplitsInto
<1>7. Fills(B, D, m)
  <2>1. \A x \in B \ D : x.hi <= m.lo \/ m.hi <= x.lo
    <3>1. \A x \in B : /\ x.lo \in Nat /\ x.hi \in Nat /\ x.lo + 4 <= x.hi
                       /\ x = b \/ x.hi <= b.lo \/ b.hi <= x.lo
                       /\ x = n \/ x.hi <= n.lo \/ n.hi <= x.lo
      BY <1>1, BlockFacts DEF Apart
    <3> QED
      BY <1>2, <1>3, <1>4, <3>1
  <2> QED
    BY <1>2, <1>3, <1>4, <2>1 DEF Fills
<1>8. Apart(A, h.brk) /\ Covers(A, h.brk)
  <2> HIDE DEF D
  <2> QED
    BY <1>1, <1>7, FilledApart, FilledCovers
<1>9. \A x, y \in B : x.lo = y.lo => x = y
  BY <1>1, UniquePointer
<1>10. m \notin B
  <2>1. m # b
    BY <1>2, <1>3, <1>4
  <2> QED
    BY <1>4, <1>9, <2>1
<1>11. m \in A /\ A \ {m} \subseteq B /\ A \ {m} = (B \ {n}) \ {b}
  BY <1>10
<1>12. p \in F /\ F \subseteq FreePointers(B)
  BY <1>3 DEF FreePointers
<1>13. G = F \ {p}
  <2>1. \A x \in B : x.lo = p => x = n
    BY <1>9
  <2> QED
    BY <1>3, <1>4, <2>1 DEF FreePointers
<1>14. \A c \in B : c.alloc /\ c # b => c \in A \ {m}
  BY <1>3, <1>11
<1>15. Carries(h, B, k, B) /\ Holds(k, B, G) /\ k.brk = h.brk /\ Ended(k)
  <2> HIDE DEF F, G
  <2>1. /\ Holds(k, B, G) /\ k.brk = h.brk /\ Ended(k)
        /\ \A x \in B : x.alloc => Keeps(h, k, PayloadWords(x))
    <3>1. removeFreeBlock(h, p) = k
      OBVIOUS
    <3> HIDE DEF k, p
    <3>2. /\ Holds(removeFreeBlock(h, p), B, G) /\ removeFreeBlock(h, p).brk = h.brk
          /\ Ended(removeFreeBlock(h, p))
          /\ \A x \in B : x.alloc => Keeps(h, removeFreeBlock(h, p), PayloadWords(x))
      BY <1>1, <1>12, <1>13, UnlinkFree
    <3> QED
      BY <3>1, <3>2
  <2> HIDE DEF k
  <2> QED
    BY <2>1 DEF Carries
<1> HIDE DEF k, A, D, F, p
<1>16. Cuts(k, B, A, m, front, rest, C)
  BY <1>4, <1>6, <1>8, <1>11, <1>15 DEF Cuts
<1>17. asize = front.hi - front.lo
  BY <1>2, <1>4
<1>20. C = ((B \ {n}) \ {b}) \cup {front}
  BY <1>11
<1> HIDE DEF C
<1> DEFINE r == [heap |-> CutAndFree(k, b.lo, asize, n.hi - b.lo), ptr |-> b.lo]
<1>18. /\ Resized(h, B, b, asize, r,
                  MB!Coalesce(C, Freed(rest)))
       /\ r.heap.brk = k.brk
  <2>1. CutsFor(h, B, b, asize, n.hi, k, A, m, front, rest, C)
    BY <1>4, <1>14, <1>15, <1>16, <1>17 DEF CutsFor
  <2> QED
    BY <1>4, <2>1, CutResizes
<1> HIDE DEF r
<1>19. /\ Resized(h, B, b, asize, r, GrownInto(B, b, n, asize))
       /\ r.heap.brk = h.brk
  BY <1>5, <1>15, <1>18, <1>20
<1> QED
  BY <1>19 DEF r, k

(* mm_realloc by moving: r is its answer, o that of its mm_malloc.            *)
MovedAs(h, B, b, asize, r, o) ==
    /\ o \in MB!Allocations(B, h.brk, AdjustedSize(asize))
    /\ r.ptr = o.ptr /\ r.ptr # NULL /\ r.heap.brk = o.brk
    /\ Resized(h, B, b, asize, r, MB!Release(o.blocks, b))

(* mm_realloc by moving: the words are copied before the old block is freed,  *)
(* and the new block is another one.                                          *)
LEMMA MoveResizes ==
    ASSUME NEW h, NEW B, Settled(h, B), NEW b \in B, b.alloc,
           NEW asize \in Nat, 6 <= asize,
           NEW n \in Nat, n = asize \/ n = b.hi - b.lo, n <= asize,
           mm_malloc(h, asize).ptr # NULL
    PROVE  \E o : MovedAs(h, B, b, asize, MoveTo(h, b.lo, asize, n), o)
<1> DEFINE m == mm_malloc(h, asize)
           big == AdjustedSize(asize)
           k == memcpy(m.heap, m.ptr, b.lo, n)
           z == mm_free(k, b.lo)
           r == MoveTo(h, b.lo, asize, n)
<1>1. Apart(B, h.brk) /\ h.brk \in Nat /\ h.brk <= Limit
  BY HoldsFacts DEF Settled
<1>2. b \in BlockType /\ b.lo \in Nat /\ b.hi \in Nat /\ b.lo + 4 <= b.hi
  BY <1>1, BlockFacts
<1>3. r.heap = z /\ r.ptr = m.ptr
  BY DEF MoveTo, MovedTo
<1>4. big \in Nat /\ asize + 2 <= big
  BY AdjustedFacts
<1>5. PICK o : Malloced(h, B, big, m, o)
  BY MallocReaches
<1> DEFINE O == o.blocks
           R == MB!Release(O, b)
<1> HIDE DEF m, big
<1>6. /\ o \in MB!Allocations(B, h.brk, big) /\ m.ptr = o.ptr /\ m.heap.brk = o.brk
      /\ Settled(m.heap, O) /\ Carries(h, B, m.heap, O)
      /\ m.ptr # NULL /\ Serves(O, m.ptr, big)
      /\ \A c \in B : c.alloc => c.lo # m.ptr
  BY <1>5 DEF Malloced, m, Reaches
<1>7. PICK g \in O : g.alloc /\ g.lo = m.ptr /\ big <= g.hi - g.lo
  BY <1>6 DEF Serves
<1>8. /\ g \in BlockType /\ g.lo \in Nat /\ g.hi \in Nat
  <2>1. Apart(O, m.heap.brk) /\ m.heap.brk \in Nat /\ m.heap.brk <= Limit
    BY <1>6, HoldsFacts DEF Settled
  <2> QED
    BY <2>1, BlockFacts
<1>9. n > 0 /\ n + 2 <= g.hi - g.lo /\ asize + 2 <= g.hi - g.lo
  BY <1>2, <1>4, <1>7, <1>8
<1>10. b \in O /\ b # g /\ Keeps(h, m.heap, PayloadWords(b))
  BY <1>6, <1>7 DEF Carries
<1>11. k = memcpy(m.heap, g.lo, b.lo, n)
  BY <1>7
<1> HIDE DEF k, O
<1>12. /\ Settled(k, O) /\ k.brk = m.heap.brk
       /\ \A c \in O : c.alloc /\ c # g => Keeps(m.heap, k, PayloadWords(c))
       /\ \A i \in 0 .. (n - 1) : GET(k, g.lo + i) = GET(m.heap, b.lo + i)
  <2> DEFINE H == m.heap
             p == b.lo
             y == memcpy(H, g.lo, p, n)
  <2>1. Settled(H, O) /\ g \in O /\ g.alloc /\ p \in Nat /\ n > 0 /\ n + 2 <= g.hi - g.lo
    BY <1>2, <1>6, <1>7, <1>9
  <2>2. y = k
    BY <1>11
  <2> HIDE DEF H, p
  <2>3. /\ Settled(y, O) /\ y.brk = H.brk
        /\ \A c \in O : c.alloc /\ c # g => Keeps(H, y, PayloadWords(c))
        /\ \A i \in 0 .. (n - 1) : GET(y, g.lo + i) = GET(H, p + i)
    BY <2>1, CopyStored
  <2> HIDE DEF y
  <2> QED
    BY <2>2, <2>3 DEF H, p
<1>13. Reaches(k, O \ {b}, z, R) /\ z.brk = k.brk
  BY <1>10, <1>12, FreeReaches
<1> HIDE DEF z, R, r
<1>14. Carries(h, B \ {b}, z, R)
  <2> SUFFICES ASSUME NEW c \in B \ {b}, c.alloc
               PROVE  c \in R /\ Keeps(h, z, PayloadWords(c))
    BY DEF Carries
  <2>1. c \in O \ {b} /\ c # g /\ Keeps(h, m.heap, PayloadWords(c))
    BY <1>6, <1>7 DEF Carries
  <2>2. Keeps(m.heap, k, PayloadWords(c))
    BY <1>12, <2>1
  <2>3. c \in R /\ Keeps(k, z, PayloadWords(c))
    BY <1>13, <2>1 DEF Reaches, Carries
  <2> QED
    BY <2>1, <2>2, <2>3, KeepsTrans
<1>15. g \in R /\ Keeps(k, z, PayloadWords(g))
  BY <1>7, <1>10, <1>13 DEF Reaches, Carries
<1>16. Serves(R, m.ptr, asize)
  <2>1. asize <= g.hi - g.lo
    BY <1>8, <1>9
  <2> QED
    BY <1>7, <1>15, <2>1 DEF Serves
<1>17. ASSUME NEW w \in Nat, w + 2 <= asize, w + 2 <= b.hi - b.lo
       PROVE  WordsKept(h, b.lo, z, m.ptr, w)
  <2>1. WordsKept(h, b.lo, m.heap, b.lo, w)
    BY <1>2, <1>10, <1>17, PayloadKept
  <2>2. WordsKept(k, g.lo, z, g.lo, w)
    <3>1. w + 2 <= g.hi - g.lo
      BY <1>8, <1>9, <1>17
    <3> QED
      BY <1>8, <1>15, <3>1, PayloadKept
  <2>3. WordsKept(m.heap, b.lo, k, g.lo, w)
    <3>1. \A i \in 0 .. (w - 1) : i \in 0 .. (n - 1)
      BY <1>2, <1>17
    <3> QED
      BY <1>12, <3>1 DEF WordsKept
  <2> QED
    BY <1>7, <2>1, <2>2, <2>3 DEF WordsKept
<1>18. Resized(h, B, b, asize, r, R)
  BY <1>3, <1>6, <1>13, <1>14, <1>16, <1>17 DEF Resized, Reaches
<1>19. MovedAs(h, B, b, asize, r, o)
  BY <1>3, <1>6, <1>12, <1>13, <1>18 DEF MovedAs, big, R, O
<1> QED
  BY <1>19 DEF r

(* What a served call of mm_realloc on the block b does.                      *)
CanGrowIn(B, b, asize) ==
    \E n \in B : ~n.alloc /\ n.lo = b.hi /\ asize > MB!Size(b) /\ n.hi - b.lo >= asize

Reallocated(h, B, b, asize, r, C) ==
    /\ Resized(h, B, b, asize, r, C)
    /\ r.ptr # NULL
    /\ \/ /\ MB!Size(b) = asize
          /\ C = B /\ r.ptr = b.lo /\ r.heap.brk = h.brk
       \/ /\ MB!ShrinksInPlace(b, asize)
          /\ C = MB!Cut(B, b, b.hi, asize) /\ r.ptr = b.lo /\ r.heap.brk = h.brk
       \/ /\ \E n \in B : MB!GrowsInto(b, n, asize) /\ C = GrownInto(B, b, n, asize)
          /\ r.ptr = b.lo /\ r.heap.brk = h.brk
       \/ /\ asize # MB!Size(b) /\ ~MB!ShrinksInPlace(b, asize) /\ ~CanGrowIn(B, b, asize)
          /\ \E o : MovedAs(h, B, b, asize, r, o) /\ C = MB!Release(o.blocks, b)

(* mm_realloc, in every case that the code serves, on every settled heap.     *)
LEMMA ReallocResizes ==
    ASSUME NEW h, NEW B, Settled(h, B), NEW b \in B, b.alloc,
           NEW size \in Nat, size > 0, Served(h, b.lo, size)
    PROVE  \E C : Reallocated(h, B, b, AdjustedSize(size), mm_realloc(h, b.lo, size), C)
<1> DEFINE asize == AdjustedSize(size)
           current == b.hi - b.lo
           r == mm_realloc(h, b.lo, size)
           next == HDRP(NEXT_BLKP(h, b.lo))
           total == current + GET_SIZE(h, next)
           k == removeFreeBlock(h, NEXT_BLKP(h, b.lo))
<1>1. /\ Holds(h, B, FreePointers(B)) /\ Ended(h) /\ Covers(B, h.brk) /\ Apart(B, h.brk)
      /\ h.brk \in Nat /\ h.brk <= Limit /\ InUse(h)
  BY HoldsFacts DEF Settled
<1>2. /\ b \in BlockType /\ b.lo \in Nat /\ b.hi \in Nat /\ b.lo + 4 <= b.hi /\ b.lo # NULL
  BY <1>1, BlockFacts, LinkPtrFacts
<1>3. asize \in Nat /\ Even(asize) /\ 6 <= asize
  BY AdjustedFacts
<1>4. /\ GET_SIZE(h, HDRP(b.lo)) = current /\ NEXT_BLKP(h, b.lo) = b.hi /\ MB!Size(b) = current
      /\ current \in Nat
  BY <1>1, <1>2, BlockReads DEF MB!Size
<1>5. r = IF asize = current THEN [heap |-> h, ptr |-> b.lo]
          ELSE IF asize <= current
               THEN IF asize > MINIMUM /\ current - asize > MINIMUM
                    THEN [heap |-> CutAndFree(h, b.lo, asize, current), ptr |-> b.lo]
                    ELSE MoveTo(h, b.lo, asize, asize)
          ELSE IF GET_ALLOC(h, next) = 0 /\ total >= asize
               THEN [heap |-> CutAndFree(k, b.lo, asize, total), ptr |-> b.lo]
               ELSE MoveTo(h, b.lo, asize, current)
  BY <1>2, <1>4 DEF mm_realloc
<1>6. GET_ALLOC(h, next) \in {0, 1}
  <2>1. GET(h, next) \in Nat
    BY <1>1, GetIs
  <2> QED
    BY <2>1 DEF GET_ALLOC
<1>7. GET_ALLOC(h, next) = 0 <=> \E c \in B : c.lo = b.hi /\ ~c.alloc
  <2>1. NextAlloc(h, b.lo) <=> \A c \in B : c.lo = b.hi => c.alloc
    BY <1>1, NeighboursSeen
  <2> QED
    BY <1>6, <2>1 DEF NextAlloc
<1>8. \A c \in B : c.lo = b.hi => total = c.hi - b.lo /\ k = removeFreeBlock(h, c.lo)
  <2> SUFFICES ASSUME NEW c \in B, c.lo = b.hi
               PROVE  total = c.hi - b.lo /\ k = removeFreeBlock(h, c.lo)
    OBVIOUS
  <2>1. GET_SIZE(h, next) = c.hi - c.lo
    BY <1>1, <1>4, BlockReads
  <2>2. c.hi \in Nat /\ c.lo \in Nat
    BY <1>1, BlockFacts
  <2> QED
    BY <1>2, <1>4, <2>1, <2>2
<1>9. MB!ShrinksInPlace(b, asize) <=> asize <= current /\ asize > MINIMUM /\ current - asize > MINIMUM
  BY <1>3, <1>4, SameParams DEF MB!ShrinksInPlace, MINIMUM
<1>10. CanGrowIn(B, b, asize)
         <=> asize > current /\ GET_ALLOC(h, next) = 0 /\ total >= asize
  <2>1. CanGrowIn(B, b, asize) => asize > current /\ GET_ALLOC(h, next) = 0 /\ total >= asize
    BY <1>4, <1>7, <1>8 DEF CanGrowIn
  <2>2. ASSUME asize > current, GET_ALLOC(h, next) = 0, total >= asize
        PROVE  CanGrowIn(B, b, asize)
    <3>1. PICK c \in B : c.lo = b.hi /\ ~c.alloc
      BY <1>7, <2>2
    <3> QED
      BY <1>4, <1>8, <2>2, <3>1 DEF CanGrowIn
  <2> QED
    BY <2>1, <2>2
<1>11. /\ ~TightGrow(h, b.lo, size) /\ ~MoveFails(h, b.lo, size)
  BY <1>2 DEF Served
<1>20. GrowRemainder(h, b.lo, size) = total - asize /\ total \in Int
  <2> DEFINE x == GET_SIZE(h, HDRP(b.lo))
             y == GET_SIZE(h, HDRP(NEXT_BLKP(h, b.lo)))
  <2>1. GET(h, next) \in Nat
    BY <1>1, GetIs
  <2>2. y \in Int
    BY <2>1 DEF GET_SIZE
  <2>3. GrowRemainder(h, b.lo, size) = x + y - asize
    BY DEF GrowRemainder
  <2>4. x = current /\ total = current + y
    BY <1>4
  <2> HIDE DEF x, y, total, asize, current
  <2> QED
    BY <1>3, <1>4, <2>2, <2>3, <2>4
<1>12. GrowsInPlace(h, b.lo, size) <=> asize > current /\ GET_ALLOC(h, next) = 0 /\ total >= asize
  <2>1. GrowRemainder(h, b.lo, size) = total - asize
    BY <1>20
  <2>2. total \in Int
    BY <1>20
  <2> HIDE DEF total, next
  <2>3. total - asize >= 0 <=> total >= asize
    BY <1>3, <2>2
  <2> QED
    BY <1>4, <2>1, <2>3 DEF GrowsInPlace, next
<1>13. CanGrowIn(B, b, asize) => total - asize > 2
  <2>1. GrowRemainder(h, b.lo, size) = total - asize
    BY <1>20
  <2>2. \E c \in B : CanGrowIn(B, b, asize) => total = c.hi - b.lo /\ c.hi \in Nat
    BY <1>1, <1>8, BlockFacts DEF CanGrowIn
  <2>3. CanGrowIn(B, b, asize) => ~(total - asize <= 2)
    BY <1>10, <1>11, <1>12, <2>1 DEF TightGrow, DSIZE
  <2> HIDE DEF total
  <2> QED
    BY <1>2, <1>3, <2>2, <2>3
<1>14. /\ asize # current /\ ~MB!ShrinksInPlace(b, asize) /\ ~CanGrowIn(B, b, asize)
         => mm_malloc(h, asize).ptr # NULL
  <2>1. Moves(h, b.lo, size) => mm_malloc(h, asize).ptr # NULL
    BY <1>11 DEF MoveFails
  <2>2. Moves(h, b.lo, size)
          <=> asize # current /\ ~MB!ShrinksInPlace(b, asize) /\ ~CanGrowIn(B, b, asize)
    BY <1>4, <1>9, <1>10, <1>12 DEF Moves
  <2> QED
    BY <2>1, <2>2
<1> HIDE DEF asize, total, next, k
<1>15. CASE asize = current
  <2> DEFINE s == [heap |-> h, ptr |-> b.lo]
  <2>1. r = s
    BY <1>5, <1>15
  <2>2. s.heap = h /\ s.ptr = b.lo
    OBVIOUS
  <2>3. Carries(h, B \ {b}, h, B) /\ Keeps(h, h, PayloadWords(b))
    BY DEF Carries, Keeps
  <2>4. Serves(B, b.lo, asize)
    <3>1. asize <= b.hi - b.lo
      BY <1>2, <1>15
    <3> QED
      BY <3>1 DEF Serves
  <2>5. \A c \in B \ {b} : c.alloc => c.lo # b.lo
    BY <1>1, UniquePointer
  <2> HIDE DEF s, r
  <2>6. Resized(h, B, b, asize, s, B)
    BY <2>2, <2>3, <2>4, <2>5 DEF Resized, Reaches, WordsKept
  <2>7. Reallocated(h, B, b, asize, s, B)
    BY <1>2, <1>4, <1>15, <2>2, <2>6 DEF Reallocated
  <2> QED
    BY <2>1, <2>7 DEF asize, r
<1>16. CASE asize # current /\ MB!ShrinksInPlace(b, asize)
  <2> DEFINE s == [heap |-> CutAndFree(h, b.lo, asize, b.hi - b.lo), ptr |-> b.lo]
             C == MB!Cut(B, b, b.hi, asize)
  <2>1. r = s
    BY <1>5, <1>9, <1>16
  <2>2. Resized(h, B, b, asize, s, C) /\ s.heap.brk = h.brk
    BY <1>3, <1>16, ShrinkResizes
  <2>3. s.ptr = b.lo
    OBVIOUS
  <2> HIDE DEF s, r
  <2>4. Reallocated(h, B, b, asize, s, C)
    BY <1>2, <1>16, <2>2, <2>3 DEF Reallocated
  <2> QED
    BY <2>1, <2>4 DEF asize, r
<1>17. CASE CanGrowIn(B, b, asize)
  <2>1. PICK n \in B : ~n.alloc /\ n.lo = b.hi /\ asize > MB!Size(b) /\ n.hi - b.lo >= asize
    BY <1>17 DEF CanGrowIn
  <2> DEFINE s == [heap |-> CutAndFree(removeFreeBlock(h, n.lo), b.lo, asize, n.hi - b.lo),
                   ptr |-> b.lo]
             C == GrownInto(B, b, n, asize)
  <2>2. r = s
    <3>1. total = n.hi - b.lo /\ k = removeFreeBlock(h, n.lo)
      BY <1>8, <2>1
    <3>2. asize > current
      BY <1>4, <2>1
    <3>3. r = [heap |-> CutAndFree(k, b.lo, asize, total), ptr |-> b.lo]
      BY <1>3, <1>4, <1>5, <1>10, <1>17, <3>2
    <3> QED
      BY <3>1, <3>3
  <2>3. MB!GrowsInto(b, n, asize)
    <3>1. n.hi - b.lo - asize > 2
      BY <1>8, <1>13, <1>17, <2>1
    <3> QED
      BY <2>1, <3>1, SameParams DEF MB!GrowsInto, DSIZE
  <2>4. Resized(h, B, b, asize, s, C) /\ s.heap.brk = h.brk
    BY <1>3, <2>3, GrowResizes, SMTT(60)
  <2>5. s.ptr = b.lo
    OBVIOUS
  <2> HIDE DEF s, r
  <2>6. Reallocated(h, B, b, asize, s, C)
    BY <1>2, <2>3, <2>4, <2>5 DEF Reallocated
  <2> QED
    BY <2>2, <2>6 DEF asize, r
<1>18. CASE asize # current /\ ~MB!ShrinksInPlace(b, asize) /\ ~CanGrowIn(B, b, asize)
  <2>1. PICK n : /\ n \in Nat /\ (n = asize \/ n = b.hi - b.lo) /\ n <= asize
                 /\ r = MoveTo(h, b.lo, asize, n)
    <3>1. CASE asize <= current
      <4>1. r = MoveTo(h, b.lo, asize, asize)
        BY <1>5, <1>9, <1>18, <3>1
      <4> QED
        BY <1>3, <4>1
    <3>2. CASE ~(asize <= current)
      <4>1. ~(GET_ALLOC(h, next) = 0 /\ total >= asize)
        BY <1>3, <1>4, <1>10, <1>18, <3>2
      <4>2. r = MoveTo(h, b.lo, asize, current)
        BY <1>5, <1>18, <3>2, <4>1
      <4>3. current <= asize
        BY <1>3, <1>4, <3>2
      <4> QED
        BY <1>4, <4>2, <4>3
    <3> QED
      BY <3>1, <3>2
  <2>2. \E o : MovedAs(h, B, b, asize, MoveTo(h, b.lo, asize, n), o)
    BY <1>3, <1>14, <1>18, <2>1, MoveResizes
  <2>3. PICK o : MovedAs(h, B, b, asize, r, o)
    BY <2>1, <2>2
  <2> DEFINE C == MB!Release(o.blocks, b)
  <2> HIDE DEF r
  <2>4. Resized(h, B, b, asize, r, C) /\ r.ptr # NULL
    BY <2>3 DEF MovedAs
  <2>5. Reallocated(h, B, b, asize, r, C)
    BY <1>4, <1>18, <2>3, <2>4 DEF Reallocated
  <2> QED
    BY <2>5 DEF asize, r
<1> QED
  BY <1>15, <1>16, <1>17, <1>18

-----------------------------------------------------------------------------
(* The walk of the blocks                                                     *)

BlockStep(h, f, bp) ==
    IF GET_SIZE(h, HDRP(bp)) = 0 THEN {} ELSE {bp} \cup f[NEXT_BLKP(h, bp)]

(* The recursion of BlockPtrs has a solution on every heap: the pointers that *)
(* lie in every set closed under NEXT_BLKP.                                   *)
LEMMA WalkExists ==
    ASSUME NEW h, InUse(h)
    PROVE  \E f : f = [bp \in Int |-> BlockStep(h, f, bp)]
<1> DEFINE Stops(x) == GET_SIZE(h, HDRP(x)) = 0
           Nxt(x) == NEXT_BLKP(h, x)
           Closed(S) == \A x \in S : ~Stops(x) => Nxt(x) \in S
           Reach(bp) == {x \in Int : \A S \in SUBSET Int : bp \in S /\ Closed(S) => x \in S}
           f == [bp \in Int |-> {x \in Reach(bp) : ~Stops(x)}]
<1>1. \A x \in Int : Nxt(x) \in Int
  <2>1. \A x : GET(h, x) \in Nat
    BY GetIs
  <2> QED
    BY <2>1 DEF NEXT_BLKP, GET_SIZE, WSIZE
<1>2. \A bp \in Int : f[bp] = {x \in Reach(bp) : ~Stops(x)}
  OBVIOUS
<1>3. \A bp, x : BlockStep(h, x, bp) = IF Stops(bp) THEN {} ELSE {bp} \cup x[Nxt(bp)]
  BY DEF BlockStep
<1> HIDE DEF Stops, Nxt
<1>4. ASSUME NEW bp \in Int
      PROVE  f[bp] = BlockStep(h, f, bp)
  <2>1. bp \in Reach(bp)
    OBVIOUS
  <2>2. CASE Stops(bp)
    <3> DEFINE S == {bp}
    <3>1. S \in SUBSET Int /\ bp \in S /\ Closed(S)
      BY <2>2
    <3>2. \A x \in Reach(bp) : x \in S
      BY <3>1
    <3>3. {x \in Reach(bp) : ~Stops(x)} = {}
      BY <2>2, <3>2
    <3> HIDE DEF f
    <3> QED
      BY <1>2, <1>3, <2>2, <3>3
  <2>3. CASE ~Stops(bp)
    <3> DEFINE n == Nxt(bp)
               S == {bp} \cup Reach(n)
    <3>1. n \in Int
      BY <1>1
    <3> HIDE DEF n
    <3>2. ASSUME NEW x \in Reach(n)
          PROVE  x \in Reach(bp)
      <4> SUFFICES ASSUME NEW T \in SUBSET Int, bp \in T, Closed(T)
                   PROVE  x \in T
        OBVIOUS
      <4>1. n \in T
        BY <2>3 DEF n
      <4> QED
        BY <4>1
    <3>3. ASSUME NEW x \in Reach(n), ~Stops(x)
          PROVE  Nxt(x) \in Reach(n)
      <4>1. Nxt(x) \in Int
        BY <1>1
      <4> SUFFICES ASSUME NEW T \in SUBSET Int, n \in T, Closed(T)
                   PROVE  Nxt(x) \in T
        BY <4>1
      <4>2. x \in T
        OBVIOUS
      <4> QED
        BY <3>3, <4>2
    <3>4. n \in Reach(n)
      BY <3>1
    <3>5. S \in SUBSET Int /\ bp \in S
      OBVIOUS
    <3>6. Closed(S)
      BY <3>3, <3>4 DEF n
    <3>7. \A x \in Reach(bp) : x \in S
      <4> HIDE DEF S
      <4> QED
        BY <3>5, <3>6
    <3>8. \A x : x \in Reach(bp) <=> x \in {bp} \cup Reach(n)
      <4> HIDE DEF Reach
      <4> QED
        BY <2>1, <3>2, <3>7
    <3>9. {x \in Reach(bp) : ~Stops(x)} = {bp} \cup {x \in Reach(n) : ~Stops(x)}
      <4> HIDE DEF Reach
      <4> QED
        BY <2>3, <3>8
    <3>10. f[bp] = {bp} \cup f[n]
      <4> HIDE DEF Reach, f
      <4> QED
        BY <1>2, <3>1, <3>9
    <3> HIDE DEF f
    <3> QED
      BY <1>3, <2>3, <3>10 DEF n
  <2> QED
    BY <2>2, <2>3
<1>5. f = [bp \in Int |-> BlockStep(h, f, bp)]
  <2> DEFINE g == [bp \in Int |-> BlockStep(h, f, bp)]
  <2>1. \A bp \in Int : f[bp] = g[bp]
    BY <1>4
  <2>2. f = [bp \in Int |-> f[bp]] /\ g = [bp \in Int |-> g[bp]]
    OBVIOUS
  <2> HIDE DEF f
  <2> QED
    BY <2>1, <2>2
<1> HIDE DEF f
<1> QED
  BY <1>5

(* So BlockPtrs obeys its recursion, on every heap.                           *)
LEMMA WalkSteps ==
    ASSUME NEW h, InUse(h)
    PROVE  \E f : /\ BlockPtrs(h) = f[FirstBlock]
                  /\ \A bp \in Int : f[bp] = BlockStep(h, f, bp)
<1> DEFINE Is(g) == g = [bp \in Int |-> BlockStep(h, g, bp)]
           from == CHOOSE g : Is(g)
<1>1. Is(from)
  <2>1. \E g : Is(g)
    BY WalkExists
  <2> QED
    BY <2>1
<1>2. BlockPtrs(h) = from[FirstBlock]
  BY DEF BlockPtrs, BlockStep
<1> HIDE DEF from
<1>3. \A bp \in Int : from[bp] = BlockStep(h, from, bp)
  BY <1>1
<1> QED
  BY <1>2, <1>3

(* The walk from each block meets it and the blocks after it.                 *)
LEMMA WalkMeets ==
    ASSUME NEW h, NEW B, Settled(h, B),
           NEW f, \A bp \in Int : f[bp] = BlockStep(h, f, bp)
    PROVE  \A b \in B : f[b.lo] = {c.lo : c \in {x \in B : b.lo <= x.lo}}
<1> DEFINE After(p) == {c.lo : c \in {x \in B : p <= x.lo}}
           top == h.brk
           Bad == {b \in B : f[b.lo] # After(b.lo)}
           Left == {top - b.lo : b \in Bad}
<1>1. /\ Holds(h, B, FreePointers(B)) /\ Ended(h) /\ Covers(B, top) /\ Apart(B, top)
      /\ top \in Nat /\ top <= Limit /\ InUse(h)
  BY HoldsFacts DEF Settled
<1>2. \A b \in B : b.lo \in Nat /\ b.hi \in Nat /\ b.lo + 4 <= b.hi /\ b.hi <= top
  BY <1>1, BlockFacts
<1>3. \A b, c \in B : b = c \/ b.hi <= c.lo \/ c.hi <= b.lo
  BY <1>1 DEF Apart
<1>4. \A b \in B : GET_SIZE(h, HDRP(b.lo)) = b.hi - b.lo /\ NEXT_BLKP(h, b.lo) = b.hi
  BY <1>1, BlockReads
<1>5. \A b \in B : f[b.lo] = {b.lo} \cup f[b.hi]
  <2> SUFFICES ASSUME NEW b \in B
               PROVE  f[b.lo] = {b.lo} \cup f[b.hi]
    OBVIOUS
  <2> DEFINE p == b.lo
             q == b.hi
  <2>1. p \in Int /\ q - p # 0
    BY <1>2
  <2>2. GET_SIZE(h, HDRP(p)) # 0 /\ NEXT_BLKP(h, p) = q
    BY <1>4, <2>1
  <2> HIDE DEF p, q
  <2>3. f[p] = BlockStep(h, f, p)
    BY <2>1
  <2>4. BlockStep(h, f, p) = {p} \cup f[q]
    BY <2>2 DEF BlockStep
  <2> QED
    BY <2>3, <2>4 DEF p, q
<1>6. f[top] = {}
  <2>1. GET_SIZE(h, HDRP(top)) = 0
    BY <1>1 DEF Ended, HDRP, WSIZE, GET_SIZE
  <2>2. top \in Int
    BY <1>1
  <2> HIDE DEF top
  <2>3. f[top] = BlockStep(h, f, top)
    BY <2>2
  <2>4. BlockStep(h, f, top) = {}
    BY <2>1 DEF BlockStep
  <2> QED
    BY <2>3, <2>4
<1>7. \A b \in B : After(b.lo) = {b.lo} \cup After(b.hi)
  <2>1. \A b, c \in B : b.lo <= c.lo <=> c = b \/ b.hi <= c.lo
    BY <1>2, <1>3
  <2> QED
    BY <2>1
<1>8. After(top) = {}
  BY <1>1, <1>2
<1> HIDE DEF After
<1>9. Bad = {}
  <2> SUFFICES ASSUME Bad # {} PROVE FALSE
    OBVIOUS
  <2>1. Left \subseteq Nat /\ Left # {}
    BY <1>1, <1>2
  <2>2. PICK n \in Left : \A m \in Left : n <= m
    BY <2>1, LeastNumber
  <2>3. PICK b \in Bad : n = top - b.lo
    BY <2>2
  <2>4. CASE b.hi = top
    BY <1>5, <1>6, <1>7, <1>8, <2>3, <2>4
  <2>5. CASE b.hi # top
    <3>1. PICK c \in B : c.lo = b.hi
      BY <1>1, <2>5 DEF Covers
    <3>2. c \notin Bad
      <4> SUFFICES ASSUME c \in Bad PROVE FALSE
        OBVIOUS
      <4>1. top - c.lo \in Left
        OBVIOUS
      <4>2. n <= top - c.lo
        BY <2>2, <4>1
      <4> QED
        BY <1>1, <1>2, <2>3, <3>1, <4>2
    <3>3. f[c.lo] = After(c.lo)
      BY <3>2
    <3> QED
      BY <1>5, <1>7, <2>3, <3>1, <3>3
  <2> QED
    BY <2>4, <2>5
<1> QED
  BY <1>9 DEF After

(* What the tags encode, between two calls.                                   *)
LEMMA Encodes ==
    ASSUME NEW h, NEW B, Settled(h, B), B # {}
    PROVE  /\ BlockPtrs(h) = Pointers(B)
           /\ Blocks(h) = B
           /\ FreePtrs(h) = FreePointers(B)
<1>1. /\ Holds(h, B, FreePointers(B)) /\ Ended(h) /\ Covers(B, h.brk) /\ Apart(B, h.brk)
      /\ h.brk \in Nat /\ h.brk <= Limit /\ InUse(h)
  BY HoldsFacts DEF Settled
<1>2. \A b \in B : /\ b \in BlockType /\ b.lo \in Nat /\ b.hi \in Nat /\ b.lo + 4 <= b.hi
                   /\ b.hi <= h.brk /\ FirstBlock <= b.lo
  BY <1>1, BlockFacts
<1>3. PICK f : /\ BlockPtrs(h) = f[FirstBlock]
               /\ \A bp \in Int : f[bp] = BlockStep(h, f, bp)
  BY <1>1, WalkSteps
<1>4. PICK b \in B : b.lo = FirstBlock
  <2>1. h.brk # FirstBlock
    BY <1>2, ArenaBounds
  <2> QED
    BY <1>1, <2>1 DEF Covers
<1>5. f[b.lo] = {c.lo : c \in {x \in B : b.lo <= x.lo}}
  BY <1>3, WalkMeets
<1>6. {x \in B : b.lo <= x.lo} = B
  BY <1>2, <1>4
<1>7. BlockPtrs(h) = Pointers(B)
  BY <1>3, <1>4, <1>5, <1>6 DEF Pointers
<1>8. ASSUME NEW c \in B
      PROVE  BlockAt(h, c.lo) = c /\ (GET_ALLOC(h, HDRP(c.lo)) = 0 <=> ~c.alloc)
  <2>1. NEXT_BLKP(h, c.lo) = c.hi /\ GET_ALLOC(h, HDRP(c.lo)) = Bit(c)
    BY <1>1, BlockReads
  <2>2. c \in BlockType
    BY <1>2
  <2>3. c = [lo |-> c.lo, hi |-> c.hi, alloc |-> c.alloc] /\ c.alloc \in BOOLEAN
    BY <2>2 DEF BlockType
  <2>4. (GET_ALLOC(h, HDRP(c.lo)) = 1) = c.alloc
    BY <2>1, <2>3 DEF Bit
  <2> QED
    BY <2>1, <2>3, <2>4 DEF BlockAt, Bit
<1>9. Blocks(h) = B
  <2>1. Blocks(h) = {BlockAt(h, c.lo) : c \in B}
    BY <1>7 DEF Blocks, Pointers
  <2> QED
    BY <1>8, <2>1
<1>10. FreePtrs(h) = FreePointers(B)
  BY <1>7, <1>8 DEF FreePtrs, FreePointers, Pointers
<1> QED
  BY <1>7, <1>9, <1>10

-----------------------------------------------------------------------------
(* What a settled heap satisfies                                              *)

(* Distinct terms f[0], .., f[N-1] that are the members of S count them.      *)
LEMMA Enumerated ==
    ASSUME NEW S, NEW N \in Nat, NEW f,
           \A m \in 0 .. (N - 1) : f[m] \in S,
           \A x \in S : \E m \in 0 .. (N - 1) : f[m] = x,
           \A m, l \in 0 .. (N - 1) : f[m] = f[l] => m = l
    PROVE  /\ Cardinality(S) = N
           /\ {f[m] : m \in 0 .. (N - 1)} = S
<1> DEFINE I == 0 .. (N - 1)
           g == [m \in I |-> f[m]]
<1>1. IsFiniteSet(I) /\ Cardinality(I) = N
  <2>1. /\ IsFiniteSet(0 .. (N - 1))
        /\ Cardinality(0 .. (N - 1)) = IF 0 > N - 1 THEN 0 ELSE N - 1 - 0 + 1
    BY FS_Interval
  <2> QED
    BY <2>1
<1> HIDE DEF I
<1>2. g \in [I -> S]
  BY DEF I
<1>3. \A m \in I : g[m] = f[m]
  OBVIOUS
<1>4. \A m, l \in I : f[m] = f[l] => m = l
  BY DEF I
<1>5. \A x \in S : \E m \in I : f[m] = x
  BY DEF I
<1>6. DOMAIN g = I
  OBVIOUS
<1> HIDE DEF g
<1>7. g \in Injection(I, S)
  BY <1>2, <1>3, <1>4, <1>6 DEF Injection, IsInjective
<1>8. g \in Surjection(I, S)
  BY <1>2, <1>3, <1>5 DEF Surjection
<1>9. ExistsBijection(I, S)
  BY <1>7, <1>8 DEF ExistsBijection, Bijection
<1>10. Cardinality(S) = N
  BY <1>1, <1>9, FS_Bijection
<1>11. {f[m] : m \in I} = S
  <2>1. \A m \in I : f[m] \in S
    BY DEF I
  <2> QED
    BY <1>5, <2>1
<1> QED
  BY <1>10, <1>11 DEF I

(* The tags of a settled heap tile it.                                        *)
LEMMA SettledTiled ==
    ASSUME NEW B, Settled(heap, B), B # {}
    PROVE  HeapTiled
<1>1. /\ Holds(heap, B, FreePointers(B)) /\ Ended(heap) /\ Covers(B, heap.brk) /\ Apart(B, heap.brk)
      /\ heap.brk \in Nat /\ heap.brk <= Limit
  BY HoldsFacts DEF Settled
<1>2. BlockPtrs(heap) = Pointers(B)
  BY Encodes
<1>3. \A b \in B : /\ b.lo \in Nat /\ b.hi \in Nat /\ b.lo + 4 <= b.hi /\ b.hi <= heap.brk
                   /\ FirstBlock <= b.lo /\ Even(b.lo)
  BY <1>1, BlockFacts
<1>4. \A b \in B : /\ GET_SIZE(heap, HDRP(b.lo)) = b.hi - b.lo
                   /\ NEXT_BLKP(heap, b.lo) = b.hi
                   /\ GET(heap, HDRP(b.lo)) = GET(heap, FTRP(heap, b.lo))
  BY <1>1, BlockReads
<1>5. \A b \in B : /\ b.lo % 2 = 0
                   /\ NEXT_BLKP(heap, b.lo) <= heap.brk
                   /\ GET_SIZE(heap, HDRP(b.lo)) >= 4
  <2> SUFFICES ASSUME NEW b \in B
               PROVE  /\ b.lo % 2 = 0
                      /\ NEXT_BLKP(heap, b.lo) <= heap.brk
                      /\ GET_SIZE(heap, HDRP(b.lo)) >= 4
    OBVIOUS
  <2>1. b.lo % 2 = 0
    BY <1>3 DEF Even
  <2>2. b.hi - b.lo >= 4
    BY <1>3
  <2> QED
    BY <1>3, <1>4, <2>1, <2>2
<1>6. \E b \in B : NEXT_BLKP(heap, b.lo) = heap.brk
  <2>1. heap.brk # FirstBlock
    BY <1>1, <1>3, ArenaBounds
  <2> QED
    BY <1>1, <1>4, <2>1 DEF Covers
<1>7. GET(heap, HDRP(heap.brk)) = PACK(0, 1)
  BY <1>1 DEF Ended, HDRP, WSIZE, PACK
<1> QED
  BY <1>2, <1>4, <1>5, <1>6, <1>7 DEF HeapTiled, Pointers

(* The free list of a settled heap is exact.                                  *)
LEMMA SettledList ==
    ASSUME NEW B, Settled(heap, B), B # {}
    PROVE  FreeListExact
<1> DEFINE node == FreeListNode(heap)
           S == FreePtrs(heap)
<1>1. Linked(heap, S)
  <2>1. Holds(heap, B, FreePointers(B)) /\ S = FreePointers(B)
    BY Encodes DEF Settled
  <2> QED
    BY <2>1 DEF Holds
<1>2. PICK N : ListRuns(heap, S, N)
  BY <1>1, ListWalk
<1> HIDE DEF node, S
<1>3. /\ N \in Nat
      /\ node[N] = Prologue
      /\ \A m \in 0 .. (N - 1) : node[m] \in S
      /\ \A x \in S : \E m \in 0 .. (N - 1) : node[m] = x
      /\ \A m, l \in 0 .. N : node[m] = node[l] => m = l
      /\ PREV_FREE(heap, node[0]) = NULL
      /\ \A m \in 1 .. N : PREV_FREE(heap, node[m]) = node[m - 1]
  BY <1>2, ScanNodes DEF ListRuns, node
<1>4. \A m, l \in 0 .. (N - 1) : node[m] = node[l] => m = l
  BY <1>3
<1>5. Cardinality(S) = N /\ {node[m] : m \in 0 .. (N - 1)} = S
  BY <1>3, <1>4, Enumerated
<1>6. /\ N \in 0 .. Cardinality(S)
      /\ node[N] = Prologue
      /\ N = Cardinality(S)
      /\ {node[m] : m \in 0 .. (N - 1)} = S
      /\ PREV_FREE(heap, node[0]) = NULL
      /\ \A m \in 1 .. N : PREV_FREE(heap, node[m]) = node[m - 1]
  BY <1>3, <1>5
<1> QED
  BY <1>6 DEF FreeListExact, node, S

(* mm_malloc answers NULL on a settled heap only when it must.                *)
LEMMA SettledServes ==
    ASSUME NEW B, Settled(heap, B), B # {}
    PROVE  FailsOnlyWhenFull
<1>1. FreePtrs(heap) = FreePointers(B)
  BY Encodes
<1>2. /\ Holds(heap, B, FreePointers(B)) /\ Apart(B, heap.brk)
      /\ heap.brk \in Nat /\ heap.brk <= Limit
  BY HoldsFacts DEF Settled
<1> SUFFICES ASSUME NEW size \in Sizes \ {0}, mm_malloc(heap, size).ptr = NULL
             PROVE  /\ \A bp \in FreePtrs(heap) : GET_SIZE(heap, HDRP(bp)) < AdjustedSize(size)
                    /\ heap.brk + AdjustedSize(size) > Limit
  BY DEF FailsOnlyWhenFull
<1>3. size \in Nat /\ size > 0
  BY SizesAssumption
<1> DEFINE asize == AdjustedSize(size)
           r == mm_malloc(heap, size)
<1>4. asize \in Nat
  BY <1>3, AdjustedFacts
<1>5. PICK o : Malloced(heap, B, asize, r, o)
  BY <1>3, MallocReaches
<1> HIDE DEF asize, r
<1>6. MB!Fits(B, asize) = {} /\ heap.brk + asize > Limit
  BY <1>5 DEF Malloced, r
<1>7. ASSUME NEW b \in B, ~b.alloc
      PROVE  GET_SIZE(heap, HDRP(b.lo)) < asize
  <2>1. GET_SIZE(heap, HDRP(b.lo)) = b.hi - b.lo
    BY <1>2, BlockReads
  <2>2. b.hi - b.lo \in Nat
    BY <1>2, BlockFacts
  <2>3. b \notin MB!Fits(B, asize)
    BY <1>6
  <2>4. ~(b.hi - b.lo >= asize)
    BY <1>7, <2>3 DEF MB!Fits, MB!Size
  <2> QED
    BY <1>4, <2>1, <2>2, <2>4
<1>8. \A bp \in FreePtrs(heap) : GET_SIZE(heap, HDRP(bp)) < asize
  BY <1>1, <1>7 DEF FreePointers
<1> QED
  BY <1>6, <1>8 DEF asize

-----------------------------------------------------------------------------
(* The client and its payloads                                                *)

(* Each slot in use points at a block in use of its own, in which its payload *)
(* fits.                                                                      *)
Owns(B, l) ==
    /\ l \in Slots
    /\ \A id \in Ids : IsLive(l[id]) =>
          \E b \in B : b.alloc /\ b.lo = l[id].ptr /\ l[id].size + 2 <= b.hi - b.lo
    /\ \A id, other \in Ids : IsLive(l[id]) /\ l[id].ptr = l[other].ptr => id = other
    /\ \A id \in Ids : ~IsLive(l[id]) => l[id] = NoBlock

(* Its payload holds what the client stored.                                  *)
Intact(h, l) ==
    \A id \in Ids : IsLive(l[id]) =>
        \A i \in 0 .. (l[id].size - 1) : GET(h, l[id].ptr + i) = FillWord(id)

(* The package between two calls, with the blocks B and the slots l.          *)
Serving(h, B, l) == B # {} /\ Settled(h, B) /\ Owns(B, l) /\ Intact(h, l)

Empty == [id \in Ids |-> NoBlock]
Without(l, id) == [l EXCEPT ![id] = NoBlock]
With(l, id, ptr, size) == [l EXCEPT ![id] = [ptr |-> ptr, size |-> size]]

(* What a slot fills its payload with is a word.                              *)
LEMMA FillWordNat ==
    ASSUME NEW id \in Ids
    PROVE  FillWord(id) \in Nat
<1>1. id \in Nat /\ Limit \in Nat
  BY IdsAssumption, ArenaBounds
<1> DEFINE w == 2 * Limit + 1
<1>2. w \in Nat
  BY <1>1
<1> HIDE DEF w
<1>3. id * w \in Nat
  BY <1>1, <1>2
<1> QED
  BY <1>3 DEF FillWord, w

(* The call was about the slot id: the blocks of the other slots are in A.    *)
Spares(B, l, id, A) ==
    /\ A \subseteq B
    /\ \A b \in B : b.alloc /\ b \notin A => b.lo = l[id].ptr

(* The block of another slot is none of those the call was about.             *)
LEMMA OthersSpared ==
    ASSUME NEW h, NEW B, NEW l, Serving(h, B, l), NEW id \in Ids, NEW A, Spares(B, l, id, A),
           NEW other \in Ids, other # id, IsLive(l[other])
    PROVE  \E b \in A : b.alloc /\ b.lo = l[other].ptr /\ l[other].size + 2 <= b.hi - b.lo
<1>1. PICK b \in B : b.alloc /\ b.lo = l[other].ptr /\ l[other].size + 2 <= b.hi - b.lo
  BY DEF Serving, Owns
<1>2. l[other].ptr # l[id].ptr
  BY DEF Serving, Owns
<1>3. b \in A
  BY <1>1, <1>2 DEF Spares
<1> QED
  BY <1>1, <1>3

(* The other slots after the call.                                            *)
LEMMA OthersServed ==
    ASSUME NEW h, NEW B, NEW l, Serving(h, B, l), NEW id \in Ids, NEW A, Spares(B, l, id, A),
           NEW k, NEW C, Reaches(h, A, k, C), C # {}
    PROVE  Serving(k, C, Without(l, id))
<1> DEFINE m == Without(l, id)
<1>1. l \in Slots /\ Owns(B, l) /\ Intact(h, l) /\ Settled(h, B)
  BY DEF Serving, Owns
<1>2. m \in Slots /\ m[id] = NoBlock /\ ~IsLive(m[id]) /\ \A other \in Ids : other # id => m[other] = l[other]
  BY <1>1 DEF Slots, NoBlock, NULL, IsLive, Without
<1>3. Settled(k, C) /\ \A b \in A : b.alloc => b \in C /\ Keeps(h, k, PayloadWords(b))
  BY DEF Reaches, Carries
<1> HIDE DEF m
<1>4. ASSUME NEW other \in Ids, IsLive(m[other])
      PROVE  /\ \E b \in C : b.alloc /\ b.lo = m[other].ptr /\ m[other].size + 2 <= b.hi - b.lo
             /\ \A i \in 0 .. (m[other].size - 1) : GET(k, m[other].ptr + i) = FillWord(other)
  <2>1. other # id /\ m[other] = l[other] /\ IsLive(l[other])
    BY <1>2, <1>4
  <2>2. PICK b \in A : b.alloc /\ b.lo = l[other].ptr /\ l[other].size + 2 <= b.hi - b.lo
    BY <2>1, OthersSpared
  <2>3. b \in C /\ Keeps(h, k, PayloadWords(b))
    BY <1>3, <2>2
  <2>4. b \in BlockType
    BY <1>3, <2>3, HoldsFacts, BlockFacts DEF Settled, Apart
  <2>5. \A i \in 0 .. (l[other].size - 1) : GET(h, l[other].ptr + i) = FillWord(other)
    BY <1>1, <2>1 DEF Intact
  <2>6. l[other].size \in Nat /\ l[other].ptr \in Nat
    BY <1>1 DEF Slots
  <2>7. ASSUME NEW i \in 0 .. (l[other].size - 1)
        PROVE  GET(k, l[other].ptr + i) = FillWord(other)
    <3> DEFINE a == l[other].ptr + i
    <3>1. a \in PayloadWords(b)
      BY <2>2, <2>4, <2>6 DEF PayloadWords, BlockType
    <3>2. GET(h, a) = FillWord(other)
      BY <2>5
    <3> HIDE DEF a
    <3>3. GET(k, a) = GET(h, a)
      BY <2>3, <3>1 DEF Keeps
    <3> QED
      BY <3>2, <3>3 DEF a
  <2> QED
    BY <2>1, <2>2, <2>3, <2>7
<1>5. ASSUME NEW i \in Ids, NEW j \in Ids, IsLive(m[i]), m[i].ptr = m[j].ptr
      PROVE  i = j
  <2>1. i # id /\ m[i] = l[i] /\ IsLive(l[i])
    BY <1>2, <1>5
  <2>2. IsLive(m[j])
    BY <1>5 DEF IsLive
  <2>3. m[j] = l[j]
    BY <1>2, <2>2
  <2> QED
    BY <1>1, <1>5, <2>1, <2>3 DEF Owns
<1>6. \A other \in Ids : ~IsLive(m[other]) => m[other] = NoBlock
  BY <1>1, <1>2 DEF Owns
<1>7. Owns(C, m)
  BY <1>2, <1>4, <1>5, <1>6 DEF Owns
<1>8. Intact(k, m)
  BY <1>4 DEF Intact
<1> QED
  BY <1>3, <1>7, <1>8 DEF Serving, m

Unused(l, ptr) == \A id \in Ids : l[id].ptr # ptr
HoldsFill(k, id, ptr, kept, size) ==
    \A i \in 0 .. (size - 1) : i < kept => GET(k, ptr + i) = FillWord(id)

(* The client takes the block of C at ptr for the slot id, of which its first *)
(* kept words hold the slot's fill.                                           *)
Takes(k, C, l, id, ptr, kept, size) ==
    /\ kept \in Nat /\ size \in Nat
    /\ Serving(k, C, l) /\ l[id] = NoBlock
    /\ Serves(C, ptr, AdjustedSize(size)) /\ Unused(l, ptr)
    /\ HoldsFill(k, id, ptr, kept, size)

(* The client's memset leaves the package serving, with the slot in use.      *)
LEMMA FillServes ==
    ASSUME NEW k, NEW C, NEW l, NEW id \in Ids, NEW ptr, NEW kept, NEW size,
           Takes(k, C, l, id, ptr, kept, size)
    PROVE  /\ Serving(FillFrom(k, id, ptr, kept, size), C, With(l, id, ptr, size))
           /\ FillFrom(k, id, ptr, kept, size).brk = k.brk
<1> DEFINE f == FillFrom(k, id, ptr, kept, size)
           m == With(l, id, ptr, size)
<1>0. /\ kept \in Nat /\ size \in Nat
      /\ Serving(k, C, l) /\ l[id] = NoBlock
      /\ Serves(C, ptr, AdjustedSize(size)) /\ Unused(l, ptr)
      /\ HoldsFill(k, id, ptr, kept, size)
  BY DEF Takes
<1>1. PICK g \in C : g.alloc /\ g.lo = ptr /\ AdjustedSize(size) <= g.hi - g.lo
  BY <1>0 DEF Serves
<1>2. /\ l \in Slots /\ Owns(C, l) /\ Intact(k, l) /\ Settled(k, C) /\ C # {}
      /\ C \subseteq BlockType
  BY <1>0, HoldsFacts DEF Serving, Owns, Settled, Apart
<1>3. /\ g \in BlockType /\ g.lo \in Nat /\ g.hi \in Nat
  BY <1>2 DEF BlockType
<1>4. size + 2 <= g.hi - g.lo
  BY <1>0, <1>1, <1>3 DEF AdjustedSize, MAX, ALIGN, DSIZE, MINIMUM
<1>5. /\ Settled(f, C) /\ f.brk = k.brk
      /\ \A c \in C : c.alloc /\ c # g => Keeps(k, f, PayloadWords(c))
      /\ \A i \in 0 .. (size - 1) :
            GET(f, ptr + i) = IF i < kept THEN GET(k, ptr + i) ELSE FillWord(id)
  BY <1>0, <1>1, <1>2, <1>4, FillStored, FillWordNat
<1>6. m \in Slots /\ m[id] = [ptr |-> ptr, size |-> size] /\ \A other \in Ids : other # id => m[other] = l[other]
  BY <1>0, <1>1, <1>2, <1>3 DEF Slots, With
<1>7. \A i \in 0 .. (size - 1) : GET(f, ptr + i) = FillWord(id)
  BY <1>0, <1>5 DEF HoldsFill
<1>13. \A other \in Ids : l[other].ptr # ptr
  BY <1>0 DEF Unused
<1> HIDE DEF f, m
<1>8. ASSUME NEW other \in Ids, IsLive(m[other])
      PROVE  /\ \E b \in C : b.alloc /\ b.lo = m[other].ptr /\ m[other].size + 2 <= b.hi - b.lo
             /\ \A i \in 0 .. (m[other].size - 1) : GET(f, m[other].ptr + i) = FillWord(other)
  <2>1. CASE other = id
    <3>1. m[other].ptr = ptr /\ m[other].size = size
      BY <1>6, <2>1
    <3> QED
      BY <1>1, <1>4, <1>7, <2>1, <3>1
  <2>2. CASE other # id
    <3>1. m[other] = l[other] /\ IsLive(l[other])
      BY <1>6, <1>8, <2>2
    <3>2. PICK b \in C : b.alloc /\ b.lo = l[other].ptr /\ l[other].size + 2 <= b.hi - b.lo
      BY <1>2, <3>1 DEF Owns
    <3>3. Keeps(k, f, PayloadWords(b))
      <4>1. b # g
        BY <1>1, <1>13, <3>2
      <4> QED
        BY <1>5, <3>2, <4>1
    <3>4. l[other].size \in Nat /\ l[other].ptr \in Nat /\ b \in BlockType
      BY <1>2 DEF Slots
    <3>5. ASSUME NEW i \in 0 .. (l[other].size - 1)
          PROVE  GET(f, l[other].ptr + i) = FillWord(other)
      <4> DEFINE a == l[other].ptr + i
      <4>1. a \in PayloadWords(b)
        BY <3>2, <3>4 DEF PayloadWords, BlockType
      <4>2. GET(k, a) = FillWord(other)
        BY <1>2, <3>1 DEF Intact
      <4> HIDE DEF a
      <4>3. GET(f, a) = GET(k, a)
        BY <3>3, <4>1 DEF Keeps
      <4> QED
        BY <4>2, <4>3 DEF a
    <3> QED
      BY <3>1, <3>2, <3>5
  <2> QED
    BY <2>1, <2>2
<1>9. ASSUME NEW i \in Ids, NEW j \in Ids, IsLive(m[i]), m[i].ptr = m[j].ptr
      PROVE  i = j
  <2>1. CASE i = id
    <3>1. m[i].ptr = ptr
      BY <1>6, <2>1
    <3>2. j = id
      BY <1>6, <1>9, <1>13, <3>1
    <3> QED
      BY <2>1, <3>2
  <2>2. CASE i # id
    <3>1. m[i] = l[i] /\ l[i].ptr # ptr
      BY <1>6, <1>13, <2>2
    <3>2. j # id
      BY <1>6, <1>9, <3>1
    <3>3. m[j] = l[j]
      BY <1>6, <3>2
    <3> QED
      BY <1>2, <1>9, <3>1, <3>3 DEF Owns
  <2> QED
    BY <2>1, <2>2
<1>10. \A other \in Ids : ~IsLive(m[other]) => m[other] = NoBlock
  <2>1. ptr # NULL
    BY <1>1, <1>2, HoldsFacts, LinkPtrFacts DEF Settled
  <2>2. IsLive(m[id])
    BY <1>6, <2>1 DEF IsLive
  <2> QED
    BY <1>2, <1>6, <2>2 DEF Owns
<1>11. Owns(C, m)
  BY <1>6, <1>8, <1>9, <1>10 DEF Owns
<1>12. Intact(f, m)
  BY <1>8 DEF Intact
<1> QED
  BY <1>2, <1>5, <1>11, <1>12 DEF Serving, f, m

-----------------------------------------------------------------------------
(* The steps                                                                  *)

(* The blocks go from B to C as one call of the block-level allocator.        *)
Implements(B, C) == blocks = B /\ blocks' = C => [MB!Next]_MB!vars

(* The client of module MmBlocks is the one of MmWords.                       *)
LEMMA SameClient ==
    /\ MB!Slots = Slots
    /\ \A slot : MB!IsLive(slot) = IsLive(slot)
  BY DEF MB!Slots, Slots, MB!IsLive, IsLive, MB!NULL, NULL

(* Before the first trace, memory is zeroed and no slot is in use.            *)
Idle ==
    /\ heap \in [mem : [Arena -> Nat], brk : {Base}, free_listp : Nat,
                 outside : {1}, status : {"start"}]
    /\ live = Empty

(* No slot is in use on the heap mm_init leaves.                              *)
LEMMA NewTraceServes ==
    ASSUME NewTrace, Idle \/ InUse(heap)
    PROVE  Serving(heap', FirstBlocks, live') /\ \A B : Implements(B, FirstBlocks)
<1> DEFINE h == [mem_reset_brk(heap) EXCEPT !.status = "running"]
<1>1. Fresh(h)
  BY ArenaBounds DEF Fresh, InUse, Idle, mem_reset_brk
<1>2. heap' = mm_init(h).heap /\ live' = Empty
  BY DEF NewTrace, Empty
<1> HIDE DEF h
<1>3. Settled(heap', FirstBlocks) /\ heap'.brk = FirstBlock + MINIMUM
  BY <1>1, <1>2, InitReaches
<1>4. FirstBlocks # {}
  BY DEF FirstBlocks
<1>5. live' \in Slots /\ \A id \in Ids : live'[id] = NoBlock /\ ~IsLive(live'[id])
  BY <1>2 DEF Empty, Slots, NoBlock, NULL, IsLive
<1>6. Owns(FirstBlocks, live') /\ Intact(heap', live')
  BY <1>5 DEF Owns, Intact
<1>7. ASSUME NEW B, blocks = B, blocks' = FirstBlocks
      PROVE  MB!NewTrace
  BY <1>2, <1>3, <1>7, SameParams DEF MB!NewTrace, FirstBlocks, Empty
<1> QED
  BY <1>3, <1>4, <1>6, <1>7 DEF Serving, Implements, MB!Next

(* A call of mm_malloc, with the client's use of its answer.                  *)
LEMMA MallocServes ==
    ASSUME NEW B, Serving(heap, B, live), NEW id \in Ids, NEW size \in Sizes, Malloc(id, size)
    PROVE  \E C : Serving(heap', C, live') /\ Implements(B, C)
<1> DEFINE r == mm_malloc(heap, size)
           asize == AdjustedSize(size)
<1>1. /\ ~IsLive(live[id]) /\ live[id] = NoBlock
      /\ \/ r.ptr = NULL /\ heap' = r.heap /\ UNCHANGED live
         \/ r.ptr # NULL /\ Take(id, r, 0, size)
  BY DEF Malloc, Serving, Owns
<1>2. size \in Nat
  BY SizesAssumption
<1>3. CASE size = 0
  <2>1. r.ptr = NULL /\ r.heap = heap
    BY <1>3 DEF mm_malloc
  <2>2. heap' = heap /\ live' = live
    BY <1>1, <2>1
  <2>3. Implements(B, B)
    BY <2>2 DEF Implements, MB!vars
  <2> QED
    BY <2>2, <2>3
<1>4. CASE size > 0
  <2>1. Settled(heap, B) /\ B # {}
    BY DEF Serving
  <2>2. PICK o : Malloced(heap, B, asize, r, o)
    BY <1>2, <1>4, <2>1, MallocReaches
  <2> HIDE DEF r, asize
  <2>3. /\ o \in MB!Allocations(B, heap.brk, asize)
        /\ r.ptr = o.ptr /\ r.heap.brk = o.brk
        /\ Reaches(heap, B, r.heap, o.blocks)
        /\ r.ptr = NULL => r.heap = heap /\ o.blocks = B
        /\ r.ptr # NULL => Serves(o.blocks, r.ptr, asize)
        /\ r.ptr # NULL => \A b \in B : b.alloc => b.lo # r.ptr
    BY <2>2 DEF Malloced
  <2>4. CASE r.ptr = NULL
    <3>1. heap' = heap /\ live' = live
      BY <1>1, <2>3, <2>4
    <3>2. Implements(B, B)
      BY <3>1 DEF Implements, MB!vars
    <3> QED
      BY <3>1, <3>2
  <2>5. CASE r.ptr # NULL
    <3>1. /\ heap' = FillFrom(r.heap, id, r.ptr, 0, size)
          /\ live' = With(live, id, r.ptr, size)
      BY <1>1, <2>5 DEF Take, With
    <3>2. o.blocks # {}
      BY <2>3, <2>5 DEF Serves
    <3>3. Spares(B, live, id, B)
      BY DEF Spares
    <3>4. Serving(r.heap, o.blocks, Without(live, id))
      BY <2>3, <3>2, <3>3, OthersServed
    <3>5. /\ live \in Slots /\ Without(live, id)[id] = NoBlock
          /\ \A other \in Ids : other # id => Without(live, id)[other] = live[other]
      BY DEF Serving, Owns, Slots, Without
    <3>6. \A other \in Ids : Without(live, id)[other].ptr # r.ptr
      <4> SUFFICES ASSUME NEW other \in Ids, Without(live, id)[other].ptr = r.ptr
                   PROVE  FALSE
        OBVIOUS
      <4>1. other # id /\ live[other].ptr = r.ptr
        BY <2>5, <3>5 DEF NoBlock
      <4>2. PICK b \in B : b.alloc /\ b.lo = live[other].ptr
        BY <2>5, <4>1 DEF Serving, Owns, IsLive
      <4> QED
        BY <2>3, <2>5, <4>1, <4>2
    <3>7. With(Without(live, id), id, r.ptr, size) = With(live, id, r.ptr, size)
      BY <3>5 DEF With, Without, Slots
    <3> DEFINE l == Without(live, id)
    <3> HIDE DEF l
    <3>8. /\ Serving(r.heap, o.blocks, l) /\ l[id] = NoBlock
          /\ Unused(l, r.ptr)
          /\ With(l, id, r.ptr, size) = live'
      BY <3>1, <3>4, <3>5, <3>6, <3>7 DEF l, Unused
    <3> DEFINE k == r.heap
               C == o.blocks
               p == r.ptr
               kept == 0
    <3>9. HoldsFill(k, id, p, kept, size)
      BY DEF HoldsFill
    <3>10. Serving(heap', C, live') /\ heap'.brk = k.brk
      <4>1. /\ Serving(k, C, l) /\ Unused(l, p) /\ Serves(C, p, AdjustedSize(size))
            /\ heap' = FillFrom(k, id, p, kept, size) /\ live' = With(l, id, p, size)
            /\ kept \in Nat
        BY <2>3, <2>5, <3>1, <3>8 DEF asize
      <4> HIDE DEF k, C, p, kept
      <4>2. /\ Serving(FillFrom(k, id, p, kept, size), C, With(l, id, p, size))
            /\ FillFrom(k, id, p, kept, size).brk = k.brk
        <5>1. Takes(k, C, l, id, p, kept, size)
          BY <1>2, <3>8, <3>9, <4>1 DEF Takes
        <5> QED
          BY <5>1, FillServes
      <4> QED
        BY <4>1, <4>2
    <3>11. ASSUME blocks = B, blocks' = o.blocks
           PROVE  MB!Malloc(id, size)
      <4>1. live' = [live EXCEPT ![id] = [ptr |-> o.ptr, size |-> size]]
        BY <2>3, <3>1 DEF With
      <4>2. MB!Receive(id, o.ptr, size)
        BY <2>3, <2>5, <4>1, SameParams DEF MB!Receive
      <4>3. o \in MB!Allocations(blocks, heap.brk, MB!AdjustedSize(size))
        BY <2>3, <3>11, SameParams DEF asize
      <4>4. blocks' = o.blocks /\ heap'.brk = o.brk
        BY <2>3, <3>10, <3>11
      <4>5. blocks # {} /\ ~MB!IsLive(live[id])
        BY <1>1, <2>1, <3>11, SameClient
      <4> QED
        BY <1>4, <4>2, <4>3, <4>4, <4>5 DEF MB!Malloc
    <3>12. Implements(B, o.blocks)
      BY <3>11 DEF Implements, MB!Next
    <3> QED
      BY <3>10, <3>12
  <2> QED
    BY <2>4, <2>5
<1> QED
  BY <1>2, <1>3, <1>4

(* A call of mm_free.                                                         *)
LEMMA FreeServes ==
    ASSUME NEW B, Serving(heap, B, live), NEW id \in Ids, Free(id)
    PROVE  \E C : Serving(heap', C, live') /\ Implements(B, C)
<1>1. /\ IsLive(live[id])
      /\ heap' = mm_free(heap, live[id].ptr) /\ live' = Without(live, id)
  BY DEF Free, Without
<1>2. Settled(heap, B) /\ B # {}
  BY DEF Serving
<1>3. PICK b \in B : b.alloc /\ b.lo = live[id].ptr
  BY <1>1 DEF Serving, Owns
<1> DEFINE C == MB!Release(B, b)
           A == B \ {b}
<1>4. Reaches(heap, A, heap', C) /\ heap'.brk = heap.brk
  BY <1>1, <1>2, <1>3, FreeReaches
<1>5. C # {}
  BY DEF MB!Release, MB!Coalesce
<1>6. Spares(B, live, id, A)
  BY <1>3 DEF Spares
<1> HIDE DEF A, C
<1>7. Serving(heap', C, live')
  BY <1>1, <1>4, <1>5, <1>6, OthersServed
<1>8. ASSUME blocks = B, blocks' = C
      PROVE  MB!Free(id)
  <2>1. MB!HoldsBlock(id, b) /\ b \in blocks
    BY <1>3, <1>8 DEF MB!HoldsBlock
  <2>2. blocks' = MB!Release(blocks, b)
    BY <1>8 DEF C
  <2>3. MB!IsLive(live[id]) /\ live' = [live EXCEPT ![id] = MB!NoBlock]
    BY <1>1, SameParams, SameClient DEF Without
  <2> QED
    BY <1>4, <2>1, <2>2, <2>3 DEF MB!Free
<1>9. Implements(B, C)
  BY <1>8 DEF Implements, MB!Next
<1> QED
  BY <1>7, <1>9

(* mm_realloc of NULL is mm_malloc.                                           *)
LEMMA ReallocAsMalloc ==
    ASSUME NEW B, Serving(heap, B, live), NEW id \in Ids, NEW size \in Sizes, Realloc(id, size),
           ~IsLive(live[id])
    PROVE  Malloc(id, size)
<1>1. live[id] = NoBlock /\ live \in Slots
  BY DEF Serving, Owns
<1>2. live[id].ptr = NULL /\ live[id].size = 0
  BY <1>1 DEF NoBlock
<1>3. mm_realloc(heap, live[id].ptr, size) = mm_malloc(heap, size)
  BY <1>2 DEF mm_realloc
<1>4. [live EXCEPT ![id] = NoBlock] = live
  BY <1>1 DEF Slots
<1> QED
  BY <1>2, <1>3, <1>4 DEF Realloc, Malloc

(* mm_realloc of a payload to no size is mm_free.                             *)
LEMMA ReallocAsFree ==
    ASSUME NEW id \in Ids, Realloc(id, 0), IsLive(live[id])
    PROVE  Free(id)
<1>1. mm_realloc(heap, live[id].ptr, 0) = [heap |-> mm_free(heap, live[id].ptr), ptr |-> NULL]
  BY DEF mm_realloc, IsLive
<1> QED
  BY <1>1 DEF Realloc, Free

(* The four ways of mm_realloc, as calls of the block-level allocator.        *)
LEMMA ReallocImplements ==
    ASSUME NEW B, B # {}, NEW b \in B, b.alloc, NEW id \in Ids, IsLive(live[id]), b.lo = live[id].ptr,
           NEW size \in Sizes, size > 0, NEW r, NEW C,
           Reallocated(heap, B, b, AdjustedSize(size), r, C),
           live' = With(live, id, r.ptr, size), heap'.brk = r.heap.brk
    PROVE  Implements(B, C)
<1> SUFFICES ASSUME blocks = B, blocks' = C
             PROVE  MB!Next
  BY DEF Implements
<1> DEFINE asize == AdjustedSize(size)
<1>1. /\ b \in blocks /\ MB!HoldsBlock(id, b) /\ MB!IsLive(live[id]) /\ size > 0
      /\ MB!AdjustedSize(size) = asize /\ \A x : MB!AdjustedSize(x) = AdjustedSize(x)
  BY SameParams, SameClient DEF MB!HoldsBlock
<1>2. r.ptr # MB!NULL /\ r.ptr # NULL
  BY SameParams DEF Reallocated
<1>3. MB!Receive(id, r.ptr, size)
  BY <1>2 DEF MB!Receive, With
<1> HIDE DEF asize
<1>4. \/ /\ MB!Size(b) = asize
         /\ C = B /\ r.ptr = b.lo /\ r.heap.brk = heap.brk
      \/ /\ MB!ShrinksInPlace(b, asize)
         /\ C = MB!Cut(B, b, b.hi, asize) /\ r.ptr = b.lo /\ r.heap.brk = heap.brk
      \/ /\ \E n \in B : MB!GrowsInto(b, n, asize) /\ C = GrownInto(B, b, n, asize)
         /\ r.ptr = b.lo /\ r.heap.brk = heap.brk
      \/ /\ asize # MB!Size(b) /\ ~MB!ShrinksInPlace(b, asize) /\ ~CanGrowIn(B, b, asize)
         /\ \E o : MovedAs(heap, B, b, asize, r, o) /\ C = MB!Release(o.blocks, b)
  BY DEF Reallocated, asize
<1>5. CASE MB!Size(b) = asize /\ C = B /\ r.ptr = b.lo /\ r.heap.brk = heap.brk
  <2>1. MB!ReallocSame(id, size)
    BY <1>1, <1>3, <1>5 DEF MB!ReallocSame
  <2> QED
    BY <2>1 DEF MB!Next
<1>6. CASE /\ MB!ShrinksInPlace(b, asize)
           /\ C = MB!Cut(B, b, b.hi, asize) /\ r.ptr = b.lo /\ r.heap.brk = heap.brk
  <2>1. MB!ReallocShrink(id, size)
    BY <1>1, <1>3, <1>6 DEF MB!ReallocShrink
  <2> QED
    BY <2>1 DEF MB!Next
<1>7. CASE /\ \E n \in B : MB!GrowsInto(b, n, asize) /\ C = GrownInto(B, b, n, asize)
           /\ r.ptr = b.lo /\ r.heap.brk = heap.brk
  <2>1. PICK n \in B : MB!GrowsInto(b, n, asize) /\ C = GrownInto(B, b, n, asize)
    BY <1>7
  <2>2. n \in blocks /\ blocks' = MB!Cut(blocks \ {n}, b, n.hi, asize)
    BY <2>1 DEF GrownInto
  <2>3. heap'.brk = heap.brk /\ MB!Receive(id, live[id].ptr, size)
    BY <1>3, <1>7
  <2>4. MB!ReallocGrow(id, size)
    BY <1>1, <2>1, <2>2, <2>3 DEF MB!ReallocGrow
  <2> QED
    BY <2>4 DEF MB!Next
<1>8. CASE /\ asize # MB!Size(b) /\ ~MB!ShrinksInPlace(b, asize) /\ ~CanGrowIn(B, b, asize)
           /\ \E o : MovedAs(heap, B, b, asize, r, o) /\ C = MB!Release(o.blocks, b)
  <2>1. PICK o : MovedAs(heap, B, b, asize, r, o) /\ C = MB!Release(o.blocks, b)
    BY <1>8
  <2>2. /\ o \in MB!Allocations(B, heap.brk, AdjustedSize(asize))
        /\ r.ptr = o.ptr /\ r.heap.brk = o.brk
    BY <2>1 DEF MovedAs
  <2>3. ~MB!CanGrow(b, asize)
    BY <1>8 DEF MB!CanGrow, CanGrowIn
  <2>4. /\ o \in MB!Allocations(blocks, heap.brk, MB!AdjustedSize(asize))
        /\ o.ptr # MB!NULL /\ MB!Receive(id, o.ptr, size)
        /\ blocks' = MB!Release(o.blocks, b) /\ heap'.brk = o.brk
    BY <1>1, <1>2, <1>3, <2>1, <2>2
  <2>5. asize # MB!Size(b) /\ ~MB!ShrinksInPlace(b, asize)
    BY <1>8
  <2>6. MB!ReallocMove(id, size)
    BY <1>1, <2>3, <2>4, <2>5 DEF MB!ReallocMove
  <2> QED
    BY <2>6 DEF MB!Next
<1> QED
  BY <1>4, <1>5, <1>6, <1>7, <1>8

(* A call of mm_realloc the code serves, with the client's use of its answer. *)
LEMMA ReallocServes ==
    ASSUME NEW B, Serving(heap, B, live), NEW id \in Ids, NEW size \in Sizes,
           ServedRealloc(id, size)
    PROVE  \E C : Serving(heap', C, live') /\ Implements(B, C)
<1>1. Realloc(id, size) /\ Served(heap, live[id].ptr, size)
  BY DEF ServedRealloc
<1>2. size \in Nat
  BY SizesAssumption
<1>3. CASE ~IsLive(live[id])
  BY <1>1, <1>3, ReallocAsMalloc, MallocServes
<1>4. CASE IsLive(live[id]) /\ size = 0
  BY <1>1, <1>4, ReallocAsFree, FreeServes
<1>5. CASE IsLive(live[id]) /\ size > 0
  <2> DEFINE p == live[id].ptr
             old == live[id].size
             r == mm_realloc(heap, p, size)
             asize == AdjustedSize(size)
  <2>1. /\ Settled(heap, B) /\ B # {} /\ live \in Slots /\ old \in Nat
        /\ Intact(heap, live)
    BY DEF Serving, Owns, Slots
  <2>2. PICK b \in B : b.alloc /\ b.lo = p /\ old + 2 <= b.hi - b.lo
    BY <1>5 DEF Serving, Owns
  <2>3. \/ r.ptr = NULL /\ heap' = r.heap
        \/ r.ptr # NULL /\ Take(id, r, old, size)
    BY <1>1 DEF Realloc
  <2>4. PICK C : Reallocated(heap, B, b, asize, r, C)
    <3>1. Served(heap, b.lo, size)
      BY <1>1, <2>2
    <3>2. \E C : Reallocated(heap, B, b, AdjustedSize(size), mm_realloc(heap, b.lo, size), C)
      BY <1>2, <1>5, <2>1, <2>2, <3>1, ReallocResizes
    <3> QED
      BY <2>2, <3>2
  <2> HIDE DEF r, p, old
  <2> DEFINE A == B \ {b}
             k == r.heap
             q == r.ptr
             l == Without(live, id)
  <2>5. /\ Reaches(heap, A, k, C) /\ Serves(C, q, asize)
        /\ \A c \in A : c.alloc => c.lo # q
        /\ \A n \in Nat : n + 2 <= asize /\ n + 2 <= b.hi - b.lo => WordsKept(heap, b.lo, k, q, n)
        /\ q # NULL
    BY <2>4 DEF Reallocated, Resized
  <2>6. /\ heap' = FillFrom(k, id, q, old, size)
        /\ live' = With(live, id, q, size)
    BY <2>3, <2>5 DEF Take, With
  <2>7. Spares(B, live, id, A)
    BY <2>2 DEF Spares, p
  <2>8. C # {}
    BY <2>5 DEF Serves
  <2> HIDE DEF A, k, q
  <2>9. Serving(k, C, l)
    BY <2>5, <2>7, <2>8, OthersServed
  <2>10. /\ l[id] = NoBlock
         /\ \A other \in Ids : other # id => l[other] = live[other]
         /\ With(l, id, q, size) = With(live, id, q, size)
    BY <2>1 DEF Without, With, Slots
  <2> HIDE DEF l
  <2>11. Unused(l, q)
    <3> SUFFICES ASSUME NEW other \in Ids, l[other].ptr = q
                 PROVE  FALSE
      BY DEF Unused
    <3>1. other # id /\ live[other].ptr = q
      BY <2>5, <2>10 DEF NoBlock
    <3>2. IsLive(live[other])
      BY <2>5, <3>1 DEF IsLive
    <3>3. PICK c \in A : c.alloc /\ c.lo = live[other].ptr
      BY <2>7, <3>1, <3>2, OthersSpared
    <3> QED
      BY <2>5, <3>1, <3>3
  <2>12. HoldsFill(k, id, q, old, size)
    <3> SUFFICES ASSUME NEW i \in 0 .. (size - 1), i < old
                 PROVE  GET(k, q + i) = FillWord(id)
      BY DEF HoldsFill
    <3> DEFINE n == i + 1
    <3>1. asize >= size + 2 /\ asize \in Nat
      BY <1>2, <1>5, AdjustedFacts DEF AdjustedSize, MAX, ALIGN, DSIZE, MINIMUM
    <3> DEFINE width == b.hi - b.lo
    <3>2. width \in Nat
      BY <2>1, HoldsFacts, BlockFacts DEF Settled
    <3>3. old + 2 <= width
      BY <2>2
    <3> HIDE DEF width, asize
    <3>4. n \in Nat /\ n + 2 <= asize /\ n + 2 <= width
      BY <1>2, <2>1, <3>1, <3>2, <3>3
    <3>5. WordsKept(heap, b.lo, k, q, n)
      BY <2>5, <3>4 DEF width
    <3>6. i \in 0 .. (n - 1)
      OBVIOUS
    <3>7. GET(k, q + i) = GET(heap, b.lo + i)
      BY <3>5, <3>6 DEF WordsKept
    <3>8. i \in 0 .. (old - 1)
      BY <2>1
    <3>9. GET(heap, p + i) = FillWord(id)
      BY <1>5, <2>1, <3>8 DEF Intact, p, old
    <3> QED
      BY <2>2, <3>7, <3>9
  <2>13. Serving(heap', C, live') /\ heap'.brk = k.brk
    <3>1. Serves(C, q, AdjustedSize(size))
      BY <2>5
    <3>3. l[id] = NoBlock /\ old \in Nat
      BY <2>1, <2>10
    <3> HIDE DEF asize
    <3>2. /\ Serving(FillFrom(k, id, q, old, size), C, With(l, id, q, size))
          /\ FillFrom(k, id, q, old, size).brk = k.brk
      <4>1. Takes(k, C, l, id, q, old, size)
        BY <1>2, <2>9, <2>11, <2>12, <3>1, <3>3 DEF Takes
      <4> QED
        BY <4>1, FillServes
    <3> QED
      BY <2>6, <2>10, <3>2
  <2>14. Implements(B, C)
    <3>1. Reallocated(heap, B, b, AdjustedSize(size), r, C)
      BY <2>4
    <3>2. live' = With(live, id, r.ptr, size) /\ heap'.brk = r.heap.brk /\ b.lo = live[id].ptr
      BY <2>2, <2>6, <2>13 DEF k, q, p
    <3> QED
      BY <1>5, <2>1, <2>2, <3>1, <3>2, ReallocImplements
  <2> QED
    BY <2>13, <2>14
<1> QED
  BY <1>2, <1>3, <1>4, <1>5

-----------------------------------------------------------------------------
(* The invariant, and what follows from it                                    *)

WordsInv == Idle \/ \E B : Serving(heap, B, live)

(* What the tags encode while the package serves.                             *)
LEMMA ServingRuns ==
    ASSUME NEW h, NEW B, NEW l, Serving(h, B, l)
    PROVE  /\ InUse(h) /\ h.status = "running" /\ h.brk \in Base .. Limit
           /\ EncodedBlocks(h) = B
<1>1. /\ Settled(h, B) /\ B # {}
      /\ Holds(h, B, FreePointers(B)) /\ InUse(h) /\ Apart(B, h.brk)
      /\ h.brk \in Nat /\ h.brk <= Limit
  BY HoldsFacts DEF Serving, Settled
<1>2. PICK b : b \in B
  BY <1>1
<1>3. Base <= h.brk
  <2>1. FirstBlock <= b.lo /\ b.lo + 4 <= b.hi /\ b.hi <= h.brk /\ b.lo \in Nat /\ b.hi \in Nat
    BY <1>1, <1>2 DEF Apart, BlockType
  <2> QED
    BY <1>1, <2>1, ArenaBounds
<1>4. h.brk \in Base .. Limit
  BY <1>1, <1>3, ArenaBounds
<1>5. h.status = "running"
  BY <1>1 DEF InUse
<1>6. Blocks(h) = B
  BY <1>1, Encodes
<1> QED
  BY <1>1, <1>4, <1>5, <1>6 DEF EncodedBlocks

(* The first state.                                                           *)
LEMMA InitInv ==
    ASSUME OutsideWords = {1}
    PROVE  Init => Idle
<1>1. NULL \in Nat /\ [a \in Arena |-> 0] \in [Arena -> Nat]
  BY DEF NULL
<1> QED
  BY <1>1 DEF Init, Idle, Empty

(* Every call the code serves leads from settled blocks to settled blocks,    *)
(* and is a call of the block-level allocator on them.                        *)
LEMMA ServedStep ==
    ASSUME WordsInv, NextServed
    PROVE  \E C : Serving(heap', C, live') /\ Implements(EncodedBlocks(heap), C)
<1>1. CASE NewTrace
  <2>1. Idle \/ InUse(heap)
    BY ServingRuns DEF WordsInv
  <2> QED
    BY <1>1, <2>1, NewTraceServes
<1>2. CASE ~NewTrace
  <2>1. Running
    BY <1>2 DEF NextServed, Free, Malloc, ServedRealloc
  <2>2. ~Idle
    BY <2>1 DEF Idle, Running
  <2>3. PICK B : Serving(heap, B, live)
    BY <2>2 DEF WordsInv
  <2>4. EncodedBlocks(heap) = B
    BY <2>3, ServingRuns
  <2>5. \E C : Serving(heap', C, live') /\ Implements(B, C)
    <3>1. CASE \E id \in Ids : Free(id)
      BY <2>3, <3>1, FreeServes
    <3>2. CASE \E id \in Ids, size \in Sizes : Malloc(id, size)
      BY <2>3, <3>2, MallocServes
    <3>3. CASE \E id \in Ids, size \in Sizes : ServedRealloc(id, size)
      BY <2>3, <3>3, ReallocServes
    <3> QED
      BY <1>2, <3>1, <3>2, <3>3 DEF NextServed
  <2> QED
    BY <2>4, <2>5
<1> QED
  BY <1>1, <1>2

(* The invariant is inductive.                                                *)
LEMMA InvStep ==
    WordsInv /\ [NextServed]_vars => WordsInv'
<1>1. ASSUME WordsInv, NextServed
      PROVE  WordsInv'
  <2>1. PICK C : Serving(heap', C, live')
    BY <1>1, ServedStep
  <2> QED
    BY <2>1 DEF WordsInv
<1>2. ASSUME WordsInv, UNCHANGED vars
      PROVE  WordsInv'
  <2>1. heap' = heap /\ live' = live
    BY <1>2 DEF vars
  <2>2. Idle' <=> Idle
    BY <2>1 DEF Idle
  <2>3. (\E B : Serving(heap, B, live))' <=> \E B : Serving(heap, B, live)
    BY <2>1
  <2> QED
    BY <1>2, <2>2, <2>3 DEF WordsInv
<1> QED
  BY <1>1, <1>2

(* The invariant implies what the runs check.                                 *)
LEMMA InvImplies ==
    ASSUME OutsideWords = {1}
    PROVE  WordsInv => MemorySound /\ FreeListExact /\ PayloadsIntact /\ FailsOnlyWhenFull
<1>1. ASSUME Idle
      PROVE  MemorySound /\ FreeListExact /\ PayloadsIntact /\ FailsOnlyWhenFull
  <2>1. ~Running /\ NeverCrashes
    BY <1>1 DEF Idle, Running, NeverCrashes
  <2>2. live \in Slots
    BY <1>1 DEF Idle, Empty, Slots, NoBlock, NULL
  <2>3. heap.brk \in Base .. Limit
    BY <1>1, ArenaBounds DEF Idle
  <2>4. TypeOK
    BY <1>1, <2>2, <2>3 DEF Idle, TypeOK
  <2> QED
    BY <2>1, <2>4 DEF MemorySound, HeapTiled, FreeListExact, PayloadsIntact, FailsOnlyWhenFull
<1>2. ASSUME NEW B, Serving(heap, B, live)
      PROVE  MemorySound /\ FreeListExact /\ PayloadsIntact /\ FailsOnlyWhenFull
  <2>1. Settled(heap, B) /\ B # {} /\ live \in Slots /\ Intact(heap, live)
    BY <1>2 DEF Serving, Owns
  <2>2. InUse(heap) /\ heap.brk \in Base .. Limit
    BY <1>2, ServingRuns
  <2>3. TypeOK /\ NeverCrashes
    BY <2>1, <2>2 DEF TypeOK, NeverCrashes, InUse
  <2>4. HeapTiled /\ FreeListExact /\ FailsOnlyWhenFull
    BY <2>1, SettledTiled, SettledList, SettledServes
  <2>5. PayloadsIntact
    BY <2>1 DEF PayloadsIntact, Intact
  <2> QED
    BY <2>3, <2>4, <2>5 DEF MemorySound
<1> QED
  BY <1>1, <1>2 DEF WordsInv

-----------------------------------------------------------------------------
(* The theorems                                                               *)

(* Whatever calls the client makes, over any number of traces, the heap is    *)
(* settled: the tags are those of blocks that tile it, the list chains        *)
(* exactly the free ones, and each payload lies in a block of its own and     *)
(* holds what was stored.                                                     *)
THEOREM WordsInvariant ==
    ASSUME OutsideWords = {1}
    PROVE  SpecServed => []WordsInv
<1>1. Init => WordsInv
  BY InitInv DEF WordsInv
<1>2. WordsInv /\ [NextServed]_vars => WordsInv'
  BY InvStep
<1> QED
  BY <1>1, <1>2, PTL DEF SpecServed

(* No write of mm.c leaves the arena, no scan of its list runs for ever, and  *)
(* the tags tile the heap.                                                    *)
THEOREM MemoryAlwaysSound ==
    ASSUME OutsideWords = {1}
    PROVE  SpecServed => []MemorySound
<1>1. WordsInv => MemorySound
  BY InvImplies
<1> QED
  BY <1>1, WordsInvariant, PTL

(* The free list links each free block exactly once, both ways, and ends at   *)
(* the prologue: find_fit stops and misses none.                              *)
THEOREM FreeListAlwaysExact ==
    ASSUME OutsideWords = {1}
    PROVE  SpecServed => []FreeListExact
<1>1. WordsInv => FreeListExact
  BY InvImplies
<1> QED
  BY <1>1, WordsInvariant, PTL

(* Every payload still holds what its client stored, through every call for   *)
(* another block and through each move of its own.                            *)
THEOREM PayloadsAlwaysIntact ==
    ASSUME OutsideWords = {1}
    PROVE  SpecServed => []PayloadsIntact
<1>1. WordsInv => PayloadsIntact
  BY InvImplies
<1> QED
  BY <1>1, WordsInvariant, PTL

(* mm_malloc answers NULL only when no free block is large enough and the     *)
(* arena has no room for another.                                             *)
THEOREM FailsOnlyWhenAlwaysFull ==
    ASSUME OutsideWords = {1}
    PROVE  SpecServed => []FailsOnlyWhenFull
<1>1. WordsInv => FailsOnlyWhenFull
  BY InvImplies
<1> QED
  BY <1>1, WordsInvariant, PTL

(* Every call of the package, as tags, links and words carry it out, is a     *)
(* step of the block-level allocator on the blocks the tags encode.           *)
THEOREM WordsImplementBlocks ==
    ASSUME OutsideWords = {1}
    PROVE  SpecMapped => BlocksSpec
<1> DEFINE MInv == WordsInv /\ blocks = EncodedBlocks(heap)
           mvars == << heap, live, blocks >>
<1>1. InitMapped => MInv /\ MB!Init
  <2> SUFFICES ASSUME InitMapped
               PROVE  MInv /\ MB!Init
    OBVIOUS
  <2>1. Idle
    BY InitInv DEF InitMapped
  <2>2. blocks = EncodedBlocks(heap) /\ EncodedBlocks(heap) = {}
    BY <2>1 DEF InitMapped, EncodedBlocks, Idle
  <2>3. heap.brk = Base /\ live = [id \in Ids |-> MB!NoBlock]
    BY <2>1, SameParams DEF Idle, Empty
  <2> QED
    BY <2>1, <2>2, <2>3 DEF MB!Init, WordsInv
<1>2. MInv /\ [NextMapped]_mvars => MInv' /\ [MB!Next]_MB!vars
  <2>1. ASSUME MInv, NextMapped
        PROVE  MInv' /\ [MB!Next]_MB!vars
    <3>1. WordsInv /\ NextServed /\ blocks = EncodedBlocks(heap) /\ blocks' = EncodedBlocks(heap')
      BY <2>1 DEF NextMapped
    <3>2. PICK C : Serving(heap', C, live') /\ Implements(EncodedBlocks(heap), C)
      BY <3>1, ServedStep
    <3>3. WordsInv'
      BY <3>2 DEF WordsInv
    <3>4. EncodedBlocks(heap') = C
      BY <3>2, ServingRuns
    <3>5. [MB!Next]_MB!vars
      BY <3>1, <3>2, <3>4 DEF Implements
    <3> QED
      BY <3>1, <3>3, <3>5
  <2>2. ASSUME MInv, UNCHANGED mvars
        PROVE  MInv' /\ [MB!Next]_MB!vars
    <3>1. heap' = heap /\ live' = live /\ blocks' = blocks
      BY <2>2
    <3>2. UNCHANGED vars
      BY <3>1 DEF vars
    <3>3. WordsInv'
      BY <2>2, <3>2, InvStep
    <3>4. EncodedBlocks(heap)' = EncodedBlocks(heap)
      BY <3>1
    <3>5. UNCHANGED MB!vars
      BY <3>1 DEF MB!vars
    <3> QED
      BY <2>2, <3>1, <3>3, <3>4, <3>5
  <2> QED
    BY <2>1, <2>2
<1>3. SpecMapped <=> InitMapped /\ [][NextMapped]_mvars
  BY DEF SpecMapped
<1>4. BlocksSpec <=> MB!Init /\ [][MB!Next]_MB!vars
  BY DEF BlocksSpec, MB!Spec
<1> HIDE DEF MInv, mvars
<1> QED
  BY <1>1, <1>2, <1>3, <1>4, PTL

-----------------------------------------------------------------------------
(* What the words owe to the blocks                                           *)

(* The proofs about MmBlocks, for the blocks the tags encode.                 *)
MBP == INSTANCE MmBlocksProofs WITH brk <- heap.brk

(* What MmBlocksProofs assumes holds here.                                    *)
LEMMA SameAssumptions == MBP!ArenaAssumption /\ MBP!SizesAssumption
  BY ArenaAssumption, SizesAssumption
     DEF MBP!ArenaAssumption, MBP!SizesAssumption, MBP!Even, Even, MBP!MINIMUM, MINIMUM

(* Both instances of MmBlocks are the same.                                   *)
LEMMA SameSpec == MBP!Spec <=> MB!Spec
<1>1. MBP!Init <=> MB!Init
  BY DEF MBP!Init, MB!Init, MBP!NoBlock, MB!NoBlock, MBP!NULL, MB!NULL
<1>2. MBP!Next <=> MB!Next
  BY DEF MBP!NoBlock, MB!NoBlock, MBP!NULL, MB!NULL, MBP!IsLive, MB!IsLive,
         MBP!MINIMUM, MB!MINIMUM, MBP!DSIZE, MB!DSIZE, MBP!MAX, MB!MAX, MBP!ALIGN, MB!ALIGN,
         MBP!Limit, MB!Limit, MBP!FirstBlock, MB!FirstBlock, MBP!AdjustedSize, MB!AdjustedSize,
         MBP!Block, MB!Block, MBP!Size, MB!Size,
         MBP!FreeBefore, MB!FreeBefore, MBP!FreeAfter, MB!FreeAfter,
         MBP!MergedLo, MB!MergedLo, MBP!MergedHi, MB!MergedHi, MBP!Merged, MB!Merged,
         MBP!Coalesce, MB!Coalesce, MBP!Place, MB!Place, MBP!Release, MB!Release,
         MBP!Fits, MB!Fits, MBP!Fresh, MB!Fresh, MBP!Extend, MB!Extend,
         MBP!Outcome, MB!Outcome, MBP!Allocations, MB!Allocations, MBP!Cut, MB!Cut,
         MBP!HoldsBlock, MB!HoldsBlock, MBP!Receive, MB!Receive,
         MBP!ShrinksInPlace, MB!ShrinksInPlace, MBP!GrowsInto, MB!GrowsInto, MBP!CanGrow, MB!CanGrow,
         MBP!NewTrace, MB!NewTrace, MBP!Malloc, MB!Malloc, MBP!Free, MB!Free,
         MBP!ReallocSame, MB!ReallocSame, MBP!ReallocShrink, MB!ReallocShrink,
         MBP!ReallocGrow, MB!ReallocGrow, MBP!ReallocMove, MB!ReallocMove,
         MBP!Next, MB!Next
<1>3. [MBP!Next]_MBP!vars <=> [MB!Next]_MB!vars
  BY <1>2 DEF MBP!vars, MB!vars
<1>4. MBP!Spec <=> MBP!Init /\ [][MBP!Next]_MBP!vars
  BY DEF MBP!Spec
<1>5. MB!Spec <=> MB!Init /\ [][MB!Next]_MB!vars
  BY DEF MB!Spec
<1> QED
  BY <1>1, <1>3, <1>4, <1>5, PTL

(* The blocks the tags encode have no two free neighbours, cover the heap and *)
(* hold every payload of the client, each on its own.                         *)
THEOREM WordsKeepBlocksSound ==
    ASSUME OutsideWords = {1}
    PROVE  SpecMapped => [](MB!HeapWellFormed /\ MB!PayloadsHeld /\ MB!FreedHeapIsWhole)
<1>1. MBP!Spec => []MBP!HeapWellFormed
  BY MBP!HeapAlwaysWellFormed, SameAssumptions
<1>2. MBP!Spec => []MBP!PayloadsHeld
  BY MBP!PayloadsAlwaysHeld, SameAssumptions
<1>3. MBP!Spec => []MBP!FreedHeapIsWhole
  BY MBP!FreedHeapAlwaysWhole, SameAssumptions
<1>4. MBP!HeapWellFormed /\ MBP!PayloadsHeld /\ MBP!FreedHeapIsWhole
        => MB!HeapWellFormed /\ MB!PayloadsHeld /\ MB!FreedHeapIsWhole
  BY DEF MBP!HeapWellFormed, MB!HeapWellFormed, MBP!PayloadsHeld, MB!PayloadsHeld,
         MBP!FreedHeapIsWhole, MB!FreedHeapIsWhole, MBP!WellFormed, MB!WellFormed,
         MBP!Disjoint, MB!Disjoint, MBP!Covering, MB!Covering,
         MBP!NoContiguousFree, MB!NoContiguousFree, MBP!HoldsBlock, MB!HoldsBlock,
         MBP!IsLive, MB!IsLive, MBP!NULL, MB!NULL, MBP!Size, MB!Size, MBP!DSIZE, MB!DSIZE,
         MBP!Block, MB!Block, MBP!FirstBlock, MB!FirstBlock, MBP!Limit, MB!Limit
<1>5. SpecMapped => MB!Spec
  BY WordsImplementBlocks DEF BlocksSpec
<1> QED
  BY <1>1, <1>2, <1>3, <1>4, <1>5, SameSpec, PTL

(* So the words keep the promise of the package: what mm_malloc and           *)
(* mm_realloc hand out is aligned, below the break of the heap and apart from *)
(* every payload in use.                                                      *)
THEOREM WordsKeepPromise ==
    ASSUME OutsideWords = {1}
    PROVE  SpecMapped => MB!PromiseSpec
<1>1. MBP!Spec => MBP!PromiseSpec
  BY MBP!BlocksKeepPromise, SameAssumptions
<1>2. MBP!Promise!Init <=> MB!Promise!Init
  BY DEF MBP!Promise!Init, MB!Promise!Init, MBP!Promise!NoBlock, MB!Promise!NoBlock,
         MBP!Promise!NULL, MB!Promise!NULL
<1>3. MBP!Promise!Next <=> MB!Promise!Next
  BY DEF MBP!Promise!Next, MB!Promise!Next, MBP!Promise!NewTrace, MB!Promise!NewTrace,
         MBP!Promise!Malloc, MB!Promise!Malloc, MBP!Promise!Free, MB!Promise!Free,
         MBP!Promise!Realloc, MB!Promise!Realloc, MBP!Promise!Hold, MB!Promise!Hold,
         MBP!Promise!Grant, MB!Promise!Grant, MBP!Promise!HeapMayGrow, MB!Promise!HeapMayGrow,
         MBP!Promise!MayReceive, MB!Promise!MayReceive, MBP!Promise!Overlaps, MB!Promise!Overlaps,
         MBP!Promise!IsLive, MB!Promise!IsLive, MBP!Promise!Even, MB!Promise!Even,
         MBP!Promise!FirstBlock, MB!Promise!FirstBlock, MBP!Promise!Limit, MB!Promise!Limit,
         MBP!Promise!NoBlock, MB!Promise!NoBlock, MBP!Promise!NULL, MB!Promise!NULL
<1>4. MBP!PromiseSpec <=> MBP!Promise!Init /\ [][MBP!Promise!Next]_<< live, heap.brk >>
  BY DEF MBP!PromiseSpec, MBP!Promise!Spec
<1>5. MB!PromiseSpec <=> MB!Promise!Init /\ [][MB!Promise!Next]_<< live, heap.brk >>
  BY DEF MB!PromiseSpec, MB!Promise!Spec
<1>6. SpecMapped => MB!Spec
  BY WordsImplementBlocks DEF BlocksSpec
<1> QED
  BY <1>1, <1>2, <1>3, <1>4, <1>5, <1>6, SameSpec, PTL

=============================================================================
