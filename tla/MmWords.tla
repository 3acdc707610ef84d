------------------------------ MODULE MmWords ------------------------------
(* The malloc package under a client that uses it as the driver's validity   *)
(* check does (mdriver.c, eval_mm_valid): slots hold the payloads the client *)
(* got, each is filled with the slot's own byte, and a trace starts with     *)
(* mem_reset_brk and mm_init over whatever the previous one left in memory.  *)
(* One action is one call of the package with the client's use of its result.*)
EXTENDS MmHeap

CONSTANTS OutsideWords     \* the words the C library may keep beside the arena

(* The outside words matter to the code only through their allocated bit.     *)
ASSUME OutsideAssumption == OutsideWords # {} /\ OutsideWords \subseteq {0, 1}

(* The slots are the trace's block indices, which index trace->blocks.        *)
ASSUME IdsAssumption == Ids \subseteq Nat

VARIABLES heap, live

vars == << heap, live >>

(* memset(p, index & 0xFF, size): a word that is no tag and no pointer of the *)
(* arena, except that slot 0 fills with zeros.                                *)
FillWord(id) == id * (2 * Limit + 1)

(* The client stores FillWord(id) into words from .. size-1 of its payload.   *)
FillFrom(h, id, ptr, from, size) ==
    [h EXCEPT !.mem = [a \in Arena |->
        IF a \in (ptr + from) .. (ptr + size - 1) THEN FillWord(id) ELSE h.mem[a]]]

Running == heap.status = "running"

TypeOK ==
    /\ heap.brk \in Base .. Limit
    /\ heap.status \in {"start", "running", "crashed"}
    /\ heap.outside \in OutsideWords
    /\ DOMAIN heap.mem = Arena
    /\ \A a \in Arena : heap.mem[a] \in Nat
    /\ heap.free_listp \in Nat
    /\ live \in Slots

(* mem_init: the arena is zeroed memory, the break at its start.              *)
Init ==
    /\ heap \in [mem : {[a \in Arena |-> 0]}, brk : {Base}, free_listp : {NULL},
                 outside : OutsideWords, status : {"start"}]
    /\ live = [id \in Ids |-> NoBlock]

(* The head of every evaluation of a trace.                                   *)
NewTrace ==
    /\ heap.status \in {"start", "running"}
    /\ heap' = mm_init([mem_reset_brk(heap) EXCEPT !.status = "running"]).heap
    /\ live' = [id \in Ids |-> NoBlock]

(* The client takes what the package answered; it fills only what the payload *)
(* adds to the first "kept" words, which must still hold its fill: that is    *)
(* what the driver compares before its memset of a reallocated block.         *)
Take(id, r, kept, size) ==
    /\ heap' = FillFrom(r.heap, id, r.ptr, kept, size)
    /\ live' = [live EXCEPT ![id] = [ptr |-> r.ptr, size |-> size]]

Malloc(id, size) ==
    /\ Running
    /\ ~IsLive(live[id])
    /\ \E r \in {mm_malloc(heap, size)} :
          \/ r.ptr = NULL /\ heap' = r.heap /\ UNCHANGED live
          \/ r.ptr # NULL /\ Take(id, r, 0, size)

Free(id) ==
    /\ Running
    /\ IsLive(live[id])
    /\ heap' = mm_free(heap, live[id].ptr)
    /\ live' = [live EXCEPT ![id] = NoBlock]

Realloc(id, size) ==
    /\ Running
    /\ \E r \in {mm_realloc(heap, live[id].ptr, size)} :
          \/ /\ r.ptr = NULL
             /\ heap' = r.heap
             /\ live' = [live EXCEPT ![id] = NoBlock]
          \/ r.ptr # NULL /\ Take(id, r, live[id].size, size)

Next ==
    \/ NewTrace
    \/ \E id \in Ids : Free(id)
    \/ \E id \in Ids, size \in Sizes : Malloc(id, size) \/ Realloc(id, size)

Spec == Init /\ [][Next]_vars

-----------------------------------------------------------------------------
(* The calls of mm_realloc the code serves.  It has no room for what is left  *)
(* of the next block when it grows in place into one of asize or asize + 2    *)
(* words, and it copies into NULL when its own mm_malloc fails.               *)

GrowRemainder(h, ptr, size) ==
    GET_SIZE(h, HDRP(ptr)) + GET_SIZE(h, HDRP(NEXT_BLKP(h, ptr))) - AdjustedSize(size)

GrowsInPlace(h, ptr, size) ==
    /\ AdjustedSize(size) > GET_SIZE(h, HDRP(ptr))
    /\ GET_ALLOC(h, HDRP(NEXT_BLKP(h, ptr))) = 0
    /\ GrowRemainder(h, ptr, size) >= 0

TightGrow(h, ptr, size) ==
    GrowsInPlace(h, ptr, size) /\ GrowRemainder(h, ptr, size) <= DSIZE

Moves(h, ptr, size) ==
    LET asize == AdjustedSize(size)
        current == GET_SIZE(h, HDRP(ptr))
    IN  /\ asize # current
        /\ ~GrowsInPlace(h, ptr, size)
        /\ ~(asize <= current /\ asize > MINIMUM /\ current - asize > MINIMUM)

MoveFails(h, ptr, size) ==
    Moves(h, ptr, size) /\ mm_malloc(h, AdjustedSize(size)).ptr = NULL

Served(h, ptr, size) ==
    ptr # NULL /\ size > 0 => ~TightGrow(h, ptr, size) /\ ~MoveFails(h, ptr, size)

ServedRealloc(id, size) ==
    /\ Running
    /\ Served(heap, live[id].ptr, size)
    /\ Realloc(id, size)

(* A client that never makes the calls above.                                 *)
NextServed ==
    \/ NewTrace
    \/ \E id \in Ids : Free(id)
    \/ \E id \in Ids, size \in Sizes : Malloc(id, size) \/ ServedRealloc(id, size)

SpecServed == Init /\ [][NextServed]_vars

-----------------------------------------------------------------------------
(* What the words encode                                                      *)

(* The block pointers NEXT_BLKP walks through, from the first block to the    *)
(* epilogue, whose size is 0.                                                 *)
BlockPtrs(h) ==
    LET from[bp \in Int] ==
            IF GET_SIZE(h, HDRP(bp)) = 0 THEN {} ELSE {bp} \cup from[NEXT_BLKP(h, bp)]
    IN  from[FirstBlock]

BlockAt(h, bp) ==
    [lo |-> bp, hi |-> NEXT_BLKP(h, bp), alloc |-> GET_ALLOC(h, HDRP(bp)) = 1]

Blocks(h) == {BlockAt(h, bp) : bp \in BlockPtrs(h)}

FreePtrs(h) == {bp \in BlockPtrs(h) : GET_ALLOC(h, HDRP(bp)) = 0}

(* The boundary tags tile the heap: each block is aligned, its footer repeats *)
(* its header, no two overlap, and the walk ends at the epilogue just below   *)
(* brk.  coalesce finds the neighbours of a block through exactly these tags  *)
(* (mm.c, PREV_BLKP and NEXT_BLKP).                                           *)
HeapTiled ==
    Running =>
        /\ \E bp \in BlockPtrs(heap) : NEXT_BLKP(heap, bp) = heap.brk
        /\ GET(heap, HDRP(heap.brk)) = PACK(0, 1)
        /\ \A bp \in BlockPtrs(heap) :
              /\ bp % 2 = 0
              /\ NEXT_BLKP(heap, bp) <= heap.brk
              /\ GET_SIZE(heap, HDRP(bp)) >= 4
              /\ GET(heap, HDRP(bp)) = GET(heap, FTRP(heap, bp))

(* The free list links each free block of the heap exactly once, forwards and *)
(* backwards, and ends at the prologue: find_fit misses no free block and     *)
(* stops, and removeFreeBlock can unlink any of them.                         *)
FreeListExact ==
    Running =>
        LET node == FreeListNode(heap)
        IN  \E n \in 0 .. Cardinality(FreePtrs(heap)) :
                /\ node[n] = Prologue
                /\ n = Cardinality(FreePtrs(heap))
                /\ {node[m] : m \in 0 .. (n - 1)} = FreePtrs(heap)
                /\ PREV_FREE(heap, node[0]) = NULL
                /\ \A m \in 1 .. n : PREV_FREE(heap, node[m]) = node[m - 1]

(* Every payload still holds what its client stored there, whatever calls     *)
(* were made for the others, and through every move of its own by mm_realloc  *)
(* (mdriver.c:649-662).                                                       *)
PayloadsIntact ==
    Running =>
        \A id \in Ids : IsLive(live[id]) =>
            \A k \in 0 .. (live[id].size - 1) :
                GET(heap, live[id].ptr + k) = FillWord(id)

(* No call the code serves writes outside the arena, copies to NULL or loops, *)
(* so no pointer that mm_malloc, mm_free or mm_realloc writes through is      *)
(* stale, whatever was written there before.  Reads are not looked at: the    *)
(* coalesce of the first block reads outside the arena (mm.c:348), even that  *)
(* of mm_init.                                                                *)
NeverCrashes == heap.status # "crashed"

(* After any calls, over any number of traces, the memory is sound: no write  *)
(* of mm.c has left the arena, and the tags tile the heap.                    *)
MemorySound == TypeOK /\ NeverCrashes /\ HeapTiled

(* "Do the pointers in a heap block point to a valid heap address?"           *)
(* (mm.c:520-527): the walk of the blocks stays within the heap.              *)
WalkStaysInHeap ==
    Running => \A bp \in BlockPtrs(heap) : NEXT_BLKP(heap, bp) <= heap.brk

(* mm_malloc would answer NULL only when it must: no free block of the heap   *)
(* has the size needed, and the arena has no room to extend it                *)
(* (mm.c:201-215).                                                            *)
FailsOnlyWhenFull ==
    Running =>
        \A size \in Sizes \ {0} :
            mm_malloc(heap, size).ptr = NULL
            => /\ \A bp \in FreePtrs(heap) : GET_SIZE(heap, HDRP(bp)) < AdjustedSize(size)
               /\ heap.brk + AdjustedSize(size) > Limit

=============================================================================
