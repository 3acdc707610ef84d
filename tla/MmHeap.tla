------------------------------- MODULE MmHeap -------------------------------
(* The allocator of mm.c over the simulated heap of memlib.c, word by word.  *)
(* A heap is a record: the words of the arena, the break, free_listp, and    *)
(* what became of the process.  Every operator below is one C function that  *)
(* returns the heap it leaves behind (and the pointer it returns, if any).   *)
(*                                                                           *)
(* Undefined accesses: a read outside the arena returns h.outside, a word    *)
(* the C library put there; a write outside the arena is a fault.            *)
EXTENDS MmParams, FiniteSets

Arena == Base .. (Limit - 1)

-----------------------------------------------------------------------------
(* Words, tags and links                                                      *)

GET(h, a) == IF a \in Arena THEN h.mem[a] ELSE h.outside

PUT(h, a, val) ==
    IF h.status = "crashed" THEN h
    ELSE IF a \in Arena THEN [h EXCEPT !.mem[a] = val]
    ELSE [h EXCEPT !.status = "crashed"]

PACK(size, alloc) == size + alloc
GET_SIZE(h, a) == 2 * (GET(h, a) \div 2)
GET_ALLOC(h, a) == GET(h, a) % 2

HDRP(bp) == bp - WSIZE
FTRP(h, bp) == bp + GET_SIZE(h, HDRP(bp)) - DSIZE
NEXT_BLKP(h, bp) == bp + GET_SIZE(h, bp - WSIZE)
PREV_BLKP(h, bp) == bp - GET_SIZE(h, bp - DSIZE)

PREV_FREE(h, bp) == GET(h, bp)
NEXT_FREE(h, bp) == GET(h, bp + WSIZE)
SetPrev(h, bp, p) == PUT(h, bp, p)
SetNext(h, bp, p) == PUT(h, bp + WSIZE, p)

(* PUT(HDRP(bp), ..); PUT(FTRP(bp), ..): FTRP reads the header just written.  *)
PutFooter(h, bp, val) == PUT(h, FTRP(h, bp), val)
PutTags(h, bp, size, alloc) ==
    PutFooter(PUT(h, HDRP(bp), PACK(size, alloc)), bp, PACK(size, alloc))

-----------------------------------------------------------------------------
(* memlib.c                                                                   *)

mem_reset_brk(h) == [h EXCEPT !.brk = Base]

SbrkFails(h, incr) == incr < 0 \/ h.brk + incr > Limit

mem_sbrk(h, incr) == IF SbrkFails(h, incr) THEN h ELSE [h EXCEPT !.brk = @ + incr]

-----------------------------------------------------------------------------
(* The explicit free list and boundary-tag coalescing                         *)

ForwardLink(h, bp) ==
    IF PREV_FREE(h, bp) # NULL
    THEN SetNext(h, PREV_FREE(h, bp), NEXT_FREE(h, bp))
    ELSE [h EXCEPT !.free_listp = NEXT_FREE(h, bp)]

BackLink(h, bp) ==
    IF NEXT_FREE(h, bp) # NULL THEN SetPrev(h, NEXT_FREE(h, bp), PREV_FREE(h, bp)) ELSE h

(* Mutant: the block after bp keeps its link back to bp.                      *)
removeFreeBlock_OneWay(h, bp) == IF bp = NULL THEN h ELSE ForwardLink(h, bp)

removeFreeBlock(h, bp) == IF bp = NULL THEN h ELSE BackLink(ForwardLink(h, bp), bp)

(* The insertion at the head of the list that ends coalesce.                  *)
PushFree(h, bp) ==
    [SetPrev(SetPrev(SetNext(h, bp, h.free_listp), h.free_listp, bp), bp, NULL)
        EXCEPT !.free_listp = bp]

PrevAlloc(h, bp) ==
    LET prev == PREV_BLKP(h, bp) IN GET_ALLOC(h, FTRP(h, prev)) = 1 \/ prev = bp
NextAlloc(h, bp) == GET_ALLOC(h, HDRP(NEXT_BLKP(h, bp))) = 1

Joined(h, bp, size) == [heap |-> PushFree(PutTags(h, bp, size, 0), bp), ptr |-> bp]
WithoutNext(h, bp) == removeFreeBlock(h, NEXT_BLKP(h, bp))
JoinedToPrev(h, bp, size) == Joined(h, PREV_BLKP(h, bp), size)

coalesce(h, bp) ==
    LET size == GET_SIZE(h, HDRP(bp))
        prevSize == GET_SIZE(h, HDRP(PREV_BLKP(h, bp)))
        nextSize == GET_SIZE(h, HDRP(NEXT_BLKP(h, bp)))
        withoutPrev == removeFreeBlock(h, PREV_BLKP(h, bp))
    IN  IF PrevAlloc(h, bp)
        THEN IF NextAlloc(h, bp)
             THEN [heap |-> PushFree(h, bp), ptr |-> bp]
             ELSE Joined(WithoutNext(h, bp), bp, size + nextSize)
        ELSE IF NextAlloc(h, bp)
             THEN Joined(withoutPrev, PREV_BLKP(h, bp), size + prevSize)
             ELSE JoinedToPrev(WithoutNext(withoutPrev, bp), bp, size + prevSize + nextSize)

PutEpilogue(h, bp) == PUT(h, HDRP(NEXT_BLKP(h, bp)), PACK(0, 1))

extend_heap(h, words) ==
    LET asize == MAX((IF words % 2 = 1 THEN words + 1 ELSE words) * WSIZE, MINIMUM)
    IN  IF SbrkFails(h, asize) THEN [heap |-> h, ptr |-> NULL]
        ELSE coalesce(PutEpilogue(PutTags(mem_sbrk(h, asize), h.brk, asize, 0), h.brk), h.brk)

(* First fit from free_listp, up to the first block marked allocated (the     *)
(* prologue).  ScanBound is larger than any list of distinct blocks, so a     *)
(* scan that never stops within it is the loop that does not terminate.       *)
ScanBound == MAX_HEAP

FreeListNode(h) ==
    LET node[n \in 0 .. ScanBound] ==
            IF n = 0 THEN h.free_listp ELSE NEXT_FREE(h, node[n - 1])
    IN  node

(* Mutant: a block of exactly asize is passed over.                           *)
find_fit_Strict(h, asize) ==
    LET node == FreeListNode(h)
        Stops(n) == \/ GET_ALLOC(h, HDRP(node[n])) = 1
                    \/ asize < GET_SIZE(h, HDRP(node[n]))
        n0 == CHOOSE n \in 0 .. ScanBound : Stops(n) /\ \A m \in 0 .. (n - 1) : ~Stops(m)
    IN  [heap |-> h, ptr |-> IF GET_ALLOC(h, HDRP(node[n0])) = 1 THEN NULL ELSE node[n0]]

find_fit(h, asize) ==
    LET node == FreeListNode(h)
        Stops(n) == \/ GET_ALLOC(h, HDRP(node[n])) = 1
                    \/ asize <= GET_SIZE(h, HDRP(node[n]))
        n0 == CHOOSE n \in 0 .. ScanBound : Stops(n) /\ \A m \in 0 .. (n - 1) : ~Stops(m)
    IN  IF \A n \in 0 .. ScanBound : ~Stops(n)
        THEN [heap |-> [h EXCEPT !.status = "crashed"], ptr |-> NULL]
        ELSE [heap |-> h,
              ptr |-> IF GET_ALLOC(h, HDRP(node[n0])) = 1 THEN NULL ELSE node[n0]]

(* The first asize words of the free block bp, taken off the free list, and   *)
(* what is left of it.                                                        *)
TakeFront(h, bp, asize) == removeFreeBlock(PutTags(h, bp, asize, 1), bp)
FreeRest(h, bp, size) ==
    LET rest == NEXT_BLKP(h, bp) IN coalesce(PutTags(h, rest, size, 0), rest).heap

(* Mutant: a rest of exactly MINIMUM is not split off.                        *)
place_Threshold(h, bp, asize) ==
    LET fsize == GET_SIZE(h, HDRP(bp))
    IN  IF fsize - asize > MINIMUM
        THEN FreeRest(TakeFront(h, bp, asize), bp, fsize - asize)
        ELSE TakeFront(h, bp, fsize)

(* Mutant: what is split off keeps the size of the whole.                     *)
place_WholeSize(h, bp, asize) ==
    LET fsize == GET_SIZE(h, HDRP(bp))
    IN  IF fsize - asize >= MINIMUM
        THEN FreeRest(TakeFront(h, bp, asize), bp, fsize)
        ELSE TakeFront(h, bp, fsize)

place(h, bp, asize) ==
    LET fsize == GET_SIZE(h, HDRP(bp))
    IN  IF fsize - asize >= MINIMUM
        THEN FreeRest(TakeFront(h, bp, asize), bp, fsize - asize)
        ELSE TakeFront(h, bp, fsize)

-----------------------------------------------------------------------------
(* The four entry points                                                      *)

(* Padding, prologue and epilogue.                                            *)
Laid(h, p) ==
    LET word == << 0, PACK(MINIMUM, 1), 0, 0, PACK(MINIMUM, 1), PACK(0, 1) >>
    IN  [h EXCEPT !.mem = [a \in Arena |->
                      IF a \in p .. (p + 5) THEN word[a - p + 1] ELSE h.mem[a]],
                  !.free_listp = p + DSIZE]

Started(e) == [heap |-> e.heap, ret |-> IF e.ptr = NULL THEN -1 ELSE 0]

mm_init(h) ==
    IF SbrkFails(h, 3 * DSIZE) THEN [heap |-> h, ret |-> -1]
    ELSE Started(extend_heap(Laid(mem_sbrk(h, 3 * DSIZE), h.brk), CHUNKSIZE \div WSIZE))

(* r is what find_fit or extend_heap answered.                                *)
Placed(r, asize) ==
    IF r.ptr = NULL THEN r ELSE [heap |-> place(r.heap, r.ptr, asize), ptr |-> r.ptr]

FitOrExtend(fit, asize) ==
    Placed(IF fit.ptr # NULL THEN fit
           ELSE extend_heap(fit.heap, MAX(asize, MINIMUM) \div WSIZE), asize)

mm_malloc(h, size) ==
    IF size <= 0 THEN [heap |-> h, ptr |-> NULL]
    ELSE FitOrExtend(find_fit(h, AdjustedSize(size)), AdjustedSize(size))

mm_free(h, bp) ==
    IF bp = NULL THEN h
    ELSE coalesce(PutTags(h, bp, GET_SIZE(h, HDRP(bp)), 0), bp).heap

(* memcpy(bp, ptr, n): to a NULL destination it faults.                       *)
memcpy(h, bp, ptr, n) ==
    IF h.status = "crashed" \/ n = 0 THEN h
    ELSE IF bp \notin Arena \/ bp + n - 1 \notin Arena THEN [h EXCEPT !.status = "crashed"]
    ELSE [h EXCEPT !.mem = [a \in Arena |->
             IF a \in bp .. (bp + n - 1) THEN GET(h, ptr + (a - bp)) ELSE h.mem[a]]]

(* Cut the block at asize and free what is left, as both in-place branches    *)
(* of mm_realloc do.                                                          *)
FreeTail(h, bp, size) == mm_free(PutTags(h, bp, size, 1), bp)
TailAfter(h, ptr, size) == FreeTail(h, NEXT_BLKP(h, ptr), size)
CutAndFree(h, ptr, asize, total) == TailAfter(PutTags(h, ptr, asize, 1), ptr, total - asize)

(* Mutant: the old block is freed before its words are copied.                *)
CopiedTo(m, ptr, n) == [heap |-> memcpy(m.heap, m.ptr, ptr, n), ptr |-> m.ptr]
MoveTo_FreeFirst(h, ptr, asize, n) == CopiedTo(mm_malloc(mm_free(h, ptr), asize), ptr, n)

(* m is what mm_malloc answered.                                              *)
MovedTo(m, ptr, n) ==
    [heap |-> mm_free(memcpy(m.heap, m.ptr, ptr, n), ptr), ptr |-> m.ptr]
MoveTo(h, ptr, asize, n) == MovedTo(mm_malloc(h, asize), ptr, n)

mm_realloc(h, ptr, size) ==
    LET asize == AdjustedSize(size)
        current_size == GET_SIZE(h, HDRP(ptr))
        next == HDRP(NEXT_BLKP(h, ptr))
        newsize == current_size + GET_SIZE(h, next)
    IN  IF ptr = NULL THEN mm_malloc(h, size)
        ELSE IF size <= 0 THEN [heap |-> mm_free(h, ptr), ptr |-> NULL]
        ELSE IF asize = current_size THEN [heap |-> h, ptr |-> ptr]
        ELSE IF asize <= current_size
             THEN IF asize > MINIMUM /\ current_size - asize > MINIMUM
                  THEN [heap |-> CutAndFree(h, ptr, asize, current_size), ptr |-> ptr]
                  ELSE MoveTo(h, ptr, asize, asize)
        ELSE IF GET_ALLOC(h, next) = 0 /\ newsize >= asize
             THEN [heap |-> CutAndFree(removeFreeBlock(h, NEXT_BLKP(h, ptr)), ptr, asize, newsize),
                   ptr |-> ptr]
             ELSE MoveTo(h, ptr, asize, current_size)

=============================================================================
