------------------------------ MODULE MmBlocks ------------------------------
(* The allocator at the level of its blocks: what mm.c does to the sequence  *)
(* of blocks between the prologue and the epilogue, with the tags, links and *)
(* payload words left out.  A block is the interval [lo, hi) from its block  *)
(* pointer to the next one's.  find_fit may answer any block that fits: the  *)
(* order of the free list is MmWords' business.                              *)
EXTENDS MmParams

VARIABLES blocks, brk, live

vars == << blocks, brk, live >>

Block(lo, hi, alloc) == [lo |-> lo, hi |-> hi, alloc |-> alloc]

Size(b) == b.hi - b.lo

-----------------------------------------------------------------------------
(* The helpers of mm.c on a set of blocks                                     *)

(* The free neighbours of b, as coalesce reads them from the tags beside it.  *)
FreeBefore(B, b) == {x \in B : ~x.alloc /\ x.hi = b.lo}
FreeAfter(B, b) == {x \in B : ~x.alloc /\ x.lo = b.hi}

MergedLo(B, b) ==
    IF FreeBefore(B, b) = {} THEN b.lo ELSE (CHOOSE x \in FreeBefore(B, b) : TRUE).lo
MergedHi(B, b) ==
    IF FreeAfter(B, b) = {} THEN b.hi ELSE (CHOOSE x \in FreeAfter(B, b) : TRUE).hi

Merged(B, b) == Block(MergedLo(B, b), MergedHi(B, b), FALSE)

(* Mutant: only the block before is looked at (coalesce without its case 3).  *)
Coalesce_BeforeOnly(B, b) ==
    (B \ FreeBefore(B, b)) \cup {Block(MergedLo(B, b), b.hi, FALSE)}

(* B with the free block b added and merged with its free neighbours.         *)
Coalesce(B, b) == (B \ (FreeBefore(B, b) \cup FreeAfter(B, b))) \cup {Merged(B, b)}

(* place: the front of the free block f becomes allocated, and the rest is    *)
(* split off when it makes a block.                                           *)
Place(B, f, asize) ==
    IF Size(f) - asize >= MINIMUM
    THEN Coalesce((B \ {f}) \cup {Block(f.lo, f.lo + asize, TRUE)},
                  Block(f.lo + asize, f.hi, FALSE))
    ELSE (B \ {f}) \cup {Block(f.lo, f.hi, TRUE)}

(* Mutant: the block is only marked free (mm_free without coalesce).          *)
Release_NoMerge(B, b) == (B \ {b}) \cup {Block(b.lo, b.hi, FALSE)}

(* mm_free of the allocated block b.                                          *)
Release(B, b) == Coalesce(B \ {b}, Block(b.lo, b.hi, FALSE))

Fits(B, asize) == {f \in B : ~f.alloc /\ Size(f) >= asize}

(* The block extend_heap adds at the break, merged with a free last block.    *)
Fresh(top, asize) == Block(top, top + asize, FALSE)
Extend(B, top, asize) == Coalesce(B, Fresh(top, asize))

(* Every outcome of mm_malloc for a block of asize: a fit, or an extension of *)
(* the heap, or NULL when the arena is exhausted.                             *)
Outcome(B, top, ptr) == [blocks |-> B, brk |-> top, ptr |-> ptr]

(* Mutant: the -1 of a failed mem_sbrk is taken for a pointer.                *)
Allocations_MinusOne(B, top, asize) ==
    IF Fits(B, asize) # {}
    THEN {Outcome(Place(B, f, asize), top, f.lo) : f \in Fits(B, asize)}
    ELSE {Outcome(B, top, -1)}

Allocations(B, top, asize) ==
    IF Fits(B, asize) # {}
    THEN {Outcome(Place(B, f, asize), top, f.lo) : f \in Fits(B, asize)}
    ELSE IF top + asize <= Limit
    THEN {Outcome(Place(Extend(B, top, asize), Merged(B, Fresh(top, asize)), asize),
                  top + asize,
                  MergedLo(B, Fresh(top, asize)))}
    ELSE {Outcome(B, top, NULL)}

(* mm_realloc in place: b keeps its first asize words and the rest, which may *)
(* reach to the end of a free block after it, is freed.                       *)
Cut(B, b, end, asize) ==
    Coalesce((B \ {b}) \cup {Block(b.lo, b.lo + asize, TRUE)},
             Block(b.lo + asize, end, FALSE))

-----------------------------------------------------------------------------
(* The client's calls                                                         *)

HoldsBlock(id, b) == b \in blocks /\ b.alloc /\ b.lo = live[id].ptr

Init ==
    /\ blocks = {}
    /\ brk = Base
    /\ live = [id \in Ids |-> NoBlock]

(* mem_reset_brk; mm_init: the prologue, and one free block of the minimum.   *)
NewTrace ==
    /\ blocks' = {Block(FirstBlock, FirstBlock + MINIMUM, FALSE)}
    /\ brk' = FirstBlock + MINIMUM
    /\ live' = [id \in Ids |-> NoBlock]

(* The driver stores a pointer only once it has tested it for NULL.           *)
Receive(id, ptr, size) ==
    IF ptr = NULL THEN UNCHANGED live
    ELSE live' = [live EXCEPT ![id] = [ptr |-> ptr, size |-> size]]

Malloc(id, size) ==
    /\ blocks # {}
    /\ ~IsLive(live[id])
    /\ size > 0
    /\ \E r \in Allocations(blocks, brk, AdjustedSize(size)) :
          /\ blocks' = r.blocks
          /\ brk' = r.brk
          /\ Receive(id, r.ptr, size)

Free(id) ==
    /\ IsLive(live[id])
    /\ \E b \in blocks :
          /\ HoldsBlock(id, b)
          /\ blocks' = Release(blocks, b)
    /\ live' = [live EXCEPT ![id] = NoBlock]
    /\ UNCHANGED brk

(* The block already has the size asked for.                                  *)
ReallocSame(id, size) ==
    /\ IsLive(live[id]) /\ size > 0
    /\ \E b \in blocks : HoldsBlock(id, b) /\ Size(b) = AdjustedSize(size)
    /\ Receive(id, live[id].ptr, size)
    /\ UNCHANGED << blocks, brk >>

ShrinksInPlace(b, asize) ==
    asize < Size(b) /\ asize > MINIMUM /\ Size(b) - asize > MINIMUM

ReallocShrink(id, size) ==
    /\ IsLive(live[id]) /\ size > 0
    /\ \E b \in blocks :
          /\ HoldsBlock(id, b)
          /\ ShrinksInPlace(b, AdjustedSize(size))
          /\ blocks' = Cut(blocks, b, b.hi, AdjustedSize(size))
    /\ Receive(id, live[id].ptr, size)
    /\ UNCHANGED brk

(* Mutant: the allocated bit of the next block is not tested.                 *)
GrowsInto_AnyNext(b, n, asize) ==
    n.lo = b.hi /\ asize > Size(b) /\ n.hi - b.lo - asize > DSIZE

(* Growing into the next block, when that leaves more than two words of it:   *)
(* with less the code overwrites the block beyond (see MmWords, TightGrow).   *)
GrowsInto(b, n, asize) ==
    /\ ~n.alloc
    /\ n.lo = b.hi
    /\ asize > Size(b)
    /\ n.hi - b.lo - asize > DSIZE

ReallocGrow(id, size) ==
    /\ IsLive(live[id]) /\ size > 0
    /\ \E b, n \in blocks :
          /\ HoldsBlock(id, b)
          /\ GrowsInto(b, n, AdjustedSize(size))
          /\ blocks' = Cut(blocks \ {n}, b, n.hi, AdjustedSize(size))
    /\ Receive(id, live[id].ptr, size)
    /\ UNCHANGED brk

(* Otherwise the payload moves: mm_malloc is asked for asize (already         *)
(* adjusted), the words are copied, and the old block is freed.               *)
CanGrow(b, asize) ==
    \E n \in blocks : /\ ~n.alloc /\ n.lo = b.hi /\ asize > Size(b)
                      /\ n.hi - b.lo >= asize

ReallocMove(id, size) ==
    /\ IsLive(live[id]) /\ size > 0
    /\ \E b \in blocks :
          LET asize == AdjustedSize(size) IN
          /\ HoldsBlock(id, b)
          /\ asize # Size(b)
          /\ ~ShrinksInPlace(b, asize)
          /\ ~CanGrow(b, asize)
          /\ \E r \in Allocations(blocks, brk, AdjustedSize(asize)) :
                /\ r.ptr # NULL
                /\ blocks' = Release(r.blocks, b)
                /\ brk' = r.brk
                /\ Receive(id, r.ptr, size)

Next ==
    \/ NewTrace
    \/ \E id \in Ids : Free(id)
    \/ \E id \in Ids, size \in Sizes :
          \/ Malloc(id, size)
          \/ ReallocSame(id, size)
          \/ ReallocShrink(id, size)
          \/ ReallocGrow(id, size)
          \/ ReallocMove(id, size)

Spec == Init /\ [][Next]_vars

-----------------------------------------------------------------------------
(* Invariants                                                                 *)

TypeOK ==
    /\ blocks \subseteq [lo : Nat, hi : Nat, alloc : BOOLEAN]
    /\ brk \in Nat
    /\ live \in Slots

(* No two blocks share a word, and none leaves the heap.                      *)
Disjoint(B, top) ==
    /\ \A b \in B : FirstBlock <= b.lo /\ b.lo < b.hi /\ b.hi <= top
    /\ \A b, c \in B : b = c \/ b.hi <= c.lo \/ c.hi <= b.lo

(* The blocks leave no gap between the first block pointer and the break.     *)
Covering(B, top) ==
    /\ \E b \in B : b.lo = FirstBlock
    /\ \E b \in B : b.hi = top
    /\ \A b \in B : b.hi = top \/ \E c \in B : c.lo = b.hi

NoContiguousFree(B) ==
    \A b, c \in B : b.hi = c.lo => b.alloc \/ c.alloc

WellFormed(B, top) ==
    /\ Disjoint(B, top)
    /\ Covering(B, top)
    /\ NoContiguousFree(B)

(* The blocks tile the heap and no two neighbours are free, after every call. *)
HeapWellFormed ==
    blocks # {} => WellFormed(blocks, brk) /\ brk <= Limit

(* Each live payload fits an allocated block of its own, and each allocated   *)
(* block is some slot's: nothing is handed out twice and nothing leaks.       *)
PayloadsHeld ==
    /\ \A id \in Ids : IsLive(live[id]) =>
          \E b \in blocks : HoldsBlock(id, b) /\ live[id].size <= Size(b) - DSIZE
    /\ \A b \in blocks : b.alloc => \E id \in Ids : live[id].ptr = b.lo
    /\ \A id, other \in Ids :
          IsLive(live[id]) /\ live[id].ptr = live[other].ptr => id = other

(* A client that has freed everything has the whole heap back: it is one free *)
(* block again, whatever was split, merged and moved before.                  *)
FreedHeapIsWhole ==
    blocks # {} /\ (\A id \in Ids : ~IsLive(live[id]))
        => blocks = {Block(FirstBlock, brk, FALSE)}

(* Block pointers stay 8-byte aligned.                                        *)
Aligned ==
    /\ Even(brk)
    /\ \A b \in blocks : Even(b.lo) /\ Even(b.hi)

-----------------------------------------------------------------------------
(* The blocks implement the promise.                                          *)

Promise == INSTANCE MallocSpec

(* Whatever block is split, merged or moved, the client sees only steps the   *)
(* package promises: aligned payloads below the break of the heap, disjoint   *)
(* from its others (mm.c, against add_range of mdriver.c:391-417).            *)
PromiseSpec == Promise!Spec

=============================================================================
