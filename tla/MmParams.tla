------------------------------ MODULE MmParams ------------------------------
(* Constants shared by the three levels of the allocator's model: the words  *)
(* of the arena (MmWords), the blocks they encode (MmBlocks) and the promise *)
(* to the client (MallocSpec).  Every address and size counts 4-byte words:  *)
(* the code aligns every block to 8 bytes, so a header is the even block     *)
(* size plus the allocated bit here exactly as it is there.                  *)
EXTENDS Integers

CONSTANTS
    Base,       \* mem_start_brk, the address of the arena's first word
    MAX_HEAP,   \* words in the arena
    Ids,        \* the trace's block indices, the slots of the client
    Sizes       \* request sizes a client may pass, in words

NULL == 0

WSIZE == 1
DSIZE == 2
MINIMUM == 6
CHUNKSIZE == 4

Limit == Base + MAX_HEAP            \* mem_max_addr
Prologue == Base + DSIZE            \* the first free_listp
FirstBlock == Base + 6              \* the first block pointer after mm_init

Even(n) == n % 2 = 0

(* The arena is aligned, lies above every size a header can hold (so a header *)
(* read as a pointer leaves the arena), and has room for mm_init.             *)
ASSUME ArenaAssumption ==
    /\ Base \in Nat /\ Even(Base)
    /\ MAX_HEAP \in Nat
    /\ MAX_HEAP >= 2 * MINIMUM
    /\ Base > MAX_HEAP + 1

ASSUME SizesAssumption == Sizes \subseteq Nat

MAX(x, y) == IF x > y THEN x ELSE y

ALIGN(size) == 2 * ((size + 1) \div 2)

(* Mutant: no room is left for the two tags.                                  *)
AdjustedSize_NoTags(size) == MAX(ALIGN(size), MINIMUM)

(* The block size serving a request: payload rounded up, two tags, a minimum. *)
AdjustedSize(size) == MAX(ALIGN(size) + DSIZE, MINIMUM)

(* An empty slot of the client: trace->blocks[index] after a free.            *)
NoBlock == [ptr |-> NULL, size |-> 0]

(* The client's slots, each empty or a payload of the arena.                  *)
Slots == [Ids -> [ptr : Nat, size : Nat]]

IsLive(slot) == slot.ptr # NULL

=============================================================================
