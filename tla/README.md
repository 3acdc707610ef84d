# A verification development for JUNGLE_OS_PROJECT

The repository holds three weeks of systems programs in C: a B-tree and a
B+tree (`WEEK05`), a malloc package with the driver that judges it (`WEEK06`),
and a small web server, an echo server and client over a library of system-call
wrappers (`WEEK07`). This directory models them in TLA+, checks the models with
TLC and proves the main results with TLAPS.

- [Inventory](#inventory): the parts of the system and what makes each hard
- [The runs](#the-runs): all of them, and what each asks
- [The malloc package](#the-malloc-package): modules, bounds, proofs
- [The trace driver and its timing](#the-trace-driver-and-its-timing)
- [The B-tree](#the-b-tree) and [the B+tree](#the-btree)
- [Robust I/O and the echo programs](#robust-io-and-the-echo-programs)
- [The web server](#the-web-server)
- [What is proved, what is only checked](#what-is-proved-what-is-only-checked)
- [Plan](#plan): what comes next
- [What is not modelled](#what-is-not-modelled)

Commands, in this directory:

    tlc -config MmBlocks.cfg MCMmBlocks.tla      # a run: see the table of runs
    tlapm MmBlocksProofs.tla                     # proofs; likewise SizeArith, MmWordsProofs,
                                                 # MmDriverProofs, BTreeProofs, EchoProofs,
                                                 # TinyProofs, SequenceFacts

## Inventory

| Component | Source | State | Operations | Hard behaviour | Correct when |
|---|---|---|---|---|---|
| malloc package | `WEEK06/mm.c` | words of the arena: boundary tags, free-list links, payloads; `free_listp` | `mm_init`, `mm_malloc`, `mm_free`, `mm_realloc` over `find_fit`, `place`, `coalesce`, `extend_heap`, `removeFreeBlock` | one array holds the bookkeeping and the clients' data; a wrong tag or link shows many calls later | blocks tile the heap, free neighbours are merged, the free list is exactly the free blocks, payloads are disjoint, aligned and keep their contents, NULL only when the arena is full |
| simulated memory | `WEEK06/memlib.c` | `mem_start_brk`, `mem_brk`, `mem_max_addr` | `mem_init`, `mem_sbrk`, `mem_reset_brk` | memory of the previous trace is still there after a reset; end of the arena; `int` increment | the break stays in the arena and never moves back within a trace |
| trace driver | `WEEK06/mdriver.c` | the trace, `blocks[]`, `block_sizes[]`, the range list | `read_trace`, `eval_mm_valid`, `eval_mm_util`, `eval_mm_speed`, `add_range`, `remove_range` | judges the package by tests that are themselves subtle (overlap, signed bytes) | accepts exactly the legal answers of a package |
| timing | `WEEK06/fcyc.c`, `clock.c`, `ftimer.c`, `fsecs.c` | the K best samples, cycle counters | `add_sample`, `has_converged`, `fcyc` | convergence decided on a list that is still filling | the list holds the K smallest samples in order |
| B-tree | `WEEK05/BTree.c` | `root` and its nodes | `insert`, `delete`, `searchNode` | splits on the way up, borrowing and merging on deletion, separators replaced by predecessor or successor | the tree stands for a set of keys; order, balance and occupancy hold after every call |
| B+tree | `WEEK05/B+Tree.c` | `root`, nodes, data at leaves, leaf chain | the same | keys, data and the leaf chain must move together | each key keeps its data, the leaf chain lists the keys in order |
| robust I/O | `WEEK07/csapp.c` | `rio_t`: unread count, position, buffer | `rio_readn`, `rio_writen`, `rio_readlineb`, `rio_readnb` | short counts, signals, end of file, reused buffer | lines and blocks are the same however the bytes arrive |
| tiny web server | `WEEK07/tiny.c` | one connection at a time, the request being parsed, files on disk, a CGI child | `doit`, `read_requesthdrs`, `parse_uri`, `serve_static`, `serve_dynamic` | clients that close early, files that change between `stat` and `open`, the child's end | each connection is answered or closed and the server takes the next |
| echo | `WEEK07/echoserveri.c`, `echoclient.c` | the bytes in flight both ways | read a line, write it back | both sides wait for a whole line | each line comes back once, in order; nobody waits for ever |

How they interact. `mdriver` calls `mem_init` once and, for each evaluation of
a trace, `mem_reset_brk` and `mm_init`, then the package's functions one at a
time from one thread; the package calls `mem_sbrk`. `mdriver` hands its
evaluation functions to `fcyc`/`ftimer` as callbacks. The servers share nothing
but the `rio`/wrapper code with their clients; server, client and CGI child are
separate processes joined by sockets, and each of the servers serves one
connection at a time. The trees are single-threaded programs with one global
`root`.

## The runs

| Run | Module, cfg | Instance | Asks |
|---|---|---|---|
| `blocks` | `MCMmBlocks`, `MmBlocks.cfg` | 44 words, 3 slots (symmetric), block sizes 6, 8, 12, 16 | `TypeOK`, `HeapWellFormed`, `PayloadsHeld`, `FreedHeapIsWhole` in every reachable heap; every step is a step of `MallocSpec` (`PromiseSpec`) |
| `words_closed` | `MCMmWords`, `MmWords_closed.cfg` | 24 words, 2 slots, block sizes 6 and 12 | `MemorySound` (words in range, no write outside the arena, no endless scan, tags tile the heap), `FreeListExact`, `FailsOnlyWhenFull` for any number of calls and traces |
| `words_sessions` | `MCMmWords`, `MmWords_sessions.cfg` | 36 words, 2 slots, block sizes 6, 8, 16, at most 7 calls | `PayloadsIntact`; every call is a step of `MmBlocks` on the blocks the tags encode (`BlocksSpec`) |
| `words_tightgrow` | `MCMmWords`, `MmWords_tightgrow.cfg` | 36 words | violates `WalkStaysInHeap`: growing in place with 0 or 8 bytes left |
| `driver` | `MCMmDriver`, `MmDriver.cfg` | lists of one or two traces of up to six requests, an arena of 6, a cycle counter of two 2-valued words | what the range list, the verdicts, the utilisation and the samples are worth: `RangesExact`, `RangesApart`, `ReportsRight`, `PointersCurrent`, `HighWaterMark`, `TimingExact`; `Finishes` |
| `btree_order4` | `BTreeCalls`, `BTree_order4.cfg` | order 4, 10 keys, from empty | `WellFormed` (types, order, balance, occupancy), `SearchAgrees`, and `KeySet` implemented, each call with its own key (`KeySetSpec`), for trees of up to three levels |
| `btree_tall` | `MCBTree`, `BTree_tall.cfg` | order 5, 22 keys loaded, insertions and at most 3 deletions | `WellFormed`, and no call loses another key (`OthersStay`), with three levels |
| `btree_lossymerge` | `MCBTree`, `BTree_lossymerge.cfg` | order 5, 11 keys loaded | violates `OthersStay`: `inorderMerge` cuts off keys and children to the right |
| `bplus` | `MCBPlusTree`, `BPlusTree.cfg` | order 4, 10 keys, from empty, every call | `WellFormed`, `SeparatorsExact`, `ChainExact`, `LostOnlyWhenEmpty`; `KeySet` implemented, each call with its own key, as long as the root is a tree |
| `bplus_data` | `MCBPlusTree`, `BPlusTree_data.cfg` | the same, 5 keys, an info of its own for each | violates `DataKept`: data and keys part |
| `echo` | `MCEcho`, `Echo.cfg` | 2 clients, six inputs, lines of 3 bytes, a buffer of 2 | the echo is faithful (`EchoFaithful`), who may wait for whom (`StuckOnlyWhenCut`), what is under way (`OneLineUnderWay`), what takes the server down (`ServerOutlives`); `ClientsEnd` |
| `tiny` | `MCTiny`, `Tiny.cfg` | 2 clients, nine kinds of request, one mishap | one response on every path (`OneResponse`, `DoneMeansAnswered`, `BodyIsTheFile`), when a connection breaks (`BrokenOffOnlyUnread`), the child (`ChildrenWaitedFor`), what it takes to lose the server (`ServerLostOnly`); `EveryoneEnds` |

## The malloc package

Three levels, from the promise to the words.

| Module | Level | What it stands for |
|---|---|---|
| `MmParams` | | the constants (arena, slots, sizes), their assumptions, `AdjustedSize` |
| `MallocSpec` | promise | slots that receive aligned, disjoint ranges below the break, which calls only move up; the demands of `add_range` (mdriver.c:391-417) |
| `MmBlocks` | blocks | the set of blocks `[lo, hi)` between prologue and epilogue; one action per call, `mm_realloc` split by its branches |
| `MmHeap` | words | each function of `mm.c` and `memlib.c` as an operator on a record of memory |
| `MmWords` | words | the client of `eval_mm_valid` calling them |
| `MmWordsBlocks` | | `MmWords` with the refinement mapping to `MmBlocks` as a variable |
| `MmBlocksProofs` | | theorems about `MmBlocks`, and `MmBlocks` implements `MallocSpec` |
| `MmWordsProofs` | | theorems about `MmWords`, and `MmWords` implements `MmBlocks` |
| `SizeArith` | types | `ALIGN`, `asize` and `mem_sbrk`'s `int` at the width of their types, in bytes, with theorems |
| `MCMmBlocks`, `MCMmWords` | | instances and bounds for TLC |

**State.** `heap.mem` is the arena, `heap.brk` is `mem_brk`, `heap.free_listp`
the list head; `live[id]` is the driver's `blocks[id]` and `block_sizes[id]`.
`heap.status` is "start" before the first `mm_init` and "crashed" once an access
faults. A block of `MmBlocks` spans from its block pointer to the next one.

**Units.** Addresses and sizes count 4-byte words (the Makefile builds with
`-m32`). Every size in a header is a multiple of two words, so size plus
allocated bit is the same encoding as the code's `(size)|(alloc)` with the low
three bits masked off.

**Actions.** One action is one call of the package from the driver, with what the
driver does with its result: `Malloc` ends with the `memset` of the payload and
the stores into `blocks[]`/`block_sizes[]`; `Realloc` fills only the new part,
so that what the old part holds is what the code copied, the comparison at
mdriver.c:654-662. Slot 0 fills with zero words, the others with words that are
neither tags nor addresses of the arena. `NewTrace` is the head of
`eval_mm_valid`, over whatever the previous trace left in memory.

**Undefined behaviour.** A read outside the arena returns `heap.outside`, a word
chosen once; only its allocated bit matters, so `OutsideWords` is a subset of
{0, 1}. (The real word there is the C library's chunk size; larger than the
arena, it sends `FTRP` past the other end, to another word the package does not
own.) A write outside the arena, and `memcpy` to `NULL`, end in "crashed". A scan
of the free list that never ends is "crashed" as well, so that no run can
mistake it for an answer; no passing run reaches it, because `FreeListExact`
holds.

**What the code serves.** Three situations take the code outside what it can
handle. The model has them; the passing runs leave them out by name.

| Situation | What happens | Left out by |
|---|---|---|
| the word before the arena is even | the first `coalesce` merges the first block with memory that is not a block: `mm_init` sbrks 24 bytes, but its prologue says 24 bytes from offset 8 (mm.c:139, 145-148), so the footer of the "previous block" is looked for through the word before the arena | `OutsideWords = {1}` |
| `mm_realloc` grows in place and 0 or 8 bytes are left | it tags the rest as a block all the same: a size-0 header replaces the next block's header, or a block too small for its links is put on the list (mm.c:473-476); run `words_tightgrow` shows it | `NextServed`, `Served` |
| `mm_realloc` must move and the heap is full | `memcpy` to NULL (mm.c:461-462, 480-481) | `NextServed`, `Served` |

`MmBlocks` leaves the same calls out (`GrowsInto`, `ReallocMove`). They are the
only calls left out; `MemorySound` says that no other call writes outside the
arena, copies to `NULL` or scans for ever. It says nothing of reads, and could
not: every `coalesce` of the first block, the one in `mm_init`'s own
`extend_heap` included, reads the word before the arena and, through it, the
footer of a block that is not there (mm.c:139, 145-148, 348). The model reads
`heap.outside` at both places, in every trace.

**Bounds.** An arena of 24 words holds three minimum blocks: a block with a free
or allocated neighbour on either side, so every case of `coalesce`, an exact fit,
a split, a full arena and all branches of `mm_realloc` occur; 36 and 44 words give
five and six blocks, the rests of 6, 4 and 2 words that the split thresholds
tell apart, and removal from the middle of the free list. Addresses start at
`Base = 64` so that a size is never an address. The closed runs need no
bound on calls: the state space is finite. `MaxCalls` bounds the sessions; seven calls
are enough to fill the 36 words, free in any order and refill.
`words_sessions` turns deadlock checking off because a session ends
at its last call; the violation run because a crashed process makes no call.

**No fairness, no liveness.** Every call is a function that returns; the one loop
whose end depends on data is `find_fit`, and its end is the safety property
`FreeListExact`.

### Proofs

`MmBlocksProofs` proves, for every arena, every set of slots and every set of
sizes that satisfy `ArenaAssumption` and `SizesAssumption`:

| Theorem | Says |
|---|---|
| `TypesCorrect` | `Spec => []TypeOK` |
| `HeapAlwaysWellFormed` | blocks tile the heap inside the arena, no two free neighbours |
| `PayloadsAlwaysHeld` | each live payload has an allocated block of its own that is large enough; no leaked blocks |
| `FreedHeapAlwaysWhole` | when nothing is live the heap is one free block |
| `PointersAlwaysAligned` | block pointers are even words |
| `BlocksKeepPromise` | `Spec => PromiseSpec`: `MmBlocks` implements `MallocSpec` |

The argument. The inductive invariant `IInv` is the conjunction of `TypeOK`,
`HeapWellFormed`, `PayloadsHeld` and `Aligned`: none is inductive alone (freeing a block keeps the tiling
only if the pointer is that of a block, which is `PayloadsHeld`; a payload keeps
its block only if blocks are disjoint). It is restated as `Good(B, top, slots)`
over any blocks, break and slots, so that lemmas compose: `CoalesceWellFormed`
says that marking a block free and merging it with its free neighbours gives a
tiling with the same allocated blocks, through its four cases; `ReleaseHeap`,
`CutHeap`, `PlaceHeap`, `ExtendHeap`, `JoinHeap`, `ShrinkHeap` and `GrowHeap`
derive from it what each function does to the heap; `GrantHeld`, `DropHeld` and
`MoveHeld` say the same of the slots. Each action of `Next` then combines one of
each. `ArenaAssumption` says the arena starts at an even address, has room for
`mm_init`'s two extensions and lies above every size a header can hold.
`FreedHeapAlwaysWhole` and `BlocksKeepPromise` follow from `Good` without
induction over the blocks.

`SizeArith` proves, for every width of `size_t` that is a multiple of 16 and at
least 64, how far the unbounded sizes of the other modules are the code's:

| Theorem | Says |
|---|---|
| `RequestsExact` | up to 16 bytes below the end of the type, the block size for a request is exact, a multiple of 8, and has room for payload and tags |
| `HugeRequestsShrink` | every larger request is taken for one of the minimum block (mm.c:198, 439): the bound of `RequestsExact` is sharp |
| `ExtensionExact` | the size reaches `mem_sbrk` unchanged through `extend_heap`'s count of words |
| `SbrkExact` | in an arena smaller than half the addresses (`MAX_HEAP`), wherever it lies, an extension of any size, arriving as a negative `int` or not, is granted exactly if it fits or its end wraps round the address space (memlib.c:58-62) |
| `LowArenaNeverWraps` | with the break in the lower half of the addresses no extension wraps: there exactly what fits is granted |
| `HighArenaWraps` | with the break in the upper half, where a `-m32` build (Makefile:9) usually has it, there are extensions that do not fit and are granted, and they move the break down, although "the heap cannot be shrunk" (memlib.c:56) |

The sum `mem_brk + incr` that leaves the address space is undefined in C; it is
taken to wrap, as the machine code does. The other modules have no such sum: they
stand for requests that stay clear of it, which `WrapsRound` names. Each theorem carries its assumptions
itself (`IsWidth`), so that no run has to. These are single computations without
state, so no run checks them.

`MmWordsProofs` proves every safety property of the runs of `MmWords` for any
arena, set of slots and set of sizes, and that the words implement the blocks:

| Theorem | Says |
|---|---|
| `WordsInvariant` | the inductive invariant `WordsInv` |
| `MemoryAlwaysSound` | `MemorySound` |
| `FreeListAlwaysExact` | `FreeListExact` |
| `PayloadsAlwaysIntact` | `PayloadsIntact` |
| `FailsOnlyWhenAlwaysFull` | `FailsOnlyWhenFull` |
| `WordsImplementBlocks` | `BlocksSpec`: each call is a step of `MmBlocks` on the blocks that the tags encode |
| `WordsKeepBlocksSound` | so what `MmBlocksProofs` proves of blocks holds of those: tiling, merging, a block for each payload |
| `WordsKeepPromise` | and the two refinements compose: the words keep the promise of `MallocSpec` |

The argument. One array holds tags, links and payloads, so nothing can be said of
one without the others. `Holds(h, B, F)` relates a heap of words to blocks: each
block of `B` has its size and its bit at both ends, and the list from
`free_listp` chains exactly the pointers of `F`, both ways, to the prologue.
`Settled(h, B)` adds that `F` is the free blocks, that the blocks cover the heap up
to the break, and that the epilogue follows. The invariant `WordsInv` is `Idle`
(before the first trace) or "there are blocks `B` with `Serving(heap, B, live)`":
settled, every live payload in a block of its own (`Owns`), with its contents
(`Intact`). It is stronger than the properties it implies: `FreeListExact` alone is
not inductive, because `removeFreeBlock` on a pointer that is no free block wrecks
the list, and which pointers are free is a matter of tags, and whose tags are
still there is a matter of payloads that stay within their blocks.

One section per function of `mm.c` proves that it leads from a settled heap to a
settled heap, to which blocks (`Reaches`, `Resizes`), and which words it writes.
Within `coalesce` and `mm_realloc` the heap is not settled: a freed block awaits
its place in the list (`Awaits`), and each of the four cases is told apart by the tags
of the neighbours, read through `FTRP` and `HDRP`. The scan of `find_fit` and the walk
over the heap are recursive functions; that such functions exist and that the list ends
within the bound of the scan is proved by the least number that breaks it.

Hypotheses. `OutsideWords = {1}`: the word before the arena reads as allocated; with
an even word `mm_init` itself goes wrong (first row of the table of what the code does
not serve), and no invariant could hold. The steps are those of `NextServed`, as in
the runs. `IdsAssumption` (slots are numbers, as indices of `blocks[]`) is needed
for the words the clients fill in to be words.

## The trace driver and its timing

| Module | What it stands for |
|---|---|
| `Timing` | one call of `fsecs`: the K-best sampler of `fcyc.c` over the cycle counter of `clock.c`, or the averaging loops of `ftimer.c` |
| `MmDriver` | `mdriver.c` from the first trace file to the last, over a package that is its environment |
| `MmDriverProofs` | theorems about both |
| `MCMmDriver` | the traces of the run |

**State.** `phase` names the function that has control and `op` the request it is
at, so a state is the driver between two requests. `blocks` and `block_sizes`
are the arrays of `trace_t`, `ranges` the list `main` owns, `reports` what
`malloc_error` has printed (its `errors` is their number), `verdicts` the `valid`
flags in `mm_stats`. `given` is the package's own view: what it handed out for
each index and has not got back. It is a set for each index, because a trace that
is not well-formed allocates twice under one index and loses the first pointer,
while the package still owes that payload its place.

**Actions.** One action is one request of one evaluation: the package's call, the
check of its answer and the bookkeeping. `ValidAlloc`, `ValidRealloc`, `ValidFree`
are the cases of `eval_mm_valid`; `UtilPlaced`, `UtilFree` those of
`eval_mm_util`; `ReplayPlaced` and `ReplayFree` those of `eval_mm_speed`,
`eval_libc_valid` and `eval_libc_speed`, which differ in whose package it is and
in what a failure does. `RunEnd` ends one timed replay, takes the sample and
decides on another. `Read` is `read_trace` with its assertions. `Fail` is
`malloc_error` and the `return 0` behind it; `Exit` the end by `app_error`,
`unix_error` or an assertion.

**The environment.** A package answers any address, or NULL. An honest one answers
as the handout asks and keeps what is in the blocks, as long as the driver gives
back pointers that are its own (`Passed`): the driver must not accuse it of
more than an answer NULL, which is `NoFalseAlarm`. The one exception is the
build's: `ReadsNegative`, the comparison of a plain `char` with `index & 0xFF`
(mdriver.c:657), where the fill byte is 128 or more and `char` is signed. With
`ByteValues = 2` the index 1 is such a byte.

**What holds and what does not.** `RangesExact` holds for any package, for traces
that allocate before they free (`WellFormed`, the condition of
`checktrace.pl`). `RangesApart` says exactly how far the overlap test of
`add_range` goes: it looks for the two ends of the new payload in the old ones
(mdriver.c:410), so a newer payload that strictly encloses an older one is let
through, and nothing else is. `ReportsRight` joins `ErrorsCountInvalid` and
`NoFalseAlarm`; `TimingExact` joins `KBest` and `CounterExact`. `PointersCurrent`
is what the unclear life of `blocks[]` comes to: it is not cleared between
replays, and yet in a well-formed trace no stale pointer is handed back.

**Bounds.** An arena of 6 units with alignment 2 has room for three payloads, and
for one that encloses another; the addresses -2 and beyond the end stand for all
outside. The traces reallocate up and down, free twice, lose a pointer, ask for no
bytes, end early or say too much. Two traces in a row show what one leaves for the next.
`K = 2` of three samples shows the list filling, replacing its worst and
converging or giving up; the two words of the counter have two values each, so
that it wraps within one replay; `CounterExact` is limited to intervals shorter
than the counter, as the code is. The timed traces with `fcyc` are the short
one only, because the samples multiply the states (`InitSmall`).

**Fairness.** `WF_vars(Next)`: the program is one thread that waits for nobody and
runs as long as it can, and calls of a package return. `Finishes` then says that
no loop of the driver or of the samplers runs for ever; deadlock checking is off
because a finished program stops.

### Proofs of the driver

`MmDriverProofs` proves every safety property of the run, for all lists of traces,
all arenas, alignments and byte widths, for packages honest or not, and for all
widths of the counter's words, all `K` and all limits of the samplers.

| Theorem | Says | Rests on |
|---|---|---|
| `TypeCorrect` | `TypeOK` | `Types`, `Sampling` |
| `PointersCurrentAlways` | `PointersCurrent` | `LiveCurrent`: each block the trace has live is one the package gave out in this replay |
| `RangesApartAlways` | `RangesApart` | `ListApart` |
| `RangesExactAlways` | `RangesExact` | `Exact`: ranges and live blocks are one to one |
| `ReportsRightAlways` | `ReportsRight` | `Errors`; `RangesBacked`: each range is a payload that an honest package has out |
| `HighWaterMarkAlways` | `HighWaterMark` | `Marked`: the sizes the trace demands are those in `block_sizes` |
| `CounterExactAlways` | `CounterExact` | `CounterSound`: the counter is where it was read plus the cycles since, less whole turns |
| `TimingExactAlways` | `TimingExact` | `SamplesRight`: while the list has room no sample is left out |

The argument. Which blocks are live behind a request depends on the trace alone,
and `LiveSteps` says how each line changes it. The three replays then follow
it: the block array, the range list and the total each agree with the live
blocks, and `ReplaySteps`, `CheckingSteps` and `UtilSteps` sum up what any action
does to the state a replay is judged by. The range list is exact only because
`remove_range` takes the record that was meant, although it looks for a low address
only: of ranges that are apart (`Apart`) no two have the same low end
(`LowsDiffer`), which `add_range`'s checks see to (`AcceptedRange`). So `Exact`
needs `ListApart`, and `NoFalseAlarm` needs both it and `RangesBacked`: an honest
answer is apart from all payloads that are out, hence from all ranges, hence
`add_range` accepts it (`HonestAnswerAccepted`). `HighWaterMark` is about a sum over
the blocks: a request changes one of its terms (`SumsDiffer`), by exactly what
`eval_mm_util` adds or takes off, also where a realloc's difference is negative.
`DifferenceIsExact` is the double-word subtraction of `get_counter`: the borrow
that it derives from the low words is the one that occurred. `SampleInserted`
and `InsertedTaken` say that the bubbling of `add_sample` keeps the list in order
and lets each element come from a sample of its own.

The constants' assumptions are those of `TimingAssumption` and `DriverAssumption`:
types, and that there is at least one trace, finitely many indices, and as many
samples allowed as the list has places. The last is asserted nowhere, but
the settings of `fsecs.c` fulfil it.

## The B-tree

| Module | What it stands for |
|---|---|
| `KeySet` | the promise: a set of keys and the last call on it; the call `Insert` adds its key, the call `Delete` removes its key |
| `BTreeNode` | what one call of each function of `BTree.c` does to a node and its children, with what the deeper calls return as arguments |
| `BTree` | the functions themselves, each made of its step and the calls on the children; `insert` and `delete` the actions |
| `MCBTree` | a tree loaded in ascending order, as `TESTCASE2` does, and a bound on deletions |
| `BTreeCalls` | `BTree` with the history variable `call`, and `BTree` implements `KeySet` |
| `BTreeProofs` | theorems about `BTree` and `BTreeCalls` |

**State.** `root` is the tree as a value: a node has its leaf flag and the used
parts of `key` and `child`. The C functions recurse and change nodes in place;
the operators return the changed node and the parent puts it back, in the same
order of steps: the child is split or adjusted by its parent after the recursive
call. A null root is `NoTree`; `Wild` is a root or tree that an undefined step
has destroyed, after which nothing is modelled. `node.kids` never aliases, so the
pointer surgery of a split or merge is visible only as a wrong tree.

**Recursion.** A function of `BTree.c` that calls itself on a child is a step that
takes the answer of the inner call as an argument (`InsertStep` with `below`), and
`Levels[d]` is the recursive function over the height that gives the steps those
answers: `Over(b)` has the calls on nodes whose children are nodes of `b`. Arguments
of a step that the code would not compute are not evaluated. `Height` bounds how high
a tree may get (`Insert` is not taken where it would be exceeded); the theorems
hold for every `Height`, so no tree is left out.

**Faults.** Some calls go wrong in the code as it stands. `faults` names what
the last call met: it is an observation and guards nothing in `BTree`. The
passing runs restrict their steps to `faults' = {}` and so say what holds of
all other calls; the violation run allows everything.

| Fault | Code | Effect |
|---|---|---|
| "merge" | `inorderMerge`, 333-340 | the loops count down the bound they run to, and cut off keys and children to the right (`btree_lossymerge`) |
| "full" | `deleteInnerTree`, 366, 376 | with an odd order the joined node has `Order` keys, and deleting the separator inside it may only replace it: the node is left overfull |
| "return" | `findSuccessor`, 263-268 | the recursive return stands inside the leaf's block, behind its return: for an inner node there is none |
| "root" | `delete`, 615-617 | deleting the last key sets the root to `child[0]` of a leaf, which nothing initialised |
| "bounds" | `insertNode`, 195-197 | a node already overfull gets another key, beyond its array |
| "shift" | `borrowFromLeft`, 393-395 | the shift copies the first key of the child over the others; a child that borrows has more than one from order 7 on only, beyond the runs |

**The key of a call.** The tree alone does not say which key a step was for: a call
that does nothing would be a stutter, and the removal of the wrong key a removal of
that key. So `BTreeCalls` (and `BPlusTreeCalls`) adds `call`, the last call with its
key, which no action reads, and `KeySet` ties its step to it. TLC tells states apart
by the tree alone (`VIEW TreeView`): it still checks every step from every tree for
every call, and `call` in the state a step starts from matters to no step; a step
that repeats the last call on the same tree stutters, and was checked when the call
was first made.

**Bounds.** Order 4 gives three levels with seven keys, so with ten keys a leaf's
shortage climbs two levels, with every mix of loans from the left and right and
merges; all insertion and deletion orders are covered. Order 5 needs 17 keys for
three levels, too many to enumerate from empty, so `btree_tall` starts from the
ascending load and bounds deletions by `MaxDeletes`. `Junk = {0}` is a value
outside the keys for a function that returns none. `Height = 3` is more than ten keys
of order 4 or 22 of order 5 ever need.

### Proofs of the B-tree

`BTreeProofs` proves every safety property of `btree_order4` and `btree_tall`, for
every order of at least 3, every set of keys, every bound on the height and any
content of variables that are never set, as long as no call runs into a fault
(`SpecServed`, and for `TreeIsKeySet` `SpecCalled`, the same with `call`).

| Theorem | Says |
|---|---|
| `TreeInvariant` | the inductive invariant `TreeInv` |
| `AlwaysWellFormed` | `WellFormed`: sorted, balanced, every node but the root at least half full |
| `SearchAlwaysAgrees` | `SearchAgrees` |
| `TreeIsKeySet` | `KeySetSpec`: each call adds or removes the key it was given, and no other |
| `DeletionsSpareOthers` | `OthersStay` |
| `SearchFindsExactly`, `PredecessorIsLast` | what `searchNode` and `findPredecessor` answer on trees of every height |
| `FirstInsertion`, `InsertionKeepsTree` | `insert` adds its key to every tree, with one level more at most, and meets no fault |
| `DeletionKeepsTree` | what a deletion that meets no fault leaves of a root |
| `InorderMergeKeeps` | the loops of `inorderMerge` lose nothing but the separator if it is one of the last two keys of its node, and other keys otherwise |
| `ShiftsNeedOrderSeven`, `LoanLosesKey` | when the shift of `borrowFromLeft` can go wrong, and that it then loses a key |

The argument. Everything about one call is proved of nodes over an arbitrary set
`T` of subtrees, with `V` telling what each holds: `Ordered(n, V)` says that the keys of
`n` ascend and stand between what its children hold. `Reads(n, l, k, r)`
says that `n` is the node `l`, the key `k` and the node `r` written one behind the
other. A split, both loans and a merge only read the same keys and children apart at another place,
so order and contents are proved once, in `ReadsApart` and `ReadsTogether`, and
each function owes a short lemma of what it reads as. Occupancy is separate: `FilledBut(n, pos)`
allows one child to be short or overfull while a call is under way, and
`OrderArithmetic` has what `ceil` in `Num_Minimum_Keys` comes to for even
and odd orders. `Floors[h]` is the set of all trees of height `h`, built like
`Levels`; `FloorsStand` is the induction over the height (by the least height at which
it fails): if all four recursive functions are right on one floor, they are right on the next.
`TreeInv` says that the root is null or a tree of a floor with one to
`MaxKeys` keys, all of them the callers'. `WellFormed` by itself is a statement
about the subtrees `Levels` enumerates; `Reading` shows that they are trees of lower
floors. That the recursive functions `Levels` and `Floors` exist is proved as well.

Why `faults' = {}`: each fault is a call that loses other keys, leaves a node overfull or depends on a
value nobody computed, so nothing of the above can hold after it. Insertions meet no
fault at all (`InsertionKeepsTree`): the condition restricts deletions only. The
loaded tree of `btree_tall` is one that insertions reach.

## The B+tree

| Module | What it stands for |
|---|---|
| `KeySet` | the promise, as for the B-tree |
| `BPlusTreeNode` | `B+Tree.c`: one node and its children, in splits, loans and merges |
| `BPlusTree` | the recursive functions of `B+Tree.c`, `Insert` and `Delete` the actions |
| `BPlusTreeCalls` | `BPlusTree` with the history variable `call`, and `BPlusTree` implements `KeySet` |
| `MCBPlusTree` | the infos of the runs |

**State.** As in `BTree` the tree is a value. A leaf has in addition its `data`,
an array that keeps its slots whatever the number of keys, its link and its
end mark. Addresses of leaves mean nothing but identity, so after every call
leaves are numbered from the left (`Canonical`); a link into freed memory, or
one behind the end mark, goes `Elsewhere`. The right half of a split is the leaf
`malloc` returned last and has the next number until then. The data of inner
nodes are left out, because they are never read.

**Undefined behaviour.** Slots of `data` that were never assigned hold `Unset`.
Deleting the last key of a leaf that is the root makes the root whatever its
`child[0]` held (482): `Roots` is `NoTree` or `Wild`. Nothing is modelled behind a
`Wild` root, so the runs do not check for deadlock. A `Wild` root
holds no keys, but that is no answer: `KeySetSpec` speaks of the steps to other
roots only, and `LostOnlyWhenEmpty` says that the one step to `Wild` is the
deletion of the key that was the last.

**What holds and what does not.** No call is left out of the run `bplus`. The
order and number of adjustments on the way up is intricate: a separator equal to
the deleted key is replaced after the key has gone, and where the child had to be
adjusted first, the key is deleted once more from above, because the separator
may have stayed, gone, or moved down a level (445). `SeparatorsExact` and
`KeySetSpec` show that this is enough for the orders checked.
`DataKept` fails (`bplus_data`): insertion moves keys to make room and leaves
their data (206), as loans, merges and deletions do, and the first insertion does
not store its info at all.

**Bounds.** With order 4 and ten keys the tree has three levels and every
sequence of calls from the empty tree is covered; a leaf's shortage climbs two
levels and both kinds of loans and merges happen among leaves and inner
nodes. The shift of `borrowFromLeft` (`Shifted`) is wrong for two keys or more; a
child that borrows has `MinKeys - 1` keys, so it cannot show below order 7. One
info for all keys keeps the data out of `bplus`; `bplus_data` needs few keys. With
`Order` set to 3 and eight keys, 5 and ten, or 6 and twelve, `BPlusTree.cfg` passes as well.

The operators are recursive, so the B+tree is model-checked only.

## Robust I/O and the echo programs

| Module | What it stands for |
|---|---|
| `Rio` | `rio_t`, `rio_readlineb` and `rio_writen` of `csapp.c`, and `fgets`' and `strlen`'s view of bytes |
| `Echo` | `echoserveri.c` and `echoclient.c` with the connections between them |
| `EchoProofs` | theorems about them |
| `MCEcho` | the inputs of the run |

**State.** Streams are sequences of bytes, `toServer[c]` and `toClient[c]` what is
under way. `rio` and `crio[c]` are the `rio_t` of the two ends, with the part of a
line that the call of `rio_readlineb` in progress has stored. `buf[c]` is the
client's buffer, which keeps its last line when a read returns nothing.
`server`, `client[c]` say where each program is; `conn[c]` is the client's end of
its connection as the server's host knows it.

**Actions.** A step is one system call and the code behind it up to the next: a
`read` that returns any number of the bytes that have arrived, a `write` that takes
all or, with `ShortWrites`, some. `rio_writen` writes once: its loop is written
with `if` (csapp.c:781), so a short write is returned as if it were whole; `cut`
remembers that it happened. `Listen` may fail; so may `Accept`, or `Getnameinfo`
for the connection it took, either of which ends the server by a wrapper
(`AcceptFails`; `serving` is the client inside `echo`, and then there is none). A
client may be `Killed` at any time. A write to a client that has gone may or may not make its host answer with a
reset before the next call; a read of a reset connection ends the server by
`unix_error`. A write to one would by SIGPIPE, but there is none: `ServerOutlives`
states it, so `ServerWrite` needs no other outcome.

**What holds and what does not.** `EchoFaithful`: however the bytes are cut into
reads, what is printed is what was echoed, and what was echoed is the input up to
zeros in its lines. The comment on `ReceiveEnd` names an effect of the code: when
the server dies the client prints its own line, or what there is of it, as if it
had come back. `StuckOnlyWhenCut` is the deadlock of the pair: both wait for a
line, exactly if the line is not whole, because the input has no newline there or
a write was cut. `ServerOutlives` says that a server that is once inside `echo` ends only over a
client that was killed: clients that end on their own never take it down. Outside
`echo` it ends only where `Open_listenfd`, `Accept` or `Getnameinfo` fails.

**Bounds.** Lines of up to three bytes and an internal buffer of two make a line
that spans several refills and one that fills its buffer; `Zero` in a line, an
unfinished line and an empty input are among the six. Two clients show one waiting
in the backlog while the other is served. `OneLineUnderWay` shows that the model's
unbounded streams never hold more than a line, so no buffer of the kernel can
fill.

**Fairness.** Weak fairness of the server and of each client: each is a process the
scheduler runs, and the kernel delivers what was sent. Nobody has to kill a
client, and `Accept` and `Getnameinfo` need not fail. `ClientsEnd` needs whole lines and no short write, for the reason
`StuckOnlyWhenCut` gives; since killed clients may take the server down, it
counts a client as ended that finds the server gone.

### Proofs of the echo

`EchoProofs` proves every safety property of the run for any set of clients, any
inputs, any sizes of the buffers (`RioAssumption`), and any way in which bytes arrive and writes are cut.

| Theorem | Says |
|---|---|
| `EchoIsFaithful` | `EchoFaithful` |
| `StuckOnlyWhenCutAlways` | `StuckOnlyWhenCut` |
| `OneLineUnderWayAlways` | `OneLineUnderWay`, which has the types and the room in every buffer |
| `ServerOutlivesAlways` | `ServerOutlives` |

The argument. `Flow(c)` says, for each place a client's program may be at, what is
on its way: nothing between two lines (`BetweenLines`), and otherwise the beginning
of one line, either towards the server's echo or back but not in both directions
(`OneLine`). A line that a client sends fits a buffer and has a newline at its end
only (`LineShape`), so whatever pieces it arrives in, `rio_readlineb` stops where it
ends: this is why nothing stays behind in the internal buffers (`rio.buf = << >>`
between two steps), on which all else depends. What was printed, what is under way
and what is still to be sent are together the input as it travels. `Flows` needs a
server that lives; `Outcome` carries over what remains true when it has ended. Both
are proved on top of `Types`, action by action.

## The web server

| Module | What it stands for |
|---|---|
| `Tiny` | `tiny.c` and `cgi-bin/adder.c` with clients, files and connections |
| `TinyProofs` | theorems about it |
| `MCTiny` | requests, names and files of the run |

**State.** Streams are sequences of lines and of messages, one message per write:
`Rio` and `Echo` have how lines come about from bytes. `phase` is where the server
is: in `read_requesthdrs`, before `stat`, before `open`, with writes to do
(`todo`, then `after`), before `fork`, in `wait`. `link[c]` is the client's end of
its connection as the server's host sees it, `served[c]` how the server's end was
closed. `conn` is the client whose request the server is at, or was when it ended;
it is `None` where the server is outside of `doit` or a wrapper has exited for want
of a resource, which closes `connfd`. `written[c]` is all that was ever written for a client, `raced[c]` whether
the file it asked for changed after `stat` (it guards nothing).

**Actions.** One server step per system call. `Parsed` is `doit` up to the method
test, which comes before the headers are read (109); `Stat` is `parse_uri`,
`stat` and the tests of the file; `Open` is `Open`, `Rio_readn` and `Close`; `Fork`,
`Execve`, `adder` and `Wait` are `serve_dynamic`, with the child as a process of its
own that writes to the connection. `Change` is anybody changing a file at any
time, `Leave`, `Shutdown`, `SendLine` are the client's doing. `Refused` is the exit
of `Accept`, `Getnameinfo`, `Fork` or `Malloc` when the system has no connection, no
name, no process or no memory for them. `Close` with unread
lines breaks the connection off, as TCP does.

**Undefined behaviour.** Kept as choices over what the build can produce. At the end
of the stream `Rio_readlineb` returns 0 and `doit` parses a buffer nobody wrote:
method and URI may be any (`Parses`). `read_requesthdrs` compares a buffer that at
first is unset, then holds the last line: it may leave at once or spin
(`ReadHeaderEnd`). A file that shrank fills its buffer in part: the rest is
`"unset"`. For a `.png`, `get_filetype` copies the type over the name (379), so the
type stays unset and another name is opened. `sprintf` from a buffer into itself
(`serve_static`, `clienterror`) keeps what was there, as the library does when
built without optimisation or fortification, which the Makefile's flags are.
A request whose URI or method is so long that the error page about it does not fit
into `body[MAXBUF]` (226-230) makes `clienterror` write behind that array, and a long
URI that ends in `/` makes `parse_uri` write behind `filename` (181-183) before: the
part `"long"` of a name and the method `"long"` stand for these (`TooLong`). What
comes of it is that the server ends at any point from there to the end of `doit`
(`Overruns`), that the page, or the length it announces, is another (`body` runs
into `buf`, in which the header lines are made: the mark `"spoilt"` of `Handed`), or
nothing. No file has such a name, as `stat` refuses it. When `execve` fails in the child, `exit` flushes what the server's log held at the
fork into the connection: `Deliver(c, << "log" >>)`, or not, if stdout is a
terminal.

**What holds and what does not.** `OneResponse`: on every path what is written is
the beginning of one response and its body is as long as its header says, up to
bytes that a short write leaves out or an overrun replaces.
`DoneMeansAnswered`: a client that reads to the end has a whole response, byte for
byte, unless the CGI program crashed or was gone, a write was short, or its request
was too long for an error page; in the last two cases as well each message of the
response has arrived, of which one is damaged. The exception for short writes is
`rio_writen`'s `if` (csapp.c:781): csapp.c:772 says that it "robustly" writes `n`
bytes, but after a write of fewer it returns as if all were out. In the model, as in
the code, a client can read to the end of its connection and have a body that lacks
bytes the header announced, with nothing to tell it or the server; without the
disjunct `CutShort` the run `tiny` finds such a client. `BrokenOffOnlyUnread`: only
unread input breaks a connection, which for a method other than GET is the ordinary
case. `ServerLostOnly`
lists what takes the whole server down over a request: a client that left during
its response or broke off, a file that changed between `stat` and `open`, a `.png`,
a request too long for an error page; and what makes it spin for ever: a request
that ends without an empty line. The exits that no request causes, `Open_listenfd`'s
and those of `Refused`, leave no `conn` and are apart from that list.

**Bounds.** The first client sends one of nine scripts (nothing; complete requests
for a page, a picture, the adder with and without a query, a missing file with a
line too many, a name that is too long; an unfinished one; another method) and may leave or shut down; the
second sends a plain request and stays, so that what the first does to the server
shows. `MaxMishaps = 1` bounds file changes and short writes together; one of
either is enough to violate each property that a mutant breaks. `Uris` are the two
a stale buffer may hold, one of each kind, static and dynamic.

**Fairness.** Weak fairness of the server, of the child and of each client's
ordinary steps; leaving, shutting down, changing files, a refusal and the end of the
server over an overrun may never happen.
`EveryoneEnds`: if all requests are whole, every client ends, or the server is
lost, in a way `ServerLostOnly` names.

### Proofs of the web server

`TinyProofs` proves every safety property of the run `tiny` for any set of clients, any
requests and files, and any number of short writes and changes of files.

| Theorem | Says | Layer |
|---|---|---|
| `TypeCorrect` | `TypeOK`, which `ChildrenWaitedFor` includes | `Types`, `Control` |
| `ChildrenAreWaitedFor` | `ChildrenWaitedFor` | `Turns`: a client is idle, in the backlog, at the other end of `connfd`, or done with, once each |
| `BrokenOffOnlyForUnread` | `BrokenOffOnlyUnread` | `Links`; `Streams`: what the server has read and what is left of it are what the client sent |
| `BodyIsTheFileAlways` | `BodyIsTheFile` | `Races`: until it is opened, a file that has not changed is as `stat` found it |
| `ServerLostOnlySo` | `ServerLostOnly` | all of the above |
| `OneResponseAlways` | `OneResponse` | `Responses`: what is written, what is to be written and what the child will add are one response |
| `DoneIsAnswered` | `DoneMeansAnswered` | `Deliveries`: what is written is what has arrived or is under way; `SpoiltOf`: only a page about a request that is too long is spoilt |

The argument. The inductive invariant comes in these layers, each inductive given
the ones before, so that no proof carries more than it needs. `Responses` is the
one that the code's many exits make delicate: for every place the server may be at
it says which beginning of a response has been written and that the rest
(`todo`, then what `after` leads to) completes it; a short write or an overrun only
marks the message it damages. `ServerLostOnly` needs `Streams` for the loop of
`read_requesthdrs`: the server spins only when it has read all that came, and that
had no empty line. Proving `BodyIsTheFile` showed that a `.png` is a second way for
unset memory into a body, when the shorter name it is opened under exists; the
property says so, and the run has such a name.

`TinyAssumption` is about types, and that no file has a name with the part `"long"`:
what requests, lines and files are is given by the sets `AllRequests`, `AllLines` and
`AllFiles`, of which the constants hold some.

## What is proved, what is only checked

Proved, for every value of the constants: every safety property of the runs
`blocks`, `words_closed`, `words_sessions`, `driver`, `btree_order4`, `btree_tall`, `echo` and `tiny`,
and the refinements among them: words to blocks to the promise of the allocator, and the B-tree to a
set of keys (`MmBlocksProofs`, `MmWordsProofs`, `MmDriverProofs`, `BTreeProofs`, `EchoProofs`,
`TinyProofs`; the sections "Proofs" of each part say from which assumptions and how); the size
arithmetic of the allocator (`SizeArith`).

`SequenceFacts` has what these proofs need of sequences, prefixes and sums and the
library does not state: cutting a sequence in two, prefixes of concatenations,
inserting an element, and sums over a finite set of which one term changes. Where a
fact about data needs induction it goes by the least number that breaks the rule
(`LeastNumber`), from the well-foundedness of `<`; the library's induction
theorems have an operator as parameter, which the installed provers cannot
instantiate.

Only model-checked:

- `BPlusTree` (`WellFormed`, `SeparatorsExact`, `ChainExact`, `LostOnlyWhenEmpty`,
  `KeySetSpec` of run `bplus`): its operators are RECURSIVE, which the prover cannot take, and
  its leaf chain joins nodes of different parents, which the B-tree's proofs have no notion of.
- `Finishes`, `ClientsEnd`, `EveryoneEnds`: liveness under fairness, which stays
  with TLC.
- That an overfull or misused call does what the violation runs show: single
  behaviours, for which TLC's traces are the evidence.

Every property of a passing run has a mutant in PROJECT.json: a change to one
operator of the model, as a plausible bug would make it, that TLC finds violated.
The mutated forms stand in the modules beside the operators, each marked
"Mutant"; no specification uses them.

## Plan

All components are modelled as listed, with the proofs above. What could follow:

1. The B+tree with its recursion as a function over the height, as `BTree` has it, and
   its order and balance proved; the chain of the leaves needs an argument of its own,
   because it joins nodes of different parents.
2. Writes that block because the other side does not read, in `Tiny`.

## What is not modelled

Each part is in PROJECT.json with its status.

| Part | Why |
|---|---|
| runs in which `mem_brk + incr` wraps round the address space | the heap modules keep addresses far below the width; `SizeArith` proves for which extensions and arenas the test of `mem_sbrk` goes wrong so |
| `NEXT_FIT`, `mm_check` | compiled out, commented out |
| printing of the trees | no state; the chain that the B+tree's follows is checked |
| options, printed tables and the performance index of `mdriver` | output only; what decides them (`errors`, `valid`) is modelled |
| `callibrate`'s measuring loop, `mhz`, cache clearing, interval timers | hardware; what a calibration finds is a choice |
| `rio_readnb` and the wrappers no program calls | not called |
| `echo` in `tiny.c` | of an exercise, not called |
| what else memory behind an overrun array may hold in `tiny.c` | undefined; the model has the server end, the page change, or neither |
| calls interrupted by signals | no program installs a handler, so none is |
| HTTP byte by byte, names, the wording of pages and logs | data: kinds of lines, parts of names and lengths are kept |
| connections that are full (tiny.c:361) | how much fits is the kernel's and the connection's affair |
| trace generators | Perl scripts that write trace files |
