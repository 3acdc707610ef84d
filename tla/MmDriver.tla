------------------------------ MODULE MmDriver ------------------------------
(* The trace driver, mdriver.c: it reads each trace file, replays the trace   *)
(* against a malloc package to check it, again to measure its use of space,   *)
(* and again and again to time it, after doing the same with the C library's  *)
(* package where it is told to.  One action is one request of a trace with    *)
(* all the driver does about it.                                              *)
(*                                                                            *)
(* The package is the driver's environment.  An honest one answers NULL or a  *)
(* payload as the handout asks, and keeps what is in the blocks; any other    *)
(* answers as it likes.  Addresses and sizes are small numbers, the heap      *)
(* starts at 0.                                                               *)
EXTENDS Timing, TLC

CONSTANTS
    TraceLists,     \* the trace files a driver may be started on, in order
    Indices,        \* the block indices of their requests
    Limit,          \* the size of the arena
    Alignment,      \* ALIGNMENT
    ByteValues,     \* 256
    SignedChar,     \* whether plain char is signed: the build's choice
    Honesty         \* whether the package may be honest, or dishonest

(* A line of a trace file, and a file with what its header says.              *)
Lines == [type : STRING, index : Indices, size : Nat]
TraceFiles == [num_ids : Nat, num_ops : Nat, lines : Seq(Lines)]

ASSUME DriverAssumption ==
    /\ Limit \in Nat /\ Alignment \in Nat \ {0} /\ ByteValues \in Nat \ {0}
    /\ Indices \subseteq Nat /\ IsFiniteSet(Indices)
    /\ TraceLists \subseteq Seq(TraceFiles) \ {<< >>}
    /\ SignedChar \in BOOLEAN /\ Honesty \subseteq BOOLEAN

VARIABLES
    files,          \* tracefiles
    run_libc,       \* the -l option
    file,           \* i, the trace that is evaluated
    phase,          \* which function has control
    op,             \* the request it is at
    blocks, block_sizes,    \* of the trace
    ranges,         \* of main
    reports,        \* what malloc_error printed: the trace, and why
    verdicts,       \* valid, of mm_stats
    total_size, max_total_size,     \* of eval_mm_util
    brk,            \* mem_brk
    given,          \* the payloads the package has given out, as it sees them,
                    \* by the index each was asked for
    honest          \* whether the package is

traceVars == << files, run_libc, file >>
blockVars == << blocks, block_sizes >>
checkVars == << ranges, reports, verdicts >>
utilVars == << total_size, max_total_size >>
packageVars == << brk, given, honest >>
driverVars == << traceVars, phase, op, blockVars, checkVars, utilVars, packageVars >>
vars == << driverVars, timingVars >>

NULL == -1

(* Addresses that lie before, in and behind the arena.                        *)
Addresses == {-2} \cup (0 .. Limit + 1)

Trace == files[file]
Request == Trace.lines[op]
At(phases, types) ==
    /\ phase \in phases
    /\ op \in 1 .. Len(Trace.lines)
    /\ Request.type \in types

-----------------------------------------------------------------------------
(* Traces                                                                     *)

Live(lines, n, x) ==
    \E k \in 1 .. n :
        /\ lines[k].type = "a" /\ lines[k].index = x
        /\ \A l \in k + 1 .. n : ~(lines[l].type = "f" /\ lines[l].index = x)

(* What checktrace.pl lets through.                                           *)
WellFormed(lines) ==
    \A k \in DOMAIN lines :
        IF lines[k].type = "a" THEN ~Live(lines, k - 1, lines[k].index)
        ELSE Live(lines, k - 1, lines[k].index)

(* read_trace's two assertions and its test of the type character.            *)
Readable(t) ==
    LET sized == {k \in DOMAIN t.lines : t.lines[k].type \in {"a", "r"}}
        indices == {0} \cup {t.lines[k].index : k \in sized}
    IN  /\ \A k \in DOMAIN t.lines : t.lines[k].type \in {"a", "r", "f"}
        /\ t.num_ids - 1 \in indices /\ \A x \in indices : x <= t.num_ids - 1
        /\ t.num_ops = Len(t.lines)

-----------------------------------------------------------------------------
(* The range list                                                             *)

InRange(p, r) == r.lo <= p /\ p <= r.hi

(* Mutant: only the low end of a payload is looked for in the others.         *)
Clashes_LowOnly(lo, hi, r) == InRange(lo, r)

(* The test for overlap: an end of the new payload lies in an old one.        *)
Clashes(lo, hi, r) == InRange(lo, r) \/ InRange(hi, r)

(* Why add_range turns a payload down when the break is at "top", or "none".  *)
Complaint(list, lo, hi, top) ==
    IF lo % Alignment # 0 THEN "unaligned"
    ELSE IF lo < 0 \/ lo > top - 1 \/ hi < 0 \/ hi > top - 1 THEN "outside"
    ELSE IF \E i \in DOMAIN list : Clashes(lo, hi, list[i]) THEN "overlap"
    ELSE "none"

Extent(lo, size) == [lo |-> lo, hi |-> lo + size - 1]

(* Mutant: the record in front of the one that was meant goes.                *)
remove_range_Head(list, lo) ==
    IF \E i \in DOMAIN list : list[i].lo = lo THEN Tail(list) ELSE list

(* The first record with this low address goes.                               *)
remove_range(list, lo) ==
    LET at == {i \in DOMAIN list : list[i].lo = lo}
    IN  IF at = {} THEN list
        ELSE RemoveAt(list, CHOOSE i \in at : \A j \in at : i <= j)

-----------------------------------------------------------------------------
(* The package                                                                *)

Payload(p, size) == [lo |-> p, size |-> size]

Nothing == [x \in Indices |-> {}]

Disjoint(p, size, q) == p + size <= q.lo \/ q.lo + q.size <= p

(* What an honest package may answer when the heap ends at top, and the       *)
(* payloads in "others" are not to be touched.                                *)
HonestAnswers(others, size, top) ==
    {NULL} \cup
    {p \in Addresses : /\ size > 0 /\ p % Alignment = 0 /\ 0 <= p /\ p + size <= top
                       /\ \A y \in Indices : \A q \in others[y] : Disjoint(p, size, q)}

(* The pointer a request refers to is one the package gave out and not freed. *)
Current(x) == \E q \in given[x] : q.lo = blocks[x]

(* What is out apart from the payload that the driver passes for index x.     *)
Without(x) == [given EXCEPT ![x] = {q \in @ : q.lo # blocks[x]}]

Others(x) == IF Request.type = "r" THEN Without(x) ELSE given

(* The package gives p out for index x, unless p is NULL.                     *)
Give(x, size, p) ==
    given' = IF p = NULL THEN given ELSE [Others(x) EXCEPT ![x] = @ \cup {Payload(p, size)}]

(* The package answers p for a payload of index x, and may extend the heap.   *)
Answer(x, size, p) ==
    /\ brk' \in brk .. Limit
    /\ p \in IF honest THEN HonestAnswers(Others(x), size, brk') ELSE Addresses \cup {NULL}
    /\ Give(x, size, p)

(* A package owes nothing to one who passes another pointer.                  *)
Passed(x) == honest' = (honest /\ Current(x))

TakeBack(x) == given' = Without(x) /\ UNCHANGED brk

(* mem_reset_brk and mm_init, which reports whether it succeeded.             *)
PackageStarts(ok) ==
    /\ ok \in BOOLEAN
    /\ brk' \in 0 .. Limit
    /\ given' = Nothing
    /\ UNCHANGED honest

(* The C library's package has a memory of its own.                           *)
LibraryAnswer(x, size, p) ==
    /\ p \in Addresses \cup {NULL}
    /\ Give(x, size, p)
    /\ UNCHANGED << brk, honest >>

-----------------------------------------------------------------------------
(* Moving from trace to trace                                                 *)

Exit == phase' = "exit" /\ UNCHANGED << file, op >>

Goto(p, n) == phase' = p /\ op' = n /\ UNCHANGED file

(* free_trace, and on to the next file, or behind the loop.                   *)
NextFile(reading, behind) ==
    /\ phase' = IF file < Len(files) THEN reading ELSE behind
    /\ file' = IF file < Len(files) THEN file + 1 ELSE 1
    /\ op' = 0

(* read_trace: the arrays are fresh memory.  A trace file that is not what it *)
(* says ends the program.                                                     *)
Read ==
    /\ phase \in {"libc_read", "read"}
    /\ IF Readable(Trace)
       THEN IF phase = "read" THEN Goto("valid", 0) ELSE Goto("libc_valid", 1)
       ELSE Exit
    /\ blocks' = [x \in Indices |-> -2]
    /\ block_sizes' = [x \in Indices |-> 0]
    /\ given' = Nothing
    /\ UNCHANGED << files, run_libc, checkVars, utilVars, brk, honest, timingVars >>

-----------------------------------------------------------------------------
(* eval_mm_valid                                                              *)

Report(why) ==
    [trace |-> file, why |-> why, index |-> IF op = 0 THEN 0 ELSE Request.index]

(* Mutant: the evaluation goes on behind an error.                            *)
Fail_GoesOn(why) ==
    /\ reports' = Append(reports, Report(why))
    /\ UNCHANGED verdicts
    /\ Goto("valid", op + 1)

(* malloc_error, and the evaluation returns 0.                                *)
Fail(why) ==
    /\ reports' = Append(reports, Report(why))
    /\ verdicts' = Append(verdicts, FALSE)
    /\ NextFile("read", "done")

ValidStart ==
    /\ phase = "valid" /\ op = 0
    /\ \E ok \in BOOLEAN :
          /\ PackageStarts(ok)
          /\ ranges' = << >>
          /\ \/ ok /\ Goto("valid", 1) /\ UNCHANGED << reports, verdicts >>
             \/ ~ok /\ Fail("mm_init")
    /\ UNCHANGED << files, run_libc, blockVars, utilVars, timingVars >>

(* The payload is recorded, filled, and remembered under its index.           *)
Remember(x, p, size, list) ==
    /\ ranges' = << Extent(p, size) >> \o list
    /\ blocks' = [blocks EXCEPT ![x] = p]
    /\ block_sizes' = [block_sizes EXCEPT ![x] = size]
    /\ Goto("valid", op + 1)
    /\ UNCHANGED << reports, verdicts >>

(* What add_range makes of the answer; list is what is left of the range list.*)
(* A size of 0 fails its assertion.                                           *)
TurnedDown(p, size, list) ==
    /\ ranges' = list
    /\ UNCHANGED blockVars
    /\ \/ size = 0 /\ Exit /\ UNCHANGED << reports, verdicts >>
       \/ /\ size > 0
          /\ Complaint(list, p, p + size - 1, brk') # "none"
          /\ Fail(Complaint(list, p, p + size - 1, brk'))

Accepted(p, size, list) == size > 0 /\ Complaint(list, p, p + size - 1, brk') = "none"

ValidAlloc ==
    /\ At({"valid"}, {"a"})
    /\ \E p \in Addresses \cup {NULL} :
          /\ Answer(Request.index, Request.size, p)
          /\ UNCHANGED honest
          /\ \/ p = NULL /\ Fail("mm_malloc") /\ UNCHANGED << ranges, blockVars >>
             \/ p # NULL /\ TurnedDown(p, Request.size, ranges)
             \/ /\ p # NULL /\ Accepted(p, Request.size, ranges)
                /\ Remember(Request.index, p, Request.size, ranges)
    /\ UNCHANGED << files, run_libc, utilVars, timingVars >>

(* The char read back is compared with an int of 0 .. 255.                    *)
ReadsNegative(x) == SignedChar /\ 2 * (x % ByteValues) >= ByteValues

(* Whether the bytes the old block shared with the new one look unchanged;    *)
(* "kept" says whether the package kept them.                                 *)
LooksKept(x, kept, size) ==
    \/ kept /\ ~ReadsNegative(x)
    \/ size = 0 \/ block_sizes[x] = 0

ValidRealloc ==
    /\ At({"valid"}, {"r"})
    /\ \E p \in Addresses \cup {NULL}, kept \in BOOLEAN, x \in {Request.index} :
          /\ Answer(x, Request.size, p)
          /\ honest /\ Current(x) => kept
          /\ Passed(x)
          /\ LET list == remove_range(ranges, blocks[x])
             IN  \/ p = NULL /\ Fail("mm_realloc") /\ UNCHANGED << ranges, blockVars >>
                 \/ p # NULL /\ TurnedDown(p, Request.size, list)
                 \/ /\ p # NULL /\ Accepted(p, Request.size, list)
                    /\ LooksKept(x, kept, Request.size)
                    /\ Remember(x, p, Request.size, list)
                 \/ /\ p # NULL /\ Accepted(p, Request.size, list)
                    /\ ~LooksKept(x, kept, Request.size)
                    /\ ranges' = << Extent(p, Request.size) >> \o list
                    /\ Fail("data") /\ UNCHANGED blockVars
    /\ UNCHANGED << files, run_libc, utilVars, timingVars >>

ValidFree ==
    /\ At({"valid"}, {"f"})
    /\ ranges' = remove_range(ranges, blocks[Request.index])
    /\ TakeBack(Request.index) /\ Passed(Request.index)
    /\ Goto("valid", op + 1)
    /\ UNCHANGED << files, run_libc, blockVars, reports, verdicts, utilVars, timingVars >>

ValidEnd ==
    /\ phase = "valid" /\ op = Len(Trace.lines) + 1
    /\ verdicts' = Append(verdicts, TRUE)
    /\ Goto("util", 0)
    /\ UNCHANGED << files, run_libc, blockVars, ranges, reports, utilVars, packageVars, timingVars >>

-----------------------------------------------------------------------------
(* eval_mm_util                                                               *)

UtilStart ==
    /\ phase = "util" /\ op = 0
    /\ total_size' = 0 /\ max_total_size' = 0
    /\ \E ok \in BOOLEAN :
          PackageStarts(ok) /\ IF ok THEN Goto("util", 1) ELSE Exit
    /\ UNCHANGED << files, run_libc, blockVars, checkVars, timingVars >>

(* Mutant: the mark follows the total down.                                   *)
Count_NoMark(total) == total_size' = total /\ max_total_size' = total

Count(total) ==
    /\ total_size' = total
    /\ max_total_size' = IF total > max_total_size THEN total ELSE max_total_size

(* What a realloc adds to the total is its size less the one before.          *)
UtilPlaced ==
    /\ At({"util"}, {"a", "r"})
    /\ \E p \in Addresses \cup {NULL}, x \in {Request.index} :
          /\ Answer(x, Request.size, p)
          /\ IF Request.type = "r" THEN Passed(x) ELSE UNCHANGED honest
          /\ \/ p = NULL /\ Exit /\ UNCHANGED << blockVars, utilVars >>
             \/ /\ p # NULL
                /\ blocks' = [blocks EXCEPT ![x] = p]
                /\ block_sizes' = [block_sizes EXCEPT ![x] = Request.size]
                /\ Count(total_size + Request.size
                            - IF Request.type = "r" THEN block_sizes[x] ELSE 0)
                /\ Goto("util", op + 1)
    /\ UNCHANGED << files, run_libc, checkVars, timingVars >>

UtilFree ==
    /\ At({"util"}, {"f"})
    /\ TakeBack(Request.index) /\ Passed(Request.index)
    /\ total_size' = total_size - block_sizes[Request.index]
    /\ Goto("util", op + 1)
    /\ UNCHANGED << files, run_libc, blockVars, checkVars, max_total_size, timingVars >>

(* fsecs is entered with eval_mm_speed.                                       *)
UtilEnd ==
    /\ phase = "util" /\ op = Len(Trace.lines) + 1
    /\ Goto("speed", 0) /\ StartTiming
    /\ UNCHANGED << files, run_libc, blockVars, checkVars, utilVars, packageVars >>

-----------------------------------------------------------------------------
(* eval_mm_speed, and the two evaluations of the C library, which differ in   *)
(* how they start and in what follows a failure                               *)

Replaying == {"speed", "libc_valid", "libc_speed"}
Timed == {"speed", "libc_speed"}

SpeedStart ==
    /\ phase = "speed" /\ op = 0
    /\ BeginRun
    /\ \E ok \in BOOLEAN :
          PackageStarts(ok) /\ IF ok THEN Goto("speed", 1) ELSE Exit
    /\ UNCHANGED << files, run_libc, blockVars, checkVars, utilVars >>

LibcSpeedStart ==
    /\ phase = "libc_speed" /\ op = 0
    /\ BeginRun
    /\ given' = Nothing
    /\ Goto("libc_speed", 1)
    /\ UNCHANGED << files, run_libc, blockVars, checkVars, utilVars, brk, honest >>

Elapse == IF phase \in Timed THEN Pass(1) ELSE UNCHANGED timingVars

(* Mutant: a block that realloc moved is not remembered.                      *)
Placed_AllocOnly(x, p) ==
    blocks' = IF Request.type = "a" THEN [blocks EXCEPT ![x] = p] ELSE blocks

Placed(x, p) == blocks' = [blocks EXCEPT ![x] = p]

(* The program ends; eval_libc_valid calls malloc_error before.               *)
ReplayFails ==
    reports' = IF phase = "libc_valid" THEN Append(reports, Report("libc")) ELSE reports

ReplayPlaced ==
    /\ At(Replaying, {"a", "r"})
    /\ \E p \in Addresses \cup {NULL}, x \in {Request.index} :
          /\ \/ phase = "speed" /\ Answer(x, Request.size, p)
                /\ IF Request.type = "r" THEN Passed(x) ELSE UNCHANGED honest
             \/ phase # "speed" /\ LibraryAnswer(x, Request.size, p)
          /\ \/ p = NULL /\ Exit /\ ReplayFails /\ UNCHANGED blocks
             \/ p # NULL /\ Goto(phase, op + 1) /\ Placed(x, p) /\ UNCHANGED reports
    /\ Elapse
    /\ UNCHANGED << files, run_libc, block_sizes, ranges, verdicts, utilVars >>

ReplayFree ==
    /\ At(Replaying, {"f"})
    /\ TakeBack(Request.index)
    /\ IF phase = "speed" THEN Passed(Request.index) ELSE UNCHANGED honest
    /\ Goto(phase, op + 1)
    /\ Elapse
    /\ UNCHANGED << files, run_libc, blockVars, checkVars, utilVars >>

(* The library's evaluation is timed, too.                                    *)
LibcValidEnd ==
    /\ phase = "libc_valid" /\ op = Len(Trace.lines) + 1
    /\ Goto("libc_speed", 0) /\ StartTiming
    /\ UNCHANGED << files, run_libc, blockVars, checkVars, utilVars, packageVars >>

(* A run is over; fsecs makes another one or returns.                         *)
RunEnd ==
    /\ phase \in Timed /\ op = Len(Trace.lines) + 1
    /\ EndRun
    /\ IF AnotherRun' THEN Goto(phase, 0)
       ELSE IF phase = "speed" THEN NextFile("read", "done") ELSE NextFile("libc_read", "read")
    /\ UNCHANGED << files, run_libc, blockVars, checkVars, utilVars, packageVars >>

-----------------------------------------------------------------------------

Init ==
    /\ files \in TraceLists
    /\ run_libc \in BOOLEAN
    /\ file = 1 /\ op = 0
    /\ phase = IF run_libc THEN "libc_read" ELSE "read"
    /\ blocks = [x \in Indices |-> -2] /\ block_sizes = [x \in Indices |-> 0]
    /\ ranges = << >> /\ reports = << >> /\ verdicts = << >>
    /\ total_size = 0 /\ max_total_size = 0
    /\ brk = 0 /\ given = Nothing /\ honest \in Honesty
    /\ TimingInit

Next ==
    \/ Read
    \/ ValidStart \/ ValidAlloc \/ ValidRealloc \/ ValidFree \/ ValidEnd
    \/ UtilStart \/ UtilPlaced \/ UtilFree \/ UtilEnd
    \/ SpeedStart \/ LibcSpeedStart \/ ReplayPlaced \/ ReplayFree \/ LibcValidEnd \/ RunEnd

(* Nothing the driver does waits for anything, given that calls of the        *)
(* package return.                                                            *)
Spec == Init /\ [][Next]_vars /\ WF_vars(Next)

-----------------------------------------------------------------------------
(* Correctness                                                                *)

TypeOK ==
    /\ phase \in {"libc_read", "libc_valid", "libc_speed", "read", "valid", "util", "speed",
                  "done", "exit"}
    /\ file \in DOMAIN files /\ op \in 0 .. Len(Trace.lines) + 1
    /\ blocks \in [Indices -> Addresses]
    /\ \A x \in Indices : block_sizes[x] \in Nat
    /\ \A i \in DOMAIN ranges : ranges[i].lo \in Addresses /\ ranges[i].hi \in Addresses
    /\ brk \in 0 .. Limit
    /\ total_size \in Int /\ max_total_size \in Nat
    /\ Len(samples) <= MaxSamples /\ runs <= Runs

(* The range list "keeps track of the extent of every allocated block         *)
(* payload" (mdriver.c:371): in the middle of a well-formed trace it has one  *)
(* record for each block that is live at this point of the trace, and no      *)
(* other, whatever the package answered.                                      *)
RangesExact ==
    phase = "valid" /\ op > 0 /\ WellFormed(Trace.lines) =>
        LET now == {x \in Indices : Live(Trace.lines, op - 1, x)}
        IN  /\ Len(ranges) = Cardinality(now)
            /\ ToSet(ranges) = {Extent(blocks[x], block_sizes[x]) : x \in now}

(* What the checks of add_range come to: recorded payloads are aligned and in *)
(* the heap, and of two that overlap the newer strictly encloses the older,   *)
(* which is the one overlap the test of the ends lets through.                *)
RangesApart ==
    phase = "valid" /\ op > 0 =>
        \A i \in DOMAIN ranges :
            /\ ranges[i].lo % Alignment = 0
            /\ 0 <= ranges[i].lo /\ ranges[i].lo <= ranges[i].hi /\ ranges[i].hi < brk
            /\ \A j \in i + 1 .. Len(ranges) :
                  \/ ranges[i].hi < ranges[j].lo \/ ranges[j].hi < ranges[i].lo
                  \/ ranges[i].lo < ranges[j].lo /\ ranges[j].hi < ranges[i].hi

(* errors, which decides whether a performance index is printed, counts the   *)
(* invalid traces: each trace found invalid was reported once, and no other.  *)
(* (A failure of the C library's package ends the program at once.)           *)
ErrorsCountInvalid ==
    /\ Len(verdicts) <= Len(files)
    /\ \A t \in 1 .. Len(files) :
          Cardinality({i \in DOMAIN reports : reports[i].trace = t /\ reports[i].why # "libc"})
              = IF t <= Len(verdicts) /\ ~verdicts[t] THEN 1 ELSE 0

(* An honest package is reported only for an answer NULL, or for data that    *)
(* were kept but whose fill byte a signed char reads as negative: no other    *)
(* false alarm.                                                               *)
NoFalseAlarm ==
    honest =>
        \A i \in DOMAIN reports :
            \/ reports[i].why \in {"mm_init", "mm_malloc", "mm_realloc", "libc"}
            \/ reports[i].why = "data" /\ ReadsNegative(reports[i].index)

(* What the driver reports can be trusted as far as this.                     *)
ReportsRight == ErrorsCountInvalid /\ NoFalseAlarm

(* In each of the replays of a well-formed trace the driver frees and         *)
(* reallocates only what the package gave it in this same replay, although    *)
(* the block array lives on from one replay to the next.                      *)
PointersCurrent ==
    /\ At({"valid", "util"} \cup Replaying, {"r", "f"})
    /\ WellFormed(Trace.lines)
    => Current(Request.index)

(* Total bytes of the blocks live behind the first n requests of a trace.     *)
SizeOf(lines, n, x) ==
    LET sized == {k \in 1 .. n : lines[k].type \in {"a", "r"} /\ lines[k].index = x}
    IN  IF Live(lines, n, x) THEN lines[Max(sized)].size ELSE 0

Demand(lines, n) == FoldSet(LAMBDA x, sum : sum + SizeOf(lines, n, x), 0, Indices)

(* Utilisation is judged by "the high water mark of the heap for an optimal   *)
(* allocator" (mdriver.c:690): at each point of a well-formed trace the total *)
(* is what the trace demands at this point, and the mark is the greatest      *)
(* demand so far.                                                             *)
HighWaterMark ==
    phase = "util" /\ op > 0 /\ WellFormed(Trace.lines) =>
        /\ total_size = Demand(Trace.lines, op - 1)
        /\ max_total_size = Max({Demand(Trace.lines, n) : n \in 0 .. op - 1})

(* values has the K smallest of all samples taken, in ascending order.        *)
KBest ==
    /\ Len(values) = IF samplecount < K THEN samplecount ELSE K
    /\ \A i, j \in DOMAIN values : i < j => values[i] <= values[j]
    /\ \E place \in Injection(DOMAIN values, DOMAIN samples) :
          /\ \A i \in DOMAIN values : values[i] = samples[place[i]]
          /\ \A j \in DOMAIN samples \ Range(place), i \in DOMAIN values :
                values[i] <= samples[j]

(* The counter's difference is the cycles that passed since start_counter,    *)
(* wherever the two words wrapped.                                            *)
CounterExact == elapsed < CounterValues => get_counter = elapsed

(* The samples the cycles are judged by are right.                            *)
TimingExact == KBest /\ CounterExact

(* The driver comes to an end: every replay, every sampling that does not     *)
(* converge, and every trace.                                                 *)
Finishes == <>(phase \in {"done", "exit"})

=============================================================================
