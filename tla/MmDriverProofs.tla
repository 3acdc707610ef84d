--------------------------- MODULE MmDriverProofs ---------------------------
(* What the trace driver's checks are worth, for all traces, arenas and       *)
(* packages.                                                                  *)
(*                                                                            *)
(* The argument: what the driver keeps of a trace (its range list, its block  *)
(* array, its count of bytes) follows which blocks are live at this point of  *)
(* the trace, and that is a matter of the trace alone.  The range list has    *)
(* every low address once, so remove_range takes the record that was meant.   *)
(* The samples are in a sorted list that a new one enters at its place.       *)
EXTENDS MmDriver, SequenceFacts

Phases == {"libc_read", "libc_valid", "libc_speed", "read", "valid", "util", "speed", "done", "exit"}
Whys == {"mm_init", "mm_malloc", "mm_realloc", "unaligned", "outside", "overlap", "data", "libc"}
Ranges == [lo : Addresses, hi : Addresses]
Payloads == [lo : Addresses, size : Nat]
Reports == [trace : Nat, why : Whys, index : Nat]

(* The types of the variables that the traces, the checks and the package are *)
(* about.                                                                     *)
Control ==
    /\ files \in Seq(TraceFiles) /\ file \in 1 .. Len(files)
    /\ phase \in Phases /\ op \in 0 .. Len(Trace.lines) + 1
Data ==
    /\ blocks \in [Indices -> Addresses] /\ block_sizes \in [Indices -> Nat]
    /\ ranges \in Seq(Ranges) /\ reports \in Seq(Reports) /\ verdicts \in Seq(BOOLEAN)
    /\ total_size \in Int /\ max_total_size \in Nat
    /\ brk \in 0 .. Limit /\ given \in [Indices -> SUBSET Payloads] /\ honest \in BOOLEAN
Types == Control /\ Data

(* A request of a trace is next, or its end.                                  *)
Replay == phase \in {"valid", "util"} \cup Replaying /\ op > 0
Checking == phase = "valid" /\ op > 0
LiveBlocks == {x \in Indices : Live(Trace.lines, op - 1, x)}

(* Every block the trace believes live was given out in this replay.          *)
LiveCurrent == Replay => \A x \in LiveBlocks : Current(x)

(* The ranges as RangesApart has them.                                        *)
InHeap(r, top) == r.lo % Alignment = 0 /\ 0 <= r.lo /\ r.lo <= r.hi /\ r.hi < top
Beside(r, s) == r.hi < s.lo \/ s.hi < r.lo \/ (r.lo < s.lo /\ s.hi < r.hi)
Apart(list, top) ==
    /\ \A i \in 1 .. Len(list) : InHeap(list[i], top)
    /\ \A i, j \in 1 .. Len(list) : i < j => Beside(list[i], list[j])

(* The list that an answer is checked against.                                *)
Left == IF Request.type = "r" THEN remove_range(ranges, blocks[Request.index]) ELSE ranges

(* While a trace is checked, they are.                                        *)
ListApart == Checking => Apart(ranges, brk)

(* The range list is one to one with the live blocks.                         *)
Extents == {Extent(blocks[x], block_sizes[x]) : x \in LiveBlocks}
Exact ==
    Checking /\ WellFormed(Trace.lines) =>
        /\ IsFiniteSet(LiveBlocks) /\ Len(ranges) = Cardinality(LiveBlocks)
        /\ ToSet(ranges) = Extents
        /\ \A x, y \in LiveBlocks : blocks[x] = blocks[y] => x = y

(* Of a package that is honest so far, each range is a payload that is out.   *)
Backed(r) == \E x \in Indices : \E q \in given[x] : q.size > 0 /\ r = Extent(q.lo, q.size)
RangesBacked == Checking /\ honest => \A r \in ToSet(ranges) : Backed(r)

(* How many verdicts there are.                                               *)
VerdictsSoFar ==
    /\ phase \in {"libc_read", "libc_valid", "libc_speed"} => verdicts = << >>
    /\ phase \in {"read", "valid"} => Len(verdicts) = file - 1
    /\ phase \in {"util", "speed"} => Len(verdicts) = file
    /\ Len(verdicts) <= Len(files)

(* The reports on a trace that errors counts.                                 *)
Failures(list, t) == {i \in DOMAIN list : list[i].trace = t /\ list[i].why # "libc"}
Verdict(t) == IF t <= Len(verdicts) /\ ~verdicts[t] THEN 1 ELSE 0
Errors == VerdictsSoFar /\ \A t \in 1 .. Len(files) : Cardinality(Failures(reports, t)) = Verdict(t)

(* The sizes a realloc's difference is taken from, and the demands so far.    *)
Demands == {Demand(Trace.lines, n) : n \in 0 .. op - 1}
Marked ==
    phase = "util" /\ op > 0 /\ WellFormed(Trace.lines) =>
        /\ \A x \in Indices :
              SizeOf(Trace.lines, op - 1, x) = IF x \in LiveBlocks THEN block_sizes[x] ELSE 0
        /\ total_size = Demand(Trace.lines, op - 1) /\ Demands \subseteq Int
        /\ max_total_size \in Demands /\ \A d \in Demands : d <= max_total_size

(* The counter has gone on from where it was read by the cycles that passed,  *)
(* as often as it may have wrapped.                                           *)
CounterSound ==
    /\ counter \in 0 .. CounterValues - 1 /\ start \in 0 .. CounterValues - 1
    /\ elapsed \in Nat /\ cyc_per_tick \in Nat
    /\ \E wraps \in Nat : start + elapsed = counter + (wraps * CounterValues)

(* The samplers do not run away.                                              *)
Sampling ==
    /\ timer \in {"fcyc", "ftimer"} /\ runs \in Nat /\ samples \in Seq(Int)
    /\ Len(samples) <= MaxSamples /\ runs <= Runs
    /\ phase \in Timed => Len(samples) < MaxSamples /\ runs < Runs


-----------------------------------------------------------------------------
(* Traces                                                                     *)

(* Which blocks are live behind a request, by those live before it.           *)
LEMMA LiveSteps ==
    ASSUME NEW lines \in Seq(Lines), NEW n \in 1 .. Len(lines), NEW x
    PROVE  /\ ~Live(lines, 0, x)
           /\ lines[n].type = "a" =>
                 (Live(lines, n, x) <=> x = lines[n].index \/ Live(lines, n - 1, x))
           /\ lines[n].type = "f" =>
                 (Live(lines, n, x) <=> x # lines[n].index /\ Live(lines, n - 1, x))
           /\ lines[n].type \notin {"a", "f"} => (Live(lines, n, x) <=> Live(lines, n - 1, x))
<1> DEFINE a(k) == lines[k].type = "a" /\ lines[k].index = x
           f(k) == lines[k].type = "f" /\ lines[k].index = x
<1>1. n \in Nat /\ n >= 1
  BY LenProperties
<1>2. \A m : Live(lines, m, x) <=> \E k \in 1 .. m : a(k) /\ \A l \in k + 1 .. m : ~f(l)
  BY DEF Live
<1>3. a(n) => ~f(n)
  OBVIOUS
<1> HIDE DEF a, f
<1>4. ~Live(lines, 0, x)
  BY <1>2
<1>5. 1 .. n = (1 .. n - 1) \cup {n} /\ \A k \in 1 .. n - 1 : k + 1 .. n = (k + 1 .. n - 1) \cup {n}
  BY <1>1
<1>6. n + 1 .. n = {}
  BY <1>1
<1>7. Live(lines, n, x) <=> a(n) \/ (~f(n) /\ Live(lines, n - 1, x))
  BY <1>2, <1>3, <1>5, <1>6
<1> QED
  BY <1>4, <1>7 DEF a, f

-----------------------------------------------------------------------------
(* The range list                                                             *)

(* remove_range takes the first record with this low address, if any.         *)
LEMMA RemovedRecord ==
    ASSUME NEW list \in Seq(Ranges), NEW lo
    PROVE  LET t == remove_range(list, lo)
           IN  \/ t = list /\ \A i \in 1 .. Len(list) : list[i].lo # lo
               \/ \E k \in 1 .. Len(list) :
                     /\ list[k].lo = lo
                     /\ t \in Seq(Ranges) /\ Len(t) = Len(list) - 1
                     /\ \A i \in 1 .. Len(t) : t[i] = list[IF i < k THEN i ELSE i + 1]
<1> DEFINE at == {i \in DOMAIN list : list[i].lo = lo}
           t == remove_range(list, lo)
<1>1. Len(list) \in Nat
  BY LenProperties
<1>2. DOMAIN list = 1 .. Len(list)
  BY LenProperties
<1>3. CASE at = {}
  BY <1>2, <1>3 DEF remove_range
<1>4. CASE at # {}
  <2> DEFINE k == CHOOSE i \in at : \A j \in at : i <= j
  <2>1. at \in SUBSET Nat
    BY <1>1, <1>2
  <2>2. \E i \in at : \A j \in at : i <= j
    BY <1>4, <2>1, LeastNumber
  <2>3. k \in at
    BY <2>2
  <2>4. t = RemoveAt(list, k)
    BY <1>4 DEF remove_range
  <2> HIDE DEF k
  <2>5. k \in 1 .. Len(list) /\ list[k].lo = lo
    BY <1>2, <2>3
  <2> DEFINE u == SubSeq(list, 1, k - 1)
             v == SubSeq(list, k + 1, Len(list))
  <2>6. k - 1 \in 0 .. Len(list) /\ k \in 0 .. Len(list)
    BY <1>1, <2>5
  <2>7. /\ u \in Seq(Ranges) /\ Len(u) = k - 1 /\ \A i \in 1 .. k - 1 : u[i] = list[i]
        /\ v \in Seq(Ranges) /\ Len(v) = Len(list) - k
        /\ \A i \in 1 .. Len(list) - k : v[i] = list[k + i]
    BY <2>6, CutInTwo
  <2>8. t = u \o v
    BY <2>4 DEF RemoveAt
  <2> HIDE DEF u, v
  <2>9. /\ t \in Seq(Ranges) /\ Len(t) = Len(u) + Len(v)
        /\ \A i \in 1 .. Len(u) + Len(v) : t[i] = IF i <= Len(u) THEN u[i] ELSE v[i - Len(u)]
    <3> DEFINE w == u \o v
    <3>1. u \in Seq(Ranges) /\ v \in Seq(Ranges)
      BY <2>7
    <3>2. /\ w \in Seq(Ranges) /\ Len(w) = Len(u) + Len(v)
          /\ \A i \in 1 .. Len(u) + Len(v) : w[i] = IF i <= Len(u) THEN u[i] ELSE v[i - Len(u)]
      BY <3>1, ConcatProperties
    <3> HIDE DEF w
    <3> QED
      BY <2>8, <3>2 DEF w
  <2> HIDE DEF t
  <2>10. Len(t) = Len(list) - 1
    BY <1>1, <2>5, <2>7, <2>9
  <2>11. ASSUME NEW i \in 1 .. Len(t) PROVE t[i] = list[IF i < k THEN i ELSE i + 1]
    <3>1. i \in 1 .. Len(u) + Len(v)
      BY <2>9
    <3>2. CASE i < k
      <4>1. i \in 1 .. k - 1 /\ i <= Len(u)
        BY <1>1, <2>5, <2>7, <2>10, <3>2
      <4> QED
        BY <2>7, <2>9, <3>1, <3>2, <4>1
    <3>3. CASE ~(i < k)
      <4>1. ~(i <= Len(u)) /\ i - Len(u) \in 1 .. Len(list) - k /\ k + (i - Len(u)) = i + 1
        BY <1>1, <2>5, <2>7, <2>10, <3>3
      <4> QED
        BY <2>7, <2>9, <3>1, <3>3, <4>1
    <3> QED
      BY <3>2, <3>3
  <2>12. \E m \in 1 .. Len(list) :
            /\ list[m].lo = lo
            /\ t \in Seq(Ranges) /\ Len(t) = Len(list) - 1
            /\ \A i \in 1 .. Len(t) : t[i] = list[IF i < m THEN i ELSE i + 1]
    BY <2>5, <2>9, <2>10, <2>11
  <2> QED
    BY <2>12 DEF t
<1> QED
  BY <1>3, <1>4

(* No two ranges of a list have the same low address.                         *)
LEMMA LowsDiffer ==
    ASSUME NEW list \in Seq(Ranges), NEW top \in Nat, Apart(list, top),
           NEW i \in 1 .. Len(list), NEW j \in 1 .. Len(list), list[i].lo = list[j].lo
    PROVE  i = j
<1>1. /\ InHeap(list[i], top) /\ InHeap(list[j], top)
      /\ (i < j => Beside(list[i], list[j])) /\ (j < i => Beside(list[j], list[i]))
  BY DEF Apart
<1> DEFINE a == list[i].lo
           b == list[i].hi
           c == list[j].lo
           d == list[j].hi
<1>2. a \in Int /\ b \in Int /\ c \in Int /\ d \in Int
  <2>1. list[i] \in Ranges /\ list[j] \in Ranges
    BY ElementOfSeq
  <2> QED
    BY <2>1, DriverAssumption DEF Ranges, Addresses
<1>3. a <= b /\ c <= d /\ a = c
  BY <1>1 DEF InHeap
<1>4. i < j => b < c \/ d < a \/ (a < c /\ d < b)
  BY <1>1 DEF Beside
<1>5. j < i => d < a \/ b < c \/ (c < a /\ b < d)
  BY <1>1 DEF Beside
<1> HIDE DEF a, b, c, d
<1>6. ~(i < j) /\ ~(j < i)
  BY <1>2, <1>3, <1>4, <1>5
<1>7. Len(list) \in Nat
  BY LenProperties
<1> QED
  BY <1>6, <1>7

(* So exactly the ranges of other payloads are left.                          *)
LEMMA RemovedRange ==
    ASSUME NEW list \in Seq(Ranges), NEW top \in Nat, Apart(list, top), NEW lo
    PROVE  LET t == remove_range(list, lo)
           IN  /\ t \in Seq(Ranges) /\ Apart(t, top)
               /\ ToSet(t) = {r \in ToSet(list) : r.lo # lo}
               /\ Len(t) = IF \E r \in ToSet(list) : r.lo = lo THEN Len(list) - 1 ELSE Len(list)
<1> DEFINE t == remove_range(list, lo)
<1>1. Len(list) \in Nat /\ ToSet(list) = {list[i] : i \in 1 .. Len(list)}
  <2>1. Len(list) \in Nat
    BY LenProperties
  <2>2. DOMAIN list = 1 .. Len(list)
    BY LenProperties
  <2> QED
    BY <2>1, <2>2 DEF ToSet
<1>2. ASSUME t = list, \A i \in 1 .. Len(list) : list[i].lo # lo
      PROVE  /\ t \in Seq(Ranges) /\ Apart(t, top)
             /\ ToSet(t) = {r \in ToSet(list) : r.lo # lo}
             /\ Len(t) = IF \E r \in ToSet(list) : r.lo = lo THEN Len(list) - 1 ELSE Len(list)
  BY <1>1, <1>2
<1>3. ASSUME NEW k \in 1 .. Len(list),
             list[k].lo = lo, t \in Seq(Ranges), Len(t) = Len(list) - 1,
             \A i \in 1 .. Len(t) : t[i] = list[IF i < k THEN i ELSE i + 1]
      PROVE  /\ t \in Seq(Ranges) /\ Apart(t, top)
             /\ ToSet(t) = {r \in ToSet(list) : r.lo # lo}
             /\ Len(t) = IF \E r \in ToSet(list) : r.lo = lo THEN Len(list) - 1 ELSE Len(list)
  <2> HIDE DEF t
  <2> DEFINE at(i) == IF i < k THEN i ELSE i + 1
  <2>1. /\ \A i \in 1 .. Len(t) : at(i) \in 1 .. Len(list) /\ at(i) # k /\ t[i] = list[at(i)]
        /\ \A i, j \in 1 .. Len(t) : i < j => at(i) < at(j)
    BY <1>1, <1>3
  <2>2. \A j \in 1 .. Len(list) : j # k => \E i \in 1 .. Len(t) : at(i) = j
    <3>1. ASSUME NEW j \in 1 .. Len(list), j < k PROVE j \in 1 .. Len(t) /\ at(j) = j
      BY <1>1, <1>3, <3>1
    <3>2. ASSUME NEW j \in 1 .. Len(list), j > k PROVE j - 1 \in 1 .. Len(t) /\ at(j - 1) = j
      BY <1>1, <1>3, <3>2
    <3>3. \A j \in 1 .. Len(list) : j # k => j < k \/ j > k
      BY <1>1
    <3> HIDE DEF at
    <3> QED
      BY <3>1, <3>2, <3>3
  <2> HIDE DEF at
  <2>3. Apart(t, top)
    BY <2>1 DEF Apart
  <2>4. ToSet(t) = {t[i] : i \in 1 .. Len(t)}
    <3>1. DOMAIN t = 1 .. Len(t)
      BY <1>3, LenProperties
    <3> QED
      BY <3>1 DEF ToSet
  <2>5. \A j \in 1 .. Len(list) : list[j].lo = lo => j = k
    BY <1>3, LowsDiffer
  <2>6. ToSet(t) = {r \in ToSet(list) : r.lo # lo}
    <3>1. ASSUME NEW i \in 1 .. Len(t) PROVE t[i] \in {r \in ToSet(list) : r.lo # lo}
      <4>1. at(i) \in 1 .. Len(list) /\ at(i) # k /\ t[i] = list[at(i)]
        BY <2>1
      <4>2. list[at(i)].lo # lo
        BY <2>5, <4>1
      <4> QED
        BY <1>1, <4>1, <4>2
    <3>2. ASSUME NEW j \in 1 .. Len(list), list[j].lo # lo PROVE list[j] \in ToSet(t)
      <4>1. PICK i \in 1 .. Len(t) : at(i) = j
        BY <1>3, <2>2, <3>2
      <4> QED
        BY <2>1, <2>4, <4>1
    <3> QED
      BY <1>1, <2>4, <3>1, <3>2
  <2>7. \E r \in ToSet(list) : r.lo = lo
    BY <1>1, <1>3
  <2> QED
    BY <1>3, <2>3, <2>6, <2>7
<1>4. \/ t = list /\ \A i \in 1 .. Len(list) : list[i].lo # lo
      \/ \E k \in 1 .. Len(list) :
            /\ list[k].lo = lo
            /\ t \in Seq(Ranges) /\ Len(t) = Len(list) - 1
            /\ \A i \in 1 .. Len(t) : t[i] = list[IF i < k THEN i ELSE i + 1]
  BY RemovedRecord
<1> HIDE DEF t
<1>5. /\ t \in Seq(Ranges) /\ Apart(t, top)
      /\ ToSet(t) = {r \in ToSet(list) : r.lo # lo}
      /\ Len(t) = IF \E r \in ToSet(list) : r.lo = lo THEN Len(list) - 1 ELSE Len(list)
  BY <1>2, <1>3, <1>4
<1> QED
  BY <1>5 DEF t

(* A range that add_range accepts lies beside those that are there.           *)
LEMMA AcceptedRange ==
    ASSUME NEW list \in Seq(Ranges), NEW top \in Nat, NEW newtop \in 0 .. Limit, top <= newtop,
           Apart(list, top), NEW p \in Addresses, NEW size \in Nat, size > 0,
           Complaint(list, p, p + size - 1, newtop) = "none"
    PROVE  LET t == << Extent(p, size) >> \o list
           IN  /\ t \in Seq(Ranges) /\ Apart(t, newtop)
               /\ ToSet(t) = ToSet(list) \cup {Extent(p, size)}
               /\ Len(t) = Len(list) + 1
               /\ \A r \in ToSet(list) : r.lo # p
<1> DEFINE new == Extent(p, size)
           one == << new >>
           t == one \o list
           hi == p + size - 1
<1>1. Len(list) \in Nat /\ ToSet(list) = {list[i] : i \in 1 .. Len(list)}
  <2>1. Len(list) \in Nat
    BY LenProperties
  <2>2. DOMAIN list = 1 .. Len(list)
    BY LenProperties
  <2> QED
    BY <2>1, <2>2 DEF ToSet
<1>2. p \in Int /\ hi \in Int /\ p <= hi /\ Limit \in Nat /\ newtop \in Nat /\ newtop <= Limit
  BY DriverAssumption DEF Addresses
<1>3. new.lo = p /\ new.hi = hi
  BY DEF Extent
<1>4. /\ p % Alignment = 0
      /\ ~(p < 0 \/ p > newtop - 1 \/ hi < 0 \/ hi > newtop - 1)
      /\ \A i \in 1 .. Len(list) : ~Clashes(p, hi, list[i])
  <2>1. DOMAIN list = 1 .. Len(list)
    BY LenProperties
  <2> QED
    BY <2>1 DEF Complaint
<1> HIDE DEF hi
<1>5. InHeap(new, newtop)
  BY <1>2, <1>3, <1>4 DEF InHeap
<1>6. new \in Ranges
  <2>1. hi \in 0 .. Limit + 1
    BY <1>2, <1>4
  <2> QED
    BY <1>3, <2>1 DEF Ranges, Addresses, Extent, hi
<1> HIDE DEF new
<1>7. one \in Seq(Ranges) /\ Len(one) = 1 /\ one[1] = new
  BY <1>6
<1> HIDE DEF one
<1>8. /\ t \in Seq(Ranges) /\ Len(t) = 1 + Len(list)
      /\ \A i \in 1 .. 1 + Len(list) : t[i] = IF i <= 1 THEN one[i] ELSE list[i - 1]
  BY <1>7, ConcatProperties
<1> HIDE DEF t
<1>9. /\ t[1] = new /\ \A i \in 1 .. Len(list) : t[i + 1] = list[i]
      /\ \A i \in 1 .. Len(t) : i = 1 \/ (i - 1 \in 1 .. Len(list) /\ i = (i - 1) + 1)
  <2>1. 1 \in 1 .. 1 + Len(list)
    BY <1>1
  <2>2. ASSUME NEW i \in 1 .. Len(list)
        PROVE  i + 1 \in 1 .. 1 + Len(list) /\ ~(i + 1 <= 1) /\ (i + 1) - 1 = i
    BY <1>1
  <2>3. ASSUME NEW i \in 1 .. Len(t) PROVE i = 1 \/ (i - 1 \in 1 .. Len(list) /\ i = (i - 1) + 1)
    BY <1>1, <1>8
  <2> QED
    BY <1>7, <1>8, <2>1, <2>2, <2>3
<1>10. ASSUME NEW i \in 1 .. Len(list) PROVE Beside(new, list[i]) /\ list[i].lo # p
  <2> DEFINE c == list[i].lo
             d == list[i].hi
  <2>1. c \in Int /\ d \in Int /\ c <= d
    <3>1. list[i] \in Ranges
      BY ElementOfSeq
    <3>2. c <= d
      BY DEF Apart, InHeap
    <3> QED
      BY <3>1, <3>2, DriverAssumption DEF Ranges, Addresses
  <2>2. ~(c <= p /\ p <= d) /\ ~(c <= hi /\ hi <= d)
    BY <1>4 DEF Clashes, InRange
  <2>3. Beside(new, list[i]) <=> hi < c \/ d < p \/ (p < c /\ d < hi)
    BY <1>3 DEF Beside
  <2> HIDE DEF c, d
  <2>4. hi < c \/ d < p \/ (p < c /\ d < hi)
    BY <1>2, <2>1, <2>2
  <2>5. c # p
    BY <1>2, <2>1, <2>2
  <2> QED
    BY <2>3, <2>4, <2>5 DEF c
<1>11. \A i \in 1 .. Len(list) : InHeap(list[i], newtop)
  <2>1. ASSUME NEW i \in 1 .. Len(list) PROVE InHeap(list[i], newtop)
    <3>1. list[i] \in Ranges /\ InHeap(list[i], top)
      BY ElementOfSeq DEF Apart
    <3>2. list[i].hi \in Int
      BY <3>1, DriverAssumption DEF Ranges, Addresses
    <3> QED
      BY <1>2, <3>1, <3>2 DEF InHeap
  <2> QED
    BY <2>1
<1>12. Apart(t, newtop)
  <2>1. ASSUME NEW i \in 1 .. Len(t) PROVE InHeap(t[i], newtop)
    BY <1>5, <1>9, <1>11
  <2>2. ASSUME NEW i \in 1 .. Len(t), NEW j \in 1 .. Len(t), i < j PROVE Beside(t[i], t[j])
    <3>1. j - 1 \in 1 .. Len(list) /\ t[j] = list[j - 1]
      <4>1. j # 1
        BY <1>1, <1>8, <2>2
      <4> QED
        BY <1>9, <4>1
    <3>2. CASE i = 1
      BY <1>9, <1>10, <3>1, <3>2
    <3>3. CASE i # 1
      <4>1. i - 1 \in 1 .. Len(list) /\ t[i] = list[i - 1]
        BY <1>9, <3>3
      <4>2. i - 1 < j - 1
        BY <1>1, <1>8, <2>2
      <4> QED
        BY <3>1, <4>1, <4>2 DEF Apart
    <3> QED
      BY <3>2, <3>3
  <2> QED
    BY <2>1, <2>2 DEF Apart
<1>13. ToSet(t) = ToSet(list) \cup {new}
  <2>1. ToSet(t) = {t[i] : i \in 1 .. Len(t)}
    <3>1. DOMAIN t = 1 .. Len(t)
      BY <1>8, LenProperties
    <3> QED
      BY <3>1 DEF ToSet
  <2>2. 1 \in 1 .. Len(t) /\ \A i \in 1 .. Len(list) : i + 1 \in 1 .. Len(t)
    BY <1>1, <1>8
  <2>3. ASSUME NEW i \in 1 .. Len(t) PROVE t[i] \in ToSet(list) \cup {new}
    <3>1. CASE i = 1
      BY <1>9, <3>1
    <3>2. CASE i # 1
      <4>1. i - 1 \in 1 .. Len(list) /\ i = (i - 1) + 1
        BY <1>9, <3>2
      <4>2. t[i] = list[i - 1]
        BY <1>9, <4>1
      <4> QED
        BY <1>1, <4>1, <4>2
    <3> QED
      BY <3>1, <3>2
  <2>4. ASSUME NEW i \in 1 .. Len(list) PROVE list[i] \in ToSet(t)
    BY <1>9, <2>1, <2>2
  <2>5. new \in ToSet(t)
    BY <1>9, <2>1, <2>2
  <2> QED
    BY <1>1, <2>1, <2>3, <2>4, <2>5
<1>14. Len(t) = Len(list) + 1
  BY <1>1, <1>8
<1>15. \A r \in ToSet(list) : r.lo # p
  BY <1>1, <1>10
<1> QED
  BY <1>8, <1>12, <1>13, <1>14, <1>15 DEF t, one, new

-----------------------------------------------------------------------------
(* Types                                                                      *)

(* The trace that is evaluated, and the request that is next.                 *)
LEMMA TraceTypes ==
    ASSUME Control
    PROVE  /\ Trace \in TraceFiles /\ Trace.lines \in Seq(Lines) /\ Len(Trace.lines) \in Nat
           /\ op \in 1 .. Len(Trace.lines) =>
                 Request \in Lines /\ Request.index \in Indices /\ Request.size \in Nat
<1>1. Trace \in TraceFiles
  BY ElementOfSeq DEF Control, Trace
<1>2. Trace.lines \in Seq(Lines)
  BY <1>1 DEF TraceFiles
<1>3. ASSUME op \in 1 .. Len(Trace.lines) PROVE Request \in Lines
  BY <1>2, <1>3, ElementOfSeq DEF Request
<1>4. Request \in Lines => Request.index \in Indices /\ Request.size \in Nat
  BY DEF Lines
<1>5. Len(Trace.lines) \in Nat
  BY <1>2, LenProperties
<1> QED
  BY <1>1, <1>2, <1>3, <1>4, <1>5

(* The ways on from a request.                                                *)
LEMMA WaysOn ==
    ASSUME Control, UNCHANGED files
    PROVE  /\ \A p \in Phases, n \in 0 .. Len(Trace.lines) + 1 : Goto(p, n) => Control'
           /\ Exit => Control'
           /\ \A p, q \in Phases : NextFile(p, q) => Control'
<1>1. /\ Trace' = files[file'] /\ (file' = file => Trace' = Trace)
      /\ Len(Trace.lines) \in Nat /\ Len(files) \in Nat
  BY TraceTypes, LenProperties DEF Trace, Control
<1>2. ASSUME NEW p \in Phases, NEW n \in 0 .. Len(Trace.lines) + 1, Goto(p, n) PROVE Control'
  BY <1>1, <1>2 DEF Goto, Control
<1>3. Exit => Control'
  BY <1>1 DEF Exit, Control, Phases
<1>4. ASSUME NEW p \in Phases, NEW q \in Phases, NextFile(p, q) PROVE Control'
  <2>1. file' \in 1 .. Len(files) /\ phase' \in Phases /\ op' = 0
    BY <1>1, <1>4 DEF NextFile, Control
  <2>2. Trace' \in TraceFiles
    BY <1>1, <2>1, ElementOfSeq DEF Control
  <2>3. Len(Trace'.lines) \in Nat
    BY <2>2, LenProperties DEF TraceFiles
  <2>4. op' \in 0 .. Len(Trace'.lines) + 1
    BY <2>1, <2>3
  <2> QED
    BY <2>1, <2>4 DEF Control
<1> QED
  BY <1>2, <1>3, <1>4

(* A report of the request the driver is at.                                  *)
LEMMA ReportTypes ==
    ASSUME Types, op \in 0 .. Len(Trace.lines), NEW why \in Whys
    PROVE  /\ Append(reports, Report(why)) \in Seq(Reports)
           /\ Append(verdicts, TRUE) \in Seq(BOOLEAN) /\ Append(verdicts, FALSE) \in Seq(BOOLEAN)
<1>1. op = 0 \/ op \in 1 .. Len(Trace.lines)
  BY TraceTypes DEF Types
<1>2. op # 0 => Request.index \in Nat
  BY <1>1, TraceTypes, DriverAssumption DEF Types
<1>3. file \in Nat
  BY DEF Types, Control
<1>4. Report(why) \in Reports
  BY <1>2, <1>3 DEF Report, Reports
<1>5. reports \in Seq(Reports) /\ verdicts \in Seq(BOOLEAN)
  BY DEF Types, Data
<1> HIDE DEF Reports, Report
<1> QED
  BY <1>4, <1>5, AppendProperties

(* What the package has out after an answer, or after a block is taken back.  *)
LEMMA AnswerTypes ==
    ASSUME Types, NEW x \in Indices, NEW size \in Nat
    PROVE  /\ Without(x) \in [Indices -> SUBSET Payloads]
           /\ Others(x) \in [Indices -> SUBSET Payloads]
           /\ \A p \in Addresses \cup {NULL} :
                 Give(x, size, p) => given' \in [Indices -> SUBSET Payloads]
           /\ Nothing \in [Indices -> SUBSET Payloads]
<1>1. Without(x) \in [Indices -> SUBSET Payloads]
  BY DEF Without, Types, Data
<1>2. Others(x) \in [Indices -> SUBSET Payloads]
  BY <1>1 DEF Others, Types, Data
<1>3. ASSUME NEW p \in Addresses \cup {NULL}, Give(x, size, p)
      PROVE  given' \in [Indices -> SUBSET Payloads]
  <2> DEFINE others == Others(x)
             new == Payload(p, size)
  <2>1. p # NULL => new \in Payloads
    BY <1>3 DEF Payload, Payloads
  <2>2. given' = IF p = NULL THEN given ELSE [others EXCEPT ![x] = @ \cup {new}]
    BY <1>3 DEF Give
  <2> HIDE DEF others, new
  <2> QED
    BY <1>2, <2>1, <2>2 DEF others, Types, Data
<1>4. Nothing \in [Indices -> SUBSET Payloads]
  BY DEF Nothing
<1> QED
  BY <1>1, <1>2, <1>3, <1>4

(* The range list, as far as types go.                                        *)
LEMMA RangeTypes ==
    ASSUME NEW list \in Seq(Ranges), NEW lo
    PROVE  remove_range(list, lo) \in Seq(Ranges)
<1> DEFINE t == remove_range(list, lo)
<1>1. \/ t = list
      \/ \E k \in 1 .. Len(list) :
            /\ list[k].lo = lo
            /\ t \in Seq(Ranges) /\ Len(t) = Len(list) - 1
            /\ \A i \in 1 .. Len(t) : t[i] = list[IF i < k THEN i ELSE i + 1]
  BY RemovedRecord
<1> HIDE DEF t
<1>2. t \in Seq(Ranges)
  BY <1>1
<1> QED
  BY <1>2 DEF t

(* A range that add_range accepts.                                            *)
LEMMA AcceptedTypes ==
    ASSUME NEW list \in Seq(Ranges), NEW p \in Addresses, NEW size \in Nat, brk' \in 0 .. Limit,
           Accepted(p, size, list)
    PROVE  << Extent(p, size) >> \o list \in Seq(Ranges)
<1> DEFINE hi == p + size - 1
           top == brk'
           one == << Extent(p, size) >>
<1>1. p \in Int /\ hi \in Int /\ Limit \in Nat /\ top \in Nat /\ top <= Limit
  BY DriverAssumption DEF Addresses
<1>2. ~(hi < 0 \/ hi > top - 1)
  BY DEF Accepted, Complaint
<1> HIDE DEF hi, top
<1>3. hi \in 0 .. Limit + 1
  BY <1>1, <1>2
<1>4. Extent(p, size) \in Ranges
  BY <1>3 DEF Extent, Ranges, Addresses, hi
<1>5. one \in Seq(Ranges)
  BY <1>4
<1> HIDE DEF one
<1>6. one \o list \in Seq(Ranges)
  BY <1>5, ConcatProperties
<1> QED
  BY <1>6 DEF one

(* What a failed request, a turned down answer and a remembered payload do.   *)
LEMMA OutcomeTypes ==
    ASSUME Types, UNCHANGED files, brk' \in 0 .. Limit, op \in 0 .. Len(Trace.lines)
    PROVE  /\ \A why \in Whys :
                 Fail(why) => Control' /\ reports' \in Seq(Reports) /\ verdicts' \in Seq(BOOLEAN)
           /\ \A p \in Addresses, size \in Nat, list \in Seq(Ranges) :
                 TurnedDown(p, size, list) =>
                    /\ Control' /\ ranges' \in Seq(Ranges)
                    /\ reports' \in Seq(Reports) /\ verdicts' \in Seq(BOOLEAN)
           /\ \A x \in Indices, p \in Addresses, size \in Nat, list \in Seq(Ranges) :
                 Accepted(p, size, list) /\ Remember(x, p, size, list) =>
                    /\ Control' /\ ranges' \in Seq(Ranges)
                    /\ blocks' \in [Indices -> Addresses] /\ block_sizes' \in [Indices -> Nat]
                    /\ reports' \in Seq(Reports) /\ verdicts' \in Seq(BOOLEAN)
<1>1. /\ Control /\ reports \in Seq(Reports) /\ verdicts \in Seq(BOOLEAN)
      /\ blocks \in [Indices -> Addresses] /\ block_sizes \in [Indices -> Nat]
  BY DEF Types, Data
<1>2. ASSUME NEW why \in Whys, Fail(why)
      PROVE  Control' /\ reports' \in Seq(Reports) /\ verdicts' \in Seq(BOOLEAN)
  <2>1. NextFile("read", "done") /\ "read" \in Phases /\ "done" \in Phases
    BY <1>2 DEF Fail, Phases
  <2>2. Control'
    BY <1>1, <2>1, WaysOn
  <2> QED
    BY <1>2, <2>2, ReportTypes DEF Fail
<1>3. ASSUME NEW p \in Addresses, NEW size \in Nat, NEW list \in Seq(Ranges),
             TurnedDown(p, size, list)
      PROVE  /\ Control' /\ ranges' \in Seq(Ranges)
             /\ reports' \in Seq(Reports) /\ verdicts' \in Seq(BOOLEAN)
  <2> DEFINE why == Complaint(list, p, p + size - 1, brk')
  <2>1. ranges' = list
    BY <1>3 DEF TurnedDown
  <2>2. \/ Exit /\ UNCHANGED << reports, verdicts >>
        \/ why # "none" /\ Fail(why)
    BY <1>3 DEF TurnedDown
  <2>3. why # "none" => why \in Whys
    BY DEF Complaint, Whys
  <2> HIDE DEF why
  <2>4. CASE Exit /\ UNCHANGED << reports, verdicts >>
    <3>1. Control'
      BY <1>1, <2>4, WaysOn
    <3> QED
      BY <1>1, <2>1, <2>4, <3>1
  <2>5. CASE why # "none" /\ Fail(why)
    BY <1>2, <2>1, <2>3, <2>5
  <2> QED
    BY <2>2, <2>4, <2>5
<1>4. ASSUME NEW x \in Indices, NEW p \in Addresses, NEW size \in Nat, NEW list \in Seq(Ranges),
             Accepted(p, size, list), Remember(x, p, size, list)
      PROVE  /\ Control' /\ ranges' \in Seq(Ranges)
             /\ blocks' \in [Indices -> Addresses] /\ block_sizes' \in [Indices -> Nat]
             /\ reports' \in Seq(Reports) /\ verdicts' \in Seq(BOOLEAN)
  <2>1. << Extent(p, size) >> \o list \in Seq(Ranges)
    BY <1>4, AcceptedTypes
  <2>2. Control'
    <3>1. op + 1 \in 0 .. Len(Trace.lines) + 1 /\ "valid" \in Phases
      BY <1>1, TraceTypes DEF Phases
    <3>2. Goto("valid", op + 1)
      BY <1>4 DEF Remember
    <3> QED
      BY <1>1, <3>1, <3>2, WaysOn
  <2> QED
    BY <1>1, <1>4, <2>1, <2>2 DEF Remember
<1> QED
  BY <1>2, <1>3, <1>4

(* The validity evaluation.                                                   *)
LEMMA ValidTypes ==
    ASSUME Types, ValidStart \/ ValidAlloc \/ ValidRealloc \/ ValidFree \/ ValidEnd
    PROVE  Types'
<1>1. /\ Control /\ blocks \in [Indices -> Addresses] /\ block_sizes \in [Indices -> Nat]
      /\ ranges \in Seq(Ranges) /\ reports \in Seq(Reports) /\ verdicts \in Seq(BOOLEAN)
      /\ total_size \in Int /\ max_total_size \in Nat /\ brk \in 0 .. Limit /\ honest \in BOOLEAN
      /\ given \in [Indices -> SUBSET Payloads]
      /\ Len(Trace.lines) \in Nat /\ op \in 0 .. Len(Trace.lines) + 1
  BY TraceTypes DEF Types, Data, Control
<1>2. {"valid", "util"} \subseteq Phases /\ {"mm_init", "mm_malloc", "mm_realloc", "data"} \subseteq Whys
  BY DEF Phases, Whys
<1>3. \A new \in brk .. Limit : new \in 0 .. Limit
  BY <1>1, DriverAssumption
<1>4. UNCHANGED files /\ UNCHANGED total_size /\ UNCHANGED max_total_size
  BY DEF ValidStart, ValidAlloc, ValidRealloc, ValidFree, ValidEnd, utilVars
<1>5. CASE ValidStart
  <2>1. PICK ok \in BOOLEAN :
          /\ PackageStarts(ok)
          /\ ranges' = << >>
          /\ \/ ok /\ Goto("valid", 1) /\ UNCHANGED << reports, verdicts >>
             \/ ~ok /\ Fail("mm_init")
    BY <1>5 DEF ValidStart
  <2>2. 1 \in 0 .. Len(Trace.lines) + 1 /\ op \in 0 .. Len(Trace.lines)
    BY <1>1, <1>5 DEF ValidStart
  <2>3. Control' /\ reports' \in Seq(Reports) /\ verdicts' \in Seq(BOOLEAN)
    BY <1>1, <1>2, <1>4, <2>1, <2>2, WaysOn, OutcomeTypes DEF PackageStarts
  <2>4. given' \in [Indices -> SUBSET Payloads]
    BY <2>1 DEF PackageStarts, Nothing
  <2> QED
    BY <1>1, <1>4, <1>5, <2>1, <2>3, <2>4 DEF ValidStart, PackageStarts, Types, Data, blockVars
<1>6. CASE ValidAlloc
  <2>1. op \in 1 .. Len(Trace.lines)
    BY <1>6 DEF ValidAlloc, At
  <2> DEFINE x == Request.index
             size == Request.size
  <2>2. x \in Indices /\ size \in Nat /\ op \in 0 .. Len(Trace.lines)
    BY <1>1, <2>1, TraceTypes
  <2>3. PICK p \in Addresses \cup {NULL} :
          /\ Answer(x, size, p)
          /\ UNCHANGED honest
          /\ \/ p = NULL /\ Fail("mm_malloc") /\ UNCHANGED << ranges, blockVars >>
             \/ p # NULL /\ TurnedDown(p, size, ranges)
             \/ /\ p # NULL /\ Accepted(p, size, ranges)
                /\ Remember(x, p, size, ranges)
    BY <1>6 DEF ValidAlloc
  <2> HIDE DEF x, size
  <2>4. brk' \in 0 .. Limit /\ given' \in [Indices -> SUBSET Payloads]
    BY <1>3, <2>2, <2>3, AnswerTypes DEF Answer
  <2>5. CASE p = NULL /\ Fail("mm_malloc") /\ UNCHANGED << ranges, blockVars >>
    <3>1. Control' /\ reports' \in Seq(Reports) /\ verdicts' \in Seq(BOOLEAN)
      BY <1>2, <1>4, <2>2, <2>4, <2>5, OutcomeTypes
    <3> QED
      BY <1>1, <1>4, <2>3, <2>4, <2>5, <3>1 DEF Types, Data, blockVars
  <2>6. CASE p # NULL /\ TurnedDown(p, size, ranges)
    <3>1. /\ Control' /\ ranges' \in Seq(Ranges)
          /\ reports' \in Seq(Reports) /\ verdicts' \in Seq(BOOLEAN)
      BY <1>1, <1>4, <2>2, <2>4, <2>6, OutcomeTypes
    <3>2. UNCHANGED blockVars
      BY <2>6 DEF TurnedDown
    <3> QED
      BY <1>1, <1>4, <2>3, <2>4, <3>1, <3>2 DEF Types, Data, blockVars
  <2>7. CASE p # NULL /\ Accepted(p, size, ranges) /\ Remember(x, p, size, ranges)
    <3>1. /\ Control' /\ ranges' \in Seq(Ranges)
          /\ blocks' \in [Indices -> Addresses] /\ block_sizes' \in [Indices -> Nat]
          /\ reports' \in Seq(Reports) /\ verdicts' \in Seq(BOOLEAN)
      BY <1>1, <1>4, <2>2, <2>4, <2>7, OutcomeTypes
    <3> QED
      BY <1>1, <1>4, <2>3, <2>4, <3>1 DEF Types, Data
  <2> QED
    BY <2>3, <2>5, <2>6, <2>7
<1>7. CASE ValidRealloc
  <2>1. op \in 1 .. Len(Trace.lines)
    BY <1>7 DEF ValidRealloc, At
  <2>2. PICK p \in Addresses \cup {NULL}, kept \in BOOLEAN, x \in {Request.index} :
          /\ Answer(x, Request.size, p)
          /\ Passed(x)
          /\ LET list == remove_range(ranges, blocks[x])
             IN  \/ p = NULL /\ Fail("mm_realloc") /\ UNCHANGED << ranges, blockVars >>
                 \/ p # NULL /\ TurnedDown(p, Request.size, list)
                 \/ /\ p # NULL /\ Accepted(p, Request.size, list)
                    /\ LooksKept(x, kept, Request.size)
                    /\ Remember(x, p, Request.size, list)
                 \/ /\ p # NULL /\ Accepted(p, Request.size, list)
                    /\ ~LooksKept(x, kept, Request.size)
                    /\ ranges' = << Extent(p, Request.size) >> \o list
                    /\ Fail("data") /\ UNCHANGED blockVars
    BY <1>7 DEF ValidRealloc
  <2> DEFINE size == Request.size
             list == remove_range(ranges, blocks[x])
  <2>3. x \in Indices /\ size \in Nat /\ op \in 0 .. Len(Trace.lines)
    BY <1>1, <2>1, <2>2, TraceTypes
  <2>4. list \in Seq(Ranges)
    BY <1>1, RangeTypes
  <2>5. \/ p = NULL /\ Fail("mm_realloc") /\ UNCHANGED << ranges, blockVars >>
        \/ p # NULL /\ TurnedDown(p, size, list)
        \/ p # NULL /\ Accepted(p, size, list) /\ Remember(x, p, size, list)
        \/ /\ p # NULL /\ Accepted(p, size, list)
           /\ ranges' = << Extent(p, size) >> \o list
           /\ Fail("data") /\ UNCHANGED blockVars
    BY <2>2
  <2>6. Answer(x, size, p) /\ honest' \in BOOLEAN
    BY <1>1, <2>2 DEF Passed, Current
  <2> HIDE DEF size, list
  <2>7. brk' \in 0 .. Limit /\ given' \in [Indices -> SUBSET Payloads]
    BY <1>3, <2>3, <2>6, AnswerTypes DEF Answer
  <2>8. CASE p = NULL /\ Fail("mm_realloc") /\ UNCHANGED << ranges, blockVars >>
    <3>1. Control' /\ reports' \in Seq(Reports) /\ verdicts' \in Seq(BOOLEAN)
      BY <1>2, <1>4, <2>3, <2>7, <2>8, OutcomeTypes
    <3> QED
      BY <1>1, <1>4, <2>6, <2>7, <2>8, <3>1 DEF Types, Data, blockVars
  <2>9. CASE p # NULL /\ TurnedDown(p, size, list)
    <3>1. /\ Control' /\ ranges' \in Seq(Ranges)
          /\ reports' \in Seq(Reports) /\ verdicts' \in Seq(BOOLEAN)
      BY <1>4, <2>3, <2>4, <2>7, <2>9, OutcomeTypes
    <3>2. UNCHANGED blockVars
      BY <2>9 DEF TurnedDown
    <3> QED
      BY <1>1, <1>4, <2>6, <2>7, <3>1, <3>2 DEF Types, Data, blockVars
  <2>10. CASE p # NULL /\ Accepted(p, size, list) /\ Remember(x, p, size, list)
    <3>1. /\ Control' /\ ranges' \in Seq(Ranges)
          /\ blocks' \in [Indices -> Addresses] /\ block_sizes' \in [Indices -> Nat]
          /\ reports' \in Seq(Reports) /\ verdicts' \in Seq(BOOLEAN)
      BY <1>4, <2>3, <2>4, <2>7, <2>10, OutcomeTypes
    <3> QED
      BY <1>1, <1>4, <2>6, <2>7, <3>1 DEF Types, Data
  <2>11. CASE /\ p # NULL /\ Accepted(p, size, list)
              /\ ranges' = << Extent(p, size) >> \o list
              /\ Fail("data") /\ UNCHANGED blockVars
    <3>1. ranges' \in Seq(Ranges)
      BY <2>3, <2>4, <2>7, <2>11, AcceptedTypes
    <3>2. Control' /\ reports' \in Seq(Reports) /\ verdicts' \in Seq(BOOLEAN)
      BY <1>2, <1>4, <2>3, <2>7, <2>11, OutcomeTypes
    <3> QED
      BY <1>1, <1>4, <2>6, <2>7, <2>11, <3>1, <3>2 DEF Types, Data, blockVars
  <2> QED
    BY <2>5, <2>8, <2>9, <2>10, <2>11
<1>8. CASE ValidFree
  <2>1. op \in 1 .. Len(Trace.lines)
    BY <1>8 DEF ValidFree, At
  <2>2. Request.index \in Indices /\ Request.size \in Nat /\ op + 1 \in 0 .. Len(Trace.lines) + 1
    BY <1>1, <2>1, TraceTypes
  <2>3. Control'
    BY <1>1, <1>2, <1>4, <1>8, <2>2, WaysOn DEF ValidFree
  <2>4. ranges' \in Seq(Ranges)
    BY <1>1, <1>8, RangeTypes DEF ValidFree
  <2>5. given' \in [Indices -> SUBSET Payloads] /\ brk' = brk /\ honest' \in BOOLEAN
    BY <1>1, <1>8, <2>2, AnswerTypes DEF ValidFree, TakeBack, Passed, Current
  <2> QED
    BY <1>1, <1>4, <1>8, <2>3, <2>4, <2>5 DEF ValidFree, Types, Data, blockVars
<1>9. CASE ValidEnd
  <2>1. Control'
    BY <1>1, <1>2, <1>4, <1>9, WaysOn DEF ValidEnd
  <2>2. verdicts' \in Seq(BOOLEAN)
    BY <1>1, <1>9, AppendProperties DEF ValidEnd
  <2> QED
    BY <1>1, <1>4, <1>9, <2>1, <2>2 DEF ValidEnd, Types, Data, blockVars, packageVars
<1> QED
  BY <1>5, <1>6, <1>7, <1>8, <1>9

(* Reading a trace, and the other evaluations.                                *)
LEMMA ReplayTypes ==
    ASSUME Types,
           \/ Read \/ UtilStart \/ UtilPlaced \/ UtilFree \/ UtilEnd
           \/ SpeedStart \/ LibcSpeedStart \/ ReplayPlaced \/ ReplayFree \/ LibcValidEnd \/ RunEnd
    PROVE  Types'
<1>1. /\ Control /\ blocks \in [Indices -> Addresses] /\ block_sizes \in [Indices -> Nat]
      /\ ranges \in Seq(Ranges) /\ reports \in Seq(Reports) /\ verdicts \in Seq(BOOLEAN)
      /\ total_size \in Int /\ max_total_size \in Nat /\ brk \in 0 .. Limit /\ honest \in BOOLEAN
      /\ given \in [Indices -> SUBSET Payloads] /\ phase \in Phases
      /\ Len(Trace.lines) \in Nat /\ op \in 0 .. Len(Trace.lines) + 1
      /\ 0 \in 0 .. Len(Trace.lines) + 1 /\ 1 \in 0 .. Len(Trace.lines) + 1
  BY TraceTypes DEF Types, Data, Control
<1>2. {"libc_read", "libc_valid", "libc_speed", "read", "valid", "util", "speed", "done"} \subseteq Phases
  BY DEF Phases
<1>3. \A new \in brk .. Limit : new \in 0 .. Limit
  BY <1>1, DriverAssumption
<1>4. Nothing \in [Indices -> SUBSET Payloads]
  BY DEF Nothing
<1>5. UNCHANGED << files, ranges, verdicts >>
  BY DEF Read, UtilStart, UtilPlaced, UtilFree, UtilEnd, SpeedStart, LibcSpeedStart, ReplayPlaced,
         ReplayFree, LibcValidEnd, RunEnd, checkVars
<1>6. ASSUME NEW x \in Indices, NEW p \in Addresses
      PROVE  [blocks EXCEPT ![x] = p] \in [Indices -> Addresses]
  BY <1>1
<1>7. ASSUME op \in 1 .. Len(Trace.lines)
      PROVE  /\ Request.index \in Indices /\ Request.size \in Nat
             /\ op + 1 \in 0 .. Len(Trace.lines) + 1
  BY <1>1, <1>7, TraceTypes
<1>8. CASE Read
  <2>1. Control'
    BY <1>1, <1>2, <1>5, <1>8, WaysOn DEF Read
  <2>2. [x \in Indices |-> -2] \in [Indices -> Addresses] /\ [x \in Indices |-> 0] \in [Indices -> Nat]
    BY DEF Addresses
  <2> QED
    BY <1>1, <1>4, <1>8, <2>1, <2>2 DEF Read, Types, Data, checkVars, utilVars
<1>9. CASE UtilStart
  <2>1. Control'
    BY <1>1, <1>2, <1>5, <1>9, WaysOn DEF UtilStart
  <2>2. brk' \in 0 .. Limit /\ given' = Nothing /\ honest' = honest
    BY <1>9 DEF UtilStart, PackageStarts
  <2> QED
    BY <1>1, <1>4, <1>9, <2>1, <2>2 DEF UtilStart, Types, Data, blockVars, checkVars
<1>10. CASE UtilPlaced
  <2> DEFINE size == Request.size
             total == total_size + size - IF Request.type = "r" THEN block_sizes[Request.index] ELSE 0
  <2>1. op \in 1 .. Len(Trace.lines)
    BY <1>10 DEF UtilPlaced, At
  <2>2. PICK p \in Addresses \cup {NULL}, x \in {Request.index} :
          /\ Answer(x, Request.size, p)
          /\ IF Request.type = "r" THEN Passed(x) ELSE UNCHANGED honest
          /\ \/ p = NULL /\ Exit /\ UNCHANGED << blockVars, utilVars >>
             \/ /\ p # NULL
                /\ blocks' = [blocks EXCEPT ![x] = p]
                /\ block_sizes' = [block_sizes EXCEPT ![x] = Request.size]
                /\ Count(total_size + Request.size
                            - IF Request.type = "r" THEN block_sizes[x] ELSE 0)
                /\ Goto("util", op + 1)
    BY <1>10 DEF UtilPlaced
  <2>3. x \in Indices /\ size \in Nat
    BY <1>7, <2>1, <2>2
  <2>4. total \in Int
    BY <1>1, <2>2, <2>3
  <2>5. \/ p = NULL /\ Exit /\ UNCHANGED << blockVars, utilVars >>
        \/ /\ p # NULL
           /\ blocks' = [blocks EXCEPT ![x] = p]
           /\ block_sizes' = [block_sizes EXCEPT ![x] = size]
           /\ Count(total)
           /\ Goto("util", op + 1)
    BY <2>2
  <2>6. brk' \in 0 .. Limit /\ given' \in [Indices -> SUBSET Payloads]
    BY <1>3, <2>2, <2>3, AnswerTypes DEF Answer
  <2>7. honest' \in BOOLEAN
    BY <1>1, <2>2 DEF Passed, Current
  <2> HIDE DEF size, total
  <2>8. CASE p = NULL /\ Exit /\ UNCHANGED << blockVars, utilVars >>
    <3>1. Control'
      BY <1>1, <1>5, <2>8, WaysOn
    <3> QED
      BY <1>1, <1>5, <1>10, <2>6, <2>7, <2>8, <3>1
      DEF UtilPlaced, Types, Data, blockVars, utilVars, checkVars
  <2>9. CASE /\ p # NULL
             /\ blocks' = [blocks EXCEPT ![x] = p]
             /\ block_sizes' = [block_sizes EXCEPT ![x] = size]
             /\ Count(total)
             /\ Goto("util", op + 1)
    <3>1. Control'
      BY <1>1, <1>2, <1>5, <1>7, <2>1, <2>9, WaysOn
    <3>2. total_size' \in Int /\ max_total_size' \in Nat
      BY <1>1, <2>4, <2>9 DEF Count
    <3>3. blocks' \in [Indices -> Addresses] /\ block_sizes' \in [Indices -> Nat]
      BY <1>1, <2>3, <2>9
    <3> QED
      BY <1>1, <1>5, <1>10, <2>6, <2>7, <3>1, <3>2, <3>3 DEF UtilPlaced, Types, Data, checkVars
  <2> QED
    BY <2>5, <2>8, <2>9
<1>11. CASE UtilFree
  <2>1. op \in 1 .. Len(Trace.lines)
    BY <1>11 DEF UtilFree, At
  <2>2. Control'
    BY <1>1, <1>2, <1>5, <1>7, <1>11, <2>1, WaysOn DEF UtilFree
  <2>3. given' \in [Indices -> SUBSET Payloads] /\ brk' = brk /\ honest' \in BOOLEAN
    BY <1>1, <1>7, <1>11, <2>1, AnswerTypes DEF UtilFree, TakeBack, Passed, Current
  <2>4. total_size' \in Int
    BY <1>1, <1>7, <1>11, <2>1 DEF UtilFree
  <2> QED
    BY <1>1, <1>11, <2>2, <2>3, <2>4 DEF UtilFree, Types, Data, blockVars, checkVars
<1>12. CASE UtilEnd
  <2>1. Control'
    BY <1>1, <1>2, <1>5, <1>12, WaysOn DEF UtilEnd
  <2> QED
    BY <1>1, <1>12, <2>1 DEF UtilEnd, Types, Data, blockVars, checkVars, utilVars, packageVars
<1>13. CASE SpeedStart
  <2>1. Control'
    BY <1>1, <1>2, <1>5, <1>13, WaysOn DEF SpeedStart
  <2>2. brk' \in 0 .. Limit /\ given' = Nothing /\ honest' = honest
    BY <1>13 DEF SpeedStart, PackageStarts
  <2> QED
    BY <1>1, <1>4, <1>13, <2>1, <2>2 DEF SpeedStart, Types, Data, blockVars, checkVars, utilVars
<1>14. CASE LibcSpeedStart
  <2>1. Control'
    BY <1>1, <1>2, <1>5, <1>14, WaysOn DEF LibcSpeedStart
  <2> QED
    BY <1>1, <1>4, <1>14, <2>1 DEF LibcSpeedStart, Types, Data, blockVars, checkVars, utilVars
<1>15. CASE ReplayPlaced
  <2>1. op \in 1 .. Len(Trace.lines)
    BY <1>15 DEF ReplayPlaced, At
  <2>2. PICK p \in Addresses \cup {NULL}, x \in {Request.index} :
          /\ \/ phase = "speed" /\ Answer(x, Request.size, p)
                /\ IF Request.type = "r" THEN Passed(x) ELSE UNCHANGED honest
             \/ phase # "speed" /\ LibraryAnswer(x, Request.size, p)
          /\ \/ p = NULL /\ Exit /\ ReplayFails /\ UNCHANGED blocks
             \/ p # NULL /\ Goto(phase, op + 1) /\ Placed(x, p) /\ UNCHANGED reports
    BY <1>15 DEF ReplayPlaced
  <2>3. x \in Indices /\ Request.size \in Nat
    BY <1>7, <2>1, <2>2
  <2>4. Give(x, Request.size, p) /\ brk' \in 0 .. Limit
    BY <1>1, <1>3, <2>2 DEF Answer, LibraryAnswer
  <2>5. given' \in [Indices -> SUBSET Payloads]
    BY <2>2, <2>3, <2>4, AnswerTypes
  <2>6. honest' \in BOOLEAN
    BY <1>1, <2>2 DEF LibraryAnswer, Passed, Current
  <2>7. UNCHANGED << block_sizes, total_size, max_total_size >>
    BY <1>15 DEF ReplayPlaced, utilVars
  <2>8. Control'
    BY <1>1, <1>5, <1>7, <2>1, <2>2, WaysOn
  <2>9. blocks' \in [Indices -> Addresses]
    BY <1>1, <2>2, <2>3 DEF Placed
  <2>10. reports' \in Seq(Reports)
    <3>1. op \in 0 .. Len(Trace.lines) /\ "libc" \in Whys
      BY <1>1, <2>1 DEF Whys
    <3>2. Append(reports, Report("libc")) \in Seq(Reports)
      BY <3>1, ReportTypes
    <3>3. reports' = reports \/ reports' = Append(reports, Report("libc"))
      BY <2>2 DEF ReplayFails
    <3> QED
      BY <1>1, <3>2, <3>3
  <2> QED
    BY <1>1, <1>5, <2>4, <2>5, <2>6, <2>7, <2>8, <2>9, <2>10 DEF Types, Data
<1>16. CASE ReplayFree
  <2>1. op \in 1 .. Len(Trace.lines)
    BY <1>16 DEF ReplayFree, At
  <2>2. Control'
    BY <1>1, <1>2, <1>5, <1>7, <1>16, <2>1, WaysOn DEF ReplayFree
  <2>3. given' \in [Indices -> SUBSET Payloads] /\ brk' = brk
    BY <1>7, <1>16, <2>1, AnswerTypes DEF ReplayFree, TakeBack
  <2>4. honest' \in BOOLEAN
    BY <1>1, <1>16 DEF ReplayFree, Passed, Current
  <2> QED
    BY <1>1, <1>16, <2>2, <2>3, <2>4 DEF ReplayFree, Types, Data, blockVars, checkVars, utilVars
<1>17. CASE LibcValidEnd
  <2>1. Control'
    BY <1>1, <1>2, <1>5, <1>17, WaysOn DEF LibcValidEnd
  <2> QED
    BY <1>1, <1>17, <2>1 DEF LibcValidEnd, Types, Data, blockVars, checkVars, utilVars, packageVars
<1>18. CASE RunEnd
  <2>1. Control'
    BY <1>1, <1>2, <1>5, <1>18, WaysOn DEF RunEnd
  <2> QED
    BY <1>1, <1>18, <2>1 DEF RunEnd, Types, Data, blockVars, checkVars, utilVars, packageVars
<1> QED
  BY <1>8, <1>9, <1>10, <1>11, <1>12, <1>13, <1>14, <1>15, <1>16, <1>17, <1>18

(* The types hold at the start.                                               *)
LEMMA TypesInit == Init => Types
<1> SUFFICES ASSUME Init PROVE Types
  OBVIOUS
<1>1. files \in Seq(TraceFiles) /\ files # << >>
  BY DriverAssumption DEF Init
<1>2. file \in 1 .. Len(files)
  <2>1. Len(files) \in Nat /\ Len(files) # 0
    BY <1>1, LenProperties, EmptySeq
  <2> QED
    BY <2>1 DEF Init
<1>3. Trace \in TraceFiles
  BY <1>1, <1>2, ElementOfSeq DEF Trace
<1>4. op \in 0 .. Len(Trace.lines) + 1
  <2>1. Len(Trace.lines) \in Nat
    BY <1>3, LenProperties DEF TraceFiles
  <2> QED
    BY <2>1 DEF Init
<1>5. Control
  BY <1>1, <1>2, <1>4 DEF Init, Control, Phases
<1>6. << >> \in Seq(Ranges) /\ << >> \in Seq(Reports) /\ << >> \in Seq(BOOLEAN)
  OBVIOUS
<1>7. /\ blocks \in [Indices -> Addresses] /\ block_sizes \in [Indices -> Nat]
      /\ given \in [Indices -> SUBSET Payloads] /\ honest \in BOOLEAN /\ brk \in 0 .. Limit
  BY DriverAssumption DEF Init, Addresses, Nothing
<1> QED
  BY <1>5, <1>6, <1>7 DEF Init, Types, Data

(* Every variable that a trace, a check or the package is about keeps its     *)
(* type.                                                                      *)
THEOREM TypesHold == Spec => []Types
<1>1. Types /\ [Next]_vars => Types'
  <2>1. Types /\ UNCHANGED vars => Types'
    BY DEF Types, Control, Data, Trace, vars, driverVars, traceVars, blockVars, checkVars, utilVars,
           packageVars
  <2> QED
    BY <2>1, ValidTypes, ReplayTypes DEF Next
<1> QED
  BY <1>1, TypesInit, PTL DEF Spec

-----------------------------------------------------------------------------
(* Sampling                                                                   *)

(* A remainder of a number not far from the range it is taken to.             *)
LEMMA SmallRemainder ==
    ASSUME NEW n \in Int, NEW w \in Nat \ {0}
    PROVE  /\ 0 <= n /\ n < w => n % w = n
           /\ w <= n /\ n < 2 * w => n % w = n - w
           /\ -w <= n /\ n < 0 => n % w = n + w
OBVIOUS

(* A number of two words, and its words.                                      *)
LEMMA TwoWords ==
    ASSUME NEW n \in 0 .. CounterValues - 1
    PROVE  /\ Hi(n) \in 0 .. WordValues - 1 /\ Lo(n) \in 0 .. WordValues - 1
           /\ n = Hi(n) * WordValues + Lo(n)
<1> DEFINE w == WordValues
           h == n \div w
           l == n % w
<1>1. w \in Nat \ {0}
  BY TimingAssumption
<1>2. n \in Nat /\ n < w * w
  BY <1>1 DEF CounterValues
<1> HIDE DEF w
<1>3. h \in Nat /\ l \in 0 .. w - 1 /\ n = (h * w) + l
  BY <1>1, <1>2
<1> HIDE DEF h, l
<1>4. h < w
  <2>1. h >= w => h * w >= w * w
    BY <1>1, <1>3
  <2>2. h * w \in Nat /\ w * w \in Nat
    BY <1>1, <1>3
  <2> DEFINE a == h * w
             b == w * w
  <2> HIDE DEF a, b
  <2>3. a + l < b /\ a \in Nat /\ b \in Nat
    BY <1>2, <1>3, <2>2 DEF a, b
  <2>4. ~(a >= b)
    BY <1>3, <2>3
  <2> QED
    BY <1>1, <1>3, <2>1, <2>4 DEF a, b
<1>5. h \in 0 .. w - 1
  BY <1>1, <1>3, <1>4
<1> QED
  BY <1>3, <1>5 DEF h, l, w, Hi, Lo

(* The double-word subtraction is a subtraction, up to the wrap of the        *)
(* counter.                                                                   *)
LEMMA DifferenceIsExact ==
    ASSUME NEW now \in 0 .. CounterValues - 1, NEW then \in 0 .. CounterValues - 1
    PROVE  Difference(now, then) = IF now >= then THEN now - then ELSE now - then + CounterValues
<1> DEFINE w == WordValues
           a == Hi(now)
           b == Lo(now)
           c == Hi(then)
           d == Lo(then)
           lo == (b - d) % w
           borrow == IF lo > b THEN 1 ELSE 0
           hi == (a - c - borrow) % w
<1>1. w \in Nat \ {0}
  BY TimingAssumption
<1>2. /\ a \in 0 .. w - 1 /\ b \in 0 .. w - 1 /\ now = (a * w) + b
      /\ c \in 0 .. w - 1 /\ d \in 0 .. w - 1 /\ then = (c * w) + d
  BY TwoWords
<1>3. Difference(now, then) = (hi * w) + lo
  BY DEF Difference
<1> HIDE DEF w, a, b, c, d
<1>4. lo = (IF b >= d THEN b - d ELSE b - d + w)
  <2>1. b - d \in Int /\ b - d < w /\ -w <= b - d
    BY <1>1, <1>2
  <2> DEFINE e == b - d
  <2>2. e \in Int /\ e < w /\ -w <= e /\ lo = e % w /\ (b >= d <=> e >= 0)
    BY <1>1, <1>2, <2>1
  <2> HIDE DEF e
  <2>3. e % w = IF e >= 0 THEN e ELSE e + w
    <3>1. /\ 0 <= e /\ e < w => e % w = e
          /\ -w <= e /\ e < 0 => e % w = e + w
      BY <1>1, <2>2, SmallRemainder
    <3> DEFINE m == e % w
    <3> HIDE DEF m
    <3>2. m = IF e >= 0 THEN e ELSE e + w
      BY <1>1, <2>2, <3>1 DEF m
    <3> QED
      BY <3>2 DEF m
  <2> QED
    BY <2>2, <2>3 DEF e
<1> HIDE DEF lo
<1>5. borrow = IF b >= d THEN 0 ELSE 1
  BY <1>1, <1>2, <1>4
<1> HIDE DEF borrow
<1>6. hi = IF a - c - borrow >= 0 THEN a - c - borrow ELSE a - c - borrow + w
  <2> DEFINE e == a - c - borrow
  <2>1. e \in Int /\ e < w /\ -w <= e
    BY <1>1, <1>2, <1>5
  <2> HIDE DEF e
  <2>2. e % w = IF e >= 0 THEN e ELSE e + w
    <3>1. /\ 0 <= e /\ e < w => e % w = e
          /\ -w <= e /\ e < 0 => e % w = e + w
      BY <1>1, <2>1, SmallRemainder
    <3> DEFINE m == e % w
    <3> HIDE DEF m
    <3>2. m = IF e >= 0 THEN e ELSE e + w
      BY <1>1, <2>1, <3>1 DEF m
    <3> QED
      BY <3>2 DEF m
  <2> QED
    BY <2>2 DEF e
<1> HIDE DEF hi
<1>7. a >= c + 1 => a * w >= (c * w) + w
  BY <1>1, <1>2
<1>8. c >= a + 1 => c * w >= (a * w) + w
  BY <1>1, <1>2
<1>9. (a - c - borrow) * w = (a * w) - (c * w) - (borrow * w)
  BY <1>1, <1>2, <1>5
<1>10. (a - c - borrow + w) * w = (a * w) - (c * w) - (borrow * w) + (w * w)
  BY <1>1, <1>2, <1>5
<1>11. borrow * w = IF b >= d THEN 0 ELSE w
  BY <1>1, <1>5
<1> DEFINE A == a * w
           C == c * w
           W == w * w
           result == hi * w
<1>12. A \in Int /\ C \in Int /\ W \in Int
  BY <1>1, <1>2
<1>13. result = IF a - c - borrow >= 0 THEN A - C - (borrow * w) ELSE A - C - (borrow * w) + W
  BY <1>6, <1>9, <1>10
<1>14. a = c => A = C
  OBVIOUS
<1>15. /\ a >= c + 1 => A >= C + w
       /\ c >= a + 1 => C >= A + w
  BY <1>7, <1>8
<1>16. now = A + b /\ then = C + d /\ CounterValues = W /\ Difference(now, then) = result + lo
  BY <1>2, <1>3 DEF CounterValues, w
<1> HIDE DEF A, C, W, result
<1>17. CASE b >= d
  <2>1. lo = b - d /\ borrow = 0 /\ borrow * w = 0
    BY <1>4, <1>5, <1>11, <1>17
  <2>2. result = IF a >= c THEN A - C ELSE A - C + W
    BY <1>2, <1>12, <1>13, <2>1
  <2>3. now >= then <=> a >= c
    BY <1>1, <1>2, <1>12, <1>14, <1>15, <1>16, <1>17
  <2> QED
    BY <1>1, <1>2, <1>12, <1>16, <2>1, <2>2, <2>3
<1>18. CASE b < d
  <2>1. lo = b - d + w /\ borrow = 1 /\ borrow * w = w
    BY <1>1, <1>2, <1>4, <1>5, <1>11, <1>18
  <2>2. result = IF a >= c + 1 THEN A - C - w ELSE A - C - w + W
    BY <1>2, <1>12, <1>13, <2>1
  <2>3. now >= then <=> a >= c + 1
    BY <1>1, <1>2, <1>12, <1>14, <1>15, <1>16, <1>18
  <2> QED
    BY <1>1, <1>2, <1>12, <1>16, <2>1, <2>2, <2>3
<1> QED
  BY <1>1, <1>2, <1>17, <1>18

(* What a step of the driver does to the timing.                              *)
LEMMA TimingSteps ==
    ASSUME Next
    PROVE  \/ UNCHANGED timingVars /\ (phase' \in Timed => phase \in Timed)
           \/ StartTiming
           \/ BeginRun /\ phase \in Timed
           \/ Pass(1) /\ phase \in Timed
           \/ EndRun /\ phase \in Timed /\ (phase' \in Timed => AnotherRun')
<1>1. Read => UNCHANGED timingVars /\ phase' \notin Timed
  BY DEF Read, Goto, Exit, Timed
<1>2. ValidStart \/ ValidAlloc \/ ValidRealloc \/ ValidFree \/ ValidEnd =>
         UNCHANGED timingVars /\ phase' \notin Timed
  BY DEF ValidStart, ValidAlloc, ValidRealloc, ValidFree, ValidEnd, Fail, NextFile, TurnedDown,
         Remember, Goto, Exit, Timed
<1>3. UtilStart \/ UtilPlaced \/ UtilFree => UNCHANGED timingVars /\ phase' \notin Timed
  BY DEF UtilStart, UtilPlaced, UtilFree, Goto, Exit, Timed
<1>4. UtilEnd \/ LibcValidEnd => StartTiming
  BY DEF UtilEnd, LibcValidEnd
<1>5. SpeedStart \/ LibcSpeedStart => BeginRun /\ phase \in Timed
  BY DEF SpeedStart, LibcSpeedStart, Timed
<1>6. ASSUME ReplayPlaced \/ ReplayFree
      PROVE  \/ UNCHANGED timingVars /\ (phase' \in Timed => phase \in Timed)
             \/ Pass(1) /\ phase \in Timed
  <2>1. Elapse
    BY <1>6 DEF ReplayPlaced, ReplayFree
  <2>2. phase' = phase \/ phase' = "exit"
    BY <1>6 DEF ReplayPlaced, ReplayFree, Goto, Exit
  <2> QED
    BY <2>1, <2>2 DEF Elapse, Timed
<1>7. ASSUME RunEnd PROVE EndRun /\ phase \in Timed /\ (phase' \in Timed => AnotherRun')
  <2>1. EndRun /\ phase \in Timed
    BY <1>7 DEF RunEnd
  <2>2. ~AnotherRun' => phase' \notin Timed
    BY <1>7 DEF RunEnd, NextFile, Timed
  <2> QED
    BY <2>1, <2>2
<1> QED
  BY <1>1, <1>2, <1>3, <1>4, <1>5, <1>6, <1>7 DEF Next

(* The counter's words are never lost track of.                               *)
THEOREM CounterHolds == Spec => []CounterSound
<1> DEFINE top == CounterValues
<1>1. top \in Nat \ {0}
  BY TimingAssumption DEF CounterValues
<1>2. Init => CounterSound
  <2>1. 0 \in 0 .. top - 1 /\ 0 * top = 0
    BY <1>1
  <2>2. \E wraps \in Nat : 0 + 0 = 0 + (wraps * top)
    BY <2>1
  <2> QED
    BY <2>1, <2>2 DEF Init, TimingInit, CounterSound
<1>3. CounterSound /\ [Next]_vars => CounterSound'
  <2> SUFFICES ASSUME CounterSound, [Next]_vars PROVE CounterSound'
    OBVIOUS
  <2>1. /\ counter \in 0 .. top - 1 /\ start \in 0 .. top - 1 /\ elapsed \in Nat
        /\ cyc_per_tick \in Nat
    BY DEF CounterSound
  <2>2. ASSUME UNCHANGED << counter, start, cyc_per_tick, elapsed >> PROVE CounterSound'
    BY <2>2 DEF CounterSound
  <2>3. ASSUME BeginRun PROVE CounterSound'
    <3>1. CASE timer = "fcyc"
      <4>1. counter' = counter /\ start' = counter /\ elapsed' = 0
        BY <2>3, <3>1 DEF BeginRun
      <4>2. cyc_per_tick' \in Nat
        BY <2>1, <2>3, <3>1, TimingAssumption DEF BeginRun
      <4>3. \E wraps \in Nat : counter + 0 = counter + (wraps * top)
        BY <1>1, <2>1
      <4> QED
        BY <2>1, <4>1, <4>2, <4>3 DEF CounterSound
    <3>2. CASE timer # "fcyc"
      BY <2>2, <2>3, <3>2 DEF BeginRun
    <3> QED
      BY <3>1, <3>2
  <2>4. ASSUME Pass(1) PROVE CounterSound'
    <3>1. CASE timer = "fcyc"
      <4>1. PICK c \in 0 .. 1 : counter' = (counter + c) % top /\ elapsed' = elapsed + c
        BY <2>4, <3>1 DEF Pass
      <4>2. start' = start /\ cyc_per_tick' = cyc_per_tick
        BY <2>4 DEF Pass
      <4>3. PICK wraps \in Nat : start + elapsed = counter + (wraps * top)
        BY DEF CounterSound
      <4> DEFINE sum == counter + c
                 passed == wraps * top
      <4>4. sum \in Nat /\ sum <= top /\ counter' = sum % top
        BY <1>1, <2>1, <4>1
      <4>5. passed \in Nat /\ (wraps + 1) * top = passed + top
        BY <1>1, <4>3
      <4>6. start + (elapsed + c) = sum + passed
        BY <1>1, <2>1, <4>3, <4>5
      <4>7. CASE sum < top
        <5>1. counter' = sum
          BY <1>1, <4>4, <4>7, SmallRemainder
        <5>2. sum \in 0 .. top - 1
          BY <1>1, <4>4, <4>7
        <5> QED
          BY <2>1, <4>1, <4>2, <4>3, <4>6, <5>1, <5>2 DEF CounterSound
      <4>8. CASE sum = top
        <5>1. counter' = 0
          <6>1. top \in Int /\ top <= top /\ top < 2 * top /\ top - top = 0
            BY <1>1
          <6> HIDE DEF top
          <6>2. top % top = 0
            BY <1>1, <6>1, SmallRemainder
          <6> QED
            BY <4>4, <4>8, <6>2
        <5>2. start + (elapsed + c) = 0 + ((wraps + 1) * top) /\ 0 \in 0 .. top - 1
          BY <1>1, <4>4, <4>5, <4>6, <4>8
        <5>3. elapsed + c \in Nat /\ wraps + 1 \in Nat
          BY <2>1, <4>1, <4>3
        <5> QED
          BY <2>1, <4>1, <4>2, <5>1, <5>2, <5>3 DEF CounterSound
      <4> QED
        BY <1>1, <4>4, <4>7, <4>8
    <3>2. CASE timer # "fcyc"
      BY <2>2, <2>4, <3>2 DEF Pass
    <3> QED
      BY <3>1, <3>2
  <2>5. CASE Next
    BY <2>2, <2>3, <2>4, <2>5, TimingSteps DEF timingVars, StartTiming, EndRun
  <2>6. CASE UNCHANGED vars
    BY <2>2, <2>6 DEF vars, timingVars
  <2> QED
    BY <2>5, <2>6
<1> QED
  BY <1>2, <1>3, PTL DEF Spec

(* get_counter's difference of two words each is the cycles that passed,      *)
(* however large the words are and wherever they wrapped.                     *)
THEOREM CounterExactAlways == Spec => []CounterExact
<1>1. CounterSound => CounterExact
  <2> SUFFICES ASSUME CounterSound, elapsed < CounterValues PROVE get_counter = elapsed
    BY DEF CounterExact
  <2> DEFINE top == CounterValues
  <2>1. top \in Nat \ {0}
    BY TimingAssumption DEF CounterValues
  <2>2. counter \in 0 .. top - 1 /\ start \in 0 .. top - 1 /\ elapsed \in Nat /\ elapsed < top
    BY DEF CounterSound
  <2>3. PICK wraps \in Nat : start + elapsed = counter + (wraps * top)
    BY DEF CounterSound
  <2>4. get_counter = IF counter >= start THEN counter - start ELSE counter - start + top
    BY <2>2, DifferenceIsExact DEF get_counter
  <2> HIDE DEF top
  <2>5. wraps >= 2 => wraps * top >= 2 * top
    BY <2>1, <2>3
  <2>6. wraps = 0 => wraps * top = 0
    BY <2>1
  <2>7. wraps = 1 => wraps * top = top
    BY <2>1
  <2> DEFINE passed == wraps * top
  <2>8. passed \in Nat
    BY <2>1, <2>3
  <2>9. passed >= 2 * top \/ passed = 0 \/ passed = top
    BY <2>3, <2>5, <2>6, <2>7
  <2>10. start + elapsed = counter + passed
    BY <2>3
  <2> HIDE DEF passed
  <2> QED
    BY <2>1, <2>2, <2>4, <2>8, <2>9, <2>10
<1> QED
  BY <1>1, CounterHolds, PTL

(* fsecs stops at the limits it was given.                                    *)
THEOREM SamplingHolds == Spec => []Sampling
<1> USE TimingAssumption
<1>1. Init => Sampling
  <2>1. << >> \in Seq(Int) /\ Len(<< >>) = 0
    BY EmptySeq
  <2> QED
    BY <2>1 DEF Init, TimingInit, Sampling, Timed
<1>2. Sampling /\ CounterSound /\ [Next]_vars => Sampling'
  <2> SUFFICES ASSUME Sampling, CounterSound, [Next]_vars PROVE Sampling'
    OBVIOUS
  <2>1. << >> \in Seq(Int) /\ Len(<< >>) = 0 /\ Len(samples) \in Nat
    BY LenProperties, EmptySeq DEF Sampling
  <2>2. CASE StartTiming
    BY <2>1, <2>2 DEF StartTiming, Sampling
  <2>3. ASSUME UNCHANGED << timer, samples, runs >>, phase' \in Timed => phase \in Timed
        PROVE  Sampling'
    BY <2>3 DEF Sampling
  <2>4. ASSUME EndRun, phase \in Timed, phase' \in Timed => AnotherRun' PROVE Sampling'
    <3>1. Len(samples) < MaxSamples /\ runs < Runs /\ timer' = timer
      BY <2>4 DEF Sampling, EndRun
    <3>2. CASE timer = "fcyc"
      <4>1. PICK ticks \in {0, 1} :
              samples' = Append(samples, get_counter - (ticks * cyc_per_tick)) /\ runs' = runs
        BY <2>4, <3>2 DEF EndRun, TakeSample
      <4>2. get_counter \in Int /\ ticks * cyc_per_tick \in Int
        <5>1. CounterValues \in Nat /\ counter \in Int /\ start \in Int /\ cyc_per_tick \in Nat
          BY DEF CounterValues, CounterSound
        <5>2. get_counter \in {counter - start, counter - start + CounterValues}
          BY DifferenceIsExact DEF get_counter, CounterSound
        <5> QED
          BY <4>1, <5>1, <5>2
      <4> DEFINE sample == get_counter - (ticks * cyc_per_tick)
      <4>3. sample \in Int
        BY <4>2
      <4> HIDE DEF sample
      <4>4. samples' = Append(samples, sample)
        BY <4>1 DEF sample
      <4>5. samples' \in Seq(Int) /\ Len(samples') = Len(samples) + 1
        BY <4>3, <4>4, AppendProperties DEF Sampling
      <4>6. phase' \in Timed => Len(samples') < MaxSamples
        BY <2>4, <3>1, <3>2 DEF AnotherRun, FcycGoesOn, samplecount
      <4> QED
        BY <2>1, <3>1, <4>1, <4>5, <4>6 DEF Sampling
    <3>3. CASE timer = "ftimer"
      <4>1. runs' = runs + 1 /\ samples' = samples
        BY <2>4, <3>3 DEF EndRun
      <4>2. phase' \in Timed => runs' < Runs
        BY <2>4, <3>1, <3>3 DEF AnotherRun, FtimerGoesOn
      <4> QED
        BY <3>1, <4>1, <4>2 DEF Sampling
    <3> QED
      BY <3>2, <3>3 DEF Sampling
  <2>5. CASE Next
    BY <2>2, <2>3, <2>4, <2>5, TimingSteps DEF timingVars, BeginRun, Pass
  <2>6. CASE UNCHANGED vars
    BY <2>3, <2>6 DEF vars, driverVars, timingVars
  <2> QED
    BY <2>5, <2>6
<1> QED
  BY <1>1, <1>2, CounterHolds, PTL DEF Spec

(* The types hold, and no sampler takes a run more than it was asked for.     *)
THEOREM TypeCorrect == Spec => []TypeOK
<1>1. Types /\ Sampling => TypeOK
  <2> SUFFICES ASSUME Types, Sampling PROVE TypeOK
    OBVIOUS
  <2>1. DOMAIN files = 1 .. Len(files) /\ DOMAIN ranges = 1 .. Len(ranges)
    BY LenProperties DEF Types, Control, Data
  <2>2. ASSUME NEW i \in 1 .. Len(ranges) PROVE ranges[i] \in Ranges
    BY ElementOfSeq DEF Types, Data
  <2>3. \A i \in DOMAIN ranges : ranges[i].lo \in Addresses /\ ranges[i].hi \in Addresses
    BY <2>1, <2>2 DEF Ranges
  <2> QED
    BY <2>1, <2>3 DEF Types, Control, Data, Sampling, TypeOK, Phases
<1> QED
  BY <1>1, TypesHold, SamplingHolds, PTL

-----------------------------------------------------------------------------
(* Replays                                                                    *)

(* A step that leads into a replay or goes on with it: the package starts     *)
(* anew, gives out a block for the request that was next, or gets it back.    *)
LEMMA ReplaySteps ==
    ASSUME Types, Next, Replay'
    PROVE  \/ op' = 1
           \/ /\ Replay /\ op \in 1 .. Len(Trace.lines) /\ op' = op + 1 /\ file' = file
              /\ \/ /\ Request.type \in {"a", "r"}
                    /\ \E p \in Addresses :
                          /\ Give(Request.index, Request.size, p)
                          /\ blocks' = [blocks EXCEPT ![Request.index] = p]
                 \/ /\ Request.type = "f" /\ given' = Without(Request.index)
                    /\ blocks' = blocks
<1>1. Len(Trace.lines) \in Nat
  BY TraceTypes DEF Types
<1>2. ASSUME Fail("mm_init") \/ Fail("mm_malloc") \/ Fail("mm_realloc") \/ Fail("data")
             \/ Exit \/ \E p, size, list : TurnedDown(p, size, list)
      PROVE  FALSE
  BY <1>2 DEF Fail, NextFile, Exit, TurnedDown, Replay, Replaying
<1>3. CASE Read \/ ValidStart \/ UtilStart \/ SpeedStart \/ LibcSpeedStart
  BY <1>2, <1>3 DEF Read, ValidStart, UtilStart, SpeedStart, LibcSpeedStart, Goto, Replay
<1>4. ValidEnd \/ UtilEnd \/ LibcValidEnd => op' = 0
  BY DEF ValidEnd, UtilEnd, LibcValidEnd, Goto
<1>5. RunEnd => op' = 0
  BY DEF RunEnd, Goto, NextFile
<1>6. ~(op' = 0)
  BY DEF Replay
<1>7. CASE ValidAlloc
  <2>1. /\ phase = "valid" /\ op \in 1 .. Len(Trace.lines) /\ Request.type = "a"
    BY <1>7 DEF ValidAlloc, At
  <2>2. PICK p \in Addresses \cup {NULL} :
          /\ Answer(Request.index, Request.size, p)
          /\ p # NULL /\ Remember(Request.index, p, Request.size, ranges)
    BY <1>2, <1>7 DEF ValidAlloc
  <2>3. op' = op + 1 /\ file' = file /\ blocks' = [blocks EXCEPT ![Request.index] = p] /\ p \in Addresses
    BY <2>2 DEF Remember, Goto
  <2>4. Give(Request.index, Request.size, p)
    BY <2>2 DEF Answer
  <2>5. Replay
    BY <1>1, <2>1 DEF Replay
  <2> QED
    BY <2>1, <2>3, <2>4, <2>5
<1>8. CASE ValidRealloc
  <2>1. phase = "valid" /\ op \in 1 .. Len(Trace.lines) /\ Request.type = "r"
    BY <1>8 DEF ValidRealloc, At
  <2>2. PICK p \in Addresses \cup {NULL} :
          /\ Answer(Request.index, Request.size, p) /\ p # NULL
          /\ Remember(Request.index, p, Request.size, remove_range(ranges, blocks[Request.index]))
    BY <1>2, <1>8 DEF ValidRealloc
  <2>3. op' = op + 1 /\ file' = file /\ blocks' = [blocks EXCEPT ![Request.index] = p] /\ p \in Addresses
    BY <2>2 DEF Remember, Goto
  <2>4. Give(Request.index, Request.size, p)
    BY <2>2 DEF Answer
  <2>5. Replay
    BY <1>1, <2>1 DEF Replay
  <2> QED
    BY <2>1, <2>3, <2>4, <2>5
<1>9. CASE ValidFree
  BY <1>9 DEF ValidFree, At, Goto, TakeBack, Replay, blockVars
<1>10. CASE UtilPlaced
  <2>1. phase = "util" /\ op \in 1 .. Len(Trace.lines) /\ Request.type \in {"a", "r"}
    BY <1>10 DEF UtilPlaced, At
  <2>2. PICK p \in Addresses \cup {NULL} :
          /\ Answer(Request.index, Request.size, p) /\ p # NULL
          /\ blocks' = [blocks EXCEPT ![Request.index] = p] /\ Goto("util", op + 1)
    BY <1>2, <1>10 DEF UtilPlaced
  <2>3. op' = op + 1 /\ file' = file /\ p \in Addresses
    BY <2>2 DEF Goto
  <2>4. Give(Request.index, Request.size, p)
    BY <2>2 DEF Answer
  <2>5. Replay
    BY <1>1, <2>1 DEF Replay
  <2> QED
    BY <2>1, <2>2, <2>3, <2>4, <2>5
<1>11. CASE UtilFree
  BY <1>11 DEF UtilFree, At, Goto, TakeBack, Replay, blockVars
<1>12. CASE ReplayPlaced
  <2>1. phase \in Replaying /\ op \in 1 .. Len(Trace.lines) /\ Request.type \in {"a", "r"}
    BY <1>12 DEF ReplayPlaced, At
  <2>2. PICK p \in Addresses \cup {NULL} :
          /\ \/ Answer(Request.index, Request.size, p)
             \/ LibraryAnswer(Request.index, Request.size, p)
          /\ p # NULL /\ Goto(phase, op + 1) /\ Placed(Request.index, p)
    BY <1>2, <1>12 DEF ReplayPlaced
  <2>3. /\ op' = op + 1 /\ file' = file /\ p \in Addresses
        /\ blocks' = [blocks EXCEPT ![Request.index] = p]
    BY <2>2 DEF Goto, Placed
  <2>4. Give(Request.index, Request.size, p)
    BY <2>2 DEF Answer, LibraryAnswer
  <2>5. Replay
    BY <1>1, <2>1 DEF Replay, Replaying
  <2>6. \E q \in Addresses :
           /\ Give(Request.index, Request.size, q)
           /\ blocks' = [blocks EXCEPT ![Request.index] = q]
    BY <2>3, <2>4
  <2> QED
    BY <2>1, <2>3, <2>5, <2>6
<1>13. CASE ReplayFree
  BY <1>13 DEF ReplayFree, At, Goto, TakeBack, Replay, blockVars
<1> QED
  BY <1>3, <1>4, <1>5, <1>6, <1>7, <1>8, <1>9, <1>10, <1>11, <1>12, <1>13 DEF Next

(* What is live at this point of a trace, the package gave out in this replay *)
(* and has not got back.                                                      *)
THEOREM LiveHolds == Spec => []LiveCurrent
<1>1. Init => LiveCurrent
  BY DEF Init, LiveCurrent, Replay
<1>2. Types /\ LiveCurrent /\ [Next]_vars => LiveCurrent'
  <2> SUFFICES ASSUME Types, LiveCurrent, [Next]_vars, Replay', NEW x \in LiveBlocks'
               PROVE  Current(x)'
    BY DEF LiveCurrent
  <2> DEFINE lines == Trace.lines
  <2>1. x \in Indices /\ Live(lines', op' - 1, x) /\ lines' = files'[file'].lines
    BY DEF LiveBlocks, Trace
  <2>2. CASE UNCHANGED vars
    BY <2>2 DEF vars, driverVars, traceVars, blockVars, packageVars, LiveCurrent, LiveBlocks, Trace,
                Replay, Current
  <2>3. CASE Next
    <3>1. files' = files
      BY <2>3 DEF Next, Read, ValidStart, ValidAlloc, ValidRealloc, ValidFree, ValidEnd, UtilStart,
                  UtilPlaced, UtilFree, UtilEnd, SpeedStart, LibcSpeedStart, ReplayPlaced,
                  ReplayFree, LibcValidEnd, RunEnd
    <3>2. CASE op' = 1
      <4>1. ~Live(lines', 0, x)
        BY DEF Live
      <4> QED
        BY <2>1, <3>2, <4>1
    <3>3. CASE /\ Replay /\ op \in 1 .. Len(lines) /\ op' = op + 1 /\ file' = file
               /\ \/ /\ Request.type \in {"a", "r"}
                     /\ \E p \in Addresses :
                           /\ Give(Request.index, Request.size, p)
                           /\ blocks' = [blocks EXCEPT ![Request.index] = p]
                  \/ /\ Request.type = "f" /\ given' = Without(Request.index)
                     /\ blocks' = blocks
      <4> DEFINE z == Request.index
      <4>1. /\ lines \in Seq(Lines) /\ Len(lines) \in Nat /\ z \in Indices
            /\ given \in [Indices -> SUBSET Payloads] /\ blocks \in [Indices -> Addresses]
        BY <3>3, TraceTypes DEF Types, Data
      <4>2. Live(lines, op, x)
        <5>1. op' - 1 = op
          BY <3>3, <4>1
        <5>2. lines' = lines
          BY <3>1, <3>3 DEF Trace
        <5> QED
          BY <2>1, <5>1, <5>2
      <4>3. lines[op] = Request
        BY DEF Request
      <4>4. ASSUME Live(lines, op - 1, x) PROVE Current(x)
        BY <2>1, <3>3, <4>4 DEF LiveCurrent, LiveBlocks
      <4>5. CASE Request.type \in {"a", "r"}
        <5>1. PICK p \in Addresses :
                Give(z, Request.size, p) /\ blocks' = [blocks EXCEPT ![z] = p]
          BY <3>3, <4>5
        <5>2. p # NULL
          BY DEF Addresses, NULL
        <5>3. given' = [Others(z) EXCEPT ![z] = @ \cup {Payload(p, Request.size)}]
          BY <5>1, <5>2 DEF Give
        <5>4. Others(z) \in [Indices -> SUBSET Payloads]
              /\ \A y \in Indices : y # z => Others(z)[y] = given[y]
          BY <4>1 DEF Others, Without
        <5> HIDE DEF z
        <5>5. CASE x = z
          <6>1. Payload(p, Request.size) \in given'[x] /\ blocks'[x] = p
            BY <4>1, <5>1, <5>3, <5>4, <5>5
          <6>2. Payload(p, Request.size).lo = p
            BY DEF Payload
          <6> QED
            BY <6>1, <6>2 DEF Current
        <5>6. CASE x # z
          <6>1. given'[x] = given[x] /\ blocks'[x] = blocks[x]
            BY <2>1, <4>1, <5>1, <5>3, <5>4, <5>6
          <6>2. Live(lines, op - 1, x)
            <7>1. z = lines[op].index
              BY DEF Request, z
            <7> QED
              BY <3>3, <4>1, <4>2, <4>3, <4>5, <5>6, <7>1, LiveSteps
          <6> QED
            BY <4>4, <6>1, <6>2 DEF Current
        <5> QED
          BY <5>5, <5>6
      <4>6. CASE Request.type = "f"
        <5>1. x # z /\ Live(lines, op - 1, x)
          BY <3>3, <4>1, <4>2, <4>3, <4>6, LiveSteps
        <5>2. given' = Without(z) /\ blocks' = blocks
          BY <3>3, <4>6
        <5>3. given'[x] = given[x]
          BY <2>1, <4>1, <5>1, <5>2 DEF Without
        <5> QED
          BY <4>4, <5>1, <5>2, <5>3 DEF Current
      <4> QED
        BY <3>3, <4>5, <4>6
    <3> QED
      BY <2>3, <3>2, <3>3, ReplaySteps
  <2> QED
    BY <2>2, <2>3
<1> QED
  BY <1>1, <1>2, TypesHold, PTL DEF Spec

(* In each replay of a well-formed trace the driver passes only pointers that *)
(* the package gave it in this replay and has not got back.                   *)
THEOREM PointersCurrentAlways == Spec => []PointersCurrent
<1>1. Types /\ LiveCurrent => PointersCurrent
  <2> SUFFICES ASSUME Types, LiveCurrent, At({"valid", "util"} \cup Replaying, {"r", "f"}),
                      WellFormed(Trace.lines)
               PROVE  Current(Request.index)
    BY DEF PointersCurrent
  <2>1. op \in 1 .. Len(Trace.lines) /\ Request.type # "a" /\ Replay
    BY TraceTypes DEF At, Replay, Types
  <2>2. Request.index \in Indices
    BY <2>1, TraceTypes DEF Types
  <2>3. Live(Trace.lines, op - 1, Request.index)
    <3>1. op \in DOMAIN Trace.lines
      BY <2>1, TraceTypes, LenProperties DEF Types
    <3> QED
      BY <2>1, <3>1 DEF WellFormed, Request
  <2> QED
    BY <2>1, <2>2, <2>3 DEF LiveCurrent, LiveBlocks
<1> QED
  BY <1>1, LiveHolds, TypesHold, PTL

-----------------------------------------------------------------------------
(* The range list of a trace that is checked                                  *)

(* A step that begins a check or goes on with it.                             *)
LEMMA CheckingSteps ==
    ASSUME Types, Next, Checking'
    PROVE  \/ ranges' = << >> /\ op' = 1
           \/ /\ Checking /\ op \in 1 .. Len(Trace.lines) /\ op' = op + 1 /\ Trace' = Trace
              /\ \/ /\ Request.type \in {"a", "r"}
                    /\ \E p \in Addresses :
                          /\ Answer(Request.index, Request.size, p)
                          /\ Accepted(p, Request.size, Left)
                          /\ ranges' = << Extent(p, Request.size) >> \o Left
                          /\ blocks' = [blocks EXCEPT ![Request.index] = p]
                          /\ block_sizes' = [block_sizes EXCEPT ![Request.index] = Request.size]
                    /\ (honest' => honest)
                 \/ /\ Request.type = "f" /\ TakeBack(Request.index)
                    /\ ranges' = remove_range(ranges, blocks[Request.index])
                    /\ blocks' = blocks /\ block_sizes' = block_sizes
                    /\ (honest' => honest)
<1>1. Len(Trace.lines) \in Nat
  BY TraceTypes DEF Types
<1>2. ASSUME Fail("mm_init") \/ Fail("mm_malloc") \/ Fail("mm_realloc") \/ Fail("data")
             \/ Exit \/ \E p, size, list : TurnedDown(p, size, list)
      PROVE  FALSE
  BY <1>2 DEF Fail, NextFile, Exit, TurnedDown, Checking
<1>3. Read => op' = 0 \/ phase' # "valid"
  BY DEF Read, Goto, Exit
<1>4. ValidStart => ranges' = << >> /\ op' = 1
  BY <1>2 DEF ValidStart, Goto
<1>5. ASSUME \/ ValidEnd \/ UtilStart \/ UtilPlaced \/ UtilFree \/ UtilEnd
             \/ SpeedStart \/ LibcSpeedStart \/ LibcValidEnd \/ RunEnd
      PROVE  phase' # "valid"
  BY <1>2, <1>5 DEF ValidEnd, UtilStart, UtilPlaced, UtilFree, UtilEnd, SpeedStart, LibcSpeedStart,
                    LibcValidEnd, RunEnd, Goto, NextFile, Timed
<1>6. ReplayPlaced \/ ReplayFree => phase' # "valid"
  BY DEF ReplayPlaced, ReplayFree, At, Replaying, Goto, Exit
<1>7. phase' = "valid" /\ op' # 0
  BY DEF Checking
<1>8. CASE ValidAlloc
  <2>1. /\ phase = "valid" /\ op \in 1 .. Len(Trace.lines) /\ Request.type = "a"
    BY <1>8 DEF ValidAlloc, At
  <2>2. PICK p \in Addresses \cup {NULL} :
          /\ Answer(Request.index, Request.size, p) /\ honest' = honest /\ p # NULL
          /\ Accepted(p, Request.size, ranges) /\ Remember(Request.index, p, Request.size, ranges)
    BY <1>2, <1>8 DEF ValidAlloc
  <2>3. Left = ranges /\ p \in Addresses /\ Checking
    BY <1>1, <2>1, <2>2 DEF Left, Checking
  <2>4. /\ op' = op + 1 /\ Trace' = Trace
    BY <1>8, <2>2 DEF Remember, Goto, ValidAlloc, Trace
  <2>5. /\ ranges' = << Extent(p, Request.size) >> \o Left
        /\ blocks' = [blocks EXCEPT ![Request.index] = p]
        /\ block_sizes' = [block_sizes EXCEPT ![Request.index] = Request.size]
        /\ Answer(Request.index, Request.size, p) /\ Accepted(p, Request.size, Left)
    BY <2>2, <2>3 DEF Remember
  <2> QED
    BY <2>1, <2>2, <2>3, <2>4, <2>5
<1>9. CASE ValidRealloc
  <2>1. /\ phase = "valid" /\ op \in 1 .. Len(Trace.lines) /\ Request.type = "r"
    BY <1>9 DEF ValidRealloc, At
  <2>2. Left = remove_range(ranges, blocks[Request.index]) /\ Checking
    BY <1>1, <2>1 DEF Left, Checking
  <2>3. PICK p \in Addresses \cup {NULL} :
          /\ Answer(Request.index, Request.size, p) /\ Passed(Request.index) /\ p # NULL
          /\ Accepted(p, Request.size, Left) /\ Remember(Request.index, p, Request.size, Left)
    BY <1>2, <1>9, <2>2 DEF ValidRealloc
  <2>4. /\ op' = op + 1 /\ Trace' = Trace /\ p \in Addresses /\ (honest' => honest)
    BY <1>9, <2>3 DEF Remember, Goto, ValidRealloc, Trace, Passed
  <2>5. /\ ranges' = << Extent(p, Request.size) >> \o Left
        /\ blocks' = [blocks EXCEPT ![Request.index] = p]
        /\ block_sizes' = [block_sizes EXCEPT ![Request.index] = Request.size]
        /\ Answer(Request.index, Request.size, p) /\ Accepted(p, Request.size, Left)
    BY <2>3 DEF Remember
  <2> QED
    BY <2>1, <2>2, <2>4, <2>5
<1>10. CASE ValidFree
  <2>1. /\ phase = "valid" /\ op \in 1 .. Len(Trace.lines) /\ Request.type = "f"
        /\ op' = op + 1 /\ Trace' = Trace /\ Checking
    BY <1>1, <1>10 DEF ValidFree, At, Goto, Trace, Checking
  <2>2. /\ TakeBack(Request.index) /\ (honest' => honest)
        /\ ranges' = remove_range(ranges, blocks[Request.index])
        /\ blocks' = blocks /\ block_sizes' = block_sizes
    BY <1>10 DEF ValidFree, Passed, blockVars
  <2> QED
    BY <2>1, <2>2
<1> QED
  BY <1>3, <1>4, <1>5, <1>6, <1>7, <1>8, <1>9, <1>10 DEF Next

(* What is left of the list when the block of a realloc is taken out of it.   *)
LEMMA LeftRanges ==
    ASSUME Types, op \in 1 .. Len(Trace.lines), Apart(ranges, brk)
    PROVE  /\ Left \in Seq(Ranges) /\ Apart(Left, brk)
           /\ ToSet(Left) = {r \in ToSet(ranges) :
                                Request.type = "r" => r.lo # blocks[Request.index]}
<1> DEFINE lo == blocks[Request.index]
           list == remove_range(ranges, lo)
<1>1. ranges \in Seq(Ranges) /\ brk \in Nat
  BY DriverAssumption DEF Types, Data
<1>2. list \in Seq(Ranges) /\ Apart(list, brk) /\ ToSet(list) = {r \in ToSet(ranges) : r.lo # lo}
  BY <1>1, RemovedRange
<1> HIDE DEF list, lo
<1>3. Left = IF Request.type = "r" THEN list ELSE ranges
  BY DEF Left, list, lo
<1>4. CASE Request.type = "r"
  BY <1>2, <1>3, <1>4 DEF lo
<1>5. CASE Request.type # "r"
  BY <1>1, <1>3, <1>5
<1> QED
  BY <1>4, <1>5

(* The checks of add_range keep the recorded payloads aligned, in the heap    *)
(* and apart.                                                                 *)
THEOREM ApartHolds == Spec => []ListApart
<1>1. Init => ListApart
  BY DEF Init, ListApart, Checking
<1>2. Types /\ Types' /\ ListApart /\ [Next]_vars => ListApart'
  <2> SUFFICES ASSUME Types, Types', ListApart, [Next]_vars, Checking' PROVE Apart(ranges', brk')
    BY DEF ListApart
  <2>1. CASE UNCHANGED vars
    BY <2>1 DEF vars, driverVars, checkVars, packageVars, ListApart, Checking
  <2>2. CASE Next
    <3>1. CASE ranges' = << >>
      <4>1. Len(<< >>) = 0
        BY EmptySeq
      <4> QED
        BY <3>1, <4>1 DEF Apart
    <3>2. ASSUME Checking, op \in 1 .. Len(Trace.lines)
          PROVE  /\ Left \in Seq(Ranges) /\ Apart(Left, brk) /\ Apart(ranges, brk)
                 /\ brk \in Nat /\ ranges \in Seq(Ranges) /\ Request.size \in Nat
      <4>1. Apart(ranges, brk) /\ brk \in Nat /\ ranges \in Seq(Ranges)
        BY <3>2, DriverAssumption DEF ListApart, Types, Data
      <4>2. Request.size \in Nat
        BY <3>2, TraceTypes DEF Types
      <4> QED
        BY <3>2, <4>1, <4>2, LeftRanges
    <3>3. ASSUME Checking, op \in 1 .. Len(Trace.lines),
                 NEW p \in Addresses,
                 Answer(Request.index, Request.size, p), Accepted(p, Request.size, Left),
                 ranges' = << Extent(p, Request.size) >> \o Left
          PROVE  Apart(ranges', brk')
      <4> DEFINE top == brk'
                 size == Request.size
                 new == << Extent(p, size) >> \o Left
      <4>1. top \in 0 .. Limit /\ brk <= top
        BY <3>3, DriverAssumption DEF Answer, Types, Data
      <4>2. size > 0 /\ Complaint(Left, p, p + size - 1, top) = "none"
        BY <3>3 DEF Accepted
      <4>3. size \in Nat /\ Left \in Seq(Ranges) /\ brk \in Nat /\ Apart(Left, brk)
        BY <3>2, <3>3
      <4> HIDE DEF top, size
      <4>4. Apart(new, top)
        BY <4>1, <4>2, <4>3, AcceptedRange
      <4> QED
        BY <3>3, <4>4 DEF top, size
    <3>4. ASSUME Checking, op \in 1 .. Len(Trace.lines), brk' = brk,
                 ranges' = remove_range(ranges, blocks[Request.index])
          PROVE  Apart(ranges', brk')
      BY <3>2, <3>4, RemovedRange
    <3> QED
      BY <2>2, <3>1, <3>3, <3>4, CheckingSteps DEF TakeBack
  <2> QED
    BY <2>1, <2>2
<1> QED
  BY <1>1, <1>2, TypesHold, PTL DEF Spec

(* What the checks of add_range come to, for every arena and alignment: of    *)
(* two recorded payloads that overlap the newer strictly encloses the older.  *)
THEOREM RangesApartAlways == Spec => []RangesApart
<1>1. Types /\ ListApart => RangesApart
  <2> SUFFICES ASSUME Types, Apart(ranges, brk), NEW i \in DOMAIN ranges
               PROVE  /\ InHeap(ranges[i], brk)
                      /\ \A j \in i + 1 .. Len(ranges) : Beside(ranges[i], ranges[j])
    BY DEF RangesApart, ListApart, Checking, InHeap, Beside
  <2>1. i \in 1 .. Len(ranges)
    BY LenProperties DEF Types, Data
  <2>2. ASSUME NEW j \in i + 1 .. Len(ranges) PROVE j \in 1 .. Len(ranges) /\ i < j
    <3>1. Len(ranges) \in Nat
      BY LenProperties DEF Types, Data
    <3> QED
      BY <2>1, <3>1
  <2> QED
    BY <2>1, <2>2 DEF Apart
<1> QED
  BY <1>1, ApartHolds, TypesHold, PTL

-----------------------------------------------------------------------------
(* The range list and the live blocks                                         *)

(* What becomes of the live blocks with a request of a well-formed trace.     *)
LEMMA LiveBlocksStep ==
    ASSUME Types, op \in 1 .. Len(Trace.lines), op' = op + 1, Trace' = Trace,
           WellFormed(Trace.lines)
    PROVE  /\ Request.type = "a" =>
                 /\ Request.index \notin LiveBlocks
                 /\ LiveBlocks' = LiveBlocks \cup {Request.index}
           /\ Request.type = "r" => Request.index \in LiveBlocks /\ LiveBlocks' = LiveBlocks
           /\ Request.type = "f" =>
                 /\ Request.index \in LiveBlocks
                 /\ LiveBlocks' = LiveBlocks \ {Request.index}
<1> DEFINE lines == Trace.lines
<1>1. lines \in Seq(Lines) /\ Len(lines) \in Nat /\ Request = lines[op] /\ Request.index \in Indices
  BY TraceTypes DEF Types, Request
<1>2. op \in DOMAIN lines
  BY <1>1, LenProperties
<1>3. IF Request.type = "a" THEN ~Live(lines, op - 1, Request.index)
      ELSE Live(lines, op - 1, Request.index)
  BY <1>1, <1>2 DEF WellFormed
<1>4. op' - 1 = op
  BY <1>1
<1>5. LiveBlocks = {x \in Indices : Live(lines, op - 1, x)}
  BY DEF LiveBlocks
<1>6. LiveBlocks' = {x \in Indices : Live(lines, op, x)}
  BY <1>4 DEF LiveBlocks
<1> HIDE DEF lines
<1>7. \A x : /\ lines[op].type = "a" =>
                   (Live(lines, op, x) <=> x = lines[op].index \/ Live(lines, op - 1, x))
             /\ lines[op].type = "f" =>
                   (Live(lines, op, x) <=> x # lines[op].index /\ Live(lines, op - 1, x))
             /\ lines[op].type \notin {"a", "f"} => (Live(lines, op, x) <=> Live(lines, op - 1, x))
  BY <1>1, LiveSteps DEF lines
<1> QED
  BY <1>1, <1>3, <1>5, <1>6, <1>7

(* The block array and the range list agree on where the live blocks are.     *)
THEOREM ExactHolds == Spec => []Exact
<1>1. Init => Exact
  BY DEF Init, Exact, Checking
<1>2. Types /\ Types' /\ ListApart /\ Exact /\ [Next]_vars => Exact'
  <2> SUFFICES ASSUME Types, Types', ListApart, Exact, [Next]_vars, Checking', WellFormed(Trace.lines)'
               PROVE  /\ IsFiniteSet(LiveBlocks') /\ Len(ranges') = Cardinality(LiveBlocks')
                      /\ ToSet(ranges') = Extents'
                      /\ \A x, y \in LiveBlocks' : blocks'[x] = blocks'[y] => x = y
    BY DEF Exact
  <2>1. CASE UNCHANGED vars
    BY <2>1 DEF vars, driverVars, traceVars, blockVars, checkVars, Exact, Checking, LiveBlocks,
                Extents, Trace
  <2>2. ASSUME ranges' = << >>, op' = 1
        PROVE  /\ IsFiniteSet(LiveBlocks') /\ Len(ranges') = Cardinality(LiveBlocks')
               /\ ToSet(ranges') = Extents'
               /\ \A x, y \in LiveBlocks' : blocks'[x] = blocks'[y] => x = y
    <3>1. LiveBlocks' = {}
      BY <2>2 DEF LiveBlocks, Live
    <3>2. Len(<< >>) = 0 /\ ToSet(<< >>) = {}
      BY EmptySeq DEF ToSet
    <3>3. Extents' = {}
      BY <3>1 DEF Extents
    <3> QED
      BY <2>2, <3>1, <3>2, <3>3, FS_EmptySet
  <2>3. ASSUME /\ Checking /\ op \in 1 .. Len(Trace.lines) /\ op' = op + 1 /\ Trace' = Trace
        PROVE  /\ WellFormed(Trace.lines) /\ Types /\ Apart(ranges, brk)
               /\ IsFiniteSet(LiveBlocks) /\ Len(ranges) = Cardinality(LiveBlocks)
               /\ ToSet(ranges) = Extents
               /\ \A x, y \in LiveBlocks : blocks[x] = blocks[y] => x = y
               /\ Request.index \in Indices /\ Request.size \in Nat
               /\ ranges \in Seq(Ranges) /\ brk \in Nat /\ brk' \in 0 .. Limit
               /\ blocks \in [Indices -> Addresses] /\ block_sizes \in [Indices -> Nat]
               /\ Cardinality(LiveBlocks) \in Nat
    <3>1. WellFormed(Trace.lines)
      BY <2>3
    <3>2. ranges \in Seq(Ranges) /\ brk \in Nat /\ brk' \in 0 .. Limit
      BY DriverAssumption DEF Types, Data
    <3>3. IsFiniteSet(LiveBlocks)
      BY <2>3, <3>1 DEF Exact
    <3> QED
      BY <2>3, <3>1, <3>2, <3>3, TraceTypes, FS_CardinalityType DEF Types, Data, Exact, ListApart
  <2>4. \A x : Extent(blocks[x], block_sizes[x]).lo = blocks[x]
    BY DEF Extent
  <2>5. ASSUME /\ Checking /\ op \in 1 .. Len(Trace.lines) /\ op' = op + 1 /\ Trace' = Trace,
               Request.type \in {"r", "f"}
        PROVE  LET z == Request.index
                   t == remove_range(ranges, blocks[z])
               IN  /\ z \in LiveBlocks
                   /\ t \in Seq(Ranges) /\ Apart(t, brk) /\ Len(t) = Cardinality(LiveBlocks) - 1
                   /\ ToSet(t) = {Extent(blocks[x], block_sizes[x]) : x \in LiveBlocks \ {z}}
    <3> DEFINE z == Request.index
               lo == blocks[z]
               t == remove_range(ranges, lo)
    <3>1. z \in LiveBlocks
      BY <2>3, <2>5, LiveBlocksStep
    <3>2. /\ t \in Seq(Ranges) /\ Apart(t, brk)
          /\ ToSet(t) = {r \in ToSet(ranges) : r.lo # lo}
          /\ Len(t) = IF \E r \in ToSet(ranges) : r.lo = lo THEN Len(ranges) - 1 ELSE Len(ranges)
      BY <2>3, <2>5, RemovedRange
    <3> HIDE DEF t, z
    <3>3. /\ ToSet(ranges) = {Extent(blocks[x], block_sizes[x]) : x \in LiveBlocks}
          /\ \A x, y \in LiveBlocks : blocks[x] = blocks[y] => x = y
          /\ Len(ranges) = Cardinality(LiveBlocks)
      BY <2>3, <2>5 DEF Extents
    <3>4. \E r \in ToSet(ranges) : r.lo = lo
      BY <2>4, <3>1, <3>3
    <3>5. ToSet(t) = {Extent(blocks[x], block_sizes[x]) : x \in LiveBlocks \ {z}}
      <4>1. ASSUME NEW r \in ToSet(t)
            PROVE  r \in {Extent(blocks[x], block_sizes[x]) : x \in LiveBlocks \ {z}}
        BY <2>4, <3>2, <3>3, <4>1
      <4>2. ASSUME NEW x \in LiveBlocks \ {z} PROVE Extent(blocks[x], block_sizes[x]) \in ToSet(t)
        <5>1. blocks[x] # lo
          BY <3>1, <3>3, <4>2
        <5> HIDE DEF lo
        <5> QED
          BY <2>4, <3>2, <3>3, <4>2, <5>1
      <4> QED
        BY <4>1, <4>2
    <3> QED
      BY <3>1, <3>2, <3>3, <3>4, <3>5 DEF t, z
  <2>6. ASSUME /\ Checking /\ op \in 1 .. Len(Trace.lines) /\ op' = op + 1 /\ Trace' = Trace,
               Request.type \in {"a", "r"}, NEW p \in Addresses,
               /\ Answer(Request.index, Request.size, p)
               /\ Accepted(p, Request.size, Left)
               /\ ranges' = << Extent(p, Request.size) >> \o Left
               /\ blocks' = [blocks EXCEPT ![Request.index] = p]
               /\ block_sizes' = [block_sizes EXCEPT ![Request.index] = Request.size]
        PROVE  /\ IsFiniteSet(LiveBlocks') /\ Len(ranges') = Cardinality(LiveBlocks')
               /\ ToSet(ranges') = Extents'
               /\ \A x, y \in LiveBlocks' : blocks'[x] = blocks'[y] => x = y
    <3> DEFINE z == Request.index
               size == Request.size
               top == brk'
               rest == LiveBlocks \ {z}
               new == << Extent(p, size) >> \o Left
    <3>1. /\ Left \in Seq(Ranges) /\ Apart(Left, brk) /\ Len(Left) = Cardinality(rest)
          /\ ToSet(Left) = {Extent(blocks[x], block_sizes[x]) : x \in rest}
          /\ IsFiniteSet(rest)
      <4>1. CASE Request.type = "a"
        <5>1. Left = ranges /\ rest = LiveBlocks
          BY <2>3, <2>6, <4>1, LiveBlocksStep DEF Left
        <5> QED
          BY <2>3, <2>6, <5>1 DEF Extents
      <4>2. CASE Request.type = "r"
        <5>1. Left = remove_range(ranges, blocks[z])
          BY <4>2 DEF Left
        <5>2. z \in LiveBlocks /\ IsFiniteSet(LiveBlocks)
          BY <2>3, <2>5, <2>6, <4>2
        <5>3. IsFiniteSet(rest) /\ Cardinality(rest) = Cardinality(LiveBlocks) - 1
          BY <5>2, FS_RemoveElement
        <5> QED
          BY <2>5, <2>6, <4>2, <5>1, <5>3
      <4> QED
        BY <2>6, <4>1, <4>2
    <3>2. LiveBlocks' = rest \cup {z} /\ z \notin rest /\ rest \subseteq Indices /\ z \in Indices
      BY <2>3, <2>6, LiveBlocksStep DEF LiveBlocks
    <3>3. IsFiniteSet(LiveBlocks') /\ Cardinality(LiveBlocks') = Cardinality(rest) + 1
      BY <3>1, <3>2, FS_AddElement
    <3>4. /\ blocks' \in [Indices -> Addresses] /\ blocks'[z] = p /\ block_sizes'[z] = size
          /\ \A x \in rest : blocks'[x] = blocks[x] /\ block_sizes'[x] = block_sizes[x]
      BY <2>3, <2>6, <3>2
    <3>5. /\ top \in 0 .. Limit /\ brk \in Nat /\ brk <= top /\ size \in Nat /\ size > 0
          /\ Complaint(Left, p, p + size - 1, top) = "none" /\ ranges' = new
      BY <2>3, <2>6, DriverAssumption DEF Answer, Accepted
    <3> HIDE DEF z, size, top, rest
    <3>6. /\ ToSet(new) = ToSet(Left) \cup {Extent(p, size)} /\ Len(new) = Len(Left) + 1
          /\ \A r \in ToSet(Left) : r.lo # p
      <4>1. Left \in Seq(Ranges) /\ Apart(Left, brk)
        BY <3>1
      <4>2. /\ top \in 0 .. Limit /\ brk \in Nat /\ brk <= top /\ size \in Nat /\ size > 0
            /\ Complaint(Left, p, p + size - 1, top) = "none"
        BY <3>5
      <4> QED
        BY <4>1, <4>2, AcceptedRange
    <3> HIDE DEF new
    <3>7. \A x \in rest : blocks[x] # p
      BY <2>4, <3>1, <3>6
    <3>8. Extents' = ToSet(Left) \cup {Extent(p, size)}
      <4>1. Extents' = {Extent(blocks'[x], block_sizes'[x]) : x \in LiveBlocks'}
        BY DEF Extents
      <4> QED
        BY <3>1, <3>2, <3>4, <4>1
    <3>9. \A x, y \in rest : blocks[x] = blocks[y] => x = y
      BY <2>3, <2>6 DEF rest
    <3> QED
      BY <3>1, <3>2, <3>3, <3>4, <3>5, <3>6, <3>7, <3>8, <3>9
  <2>7. ASSUME /\ Checking /\ op \in 1 .. Len(Trace.lines) /\ op' = op + 1 /\ Trace' = Trace,
               /\ Request.type = "f"
               /\ ranges' = remove_range(ranges, blocks[Request.index])
               /\ blocks' = blocks /\ block_sizes' = block_sizes
        PROVE  /\ IsFiniteSet(LiveBlocks') /\ Len(ranges') = Cardinality(LiveBlocks')
               /\ ToSet(ranges') = Extents'
               /\ \A x, y \in LiveBlocks' : blocks'[x] = blocks'[y] => x = y
    <3> DEFINE z == Request.index
    <3>1. /\ z \in LiveBlocks /\ Len(ranges') = Cardinality(LiveBlocks) - 1
          /\ ToSet(ranges') = {Extent(blocks[x], block_sizes[x]) : x \in LiveBlocks \ {z}}
      BY <2>5, <2>7
    <3>2. LiveBlocks' = LiveBlocks \ {z}
      BY <2>3, <2>7, LiveBlocksStep
    <3>3. IsFiniteSet(LiveBlocks') /\ Cardinality(LiveBlocks') = Cardinality(LiveBlocks) - 1
      BY <2>3, <2>7, <3>1, <3>2, FS_RemoveElement
    <3>4. \A x, y \in LiveBlocks : blocks[x] = blocks[y] => x = y
      BY <2>3, <2>7
    <3> QED
      BY <2>7, <3>1, <3>2, <3>3, <3>4 DEF Extents
  <2>8. CASE Next
    <3> DEFINE Begins == ranges' = << >> /\ op' = 1
               Goes == Checking /\ op \in 1 .. Len(Trace.lines) /\ op' = op + 1 /\ Trace' = Trace
               Takes(p) ==
                   /\ Answer(Request.index, Request.size, p)
                   /\ Accepted(p, Request.size, Left)
                   /\ ranges' = << Extent(p, Request.size) >> \o Left
                   /\ blocks' = [blocks EXCEPT ![Request.index] = p]
                   /\ block_sizes' = [block_sizes EXCEPT ![Request.index] = Request.size]
               Frees ==
                   /\ Request.type = "f"
                   /\ ranges' = remove_range(ranges, blocks[Request.index])
                   /\ blocks' = blocks /\ block_sizes' = block_sizes
    <3>1. \/ Begins
          \/ Goes /\ Request.type \in {"a", "r"} /\ \E p \in Addresses : Takes(p)
          \/ Goes /\ Frees
      BY <2>8, CheckingSteps
    <3>2. CASE Begins
      BY <2>2, <3>2
    <3>3. ASSUME Goes, Request.type \in {"a", "r"}, NEW p \in Addresses, Takes(p)
          PROVE  /\ IsFiniteSet(LiveBlocks') /\ Len(ranges') = Cardinality(LiveBlocks')
                 /\ ToSet(ranges') = Extents'
                 /\ \A x, y \in LiveBlocks' : blocks'[x] = blocks'[y] => x = y
      BY <2>6, <3>3
    <3>4. CASE Goes /\ Frees
      BY <2>7, <3>4
    <3> HIDE DEF Begins, Goes, Takes, Frees
    <3> QED
      BY <3>1, <3>2, <3>3, <3>4
  <2> QED
    BY <2>1, <2>8
<1> QED
  BY <1>1, <1>2, TypesHold, ApartHolds, PTL DEF Spec

(* "Keeps track of the extent of every allocated block payload": one record   *)
(* for each live block of a well-formed trace, and no other.                  *)
THEOREM RangesExactAlways == Spec => []RangesExact
<1>1. Exact => RangesExact
  BY DEF Exact, RangesExact, Checking, LiveBlocks, Extents
<1> QED
  BY <1>1, ExactHolds, PTL

-----------------------------------------------------------------------------
(* Reports                                                                    *)

(* What a report more adds to those that errors counts.                       *)
LEMMA OneMoreFailure ==
    ASSUME NEW list \in Seq(Reports), NEW r \in Reports, NEW t
    PROVE  /\ IsFiniteSet(Failures(list, t)) /\ Cardinality(Failures(list, t)) \in Nat
           /\ IF r.trace = t /\ r.why # "libc"
              THEN Cardinality(Failures(Append(list, r), t)) = Cardinality(Failures(list, t)) + 1
              ELSE Failures(Append(list, r), t) = Failures(list, t)
<1> DEFINE more == Append(list, r)
           n == Len(list)
           old == Failures(list, t)
<1>1. n \in Nat
  BY LenProperties
<1>2. DOMAIN list = 1 .. n
  BY LenProperties
<1>3. more \in Seq(Reports) /\ Len(more) = n + 1 /\ more[n + 1] = r
      /\ \A i \in 1 .. n : more[i] = list[i]
  BY AppendProperties
<1> HIDE DEF more, n
<1>4. DOMAIN more = 1 .. n + 1
  BY <1>3, LenProperties
<1>5. old = {i \in 1 .. n : list[i].trace = t /\ list[i].why # "libc"}
  BY <1>2 DEF Failures
<1>6. Failures(more, t) = {i \in 1 .. n + 1 : more[i].trace = t /\ more[i].why # "libc"}
  BY <1>4 DEF Failures
<1>7. 1 .. n + 1 = (1 .. n) \cup {n + 1} /\ n + 1 \notin 1 .. n
  BY <1>1
<1>8. IsFiniteSet(1 .. n)
  BY <1>1, FS_Interval
<1>9. IsFiniteSet(old) /\ Cardinality(old) \in Nat
  BY <1>5, <1>8, FS_Subset, FS_CardinalityType
<1>10. Failures(more, t) = IF r.trace = t /\ r.why # "libc" THEN old \cup {n + 1} ELSE old
  BY <1>3, <1>5, <1>6, <1>7
<1>11. n + 1 \notin old
  BY <1>5, <1>7
<1> HIDE DEF old
<1>12. Cardinality(old \cup {n + 1}) = Cardinality(old) + 1
  BY <1>9, <1>11, FS_AddElement
<1> QED
  BY <1>9, <1>10, <1>12 DEF more, old

(* A failure is one report and one verdict of the trace that is evaluated.    *)
LEMMA FailedOnce ==
    ASSUME Types, Errors, phase = "valid", op \in 0 .. Len(Trace.lines), UNCHANGED files,
           NEW why \in Whys, why # "libc", Fail(why)
    PROVE  Errors'
<1> DEFINE r == Report(why)
           n == Len(verdicts)
<1>1. /\ reports' = Append(reports, r) /\ verdicts' = Append(verdicts, FALSE)
      /\ NextFile("read", "done")
  BY DEF Fail
<1>2. /\ reports \in Seq(Reports) /\ verdicts \in Seq(BOOLEAN) /\ Len(files) \in Nat
      /\ n \in Nat /\ file \in 1 .. Len(files) /\ n = file - 1
  BY LenProperties DEF Types, Control, Data, Errors, VerdictsSoFar
<1>3. r \in Reports /\ r.trace = file /\ r.why = why
  <2>1. op # 0 => Request.index \in Nat
    <3>1. op = 0 \/ op \in 1 .. Len(Trace.lines)
      BY TraceTypes DEF Types
    <3> QED
      BY <3>1, TraceTypes, DriverAssumption DEF Types
  <2>2. file \in Nat
    BY <1>2
  <2> QED
    BY <2>1, <2>2 DEF Report, Reports
<1> HIDE DEF r
<1>4. /\ Len(verdicts') = n + 1 /\ verdicts'[n + 1] = FALSE
      /\ \A i \in 1 .. n : verdicts'[i] = verdicts[i]
  <2>1. verdicts \in Seq(BOOLEAN) /\ verdicts' = Append(verdicts, FALSE)
    BY <1>1, <1>2
  <2> QED
    BY <2>1, AppendProperties
<1>5. VerdictsSoFar'
  <2>1. n + 1 = file /\ n + 1 <= Len(files)
    BY <1>2
  <2>2. phase' = "read" \/ phase' = "done"
    BY <1>1 DEF NextFile
  <2>3. phase' = "read" => n + 1 = file' - 1
    BY <1>1, <1>2, <2>1 DEF NextFile
  <2> QED
    BY <1>4, <2>1, <2>2, <2>3 DEF VerdictsSoFar
<1>6. ASSUME NEW t \in 1 .. Len(files) PROVE Cardinality(Failures(reports', t)) = Verdict(t)'
  <2>1. /\ Cardinality(Failures(reports, t)) = Verdict(t)
        /\ Cardinality(Failures(reports, t)) \in Nat
        /\ IF t = file
           THEN Cardinality(Failures(reports', t)) = Cardinality(Failures(reports, t)) + 1
           ELSE Failures(reports', t) = Failures(reports, t)
    BY <1>1, <1>2, <1>3, OneMoreFailure DEF Errors
  <2>2. t \in Nat /\ n + 1 = file /\ t >= 1
    BY <1>2
  <2>3. Verdict(t)' = IF t <= n + 1 /\ ~verdicts'[t] THEN 1 ELSE 0
    BY <1>4 DEF Verdict
  <2>4. Verdict(t) = IF t <= n /\ ~verdicts[t] THEN 1 ELSE 0
    BY DEF Verdict
  <2>5. CASE t = file
    <3>1. Verdict(t) = 0 /\ Verdict(t)' = 1
      BY <1>2, <1>4, <2>2, <2>3, <2>4, <2>5
    <3> QED
      BY <2>1, <2>5, <3>1
  <2>6. CASE t < file
    <3>1. t \in 1 .. n
      BY <1>2, <2>2, <2>6
    <3>2. Verdict(t)' = Verdict(t)
      BY <1>2, <1>4, <2>2, <2>3, <2>4, <3>1
    <3> QED
      BY <1>2, <2>1, <2>6, <3>2
  <2>7. CASE t > file
    <3>1. Verdict(t) = 0 /\ Verdict(t)' = 0
      BY <1>2, <2>2, <2>3, <2>4, <2>7
    <3> QED
      BY <1>2, <2>1, <2>7, <3>1
  <2> QED
    BY <1>2, <2>2, <2>5, <2>6, <2>7
<1> QED
  BY <1>5, <1>6 DEF Errors

(* The other steps count nothing.                                             *)
LEMMA NothingCounted ==
    ASSUME Types, Errors, UNCHANGED files,
           \A t \in 1 .. Len(files) : Failures(reports', t) = Failures(reports, t),
           UNCHANGED verdicts, VerdictsSoFar'
    PROVE  Errors'
BY DEF Errors, Verdict

(* Each trace that was found invalid was reported once, and no other.         *)
THEOREM ErrorsHold == Spec => []Errors
<1>1. Init => Errors
  <2> SUFFICES ASSUME Init PROVE Errors
    OBVIOUS
  <2>1. Len(<< >>) = 0 /\ \A t : Failures(<< >>, t) = {}
    BY EmptySeq DEF Failures
  <2>2. Len(files) \in Nat
    BY TypesInit, LenProperties DEF Types, Control
  <2>3. VerdictsSoFar
    BY <2>1, <2>2 DEF Init, VerdictsSoFar
  <2>4. \A t \in 1 .. Len(files) : Verdict(t) = 0
    BY <2>1 DEF Init, Verdict
  <2> QED
    BY <2>1, <2>3, <2>4, FS_EmptySet DEF Init, Errors
<1>2. Types /\ Errors /\ [Next]_vars => Errors'
  <2> SUFFICES ASSUME Types, Errors, [Next]_vars PROVE Errors'
    OBVIOUS
  <2>1. /\ VerdictsSoFar /\ Len(Trace.lines) \in Nat /\ Len(files) \in Nat
        /\ file \in 1 .. Len(files) /\ verdicts \in Seq(BOOLEAN) /\ Len(verdicts) \in Nat
        /\ reports \in Seq(Reports)
    BY TraceTypes, LenProperties DEF Types, Control, Data, Errors
  <2>2. ASSUME UNCHANGED << files, reports, verdicts >>, VerdictsSoFar' PROVE Errors'
    BY <2>2, NothingCounted
  <2>3. CASE UNCHANGED vars
    BY <2>1, <2>2, <2>3 DEF vars, driverVars, traceVars, checkVars, VerdictsSoFar
  <2>4. ASSUME UNCHANGED << files, reports, verdicts >>,
               Exit \/ \E n : Goto(phase, n)
        PROVE  Errors'
    BY <2>1, <2>2, <2>4 DEF Exit, Goto, VerdictsSoFar
  <2>5. CASE Read
    BY <2>1, <2>2, <2>5 DEF Read, Exit, Goto, VerdictsSoFar, checkVars
  <2>6. CASE ValidStart
    <3>1. phase = "valid" /\ op \in 0 .. Len(Trace.lines) /\ UNCHANGED files
      BY <2>1, <2>6 DEF ValidStart
    <3>2. \/ Goto(phase, 1) /\ UNCHANGED << reports, verdicts >>
          \/ Fail("mm_init")
      BY <2>6, <3>1 DEF ValidStart
    <3>3. "mm_init" \in Whys
      BY DEF Whys
    <3> QED
      BY <2>4, <3>1, <3>2, <3>3, FailedOnce
  <2>7. ASSUME NEW p, NEW size, NEW list, TurnedDown(p, size, list), phase = "valid",
               op \in 1 .. Len(Trace.lines), UNCHANGED files
        PROVE  Errors'
    <3> DEFINE why == Complaint(list, p, p + size - 1, brk')
    <3>1. \/ Exit /\ UNCHANGED << reports, verdicts >>
          \/ why # "none" /\ Fail(why)
      BY <2>7 DEF TurnedDown
    <3>2. why # "none" => why \in Whys /\ why # "libc"
      BY DEF Complaint, Whys
    <3> HIDE DEF why
    <3>3. op \in 0 .. Len(Trace.lines)
      BY <2>1, <2>7
    <3> QED
      BY <2>4, <2>7, <3>1, <3>2, <3>3, FailedOnce
  <2>8. ASSUME ValidAlloc \/ ValidRealloc PROVE Errors'
    <3>1. phase = "valid" /\ op \in 1 .. Len(Trace.lines) /\ UNCHANGED files
      BY <2>8 DEF ValidAlloc, ValidRealloc, At
    <3>2. \/ Fail("mm_malloc") \/ Fail("mm_realloc") \/ Fail("data")
          \/ \E p, size, list : TurnedDown(p, size, list)
          \/ UNCHANGED << reports, verdicts >> /\ Goto(phase, op + 1)
      BY <2>8, <3>1 DEF ValidAlloc, ValidRealloc, Remember
    <3>3. {"mm_malloc", "mm_realloc", "data"} \subseteq Whys /\ op \in 0 .. Len(Trace.lines)
      BY <2>1, <3>1 DEF Whys
    <3> QED
      BY <2>4, <2>7, <3>1, <3>2, <3>3, FailedOnce
  <2>9. CASE ValidFree
    BY <2>4, <2>9 DEF ValidFree, At
  <2>10. CASE ValidEnd
    <3> DEFINE n == Len(verdicts)
    <3>1. /\ phase = "valid" /\ phase' = "util" /\ file' = file /\ UNCHANGED << files, reports >>
          /\ verdicts' = Append(verdicts, TRUE)
      BY <2>10 DEF ValidEnd, Goto
    <3>2. /\ Len(verdicts') = n + 1 /\ verdicts'[n + 1] = TRUE
          /\ \A i \in 1 .. n : verdicts'[i] = verdicts[i]
      BY <2>1, <3>1, AppendProperties
    <3>3. n = file - 1
      BY <2>1, <3>1 DEF VerdictsSoFar
    <3>4. VerdictsSoFar'
      BY <2>1, <3>1, <3>2, <3>3 DEF VerdictsSoFar
    <3>5. ASSUME NEW t \in 1 .. Len(files) PROVE Verdict(t)' = Verdict(t)
      <4>1. Verdict(t)' = IF t <= n + 1 /\ ~verdicts'[t] THEN 1 ELSE 0
        BY <3>2 DEF Verdict
      <4>2. Verdict(t) = IF t <= n /\ ~verdicts[t] THEN 1 ELSE 0
        BY DEF Verdict
      <4>3. t \in 1 .. n \/ t = n + 1 \/ ~(t <= n + 1)
        BY <2>1
      <4>4. t \in 1 .. n => t <= n /\ t <= n + 1
        BY <2>1
      <4>5. t = n + 1 => ~(t <= n)
        BY <2>1
      <4>6. t <= n => t <= n + 1
        BY <2>1
      <4> QED
        BY <3>2, <4>1, <4>2, <4>3, <4>4, <4>5, <4>6
    <3> QED
      BY <3>1, <3>4, <3>5 DEF Errors
  <2>11. CASE UtilStart
    BY <2>4, <2>11 DEF UtilStart, checkVars, Exit, Goto
  <2>12. CASE UtilPlaced \/ UtilFree
    BY <2>4, <2>12 DEF UtilPlaced, UtilFree, checkVars, At
  <2>13. CASE UtilEnd
    BY <2>1, <2>2, <2>13 DEF UtilEnd, Goto, VerdictsSoFar, checkVars
  <2>14. CASE SpeedStart \/ LibcSpeedStart
    BY <2>4, <2>14 DEF SpeedStart, LibcSpeedStart, checkVars
  <2>15. CASE ReplayPlaced
    <3>1. /\ op \in 1 .. Len(Trace.lines) /\ UNCHANGED << files, verdicts >>
          /\ \/ Exit /\ ReplayFails
             \/ Goto(phase, op + 1) /\ UNCHANGED reports
      BY <2>15 DEF ReplayPlaced, At
    <3>2. CASE Goto(phase, op + 1) /\ UNCHANGED reports
      BY <2>4, <3>1, <3>2
    <3>3. CASE Exit /\ ReplayFails
      <4>1. VerdictsSoFar'
        BY <2>1, <3>1, <3>3 DEF Exit, VerdictsSoFar
      <4>2. Report("libc") \in Reports /\ Report("libc").why = "libc"
        <5>1. Request.index \in Nat
          BY <3>1, TraceTypes, DriverAssumption DEF Types
        <5>2. file \in Nat
          BY <2>1
        <5> QED
          BY <5>1, <5>2 DEF Report, Reports, Whys
      <4> DEFINE r == Report("libc")
      <4>3. reports' = reports \/ reports' = Append(reports, r)
        BY <3>3 DEF ReplayFails
      <4>4. r \in Reports /\ r.why = "libc"
        BY <4>2
      <4> HIDE DEF r
      <4>5. \A t \in 1 .. Len(files) : Failures(reports', t) = Failures(reports, t)
        BY <2>1, <4>3, <4>4, OneMoreFailure
      <4> QED
        BY <3>1, <4>1, <4>5, NothingCounted
    <3> QED
      BY <3>1, <3>2, <3>3
  <2>16. CASE ReplayFree
    BY <2>4, <2>16 DEF ReplayFree, checkVars
  <2>17. CASE LibcValidEnd
    BY <2>1, <2>2, <2>17 DEF LibcValidEnd, Goto, VerdictsSoFar, checkVars
  <2>18. CASE RunEnd
    <3>1. /\ phase \in {"speed", "libc_speed"} /\ UNCHANGED << files, reports, verdicts >>
          /\ \/ Goto(phase, 0)
             \/ phase = "speed" /\ NextFile("read", "done")
             \/ phase = "libc_speed" /\ NextFile("libc_read", "read")
      BY <2>18 DEF RunEnd, Timed, checkVars
    <3>2. CASE Goto(phase, 0)
      BY <2>4, <3>1, <3>2
    <3>3. CASE phase = "speed" /\ NextFile("read", "done")
      <4>1. Len(verdicts) = file
        BY <2>1, <3>3 DEF VerdictsSoFar
      <4>2. VerdictsSoFar'
        BY <2>1, <3>1, <3>3, <4>1 DEF VerdictsSoFar, NextFile
      <4> QED
        BY <2>2, <3>1, <4>2
    <3>4. CASE phase = "libc_speed" /\ NextFile("libc_read", "read")
      <4>1. verdicts = << >> /\ Len(<< >>) = 0
        BY <2>1, <3>4, EmptySeq DEF VerdictsSoFar
      <4>2. VerdictsSoFar'
        BY <2>1, <3>1, <3>4, <4>1 DEF VerdictsSoFar, NextFile
      <4> QED
        BY <2>2, <3>1, <4>2
    <3> QED
      BY <3>1, <3>2, <3>3, <3>4
  <2> QED
    BY <2>3, <2>5, <2>6, <2>8, <2>9, <2>10, <2>11, <2>12, <2>13, <2>14, <2>15, <2>16, <2>17, <2>18
    DEF Next
<1> QED
  BY <1>1, <1>2, TypesHold, PTL DEF Spec

-----------------------------------------------------------------------------
(* Honest packages                                                            *)

(* What an answer leaves and gives out.                                       *)
LEMMA AnswerGives ==
    ASSUME Types, NEW x \in Indices, NEW size \in Nat, NEW p \in Addresses, Answer(x, size, p)
    PROVE  /\ given' \in [Indices -> SUBSET Payloads]
           /\ Payload(p, size) \in given'[x]
           /\ \A y \in Indices : Others(x)[y] \subseteq given'[y]
           /\ \A y \in Indices : \A q \in given[y] :
                 Request.type = "r" => (q.lo # blocks[x] \/ y # x => q \in Others(x)[y])
           /\ Request.type # "r" => Others(x) = given
<1> DEFINE others == Others(x)
           new == Payload(p, size)
<1>1. p # NULL
  BY DEF Addresses, NULL
<1>2. given' = [others EXCEPT ![x] = @ \cup {new}]
  BY <1>1 DEF Answer, Give
<1>3. given' \in [Indices -> SUBSET Payloads] /\ others \in [Indices -> SUBSET Payloads]
  BY <1>1, AnswerTypes DEF Answer
<1>4. given \in [Indices -> SUBSET Payloads]
  BY DEF Types, Data
<1>5. Request.type = "r" => others = [given EXCEPT ![x] = {q \in @ : q.lo # blocks[x]}]
  BY DEF Others, Without
<1>6. Request.type # "r" => others = given
  BY DEF Others
<1> HIDE DEF others, new
<1>7. new \in given'[x] /\ \A y \in Indices : others[y] \subseteq given'[y]
  BY <1>2, <1>3
<1>8. \A y \in Indices : \A q \in given[y] :
         Request.type = "r" => (q.lo # blocks[x] \/ y # x => q \in others[y])
  BY <1>4, <1>5
<1> QED
  BY <1>3, <1>6, <1>7, <1>8 DEF others, new

(* What is left of the range list lies where the package may not answer.      *)
LEMMA LeftBacked ==
    ASSUME Types, Checking, honest, op \in 1 .. Len(Trace.lines), ListApart, RangesBacked,
           NEW size \in Nat, NEW p \in Addresses, Answer(Request.index, size, p),
           NEW r \in ToSet(Left)
    PROVE  \E y \in Indices : \E q \in Others(Request.index)[y] :
              q \in Payloads /\ q.size > 0 /\ r = Extent(q.lo, q.size)
<1> DEFINE x == Request.index
<1>1. Apart(ranges, brk) /\ x \in Indices /\ given \in [Indices -> SUBSET Payloads]
  BY TraceTypes DEF ListApart, Types, Data
<1>2. r \in ToSet(ranges) /\ (Request.type = "r" => r.lo # blocks[x])
  BY <1>1, LeftRanges
<1>3. PICK y \in Indices : \E q \in given[y] : q.size > 0 /\ r = Extent(q.lo, q.size)
  BY <1>2 DEF RangesBacked, Backed
<1>4. PICK q \in given[y] : q.size > 0 /\ r = Extent(q.lo, q.size)
  BY <1>3
<1>5. r.lo = q.lo /\ q \in Payloads
  BY <1>1, <1>4 DEF Extent
<1>6. q \in Others(x)[y]
  BY <1>1, <1>2, <1>4, <1>5, AnswerGives
<1> QED
  BY <1>4, <1>5, <1>6

(* An honest answer stands up to every check of add_range.                    *)
LEMMA HonestAnswerAccepted ==
    ASSUME Types, Checking, honest, op \in 1 .. Len(Trace.lines), ListApart, RangesBacked,
           NEW size \in Nat, NEW p \in Addresses, Answer(Request.index, size, p)
    PROVE  size > 0 /\ Complaint(Left, p, p + size - 1, brk') = "none"
<1> DEFINE x == Request.index
           others == Others(x)
           top == brk'
           hi == p + size - 1
<1>1. p # NULL
  BY DEF Addresses, NULL
<1>2. /\ size > 0 /\ p % Alignment = 0 /\ 0 <= p /\ p + size <= top
      /\ \A y \in Indices : \A q \in others[y] : Disjoint(p, size, q)
  BY <1>1 DEF Answer, HonestAnswers
<1>3. p \in Int /\ top \in Int /\ Limit \in Nat
  BY DriverAssumption DEF Answer, Types, Data, Addresses
<1>4. \A r \in ToSet(Left) : ~Clashes(p, hi, r)
  <2> SUFFICES ASSUME NEW r \in ToSet(Left) PROVE ~Clashes(p, hi, r)
    OBVIOUS
  <2>1. PICK y \in Indices : \E q \in others[y] : q \in Payloads /\ q.size > 0 /\ r = Extent(q.lo, q.size)
    BY LeftBacked
  <2>2. PICK q \in others[y] : q \in Payloads /\ q.size > 0 /\ r = Extent(q.lo, q.size)
    BY <2>1
  <2> DEFINE lo == q.lo
             length == q.size
  <2>3. p + size <= lo \/ lo + length <= p
    BY <1>2, <2>1, <2>2 DEF Disjoint
  <2>4. lo \in Int /\ length \in Nat /\ length > 0
    BY <2>2, DriverAssumption DEF Payloads, Addresses
  <2>5. r.lo = lo /\ r.hi = lo + length - 1
    BY <2>2 DEF Extent
  <2> HIDE DEF lo, length
  <2> QED
    BY <1>2, <1>3, <2>3, <2>4, <2>5 DEF Clashes, InRange
<1>5. \A i \in DOMAIN Left : Left[i] \in ToSet(Left)
  BY DEF ToSet
<1> HIDE DEF top
<1>6. ~(p < 0 \/ p > top - 1 \/ hi < 0 \/ hi > top - 1)
  BY <1>2, <1>3
<1> QED
  BY <1>2, <1>4, <1>5, <1>6 DEF Complaint, top

(* Each recorded range is a payload that the package has out.                 *)
THEOREM BackedHolds == Spec => []RangesBacked
<1>1. Init => RangesBacked
  BY DEF Init, RangesBacked, Checking
<1>2. Types /\ Types' /\ ListApart /\ RangesBacked /\ [Next]_vars => RangesBacked'
  <2> SUFFICES ASSUME Types, Types', ListApart, RangesBacked, [Next]_vars, Checking', honest',
                      NEW r \in ToSet(ranges')
               PROVE  \E y \in Indices : \E q \in given'[y] : q.size > 0 /\ r = Extent(q.lo, q.size)
    BY DEF RangesBacked, Backed
  <2> DEFINE x == Request.index
             size == Request.size
             Goal == \E y \in Indices : \E q \in given'[y] : q.size > 0 /\ r = Extent(q.lo, q.size)
  <2>1. CASE UNCHANGED vars
    BY <2>1 DEF vars, driverVars, traceVars, checkVars, packageVars, RangesBacked, Checking, Backed
  <2>2. ranges' # << >>
    BY DEF ToSet
  <2>3. ASSUME Checking, honest, op \in 1 .. Len(Trace.lines), NEW p \in Addresses,
               Answer(x, size, p), Accepted(p, size, Left), ranges' = << Extent(p, size) >> \o Left
        PROVE  Goal
    <3>1. /\ x \in Indices /\ size \in Nat /\ Apart(ranges, brk)
          /\ brk \in Nat /\ brk' \in 0 .. Limit /\ brk <= brk'
      BY <2>3, TraceTypes, DriverAssumption DEF Types, Data, ListApart, Answer
    <3> DEFINE top == brk'
               new == << Extent(p, size) >> \o Left
    <3>2. size > 0 /\ Complaint(Left, p, p + size - 1, top) = "none" /\ top \in 0 .. Limit /\ brk <= top
      BY <2>3, <3>1 DEF Accepted
    <3>3. Left \in Seq(Ranges) /\ Apart(Left, brk)
      BY <2>3, <3>1, LeftRanges
    <3> HIDE DEF top, size, x
    <3>4. ToSet(new) = ToSet(Left) \cup {Extent(p, size)}
      BY <3>1, <3>2, <3>3, AcceptedRange
    <3>5. ranges' = new
      BY <2>3 DEF size
    <3> HIDE DEF new
    <3>6. CASE r = Extent(p, size)
      <4>1. Payload(p, size) \in given'[x]
        BY <2>3, <3>1, AnswerGives DEF x, size
      <4>2. Payload(p, size).lo = p /\ Payload(p, size).size = size
        BY DEF Payload
      <4> QED
        BY <3>1, <3>2, <3>6, <4>1, <4>2
    <3>7. CASE r \in ToSet(Left)
      <4>1. PICK y \in Indices : \E q \in Others(x)[y] : q.size > 0 /\ r = Extent(q.lo, q.size)
        BY <2>3, <3>1, <3>7, LeftBacked DEF x, size
      <4>2. Others(x)[y] \subseteq given'[y]
        BY <2>3, <3>1, AnswerGives DEF x, size
      <4> QED
        BY <4>1, <4>2
    <3> QED
      BY <3>4, <3>5, <3>6, <3>7
  <2>4. ASSUME Checking, honest, op \in 1 .. Len(Trace.lines), TakeBack(x),
               ranges' = remove_range(ranges, blocks[x])
        PROVE  Goal
    <3>1. /\ ranges \in Seq(Ranges) /\ brk \in Nat /\ Apart(ranges, brk) /\ x \in Indices
          /\ given \in [Indices -> SUBSET Payloads]
      BY <2>4, TraceTypes, DriverAssumption DEF ListApart, Types, Data
    <3> DEFINE lo == blocks[x]
               list == remove_range(ranges, lo)
    <3>2. ToSet(list) = {s \in ToSet(ranges) : s.lo # lo}
      BY <3>1, RemovedRange
    <3>3. ranges' = list
      BY <2>4
    <3> HIDE DEF list, x
    <3>4. r \in ToSet(ranges) /\ r.lo # lo
      BY <3>2, <3>3
    <3>5. PICK y \in Indices : \E q \in given[y] : q.size > 0 /\ r = Extent(q.lo, q.size)
      BY <2>4, <3>4 DEF RangesBacked, Backed
    <3>6. PICK q \in given[y] : q.size > 0 /\ r = Extent(q.lo, q.size)
      BY <3>5
    <3>7. q.lo # lo
      BY <3>4, <3>6 DEF Extent
    <3>8. given' = [given EXCEPT ![x] = {s \in @ : s.lo # lo}]
      BY <2>4 DEF TakeBack, Without, x
    <3>9. q \in given'[y]
      BY <3>1, <3>6, <3>7, <3>8
    <3> QED
      BY <3>6, <3>9
  <2>5. CASE Next
    <3> DEFINE Goes == Checking /\ op \in 1 .. Len(Trace.lines) /\ (honest' => honest)
               Takes(p) == /\ Answer(x, size, p) /\ Accepted(p, size, Left)
                           /\ ranges' = << Extent(p, size) >> \o Left
               Frees == TakeBack(x) /\ ranges' = remove_range(ranges, blocks[x])
    <3>1. Goes /\ ((\E p \in Addresses : Takes(p)) \/ Frees)
      BY <2>2, <2>5, CheckingSteps
    <3>2. ASSUME Goes, NEW p \in Addresses, Takes(p) PROVE Goal
      BY <2>3, <3>2
    <3>3. ASSUME Goes, Frees PROVE Goal
      BY <2>4, <3>3
    <3> HIDE DEF Goes, Takes, Frees, Goal
    <3>4. Goal
      BY <3>1, <3>2, <3>3
    <3> QED
      BY <3>4 DEF Goal
  <2> QED
    BY <2>1, <2>5
<1> QED
  BY <1>1, <1>2, TypesHold, ApartHolds, PTL DEF Spec

(* What the driver may report of a package that is honest.                    *)
Excused(report) ==
    \/ report.why \in {"mm_init", "mm_malloc", "mm_realloc", "libc"}
    \/ report.why = "data" /\ ReadsNegative(report.index)

(* What a step reports.                                                       *)
LEMMA ReportSteps ==
    ASSUME Types, ListApart, RangesBacked, Next
    PROVE  /\ honest' => honest
           /\ \/ reports' = reports
              \/ \E why \in Whys :
                    /\ op \in 0 .. Len(Trace.lines) /\ reports' = Append(reports, Report(why))
                    /\ honest' => Excused(Report(why))
<1>1. Len(Trace.lines) \in Nat
  BY TraceTypes DEF Types
<1>2. \A why : Report(why).why = why /\ (op # 0 => Report(why).index = Request.index)
  BY DEF Report
<1>3. /\ {"mm_init", "mm_malloc", "mm_realloc", "libc", "data"} \subseteq Whys
      /\ \A why \in {"mm_init", "mm_malloc", "mm_realloc", "libc"} : Excused(Report(why))
  BY <1>2 DEF Whys, Excused
<1>4. ASSUME NEW why \in {"mm_init", "mm_malloc", "mm_realloc"}, Fail(why), op \in 0 .. Len(Trace.lines)
      PROVE  \E w \in Whys :
                /\ op \in 0 .. Len(Trace.lines) /\ reports' = Append(reports, Report(w))
                /\ honest' => Excused(Report(w))
  BY <1>3, <1>4 DEF Fail
<1>5. ASSUME NEW p \in Addresses, Answer(Request.index, Request.size, p), Checking,
             op \in 1 .. Len(Trace.lines), TurnedDown(p, Request.size, Left), honest' => honest
      PROVE  \/ reports' = reports
             \/ \E why \in Whys :
                   /\ op \in 0 .. Len(Trace.lines) /\ reports' = Append(reports, Report(why))
                   /\ honest' => Excused(Report(why))
  <2> DEFINE size == Request.size
             why == Complaint(Left, p, p + size - 1, brk')
  <2>1. \/ UNCHANGED reports
        \/ why # "none" /\ Fail(why)
    BY <1>5 DEF TurnedDown
  <2>2. size \in Nat
    BY <1>5, TraceTypes DEF Types
  <2>3. honest' => why = "none"
    BY <1>5, <2>2, HonestAnswerAccepted
  <2>4. why # "none" => why \in Whys
    BY DEF Complaint, Whys
  <2> HIDE DEF why
  <2>5. op \in 0 .. Len(Trace.lines)
    BY <1>1, <1>5
  <2> QED
    BY <2>1, <2>3, <2>4, <2>5 DEF Fail
<1>6. ASSUME \/ Read \/ ValidFree \/ ValidEnd \/ UtilStart \/ UtilPlaced \/ UtilFree \/ UtilEnd
              \/ SpeedStart \/ LibcSpeedStart \/ ReplayPlaced \/ ReplayFree \/ LibcValidEnd \/ RunEnd
       PROVE  honest' => honest
  <2>1. \A x : Passed(x) => (honest' => honest)
    BY DEF Passed
  <2>2. Read \/ ValidEnd \/ UtilEnd \/ LibcSpeedStart \/ LibcValidEnd \/ RunEnd => honest' = honest
    BY DEF Read, ValidEnd, UtilEnd, LibcSpeedStart, LibcValidEnd, RunEnd, packageVars
  <2>3. UtilStart \/ SpeedStart => honest' = honest
    BY DEF UtilStart, SpeedStart, PackageStarts
  <2>4. ValidFree \/ UtilPlaced \/ UtilFree \/ ReplayFree => honest' = honest \/ \E x : Passed(x)
    BY DEF ValidFree, UtilPlaced, UtilFree, ReplayFree
  <2>5. ReplayPlaced => honest' = honest \/ \E x : Passed(x)
    BY DEF ReplayPlaced, LibraryAnswer
  <2> QED
    BY <1>6, <2>1, <2>2, <2>3, <2>4, <2>5
<1>7. CASE ValidStart
  <2>1. op \in 0 .. Len(Trace.lines) /\ honest' = honest
    BY <1>1, <1>7 DEF ValidStart, PackageStarts
  <2>2. reports' = reports \/ Fail("mm_init")
    BY <1>7 DEF ValidStart
  <2> QED
    BY <1>4, <2>1, <2>2
<1>8. CASE ValidAlloc
  <2>1. /\ phase = "valid" /\ op \in 1 .. Len(Trace.lines) /\ Request.type = "a" /\ honest' = honest
    BY <1>8 DEF ValidAlloc, At
  <2>2. Left = ranges /\ Checking /\ op \in 0 .. Len(Trace.lines)
    BY <1>1, <2>1 DEF Left, Checking
  <2>3. PICK p \in Addresses \cup {NULL} :
          /\ Answer(Request.index, Request.size, p)
          /\ \/ Fail("mm_malloc")
             \/ p # NULL /\ TurnedDown(p, Request.size, Left)
             \/ reports' = reports
    BY <1>8, <2>2 DEF ValidAlloc, Remember
  <2> QED
    BY <1>4, <1>5, <2>1, <2>2, <2>3
<1>9. CASE ValidRealloc
  <2>1. phase = "valid" /\ op \in 1 .. Len(Trace.lines) /\ Request.type = "r"
    BY <1>9 DEF ValidRealloc, At
  <2>2. /\ Left = remove_range(ranges, blocks[Request.index]) /\ Checking
        /\ op \in 0 .. Len(Trace.lines) /\ op # 0
    BY <1>1, <2>1 DEF Left, Checking
  <2>3. PICK p \in Addresses \cup {NULL}, kept \in BOOLEAN :
          /\ Answer(Request.index, Request.size, p) /\ Passed(Request.index)
          /\ honest /\ Current(Request.index) => kept
          /\ \/ Fail("mm_realloc")
             \/ p # NULL /\ TurnedDown(p, Request.size, Left)
             \/ reports' = reports
             \/ ~LooksKept(Request.index, kept, Request.size) /\ Fail("data")
    BY <1>9, <2>2 DEF ValidRealloc, Remember
  <2>4. honest' => honest /\ kept
    BY <2>3 DEF Passed
  <2>5. CASE ~LooksKept(Request.index, kept, Request.size) /\ Fail("data")
    <3>1. honest' => ReadsNegative(Request.index)
      BY <2>4, <2>5 DEF LooksKept
    <3>2. honest' => Excused(Report("data"))
      BY <1>2, <2>2, <3>1 DEF Excused
    <3>3. reports' = Append(reports, Report("data"))
      BY <2>5 DEF Fail
    <3> QED
      BY <1>3, <2>2, <2>4, <3>2, <3>3
  <2>6. CASE Fail("mm_realloc")
    BY <1>4, <2>2, <2>4, <2>6
  <2>7. CASE p # NULL /\ TurnedDown(p, Request.size, Left)
    BY <1>5, <2>1, <2>2, <2>3, <2>4, <2>7
  <2> QED
    BY <2>3, <2>4, <2>5, <2>6, <2>7
<1>10. CASE ReplayPlaced
  <2>1. op \in 0 .. Len(Trace.lines)
    BY <1>1, <1>10 DEF ReplayPlaced, At
  <2>2. reports' = reports \/ reports' = Append(reports, Report("libc"))
    BY <1>10 DEF ReplayPlaced, ReplayFails
  <2> QED
    BY <1>3, <1>6, <1>10, <2>1, <2>2
<1>11. CASE Read \/ ValidFree \/ ValidEnd
  BY <1>6, <1>11 DEF Read, ValidFree, ValidEnd, checkVars
<1>12. CASE UtilStart \/ UtilPlaced \/ UtilFree \/ UtilEnd
  BY <1>6, <1>12 DEF UtilStart, UtilPlaced, UtilFree, UtilEnd, checkVars
<1>13. CASE SpeedStart \/ LibcSpeedStart \/ ReplayFree \/ LibcValidEnd \/ RunEnd
  BY <1>6, <1>13 DEF SpeedStart, LibcSpeedStart, ReplayFree, LibcValidEnd, RunEnd, checkVars
<1> QED
  BY <1>7, <1>8, <1>9, <1>10, <1>11, <1>12, <1>13 DEF Next

(* An honest package is reported for nothing but an answer NULL, and data     *)
(* whose fill byte is read as negative.                                       *)
THEOREM NoFalseAlarmAlways == Spec => []NoFalseAlarm
<1>1. Init => NoFalseAlarm
  BY DEF Init, NoFalseAlarm
<1>2. Types /\ ListApart /\ RangesBacked /\ NoFalseAlarm /\ [Next]_vars => NoFalseAlarm'
  <2> SUFFICES ASSUME Types, ListApart, RangesBacked, NoFalseAlarm, [Next]_vars, honest',
                      NEW i \in DOMAIN reports'
               PROVE  Excused(reports'[i])
    BY DEF NoFalseAlarm, Excused
  <2>1. ASSUME honest, reports' = reports PROVE Excused(reports'[i])
    BY <2>1 DEF NoFalseAlarm, Excused
  <2>2. CASE UNCHANGED vars
    BY <2>1, <2>2 DEF vars, driverVars, checkVars, packageVars
  <2>3. CASE Next
    <3>1. honest
      BY <2>3, ReportSteps
    <3>2. ASSUME NEW why \in Whys, op \in 0 .. Len(Trace.lines),
                 reports' = Append(reports, Report(why)), Excused(Report(why))
          PROVE  Excused(reports'[i])
      <4> DEFINE r == Report(why)
                 n == Len(reports)
      <4>1. r \in Reports /\ reports \in Seq(Reports)
        <5>1. op # 0 => Request.index \in Nat
          <6>1. op = 0 \/ op \in 1 .. Len(Trace.lines)
            BY <3>2, TraceTypes DEF Types
          <6> QED
            BY <6>1, TraceTypes, DriverAssumption DEF Types
        <5>2. file \in Nat
          BY DEF Types, Control
        <5> QED
          BY <5>1, <5>2 DEF Report, Reports, Types, Data
      <4>2. n \in Nat
        BY <4>1, LenProperties
      <4>3. DOMAIN reports = 1 .. n
        BY <4>1, LenProperties
      <4>4. Excused(r) /\ reports' = Append(reports, r)
        BY <3>2
      <4> HIDE DEF r
      <4>5. /\ reports' \in Seq(Reports) /\ Len(reports') = n + 1 /\ reports'[n + 1] = r
            /\ \A j \in 1 .. n : reports'[j] = reports[j]
        BY <4>1, <4>4, AppendProperties
      <4> HIDE DEF n
      <4>6. i \in 1 .. n + 1
        BY <4>5, LenProperties
      <4>7. CASE i = n + 1
        BY <4>4, <4>5, <4>7
      <4>8. CASE i \in 1 .. n
        BY <3>1, <4>3, <4>5, <4>8 DEF NoFalseAlarm, Excused
      <4> QED
        BY <4>2, <4>6, <4>7, <4>8
    <3> QED
      BY <2>1, <2>3, <3>1, <3>2, ReportSteps
  <2> QED
    BY <2>2, <2>3
<1> QED
  BY <1>1, <1>2, TypesHold, ApartHolds, BackedHolds, PTL DEF Spec

(* What the driver reports is right: errors counts the invalid traces, and an *)
(* honest package is not accused.                                             *)
THEOREM ReportsRightAlways == Spec => []ReportsRight
<1>1. Errors /\ NoFalseAlarm => ReportsRight
  BY DEF Errors, VerdictsSoFar, Verdict, Failures, ReportsRight, ErrorsCountInvalid
<1> QED
  BY <1>1, ErrorsHold, NoFalseAlarmAlways, PTL

-----------------------------------------------------------------------------
(* The high water mark                                                        *)

(* What the trace demands for a block, request by request.                    *)
LEMMA SizeSteps ==
    ASSUME NEW lines \in Seq(Lines), NEW n \in 1 .. Len(lines), NEW x
    PROVE  /\ lines[n].type \in {"a", "r"} /\ x = lines[n].index /\ Live(lines, n, x) =>
                 SizeOf(lines, n, x) = lines[n].size
           /\ lines[n].type \in {"a", "r"} /\ x # lines[n].index =>
                 SizeOf(lines, n, x) = SizeOf(lines, n - 1, x)
           /\ lines[n].type = "f" =>
                 SizeOf(lines, n, x) = IF x = lines[n].index THEN 0 ELSE SizeOf(lines, n - 1, x)
<1> DEFINE sized(m) == {k \in 1 .. m : lines[k].type \in {"a", "r"} /\ lines[k].index = x}
           is == lines[n].type \in {"a", "r"} /\ lines[n].index = x
<1>1. n \in Nat /\ n >= 1
  BY LenProperties
<1>2. \A m : SizeOf(lines, m, x) = IF Live(lines, m, x) THEN lines[Max(sized(m))].size ELSE 0
  BY DEF SizeOf
<1>3. 1 .. n = (1 .. n - 1) \cup {n}
  BY <1>1
<1>4. sized(n) = IF is THEN sized(n - 1) \cup {n} ELSE sized(n - 1)
  BY <1>3
<1>5. \A k \in sized(n) : k \in Nat /\ n >= k
  BY <1>1
<1>6. is => n \in sized(n)
  BY <1>3
<1> HIDE DEF sized
<1>7. is => Max(sized(n)) = n
  <2>1. ASSUME is, NEW m \in sized(n), \A k \in sized(n) : m >= k PROVE m = n
    BY <1>1, <1>5, <1>6, <2>1
  <2> HIDE DEF is
  <2> QED
    BY <1>5, <1>6, <2>1 DEF Max
<1>8. CASE lines[n].type \in {"a", "r"} /\ x = lines[n].index
  BY <1>2, <1>7, <1>8
<1>9. CASE lines[n].type \in {"a", "r"} /\ x # lines[n].index
  <2>1. Live(lines, n, x) <=> Live(lines, n - 1, x)
    BY <1>9, LiveSteps
  <2>2. sized(n) = sized(n - 1)
    BY <1>4, <1>9
  <2> QED
    BY <1>2, <1>9, <2>1, <2>2
<1>10. CASE lines[n].type = "f"
  <2>1. Live(lines, n, x) <=> x # lines[n].index /\ Live(lines, n - 1, x)
    BY <1>10, LiveSteps
  <2>2. sized(n) = sized(n - 1)
    BY <1>4, <1>10
  <2> QED
    BY <1>2, <1>10, <2>1, <2>2
<1> QED
  BY <1>8, <1>9, <1>10

(* The demand is a sum over the blocks.                                       *)
LEMMA DemandIsSum ==
    ASSUME NEW lines, NEW n
    PROVE  \E g : /\ IsSum(g, [x \in Indices |-> SizeOf(lines, n, x)], Indices)
                  /\ Demand(lines, n) = g[Indices]
<1> DEFINE one(s) == CHOOSE x \in s : TRUE
           w == [x \in Indices |-> SizeOf(lines, n, x)]
           Body(g) == [s \in SUBSET Indices |->
                          IF s = {} THEN 0 ELSE g[s \ {one(s)}] + SizeOf(lines, n, one(s))]
           iter == CHOOSE g : g = Body(g)
<1>1. Demand(lines, n) = iter[Indices]
  BY DEF Demand, FoldSet, MapThenFoldSet
<1>2. \A g : IsSum(g, w, Indices) <=> g = Body(g)
  <2>1. \A s \in SUBSET Indices : s # {} => w[one(s)] = SizeOf(lines, n, one(s))
    OBVIOUS
  <2>2. \A g : Body(g) = [s \in SUBSET Indices |->
                             IF s = {} THEN 0 ELSE g[s \ {one(s)}] + w[one(s)]]
    <3> HIDE DEF one, w
    <3> QED
      BY <2>1
  <2>3. \A g : IsSum(g, w, Indices) <=>
                  g = [s \in SUBSET Indices |-> IF s = {} THEN 0 ELSE g[s \ {one(s)}] + w[one(s)]]
    BY DEF IsSum
  <2> HIDE DEF Body, one, w
  <2> QED
    BY <2>2, <2>3
<1> HIDE DEF Body
<1>3. \E g : g = Body(g)
  <2> HIDE DEF w
  <2>1. \E g : IsSum(g, w, Indices)
    BY SumExists, DriverAssumption
  <2> QED
    BY <1>2, <2>1
<1>4. iter = Body(iter)
  BY <1>3
<1> HIDE DEF iter
<1> QED
  BY <1>1, <1>2, <1>4

(* So with a request it changes by what its block changes by.                 *)
LEMMA DemandSteps ==
    ASSUME NEW lines, NEW m, NEW n, NEW z \in Indices,
           \A x \in Indices : SizeOf(lines, m, x) \in Int /\ SizeOf(lines, n, x) \in Int,
           \A x \in Indices \ {z} : SizeOf(lines, m, x) = SizeOf(lines, n, x)
    PROVE  /\ Demand(lines, m) \in Int
           /\ Demand(lines, n) = Demand(lines, m) + SizeOf(lines, n, z) - SizeOf(lines, m, z)
<1> DEFINE v == [x \in Indices |-> SizeOf(lines, m, x)]
           w == [x \in Indices |-> SizeOf(lines, n, x)]
<1>1. PICK f : IsSum(f, v, Indices) /\ Demand(lines, m) = f[Indices]
  BY DemandIsSum
<1>2. PICK g : IsSum(g, w, Indices) /\ Demand(lines, n) = g[Indices]
  BY DemandIsSum
<1>3. /\ v \in [Indices -> Int] /\ w \in [Indices -> Int]
      /\ \A x \in Indices \ {z} : v[x] = w[x]
      /\ v[z] = SizeOf(lines, m, z) /\ w[z] = SizeOf(lines, n, z)
  OBVIOUS
<1> HIDE DEF v, w
<1> DEFINE I == Indices
<1>4. /\ IsFiniteSet(I) /\ v \in [I -> Int] /\ w \in [I -> Int] /\ z \in I
      /\ IsSum(f, v, I) /\ IsSum(g, w, I) /\ \A x \in I \ {z} : v[x] = w[x]
  BY <1>1, <1>2, <1>3, DriverAssumption
<1> HIDE DEF I
<1>5. f[I] \in Int /\ g[I] = f[I] + w[z] - v[z]
  BY <1>4, SumsDiffer
<1> QED
  BY <1>1, <1>2, <1>3, <1>5 DEF I

(* Before its first request a trace demands nothing.                          *)
LEMMA NoDemand ==
    ASSUME NEW lines
    PROVE  (\A x \in Indices : SizeOf(lines, 0, x) = 0) /\ Demand(lines, 0) = 0
<1> DEFINE w == [x \in Indices |-> SizeOf(lines, 0, x)]
<1>1. \A x : ~Live(lines, 0, x)
  BY DEF Live
<1>2. \A x : SizeOf(lines, 0, x) = 0
  BY <1>1 DEF SizeOf
<1>3. PICK g : IsSum(g, w, Indices) /\ Demand(lines, 0) = g[Indices]
  BY DemandIsSum
<1>4. \A x \in Indices : w[x] = 0
  BY <1>2
<1> HIDE DEF w
<1>5. g[Indices] = 0
  BY <1>3, <1>4, SumOfZeros, DriverAssumption
<1> QED
  BY <1>2, <1>3, <1>5

(* A step into the measurement of space, or on with it.                       *)
LEMMA UtilSteps ==
    ASSUME Types, Next, phase' = "util", op' > 0
    PROVE  \/ op' = 1 /\ total_size' = 0 /\ max_total_size' = 0
           \/ /\ phase = "util" /\ op \in 1 .. Len(Trace.lines) /\ op' = op + 1 /\ Trace' = Trace
              /\ \/ /\ Request.type \in {"a", "r"}
                    /\ block_sizes' = [block_sizes EXCEPT ![Request.index] = Request.size]
                    /\ Count(total_size + Request.size
                                - IF Request.type = "r" THEN block_sizes[Request.index] ELSE 0)
                 \/ /\ Request.type = "f" /\ block_sizes' = block_sizes
                    /\ total_size' = total_size - block_sizes[Request.index]
                    /\ max_total_size' = max_total_size
<1>1. phase' = "util" /\ op' # 0
  OBVIOUS
<1>2. Read \/ ValidEnd => op' = 0 \/ phase' # "util"
  BY DEF Read, ValidEnd, Goto, Exit
<1>3. ValidStart \/ ValidAlloc \/ ValidRealloc \/ ValidFree => phase' # "util"
  BY DEF ValidStart, ValidAlloc, ValidRealloc, ValidFree, Fail, NextFile, TurnedDown, Remember, Goto, Exit
<1>4. UtilEnd \/ SpeedStart \/ LibcSpeedStart \/ LibcValidEnd \/ RunEnd => phase' # "util"
  BY DEF UtilEnd, SpeedStart, LibcSpeedStart, LibcValidEnd, RunEnd, Timed, NextFile, Goto, Exit
<1>5. ReplayPlaced \/ ReplayFree => phase' # "util"
  BY DEF ReplayPlaced, ReplayFree, At, Replaying, Goto, Exit
<1>6. CASE UtilStart
  BY <1>1, <1>6 DEF UtilStart, Goto, Exit
<1>7. CASE UtilPlaced
  <2>1. /\ phase = "util" /\ op \in 1 .. Len(Trace.lines) /\ Request.type \in {"a", "r"}
        /\ files' = files
    BY <1>7 DEF UtilPlaced, At
  <2>2. /\ block_sizes' = [block_sizes EXCEPT ![Request.index] = Request.size]
        /\ Count(total_size + Request.size
                    - IF Request.type = "r" THEN block_sizes[Request.index] ELSE 0)
        /\ Goto("util", op + 1)
    BY <1>1, <1>7 DEF UtilPlaced, Exit
  <2>3. op' = op + 1 /\ Trace' = Trace
    BY <2>1, <2>2 DEF Goto, Trace
  <2> QED
    BY <2>1, <2>2, <2>3
<1>8. CASE UtilFree
  <2>1. /\ phase = "util" /\ op \in 1 .. Len(Trace.lines) /\ Request.type = "f" /\ files' = files
        /\ block_sizes' = block_sizes /\ max_total_size' = max_total_size
        /\ total_size' = total_size - block_sizes[Request.index] /\ Goto("util", op + 1)
    BY <1>8 DEF UtilFree, At, blockVars
  <2>2. op' = op + 1 /\ Trace' = Trace
    BY <2>1 DEF Goto, Trace
  <2> QED
    BY <2>1, <2>2
<1> QED
  BY <1>1, <1>2, <1>3, <1>4, <1>5, <1>6, <1>7, <1>8 DEF Next

(* One request more, as far as sizes go.                                      *)
LEMMA SizesOneMore ==
    ASSUME Types, Marked, WellFormed(Trace.lines), phase = "util",
           op \in 1 .. Len(Trace.lines), op' = op + 1, Trace' = Trace,
           \/ /\ Request.type \in {"a", "r"}
              /\ block_sizes' = [block_sizes EXCEPT ![Request.index] = Request.size]
           \/ Request.type = "f" /\ block_sizes' = block_sizes
    PROVE  /\ \A x \in Indices :
                 /\ SizeOf(Trace.lines, op, x) = IF x \in LiveBlocks' THEN block_sizes'[x] ELSE 0
                 /\ SizeOf(Trace.lines, op - 1, x) \in Nat /\ SizeOf(Trace.lines, op, x) \in Nat
                 /\ x # Request.index => SizeOf(Trace.lines, op - 1, x) = SizeOf(Trace.lines, op, x)
           /\ SizeOf(Trace.lines, op, Request.index)
                 = IF Request.type = "f" THEN 0 ELSE Request.size
           /\ SizeOf(Trace.lines, op - 1, Request.index)
                 = IF Request.type = "a" THEN 0 ELSE block_sizes[Request.index]
<1> DEFINE lines == Trace.lines
           z == Request.index
           Old(x) == SizeOf(lines, op - 1, x)
           New(x) == SizeOf(lines, op, x)
<1>1. /\ lines \in Seq(Lines) /\ Request = lines[op] /\ z \in Indices /\ Request.size \in Nat
      /\ op - 1 \in Int /\ op > 0
  BY TraceTypes DEF Types, Request
<1>2. block_sizes \in [Indices -> Nat]
  BY DEF Types, Data
<1>3. \A x \in Indices : Old(x) = IF x \in LiveBlocks THEN block_sizes[x] ELSE 0
  BY <1>1 DEF Marked
<1>4. /\ Request.type = "a" => z \notin LiveBlocks /\ LiveBlocks' = LiveBlocks \cup {z}
      /\ Request.type = "r" => z \in LiveBlocks /\ LiveBlocks' = LiveBlocks
      /\ Request.type = "f" => z \in LiveBlocks /\ LiveBlocks' = LiveBlocks \ {z}
  BY LiveBlocksStep
<1>5. \A x \in LiveBlocks' : Live(lines, op, x)
  <2>1. op' - 1 = op
    BY <1>1
  <2> QED
    BY <2>1 DEF LiveBlocks
<1>6. \A x \in Indices :
         /\ Request.type \in {"a", "r"} /\ x = z /\ Live(lines, op, x) => New(x) = Request.size
         /\ Request.type \in {"a", "r"} /\ x # z => New(x) = Old(x)
         /\ Request.type = "f" => New(x) = IF x = z THEN 0 ELSE Old(x)
  BY <1>1, SizeSteps
<1> HIDE DEF lines, z, Old, New
<1>7. CASE /\ Request.type \in {"a", "r"}
           /\ block_sizes' = [block_sizes EXCEPT ![z] = Request.size]
  <2>1. /\ block_sizes'[z] = Request.size
        /\ \A x \in Indices : x # z => block_sizes'[x] = block_sizes[x]
    BY <1>1, <1>2, <1>7
  <2>2. New(z) = Request.size /\ z \in LiveBlocks'
    BY <1>1, <1>4, <1>5, <1>6, <1>7
  <2>3. \A x \in Indices : x # z => New(x) = Old(x) /\ (x \in LiveBlocks' <=> x \in LiveBlocks)
    BY <1>4, <1>6, <1>7
  <2>4. Old(z) = IF Request.type = "a" THEN 0 ELSE block_sizes[z]
    BY <1>1, <1>3, <1>4, <1>7
  <2>5. \A x \in Indices : /\ New(x) = IF x \in LiveBlocks' THEN block_sizes'[x] ELSE 0
                           /\ Old(x) \in Nat /\ New(x) \in Nat /\ (x # z => Old(x) = New(x))
    BY <1>1, <1>2, <1>3, <2>1, <2>2, <2>3
  <2> QED
    BY <1>7, <2>2, <2>4, <2>5 DEF New, Old, lines, z
<1>8. CASE Request.type = "f" /\ block_sizes' = block_sizes
  <2>1. New(z) = 0 /\ z \notin LiveBlocks' /\ Old(z) = block_sizes[z]
    BY <1>1, <1>3, <1>4, <1>6, <1>8
  <2>2. \A x \in Indices : x # z => New(x) = Old(x) /\ (x \in LiveBlocks' <=> x \in LiveBlocks)
    BY <1>4, <1>6, <1>8
  <2>3. \A x \in Indices : /\ New(x) = IF x \in LiveBlocks' THEN block_sizes'[x] ELSE 0
                           /\ Old(x) \in Nat /\ New(x) \in Nat /\ (x # z => Old(x) = New(x))
    BY <1>1, <1>2, <1>3, <1>8, <2>1, <2>2
  <2> QED
    BY <1>8, <2>1, <2>3 DEF New, Old, lines, z
<1> QED
  BY <1>7, <1>8 DEF z

(* The total follows the trace, and the mark the greatest total.              *)
THEOREM MarkHolds == Spec => []Marked
<1>1. Init => Marked
  BY DEF Init, Marked
<1>2. Types /\ Types' /\ Marked /\ [Next]_vars => Marked'
  <2> SUFFICES ASSUME Types, Types', Marked, [Next]_vars, phase' = "util", op' > 0,
                      WellFormed(Trace.lines)'
               PROVE  /\ \A x \in Indices : SizeOf(Trace'.lines, op' - 1, x)
                                               = IF x \in LiveBlocks' THEN block_sizes'[x] ELSE 0
                      /\ total_size' = Demand(Trace'.lines, op' - 1) /\ Demands' \subseteq Int
                      /\ max_total_size' \in Demands' /\ \A d \in Demands' : d <= max_total_size'
    BY DEF Marked
  <2> DEFINE lines == Trace.lines
             Goal == /\ \A x \in Indices : SizeOf(Trace'.lines, op' - 1, x)
                                              = IF x \in LiveBlocks' THEN block_sizes'[x] ELSE 0
                     /\ total_size' = Demand(Trace'.lines, op' - 1) /\ Demands' \subseteq Int
                     /\ max_total_size' \in Demands' /\ \A d \in Demands' : d <= max_total_size'
  <2>1. CASE UNCHANGED vars
    BY <2>1 DEF vars, driverVars, traceVars, blockVars, utilVars, Marked, Demands, LiveBlocks, Trace
  <2>2. ASSUME op' = 1, total_size' = 0, max_total_size' = 0 PROVE Goal
    <3>1. op' - 1 = 0
      BY <2>2
    <3>2. LiveBlocks' = {}
      BY <3>1 DEF LiveBlocks, Live
    <3>3. /\ \A x \in Indices : SizeOf(Trace'.lines, 0, x) = 0
          /\ Demand(Trace'.lines, 0) = 0
      BY NoDemand
    <3>4. Demands' = {0}
      <4>1. 0 .. op' - 1 = {0}
        BY <3>1
      <4> QED
        BY <3>3, <4>1 DEF Demands
    <3> QED
      BY <2>2, <3>1, <3>2, <3>3, <3>4
  <2>3. ASSUME phase = "util", op \in 1 .. Len(lines), op' = op + 1, Trace' = Trace,
               \/ /\ Request.type \in {"a", "r"}
                  /\ block_sizes' = [block_sizes EXCEPT ![Request.index] = Request.size]
                  /\ Count(total_size + Request.size
                              - IF Request.type = "r" THEN block_sizes[Request.index] ELSE 0)
               \/ /\ Request.type = "f" /\ block_sizes' = block_sizes
                  /\ total_size' = total_size - block_sizes[Request.index]
                  /\ max_total_size' = max_total_size
        PROVE  Goal
    <3> DEFINE z == Request.index
               old == SizeOf(lines, op - 1, z)
               new == SizeOf(lines, op, z)
               before == Demand(lines, op - 1)
               now == Demand(lines, op)
    <3>1. /\ WellFormed(lines) /\ op \in Nat /\ op > 0 /\ op' - 1 = op
          /\ z \in Indices /\ Request.size \in Nat
      <4>1. Len(lines) \in Nat
        BY TraceTypes DEF Types
      <4> QED
        BY <2>3, <4>1, TraceTypes DEF Types
    <3>2. /\ total_size = before /\ Demands \subseteq Int
          /\ max_total_size \in Demands /\ \A d \in Demands : d <= max_total_size
      BY <2>3, <3>1 DEF Marked
    <3>3. /\ \A x \in Indices :
                /\ SizeOf(lines, op, x) = IF x \in LiveBlocks' THEN block_sizes'[x] ELSE 0
                /\ SizeOf(lines, op - 1, x) \in Nat /\ SizeOf(lines, op, x) \in Nat
                /\ x # z => SizeOf(lines, op - 1, x) = SizeOf(lines, op, x)
          /\ new = IF Request.type = "f" THEN 0 ELSE Request.size
          /\ old = IF Request.type = "a" THEN 0 ELSE block_sizes[z]
      BY <2>3, <3>1, SizesOneMore
    <3>4. before \in Int /\ now = before + new - old
      <4>1. \A x \in Indices : SizeOf(lines, op - 1, x) \in Int /\ SizeOf(lines, op, x) \in Int
        BY <3>3
      <4>2. \A x \in Indices \ {z} : SizeOf(lines, op - 1, x) = SizeOf(lines, op, x)
        BY <3>3
      <4> QED
        BY <3>1, <4>1, <4>2, DemandSteps
    <3>5. old \in Nat /\ new \in Nat
      BY <3>1, <3>3
    <3>6. Demands' = Demands \cup {now}
      <4>1. 0 .. op' - 1 = (0 .. op - 1) \cup {op}
        BY <3>1
      <4> QED
        BY <2>3, <4>1 DEF Demands
    <3>7. \A x \in Indices : SizeOf(Trace'.lines, op' - 1, x)
                                = IF x \in LiveBlocks' THEN block_sizes'[x] ELSE 0
      BY <2>3, <3>1, <3>3
    <3>8. before \in Demands
      <4>1. op - 1 \in 0 .. op - 1
        BY <3>1
      <4> QED
        BY <4>1 DEF Demands
    <3>9. Demand(Trace'.lines, op' - 1) = now
      BY <2>3, <3>1
    <3> HIDE DEF old, new, before, now, z, Demands
    <3>10. max_total_size \in Int
      BY <3>2
    <3>11. CASE /\ Request.type \in {"a", "r"}
                /\ Count(total_size + Request.size - IF Request.type = "r" THEN block_sizes[z] ELSE 0)
      <4>1. total_size + Request.size - (IF Request.type = "r" THEN block_sizes[z] ELSE 0) = now
        BY <3>2, <3>3, <3>4, <3>11
      <4>2. Count(now)
        BY <3>11, <4>1
      <4>3. total_size' = now /\ max_total_size' = IF now > max_total_size THEN now ELSE max_total_size
        BY <4>2 DEF Count
      <4>4. now \in Int
        BY <3>4, <3>5
      <4>5. \A d \in Demands : d \in Int /\ d <= max_total_size
        BY <3>2
      <4>6. /\ Demands' \subseteq Int /\ max_total_size' \in Demands'
            /\ \A d \in Demands' : d <= max_total_size'
        BY <3>2, <3>6, <3>10, <4>3, <4>4, <4>5
      <4> QED
        BY <3>7, <3>9, <4>3, <4>6
    <3>12. CASE /\ Request.type = "f" /\ total_size' = total_size - block_sizes[z]
                /\ max_total_size' = max_total_size
      <4>1. total_size' = now /\ now <= before /\ now \in Int
        BY <3>2, <3>3, <3>4, <3>5, <3>12
      <4>2. before <= max_total_size
        BY <3>2, <3>8
      <4>3. now <= max_total_size
        BY <3>4, <3>10, <4>1, <4>2
      <4>4. /\ Demands' \subseteq Int /\ max_total_size' \in Demands'
            /\ \A d \in Demands' : d <= max_total_size'
        BY <3>2, <3>6, <3>12, <4>1, <4>3
      <4> QED
        BY <3>7, <3>9, <4>1, <4>4
    <3> QED
      BY <2>3, <3>11, <3>12 DEF z
  <2>4. CASE Next
    <3> HIDE DEF Goal
    <3>1. Goal
      BY <2>2, <2>3, <2>4, UtilSteps
    <3> QED
      BY <3>1 DEF Goal
  <2> QED
    BY <2>1, <2>4
<1> QED
  BY <1>1, <1>2, TypesHold, PTL DEF Spec

(* Utilisation is judged by the greatest demand of the trace so far, whatever *)
(* the package answers and wherever it puts the blocks.                       *)
THEOREM HighWaterMarkAlways == Spec => []HighWaterMark
<1>1. Marked => HighWaterMark
  <2> SUFFICES ASSUME Marked, phase = "util", op > 0, WellFormed(Trace.lines)
               PROVE  total_size = Demand(Trace.lines, op - 1) /\ max_total_size = Max(Demands)
    BY DEF HighWaterMark, Demands
  <2>1. /\ total_size = Demand(Trace.lines, op - 1) /\ Demands \subseteq Int
        /\ max_total_size \in Demands /\ \A d \in Demands : d <= max_total_size
    BY DEF Marked
  <2> DEFINE D == Demands
             m == max_total_size
  <2>2. D \subseteq Int /\ m \in D /\ \A d \in D : d <= m
    BY <2>1
  <2> HIDE DEF D, m
  <2>3. \A x \in D : (\A y \in D : x >= y) => x = m
    BY <2>2
  <2>4. \A y \in D : m >= y
    BY <2>2
  <2>5. Max(D) = m
    BY <2>2, <2>3, <2>4 DEF Max
  <2> QED
    BY <2>1, <2>5 DEF D, m
<1> QED
  BY <1>1, MarkHolds, PTL

-----------------------------------------------------------------------------
(* The K best samples                                                         *)

Ascending(s) == \A i, j \in DOMAIN s : i < j => s[i] <= s[j]

(* The elements of s, and the places of "all" they stand at.                  *)
Taken(s, all, place) ==
    /\ place \in Injection(DOMAIN s, DOMAIN all)
    /\ \A i \in DOMAIN s : s[i] = all[place[i]]

(* The elements of s stand at the places of "old" and at one more.            *)
TakenWithOneMore(s, all, old, one) ==
    \E place : Taken(s, all, place) /\ Range(place) = Range(old) \cup {one}

(* No sample that is left out is better than one in the list.                 *)
LeftOutWorse(s, all, place) ==
    \A j \in DOMAIN all \ Range(place), i \in DOMAIN s : s[i] <= all[j]

(* KBest, and while there is room in the list no sample is left out.          *)
SamplesRight ==
    /\ values \in Seq(Int) /\ Ascending(values)
    /\ Len(values) = IF Len(samples) < K THEN Len(samples) ELSE K
    /\ \E place : /\ Taken(values, samples, place) /\ LeftOutWorse(values, samples, place)
                  /\ Len(values) < K => DOMAIN samples \subseteq Range(place)

(* There is a place for a sample in a sorted list, and SortedPlace is one.    *)
LEMMA PlaceFound ==
    ASSUME NEW s \in Seq(Int), Ascending(s), NEW val \in Int
    PROVE  /\ SortedPlace(s, val) \in 1 .. Len(s) + 1
           /\ \A i \in SortedPlace(s, val) .. Len(s) : s[i] > val
           /\ \A i \in 1 .. SortedPlace(s, val) - 1 : s[i] <= val
<1> DEFINE n == Len(s)
           p == SortedPlace(s, val)
           Right(q) == (\A i \in q .. n : s[i] > val) /\ (q = 1 \/ s[q - 1] <= val)
           S == {q \in 1 .. n + 1 : \A i \in q .. n : s[i] > val}
<1>1. n \in Nat
  BY LenProperties
<1>2. DOMAIN s = 1 .. n
  BY LenProperties
<1>3. \A i \in 1 .. n : s[i] \in Int
  BY ElementOfSeq
<1>4. p = CHOOSE q \in 1 .. n + 1 : Right(q)
  BY DEF SortedPlace
<1> HIDE DEF n, p
<1>5. \E q \in 1 .. n + 1 : Right(q)
  <2>1. n + 1 \in S /\ S \in SUBSET Nat
    BY <1>1
  <2>2. PICK q \in S : \A r \in S : q <= r
    BY <2>1, LeastNumber
  <2>3. ASSUME q # 1 PROVE s[q - 1] <= val
    <3>1. q - 1 \in 1 .. n /\ q - 1 \in 1 .. n + 1 /\ ~(q <= q - 1)
      BY <1>1, <2>2, <2>3
    <3>2. PICK i \in q - 1 .. n : ~(s[i] > val)
      BY <2>2, <3>1
    <3>3. i \notin q .. n
      BY <2>2, <3>2
    <3>4. i = q - 1
      BY <1>1, <2>2, <3>2, <3>3
    <3> QED
      BY <1>3, <3>1, <3>2, <3>4
  <2> QED
    BY <2>2, <2>3
<1>6. p \in 1 .. n + 1 /\ Right(p)
  BY <1>4, <1>5
<1>7. ASSUME NEW i \in 1 .. p - 1 PROVE s[i] <= val
  <2>1. p - 1 \in 1 .. n /\ i \in 1 .. n /\ (i = p - 1 \/ i < p - 1) /\ p # 1
    BY <1>1, <1>6
  <2>2. s[i] <= s[p - 1]
    BY <1>2, <1>3, <2>1 DEF Ascending
  <2> QED
    BY <1>3, <1>6, <2>1, <2>2
<1> QED
  BY <1>6, <1>7 DEF n, p

(* What is in a sorted list with a new sample.                                *)
LEMMA SampleInserted ==
    ASSUME NEW s \in Seq(Int), Ascending(s), NEW val \in Int,
           NEW t, t = InsertAt(s, SortedPlace(s, val), val)
    PROVE  /\ t \in Seq(Int) /\ Len(t) = Len(s) + 1 /\ Ascending(t)
           /\ \E p \in 1 .. Len(s) + 1 : Inserted(s, p, val, t)
<1> DEFINE n == Len(s)
           p == SortedPlace(s, val)
<1>1. p \in 1 .. n + 1 /\ (\A i \in p .. n : s[i] > val) /\ \A i \in 1 .. p - 1 : s[i] <= val
  BY PlaceFound
<1> HIDE DEF p
<1>2. /\ t \in Seq(Int) /\ Len(t) = n + 1
      /\ \A i \in 1 .. p - 1 : t[i] = s[i]
      /\ t[p] = val
      /\ \A i \in p + 1 .. n + 1 : t[i] = s[i - 1]
  <2>1. t = InsertAt(s, p, val)
    BY DEF p
  <2>2. t \in Seq(Int) /\ Inserted(s, p, val, t)
    BY <1>1, <2>1, InsertedElement
  <2> QED
    BY <2>2 DEF Inserted
<1>3. n \in Nat
  BY LenProperties
<1>4. DOMAIN s = 1 .. n /\ DOMAIN t = 1 .. n + 1
  BY <1>2, LenProperties
<1>5. \A i \in 1 .. n : s[i] \in Int
  BY ElementOfSeq
<1> HIDE DEF n
<1>6. ASSUME NEW i \in 1 .. n + 1, NEW j \in 1 .. n + 1, i < j PROVE t[i] <= t[j]
  <2>1. CASE j < p
    <3>1. i \in 1 .. p - 1 /\ j \in 1 .. p - 1 /\ i \in 1 .. n /\ j \in 1 .. n
      BY <1>1, <1>3, <1>6, <2>1
    <3> QED
      BY <1>2, <1>4, <1>6, <3>1 DEF Ascending
  <2>2. CASE j = p
    <3>1. i \in 1 .. p - 1
      BY <1>1, <1>3, <1>6, <2>2
    <3> QED
      BY <1>1, <1>2, <2>2, <3>1
  <2>3. CASE p < j
    <3>1. j \in p + 1 .. n + 1 /\ j - 1 \in p .. n /\ j - 1 \in 1 .. n
      BY <1>1, <1>3, <2>3
    <3>2. t[j] = s[j - 1] /\ s[j - 1] > val /\ s[j - 1] \in Int
      BY <1>1, <1>2, <1>5, <3>1
    <3>3. CASE i < p
      <4>1. i \in 1 .. p - 1 /\ i \in 1 .. n
        BY <1>1, <1>3, <3>3
      <4>2. t[i] = s[i] /\ s[i] <= val /\ s[i] \in Int
        BY <1>1, <1>2, <1>5, <4>1
      <4> QED
        BY <3>2, <4>2
    <3>4. CASE i = p
      BY <1>2, <3>2, <3>4
    <3>5. CASE p < i
      <4>1. i \in p + 1 .. n + 1 /\ i - 1 \in 1 .. n /\ i - 1 < j - 1
        BY <1>1, <1>3, <1>6, <3>5
      <4>2. t[i] = s[i - 1]
        BY <1>2, <4>1
      <4> QED
        BY <1>4, <3>1, <3>2, <4>1, <4>2 DEF Ascending
    <3> QED
      BY <1>1, <3>3, <3>4, <3>5
  <2> QED
    BY <1>1, <2>1, <2>2, <2>3
<1>7. Ascending(t)
  BY <1>4, <1>6 DEF Ascending
<1> QED
  BY <1>1, <1>2, <1>7 DEF n, Inserted

(* The new sample stands behind all the others.                               *)
LEMMA InsertedTaken ==
    ASSUME NEW s \in Seq(Int), Ascending(s), NEW val \in Int,
           NEW t, t = InsertAt(s, SortedPlace(s, val), val),
           NEW all \in Seq(Int), NEW place, Taken(s, all, place)
    PROVE  TakenWithOneMore(t, Append(all, val), place, Len(all) + 1)
<1> DEFINE n == Len(s)
           m == Len(all)
           more == Append(all, val)
<1>1. t \in Seq(Int) /\ \E p \in 1 .. n + 1 : Inserted(s, p, val, t)
  BY SampleInserted
<1>2. PICK p \in 1 .. n + 1 : /\ Len(t) = n + 1
                              /\ \A i \in 1 .. p - 1 : t[i] = s[i]
                              /\ t[p] = val
                              /\ \A i \in p + 1 .. n + 1 : t[i] = s[i - 1]
  BY <1>1 DEF Inserted
<1>3. /\ more \in Seq(Int) /\ Len(more) = m + 1 /\ more[m + 1] = val
      /\ \A i \in 1 .. m : more[i] = all[i]
  BY AppendProperties
<1> HIDE DEF more
<1>4. n \in Nat /\ m \in Nat
  BY LenProperties
<1>5. DOMAIN s = 1 .. n /\ DOMAIN t = 1 .. n + 1 /\ DOMAIN all = 1 .. m /\ DOMAIN more = 1 .. m + 1
  BY <1>1, <1>2, <1>3, LenProperties
<1> HIDE DEF n, m
<1>6. /\ place \in [1 .. n -> 1 .. m] /\ (\A i, j \in 1 .. n : place[i] = place[j] => i = j)
      /\ \A i \in 1 .. n : s[i] = all[place[i]]
  BY <1>5 DEF Taken, Injection, IsInjective
<1> DEFINE from(i) == IF i < p THEN i ELSE i - 1
           other == [i \in 1 .. n + 1 |-> IF i = p THEN m + 1 ELSE place[from(i)]]
<1>7. ASSUME NEW i \in 1 .. n + 1, i # p
      PROVE  from(i) \in 1 .. n /\ t[i] = s[from(i)]
  <2>1. CASE i < p
    <3>1. i \in 1 .. p - 1 /\ from(i) = i /\ i \in 1 .. n
      BY <1>2, <1>4, <2>1
    <3> QED
      BY <1>2, <3>1
  <2>2. CASE ~(i < p)
    <3>1. i \in p + 1 .. n + 1 /\ from(i) = i - 1 /\ i - 1 \in 1 .. n
      BY <1>2, <1>4, <1>7, <2>2
    <3> QED
      BY <1>2, <3>1
  <2> QED
    BY <2>1, <2>2
<1>8. ASSUME NEW i \in 1 .. n + 1, NEW j \in 1 .. n + 1, i # p, j # p, from(i) = from(j)
      PROVE  i = j
  <2>1. i \in Int /\ j \in Int /\ p \in Int
    BY <1>4
  <2> DEFINE a == from(i)
             b == from(j)
  <2>2. (i < p => a = i) /\ (~(i < p) => a = i - 1) /\ (j < p => b = j) /\ (~(j < p) => b = j - 1)
    OBVIOUS
  <2>3. a = b
    BY <1>8
  <2> HIDE DEF a, b
  <2>4. CASE i < p /\ j < p
    BY <2>2, <2>3, <2>4
  <2>5. CASE i > p /\ j > p
    BY <2>1, <2>2, <2>3, <2>5
  <2>6. CASE i < p /\ j > p
    BY <2>1, <2>2, <2>3, <2>6
  <2>7. CASE i > p /\ j < p
    BY <2>1, <2>2, <2>3, <2>7
  <2> QED
    BY <1>8, <2>1, <2>4, <2>5, <2>6, <2>7
<1>9. ASSUME NEW k \in 1 .. n PROVE \E i \in 1 .. n + 1 : i # p /\ from(i) = k
  <2>1. CASE k < p
    <3>1. k \in 1 .. n + 1 /\ k # p /\ from(k) = k
      BY <1>2, <1>4, <2>1
    <3> QED
      BY <3>1
  <2>2. CASE ~(k < p)
    <3>1. k + 1 \in 1 .. n + 1 /\ k + 1 # p /\ from(k + 1) = k
      BY <1>2, <1>4, <2>2
    <3> QED
      BY <3>1
  <2> QED
    BY <2>1, <2>2
<1> HIDE DEF from
<1>10. ASSUME NEW i \in 1 .. n + 1, i # p
       PROVE  other[i] = place[from(i)] /\ other[i] \in 1 .. m /\ other[i] # m + 1
  <2>1. other[i] = place[from(i)] /\ other[i] \in 1 .. m
    BY <1>6, <1>7, <1>10
  <2> QED
    BY <1>4, <2>1
<1>11. other[p] = m + 1 /\ DOMAIN other = 1 .. n + 1 /\ m + 1 \in 1 .. m + 1
  BY <1>4
<1>12. ASSUME NEW i \in 1 .. n + 1 PROVE other[i] \in 1 .. m + 1
  BY <1>4, <1>10, <1>11
<1>13. other \in [1 .. n + 1 -> 1 .. m + 1]
  BY <1>12
<1> HIDE DEF other
<1>14. ASSUME NEW i \in 1 .. n + 1, NEW j \in 1 .. n + 1, other[i] = other[j] PROVE i = j
  <2>1. CASE i # p /\ j # p
    <3>1. place[from(i)] = place[from(j)] /\ from(i) \in 1 .. n /\ from(j) \in 1 .. n
      BY <1>7, <1>10, <1>14, <2>1
    <3> QED
      BY <1>6, <1>8, <2>1, <3>1
  <2>2. CASE i = p \/ j = p
    BY <1>10, <1>11, <1>14, <2>2
  <2> QED
    BY <2>1, <2>2
<1>15. ASSUME NEW i \in 1 .. n + 1 PROVE t[i] = more[other[i]]
  <2>1. CASE i = p
    BY <1>2, <1>3, <1>11, <2>1
  <2>2. CASE i # p
    <3>1. from(i) \in 1 .. n /\ t[i] = s[from(i)] /\ other[i] = place[from(i)]
          /\ other[i] \in 1 .. m
      BY <1>7, <1>10, <2>2
    <3>2. s[from(i)] = all[place[from(i)]] /\ more[other[i]] = all[other[i]]
      BY <1>3, <1>6, <3>1
    <3> QED
      BY <3>1, <3>2
  <2> QED
    BY <2>1, <2>2
<1>16. Taken(t, more, other)
  BY <1>5, <1>13, <1>14, <1>15 DEF Taken, Injection, IsInjective
<1>17. ASSUME NEW x PROVE x \in Range(other) <=> x \in Range(place) \/ x = m + 1
  <2>1. Range(other) = {other[i] : i \in 1 .. n + 1} /\ Range(place) = {place[i] : i \in 1 .. n}
    BY <1>6, <1>11 DEF Range
  <2>2. ASSUME NEW i \in 1 .. n + 1, x = other[i] PROVE x \in Range(place) \/ x = m + 1
    BY <1>7, <1>10, <1>11, <2>1, <2>2
  <2>3. ASSUME NEW k \in 1 .. n, x = place[k] PROVE x \in Range(other)
    BY <1>9, <1>10, <2>1, <2>3
  <2>4. m + 1 \in Range(other)
    BY <1>11, <2>1
  <2> QED
    BY <2>1, <2>2, <2>3, <2>4
<1>18. Range(other) = Range(place) \cup {m + 1}
  BY <1>17
<1> QED
  BY <1>16, <1>18 DEF m, more, TakenWithOneMore

(* A sample comes: the list takes it in if there is room, or if it is better  *)
(* than the last, which then goes.                                            *)
LEMMA SampleTaken ==
    ASSUME SamplesRight, NEW val \in Int, NEW all, all = Append(samples, val),
           NEW list, list = WithSample(values, val), samples \in Seq(Int)
    PROVE  /\ list \in Seq(Int) /\ Ascending(list)
           /\ Len(list) = IF Len(all) < K THEN Len(all) ELSE K
           /\ \E place : /\ Taken(list, all, place) /\ LeftOutWorse(list, all, place)
                         /\ Len(list) < K => DOMAIN all \subseteq Range(place)
<1> USE TimingAssumption
<1> DEFINE n == Len(values)
           m == Len(samples)
<1>1. n \in Nat /\ m \in Nat /\ K \in Nat \ {0} /\ n = IF m < K THEN m ELSE K
  BY LenProperties DEF SamplesRight
<1>2. DOMAIN values = 1 .. n /\ DOMAIN samples = 1 .. m
  BY LenProperties DEF SamplesRight
<1>3. values \in Seq(Int) /\ Ascending(values) /\ \A i \in 1 .. n : values[i] \in Int
  BY ElementOfSeq DEF SamplesRight
<1>4. PICK place : /\ Taken(values, samples, place) /\ LeftOutWorse(values, samples, place)
                   /\ Len(values) < K => DOMAIN samples \subseteq Range(place)
  BY DEF SamplesRight
<1>5. /\ all \in Seq(Int) /\ Len(all) = m + 1 /\ all[m + 1] = val
      /\ \A i \in 1 .. m : all[i] = samples[i] /\ samples[i] \in Int
  BY AppendProperties, ElementOfSeq
<1>6. DOMAIN all = 1 .. m + 1
  BY <1>5, LenProperties
<1>7. /\ place \in [1 .. n -> 1 .. m] /\ (\A i, j \in 1 .. n : place[i] = place[j] => i = j)
      /\ \A i \in 1 .. n : values[i] = samples[place[i]]
  BY <1>2, <1>4 DEF Taken, Injection, IsInjective
<1>8. Range(place) = {place[i] : i \in 1 .. n}
  BY <1>7 DEF Range
<1>9. \A j \in 1 .. m : j \notin Range(place) => \A i \in 1 .. n : values[i] <= samples[j]
  BY <1>2, <1>4 DEF LeftOutWorse
<1>10. CASE n < K
  <2>1. list = InsertAt(values, SortedPlace(values, val), val)
    BY <1>10 DEF WithSample
  <2>2. list \in Seq(Int) /\ Len(list) = n + 1 /\ Ascending(list)
    BY <1>3, <2>1, SampleInserted
  <2>3. PICK other : Taken(list, all, other) /\ Range(other) = Range(place) \cup {m + 1}
    <3>1. Taken(values, samples, place)
      BY <1>4
    <3>2. TakenWithOneMore(list, Append(samples, val), place, Len(samples) + 1)
      BY <1>3, <2>1, <3>1, InsertedTaken
    <3> QED
      BY <3>2 DEF TakenWithOneMore
  <2>4. 1 .. m + 1 \subseteq Range(other)
    <3>1. 1 .. m \subseteq Range(place)
      BY <1>2, <1>4, <1>10
    <3>2. ASSUME NEW j \in 1 .. m + 1 PROVE j \in 1 .. m \/ j = m + 1
      BY <1>1
    <3> QED
      BY <2>3, <3>1, <3>2
  <2>5. LeftOutWorse(list, all, other)
    BY <1>6, <2>4 DEF LeftOutWorse
  <2>6. Len(list) = IF Len(all) < K THEN Len(all) ELSE K
    <3> HIDE DEF n, m
    <3> QED
      BY <1>1, <1>5, <1>10, <2>2
  <2> QED
    BY <1>6, <2>2, <2>3, <2>4, <2>5, <2>6
<1>11. CASE ~(n < K) /\ ~(val < Last(values))
  <2>1. list = values /\ n = K /\ n \in 1 .. n
    BY <1>1, <1>11 DEF WithSample
  <2>2. values[n] <= val
    BY <1>3, <1>11, <2>1 DEF Last
  <2>3. ASSUME NEW i \in 1 .. n PROVE values[i] <= val
    <3> HIDE DEF n
    <3>1. i = n \/ i < n
      BY <1>1
    <3>2. i < n => values[i] <= values[n]
      BY <1>2, <1>3, <2>1 DEF Ascending
    <3> QED
      BY <1>3, <2>1, <2>2, <3>1, <3>2
  <2>4. Taken(list, all, place)
    <3>1. place \in [1 .. n -> 1 .. m + 1]
      <4>1. 1 .. m \subseteq 1 .. m + 1
        BY <1>1
      <4> QED
        BY <1>7, <4>1
    <3>2. \A i \in 1 .. n : values[i] = all[place[i]]
      BY <1>5, <1>7
    <3> QED
      BY <1>2, <1>6, <1>7, <2>1, <3>1, <3>2 DEF Taken, Injection, IsInjective
  <2>5. LeftOutWorse(list, all, place)
    <3> SUFFICES ASSUME NEW j \in 1 .. m + 1, j \notin Range(place), NEW i \in 1 .. n
                 PROVE  values[i] <= all[j]
      BY <1>2, <1>6, <2>1 DEF LeftOutWorse
    <3>1. j \in 1 .. m \/ j = m + 1
      BY <1>1
    <3> HIDE DEF m
    <3> QED
      BY <1>5, <1>9, <2>3, <3>1
  <2>6. Len(list) = IF Len(all) < K THEN Len(all) ELSE K
    <3> HIDE DEF n, m
    <3>1. Len(list) = n
      BY <2>1 DEF n
    <3> QED
      BY <1>1, <1>5, <2>1, <3>1
  <2>7. ~(Len(list) < K)
    BY <1>11, <2>1
  <2> QED
    BY <1>3, <2>1, <2>4, <2>5, <2>6, <2>7
<1>12. CASE ~(n < K) /\ val < Last(values)
  <2> DEFINE s == Front(values)
             k == n - 1
             less == [i \in 1 .. k |-> place[i]]
  <2>1. n = K /\ n \in 1 .. n /\ k \in Nat /\ k + 1 = n /\ k \in 0 .. n
    BY <1>1, <1>12
  <2>2. list = InsertAt(s, SortedPlace(s, val), val) /\ val < values[n]
    BY <1>12 DEF WithSample, Last
  <2>3. s \in Seq(Int) /\ Len(s) = k /\ \A i \in 1 .. k : s[i] = values[i]
    BY <1>3, <2>1, CutInTwo DEF Front
  <2> HIDE DEF s
  <2>4. DOMAIN s = 1 .. k
    BY <2>3, LenProperties
  <2> HIDE DEF n, m, k
  <2>5. 1 .. k \subseteq 1 .. n /\ \A i \in 1 .. n : i \in 1 .. k \/ i = n
    BY <1>1, <2>1
  <2>6. Ascending(s)
    BY <1>2, <1>3, <2>3, <2>4, <2>5 DEF Ascending
  <2>7. Taken(s, samples, less)
    BY <1>2, <1>7, <2>3, <2>4, <2>5 DEF Taken, Injection, IsInjective
  <2>8. Range(less) = {place[i] : i \in 1 .. k}
    BY DEF Range
  <2> HIDE DEF less
  <2>9. list \in Seq(Int) /\ Len(list) = k + 1 /\ Ascending(list)
        /\ \E p \in 1 .. k + 1 : Inserted(s, p, val, list)
    BY <2>2, <2>3, <2>6, SampleInserted
  <2>10. PICK other : Taken(list, all, other) /\ Range(other) = Range(less) \cup {m + 1}
    <3>1. TakenWithOneMore(list, Append(samples, val), less, Len(samples) + 1)
      BY <2>2, <2>3, <2>6, <2>7, InsertedTaken
    <3> QED
      BY <3>1 DEF m, TakenWithOneMore
  <2>11. DOMAIN list = 1 .. n
    BY <2>1, <2>9, LenProperties
  <2>12. ASSUME NEW i \in 1 .. n PROVE list[i] <= values[n] /\ list[i] \in Int
    <3>1. list[i] \in Int
      <4>1. i \in 1 .. Len(list)
        BY <2>1, <2>9
      <4> QED
        BY <2>9, <4>1, ElementOfSeq
    <3>2. PICK p \in 1 .. k + 1 : Inserted(s, p, val, list)
      BY <2>9
    <3>3. /\ \A l \in 1 .. p - 1 : list[l] = s[l]
          /\ list[p] = val
          /\ \A l \in p + 1 .. k + 1 : list[l] = s[l - 1]
      BY <2>3, <3>2 DEF Inserted
    <3>4. ASSUME NEW l \in 1 .. k PROVE s[l] <= values[n]
      <4>1. l \in 1 .. n /\ l < n
        BY <2>1, <2>5
      <4> QED
        BY <1>2, <1>3, <2>1, <2>3, <4>1 DEF Ascending
    <3>5. \/ i \in 1 .. p - 1 /\ i \in 1 .. k
          \/ i = p
          \/ i \in p + 1 .. k + 1 /\ i - 1 \in 1 .. k
      BY <2>1, <3>2
    <3>6. CASE i \in 1 .. p - 1 /\ i \in 1 .. k
      BY <3>1, <3>3, <3>4, <3>6
    <3>7. CASE i = p
      <4>1. list[i] < values[n]
        BY <2>2, <3>3, <3>7
      <4> QED
        BY <1>3, <2>1, <3>1, <4>1
    <3>8. CASE i \in p + 1 .. k + 1 /\ i - 1 \in 1 .. k
      BY <3>1, <3>3, <3>4, <3>8
    <3> QED
      BY <3>5, <3>6, <3>7, <3>8
  <2>13. LeftOutWorse(list, all, other)
    <3> SUFFICES ASSUME NEW j \in 1 .. m + 1, j \notin Range(other), NEW i \in 1 .. n
                 PROVE  list[i] <= all[j]
      BY <1>6, <2>11 DEF LeftOutWorse
    <3>1. j \in 1 .. m /\ j \notin Range(less)
      <4>1. j # m + 1 /\ j \notin Range(less)
        BY <2>10
      <4> QED
        BY <1>1, <4>1
    <3>2. values[n] <= samples[j]
      <4>1. CASE j \in Range(place)
        <5>1. PICK l \in 1 .. n : j = place[l]
          BY <1>8, <4>1
        <5>2. l = n
          BY <2>5, <2>8, <3>1, <5>1
        <5>3. values[n] = samples[j]
          BY <1>7, <5>1, <5>2
        <5> QED
          BY <1>3, <2>1, <5>3
      <4>2. CASE j \notin Range(place)
        BY <1>9, <2>1, <3>1, <4>2
      <4> QED
        BY <4>1, <4>2
    <3>3. all[j] = samples[j] /\ samples[j] \in Int
      BY <1>5, <3>1
    <3>4. list[i] <= values[n] /\ list[i] \in Int /\ values[n] \in Int
      BY <1>3, <2>1, <2>12
    <3> QED
      BY <3>2, <3>3, <3>4
  <2>14. Len(list) = IF Len(all) < K THEN Len(all) ELSE K
    BY <1>1, <1>5, <2>1, <2>9
  <2>15. ~(Len(list) < K)
    BY <1>1, <2>1, <2>9
  <2> QED
    BY <2>9, <2>10, <2>13, <2>14, <2>15
<1> QED
  BY <1>10, <1>11, <1>12

(* The list always has the best samples, whatever the timed function costs.   *)
THEOREM SamplesHold == Spec => []SamplesRight
<1> USE TimingAssumption
<1>1. ASSUME values = << >>, samples = << >> PROVE SamplesRight
  <2>1. values \in Seq(Int) /\ Len(values) = 0 /\ Len(samples) = 0
    BY <1>1
  <2>2. DOMAIN values = {} /\ DOMAIN samples = {}
    BY <1>1
  <2> DEFINE none == [i \in {} |-> 0]
  <2>3. Taken(values, samples, none)
    BY <2>2 DEF Taken, Injection, IsInjective
  <2>4. LeftOutWorse(values, samples, none) /\ DOMAIN samples \subseteq Range(none)
    BY <2>2 DEF LeftOutWorse
  <2> HIDE DEF none
  <2> QED
    BY <2>1, <2>2, <2>3, <2>4 DEF SamplesRight, Ascending
<1>2. Init => SamplesRight
  BY <1>1 DEF Init, TimingInit
<1>3. SamplesRight /\ Sampling /\ CounterSound /\ [Next]_vars => SamplesRight'
  <2> SUFFICES ASSUME SamplesRight, Sampling, CounterSound, [Next]_vars PROVE SamplesRight'
    OBVIOUS
  <2>1. ASSUME UNCHANGED << values, samples >> PROVE SamplesRight'
    BY <2>1 DEF SamplesRight, Taken, LeftOutWorse, Ascending
  <2>2. ASSUME StartTiming PROVE SamplesRight'
    <3>1. values' = << >> /\ samples' = << >>
      BY <2>2 DEF StartTiming
    <3>2. values' \in Seq(Int) /\ Len(values') = 0 /\ Len(samples') = 0
      BY <3>1
    <3>3. DOMAIN values' = {} /\ DOMAIN samples' = {}
      BY <3>1
    <3> DEFINE none == [i \in {} |-> 0]
    <3>4. Taken(values', samples', none)
      BY <3>3 DEF Taken, Injection, IsInjective
    <3>5. LeftOutWorse(values', samples', none) /\ DOMAIN samples' \subseteq Range(none)
      BY <3>3 DEF LeftOutWorse
    <3> HIDE DEF none
    <3> QED
      BY <3>2, <3>3, <3>4, <3>5 DEF SamplesRight, Ascending
  <2>3. ASSUME EndRun PROVE SamplesRight'
    <3>1. CASE timer = "fcyc"
      <4>1. PICK ticks \in {0, 1} : TakeSample(get_counter - (ticks * cyc_per_tick))
        BY <2>3, <3>1 DEF EndRun
      <4>2. get_counter \in Int /\ ticks * cyc_per_tick \in Int
        <5>1. CounterValues \in Nat /\ counter \in Int /\ start \in Int /\ cyc_per_tick \in Nat
          BY DEF CounterValues, CounterSound
        <5>2. get_counter \in {counter - start, counter - start + CounterValues}
          BY DifferenceIsExact DEF get_counter, CounterSound
        <5> QED
          BY <4>1, <5>1, <5>2
      <4> DEFINE val == get_counter - (ticks * cyc_per_tick)
      <4>3. val \in Int
        BY <4>2
      <4>4. values' = WithSample(values, val) /\ samples' = Append(samples, val)
        BY <4>1 DEF TakeSample
      <4> HIDE DEF val
      <4>5. samples \in Seq(Int)
        BY DEF Sampling
      <4>6. values' \in Seq(Int) /\ Ascending(values')
        BY <4>3, <4>4, <4>5, SampleTaken
      <4>7. Len(values') = IF Len(samples') < K THEN Len(samples') ELSE K
        BY <4>3, <4>4, <4>5, SampleTaken
      <4>8. \E place : /\ Taken(values', samples', place) /\ LeftOutWorse(values', samples', place)
                       /\ Len(values') < K => DOMAIN samples' \subseteq Range(place)
        BY <4>3, <4>4, <4>5, SampleTaken
      <4> QED
        BY <4>6, <4>7, <4>8 DEF SamplesRight, Ascending
    <3>2. CASE timer = "ftimer"
      BY <2>1, <2>3, <3>2 DEF EndRun
    <3> QED
      BY <3>1, <3>2 DEF Sampling
  <2>4. CASE Next
    BY <2>1, <2>2, <2>3, <2>4, TimingSteps DEF timingVars, BeginRun, Pass
  <2>5. CASE UNCHANGED vars
    BY <2>1, <2>5 DEF vars, timingVars
  <2> QED
    BY <2>4, <2>5
<1> QED
  BY <1>2, <1>3, SamplingHolds, CounterHolds, PTL DEF Spec

(* However many samples come, and in whatever order, the list has the K best  *)
(* in ascending order, and a sample is what the counter went up by.           *)
THEOREM TimingExactAlways == Spec => []TimingExact
<1>1. SamplesRight => KBest
  <2> SUFFICES ASSUME SamplesRight PROVE KBest
    OBVIOUS
  <2>1. PICK place : Taken(values, samples, place) /\ LeftOutWorse(values, samples, place)
    BY DEF SamplesRight
  <2> QED
    BY <2>1 DEF SamplesRight, KBest, Taken, LeftOutWorse, Ascending, samplecount
<1> QED
  BY <1>1, SamplesHold, CounterExactAlways, PTL DEF TimingExact

=============================================================================
