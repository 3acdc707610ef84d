------------------------------- MODULE Timing -------------------------------
(* How the driver times an evaluation (fsecs.c): either the average of a      *)
(* fixed number of runs (ftimer.c), or the K-best scheme (fcyc.c) over the    *)
(* cycle counter of clock.c, corrected for timer interrupts.  The module has  *)
(* the state of both and the steps of one call of fsecs: it starts, each run  *)
(* of the function is bracketed by BeginRun and EndRun, and in between time   *)
(* passes.  Numbers of cycles are small and the two words of the counter have *)
(* WordValues values each, so that it wraps.                                  *)
EXTENDS Integers, Sequences, FiniteSets, SequencesExt

CONSTANTS
    WordValues,     \* 2^32, the values of one word of the cycle counter
    K,              \* kbest
    MaxSamples,     \* maxsamples
    EpsNum, EpsDen, \* epsilon, a fraction
    Runs,           \* the 10 runs an ftimer averages
    TickCosts,      \* what callibrate may find a timer interrupt to cost
    Timers          \* USE_FCYC, USE_ITIMER or USE_GETTOD: "fcyc", "ftimer"

ASSUME TimingAssumption ==
    /\ WordValues \in Nat \ {0} /\ K \in Nat \ {0} /\ Runs \in Nat \ {0}
    /\ MaxSamples \in Nat /\ MaxSamples >= K
    /\ EpsNum \in Nat /\ EpsDen \in Nat \ {0}
    /\ TickCosts \subseteq Nat /\ Timers \subseteq {"fcyc", "ftimer"}

VARIABLES
    timer,          \* the build's choice
    counter,        \* the cycle counter
    start,          \* cyc_hi and cyc_lo, as one number
    cyc_per_tick,
    values,         \* the used part of values[]
    samples,        \* samples[], which only KEEP_SAMPLES keeps
    runs,           \* runs an ftimer has made
    elapsed         \* the cycles that passed since start was read

timingVars == << timer, counter, start, cyc_per_tick, values, samples, runs, elapsed >>

CounterValues == WordValues * WordValues

Hi(reading) == reading \div WordValues
Lo(reading) == reading % WordValues

(* get_counter: a double-word subtraction.  A borrow shows in the difference  *)
(* of the low words having wrapped.                                           *)
Difference(now, then) ==
    LET lo == (Lo(now) - Lo(then)) % WordValues
        borrow == IF lo > Lo(now) THEN 1 ELSE 0
        hi == (Hi(now) - Hi(then) - borrow) % WordValues
    IN  hi * WordValues + lo

get_counter == Difference(counter, start)

(* Behind the last element that is not above val, and before all that are.    *)
SortedPlace(s, val) ==
    CHOOSE p \in 1 .. Len(s) + 1 :
        /\ \A i \in p .. Len(s) : s[i] > val
        /\ p = 1 \/ s[p - 1] <= val

(* Mutant: a sample may only replace the best.                                *)
WithSample_BestOnly(vals, val) ==
    IF Len(vals) < K THEN InsertAt(vals, SortedPlace(vals, val), val)
    ELSE IF val < Head(vals) THEN InsertAt(Front(vals), SortedPlace(Front(vals), val), val)
    ELSE vals

(* add_sample: a sample fills the next place, or takes the last one if it is  *)
(* better, and moves down from there.                                         *)
WithSample(vals, val) ==
    IF Len(vals) < K THEN InsertAt(vals, SortedPlace(vals, val), val)
    ELSE IF val < Last(vals) THEN InsertAt(Front(vals), SortedPlace(Front(vals), val), val)
    ELSE vals

samplecount == Len(samples)

has_converged ==
    /\ samplecount >= K
    /\ (EpsDen + EpsNum) * values[1] >= EpsDen * values[K]

-----------------------------------------------------------------------------

TimingInit ==
    /\ timer \in Timers
    /\ counter = 0 /\ start = 0 /\ elapsed = 0
    /\ cyc_per_tick = 0
    /\ values = << >> /\ samples = << >> /\ runs = 0

(* init_sampler, or an ftimer's loop before its first run.                    *)
StartTiming ==
    /\ values' = << >> /\ samples' = << >> /\ runs' = 0
    /\ UNCHANGED << timer, counter, start, cyc_per_tick, elapsed >>

(* start_comp_counter calibrates until it has found an interrupt's cost, then *)
(* reads the counter.                                                         *)
BeginRun ==
    /\ IF timer = "fcyc"
       THEN /\ start' = counter /\ elapsed' = 0
            /\ cyc_per_tick' \in IF cyc_per_tick = 0 THEN TickCosts ELSE {cyc_per_tick}
       ELSE UNCHANGED << start, elapsed, cyc_per_tick >>
    /\ UNCHANGED << timer, counter, values, samples, runs >>

(* Up to "cycles" cycles go by in the function.                               *)
Pass(cycles) ==
    /\ IF timer = "fcyc"
       THEN \E c \in 0 .. cycles :
                counter' = (counter + c) % CounterValues /\ elapsed' = elapsed + c
       ELSE UNCHANGED << counter, elapsed >>
    /\ UNCHANGED << timer, start, cyc_per_tick, values, samples, runs >>

(* Mutant: the sample is not counted.                                         *)
TakeSample_Uncounted(val) ==
    values' = WithSample(values, val) /\ UNCHANGED << samples, runs >>

TakeSample(val) ==
    /\ values' = WithSample(values, val)
    /\ samples' = Append(samples, val)
    /\ UNCHANGED runs

(* get_comp_counter takes off the cost of the interrupts that came.           *)
EndRun ==
    /\ \/ timer = "fcyc" /\ \E ticks \in {0, 1} : TakeSample(get_counter - ticks * cyc_per_tick)
       \/ timer = "ftimer" /\ runs' = runs + 1 /\ UNCHANGED << values, samples >>
    /\ UNCHANGED << timer, counter, start, cyc_per_tick, elapsed >>

(* The condition of fcyc's loop, looked at after a run.                       *)
FcycGoesOn == ~has_converged /\ samplecount < MaxSamples

(* Mutant: one run more than asked for.                                       *)
FtimerGoesOn_OneMore == runs <= Runs

(* The condition of the loops of both ftimers.                                *)
FtimerGoesOn == runs < Runs

(* fsecs calls the one or the other.                                          *)
AnotherRun == IF timer = "fcyc" THEN FcycGoesOn ELSE FtimerGoesOn

=============================================================================
