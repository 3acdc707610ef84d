----------------------------- MODULE MCMmWords -----------------------------
(* Instances of the word-level allocator for TLC.  The blocks of the requests *)
(* below have 6, 8, 12 and 16 words; the prologue takes six of the arena.    *)
EXTENDS MmWordsBlocks

CONSTANTS MaxCalls      \* bound on the calls of one session, where it is used

VARIABLES calls

mcvars == << heap, live, blocks, calls >>

InitCounted == InitMapped /\ calls = 0

Counted == calls < MaxCalls /\ calls' = calls + 1

(* Whole reachable space: every number of calls and of traces.                *)
NextUnbounded == NextMapped /\ UNCHANGED calls
Unbounded == InitCounted /\ [][NextUnbounded]_mcvars

(* Sessions of at most MaxCalls calls, for the larger arenas.                 *)
NextBounded == NextMapped /\ Counted
Bounded == InitCounted /\ [][NextBounded]_mcvars

(* Every call, those the code does not serve included.                        *)
NextAnything == Next /\ blocks' = {} /\ Counted
Anything == InitCounted /\ [][NextAnything]_mcvars

=============================================================================
