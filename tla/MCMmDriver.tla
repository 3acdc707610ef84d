----------------------------- MODULE MCMmDriver -----------------------------
(* Instances of the trace driver for TLC: a few short traces.                *)
EXTENDS MmDriver

Alloc(x, size) == [type |-> "a", index |-> x, size |-> size]
Realloc(x, size) == [type |-> "r", index |-> x, size |-> size]
Free(x) == [type |-> "f", index |-> x, size |-> 0]

File(num_ids, lines) == [num_ids |-> num_ids, num_ops |-> Len(lines), lines |-> lines]

(* Two blocks, one of which grows and shrinks.                               *)
Growing == File(2, << Alloc(0, 1), Alloc(1, 2), Realloc(0, 3), Realloc(1, 1), Free(0), Free(1) >>)

(* A block comes and goes between others.                                    *)
Reusing == File(2, << Alloc(1, 2), Free(1), Alloc(1, 1), Alloc(0, 2), Free(1) >>)

(* A block is freed twice, which read_trace does not notice.                 *)
TwiceFreed == File(1, << Alloc(0, 2), Free(0), Free(0) >>)

(* The pointer to a block is lost, which read_trace does not notice either.  *)
Lost == File(1, << Alloc(0, 1), Alloc(0, 2), Free(0) >>)

(* A request of no bytes.                                                    *)
Empty == File(1, << Alloc(0, 0) >>)

(* Headers that say too much, and a line of no known type.                   *)
Miscounted == [File(1, << Alloc(0, 1) >>) EXCEPT !.num_ops = 2]
Misnumbered == File(2, << Alloc(0, 1) >>)
Bogus == File(1, << [Free(0) EXCEPT !.type = "x"] >>)

(* The K-best scheme multiplies the states of a replay, so it is run on a     *)
(* trace of its own.                                                          *)
Brief == File(1, << Alloc(0, 2), Free(0) >>)

Briefs == {<< Brief >>}

Lists == Briefs \cup {<< Growing >>, << Reusing, TwiceFreed >>, << Empty, Brief >>,
          << TwiceFreed, Bogus >>, << Miscounted >>, << Misnumbered >>, << Lost >>}

InitSmall == Init /\ (timer = "fcyc" <=> files \in Briefs)

Small == InitSmall /\ [][Next]_vars /\ WF_vars(Next)

=============================================================================
