--------------------------------- MODULE Rio ---------------------------------
(* The robust I/O of csapp.c over byte streams.  A descriptor is read through *)
(* a record: the bytes its buffer still holds, and those that the call of     *)
(* rio_readlineb in progress has stored for its caller.  How many bytes one   *)
(* system call moves is the kernel's choice.                                  *)
EXTENDS Naturals, Sequences, SequencesExt, FiniteSetsExt

CONSTANTS
    MAXLINE,        \* the size of every line buffer
    RIO_BUFSIZE,    \* the size of the internal buffer
    ShortWrites     \* whether a write may take less than it is given

ASSUME RioAssumption ==
    /\ MAXLINE \in Nat /\ MAXLINE > 1
    /\ RIO_BUFSIZE \in Nat \ {0}
    /\ ShortWrites \in BOOLEAN

(* The two bytes that text is cut at.                                         *)
NewLine == "n"
Zero == "0"

Prefix(s, n) == SubSeq(s, 1, n)
Suffix(s, n) == SubSeq(s, n + 1, Len(s))

rio_readinitb == [buf |-> << >>, line |-> << >>]

(* How many bytes of s a line takes that has room for "room" of them.         *)
LineLength(s, room) ==
    Min({Len(s), room} \cup {i \in DOMAIN s : s[i] = NewLine})

(* Mutant: one place more than the zero's is kept.                            *)
rio_readlineb_Tight(r) ==
    LET n == LineLength(r.buf, MAXLINE - 2 - Len(r.line))
    IN  [buf |-> Suffix(r.buf, n), line |-> r.line \o Prefix(r.buf, n)]

(* The line takes what it can from the buffer.                                *)
rio_readlineb(r) ==
    LET n == LineLength(r.buf, MAXLINE - 1 - Len(r.line))
    IN  [buf |-> Suffix(r.buf, n), line |-> r.line \o Prefix(r.buf, n)]

(* A line that is not cut short: it ends, or fills the caller's buffer.       *)
Whole(line) ==
    \/ Len(line) >= MAXLINE - 1
    \/ line # << >> /\ Last(line) = NewLine

(* Another call; it may be served from the buffer alone.                      *)
NextLine(r) == rio_readlineb([r EXCEPT !.line = << >>])

(* Mutant: a refill starts the line anew.                                     *)
Refilled_Anew(r, bytes) == rio_readlineb([buf |-> bytes, line |-> << >>])

(* rio_read found the buffer empty and read into it.                          *)
Refilled(r, bytes) == rio_readlineb([r EXCEPT !.buf = bytes])

(* How many bytes a read may return of those that have arrived.               *)
ReadCounts(stream) == 1 .. Min({Len(stream), RIO_BUFSIZE})

(* How many of n bytes rio_writen hands over: it calls write once.            *)
WriteCounts(n) == IF ShortWrites THEN 0 .. n ELSE {n}

(* What strlen and the printing functions see of a buffer.                    *)
Text(bytes) ==
    Prefix(bytes, Min({Len(bytes)} \cup {i - 1 : i \in {j \in DOMAIN bytes : bytes[j] = Zero}}))

=============================================================================
