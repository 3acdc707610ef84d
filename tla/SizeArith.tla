----------------------------- MODULE SizeArith -----------------------------
(* The allocator's arithmetic at the width of its types.  The modules of the *)
(* malloc package have sizes and addresses far below the width of a word;    *)
(* here are the computations of mm.c and memlib.c that can leave it, in       *)
(* bytes, over a size_t of SizeValues values, and theorems that say for which *)
(* requests the unbounded arithmetic of those modules is the code's.          *)
EXTENDS Integers, TLAPS

CONSTANT SizeValues     \* 2^32, the values of a size_t and of an address

WSIZE == 4
DSIZE == 8
MINIMUM == 24

Size_t == 0 .. SizeValues - 1

(* A type with room for the minimum block and as many negative values of int  *)
(* as there are others.                                                       *)
IsWidth == SizeValues \in Nat /\ SizeValues >= 64 /\ SizeValues % 16 = 0

MAX(x, y) == IF x > y THEN x ELSE y

(* An unsigned sum; one of two values of the type wraps once at most.         *)
Sum_t(x, y) == IF x + y >= SizeValues THEN x + y - SizeValues ELSE x + y

(* The low three bits are cleared.                                            *)
ALIGN(size) == Sum_t(size, 7) - (Sum_t(size, 7) % 8)

asize(size) == MAX(Sum_t(ALIGN(size), DSIZE), MINIMUM)

(* The bytes that mm_malloc has extend_heap ask for: as words, an even number *)
(* of them, and bytes again.                                                  *)
ExtendWords(n) == n \div WSIZE
extend_heap(words) ==
    MAX(IF words % 2 = 1 THEN Sum_t(words * WSIZE, WSIZE) ELSE words * WSIZE, MINIMUM)

(* A size_t passed for an int.                                                *)
AsInt(n) == IF 2 * n >= SizeValues THEN n - SizeValues ELSE n

(* mem_sbrk's test.  The sum of a pointer and an int is one of addresses; one *)
(* that leaves them wraps, as the code that gcc makes of it does.             *)
SbrkRefuses(brk, incr, max) == incr < 0 \/ Sum_t(brk, incr) > max

(* The extension arrives as it was asked for, and its end is beyond the last  *)
(* address.                                                                   *)
WrapsRound(brk, n) == 2 * n < SizeValues /\ brk + n >= SizeValues

(* What the modules of the package compute instead.                           *)
Unbounded(size) == MAX(8 * ((size + 7) \div 8) + DSIZE, MINIMUM)

-----------------------------------------------------------------------------

(* Rounding to the alignment wherever nothing wraps.                          *)
LEMMA RoundUp ==
    ASSUME NEW size \in Nat
    PROVE  /\ (size + 7) - ((size + 7) % 8) = 8 * ((size + 7) \div 8)
           /\ 8 * ((size + 7) \div 8) \in Nat
           /\ 8 * ((size + 7) \div 8) >= size
           /\ 8 * ((size + 7) \div 8) <= size + 7
  OBVIOUS

(* Up to 16 bytes below the end of the type, the block for a request is the   *)
(* one unbounded arithmetic gives: of a size of the type, a multiple of 8,    *)
(* with room for the payload and two tags (mm.c:198, 439).                    *)
THEOREM RequestsExact ==
    ASSUME IsWidth, NEW size \in Size_t, size <= SizeValues - 16
    PROVE  /\ asize(size) = Unbounded(size)
           /\ asize(size) \in Size_t
           /\ asize(size) % 8 = 0
           /\ asize(size) >= size + DSIZE
<1> DEFINE up == 8 * ((size + 7) \div 8)
<1>1. size \in Nat /\ size + 7 \in Nat
  BY DEF Size_t, IsWidth
<1>2. up \in Nat /\ up >= size /\ up <= size + 7 /\ up % 8 = 0
  BY <1>1, RoundUp
<1>3. ALIGN(size) = up
  BY <1>1, RoundUp DEF ALIGN, Sum_t, IsWidth
<1>4. up <= SizeValues - 16
  BY <1>1, <1>2 DEF IsWidth
<1>5. Sum_t(ALIGN(size), DSIZE) = up + 8
  BY <1>2, <1>3, <1>4 DEF Sum_t, DSIZE, IsWidth
<1> HIDE DEF up
<1>6. asize(size) = MAX(up + 8, 24) /\ Unbounded(size) = MAX(up + 8, 24)
  BY <1>5 DEF asize, Unbounded, MINIMUM, DSIZE, up
<1>7. MAX(up + 8, 24) \in Size_t /\ MAX(up + 8, 24) % 8 = 0 /\ MAX(up + 8, 24) >= size + 8
  BY <1>1, <1>2, <1>4 DEF MAX, Size_t, IsWidth
<1> QED
  BY <1>6, <1>7 DEF DSIZE

(* No further: every larger request, up to the largest of the type, is taken  *)
(* for one of the minimum block, which has room for 16 bytes.                 *)
THEOREM HugeRequestsShrink ==
    ASSUME IsWidth, NEW size \in Size_t, size > SizeValues - 16
    PROVE  asize(size) = MINIMUM
<1>1. size \in Nat /\ size < SizeValues /\ SizeValues \in Nat /\ SizeValues % 16 = 0
  BY DEF Size_t, IsWidth
<1>2. CASE size + 7 >= SizeValues
  <2>1. Sum_t(size, 7) \in 0 .. 6
    BY <1>1, <1>2 DEF Sum_t
  <2>2. ALIGN(size) = 0
    BY <2>1 DEF ALIGN
  <2> QED
    BY <2>2 DEF asize, Sum_t, MAX, DSIZE, MINIMUM, IsWidth
<1>3. CASE size + 7 < SizeValues
  <2>1. ALIGN(size) = SizeValues - 8
    BY <1>1, <1>3 DEF ALIGN, Sum_t
  <2>2. Sum_t(ALIGN(size), DSIZE) = 0
    BY <1>1, <2>1 DEF Sum_t, DSIZE
  <2> QED
    BY <2>2 DEF asize, MAX, MINIMUM
<1> QED
  BY <1>1, <1>2, <1>3

(* The way through words leaves the size of a block as it is.                 *)
THEOREM ExtensionExact ==
    ASSUME IsWidth, NEW n \in Size_t, n % 8 = 0, n >= MINIMUM
    PROVE  extend_heap(ExtendWords(n)) = n
<1>1. n \in Nat
  BY DEF Size_t, IsWidth
<1>2. (n \div 4) * 4 = n /\ (n \div 4) % 2 = 0
  BY <1>1
<1> QED
  BY <1>1, <1>2 DEF extend_heap, ExtendWords, MAX, WSIZE, MINIMUM

(* In an arena smaller than half the addresses (MAX_HEAP, config.h), wherever *)
(* it lies, mem_sbrk grants an extension of any size, those that arrive as a  *)
(* negative int included, exactly if it fits or its end wraps round           *)
(* (memlib.c:58-62).                                                          *)
THEOREM SbrkExact ==
    ASSUME IsWidth, NEW brk \in Size_t, NEW max \in Size_t, NEW n \in Size_t,
           brk <= max, 2 * (max - brk) < SizeValues
    PROVE  ~SbrkRefuses(brk, AsInt(n), max) <=> brk + n <= max \/ WrapsRound(brk, n)
<1>1. /\ SizeValues \in Nat /\ brk \in Nat /\ max \in Nat /\ n \in Nat
      /\ n < SizeValues /\ max < SizeValues
  BY DEF Size_t, IsWidth
<1>2. CASE 2 * n >= SizeValues
  <2>1. AsInt(n) \in Int /\ AsInt(n) < 0
    BY <1>1, <1>2 DEF AsInt
  <2>2. brk + n > max /\ ~WrapsRound(brk, n)
    BY <1>1, <1>2 DEF WrapsRound
  <2> QED
    BY <2>1, <2>2, <1>1 DEF SbrkRefuses
<1>3. CASE 2 * n < SizeValues
  <2>1. AsInt(n) = n /\ ~(n < 0)
    BY <1>1, <1>3 DEF AsInt
  <2>2. CASE brk + n >= SizeValues
    <3>1. Sum_t(brk, n) = brk + n - SizeValues
      BY <2>2 DEF Sum_t
    <3> QED
      BY <1>1, <1>3, <2>1, <2>2, <3>1 DEF SbrkRefuses, WrapsRound
  <2>3. CASE brk + n < SizeValues
    <3>1. Sum_t(brk, n) = brk + n
      BY <1>1, <2>3 DEF Sum_t
    <3> QED
      BY <1>1, <2>1, <2>3, <3>1 DEF SbrkRefuses, WrapsRound
  <2> QED
    BY <1>1, <2>2, <2>3
<1> QED
  BY <1>1, <1>2, <1>3

(* An arena below the middle of the addresses is out of reach of that: there  *)
(* mem_sbrk grants exactly what fits.                                         *)
THEOREM LowArenaNeverWraps ==
    ASSUME IsWidth, NEW brk \in Size_t, NEW n \in Size_t, 2 * brk <= SizeValues
    PROVE  ~WrapsRound(brk, n)
  BY DEF WrapsRound, Size_t, IsWidth

(* Above it there are such extensions, and mem_sbrk, under which the    *)
(* "heap cannot be shrunk" (memlib.c:56), grants them: they do not fit, and   *)
(* the break ends up below where it was.                                      *)
THEOREM HighArenaWraps ==
    ASSUME IsWidth, NEW brk \in Size_t, NEW max \in Size_t, brk <= max, 2 * brk > SizeValues
    PROVE  \E n \in Size_t :
              /\ WrapsRound(brk, n)
              /\ ~SbrkRefuses(brk, AsInt(n), max)
              /\ brk + n > max
              /\ Sum_t(brk, AsInt(n)) < brk
<1> DEFINE n == SizeValues - brk
<1>1. SizeValues \in Nat /\ brk \in Nat /\ max \in Nat /\ brk < SizeValues /\ max < SizeValues
  BY DEF Size_t, IsWidth
<1>2. n \in Size_t /\ n > 0 /\ 2 * n < SizeValues /\ brk + n = SizeValues
  BY <1>1 DEF Size_t
<1> HIDE DEF n
<1>3. AsInt(n) = n /\ Sum_t(brk, n) = 0
  BY <1>1, <1>2 DEF AsInt, Sum_t, Size_t
<1>4. WrapsRound(brk, n)
  BY <1>1, <1>2 DEF WrapsRound
<1>5. ~SbrkRefuses(brk, AsInt(n), max)
  BY <1>1, <1>2, <1>3 DEF SbrkRefuses, Size_t
<1>6. brk + n > max /\ Sum_t(brk, AsInt(n)) < brk
  BY <1>1, <1>2, <1>3
<1> QED
  BY <1>2, <1>4, <1>5, <1>6

=============================================================================
