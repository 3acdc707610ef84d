--------------------------- MODULE MmWordsBlocks ---------------------------
(* The words implement the blocks.  The variable "blocks" is the refinement  *)
(* mapping written down: in every state it is what the tags of the heap      *)
(* encode, and no action of MmWords reads it.                                *)
EXTENDS MmWords

VARIABLES blocks

EncodedBlocks(h) == IF h.status = "running" THEN Blocks(h) ELSE {}

InitMapped == Init /\ blocks = EncodedBlocks(heap)

NextMapped == NextServed /\ blocks' = EncodedBlocks(heap')

SpecMapped == InitMapped /\ [][NextMapped]_<< heap, live, blocks >>

MB == INSTANCE MmBlocks WITH brk <- heap.brk

(* Every call of the package, as its tags, links and words carry it out, is a *)
(* step of the block-level allocator on the blocks its tags encode.           *)
BlocksSpec == MB!Spec

=============================================================================
