----------------------------- MODULE MCMmBlocks -----------------------------
(* Instances of the block-level allocator for TLC.                           *)
EXTENDS MmBlocks, TLC

CONSTANTS a, b, c

MCIds == {a, b, c}
MCSymmetry == Permutations(MCIds)
MCSizes == {1, 5, 9, 14}

=============================================================================
