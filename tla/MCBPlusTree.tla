---------------------------- MODULE MCBPlusTree ----------------------------
(* Instances of the B+tree for TLC.                                          *)
EXTENDS BPlusTreeCalls

(* Data that cannot be told apart, for the runs about keys.                  *)
OneInfo == [val \in Keys |-> 0]

(* main passes i * 1000 with i.                                              *)
OwnInfo == [val \in Keys |-> val * 1000]

=============================================================================
