--------------------------- MODULE BPlusTreeCalls ---------------------------
(* The B+tree with the call that was made last.  "call" is a history         *)
(* variable: no action of module BPlusTree looks at it.  With it the tree    *)
(* can be held to what was asked of it.                                      *)
EXTENDS BPlusTree

VARIABLE call

KS == INSTANCE KeySet WITH set <- Contents(root)

InitCalled == Init /\ call = << >>

InsertCalled(val) == Insert(val) /\ call' = KS!InsertOf(val)

DeleteCalled(val) == Delete(val) /\ call' = KS!DeleteOf(val)

NextCalled == \E val \in Keys : InsertCalled(val) \/ DeleteCalled(val)

SpecCalled == InitCalled /\ [][NextCalled]_<< root, call >>

(* The state of the tree alone, for TLC to tell states apart by.              *)
TreeView == root

(* The tree stands for a set of keys, those of its leaves: an insertion adds  *)
(* the key it was given, a deletion removes the key it was given, and no      *)
(* split, loan or merge adds or loses another, as long as the root is a tree  *)
(* (B+Tree.c:220-229, 470-485).                                               *)
KeySetSpec == KS!Init /\ [][root' # Wild => KS!Next]_<< root, call >>

(* The root is lost to an unset child pointer only by a deletion of the key   *)
(* that was the last one in the tree: no call on any other tree empties its   *)
(* root so, by an adjustment or by removing the wrong key (B+Tree.c:481-483). *)
LostOnlyWhenEmpty ==
    [][ root' = Wild =>
            \E val \in Keys : call' = KS!DeleteOf(val) /\ Contents(root) = {val} ]_<< root, call >>

=============================================================================
