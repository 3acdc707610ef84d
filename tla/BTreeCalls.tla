----------------------------- MODULE BTreeCalls -----------------------------
(* The B-tree with the call that was made last.  "call" is a history         *)
(* variable: no action of module BTree looks at it.  With it the tree can be *)
(* held to what was asked of it.                                             *)
EXTENDS BTree

VARIABLE call

callvars == << root, faults, call >>

KS == INSTANCE KeySet WITH set <- Contents(root)

InitCalled == Init /\ call = << >>

InsertCalled(val) == Insert(val) /\ call' = KS!InsertOf(val)

DeleteCalled(val) == Delete(val) /\ call' = KS!DeleteOf(val)

(* Calls that run into none of the faults.                                    *)
NextCalled ==
    /\ \E val \in Keys : InsertCalled(val) \/ DeleteCalled(val)
    /\ faults' = {}

SpecCalled == InitCalled /\ [][NextCalled]_callvars

(* The state of the tree alone, for TLC to tell states apart by.              *)
TreeView == << root, faults >>

(* The tree stands for a set of keys: an insertion adds the key it was given, *)
(* a deletion removes the key it was given, and no split, loan, merge or      *)
(* replacement adds or loses another (BTree.c:224-232, 602-620).              *)
KeySetSpec == KS!Spec

=============================================================================
