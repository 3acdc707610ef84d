------------------------------ MODULE BPlusTree ------------------------------
(* The B+tree of B+Tree.c: its calls, made of the steps of module             *)
(* BPlusTreeNode.  Leaves are numbered from the left after every call, as     *)
(* their addresses mean nothing.                                              *)
EXTENDS BPlusTreeNode

CONSTANTS
    Keys,       \* the keys a caller may pass
    Info        \* the info it passes with each

VARIABLE root

UnsetData == [slot \in 1 .. Order |-> Unset]

(* A null root, and a root that points anywhere.                              *)
NoTree == Leaf(<< >>, UnsetData, Elsewhere, Elsewhere, TRUE)
Wild == Inner(<< >>, << >>)

(* createNode does not store the info it is given.                            *)
FirstLeaf(val) == Leaf(<< val >>, UnsetData, 1, Elsewhere, TRUE)

RECURSIVE Leaves(_)
Leaves(node) ==
    IF node.leaf THEN << node >>
    ELSE FlattenSeq([i \in DOMAIN node.kids |-> Leaves(node.kids[i])])

-----------------------------------------------------------------------------
(* Searching                                                                  *)

(* A separator that equals val ends the search as well as a key of a leaf.    *)
RECURSIVE searchNode(_, _)
searchNode(node, val) ==
    LET pos == Position(node, val)
    IN  HasAt(node, val, pos) \/ (~node.leaf /\ searchNode(node.kids[pos], val))

-----------------------------------------------------------------------------
(* Insertion                                                                  *)

(* Keys move up to make room for val; their data stays.                       *)
RECURSIVE insertNode(_, _, _, _)
insertNode(val, info, node, new) ==
    LET pos == Position(node, val)
    IN  IF HasAt(node, val, pos) THEN node
        ELSE IF node.leaf
        THEN [node EXCEPT !.keys = InsertAt(@, pos, val), !.data[pos] = info]
        ELSE WithChild(node, pos, insertNode(val, info, node.kids[pos], new), new)

(* An overfull root gets a parent that has nothing else.                      *)
NewRoot(node, new) ==
    IF Overfull(node) THEN splitNode(1, node, Inner(<< >>, << node >>), new) ELSE node

Inserted(val, info, tree) ==
    IF tree = NoTree THEN FirstLeaf(val)
    ELSE LET new == Len(Leaves(tree)) + 1
         IN  NewRoot(insertNode(val, info, tree, new), new)

-----------------------------------------------------------------------------
(* Deletion                                                                   *)

RECURSIVE findSuccessor(_)
findSuccessor(node) == IF node.leaf THEN Head(node.keys) ELSE findSuccessor(Head(node.kids))

Deletion(node, found) == [node |-> node, found |-> found]

deleteInnerTree(node, pos) == [node EXCEPT !.keys[pos] = findSuccessor(node.kids[pos + 1])]

Short(node) == Len(node.keys) < MinKeys

(* r is what deleteValFromNode made of the child at pos.                      *)
Adjusted(node, pos, r) ==
    LET with == [node EXCEPT !.kids[pos] = r.node]
    IN  Deletion(IF Short(r.node) THEN adjustNode(with, pos) ELSE with, r.found)

(* A separator that equals val is dealt with behind the deletion of the key   *)
(* in the right subtree.  Where that leaves the child short, the separator    *)
(* may have stayed, gone or moved down a level, and val is deleted again.     *)
RECURSIVE deleteValFromNode(_, _), Unseparated(_, _, _, _)
Unseparated(val, node, pos, r) ==
    LET with == [node EXCEPT !.kids[pos + 1] = r.node]
    IN  IF Short(r.node)
        THEN Deletion(deleteValFromNode(val, adjustNode(with, pos + 1)).node, r.found)
        ELSE Deletion(deleteInnerTree(with, pos), r.found)

deleteValFromNode(val, node) ==
    LET pos == Position(node, val)
    IN  IF HasAt(node, val, pos)
        THEN IF node.leaf THEN Deletion([node EXCEPT !.keys = RemoveAt(@, pos)], TRUE)
             ELSE Unseparated(val, node, pos, deleteValFromNode(val, node.kids[pos + 1]))
        ELSE IF node.leaf THEN Deletion(node, FALSE)
             ELSE Adjusted(node, pos, deleteValFromNode(val, node.kids[pos]))

(* Mutant: a root with one key gives way as well.                             *)
Roots_Early(node) ==
    IF Len(node.keys) > 1 THEN {node}
    ELSE IF node.leaf THEN {NoTree, Wild} ELSE {Head(node.kids)}

(* A root left without keys gives way to its first child; that of a leaf was  *)
(* never set.                                                                 *)
Roots(node) ==
    IF node.keys # << >> THEN {node}
    ELSE IF node.leaf THEN {NoTree, Wild} ELSE {Head(node.kids)}

-----------------------------------------------------------------------------
(* The calls of main                                                          *)

(* The leaves of a tree are numbered from the left; a link that is never      *)
(* followed or leads out of the tree goes elsewhere.                          *)
Number(ids, id) == IF id \in ToSet(ids) THEN CHOOSE i \in DOMAIN ids : ids[i] = id ELSE Elsewhere

RECURSIVE Renumbered(_, _)
Renumbered(node, ids) ==
    IF node.leaf
    THEN [node EXCEPT !.id = Number(ids, @),
                      !.next = IF node.endLeaf THEN Elsewhere ELSE Number(ids, @)]
    ELSE [node EXCEPT !.kids = [i \in DOMAIN @ |-> Renumbered(@[i], ids)]]

LeafIds(leaves) == [i \in DOMAIN leaves |-> leaves[i].id]

Canonical(tree) ==
    IF tree \in {NoTree, Wild} THEN tree ELSE Renumbered(tree, LeafIds(Leaves(tree)))

Init == root = NoTree

Insert(val) == root # Wild /\ root' = Canonical(Inserted(val, Info[val], root))

DeleteNothing == root = NoTree /\ root' = root

(* A key that is not found is reported before the root is looked at; what was *)
(* adjusted on the way back from the search stays.                            *)
DeleteFrom(r) ==
    \E tree \in (IF r.found THEN Roots(r.node) ELSE {r.node}) : root' = Canonical(tree)

Delete(val) ==
    \/ DeleteNothing
    \/ root \notin {NoTree, Wild} /\ DeleteFrom(deleteValFromNode(val, root))

Next == \E val \in Keys : Insert(val) \/ Delete(val)

Spec == Init /\ [][Next]_root

-----------------------------------------------------------------------------
(* Correctness                                                                *)

RECURSIVE Subtrees(_), LeafDepths(_), Contents(_)
Subtrees(node) == {node} \cup UNION {Subtrees(kid) : kid \in ToSet(node.kids)}

LeafDepths(node) ==
    IF node.leaf THEN {0} ELSE {d + 1 : d \in UNION {LeafDepths(kid) : kid \in ToSet(node.kids)}}

InnerNodes == {node \in Subtrees(root) : ~node.leaf /\ root # Wild}

Contents(tree) ==
    IF tree.leaf THEN ToSet(tree.keys)
    ELSE UNION {Contents(tree.kids[i]) : i \in DOMAIN tree.kids}

(* Nodes hold keys the caller passed, leaves data it passed or none, and an   *)
(* inner node has one child more than keys.                                   *)
TypeOK ==
    \A node \in Subtrees(root) :
        /\ ToSet(node.keys) \subseteq Keys
        /\ node.leaf => node.data \in [1 .. Order -> {Unset} \cup ToSet(Info)]
        /\ node.leaf \/ node = Wild \/ Len(node.kids) = Len(node.keys) + 1

(* Every separator is the smallest key of the subtree to its right, and above *)
(* every key of the subtree to its left: none outlives its key, so searchNode *)
(* may stop at a separator and finds exactly the keys that are in leaves.     *)
SeparatorsExact ==
    /\ root # Wild => \A val \in Keys : searchNode(root, val) <=> val \in Contents(root)
    /\ \A node \in InnerNodes : \A i \in DOMAIN node.keys :
          /\ node.keys[i] = findSuccessor(node.kids[i + 1])
          /\ \A val \in Contents(node.kids[i]) : val < node.keys[i]

(* Following next from the first leaf until endLeaf, printLeaves meets every  *)
(* leaf once, from left to right, and so every key in ascending order.        *)
ChainExact ==
    LET leaves == Leaves(root)
        keys == FlattenSeq([i \in DOMAIN leaves |-> leaves[i].keys])
    IN  root # Wild =>
            /\ \A i \in DOMAIN leaves :
                  /\ leaves[i].endLeaf <=> i = Len(leaves)
                  /\ i < Len(leaves) => leaves[i].next = leaves[i + 1].id
            /\ \A i \in 1 .. Len(keys) - 1 : keys[i] < keys[i + 1]

(* All leaves are equally deep.                                               *)
Balanced == root # Wild => \A d, e \in LeafDepths(root) : d = e

(* No node has more than MAX_KEY keys, none but the root fewer than MIN_KEY,  *)
(* and an inner root has at least one.                                        *)
Occupied ==
    \A node \in Subtrees(root) :
        /\ Len(node.keys) <= MaxKeys
        /\ \A kid \in ToSet(node.kids) : Len(kid.keys) >= MinKeys
        /\ node \in InnerNodes => Len(node.keys) >= 1

(* After every call, those that meet the code's own faults included, the tree *)
(* has the shape of a B+tree.                                                 *)
WellFormed == TypeOK /\ Balanced /\ Occupied

(* The data of a key is the info it came with: "@param info" is the "data     *)
(* value to put in" (B+Tree.c:90, in Korean).                                 *)
DataKept ==
    \A leaf \in ToSet(Leaves(root)) : \A i \in DOMAIN leaf.keys :
        leaf.data[i] = Info[leaf.keys[i]]

=============================================================================
