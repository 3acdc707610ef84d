-------------------------------- MODULE BTree --------------------------------
(* The B-tree of BTree.c: its calls, made of the steps of module BTreeNode.   *)
(*                                                                            *)
(* Some calls run into undefined or lossy code; "faults" names what the last  *)
(* call ran into, so that runs can tell those calls apart:                    *)
(*   "shift"     borrowFromLeft shifts more than one key, and repeats one     *)
(*   "merge"     inorderMerge drops more than the separator it merged over    *)
(*   "full"      a node inorderMerge made keeps more than Node_Keys keys      *)
(*   "return"    findSuccessor reaches its end without a return               *)
(*   "root"      the root becomes child[0] of a leaf                          *)
(*   "bounds"    a node gets more keys than its array has room for            *)
EXTENDS BTreeNode

CONSTANTS
    Keys,       \* the keys a caller may pass
    Junk,       \* what a function that does not return may leave as its result
    Height      \* bound on the levels below the root

ASSUME KeysAssumption == Keys \subseteq Int /\ Junk \subseteq Int /\ Height \in Nat

VARIABLES root, faults

vars == << root, faults >>

(* A null root, and a root that points anywhere.                              *)
NoTree == Node(TRUE, << >>, << >>)
Wild == Node(FALSE, << >>, << >>)

Leaf(val) == Node(TRUE, << val >>, << >>)

-----------------------------------------------------------------------------
(* Calls: each is one step on its node, made of calls on the children, where  *)
(* b stands for what is one level down.                                       *)

SearchCall(b, node, val) ==
    SearchStep(node, val, b.searchNode[<< node.kids[Position(node, val)], val >>])

InsertCall(b, node, val) ==
    InsertStep(val, node, b.insertNode[<< node.kids[Position(node, val)], val >>])

PredecessorCall(b, node) == PredecessorStep(node, b.findPredecessor[Last(node.kids)])

deleteInnerTree(b, node, pos, junk) ==
    LET pred == b.findPredecessor[node.kids[pos]]
        succ == findSuccessor(node.kids[pos + 1], junk)
    IN  InnerStep(node, pos, pred, succ,
                  b.deleteValFromNode[<< node.kids[pos], pred, junk >>],
                  b.deleteValFromNode[<< node.kids[pos + 1], succ, junk >>],
                  b.deleteValFromNode[<< inorderMerge(node, pos).kids[pos], node.keys[pos], junk >>])

DeleteCall(b, node, val, junk) ==
    DeleteStep(val, node, deleteInnerTree(b, node, Position(node, val), junk),
               b.deleteValFromNode[<< node.kids[Position(node, val)], val, junk >>])

(* The nodes whose children are nodes of b: what is in the trees below them,  *)
(* and what the calls on them return.                                         *)
Over(b) ==
    LET S == [leaf : BOOLEAN, keys : Seq(Int), kids : Seq(b.nodes)]
        Below(f, node) == UNION {f[kid] : kid \in ToSet(node.kids)}
    IN  [nodes |-> S,
         subtrees |-> [node \in S |-> {node} \cup Below(b.subtrees, node)],
         contents |-> [node \in S |-> ToSet(node.keys) \cup Below(b.contents, node)],
         leafDepths |-> [node \in S |->
             IF node.leaf THEN {0} ELSE {depth + 1 : depth \in Below(b.leafDepths, node)}],
         searchNode |-> [c \in S \X Int |-> SearchCall(b, c[1], c[2])],
         insertNode |-> [c \in S \X Int |-> InsertCall(b, c[1], c[2])],
         findPredecessor |-> [node \in S |-> PredecessorCall(b, node)],
         deleteValFromNode |-> [c \in S \X Int \X Int |-> DeleteCall(b, c[1], c[2], c[3])]]

(* A leaf has nothing below it.                                               *)
Nothing ==
    [nodes |-> {}, subtrees |-> << >>, contents |-> << >>, leafDepths |-> << >>,
     searchNode |-> << >>, insertNode |-> << >>, findPredecessor |-> << >>,
     deleteValFromNode |-> << >>]

(* The nodes with at most so many levels below them.                          *)
Levels[d \in Nat] == Over(IF d = 0 THEN Nothing ELSE Levels[d - 1])

Subtrees(node) == Levels[Height].subtrees[node]
Contents(node) == Levels[Height].contents[node]
LeafDepths(node) == Levels[Height].leafDepths[node]

searchNode(node, val) == Levels[Height].searchNode[<< node, val >>]
insertNode(val, node) == Levels[Height].insertNode[<< node, val >>]
deleteValFromNode(val, node, junk) == Levels[Height].deleteValFromNode[<< node, val, junk >>]

-----------------------------------------------------------------------------
(* The calls of main                                                          *)

AfterInsert(val, tree) ==
    IF tree = NoTree THEN Leaf(val) ELSE NewRoot(val, tree, insertNode(val, tree))

(* A root left without keys gives way to its first child; that of a leaf was  *)
(* never set.                                                                 *)
Roots(node) ==
    IF node.keys # << >> THEN {node}
    ELSE IF node.leaf THEN {NoTree, Wild} ELSE {Head(node.kids)}

(* key has Node_Keys + 1 elements.                                            *)
Fits(tree) == \A node \in Subtrees(tree) : Len(node.keys) <= MaxKeys + 1

Init == root = NoTree /\ faults = {}

(* No higher tree is grown than the bound allows.                             *)
Insert(val) ==
    /\ root # Wild
    /\ \E tree \in {AfterInsert(val, root)} :
          /\ tree \in Levels[Height].nodes
          /\ root' = IF Fits(tree) THEN tree ELSE Wild
          /\ faults' = IF Fits(tree) THEN {} ELSE {"bounds"}

DeleteNothing == root = NoTree /\ root' = root /\ faults' = {}

(* A key that is not found is reported before the root is looked at; what was *)
(* mended on the way back from the search stays.                              *)
DeleteFrom(r) ==
    IF ~r.found THEN root' = r.node /\ faults' = r.faults
    ELSE /\ root' \in Roots(r.node)
         /\ faults' = r.faults \cup
                (IF r.node.leaf /\ r.node.keys = << >> THEN {"root"} ELSE {})

Delete(val) ==
    \/ DeleteNothing
    \/ /\ root \notin {NoTree, Wild}
       /\ \E junk \in Junk : DeleteFrom(deleteValFromNode(val, root, junk))

Next == \E val \in Keys : Insert(val) \/ Delete(val)

Spec == Init /\ [][Next]_vars

(* Calls that run into none of the faults.                                    *)
NextServed == Next /\ faults' = {}

SpecServed == Init /\ [][NextServed]_vars

-----------------------------------------------------------------------------
(* Correctness                                                                *)

(* Nodes hold keys the caller passed, and an inner node has one child more    *)
(* than keys.                                                                 *)
TypeOK ==
    root # Wild =>
        \A node \in Subtrees(root) :
            /\ ToSet(node.keys) \subseteq Keys
            /\ Len(node.kids) = IF node.leaf THEN 0 ELSE Len(node.keys) + 1

(* The keys of a node ascend, and each separates what is below the children   *)
(* beside it, after every split, loan, merge and replacement.                 *)
InOrder(node) ==
    /\ \A i, j \in 1 .. Len(node.keys) : i < j => node.keys[i] < node.keys[j]
    /\ \A i \in 1 .. Len(node.kids) : \A val \in Contents(node.kids[i]) :
          /\ \A j \in 1 .. i - 1 : node.keys[j] < val
          /\ \A j \in i .. Len(node.keys) : val < node.keys[j]

InOrderSorted == root # Wild => \A node \in Subtrees(root) : InOrder(node)

(* All leaves are equally deep.                                               *)
Balanced == root # Wild => \A d, e \in LeafDepths(root) : d = e

(* No node has more than Node_Keys keys, "the maximum number of keys"         *)
(* (BTree.c:16), between calls.                                               *)
WithinMaximum ==
    root # Wild => \A node \in Subtrees(root) : Len(node.keys) <= MaxKeys

(* Nor has one but the root fewer than Num_Minimum_Keys, and an inner root    *)
(* has at least one.                                                          *)
Occupied ==
    /\ WithinMaximum
    /\ root # Wild =>
          /\ \A node \in Subtrees(root) :
                \A kid \in ToSet(node.kids) : Len(kid.keys) >= MinKeys
          /\ root.leaf \/ Len(root.keys) >= 1

(* After every call the tree is a B-tree: sorted, balanced and, but for the   *)
(* root, at least half full.                                                  *)
WellFormed == TypeOK /\ InOrderSorted /\ Balanced /\ Occupied

(* searchNode finds exactly the keys that are in the tree.                    *)
SearchAgrees ==
    root # Wild => \A val \in Keys : searchNode(root, val) <=> val \in Contents(root)

(* delete "finds the key to delete and deletes it" (BTree.c:594): no other    *)
(* key goes with it.                                                          *)
OthersStay ==
    [][ \A val \in Keys : Delete(val) /\ root' # Wild
            => Contents(root) \ {val} \subseteq Contents(root') ]_vars

=============================================================================
