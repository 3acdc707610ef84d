------------------------------- MODULE BTreeNode -------------------------------
(* One node of the B-tree of BTree.c and its children: what a split, a loan   *)
(* and a merge make of them.  A node is a record: its used keys and children, *)
(* in order (key[0 .. num_key-1], child[0 .. num_child-1] of the C struct);   *)
(* what the arrays hold beyond the counts is never read as part of the tree.  *)
(* Positions count from 1.                                                    *)
EXTENDS Integers, Sequences, SequencesExt

CONSTANT
    Order       \* Node_Order

ASSUME OrderAssumption == Order \in Nat /\ Order >= 3

MaxKeys == Order - 1                        \* Node_Keys
MinKeys == ((Order + 1) \div 2) - 1         \* Num_Minimum_Keys

Node(leaf, keys, kids) == [leaf |-> leaf, keys |-> keys, kids |-> kids]

(* A sequence up to and from behind its n-th element, as far as it goes.      *)
UpTo(s, n) == SubSeq(s, 1, IF n < Len(s) THEN n ELSE Len(s))
Behind(s, n) == SubSeq(s, n + 1, Len(s))

-----------------------------------------------------------------------------
(* The place of a key                                                         *)

(* Where the loop over the keys stops: the first key not below val.           *)
Position(node, val) ==
    CHOOSE i \in 1 .. Len(node.keys) + 1 :
        /\ i <= Len(node.keys) => val <= node.keys[i]
        /\ \A j \in 1 .. i - 1 : node.keys[j] < val

HasAt(node, val, pos) == pos <= Len(node.keys) /\ node.keys[pos] = val

(* One call of searchNode, where below is what the call on the child returns. *)
SearchStep(node, val, below) ==
    HasAt(node, val, Position(node, val)) \/ (~node.leaf /\ below)

(* A leaf that gets a key, and one that gives it up.                          *)
WithKey(node, pos, val) == [node EXCEPT !.keys = InsertAt(@, pos, val)]
WithoutKey(node, pos) == [node EXCEPT !.keys = RemoveAt(@, pos)]

-----------------------------------------------------------------------------
(* Splitting                                                                  *)

Median == (Order + 1) \div 2

LeftHalf(node) ==
    Node(node.leaf, UpTo(node.keys, Median - 1), UpTo(node.kids, Median))
RightHalf(node) ==
    Node(node.leaf, Behind(node.keys, Median), Behind(node.kids, Median))

(* Mutant: the new node is linked before the one it was split from.           *)
splitNode_WrongSide(pos, node, parent) ==
    [parent EXCEPT
        !.keys = InsertAt(@, pos, node.keys[Median]),
        !.kids = InsertAt(ReplaceAt(@, pos, LeftHalf(node)), pos, RightHalf(node))]

(* The node at pos of its parent has one key too many: its median goes up.    *)
splitNode(pos, node, parent) ==
    [parent EXCEPT
        !.keys = InsertAt(@, pos, node.keys[Median]),
        !.kids = InsertAt(ReplaceAt(@, pos, LeftHalf(node)), pos + 1, RightHalf(node))]

Overfull(node) == Len(node.keys) = MaxKeys + 1

(* A node that holds val itself returns before its count is looked at.        *)
Splits(val, before, after) == Overfull(after) /\ val \notin ToSet(before.keys)

WithChild(val, node, pos, child) ==
    IF Splits(val, node.kids[pos], child) THEN splitNode(pos, child, node)
    ELSE [node EXCEPT !.kids[pos] = child]

(* One call of insertNode, where below is what the call on the child returns. *)
InsertStep(val, node, below) ==
    LET pos == Position(node, val)
    IN  IF HasAt(node, val, pos) THEN node
        ELSE IF node.leaf THEN WithKey(node, pos, val)
        ELSE WithChild(val, node, pos, below)

(* An overfull root gets a parent that has nothing else.                      *)
NewRoot(val, before, after) ==
    IF Splits(val, before, after) THEN splitNode(1, after, Node(FALSE, << >>, << after >>))
    ELSE after

-----------------------------------------------------------------------------
(* Borrowing and merging when a child runs short                              *)

(* The keys of the child are shifted upwards in ascending order, so all of    *)
(* them become copies of the first.                                           *)
borrowFromLeft(node, pos) ==
    LET left == node.kids[pos - 1]
        child == node.kids[pos]
        copies == [i \in 1 .. Len(child.keys) |-> child.keys[1]]
    IN  [node EXCEPT
            !.keys[pos - 1] = Last(left.keys),
            !.kids[pos - 1] = Node(left.leaf, Front(left.keys),
                                   IF left.kids = << >> THEN << >> ELSE Front(left.kids)),
            !.kids[pos] = Node(child.leaf, << node.keys[pos - 1] >> \o copies,
                               IF left.kids = << >> THEN child.kids
                               ELSE << Last(left.kids) >> \o child.kids)]

(* Mutant: the borrowed key skips the parent.                                 *)
borrowFromRight_Direct(node, pos) ==
    LET child == node.kids[pos]
        right == node.kids[pos + 1]
    IN  [node EXCEPT
            !.kids[pos] = Node(child.leaf, Append(child.keys, Head(right.keys)),
                               child.kids \o UpTo(right.kids, 1)),
            !.kids[pos + 1] = Node(right.leaf, Tail(right.keys), Behind(right.kids, 1))]

borrowFromRight(node, pos) ==
    LET child == node.kids[pos]
        right == node.kids[pos + 1]
    IN  [node EXCEPT
            !.keys[pos] = Head(right.keys),
            !.kids[pos] = Node(child.leaf, Append(child.keys, node.keys[pos]),
                               child.kids \o UpTo(right.kids, 1)),
            !.kids[pos + 1] = Node(right.leaf, Tail(right.keys), Behind(right.kids, 1))]

(* Mutant: the separator is forgotten.                                        *)
JoinedKids_NoSeparator(node, at) ==
    LET left == node.kids[at]
        right == node.kids[at + 1]
    IN  Node(left.leaf, left.keys \o right.keys, left.kids \o right.kids)

JoinedKids(node, at) ==
    LET left == node.kids[at]
        right == node.kids[at + 1]
    IN  Node(left.leaf, left.keys \o << node.keys[at] >> \o right.keys, left.kids \o right.kids)

(* The children at "at" and after it become one.                              *)
mergeNode(node, at) ==
    [node EXCEPT !.keys = RemoveAt(@, at),
                 !.kids = RemoveAt(ReplaceAt(@, at, JoinedKids(node, at)), at + 1)]

Lends(node) == Len(node.keys) > MinKeys

(* The left sibling is asked first, where there is one.                       *)
adjustNode(node, pos) ==
    IF pos > 1 /\ Lends(node.kids[pos - 1]) THEN borrowFromLeft(node, pos)
    ELSE IF pos <= Len(node.keys) /\ Lends(node.kids[pos + 1]) THEN borrowFromRight(node, pos)
    ELSE mergeNode(node, IF pos = 1 THEN 1 ELSE pos - 1)

-----------------------------------------------------------------------------
(* Merging over a key that is deleted                                         *)

(* The loops that close the gap count down the bound they run to, so both     *)
(* stop half way, and what lies beyond is cut off.                            *)
MergeLoss(node, pos) == (Len(node.keys) - pos + 2) \div 2

inorderMerge(node, pos) ==
    LET left == Len(node.keys) - MergeLoss(node, pos)
        whole == mergeNode(node, pos)
    IN  [node EXCEPT !.keys = UpTo(whole.keys, left), !.kids = UpTo(whole.kids, left + 1)]

-----------------------------------------------------------------------------
(* What a deletion hands back                                                 *)

Deletion(node, found, f) == [node |-> node, found |-> found, faults |-> f]

(* r is what deleteValFromNode made of the child at pos.                      *)
PutBack(node, pos, r, f) == Deletion([node EXCEPT !.kids[pos] = r.node], TRUE, r.faults \cup f)

MergedBack(node, pos, r, loss) ==
    PutBack(node, pos, r, (IF loss = 1 THEN {} ELSE {"merge"})
                              \cup (IF Len(r.node.keys) <= MaxKeys THEN {} ELSE {"full"}))

(* The shift of borrowFromLeft would go over more than one key.               *)
Shifts(node, pos) ==
    pos > 1 /\ Lends(node.kids[pos - 1]) /\ Len(node.kids[pos].keys) > 1

(* What becomes of a node whose child at pos is the wrong size.               *)
Mended(node, pos, r) ==
    Deletion(adjustNode(node, pos), r.found,
             r.faults \cup (IF Shifts(node, pos) THEN {"shift"} ELSE {}))

(* Mutant: a child left one key short is not noticed.                         *)
Adjusted_Late(node, pos, r) ==
    LET with == [node EXCEPT !.kids[pos] = r.node]
    IN  IF Len(r.node.keys) + 1 < MinKeys THEN Mended(with, pos, r)
        ELSE Deletion(with, r.found, r.faults)

Adjusted(node, pos, r) ==
    LET with == [node EXCEPT !.kids[pos] = r.node]
    IN  IF Len(r.node.keys) < MinKeys THEN Mended(with, pos, r)
        ELSE Deletion(with, r.found, r.faults)

-----------------------------------------------------------------------------
(* Deleting, where the other arguments are what the deeper calls return       *)

PredecessorStep(node, below) == IF node.leaf THEN Last(node.keys) ELSE below

(* The recursive call stands behind the return.                               *)
findSuccessor(node, junk) == IF node.leaf THEN Head(node.keys) ELSE junk

(* Mutant: the key before is deleted below, and the key at pos stays.         *)
InnerStep_NotReplaced(node, pos, pred, succ, fromLeft, fromRight, fromMerged) ==
    LET left == node.kids[pos]
        right == node.kids[pos + 1]
    IN  IF Len(left.keys) >= Len(right.keys) /\ Lends(left)
        THEN PutBack(node, pos, fromLeft, {})
        ELSE IF Len(left.keys) < Len(right.keys) /\ Lends(right)
        THEN PutBack([node EXCEPT !.keys[pos] = succ], pos + 1, fromRight,
                     IF right.leaf THEN {} ELSE {"return"})
        ELSE MergedBack(inorderMerge(node, pos), pos, fromMerged, MergeLoss(node, pos))

(* One call of deleteInnerTree: the key at pos gives way to the one before or *)
(* after it, whichever side can spare it, or goes down into a merged child.   *)
InnerStep(node, pos, pred, succ, fromLeft, fromRight, fromMerged) ==
    LET left == node.kids[pos]
        right == node.kids[pos + 1]
    IN  IF Len(left.keys) >= Len(right.keys) /\ Lends(left)
        THEN PutBack([node EXCEPT !.keys[pos] = pred], pos, fromLeft, {})
        ELSE IF Len(left.keys) < Len(right.keys) /\ Lends(right)
        THEN PutBack([node EXCEPT !.keys[pos] = succ], pos + 1, fromRight,
                     IF right.leaf THEN {} ELSE {"return"})
        ELSE MergedBack(inorderMerge(node, pos), pos, fromMerged, MergeLoss(node, pos))

(* One call of deleteValFromNode.                                             *)
DeleteStep(val, node, inner, below) ==
    LET pos == Position(node, val)
    IN  IF HasAt(node, val, pos)
        THEN IF node.leaf THEN Deletion(WithoutKey(node, pos), TRUE, {}) ELSE inner
        ELSE IF node.leaf THEN Deletion(node, FALSE, {})
        ELSE Adjusted(node, pos, below)

=============================================================================
