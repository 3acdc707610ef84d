----------------------------- MODULE BPlusTreeNode -----------------------------
(* One node of the B+tree of B+Tree.c and its children: what a split, a loan  *)
(* and a merge make of them.  As in module BTreeNode a node is a record of    *)
(* its used keys and children, and positions count from 1.  A leaf also has   *)
(* its array of data, which keeps its ORDER slots whatever the number of      *)
(* keys, and its link to the next leaf: leaves are known by a number.  The    *)
(* data of an inner node is copied about but never read, and is left out.     *)
EXTENDS Integers, Sequences, SequencesExt

CONSTANTS
    Order,      \* ORDER
    Unset       \* what an element of data holds that was never assigned

ASSUME OrderAssumption == Order \in Nat /\ Order >= 3

MaxKeys == Order - 1                        \* MAX_KEY
MinKeys == ((Order + 1) \div 2) - 1         \* MIN_KEY

Elsewhere == 0                              \* a link that is never followed

Inner(keys, kids) ==
    [leaf |-> FALSE, keys |-> keys, kids |-> kids, data |-> << >>,
     id |-> Elsewhere, next |-> Elsewhere, endLeaf |-> FALSE]

Leaf(keys, data, id, next, endLeaf) ==
    [leaf |-> TRUE, keys |-> keys, kids |-> << >>, data |-> data,
     id |-> id, next |-> next, endLeaf |-> endLeaf]

(* A sequence up to and from behind its n-th element, as far as it goes.      *)
UpTo(s, n) == SubSeq(s, 1, IF n < Len(s) THEN n ELSE Len(s))
Behind(s, n) == SubSeq(s, n + 1, Len(s))

-----------------------------------------------------------------------------
(* The place of a key                                                         *)

(* Where the loop over the keys stops: the first key not below val.           *)
Position(node, val) ==
    CHOOSE i \in 1 .. Len(node.keys) + 1 :
        /\ i <= Len(node.keys) => val <= node.keys[i]
        /\ \A j \in 1 .. i - 1 : node.keys[j] < val

(* Mutant: >= for ==, so the next key is taken for val.                       *)
HasAt_Next(node, val, pos) == pos <= Len(node.keys) /\ node.keys[pos] >= val

HasAt(node, val, pos) == pos <= Len(node.keys) /\ node.keys[pos] = val

-----------------------------------------------------------------------------
(* Splitting                                                                  *)

Median == Order \div 2

(* The two halves of a full node, and the key its parent gets.  "new" is the  *)
(* number of the leaf that malloc returned.                                   *)
LeftHalf(node, new) ==
    IF node.leaf
    THEN [node EXCEPT !.keys = UpTo(@, Median), !.next = new, !.endLeaf = FALSE]
    ELSE Inner(UpTo(node.keys, Median), UpTo(node.kids, Median + 1))

RightHalf(node, new) ==
    IF node.leaf
    THEN Leaf(Behind(node.keys, Median),
              [slot \in 1 .. Order |->
                  IF slot + Median <= Order THEN node.data[slot + Median] ELSE Unset],
              new, node.next, node.endLeaf)
    ELSE Inner(Behind(node.keys, Median + 1), Behind(node.kids, Median + 1))

splitNode(pos, node, parent, new) ==
    [parent EXCEPT
        !.keys = InsertAt(@, pos, node.keys[Median + 1]),
        !.kids = InsertAt(ReplaceAt(@, pos, LeftHalf(node, new)), pos + 1,
                          RightHalf(node, new))]

(* Mutant: a node is split one key too late.                                  *)
Overfull_Late(node) == Len(node.keys) > MaxKeys + 1

Overfull(node) == Len(node.keys) = MaxKeys + 1

WithChild(node, pos, child, new) ==
    IF Overfull(child) THEN splitNode(pos, child, node, new)
    ELSE [node EXCEPT !.kids[pos] = child]

-----------------------------------------------------------------------------
(* Borrowing and merging when a child runs short                              *)

(* The keys of the child are shifted upwards in ascending order, so all of    *)
(* them become copies of the first.                                           *)
Shifted(child) == [i \in 1 .. Len(child.keys) |-> child.keys[1]]

(* A leaf gets the last key of its left sibling, and that key is the          *)
(* separator; an inner node gets the separator, and the key replaces it.      *)
borrowFromLeft(node, pos) ==
    LET left == node.kids[pos - 1]
        child == node.kids[pos]
        lent == IF child.leaf THEN Last(left.keys) ELSE node.keys[pos - 1]
    IN  [node EXCEPT
            !.keys[pos - 1] = Last(left.keys),
            !.kids[pos - 1].keys = Front(@),
            !.kids[pos - 1].kids = IF child.leaf THEN @ ELSE Front(@),
            !.kids[pos].keys = << lent >> \o Shifted(child),
            !.kids[pos].kids = IF child.leaf THEN @ ELSE << Last(left.kids) >> \o @]

(* Mutant: the separator of two leaves becomes the key that was lent.         *)
borrowFromRight_Stale(node, pos) ==
    LET child == node.kids[pos]
        right == node.kids[pos + 1]
        lent == IF child.leaf THEN Head(right.keys) ELSE node.keys[pos]
    IN  [node EXCEPT
            !.keys[pos] = Head(right.keys),
            !.kids[pos].keys = Append(@, lent),
            !.kids[pos].kids = @ \o UpTo(right.kids, 1),
            !.kids[pos + 1].keys = Tail(@),
            !.kids[pos + 1].kids = Behind(@, 1)]

borrowFromRight(node, pos) ==
    LET child == node.kids[pos]
        right == node.kids[pos + 1]
        lent == IF child.leaf THEN Head(right.keys) ELSE node.keys[pos]
    IN  [node EXCEPT
            !.keys[pos] = IF child.leaf THEN right.keys[2] ELSE Head(right.keys),
            !.kids[pos].keys = Append(@, lent),
            !.kids[pos].kids = @ \o UpTo(right.kids, 1),
            !.kids[pos + 1].keys = Tail(@),
            !.kids[pos + 1].kids = Behind(@, 1)]

(* Mutant: the link of the right leaf is not taken over.                      *)
JoinedKids_NoLink(node, at) ==
    LET left == node.kids[at]
        right == node.kids[at + 1]
    IN  IF left.leaf THEN [left EXCEPT !.keys = @ \o right.keys]
        ELSE Inner(left.keys \o << node.keys[at] >> \o right.keys, left.kids \o right.kids)

(* The separator goes down between inner nodes; leaves have it already, or no *)
(* longer.  The left leaf takes over the link of the right one.               *)
JoinedKids(node, at) ==
    LET left == node.kids[at]
        right == node.kids[at + 1]
    IN  IF left.leaf
        THEN [left EXCEPT !.keys = @ \o right.keys, !.next = right.next,
                          !.endLeaf = right.endLeaf]
        ELSE Inner(left.keys \o << node.keys[at] >> \o right.keys, left.kids \o right.kids)

(* The children at "at" and after it become one.                              *)
mergeNode(node, at) ==
    [node EXCEPT !.keys = RemoveAt(@, at),
                 !.kids = RemoveAt(ReplaceAt(@, at, JoinedKids(node, at)), at + 1)]

Lends(node) == Len(node.keys) > MinKeys

(* The left sibling is asked first, where there is one.                       *)
adjustNode(node, pos) ==
    IF pos > 1 /\ Lends(node.kids[pos - 1]) THEN borrowFromLeft(node, pos)
    ELSE IF pos <= Len(node.keys) /\ Lends(node.kids[pos + 1]) THEN borrowFromRight(node, pos)
    ELSE mergeNode(node, IF pos = 1 THEN 1 ELSE pos - 1)

=============================================================================
