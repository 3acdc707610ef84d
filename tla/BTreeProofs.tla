----------------------------- MODULE BTreeProofs -----------------------------
(* Proofs about BTree, for every order of at least 3, every set of keys,      *)
(* every content of undefined variables and every bound on the height, as     *)
(* long as no call runs into a fault (SpecServed of module BTree).            *)
(*                                                                            *)
(* The proofs go from the nodes to the calls.  A node over any set T of       *)
(* subtrees is in order when its keys ascend and stand between what its       *)
(* subtrees hold; two siblings and the key between them are read as one long  *)
(* node, which splitNode, the two borrows and mergeNode only divide           *)
(* differently.  So each step of an insertion or a deletion keeps a search    *)
(* tree over T, if the calls for the subtrees do.  "Floors" are the sets of   *)
(* trees of each height, one made of the other; by induction on the height    *)
(* all four recursive functions of BTree.c are right on each floor.  The      *)
(* invariant says that the root is a tree of some floor.                      *)
EXTENDS BTreeCalls, SequenceFacts

-----------------------------------------------------------------------------
(* Nodes over any set of subtrees                                             *)

(* The elements of s ascend.                                                  *)
Ascending(s) == \A i, j \in 1 .. Len(s) : i < j => s[i] < s[j]

(* How many children a node with so many keys has.                            *)
KidCount(leaf, keyCount) == IF leaf THEN 0 ELSE keyCount + 1

(* A node over the subtrees T.                                                *)
Nodes(leaf, T) ==
    {n \in [leaf : {leaf}, keys : Seq(Int), kids : Seq(T)] :
        Len(n.kids) = KidCount(leaf, Len(n.keys))}

(* The keys a subtree may hold that is the i-th child of n.                   *)
Gap(n, i) ==
    {x \in Int : /\ \A j \in 1 .. i - 1 : n.keys[j] < x
                 /\ \A j \in i .. Len(n.keys) : x < n.keys[j]}

(* n is a search tree, where V[kid] is what the subtree kid holds.            *)
Ordered(n, V) ==
    /\ Ascending(n.keys)
    /\ \A i \in 1 .. Len(n.kids) : V[n.kids[i]] \subseteq Gap(n, i)

(* What n holds: its own keys, and those beneath it.                          *)
Own(n) == {n.keys[i] : i \in 1 .. Len(n.keys)}
Beneath(n, V) == UNION {V[n.kids[i]] : i \in 1 .. Len(n.kids)}
Held(n, V) == Own(n) \cup Beneath(n, V)

-----------------------------------------------------------------------------
(* Sequences                                                                  *)

(* t is s without its element at p.                                           *)
Removed(s, p, t) ==
    /\ Len(t) = Len(s) - 1
    /\ \A i \in 1 .. p - 1 : t[i] = s[i]
    /\ \A i \in p .. Len(s) - 1 : t[i] = s[i + 1]

(* What RemoveAt of the community modules leaves.                             *)
LEMMA RemovedElement ==
    ASSUME NEW S, NEW s \in Seq(S), NEW p \in 1 .. Len(s)
    PROVE  RemoveAt(s, p) \in Seq(S) /\ Removed(s, p, RemoveAt(s, p))
<1> DEFINE n == p - 1
           u == SubSeq(s, 1, n)
           v == SubSeq(s, p + 1, Len(s))
           w == u \o v
<1>1. Len(s) \in Nat /\ p \in Nat /\ n \in 0 .. Len(s) /\ p = n + 1 /\ p \in 0 .. Len(s)
  BY LenProperties
<1>2. RemoveAt(s, p) = w
  BY <1>1 DEF RemoveAt
<1> HIDE DEF n
<1>3. /\ u \in Seq(S) /\ Len(u) = n
      /\ \A i \in 1 .. n : u[i] = s[i]
  BY <1>1, CutInTwo
<1>4. /\ v \in Seq(S) /\ Len(v) = Len(s) - p
      /\ \A i \in 1 .. Len(s) - p : v[i] = s[p + i]
  BY <1>1, CutInTwo
<1> HIDE DEF u, v
<1>5. /\ w \in Seq(S) /\ Len(w) = Len(s) - 1
      /\ \A i \in 1 .. Len(s) - 1 : w[i] = IF i <= n THEN u[i] ELSE v[i - n]
  <2>1. /\ w \in Seq(S) /\ Len(w) = Len(u) + Len(v)
        /\ \A i \in 1 .. Len(u) + Len(v) :
               w[i] = IF i <= Len(u) THEN u[i] ELSE v[i - Len(u)]
    BY <1>3, <1>4, ConcatProperties
  <2> QED
    BY <1>1, <1>3, <1>4, <2>1
<1> HIDE DEF w
<1>6. ASSUME NEW i \in 1 .. p - 1 PROVE w[i] = s[i]
  <2>1. i \in 1 .. Len(s) - 1 /\ i <= n /\ i \in 1 .. n
    BY <1>1
  <2> QED
    BY <1>3, <1>5, <2>1
<1>7. ASSUME NEW i \in p .. Len(s) - 1 PROVE w[i] = s[i + 1]
  <2>1. i \in 1 .. Len(s) - 1 /\ ~(i <= n) /\ i - n \in 1 .. Len(s) - p /\ p + (i - n) = i + 1
    BY <1>1
  <2> QED
    BY <1>4, <1>5, <2>1
<1> QED
  BY <1>2, <1>5, <1>6, <1>7 DEF Removed

(* Two neighbours put in the place of one: what splitNode does to the         *)
(* children.                                                                  *)
TwoForOne(s, p, a, b, t) ==
    /\ Len(t) = Len(s) + 1
    /\ \A i \in 1 .. p - 1 : t[i] = s[i]
    /\ t[p] = a /\ t[p + 1] = b
    /\ \A i \in p + 2 .. Len(s) + 1 : t[i] = s[i - 1]

(* An element replaced by two.                                                *)
LEMMA SplitElement ==
    ASSUME NEW S, NEW s \in Seq(S), NEW p \in 1 .. Len(s), NEW a \in S, NEW b \in S
    PROVE  LET t == InsertAt(ReplaceAt(s, p, a), p + 1, b)
           IN  t \in Seq(S) /\ TwoForOne(s, p, a, b, t)
<1> DEFINE r == ReplaceAt(s, p, a)
           q == p + 1
           t == InsertAt(r, q, b)
<1>1. Len(s) \in Nat /\ p \in Nat
  BY LenProperties
<1>2. /\ r \in Seq(S) /\ Len(r) = Len(s)
      /\ \A j \in 1 .. Len(s) : r[j] = IF j = p THEN a ELSE s[j]
  BY ExceptSeq DEF ReplaceAt
<1> HIDE DEF r
<1>3. q \in 1 .. Len(r) + 1 /\ q = p + 1
  BY <1>1, <1>2
<1> HIDE DEF q
<1>4. t \in Seq(S) /\ Inserted(r, q, b, t)
  BY <1>2, <1>3, InsertedElement
<1> HIDE DEF t
<1>5. /\ Len(t) = Len(s) + 1 /\ t[p + 1] = b
      /\ \A i \in 1 .. p : t[i] = r[i]
      /\ \A i \in p + 2 .. Len(s) + 1 : t[i] = r[i - 1]
  BY <1>1, <1>2, <1>3, <1>4 DEF Inserted
<1>6. t[p] = a
  BY <1>1, <1>2, <1>5
<1>7. ASSUME NEW i \in 1 .. p - 1 PROVE t[i] = s[i]
  <2>1. i \in 1 .. p /\ i \in 1 .. Len(s) /\ i # p
    BY <1>1
  <2> QED
    BY <1>2, <1>5, <2>1
<1>8. ASSUME NEW i \in p + 2 .. Len(s) + 1 PROVE t[i] = s[i - 1]
  <2>1. i - 1 \in 1 .. Len(s) /\ i - 1 # p
    BY <1>1
  <2> QED
    BY <1>2, <1>5, <2>1
<1>9. TwoForOne(s, p, a, b, t)
  BY <1>5, <1>6, <1>7, <1>8 DEF TwoForOne
<1> QED
  BY <1>4, <1>9 DEF t, q, r

(* One in the place of two neighbours: what mergeNode does to the children.   *)
OneForTwo(s, p, a, t) ==
    /\ Len(t) = Len(s) - 1
    /\ \A i \in 1 .. p - 1 : t[i] = s[i]
    /\ t[p] = a
    /\ \A i \in p + 1 .. Len(s) - 1 : t[i] = s[i + 1]

(* Two elements replaced by one.                                              *)
LEMMA JoinedElement ==
    ASSUME NEW S, NEW s \in Seq(S), NEW p \in 1 .. Len(s) - 1, NEW a \in S
    PROVE  LET t == RemoveAt(ReplaceAt(s, p, a), p + 1)
           IN  t \in Seq(S) /\ OneForTwo(s, p, a, t)
<1> DEFINE r == ReplaceAt(s, p, a)
           q == p + 1
           t == RemoveAt(r, q)
<1>1. Len(s) \in Nat /\ p \in Nat /\ p \in 1 .. Len(s)
  BY LenProperties
<1>2. /\ r \in Seq(S) /\ Len(r) = Len(s)
      /\ \A j \in 1 .. Len(s) : r[j] = IF j = p THEN a ELSE s[j]
  BY <1>1, ExceptSeq DEF ReplaceAt
<1> HIDE DEF r
<1>3. q \in 1 .. Len(r) /\ q = p + 1
  BY <1>1, <1>2
<1> HIDE DEF q
<1>4. t \in Seq(S) /\ Removed(r, q, t)
  BY <1>2, <1>3, RemovedElement
<1> HIDE DEF t
<1>5. /\ Len(t) = Len(s) - 1
      /\ \A i \in 1 .. p : t[i] = r[i]
      /\ \A i \in p + 1 .. Len(s) - 1 : t[i] = r[i + 1]
  BY <1>1, <1>2, <1>3, <1>4 DEF Removed
<1>6. t[p] = a
  BY <1>1, <1>2, <1>5
<1>7. ASSUME NEW i \in 1 .. p - 1 PROVE t[i] = s[i]
  <2>1. i \in 1 .. p /\ i \in 1 .. Len(s) /\ i # p
    BY <1>1
  <2> QED
    BY <1>2, <1>5, <2>1
<1>8. ASSUME NEW i \in p + 1 .. Len(s) - 1 PROVE t[i] = s[i + 1]
  <2>1. i + 1 \in 1 .. Len(s) /\ i + 1 # p
    BY <1>1
  <2> QED
    BY <1>2, <1>5, <2>1
<1>9. OneForTwo(s, p, a, t)
  BY <1>5, <1>6, <1>7, <1>8 DEF OneForTwo
<1> QED
  BY <1>4, <1>9 DEF t, q, r

(* The fields of a node.                                                      *)
LEMMA NodeFacts ==
    ASSUME NEW leaf, NEW T, NEW n \in Nodes(leaf, T)
    PROVE  /\ n.leaf = leaf /\ n.keys \in Seq(Int) /\ n.kids \in Seq(T)
           /\ n = Node(leaf, n.keys, n.kids)
           /\ Len(n.keys) \in Nat /\ Len(n.kids) \in Nat
           /\ Len(n.kids) = KidCount(leaf, Len(n.keys))
           /\ Len(n.kids) = IF leaf THEN 0 ELSE Len(n.keys) + 1
           /\ \A i \in 1 .. Len(n.keys) : n.keys[i] \in Int
           /\ \A i \in 1 .. Len(n.kids) : n.kids[i] \in T
<1>1. /\ n.leaf = leaf /\ n.keys \in Seq(Int) /\ n.kids \in Seq(T)
      /\ n = Node(leaf, n.keys, n.kids)
      /\ Len(n.kids) = KidCount(leaf, Len(n.keys))
  BY DEF Nodes, Node
<1>2. Len(n.kids) = IF leaf THEN 0 ELSE Len(n.keys) + 1
  BY <1>1 DEF KidCount
<1> QED
  BY <1>1, <1>2, ElementOfSeq, LenProperties

(* A node put together from its fields.                                       *)
LEMMA NodeMade ==
    ASSUME NEW leaf, NEW T, NEW keys \in Seq(Int), NEW kids \in Seq(T),
           Len(kids) = KidCount(leaf, Len(keys))
    PROVE  /\ Node(leaf, keys, kids) \in Nodes(leaf, T)
           /\ Node(leaf, keys, kids).keys = keys /\ Node(leaf, keys, kids).kids = kids
BY DEF Nodes, Node

(* The nodes have no children.                                                *)
Bottom(leaf) == \A k \in Nat : KidCount(leaf, k) = 0

(* A node at the bottom has no children.                                      *)
LEMMA LeafAlone ==
    ASSUME NEW leaf, NEW T, NEW n \in Nodes(leaf, T), Bottom(leaf)
    PROVE  Len(n.kids) = 0
BY NodeFacts DEF Bottom

(* The nodes have a child more than keys.                                     *)
Inside(leaf) == \A k \in Nat : KidCount(leaf, k) = k + 1

(* Any other has a child more than it has keys.                               *)
LEMMA InnerKids ==
    ASSUME NEW leaf, NEW T, NEW n \in Nodes(leaf, T), Inside(leaf)
    PROVE  Len(n.kids) = Len(n.keys) + 1
BY NodeFacts DEF Inside

(* The flag of a node says which of the two it is.                            *)
LEMMA InnerOrLeaf ==
    ASSUME NEW leaf
    PROVE  (leaf => Bottom(leaf)) /\ (~leaf => Inside(leaf))
BY DEF Bottom, Inside, KidCount

(* The subtrees of a search tree lie apart, and its keys between them.        *)
LEMMA Apart ==
    ASSUME NEW leaf, NEW T, NEW V, NEW n \in Nodes(leaf, T), Ordered(n, V)
    PROVE  /\ \A i \in 1 .. Len(n.kids), j \in 1 .. Len(n.keys) : n.keys[j] \notin V[n.kids[i]]
           /\ \A i, j \in 1 .. Len(n.kids) : i # j => V[n.kids[i]] \cap V[n.kids[j]] = {}
<1>1. /\ Len(n.keys) \in Nat /\ Len(n.kids) \in Nat
      /\ Len(n.kids) = IF leaf THEN 0 ELSE Len(n.keys) + 1
      /\ \A i \in 1 .. Len(n.keys) : n.keys[i] \in Int
  BY NodeFacts
<1>2. ASSUME NEW i \in 1 .. Len(n.kids), NEW x \in V[n.kids[i]]
      PROVE  /\ x \in Int
             /\ \A j \in 1 .. i - 1 : n.keys[j] < x
             /\ \A j \in i .. Len(n.keys) : x < n.keys[j]
  BY <1>2 DEF Ordered, Gap
<1>3. ASSUME NEW i \in 1 .. Len(n.kids), NEW j \in 1 .. Len(n.keys)
      PROVE  n.keys[j] \notin V[n.kids[i]]
  <2> SUFFICES ASSUME n.keys[j] \in V[n.kids[i]] PROVE FALSE
    OBVIOUS
  <2>1. j \in 1 .. i - 1 \/ j \in i .. Len(n.keys)
    BY <1>1
  <2>2. n.keys[j] < n.keys[j]
    BY <1>2, <2>1
  <2> QED
    BY <1>1, <2>2
<1>4. ASSUME NEW i \in 1 .. Len(n.kids), NEW j \in 1 .. Len(n.kids), i < j,
             NEW x \in V[n.kids[i]], x \in V[n.kids[j]]
      PROVE  FALSE
  <2>1. i \in 1 .. j - 1 /\ i \in i .. Len(n.keys) /\ i \in 1 .. Len(n.keys)
    BY <1>1, <1>4
  <2>3. n.keys[i] < x
    BY <1>2, <1>4, <2>1
  <2>4. x \in Int /\ x < n.keys[i]
    BY <1>2, <1>4, <2>1
  <2>2. n.keys[i] < x /\ x < n.keys[i] /\ x \in Int /\ n.keys[i] \in Int
    BY <1>1, <2>1, <2>3, <2>4
  <2> QED
    BY <2>2
<1>5. ASSUME NEW i \in 1 .. Len(n.kids), NEW j \in 1 .. Len(n.kids), i # j
      PROVE  V[n.kids[i]] \cap V[n.kids[j]] = {}
  <2>1. i < j \/ j < i
    BY <1>1, <1>5
  <2> QED
    BY <1>4, <2>1
<1> QED
  BY <1>3, <1>5

(* One subtree in the place of another, as long as what it holds fits.        *)
LEMMA KidReplaced ==
    ASSUME NEW leaf, NEW T, NEW V, NEW n \in Nodes(leaf, T), Ordered(n, V),
           NEW pos \in 1 .. Len(n.kids), NEW c \in T, V[c] \subseteq Gap(n, pos),
           NEW m, m = [n EXCEPT !.kids[pos] = c]
    PROVE  /\ m \in Nodes(leaf, T) /\ Ordered(m, V) /\ m.keys = n.keys
           /\ m.kids[pos] = c /\ Len(m.kids) = Len(n.kids)
           /\ \A i \in 1 .. Len(n.kids) : i # pos => m.kids[i] = n.kids[i]
           /\ Held(m, V) = (Held(n, V) \ V[n.kids[pos]]) \cup V[c]
<1> DEFINE C == [n.kids EXCEPT ![pos] = c]
<1>1. /\ n.leaf = leaf /\ n.keys \in Seq(Int) /\ n.kids \in Seq(T)
      /\ n = Node(leaf, n.keys, n.kids)
      /\ Len(n.keys) \in Nat /\ Len(n.kids) \in Nat
      /\ Len(n.kids) = KidCount(leaf, Len(n.keys))
  BY NodeFacts
<1>2. /\ C \in Seq(T) /\ Len(C) = Len(n.kids)
      /\ \A j \in 1 .. Len(n.kids) : C[j] = IF j = pos THEN c ELSE n.kids[j]
  BY <1>1, ExceptSeq
<1>3. m = Node(leaf, n.keys, C)
  BY <1>1 DEF Node
<1> HIDE DEF C
<1>4. m \in Nodes(leaf, T) /\ m.keys = n.keys /\ m.kids = C
  <2>1. n.keys \in Seq(Int) /\ C \in Seq(T) /\ Len(C) = KidCount(leaf, Len(n.keys))
    BY <1>1, <1>2
  <2>2. /\ Node(leaf, n.keys, C) \in Nodes(leaf, T)
        /\ Node(leaf, n.keys, C).keys = n.keys /\ Node(leaf, n.keys, C).kids = C
    BY <2>1, NodeMade
  <2> QED
    BY <1>3, <2>2
<1>5. \A i : Gap(m, i) = Gap(n, i)
  BY <1>4 DEF Gap
<1>6. Ordered(m, V)
  <2>1. ASSUME NEW i \in 1 .. Len(C) PROVE V[C[i]] \subseteq Gap(n, i)
    BY <1>2 DEF Ordered
  <2> QED
    BY <1>4, <1>5, <2>1 DEF Ordered
<1>7. /\ \A i \in 1 .. Len(n.kids), j \in 1 .. Len(n.keys) : n.keys[j] \notin V[n.kids[i]]
      /\ \A i, j \in 1 .. Len(n.kids) : i # j => V[n.kids[i]] \cap V[n.kids[j]] = {}
  BY Apart
<1>8. Beneath(m, V) = (Beneath(n, V) \ V[n.kids[pos]]) \cup V[c]
  <2>1. ASSUME NEW x \in Beneath(m, V)
        PROVE  x \in (Beneath(n, V) \ V[n.kids[pos]]) \cup V[c]
    <3>1. PICK i \in 1 .. Len(C) : x \in V[C[i]]
      BY <1>4 DEF Beneath
    <3>2. CASE i = pos
      BY <1>2, <3>1, <3>2
    <3>3. CASE i # pos
      <4>1. i \in 1 .. Len(n.kids) /\ x \in V[n.kids[i]] /\ x \notin V[n.kids[pos]]
        BY <1>2, <1>7, <3>1, <3>3
      <4> QED
        BY <4>1 DEF Beneath
    <3> QED
      BY <3>2, <3>3
  <2>2. ASSUME NEW x \in Beneath(n, V), x \notin V[n.kids[pos]] PROVE x \in Beneath(m, V)
    <3>1. PICK i \in 1 .. Len(n.kids) : x \in V[n.kids[i]]
      BY <2>2 DEF Beneath
    <3>2. i \in 1 .. Len(C) /\ C[i] = n.kids[i]
      BY <1>2, <2>2, <3>1
    <3> QED
      BY <1>4, <3>1, <3>2 DEF Beneath
  <2>3. V[c] \subseteq Beneath(m, V)
    <3>1. pos \in 1 .. Len(C) /\ C[pos] = c
      BY <1>2
    <3> QED
      BY <1>4, <3>1 DEF Beneath
  <2> QED
    BY <2>1, <2>2, <2>3
<1>9. Own(n) \cap V[n.kids[pos]] = {} /\ Own(m) = Own(n)
  BY <1>4, <1>7 DEF Own
<1>10. Held(m, V) = (Held(n, V) \ V[n.kids[pos]]) \cup V[c]
  BY <1>8, <1>9 DEF Held
<1> QED
  BY <1>2, <1>4, <1>6, <1>10

-----------------------------------------------------------------------------
(* A parent and its children                                                  *)

(* The keys of n ascend, and stand between its subtrees.                      *)
LEMMA OrderFacts ==
    ASSUME NEW leaf, NEW T, NEW V, NEW n \in Nodes(leaf, T), Ordered(n, V)
    PROVE  /\ \A i, j \in 1 .. Len(n.keys) : i < j => n.keys[i] < n.keys[j]
           /\ \A i \in 1 .. Len(n.kids) : \A x \in V[n.kids[i]] :
                 /\ x \in Int
                 /\ \A j \in 1 .. i - 1 : n.keys[j] < x
                 /\ \A j \in i .. Len(n.keys) : x < n.keys[j]
BY DEF Ordered, Ascending, Gap

(* A child split in two, with a key between the halves.                       *)
Halves(n, V, pos, a, k, b) ==
    /\ V[n.kids[pos]] = V[a] \cup {k} \cup V[b]
    /\ \A x \in V[a] : x < k
    /\ \A x \in V[b] : k < x

(* n after the split of its child at pos into a and b, around the key k.      *)
RowOfSplit(n, pos, a, k, b) ==
    [n EXCEPT !.keys = InsertAt(@, pos, k), !.kids = InsertAt(ReplaceAt(@, pos, a), pos + 1, b)]

(* The parent, after the split of one of its children.                        *)
LEMMA RowSplit ==
    ASSUME NEW leaf, Inside(leaf), NEW T, NEW V, NEW n \in Nodes(leaf, T), Ordered(n, V),
           NEW pos \in 1 .. Len(n.kids), NEW a \in T, NEW b \in T, NEW k \in Int,
           Halves(n, V, pos, a, k, b),
           NEW m, m = RowOfSplit(n, pos, a, k, b)
    PROVE  /\ m \in Nodes(leaf, T) /\ Ordered(m, V) /\ Held(m, V) = Held(n, V)
           /\ Len(m.keys) = Len(n.keys) + 1
           /\ TwoForOne(n.kids, pos, a, b, m.kids)
<1> DEFINE K == InsertAt(n.keys, pos, k)
           C == InsertAt(ReplaceAt(n.kids, pos, a), pos + 1, b)
<1>1. /\ n.leaf = leaf /\ n.keys \in Seq(Int) /\ n.kids \in Seq(T)
      /\ n = Node(leaf, n.keys, n.kids)
      /\ Len(n.keys) \in Nat /\ Len(n.kids) \in Nat
      /\ Len(n.kids) = Len(n.keys) + 1
      /\ \A i \in 1 .. Len(n.keys) : n.keys[i] \in Int
  BY NodeFacts, InnerKids
<1>2. m = Node(leaf, K, C)
  BY <1>1 DEF Node, RowOfSplit
<1>3. K \in Seq(Int) /\ Inserted(n.keys, pos, k, K)
  BY <1>1, InsertedElement
<1>4. C \in Seq(T) /\ TwoForOne(n.kids, pos, a, b, C)
  BY <1>1, SplitElement
<1> HIDE DEF K, C
<1>5. m \in Nodes(leaf, T) /\ m.keys = K /\ m.kids = C
  <2>1. Len(C) = KidCount(leaf, Len(K))
    BY <1>1, <1>3, <1>4 DEF Inserted, TwoForOne, Inside
  <2>2. /\ Node(leaf, K, C) \in Nodes(leaf, T)
        /\ Node(leaf, K, C).keys = K /\ Node(leaf, K, C).kids = C
    BY <1>3, <1>4, <2>1, NodeMade
  <2> QED
    BY <1>2, <2>2
<1>6. /\ Len(K) = Len(n.keys) + 1 /\ pos \in 1 .. Len(K)
      /\ K[pos] = k
      /\ \A i \in 1 .. Len(K) : i < pos => i \in 1 .. Len(n.keys) /\ K[i] = n.keys[i]
      /\ \A i \in 1 .. Len(K) : i > pos => i - 1 \in 1 .. Len(n.keys) /\ K[i] = n.keys[i - 1]
  <2>1. Len(K) = Len(n.keys) + 1 /\ pos \in 1 .. Len(K) /\ K[pos] = k
    BY <1>1, <1>3 DEF Inserted
  <2>2. ASSUME NEW i \in 1 .. Len(K), i < pos PROVE i \in 1 .. Len(n.keys) /\ K[i] = n.keys[i]
    <3>1. i \in 1 .. Len(n.keys) /\ i \in 1 .. pos - 1
      BY <1>1, <2>1, <2>2
    <3> QED
      BY <1>3, <3>1 DEF Inserted
  <2>3. ASSUME NEW i \in 1 .. Len(K), i > pos
        PROVE  i - 1 \in 1 .. Len(n.keys) /\ K[i] = n.keys[i - 1]
    <3>1. i - 1 \in 1 .. Len(n.keys) /\ i \in pos + 1 .. Len(n.keys) + 1
      BY <1>1, <2>1, <2>3
    <3> QED
      BY <1>3, <3>1 DEF Inserted
  <2> QED
    BY <2>1, <2>2, <2>3
<1>7. /\ Len(C) = Len(n.kids) + 1 /\ pos \in 1 .. Len(C) /\ pos + 1 \in 1 .. Len(C)
      /\ C[pos] = a /\ C[pos + 1] = b
      /\ \A i \in 1 .. Len(C) : i < pos => i \in 1 .. Len(n.kids) /\ C[i] = n.kids[i]
      /\ \A i \in 1 .. Len(C) : i > pos + 1 => i - 1 \in 1 .. Len(n.kids) /\ C[i] = n.kids[i - 1]
  <2>1. /\ Len(C) = Len(n.kids) + 1 /\ pos \in 1 .. Len(C) /\ pos + 1 \in 1 .. Len(C)
        /\ C[pos] = a /\ C[pos + 1] = b
    BY <1>1, <1>4 DEF TwoForOne
  <2>2. ASSUME NEW i \in 1 .. Len(C), i < pos PROVE i \in 1 .. Len(n.kids) /\ C[i] = n.kids[i]
    <3>1. i \in 1 .. Len(n.kids) /\ i \in 1 .. pos - 1
      BY <1>1, <2>1, <2>2
    <3> QED
      BY <1>4, <3>1 DEF TwoForOne
  <2>3. ASSUME NEW i \in 1 .. Len(C), i > pos + 1
        PROVE  i - 1 \in 1 .. Len(n.kids) /\ C[i] = n.kids[i - 1]
    <3>1. i - 1 \in 1 .. Len(n.kids) /\ i \in pos + 2 .. Len(n.kids) + 1
      BY <1>1, <2>1, <2>3
    <3> QED
      BY <1>4, <3>1 DEF TwoForOne
  <2> QED
    BY <2>1, <2>2, <2>3
<1>8. /\ \A i, j \in 1 .. Len(n.keys) : i < j => n.keys[i] < n.keys[j]
      /\ \A i \in 1 .. Len(n.kids) : \A x \in V[n.kids[i]] :
            /\ x \in Int
            /\ \A j \in 1 .. i - 1 : n.keys[j] < x
            /\ \A j \in i .. Len(n.keys) : x < n.keys[j]
  BY OrderFacts
<1>9. \A x \in V[a] \cup {k} \cup V[b] :
          /\ x \in Int
          /\ \A j \in 1 .. pos - 1 : n.keys[j] < x
          /\ \A j \in pos .. Len(n.keys) : x < n.keys[j]
  BY <1>8 DEF Halves
<1>10. /\ \A j \in 1 .. pos - 1 : n.keys[j] < k
       /\ \A j \in pos .. Len(n.keys) : k < n.keys[j]
  BY <1>9
<1>11. Ascending(K)
  <2>1. ASSUME NEW i \in 1 .. Len(K), NEW j \in 1 .. Len(K), i < j PROVE K[i] < K[j]
    <3>1. CASE j < pos
      <4>1. i < pos
        BY <2>1, <3>1
      <4> QED
        BY <1>6, <1>8, <2>1, <3>1, <4>1
    <3>2. CASE j = pos
      <4>1. i < pos /\ i \in 1 .. pos - 1
        BY <2>1, <3>2
      <4> QED
        BY <1>6, <1>10, <3>2, <4>1
    <3>3. CASE j > pos /\ i < pos
      <4>1. i < j - 1 \/ i = j - 1
        BY <3>3
      <4>2. K[i] = n.keys[i] /\ K[j] = n.keys[j - 1]
        BY <1>6, <3>3
      <4>3. n.keys[i] < k /\ k < n.keys[j - 1]
        <5>1. i \in 1 .. pos - 1 /\ j - 1 \in pos .. Len(n.keys)
          BY <1>6, <3>3
        <5> QED
          BY <1>10, <5>1
      <4>4. n.keys[i] \in Int /\ n.keys[j - 1] \in Int
        BY <1>1, <1>6, <3>3
      <4> QED
        BY <4>2, <4>3, <4>4
    <3>4. CASE j > pos /\ i = pos
      <4>1. j - 1 \in pos .. Len(n.keys)
        BY <1>6, <3>4
      <4> QED
        BY <1>6, <1>10, <3>4, <4>1
    <3>5. CASE j > pos /\ i > pos
      <4>1. i - 1 < j - 1
        BY <2>1
      <4> QED
        BY <1>6, <1>8, <3>5, <4>1
    <3> QED
      BY <3>1, <3>2, <3>3, <3>4, <3>5
  <2> QED
    BY <2>1 DEF Ascending
<1>12. ASSUME NEW i \in 1 .. Len(C), NEW x \in V[C[i]] PROVE x \in Gap(m, i)
  <2> SUFFICES /\ x \in Int
               /\ \A j \in 1 .. i - 1 : K[j] < x
               /\ \A j \in i .. Len(K) : x < K[j]
    BY <1>5 DEF Gap
  <2>1. CASE i < pos
    <3>1. i \in 1 .. Len(n.kids) /\ x \in V[n.kids[i]] /\ i \in 1 .. Len(n.keys)
      <4>1. i \in 1 .. Len(n.kids) /\ C[i] = n.kids[i]
        BY <1>7, <2>1
      <4>2. i \in 1 .. Len(n.keys)
        BY <1>1, <2>1
      <4> QED
        BY <1>12, <4>1, <4>2
    <3>2. ASSUME NEW j \in 1 .. i - 1 PROVE K[j] < x
      <4>1. j \in 1 .. Len(K) /\ j < pos
        BY <1>6, <2>1
      <4> QED
        BY <1>6, <1>8, <3>1, <4>1
    <3>3. ASSUME NEW j \in i .. Len(K) PROVE x < K[j]
      <4>1. CASE j < pos
        <5>1. j \in 1 .. Len(K) /\ j \in i .. Len(n.keys) /\ K[j] = n.keys[j]
          BY <1>6, <4>1
        <5> QED
          BY <1>8, <3>1, <5>1
      <4>2. CASE j = pos
        <5>1. x < n.keys[i] /\ i \in 1 .. pos - 1
          BY <1>8, <2>1, <3>1
        <5>2. n.keys[i] < k /\ n.keys[i] \in Int /\ x \in Int
          BY <1>1, <1>8, <1>10, <3>1, <5>1
        <5> QED
          BY <1>6, <4>2, <5>1, <5>2
      <4>3. CASE j > pos
        <5>1. j \in 1 .. Len(K) /\ j - 1 \in i .. Len(n.keys) /\ K[j] = n.keys[j - 1]
          BY <1>6, <2>1, <4>3
        <5> QED
          BY <1>8, <3>1, <5>1
      <4> QED
        BY <4>1, <4>2, <4>3
    <3> QED
      BY <1>8, <3>1, <3>2, <3>3
  <2>2. CASE i = pos
    <3>1. x \in V[a] /\ x < k
      BY <1>7, <1>12, <2>2 DEF Halves
    <3>2. ASSUME NEW j \in 1 .. i - 1 PROVE K[j] < x
      <4>1. j \in 1 .. Len(K) /\ j < pos /\ j \in 1 .. pos - 1
        BY <1>6, <2>2
      <4> QED
        BY <1>6, <1>9, <3>1, <4>1
    <3>3. ASSUME NEW j \in i .. Len(K) PROVE x < K[j]
      <4>1. CASE j = pos
        BY <1>6, <3>1, <4>1
      <4>2. CASE j > pos
        <5>1. j \in 1 .. Len(K) /\ j - 1 \in pos .. Len(n.keys) /\ K[j] = n.keys[j - 1]
          BY <1>6, <4>2
        <5> QED
          BY <1>9, <3>1, <5>1
      <4> QED
        BY <2>2, <4>1, <4>2
    <3> QED
      BY <1>9, <3>1, <3>2, <3>3
  <2>3. CASE i = pos + 1
    <3>1. x \in V[b] /\ k < x
      BY <1>7, <1>12, <2>3 DEF Halves
    <3>2. ASSUME NEW j \in 1 .. i - 1 PROVE K[j] < x
      <4>1. CASE j = pos
        BY <1>6, <3>1, <4>1
      <4>2. CASE j < pos
        <5>1. j \in 1 .. Len(K) /\ j \in 1 .. pos - 1
          BY <1>6, <4>2
        <5> QED
          BY <1>6, <1>9, <3>1, <4>2, <5>1
      <4> QED
        BY <2>3, <4>1, <4>2
    <3>3. ASSUME NEW j \in i .. Len(K) PROVE x < K[j]
      <4>1. j \in 1 .. Len(K) /\ j > pos /\ j - 1 \in pos .. Len(n.keys)
        BY <1>6, <2>3
      <4> QED
        BY <1>6, <1>9, <3>1, <4>1
    <3> QED
      BY <1>9, <3>1, <3>2, <3>3
  <2>4. CASE i > pos + 1
    <3>1. i - 1 \in 1 .. Len(n.kids) /\ x \in V[n.kids[i - 1]] /\ i - 1 > pos
      BY <1>7, <1>12, <2>4
    <3>2. ASSUME NEW j \in 1 .. i - 1 PROVE K[j] < x
      <4>1. CASE j < pos
        <5>1. j \in 1 .. Len(K) /\ j \in 1 .. (i - 1) - 1 /\ K[j] = n.keys[j]
          BY <1>6, <3>1, <4>1
        <5> QED
          BY <1>8, <3>1, <5>1
      <4>2. CASE j = pos
        <5>1. pos \in 1 .. (i - 1) - 1 /\ pos \in pos .. Len(n.keys)
          BY <1>1, <3>1
        <5>2. n.keys[pos] < x /\ k < n.keys[pos] /\ n.keys[pos] \in Int /\ x \in Int
          <6>1. n.keys[pos] < x /\ x \in Int
            BY <1>8, <3>1, <5>1
          <6>2. k < n.keys[pos]
            BY <1>10, <5>1
          <6>3. n.keys[pos] \in Int
            <7>1. pos \in 1 .. Len(n.keys)
              BY <5>1
            <7> QED
              BY <1>1, <7>1
          <6> QED
            BY <6>1, <6>2, <6>3
        <5> QED
          BY <1>6, <4>2, <5>2
      <4>3. CASE j > pos
        <5>1. j \in 1 .. Len(K) /\ j - 1 \in 1 .. (i - 1) - 1 /\ K[j] = n.keys[j - 1]
          <6>1. j \in 1 .. Len(K)
            BY <1>1, <1>6, <3>1
          <6> QED
            BY <1>6, <4>3, <6>1
        <5> QED
          BY <1>8, <3>1, <5>1
      <4> QED
        BY <4>1, <4>2, <4>3
    <3>3. ASSUME NEW j \in i .. Len(K) PROVE x < K[j]
      <4>1. j \in 1 .. Len(K) /\ j > pos /\ j - 1 \in i - 1 .. Len(n.keys)
        BY <1>6, <3>1
      <4> QED
        BY <1>6, <1>8, <3>1, <4>1
    <3> QED
      BY <1>8, <3>1, <3>2, <3>3
  <2> QED
    BY <2>1, <2>2, <2>3, <2>4
<1>13. Ordered(m, V)
  BY <1>5, <1>11, <1>12 DEF Ordered
<1>14. ASSUME NEW x \in Held(m, V) PROVE x \in Held(n, V)
  <2>1. CASE x \in Own(m)
    <3>1. PICK i \in 1 .. Len(K) : x = K[i]
      BY <1>5, <2>1 DEF Own
    <3>2. CASE i = pos
      <4>1. x \in V[n.kids[pos]]
        BY <1>6, <3>1, <3>2 DEF Halves
      <4> QED
        BY <4>1 DEF Held, Beneath
    <3>3. CASE i # pos
      <4>1. \E j \in 1 .. Len(n.keys) : x = n.keys[j]
        <5>1. i < pos \/ i > pos
          BY <3>3
        <5> QED
          BY <1>6, <3>1, <5>1
      <4> QED
        BY <4>1 DEF Held, Own
    <3> QED
      BY <3>2, <3>3
  <2>2. CASE x \in Beneath(m, V)
    <3>1. PICK i \in 1 .. Len(C) : x \in V[C[i]]
      BY <1>5, <2>2 DEF Beneath
    <3>2. \E j \in 1 .. Len(n.kids) : x \in V[n.kids[j]]
      <4>1. i < pos \/ i = pos \/ i = pos + 1 \/ i > pos + 1
        OBVIOUS
      <4> QED
        BY <1>7, <3>1, <4>1 DEF Halves
    <3> QED
      BY <3>2 DEF Held, Beneath
  <2> QED
    BY <2>1, <2>2 DEF Held
<1>15. ASSUME NEW x \in Held(n, V) PROVE x \in Held(m, V)
  <2>1. CASE x \in Own(n)
    <3>1. PICK i \in 1 .. Len(n.keys) : x = n.keys[i]
      BY <2>1 DEF Own
    <3>2. \E j \in 1 .. Len(K) : x = K[j]
      <4>1. CASE i < pos
        <5>1. i \in 1 .. Len(K)
          BY <1>6
        <5> QED
          BY <1>6, <3>1, <4>1, <5>1
      <4>2. CASE ~(i < pos)
        <5>1. i + 1 \in 1 .. Len(K) /\ i + 1 > pos /\ (i + 1) - 1 = i
          BY <1>6, <4>2
        <5> QED
          BY <1>6, <3>1, <5>1
      <4> QED
        BY <4>1, <4>2
    <3> QED
      BY <1>5, <3>2 DEF Held, Own
  <2>2. CASE x \in Beneath(n, V)
    <3>1. PICK i \in 1 .. Len(n.kids) : x \in V[n.kids[i]]
      BY <2>2 DEF Beneath
    <3>2. CASE i = pos
      <4>1. x \in V[a] \/ x = k \/ x \in V[b]
        BY <3>1, <3>2 DEF Halves
      <4>2. CASE x = k
        BY <1>5, <1>6, <4>2 DEF Held, Own
      <4>3. CASE x \in V[a] \/ x \in V[b]
        <5>1. \E j \in 1 .. Len(C) : x \in V[C[j]]
          BY <1>7, <4>3
        <5> QED
          BY <1>5, <5>1 DEF Held, Beneath
      <4> QED
        BY <4>1, <4>2, <4>3
    <3>3. CASE i # pos
      <4>1. \E j \in 1 .. Len(C) : x \in V[C[j]]
        <5>1. CASE i < pos
          <6>1. i \in 1 .. Len(C)
            BY <1>7
          <6> QED
            BY <1>7, <3>1, <5>1, <6>1
        <5>2. CASE i > pos
          <6>1. i + 1 \in 1 .. Len(C) /\ i + 1 > pos + 1 /\ (i + 1) - 1 = i
            BY <1>7, <5>2
          <6> QED
            BY <1>7, <3>1, <6>1
        <5> QED
          BY <3>3, <5>1, <5>2
      <4> QED
        BY <1>5, <4>1 DEF Held, Beneath
    <3> QED
      BY <3>2, <3>3
  <2> QED
    BY <2>1, <2>2 DEF Held
<1> QED
  BY <1>4, <1>5, <1>6, <1>13, <1>14, <1>15

(* The subtree c holds what the two children around the key at hold, and that *)
(* key.                                                                       *)
JoinedHold(n, V, at, c) == V[c] = V[n.kids[at]] \cup {n.keys[at]} \cup V[n.kids[at + 1]]
(* n after those two became c.                                                *)
RowOfJoin(n, at, c) ==
    [n EXCEPT !.keys = RemoveAt(@, at), !.kids = RemoveAt(ReplaceAt(@, at, c), at + 1)]

(* The parent, after the merge of two of its children.                        *)
LEMMA RowJoined ==
    ASSUME NEW leaf, Inside(leaf), NEW T, NEW V, NEW n \in Nodes(leaf, T), Ordered(n, V),
           NEW at \in 1 .. Len(n.keys), NEW c \in T,
           JoinedHold(n, V, at, c),
           NEW m, m = RowOfJoin(n, at, c)
    PROVE  /\ m \in Nodes(leaf, T) /\ Ordered(m, V) /\ Held(m, V) = Held(n, V)
           /\ Len(m.keys) = Len(n.keys) - 1
           /\ OneForTwo(n.kids, at, c, m.kids)
<1> DEFINE K == RemoveAt(n.keys, at)
           C == RemoveAt(ReplaceAt(n.kids, at, c), at + 1)
<1>0. V[c] = V[n.kids[at]] \cup {n.keys[at]} \cup V[n.kids[at + 1]]
  BY DEF JoinedHold
<1>1. /\ n.leaf = leaf /\ n.keys \in Seq(Int) /\ n.kids \in Seq(T)
      /\ n = Node(leaf, n.keys, n.kids)
      /\ Len(n.keys) \in Nat /\ Len(n.kids) \in Nat
      /\ Len(n.kids) = Len(n.keys) + 1
      /\ \A i \in 1 .. Len(n.keys) : n.keys[i] \in Int
      /\ at \in 1 .. Len(n.kids) - 1
  BY NodeFacts, InnerKids
<1>2. m = Node(leaf, K, C)
  BY <1>1 DEF Node, RowOfJoin
<1>3. K \in Seq(Int) /\ Removed(n.keys, at, K)
  BY <1>1, RemovedElement
<1>4. C \in Seq(T) /\ OneForTwo(n.kids, at, c, C)
  BY <1>1, JoinedElement
<1> HIDE DEF K, C
<1>5. m \in Nodes(leaf, T) /\ m.keys = K /\ m.kids = C
  <2>1. Len(C) = KidCount(leaf, Len(K))
    <3>1. Len(K) = Len(n.keys) - 1 /\ Len(C) = Len(n.kids) - 1
      BY <1>3, <1>4 DEF Removed, OneForTwo
    <3>2. Len(K) \in Nat /\ Len(C) = Len(K) + 1
      BY <1>1, <3>1
    <3> QED
      BY <3>2 DEF Inside
  <2>2. /\ Node(leaf, K, C) \in Nodes(leaf, T)
        /\ Node(leaf, K, C).keys = K /\ Node(leaf, K, C).kids = C
    BY <1>3, <1>4, <2>1, NodeMade
  <2> QED
    BY <1>2, <2>2
<1>6. /\ Len(K) = Len(n.keys) - 1 /\ Len(K) \in Nat
      /\ \A i \in 1 .. Len(K) : i < at => i \in 1 .. Len(n.keys) /\ K[i] = n.keys[i]
      /\ \A i \in 1 .. Len(K) : i >= at => i + 1 \in 1 .. Len(n.keys) /\ K[i] = n.keys[i + 1]
  <2>1. Len(K) = Len(n.keys) - 1 /\ Len(K) \in Nat
    BY <1>1, <1>3 DEF Removed
  <2>2. ASSUME NEW i \in 1 .. Len(K), i < at PROVE i \in 1 .. Len(n.keys) /\ K[i] = n.keys[i]
    <3>1. i \in 1 .. Len(n.keys) /\ i \in 1 .. at - 1
      BY <1>1, <2>1, <2>2
    <3> QED
      BY <1>3, <3>1 DEF Removed
  <2>3. ASSUME NEW i \in 1 .. Len(K), i >= at
        PROVE  i + 1 \in 1 .. Len(n.keys) /\ K[i] = n.keys[i + 1]
    <3>1. i + 1 \in 1 .. Len(n.keys) /\ i \in at .. Len(n.keys) - 1
      BY <1>1, <2>1, <2>3
    <3> QED
      BY <1>3, <3>1 DEF Removed
  <2> QED
    BY <2>1, <2>2, <2>3
<1>7. /\ Len(C) = Len(n.kids) - 1 /\ at \in 1 .. Len(C) /\ C[at] = c
      /\ \A i \in 1 .. Len(C) : i < at => i \in 1 .. Len(n.kids) /\ C[i] = n.kids[i]
      /\ \A i \in 1 .. Len(C) : i > at => i + 1 \in 1 .. Len(n.kids) /\ C[i] = n.kids[i + 1]
  <2>1. Len(C) = Len(n.kids) - 1 /\ at \in 1 .. Len(C) /\ C[at] = c
    BY <1>1, <1>4 DEF OneForTwo
  <2>2. ASSUME NEW i \in 1 .. Len(C), i < at PROVE i \in 1 .. Len(n.kids) /\ C[i] = n.kids[i]
    <3>1. i \in 1 .. Len(n.kids) /\ i \in 1 .. at - 1
      BY <1>1, <2>1, <2>2
    <3> QED
      BY <1>4, <3>1 DEF OneForTwo
  <2>3. ASSUME NEW i \in 1 .. Len(C), i > at
        PROVE  i + 1 \in 1 .. Len(n.kids) /\ C[i] = n.kids[i + 1]
    <3>1. i + 1 \in 1 .. Len(n.kids) /\ i \in at + 1 .. Len(n.kids) - 1
      BY <1>1, <2>1, <2>3
    <3> QED
      BY <1>4, <3>1 DEF OneForTwo
  <2> QED
    BY <2>1, <2>2, <2>3
<1>8. /\ \A i, j \in 1 .. Len(n.keys) : i < j => n.keys[i] < n.keys[j]
      /\ \A i \in 1 .. Len(n.kids) : \A x \in V[n.kids[i]] :
            /\ x \in Int
            /\ \A j \in 1 .. i - 1 : n.keys[j] < x
            /\ \A j \in i .. Len(n.keys) : x < n.keys[j]
  BY OrderFacts
<1>9. at \in 1 .. Len(n.kids) /\ at + 1 \in 1 .. Len(n.kids)
  BY <1>1
<1>10. \A x \in V[c] :
          /\ x \in Int
          /\ \A j \in 1 .. at - 1 : n.keys[j] < x
          /\ \A j \in at + 1 .. Len(n.keys) : x < n.keys[j]
  <2>1. ASSUME NEW x \in V[n.kids[at]]
        PROVE  /\ x \in Int
               /\ \A j \in 1 .. at - 1 : n.keys[j] < x
               /\ \A j \in at + 1 .. Len(n.keys) : x < n.keys[j]
    BY <1>8, <1>9, <2>1
  <2>2. ASSUME NEW x \in V[n.kids[at + 1]]
        PROVE  /\ x \in Int
               /\ \A j \in 1 .. at - 1 : n.keys[j] < x
               /\ \A j \in at + 1 .. Len(n.keys) : x < n.keys[j]
    BY <1>8, <1>9, <2>2
  <2>3. /\ n.keys[at] \in Int
        /\ \A j \in 1 .. at - 1 : n.keys[j] < n.keys[at]
        /\ \A j \in at + 1 .. Len(n.keys) : n.keys[at] < n.keys[j]
    <3>1. ASSUME NEW j \in 1 .. at - 1 PROVE n.keys[j] < n.keys[at]
      <4>1. j \in 1 .. Len(n.keys) /\ j < at
        BY <1>1
      <4> QED
        BY <1>8, <4>1
    <3>2. ASSUME NEW j \in at + 1 .. Len(n.keys) PROVE n.keys[at] < n.keys[j]
      <4>1. j \in 1 .. Len(n.keys) /\ at < j
        BY <1>1
      <4> QED
        BY <1>8, <4>1
    <3> QED
      BY <1>1, <3>1, <3>2
  <2> QED
    BY <1>0, <2>1, <2>2, <2>3
<1>11. Ascending(K)
  <2>1. ASSUME NEW i \in 1 .. Len(K), NEW j \in 1 .. Len(K), i < j PROVE K[i] < K[j]
    <3>1. CASE j < at
      <4>1. i < at
        BY <2>1, <3>1
      <4> QED
        BY <1>6, <1>8, <2>1, <3>1, <4>1
    <3>2. CASE j >= at /\ i < at
      <4>1. i < j + 1
        BY <2>1
      <4> QED
        BY <1>6, <1>8, <3>2, <4>1
    <3>3. CASE i >= at
      <4>1. i + 1 < j + 1 /\ j >= at
        BY <2>1, <3>3
      <4> QED
        BY <1>6, <1>8, <3>3, <4>1
    <3>4. j < at \/ (j >= at /\ i < at) \/ i >= at
      BY <2>1
    <3> QED
      BY <3>1, <3>2, <3>3, <3>4
  <2> QED
    BY <2>1 DEF Ascending
<1>12. ASSUME NEW i \in 1 .. Len(C), NEW x \in V[C[i]] PROVE x \in Gap(m, i)
  <2> SUFFICES /\ x \in Int
               /\ \A j \in 1 .. i - 1 : K[j] < x
               /\ \A j \in i .. Len(K) : x < K[j]
    BY <1>5 DEF Gap
  <2>1. CASE i < at
    <3>1. i \in 1 .. Len(n.kids) /\ x \in V[n.kids[i]]
      <4>1. i \in 1 .. Len(n.kids) /\ C[i] = n.kids[i]
        BY <1>7, <2>1
      <4> QED
        BY <1>12, <4>1
    <3>2. ASSUME NEW j \in 1 .. i - 1 PROVE K[j] < x
      <4>1. j \in 1 .. Len(K) /\ j < at
        BY <1>1, <1>6, <2>1
      <4> QED
        BY <1>6, <1>8, <3>1, <4>1
    <3>3. ASSUME NEW j \in i .. Len(K) PROVE x < K[j]
      <4>1. CASE j < at
        <5>1. j \in 1 .. Len(K) /\ j \in i .. Len(n.keys) /\ K[j] = n.keys[j]
          BY <1>6, <4>1
        <5> QED
          BY <1>8, <3>1, <5>1
      <4>2. CASE j >= at
        <5>1. j \in 1 .. Len(K) /\ j + 1 \in i .. Len(n.keys) /\ K[j] = n.keys[j + 1]
          BY <1>6, <4>2
        <5> QED
          BY <1>8, <3>1, <5>1
      <4> QED
        BY <4>1, <4>2
    <3> QED
      BY <1>8, <3>1, <3>2, <3>3
  <2>2. CASE i = at
    <3>1. x \in V[c]
      BY <1>7, <1>12, <2>2
    <3>2. ASSUME NEW j \in 1 .. i - 1 PROVE K[j] < x
      <4>1. j \in 1 .. Len(K) /\ j < at /\ j \in 1 .. at - 1
        BY <1>1, <1>6, <2>2
      <4> QED
        BY <1>6, <1>10, <3>1, <4>1
    <3>3. ASSUME NEW j \in i .. Len(K) PROVE x < K[j]
      <4>1. j \in 1 .. Len(K) /\ j >= at /\ j + 1 \in at + 1 .. Len(n.keys) /\ K[j] = n.keys[j + 1]
        BY <1>6, <2>2
      <4> QED
        BY <1>10, <3>1, <4>1
    <3> QED
      BY <1>10, <3>1, <3>2, <3>3
  <2>3. CASE i > at
    <3>1. i + 1 \in 1 .. Len(n.kids) /\ x \in V[n.kids[i + 1]]
      <4>1. i + 1 \in 1 .. Len(n.kids) /\ C[i] = n.kids[i + 1]
        BY <1>7, <2>3
      <4> QED
        BY <1>12, <4>1
    <3>2. ASSUME NEW j \in 1 .. i - 1 PROVE K[j] < x
      <4>1. j \in 1 .. Len(K)
        BY <1>1, <1>6, <1>7
      <4>2. CASE j < at
        <5>1. j \in 1 .. (i + 1) - 1 /\ K[j] = n.keys[j]
          BY <1>6, <4>1, <4>2
        <5> QED
          BY <1>8, <3>1, <5>1
      <4>3. CASE j >= at
        <5>1. j + 1 \in 1 .. (i + 1) - 1 /\ K[j] = n.keys[j + 1]
          BY <1>6, <4>1, <4>3, SMTT(30)
        <5> QED
          BY <1>8, <3>1, <5>1
      <4> QED
        BY <4>2, <4>3
    <3>3. ASSUME NEW j \in i .. Len(K) PROVE x < K[j]
      <4>1. j \in 1 .. Len(K) /\ j >= at
        BY <1>6, <2>3
      <4>2. j + 1 \in i + 1 .. Len(n.keys) /\ K[j] = n.keys[j + 1]
        BY <1>6, <4>1
      <4> QED
        BY <1>8, <3>1, <4>2
    <3> QED
      BY <1>8, <3>1, <3>2, <3>3
  <2> QED
    BY <2>1, <2>2, <2>3
<1>13. Ordered(m, V)
  BY <1>5, <1>11, <1>12 DEF Ordered
<1>14. ASSUME NEW x \in Held(m, V) PROVE x \in Held(n, V)
  <2>1. CASE x \in Own(m)
    <3>1. PICK i \in 1 .. Len(K) : x = K[i]
      BY <1>5, <2>1 DEF Own
    <3>2. \E j \in 1 .. Len(n.keys) : x = n.keys[j]
      <4>1. i < at \/ i >= at
        BY <1>1
      <4> QED
        BY <1>6, <3>1, <4>1
    <3> QED
      BY <3>2 DEF Held, Own
  <2>2. CASE x \in Beneath(m, V)
    <3>1. PICK i \in 1 .. Len(C) : x \in V[C[i]]
      BY <1>5, <2>2 DEF Beneath
    <3>2. CASE i = at
      <4>1. x \in V[n.kids[at]] \/ x = n.keys[at] \/ x \in V[n.kids[at + 1]]
        BY <1>0, <1>7, <3>1, <3>2
      <4> QED
        BY <1>9, <4>1 DEF Held, Own, Beneath
    <3>3. CASE i # at
      <4>1. \E j \in 1 .. Len(n.kids) : x \in V[n.kids[j]]
        <5>1. i < at \/ i > at
          BY <3>3
        <5> QED
          BY <1>7, <3>1, <5>1
      <4> QED
        BY <4>1 DEF Held, Beneath
    <3> QED
      BY <3>2, <3>3
  <2> QED
    BY <2>1, <2>2 DEF Held
<1>15. ASSUME NEW x \in Held(n, V) PROVE x \in Held(m, V)
  <2>0. V[c] \subseteq Held(m, V)
    BY <1>5, <1>7, SMTT(30) DEF Held, Beneath
  <2>1. CASE x \in Own(n)
    <3>1. PICK i \in 1 .. Len(n.keys) : x = n.keys[i]
      BY <2>1 DEF Own
    <3>2. CASE i = at
      BY <1>0, <2>0, <3>1, <3>2
    <3>3. CASE i # at
      <4>1. \E j \in 1 .. Len(K) : x = K[j]
        <5>1. CASE i < at
          <6>1. i \in 1 .. Len(K)
            BY <1>1, <1>6, <5>1
          <6> QED
            BY <1>6, <3>1, <5>1, <6>1
        <5>2. CASE i > at
          <6>1. i - 1 \in 1 .. Len(K) /\ i - 1 >= at /\ (i - 1) + 1 = i
            BY <1>6, <5>2
          <6> QED
            BY <1>6, <3>1, <6>1
        <5> QED
          BY <3>3, <5>1, <5>2
      <4> QED
        BY <1>5, <4>1 DEF Held, Own
    <3> QED
      BY <3>2, <3>3
  <2>2. CASE x \in Beneath(n, V)
    <3>1. PICK i \in 1 .. Len(n.kids) : x \in V[n.kids[i]]
      BY <2>2 DEF Beneath
    <3>2. CASE i = at \/ i = at + 1
      BY <1>0, <2>0, <3>1, <3>2
    <3>3. CASE i < at \/ i > at + 1
      <4>1. \E j \in 1 .. Len(C) : x \in V[C[j]]
        <5>1. CASE i < at
          <6>1. i \in 1 .. Len(C)
            BY <1>7, <5>1
          <6> QED
            BY <1>7, <3>1, <5>1, <6>1
        <5>2. CASE i > at + 1
          <6>1. i - 1 \in 1 .. Len(C) /\ i - 1 > at /\ (i - 1) + 1 = i
            BY <1>7, <5>2
          <6> QED
            BY <1>7, <3>1, <6>1
        <5> QED
          BY <3>3, <5>1, <5>2
      <4> QED
        BY <1>5, <4>1 DEF Held, Beneath
    <3> QED
      BY <3>2, <3>3
  <2> QED
    BY <2>1, <2>2 DEF Held
<1> QED
  BY <1>4, <1>5, <1>6, <1>13, <1>14, <1>15

(* Two neighbours and the key between them, changed for two others that hold  *)
(* the same but for what is lost.                                             *)
PairHolds(n, V, at) == V[n.kids[at]] \cup {n.keys[at]} \cup V[n.kids[at + 1]]
(* a and b hold, around the key k, what the two children around the key at    *)
(* held around theirs, except lost.                                           *)
Exchanged(n, V, at, a, k, b, lost) ==
    /\ V[a] \cup {k} \cup V[b] = PairHolds(n, V, at) \ lost
    /\ lost \subseteq PairHolds(n, V, at)
    /\ \A x \in V[a] : x < k
    /\ \A x \in V[b] : k < x

(* The children of n, where those at and behind "at" are changed.             *)
TwoChanged(s, at, a, b, t) ==
    /\ Len(t) = Len(s)
    /\ t[at] = a /\ t[at + 1] = b
    /\ \A i \in 1 .. Len(s) : i # at /\ i # at + 1 => t[i] = s[i]

(* n after those two became a and b.                                          *)
RowOfLoan(n, at, a, k, b) ==
    Node(n.leaf, [n.keys EXCEPT ![at] = k], [[n.kids EXCEPT ![at] = a] EXCEPT ![at + 1] = b])

(* The parent, after a loan between two of its children or a key taken out of *)
(* one of them.                                                               *)
LEMMA RowExchanged ==
    ASSUME NEW leaf, Inside(leaf), NEW T, NEW V, NEW n \in Nodes(leaf, T), Ordered(n, V),
           NEW at \in 1 .. Len(n.keys), NEW a \in T, NEW b \in T, NEW k \in Int,
           NEW lost, Exchanged(n, V, at, a, k, b, lost),
           NEW m, m = RowOfLoan(n, at, a, k, b)
    PROVE  /\ m \in Nodes(leaf, T) /\ Ordered(m, V) /\ Held(m, V) = Held(n, V) \ lost
           /\ Len(m.keys) = Len(n.keys)
           /\ TwoChanged(n.kids, at, a, b, m.kids)
<1> DEFINE K == [n.keys EXCEPT ![at] = k]
           A == [n.kids EXCEPT ![at] = a]
           C == [A EXCEPT ![at + 1] = b]
<1>1. /\ n.leaf = leaf /\ n.keys \in Seq(Int) /\ n.kids \in Seq(T)
      /\ Len(n.keys) \in Nat /\ Len(n.kids) \in Nat
      /\ Len(n.kids) = KidCount(leaf, Len(n.keys))
      /\ Len(n.kids) = Len(n.keys) + 1
      /\ \A i \in 1 .. Len(n.keys) : n.keys[i] \in Int
      /\ at \in 1 .. Len(n.kids) /\ at + 1 \in 1 .. Len(n.kids)
  BY NodeFacts, InnerKids
<1>2. m = Node(leaf, K, C)
  BY <1>1 DEF RowOfLoan
<1>3. /\ K \in Seq(Int) /\ Len(K) = Len(n.keys)
      /\ \A i \in 1 .. Len(K) : K[i] = IF i = at THEN k ELSE n.keys[i]
  BY <1>1, ExceptSeq
<1>4. /\ A \in Seq(T) /\ Len(A) = Len(n.kids)
      /\ \A i \in 1 .. Len(n.kids) : A[i] = IF i = at THEN a ELSE n.kids[i]
  BY <1>1, ExceptSeq
<1> HIDE DEF K, A
<1>5. /\ C \in Seq(T) /\ Len(C) = Len(n.kids)
      /\ \A i \in 1 .. Len(n.kids) : C[i] = IF i = at + 1 THEN b ELSE A[i]
  <2>1. at + 1 \in 1 .. Len(A)
    BY <1>1, <1>4
  <2> QED
    BY <1>4, <2>1, ExceptSeq
<1> HIDE DEF C
<1>6. m \in Nodes(leaf, T) /\ m.keys = K /\ m.kids = C
  <2>1. Len(C) = KidCount(leaf, Len(K))
    BY <1>1, <1>3, <1>5
  <2>2. /\ Node(leaf, K, C) \in Nodes(leaf, T)
        /\ Node(leaf, K, C).keys = K /\ Node(leaf, K, C).kids = C
    BY <1>3, <1>5, <2>1, NodeMade
  <2> QED
    BY <1>2, <2>2
<1>7. /\ C[at] = a /\ C[at + 1] = b
      /\ \A i \in 1 .. Len(n.kids) : i # at /\ i # at + 1 => C[i] = n.kids[i]
  <2>1. at # at + 1
    BY <1>1
  <2>2. C[at] = a
    BY <1>1, <1>4, <1>5, <2>1
  <2>3. C[at + 1] = b
    BY <1>1, <1>5
  <2>4. \A i \in 1 .. Len(n.kids) : i # at /\ i # at + 1 => C[i] = n.kids[i]
    BY <1>4, <1>5
  <2> QED
    BY <2>2, <2>3, <2>4
<1>8. /\ \A i, j \in 1 .. Len(n.keys) : i < j => n.keys[i] < n.keys[j]
      /\ \A i \in 1 .. Len(n.kids) : \A x \in V[n.kids[i]] :
            /\ x \in Int
            /\ \A j \in 1 .. i - 1 : n.keys[j] < x
            /\ \A j \in i .. Len(n.keys) : x < n.keys[j]
  BY OrderFacts
<1>9. \A x \in PairHolds(n, V, at) :
          /\ x \in Int
          /\ \A j \in 1 .. at - 1 : n.keys[j] < x
          /\ \A j \in at + 1 .. Len(n.keys) : x < n.keys[j]
  <2>1. ASSUME NEW x \in V[n.kids[at]]
        PROVE  /\ x \in Int
               /\ \A j \in 1 .. at - 1 : n.keys[j] < x
               /\ \A j \in at + 1 .. Len(n.keys) : x < n.keys[j]
    BY <1>1, <1>8, <2>1
  <2>2. ASSUME NEW x \in V[n.kids[at + 1]]
        PROVE  /\ x \in Int
               /\ \A j \in 1 .. at - 1 : n.keys[j] < x
               /\ \A j \in at + 1 .. Len(n.keys) : x < n.keys[j]
    BY <1>1, <1>8, <2>2
  <2>3. /\ n.keys[at] \in Int
        /\ \A j \in 1 .. at - 1 : n.keys[j] < n.keys[at]
        /\ \A j \in at + 1 .. Len(n.keys) : n.keys[at] < n.keys[j]
    <3>1. ASSUME NEW j \in 1 .. at - 1 PROVE n.keys[j] < n.keys[at]
      <4>1. j \in 1 .. Len(n.keys) /\ j < at
        BY <1>1
      <4> QED
        BY <1>8, <4>1
    <3>2. ASSUME NEW j \in at + 1 .. Len(n.keys) PROVE n.keys[at] < n.keys[j]
      <4>1. j \in 1 .. Len(n.keys) /\ at < j
        BY <1>1
      <4> QED
        BY <1>8, <4>1
    <3> QED
      BY <1>1, <3>1, <3>2
  <2> QED
    BY <2>1, <2>2, <2>3 DEF PairHolds
<1>10. \A x \in V[a] \cup {k} \cup V[b] :
          /\ x \in Int
          /\ \A j \in 1 .. at - 1 : n.keys[j] < x
          /\ \A j \in at + 1 .. Len(n.keys) : x < n.keys[j]
  BY <1>9 DEF Exchanged
<1>11. Ascending(K)
  <2>1. ASSUME NEW i \in 1 .. Len(K), NEW j \in 1 .. Len(K), i < j PROVE K[i] < K[j]
    <3>1. CASE i = at
      <4>1. j \in at + 1 .. Len(n.keys) /\ j # at
        BY <1>3, <2>1, <3>1
      <4> QED
        BY <1>3, <1>10, <3>1, <4>1
    <3>2. CASE j = at
      <4>1. i \in 1 .. at - 1 /\ i # at
        BY <2>1, <3>2
      <4> QED
        BY <1>3, <1>10, <3>2, <4>1
    <3>3. CASE i # at /\ j # at
      BY <1>3, <1>8, <2>1, <3>3
    <3> QED
      BY <3>1, <3>2, <3>3
  <2> QED
    BY <2>1 DEF Ascending
<1>12. ASSUME NEW i \in 1 .. Len(C), NEW x \in V[C[i]] PROVE x \in Gap(m, i)
  <2> SUFFICES /\ x \in Int
               /\ \A j \in 1 .. i - 1 : K[j] < x
               /\ \A j \in i .. Len(K) : x < K[j]
    BY <1>6 DEF Gap
  <2>1. CASE i = at
    <3>1. x \in V[a] /\ x < k
      BY <1>7, <1>12, <2>1 DEF Exchanged
    <3>2. ASSUME NEW j \in 1 .. i - 1 PROVE K[j] < x
      <4>1. j \in 1 .. at - 1 /\ j \in 1 .. Len(K) /\ j # at
        BY <1>3, <2>1
      <4> QED
        BY <1>3, <1>10, <3>1, <4>1
    <3>3. ASSUME NEW j \in i .. Len(K) PROVE x < K[j]
      <4>1. CASE j = at
        BY <1>3, <3>1, <4>1
      <4>2. CASE j # at
        <5>1. j \in at + 1 .. Len(n.keys) /\ j \in 1 .. Len(K)
          BY <1>3, <2>1, <4>2
        <5> QED
          BY <1>3, <1>10, <3>1, <4>2, <5>1
      <4> QED
        BY <4>1, <4>2
    <3> QED
      BY <1>10, <3>1, <3>2, <3>3
  <2>2. CASE i = at + 1
    <3>1. x \in V[b] /\ k < x
      BY <1>7, <1>12, <2>2 DEF Exchanged
    <3>2. ASSUME NEW j \in 1 .. i - 1 PROVE K[j] < x
      <4>1. CASE j = at
        BY <1>3, <3>1, <4>1
      <4>2. CASE j # at
        <5>1. j \in 1 .. at - 1 /\ j \in 1 .. Len(K)
          BY <1>3, <2>2, <4>2
        <5> QED
          BY <1>3, <1>10, <3>1, <4>2, <5>1
      <4> QED
        BY <4>1, <4>2
    <3>3. ASSUME NEW j \in i .. Len(K) PROVE x < K[j]
      <4>1. j \in at + 1 .. Len(n.keys) /\ j \in 1 .. Len(K) /\ j # at
        BY <1>3, <2>2
      <4> QED
        BY <1>3, <1>10, <3>1, <4>1
    <3> QED
      BY <1>10, <3>1, <3>2, <3>3
  <2>3. CASE i # at /\ i # at + 1
    <3>1. i \in 1 .. Len(n.kids) /\ x \in V[n.kids[i]]
      BY <1>5, <1>7, <1>12, <2>3
    <3>2. /\ x \in Int
          /\ \A j \in 1 .. i - 1 : n.keys[j] < x
          /\ \A j \in i .. Len(n.keys) : x < n.keys[j]
      BY <1>8, <3>1
    <3>3. i < at => x < k
      <4> SUFFICES ASSUME i < at PROVE x < k
        OBVIOUS
      <4>1. i \in 1 .. at - 1 /\ i \in i .. Len(n.keys) /\ i \in 1 .. Len(n.keys)
        BY <1>1
      <4>2. x < n.keys[i] /\ n.keys[i] < k /\ n.keys[i] \in Int
        BY <1>1, <1>10, <3>2, <4>1
      <4> QED
        BY <3>2, <4>2
    <3>4. i > at => k < x
      <4> SUFFICES ASSUME i > at PROVE k < x
        OBVIOUS
      <4>1. i - 1 \in at + 1 .. Len(n.keys) /\ i - 1 \in 1 .. i - 1 /\ i - 1 \in 1 .. Len(n.keys)
        BY <1>1, <2>3, <3>1
      <4>2. n.keys[i - 1] < x /\ k < n.keys[i - 1] /\ n.keys[i - 1] \in Int
        BY <1>1, <1>10, <3>2, <4>1
      <4> QED
        BY <3>2, <4>2
    <3>5. ASSUME NEW j \in 1 .. i - 1 PROVE K[j] < x
      <4>1. j \in 1 .. Len(K)
        BY <1>1, <1>3, <3>1
      <4>2. CASE j = at
        BY <1>3, <3>4, <4>1, <4>2
      <4>3. CASE j # at
        BY <1>3, <3>2, <4>1, <4>3
      <4> QED
        BY <4>2, <4>3
    <3>6. ASSUME NEW j \in i .. Len(K) PROVE x < K[j]
      <4>1. j \in 1 .. Len(K) /\ j \in i .. Len(n.keys)
        BY <1>3, <3>1
      <4>2. CASE j = at
        <5>1. i < at
          BY <2>3, <4>2
        <5> QED
          BY <1>3, <3>3, <4>1, <4>2, <5>1
      <4>3. CASE j # at
        BY <1>3, <3>2, <4>1, <4>3
      <4> QED
        BY <4>2, <4>3
    <3> QED
      BY <3>2, <3>5, <3>6
  <2> QED
    BY <2>1, <2>2, <2>3
<1>13. Ordered(m, V)
  BY <1>6, <1>11, <1>12 DEF Ordered
<1>14. /\ V[a] \cup {k} \cup V[b] \subseteq Held(m, V)
       /\ PairHolds(n, V, at) \subseteq Held(n, V)
  <2>1. V[a] \cup V[b] \subseteq Beneath(m, V)
    <3>1. at \in 1 .. Len(m.kids) /\ at + 1 \in 1 .. Len(m.kids) /\ m.kids[at] = a /\ m.kids[at + 1] = b
      BY <1>1, <1>5, <1>6, <1>7
    <3> QED
      BY <3>1 DEF Beneath
  <2>2. k \in Own(m)
    BY <1>3, <1>6 DEF Own
  <2>3. V[n.kids[at]] \cup V[n.kids[at + 1]] \subseteq Beneath(n, V)
    BY <1>1 DEF Beneath
  <2>4. n.keys[at] \in Own(n)
    BY DEF Own
  <2> QED
    BY <2>1, <2>2, <2>3, <2>4 DEF Held, PairHolds
<1>15. /\ \A i \in 1 .. Len(n.keys) : i # at => n.keys[i] \notin PairHolds(n, V, at)
       /\ \A i \in 1 .. Len(n.kids) : i # at /\ i # at + 1 => V[n.kids[i]] \cap PairHolds(n, V, at) = {}
  <2>1. /\ \A i \in 1 .. Len(n.kids), j \in 1 .. Len(n.keys) : n.keys[j] \notin V[n.kids[i]]
        /\ \A i, j \in 1 .. Len(n.kids) : i # j => V[n.kids[i]] \cap V[n.kids[j]] = {}
    BY Apart
  <2>2. ASSUME NEW i \in 1 .. Len(n.keys), i # at PROVE n.keys[i] \notin PairHolds(n, V, at)
    <3>1. n.keys[i] # n.keys[at]
      <4>1. i < at \/ at < i
        BY <1>1, <2>2
      <4>2. n.keys[i] \in Int /\ n.keys[at] \in Int
        BY <1>1
      <4>3. n.keys[i] < n.keys[at] \/ n.keys[at] < n.keys[i]
        BY <1>8, <4>1
      <4> QED
        BY <4>2, <4>3
    <3>2. n.keys[i] \notin V[n.kids[at]] /\ n.keys[i] \notin V[n.kids[at + 1]]
      BY <1>1, <2>1
    <3> QED
      BY <3>1, <3>2 DEF PairHolds
  <2>3. ASSUME NEW i \in 1 .. Len(n.kids), i # at, i # at + 1
        PROVE  V[n.kids[i]] \cap PairHolds(n, V, at) = {}
    <3>1. V[n.kids[i]] \cap V[n.kids[at]] = {} /\ V[n.kids[i]] \cap V[n.kids[at + 1]] = {}
      BY <1>1, <2>1, <2>3
    <3>2. n.keys[at] \notin V[n.kids[i]]
      BY <1>1, <2>1
    <3> QED
      BY <3>1, <3>2 DEF PairHolds
  <2> QED
    BY <2>2, <2>3
<1>16. /\ V[a] \cup {k} \cup V[b] = PairHolds(n, V, at) \ lost
       /\ lost \subseteq PairHolds(n, V, at)
  BY DEF Exchanged
<1>19. ASSUME NEW x \in Held(m, V) PROVE x \in Held(n, V) /\ x \notin lost
  <2>1. CASE x \in Own(m)
    <3>1. PICK i \in 1 .. Len(K) : x = K[i]
      BY <1>6, <2>1 DEF Own
    <3>2. CASE i = at
      BY <1>3, <1>14, <1>16, <3>1, <3>2
    <3>3. CASE i # at
      <4>1. i \in 1 .. Len(n.keys) /\ x = n.keys[i]
        BY <1>3, <3>1, <3>3
      <4>2. x \notin lost
        BY <1>15, <1>16, <3>3, <4>1
      <4> QED
        BY <4>1, <4>2 DEF Held, Own
    <3> QED
      BY <3>2, <3>3
  <2>2. CASE x \in Beneath(m, V)
    <3>1. PICK i \in 1 .. Len(C) : x \in V[C[i]]
      BY <1>6, <2>2 DEF Beneath
    <3>2. CASE i = at \/ i = at + 1
      <4>1. x \in V[a] \cup {k} \cup V[b]
        BY <1>7, <3>1, <3>2
      <4> QED
        BY <1>14, <1>16, <4>1
    <3>3. CASE i # at /\ i # at + 1
      <4>1. i \in 1 .. Len(n.kids) /\ x \in V[n.kids[i]]
        BY <1>5, <1>7, <3>1, <3>3
      <4>2. x \notin lost
        BY <1>15, <1>16, <3>3, <4>1
      <4> QED
        BY <4>1, <4>2 DEF Held, Beneath
    <3> QED
      BY <3>2, <3>3
  <2> QED
    BY <2>1, <2>2 DEF Held
<1>20. ASSUME NEW x \in Held(n, V), x \notin lost PROVE x \in Held(m, V)
  <2>1. CASE x \in PairHolds(n, V, at)
    BY <1>14, <1>16, <1>20, <2>1
  <2>2. CASE x \in Own(n) /\ x \notin PairHolds(n, V, at)
    <3>1. PICK i \in 1 .. Len(n.keys) : x = n.keys[i]
      BY <2>2 DEF Own
    <3>2. i # at
      BY <2>2, <3>1 DEF PairHolds
    <3>3. i \in 1 .. Len(K) /\ x = K[i]
      BY <1>3, <3>1, <3>2
    <3> QED
      BY <1>6, <3>3 DEF Held, Own
  <2>3. CASE x \in Beneath(n, V) /\ x \notin PairHolds(n, V, at)
    <3>1. PICK i \in 1 .. Len(n.kids) : x \in V[n.kids[i]]
      BY <2>3 DEF Beneath
    <3>2. i # at /\ i # at + 1
      BY <2>3, <3>1 DEF PairHolds
    <3>3. i \in 1 .. Len(C) /\ x \in V[C[i]]
      BY <1>5, <1>7, <3>1, <3>2
    <3> QED
      BY <1>6, <3>3 DEF Held, Beneath
  <2> QED
    BY <2>1, <2>2, <2>3 DEF Held
<1>17. Len(m.keys) = Len(n.keys) /\ TwoChanged(n.kids, at, a, b, m.kids)
  BY <1>3, <1>5, <1>6, <1>7 DEF TwoChanged
<1>18. Held(m, V) = Held(n, V) \ lost
  BY <1>19, <1>20
<1> QED
  BY <1>6, <1>13, <1>17, <1>18

-----------------------------------------------------------------------------
(* A node that reads as two nodes and a key                                   *)

(* n reads as l, then k, then r: the same keys and the same subtrees, in the  *)
(* same order.                                                                *)
Reads(n, l, k, r) ==
    /\ n.keys = l.keys \o << k >> \o r.keys
    /\ n.kids = l.kids \o r.kids

(* Element by element.                                                        *)
Joint(n, l, k, r) ==
    /\ Len(n.keys) = Len(l.keys) + 1 + Len(r.keys)
    /\ \A i \in 1 .. Len(l.keys) : n.keys[i] = l.keys[i]
    /\ n.keys[Len(l.keys) + 1] = k
    /\ \A i \in 1 .. Len(r.keys) : n.keys[Len(l.keys) + 1 + i] = r.keys[i]
    /\ Len(n.kids) = Len(l.kids) + Len(r.kids)
    /\ \A i \in 1 .. Len(l.kids) : n.kids[i] = l.kids[i]
    /\ \A i \in 1 .. Len(r.kids) : n.kids[Len(l.kids) + i] = r.kids[i]

(* The same, element by element.                                              *)
LEMMA ReadsElements ==
    ASSUME NEW leaf, NEW T, NEW n \in Nodes(leaf, T), NEW l \in Nodes(leaf, T),
           NEW r \in Nodes(leaf, T), NEW k \in Int, Reads(n, l, k, r)
    PROVE  Joint(n, l, k, r)
<1> DEFINE a == Len(l.keys)
           b == Len(r.keys)
           c == Len(l.kids)
           d == Len(r.kids)
           u == << k >>
           v == l.keys \o u
           w == v \o r.keys
           z == l.kids \o r.kids
<1>1. /\ l.keys \in Seq(Int) /\ r.keys \in Seq(Int) /\ l.kids \in Seq(T) /\ r.kids \in Seq(T)
      /\ a \in Nat /\ b \in Nat /\ c \in Nat /\ d \in Nat
  BY NodeFacts
<1>2. n.keys = w /\ n.kids = z
  BY DEF Reads
<1>3. u \in Seq(Int) /\ Len(u) = 1 /\ u[1] = k
  OBVIOUS
<1>4. /\ z \in Seq(T) /\ Len(z) = c + d
      /\ \A i \in 1 .. c + d : z[i] = IF i <= c THEN l.kids[i] ELSE r.kids[i - c]
  BY <1>1, ConcatProperties
<1> HIDE DEF u
<1>5. /\ v \in Seq(Int) /\ Len(v) = a + 1
      /\ \A i \in 1 .. a + 1 : v[i] = IF i <= a THEN l.keys[i] ELSE u[i - a]
  <2>1. /\ v \in Seq(Int) /\ Len(v) = a + Len(u)
        /\ \A i \in 1 .. a + Len(u) : v[i] = IF i <= a THEN l.keys[i] ELSE u[i - a]
    BY <1>1, <1>3, ConcatProperties
  <2> QED
    BY <1>3, <2>1
<1> HIDE DEF v
<1>6. /\ w \in Seq(Int) /\ Len(w) = a + 1 + b
      /\ \A i \in 1 .. a + 1 + b : w[i] = IF i <= a + 1 THEN v[i] ELSE r.keys[i - (a + 1)]
  <2>1. /\ w \in Seq(Int) /\ Len(w) = Len(v) + b
        /\ \A i \in 1 .. Len(v) + b : w[i] = IF i <= Len(v) THEN v[i] ELSE r.keys[i - Len(v)]
    <3>1. v \in Seq(Int) /\ r.keys \in Seq(Int)
      BY <1>1, <1>5
    <3> QED
      BY <3>1, ConcatProperties
  <2> QED
    BY <1>5, <2>1
<1> HIDE DEF w, z, a, b, c, d
<1>7. \A i \in 1 .. a : w[i] = l.keys[i]
  <2>1. ASSUME NEW i \in 1 .. a PROVE w[i] = l.keys[i]
    <3>1. i \in 1 .. a + 1 + b /\ i <= a + 1 /\ i \in 1 .. a + 1 /\ i <= a
      BY <1>1
    <3> QED
      BY <1>5, <1>6, <3>1
  <2> QED
    BY <2>1
<1>8. w[a + 1] = k
  <2>1. a + 1 \in 1 .. a + 1 + b /\ a + 1 <= a + 1 /\ a + 1 \in 1 .. a + 1 /\ ~(a + 1 <= a) /\ (a + 1) - a = 1
    BY <1>1
  <2> QED
    BY <1>3, <1>5, <1>6, <2>1
<1>9. \A i \in 1 .. b : w[a + 1 + i] = r.keys[i]
  <2>1. ASSUME NEW i \in 1 .. b PROVE w[a + 1 + i] = r.keys[i]
    <3>1. a + 1 + i \in 1 .. a + 1 + b /\ ~(a + 1 + i <= a + 1) /\ (a + 1 + i) - (a + 1) = i
      BY <1>1
    <3> QED
      BY <1>6, <3>1
  <2> QED
    BY <2>1
<1>10. \A i \in 1 .. c : z[i] = l.kids[i]
  <2>1. ASSUME NEW i \in 1 .. c PROVE z[i] = l.kids[i]
    <3>1. i \in 1 .. c + d /\ i <= c
      BY <1>1
    <3> QED
      BY <1>4, <3>1
  <2> QED
    BY <2>1
<1>11. \A i \in 1 .. d : z[c + i] = r.kids[i]
  <2>1. ASSUME NEW i \in 1 .. d PROVE z[c + i] = r.kids[i]
    <3>1. c + i \in 1 .. c + d /\ ~(c + i <= c) /\ (c + i) - c = i
      BY <1>1
    <3> QED
      BY <1>4, <3>1
  <2> QED
    BY <2>1
<1> QED
  BY <1>2, <1>4, <1>6, <1>7, <1>8, <1>9, <1>10, <1>11 DEF Joint, a, b, c, d

(* So it holds the same.                                                      *)
LEMMA ReadsHeld ==
    ASSUME NEW leaf, NEW T, NEW V, NEW n \in Nodes(leaf, T), NEW l \in Nodes(leaf, T),
           NEW r \in Nodes(leaf, T), NEW k \in Int, Reads(n, l, k, r)
    PROVE  Held(n, V) = Held(l, V) \cup {k} \cup Held(r, V)
<1> DEFINE a == Len(l.keys)
           b == Len(r.keys)
           c == Len(l.kids)
           d == Len(r.kids)
<1>1. a \in Nat /\ b \in Nat /\ c \in Nat /\ d \in Nat
  BY NodeFacts
<1>2. /\ Len(n.keys) = a + 1 + b
      /\ \A i \in 1 .. a : n.keys[i] = l.keys[i]
      /\ n.keys[a + 1] = k
      /\ \A i \in 1 .. b : n.keys[a + 1 + i] = r.keys[i]
      /\ Len(n.kids) = c + d
      /\ \A i \in 1 .. c : n.kids[i] = l.kids[i]
      /\ \A i \in 1 .. d : n.kids[c + i] = r.kids[i]
  <2>1. Joint(n, l, k, r)
    BY ReadsElements
  <2> QED
    BY <2>1 DEF Joint
<1>3. Own(l) = {l.keys[i] : i \in 1 .. a} /\ Own(r) = {r.keys[i] : i \in 1 .. b}
  BY DEF Own
<1>4. Beneath(l, V) = UNION {V[l.kids[i]] : i \in 1 .. c} /\ Beneath(r, V) = UNION {V[r.kids[i]] : i \in 1 .. d}
  BY DEF Beneath
<1>5. Own(n) = {n.keys[i] : i \in 1 .. a + 1 + b} /\ Beneath(n, V) = UNION {V[n.kids[i]] : i \in 1 .. c + d}
  BY <1>2 DEF Own, Beneath
<1> HIDE DEF a, b, c, d
<1>6. ASSUME NEW x \in Own(n) PROVE x \in Own(l) \cup {k} \cup Own(r)
  <2>1. PICK i \in 1 .. a + 1 + b : x = n.keys[i]
    BY <1>5
  <2>2. CASE i <= a
    <3>1. i \in 1 .. a
      BY <1>1, <2>2
    <3> QED
      BY <1>2, <1>3, <2>1, <3>1
  <2>3. CASE i = a + 1
    BY <1>2, <2>1, <2>3
  <2>4. CASE i > a + 1
    <3> DEFINE j == i - (a + 1)
    <3>1. j \in 1 .. b /\ a + 1 + j = i
      BY <1>1, <2>4
    <3> HIDE DEF j
    <3>2. x = r.keys[j]
      BY <1>2, <2>1, <3>1
    <3> QED
      BY <1>3, <3>1, <3>2
  <2> QED
    BY <1>1, <2>2, <2>3, <2>4
<1>7. Own(l) \cup {k} \cup Own(r) \subseteq Own(n)
  <2>1. ASSUME NEW i \in 1 .. a PROVE l.keys[i] \in Own(n)
    <3>1. i \in 1 .. a + 1 + b
      BY <1>1
    <3> QED
      BY <1>2, <1>5, <3>1
  <2>2. ASSUME NEW i \in 1 .. b PROVE r.keys[i] \in Own(n)
    <3>1. a + 1 + i \in 1 .. a + 1 + b
      BY <1>1
    <3> QED
      BY <1>2, <1>5, <3>1
  <2>3. k \in Own(n)
    <3>1. a + 1 \in 1 .. a + 1 + b
      BY <1>1
    <3> QED
      BY <1>2, <1>5, <3>1
  <2> QED
    BY <1>3, <2>1, <2>2, <2>3
<1>8. ASSUME NEW x \in Beneath(n, V) PROVE x \in Beneath(l, V) \cup Beneath(r, V)
  <2>1. PICK i \in 1 .. c + d : x \in V[n.kids[i]]
    BY <1>5
  <2>2. CASE i <= c
    <3>1. i \in 1 .. c
      BY <1>1, <2>2
    <3> QED
      BY <1>2, <1>4, <2>1, <3>1
  <2>3. CASE i > c
    <3>1. i - c \in 1 .. d /\ c + (i - c) = i
      BY <1>1, <2>3
    <3> QED
      BY <1>2, <1>4, <2>1, <3>1
  <2> QED
    BY <1>1, <2>2, <2>3
<1>9. Beneath(l, V) \cup Beneath(r, V) \subseteq Beneath(n, V)
  <2>1. ASSUME NEW i \in 1 .. c PROVE V[l.kids[i]] \subseteq Beneath(n, V)
    <3>1. i \in 1 .. c + d
      BY <1>1
    <3> QED
      BY <1>2, <1>5, <3>1
  <2>2. ASSUME NEW i \in 1 .. d PROVE V[r.kids[i]] \subseteq Beneath(n, V)
    <3>1. c + i \in 1 .. c + d
      BY <1>1
    <3> QED
      BY <1>2, <1>5, <3>1
  <2> QED
    BY <1>4, <2>1, <2>2
<1> QED
  BY <1>6, <1>7, <1>8, <1>9 DEF Held

(* Everything l holds lies below k, and everything r holds above.             *)
Between(l, V, k, r) ==
    /\ \A x \in Held(l, V) : x < k
    /\ \A x \in Held(r, V) : k < x

(* A search tree holds integers only, those of its keys and of its subtrees   *)
(* among them.                                                                *)
LEMMA HeldFacts ==
    ASSUME NEW leaf, NEW T, NEW V, NEW n \in Nodes(leaf, T), Ordered(n, V)
    PROVE  /\ Held(n, V) \subseteq Int
           /\ \A i \in 1 .. Len(n.keys) : n.keys[i] \in Held(n, V)
           /\ \A i \in 1 .. Len(n.kids) : V[n.kids[i]] \subseteq Held(n, V)
<1>1. \A i \in 1 .. Len(n.keys) : n.keys[i] \in Int
  BY NodeFacts
<1>2. \A i \in 1 .. Len(n.kids) : V[n.kids[i]] \subseteq Int
  BY OrderFacts
<1>3. Own(n) \subseteq Int /\ Beneath(n, V) \subseteq Int
  BY <1>1, <1>2 DEF Own, Beneath
<1> QED
  BY <1>3 DEF Held, Own, Beneath

(* A node in order falls into two that are in order, ...                      *)
LEMMA ReadsApart ==
    ASSUME NEW leaf, NEW T, NEW V, NEW n \in Nodes(leaf, T), NEW l \in Nodes(leaf, T),
           NEW r \in Nodes(leaf, T), NEW k \in Int, Reads(n, l, k, r), Ordered(n, V)
    PROVE  Ordered(l, V) /\ Ordered(r, V) /\ Between(l, V, k, r)
<1> DEFINE a == Len(l.keys)
           b == Len(r.keys)
           c == Len(l.kids)
           d == Len(r.kids)
<1>1. /\ a \in Nat /\ b \in Nat /\ c \in Nat /\ d \in Nat
      /\ c = IF leaf THEN 0 ELSE a + 1
      /\ d = IF leaf THEN 0 ELSE b + 1
  BY NodeFacts
<1>2. /\ Len(n.keys) = a + 1 + b
      /\ \A i \in 1 .. a : n.keys[i] = l.keys[i]
      /\ n.keys[a + 1] = k
      /\ \A i \in 1 .. b : n.keys[a + 1 + i] = r.keys[i]
      /\ Len(n.kids) = c + d
      /\ \A i \in 1 .. c : n.kids[i] = l.kids[i]
      /\ \A i \in 1 .. d : n.kids[c + i] = r.kids[i]
  <2>1. Joint(n, l, k, r)
    BY ReadsElements
  <2> QED
    BY <2>1 DEF Joint
<1>3. /\ \A i, j \in 1 .. a + 1 + b : i < j => n.keys[i] < n.keys[j]
      /\ \A i \in 1 .. c + d : \A x \in V[n.kids[i]] :
            /\ x \in Int
            /\ \A j \in 1 .. i - 1 : n.keys[j] < x
            /\ \A j \in i .. a + 1 + b : x < n.keys[j]
  BY <1>2, OrderFacts
<1>4. Own(l) = {l.keys[i] : i \in 1 .. a} /\ Own(r) = {r.keys[i] : i \in 1 .. b}
  BY DEF Own
<1>5. Beneath(l, V) = UNION {V[l.kids[i]] : i \in 1 .. c} /\ Beneath(r, V) = UNION {V[r.kids[i]] : i \in 1 .. d}
  BY DEF Beneath
<1>6. a = Len(l.keys) /\ b = Len(r.keys) /\ c = Len(l.kids) /\ d = Len(r.kids)
  OBVIOUS
<1> HIDE DEF a, b, c, d
<1>7. Ascending(l.keys)
  <2>1. ASSUME NEW i \in 1 .. a, NEW j \in 1 .. a, i < j PROVE l.keys[i] < l.keys[j]
    <3>1. i \in 1 .. a + 1 + b /\ j \in 1 .. a + 1 + b
      BY <1>1
    <3> QED
      BY <1>2, <1>3, <2>1, <3>1
  <2> QED
    BY <1>6, <2>1 DEF Ascending
<1>8. Ascending(r.keys)
  <2>1. ASSUME NEW i \in 1 .. b, NEW j \in 1 .. b, i < j PROVE r.keys[i] < r.keys[j]
    <3>1. a + 1 + i \in 1 .. a + 1 + b /\ a + 1 + j \in 1 .. a + 1 + b /\ a + 1 + i < a + 1 + j
      BY <1>1, <2>1
    <3>2. n.keys[a + 1 + i] < n.keys[a + 1 + j]
      BY <1>3, <3>1
    <3> QED
      BY <1>2, <3>2
  <2> QED
    BY <1>6, <2>1 DEF Ascending
<1>9. ASSUME NEW i \in 1 .. c, NEW x \in V[l.kids[i]]
      PROVE  x \in Gap(l, i) /\ x < k
  <2>1. i \in 1 .. c + d /\ c = a + 1 /\ x \in V[n.kids[i]]
    BY <1>1, <1>2
  <2>2. /\ x \in Int
        /\ \A j \in 1 .. i - 1 : n.keys[j] < x
        /\ \A j \in i .. a + 1 + b : x < n.keys[j]
    BY <1>3, <2>1
  <2>3. ASSUME NEW j \in 1 .. i - 1 PROVE l.keys[j] < x
    <3>1. j \in 1 .. a
      BY <1>1, <2>1
    <3> QED
      BY <1>2, <2>2, <3>1
  <2>4. ASSUME NEW j \in i .. a PROVE x < l.keys[j]
    <3>1. j \in 1 .. a /\ j \in i .. a + 1 + b
      BY <1>1, <2>1
    <3> QED
      BY <1>2, <2>2, <3>1
  <2>5. x < k
    <3>1. a + 1 \in i .. a + 1 + b
      BY <1>1, <2>1
    <3> QED
      BY <1>2, <2>2, <3>1
  <2> QED
    BY <1>6, <2>2, <2>3, <2>4, <2>5 DEF Gap
<1>10. ASSUME NEW i \in 1 .. d, NEW x \in V[r.kids[i]]
       PROVE  x \in Gap(r, i) /\ k < x
  <2>1. c + i \in 1 .. c + d /\ c = a + 1 /\ d = b + 1 /\ x \in V[n.kids[c + i]]
    BY <1>1, <1>2
  <2>2. /\ x \in Int
        /\ \A j \in 1 .. (c + i) - 1 : n.keys[j] < x
        /\ \A j \in c + i .. a + 1 + b : x < n.keys[j]
    BY <1>3, <2>1
  <2>3. ASSUME NEW j \in 1 .. i - 1 PROVE r.keys[j] < x
    <3>1. j \in 1 .. b /\ a + 1 + j \in 1 .. (c + i) - 1
      BY <1>1, <2>1
    <3>2. n.keys[a + 1 + j] < x
      BY <2>2, <3>1
    <3> QED
      BY <1>2, <3>1, <3>2
  <2>4. ASSUME NEW j \in i .. b PROVE x < r.keys[j]
    <3>1. j \in 1 .. b /\ a + 1 + j \in c + i .. a + 1 + b
      BY <1>1, <2>1
    <3>2. x < n.keys[a + 1 + j]
      BY <2>2, <3>1
    <3> QED
      BY <1>2, <3>1, <3>2
  <2>5. k < x
    <3>1. a + 1 \in 1 .. (c + i) - 1
      BY <1>1, <2>1
    <3> QED
      BY <1>2, <2>2, <3>1
  <2> QED
    BY <1>6, <2>2, <2>3, <2>4, <2>5 DEF Gap
<1>11. Ordered(l, V) /\ Ordered(r, V)
  BY <1>6, <1>7, <1>8, <1>9, <1>10 DEF Ordered
<1>12. \A x \in Held(l, V) : x < k
  <2>1. ASSUME NEW i \in 1 .. a PROVE l.keys[i] < k
    <3>1. i \in 1 .. a + 1 + b /\ a + 1 \in 1 .. a + 1 + b /\ i < a + 1
      BY <1>1
    <3> QED
      BY <1>2, <1>3, <3>1
  <2> QED
    BY <1>4, <1>5, <1>9, <2>1 DEF Held
<1>13. \A x \in Held(r, V) : k < x
  <2>1. ASSUME NEW i \in 1 .. b PROVE k < r.keys[i]
    <3>1. a + 1 + i \in 1 .. a + 1 + b /\ a + 1 \in 1 .. a + 1 + b /\ a + 1 < a + 1 + i
      BY <1>1
    <3>2. n.keys[a + 1] < n.keys[a + 1 + i]
      BY <1>3, <3>1
    <3> QED
      BY <1>2, <3>2
  <2> QED
    BY <1>4, <1>5, <1>10, <2>1 DEF Held
<1> QED
  BY <1>11, <1>12, <1>13 DEF Between

(* ... and two such nodes make one.                                           *)
LEMMA ReadsTogether ==
    ASSUME NEW leaf, NEW T, NEW V, NEW n \in Nodes(leaf, T), NEW l \in Nodes(leaf, T),
           NEW r \in Nodes(leaf, T), NEW k \in Int, Reads(n, l, k, r),
           Ordered(l, V), Ordered(r, V), Between(l, V, k, r)
    PROVE  Ordered(n, V)
<1> DEFINE a == Len(l.keys)
           b == Len(r.keys)
           c == Len(l.kids)
           d == Len(r.kids)
<1>1. /\ a \in Nat /\ b \in Nat /\ c \in Nat /\ d \in Nat
      /\ c = IF leaf THEN 0 ELSE a + 1
      /\ d = IF leaf THEN 0 ELSE b + 1
  BY NodeFacts
<1>2. /\ Len(n.keys) = a + 1 + b
      /\ \A i \in 1 .. a : n.keys[i] = l.keys[i]
      /\ n.keys[a + 1] = k
      /\ \A i \in 1 .. b : n.keys[a + 1 + i] = r.keys[i]
      /\ Len(n.kids) = c + d
      /\ \A i \in 1 .. c : n.kids[i] = l.kids[i]
      /\ \A i \in 1 .. d : n.kids[c + i] = r.kids[i]
  <2>1. Joint(n, l, k, r)
    BY ReadsElements
  <2> QED
    BY <2>1 DEF Joint
<1>3. /\ \A i, j \in 1 .. a : i < j => l.keys[i] < l.keys[j]
      /\ \A i \in 1 .. c : \A x \in V[l.kids[i]] :
            /\ x \in Int
            /\ \A j \in 1 .. i - 1 : l.keys[j] < x
            /\ \A j \in i .. a : x < l.keys[j]
  BY OrderFacts
<1>4. /\ \A i, j \in 1 .. b : i < j => r.keys[i] < r.keys[j]
      /\ \A i \in 1 .. d : \A x \in V[r.kids[i]] :
            /\ x \in Int
            /\ \A j \in 1 .. i - 1 : r.keys[j] < x
            /\ \A j \in i .. b : x < r.keys[j]
  BY OrderFacts
<1>5. /\ \A i \in 1 .. a : l.keys[i] \in Int /\ l.keys[i] < k
      /\ \A i \in 1 .. b : r.keys[i] \in Int /\ k < r.keys[i]
      /\ \A i \in 1 .. c : \A x \in V[l.kids[i]] : x < k
      /\ \A i \in 1 .. d : \A x \in V[r.kids[i]] : k < x
  <2>1. /\ \A i \in 1 .. a : l.keys[i] \in Held(l, V)
        /\ \A i \in 1 .. c : V[l.kids[i]] \subseteq Held(l, V)
    BY HeldFacts
  <2>2. /\ \A i \in 1 .. b : r.keys[i] \in Held(r, V)
        /\ \A i \in 1 .. d : V[r.kids[i]] \subseteq Held(r, V)
    BY HeldFacts
  <2>3. (\A i \in 1 .. a : l.keys[i] \in Int) /\ (\A i \in 1 .. b : r.keys[i] \in Int)
    BY NodeFacts
  <2> QED
    BY <2>1, <2>2, <2>3 DEF Between
<1> HIDE DEF a, b, c, d
<1>6. \A i \in 1 .. a + 1 + b :
         \/ i \in 1 .. a /\ n.keys[i] = l.keys[i]
         \/ i = a + 1 /\ n.keys[i] = k
         \/ \E e \in 1 .. b : i = a + 1 + e /\ n.keys[i] = r.keys[e]
  <2>1. ASSUME NEW i \in 1 .. a + 1 + b
        PROVE  \/ i \in 1 .. a /\ n.keys[i] = l.keys[i]
               \/ i = a + 1 /\ n.keys[i] = k
               \/ \E e \in 1 .. b : i = a + 1 + e /\ n.keys[i] = r.keys[e]
    <3>1. CASE i <= a
      <4>1. i \in 1 .. a
        BY <1>1, <3>1
      <4> QED
        BY <1>2, <4>1
    <3>2. CASE i = a + 1
      BY <1>2, <3>2
    <3>3. CASE i > a + 1
      <4> DEFINE e == i - (a + 1)
      <4>1. e \in 1 .. b /\ i = a + 1 + e
        BY <1>1, <3>3
      <4> HIDE DEF e
      <4> QED
        BY <1>2, <4>1
    <3> QED
      BY <1>1, <3>1, <3>2, <3>3
  <2> QED
    BY <2>1
<1>7. Ascending(n.keys)
  <2>1. ASSUME NEW i \in 1 .. a + 1 + b, NEW j \in 1 .. a + 1 + b, i < j
        PROVE  n.keys[i] < n.keys[j]
    <3>1. CASE i \in 1 .. a /\ n.keys[i] = l.keys[i]
      <4>1. CASE j \in 1 .. a /\ n.keys[j] = l.keys[j]
        BY <1>3, <2>1, <3>1, <4>1
      <4>2. CASE j = a + 1 /\ n.keys[j] = k
        BY <1>5, <3>1, <4>2
      <4>3. CASE \E e \in 1 .. b : j = a + 1 + e /\ n.keys[j] = r.keys[e]
        <5>1. PICK e \in 1 .. b : n.keys[j] = r.keys[e]
          BY <4>3
        <5>2. l.keys[i] < k /\ k < r.keys[e] /\ l.keys[i] \in Int /\ r.keys[e] \in Int
          BY <1>5, <3>1, <5>1
        <5> QED
          BY <3>1, <5>1, <5>2
      <4> QED
        BY <1>6, <4>1, <4>2, <4>3
    <3>2. CASE i = a + 1 /\ n.keys[i] = k
      <4>1. ~(j \in 1 .. a) /\ j # a + 1
        BY <1>1, <2>1, <3>2
      <4>2. PICK e \in 1 .. b : n.keys[j] = r.keys[e]
        BY <1>6, <4>1
      <4> QED
        BY <1>5, <3>2, <4>2
    <3>3. CASE \E e \in 1 .. b : i = a + 1 + e /\ n.keys[i] = r.keys[e]
      <4>1. PICK e \in 1 .. b : i = a + 1 + e /\ n.keys[i] = r.keys[e]
        BY <3>3
      <4>2. ~(j \in 1 .. a) /\ j # a + 1
        BY <1>1, <2>1, <4>1
      <4>3. PICK f \in 1 .. b : j = a + 1 + f /\ n.keys[j] = r.keys[f]
        BY <1>6, <4>2
      <4>4. e < f
        BY <1>1, <2>1, <4>1, <4>3
      <4> QED
        BY <1>4, <4>1, <4>3, <4>4
    <3> QED
      BY <1>6, <3>1, <3>2, <3>3
  <2> QED
    BY <1>2, <2>1 DEF Ascending
<1>8. ASSUME NEW i \in 1 .. c + d, NEW x \in V[n.kids[i]] PROVE x \in Gap(n, i)
  <2> SUFFICES /\ x \in Int
               /\ \A j \in 1 .. i - 1 : n.keys[j] < x
               /\ \A j \in i .. a + 1 + b : x < n.keys[j]
    BY <1>2 DEF Gap
  <2>1. CASE i <= c
    <3>1. i \in 1 .. c /\ c = a + 1 /\ x \in V[l.kids[i]]
      <4>1. i \in 1 .. c /\ c = a + 1
        BY <1>1, <2>1
      <4> QED
        BY <1>2, <1>8, <4>1
    <3>2. /\ x \in Int /\ x < k
          /\ \A j \in 1 .. i - 1 : l.keys[j] < x
          /\ \A j \in i .. a : x < l.keys[j]
      BY <1>3, <1>5, <3>1
    <3>3. ASSUME NEW j \in 1 .. i - 1 PROVE n.keys[j] < x
      <4>1. j \in 1 .. a
        BY <1>1, <3>1
      <4> QED
        BY <1>2, <3>2, <4>1
    <3>4. ASSUME NEW j \in i .. a + 1 + b PROVE x < n.keys[j]
      <4>1. CASE j \in 1 .. a /\ n.keys[j] = l.keys[j]
        <5>1. j \in i .. a
          BY <4>1
        <5> QED
          BY <3>2, <4>1, <5>1
      <4>2. CASE j = a + 1 /\ n.keys[j] = k
        BY <3>2, <4>2
      <4>3. CASE \E e \in 1 .. b : j = a + 1 + e /\ n.keys[j] = r.keys[e]
        <5>1. PICK e \in 1 .. b : n.keys[j] = r.keys[e]
          BY <4>3
        <5>2. k < r.keys[e] /\ r.keys[e] \in Int
          BY <1>5
        <5> QED
          BY <3>2, <5>1, <5>2
      <4>4. j \in 1 .. a + 1 + b
        OBVIOUS
      <4> QED
        BY <1>6, <4>1, <4>2, <4>3, <4>4
    <3> QED
      BY <3>2, <3>3, <3>4
  <2>2. CASE i > c
    <3> DEFINE e == i - c
    <3>1. e \in 1 .. d /\ i = c + e /\ c = a + 1 /\ d = b + 1
      BY <1>1, <2>2
    <3> HIDE DEF e
    <3>2. x \in V[r.kids[e]]
      BY <1>2, <1>8, <3>1
    <3>3. /\ x \in Int /\ k < x
          /\ \A j \in 1 .. e - 1 : r.keys[j] < x
          /\ \A j \in e .. b : x < r.keys[j]
      BY <1>4, <1>5, <3>1, <3>2
    <3>4. ASSUME NEW j \in 1 .. i - 1 PROVE n.keys[j] < x
      <4>1. CASE j \in 1 .. a /\ n.keys[j] = l.keys[j]
        <5>1. l.keys[j] < k /\ l.keys[j] \in Int
          BY <1>5, <4>1
        <5> QED
          BY <3>3, <4>1, <5>1
      <4>2. CASE j = a + 1 /\ n.keys[j] = k
        BY <3>3, <4>2
      <4>3. CASE \E f \in 1 .. b : j = a + 1 + f /\ n.keys[j] = r.keys[f]
        <5>1. PICK f \in 1 .. b : j = a + 1 + f /\ n.keys[j] = r.keys[f]
          BY <4>3
        <5>2. f \in 1 .. e - 1
          BY <1>1, <3>1, <5>1
        <5> QED
          BY <3>3, <5>1, <5>2
      <4>4. j \in 1 .. a + 1 + b
        BY <1>1, <3>1
      <4> QED
        BY <1>6, <4>1, <4>2, <4>3, <4>4
    <3>5. ASSUME NEW j \in i .. a + 1 + b PROVE x < n.keys[j]
      <4>1. j \in 1 .. a + 1 + b /\ ~(j \in 1 .. a) /\ j # a + 1
        BY <1>1, <3>1
      <4>2. PICK f \in 1 .. b : j = a + 1 + f /\ n.keys[j] = r.keys[f]
        BY <1>6, <4>1
      <4>3. f \in e .. b
        BY <1>1, <3>1, <4>2
      <4> QED
        BY <3>3, <4>2, <4>3
    <3> QED
      BY <3>3, <3>4, <3>5
  <2> QED
    BY <1>1, <2>1, <2>2
<1> QED
  BY <1>2, <1>7, <1>8 DEF Ordered

-----------------------------------------------------------------------------
(* Cutting, joining and lending                                               *)

(* What MaxKeys, MinKeys and Median of BTree.c come to, for every order: a    *)
(* split leaves two nodes that are full enough, and two nodes that are both   *)
(* short merge into one that is not overfull.                                 *)
LEMMA OrderArithmetic ==
    /\ Order \in Nat /\ Order >= 3
    /\ Median \in Nat /\ Median = MinKeys + 1 /\ MaxKeys \in Nat /\ MinKeys \in Nat
    /\ MinKeys >= 1 /\ Median <= MaxKeys
    /\ MinKeys <= MaxKeys /\ MaxKeys + 1 = Order
    /\ Order - Median >= MinKeys /\ Order - Median <= MaxKeys
    /\ MinKeys + MinKeys <= MaxKeys
    /\ MinKeys + MinKeys + 1 = (IF Order % 2 = 0 THEN MaxKeys ELSE MaxKeys + 1)
BY OrderAssumption DEF Median, MinKeys, MaxKeys

(* A sequence around one of its elements.                                     *)
LEMMA AroundElement ==
    ASSUME NEW S, NEW s \in Seq(S), NEW p \in 1 .. Len(s)
    PROVE  SubSeq(s, 1, p - 1) \o << s[p] >> \o SubSeq(s, p + 1, Len(s)) = s
<1>1. Len(s) \in Nat /\ p \in Nat /\ p \in 0 .. Len(s) /\ 1 \in 1 .. Len(s)
  BY LenProperties
<1>2. SubSeq(s, 1, p) \o SubSeq(s, p + 1, Len(s)) = s
  BY <1>1, CutInTwo
<1>3. SubSeq(s, 1, p) = SubSeq(s, 1, p - 1) \o << s[p] >>
  <2> DEFINE one == 1
  <2>1. one \in 1 .. Len(s) /\ p \in one .. Len(s)
    BY <1>1
  <2> HIDE DEF one
  <2>2. SubSeq(s, one, p) = SubSeq(s, one, p - 1) \o << s[p] >>
    BY <2>1, SubSeqRecursiveSecond
  <2> QED
    BY <2>2 DEF one
<1> QED
  BY <1>2, <1>3

(* A node cut at one of its keys.                                             *)
CutAt(n, p, l, r) ==
    /\ l = Node(n.leaf, UpTo(n.keys, p - 1), UpTo(n.kids, p))
    /\ r = Node(n.leaf, Behind(n.keys, p), Behind(n.kids, p))

(* A node that is cut at one of its keys reads as its parts around that key.  *)
LEMMA CutReads ==
    ASSUME NEW leaf, NEW T, NEW n \in Nodes(leaf, T), NEW p \in 1 .. Len(n.keys),
           NEW l, NEW r, CutAt(n, p, l, r)
    PROVE  /\ l \in Nodes(leaf, T) /\ r \in Nodes(leaf, T) /\ n.keys[p] \in Int
           /\ Reads(n, l, n.keys[p], r)
           /\ Len(l.keys) = p - 1 /\ Len(r.keys) = Len(n.keys) - p
<1> DEFINE N == Len(n.keys)
           q == p - 1
           A == SubSeq(n.keys, 1, q)
           B == SubSeq(n.keys, p + 1, Len(n.keys))
           C == UpTo(n.kids, p)
           D == Behind(n.kids, p)
<1>1. /\ n.leaf = leaf /\ n.keys \in Seq(Int) /\ n.kids \in Seq(T)
      /\ N \in Nat /\ p \in Nat /\ p <= N
      /\ Len(n.kids) = KidCount(leaf, N)
      /\ n.keys[p] \in Int
  BY NodeFacts
<1>2. UpTo(n.keys, q) = A /\ Behind(n.keys, p) = B
  BY <1>1 DEF UpTo, Behind
<1>3. A \o << n.keys[p] >> \o B = n.keys
  BY <1>1, AroundElement
<1>4. A \in Seq(Int) /\ Len(A) = q
  <2>1. q \in 0 .. Len(n.keys)
    BY <1>1
  <2> HIDE DEF q
  <2> QED
    BY <1>1, <2>1, CutInTwo
<1>5. B \in Seq(Int) /\ Len(B) = N - p
  <2>1. p \in 0 .. Len(n.keys)
    BY <1>1
  <2> QED
    BY <1>1, <2>1, CutInTwo
<1>6. /\ C \in Seq(T) /\ D \in Seq(T) /\ C \o D = n.kids
      /\ Len(C) = KidCount(leaf, q) /\ Len(D) = KidCount(leaf, N - p)
  <2>1. CASE leaf
    <3>1. n.kids = << >> /\ Len(n.kids) = 0
      BY <1>1, <2>1, EmptySeq DEF KidCount
    <3>2. C = << >> /\ D = << >>
      BY <1>1, <3>1, SubSeqEmpty DEF UpTo, Behind
    <3> HIDE DEF C, D
    <3>3. << >> \in Seq(T) /\ << >> \o << >> = << >> /\ Len(<< >>) = 0
      OBVIOUS
    <3> QED
      BY <2>1, <3>1, <3>2, <3>3 DEF KidCount
  <2>2. CASE ~leaf
    <3>1. Len(n.kids) = N + 1 /\ p \in 0 .. Len(n.kids) /\ p < Len(n.kids)
      BY <1>1, <2>2 DEF KidCount
    <3>2. C = SubSeq(n.kids, 1, p) /\ D = SubSeq(n.kids, p + 1, Len(n.kids))
      BY <3>1 DEF UpTo, Behind
    <3>3. C \in Seq(T) /\ D \in Seq(T) /\ C \o D = n.kids /\ Len(C) = p /\ Len(D) = Len(n.kids) - p
      <4>1. n.kids \in Seq(T) /\ p \in 0 .. Len(n.kids)
        BY <1>1, <3>1
      <4>2. /\ SubSeq(n.kids, 1, p) \in Seq(T) /\ SubSeq(n.kids, p + 1, Len(n.kids)) \in Seq(T)
            /\ Len(SubSeq(n.kids, 1, p)) = p
            /\ Len(SubSeq(n.kids, p + 1, Len(n.kids))) = Len(n.kids) - p
            /\ SubSeq(n.kids, 1, p) \o SubSeq(n.kids, p + 1, Len(n.kids)) = n.kids
        BY <4>1, CutInTwo
      <4> QED
        BY <3>2, <4>2
    <3> HIDE DEF C, D
    <3>4. KidCount(leaf, q) = p /\ KidCount(leaf, N - p) = Len(n.kids) - p
      BY <1>1, <2>2, <3>1 DEF KidCount
    <3> QED
      BY <3>3, <3>4
  <2> QED
    BY <2>1, <2>2
<1>7. l = Node(leaf, A, C) /\ r = Node(leaf, B, D)
  BY <1>1, <1>2 DEF CutAt
<1> HIDE DEF A, B, C, D
<1>8. l \in Nodes(leaf, T) /\ l.keys = A /\ l.kids = C
  <2>1. Len(C) = KidCount(leaf, Len(A))
    BY <1>4, <1>6
  <2>2. Node(leaf, A, C) \in Nodes(leaf, T) /\ Node(leaf, A, C).keys = A /\ Node(leaf, A, C).kids = C
    <3>1. A \in Seq(Int) /\ C \in Seq(T)
      BY <1>4, <1>6
    <3> QED
      BY <2>1, <3>1, NodeMade
  <2> QED
    BY <1>7, <2>2
<1>9. r \in Nodes(leaf, T) /\ r.keys = B /\ r.kids = D
  <2>1. Len(D) = KidCount(leaf, Len(B))
    BY <1>5, <1>6
  <2>2. Node(leaf, B, D) \in Nodes(leaf, T) /\ Node(leaf, B, D).keys = B /\ Node(leaf, B, D).kids = D
    <3>1. B \in Seq(Int) /\ D \in Seq(T)
      BY <1>5, <1>6
    <3> QED
      BY <2>1, <3>1, NodeMade
  <2> QED
    BY <1>7, <2>2
<1>10. Reads(n, l, n.keys[p], r)
  BY <1>3, <1>6, <1>8, <1>9 DEF Reads
<1> QED
  BY <1>1, <1>4, <1>5, <1>8, <1>9, <1>10

(* splitNode cuts an overfull node at its median, and both halves are at      *)
(* least as full as a node must be.                                           *)
LEMMA HalvesRead ==
    ASSUME NEW leaf, NEW T, NEW n \in Nodes(leaf, T), Overfull(n)
    PROVE  /\ LeftHalf(n) \in Nodes(leaf, T) /\ RightHalf(n) \in Nodes(leaf, T)
           /\ n.keys[Median] \in Int
           /\ Reads(n, LeftHalf(n), n.keys[Median], RightHalf(n))
           /\ Len(LeftHalf(n).keys) \in MinKeys .. MaxKeys
           /\ Len(RightHalf(n).keys) \in MinKeys .. MaxKeys
<1> DEFINE l == LeftHalf(n)
           r == RightHalf(n)
           p == Median
<1>1. Len(n.keys) = Order /\ p \in 1 .. Len(n.keys)
  BY OrderArithmetic DEF Overfull
<1>2. CutAt(n, p, l, r)
  BY DEF LeftHalf, RightHalf, CutAt
<1> HIDE DEF l, r, p
<1>3. /\ l \in Nodes(leaf, T) /\ r \in Nodes(leaf, T) /\ n.keys[p] \in Int
      /\ Reads(n, l, n.keys[p], r)
      /\ Len(l.keys) = p - 1 /\ Len(r.keys) = Len(n.keys) - p
  BY <1>1, <1>2, CutReads
<1>4. Len(l.keys) \in MinKeys .. MaxKeys /\ Len(r.keys) \in MinKeys .. MaxKeys
  <2>1. Len(l.keys) = p - 1 /\ Len(r.keys) = Order - p
    BY <1>1, <1>3
  <2>2. p = Median
    BY DEF p
  <2> QED
    BY <2>1, <2>2, OrderArithmetic
<1> QED
  BY <1>3, <1>4 DEF l, r, p

(* mergeNode puts two siblings around the key between them.                   *)
Joining(l, k, r) == Node(l.leaf, l.keys \o << k >> \o r.keys, l.kids \o r.kids)

(* j is as long as l, a key, and r together.                                  *)
AsLong(j, l, r) == Len(j.keys) = Len(l.keys) + 1 + Len(r.keys)

(* Two nodes joined around a key read as the two and the key.                 *)
LEMMA JoinReads ==
    ASSUME NEW leaf, NEW T, NEW l \in Nodes(leaf, T), NEW r \in Nodes(leaf, T), NEW k \in Int,
           NEW j, j = Joining(l, k, r)
    PROVE  /\ j \in Nodes(leaf, T) /\ Reads(j, l, k, r)
           /\ AsLong(j, l, r)
<1> DEFINE u == << k >>
           v == l.keys \o u
           w == v \o r.keys
           z == l.kids \o r.kids
<1>1. /\ l.leaf = leaf
      /\ l.keys \in Seq(Int) /\ r.keys \in Seq(Int) /\ l.kids \in Seq(T) /\ r.kids \in Seq(T)
      /\ Len(l.keys) \in Nat /\ Len(r.keys) \in Nat
      /\ Len(l.kids) = (IF leaf THEN 0 ELSE Len(l.keys) + 1)
      /\ Len(r.kids) = (IF leaf THEN 0 ELSE Len(r.keys) + 1)
  BY NodeFacts
<1>2. u \in Seq(Int) /\ Len(u) = 1
  OBVIOUS
<1> HIDE DEF u
<1>3. v \in Seq(Int) /\ Len(v) = Len(l.keys) + 1
  <2>1. l.keys \in Seq(Int) /\ u \in Seq(Int)
    BY <1>1, <1>2
  <2>2. v \in Seq(Int) /\ Len(v) = Len(l.keys) + Len(u)
    BY <2>1, ConcatProperties
  <2> QED
    BY <1>2, <2>2
<1> HIDE DEF v
<1>4. w \in Seq(Int) /\ Len(w) = Len(l.keys) + 1 + Len(r.keys)
  <2>1. v \in Seq(Int) /\ r.keys \in Seq(Int)
    BY <1>1, <1>3
  <2>2. w \in Seq(Int) /\ Len(w) = Len(v) + Len(r.keys)
    BY <2>1, ConcatProperties
  <2> QED
    BY <1>3, <2>2
<1>5. z \in Seq(T) /\ Len(z) = Len(l.kids) + Len(r.kids)
  BY <1>1, ConcatProperties
<1>6. j = Node(leaf, w, z)
  BY <1>1 DEF Joining, v, u
<1> HIDE DEF w, z
<1>7. Len(z) = KidCount(leaf, Len(w))
  <2>1. CASE leaf
    BY <1>1, <1>5, <2>1 DEF KidCount
  <2>2. CASE ~leaf
    <3>1. Len(l.kids) = Len(l.keys) + 1 /\ Len(r.kids) = Len(r.keys) + 1
      BY <1>1, <2>2
    <3>2. Len(z) = Len(w) + 1
      <4> DEFINE a == Len(l.keys)
                 b == Len(r.keys)
                 c == Len(z)
                 d == Len(w)
      <4>1. a \in Nat /\ b \in Nat /\ d = a + 1 + b
        BY <1>1, <1>4
      <4>2. c = (a + 1) + (b + 1)
        BY <1>5, <3>1
      <4> HIDE DEF a, b, c, d
      <4>3. c = d + 1
        BY <4>1, <4>2
      <4> QED
        BY <4>3 DEF c, d
    <3> QED
      BY <2>2, <3>2 DEF KidCount
  <2> QED
    BY <2>1, <2>2
<1>8. /\ Node(leaf, w, z) \in Nodes(leaf, T)
      /\ Node(leaf, w, z).keys = w /\ Node(leaf, w, z).kids = z
  <2>1. w \in Seq(Int) /\ z \in Seq(T)
    BY <1>4, <1>5
  <2> QED
    BY <1>7, <2>1, NodeMade
<1> QED
  BY <1>4, <1>6, <1>8 DEF AsLong, Reads, w, v, u, z

(* borrowFromRight reads the same pair of siblings elsewhere apart.           *)
LentFromRight(l, k, r, a, b) ==
    /\ a = Node(l.leaf, Append(l.keys, k), l.kids \o UpTo(r.kids, 1))
    /\ b = Node(r.leaf, Tail(r.keys), Behind(r.kids, 1))

(* Concatenation is associative.                                              *)
LEMMA Regrouped ==
    ASSUME NEW S, NEW s \in Seq(S), NEW t \in Seq(S), NEW u \in Seq(S), NEW v,
           v = s \o (t \o u)
    PROVE  v = s \o t \o u
BY ConcatAssociative, SMTT(30)

(* After a loan from the right sibling the two read as before, around another *)
(* key.                                                                       *)
LEMMA RightLoanReads ==
    ASSUME NEW leaf, NEW T, NEW l \in Nodes(leaf, T), NEW r \in Nodes(leaf, T), NEW k \in Int,
           Len(r.keys) >= 1, NEW j \in Nodes(leaf, T), Reads(j, l, k, r),
           NEW a, NEW b, LentFromRight(l, k, r, a, b)
    PROVE  /\ a \in Nodes(leaf, T) /\ b \in Nodes(leaf, T) /\ Head(r.keys) \in Int
           /\ Reads(j, a, Head(r.keys), b)
           /\ Len(a.keys) = Len(l.keys) + 1 /\ Len(b.keys) = Len(r.keys) - 1
<1> DEFINE h == Head(r.keys)
           t == Tail(r.keys)
           s == Append(l.keys, k)
           u == << k >>
           f == << h >>
           C == UpTo(r.kids, 1)
           D == Behind(r.kids, 1)
           z == l.kids \o C
<1>1. /\ l.leaf = leaf /\ r.leaf = leaf
      /\ l.keys \in Seq(Int) /\ r.keys \in Seq(Int) /\ l.kids \in Seq(T) /\ r.kids \in Seq(T)
      /\ Len(l.keys) \in Nat /\ Len(r.keys) \in Nat /\ Len(l.kids) \in Nat /\ Len(r.kids) \in Nat
      /\ Len(l.kids) = (IF leaf THEN 0 ELSE Len(l.keys) + 1)
      /\ Len(r.kids) = (IF leaf THEN 0 ELSE Len(r.keys) + 1)
  BY NodeFacts
<1>2. r.keys # << >>
  BY <1>1, EmptySeq
<1>3. h \in Int /\ t \in Seq(Int) /\ Len(t) = Len(r.keys) - 1
  BY <1>1, <1>2, HeadTailProperties
<1>4. u \in Seq(Int) /\ f \in Seq(Int)
  BY <1>3
<1>5. r.keys = f \o t
  <2> DEFINE one == 1
             N == Len(r.keys)
  <2>1. one \in 1 .. Len(r.keys) /\ N \in one .. Len(r.keys)
    BY <1>1
  <2>2. r.keys[one] = h
    BY <1>1, <1>2
  <2>3. SubSeq(r.keys, one, N) = r.keys
    BY <1>1, SubSeqFull
  <2>4. t = SubSeq(r.keys, one + 1, N)
    <3>1. t = SubSeq(r.keys, 2, Len(r.keys))
      BY <1>1, <1>2, TailIsSubSeq
    <3> QED
      BY <3>1
  <2> HIDE DEF one, N, h, t, f
  <2>5. SubSeq(r.keys, one, N) = << r.keys[one] >> \o SubSeq(r.keys, one + 1, N)
    BY <1>1, <2>1, SubSeqRecursiveFirst
  <2> QED
    BY <2>2, <2>3, <2>4, <2>5 DEF f
<1>6. s = l.keys \o u /\ s \in Seq(Int) /\ Len(s) = Len(l.keys) + 1
  <2>1. l.keys \in Seq(Int) /\ k \in Int
    BY <1>1
  <2>2. s = l.keys \o u
    BY <2>1, AppendIsConcat
  <2>3. s \in Seq(Int) /\ Len(s) = Len(l.keys) + 1
    BY <2>1, AppendProperties
  <2> QED
    BY <2>2, <2>3
<1> HIDE DEF h, t, s, u, f
<1>7. j.keys = s \o f \o t
  <2>1. j.keys = l.keys \o u \o r.keys
    BY DEF Reads, u
  <2>2. j.keys = s \o (f \o t)
    BY <1>5, <1>6, <2>1
  <2>3. s \in Seq(Int) /\ f \in Seq(Int) /\ t \in Seq(Int)
    BY <1>3, <1>4, <1>6
  <2> QED
    BY <2>2, <2>3, Regrouped, SMTT(30)
<1>8. C \in Seq(T) /\ D \in Seq(T) /\ C \o D = r.kids
      /\ Len(C) = (IF leaf THEN 0 ELSE 1) /\ Len(D) = KidCount(leaf, Len(t))
  <2>1. CASE leaf
    <3>1. r.kids = << >> /\ Len(r.kids) = 0
      BY <1>1, <2>1, EmptySeq
    <3>2. C = << >> /\ D = << >>
      BY <1>1, <3>1, SubSeqEmpty DEF UpTo, Behind
    <3> HIDE DEF C, D
    <3>3. << >> \in Seq(T) /\ << >> \o << >> = << >> /\ Len(<< >>) = 0
      OBVIOUS
    <3> QED
      BY <2>1, <3>1, <3>2, <3>3 DEF KidCount
  <2>2. CASE ~leaf
    <3> DEFINE one == 1
    <3>1. Len(r.kids) = Len(r.keys) + 1 /\ one \in 0 .. Len(r.kids) /\ one < Len(r.kids)
      BY <1>1, <2>2
    <3>2. C = SubSeq(r.kids, 1, one) /\ D = SubSeq(r.kids, one + 1, Len(r.kids))
      BY <3>1 DEF UpTo, Behind
    <3>3. one = 1
      OBVIOUS
    <3> HIDE DEF one
    <3>4. /\ SubSeq(r.kids, 1, one) \in Seq(T) /\ SubSeq(r.kids, one + 1, Len(r.kids)) \in Seq(T)
          /\ Len(SubSeq(r.kids, 1, one)) = one
          /\ Len(SubSeq(r.kids, one + 1, Len(r.kids))) = Len(r.kids) - one
          /\ SubSeq(r.kids, 1, one) \o SubSeq(r.kids, one + 1, Len(r.kids)) = r.kids
      <4>1. r.kids \in Seq(T) /\ one \in 0 .. Len(r.kids)
        BY <1>1, <3>1
      <4> QED
        BY <4>1, CutInTwo, ZenonT(30)
    <3> HIDE DEF C, D
    <3>5. C \in Seq(T) /\ D \in Seq(T) /\ C \o D = r.kids /\ Len(C) = 1 /\ Len(D) = Len(r.kids) - 1
      BY <3>2, <3>3, <3>4
    <3>6. KidCount(leaf, Len(t)) = Len(r.kids) - 1
      BY <1>1, <1>3, <2>2, <3>1 DEF KidCount
    <3> QED
      BY <2>2, <3>5, <3>6
  <2> QED
    BY <2>1, <2>2
<1> HIDE DEF C, D
<1>9. z \in Seq(T) /\ Len(z) = KidCount(leaf, Len(s)) /\ z \o D = j.kids
  <2>1. z \in Seq(T) /\ Len(z) = Len(l.kids) + Len(C)
    <3>1. l.kids \in Seq(T) /\ C \in Seq(T)
      BY <1>1, <1>8
    <3> QED
      BY <3>1, ConcatProperties
  <2>2. Len(z) = KidCount(leaf, Len(s))
    <3>1. CASE leaf
      BY <1>1, <1>8, <2>1, <3>1 DEF KidCount
    <3>2. CASE ~leaf
      <4>1. Len(l.kids) = Len(l.keys) + 1 /\ Len(C) = 1
        BY <1>1, <1>8, <3>2
      <4>2. Len(z) = Len(s) + 1
        BY <1>1, <1>6, <2>1, <4>1
      <4> QED
        BY <3>2, <4>2 DEF KidCount
    <3> QED
      BY <3>1, <3>2
  <2>3. j.kids = l.kids \o (C \o D)
    BY <1>8 DEF Reads
  <2>4. l.kids \in Seq(T) /\ C \in Seq(T) /\ D \in Seq(T)
    BY <1>1, <1>8
  <2>5. j.kids = l.kids \o C \o D
    <3> DEFINE x == l.kids
               y == j.kids
    <3>1. x \in Seq(T) /\ C \in Seq(T) /\ D \in Seq(T) /\ y = x \o (C \o D)
      BY <2>3, <2>4
    <3> HIDE DEF x, y
    <3>2. y = x \o C \o D
      BY <3>1, Regrouped, SMTT(30)
    <3> QED
      BY <3>2 DEF x, y
  <2>6. z \o D = j.kids
    BY <2>5
  <2> HIDE DEF z
  <2> QED
    BY <2>1, <2>2, <2>6
<1>10. a = Node(leaf, s, z) /\ b = Node(leaf, t, D)
  BY <1>1 DEF LentFromRight, s, t, C, D
<1> HIDE DEF z
<1>11. a \in Nodes(leaf, T) /\ a.keys = s /\ a.kids = z
  <2>1. s \in Seq(Int) /\ z \in Seq(T) /\ Len(z) = KidCount(leaf, Len(s))
    BY <1>6, <1>9
  <2>2. /\ Node(leaf, s, z) \in Nodes(leaf, T)
        /\ Node(leaf, s, z).keys = s /\ Node(leaf, s, z).kids = z
    BY <2>1, NodeMade
  <2> QED
    BY <1>10, <2>2
<1>12. b \in Nodes(leaf, T) /\ b.keys = t /\ b.kids = D
  <2>1. t \in Seq(Int) /\ D \in Seq(T) /\ Len(D) = KidCount(leaf, Len(t))
    BY <1>3, <1>8
  <2>2. /\ Node(leaf, t, D) \in Nodes(leaf, T)
        /\ Node(leaf, t, D).keys = t /\ Node(leaf, t, D).kids = D
    BY <2>1, NodeMade
  <2> QED
    BY <1>10, <2>2
<1>13. Reads(j, a, h, b)
  BY <1>7, <1>9, <1>11, <1>12 DEF Reads, f
<1> QED
  BY <1>3, <1>6, <1>11, <1>12, <1>13 DEF h

(* A sequence is its front and its last element.                              *)
LEMMA LastApart ==
    ASSUME NEW S, NEW s \in Seq(S), Len(s) >= 1
    PROVE  /\ Front(s) \in Seq(S) /\ Last(s) \in S /\ Len(Front(s)) = Len(s) - 1
           /\ s = Front(s) \o << Last(s) >>
           /\ \A i \in 1 .. Len(s) - 1 : Front(s)[i] = s[i]
<1> DEFINE N == Len(s)
           m == N - 1
           one == 1
<1>1. N \in Nat /\ m \in 0 .. Len(s) /\ one \in 1 .. Len(s) /\ N \in one .. Len(s) /\ N \in 1 .. Len(s)
  BY LenProperties
<1>2. Front(s) = SubSeq(s, 1, m) /\ Last(s) = s[N]
  BY DEF Front, Last
<1>3. Last(s) \in S
  BY <1>1, <1>2, ElementOfSeq
<1>4. SubSeq(s, one, N) = s
  BY SubSeqFull
<1> HIDE DEF one, N
<1>5. SubSeq(s, one, N) = SubSeq(s, one, N - 1) \o << s[N] >>
  BY <1>1, SubSeqRecursiveSecond
<1>6. s = Front(s) \o << Last(s) >>
  BY <1>2, <1>4, <1>5 DEF one
<1> HIDE DEF m
<1>7. /\ SubSeq(s, 1, m) \in Seq(S) /\ Len(SubSeq(s, 1, m)) = m
      /\ \A i \in 1 .. m : SubSeq(s, 1, m)[i] = s[i]
  BY <1>1, CutInTwo
<1> QED
  BY <1>2, <1>3, <1>6, <1>7 DEF m, N

(* borrowFromLeft, whose shift of the keys repeats the first.                 *)
Repeated(keys) == [i \in 1 .. Len(keys) |-> keys[1]]

(* l lends its last key, and the last child, to r by way of the key k between *)
(* them.                                                                      *)
LentFromLeft(l, k, r, a, b) ==
    /\ a = Node(l.leaf, Front(l.keys), IF l.kids = << >> THEN << >> ELSE Front(l.kids))
    /\ b = Node(r.leaf, << k >> \o Repeated(r.keys),
                IF l.kids = << >> THEN r.kids ELSE << Last(l.kids) >> \o r.kids)

(* The shift of borrowFromLeft does no harm to a node of at most one key.     *)
LEMMA RepeatedAlone ==
    ASSUME NEW s \in Seq(Int), Len(s) <= 1
    PROVE  Repeated(s) = s
<1>1. Len(s) \in Nat
  BY LenProperties
<1>2. s = [i \in 1 .. Len(s) |-> s[i]]
  BY SeqDef
<1>3. \A i \in 1 .. Len(s) : s[i] = s[1]
  BY <1>1
<1> QED
  BY <1>2, <1>3 DEF Repeated

(* After a loan from the left sibling the two read as before, if the borrower *)
(* had at most one key.                                                       *)
LEMMA LeftLoanReads ==
    ASSUME NEW leaf, NEW T, NEW l \in Nodes(leaf, T), NEW r \in Nodes(leaf, T), NEW k \in Int,
           Len(l.keys) >= 1, Len(r.keys) <= 1, NEW j \in Nodes(leaf, T), Reads(j, l, k, r),
           NEW a, NEW b, LentFromLeft(l, k, r, a, b)
    PROVE  /\ a \in Nodes(leaf, T) /\ b \in Nodes(leaf, T) /\ Last(l.keys) \in Int
           /\ Reads(j, a, Last(l.keys), b)
           /\ Len(a.keys) = Len(l.keys) - 1 /\ Len(b.keys) = Len(r.keys) + 1
<1> DEFINE h == Last(l.keys)
           t == Front(l.keys)
           u == << k >>
           f == << h >>
           p == r.keys
           s == u \o p
           w == l.kids
           q == r.kids
           C == IF w = << >> THEN << >> ELSE Front(w)
           z == IF w = << >> THEN q ELSE << Last(w) >> \o q
<1>1. /\ l.leaf = leaf /\ r.leaf = leaf
      /\ l.keys \in Seq(Int) /\ p \in Seq(Int) /\ w \in Seq(T) /\ q \in Seq(T)
      /\ Len(l.keys) \in Nat /\ Len(p) \in Nat /\ Len(w) \in Nat /\ Len(q) \in Nat
      /\ Len(w) = KidCount(leaf, Len(l.keys))
      /\ Len(q) = KidCount(leaf, Len(p))
  BY NodeFacts
<1>2. j.keys = l.keys \o u \o p /\ j.kids = w \o q
  BY DEF Reads
<1>3. h \in Int /\ t \in Seq(Int) /\ Len(t) = Len(l.keys) - 1 /\ l.keys = t \o f
  <2>1. l.keys \in Seq(Int) /\ Len(l.keys) >= 1
    BY <1>1
  <2> QED
    BY <2>1, LastApart
<1>4. u \in Seq(Int) /\ f \in Seq(Int) /\ Len(u) = 1
  BY <1>3
<1>5. a = Node(leaf, t, C) /\ b = Node(leaf, s, z)
  <2>1. Repeated(p) = p
    BY <1>1, RepeatedAlone
  <2> QED
    BY <1>1, <2>1 DEF LentFromLeft
<1> HIDE DEF h, t, u, f, p, w, q
<1>6. s \in Seq(Int) /\ Len(s) = Len(p) + 1
  <2>1. s \in Seq(Int) /\ Len(s) = Len(u) + Len(p)
    BY <1>1, <1>4, ConcatProperties, ZenonT(30)
  <2> HIDE DEF s
  <2> QED
    BY <1>1, <1>4, <2>1
<1>7. j.keys = t \o f \o s
  <2>1. t \o f \in Seq(Int)
    BY <1>3, <1>4, ConcatProperties
  <2> DEFINE x == t \o f
  <2>2. x \in Seq(Int) /\ u \in Seq(Int) /\ p \in Seq(Int)
    BY <1>1, <1>4, <2>1
  <2>3. j.keys = x \o u \o p
    BY <1>2, <1>3
  <2> HIDE DEF x
  <2> DEFINE v == x \o (u \o p)
  <2>4. v = x \o (u \o p)
    OBVIOUS
  <2> HIDE DEF v
  <2>5. v = x \o u \o p
    BY <2>2, <2>4, Regrouped, SMTT(30)
  <2> QED
    BY <2>3, <2>4, <2>5 DEF x
<1>8. /\ C \in Seq(T) /\ z \in Seq(T) /\ C \o z = w \o q
      /\ Len(C) = KidCount(leaf, Len(t)) /\ Len(z) = KidCount(leaf, Len(s))
  <2>1. CASE leaf
    <3>1. Len(w) = 0 /\ Len(q) = 0
      BY <1>1, <2>1 DEF KidCount
    <3>2. w = << >> /\ q = << >>
      BY <1>1, <3>1, EmptySeq
    <3>3. C = w /\ z = q
      BY <3>2
    <3> HIDE DEF C, z
    <3> QED
      BY <1>1, <2>1, <3>1, <3>3 DEF KidCount
  <2>2. CASE ~leaf
    <3> DEFINE c == Last(w)
               D == Front(w)
               e == << c >>
    <3>1. Len(w) = Len(l.keys) + 1 /\ Len(q) = Len(p) + 1 /\ Len(w) >= 1
      BY <1>1, <2>2 DEF KidCount
    <3>2. w # << >>
      BY <3>1
    <3>3. C = D /\ z = e \o q
      BY <3>2
    <3> HIDE DEF C, z
    <3>4. D \in Seq(T) /\ c \in T /\ Len(D) = Len(w) - 1 /\ w = D \o e
      BY <1>1, <3>1, LastApart
    <3>5. e \in Seq(T) /\ Len(e) = 1
      BY <3>4
    <3> HIDE DEF D, e, c
    <3>6. e \o q \in Seq(T) /\ Len(e \o q) = Len(e) + Len(q)
      BY <1>1, <3>5, ConcatProperties, ZenonT(30)
    <3>7. D \o e \o q = D \o (e \o q)
      <4> DEFINE v == D \o (e \o q)
    <4>1. D \in Seq(T) /\ e \in Seq(T) /\ q \in Seq(T) /\ v = D \o (e \o q)
      BY <1>1, <3>4, <3>5
    <4> HIDE DEF v
    <4>2. v = D \o e \o q
      BY <4>1, Regrouped
    <4> QED
      BY <4>2 DEF v
    <3>8. C \o z = w \o q
      BY <3>3, <3>4, <3>7
    <3>9. Len(D) = Len(t) + 1 /\ Len(e \o q) = Len(s) + 1
      <4> DEFINE n1 == Len(D)
                 n2 == Len(e \o q)
                 n3 == Len(t)
                 n4 == Len(s)
                 n5 == Len(q)
                 n6 == Len(p)
                 n7 == Len(l.keys)
                 n8 == Len(w)
      <4>1. /\ n8 = n7 + 1 /\ n5 = n6 + 1 /\ n1 = n8 - 1 /\ n3 = n7 - 1 /\ n4 = n6 + 1 /\ n2 = 1 + n5
            /\ n7 \in Nat /\ n6 \in Nat
        BY <1>1, <1>3, <1>6, <3>1, <3>4, <3>5, <3>6
      <4> HIDE DEF n1, n2, n3, n4, n5, n6, n7, n8
      <4>2. n1 = n3 + 1 /\ n2 = n4 + 1
        BY <4>1
      <4> QED
        BY <4>2 DEF n1, n2, n3, n4
    <3>10. Len(C) = KidCount(leaf, Len(t)) /\ Len(z) = KidCount(leaf, Len(s))
      BY <2>2, <3>3, <3>9 DEF KidCount
    <3>11. C \in Seq(T) /\ z \in Seq(T)
      BY <3>3, <3>4, <3>6
    <3> QED
      BY <3>8, <3>10, <3>11
  <2> QED
    BY <2>1, <2>2
<1> HIDE DEF C, z, s
<1>9. a \in Nodes(leaf, T) /\ a.keys = t /\ a.kids = C
  <2>1. t \in Seq(Int) /\ C \in Seq(T) /\ Len(C) = KidCount(leaf, Len(t))
    BY <1>3, <1>8
  <2>2. /\ Node(leaf, t, C) \in Nodes(leaf, T)
        /\ Node(leaf, t, C).keys = t /\ Node(leaf, t, C).kids = C
    BY <2>1, NodeMade
  <2> QED
    BY <1>5, <2>2
<1>10. b \in Nodes(leaf, T) /\ b.keys = s /\ b.kids = z
  <2>1. s \in Seq(Int) /\ z \in Seq(T) /\ Len(z) = KidCount(leaf, Len(s))
    BY <1>6, <1>8
  <2>2. /\ Node(leaf, s, z) \in Nodes(leaf, T)
        /\ Node(leaf, s, z).keys = s /\ Node(leaf, s, z).kids = z
    BY <2>1, NodeMade
  <2> QED
    BY <1>5, <2>2
<1>11. Reads(j, a, h, b)
  BY <1>2, <1>7, <1>8, <1>9, <1>10 DEF Reads, f
<1> QED
  BY <1>3, <1>6, <1>9, <1>10, <1>11 DEF h, p

-----------------------------------------------------------------------------
(* Looking for a key in a node                                                *)

(* Where the loop over the keys stops.                                        *)
StopsAt(n, val, p) ==
    /\ p \in 1 .. Len(n.keys) + 1
    /\ p <= Len(n.keys) => val <= n.keys[p]
    /\ \A j \in 1 .. p - 1 : n.keys[j] < val

(* The scans of searchNode, insertNode and deleteValFromNode stop where they  *)
(* should, in every node.                                                     *)
LEMMA PositionFound ==
    ASSUME NEW leaf, NEW T, NEW n \in Nodes(leaf, T), NEW val \in Int
    PROVE  StopsAt(n, val, Position(n, val))
<1> DEFINE S == {i \in 1 .. Len(n.keys) + 1 : i <= Len(n.keys) => val <= n.keys[i]}
<1>1. Len(n.keys) \in Nat /\ \A i \in 1 .. Len(n.keys) : n.keys[i] \in Int
  BY NodeFacts
<1>2. S \in SUBSET Nat /\ Len(n.keys) + 1 \in S
  BY <1>1
<1>3. PICK p \in S : \A m \in S : p <= m
  BY <1>2, LeastNumber
<1>4. ASSUME NEW j \in 1 .. p - 1 PROVE n.keys[j] < val
  <2>1. j \in 1 .. Len(n.keys) /\ ~(p <= j) /\ n.keys[j] \in Int
    BY <1>1, <1>3
  <2>2. j \notin S
    BY <1>3, <2>1
  <2> QED
    BY <1>1, <2>1, <2>2
<1>5. StopsAt(n, val, p)
  BY <1>3, <1>4 DEF StopsAt
<1>6. Position(n, val) = CHOOSE i \in 1 .. Len(n.keys) + 1 : StopsAt(n, val, i)
  BY DEF Position, StopsAt
<1>7. p \in 1 .. Len(n.keys) + 1
  BY <1>3
<1> QED
  BY <1>5, <1>6, <1>7

(* The key is found there, or nowhere in the node.                            *)
LEMMA PositionTells ==
    ASSUME NEW leaf, NEW T, NEW n \in Nodes(leaf, T), NEW val \in Int, Ascending(n.keys),
           NEW p, StopsAt(n, val, p)
    PROVE  /\ HasAt(n, val, p) <=> val \in Own(n)
           /\ ~HasAt(n, val, p) => \A j \in p .. Len(n.keys) : val < n.keys[j]
<1>1. Len(n.keys) \in Nat /\ \A i \in 1 .. Len(n.keys) : n.keys[i] \in Int
  BY NodeFacts
<1>2. /\ p \in 1 .. Len(n.keys) + 1
      /\ p <= Len(n.keys) => val <= n.keys[p]
      /\ \A j \in 1 .. p - 1 : n.keys[j] < val
  BY DEF StopsAt
<1>3. ASSUME HasAt(n, val, p) PROVE val \in Own(n)
  <2>1. p \in 1 .. Len(n.keys) /\ n.keys[p] = val
    BY <1>1, <1>2, <1>3 DEF HasAt
  <2> QED
    BY <2>1 DEF Own
<1>4. ASSUME ~HasAt(n, val, p), NEW j \in p .. Len(n.keys) PROVE val < n.keys[j]
  <2>1. p \in 1 .. Len(n.keys) /\ n.keys[p] # val /\ n.keys[p] \in Int /\ j \in 1 .. Len(n.keys)
    BY <1>1, <1>2, <1>4 DEF HasAt
  <2>2. val < n.keys[p]
    BY <1>2, <2>1
  <2>3. p = j \/ n.keys[p] < n.keys[j]
    BY <2>1 DEF Ascending
  <2>4. n.keys[j] \in Int
    BY <1>1, <2>1
  <2> QED
    BY <2>1, <2>2, <2>3, <2>4
<1>5. ASSUME ~HasAt(n, val, p), val \in Own(n) PROVE FALSE
  <2>1. PICK j \in 1 .. Len(n.keys) : n.keys[j] = val
    BY <1>5 DEF Own
  <2>2. CASE j \in 1 .. p - 1
    BY <1>2, <2>1, <2>2
  <2>3. CASE j \in p .. Len(n.keys)
    BY <1>4, <1>5, <2>1, <2>3
  <2>4. j \in 1 .. p - 1 \/ j \in p .. Len(n.keys)
    BY <1>1, <1>2
  <2> QED
    BY <2>2, <2>3, <2>4
<1> QED
  BY <1>3, <1>4, <1>5

(* What is not in the node can only be beneath the child at that place.       *)
LEMMA PositionLeads ==
    ASSUME NEW leaf, NEW T, NEW V, NEW n \in Nodes(leaf, T), Ordered(n, V), NEW val \in Int,
           NEW p, StopsAt(n, val, p), ~HasAt(n, val, p)
    PROVE  /\ val \in Gap(n, p)
           /\ Bottom(leaf) => val \notin Held(n, V)
           /\ Inside(leaf) => p \in 1 .. Len(n.kids) /\ (val \in Held(n, V) <=> val \in V[n.kids[p]])
<1>1. /\ Len(n.keys) \in Nat /\ Len(n.kids) \in Nat
      /\ Len(n.kids) = KidCount(leaf, Len(n.keys))
      /\ \A i \in 1 .. Len(n.keys) : n.keys[i] \in Int
  BY NodeFacts
<1>2. /\ p \in 1 .. Len(n.keys) + 1 /\ p \in Nat
      /\ \A j \in 1 .. p - 1 : n.keys[j] < val
  BY <1>1 DEF StopsAt
<1>3. Ascending(n.keys)
  BY DEF Ordered
<1>4. val \notin Own(n) /\ \A j \in p .. Len(n.keys) : val < n.keys[j]
  BY <1>3, PositionTells
<1>5. val \in Gap(n, p)
  BY <1>2, <1>4 DEF Gap
<1>6. ASSUME Bottom(leaf) PROVE val \notin Held(n, V)
  <2>1. Len(n.kids) = 0
    BY <1>6, LeafAlone
  <2>2. Beneath(n, V) = {}
    BY <2>1 DEF Beneath
  <2> QED
    BY <1>4, <2>2 DEF Held
<1>7. ASSUME Inside(leaf) PROVE p \in 1 .. Len(n.kids) /\ (val \in Held(n, V) <=> val \in V[n.kids[p]])
  <2>1. Len(n.kids) = Len(n.keys) + 1
    BY <1>7, InnerKids
  <2>2. p \in 1 .. Len(n.kids)
    BY <1>1, <1>2, <2>1
  <2>3. ASSUME val \in V[n.kids[p]] PROVE val \in Held(n, V)
    BY <2>2, <2>3, HeldFacts
  <2>4. ASSUME NEW i \in 1 .. Len(n.kids), val \in V[n.kids[i]], i # p PROVE FALSE
    <3>1. /\ \A j \in 1 .. i - 1 : n.keys[j] < val
          /\ \A j \in i .. Len(n.keys) : val < n.keys[j]
      BY <2>4, OrderFacts
    <3>2. CASE i < p
      <4>1. i \in 1 .. p - 1 /\ i \in i .. Len(n.keys) /\ i \in 1 .. Len(n.keys)
        BY <1>1, <1>2, <2>1, <3>2
      <4>2. n.keys[i] < val /\ val < n.keys[i] /\ n.keys[i] \in Int
        BY <1>1, <1>2, <3>1, <4>1
      <4> QED
        BY <4>2
    <3>3. CASE p < i
      <4>1. p \in 1 .. i - 1 /\ p \in p .. Len(n.keys) /\ p \in 1 .. Len(n.keys)
        BY <1>1, <1>2, <2>1, <3>3
      <4>2. n.keys[p] < val /\ val < n.keys[p] /\ n.keys[p] \in Int
        BY <1>1, <1>4, <3>1, <4>1
      <4> QED
        BY <4>2
    <3>4. i < p \/ p < i
      BY <1>1, <1>2, <2>4
    <3> QED
      BY <3>2, <3>3, <3>4
  <2>5. ASSUME val \in Held(n, V) PROVE val \in V[n.kids[p]]
    <3>1. val \in Beneath(n, V)
      BY <1>4, <2>5 DEF Held
    <3>2. PICK i \in 1 .. Len(n.kids) : val \in V[n.kids[i]]
      BY <3>1 DEF Beneath
    <3> QED
      BY <2>4, <3>2
  <2> QED
    BY <2>2, <2>3, <2>5
<1> QED
  BY <1>5, <1>6, <1>7

(* A node that gets other keys, as many as it has.                            *)
LEMMA KeysReplaced ==
    ASSUME NEW leaf, NEW T, NEW n \in Nodes(leaf, T), NEW K \in Seq(Int),
           Len(n.kids) = KidCount(leaf, Len(K)), NEW m, m = Node(leaf, K, n.kids)
    PROVE  m \in Nodes(leaf, T) /\ m.keys = K /\ m.kids = n.kids
<1> DEFINE z == n.kids
<1>1. K \in Seq(Int) /\ z \in Seq(T) /\ Len(z) = KidCount(leaf, Len(K))
  BY NodeFacts
<1> HIDE DEF z
<1>2. Node(leaf, K, z) \in Nodes(leaf, T) /\ Node(leaf, K, z).keys = K /\ Node(leaf, K, z).kids = z
  BY <1>1, NodeMade
<1> QED
  BY <1>2 DEF z

(* A leaf that gets a key it does not hold.                                   *)
LEMMA LeafGrown ==
    ASSUME NEW leaf, NEW T, NEW V, Bottom(leaf), NEW n \in Nodes(leaf, T), Ordered(n, V), NEW val \in Int,
           NEW p, StopsAt(n, val, p), ~HasAt(n, val, p), NEW m, m = WithKey(n, p, val)
    PROVE  /\ m \in Nodes(leaf, T) /\ Ordered(m, V) /\ Held(m, V) = Held(n, V) \cup {val}
           /\ Len(m.keys) = Len(n.keys) + 1
<1> DEFINE K == InsertAt(n.keys, p, val)
<1>1. /\ n.leaf = leaf /\ n.keys \in Seq(Int) /\ n.kids \in Seq(T)
      /\ n = Node(leaf, n.keys, n.kids)
      /\ Len(n.keys) \in Nat /\ Len(n.kids) = 0
      /\ \A i \in 1 .. Len(n.keys) : n.keys[i] \in Int
  BY NodeFacts, LeafAlone
<1>2. p \in 1 .. Len(n.keys) + 1 /\ \A j \in 1 .. p - 1 : n.keys[j] < val
  BY DEF StopsAt
<1>3. Ascending(n.keys)
  BY DEF Ordered
<1>4. \A j \in p .. Len(n.keys) : val < n.keys[j]
  BY <1>3, PositionTells
<1>5. m = Node(leaf, K, n.kids)
  BY <1>1 DEF WithKey, Node
<1>6. K \in Seq(Int) /\ Inserted(n.keys, p, val, K)
  BY <1>1, <1>2, InsertedElement
<1> HIDE DEF K
<1>7. m \in Nodes(leaf, T) /\ m.keys = K /\ m.kids = n.kids
  <2>1. Len(n.kids) = KidCount(leaf, Len(K))
    <3>1. Len(K) \in Nat
      BY <1>6, LenProperties
    <3> QED
      BY <1>1, <3>1 DEF Bottom
  <2> QED
    BY <1>5, <1>6, <2>1, KeysReplaced
<1>8. /\ Len(K) = Len(n.keys) + 1 /\ p \in 1 .. Len(K) /\ K[p] = val
      /\ \A i \in 1 .. Len(K) : i < p => i \in 1 .. Len(n.keys) /\ K[i] = n.keys[i] /\ K[i] < val
      /\ \A i \in 1 .. Len(K) : i > p =>
             i - 1 \in 1 .. Len(n.keys) /\ K[i] = n.keys[i - 1] /\ val < K[i]
  <2>1. Len(K) = Len(n.keys) + 1 /\ p \in 1 .. Len(K) /\ K[p] = val
    BY <1>1, <1>2, <1>6 DEF Inserted
  <2>2. ASSUME NEW i \in 1 .. Len(K), i < p
        PROVE  i \in 1 .. Len(n.keys) /\ K[i] = n.keys[i] /\ K[i] < val
    <3>1. i \in 1 .. Len(n.keys) /\ i \in 1 .. p - 1
      BY <1>1, <2>1, <2>2
    <3>2. K[i] = n.keys[i]
      BY <1>6, <3>1 DEF Inserted
    <3> QED
      BY <1>2, <3>1, <3>2
  <2>3. ASSUME NEW i \in 1 .. Len(K), i > p
        PROVE  i - 1 \in 1 .. Len(n.keys) /\ K[i] = n.keys[i - 1] /\ val < K[i]
    <3>1. i - 1 \in 1 .. Len(n.keys) /\ i \in p + 1 .. Len(n.keys) + 1 /\ i - 1 \in p .. Len(n.keys)
      BY <1>1, <2>1, <2>3
    <3>2. K[i] = n.keys[i - 1]
      BY <1>6, <3>1 DEF Inserted
    <3> QED
      BY <1>4, <3>1, <3>2
  <2> QED
    BY <2>1, <2>2, <2>3
<1>9. Ascending(K)
  <2>1. ASSUME NEW i \in 1 .. Len(K), NEW j \in 1 .. Len(K), i < j PROVE K[i] < K[j]
    <3>1. p \in Nat /\ i \in Nat /\ j \in Nat
      BY <1>2
    <3>2. CASE j < p
      <4>1. i < p
        BY <2>1, <3>1, <3>2
      <4> QED
        BY <1>3, <1>8, <2>1, <3>2, <4>1 DEF Ascending
    <3>3. CASE i > p
      <4>1. j > p
        BY <2>1, <3>1, <3>3
      <4>2. i - 1 < j - 1
        BY <2>1, <3>1
      <4> QED
        BY <1>3, <1>8, <3>3, <4>1, <4>2 DEF Ascending
    <3>4. CASE i <= p /\ p <= j
      <4>1. K[i] = val \/ K[i] < val
        BY <1>8, <3>1, <3>4
      <4>2. K[j] = val \/ val < K[j]
        BY <1>8, <3>1, <3>4
      <4>3. i = p => j > p
        BY <2>1, <3>1
      <4>4. K[i] \in Int /\ K[j] \in Int
        BY <1>6, ElementOfSeq
      <4>5. K[i] = val => i = p \/ K[i] < val
        BY <1>8, <3>1, <3>4
      <4> QED
        <5>1. CASE i = p
          BY <1>8, <4>3, <5>1
        <5>2. CASE i < p
          <6>1. K[i] < val
            BY <1>8, <5>2
          <6> QED
            BY <4>2, <4>4, <6>1
        <5> QED
          BY <3>1, <3>4, <5>1, <5>2
    <3> QED
      BY <3>1, <3>2, <3>3, <3>4
  <2> QED
    BY <2>1 DEF Ascending
<1>10. Ordered(m, V)
  BY <1>1, <1>7, <1>9 DEF Ordered
<1>11. Own(m) = Own(n) \cup {val}
  <2>1. ASSUME NEW i \in 1 .. Len(n.keys) PROVE n.keys[i] \in Own(m)
    <3>1. CASE i < p
      <4>1. i \in 1 .. p - 1 /\ i \in 1 .. Len(K)
        BY <1>1, <1>2, <1>8, <3>1
      <4>2. K[i] = n.keys[i]
        BY <1>6, <4>1 DEF Inserted
      <4> QED
        BY <1>7, <4>1, <4>2 DEF Own
    <3>2. CASE i >= p
      <4>1. i + 1 \in 1 .. Len(K) /\ i + 1 > p /\ (i + 1) - 1 = i
        BY <1>1, <1>2, <1>8, <3>2
      <4>2. K[i + 1] = n.keys[i]
        BY <1>8, <4>1
      <4> QED
        BY <1>7, <4>1, <4>2 DEF Own
    <3> QED
      BY <1>2, <3>1, <3>2
  <2>2. val \in Own(m)
    BY <1>7, <1>8 DEF Own
  <2>3. ASSUME NEW i \in 1 .. Len(K) PROVE K[i] \in Own(n) \cup {val}
    <3>1. i < p \/ i = p \/ i > p
      BY <1>2
    <3> QED
      BY <1>8, <3>1 DEF Own
  <2> QED
    BY <1>7, <2>1, <2>2, <2>3, ZenonT(30) DEF Own
<1>12. Beneath(m, V) = Beneath(n, V)
  BY <1>7 DEF Beneath
<1> QED
  BY <1>7, <1>8, <1>10, <1>11, <1>12 DEF Held

(* A leaf that gives up the key that was found in it.                         *)
LEMMA LeafShrunk ==
    ASSUME NEW leaf, NEW T, NEW V, Bottom(leaf), NEW n \in Nodes(leaf, T), Ordered(n, V),
           NEW p \in 1 .. Len(n.keys), NEW m, m = WithoutKey(n, p)
    PROVE  /\ m \in Nodes(leaf, T) /\ Ordered(m, V) /\ Held(m, V) = Held(n, V) \ {n.keys[p]}
           /\ Len(m.keys) = Len(n.keys) - 1
<1> DEFINE K == RemoveAt(n.keys, p)
<1>1. /\ n.leaf = leaf /\ n.keys \in Seq(Int) /\ n.kids \in Seq(T)
      /\ n = Node(leaf, n.keys, n.kids)
      /\ Len(n.keys) \in Nat /\ Len(n.kids) = 0
      /\ \A i \in 1 .. Len(n.keys) : n.keys[i] \in Int
  BY NodeFacts, LeafAlone
<1>2. Ascending(n.keys)
  BY DEF Ordered
<1>3. m = Node(leaf, K, n.kids)
  BY <1>1 DEF WithoutKey, Node
<1>4. K \in Seq(Int) /\ Removed(n.keys, p, K)
  BY <1>1, RemovedElement
<1> HIDE DEF K
<1>5. m \in Nodes(leaf, T) /\ m.keys = K /\ m.kids = n.kids
  <2>1. Len(n.kids) = KidCount(leaf, Len(K))
    <3>1. Len(K) \in Nat
      BY <1>4, LenProperties
    <3> QED
      BY <1>1, <3>1 DEF Bottom
  <2> QED
    BY <1>3, <1>4, <2>1, KeysReplaced
<1> DEFINE from(i) == IF i < p THEN i ELSE i + 1
<1>6. /\ Len(K) = Len(n.keys) - 1
      /\ \A i \in 1 .. Len(K) : from(i) \in 1 .. Len(n.keys) /\ from(i) # p /\ K[i] = n.keys[from(i)]
  <2>1. Len(K) = Len(n.keys) - 1
    BY <1>4 DEF Removed
  <2>2. ASSUME NEW i \in 1 .. Len(K)
        PROVE  from(i) \in 1 .. Len(n.keys) /\ from(i) # p /\ K[i] = n.keys[from(i)]
    <3>1. CASE i < p
      <4>1. i \in 1 .. p - 1 /\ from(i) = i /\ i \in 1 .. Len(n.keys) /\ i # p
        BY <1>1, <2>1, <3>1
      <4> QED
        BY <1>4, <4>1 DEF Removed
    <3>2. CASE i >= p
      <4>1. i \in p .. Len(n.keys) - 1 /\ from(i) = i + 1 /\ i + 1 \in 1 .. Len(n.keys) /\ i + 1 # p
        BY <1>1, <2>1, <3>2
      <4> QED
        BY <1>4, <4>1 DEF Removed
    <3> QED
      BY <3>1, <3>2
  <2> QED
    BY <2>1, <2>2
<1>7. \A i, j \in 1 .. Len(K) : i < j => from(i) < from(j)
  OBVIOUS
<1> HIDE DEF from
<1>8. Ascending(K)
  BY <1>2, <1>6, <1>7 DEF Ascending
<1>9. Ordered(m, V)
  BY <1>1, <1>5, <1>8 DEF Ordered
<1>10. Own(m) = Own(n) \ {n.keys[p]}
  <2>1. ASSUME NEW i \in 1 .. Len(K) PROVE K[i] \in Own(n) /\ K[i] # n.keys[p]
    <3>1. from(i) \in 1 .. Len(n.keys) /\ from(i) # p /\ K[i] = n.keys[from(i)]
      BY <1>6
    <3>2. from(i) < p \/ p < from(i)
      BY <3>1
    <3>3. n.keys[from(i)] < n.keys[p] \/ n.keys[p] < n.keys[from(i)]
      BY <1>2, <3>1, <3>2 DEF Ascending
    <3>4. n.keys[from(i)] \in Int /\ n.keys[p] \in Int
      BY <1>1, <3>1
    <3>5. K[i] # n.keys[p]
      BY <3>1, <3>3, <3>4
    <3> QED
      BY <3>1, <3>5 DEF Own
  <2>2. ASSUME NEW i \in 1 .. Len(n.keys), i # p PROVE n.keys[i] \in Own(m)
    <3>1. CASE i < p
      <4>1. i \in 1 .. p - 1 /\ i \in 1 .. Len(K)
        BY <1>1, <1>6, <3>1
      <4>2. K[i] = n.keys[i]
        BY <1>4, <4>1 DEF Removed
      <4> QED
        BY <1>5, <4>1, <4>2 DEF Own
    <3>2. CASE i > p
      <4> DEFINE q == i - 1
      <4>1. q \in p .. Len(n.keys) - 1 /\ q \in 1 .. Len(K) /\ q + 1 = i
        BY <1>1, <1>6, <3>2
      <4> HIDE DEF q
      <4>2. K[q] = n.keys[q + 1]
        BY <1>4, <4>1 DEF Removed
      <4> QED
        BY <1>5, <4>1, <4>2 DEF Own
    <3> QED
      BY <2>2, <3>1, <3>2
  <2>3. ASSUME NEW x \in Own(m) PROVE x \in Own(n) \ {n.keys[p]}
    BY <1>5, <2>1, <2>3 DEF Own
  <2>4. ASSUME NEW x \in Own(n) \ {n.keys[p]} PROVE x \in Own(m)
    <3>1. PICK i \in 1 .. Len(n.keys) : x = n.keys[i]
      BY <2>4 DEF Own
    <3> QED
      BY <2>2, <2>4, <3>1
  <2> QED
    BY <2>3, <2>4
<1>11. Beneath(m, V) = {} /\ Beneath(n, V) = {}
  BY <1>1, <1>5 DEF Beneath
<1> QED
  BY <1>5, <1>6, <1>9, <1>10, <1>11 DEF Held

-----------------------------------------------------------------------------
(* Trees                                                                      *)

(* n has as many keys as a node other than the root must have; and so have    *)
(* all its children.                                                          *)
Fit(n) == Len(n.keys) \in MinKeys .. MaxKeys
Filled(n) == \A i \in 1 .. Len(n.kids) : Fit(n.kids[i])

(* The search trees over the subtrees T, and what they hold.  Their own size  *)
(* is left open.                                                              *)
Trees(leaf, T, V) == {n \in Nodes(leaf, T) : Ordered(n, V) /\ Filled(n)}
Holding(leaf, T, V) == [n \in Trees(leaf, T, V) |-> Held(n, V)]

(* What it is to be a search tree over T.                                     *)
LEMMA TreeFacts ==
    ASSUME NEW leaf, NEW T, NEW V
    PROVE  /\ \A n : n \in Trees(leaf, T, V) <=> n \in Nodes(leaf, T) /\ Ordered(n, V) /\ Filled(n)
           /\ \A n \in Trees(leaf, T, V) : Holding(leaf, T, V)[n] = Held(n, V)
BY DEF Trees, Holding

(* A node has full children when its parts have.                              *)
LEMMA ReadsFilled ==
    ASSUME NEW leaf, NEW T, NEW n \in Nodes(leaf, T), NEW l \in Nodes(leaf, T),
           NEW r \in Nodes(leaf, T), NEW k \in Int, Reads(n, l, k, r)
    PROVE  Filled(n) <=> Filled(l) /\ Filled(r)
<1> DEFINE c == Len(l.kids)
           d == Len(r.kids)
<1>1. c \in Nat /\ d \in Nat
  BY NodeFacts
<1>2. /\ Len(n.kids) = c + d
      /\ \A i \in 1 .. c : n.kids[i] = l.kids[i]
      /\ \A i \in 1 .. d : n.kids[c + i] = r.kids[i]
  <2>1. Joint(n, l, k, r)
    BY ReadsElements
  <2> QED
    BY <2>1 DEF Joint
<1> HIDE DEF c, d
<1>3. ASSUME Filled(n) PROVE Filled(l) /\ Filled(r)
  <2>1. ASSUME NEW i \in 1 .. c PROVE Fit(l.kids[i])
    <3>1. i \in 1 .. Len(n.kids)
      BY <1>1, <1>2
    <3>2. Fit(n.kids[i])
      BY <1>3, <3>1 DEF Filled
    <3> QED
      BY <1>2, <3>2
  <2>2. ASSUME NEW i \in 1 .. d PROVE Fit(r.kids[i])
    <3>1. c + i \in 1 .. Len(n.kids)
      BY <1>1, <1>2
    <3>2. Fit(n.kids[c + i])
      BY <1>3, <3>1 DEF Filled
    <3> QED
      BY <1>2, <3>2
  <2> QED
    BY <2>1, <2>2 DEF Filled, c, d
<1>4. ASSUME Filled(l), Filled(r), NEW i \in 1 .. Len(n.kids) PROVE Fit(n.kids[i])
  <2>1. CASE i <= c
    <3>1. i \in 1 .. c
      BY <1>1, <2>1
    <3>2. Fit(l.kids[i])
      BY <1>4, <3>1 DEF Filled, c, d
    <3> QED
      BY <1>2, <3>1, <3>2
  <2>2. CASE i > c
    <3> DEFINE e == i - c
    <3>1. e \in 1 .. d /\ c + e = i
      BY <1>1, <1>2, <2>2
    <3> HIDE DEF e
    <3>2. Fit(r.kids[e])
      BY <1>4, <3>1 DEF Filled, c, d
    <3>3. n.kids[c + e] = r.kids[e]
      BY <1>2, <3>1
    <3> QED
      BY <3>1, <3>2, <3>3
  <2> QED
    BY <1>1, <2>1, <2>2
<1>5. ASSUME Filled(l), Filled(r) PROVE Filled(n)
  BY <1>4, <1>5 DEF Filled
<1> QED
  BY <1>3, <1>5

(* A tree that reads as two others with a key between them.                   *)
LEMMA TreeApart ==
    ASSUME NEW leaf, NEW T, NEW V, NEW n \in Trees(leaf, T, V), NEW l \in Nodes(leaf, T),
           NEW r \in Nodes(leaf, T), NEW k \in Int, Reads(n, l, k, r)
    PROVE  /\ l \in Trees(leaf, T, V) /\ r \in Trees(leaf, T, V)
           /\ Between(l, V, k, r)
           /\ Held(n, V) = Held(l, V) \cup {k} \cup Held(r, V)
<1>1. n \in Nodes(leaf, T) /\ Ordered(n, V) /\ Filled(n)
  BY TreeFacts
<1>2. Ordered(l, V) /\ Ordered(r, V) /\ Between(l, V, k, r)
  BY <1>1, ReadsApart
<1>3. Held(n, V) = Held(l, V) \cup {k} \cup Held(r, V)
  BY <1>1, ReadsHeld
<1>4. Filled(l) /\ Filled(r)
  BY <1>1, ReadsFilled
<1> QED
  BY <1>2, <1>3, <1>4, TreeFacts

(* Two search trees and a key between them make one.                          *)
LEMMA TreeTogether ==
    ASSUME NEW leaf, NEW T, NEW V, NEW l \in Trees(leaf, T, V), NEW r \in Trees(leaf, T, V),
           NEW n \in Nodes(leaf, T), NEW k \in Int, Reads(n, l, k, r), Between(l, V, k, r)
    PROVE  /\ n \in Trees(leaf, T, V)
           /\ Held(n, V) = Held(l, V) \cup {k} \cup Held(r, V)
<1>1. /\ l \in Nodes(leaf, T) /\ Ordered(l, V) /\ Filled(l)
      /\ r \in Nodes(leaf, T) /\ Ordered(r, V) /\ Filled(r)
  BY TreeFacts
<1>2. Ordered(n, V)
  BY <1>1, ReadsTogether
<1>3. Held(n, V) = Held(l, V) \cup {k} \cup Held(r, V)
  BY <1>1, ReadsHeld
<1>4. Filled(n)
  BY <1>1, ReadsFilled
<1> QED
  BY <1>2, <1>3, <1>4, TreeFacts

(* The halves of an overfull tree.                                            *)
LEMMA HalvesOfTree ==
    ASSUME NEW leaf, NEW T, NEW V, NEW c \in Trees(leaf, T, V), Overfull(c)
    PROVE  /\ LeftHalf(c) \in Trees(leaf, T, V) /\ RightHalf(c) \in Trees(leaf, T, V)
           /\ Fit(LeftHalf(c)) /\ Fit(RightHalf(c)) /\ c.keys[Median] \in Int
           /\ Between(LeftHalf(c), V, c.keys[Median], RightHalf(c))
           /\ Held(c, V) = Held(LeftHalf(c), V) \cup {c.keys[Median]} \cup Held(RightHalf(c), V)
<1> DEFINE l == LeftHalf(c)
           r == RightHalf(c)
           k == c.keys[Median]
<1>1. c \in Nodes(leaf, T)
  BY TreeFacts
<1>2. /\ l \in Nodes(leaf, T) /\ r \in Nodes(leaf, T) /\ k \in Int
      /\ Reads(c, l, k, r)
      /\ Fit(l) /\ Fit(r)
  BY <1>1, HalvesRead DEF Fit
<1> HIDE DEF l, r, k
<1>3. /\ l \in Trees(leaf, T, V) /\ r \in Trees(leaf, T, V)
      /\ Between(l, V, k, r)
      /\ Held(c, V) = Held(l, V) \cup {k} \cup Held(r, V)
  BY <1>2, TreeApart
<1> QED
  BY <1>2, <1>3 DEF l, r, k

-----------------------------------------------------------------------------
(* Insertion                                                                  *)

(* A row of trees, all children but perhaps one of them of the right size.    *)
FilledBut(n, pos) == \A i \in 1 .. Len(n.kids) : i # pos => Fit(n.kids[i])

(* U are trees over T, and W tells what they hold.                            *)
Level(leaf, T, V, U, W) == U = Trees(leaf, T, V) /\ W = Holding(leaf, T, V)

(* What a level consists of.                                                  *)
LEMMA LevelFacts ==
    ASSUME NEW leaf, NEW T, NEW V, NEW U, NEW W, Level(leaf, T, V, U, W)
    PROVE  /\ \A n : n \in U <=> n \in Nodes(leaf, T) /\ Ordered(n, V) /\ Filled(n)
           /\ \A n \in U : W[n] = Held(n, V)
           /\ U = Trees(leaf, T, V)
BY TreeFacts DEF Level

(* splitNode keeps a row of trees one, with what it holds.                    *)
LEMMA SplitStep ==
    ASSUME NEW leaf, NEW T, NEW V, NEW top, Inside(top),
           NEW U, NEW W, Level(leaf, T, V, U, W),
           NEW n \in Nodes(top, U), Ordered(n, W), NEW pos \in 1 .. Len(n.kids),
           FilledBut(n, pos), Overfull(n.kids[pos]),
           NEW m, m = splitNode(pos, n.kids[pos], n)
    PROVE  /\ m \in Trees(top, U, W) /\ Held(m, W) = Held(n, W)
           /\ Len(m.keys) = Len(n.keys) + 1
<1> DEFINE c == n.kids[pos]
           a == LeftHalf(c)
           b == RightHalf(c)
           k == c.keys[Median]
<1>1. c \in U
  BY NodeFacts
<1>2. /\ a \in U /\ b \in U /\ Fit(a) /\ Fit(b) /\ k \in Int
      /\ Between(a, V, k, b)
      /\ Held(c, V) = Held(a, V) \cup {k} \cup Held(b, V)
  <2>1. U = Trees(leaf, T, V)
    BY LevelFacts
  <2> QED
    BY <1>1, <2>1, HalvesOfTree
<1>3. m = RowOfSplit(n, pos, a, k, b)
  BY DEF splitNode, RowOfSplit
<1> HIDE DEF a, b, k
<1>4. Halves(n, W, pos, a, k, b)
  <2>1. W[a] = Held(a, V) /\ W[b] = Held(b, V) /\ W[c] = Held(c, V)
    BY <1>1, <1>2, LevelFacts
  <2> QED
    BY <1>2, <2>1 DEF Halves, Between
<1>5. /\ m \in Nodes(top, U) /\ Ordered(m, W) /\ Held(m, W) = Held(n, W)
      /\ Len(m.keys) = Len(n.keys) + 1
      /\ TwoForOne(n.kids, pos, a, b, m.kids)
  <2>1. a \in U /\ b \in U /\ k \in Int
    BY <1>2
  <2> QED
    BY <1>3, <1>4, <2>1, RowSplit
<1>6. ASSUME NEW i \in 1 .. Len(m.kids) PROVE Fit(m.kids[i])
  <2>1. Len(n.kids) \in Nat /\ Len(m.kids) = Len(n.kids) + 1 /\ pos \in Nat
    BY <1>5, NodeFacts DEF TwoForOne
  <2>2. CASE i < pos
    <3>1. i \in 1 .. pos - 1 /\ i \in 1 .. Len(n.kids) /\ i # pos
      BY <2>1, <2>2
    <3> QED
      BY <1>5, <3>1 DEF TwoForOne, FilledBut
  <2>3. CASE i = pos \/ i = pos + 1
    BY <1>2, <1>5, <2>3 DEF TwoForOne
  <2>4. CASE i > pos + 1
    <3> DEFINE e == i - 1
    <3>1. i \in pos + 2 .. Len(n.kids) + 1 /\ e \in 1 .. Len(n.kids) /\ e # pos
      BY <2>1, <2>4
    <3>2. m.kids[i] = n.kids[e]
      BY <1>5, <3>1 DEF TwoForOne
    <3> HIDE DEF e
    <3> QED
      BY <3>1, <3>2 DEF FilledBut
  <2> QED
    BY <2>1, <2>2, <2>3, <2>4
<1>7. Filled(m)
  BY <1>6 DEF Filled
<1> QED
  BY <1>5, <1>7, TreeFacts

(* after is before with val put into it.                                      *)
Grown(val, before, after, V) ==
    /\ Held(after, V) = Held(before, V) \cup {val}
    /\ Len(after.keys) \in {Len(before.keys), Len(before.keys) + 1}
    /\ val \in Own(before) => after = before

(* A node of the right size splits when and only when it became overfull.     *)
LEMMA SplitsWhenOverfull ==
    ASSUME NEW leaf, NEW T, NEW V, NEW before \in Nodes(leaf, T), NEW after, NEW val,
           Grown(val, before, after, V), Len(before.keys) <= MaxKeys
    PROVE  /\ Splits(val, before, after) <=> Overfull(after)
           /\ ~Overfull(after) => Len(after.keys) <= MaxKeys
<1>1. before.keys \in Seq(Int) /\ Len(before.keys) \in Nat /\ MaxKeys \in Nat
  BY NodeFacts, OrderArithmetic
<1>2. ASSUME val \in ToSet(before.keys) PROVE val \in Own(before)
  <2>1. DOMAIN before.keys = 1 .. Len(before.keys)
    BY <1>1, LenProperties
  <2> QED
    BY <1>2, <2>1 DEF ToSet, Own
<1>3. ASSUME val \in Own(before) PROVE ~Overfull(after)
  <2>1. Len(after.keys) = Len(before.keys)
    BY <1>3 DEF Grown
  <2> QED
    BY <1>1, <2>1 DEF Overfull
<1>4. ASSUME ~Overfull(after) PROVE Len(after.keys) <= MaxKeys
  <2>1. Len(after.keys) = Len(before.keys) \/ Len(after.keys) = Len(before.keys) + 1
    BY DEF Grown
  <2> QED
    BY <1>1, <1>4, <2>1 DEF Overfull
<1> QED
  BY <1>2, <1>3, <1>4 DEF Splits

(* The call on the child comes back: WithChild puts in what it made.          *)
LEMMA ChildGrown ==
    ASSUME NEW leaf, NEW T, NEW V, NEW top, Inside(top),
           NEW U, NEW W, Level(leaf, T, V, U, W),
           NEW n \in Trees(top, U, W), Len(n.keys) <= MaxKeys,
           NEW val \in Int, NEW p, StopsAt(n, val, p), ~HasAt(n, val, p),
           NEW c \in U, Grown(val, n.kids[p], c, V),
           NEW m, m = WithChild(val, n, p, c)
    PROVE  m \in Trees(top, U, W) /\ Grown(val, n, m, W)
<1> DEFINE d == n.kids[p]
           q == [n EXCEPT !.kids[p] = c]
<1>1. n \in Nodes(top, U) /\ Ordered(n, W) /\ Filled(n)
  BY TreeFacts
<1>2. p \in 1 .. Len(n.kids) /\ val \in Gap(n, p)
  BY <1>1, PositionLeads
<1>3. d \in U /\ Fit(d)
  BY <1>1, <1>2, NodeFacts DEF Filled
<1>4. W[d] = Held(d, V) /\ W[c] = Held(c, V) /\ W[c] = W[d] \cup {val}
  BY <1>3, LevelFacts DEF Grown
<1>5. W[d] \subseteq Gap(n, p)
  BY <1>1, <1>2 DEF Ordered
<1>6. W[c] \subseteq Gap(n, p)
  BY <1>2, <1>4, <1>5
<1>7. /\ q \in Nodes(top, U) /\ Ordered(q, W) /\ q.keys = n.keys
      /\ q.kids[p] = c /\ Len(q.kids) = Len(n.kids)
      /\ \A i \in 1 .. Len(n.kids) : i # p => q.kids[i] = n.kids[i]
      /\ Held(q, W) = (Held(n, W) \ W[n.kids[p]]) \cup W[c]
  BY <1>1, <1>2, <1>6, KidReplaced
<1>8. Held(q, W) = Held(n, W) \cup {val}
  <2>1. W[d] \subseteq Held(n, W)
    BY <1>1, <1>2, HeldFacts
  <2> QED
    BY <1>4, <1>7, <2>1
<1>9. FilledBut(q, p)
  BY <1>1, <1>7 DEF FilledBut, Filled
<1>10. val \notin Own(n)
  BY <1>1, PositionTells DEF Ordered
<1>11. /\ Splits(val, d, c) <=> Overfull(c)
       /\ ~Overfull(c) => Fit(c)
  <2>1. d \in Nodes(leaf, T)
    BY <1>3, LevelFacts
  <2>2. Len(d.keys) \in Nat /\ Len(d.keys) <= MaxKeys /\ Len(d.keys) >= MinKeys
        /\ MinKeys \in Nat /\ MaxKeys \in Nat
    BY <1>3, <2>1, NodeFacts, OrderArithmetic DEF Fit
  <2>3. Splits(val, d, c) <=> Overfull(c)
    BY <2>1, <2>2, SplitsWhenOverfull
  <2>4. ASSUME ~Overfull(c) PROVE Fit(c)
    <3>1. Len(c.keys) <= MaxKeys
      BY <2>1, <2>2, <2>4, SplitsWhenOverfull
    <3>2. Len(c.keys) = Len(d.keys) \/ Len(c.keys) = Len(d.keys) + 1
      BY DEF Grown
    <3> QED
      BY <2>2, <3>1, <3>2 DEF Fit
  <2> QED
    BY <2>3, <2>4
<1>12. Len(n.keys) \in Nat
  BY <1>1, NodeFacts
<1>13. CASE Overfull(c)
  <2>1. m = splitNode(p, c, n)
    BY <1>11, <1>13 DEF WithChild
  <2>2. splitNode(p, c, n) = splitNode(p, q.kids[p], q)
    <3>1. n = Node(n.leaf, n.keys, n.kids) /\ n.kids \in Seq(U)
      BY <1>1, NodeFacts
    <3>2. q = Node(n.leaf, n.keys, [n.kids EXCEPT ![p] = c])
      BY <3>1, SMTT(30) DEF Node
    <3>3. \A x : ReplaceAt([n.kids EXCEPT ![p] = c], p, x) = ReplaceAt(n.kids, p, x)
      BY <3>1 DEF ReplaceAt
    <3>4. \A x : splitNode(p, x, q) = splitNode(p, x, n)
      BY <3>1, <3>2, <3>3 DEF splitNode, Node
    <3> QED
      BY <1>7, <3>4
  <2>3. Overfull(q.kids[p]) /\ p \in 1 .. Len(q.kids)
    BY <1>2, <1>7, <1>13
  <2>4. m = splitNode(p, q.kids[p], q)
    BY <2>1, <2>2
  <2> HIDE DEF q
  <2>5. /\ m \in Trees(top, U, W) /\ Held(m, W) = Held(q, W)
        /\ Len(m.keys) = Len(q.keys) + 1
    BY <1>7, <1>9, <2>3, <2>4, SplitStep
  <2> QED
    BY <1>7, <1>8, <1>10, <2>5 DEF Grown
<1>14. CASE ~Overfull(c)
  <2>1. m = q
    BY <1>11, <1>14 DEF WithChild
  <2> HIDE DEF q
  <2>2. Filled(q)
    <3>1. ASSUME NEW i \in 1 .. Len(q.kids) PROVE Fit(q.kids[i])
      BY <1>7, <1>9, <1>11, <1>14 DEF FilledBut
    <3> QED
      BY <3>1 DEF Filled
  <2>3. q \in Trees(top, U, W)
    BY <1>7, <2>2, TreeFacts
  <2> QED
    BY <1>7, <1>8, <1>10, <2>1, <2>3 DEF Grown
<1> QED
  BY <1>13, <1>14

(* A parent of one child and no key holds what the child holds.               *)
Lone(top, c) == Node(top, << >>, << c >>)

(* s has c as its only child.                                                 *)
Alone(s, c) == Len(s.keys) = 0 /\ Len(s.kids) = 1 /\ s.kids[1] = c /\ FilledBut(s, 1)

(* The root above an overfull one, before it is split.                        *)
LEMMA OnlyChild ==
    ASSUME NEW top, Inside(top), NEW U, NEW W, NEW c \in U, W[c] \subseteq Int,
           NEW s, s = Lone(top, c)
    PROVE  /\ s \in Nodes(top, U) /\ Ordered(s, W) /\ Held(s, W) = W[c] /\ Alone(s, c)
<1> DEFINE K == << >>
           C == << c >>
<1>1. K \in Seq(Int) /\ C \in Seq(U) /\ Len(K) = 0 /\ Len(C) = 1 /\ C[1] = c
  OBVIOUS
<1>2. Len(C) = KidCount(top, Len(K))
  BY <1>1 DEF Inside
<1> HIDE DEF K, C
<1>3. s \in Nodes(top, U) /\ s.keys = K /\ s.kids = C
  <2>1. Node(top, K, C) \in Nodes(top, U) /\ Node(top, K, C).keys = K /\ Node(top, K, C).kids = C
    <3>1. K \in Seq(Int) /\ C \in Seq(U)
      BY <1>1
    <3> QED
      BY <1>2, <3>1, NodeMade
  <2> QED
    BY <2>1 DEF Lone, K, C
<1>4. \A i \in 1 .. Len(s.kids) : i = 1
  <2>1. Len(s.kids) = 1
    BY <1>1, <1>3
  <2> QED
    BY <2>1
<1>5. Gap(s, 1) = Int
  BY <1>1, <1>3 DEF Gap
<1>6. Ordered(s, W)
  BY <1>1, <1>3, <1>4, <1>5 DEF Ordered, Ascending
<1>7. Own(s) = {}
  BY <1>1, <1>3 DEF Own
<1>8. Beneath(s, W) = W[c]
  BY <1>1, <1>3, <1>4 DEF Beneath
<1>9. FilledBut(s, 1)
  BY <1>4 DEF FilledBut
<1> QED
  BY <1>1, <1>3, <1>6, <1>7, <1>8, <1>9 DEF Held, Alone

(* The new root of insert, where the old one is overfull.                     *)
Sprout(top, c) == splitNode(1, c, Lone(top, c))

(* A split root leaves a search tree of one more level, with one key on top.  *)
LEMMA RootSplit ==
    ASSUME NEW leaf, NEW T, NEW V, NEW U, NEW W, Level(leaf, T, V, U, W),
           NEW top, Inside(top), NEW c \in U, Overfull(c),
           NEW m, m = Sprout(top, c)
    PROVE  m \in Trees(top, U, W) /\ Len(m.keys) = 1 /\ Held(m, W) = Held(c, V)
<1> DEFINE s == Lone(top, c)
           one == 1
<1>1. c \in Nodes(leaf, T) /\ Ordered(c, V) /\ W[c] = Held(c, V)
  BY LevelFacts
<1>2. W[c] \subseteq Int
  BY <1>1, HeldFacts
<1>3. s = Lone(top, c) /\ one = 1
  OBVIOUS
<1>4. m = splitNode(one, c, s)
  BY DEF Sprout
<1> HIDE DEF s
<1>5. /\ s \in Nodes(top, U) /\ Ordered(s, W) /\ Held(s, W) = W[c] /\ Alone(s, c)
  BY <1>2, <1>3, OnlyChild
<1>6. one \in 1 .. Len(s.kids) /\ FilledBut(s, one) /\ s.kids[one] = c /\ Len(s.keys) = 0
  BY <1>5 DEF Alone
<1> HIDE DEF one
<1>7. m = splitNode(one, s.kids[one], s) /\ Overfull(s.kids[one])
  BY <1>4, <1>6
<1>8. s \in Nodes(top, U) /\ Ordered(s, W)
  BY <1>5
<1>9. /\ m \in Trees(top, U, W) /\ Held(m, W) = Held(s, W)
      /\ Len(m.keys) = Len(s.keys) + 1
  <2>1. one \in 1 .. Len(s.kids) /\ FilledBut(s, one)
    BY <1>6
  <2> QED
    BY <1>7, <1>8, <2>1, SplitStep
<1> QED
  BY <1>1, <1>5, <1>6, <1>9

(* The root stays what the call on it made of it, or gets one above it.       *)
Settled(val, before, after, V, U, W, m) ==
    \/ m = after /\ Len(m.keys) <= MaxKeys
    \/ /\ m \in Trees(FALSE, U, W) /\ Len(m.keys) = 1
       /\ Held(m, W) = Held(before, V) \cup {val}

(* The call on the root comes back: an overfull one gets a parent.            *)
LEMMA RootGrown ==
    ASSUME NEW leaf, NEW T, NEW V, NEW U, NEW W, Level(leaf, T, V, U, W),
           NEW before \in U, Len(before.keys) <= MaxKeys, NEW val \in Int,
           NEW after \in U, Grown(val, before, after, V),
           NEW m, m = NewRoot(val, before, after)
    PROVE  Settled(val, before, after, V, U, W, m)
<1>1. before \in Nodes(leaf, T) /\ W[after] = Held(after, V) /\ Ordered(after, V) /\ after \in Nodes(leaf, T)
  BY LevelFacts
<1>2. /\ Splits(val, before, after) <=> Overfull(after)
      /\ ~Overfull(after) => Len(after.keys) <= MaxKeys
  BY <1>1, SplitsWhenOverfull
<1>3. CASE ~Overfull(after)
  BY <1>2, <1>3 DEF NewRoot, Settled
<1>4. CASE Overfull(after)
  <2> DEFINE top == FALSE
  <2>1. m = Sprout(top, after)
    BY <1>2, <1>4 DEF NewRoot, Sprout, Lone
  <2>2. Inside(top)
    BY InnerOrLeaf
  <2> HIDE DEF top
  <2>3. m \in Trees(top, U, W) /\ Len(m.keys) = 1 /\ Held(m, W) = Held(after, V)
    BY <1>4, <2>1, <2>2, RootSplit
  <2> QED
    BY <2>3 DEF top, Grown, Settled
<1> QED
  BY <1>3, <1>4

(* The flag of a node at the bottom, and of any other.                        *)
LEMMA LeafMark ==
    ASSUME NEW leaf, NEW T, NEW n \in Nodes(leaf, T)
    PROVE  (Bottom(leaf) => n.leaf) /\ (Inside(leaf) => ~n.leaf)
<1>1. n.leaf = leaf
  BY NodeFacts
<1>2. ASSUME Bottom(leaf) PROVE leaf
  <2>1. KidCount(leaf, 0) = 0
    BY <1>2 DEF Bottom
  <2> QED
    BY <2>1 DEF KidCount
<1>3. ASSUME Inside(leaf) PROVE ~leaf
  <2>1. KidCount(leaf, 0) = 1
    BY <1>3 DEF Inside
  <2> QED
    BY <2>1 DEF KidCount
<1> QED
  BY <1>1, <1>2, <1>3

(* A key found where the loop stops is held.                                  *)
LEMMA HasAtHeld ==
    ASSUME NEW leaf, NEW T, NEW V, NEW n \in Nodes(leaf, T), Ordered(n, V), NEW val \in Int,
           NEW p, StopsAt(n, val, p)
    PROVE  /\ HasAt(n, val, p) <=> val \in Own(n)
           /\ HasAt(n, val, p) => val \in Held(n, V) /\ p \in 1 .. Len(n.keys) /\ n.keys[p] = val
<1>1. HasAt(n, val, p) <=> val \in Own(n)
  BY PositionTells DEF Ordered
<1>2. p \in 1 .. Len(n.keys) + 1 /\ Len(n.keys) \in Nat
  BY NodeFacts DEF StopsAt
<1>3. ASSUME HasAt(n, val, p) PROVE p \in 1 .. Len(n.keys) /\ n.keys[p] = val
  BY <1>2, <1>3 DEF HasAt
<1> QED
  BY <1>1, <1>3 DEF Held

(* searchNode at a leaf, and at an inner node.                                *)
LEMMA SearchAtLeaf ==
    ASSUME NEW leaf, Bottom(leaf), NEW T, NEW V, NEW n \in Trees(leaf, T, V), NEW val \in Int, NEW x
    PROVE  SearchStep(n, val, x) <=> val \in Held(n, V)
<1> DEFINE p == Position(n, val)
<1>1. n \in Nodes(leaf, T) /\ Ordered(n, V)
  BY TreeFacts
<1>2. StopsAt(n, val, p)
  BY <1>1, PositionFound
<1>3. n.leaf
  BY <1>1, LeafMark
<1>4. SearchStep(n, val, x) <=> HasAt(n, val, p)
  BY <1>3 DEF SearchStep
<1> HIDE DEF p
<1>5. ~HasAt(n, val, p) => val \notin Held(n, V)
  BY <1>1, <1>2, PositionLeads
<1>6. HasAt(n, val, p) => val \in Held(n, V)
  BY <1>1, <1>2, HasAtHeld
<1> QED
  BY <1>4, <1>5, <1>6

(* searchNode answers right in an inner node, if it does in the child it goes *)
(* to.                                                                        *)
LEMMA SearchInside ==
    ASSUME NEW top, Inside(top), NEW U, NEW W, NEW n \in Trees(top, U, W), NEW val \in Int,
           NEW x, x <=> val \in W[n.kids[Position(n, val)]]
    PROVE  SearchStep(n, val, x) <=> val \in Held(n, W)
<1> DEFINE p == Position(n, val)
<1>1. n \in Nodes(top, U) /\ Ordered(n, W)
  BY TreeFacts
<1>2. StopsAt(n, val, p)
  BY <1>1, PositionFound
<1>3. ~n.leaf
  BY <1>1, LeafMark
<1>4. SearchStep(n, val, x) <=> HasAt(n, val, p) \/ val \in W[n.kids[p]]
  BY <1>3 DEF SearchStep
<1> HIDE DEF p
<1>5. ~HasAt(n, val, p) => (val \in Held(n, W) <=> val \in W[n.kids[p]])
  BY <1>1, <1>2, PositionLeads
<1>6. HasAt(n, val, p) => val \in Held(n, W)
  BY <1>1, <1>2, HasAtHeld
<1> QED
  BY <1>4, <1>5, <1>6

(* Where the key is already, nothing is to be done.                           *)
LEMMA NothingGrown ==
    ASSUME NEW leaf, NEW T, NEW V, NEW n \in Nodes(leaf, T), NEW val, val \in Held(n, V)
    PROVE  Grown(val, n, n, V)
BY DEF Grown

(* insertNode at a leaf, and at an inner node.                                *)
LEMMA InsertAtLeaf ==
    ASSUME NEW leaf, Bottom(leaf), NEW T, NEW V, NEW n \in Trees(leaf, T, V), NEW val \in Int,
           NEW x, NEW m, m = InsertStep(val, n, x)
    PROVE  m \in Trees(leaf, T, V) /\ Grown(val, n, m, V)
<1> DEFINE p == Position(n, val)
<1>1. n \in Nodes(leaf, T) /\ Ordered(n, V) /\ Filled(n)
  BY TreeFacts
<1>2. StopsAt(n, val, p)
  BY <1>1, PositionFound
<1>3. n.leaf
  BY <1>1, LeafMark
<1>4. CASE HasAt(n, val, p)
  <2>1. m = n
    BY <1>4 DEF InsertStep
  <2> HIDE DEF p
  <2>2. val \in Held(n, V)
    BY <1>1, <1>2, <1>4, HasAtHeld
  <2> QED
    BY <1>1, <2>1, <2>2, NothingGrown
<1>5. CASE ~HasAt(n, val, p)
  <2>1. m = WithKey(n, p, val)
    BY <1>3, <1>5 DEF InsertStep
  <2> HIDE DEF p
  <2>2. /\ m \in Nodes(leaf, T) /\ Ordered(m, V) /\ Held(m, V) = Held(n, V) \cup {val}
        /\ Len(m.keys) = Len(n.keys) + 1
    BY <1>1, <1>2, <1>5, <2>1, LeafGrown
  <2>3. Len(m.kids) = 0
    BY <2>2, LeafAlone
  <2>4. Filled(m)
    BY <2>3 DEF Filled
  <2>5. val \notin Own(n)
    BY <1>1, <1>2, <1>5, HasAtHeld
  <2> QED
    BY <2>2, <2>4, <2>5, TreeFacts DEF Grown
<1> QED
  BY <1>4, <1>5

(* insertNode keeps an inner node a search tree and adds the key, if the call *)
(* for the child does.                                                        *)
LEMMA InsertInside ==
    ASSUME NEW leaf, NEW T, NEW V, NEW top, Inside(top),
           NEW U, NEW W, Level(leaf, T, V, U, W),
           NEW n \in Trees(top, U, W), Len(n.keys) <= MaxKeys, NEW val \in Int,
           NEW x \in U, Grown(val, n.kids[Position(n, val)], x, V),
           NEW m, m = InsertStep(val, n, x)
    PROVE  m \in Trees(top, U, W) /\ Grown(val, n, m, W)
<1> DEFINE p == Position(n, val)
<1>1. n \in Nodes(top, U) /\ Ordered(n, W) /\ Filled(n)
  BY TreeFacts
<1>2. StopsAt(n, val, p)
  BY <1>1, PositionFound
<1>3. ~n.leaf
  BY <1>1, LeafMark
<1>4. CASE HasAt(n, val, p)
  <2>1. m = n
    BY <1>4 DEF InsertStep
  <2> HIDE DEF p
  <2>2. val \in Held(n, W)
    BY <1>1, <1>2, <1>4, HasAtHeld
  <2> QED
    BY <1>1, <2>1, <2>2, NothingGrown
<1>5. CASE ~HasAt(n, val, p)
  <2>1. m = WithChild(val, n, p, x)
    BY <1>3, <1>5 DEF InsertStep
  <2>2. Grown(val, n.kids[p], x, V)
    OBVIOUS
  <2> HIDE DEF p
  <2> QED
    BY <1>2, <1>5, <2>1, <2>2, ChildGrown
<1> QED
  BY <1>4, <1>5

-----------------------------------------------------------------------------
(* Two siblings, and the repair of a short one                                *)

(* n is a row of trees: an inner node in order, over a level of trees.        *)
Row(leaf, T, V, top, U, W, n) ==
    /\ Inside(top) /\ Level(leaf, T, V, U, W)
    /\ n \in Nodes(top, U) /\ Ordered(n, W)

(* Two neighbours of a row of trees, and what they read like together.        *)
Siblings(n, at, V, W, j) ==
    /\ Reads(j, n.kids[at], n.keys[at], n.kids[at + 1])
    /\ Held(j, V) = PairHolds(n, W, at)

(* Two children of a node, around their key, read as their merge.             *)
LEMMA SiblingsRead ==
    ASSUME NEW leaf, NEW T, NEW V, NEW top, NEW U, NEW W, NEW n,
           Row(leaf, T, V, top, U, W, n), NEW at \in 1 .. Len(n.keys),
           NEW j, j = JoinedKids(n, at)
    PROVE  /\ n.kids[at] \in U /\ n.kids[at + 1] \in U /\ n.keys[at] \in Int /\ j \in U
           /\ Siblings(n, at, V, W, j)
           /\ AsLong(j, n.kids[at], n.kids[at + 1])
<1>0. Inside(top) /\ Level(leaf, T, V, U, W) /\ n \in Nodes(top, U) /\ Ordered(n, W)
  BY DEF Row
<1> DEFINE l == n.kids[at]
           k == n.keys[at]
           r == n.kids[at + 1]
<1>1. /\ Len(n.kids) = Len(n.keys) + 1 /\ Len(n.keys) \in Nat
      /\ at \in 1 .. Len(n.kids) /\ at + 1 \in 1 .. Len(n.kids)
  BY <1>0, InnerKids, NodeFacts
<1>2. l \in U /\ r \in U /\ k \in Int
  BY <1>0, <1>1, NodeFacts
<1>3. /\ l \in Nodes(leaf, T) /\ r \in Nodes(leaf, T)
      /\ l \in Trees(leaf, T, V) /\ r \in Trees(leaf, T, V)
      /\ W[l] = Held(l, V) /\ W[r] = Held(r, V)
  BY <1>0, <1>2, LevelFacts
<1>4. Between(l, V, k, r)
  <2>1. \A x \in W[l] : \A i \in at .. Len(n.keys) : x < n.keys[i]
    BY <1>0, <1>1, OrderFacts
  <2>2. \A x \in W[r] : \A i \in 1 .. (at + 1) - 1 : n.keys[i] < x
    BY <1>0, <1>1, OrderFacts
  <2>3. at \in at .. Len(n.keys) /\ at \in 1 .. (at + 1) - 1
    BY <1>1
  <2>4. (\A x \in W[l] : x < k) /\ (\A x \in W[r] : k < x)
    BY <2>1, <2>2, <2>3
  <2> QED
    BY <1>3, <2>4 DEF Between
<1>5. j = Joining(l, k, r)
  BY DEF JoinedKids, Joining
<1>6. PairHolds(n, W, at) = W[l] \cup {k} \cup W[r]
  BY DEF PairHolds
<1> HIDE DEF l, k, r
<1>7. /\ j \in Nodes(leaf, T) /\ Reads(j, l, k, r)
      /\ AsLong(j, l, r)
  <2>1. l \in Nodes(leaf, T) /\ r \in Nodes(leaf, T) /\ k \in Int
    BY <1>2, <1>3
  <2> QED
    BY <1>5, <2>1, JoinReads
<1>8. /\ j \in Trees(leaf, T, V)
      /\ Held(j, V) = Held(l, V) \cup {k} \cup Held(r, V)
  BY <1>2, <1>3, <1>4, <1>7, TreeTogether
<1>9. j \in U
  BY <1>0, <1>8, LevelFacts
<1>10. Held(j, V) = PairHolds(n, W, at)
  BY <1>3, <1>6, <1>8
<1>11. Siblings(n, at, V, W, j)
  BY <1>7, <1>10 DEF Siblings, l, k, r
<1> QED
  BY <1>2, <1>7, <1>9, <1>11 DEF l, k, r

(* They read alike elsewhere apart.                                           *)
Reread(leaf, T, V, U, W, n, at, a, h, b) ==
    \E j \in U : /\ Siblings(n, at, V, W, j) /\ Reads(j, a, h, b)
                 /\ a \in Nodes(leaf, T) /\ b \in Nodes(leaf, T) /\ h \in Int

(* Such a pair takes the place of the one there is.                           *)
LEMMA LoanStep ==
    ASSUME NEW leaf, NEW T, NEW V, NEW top, NEW U, NEW W, NEW n,
           Row(leaf, T, V, top, U, W, n), NEW at \in 1 .. Len(n.keys),
           NEW a, NEW b, NEW h, Reread(leaf, T, V, U, W, n, at, a, h, b),
           NEW m, m = RowOfLoan(n, at, a, h, b)
    PROVE  /\ m \in Nodes(top, U) /\ Ordered(m, W) /\ Held(m, W) = Held(n, W)
           /\ Len(m.keys) = Len(n.keys)
           /\ TwoChanged(n.kids, at, a, b, m.kids)
<1>0. Inside(top) /\ Level(leaf, T, V, U, W) /\ n \in Nodes(top, U) /\ Ordered(n, W)
  BY DEF Row
<1> PICK j \in U :
       /\ Siblings(n, at, V, W, j) /\ Reads(j, a, h, b)
       /\ a \in Nodes(leaf, T) /\ b \in Nodes(leaf, T) /\ h \in Int
  BY DEF Reread
<1>1. j \in Trees(leaf, T, V)
  BY <1>0, LevelFacts
<1>2. /\ a \in Trees(leaf, T, V) /\ b \in Trees(leaf, T, V)
      /\ Between(a, V, h, b)
      /\ Held(j, V) = Held(a, V) \cup {h} \cup Held(b, V)
  BY <1>1, TreeApart
<1>3. a \in U /\ b \in U /\ W[a] = Held(a, V) /\ W[b] = Held(b, V)
  BY <1>0, <1>2, LevelFacts
<1> DEFINE lost == {}
<1>4. Exchanged(n, W, at, a, h, b, lost)
  BY <1>2, <1>3 DEF Exchanged, Siblings, Between
<1>5. Held(n, W) \ lost = Held(n, W)
  OBVIOUS
<1> HIDE DEF lost
<1>6. /\ m \in Nodes(top, U) /\ Ordered(m, W) /\ Held(m, W) = Held(n, W) \ lost
      /\ Len(m.keys) = Len(n.keys)
      /\ TwoChanged(n.kids, at, a, b, m.kids)
  BY <1>0, <1>3, <1>4, RowExchanged
<1> QED
  BY <1>5, <1>6

(* A child one key short of what it must have.                                *)
Short(c) == Len(c.keys) = MinKeys - 1

(* All children but the two at and behind at are of the right size.           *)
FilledButPair(n, at) == \A i \in 1 .. Len(n.kids) : i # at /\ i # at + 1 => Fit(n.kids[i])

(* After a loan between two children both are full enough, and so are all.    *)
LEMMA FilledByLoan ==
    ASSUME NEW n, NEW at \in Nat, FilledButPair(n, at), NEW m, NEW a, NEW b, Fit(a), Fit(b),
           TwoChanged(n.kids, at, a, b, m.kids)
    PROVE  Filled(m)
<1>1. ASSUME NEW i \in 1 .. Len(m.kids) PROVE Fit(m.kids[i])
  <2>1. CASE i = at
    BY <2>1 DEF TwoChanged
  <2>2. CASE i = at + 1
    BY <2>2 DEF TwoChanged
  <2>3. CASE i # at /\ i # at + 1
    <3>1. i \in 1 .. Len(n.kids)
      BY DEF TwoChanged
    <3> QED
      BY <2>3, <3>1 DEF TwoChanged, FilledButPair
  <2> QED
    BY <2>1, <2>2, <2>3
<1> QED
  BY <1>1 DEF Filled

(* After a merge the one that is left is full enough, and so are all.         *)
LEMMA FilledByMerge ==
    ASSUME NEW n, NEW at \in 1 .. Len(n.kids) - 1, Len(n.kids) \in Nat,
           FilledButPair(n, at), NEW m, NEW c, Fit(c),
           OneForTwo(n.kids, at, c, m.kids)
    PROVE  Filled(m)
<1>1. ASSUME NEW i \in 1 .. Len(m.kids) PROVE Fit(m.kids[i])
  <2>0. Len(m.kids) = Len(n.kids) - 1
    BY DEF OneForTwo
  <2>1. CASE i = at
    BY <2>1 DEF OneForTwo
  <2>2. CASE i < at
    <3>1. i \in 1 .. at - 1 /\ i \in 1 .. Len(n.kids) /\ i # at /\ i # at + 1
      BY <2>0, <2>2
    <3>2. m.kids[i] = n.kids[i]
      BY <3>1 DEF OneForTwo
    <3> QED
      BY <3>1, <3>2 DEF FilledButPair
  <2>3. CASE i > at
    <3> DEFINE e == i + 1
    <3>1. i \in at + 1 .. Len(n.kids) - 1 /\ e \in 1 .. Len(n.kids) /\ e # at /\ e # at + 1
      BY <2>0, <2>3
    <3>2. m.kids[i] = n.kids[e]
      BY <3>1 DEF OneForTwo
    <3> HIDE DEF e
    <3> QED
      BY <3>1, <3>2 DEF FilledButPair
  <2> QED
    BY <2>1, <2>2, <2>3
<1> QED
  BY <1>1 DEF Filled

(* The one at "at" is short, and the one behind it can lend a key.            *)
RightLends(n, at) ==
    /\ FilledButPair(n, at)
    /\ Short(n.kids[at]) /\ Fit(n.kids[at + 1]) /\ Lends(n.kids[at + 1])

(* borrowFromRight.                                                           *)
LEMMA RightLoanStep ==
    ASSUME NEW leaf, NEW T, NEW V, NEW top, NEW U, NEW W, NEW n,
           Row(leaf, T, V, top, U, W, n), NEW at \in 1 .. Len(n.keys),
           RightLends(n, at), NEW m, m = borrowFromRight(n, at)
    PROVE  m \in Trees(top, U, W) /\ Held(m, W) = Held(n, W) /\ Len(m.keys) = Len(n.keys)
<1>0. Inside(top) /\ Level(leaf, T, V, U, W) /\ n \in Nodes(top, U) /\ Ordered(n, W)
  BY DEF Row
<1> DEFINE l == n.kids[at]
           k == n.keys[at]
           r == n.kids[at + 1]
           j == JoinedKids(n, at)
           a == Node(l.leaf, Append(l.keys, k), l.kids \o UpTo(r.kids, 1))
           b == Node(r.leaf, Tail(r.keys), Behind(r.kids, 1))
           h == Head(r.keys)
<1>1. /\ l \in U /\ r \in U /\ k \in Int /\ j \in U
      /\ Siblings(n, at, V, W, j)
  BY SiblingsRead
<1>2. Len(r.keys) > MinKeys /\ Len(r.keys) <= MaxKeys /\ Len(l.keys) = MinKeys - 1
  BY DEF RightLends, Lends, Fit, Short
<1>3. m = RowOfLoan(n, at, a, h, b)
  <2>1. n = Node(n.leaf, n.keys, n.kids)
    BY <1>0, NodeFacts
  <2> QED
    BY <2>1 DEF borrowFromRight, RowOfLoan, Node
<1>4. LentFromRight(l, k, r, a, b)
  BY DEF LentFromRight
<1>5. h = Head(r.keys)
  OBVIOUS
<1> HIDE DEF l, k, r, j, a, b, h
<1>6. /\ l \in Nodes(leaf, T) /\ r \in Nodes(leaf, T) /\ j \in Nodes(leaf, T) /\ Reads(j, l, k, r)
      /\ Len(r.keys) \in Nat
  <2>1. l \in Nodes(leaf, T) /\ r \in Nodes(leaf, T) /\ j \in Nodes(leaf, T)
    BY <1>0, <1>1, LevelFacts
  <2>2. Reads(j, l, k, r)
    BY <1>1 DEF Siblings, l, k, r
  <2>3. Len(r.keys) \in Nat
    BY <2>1, NodeFacts
  <2> QED
    BY <2>1, <2>2, <2>3
<1>7. MinKeys \in Nat /\ MinKeys >= 1 /\ MaxKeys \in Nat
  BY OrderArithmetic
<1>8. Len(r.keys) >= 1
  BY <1>2, <1>6, <1>7
<1>9. /\ a \in Nodes(leaf, T) /\ b \in Nodes(leaf, T) /\ h \in Int
      /\ Reads(j, a, h, b)
      /\ Len(a.keys) = Len(l.keys) + 1 /\ Len(b.keys) = Len(r.keys) - 1
  BY <1>1, <1>4, <1>5, <1>6, <1>8, RightLoanReads
<1>10. /\ m \in Nodes(top, U) /\ Ordered(m, W) /\ Held(m, W) = Held(n, W)
       /\ Len(m.keys) = Len(n.keys)
       /\ TwoChanged(n.kids, at, a, b, m.kids)
  <2>1. Reread(leaf, T, V, U, W, n, at, a, h, b)
    BY <1>1, <1>9 DEF Reread
  <2> QED
    BY <1>3, <2>1, LoanStep
<1>11. Fit(a) /\ Fit(b)
  <2> DEFINE x == Len(a.keys)
             y == Len(b.keys)
             z == Len(r.keys)
  <2>1. x = (MinKeys - 1) + 1 /\ y = z - 1 /\ z > MinKeys /\ z <= MaxKeys /\ z \in Nat
    BY <1>2, <1>6, <1>9
  <2>2. MinKeys \in Nat /\ MaxKeys \in Nat /\ MinKeys <= MaxKeys
    BY OrderArithmetic
  <2> HIDE DEF x, y, z
  <2>3. x \in MinKeys .. MaxKeys /\ y \in MinKeys .. MaxKeys
    BY <2>1, <2>2
  <2> QED
    BY <2>3 DEF x, y, Fit
<1>12. Filled(m)
  BY <1>10, <1>11, FilledByLoan DEF RightLends
<1> QED
  BY <1>10, <1>12, TreeFacts

(* The one behind "at" is short, and the one at "at" can lend a key.          *)
LeftLends(n, at) ==
    /\ FilledButPair(n, at)
    /\ Short(n.kids[at + 1]) /\ Fit(n.kids[at]) /\ Lends(n.kids[at])

(* The shift of borrowFromLeft keeps the keys of a child that has no two.     *)
NoTwoKeys(c) == Len(c.keys) <= 1

(* m is n after its child at lent a key to the next.                          *)
LentTo(n, at, m) == NoTwoKeys(n.kids[at + 1]) /\ m = borrowFromLeft(n, at + 1)

(* borrowFromLeft.                                                            *)
LEMMA LeftLoanStep ==
    ASSUME NEW leaf, NEW T, NEW V, NEW top, NEW U, NEW W, NEW n,
           Row(leaf, T, V, top, U, W, n), NEW at \in 1 .. Len(n.keys),
           LeftLends(n, at), NEW m, LentTo(n, at, m)
    PROVE  m \in Trees(top, U, W) /\ Held(m, W) = Held(n, W) /\ Len(m.keys) = Len(n.keys)
<1>0. Inside(top) /\ Level(leaf, T, V, U, W) /\ n \in Nodes(top, U) /\ Ordered(n, W)
  BY DEF Row
<1> DEFINE l == n.kids[at]
           k == n.keys[at]
           r == n.kids[at + 1]
           j == JoinedKids(n, at)
           a == Node(l.leaf, Front(l.keys), IF l.kids = << >> THEN << >> ELSE Front(l.kids))
           b == Node(r.leaf, << k >> \o Repeated(r.keys),
                     IF l.kids = << >> THEN r.kids ELSE << Last(l.kids) >> \o r.kids)
           h == Last(l.keys)
<1>1. /\ l \in U /\ r \in U /\ k \in Int /\ j \in U
      /\ Siblings(n, at, V, W, j)
  BY SiblingsRead
<1>2. /\ Len(l.keys) > MinKeys /\ Len(l.keys) <= MaxKeys
      /\ Len(r.keys) = MinKeys - 1 /\ Len(r.keys) <= 1
  BY DEF LeftLends, Lends, Fit, Short, NoTwoKeys, LentTo
<1>3. m = RowOfLoan(n, at, a, h, b)
  <2> DEFINE pos == at + 1
  <2>1. n = Node(n.leaf, n.keys, n.kids) /\ pos - 1 = at
    BY <1>0, NodeFacts
  <2>2. m = borrowFromLeft(n, pos)
    BY DEF LentTo
  <2> QED
    BY <2>1, <2>2 DEF borrowFromLeft, RowOfLoan, Node, Repeated
<1>4. LentFromLeft(l, k, r, a, b)
  BY DEF LentFromLeft
<1>5. h = Last(l.keys)
  OBVIOUS
<1>6. Siblings(n, at, V, W, j) => Reads(j, l, k, r)
  BY DEF Siblings
<1> HIDE DEF l, k, r, j, a, b, h
<1>7. /\ l \in Nodes(leaf, T) /\ r \in Nodes(leaf, T) /\ j \in Nodes(leaf, T) /\ Reads(j, l, k, r)
      /\ Len(l.keys) \in Nat
  <2>1. l \in Nodes(leaf, T) /\ r \in Nodes(leaf, T) /\ j \in Nodes(leaf, T)
    BY <1>0, <1>1, LevelFacts
  <2>2. Len(l.keys) \in Nat
    BY <2>1, NodeFacts
  <2> QED
    BY <1>1, <1>6, <2>1, <2>2
<1>8. Len(l.keys) >= 1
  BY <1>2, <1>7, OrderArithmetic
<1>9. /\ a \in Nodes(leaf, T) /\ b \in Nodes(leaf, T) /\ h \in Int
      /\ Reads(j, a, h, b)
      /\ Len(a.keys) = Len(l.keys) - 1 /\ Len(b.keys) = Len(r.keys) + 1
  BY <1>1, <1>2, <1>4, <1>5, <1>7, <1>8, LeftLoanReads
<1>10. /\ m \in Nodes(top, U) /\ Ordered(m, W) /\ Held(m, W) = Held(n, W)
       /\ Len(m.keys) = Len(n.keys)
       /\ TwoChanged(n.kids, at, a, b, m.kids)
  <2>1. Reread(leaf, T, V, U, W, n, at, a, h, b)
    BY <1>1, <1>9 DEF Reread
  <2> QED
    BY <1>3, <2>1, LoanStep
<1>11. Fit(a) /\ Fit(b)
  <2> DEFINE x == Len(a.keys)
             y == Len(b.keys)
             z == Len(l.keys)
  <2>1. y = (MinKeys - 1) + 1 /\ x = z - 1 /\ z > MinKeys /\ z <= MaxKeys /\ z \in Nat
    BY <1>2, <1>7, <1>9
  <2>2. MinKeys \in Nat /\ MaxKeys \in Nat /\ MinKeys <= MaxKeys
    BY OrderArithmetic
  <2> HIDE DEF x, y, z
  <2>3. x \in MinKeys .. MaxKeys /\ y \in MinKeys .. MaxKeys
    BY <2>1, <2>2
  <2> QED
    BY <2>3 DEF x, y, Fit
<1>12. Filled(m)
  BY <1>10, <1>11, FilledByLoan DEF LeftLends
<1> QED
  BY <1>10, <1>12, TreeFacts

(* Of two neighbours neither has a key too many, and one may be short.        *)
NeitherLends(n, at) ==
    /\ FilledButPair(n, at)
    /\ \/ Short(n.kids[at]) /\ Len(n.kids[at + 1].keys) = MinKeys
       \/ Short(n.kids[at + 1]) /\ Len(n.kids[at].keys) = MinKeys

(* mergeNode, whatever the merged child's size.                               *)
LEMMA JoinStep ==
    ASSUME NEW leaf, NEW T, NEW V, NEW top, NEW U, NEW W, NEW n,
           Row(leaf, T, V, top, U, W, n), NEW at \in 1 .. Len(n.keys),
           NEW m, m = mergeNode(n, at)
    PROVE  /\ m \in Nodes(top, U) /\ Ordered(m, W) /\ Held(m, W) = Held(n, W)
           /\ Len(m.keys) = Len(n.keys) - 1
           /\ OneForTwo(n.kids, at, JoinedKids(n, at), m.kids)
<1>0. Inside(top) /\ Level(leaf, T, V, U, W) /\ n \in Nodes(top, U) /\ Ordered(n, W)
  BY DEF Row
<1> DEFINE j == JoinedKids(n, at)
<1>1. j \in U /\ Siblings(n, at, V, W, j)
  BY SiblingsRead
<1>2. m = RowOfJoin(n, at, j)
  BY DEF mergeNode, RowOfJoin
<1> HIDE DEF j
<1>3. W[j] = PairHolds(n, W, at)
  BY <1>0, <1>1, LevelFacts DEF Siblings
<1>4. JoinedHold(n, W, at, j)
  BY <1>3 DEF JoinedHold, PairHolds
<1>5. /\ m \in Nodes(top, U) /\ Ordered(m, W) /\ Held(m, W) = Held(n, W)
      /\ Len(m.keys) = Len(n.keys) - 1
      /\ OneForTwo(n.kids, at, j, m.kids)
  BY <1>0, <1>1, <1>2, <1>4, RowJoined
<1> QED
  BY <1>5 DEF j

(* mergeNode in adjustNode.                                                   *)
LEMMA MergeStep ==
    ASSUME NEW leaf, NEW T, NEW V, NEW top, NEW U, NEW W, NEW n,
           Row(leaf, T, V, top, U, W, n), NEW at \in 1 .. Len(n.keys),
           NeitherLends(n, at), NEW m, m = mergeNode(n, at)
    PROVE  m \in Trees(top, U, W) /\ Held(m, W) = Held(n, W) /\ Len(m.keys) = Len(n.keys) - 1
<1>0. Inside(top) /\ Level(leaf, T, V, U, W) /\ n \in Nodes(top, U) /\ Ordered(n, W)
  BY DEF Row
<1> DEFINE j == JoinedKids(n, at)
<1>1. AsLong(j, n.kids[at], n.kids[at + 1])
  BY SiblingsRead
<1>2. Fit(j)
  <2> DEFINE x == Len(n.kids[at].keys)
             y == Len(n.kids[at + 1].keys)
             z == Len(j.keys)
             M == MinKeys
             N == MaxKeys
  <2>1. z = x + 1 + y
    BY <1>1 DEF AsLong
  <2>2. (x = M - 1 /\ y = M) \/ (y = M - 1 /\ x = M)
    BY DEF NeitherLends, Short
  <2>3. M \in Nat /\ N \in Nat /\ M + M <= N
    BY OrderArithmetic
  <2> HIDE DEF x, y, z, M, N
  <2>4. z = M + M
    BY <2>1, <2>2, <2>3
  <2>5. z \in M .. N
    BY <2>3, <2>4
  <2> QED
    BY <2>5 DEF z, M, N, Fit
<1>4. /\ m \in Nodes(top, U) /\ Ordered(m, W) /\ Held(m, W) = Held(n, W)
      /\ Len(m.keys) = Len(n.keys) - 1
      /\ OneForTwo(n.kids, at, j, m.kids)
  BY JoinStep
<1>5. at \in 1 .. Len(n.kids) - 1 /\ Len(n.kids) \in Nat
  BY <1>0, InnerKids, NodeFacts
<1>6. FilledButPair(n, at)
  BY DEF NeitherLends
<1> HIDE DEF j
<1>7. Filled(m)
  BY <1>2, <1>4, <1>5, <1>6, FilledByMerge
<1> QED
  BY <1>4, <1>7, TreeFacts

(* A child that runs short has no second key up to Order 6: so the shift of   *)
(* borrowFromLeft bites from Order 7 on.                                      *)
THEOREM ShiftsNeedOrderSeven ==
    ASSUME NEW n, NEW pos, Short(n.kids[pos]), Shifts(n, pos)
    PROVE  Order >= 7
<1> DEFINE x == Len(n.kids[pos].keys)
<1>1. x = MinKeys - 1 /\ x > 1
  BY DEF Short, Shifts
<1>2. MinKeys \in Nat
  BY OrderArithmetic
<1> HIDE DEF x
<1>3. MinKeys >= 3
  BY <1>1, <1>2
<1> QED
  BY <1>3, OrderAssumption DEF MinKeys

(* Only the child at pos may be of the wrong size: so of a pair with it only  *)
(* that one may.                                                              *)
LEMMA PairFilled ==
    ASSUME NEW n, NEW pos, FilledBut(n, pos), NEW at, pos = at \/ pos = at + 1
    PROVE  FilledButPair(n, at)
BY DEF FilledBut, FilledButPair

(* A child of the right size that has none to lend has the fewest there are.  *)
LEMMA LendsNone ==
    ASSUME NEW c, Fit(c), ~Lends(c)
    PROVE  Len(c.keys) = MinKeys
<1> DEFINE x == Len(c.keys)
<1>1. x \in MinKeys .. MaxKeys /\ ~(x > MinKeys)
  BY DEF Fit, Lends
<1>2. MinKeys \in Nat /\ MaxKeys \in Nat
  BY OrderArithmetic
<1> HIDE DEF x
<1>3. x = MinKeys
  BY <1>1, <1>2
<1> QED
  BY <1>3 DEF x

(* The pair adjustNode turns to: the short child and a sibling.               *)
Beside(n, pos, at) ==
    /\ at \in 1 .. Len(n.keys) /\ at \in Nat
    /\ at \in 1 .. Len(n.kids) /\ at + 1 \in 1 .. Len(n.kids)
    /\ pos = at \/ pos = at + 1

(* The two siblings a child may have.                                         *)
LEMMA BesideFacts ==
    ASSUME NEW top, Inside(top), NEW U, NEW n \in Nodes(top, U), NEW pos \in 1 .. Len(n.kids)
    PROVE  /\ pos > 1 => Beside(n, pos, pos - 1)
           /\ pos <= Len(n.keys) => Beside(n, pos, pos)
<1> DEFINE x == Len(n.keys)
           y == Len(n.kids)
<1>1. x \in Nat /\ y = x + 1
  BY NodeFacts, InnerKids
<1>2. pos \in 1 .. y
  OBVIOUS
<1> HIDE DEF x, y
<1>3. pos > 1 => /\ pos - 1 \in 1 .. x /\ pos - 1 \in Nat
                 /\ pos - 1 \in 1 .. y /\ (pos - 1) + 1 \in 1 .. y
                 /\ pos = pos - 1 \/ pos = (pos - 1) + 1
  BY <1>1, <1>2
<1>4. pos <= x => /\ pos \in 1 .. x /\ pos \in Nat
                  /\ pos \in 1 .. y /\ pos + 1 \in 1 .. y
                  /\ pos = pos \/ pos = pos + 1
  BY <1>1, <1>2
<1> QED
  BY <1>3, <1>4 DEF x, y, Beside

(* What adjustNode has to leave behind.                                       *)
Restored(n, m, top, U, W) ==
    /\ m \in Trees(top, U, W) /\ Held(m, W) = Held(n, W)
    /\ Len(m.keys) \in {Len(n.keys) - 1, Len(n.keys)}

(* adjustNode.                                                                *)
LEMMA AdjustStep ==
    ASSUME NEW leaf, NEW T, NEW V, NEW top, NEW U, NEW W,
           NEW n, Row(leaf, T, V, top, U, W, n), Len(n.keys) >= 1,
           NEW pos \in 1 .. Len(n.kids), FilledBut(n, pos), Short(n.kids[pos]), ~Shifts(n, pos),
           NEW m, m = adjustNode(n, pos)
    PROVE  Restored(n, m, top, U, W)
<1>0. Inside(top) /\ Level(leaf, T, V, U, W) /\ n \in Nodes(top, U) /\ Ordered(n, W)
  BY DEF Row
<1>1. CASE pos > 1 /\ Lends(n.kids[pos - 1])
  <2> PICK at, p : at = pos - 1 /\ p = pos
    OBVIOUS
  <2>1. Beside(n, pos, at) /\ p = at + 1
    BY <1>1, <1>0, BesideFacts
  <2>2. LentTo(n, at, m)
    <3>1. ~(Len(n.kids[pos].keys) > 1)
      BY <1>1 DEF Shifts
    <3>2. Len(n.kids[pos].keys) \in Int
      BY <1>0, OrderArithmetic DEF Short
    <3>3. NoTwoKeys(n.kids[pos])
      BY <3>1, <3>2 DEF NoTwoKeys
    <3> QED
      BY <1>1, <2>1, <3>3 DEF adjustNode, LentTo
  <2>3. Lends(n.kids[at])
    BY <1>1
  <2>4. at # pos /\ at \in 1 .. Len(n.kids) /\ at \in 1 .. Len(n.keys)
    BY <2>1 DEF Beside
  <2>5. LeftLends(n, at)
    BY <2>1, <2>3, <2>4, PairFilled DEF LeftLends, FilledBut
  <2>6. m \in Trees(top, U, W) /\ Held(m, W) = Held(n, W) /\ Len(m.keys) = Len(n.keys)
    BY <2>2, <2>4, <2>5, LeftLoanStep
  <2> QED
    BY <2>6 DEF Restored
<1>2. CASE ~(pos > 1 /\ Lends(n.kids[pos - 1])) /\ pos <= Len(n.keys) /\ Lends(n.kids[pos + 1])
  <2> PICK at : at = pos
    OBVIOUS
  <2>1. Beside(n, pos, at)
    BY <1>2, <1>0, BesideFacts
  <2>2. m = borrowFromRight(n, at)
    BY <1>2 DEF adjustNode
  <2>3. at + 1 # pos /\ at + 1 \in 1 .. Len(n.kids) /\ at \in 1 .. Len(n.keys)
    BY <2>1 DEF Beside
  <2>4. RightLends(n, at)
    BY <1>2, <2>1, <2>3, PairFilled DEF RightLends, FilledBut
  <2>5. m \in Trees(top, U, W) /\ Held(m, W) = Held(n, W) /\ Len(m.keys) = Len(n.keys)
    BY <2>2, <2>3, <2>4, RightLoanStep
  <2> QED
    BY <2>5 DEF Restored
<1>3. CASE /\ ~(pos > 1 /\ Lends(n.kids[pos - 1]))
           /\ ~(pos <= Len(n.keys) /\ Lends(n.kids[pos + 1]))
  <2>1. PICK at : /\ Beside(n, pos, at) /\ m = mergeNode(n, at)
                  /\ pos = at => ~Lends(n.kids[at + 1])
                  /\ pos = at + 1 => ~Lends(n.kids[at])
    <3>1. CASE pos = 1
      <4>1. pos <= Len(n.keys)
        BY <3>1
      <4>2. Beside(n, pos, pos) /\ m = mergeNode(n, pos) /\ ~Lends(n.kids[pos + 1]) /\ pos # pos + 1
        BY <1>3, <3>1, <4>1, <1>0, BesideFacts DEF adjustNode
      <4> QED
        BY <4>2
    <3>2. CASE pos # 1
      <4> DEFINE at == pos - 1
      <4>1. pos > 1
        BY <3>2
      <4>2. Beside(n, pos, at) /\ m = mergeNode(n, at) /\ ~Lends(n.kids[at]) /\ pos # at
        BY <1>3, <3>2, <4>1, <1>0, BesideFacts DEF adjustNode
      <4> QED
        BY <4>2
    <3> QED
      BY <3>1, <3>2
  <2>2. NeitherLends(n, at)
    <3>1. FilledButPair(n, at)
      BY <2>1, PairFilled DEF Beside
    <3>2. CASE pos = at
      <4>1. at + 1 # pos /\ at + 1 \in 1 .. Len(n.kids)
        BY <2>1, <3>2 DEF Beside
      <4>2. Len(n.kids[at + 1].keys) = MinKeys
        BY <2>1, <3>2, <4>1, LendsNone DEF FilledBut
      <4> QED
        BY <3>1, <3>2, <4>2 DEF NeitherLends
    <3>3. CASE pos = at + 1
      <4>1. at # pos /\ at \in 1 .. Len(n.kids)
        BY <2>1, <3>3 DEF Beside
      <4>2. Len(n.kids[at].keys) = MinKeys
        BY <2>1, <3>3, <4>1, LendsNone DEF FilledBut
      <4> QED
        BY <3>1, <3>3, <4>2 DEF NeitherLends
    <3> QED
      BY <2>1, <3>2, <3>3 DEF Beside
  <2>3. at \in 1 .. Len(n.keys)
    BY <2>1 DEF Beside
  <2>4. m \in Trees(top, U, W) /\ Held(m, W) = Held(n, W) /\ Len(m.keys) = Len(n.keys) - 1
    BY <2>1, <2>2, <2>3, MergeStep
  <2> QED
    BY <2>4 DEF Restored
<1> QED
  BY <1>1, <1>2, <1>3

-----------------------------------------------------------------------------
(* Deletion                                                                   *)

(* A child that lost a key, or none, put back where it was.                   *)
WithKid(n, pos, c) == [n EXCEPT !.kids[pos] = c]
Lessened(n, W, pos, c, gone) == W[c] = W[n.kids[pos]] \ {gone}

(* A node over a level.                                                       *)
LEMMA RowFacts ==
    ASSUME NEW leaf, NEW T, NEW V, NEW top, NEW U, NEW W, NEW n, Row(leaf, T, V, top, U, W, n)
    PROVE  /\ Inside(top) /\ Level(leaf, T, V, U, W) /\ n \in Nodes(top, U) /\ Ordered(n, W)
           /\ Len(n.keys) \in Nat /\ Len(n.kids) = Len(n.keys) + 1
           /\ n.keys \in Seq(Int) /\ n.kids \in Seq(U)
           /\ \A i \in 1 .. Len(n.keys) : n.keys[i] \in Int
           /\ \A i \in 1 .. Len(n.kids) : n.kids[i] \in U
<1>1. Inside(top) /\ Level(leaf, T, V, U, W) /\ n \in Nodes(top, U) /\ Ordered(n, W)
  BY DEF Row
<1> QED
  BY <1>1, NodeFacts, InnerKids

(* A node whose child gave up a key is still a search tree.                   *)
LEMMA KidShrunk ==
    ASSUME NEW leaf, NEW T, NEW V, NEW top, NEW U, NEW W, NEW n, Row(leaf, T, V, top, U, W, n),
           NEW pos \in 1 .. Len(n.kids), FilledBut(n, pos), NEW c \in U, NEW gone,
           Lessened(n, W, pos, c, gone), gone \in Held(n, W) => gone \in W[n.kids[pos]],
           NEW m, m = WithKid(n, pos, c)
    PROVE  /\ Row(leaf, T, V, top, U, W, m) /\ m.keys = n.keys /\ m.kids[pos] = c
           /\ Len(m.kids) = Len(n.kids) /\ FilledBut(m, pos)
           /\ Held(m, W) = Held(n, W) \ {gone}
<1>1. Inside(top) /\ Level(leaf, T, V, U, W) /\ n \in Nodes(top, U) /\ Ordered(n, W)
  BY RowFacts
<1>2. W[c] \subseteq W[n.kids[pos]]
  BY DEF Lessened
<1>3. W[n.kids[pos]] \subseteq Gap(n, pos) /\ W[n.kids[pos]] \subseteq Held(n, W)
  BY <1>1, HeldFacts DEF Ordered
<1>4. W[c] \subseteq Gap(n, pos)
  BY <1>2, <1>3
<1>5. /\ m \in Nodes(top, U) /\ Ordered(m, W) /\ m.keys = n.keys
      /\ m.kids[pos] = c /\ Len(m.kids) = Len(n.kids)
      /\ \A i \in 1 .. Len(n.kids) : i # pos => m.kids[i] = n.kids[i]
      /\ Held(m, W) = (Held(n, W) \ W[n.kids[pos]]) \cup W[c]
  <2>1. m = [n EXCEPT !.kids[pos] = c]
    BY DEF WithKid
  <2> QED
    BY <1>1, <1>4, <2>1, KidReplaced
<1>6. Row(leaf, T, V, top, U, W, m)
  BY <1>1, <1>5 DEF Row
<1>7. FilledBut(m, pos)
  BY <1>5 DEF FilledBut
<1>8. Held(m, W) = Held(n, W) \ {gone}
  <2> DEFINE X == Held(n, W)
             Y == W[n.kids[pos]]
  <2>1. Held(m, W) = (X \ Y) \cup (Y \ {gone}) /\ Y \subseteq X /\ (gone \in X => gone \in Y)
    BY <1>3, <1>5 DEF Lessened
  <2> HIDE DEF X, Y
  <2>2. (X \ Y) \cup (Y \ {gone}) = X \ {gone}
    BY <2>1
  <2> QED
    BY <2>1, <2>2 DEF X
<1> QED
  BY <1>5, <1>6, <1>7, <1>8

(* r is what a deletion of val made of before.                                *)
Shrunk(val, before, r, V) ==
    /\ r.found <=> val \in Held(before, V)
    /\ Held(r.node, V) = Held(before, V) \ {val}
    /\ Len(r.node.keys) \in {Len(before.keys) - 1, Len(before.keys)}
    /\ r.found \/ r.node.keys = before.keys

(* A child of the right size that shrinks by a key at most is of the right    *)
(* size, or one short.                                                        *)
LEMMA ShrunkSize ==
    ASSUME NEW c, Fit(c), NEW val, NEW r, NEW V, Shrunk(val, c, r, V)
    PROVE  /\ Len(r.node.keys) < MinKeys => Short(r.node)
           /\ ~(Len(r.node.keys) < MinKeys) => Fit(r.node)
<1> DEFINE x == Len(c.keys)
           y == Len(r.node.keys)
<1>1. x \in MinKeys .. MaxKeys /\ y \in {x - 1, x}
  BY DEF Fit, Shrunk
<1>2. MinKeys \in Nat /\ MaxKeys \in Nat
  BY OrderArithmetic
<1> HIDE DEF x, y
<1>3. (y < MinKeys => y = MinKeys - 1) /\ (~(y < MinKeys) => y \in MinKeys .. MaxKeys)
  BY <1>1, <1>2
<1> QED
  BY <1>3 DEF y, Short, Fit

(* deleteValFromNode at a leaf.                                               *)
LEMMA DeleteAtLeaf ==
    ASSUME NEW leaf, Bottom(leaf), NEW T, NEW V, NEW n \in Trees(leaf, T, V), NEW val \in Int,
           NEW x, NEW y, NEW r, r = DeleteStep(val, n, x, y)
    PROVE  r.node \in Trees(leaf, T, V) /\ Shrunk(val, n, r, V)
<1> DEFINE p == Position(n, val)
<1>1. n \in Nodes(leaf, T) /\ Ordered(n, V) /\ Filled(n)
  BY TreeFacts
<1>2. StopsAt(n, val, p)
  BY <1>1, PositionFound
<1>3. n.leaf /\ Len(n.keys) \in Nat
  BY <1>1, LeafMark, NodeFacts
<1> HIDE DEF p
<1>4. CASE HasAt(n, val, p)
  <2>1. r = Deletion(WithoutKey(n, p), TRUE, {})
    BY <1>3, <1>4 DEF DeleteStep, p
  <2> PICK m : m = WithoutKey(n, p)
    OBVIOUS
  <2>2. r.found = TRUE /\ r.node = m
    BY <2>1 DEF Deletion
  <2>3. val \in Held(n, V) /\ p \in 1 .. Len(n.keys) /\ n.keys[p] = val
    BY <1>1, <1>2, <1>4, HasAtHeld
  <2>4. /\ m \in Nodes(leaf, T) /\ Ordered(m, V) /\ Held(m, V) = Held(n, V) \ {n.keys[p]}
        /\ Len(m.keys) = Len(n.keys) - 1
    <3>1. n \in Nodes(leaf, T) /\ Ordered(n, V) /\ p \in 1 .. Len(n.keys)
      BY <1>1, <2>3
    <3> QED
      BY <3>1, LeafShrunk
  <2>5. Filled(m)
    <3>1. Len(m.kids) = 0
      BY <2>4, LeafAlone
    <3> QED
      BY <3>1 DEF Filled
  <2> QED
    BY <2>2, <2>3, <2>4, <2>5, TreeFacts DEF Shrunk
<1>5. CASE ~HasAt(n, val, p)
  <2>1. r = Deletion(n, FALSE, {})
    BY <1>3, <1>5 DEF DeleteStep, p
  <2>2. r.found = FALSE /\ r.node = n
    BY <2>1 DEF Deletion
  <2>3. val \notin Held(n, V)
    BY <1>1, <1>2, <1>5, PositionLeads
  <2>4. Held(n, V) = Held(n, V) \ {val}
    BY <2>3
  <2> QED
    BY <2>2, <2>3, <2>4 DEF Shrunk
<1> QED
  BY <1>4, <1>5

(* The call on the child comes back: a child that ran short is mended.        *)
LEMMA DeleteBelow ==
    ASSUME NEW leaf, NEW T, NEW V, NEW top, NEW U, NEW W,
           NEW n, Row(leaf, T, V, top, U, W, n), Filled(n), Len(n.keys) >= 1,
           NEW val \in Int, NEW p, StopsAt(n, val, p), ~HasAt(n, val, p),
           NEW r, r.node \in U, Shrunk(val, n.kids[p], r, V),
           NEW d, d = Adjusted(n, p, r), d.faults = {}
    PROVE  d.node \in Trees(top, U, W) /\ Shrunk(val, n, d, W)
<1>1. /\ Inside(top) /\ Level(leaf, T, V, U, W) /\ n \in Nodes(top, U) /\ Ordered(n, W)
      /\ \A i \in 1 .. Len(n.kids) : n.kids[i] \in U
  BY RowFacts
<1>2. p \in 1 .. Len(n.kids) /\ (val \in Held(n, W) <=> val \in W[n.kids[p]])
  BY <1>1, PositionLeads
<1> PICK e, m : e = r.node /\ m = WithKid(n, p, e)
  OBVIOUS
<1>3. W[e] = Held(e, V) /\ W[n.kids[p]] = Held(n.kids[p], V)
  BY <1>1, <1>2, LevelFacts
<1>4. Lessened(n, W, p, e, val)
  BY <1>3 DEF Lessened, Shrunk
<1>5. FilledBut(n, p) /\ Fit(n.kids[p])
  BY <1>2 DEF Filled, FilledBut
<1>6. /\ Row(leaf, T, V, top, U, W, m) /\ m.keys = n.keys /\ m.kids[p] = e
      /\ Len(m.kids) = Len(n.kids) /\ FilledBut(m, p)
      /\ Held(m, W) = Held(n, W) \ {val}
  BY <1>2, <1>4, <1>5, KidShrunk
<1>7. /\ d.found = r.found
      /\ d.node = IF Len(r.node.keys) < MinKeys THEN adjustNode(m, p) ELSE m
  BY DEF Adjusted, Mended, Deletion, WithKid
<1>8. d.found <=> val \in Held(n, W)
  BY <1>2, <1>3, <1>7 DEF Shrunk
<1>9. CASE Len(r.node.keys) < MinKeys
  <2>1. Short(m.kids[p])
    BY <1>5, <1>6, <1>9, ShrunkSize
  <2>2. d.node = adjustNode(m, p) /\ Len(m.keys) >= 1 /\ p \in 1 .. Len(m.kids)
    BY <1>2, <1>6, <1>7, <1>9
  <2> PICK f : f = d.node
    OBVIOUS
  <2>3. Restored(m, f, top, U, W)
    <3>1. d = Mended(m, p, r)
      BY <1>9 DEF Adjusted, WithKid
    <3>2. ~Shifts(m, p)
      BY <3>1 DEF Mended, Deletion
    <3> QED
      BY <1>6, <2>1, <2>2, <3>2, AdjustStep
  <2>4. d.found
    <3>1. ~(Len(n.kids[p].keys) < MinKeys)
      <4>1. Len(n.kids[p].keys) \in MinKeys .. MaxKeys
        BY <1>5 DEF Fit
      <4> QED
        BY <4>1, OrderArithmetic
    <3>2. r.node.keys # n.kids[p].keys
      BY <1>9, <3>1
    <3> QED
      BY <1>7, <3>2 DEF Shrunk
  <2> QED
    BY <1>6, <1>8, <2>3, <2>4 DEF Restored, Shrunk
<1>10. CASE ~(Len(r.node.keys) < MinKeys)
  <2>1. d.node = m /\ Fit(m.kids[p])
    BY <1>5, <1>6, <1>7, <1>10, ShrunkSize
  <2>2. Filled(m)
    BY <1>6, <2>1 DEF Filled, FilledBut
  <2>3. m \in Nodes(top, U) /\ Ordered(m, W)
    BY <1>6, RowFacts
  <2> QED
    BY <1>6, <1>8, <2>1, <2>2, <2>3, TreeFacts DEF Shrunk
<1> QED
  BY <1>9, <1>10

(* A separator gives way to the last key before it, or to the first behind    *)
(* it, which leaves the subtree it comes from.                                *)
LastIn(S, k) == k \in S /\ \A x \in S : x <= k
FirstIn(S, k) == k \in S /\ \A x \in S : k <= x

(* n with the key at replaced by k, taken from the child before it, and from  *)
(* the child behind it; c is what is left of that child.                      *)
FromBefore(n, at, k, c) == [[n EXCEPT !.keys[at] = k] EXCEPT !.kids[at] = c]
FromBehind(n, at, k, c) == [[n EXCEPT !.keys[at] = k] EXCEPT !.kids[at + 1] = c]

(* Both change a key and one of its two children, as a loan does.             *)
LEMMA ReplacedAreLoans ==
    ASSUME NEW leaf, NEW T, NEW V, NEW top, NEW U, NEW W, NEW n, Row(leaf, T, V, top, U, W, n),
           NEW at \in 1 .. Len(n.keys), NEW k, NEW c
    PROVE  /\ FromBefore(n, at, k, c) = RowOfLoan(n, at, c, k, n.kids[at + 1])
           /\ FromBehind(n, at, k, c) = RowOfLoan(n, at, n.kids[at], k, c)
<1> DEFINE s == n.kids
           y == Len(s)
           x == Len(n.keys)
<1>1. n = Node(n.leaf, n.keys, n.kids) /\ s \in Seq(U) /\ y = x + 1 /\ x \in Nat
  <2>1. n \in Nodes(top, U)
    BY RowFacts
  <2> QED
    BY <2>1, NodeFacts, RowFacts
<1>2. at \in 1 .. x
  OBVIOUS
<1> HIDE DEF x, s, y
<1>3. at \in 1 .. y /\ at + 1 \in 1 .. y /\ at # at + 1
  BY <1>1, <1>2
<1>4. DOMAIN s = 1 .. y /\ s = [i \in DOMAIN s |-> s[i]]
  BY <1>1, LenProperties DEF y
<1>5. [[s EXCEPT ![at] = c] EXCEPT ![at + 1] = s[at + 1]] = [s EXCEPT ![at] = c]
  BY <1>3, <1>4
<1>6. [[s EXCEPT ![at] = s[at]] EXCEPT ![at + 1] = c] = [s EXCEPT ![at + 1] = c]
  BY <1>3, <1>4
<1>7. PICK l, ks, ts : n = Node(l, ks, ts) /\ l = n.leaf /\ ks = n.keys /\ ts = s
  BY <1>1 DEF s
<1>8. PICK q : q = [ks EXCEPT ![at] = k]
  OBVIOUS
<1>9. /\ FromBefore(n, at, k, c) = Node(l, q, [ts EXCEPT ![at] = c])
      /\ FromBehind(n, at, k, c) = Node(l, q, [ts EXCEPT ![at + 1] = c])
  <2>1. [Node(l, ks, ts) EXCEPT !.keys[at] = k] = Node(l, q, ts)
    BY <1>8 DEF Node
  <2>2. /\ [Node(l, q, ts) EXCEPT !.kids[at] = c] = Node(l, q, [ts EXCEPT ![at] = c])
        /\ [Node(l, q, ts) EXCEPT !.kids[at + 1] = c] = Node(l, q, [ts EXCEPT ![at + 1] = c])
    BY DEF Node
  <2>3. [n EXCEPT !.keys[at] = k] = Node(l, q, ts)
    BY <1>7, <2>1
  <2> QED
    BY <2>2, <2>3 DEF FromBefore, FromBehind
<1>10. /\ FromBefore(n, at, k, c) = Node(n.leaf, [n.keys EXCEPT ![at] = k], [s EXCEPT ![at] = c])
       /\ FromBehind(n, at, k, c) = Node(n.leaf, [n.keys EXCEPT ![at] = k], [s EXCEPT ![at + 1] = c])
  BY <1>7, <1>8, <1>9
<1> QED
  BY <1>5, <1>6, <1>10 DEF RowOfLoan, s

(* The pair around a separator, with what it holds.                           *)
Around(n, W, at, X, v, Y) ==
    /\ X = W[n.kids[at]] /\ v = n.keys[at] /\ Y = W[n.kids[at + 1]]
    /\ PairHolds(n, W, at) = X \cup {v} \cup Y
    /\ v \in Int /\ X \subseteq Int /\ Y \subseteq Int
    /\ \A x \in X : x < v
    /\ \A y \in Y : v < y

(* What a node holds around one of its keys.                                  *)
LEMMA AroundFacts ==
    ASSUME NEW leaf, NEW T, NEW V, NEW top, NEW U, NEW W, NEW n, Row(leaf, T, V, top, U, W, n),
           NEW at \in 1 .. Len(n.keys)
    PROVE  Around(n, W, at, W[n.kids[at]], n.keys[at], W[n.kids[at + 1]])
<1>1. /\ n \in Nodes(top, U) /\ Ordered(n, W)
      /\ Len(n.keys) \in Nat /\ Len(n.kids) = Len(n.keys) + 1 /\ n.keys[at] \in Int
  BY RowFacts
<1>2. /\ at \in 1 .. Len(n.kids) /\ at + 1 \in 1 .. Len(n.kids)
      /\ at \in at .. Len(n.keys) /\ at \in 1 .. (at + 1) - 1
  BY <1>1
<1>3. \A x \in W[n.kids[at]] : x \in Int /\ x < n.keys[at]
  BY <1>1, <1>2, OrderFacts
<1>4. \A x \in W[n.kids[at + 1]] : x \in Int /\ n.keys[at] < x
  BY <1>1, <1>2, OrderFacts
<1> QED
  BY <1>1, <1>3, <1>4 DEF Around, PairHolds

(* What the row is when the pair became a, k, b without the separator v.      *)
Replaced(n, W, at, a, k, b, m) ==
    /\ Len(m.keys) = Len(n.keys)
    /\ Held(m, W) = Held(n, W) \ {n.keys[at]}
    /\ TwoChanged(n.kids, at, a, b, m.kids)

(* Taking the place of a key by the last one before it removes that key only. *)
LEMMA ReplaceBefore ==
    ASSUME NEW leaf, NEW T, NEW V, NEW top, NEW U, NEW W, NEW n, Row(leaf, T, V, top, U, W, n),
           NEW at \in 1 .. Len(n.keys), NEW k, LastIn(W[n.kids[at]], k),
           NEW c \in U, Lessened(n, W, at, c, k), NEW m, m = FromBefore(n, at, k, c)
    PROVE  /\ m \in Nodes(top, U) /\ Ordered(m, W)
           /\ Replaced(n, W, at, c, k, n.kids[at + 1], m)
<1> PICK X, v, Y, b, lost :
       X = W[n.kids[at]] /\ v = n.keys[at] /\ Y = W[b] /\ b = n.kids[at + 1] /\ lost = {v}
  OBVIOUS
<1>1. Around(n, W, at, X, v, Y)
  BY AroundFacts
<1>2. W[c] = X \ {k} /\ k \in X /\ \A x \in X : x <= k
  BY DEF Lessened, LastIn
<1>3. k \in Int /\ b \in U
  <2>1. at + 1 \in 1 .. Len(n.kids)
    BY RowFacts
  <2> QED
    BY <1>1, <1>2, <2>1, RowFacts DEF Around
<1>4. \A x \in W[c] : x < k
  BY <1>1, <1>2 DEF Around
<1>5. \A y \in Y : k < y
  BY <1>1, <1>2 DEF Around
<1>6. v \notin X /\ v \notin Y
  BY <1>1 DEF Around
<1>7. W[c] \cup {k} \cup Y = (X \cup {v} \cup Y) \ lost
  BY <1>2, <1>6
<1>8. Exchanged(n, W, at, c, k, b, lost)
  BY <1>1, <1>4, <1>5, <1>7 DEF Exchanged, Around
<1>9. m = RowOfLoan(n, at, c, k, b)
  BY ReplacedAreLoans
<1>10. /\ m \in Nodes(top, U) /\ Ordered(m, W) /\ Held(m, W) = Held(n, W) \ lost
       /\ Len(m.keys) = Len(n.keys)
       /\ TwoChanged(n.kids, at, c, b, m.kids)
  <2>1. Inside(top) /\ n \in Nodes(top, U) /\ Ordered(n, W)
    BY RowFacts
  <2> QED
    BY <1>3, <1>8, <1>9, <2>1, RowExchanged
<1> QED
  BY <1>10 DEF Replaced

(* And by the first one behind it too.                                        *)
LEMMA ReplaceBehind ==
    ASSUME NEW leaf, NEW T, NEW V, NEW top, NEW U, NEW W, NEW n, Row(leaf, T, V, top, U, W, n),
           NEW at \in 1 .. Len(n.keys), NEW k, FirstIn(W[n.kids[at + 1]], k),
           NEW c \in U, W[c] = W[n.kids[at + 1]] \ {k}, NEW m, m = FromBehind(n, at, k, c)
    PROVE  /\ m \in Nodes(top, U) /\ Ordered(m, W)
           /\ Replaced(n, W, at, n.kids[at], k, c, m)
<1> PICK X, v, Y, a, lost :
       X = W[a] /\ v = n.keys[at] /\ Y = W[n.kids[at + 1]] /\ a = n.kids[at] /\ lost = {v}
  OBVIOUS
<1>1. Around(n, W, at, X, v, Y)
  BY AroundFacts
<1>2. W[c] = Y \ {k} /\ k \in Y /\ \A x \in Y : k <= x
  BY DEF FirstIn
<1>3. k \in Int /\ a \in U
  <2>1. at \in 1 .. Len(n.kids)
    BY RowFacts
  <2> QED
    BY <1>1, <1>2, <2>1, RowFacts DEF Around
<1>4. \A x \in W[c] : k < x
  BY <1>1, <1>2 DEF Around
<1>5. \A y \in X : y < k
  BY <1>1, <1>2 DEF Around
<1>6. v \notin X /\ v \notin Y
  BY <1>1 DEF Around
<1>7. X \cup {k} \cup W[c] = (X \cup {v} \cup Y) \ lost
  BY <1>2, <1>6
<1>8. Exchanged(n, W, at, a, k, c, lost)
  BY <1>1, <1>4, <1>5, <1>7 DEF Exchanged, Around
<1>9. m = RowOfLoan(n, at, a, k, c)
  BY ReplacedAreLoans
<1>10. /\ m \in Nodes(top, U) /\ Ordered(m, W) /\ Held(m, W) = Held(n, W) \ lost
       /\ Len(m.keys) = Len(n.keys)
       /\ TwoChanged(n.kids, at, a, c, m.kids)
  <2>1. Inside(top) /\ n \in Nodes(top, U) /\ Ordered(n, W)
    BY RowFacts
  <2> QED
    BY <1>3, <1>8, <1>9, <2>1, RowExchanged
<1> QED
  BY <1>10 DEF Replaced

(* Where all children are full enough, so are those beside any place.         *)
LEMMA FilledAll ==
    ASSUME NEW n, Filled(n), NEW at
    PROVE  /\ FilledBut(n, at) /\ FilledButPair(n, at)
           /\ \A i \in 1 .. Len(n.kids) : Fit(n.kids[i])
BY DEF Filled, FilledBut, FilledButPair

(* The places of a separator, and of the subtrees beside it.                  *)
LEMMA PairPlaces ==
    ASSUME NEW leaf, NEW T, NEW V, NEW top, NEW U, NEW W, NEW n, Row(leaf, T, V, top, U, W, n),
           NEW at \in 1 .. Len(n.keys)
    PROVE  /\ at \in 1 .. Len(n.kids) /\ at + 1 \in 1 .. Len(n.kids) /\ at \in Nat
           /\ at \in 1 .. Len(n.kids) - 1 /\ Len(n.kids) \in Nat
           /\ n.kids[at] \in U /\ n.kids[at + 1] \in U
           /\ W[n.kids[at]] = Held(n.kids[at], V)
           /\ W[n.kids[at + 1]] = Held(n.kids[at + 1], V)
           /\ n.keys[at] \in Held(n, W) /\ n.keys[at] \in Int
<1>1. Len(n.keys) \in Nat /\ Len(n.kids) = Len(n.keys) + 1
  BY RowFacts
<1>2. /\ at \in 1 .. Len(n.kids) /\ at + 1 \in 1 .. Len(n.kids) /\ at \in Nat
      /\ at \in 1 .. Len(n.kids) - 1 /\ Len(n.kids) \in Nat
  BY <1>1
<1>3. n.kids[at] \in U /\ n.kids[at + 1] \in U /\ n.keys[at] \in Int
  BY <1>2, RowFacts
<1>4. Level(leaf, T, V, U, W) /\ n \in Nodes(top, U) /\ Ordered(n, W)
  BY RowFacts
<1> QED
  BY <1>2, <1>3, <1>4, LevelFacts, HeldFacts

(* A child that can spare a key is of the right size without it.              *)
LEMMA Spared ==
    ASSUME NEW c, Fit(c), Lends(c), NEW val, NEW r, NEW V, Shrunk(val, c, r, V)
    PROVE  Fit(r.node)
<1> DEFINE x == Len(c.keys)
           y == Len(r.node.keys)
<1>1. x \in MinKeys .. MaxKeys /\ x > MinKeys /\ y \in {x - 1, x}
  BY DEF Fit, Shrunk, Lends
<1>2. MinKeys \in Nat /\ MaxKeys \in Nat
  BY OrderArithmetic
<1> HIDE DEF x, y
<1>3. y \in MinKeys .. MaxKeys
  BY <1>1, <1>2
<1> QED
  BY <1>3 DEF y, Fit

(* What a deletion must make of a subtree among U.                            *)
Deletes(U, V, val, c, r) == r.node \in U /\ Shrunk(val, c, r, V)

(* The key that was found gives way to the one before it, ...                 *)
LEMMA DeleteBefore ==
    ASSUME NEW leaf, NEW T, NEW V, NEW top, NEW U, NEW W, NEW n, Row(leaf, T, V, top, U, W, n),
           Filled(n), NEW at \in 1 .. Len(n.keys), Lends(n.kids[at]),
           NEW k, LastIn(Held(n.kids[at], V), k), NEW r, Deletes(U, V, k, n.kids[at], r),
           NEW d, d.found, d.node = FromBefore(n, at, k, r.node)
    PROVE  Deletes(Trees(top, U, W), W, n.keys[at], n, d)
<1>1. /\ at \in 1 .. Len(n.kids) /\ at + 1 \in 1 .. Len(n.kids) /\ at \in Nat
      /\ n.kids[at] \in U /\ n.kids[at + 1] \in U
      /\ W[n.kids[at]] = Held(n.kids[at], V)
      /\ n.keys[at] \in Held(n, W)
  BY PairPlaces
<1>2. /\ FilledBut(n, at) /\ FilledButPair(n, at)
      /\ Fit(n.kids[at]) /\ Fit(n.kids[at + 1])
  BY <1>1, FilledAll
<1> PICK c, b, m : c = r.node /\ b = n.kids[at + 1] /\ m = d.node
  OBVIOUS
<1>3. c \in U /\ W[c] = Held(c, V) /\ Fit(c)
  <2>1. Shrunk(k, n.kids[at], r, V) /\ c \in U
    BY DEF Deletes
  <2>2. Fit(c)
    BY <1>2, <2>1, Spared
  <2>3. Level(leaf, T, V, U, W)
    BY RowFacts
  <2> QED
    BY <2>1, <2>2, <2>3, LevelFacts
<1>4. LastIn(W[n.kids[at]], k) /\ Lessened(n, W, at, c, k)
  BY <1>1, <1>3 DEF Lessened, Deletes, Shrunk
<1>5. m \in Nodes(top, U) /\ Ordered(m, W) /\ Replaced(n, W, at, c, k, b, m)
  BY <1>3, <1>4, ReplaceBefore
<1>6. Filled(m)
  <2>1. TwoChanged(n.kids, at, c, b, m.kids) /\ Fit(c) /\ Fit(b) /\ at \in Nat
    BY <1>1, <1>2, <1>3, <1>5 DEF Replaced
  <2> QED
    BY <1>2, <2>1, FilledByLoan
<1>7. m \in Trees(top, U, W)
  BY <1>5, <1>6, TreeFacts
<1> QED
  BY <1>1, <1>5, <1>7 DEF Deletes, Shrunk, Replaced

(* ... or to the one behind it, ...                                           *)
LEMMA DeleteBehind ==
    ASSUME NEW leaf, NEW T, NEW V, NEW top, NEW U, NEW W, NEW n, Row(leaf, T, V, top, U, W, n),
           Filled(n), NEW at \in 1 .. Len(n.keys), Lends(n.kids[at + 1]),
           NEW k, FirstIn(Held(n.kids[at + 1], V), k), NEW r, Deletes(U, V, k, n.kids[at + 1], r),
           NEW d, d.found, d.node = FromBehind(n, at, k, r.node)
    PROVE  Deletes(Trees(top, U, W), W, n.keys[at], n, d)
<1>1. /\ at \in 1 .. Len(n.kids) /\ at + 1 \in 1 .. Len(n.kids) /\ at \in Nat
      /\ n.kids[at] \in U /\ n.kids[at + 1] \in U
      /\ W[n.kids[at + 1]] = Held(n.kids[at + 1], V)
      /\ n.keys[at] \in Held(n, W)
  BY PairPlaces
<1>2. /\ FilledBut(n, at) /\ FilledButPair(n, at)
      /\ Fit(n.kids[at]) /\ Fit(n.kids[at + 1])
  BY <1>1, FilledAll
<1> PICK c, a, m : c = r.node /\ a = n.kids[at] /\ m = d.node
  OBVIOUS
<1>3. c \in U /\ W[c] = Held(c, V) /\ Fit(c)
  <2>1. Shrunk(k, n.kids[at + 1], r, V) /\ c \in U
    BY DEF Deletes
  <2>2. Fit(c)
    BY <1>2, <2>1, Spared
  <2>3. Level(leaf, T, V, U, W)
    BY RowFacts
  <2> QED
    BY <2>1, <2>2, <2>3, LevelFacts
<1>4. FirstIn(W[n.kids[at + 1]], k) /\ W[c] = W[n.kids[at + 1]] \ {k}
  BY <1>1, <1>3 DEF Deletes, Shrunk
<1>5. m \in Nodes(top, U) /\ Ordered(m, W) /\ Replaced(n, W, at, a, k, c, m)
  BY <1>3, <1>4, ReplaceBehind
<1>6. Filled(m)
  <2>1. TwoChanged(n.kids, at, a, c, m.kids) /\ Fit(a) /\ Fit(c) /\ at \in Nat
    BY <1>1, <1>2, <1>3, <1>5 DEF Replaced
  <2> QED
    BY <1>2, <2>1, FilledByLoan
<1>7. m \in Trees(top, U, W)
  BY <1>5, <1>6, TreeFacts
<1> QED
  BY <1>1, <1>5, <1>7 DEF Deletes, Shrunk, Replaced

(* Copying up to the end of an array copies all of it.                        *)
LEMMA UpToAll ==
    ASSUME NEW S, NEW s \in Seq(S), NEW x \in Nat, Len(s) <= x
    PROVE  UpTo(s, x) = s
<1> DEFINE y == Len(s)
<1>1. y \in Nat /\ y <= x
  BY LenProperties
<1> HIDE DEF y
<1>2. (IF x < y THEN x ELSE y) = y
  BY <1>1
<1>3. UpTo(s, x) = SubSeq(s, 1, y)
  BY <1>2 DEF UpTo, y
<1>4. SubSeq(s, 1, Len(s)) = s
  OBVIOUS
<1> QED
  BY <1>3, <1>4 DEF y

(* inorderMerge is mergeNode as long as its loops close the gap.              *)
LEMMA WholeMerge ==
    ASSUME NEW leaf, NEW T, NEW V, NEW top, NEW U, NEW W, NEW n, Row(leaf, T, V, top, U, W, n),
           NEW at \in 1 .. Len(n.keys), MergeLoss(n, at) = 1
    PROVE  inorderMerge(n, at) = mergeNode(n, at)
<1> PICK m : m = mergeNode(n, at)
  OBVIOUS
<1>1. m \in Nodes(top, U) /\ Len(m.keys) = Len(n.keys) - 1
  BY JoinStep
<1>2. n \in Nodes(top, U) /\ Inside(top) /\ Len(n.keys) \in Nat /\ Len(n.keys) >= 1
  BY RowFacts
<1>3. /\ m.keys \in Seq(Int) /\ m.kids \in Seq(U) /\ Len(m.kids) = Len(m.keys) + 1
      /\ m = Node(m.leaf, m.keys, m.kids)
  BY <1>1, <1>2, NodeFacts, InnerKids
<1> PICK x : x = Len(n.keys) - 1
  OBVIOUS
<1>4. x \in Nat /\ x + 1 \in Nat /\ Len(m.keys) <= x /\ Len(m.kids) <= x + 1
  BY <1>1, <1>2, <1>3
<1>5. UpTo(m.keys, x) = m.keys /\ UpTo(m.kids, x + 1) = m.kids
  BY <1>3, <1>4, UpToAll
<1>6. inorderMerge(n, at) = [n EXCEPT !.keys = m.keys, !.kids = m.kids]
  BY <1>5 DEF inorderMerge
<1>7. n = Node(n.leaf, n.keys, n.kids) /\ m.leaf = n.leaf
  BY <1>1, <1>2, NodeFacts
<1>8. PICK o : o = [n EXCEPT !.keys = m.keys, !.kids = m.kids]
  OBVIOUS
<1>9. o = Node(n.leaf, m.keys, m.kids)
  BY <1>7, <1>8 DEF Node
<1> QED
  BY <1>3, <1>6, <1>7, <1>8, <1>9

(* A row of filled trees, two of which became one.                            *)
LEMMA FilledAround ==
    ASSUME NEW n, NEW at \in 1 .. Len(n.kids) - 1, Len(n.kids) \in Nat,
           Filled(n), NEW m, NEW c, OneForTwo(n.kids, at, c, m.kids)
    PROVE  FilledBut(m, at)
<1>1. ASSUME NEW i \in 1 .. Len(m.kids), i # at PROVE Fit(m.kids[i])
  <2>0. Len(m.kids) = Len(n.kids) - 1
    BY DEF OneForTwo
  <2>2. CASE i < at
    <3>1. i \in 1 .. at - 1 /\ i \in 1 .. Len(n.kids)
      BY <2>0, <2>2
    <3>2. m.kids[i] = n.kids[i]
      BY <3>1 DEF OneForTwo
    <3> QED
      BY <3>1, <3>2 DEF Filled
  <2>3. CASE i > at
    <3> DEFINE e == i + 1
    <3>1. i \in at + 1 .. Len(n.kids) - 1 /\ e \in 1 .. Len(n.kids)
      BY <2>0, <2>3
    <3>2. m.kids[i] = n.kids[e]
      BY <3>1 DEF OneForTwo
    <3> HIDE DEF e
    <3> QED
      BY <3>1, <3>2 DEF Filled
  <2> QED
    BY <1>1, <2>2, <2>3
<1> QED
  BY <1>1 DEF FilledBut

(* Neither neighbour of a separator can spare a key.                          *)
BothLow(n, at) == Len(n.kids[at].keys) = MinKeys /\ Len(n.kids[at + 1].keys) = MinKeys

(* The child the merge makes of them, and a node that became a child less a   *)
(* key at most: it is of the right size unless that is too many.              *)
LEMMA MergedSize ==
    ASSUME NEW n, NEW at, BothLow(n, at), NEW j, AsLong(j, n.kids[at], n.kids[at + 1]),
           NEW val, NEW r, NEW V, Shrunk(val, j, r, V)
    PROVE  Len(j.keys) >= 1 /\ (Len(r.node.keys) <= MaxKeys => Fit(r.node))
<1> DEFINE x == Len(n.kids[at].keys)
           y == Len(n.kids[at + 1].keys)
           z == Len(j.keys)
           u == Len(r.node.keys)
           M == MinKeys
           N == MaxKeys
<1>1. z = x + 1 + y
  BY DEF AsLong
<1>2. x = M /\ y = M
  BY DEF BothLow
<1>3. u \in {z - 1, z}
  BY DEF Shrunk
<1>4. M \in Nat /\ N \in Nat
  BY OrderArithmetic
<1> HIDE DEF x, y, z, u, M, N
<1>5. z >= 1 /\ (u <= N => u \in M .. N)
  BY <1>1, <1>2, <1>3, <1>4
<1> QED
  BY <1>5 DEF z, u, M, N, Fit

(* ... or goes down into the merged child, from which it is deleted.          *)
LEMMA DeleteMerged ==
    ASSUME NEW leaf, NEW T, NEW V, NEW top, NEW U, NEW W, NEW n, Row(leaf, T, V, top, U, W, n),
           Filled(n), NEW at \in 1 .. Len(n.keys), BothLow(n, at),
           NEW r, Deletes(U, V, n.keys[at], JoinedKids(n, at), r), Len(r.node.keys) <= MaxKeys,
           NEW d, d.found, d.node = WithKid(mergeNode(n, at), at, r.node)
    PROVE  Deletes(Trees(top, U, W), W, n.keys[at], n, d)
<1> PICK j, c, m, val, o :
       j = JoinedKids(n, at) /\ c = r.node /\ m = mergeNode(n, at) /\ val = n.keys[at] /\ o = d.node
  OBVIOUS
<1>1. j \in U /\ Siblings(n, at, V, W, j) /\ AsLong(j, n.kids[at], n.kids[at + 1])
  BY SiblingsRead
<1>2. Row(leaf, T, V, top, U, W, n) /\ Inside(top) /\ Level(leaf, T, V, U, W)
  BY RowFacts
<1>3. /\ m \in Nodes(top, U) /\ Ordered(m, W) /\ Held(m, W) = Held(n, W)
      /\ Len(m.keys) = Len(n.keys) - 1
      /\ OneForTwo(n.kids, at, j, m.kids)
  BY JoinStep
<1>4. Row(leaf, T, V, top, U, W, m)
  BY <1>2, <1>3 DEF Row
<1>5. at \in 1 .. Len(n.kids) - 1 /\ Len(n.kids) \in Nat /\ val \in Held(n, W)
  BY PairPlaces
<1>6. m.kids[at] = j /\ at \in 1 .. Len(m.kids)
  BY <1>3, <1>5 DEF OneForTwo
<1>7. c \in U /\ Shrunk(val, j, r, V) /\ W[c] = Held(c, V) /\ W[j] = Held(j, V)
  BY <1>1, <1>2, LevelFacts DEF Deletes
<1>8. Fit(c)
  BY <1>1, <1>7, MergedSize
<1>9. val \in W[j]
  BY <1>1, <1>7 DEF Siblings, PairHolds
<1>10. Lessened(m, W, at, c, val)
  BY <1>6, <1>7 DEF Lessened, Shrunk
<1>11. FilledBut(m, at)
  BY <1>3, <1>5, FilledAround
<1>12. o = WithKid(m, at, c) /\ val \in W[m.kids[at]]
  BY <1>6, <1>9
<1>13. /\ Row(leaf, T, V, top, U, W, o) /\ o.keys = m.keys /\ o.kids[at] = c
       /\ Len(o.kids) = Len(m.kids) /\ FilledBut(o, at)
       /\ Held(o, W) = Held(m, W) \ {val}
  BY <1>4, <1>6, <1>7, <1>10, <1>11, <1>12, KidShrunk
<1>14. Filled(o)
  BY <1>8, <1>13 DEF Filled, FilledBut
<1>15. o \in Trees(top, U, W)
  BY <1>13, <1>14, RowFacts, TreeFacts
<1> QED
  BY <1>3, <1>5, <1>13, <1>15 DEF Deletes, Shrunk

(* A leaf holds its own keys: the last of them, and the first.                *)
LEMMA EndsOfLeaf ==
    ASSUME NEW leaf, Bottom(leaf), NEW T, NEW V, NEW n \in Trees(leaf, T, V), Len(n.keys) >= 1, NEW x
    PROVE  /\ LastIn(Held(n, V), PredecessorStep(n, x))
           /\ FirstIn(Held(n, V), findSuccessor(n, x))
<1>1. n \in Nodes(leaf, T) /\ Ordered(n, V)
  BY TreeFacts
<1>2. /\ n.leaf /\ Len(n.keys) \in Nat /\ Len(n.kids) = 0 /\ n.keys \in Seq(Int)
      /\ \A i \in 1 .. Len(n.keys) : n.keys[i] \in Int
      /\ \A i, j \in 1 .. Len(n.keys) : i < j => n.keys[i] < n.keys[j]
  BY <1>1, LeafMark, LeafAlone, NodeFacts, OrderFacts
<1> PICK y, s : y = Len(n.keys) /\ s = n.keys
  OBVIOUS
<1>3. Held(n, V) = {s[i] : i \in 1 .. y}
  <2>1. Beneath(n, V) = {}
    BY <1>2 DEF Beneath
  <2> QED
    BY <2>1 DEF Held, Own
<1>4. 1 \in 1 .. y /\ y \in 1 .. y
  BY <1>2
<1>5. \A i \in 1 .. y : s[1] <= s[i] /\ s[i] <= s[y]
  <2>1. ASSUME NEW i \in 1 .. y PROVE s[1] <= s[i] /\ s[i] <= s[y]
    <3>1. (i = 1 \/ 1 < i) /\ (i = y \/ i < y)
      BY <1>2
    <3>2. s[1] \in Int /\ s[i] \in Int /\ s[y] \in Int
      BY <1>2, <1>4
    <3>3. (1 < i => s[1] < s[i]) /\ (i < y => s[i] < s[y])
      BY <1>2, <1>4
    <3> PICK a, b, c : a = s[1] /\ b = s[i] /\ c = s[y]
      OBVIOUS
    <3>4. a <= b /\ b <= c
      BY <3>1, <3>2, <3>3
    <3> QED
      BY <3>4
  <2> QED
    BY <2>1
<1>6. PredecessorStep(n, x) = s[y] /\ findSuccessor(n, x) = s[1]
  <2>1. Last(s) = s[Len(s)] /\ Head(s) = s[1]
    BY <1>2 DEF Last
  <2> QED
    BY <1>2, <2>1 DEF PredecessorStep, findSuccessor
<1> QED
  BY <1>3, <1>4, <1>5, <1>6 DEF LastIn, FirstIn

(* What lies beneath its last child lies behind everything else in a row.     *)
LEMMA EndOfRow ==
    ASSUME NEW leaf, NEW T, NEW V, NEW top, NEW U, NEW W, NEW n, Row(leaf, T, V, top, U, W, n),
           NEW c, c = Last(n.kids), NEW k, LastIn(W[c], k)
    PROVE  /\ c \in U /\ c = n.kids[Len(n.kids)]
           /\ LastIn(Held(n, W), PredecessorStep(n, k))
<1>1. /\ Inside(top) /\ n \in Nodes(top, U) /\ Ordered(n, W)
      /\ Len(n.keys) \in Nat /\ Len(n.kids) = Len(n.keys) + 1 /\ n.kids \in Seq(U)
      /\ \A i \in 1 .. Len(n.kids) : n.kids[i] \in U
  BY RowFacts
<1> PICK x, y : x = Len(n.keys) /\ y = Len(n.kids)
  OBVIOUS
<1>2. y \in 1 .. y /\ y = x + 1 /\ x \in Nat
  BY <1>1
<1>3. c = n.kids[y] /\ c \in U
  <2>1. c = n.kids[y]
    BY <1>1 DEF Last
  <2> QED
    BY <1>1, <1>2, <2>1
<1>4. k \in W[c] /\ \A e \in W[c] : e <= k
  BY DEF LastIn
<1>5. /\ k \in Int
      /\ \A i \in 1 .. x : n.keys[i] < k
  <2>1. \A j \in 1 .. y - 1 : n.keys[j] < k
    BY <1>1, <1>2, <1>3, <1>4, OrderFacts
  <2>2. k \in Int
    BY <1>1, <1>2, <1>3, <1>4, OrderFacts
  <2>3. y - 1 = x
    BY <1>2
  <2> QED
    BY <2>1, <2>2, <2>3
<1>6. ASSUME NEW e \in Held(n, W) PROVE e <= k
  <2>1. CASE e \in Own(n)
    <3>1. PICK i \in 1 .. x : e = n.keys[i]
      BY <2>1 DEF Own
    <3>2. n.keys[i] \in Int
      BY <1>1, RowFacts
    <3> QED
      BY <1>5, <3>1, <3>2
  <2>2. CASE e \in Beneath(n, W)
    <3>1. PICK i \in 1 .. y : e \in W[n.kids[i]]
      BY <2>2 DEF Beneath
    <3>2. CASE i = y
      BY <1>3, <1>4, <3>1, <3>2
    <3>3. CASE i # y
      <4>1. i \in i .. x /\ i \in 1 .. x
        BY <1>2, <3>3
      <4>2. e \in Int /\ e < n.keys[i]
        BY <1>1, <3>1, <4>1, OrderFacts
      <4>3. n.keys[i] \in Int /\ n.keys[i] < k
        BY <1>1, <1>5, <4>1, RowFacts
      <4> PICK z : z = n.keys[i]
        OBVIOUS
      <4>4. e < z /\ z < k /\ e \in Int /\ z \in Int
        BY <4>2, <4>3
      <4> QED
        BY <1>5, <4>4
    <3> QED
      BY <3>2, <3>3
  <2> QED
    BY <2>1, <2>2 DEF Held
<1>7. k \in Held(n, W)
  BY <1>1, <1>2, <1>3, <1>4, HeldFacts
<1>8. ~n.leaf
  BY <1>1, LeafMark
<1>9. PredecessorStep(n, k) = k
  BY <1>8 DEF PredecessorStep
<1> QED
  BY <1>3, <1>6, <1>7, <1>9 DEF LastIn

(* Of two children of the right size neither of which can be asked for a key  *)
(* both have the fewest there are.                                            *)
LEMMA NoneToSpare ==
    ASSUME NEW l, NEW r, Fit(l), Fit(r),
           ~(Len(l.keys) >= Len(r.keys) /\ Lends(l)), ~(Len(l.keys) < Len(r.keys) /\ Lends(r))
    PROVE  Len(l.keys) = MinKeys /\ Len(r.keys) = MinKeys
<1> DEFINE x == Len(l.keys)
           y == Len(r.keys)
<1>1. x \in MinKeys .. MaxKeys /\ y \in MinKeys .. MaxKeys
  BY DEF Fit
<1>2. ~(x >= y /\ x > MinKeys) /\ ~(x < y /\ y > MinKeys)
  BY DEF Lends
<1>3. MinKeys \in Nat /\ MaxKeys \in Nat
  BY OrderArithmetic
<1> HIDE DEF x, y
<1>4. x = MinKeys /\ y = MinKeys
  BY <1>1, <1>2, <1>3
<1> QED
  BY <1>4 DEF x, y

(* What the deeper calls of deleteInnerTree return, when they ran into no     *)
(* fault.                                                                     *)
Answers(U, V, n, at, pred, succ, fromLeft, fromRight, fromMerged) ==
    /\ LastIn(Held(n.kids[at], V), pred)
    /\ fromLeft.faults = {} => Deletes(U, V, pred, n.kids[at], fromLeft)
    /\ n.kids[at + 1].leaf =>
          /\ FirstIn(Held(n.kids[at + 1], V), succ)
          /\ fromRight.faults = {} => Deletes(U, V, succ, n.kids[at + 1], fromRight)
    /\ MergeLoss(n, at) = 1 /\ fromMerged.faults = {}
          => Deletes(U, V, n.keys[at], JoinedKids(n, at), fromMerged)

(* What deleteInnerTree makes of them.                                        *)
Answered(U, V, n, at, d) ==
    \E pred, succ, fromLeft, fromRight, fromMerged :
        /\ Answers(U, V, n, at, pred, succ, fromLeft, fromRight, fromMerged)
        /\ d = InnerStep(n, at, pred, succ, fromLeft, fromRight, fromMerged)

(* deleteInnerTree answers with what its three cases answer.                  *)
LEMMA AnsweredBy ==
    ASSUME NEW U, NEW V, NEW n, NEW at, NEW d, NEW pred, NEW succ, NEW x, NEW y, NEW z,
           Answers(U, V, n, at, pred, succ, x, y, z), d = InnerStep(n, at, pred, succ, x, y, z)
    PROVE  Answered(U, V, n, at, d)
BY DEF Answered

(* deleteInnerTree.                                                           *)
LEMMA DeleteFound ==
    ASSUME NEW leaf, NEW T, NEW V, NEW top, NEW U, NEW W, NEW n, Row(leaf, T, V, top, U, W, n),
           Filled(n), NEW at \in 1 .. Len(n.keys),
           NEW d, Answered(U, V, n, at, d), d.faults = {}
    PROVE  Deletes(Trees(top, U, W), W, n.keys[at], n, d)
<1>0. PICK pred, succ, fromLeft, fromRight, fromMerged :
         /\ Answers(U, V, n, at, pred, succ, fromLeft, fromRight, fromMerged)
         /\ d = InnerStep(n, at, pred, succ, fromLeft, fromRight, fromMerged)
  BY DEF Answered
<1> PICK l, r : l = n.kids[at] /\ r = n.kids[at + 1]
  OBVIOUS
<1>1. Fit(l) /\ Fit(r)
  BY PairPlaces, FilledAll
<1>2. CASE Len(l.keys) >= Len(r.keys) /\ Lends(l)
  <2>1. d = PutBack([n EXCEPT !.keys[at] = pred], at, fromLeft, {})
    BY <1>0, <1>2 DEF InnerStep
  <2>2. d.found /\ d.node = FromBefore(n, at, pred, fromLeft.node) /\ fromLeft.faults = {}
    BY <2>1 DEF PutBack, Deletion, FromBefore
  <2>3. LastIn(Held(n.kids[at], V), pred) /\ Deletes(U, V, pred, n.kids[at], fromLeft)
    BY <1>0, <2>2 DEF Answers
  <2>4. Lends(n.kids[at])
    BY <1>2
  <2> QED
    BY <2>2, <2>3, <2>4, DeleteBefore
<1>3. CASE ~(Len(l.keys) >= Len(r.keys) /\ Lends(l)) /\ Len(l.keys) < Len(r.keys) /\ Lends(r)
  <2>1. d = PutBack([n EXCEPT !.keys[at] = succ], at + 1, fromRight,
                    IF r.leaf THEN {} ELSE {"return"})
    BY <1>0, <1>3 DEF InnerStep
  <2>2. d.found /\ d.node = FromBehind(n, at, succ, fromRight.node)
    BY <2>1 DEF PutBack, Deletion, FromBehind
  <2>3. fromRight.faults = {} /\ r.leaf
    <3>1. d.faults = fromRight.faults \cup (IF r.leaf THEN {} ELSE {"return"})
      BY <2>1 DEF PutBack, Deletion
    <3> QED
      BY <3>1
  <2>4. FirstIn(Held(n.kids[at + 1], V), succ) /\ Deletes(U, V, succ, n.kids[at + 1], fromRight)
    BY <1>0, <2>3 DEF Answers
  <2>5. Lends(n.kids[at + 1])
    BY <1>3
  <2> QED
    BY <2>2, <2>4, <2>5, DeleteBehind
<1>4. CASE /\ ~(Len(l.keys) >= Len(r.keys) /\ Lends(l))
           /\ ~(Len(l.keys) < Len(r.keys) /\ Lends(r))
  <2> PICK loss, q : loss = MergeLoss(n, at) /\ q = inorderMerge(n, at)
    OBVIOUS
  <2>1. d = MergedBack(q, at, fromMerged, loss)
    BY <1>0, <1>4 DEF InnerStep
  <2>2. d.found /\ d.node = WithKid(q, at, fromMerged.node)
    BY <2>1 DEF MergedBack, PutBack, Deletion, WithKid
  <2>3. fromMerged.faults = {} /\ loss = 1 /\ Len(fromMerged.node.keys) <= MaxKeys
    <3>1. d.faults = fromMerged.faults \cup ((IF loss = 1 THEN {} ELSE {"merge"})
                              \cup (IF Len(fromMerged.node.keys) <= MaxKeys THEN {} ELSE {"full"}))
      BY <2>1 DEF MergedBack, PutBack, Deletion
    <3> QED
      BY <3>1
  <2>4. Deletes(U, V, n.keys[at], JoinedKids(n, at), fromMerged)
    BY <1>0, <2>3 DEF Answers
  <2>5. d.node = WithKid(mergeNode(n, at), at, fromMerged.node)
    BY <2>2, <2>3, WholeMerge, ZenonT(30)
  <2>6. BothLow(n, at)
    BY <1>1, <1>4, NoneToSpare DEF BothLow
  <2> QED
    BY <2>2, <2>3, <2>4, <2>5, <2>6, DeleteMerged
<1> QED
  BY <1>2, <1>3, <1>4

(* deleteValFromNode at an inner node.                                        *)
LEMMA DeleteInside ==
    ASSUME NEW leaf, NEW T, NEW V, NEW top, NEW U, NEW W,
           NEW n, Row(leaf, T, V, top, U, W, n), Filled(n), Len(n.keys) >= 1,
           NEW val \in Int, NEW inner, NEW below,
           HasAt(n, val, Position(n, val)) /\ inner.faults = {}
              => Deletes(Trees(top, U, W), W, val, n, inner),
           ~HasAt(n, val, Position(n, val)) /\ below.faults = {}
              => Deletes(U, V, val, n.kids[Position(n, val)], below),
           NEW d, d = DeleteStep(val, n, inner, below), d.faults = {}
    PROVE  Deletes(Trees(top, U, W), W, val, n, d)
<1> PICK p : p = Position(n, val)
  OBVIOUS
<1>1. n \in Nodes(top, U) /\ Inside(top)
  BY RowFacts
<1>2. StopsAt(n, val, p) /\ ~n.leaf
  BY <1>1, PositionFound, LeafMark
<1>3. CASE HasAt(n, val, p)
  <2>1. d = inner
    BY <1>2, <1>3 DEF DeleteStep
  <2> QED
    BY <1>3, <2>1
<1>4. CASE ~HasAt(n, val, p)
  <2>1. d = Adjusted(n, p, below)
    BY <1>2, <1>4 DEF DeleteStep
  <2>2. below.faults = {}
    BY <2>1 DEF Adjusted, Mended, Deletion
  <2>3. Deletes(U, V, val, n.kids[p], below)
    BY <1>4, <2>2
  <2>4. below.node \in U /\ Shrunk(val, n.kids[p], below, V)
    BY <2>3 DEF Deletes
  <2>5. d.node \in Trees(top, U, W) /\ Shrunk(val, n, d, W)
    BY <1>2, <1>4, <2>1, <2>4, DeleteBelow
  <2> QED
    BY <2>5 DEF Deletes
<1> QED
  BY <1>3, <1>4

-----------------------------------------------------------------------------
(* Floors                                                                     *)

(* The trees that stand on those of b, and what they hold.                    *)
Floor(leaf, b) ==
    [trees |-> Trees(leaf, b.trees, b.held), held |-> Holding(leaf, b.trees, b.held)]

(* Beneath the leaves there is nothing.                                       *)
Bare == [trees |-> {}, held |-> << >>]

(* The trees of every height.                                                 *)
Floors[h \in Nat] == IF h = 0 THEN Floor(TRUE, Bare) ELSE Floor(FALSE, Floors[h - 1])

-----------------------------------------------------------------------------
(* Floors, and Levels of module BTree, are functions that obey their          *)
(* recursion.                                                                 *)

(* One step of the recursion, over x.                                         *)
FloorStep(h, x) == IF h = 0 THEN Floor(TRUE, Bare) ELSE Floor(FALSE, x)
LevelStep(h, x) == Over(IF h = 0 THEN Nothing ELSE x)
Step(floors, h, x) == IF floors THEN FloorStep(h, x) ELSE LevelStep(h, x)

(* g is the part of such a function up to k.                                  *)
Rising(floors, g, k) == g = [h \in 0 .. k |-> Step(floors, h, g[h - 1])]

(* The first value rests on none.                                             *)
LEMMA FirstStep ==
    ASSUME NEW floors \in BOOLEAN, NEW x, NEW y
    PROVE  Step(floors, 0, x) = Step(floors, 0, y)
BY DEF Step, FloorStep, LevelStep

(* Each value of g rests on the one before.                                   *)
LEMMA RisingFacts ==
    ASSUME NEW floors \in BOOLEAN, NEW k \in Nat, NEW g, Rising(floors, g, k)
    PROVE  \A h \in 0 .. k : g[h] = Step(floors, h, g[h - 1])
BY DEF Rising

(* Two such parts agree where both are defined: at the least place where they *)
(* differed, the one before would differ too.                                 *)
LEMMA RisingAgree ==
    ASSUME NEW floors \in BOOLEAN, NEW k \in Nat, NEW j \in Nat, k <= j,
           NEW g, Rising(floors, g, k), NEW f, Rising(floors, f, j)
    PROVE  g[k] = f[k]
<1> DEFINE S == {i \in 0 .. k : g[i] # f[i]}
<1>1. ASSUME S # {} PROVE FALSE
  <2>1. S \subseteq Nat
    OBVIOUS
  <2>2. PICK i \in S : \A e \in S : i <= e
    BY <1>1, <2>1, LeastNumber
  <2>3. i \in 0 .. k /\ i \in 0 .. j
    BY <2>2
  <2>4. g[i] = Step(floors, i, g[i - 1]) /\ f[i] = Step(floors, i, f[i - 1])
    BY <2>3, RisingFacts
  <2>5. CASE i = 0
    <3>1. Step(floors, 0, g[i - 1]) = Step(floors, 0, f[i - 1])
      BY FirstStep
    <3> QED
      BY <2>2, <2>4, <2>5, <3>1
  <2>6. CASE i # 0
    <3>1. i - 1 \in 0 .. k /\ ~(i <= i - 1)
      BY <2>3, <2>6
    <3>2. g[i - 1] = f[i - 1]
      BY <2>2, <3>1
    <3> QED
      BY <2>2, <2>4, <3>2
  <2> QED
    BY <2>5, <2>6
<1> QED
  BY <1>1

(* There is a part of any length: the least length without one would have     *)
(* one.                                                                       *)
LEMMA RisingExists ==
    ASSUME NEW floors \in BOOLEAN, NEW k \in Nat
    PROVE  \E g : Rising(floors, g, k)
<1> DEFINE S == {i \in Nat : ~\E g : Rising(floors, g, i)}
<1>1. ASSUME S # {} PROVE FALSE
  <2>1. S \subseteq Nat
    OBVIOUS
  <2>2. PICK i \in S : \A e \in S : i <= e
    BY <1>1, <2>1, LeastNumber
  <2>3. PICK f : \A h \in 0 .. i - 1 : f[h] = Step(floors, h, f[h - 1])
    <3>1. CASE i = 0
      <4>1. 0 .. i - 1 = {}
        BY <3>1
      <4> QED
        BY <4>1
    <3>2. CASE i # 0
      <4>1. i - 1 \in Nat /\ ~(i <= i - 1)
        BY <2>2, <3>2
      <4>2. PICK f : Rising(floors, f, i - 1)
        BY <2>2, <4>1
      <4>3. \A h \in 0 .. i - 1 : f[h] = Step(floors, h, f[h - 1])
        BY <4>1, <4>2, RisingFacts
      <4> QED
        BY <4>3
    <3> QED
      BY <3>1, <3>2
  <2> DEFINE g == [h \in 0 .. i |-> Step(floors, h, f[h - 1])]
  <2>4. ASSUME NEW h \in 0 .. i PROVE Step(floors, h, f[h - 1]) = Step(floors, h, g[h - 1])
    <3>1. CASE h = 0
      BY <3>1, FirstStep
    <3>2. CASE h # 0
      <4>1. h - 1 \in 0 .. i - 1 /\ h - 1 \in 0 .. i
        BY <2>2, <3>2
      <4>2. g[h - 1] = Step(floors, h - 1, f[(h - 1) - 1])
        BY <4>1
      <4>3. g[h - 1] = f[h - 1]
        BY <2>3, <4>1, <4>2
      <4> HIDE DEF g
      <4> QED
        BY <4>3
    <3> QED
      BY <3>1, <3>2
  <2>5. g = [h \in 0 .. i |-> Step(floors, h, g[h - 1])]
    BY <2>4
  <2>6. Rising(floors, g, i)
    BY <2>5 DEF Rising
  <2> QED
    BY <2>2, <2>6
<1> QED
  BY <1>1

(* So there is a function on all numbers that obeys the recursion.            *)
LEMMA StepsExist ==
    ASSUME NEW floors \in BOOLEAN
    PROVE  \E f : f = [h \in Nat |-> Step(floors, h, f[h - 1])]
<1> DEFINE to(h) == CHOOSE g : Rising(floors, g, h)
           f == [h \in Nat |-> to(h)[h]]
<1>1. \A h \in Nat : Rising(floors, to(h), h)
  BY RisingExists
<1> HIDE DEF to
<1>2. ASSUME NEW h \in Nat PROVE to(h)[h] = Step(floors, h, f[h - 1])
  <2>1. to(h)[h] = Step(floors, h, to(h)[h - 1])
    BY <1>1, RisingFacts
  <2>2. CASE h = 0
    BY <2>1, <2>2, FirstStep
  <2>3. CASE h # 0
    <3>1. h - 1 \in Nat /\ h - 1 <= h
      BY <2>3
    <3> DEFINE g == to(h - 1)
               q == to(h)
    <3>2. Rising(floors, g, h - 1) /\ Rising(floors, q, h)
      BY <1>1, <3>1
    <3>3. g[h - 1] = q[h - 1]
      <4> HIDE DEF g, q
      <4> QED
        BY <3>1, <3>2, RisingAgree
    <3>4. f[h - 1] = g[h - 1]
      BY <3>1
    <3> QED
      BY <2>1, <3>3, <3>4
  <2> QED
    BY <2>2, <2>3
<1>3. f = [h \in Nat |-> Step(floors, h, f[h - 1])]
  BY <1>2
<1> QED
  BY <1>3

(* Floors obeys its recursion.                                                *)
LEMMA FloorsRise ==
    /\ Floors[0] = Floor(TRUE, Bare)
    /\ \A h \in Nat : Floors[h + 1] = Floor(FALSE, Floors[h])
<1> DEFINE F(p) == [h \in Nat |-> FloorStep(h, p[h - 1])]
<1>1. \E f : f = F(f)
  <2>1. \E f : f = [h \in Nat |-> Step(TRUE, h, f[h - 1])]
    BY StepsExist
  <2>2. \A f : F(f) = [h \in Nat |-> Step(TRUE, h, f[h - 1])]
    BY DEF Step
  <2> HIDE DEF F
  <2> QED
    BY <2>1, <2>2
<1>2. Floors = CHOOSE p : p = F(p)
  BY DEF Floors, FloorStep
<1>3. Floors = F(Floors)
  BY <1>1, <1>2
<1>4. Floors[0] = FloorStep(0, Floors[0 - 1])
  BY <1>3
<1>5. ASSUME NEW h \in Nat PROVE Floors[h + 1] = FloorStep(h + 1, Floors[h]) /\ h + 1 # 0
  <2>1. h + 1 \in Nat /\ h + 1 # 0 /\ (h + 1) - 1 = h
    OBVIOUS
  <2>2. Floors[h + 1] = FloorStep(h + 1, Floors[(h + 1) - 1])
    BY <1>3, <2>1
  <2> QED
    BY <2>1, <2>2
<1> QED
  BY <1>4, <1>5 DEF FloorStep

(* And so does Levels of module BTree.                                        *)
LEMMA LevelsRise ==
    /\ Levels[0] = Over(Nothing)
    /\ \A d \in Nat : Levels[d + 1] = Over(Levels[d])
<1> DEFINE F(p) == [d \in Nat |-> LevelStep(d, p[d - 1])]
<1>1. \E f : f = F(f)
  <2>1. \E f : f = [d \in Nat |-> Step(FALSE, d, f[d - 1])]
    BY StepsExist
  <2>2. \A f : F(f) = [d \in Nat |-> Step(FALSE, d, f[d - 1])]
    BY DEF Step
  <2> HIDE DEF F
  <2> QED
    BY <2>1, <2>2
<1>2. Levels = CHOOSE p : p = F(p)
  BY DEF Levels, LevelStep
<1>3. Levels = F(Levels)
  BY <1>1, <1>2
<1>4. Levels[0] = LevelStep(0, Levels[0 - 1])
  BY <1>3
<1>5. ASSUME NEW d \in Nat PROVE Levels[d + 1] = LevelStep(d + 1, Levels[d]) /\ d + 1 # 0
  <2>1. d + 1 \in Nat /\ d + 1 # 0 /\ (d + 1) - 1 = d
    OBVIOUS
  <2>2. Levels[d + 1] = LevelStep(d + 1, Levels[(d + 1) - 1])
    BY <1>3, <2>1
  <2> QED
    BY <2>1, <2>2
<1> QED
  BY <1>4, <1>5 DEF LevelStep

-----------------------------------------------------------------------------
(* The calls on a floor                                                       *)

(* How a floor is made of the one beneath.                                    *)
Calls(b, f) ==
    /\ \A n \in f.trees : f.findPredecessor[n] = PredecessorCall(b, n)
    /\ \A n \in f.trees, val \in Int :
          /\ f.searchNode[<< n, val >>] = SearchCall(b, n, val)
          /\ f.insertNode[<< n, val >>] = InsertCall(b, n, val)
    /\ \A n \in f.trees, val, junk \in Int :
          f.deleteValFromNode[<< n, val, junk >>] = DeleteCall(b, n, val, junk)

(* T are the trees of the floor b, and V tells what they hold.                *)
Offers(b, T, V) == T = b.trees /\ V = b.held

(* The floor f rests on b, whose trees are T.                                 *)
Rests(leaf, b, f, T, V) == Offers(b, T, V) /\ Calls(b, f) /\ Level(leaf, T, V, f.trees, f.held)

(* The trees of a floor, with the calls on them.                              *)
Tower(floor, calls) ==
    [trees |-> floor.trees, held |-> floor.held,
     searchNode |-> calls.searchNode, insertNode |-> calls.insertNode,
     findPredecessor |-> calls.findPredecessor,
     deleteValFromNode |-> calls.deleteValFromNode]

(* Where the trees are nodes of BTree.c, its calls on them are made of calls  *)
(* on the floor beneath.                                                      *)
LEMMA TowerRests ==
    ASSUME NEW leaf, NEW floor, NEW calls, NEW b, b = Tower(floor, calls),
           NEW f, f = Tower(Floor(leaf, floor), Over(calls)), f.trees \subseteq Over(calls).nodes,
           NEW T, NEW V, Offers(b, T, V)
    PROVE  Rests(leaf, b, f, T, V)
<1> PICK U, S, c : U = Trees(leaf, floor.trees, floor.held) /\ S = Over(calls).nodes /\ c = Over(calls)
  OBVIOUS
<1>1. /\ b.searchNode = calls.searchNode /\ b.insertNode = calls.insertNode
      /\ b.findPredecessor = calls.findPredecessor
      /\ b.deleteValFromNode = calls.deleteValFromNode
      /\ b.trees = floor.trees /\ b.held = floor.held
  BY DEF Tower
<1>2. /\ f.trees = U /\ f.held = Holding(leaf, floor.trees, floor.held)
      /\ f.searchNode = c.searchNode /\ f.insertNode = c.insertNode
      /\ f.findPredecessor = c.findPredecessor
      /\ f.deleteValFromNode = c.deleteValFromNode
  BY DEF Tower, Floor
<1>3. /\ c.searchNode = [x \in S \X Int |-> SearchCall(calls, x[1], x[2])]
      /\ c.insertNode = [x \in S \X Int |-> InsertCall(calls, x[1], x[2])]
      /\ c.findPredecessor = [n \in S |-> PredecessorCall(calls, n)]
      /\ c.deleteValFromNode = [x \in S \X Int \X Int |-> DeleteCall(calls, x[1], x[2], x[3])]
  BY DEF Over
<1>4. /\ \A n, val : SearchCall(calls, n, val) = SearchCall(b, n, val)
      /\ \A n, val : InsertCall(calls, n, val) = InsertCall(b, n, val)
      /\ \A n : PredecessorCall(calls, n) = PredecessorCall(b, n)
      /\ \A n, val, junk : DeleteCall(calls, n, val, junk) = DeleteCall(b, n, val, junk)
  BY <1>1 DEF SearchCall, InsertCall, PredecessorCall, DeleteCall, deleteInnerTree
<1>5. Level(leaf, T, V, f.trees, f.held)
  BY <1>1, <1>2 DEF Level, Offers
<1>6. U \subseteq S
  BY <1>2
<1>7. ASSUME NEW n \in U, NEW val \in Int
      PROVE  /\ f.searchNode[<< n, val >>] = SearchCall(b, n, val)
             /\ f.insertNode[<< n, val >>] = InsertCall(b, n, val)
  <2> PICK x : x = << n, val >>
    OBVIOUS
  <2>1. x \in S \X Int /\ x[1] = n /\ x[2] = val
    BY <1>6
  <2> QED
    BY <1>2, <1>3, <1>4, <2>1
<1>8. ASSUME NEW n \in U, NEW val \in Int, NEW junk \in Int
      PROVE  f.deleteValFromNode[<< n, val, junk >>] = DeleteCall(b, n, val, junk)
  <2> PICK x : x = << n, val, junk >>
    OBVIOUS
  <2>1. x \in S \X Int \X Int /\ x[1] = n /\ x[2] = val /\ x[3] = junk
    BY <1>6
  <2> QED
    BY <1>2, <1>3, <1>4, <2>1
<1>9. \A n \in U : f.findPredecessor[n] = PredecessorCall(b, n)
  BY <1>2, <1>3, <1>4, <1>6
<1>10. Calls(b, f)
  BY <1>2, <1>7, <1>8, <1>9 DEF Calls
<1> QED
  BY <1>5, <1>10 DEF Rests

(* What the calls on the trees of a floor must return.                        *)
PutIn(b, val, n, m) ==
    /\ m \in b.trees /\ b.held[m] = b.held[n] \cup {val}
    /\ Len(m.keys) \in {Len(n.keys), Len(n.keys) + 1}
    /\ val \in Own(n) => m = n

(* d is what is left of n without val: at most one key shorter.               *)
TakenOut(b, val, n, d) ==
    /\ d.node \in b.trees /\ b.held[d.node] = b.held[n] \ {val}
    /\ Len(d.node.keys) \in {Len(n.keys) - 1, Len(n.keys)}
    /\ d.found <=> val \in b.held[n]
    /\ d.found \/ d.node.keys = n.keys

(* searchNode finds exactly what the trees of b hold.                         *)
Searches(b) ==
    \A n \in b.trees, val \in Int : b.searchNode[<< n, val >>] <=> val \in b.held[n]

(* insertNode adds its key and nothing else, on trees that are not overfull.  *)
Inserts(b) ==
    \A n \in b.trees, val \in Int :
        Len(n.keys) <= MaxKeys => PutIn(b, val, n, b.insertNode[<< n, val >>])

(* findPredecessor answers the last key of a tree that is not empty.          *)
Precedes(b) ==
    \A n \in b.trees : Len(n.keys) >= 1 => LastIn(b.held[n], b.findPredecessor[n])

(* deleteValFromNode removes its key and nothing else, where no array is      *)
(* moved wrongly.                                                             *)
Removes(b) ==
    \A n \in b.trees, val, junk \in Int :
        Len(n.keys) >= 1 /\ b.deleteValFromNode[<< n, val, junk >>].faults = {}
            => TakenOut(b, val, n, b.deleteValFromNode[<< n, val, junk >>])

(* What an insertion must make of a subtree among U.                          *)
Grows(U, V, val, c, m) == m \in U /\ Grown(val, c, m, V)

(* They say the same of a floor as Grows and Deletes of its trees.            *)
LEMMA FloorWords ==
    ASSUME NEW leaf, NEW T, NEW V, NEW b, Level(leaf, T, V, b.trees, b.held), NEW n \in b.trees,
           NEW val
    PROVE  /\ \A m : PutIn(b, val, n, m) <=> Grows(b.trees, V, val, n, m)
           /\ \A d : TakenOut(b, val, n, d) <=> Deletes(b.trees, V, val, n, d)
<1>1. \A m \in b.trees : b.held[m] = Held(m, V)
  BY LevelFacts
<1> QED
  BY <1>1 DEF PutIn, TakenOut, Grows, Grown, Deletes, Shrunk

-----------------------------------------------------------------------------
(* The leaves                                                                 *)

(* On the leaves all four are right.                                          *)
LEMMA LeavesRight ==
    ASSUME NEW leaf, Bottom(leaf), NEW b, NEW f, NEW T, NEW V, Rests(leaf, b, f, T, V)
    PROVE  /\ Searches(f) /\ Inserts(f) /\ Precedes(f) /\ Removes(f)
           /\ Level(leaf, T, V, f.trees, f.held)
<1>3. Calls(b, f) /\ Level(leaf, T, V, f.trees, f.held)
  BY DEF Rests
<1>4. f.trees = Trees(leaf, T, V) /\ \A n \in f.trees : f.held[n] = Held(n, V)
  BY <1>3, LevelFacts
<1>5. Searches(f)
  <2>1. ASSUME NEW n \in f.trees, NEW val \in Int PROVE f.searchNode[<< n, val >>] <=> val \in f.held[n]
    <3> PICK x : x = b.searchNode[<< n.kids[Position(n, val)], val >>]
      OBVIOUS
    <3>1. f.searchNode[<< n, val >>] = SearchStep(n, val, x)
      BY <1>3 DEF Calls, SearchCall
    <3>2. n \in Trees(leaf, T, V)
      BY <1>4
    <3> QED
      BY <1>4, <3>1, <3>2, SearchAtLeaf
  <2> QED
    BY <2>1 DEF Searches
<1>6. Inserts(f)
  <2>1. ASSUME NEW n \in f.trees, NEW val \in Int PROVE PutIn(f, val, n, f.insertNode[<< n, val >>])
    <3> PICK x, m : x = b.insertNode[<< n.kids[Position(n, val)], val >>] /\ m = f.insertNode[<< n, val >>]
      OBVIOUS
    <3>1. m = InsertStep(val, n, x)
      BY <1>3 DEF Calls, InsertCall
    <3>2. n \in Trees(leaf, T, V)
      BY <1>4
    <3>3. m \in Trees(leaf, T, V) /\ Grown(val, n, m, V)
      BY <3>1, <3>2, InsertAtLeaf
    <3>4. Grows(f.trees, V, val, n, m)
      BY <1>4, <3>3 DEF Grows
    <3> QED
      BY <1>3, <3>4, FloorWords
  <2> QED
    BY <2>1 DEF Inserts
<1>7. Precedes(f)
  <2>1. ASSUME NEW n \in f.trees, Len(n.keys) >= 1 PROVE LastIn(f.held[n], f.findPredecessor[n])
    <3> PICK x : x = b.findPredecessor[Last(n.kids)]
      OBVIOUS
    <3>1. f.findPredecessor[n] = PredecessorStep(n, x)
      BY <1>3 DEF Calls, PredecessorCall
    <3>2. n \in Trees(leaf, T, V)
      BY <1>4
    <3> QED
      BY <1>4, <2>1, <3>1, <3>2, EndsOfLeaf
  <2> QED
    BY <2>1 DEF Precedes
<1>8. Removes(f)
  <2>1. ASSUME NEW n \in f.trees, NEW val \in Int, NEW junk \in Int
        PROVE  TakenOut(f, val, n, f.deleteValFromNode[<< n, val, junk >>])
    <3> PICK x, y, d : /\ x = deleteInnerTree(b, n, Position(n, val), junk)
                       /\ y = b.deleteValFromNode[<< n.kids[Position(n, val)], val, junk >>]
                       /\ d = f.deleteValFromNode[<< n, val, junk >>]
      OBVIOUS
    <3>1. d = DeleteStep(val, n, x, y)
      BY <1>3 DEF Calls, DeleteCall
    <3>2. n \in Trees(leaf, T, V)
      BY <1>4
    <3>3. d.node \in Trees(leaf, T, V) /\ Shrunk(val, n, d, V)
      BY <3>1, <3>2, DeleteAtLeaf
    <3>4. Deletes(f.trees, V, val, n, d)
      BY <1>4, <3>3 DEF Deletes
    <3> QED
      BY <1>3, <3>4, FloorWords
  <2> QED
    BY <2>1 DEF Removes
<1> QED
  BY <1>3, <1>5, <1>6, <1>7, <1>8

-----------------------------------------------------------------------------
(* A floor upon another                                                       *)

(* The calls return what they must.                                           *)
Right(b) == Searches(b) /\ Inserts(b) /\ Precedes(b) /\ Removes(b)

(* A tree of the upper floor is a row of trees of the lower.                  *)
LEMMA TreeIsRow ==
    ASSUME NEW leaf, NEW T, NEW V, NEW U, NEW W, Level(leaf, T, V, U, W),
           NEW top, Inside(top), NEW n \in Trees(top, U, W)
    PROVE  /\ Row(leaf, T, V, top, U, W, n) /\ Filled(n)
           /\ \A i \in 1 .. Len(n.kids) :
                 /\ n.kids[i] \in U /\ Fit(n.kids[i])
                 /\ Len(n.kids[i].keys) <= MaxKeys /\ Len(n.kids[i].keys) >= 1
<1>1. n \in Nodes(top, U) /\ Ordered(n, W) /\ Filled(n)
  BY TreeFacts
<1>2. Row(leaf, T, V, top, U, W, n)
  BY <1>1 DEF Row
<1>3. ASSUME NEW i \in 1 .. Len(n.kids)
      PROVE  /\ n.kids[i] \in U /\ Fit(n.kids[i])
             /\ Len(n.kids[i].keys) <= MaxKeys /\ Len(n.kids[i].keys) >= 1
  <2>1. n.kids[i] \in U /\ Fit(n.kids[i])
    BY <1>1, <1>2, RowFacts DEF Filled
  <2> PICK x : x = Len(n.kids[i].keys)
    OBVIOUS
  <2>2. x \in MinKeys .. MaxKeys
    BY <2>1 DEF Fit
  <2>3. MinKeys \in Nat /\ MinKeys >= 1 /\ MaxKeys \in Nat
    BY OrderArithmetic
  <2>4. x <= MaxKeys /\ x >= 1
    BY <2>2, <2>3
  <2> QED
    BY <2>1, <2>4
<1> QED
  BY <1>1, <1>2, <1>3

(* The child a call goes down to.                                             *)
LEMMA KidPlace ==
    ASSUME NEW leaf, NEW T, NEW V, NEW top, NEW U, NEW W, NEW n, Row(leaf, T, V, top, U, W, n),
           NEW val \in Int
    PROVE  Position(n, val) \in 1 .. Len(n.kids) /\ StopsAt(n, val, Position(n, val))
<1>1. Inside(top) /\ n \in Nodes(top, U) /\ Len(n.kids) = Len(n.keys) + 1
  BY RowFacts
<1>2. StopsAt(n, val, Position(n, val))
  BY <1>1, PositionFound
<1> QED
  BY <1>1, <1>2 DEF StopsAt

(* The lower floor b, and the upper floor f.                                  *)
Upper(leaf, T, V, U, W, b, top, f) ==
    /\ Inside(top) /\ Level(leaf, T, V, U, W)
    /\ Right(b) /\ Rests(top, b, f, U, W)

(* A floor upon one where all four are right.                                 *)
LEMMA UpperFacts ==
    ASSUME NEW leaf, NEW T, NEW V, NEW U, NEW W, NEW b, NEW top, NEW f,
           Upper(leaf, T, V, U, W, b, top, f)
    PROVE  /\ Inside(top) /\ Level(leaf, T, V, U, W) /\ Right(b)
           /\ Calls(b, f) /\ Level(top, U, W, f.trees, f.held)
           /\ U = b.trees /\ W = b.held
           /\ \A n : n \in f.trees <=> n \in Trees(top, U, W)
           /\ \A n \in f.trees : f.held[n] = Held(n, W)
<1>1. Inside(top) /\ Level(leaf, T, V, U, W) /\ Right(b) /\ Rests(top, b, f, U, W)
  BY DEF Upper
<1>2. Offers(b, U, W) /\ Calls(b, f) /\ Level(top, U, W, f.trees, f.held)
  BY <1>1 DEF Rests
<1> QED
  BY <1>1, <1>2, LevelFacts DEF Offers

(* searchNode is right there too.                                             *)
LEMMA UpperSearches ==
    ASSUME NEW leaf, NEW T, NEW V, NEW U, NEW W, NEW b, NEW top, NEW f,
           Upper(leaf, T, V, U, W, b, top, f)
    PROVE  Searches(f)
<1>1. ASSUME NEW n \in f.trees, NEW val \in Int PROVE f.searchNode[<< n, val >>] <=> val \in f.held[n]
  <2>1. Inside(top) /\ n \in Trees(top, U, W) /\ Level(leaf, T, V, U, W) /\ f.held[n] = Held(n, W)
    BY UpperFacts
  <2>2. Row(leaf, T, V, top, U, W, n) /\ \A i \in 1 .. Len(n.kids) : n.kids[i] \in U
    BY <2>1, TreeIsRow
  <2> PICK x, k : k = n.kids[Position(n, val)] /\ x = b.searchNode[<< k, val >>]
    OBVIOUS
  <2>3. k \in U
    BY <2>2, KidPlace
  <2>4. x <=> val \in W[k]
    BY <2>3, UpperFacts DEF Right, Searches
  <2>5. f.searchNode[<< n, val >>] = SearchStep(n, val, x)
    BY UpperFacts DEF Calls, SearchCall
  <2>6. SearchStep(n, val, x) <=> val \in Held(n, W)
    BY <2>1, <2>4, SearchInside
  <2> QED
    BY <2>1, <2>5, <2>6
<1> QED
  BY <1>1 DEF Searches

(* So is insertNode.                                                          *)
LEMMA UpperInserts ==
    ASSUME NEW leaf, NEW T, NEW V, NEW U, NEW W, NEW b, NEW top, NEW f,
           Upper(leaf, T, V, U, W, b, top, f)
    PROVE  Inserts(f)
<1>1. ASSUME NEW n \in f.trees, NEW val \in Int, Len(n.keys) <= MaxKeys
      PROVE  PutIn(f, val, n, f.insertNode[<< n, val >>])
  <2>1. Inside(top) /\ n \in Trees(top, U, W) /\ Level(leaf, T, V, U, W)
    BY UpperFacts
  <2>2. /\ Row(leaf, T, V, top, U, W, n)
        /\ \A i \in 1 .. Len(n.kids) : n.kids[i] \in U /\ Len(n.kids[i].keys) <= MaxKeys
    BY <2>1, TreeIsRow
  <2> PICK x, k, m :
         k = n.kids[Position(n, val)] /\ x = b.insertNode[<< k, val >>] /\ m = f.insertNode[<< n, val >>]
    OBVIOUS
  <2>3. k \in U /\ Len(k.keys) <= MaxKeys
    BY <2>2, KidPlace
  <2>4. PutIn(b, val, k, x)
    BY <2>3, UpperFacts DEF Right, Inserts
  <2>5. x \in U /\ Grown(val, k, x, V)
    <3>1. Level(leaf, T, V, b.trees, b.held) /\ k \in b.trees /\ b.trees = U
      BY <2>1, <2>3, UpperFacts
    <3>2. Grows(b.trees, V, val, k, x)
      BY <2>4, <3>1, FloorWords
    <3> QED
      BY <3>1, <3>2 DEF Grows
  <2>6. m = InsertStep(val, n, x)
    BY UpperFacts DEF Calls, InsertCall
  <2>7. m \in Trees(top, U, W) /\ Grown(val, n, m, W)
    BY <1>1, <2>1, <2>5, <2>6, InsertInside
  <2>8. Grows(f.trees, W, val, n, m) /\ Level(top, U, W, f.trees, f.held)
    BY <2>7, UpperFacts DEF Grows
  <2> QED
    BY <2>8, FloorWords
<1> QED
  BY <1>1 DEF Inserts

(* So is findPredecessor.                                                     *)
LEMMA UpperPrecedes ==
    ASSUME NEW leaf, NEW T, NEW V, NEW U, NEW W, NEW b, NEW top, NEW f,
           Upper(leaf, T, V, U, W, b, top, f)
    PROVE  Precedes(f)
<1>1. ASSUME NEW n \in f.trees PROVE LastIn(f.held[n], f.findPredecessor[n])
  <2>1. Inside(top) /\ n \in Trees(top, U, W) /\ Level(leaf, T, V, U, W) /\ f.held[n] = Held(n, W)
    BY UpperFacts
  <2>2. /\ Row(leaf, T, V, top, U, W, n)
        /\ \A i \in 1 .. Len(n.kids) : n.kids[i] \in U /\ Len(n.kids[i].keys) >= 1
    BY <2>1, TreeIsRow
  <2> PICK c, k : c = Last(n.kids) /\ k = b.findPredecessor[c]
    OBVIOUS
  <2>3. c \in U /\ Len(c.keys) >= 1
    <3>1. Len(n.keys) \in Nat /\ Len(n.kids) = Len(n.keys) + 1
      BY <2>2, RowFacts
    <3>2. Len(n.kids) \in 1 .. Len(n.kids)
      BY <3>1
    <3>3. c = n.kids[Len(n.kids)]
      BY DEF Last
    <3> QED
      BY <2>2, <3>2, <3>3
  <2>4. LastIn(W[c], k)
    BY <2>3, UpperFacts DEF Right, Precedes
  <2>5. LastIn(Held(n, W), PredecessorStep(n, k))
    BY <2>2, <2>4, EndOfRow
  <2>6. f.findPredecessor[n] = PredecessorStep(n, k)
    BY UpperFacts DEF Calls, PredecessorCall
  <2> QED
    BY <2>1, <2>5, <2>6
<1> QED
  BY <1>1 DEF Precedes

(* A deletion on the lower floor that ran into no fault.                      *)
LEMMA RemovedBelow ==
    ASSUME NEW leaf, NEW T, NEW V, NEW U, NEW W, NEW b, NEW top, NEW f,
           Upper(leaf, T, V, U, W, b, top, f),
           NEW k \in U, Len(k.keys) >= 1, NEW val \in Int, NEW junk \in Int,
           NEW r, r = b.deleteValFromNode[<< k, val, junk >>], r.faults = {}
    PROVE  Deletes(U, V, val, k, r)
<1>1. Right(b) /\ U = b.trees /\ W = b.held /\ Level(leaf, T, V, U, W)
  BY UpperFacts
<1>2. TakenOut(b, val, k, r)
  BY <1>1 DEF Right, Removes
<1>3. Level(leaf, T, V, b.trees, b.held) /\ k \in b.trees
  BY <1>1
<1>4. Deletes(b.trees, V, val, k, r)
  BY <1>2, <1>3, FloorWords
<1> QED
  BY <1>1, <1>4

(* What deleteInnerTree gets from the lower floor.                            *)
LEMMA InnerAnswers ==
    ASSUME NEW leaf, NEW T, NEW V, NEW U, NEW W, NEW b, NEW top, NEW f,
           Upper(leaf, T, V, U, W, b, top, f), NEW n \in Trees(top, U, W),
           NEW at \in 1 .. Len(n.keys), NEW junk \in Int,
           NEW pred, pred = b.findPredecessor[n.kids[at]],
           NEW succ, succ = findSuccessor(n.kids[at + 1], junk)
    PROVE  Answers(U, V, n, at, pred, succ,
                   b.deleteValFromNode[<< n.kids[at], pred, junk >>],
                   b.deleteValFromNode[<< n.kids[at + 1], succ, junk >>],
                   b.deleteValFromNode[<< inorderMerge(n, at).kids[at], n.keys[at], junk >>])
<1>1. /\ Inside(top) /\ Level(leaf, T, V, U, W) /\ Right(b) /\ U = b.trees /\ W = b.held
  BY UpperFacts
<1>2. /\ Row(leaf, T, V, top, U, W, n)
      /\ \A i \in 1 .. Len(n.kids) : n.kids[i] \in U /\ Len(n.kids[i].keys) >= 1
  BY <1>1, TreeIsRow
<1>3. /\ at \in 1 .. Len(n.kids) /\ at + 1 \in 1 .. Len(n.kids)
      /\ W[n.kids[at]] = Held(n.kids[at], V) /\ n.keys[at] \in Int
      /\ at \in 1 .. Len(n.kids) - 1
  BY <1>2, PairPlaces
<1> PICK l, r, x, y, z :
       /\ l = n.kids[at] /\ r = n.kids[at + 1]
       /\ x = b.deleteValFromNode[<< l, pred, junk >>] /\ y = b.deleteValFromNode[<< r, succ, junk >>]
       /\ z = b.deleteValFromNode[<< inorderMerge(n, at).kids[at], n.keys[at], junk >>]
  OBVIOUS
<1>4. l \in U /\ r \in U /\ Len(l.keys) >= 1 /\ Len(r.keys) >= 1
  BY <1>2, <1>3
<1>5. l \in Nodes(leaf, T) /\ Ordered(l, V) /\ r \in Nodes(leaf, T) /\ Ordered(r, V)
      /\ r \in Trees(leaf, T, V)
  BY <1>1, <1>4, LevelFacts
<1>6. LastIn(Held(l, V), pred) /\ pred \in Int
  <2>1. LastIn(W[l], pred)
    BY <1>1, <1>4 DEF Right, Precedes
  <2>2. Held(l, V) \subseteq Int
    BY <1>5, HeldFacts
  <2> QED
    BY <1>3, <2>1, <2>2 DEF LastIn
<1>7. ASSUME x.faults = {} PROVE Deletes(U, V, pred, l, x)
  BY <1>4, <1>6, <1>7, RemovedBelow
<1>8. ASSUME r.leaf PROVE FirstIn(Held(r, V), succ) /\ (y.faults = {} => Deletes(U, V, succ, r, y))
  <2>1. Bottom(leaf)
    <3>1. leaf
      BY <1>5, <1>8, NodeFacts
    <3> QED
      BY <3>1, InnerOrLeaf
  <2>2. FirstIn(Held(r, V), succ)
    BY <1>4, <1>5, <2>1, EndsOfLeaf
  <2>3. succ \in Int
    <3>1. Held(r, V) \subseteq Int
      BY <1>5, HeldFacts
    <3> QED
      BY <2>2, <3>1 DEF FirstIn
  <2>4. ASSUME y.faults = {} PROVE Deletes(U, V, succ, r, y)
    BY <1>4, <2>3, <2>4, RemovedBelow
  <2> QED
    BY <2>2, <2>4
<1>9. ASSUME MergeLoss(n, at) = 1, z.faults = {}
      PROVE  Deletes(U, V, n.keys[at], JoinedKids(n, at), z)
  <2> PICK j, m, v : j = JoinedKids(n, at) /\ m = mergeNode(n, at) /\ v = n.keys[at]
    OBVIOUS
  <2>1. j \in U /\ AsLong(j, l, r)
    BY <1>2, SiblingsRead
  <2>2. Len(j.keys) >= 1
    <3> DEFINE p == Len(l.keys)
               q == Len(r.keys)
               s == Len(j.keys)
    <3>1. p \in Nat /\ q \in Nat /\ s = p + 1 + q
      BY <1>5, <2>1, NodeFacts DEF AsLong
    <3> HIDE DEF p, q, s
    <3>2. s >= 1
      BY <3>1
    <3> QED
      BY <3>2 DEF s
  <2>3. inorderMerge(n, at) = m
    BY <1>2, <1>9, WholeMerge
  <2>4. OneForTwo(n.kids, at, j, m.kids)
    BY <1>2, JoinStep
  <2>5. m.kids[at] = j
    BY <2>4 DEF OneForTwo
  <2>6. z = b.deleteValFromNode[<< j, v, junk >>] /\ v \in Int
    BY <1>3, <2>3, <2>5
  <2> QED
    BY <1>9, <2>1, <2>2, <2>6, RemovedBelow
<1> QED
  BY <1>6, <1>7, <1>8, <1>9 DEF Answers

(* So is deleteValFromNode: in the child it goes down to, or by the           *)
(* predecessor or the successor of the key, or by the merge of the two        *)
(* children around it, followed by the repair of the child that fell short.   *)
LEMMA UpperRemoves ==
    ASSUME NEW leaf, NEW T, NEW V, NEW U, NEW W, NEW b, NEW top, NEW f,
           Upper(leaf, T, V, U, W, b, top, f)
    PROVE  Removes(f)
<1>1. ASSUME NEW n \in f.trees, NEW val \in Int, NEW junk \in Int, Len(n.keys) >= 1,
             f.deleteValFromNode[<< n, val, junk >>].faults = {}
      PROVE  TakenOut(f, val, n, f.deleteValFromNode[<< n, val, junk >>])
  <2>1. Inside(top) /\ n \in Trees(top, U, W) /\ Level(leaf, T, V, U, W)
    BY UpperFacts
  <2>2. /\ Row(leaf, T, V, top, U, W, n) /\ Filled(n)
        /\ \A i \in 1 .. Len(n.kids) : n.kids[i] \in U /\ Len(n.kids[i].keys) >= 1
    BY <2>1, TreeIsRow
  <2> PICK p, inner, below, d :
         /\ p = Position(n, val) /\ inner = deleteInnerTree(b, n, p, junk)
         /\ below = b.deleteValFromNode[<< n.kids[p], val, junk >>] /\ d = f.deleteValFromNode[<< n, val, junk >>]
    OBVIOUS
  <2>3. p \in 1 .. Len(n.kids) /\ StopsAt(n, val, p)
    BY <2>2, KidPlace
  <2>4. n.kids[p] \in U /\ Len(n.kids[p].keys) >= 1
    BY <2>2, <2>3
  <2>5. ASSUME below.faults = {} PROVE Deletes(U, V, val, n.kids[p], below)
    BY <2>4, <2>5, RemovedBelow
  <2>6. ASSUME HasAt(n, val, p), inner.faults = {}
        PROVE  Deletes(Trees(top, U, W), W, val, n, inner)
    <3>1. p \in 1 .. Len(n.keys) /\ n.keys[p] = val
      <4>1. n \in Nodes(top, U) /\ Ordered(n, W)
        BY <2>2, RowFacts
      <4> QED
        BY <2>3, <2>6, <4>1, HasAtHeld
    <3> PICK pred, succ : pred = b.findPredecessor[n.kids[p]] /\ succ = findSuccessor(n.kids[p + 1], junk)
      OBVIOUS
    <3> PICK x, y, z :
          /\ x = b.deleteValFromNode[<< n.kids[p], pred, junk >>]
          /\ y = b.deleteValFromNode[<< n.kids[p + 1], succ, junk >>]
          /\ z = b.deleteValFromNode[<< inorderMerge(n, p).kids[p], n.keys[p], junk >>]
      OBVIOUS
    <3>2. Answers(U, V, n, p, pred, succ, x, y, z)
      BY <2>1, <3>1, InnerAnswers
    <3>3. inner = InnerStep(n, p, pred, succ, x, y, z)
      BY DEF deleteInnerTree
    <3>4. Answered(U, V, n, p, inner)
      BY <3>2, <3>3, AnsweredBy
    <3>5. Deletes(Trees(top, U, W), W, n.keys[p], n, inner)
      BY <2>2, <2>6, <3>1, <3>4, DeleteFound
    <3> QED
      BY <3>1, <3>5
  <2>7. d = DeleteStep(val, n, inner, below)
    BY UpperFacts DEF Calls, DeleteCall
  <2>8. d.faults = {}
    BY <1>1
  <2>9. Deletes(Trees(top, U, W), W, val, n, d)
    BY <1>1, <2>2, <2>5, <2>6, <2>7, <2>8, DeleteInside
  <2>10. Deletes(f.trees, W, val, n, d) /\ Level(top, U, W, f.trees, f.held)
    BY <2>9, UpperFacts DEF Deletes
  <2> QED
    BY <2>10, FloorWords
<1> QED
  BY <1>1 DEF Removes

(* A floor whose trees are each a row of trees of a floor beneath, or leaves, *)
(* and on which the calls return what they must.                              *)
Standing(b) == Right(b) /\ \E leaf, T, V : Level(leaf, T, V, b.trees, b.held)

(* The leaves are a floor that stands.                                        *)
LEMMA GroundStands ==
    ASSUME NEW b, NEW f, NEW T, NEW V, NEW leaf, Bottom(leaf), Rests(leaf, b, f, T, V)
    PROVE  Standing(f)
<1>1. /\ Searches(f) /\ Inserts(f) /\ Precedes(f) /\ Removes(f)
      /\ Level(leaf, T, V, f.trees, f.held)
  BY LeavesRight
<1> QED
  BY <1>1 DEF Standing, Right

(* So is a floor upon one that stands.                                        *)
LEMMA UpperStands ==
    ASSUME NEW b, NEW f, NEW U, NEW W, NEW top, Inside(top), Rests(top, b, f, U, W), Standing(b)
    PROVE  Standing(f)
<1>1. U = b.trees /\ W = b.held
  BY DEF Rests, Offers
<1>2. PICK leaf, T, V : Level(leaf, T, V, U, W)
  BY <1>1 DEF Standing
<1>3. Upper(leaf, T, V, U, W, b, top, f)
  BY <1>2 DEF Upper, Standing
<1>4. Searches(f) /\ Inserts(f) /\ Precedes(f) /\ Removes(f)
  BY <1>3, UpperSearches, UpperInserts, UpperPrecedes, UpperRemoves
<1>5. Level(top, U, W, f.trees, f.held)
  BY <1>3, UpperFacts
<1> QED
  BY <1>4, <1>5 DEF Standing, Right

(* Each level stands over some other, from the second on over the one before. *)
LEMMA LevelsStack ==
    ASSUME NEW d \in Nat
    PROVE  \E calls : Levels[d] = Over(calls) /\ (d # 0 => calls = Levels[d - 1])
<1>1. CASE d = 0
  BY <1>1, LevelsRise
<1>2. CASE d # 0
  <2>1. d - 1 \in Nat /\ (d - 1) + 1 = d
    BY <1>2
  <2> QED
    BY <2>1, LevelsRise
<1> QED
  BY <1>1, <1>2

(* The floor beneath one that is not the ground.                              *)
LEMMA FloorsStack ==
    ASSUME NEW h \in Nat, h # 0
    PROVE  h - 1 \in Nat /\ ~(h <= h - 1) /\ Floors[h] = Floor(FALSE, Floors[h - 1])
<1>1. h - 1 \in Nat /\ (h - 1) + 1 = h /\ ~(h <= h - 1)
  OBVIOUS
<1> QED
  BY <1>1, FloorsRise

(* The nodes of BTree.c: these keys, and children among those below.          *)
LEMMA NodesOver ==
    ASSUME NEW calls
    PROVE  Over(calls).nodes = [leaf : BOOLEAN, keys : Seq(Int), kids : Seq(calls.nodes)]
BY DEF Over

(* Over, of module BTree, makes every tree of a floor from those beneath.     *)
LEMMA FloorIsNodes ==
    ASSUME NEW leaf \in BOOLEAN, NEW floor, NEW calls, floor.trees \subseteq calls.nodes
    PROVE  Floor(leaf, floor).trees \subseteq Over(calls).nodes
<1> PICK T, S, V : T = floor.trees /\ S = calls.nodes /\ V = floor.held
  OBVIOUS
<1>1. Floor(leaf, floor).trees = Trees(leaf, T, V)
  BY DEF Floor
<1>2. ASSUME NEW n \in Trees(leaf, T, V) PROVE n \in [leaf : BOOLEAN, keys : Seq(Int), kids : Seq(S)]
  <2>1. n \in [leaf : {leaf}, keys : Seq(Int), kids : Seq(T)]
    BY DEF Trees, Nodes
  <2>2. Seq(T) \subseteq Seq(S)
    OBVIOUS
  <2> QED
    BY <2>1, <2>2
<1> QED
  BY <1>1, <1>2, NodesOver

(* A tree of height h is a node of every level from h on.                     *)
LEMMA TreesAreNodes ==
    \A h \in Nat : \A d \in Nat : h <= d => Floors[h].trees \subseteq Levels[d].nodes
<1> DEFINE P(h) == \A d \in Nat : h <= d => Floors[h].trees \subseteq Levels[d].nodes
           S == {h \in Nat : ~P(h)}
<1>1. ASSUME S # {} PROVE FALSE
  <2>1. S \subseteq Nat
    OBVIOUS
  <2> HIDE DEF P
  <2>2. PICK h \in S : \A e \in S : h <= e
    BY <1>1, <2>1, LeastNumber
  <2>3. ASSUME NEW d \in Nat, h <= d PROVE Floors[h].trees \subseteq Levels[d].nodes
    <3>1. PICK calls : Levels[d] = Over(calls) /\ (d # 0 => calls = Levels[d - 1])
      BY LevelsStack
    <3>2. PICK leaf, floor : /\ leaf \in BOOLEAN /\ Floors[h] = Floor(leaf, floor)
                             /\ floor.trees \subseteq calls.nodes
      <4>1. CASE h = 0
        <5>1. Floors[h] = Floor(TRUE, Bare)
          BY <4>1, FloorsRise
        <5>2. Bare.trees \subseteq calls.nodes
          BY DEF Bare
        <5> QED
          BY <5>1, <5>2
      <4>2. CASE h # 0
        <5>1. h - 1 \in Nat /\ ~(h <= h - 1) /\ Floors[h] = Floor(FALSE, Floors[h - 1])
          BY <2>2, <4>2, FloorsStack
        <5>2. P(h - 1)
          BY <2>2, <5>1
        <5>3. d # 0 /\ d - 1 \in Nat /\ h - 1 <= d - 1
          BY <2>2, <2>3, <4>2
        <5>4. Floors[h - 1].trees \subseteq calls.nodes
          BY <3>1, <5>2, <5>3 DEF P
        <5> QED
          BY <5>1, <5>4
      <4> QED
        BY <4>1, <4>2
    <3> QED
      BY <3>1, <3>2, FloorIsNodes
  <2> QED
    BY <2>2, <2>3 DEF P
<1> QED
  BY <1>1

(* The trees of height h, with the calls of BTree.c on them at level d.       *)
At(h, d) == Tower(Floors[h], Levels[d])

(* The trees of height h, with the calls of depth d.                          *)
LEMMA AtFacts ==
    ASSUME NEW h, NEW d
    PROVE  /\ At(h, d).trees = Floors[h].trees /\ At(h, d).held = Floors[h].held
           /\ At(h, d).searchNode = Levels[d].searchNode
           /\ At(h, d).insertNode = Levels[d].insertNode
           /\ At(h, d).findPredecessor = Levels[d].findPredecessor
           /\ At(h, d).deleteValFromNode = Levels[d].deleteValFromNode
BY DEF At, Tower

(* Every floor stands, with calls that go deep enough.                        *)
LEMMA FloorsStand ==
    \A h \in Nat : \A d \in Nat : h <= d => Standing(At(h, d))
<1> DEFINE P(h) == \A d \in Nat : h <= d => Standing(At(h, d))
           S == {h \in Nat : ~P(h)}
<1>1. ASSUME S # {} PROVE FALSE
  <2>1. S \subseteq Nat
    OBVIOUS
  <2> HIDE DEF P
  <2>2. PICK h \in S : \A e \in S : h <= e
    BY <1>1, <2>1, LeastNumber
  <2>3. ASSUME NEW d \in Nat, h <= d PROVE Standing(At(h, d))
    <3>1. PICK calls : Levels[d] = Over(calls) /\ (d # 0 => calls = Levels[d - 1])
      BY LevelsStack
    <3>2. Floors[h].trees \subseteq Levels[d].nodes
      BY <2>2, <2>3, TreesAreNodes
    <3>3. CASE h = 0
      <4> PICK leaf, floor, b, f : leaf = TRUE /\ floor = Bare /\ b = Tower(floor, calls) /\ f = At(h, d)
        OBVIOUS
      <4> PICK T, V : T = b.trees /\ V = b.held
        OBVIOUS
      <4>1. Bottom(leaf) /\ Offers(b, T, V)
        BY InnerOrLeaf DEF Offers
      <4>2. f = Tower(Floor(leaf, floor), Over(calls)) /\ f.trees \subseteq Over(calls).nodes
        BY <3>1, <3>2, <3>3, FloorsRise, AtFacts, ZenonT(30) DEF At
      <4>3. Rests(leaf, b, f, T, V)
        BY <4>1, <4>2, TowerRests
      <4> QED
        BY <4>1, <4>3, GroundStands
    <3>4. CASE h # 0
      <4>1. h - 1 \in Nat /\ ~(h <= h - 1) /\ Floors[h] = Floor(FALSE, Floors[h - 1])
        BY <2>2, <3>4, FloorsStack
      <4>2. d # 0 /\ d - 1 \in Nat /\ h - 1 <= d - 1
        BY <2>2, <2>3, <3>4
      <4> PICK top, floor, b, f :
             top = FALSE /\ floor = Floors[h - 1] /\ b = At(h - 1, d - 1) /\ f = At(h, d)
        OBVIOUS
      <4> PICK U, W : U = b.trees /\ W = b.held
        OBVIOUS
      <4>3. P(h - 1)
        BY <2>2, <4>1
      <4>4. Standing(b)
        BY <4>2, <4>3 DEF P
      <4>5. Inside(top) /\ Offers(b, U, W)
        BY InnerOrLeaf DEF Offers
      <4>6. /\ b = Tower(floor, calls)
            /\ f = Tower(Floor(top, floor), Over(calls)) /\ f.trees \subseteq Over(calls).nodes
        BY <3>1, <3>2, <4>1, <4>2, AtFacts, ZenonT(30) DEF At
      <4>7. Rests(top, b, f, U, W)
        BY <4>5, <4>6, TowerRests
      <4> QED
        BY <4>4, <4>5, <4>7, UpperStands
    <3> QED
      BY <3>3, <3>4
  <2> QED
    BY <2>2, <2>3 DEF P
<1> QED
  BY <1>1

(* Every floor is one of trees over those of the floor beneath.               *)
LEMMA FloorIsLevel ==
    ASSUME NEW leaf, NEW floor, NEW T, NEW V, T = floor.trees, V = floor.held,
           NEW f, f = Floor(leaf, floor)
    PROVE  Level(leaf, T, V, f.trees, f.held)
BY DEF Level, Floor

(* Every floor is a level, and the next is one upon it.                       *)
LEMMA FloorsAreLevels ==
    ASSUME NEW h \in Nat
    PROVE  /\ \E leaf, T, V : Level(leaf, T, V, Floors[h].trees, Floors[h].held)
           /\ Level(FALSE, Floors[h].trees, Floors[h].held, Floors[h + 1].trees, Floors[h + 1].held)
<1>1. \E leaf, T, V : Level(leaf, T, V, Floors[h].trees, Floors[h].held)
  <2>1. Standing(At(h, h))
    BY FloorsStand
  <2> QED
    BY <2>1, AtFacts DEF Standing
<1>2. Level(FALSE, Floors[h].trees, Floors[h].held, Floors[h + 1].trees, Floors[h + 1].held)
  BY FloorIsLevel, FloorsRise
<1> QED
  BY <1>1, <1>2

(* The lowest is one of leaves.                                               *)
LEMMA GroundIsLevel ==
    \E leaf, T, V : leaf = TRUE /\ Bottom(leaf) /\ Level(leaf, T, V, Floors[0].trees, Floors[0].held)
<1> PICK leaf, floor : leaf = TRUE /\ floor = Bare
  OBVIOUS
<1>1. leaf = TRUE /\ Bottom(leaf) /\ Floors[0] = Floor(leaf, floor)
  BY InnerOrLeaf, FloorsRise
<1>2. Level(leaf, floor.trees, floor.held, Floors[0].trees, Floors[0].held)
  BY <1>1, FloorIsLevel
<1> QED
  BY <1>1, <1>2

-----------------------------------------------------------------------------
(* A whole call                                                               *)

(* The trees a root may be: it has a key, and no more than Node_Keys.         *)
Rooted(h) == {n \in Floors[h].trees : Len(n.keys) >= 1 /\ Len(n.keys) <= MaxKeys}

(* Every floor of the trees the model holds stands.                           *)
LEMMA Stands ==
    ASSUME NEW h \in 0 .. Height
    PROVE  h \in Nat /\ Standing(At(h, Height))
BY FloorsStand, KeysAssumption

(* searchNode, on every tree of every height.                                 *)
THEOREM SearchFindsExactly ==
    \A h \in 0 .. Height : \A n \in Floors[h].trees, val \in Int :
        searchNode(n, val) <=> val \in Floors[h].held[n]
<1>1. ASSUME NEW h \in 0 .. Height, NEW n \in Floors[h].trees, NEW val \in Int
      PROVE  searchNode(n, val) <=> val \in Floors[h].held[n]
  <2>1. PICK b : b = At(h, Height)
    OBVIOUS
  <2>2. n \in b.trees /\ Searches(b)
    BY <2>1, Stands, AtFacts DEF Standing, Right
  <2>3. b.searchNode[<< n, val >>] <=> val \in b.held[n]
    BY <2>2 DEF Searches
  <2> QED
    BY <2>1, <2>3, AtFacts DEF searchNode
<1> QED
  BY <1>1

(* findPredecessor, on every tree with a key.                                 *)
THEOREM PredecessorIsLast ==
    \A h \in 0 .. Height : \A n \in Rooted(h) :
        LastIn(Floors[h].held[n], Levels[Height].findPredecessor[n])
<1>1. ASSUME NEW h \in 0 .. Height, NEW n \in Rooted(h)
      PROVE  LastIn(Floors[h].held[n], Levels[Height].findPredecessor[n])
  <2>1. PICK b : b = At(h, Height)
    OBVIOUS
  <2>2. n \in b.trees /\ Precedes(b) /\ Len(n.keys) >= 1
    BY <2>1, Stands, AtFacts DEF Standing, Right, Rooted
  <2>3. LastIn(b.held[n], b.findPredecessor[n])
    BY <2>2 DEF Precedes
  <2> QED
    BY <2>1, <2>3, AtFacts
<1> QED
  BY <1>1

(* The leaf insert makes at a null root.                                      *)
Single(leaf, val) == Node(leaf, << val >>, << >>)

(* The leaf of one key that the first insertion makes.                        *)
LEMMA LoneLeaf ==
    ASSUME NEW leaf, Bottom(leaf), NEW T, NEW V, NEW val \in Int,
           NEW n, n = Single(leaf, val)
    PROVE  n \in Trees(leaf, T, V) /\ Held(n, V) = {val} /\ Len(n.keys) = 1
<1>0. PICK s, k : s = << val >> /\ k = << >>
  OBVIOUS
<1>1. /\ s \in Seq(Int) /\ k \in Seq(T) /\ Len(s) = 1 /\ Len(k) = 0 /\ s[1] = val
  BY <1>0
<1>2. Len(k) = KidCount(leaf, Len(s))
  BY <1>1 DEF Bottom
<1>3. n \in Nodes(leaf, T) /\ n.keys = s /\ n.kids = k
  <2>1. n = Node(leaf, s, k)
    BY <1>0 DEF Single
  <2>2. /\ Node(leaf, s, k) \in Nodes(leaf, T)
        /\ Node(leaf, s, k).keys = s /\ Node(leaf, s, k).kids = k
    <3>1. s \in Seq(Int) /\ k \in Seq(T)
      BY <1>1
    <3> QED
      BY <1>2, <3>1, NodeMade
  <2> QED
    BY <2>1, <2>2
<1>4. Len(n.keys) = 1 /\ Len(n.kids) = 0 /\ n.keys[1] = val
  BY <1>1, <1>3
<1>5. Own(n) = {val}
  <2>1. \A i \in 1 .. 1 : i = 1
    OBVIOUS
  <2> QED
    BY <1>4, <2>1 DEF Own
<1>6. Beneath(n, V) = {} /\ Filled(n)
  BY <1>4 DEF Beneath, Filled
<1>7. Ascending(n.keys)
  <2>1. \A i, j \in 1 .. 1 : ~(i < j)
    OBVIOUS
  <2> QED
    BY <1>4, <2>1 DEF Ascending
<1>8. Ordered(n, V)
  BY <1>4, <1>7 DEF Ordered
<1> QED
  BY <1>3, <1>4, <1>5, <1>6, <1>8, TreeFacts DEF Held

(* insert at a null root.                                                     *)
THEOREM FirstInsertion ==
    \A val \in Int : Leaf(val) \in Rooted(0) /\ Floors[0].held[Leaf(val)] = {val}
<1>1. ASSUME NEW val \in Int
      PROVE  Leaf(val) \in Rooted(0) /\ Floors[0].held[Leaf(val)] = {val}
  <2>1. PICK n, f : n = Leaf(val) /\ f = Floors[0]
    OBVIOUS
  <2>2. PICK leaf, T, V : leaf = TRUE /\ Bottom(leaf) /\ Level(leaf, T, V, f.trees, f.held)
    BY <2>1, GroundIsLevel
  <2>3. n = Single(leaf, val)
    <3>1. leaf = TRUE
      BY <2>2
    <3> QED
      BY <2>1, <3>1 DEF Single, Leaf
  <2>4. n \in Trees(leaf, T, V) /\ Held(n, V) = {val} /\ Len(n.keys) = 1
    <3>1. Bottom(leaf)
      BY <2>2
    <3>2. val \in Int
      BY <1>1
    <3> QED
      BY <2>3, <3>1, <3>2, LoneLeaf
  <2>5. f.trees = Trees(leaf, T, V) /\ \A m \in f.trees : f.held[m] = Held(m, V)
    BY <2>2, LevelFacts
  <2>6. n \in f.trees /\ f.held[n] = {val}
    BY <2>4, <2>5
  <2>7. Len(n.keys) >= 1 /\ Len(n.keys) <= MaxKeys
    BY <2>4, OrderArithmetic
  <2> QED
    BY <2>1, <2>6, <2>7 DEF Rooted
<1> QED
  BY <1>1

-----------------------------------------------------------------------------
(* insert and delete                                                          *)

(* A root has a key, and is not overfull.                                     *)
LEMMA RootedFacts ==
    ASSUME NEW h \in Nat, NEW n \in Rooted(h)
    PROVE  n \in Floors[h].trees /\ Len(n.keys) >= 1 /\ Len(n.keys) <= MaxKeys
BY DEF Rooted

(* What insert makes of the tree n.                                           *)
Planted(n, val) == NewRoot(val, n, insertNode(val, n))

(* insert at a root: a tree of the same height or one more, with the key.     *)
THEOREM InsertionKeepsTree ==
    \A h \in 0 .. Height : \A n \in Rooted(h), val \in Int :
        \E g \in {h, h + 1} :
            /\ Planted(n, val) \in Rooted(g)
            /\ Floors[g].held[Planted(n, val)] = Floors[h].held[n] \cup {val}
<1>1. ASSUME NEW h \in 0 .. Height, NEW n \in Rooted(h), NEW val \in Int
      PROVE  \E g \in {h, h + 1} :
                 /\ Planted(n, val) \in Rooted(g)
                 /\ Floors[g].held[Planted(n, val)] = Floors[h].held[n] \cup {val}
  <2>0. h \in Nat /\ Standing(At(h, Height))
    BY Stands
  <2>11. PICK b, f, U, W, c, m :
           /\ b = At(h, Height) /\ f = Floors[h + 1] /\ U = b.trees /\ W = b.held
           /\ c = b.insertNode[<< n, val >>] /\ m = Planted(n, val)
    OBVIOUS
  <2>1. /\ U = b.trees /\ W = b.held /\ U = Floors[h].trees /\ W = Floors[h].held
        /\ f = Floors[h + 1] /\ c = b.insertNode[<< n, val >>] /\ m = Planted(n, val)
    BY <2>11, AtFacts
  <2>2. m = NewRoot(val, n, c)
    BY <2>11, AtFacts DEF Planted, insertNode
  <2>3. n \in U /\ Len(n.keys) >= 1 /\ Len(n.keys) <= MaxKeys
    BY <2>0, <2>1, RootedFacts
  <2>4. PICK leaf, T, V : Level(leaf, T, V, U, W)
    BY <2>0, <2>1, FloorsAreLevels
  <2>5. PutIn(b, val, n, c)
    BY <2>0, <2>1, <2>3, <2>11 DEF Standing, Right, Inserts
  <2>6. c \in U /\ Grown(val, n, c, V)
    <3>1. Level(leaf, T, V, b.trees, b.held) /\ n \in b.trees
      BY <2>1, <2>3, <2>4
    <3>2. Grows(b.trees, V, val, n, c)
      BY <2>5, <3>1, FloorWords
    <3> QED
      BY <2>1, <3>2 DEF Grows
  <2>7. \/ m = c /\ Len(m.keys) <= MaxKeys
        \/ /\ m \in Trees(FALSE, U, W) /\ Len(m.keys) = 1
           /\ Held(m, W) = Held(n, V) \cup {val}
    <3>1. n \in U /\ Len(n.keys) <= MaxKeys /\ c \in U /\ Grown(val, n, c, V)
      BY <2>3, <2>6
    <3>2. Settled(val, n, c, V, U, W, m)
      BY <2>2, <2>4, <3>1, RootGrown
    <3> QED
      BY <3>2 DEF Settled
  <2>8. CASE m = c /\ Len(m.keys) <= MaxKeys
    <3>1. b.held[m] = b.held[n] \cup {val} /\ Len(c.keys) \in {Len(n.keys), Len(n.keys) + 1}
      BY <2>5, <2>8 DEF PutIn
    <3>2. Len(n.keys) \in Nat
      BY <2>3, <2>4, LevelFacts, NodeFacts
    <3>3. Len(m.keys) >= 1
      <4> DEFINE x == Len(n.keys)
                 y == Len(m.keys)
      <4>1. x \in Nat /\ y \in {x, x + 1} /\ x >= 1
        BY <2>3, <2>8, <3>1, <3>2
      <4> HIDE DEF x, y
      <4>2. y >= 1
        BY <4>1
      <4> QED
        BY <4>2 DEF y
    <3>4. m \in Rooted(h)
      BY <2>1, <2>6, <2>8, <3>3 DEF Rooted
    <3> QED
      BY <2>1, <3>1, <3>4
  <2>9. CASE /\ m \in Trees(FALSE, U, W) /\ Len(m.keys) = 1
             /\ Held(m, W) = Held(n, V) \cup {val}
    <3>1. Level(FALSE, U, W, f.trees, f.held)
      BY <2>0, <2>1, FloorsAreLevels
    <3>2. f.trees = Trees(FALSE, U, W) /\ \A q \in f.trees : f.held[q] = Held(q, W)
      BY <3>1, LevelFacts
    <3>3. b.held[n] = Held(n, V)
      BY <2>1, <2>3, <2>4, LevelFacts
    <3>4. m \in f.trees /\ f.held[m] = b.held[n] \cup {val}
      BY <2>9, <3>2, <3>3
    <3>5. Len(m.keys) >= 1 /\ Len(m.keys) <= MaxKeys
      BY <2>9, OrderArithmetic
    <3>6. m \in Rooted(h + 1)
      BY <2>1, <3>4, <3>5 DEF Rooted
    <3> QED
      BY <2>1, <3>4, <3>6
  <2> QED
    BY <2>7, <2>8, <2>9
<1> QED
  BY <1>1

-----------------------------------------------------------------------------
(* A node without keys holds nothing of its own.                              *)
LEMMA Emptied ==
    ASSUME NEW leaf, NEW T, NEW V, NEW n \in Nodes(leaf, T), n.keys = << >>
    PROVE  /\ Bottom(leaf) => Held(n, V) = {}
           /\ Inside(leaf) => /\ Head(n.kids) \in T /\ Head(n.kids) = n.kids[1]
                              /\ 1 \in 1 .. Len(n.kids)
                              /\ Held(n, V) = V[Head(n.kids)]
<1>1. Len(n.keys) = 0
  OBVIOUS
<1>2. Own(n) = {}
  BY <1>1 DEF Own
<1>3. ASSUME Bottom(leaf) PROVE Held(n, V) = {}
  <2>1. Len(n.kids) = 0
    BY <1>3, LeafAlone
  <2> QED
    BY <1>2, <2>1 DEF Held, Beneath
<1>4. ASSUME Inside(leaf)
      PROVE  /\ Head(n.kids) \in T /\ Head(n.kids) = n.kids[1]
             /\ 1 \in 1 .. Len(n.kids)
             /\ Held(n, V) = V[Head(n.kids)]
  <2>1. Len(n.kids) = 1
    <3>1. Len(n.kids) = Len(n.keys) + 1
      BY <1>4, InnerKids
    <3> QED
      BY <1>1, <3>1
  <2>2. 1 \in 1 .. 1 /\ \A i \in 1 .. 1 : i = 1
    OBVIOUS
  <2>3. n.kids \in Seq(T) /\ n.kids[1] \in T
    BY <2>1, <2>2, NodeFacts
  <2>4. Head(n.kids) = n.kids[1]
    BY <2>1, <2>3
  <2>5. Beneath(n, V) = V[n.kids[1]]
    BY <2>1, <2>2 DEF Beneath
  <2> QED
    BY <1>2, <2>1, <2>2, <2>3, <2>4, <2>5 DEF Held
<1> QED
  BY <1>3, <1>4

(* What a deletion that ran into no fault leaves of a root: the tree, less    *)
(* the key, or its only child, or nothing.                                    *)
Pruned(h, S, node) ==
    /\ node.keys # << >> => node \in Rooted(h) /\ Floors[h].held[node] = S
    /\ node.keys = << >> /\ node.leaf => S = {}
    /\ node.keys = << >> /\ ~node.leaf =>
          \E g \in Nat : /\ h = g + 1 /\ Head(node.kids) \in Rooted(g)
                         /\ Floors[g].held[Head(node.kids)] = S

(* deleteValFromNode at a root, with the root the call leaves.                *)
THEOREM DeletionKeepsTree ==
    \A h \in 0 .. Height : \A n \in Rooted(h), val, junk \in Int :
        LET d == deleteValFromNode(val, n, junk)
        IN  d.faults = {} =>
                /\ d.found <=> val \in Floors[h].held[n]
                /\ d.found \/ d.node.keys = n.keys
                /\ Pruned(h, Floors[h].held[n] \ {val}, d.node)
<1>1. ASSUME NEW h \in 0 .. Height, NEW n \in Rooted(h), NEW val \in Int, NEW junk \in Int,
             NEW d, d = deleteValFromNode(val, n, junk), d.faults = {}
      PROVE  /\ d.found <=> val \in Floors[h].held[n]
             /\ d.found \/ d.node.keys = n.keys
             /\ Pruned(h, Floors[h].held[n] \ {val}, d.node)
  <2>0. h \in Nat /\ Standing(At(h, Height))
    BY Stands
  <2>10. PICK b, m, S : b = At(h, Height) /\ m = d.node /\ S = b.held[n] \ {val}
    OBVIOUS
  <2>1. /\ b.trees = Floors[h].trees /\ b.held = Floors[h].held /\ m = d.node
        /\ S = b.held[n] \ {val} /\ d = b.deleteValFromNode[<< n, val, junk >>] /\ Removes(b)
    BY <1>1, <2>0, <2>10, AtFacts DEF deleteValFromNode, Standing, Right
  <2>2. n \in b.trees /\ Len(n.keys) >= 1 /\ Len(n.keys) <= MaxKeys
    BY <2>0, <2>1, RootedFacts
  <2>3. TakenOut(b, val, n, d)
    BY <1>1, <2>1, <2>2 DEF Removes
  <2>4. /\ m \in b.trees /\ b.held[m] = S
        /\ Len(m.keys) \in {Len(n.keys) - 1, Len(n.keys)}
        /\ d.found <=> val \in b.held[n]
        /\ d.found \/ m.keys = n.keys
    BY <2>1, <2>3 DEF TakenOut
  <2>5. ASSUME m.keys # << >> PROVE m \in Rooted(h)
    <3>1. PICK leaf, T, V : Level(leaf, T, V, b.trees, b.held)
      BY <2>0, <2>1, FloorsAreLevels
    <3>2. m.keys \in Seq(Int) /\ Len(m.keys) \in Nat /\ Len(n.keys) \in Nat
      BY <2>2, <2>4, <3>1, LevelFacts, NodeFacts
    <3>3. Len(m.keys) # 0
      BY <2>5, <3>2, EmptySeq
    <3> DEFINE x == Len(n.keys)
               y == Len(m.keys)
    <3>4. x \in Nat /\ y \in Nat /\ y # 0 /\ y \in {x - 1, x} /\ x <= MaxKeys /\ MaxKeys \in Nat
      BY <2>2, <2>4, <3>2, <3>3, OrderArithmetic
    <3> HIDE DEF x, y
    <3>5. y >= 1 /\ y <= MaxKeys
      BY <3>4
    <3> QED
      BY <2>1, <2>4, <3>5 DEF y, Rooted
  <2>6. ASSUME m.keys = << >>, m.leaf PROVE S = {}
    <3>1. PICK leaf, T, V : Level(leaf, T, V, b.trees, b.held)
      BY <2>0, <2>1, FloorsAreLevels
    <3>2. m \in Nodes(leaf, T) /\ S = Held(m, V)
      BY <2>4, <3>1, LevelFacts
    <3>3. leaf
      BY <2>6, <3>2, NodeFacts
    <3>4. Bottom(leaf)
      BY <3>3, InnerOrLeaf
    <3> QED
      BY <2>6, <3>2, <3>4, Emptied
  <2>7. ASSUME m.keys = << >>, ~m.leaf
        PROVE  \E g \in Nat : /\ h = g + 1 /\ Head(m.kids) \in Rooted(g)
                              /\ Floors[g].held[Head(m.kids)] = S
    <3>1. h # 0
      <4>1. ASSUME h = 0 PROVE FALSE
        <5>1. PICK leaf, T, V : Bottom(leaf) /\ Level(leaf, T, V, b.trees, b.held)
          BY <2>1, <4>1, GroundIsLevel
        <5>2. m \in Nodes(leaf, T)
          BY <2>4, <5>1, LevelFacts
        <5> QED
          BY <2>7, <5>1, <5>2, LeafMark
      <4> QED
        BY <4>1
    <3>2. PICK g \in Nat : h = g + 1
      <4>1. h - 1 \in Nat /\ h = (h - 1) + 1
        BY <3>1
      <4> QED
        BY <4>1
    <3>3. PICK q, U, W, top, c :
             q = Floors[g] /\ U = q.trees /\ W = q.held /\ top = FALSE /\ c = Head(m.kids)
      OBVIOUS
    <3>4. Level(top, U, W, b.trees, b.held)
      BY <2>1, <3>2, <3>3, FloorsAreLevels
    <3>5. m \in Nodes(top, U) /\ S = Held(m, W) /\ Filled(m)
      BY <2>4, <3>4, LevelFacts
    <3>6. Inside(top)
      BY <3>3, InnerOrLeaf
    <3>7. c \in U /\ c = m.kids[1] /\ 1 \in 1 .. Len(m.kids) /\ S = W[c]
      BY <2>7, <3>3, <3>5, <3>6, Emptied
    <3>8. Len(c.keys) \in MinKeys .. MaxKeys
      BY <3>5, <3>7 DEF Filled, Fit
    <3>9. MinKeys \in Nat /\ MinKeys >= 1 /\ MaxKeys \in Nat
      BY OrderArithmetic
    <3> DEFINE x == Len(c.keys)
    <3>10. x \in MinKeys .. MaxKeys
      BY <3>8
    <3> HIDE DEF x
    <3>11. x >= 1 /\ x <= MaxKeys
      BY <3>9, <3>10
    <3>12. c \in Rooted(g)
      BY <3>3, <3>7, <3>11 DEF x, Rooted
    <3> QED
      BY <3>2, <3>3, <3>7, <3>12
  <2>8. Pruned(h, S, m)
    BY <2>1, <2>4, <2>5, <2>6, <2>7 DEF Pruned
  <2> QED
    BY <2>1, <2>4, <2>8
<1> QED
  BY <1>1

-----------------------------------------------------------------------------
(* Where the arrays are moved wrongly                                         *)

(* How many keys the shift of inorderMerge loses: one only at the end of the  *)
(* node.                                                                      *)
LEMMA LossFacts ==
    ASSUME NEW x \in Nat, NEW at \in 1 .. x, NEW loss, loss = (x - at + 2) \div 2
    PROVE  /\ loss \in Nat /\ loss >= 1 /\ loss <= x
           /\ loss = 1 <=> at >= x - 1
<1>1. loss \in Nat /\ loss >= 1 /\ loss <= x
  OBVIOUS
<1>2. loss = 1 <=> at >= x - 1
  OBVIOUS
<1> QED
  BY <1>1, <1>2

(* The loops of inorderMerge close the gap when the separator is one of the   *)
(* last two; further to the left they cut off more than the separator.        *)
THEOREM InorderMergeKeeps ==
    ASSUME NEW leaf, NEW T, NEW V, NEW top, NEW U, NEW W, NEW n, Row(leaf, T, V, top, U, W, n),
           NEW at \in 1 .. Len(n.keys), NEW m, m = inorderMerge(n, at)
    PROVE  /\ at >= Len(n.keys) - 1 => Held(m, W) = Held(n, W) /\ Len(m.keys) = Len(n.keys) - 1
           /\ at < Len(n.keys) - 1 => Len(m.keys) < Len(n.keys) - 1
<1> DEFINE x == Len(n.keys)
           loss == MergeLoss(n, at)
<1>1. x \in Nat /\ at \in 1 .. x /\ loss = (x - at + 2) \div 2
  BY RowFacts DEF MergeLoss
<1>2. /\ loss \in Nat /\ loss >= 1 /\ loss <= x
      /\ loss = 1 <=> at >= x - 1
  <2> HIDE DEF x, loss
  <2> QED
    BY <1>1, LossFacts
<1>3. ASSUME at >= x - 1 PROVE Held(m, W) = Held(n, W) /\ Len(m.keys) = x - 1
  <2>1. m = mergeNode(n, at)
    BY <1>2, <1>3, WholeMerge
  <2> QED
    BY <2>1, JoinStep
<1>4. ASSUME at < x - 1 PROVE Len(m.keys) < x - 1
  <2>1. PICK q, w : q = mergeNode(n, at) /\ w = x - loss
    OBVIOUS
  <2>2. q \in Nodes(top, U) /\ Len(q.keys) = x - 1
    BY <2>1, JoinStep
  <2>3. q.keys \in Seq(Int)
    BY <2>2, NodeFacts
  <2>4. m.keys = UpTo(q.keys, w)
    <3>1. n = Node(n.leaf, n.keys, n.kids)
      BY RowFacts, NodeFacts
    <3>2. m = [n EXCEPT !.keys = UpTo(q.keys, w), !.kids = UpTo(q.kids, w + 1)]
      BY <2>1 DEF inorderMerge
    <3> QED
      BY <3>1, <3>2 DEF Node
  <2>5. w \in Nat /\ w < x - 1
    <3> HIDE DEF x, loss
    <3>1. loss # 1
      BY <1>1, <1>2, <1>4
    <3> QED
      BY <1>1, <1>2, <2>1, <3>1
  <2>6. UpTo(q.keys, w) = SubSeq(q.keys, 1, w)
    <3> HIDE DEF x, loss
    <3>1. w < Len(q.keys)
      BY <2>2, <2>5
    <3> QED
      BY <3>1 DEF UpTo
  <2>7. Len(SubSeq(q.keys, 1, w)) = w
    <3> HIDE DEF x, loss
    <3>1. w \in Nat /\ w <= Len(q.keys)
      BY <2>2, <2>5, <1>1
    <3> QED
      BY <2>3, <3>1, SubSeqProperties
  <2> QED
    BY <2>4, <2>5, <2>6, <2>7
<1> QED
  BY <1>3, <1>4, <1>1

(* What is stored in a row and its children.                                  *)
Stored(n) == Own(n) \cup UNION {Own(n.kids[i]) : i \in 1 .. Len(n.kids)}

(* A child with two keys whose left sibling has one.                          *)
LossyLoan(n, at, m, lost) ==
    /\ at \in 1 .. Len(n.keys)
    /\ Len(n.kids[at].keys) >= 1 /\ Len(n.kids[at + 1].keys) >= 2
    /\ m = borrowFromLeft(n, at + 1) /\ lost = n.kids[at + 1].keys[2]

(* The keys of the child borrowFromLeft makes.                                *)
LEMMA RepeatedOwn ==
    ASSUME NEW r, r.keys \in Seq(Int), Len(r.keys) >= 2, NEW k \in Int, NEW b,
           b.keys = << k >> \o Repeated(r.keys)
    PROVE  Own(b) \subseteq {k, r.keys[1]}
<1>1. PICK s, t, u : s = r.keys /\ t = Repeated(s) /\ u = << k >>
  OBVIOUS
<1>2. Len(s) \in Nat /\ Len(s) >= 2 /\ s[1] \in Int
  BY <1>1
<1>3. t \in Seq(Int) /\ Len(t) = Len(s) /\ \A i \in 1 .. Len(t) : t[i] = s[1]
  <2>1. t = [i \in 1 .. Len(s) |-> s[1]]
    BY <1>1 DEF Repeated
  <2>2. t \in Seq(Int) /\ Len(t) = Len(s)
    BY <1>2, <2>1
  <2> QED
    BY <2>1, <2>2
<1>4. u \in Seq(Int) /\ Len(u) = 1 /\ u[1] = k
  BY <1>1
<1>5. b.keys = u \o t
  BY <1>1
<1>6. /\ Len(b.keys) = Len(u) + Len(t)
      /\ \A i \in 1 .. Len(u) + Len(t) : b.keys[i] = IF i <= Len(u) THEN u[i] ELSE t[i - Len(u)]
  <2>1. u \in Seq(Int) /\ t \in Seq(Int)
    BY <1>3, <1>4
  <2>2. /\ Len(u \o t) = Len(u) + Len(t)
        /\ \A i \in 1 .. Len(u) + Len(t) : (u \o t)[i] = IF i <= Len(u) THEN u[i] ELSE t[i - Len(u)]
    BY <2>1, ConcatProperties
  <2> QED
    BY <1>5, <2>2
<1>7. ASSUME NEW i \in 1 .. Len(b.keys) PROVE b.keys[i] \in {k, s[1]}
  <2>1. CASE i = 1
    BY <1>4, <1>6, <2>1
  <2>2. CASE i # 1
    <3>1. ~(i <= 1) /\ i - 1 \in 1 .. Len(t)
      BY <1>3, <1>4, <1>6, <2>2
    <3>2. b.keys[i] = t[i - 1]
      BY <1>4, <1>6, <3>1
    <3> QED
      BY <1>3, <3>1, <3>2
  <2> QED
    BY <2>1, <2>2
<1> QED
  BY <1>1, <1>7 DEF Own

(* Then borrowFromLeft loses its second key.                                  *)
THEOREM LoanLosesKey ==
    ASSUME NEW leaf, NEW T, NEW V, NEW top, NEW U, NEW W, NEW n, Row(leaf, T, V, top, U, W, n),
           NEW at, NEW m, NEW lost, LossyLoan(n, at, m, lost)
    PROVE  lost \in Held(n, W) /\ lost \notin Stored(m)
<1>1. /\ Inside(top) /\ Level(leaf, T, V, U, W) /\ n \in Nodes(top, U) /\ Ordered(n, W)
      /\ Len(n.keys) \in Nat /\ Len(n.kids) = Len(n.keys) + 1
      /\ n.keys \in Seq(Int) /\ n.kids \in Seq(U) /\ n = Node(n.leaf, n.keys, n.kids)
  BY RowFacts, NodeFacts
<1>2. at \in 1 .. Len(n.keys) /\ m = borrowFromLeft(n, at + 1)
  BY DEF LossyLoan
<1>3. PICK l, k, r, a, b, h :
         /\ l = n.kids[at] /\ k = n.keys[at] /\ r = n.kids[at + 1]
         /\ a = Node(l.leaf, Front(l.keys), IF l.kids = << >> THEN << >> ELSE Front(l.kids))
         /\ b = Node(r.leaf, << k >> \o Repeated(r.keys),
                     IF l.kids = << >> THEN r.kids ELSE << Last(l.kids) >> \o r.kids)
         /\ h = Last(l.keys)
  OBVIOUS
<1>4. /\ at \in 1 .. Len(n.kids) /\ at + 1 \in 1 .. Len(n.kids) /\ at \in Nat
      /\ l \in U /\ r \in U /\ k \in Int
      /\ W[l] = Held(l, V) /\ W[r] = Held(r, V)
  BY <1>2, <1>3, PairPlaces
<1>5. /\ l \in Nodes(leaf, T) /\ r \in Nodes(leaf, T) /\ Ordered(r, V) /\ Ordered(l, V)
      /\ Len(l.keys) >= 1 /\ Len(r.keys) >= 2 /\ lost = r.keys[2]
  BY <1>1, <1>3, <1>4, LevelFacts DEF LossyLoan
<1>6. /\ l.keys \in Seq(Int) /\ r.keys \in Seq(Int) /\ Len(r.keys) \in Nat /\ Len(l.keys) \in Nat
      /\ \A i \in 1 .. Len(r.keys) : r.keys[i] \in Int
      /\ \A i \in 1 .. Len(l.keys) : l.keys[i] \in Int
  BY <1>5, NodeFacts
<1>7. /\ \A x \in W[l] : x < k
      /\ \A x \in W[r] : k < x
      /\ W[l] \subseteq Int /\ W[r] \subseteq Int
  BY <1>2, <1>3, AroundFacts DEF Around
<1>8. Own(l) \subseteq W[l] /\ Own(r) \subseteq W[r]
  BY <1>4 DEF Held
<1>9. 1 \in 1 .. Len(r.keys) /\ 2 \in 1 .. Len(r.keys)
  BY <1>5, <1>6
<1>10. lost \in W[r] /\ lost \in Int /\ k < lost /\ r.keys[1] < lost /\ r.keys[1] \in Int
  <2>1. lost \in Own(r)
    BY <1>5, <1>9 DEF Own
  <2>2. r.keys[1] < r.keys[2]
    BY <1>5, <1>9, OrderFacts
  <2> QED
    BY <1>5, <1>6, <1>7, <1>8, <1>9, <2>1, <2>2
<1>11. lost \in Held(n, W)
  BY <1>1, <1>3, <1>4, <1>10, HeldFacts
<1>12. /\ Front(l.keys) \in Seq(Int) /\ h \in Int /\ Len(Front(l.keys)) = Len(l.keys) - 1
       /\ \A i \in 1 .. Len(l.keys) - 1 : Front(l.keys)[i] = l.keys[i]
       /\ h = l.keys[Len(l.keys)]
  <2>1. h = l.keys[Len(l.keys)]
    BY <1>3 DEF Last
  <2> QED
    BY <1>3, <1>5, <1>6, <2>1, LastApart, ZenonT(30)
<1>13. Own(a) \subseteq Own(l) /\ h \in Own(l)
  <2>1. a.keys = Front(l.keys)
    BY <1>3 DEF Node
  <2>2. ASSUME NEW i \in 1 .. Len(a.keys) PROVE a.keys[i] \in Own(l)
    <3>1. i \in 1 .. Len(l.keys) - 1 /\ i \in 1 .. Len(l.keys)
      BY <1>6, <1>12, <2>1, SMTT(30)
    <3>2. a.keys[i] = l.keys[i]
      BY <1>12, <2>1, <3>1
    <3> QED
      BY <3>1, <3>2 DEF Own
  <2>3. Len(l.keys) \in 1 .. Len(l.keys)
    BY <1>5, <1>6
  <2> QED
    BY <1>12, <2>2, <2>3 DEF Own
<1>14. lost \notin Own(a) /\ lost # h
  <2>1. \A x \in Own(l) : x < k /\ x \in Int
    BY <1>7, <1>8
  <2>2. \A x \in Own(l) : x # lost
    BY <1>4, <1>10, <2>1
  <2> QED
    BY <1>13, <2>2
<1>15. lost \notin Own(b)
  <2>1. b.keys = << k >> \o Repeated(r.keys)
    BY <1>3 DEF Node
  <2>2. Own(b) \subseteq {k, r.keys[1]}
    BY <1>4, <1>5, <1>6, <2>1, RepeatedOwn
  <2> QED
    BY <1>4, <1>10, <2>2
<1>16. m = RowOfLoan(n, at, a, h, b)
  <2>1. (at + 1) - 1 = at
    BY <1>4
  <2> QED
    BY <1>1, <1>2, <1>3, <2>1 DEF borrowFromLeft, RowOfLoan, Node, Repeated
<1>17. m.keys = [n.keys EXCEPT ![at] = h] /\ m.kids = [[n.kids EXCEPT ![at] = a] EXCEPT ![at + 1] = b]
  BY <1>16 DEF RowOfLoan, Node
<1>18. /\ \A i \in 1 .. Len(n.keys) : n.keys[i] # lost
       /\ \A i \in 1 .. Len(n.kids) : i # at + 1 => lost \notin W[n.kids[i]]
  <2>1. /\ \A i \in 1 .. Len(n.kids), j \in 1 .. Len(n.keys) : n.keys[j] \notin W[n.kids[i]]
        /\ \A i, j \in 1 .. Len(n.kids) : i # j => W[n.kids[i]] \cap W[n.kids[j]] = {}
    BY <1>1, Apart
  <2>2. at + 1 \in 1 .. Len(n.kids) /\ lost \in W[n.kids[at + 1]]
    BY <1>3, <1>4, <1>10
  <2> QED
    BY <2>1, <2>2
<1>19. lost \notin Own(m)
  <2>1. /\ Len(m.keys) = Len(n.keys)
        /\ \A i \in 1 .. Len(n.keys) : m.keys[i] = IF i = at THEN h ELSE n.keys[i]
    BY <1>1, <1>2, <1>17
  <2> QED
    BY <1>14, <1>18, <2>1 DEF Own
<1>20. /\ Len(m.kids) = Len(n.kids)
       /\ \A i \in 1 .. Len(n.kids) :
             m.kids[i] = IF i = at + 1 THEN b ELSE IF i = at THEN a ELSE n.kids[i]
  BY <1>1, <1>4, <1>17, SMTT(30)
<1>21. ASSUME NEW i \in 1 .. Len(m.kids) PROVE lost \notin Own(m.kids[i])
  <2>1. CASE i = at + 1
    BY <1>15, <1>20, <2>1
  <2>2. CASE i # at + 1 /\ i = at
    BY <1>14, <1>20, <2>2
  <2>3. CASE i # at + 1 /\ i # at
    <3>1. i \in 1 .. Len(n.kids) /\ m.kids[i] = n.kids[i]
      BY <1>20, <2>3
    <3>2. W[n.kids[i]] = Held(n.kids[i], V)
      BY <1>1, <3>1, RowFacts, LevelFacts
    <3> QED
      BY <1>18, <2>3, <3>1, <3>2 DEF Held
  <2> QED
    BY <2>1, <2>2, <2>3
<1> QED
  BY <1>11, <1>19, <1>21 DEF Stored

-----------------------------------------------------------------------------
(* What the properties of module BTree read of a tree                         *)

(* The elements of a sequence.                                                *)
LEMMA ElementsOf ==
    ASSUME NEW S, NEW s \in Seq(S)
    PROVE  ToSet(s) = {s[i] : i \in 1 .. Len(s)}
BY DEF ToSet

(* What is read of a node, from what is read of its children.                 *)
LEMMA NodeReads ==
    ASSUME NEW calls, NEW n \in Over(calls).nodes
    PROVE  /\ n.keys \in Seq(Int) /\ n.kids \in Seq(calls.nodes)
           /\ \A s : s \in Over(calls).subtrees[n] <=>
                  s = n \/ \E i \in 1 .. Len(n.kids) : s \in calls.subtrees[n.kids[i]]
           /\ \A x : x \in Over(calls).contents[n] <=>
                  x \in Own(n) \/ \E i \in 1 .. Len(n.kids) : x \in calls.contents[n.kids[i]]
           /\ n.leaf => Over(calls).leafDepths[n] = {0}
           /\ ~n.leaf => \A e : e \in Over(calls).leafDepths[n] <=>
                  \E i \in 1 .. Len(n.kids) : \E x \in calls.leafDepths[n.kids[i]] : e = x + 1
<1> PICK S, T, c : S = Over(calls).nodes /\ T = calls.nodes /\ c = Over(calls)
  OBVIOUS
<1>1. n.keys \in Seq(Int) /\ n.kids \in Seq(T)
  <2>1. n \in [leaf : BOOLEAN, keys : Seq(Int), kids : Seq(T)]
    BY NodesOver
  <2> QED
    BY <2>1
<1>2. ToSet(n.keys) = Own(n) /\ ToSet(n.kids) = {n.kids[i] : i \in 1 .. Len(n.kids)}
  BY <1>1, ElementsOf DEF Own
<1>3. /\ c.subtrees[n] = {n} \cup UNION {calls.subtrees[kid] : kid \in ToSet(n.kids)}
      /\ c.contents[n] = ToSet(n.keys) \cup UNION {calls.contents[kid] : kid \in ToSet(n.kids)}
      /\ c.leafDepths[n] =
            IF n.leaf THEN {0}
            ELSE {depth + 1 : depth \in UNION {calls.leafDepths[kid] : kid \in ToSet(n.kids)}}
  BY DEF Over
<1>4. \A s : s \in c.subtrees[n] <=>
          s = n \/ \E i \in 1 .. Len(n.kids) : s \in calls.subtrees[n.kids[i]]
  BY <1>2, <1>3
<1>5. \A x : x \in c.contents[n] <=>
          x \in Own(n) \/ \E i \in 1 .. Len(n.kids) : x \in calls.contents[n.kids[i]]
  BY <1>2, <1>3
<1>6. ~n.leaf => \A e : e \in c.leafDepths[n] <=>
          \E i \in 1 .. Len(n.kids) : \E x \in calls.leafDepths[n.kids[i]] : e = x + 1
  BY <1>2, <1>3
<1> QED
  BY <1>1, <1>3, <1>4, <1>5, <1>6

(* They are the keys the tree holds, its height, and trees of less height.    *)
Reading(h, c, n) ==
    /\ \A x : x \in c.contents[n] <=> x \in Floors[h].held[n]
    /\ c.leafDepths[n] = {h}
    /\ \A s \in c.subtrees[n] :
          s = n \/ \E g \in Nat : /\ g < h /\ s \in Floors[g].trees /\ Fit(s)
                                  /\ Floors[g].held[s] \subseteq Floors[h].held[n]

(* On a leaf the properties read what it holds.                               *)
LEMMA LeafReading ==
    ASSUME NEW calls, NEW n \in Over(calls).nodes, n \in Floors[0].trees
    PROVE  Reading(0, Over(calls), n)
<1>1. PICK leaf, T, V : Bottom(leaf) /\ Level(leaf, T, V, Floors[0].trees, Floors[0].held)
  BY GroundIsLevel
<1>2. n \in Nodes(leaf, T) /\ Floors[0].held[n] = Held(n, V)
  BY <1>1, LevelFacts
<1>3. n.leaf /\ Len(n.kids) = 0
  BY <1>1, <1>2, LeafMark, LeafAlone
<1>4. Held(n, V) = Own(n)
  BY <1>3 DEF Held, Beneath
<1>5. \A i \in 1 .. Len(n.kids) : FALSE
  BY <1>3
<1> PICK c : c = Over(calls)
  OBVIOUS
<1>6. /\ \A s : s \in c.subtrees[n] => s = n
      /\ \A x : x \in c.contents[n] <=> x \in Own(n)
      /\ c.leafDepths[n] = {0}
  BY <1>3, <1>5, NodeReads
<1> QED
  BY <1>2, <1>4, <1>6 DEF Reading

(* On an inner node they do, if they do on its children.                      *)
LEMMA InnerReading ==
    ASSUME NEW calls, NEW n \in Over(calls).nodes, NEW g \in Nat, n \in Floors[g + 1].trees,
           \A k \in Floors[g].trees : Reading(g, calls, k)
    PROVE  Reading(g + 1, Over(calls), n)
<1> PICK U, W, F, H, top, c :
       /\ U = Floors[g].trees /\ W = Floors[g].held /\ top = FALSE /\ c = Over(calls)
       /\ F = Floors[g + 1].trees /\ H = Floors[g + 1].held
  OBVIOUS
<1>1. Inside(top) /\ Level(top, U, W, F, H)
  BY InnerOrLeaf, FloorsAreLevels
<1>2. n \in Nodes(top, U) /\ Filled(n) /\ H[n] = Held(n, W)
  BY <1>1, LevelFacts
<1>3. ~n.leaf /\ Len(n.kids) = Len(n.keys) + 1 /\ Len(n.keys) \in Nat
      /\ \A i \in 1 .. Len(n.kids) : n.kids[i] \in U
  BY <1>1, <1>2, LeafMark, InnerKids, NodeFacts
<1>4. ASSUME NEW i \in 1 .. Len(n.kids)
      PROVE  /\ n.kids[i] \in U /\ Fit(n.kids[i]) /\ Reading(g, calls, n.kids[i])
             /\ W[n.kids[i]] \subseteq H[n]
  BY <1>2, <1>3 DEF Filled, Held, Beneath
<1>5. \A x : x \in c.contents[n] <=> x \in H[n]
  <2>1. \A x : x \in c.contents[n] <=>
            x \in Own(n) \/ \E i \in 1 .. Len(n.kids) : x \in calls.contents[n.kids[i]]
    BY NodeReads
  <2>2. \A i \in 1 .. Len(n.kids) : \A x : x \in calls.contents[n.kids[i]] <=> x \in W[n.kids[i]]
    BY <1>4 DEF Reading
  <2>3. \A x : x \in H[n] <=>
            x \in Own(n) \/ \E i \in 1 .. Len(n.kids) : x \in W[n.kids[i]]
    BY <1>2 DEF Held, Beneath
  <2>4. \A x : (\E i \in 1 .. Len(n.kids) : x \in calls.contents[n.kids[i]])
                <=> \E i \in 1 .. Len(n.kids) : x \in W[n.kids[i]]
    BY <2>2
  <2> QED
    BY <2>1, <2>3, <2>4
<1>6. c.leafDepths[n] = {g + 1}
  <2>1. \A e : e \in c.leafDepths[n] <=>
            \E i \in 1 .. Len(n.kids) : \E x \in calls.leafDepths[n.kids[i]] : e = x + 1
    BY <1>3, NodeReads
  <2>2. \A i \in 1 .. Len(n.kids) : calls.leafDepths[n.kids[i]] = {g}
    BY <1>4 DEF Reading
  <2>3. 1 \in 1 .. Len(n.kids)
    BY <1>3
  <2>4. \A e : e \in c.leafDepths[n] <=> e = g + 1
    BY <2>1, <2>2, <2>3
  <2> QED
    BY <2>4
<1>7. ASSUME NEW s \in c.subtrees[n], s # n
      PROVE  \E e \in Nat : /\ e < g + 1 /\ s \in Floors[e].trees /\ Fit(s)
                            /\ Floors[e].held[s] \subseteq H[n]
  <2>1. PICK i \in 1 .. Len(n.kids) : s \in calls.subtrees[n.kids[i]]
    BY <1>7, NodeReads
  <2>2. CASE s = n.kids[i]
    <3>1. g < g + 1 /\ s \in U /\ Fit(s) /\ W[s] \subseteq H[n]
      BY <1>4, <2>2
    <3> QED
      BY <3>1
  <2>3. CASE s # n.kids[i]
    <3>1. PICK e \in Nat : /\ e < g /\ s \in Floors[e].trees /\ Fit(s)
                           /\ Floors[e].held[s] \subseteq W[n.kids[i]]
      BY <1>4, <2>1, <2>3 DEF Reading
    <3>2. e < g + 1
      BY <3>1
    <3> QED
      BY <1>4, <3>1, <3>2
  <2> QED
    BY <2>2, <2>3
<1> QED
  BY <1>5, <1>6, <1>7 DEF Reading

(* On every tree of a floor they do, with enough levels.                      *)
LEMMA FloorsRead ==
    \A h \in Nat : \A d \in Nat : h <= d => \A n \in Floors[h].trees : Reading(h, Levels[d], n)
<1> DEFINE P(h) ==
               \A d \in Nat : h <= d => \A n \in Floors[h].trees : Reading(h, Levels[d], n)
           S == {h \in Nat : ~P(h)}
<1>1. ASSUME S # {} PROVE FALSE
  <2>1. S \subseteq Nat
    OBVIOUS
  <2> HIDE DEF P
  <2>2. PICK h \in S : \A e \in S : h <= e
    BY <1>1, <2>1, LeastNumber
  <2>3. ASSUME NEW d \in Nat, h <= d, NEW n \in Floors[h].trees PROVE Reading(h, Levels[d], n)
    <3>1. PICK calls : Levels[d] = Over(calls) /\ (d # 0 => calls = Levels[d - 1])
      BY LevelsStack
    <3>2. n \in Over(calls).nodes
      BY <2>2, <2>3, <3>1, TreesAreNodes
    <3>3. CASE h = 0
      BY <2>3, <3>1, <3>2, <3>3, LeafReading
    <3>4. CASE h # 0
      <4>1. PICK g \in Nat : h = g + 1 /\ g = h - 1 /\ ~(h <= g)
        BY <2>2, <3>4, FloorsStack
      <4>2. d # 0 /\ d - 1 \in Nat /\ g <= d - 1
        BY <2>2, <2>3, <4>1
      <4>3. P(g)
        BY <2>2, <4>1
      <4>4. \A k \in Floors[g].trees : Reading(g, calls, k)
        BY <3>1, <4>2, <4>3 DEF P
      <4> QED
        BY <2>3, <3>1, <3>2, <4>1, <4>4, InnerReading
    <3> QED
      BY <3>3, <3>4
  <2> QED
    BY <2>2, <2>3 DEF P
<1> QED
  BY <1>1

(* A tree that is a node of a level is no higher than that.                   *)
LEMMA HeightBound ==
    \A h \in Nat : \A d \in Nat : \A n \in Floors[h].trees : n \in Levels[d].nodes => h <= d
<1> DEFINE P(h) == \A d \in Nat : \A n \in Floors[h].trees : n \in Levels[d].nodes => h <= d
           S == {h \in Nat : ~P(h)}
<1>1. ASSUME S # {} PROVE FALSE
  <2>1. S \subseteq Nat
    OBVIOUS
  <2> HIDE DEF P
  <2>2. PICK h \in S : \A e \in S : h <= e
    BY <1>1, <2>1, LeastNumber
  <2>3. ASSUME NEW d \in Nat, NEW n \in Floors[h].trees, n \in Levels[d].nodes PROVE h <= d
    <3>1. CASE h = 0
      BY <3>1
    <3>2. CASE h # 0
      <4>1. PICK g \in Nat : h = g + 1 /\ g = h - 1 /\ ~(h <= g)
        BY <2>2, <3>2, FloorsStack
      <4> PICK U, W, top : U = Floors[g].trees /\ W = Floors[g].held /\ top = FALSE
        OBVIOUS
      <4> PICK F, H : F = Floors[g + 1].trees /\ H = Floors[g + 1].held
        OBVIOUS
      <4>11. Level(top, U, W, F, H) /\ n \in F
        BY <2>3, <4>1, FloorsAreLevels
      <4>2. n \in Nodes(top, U) /\ Inside(top)
        BY <4>11, LevelFacts, InnerOrLeaf
      <4>3. Len(n.kids) = Len(n.keys) + 1 /\ Len(n.keys) \in Nat
            /\ \A i \in 1 .. Len(n.kids) : n.kids[i] \in U
        BY <4>2, InnerKids, NodeFacts
      <4>4. 1 \in 1 .. Len(n.kids) /\ n.kids[1] \in U
        BY <4>3
      <4>5. PICK calls : Levels[d] = Over(calls) /\ (d # 0 => calls = Levels[d - 1])
        BY LevelsStack
      <4>6. n.kids[1] \in calls.nodes
        <5>1. n.kids \in Seq(calls.nodes)
          BY <2>3, <4>5, NodeReads
        <5> QED
          BY <4>4, <5>1, ElementOfSeq
      <4>7. d # 0
        <5>1. ASSUME d = 0 PROVE FALSE
          <6>1. Levels[d] = Over(Nothing) /\ Nothing.nodes = {}
            BY <5>1, LevelsRise DEF Nothing
          <6>2. n.kids \in Seq(Nothing.nodes)
            BY <2>3, <6>1, NodeReads
          <6>3. n.kids[1] \in Nothing.nodes
            BY <4>4, <6>2, ElementOfSeq
          <6> QED
            BY <6>1, <6>3
        <5> QED
          BY <5>1
      <4>8. d - 1 \in Nat /\ n.kids[1] \in Levels[d - 1].nodes
        BY <4>5, <4>6, <4>7
      <4>9. P(g)
        BY <2>2, <4>1
      <4>10. g <= d - 1
        BY <4>4, <4>8, <4>9 DEF P
      <4> QED
        BY <4>1, <4>10
    <3> QED
      BY <3>1, <3>2
  <2> QED
    BY <2>2, <2>3 DEF P
<1> QED
  BY <1>1

-----------------------------------------------------------------------------
(* The tree between calls                                                     *)

(* What a node of a tree of height h is by itself.                            *)
LEMMA TreeNode ==
    ASSUME NEW h \in Nat, NEW n \in Floors[h].trees
    PROVE  /\ n.keys \in Seq(Int) /\ Len(n.keys) \in Nat /\ Len(n.kids) \in Nat
           /\ Len(n.kids) = IF n.leaf THEN 0 ELSE Len(n.keys) + 1
           /\ Ascending(n.keys) /\ ToSet(n.keys) = Own(n)
           /\ ToSet(n.kids) = {n.kids[i] : i \in 1 .. Len(n.kids)}
           /\ Own(n) \subseteq Floors[h].held[n]
           /\ h = 0 => n.leaf
<1> PICK F, H : F = Floors[h].trees /\ H = Floors[h].held
  OBVIOUS
<1>1. PICK leaf, T, V : Level(leaf, T, V, F, H)
  BY FloorsAreLevels
<1>2. n \in Nodes(leaf, T) /\ Ordered(n, V) /\ H[n] = Held(n, V)
  BY <1>1, LevelFacts
<1>3. /\ n.keys \in Seq(Int) /\ n.kids \in Seq(T) /\ Len(n.keys) \in Nat /\ Len(n.kids) \in Nat
      /\ n.leaf = leaf /\ Len(n.kids) = IF leaf THEN 0 ELSE Len(n.keys) + 1
  BY <1>2, NodeFacts
<1>4. ToSet(n.keys) = Own(n) /\ ToSet(n.kids) = {n.kids[i] : i \in 1 .. Len(n.kids)}
  BY <1>3, ElementsOf DEF Own
<1>5. ASSUME h = 0 PROVE n.leaf
  <2>1. PICK top, U, W : Bottom(top) /\ Level(top, U, W, F, H)
    BY <1>5, GroundIsLevel
  <2>2. n \in Nodes(top, U)
    BY <2>1, LevelFacts
  <2> QED
    BY <2>1, <2>2, LeafMark
<1>6. Own(n) \subseteq H[n] /\ Ascending(n.keys)
  BY <1>2 DEF Held, Ordered
<1> QED
  BY <1>3, <1>4, <1>5, <1>6

(* Its children are trees one lower, each between the keys beside it.         *)
LEMMA TreeKids ==
    ASSUME NEW h \in Nat, NEW n \in Floors[h].trees, NEW i \in 1 .. Len(n.kids)
    PROVE  \E g \in Nat : /\ h = g + 1 /\ n.kids[i] \in Floors[g].trees /\ Fit(n.kids[i])
                          /\ Floors[g].held[n.kids[i]] \subseteq Gap(n, i)
<1>1. h # 0
  <2>1. ASSUME h = 0 PROVE FALSE
    <3>1. Len(n.kids) = 0
      BY <2>1, TreeNode
    <3> QED
      BY <3>1
  <2> QED
    BY <2>1
<1>2. PICK g \in Nat : h = g + 1
  <2>1. h - 1 \in Nat
    BY <1>1, FloorsStack
  <2>2. h = (h - 1) + 1
    OBVIOUS
  <2> QED
    BY <2>1, <2>2
<1> PICK U, W, F, H, top :
       /\ U = Floors[g].trees /\ W = Floors[g].held /\ top = FALSE
       /\ F = Floors[g + 1].trees /\ H = Floors[g + 1].held
  OBVIOUS
<1>3. Level(top, U, W, F, H) /\ n \in F
  BY <1>2, FloorsAreLevels
<1>4. n \in Nodes(top, U) /\ Ordered(n, W) /\ Filled(n)
  BY <1>3, LevelFacts
<1>5. n.kids[i] \in U /\ Fit(n.kids[i]) /\ W[n.kids[i]] \subseteq Gap(n, i)
  BY <1>4, NodeFacts DEF Filled, Ordered
<1> QED
  BY <1>2, <1>5

(* A tree between calls: only a leaf may have no key.                         *)
Grove(h, n) ==
    /\ n \in Floors[h].trees /\ Len(n.keys) <= MaxKeys
    /\ h = 0 \/ Len(n.keys) >= 1
    /\ Floors[h].held[n] \subseteq Keys

(* What Contents, LeafDepths and Subtrees of module BTree say of a tree the   *)
(* model holds: its contents, one depth for all leaves, and subtrees that are *)
(* themselves trees of a floor.                                               *)
LEMMA ReadingAt ==
    ASSUME NEW h \in 0 .. Height, NEW n \in Floors[h].trees
    PROVE  /\ h \in Nat /\ Contents(n) = Floors[h].held[n] /\ LeafDepths(n) = {h}
           /\ \A s \in Subtrees(n) :
                 s = n \/ \E g \in 0 .. Height : /\ s \in Floors[g].trees /\ Fit(s)
                                                 /\ Floors[g].held[s] \subseteq Floors[h].held[n]
<1>1. h \in Nat /\ Height \in Nat /\ h <= Height
  BY KeysAssumption
<1>2. Reading(h, Levels[Height], n)
  BY <1>1, FloorsRead
<1>3. Contents(n) = Floors[h].held[n] /\ LeafDepths(n) = {h}
  BY <1>2 DEF Reading, Contents, LeafDepths
<1>4. ASSUME NEW s \in Subtrees(n), s # n
      PROVE  \E g \in 0 .. Height : /\ s \in Floors[g].trees /\ Fit(s)
                                    /\ Floors[g].held[s] \subseteq Floors[h].held[n]
  <2>1. PICK g \in Nat : /\ g < h /\ s \in Floors[g].trees /\ Fit(s)
                         /\ Floors[g].held[s] \subseteq Floors[h].held[n]
    BY <1>2, <1>4 DEF Reading, Subtrees
  <2>2. g \in 0 .. Height
    BY <1>1, <2>1
  <2> QED
    BY <2>1, <2>2
<1> QED
  BY <1>1, <1>3, <1>4

(* A null root is a leaf without keys.                                        *)
LEMMA NoTreeIsLeaf ==
    NoTree \in Floors[0].trees /\ Floors[0].held[NoTree] = {} /\ Len(NoTree.keys) = 0
<1>1. PICK F, H : F = Floors[0].trees /\ H = Floors[0].held
  OBVIOUS
<1>2. PICK leaf, T, V : leaf = TRUE /\ Bottom(leaf) /\ Level(leaf, T, V, F, H)
  BY <1>1, GroundIsLevel
<1>3. PICK s, k, n : s = << >> /\ k = << >> /\ n = Node(leaf, s, k)
  OBVIOUS
<1>4. s \in Seq(Int) /\ k \in Seq(T) /\ Len(s) = 0 /\ Len(k) = 0
  BY <1>3
<1>5. Bottom(leaf) /\ Level(leaf, T, V, F, H)
  BY <1>2
<1>6. Len(k) = KidCount(leaf, Len(s))
  BY <1>4, <1>5 DEF Bottom
<1>7. n \in Nodes(leaf, T) /\ n.keys = s /\ n.kids = k
  <2>1. s \in Seq(Int) /\ k \in Seq(T)
    BY <1>4
  <2>2. n = Node(leaf, s, k)
    BY <1>3
  <2>3. /\ Node(leaf, s, k) \in Nodes(leaf, T)
        /\ Node(leaf, s, k).keys = s /\ Node(leaf, s, k).kids = k
    BY <1>6, <2>1, NodeMade, SMTT(30)
  <2> QED
    BY <2>2, <2>3
<1>8. Ordered(n, V) /\ Filled(n) /\ Held(n, V) = {}
  BY <1>4, <1>7 DEF Ordered, Ascending, Filled, Held, Own, Beneath
<1>9. n \in F /\ H[n] = {}
  BY <1>5, <1>7, <1>8, LevelFacts
<1>10. n = NoTree
  BY <1>2, <1>3 DEF NoTree
<1>11. Len(n.keys) = 0
  BY <1>4, <1>7
<1> QED
  BY <1>1, <1>9, <1>10, <1>11

(* The inductive invariant: there is no tree, or one of some height.          *)
TreeOf(r) == \E h \in 0 .. Height : r \in Rooted(h) /\ Floors[h].held[r] \subseteq Keys
InvOf(r, f) == f = {} /\ (r = NoTree \/ TreeOf(r))

(* The inductive invariant.                                                   *)
TreeInv == InvOf(root, faults)

(* Such a root is a tree of the model.                                        *)
LEMMA TreeOfGrove ==
    ASSUME NEW h \in 0 .. Height, NEW r \in Rooted(h), Floors[h].held[r] \subseteq Keys
    PROVE  Grove(h, r) /\ r # NoTree
BY NoTreeIsLeaf, KeysAssumption, RootedFacts DEF Grove

(* Under the invariant the root is one, whether there is a tree or not.       *)
LEMMA InvGrove ==
    ASSUME NEW r, NEW f, InvOf(r, f)
    PROVE  \E h \in 0 .. Height : Grove(h, r)
<1>1. CASE r = NoTree
  <2>1. 0 \in 0 .. Height /\ MaxKeys \in Nat
    BY KeysAssumption, OrderArithmetic
  <2>2. Grove(0, r)
    BY <1>1, <2>1, NoTreeIsLeaf DEF Grove
  <2> QED
    BY <2>1, <2>2
<1>2. CASE TreeOf(r)
  BY <1>2, TreeOfGrove DEF TreeOf
<1> QED
  BY <1>1, <1>2 DEF InvOf

(* What WellFormed says of one node.                                          *)
LEMMA GroveNodes ==
    ASSUME NEW h \in 0 .. Height, NEW r, Grove(h, r), NEW s \in Subtrees(r)
    PROVE  /\ ToSet(s.keys) \subseteq Keys
           /\ Len(s.kids) = IF s.leaf THEN 0 ELSE Len(s.keys) + 1
           /\ InOrder(s) /\ Len(s.keys) <= MaxKeys
           /\ \A kid \in ToSet(s.kids) : Len(kid.keys) >= MinKeys
<1>1. PICK g \in 0 .. Height : /\ s \in Floors[g].trees /\ Floors[g].held[s] \subseteq Keys
                              /\ Len(s.keys) <= MaxKeys
  <2>1. r \in Floors[h].trees /\ Len(r.keys) <= MaxKeys /\ Floors[h].held[r] \subseteq Keys
    BY DEF Grove
  <2>2. CASE s = r
    BY <2>1, <2>2
  <2>3. CASE s # r
    <3>1. PICK g \in 0 .. Height : /\ s \in Floors[g].trees /\ Fit(s)
                                  /\ Floors[g].held[s] \subseteq Floors[h].held[r]
      BY <2>1, <2>3, ReadingAt
    <3> PICK x : x = Len(s.keys)
      OBVIOUS
    <3>2. x \in MinKeys .. MaxKeys /\ MinKeys \in Nat /\ MaxKeys \in Nat
      BY <3>1, OrderArithmetic DEF Fit
    <3>3. x <= MaxKeys
      BY <3>2
    <3> QED
      BY <2>1, <3>1, <3>3
  <2> QED
    BY <2>2, <2>3
<1>2. g \in Nat /\ Height \in Nat
  BY KeysAssumption
<1>3. /\ s.keys \in Seq(Int) /\ Len(s.keys) \in Nat /\ Len(s.kids) \in Nat
      /\ Len(s.kids) = IF s.leaf THEN 0 ELSE Len(s.keys) + 1
      /\ Ascending(s.keys) /\ ToSet(s.keys) = Own(s)
      /\ ToSet(s.kids) = {s.kids[i] : i \in 1 .. Len(s.kids)}
      /\ Own(s) \subseteq Floors[g].held[s]
  BY <1>1, <1>2, TreeNode
<1>4. ASSUME NEW i \in 1 .. Len(s.kids)
      PROVE  Contents(s.kids[i]) \subseteq Gap(s, i) /\ Len(s.kids[i].keys) >= MinKeys
  <2> PICK k : k = s.kids[i]
    OBVIOUS
  <2>1. PICK e \in Nat : /\ g = e + 1 /\ k \in Floors[e].trees /\ Fit(k)
                         /\ Floors[e].held[k] \subseteq Gap(s, i)
    BY <1>1, <1>2, TreeKids
  <2>2. e \in 0 .. Height
    BY <1>2, <2>1
  <2>3. Contents(k) = Floors[e].held[k]
    BY <2>1, <2>2, ReadingAt
  <2> PICK x : x = Len(k.keys)
    OBVIOUS
  <2>4. x \in MinKeys .. MaxKeys /\ MinKeys \in Nat /\ MaxKeys \in Nat
    BY <2>1, OrderArithmetic DEF Fit
  <2>5. x >= MinKeys
    BY <2>4
  <2> QED
    BY <2>1, <2>3, <2>5
<1>5. InOrder(s)
  BY <1>3, <1>4 DEF InOrder, Ascending, Gap
<1>6. \A kid \in ToSet(s.kids) : Len(kid.keys) >= MinKeys
  BY <1>3, <1>4
<1> QED
  BY <1>1, <1>3, <1>5, <1>6

(* The invariant implies the order, the balance and the occupancy.            *)
LEMMA GroveWellFormed ==
    ASSUME TreeInv
    PROVE  WellFormed
<1>1. PICK h \in 0 .. Height : Grove(h, root)
  BY InvGrove DEF TreeInv
<1>2. root \in Floors[h].trees /\ h \in Nat
  BY <1>1, KeysAssumption DEF Grove
<1>3. TypeOK /\ InOrderSorted /\ WithinMaximum
  BY <1>1, GroveNodes DEF TypeOK, InOrderSorted, WithinMaximum
<1>4. Balanced
  <2>1. LeafDepths(root) = {h}
    BY <1>2, ReadingAt
  <2> QED
    BY <2>1 DEF Balanced
<1>5. root.leaf \/ Len(root.keys) >= 1
  <2>1. h = 0 => root.leaf
    BY <1>2, TreeNode
  <2> QED
    BY <1>1, <2>1 DEF Grove
<1>6. Occupied
  BY <1>1, <1>3, <1>5, GroveNodes DEF Occupied
<1> QED
  BY <1>3, <1>4, <1>6 DEF WellFormed

(* And that searching finds exactly what the tree holds.                      *)
LEMMA GroveSearchAgrees ==
    ASSUME TreeInv
    PROVE  SearchAgrees
<1>1. PICK h \in 0 .. Height : Grove(h, root)
  BY InvGrove DEF TreeInv
<1>2. root \in Floors[h].trees /\ h \in Nat
  BY <1>1 DEF Grove
<1>3. Contents(root) = Floors[h].held[root]
  BY <1>2, ReadingAt
<1>4. \A val \in Keys : val \in Int
  BY KeysAssumption
<1>5. \A val \in Keys : searchNode(root, val) <=> val \in Contents(root)
  BY <1>2, <1>3, <1>4, SearchFindsExactly
<1> QED
  BY <1>5 DEF SearchAgrees

(* The contents of a root are what its floor says it holds.                   *)
LEMMA TreeContents ==
    ASSUME NEW h \in 0 .. Height, NEW r \in Rooted(h)
    PROVE  h \in Nat /\ r # NoTree /\ Contents(r) = Floors[h].held[r]
<1>1. h \in Nat /\ Height \in Nat
  BY KeysAssumption
<1>2. r \in Floors[h].trees /\ Len(r.keys) >= 1
  BY <1>1, RootedFacts
<1> QED
  BY <1>1, <1>2, ReadingAt, NoTreeIsLeaf

(* No tree holds nothing.                                                     *)
LEMMA NoTreeContents == Contents(NoTree) = {}
<1>1. 0 \in 0 .. Height
  BY KeysAssumption
<1> QED
  BY <1>1, ReadingAt, NoTreeIsLeaf

(* The clients' keys and what undefined variables hold are integers.          *)
LEMMA KeysAreNumbers == (\A val \in Keys : val \in Int) /\ \A junk \in Junk : junk \in Int
BY KeysAssumption

(* The tree insert leaves: proper, and with the new key.                      *)
LEMMA InsertTree ==
    ASSUME NEW r, NEW f, InvOf(r, f), NEW val \in Keys,
           AfterInsert(val, r) \in Levels[Height].nodes
    PROVE  /\ TreeOf(AfterInsert(val, r))
           /\ Contents(AfterInsert(val, r)) = Contents(r) \cup {val}
<1> PICK m : m = AfterInsert(val, r)
  OBVIOUS
<1>1. val \in Int /\ Height \in Nat /\ 0 \in 0 .. Height
  BY KeysAssumption
<1>2. CASE r = NoTree
  <2>1. m = Leaf(val)
    BY <1>2 DEF AfterInsert
  <2>2. m \in Rooted(0) /\ Floors[0].held[m] = {val}
    BY <1>1, <2>1, FirstInsertion
  <2>3. TreeOf(m)
    BY <1>1, <2>2 DEF TreeOf
  <2>4. Contents(m) = {val} /\ Contents(r) = {}
    BY <1>1, <1>2, <2>2, TreeContents, NoTreeContents
  <2> QED
    BY <2>3, <2>4
<1>3. CASE r # NoTree
  <2>1. PICK h \in 0 .. Height : r \in Rooted(h) /\ Floors[h].held[r] \subseteq Keys
    BY <1>3 DEF InvOf, TreeOf
  <2>2. m = Planted(r, val)
    BY <1>3 DEF AfterInsert, Planted
  <2>3. PICK g \in {h, h + 1} : /\ m \in Rooted(g)
                                /\ Floors[g].held[m] = Floors[h].held[r] \cup {val}
    BY <1>1, <2>1, <2>2, InsertionKeepsTree
  <2>4. g \in Nat
    BY <2>3
  <2>5. m \in Floors[g].trees
    BY <2>3, <2>4, RootedFacts
  <2>6. g <= Height
    BY <1>1, <2>4, <2>5, HeightBound
  <2>7. g \in 0 .. Height
    BY <1>1, <2>4, <2>6
  <2>8. Floors[g].held[m] \subseteq Keys
    BY <2>1, <2>3
  <2>9. TreeOf(m)
    BY <2>3, <2>7, <2>8 DEF TreeOf
  <2>10. Contents(m) = Floors[g].held[m] /\ Contents(r) = Floors[h].held[r]
    BY <2>1, <2>3, <2>7, TreeContents
  <2> QED
    BY <2>3, <2>9, <2>10
<1> QED
  BY <1>2, <1>3

(* No node of it has more keys than fit.                                      *)
LEMMA TreeFits ==
    ASSUME NEW r, TreeOf(r)
    PROVE  Fits(r)
<1>1. PICK h \in 0 .. Height : Grove(h, r)
  BY TreeOfGrove DEF TreeOf
<1>2. ASSUME NEW s \in Subtrees(r) PROVE Len(s.keys) <= MaxKeys + 1
  <2>1. Len(s.keys) <= MaxKeys
    BY <1>1, GroveNodes
  <2>2. Len(s.keys) \in Nat /\ MaxKeys \in Nat
    <3>1. r \in Floors[h].trees /\ h \in Nat
      BY <1>1, KeysAssumption DEF Grove
    <3>2. s = r \/ \E g \in 0 .. Height : s \in Floors[g].trees
      BY <3>1, ReadingAt
    <3>3. PICK g \in 0 .. Height : s \in Floors[g].trees
      BY <3>1, <3>2
    <3>4. g \in Nat
      BY KeysAssumption
    <3>5. Len(s.keys) \in Nat
      BY <3>3, <3>4, TreeNode
    <3> QED
      BY <3>5, OrderArithmetic
  <2> QED
    BY <2>1, <2>2
<1> QED
  BY <1>2 DEF Fits

(* insert never runs into a fault, and adds its key.                          *)
LEMMA InsertKeeps ==
    ASSUME TreeInv, NEW val \in Keys, Insert(val)
    PROVE  TreeInv' /\ Contents(root') = Contents(root) \cup {val}
<1>1. PICK m : m = AfterInsert(val, root)
  OBVIOUS
<1>2. /\ m \in Levels[Height].nodes
      /\ root' = IF Fits(m) THEN m ELSE Wild
      /\ faults' = IF Fits(m) THEN {} ELSE {"bounds"}
  BY <1>1 DEF Insert
<1>3. TreeOf(m) /\ Contents(m) = Contents(root) \cup {val}
  BY <1>1, <1>2, InsertTree DEF TreeInv
<1>4. root' = m /\ faults' = {}
  BY <1>2, <1>3, TreeFits
<1>5. InvOf(root', faults')
  BY <1>3, <1>4 DEF InvOf
<1> QED
  BY <1>3, <1>4, <1>5 DEF TreeInv

(* A deletion that found its key, and ran into no fault.                      *)
LEMMA DeletedTree ==
    ASSUME NEW h \in 0 .. Height, NEW r \in Rooted(h), Floors[h].held[r] \subseteq Keys,
           NEW S, S \subseteq Floors[h].held[r],
           NEW node, Pruned(h, S, node), ~(node.leaf /\ node.keys = << >>), NEW m \in Roots(node)
    PROVE  TreeOf(m) /\ Contents(m) = S
<1>1. CASE node.keys # << >>
  <2>1. m = node
    BY <1>1 DEF Roots
  <2>2. m \in Rooted(h) /\ Floors[h].held[m] = S
    BY <1>1, <2>1 DEF Pruned
  <2>3. S \subseteq Keys
    OBVIOUS
  <2> QED
    BY <2>2, <2>3, TreeContents DEF TreeOf
<1>2. CASE node.keys = << >>
  <2>1. ~node.leaf
    BY <1>2
  <2>2. m = Head(node.kids)
    BY <1>2, <2>1 DEF Roots
  <2>3. PICK g \in Nat : h = g + 1 /\ m \in Rooted(g) /\ Floors[g].held[m] = S
    BY <1>2, <2>1, <2>2 DEF Pruned
  <2>4. g \in 0 .. Height
    BY <2>3, KeysAssumption
  <2>5. S \subseteq Keys
    OBVIOUS
  <2> QED
    BY <2>3, <2>4, <2>5, TreeContents DEF TreeOf
<1> QED
  BY <1>1, <1>2

(* A call of delete that moves no array wrongly.                             *)
LEMMA DeleteKeeps ==
    ASSUME TreeInv, NEW val \in Keys, Delete(val), faults' = {}
    PROVE  TreeInv' /\ Contents(root') = Contents(root) \ {val}
<1>1. CASE DeleteNothing
  <2>1. root = NoTree /\ root' = root /\ faults' = {}
    BY <1>1 DEF DeleteNothing
  <2>2. InvOf(root', faults')
    BY <2>1 DEF InvOf
  <2>3. Contents(root) = {}
    BY <2>1, NoTreeContents
  <2> QED
    BY <2>1, <2>2, <2>3 DEF TreeInv
<1>2. CASE root \notin {NoTree, Wild} /\ \E junk \in Junk : DeleteFrom(deleteValFromNode(val, root, junk))
  <2>1. PICK junk \in Junk : \E x : x = deleteValFromNode(val, root, junk) /\ DeleteFrom(x)
    BY <1>2
  <2>2. PICK r : r = deleteValFromNode(val, root, junk) /\ DeleteFrom(r)
    BY <2>1
  <2>3. PICK h \in 0 .. Height : root \in Rooted(h) /\ Floors[h].held[root] \subseteq Keys
    BY <1>2 DEF TreeInv, InvOf, TreeOf
  <2>4. r.faults = {}
    BY <2>2 DEF DeleteFrom
  <2>5. /\ r.found <=> val \in Floors[h].held[root]
        /\ r.found \/ r.node.keys = root.keys
        /\ Pruned(h, Floors[h].held[root] \ {val}, r.node)
    BY <2>2, <2>3, <2>4, KeysAreNumbers, DeletionKeepsTree
  <2>6. Contents(root) = Floors[h].held[root]
    BY <2>3, TreeContents
  <2>7. CASE ~r.found
    <3>1. root' = r.node /\ r.node.keys # << >>
      <4>1. r.node.keys = root.keys /\ Len(root.keys) >= 1
        BY <2>3, <2>5, <2>7 DEF Rooted
      <4> QED
        BY <2>2, <2>7, <4>1 DEF DeleteFrom
    <3>2. root' \in Roots(r.node) /\ ~(r.node.leaf /\ r.node.keys = << >>)
      BY <3>1 DEF Roots
    <3>3. TreeOf(root') /\ Contents(root') = Floors[h].held[root] \ {val}
      BY <2>3, <2>5, <3>2, DeletedTree
    <3>4. InvOf(root', faults')
      BY <3>3 DEF InvOf
    <3> QED
      BY <2>6, <3>3, <3>4 DEF TreeInv
  <2>8. CASE r.found
    <3>1. root' \in Roots(r.node) /\ ~(r.node.leaf /\ r.node.keys = << >>)
      BY <2>2, <2>8 DEF DeleteFrom
    <3>2. TreeOf(root') /\ Contents(root') = Floors[h].held[root] \ {val}
      BY <2>3, <2>5, <3>1, DeletedTree
    <3>3. InvOf(root', faults')
      BY <3>2 DEF InvOf
    <3> QED
      BY <2>6, <3>2, <3>3 DEF TreeInv
  <2> QED
    BY <2>7, <2>8
<1> QED
  BY <1>1, <1>2 DEF Delete

(* The first state.                                                           *)
LEMMA InitTree ==
    ASSUME Init
    PROVE  TreeInv /\ Contents(root) = {}
BY NoTreeContents DEF Init, TreeInv, InvOf

(* The invariant is inductive.                                                *)
LEMMA ServedKeeps ==
    ASSUME TreeInv, [NextServed]_vars
    PROVE  TreeInv'
<1>1. CASE NextServed
  BY <1>1, InsertKeeps, DeleteKeeps DEF NextServed, Next
<1>2. CASE UNCHANGED vars
  BY <1>2 DEF vars, TreeInv
<1> QED
  BY <1>1, <1>2

-----------------------------------------------------------------------------
(* The specification                                                          *)

(* However many calls are made that run into no fault, the root is null or    *)
(* a tree of some height that holds keys of the caller.                       *)
THEOREM TreeInvariant == SpecServed => []TreeInv
<1>1. Init => TreeInv
  BY InitTree
<1>2. TreeInv /\ [NextServed]_vars => TreeInv'
  BY ServedKeeps
<1> QED
  BY <1>1, <1>2, PTL DEF SpecServed

(* So it is a B-tree after each of them: sorted, balanced, and every node but *)
(* the root at least half full.                                               *)
THEOREM AlwaysWellFormed == SpecServed => []WellFormed
<1>1. TreeInv => WellFormed
  BY GroveWellFormed
<1> QED
  BY <1>1, TreeInvariant, PTL

(* searchNode finds exactly the keys that are in the tree.                    *)
THEOREM SearchAlwaysAgrees == SpecServed => []SearchAgrees
<1>1. TreeInv => SearchAgrees
  BY GroveSearchAgrees
<1> QED
  BY <1>1, TreeInvariant, PTL

(* The calls are those of a set of keys: an insertion adds the key it was     *)
(* given, a deletion removes the key it was given, and what they rearrange    *)
(* they neither lose nor add.                                                 *)
THEOREM TreeIsKeySet == SpecCalled => KeySetSpec
<1>1. InitCalled => TreeInv /\ KS!Init
  BY InitTree DEF InitCalled, KS!Init
<1>2. TreeInv /\ [NextCalled]_callvars => TreeInv' /\ [KS!Next]_<< Contents(root), call >>
  <2> SUFFICES ASSUME TreeInv, [NextCalled]_callvars
               PROVE  TreeInv' /\ [KS!Next]_<< Contents(root), call >>
    OBVIOUS
  <2>1. CASE UNCHANGED callvars
    BY <2>1 DEF callvars, TreeInv
  <2>2. ASSUME NEW val \in Keys, InsertCalled(val), faults' = {}
        PROVE  TreeInv' /\ KS!Next
    BY <2>2, InsertKeeps DEF InsertCalled, KS!Next, KS!Insert
  <2>3. ASSUME NEW val \in Keys, DeleteCalled(val), faults' = {}
        PROVE  TreeInv' /\ KS!Next
    BY <2>3, DeleteKeeps DEF DeleteCalled, KS!Next, KS!Delete
  <2> QED
    BY <2>1, <2>2, <2>3 DEF NextCalled
<1> QED
  BY <1>1, <1>2, PTL DEF SpecCalled, KeySetSpec, KS!Spec

(* A deletion that runs into no fault takes no other key with it.             *)
THEOREM DeletionsSpareOthers == SpecServed => OthersStay
<1> DEFINE Spares == \A val \in Keys : Delete(val) /\ root' # Wild
                         => Contents(root) \ {val} \subseteq Contents(root')
<1>1. TreeInv /\ [NextServed]_vars => [Spares]_vars
  <2> SUFFICES ASSUME TreeInv, NextServed
               PROVE  Spares
    OBVIOUS
  <2>1. ASSUME NEW val \in Keys, Delete(val)
        PROVE  Contents(root) \ {val} \subseteq Contents(root')
    BY <2>1, DeleteKeeps DEF NextServed
  <2> QED
    BY <2>1
<1> QED
  BY <1>1, TreeInvariant, PTL DEF SpecServed, OthersStay

=============================================================================
