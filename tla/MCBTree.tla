------------------------------ MODULE MCBTree ------------------------------
(* Instances of the B-tree for TLC.                                          *)
EXTENDS BTree

CONSTANTS
    Loaded,         \* 1 .. Loaded are inserted in this order to begin with
    MaxDeletes      \* bound on the deletions that follow, where it is used

VARIABLES deletes

mcvars == << root, faults, deletes >>

(* TESTCASE2 of main: ascending insertions.                                   *)
InitLoaded ==
    /\ root = FoldLeft(LAMBDA tree, val : AfterInsert(val, tree), NoTree,
                       [i \in 1 .. Loaded |-> i])
    /\ faults = {} /\ deletes = 0

DeleteSome ==
    /\ \E val \in Keys : Delete(val)
    /\ deletes < MaxDeletes /\ deletes' = deletes + 1

InsertSome == (\E val \in Keys : Insert(val)) /\ UNCHANGED deletes

(* Calls that run into none of the faults.                                   *)
NextLoadedServed == (DeleteSome \/ InsertSome) /\ faults' = {}
ServedLoaded == InitLoaded /\ [][NextLoadedServed]_mcvars

(* All calls.                                                                *)
NextLoaded == DeleteSome \/ InsertSome
AnyLoaded == InitLoaded /\ [][NextLoaded]_mcvars

=============================================================================
