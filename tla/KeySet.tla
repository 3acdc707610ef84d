------------------------------- MODULE KeySet -------------------------------
(* What the trees of WEEK05 promise: a set of keys.  insert adds its key,    *)
(* delete removes its key, and neither touches any other.  The caller sees   *)
(* the call with its key, so a call that does nothing, or serves another     *)
(* key, is no step of this specification.                                    *)
CONSTANTS Keys

VARIABLES
    set,
    call        \* the last call made

InsertOf(val) == << "insert", val >>
DeleteOf(val) == << "delete", val >>

Init == set = {} /\ call = << >>

Insert(val) == call' = InsertOf(val) /\ set' = set \cup {val}

Delete(val) == call' = DeleteOf(val) /\ set' = set \ {val}

Next == \E val \in Keys : Insert(val) \/ Delete(val)

Spec == Init /\ [][Next]_<< set, call >>

=============================================================================
