----------------------------- MODULE MallocSpec -----------------------------
(* What the malloc package promises its client, with no blocks: a payload    *)
(* handed out is aligned, lies inside the heap, below the break of the       *)
(* simulated memory, and shares no word with any payload the client still    *)
(* holds.  These are the three demands of the driver's add_range             *)
(* (mdriver.c:391-417); the break is memlib.c's, which moves up only.        *)
EXTENDS MmParams

VARIABLES live, brk

Overlaps(p, size, slot) == p < slot.ptr + slot.size /\ slot.ptr < p + size

(* p may be handed to id for a payload of the given size.  add_range looks    *)
(* once the call has returned: mem_heap_hi() + 1 is the break after it.       *)
MayReceive(id, p, size) ==
    /\ Even(p)
    /\ FirstBlock <= p /\ p + size <= brk'
    /\ \A other \in Ids \ {id} : IsLive(live[other]) => ~Overlaps(p, size, live[other])

Hold(id, p, size) == live' = [live EXCEPT ![id] = [ptr |-> p, size |-> size]]

(* A call may push the break up, never past the arena.                        *)
HeapMayGrow == brk' \in brk .. Limit

Init == live = [id \in Ids |-> NoBlock] /\ brk = Base

(* mem_reset_brk: the memory is there for the next trace.                     *)
NewTrace == live' = [id \in Ids |-> NoBlock] /\ brk' \in Base .. Limit

Grant(id, size) ==
    /\ HeapMayGrow
    /\ \E p \in FirstBlock .. Limit : MayReceive(id, p, size) /\ Hold(id, p, size)

(* A failed request leaves the client with what it had.                       *)
Malloc(id, size) ==
    /\ ~IsLive(live[id])
    /\ UNCHANGED << live, brk >> \/ Grant(id, size)

Free(id) ==
    /\ IsLive(live[id])
    /\ live' = [live EXCEPT ![id] = NoBlock]
    /\ UNCHANGED brk

Realloc(id, size) == IsLive(live[id]) /\ Grant(id, size)

Next ==
    \/ NewTrace
    \/ \E id \in Ids : Free(id)
    \/ \E id \in Ids, size \in Sizes \ {0} : Malloc(id, size) \/ Realloc(id, size)

Spec == Init /\ [][Next]_<< live, brk >>

=============================================================================
