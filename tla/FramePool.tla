------------------------------ MODULE FramePool ------------------------------
(***************************************************************************)
(* What the physical frame allocator promises its callers: a frame that is *)
(* in circulation is either free or held by exactly one caller.  A frame   *)
(* enters circulation once (Donate), is handed out only while it is free   *)
(* (Grant), and comes back only from its holder (Release).                 *)
(***************************************************************************)
CONSTANT Frames

VARIABLES free, held

poolVars == <<free, held>>

Init == free = {} /\ held = {}

\* A frame the machine owns but the pool has never seen becomes free.
Donate(f) ==
    /\ f \notin free \cup held
    /\ free' = free \cup {f}
    /\ UNCHANGED held

Grant(f) ==
    /\ f \in free
    /\ free' = free \ {f}
    /\ held' = held \cup {f}

Release(f) ==
    /\ f \in held \ free
    /\ held' = held \ {f}
    /\ free' = free \cup {f}

Next == \E f \in Frames : Donate(f) \/ Grant(f) \/ Release(f)

Spec == Init /\ [][Next]_poolVars
=============================================================================
