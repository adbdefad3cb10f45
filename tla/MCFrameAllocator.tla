--------------------------- MODULE MCFrameAllocator ---------------------------
(* Small memory maps for FrameAllocator. *)
EXTENDS FrameAllocator

Region(b, n, t) == [base |-> b, length |-> n, type |-> t]

\* Frame 0 is reserved, the first usable entry is too short for the free
\* stack, one entry is empty, and reclaimable memory lies between usable ones.
MCMemoryMap == <<Region(0, 1, RESERVED), Region(1, 1, USABLE),
                 Region(2, 2, RECLAIMABLE), Region(4, 4, USABLE),
                 Region(8, 0, USABLE), Region(8, 2, RECLAIMABLE)>>
=============================================================================
