--------------------------- MODULE MCVirtualMemory ---------------------------
(* An address space of twelve pages of two bytes. *)
EXTENDS VirtualMemory

\* The order of the regions is the kernel's: page 0 unmapped, then the identity
\* map (2, 4, 6), heap (8, 10, 12), the direct map (14) with the APIC (16), heap
\* (18), the kernel (20), and the last page (22), unmapped.  The direct map shows
\* a frame that is free (11).
MCInitialTree ==
    [p \in PageBases |-> IF p = 14 THEN 11
                         ELSE IF p \in {2, 4, 6, 16, 20} THEN p \div 2 ELSE NoFrame]
MCFreeFrames    == <<11, 12, 13, 14, 15, 16, 17, 18>>
MCRegionBases   == <<8, 18>>
MCHeapAddresses == {8, 11, 12, 13, 18}

\* Two blocks in one page, one of which has its header in the page before.
MCBlocks == {12, 13}
=============================================================================
