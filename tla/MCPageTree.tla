------------------------------ MODULE MCPageTree ------------------------------
(* Four levels of two-entry tables. *)
EXTENDS PageTree, FiniteSetsExt

\* 0 and 1 share every table, 4 the first two levels, 12 only the root: all
\* four need nine tables, two more than there are.
MCPages    == {0, 1, 4, 12}
MCFrames   == {0, 7}
MCFlagSets == {{}, {Write}}

\* Below the limit frames are interchangeable: which free frame allocate_frame
\* returns makes no difference but the names of the tables.
LowestFreeFirst == free' # free => free' = free \ {Min(free)}
=============================================================================
