----------------------------- MODULE MCFreeList -----------------------------
(* A small address space with the kernel's five unavailable ranges. *)
EXTENDS FreeList

\* The identity map, the non-canonical hole, the direct map behind it, and the
\* two sections of the kernel, in the order of the array.
MCUnavailable ==
    << [base |-> 1,  size |-> 4], [base |-> 24, size |-> 2],
       [base |-> 26, size |-> 3], [base |-> 36, size |-> 4], [base |-> 40, size |-> 2] >>

MCTestRequests == <<1, 2, 3>>
=============================================================================
