------------------------------ MODULE PageRange ------------------------------
(***************************************************************************)
(* The address arithmetic of kernel/src/paging.cpp.  Sums and differences  *)
(* are those of uint64_t: they wrap at AddressMax + 1.                     *)
(***************************************************************************)
EXTENDS Integers

CONSTANTS
    pageSize,       \* kernelConstants::pageSize, 4096
    AddressMax      \* UINT64_MAX

ASSUME AddressAssumption ==
    /\ pageSize \in Nat \ {0}
    /\ AddressMax \in Nat
    /\ (AddressMax + 1) % pageSize = 0

Addresses == 0 .. AddressMax

Wrap(n) == n % (AddressMax + 1)

page_floor(address) == address - (address % pageSize)

page_ceil(address) ==
    IF address % pageSize = 0 \/ AddressMax - pageSize < address
    THEN address
    ELSE page_floor(address + pageSize)

\* Mutant of get_page_range: the end of the region is taken for its start.
get_page_range_empty(virtual_base, length) ==
    [first_page |-> page_floor(virtual_base), last_page |-> page_floor(virtual_base)]

\* The pages from first_page up to, and without, last_page.
get_page_range(virtual_base, length) ==
    [first_page |-> page_floor(virtual_base),
     last_page  |-> IF Wrap(page_floor(AddressMax) - length) < virtual_base
                    THEN page_floor(AddressMax)
                    ELSE page_ceil(virtual_base + length)]
=============================================================================
