------------------------------- MODULE PageTree -------------------------------
(***************************************************************************)
(* The four-level page tree (kernel/src/PageTree.cpp, PageTreeNode.cpp).   *)
(* Addresses are counted in pages and frames.  map_page_to_frame takes one *)
(* step per iteration of its loop; the tables it needs come from           *)
(* allocate_frame, of which only the contract (FramePool) is used: it      *)
(* returns some free frame.                                                *)
(***************************************************************************)
EXTENDS Integers

CONSTANTS
    Fanout,         \* entries in a table: 512
    Pages,          \* the pages that are mapped and looked up
    Frames,         \* the frames they are mapped to
    FlagSets,       \* the flags they are mapped with, as sets
    TableFrames,    \* frames allocate_frame may return
    AddressLimit    \* get_child_address keeps addresses below it: 2^20 frames

Present == "Present"
Write   == "Write"

ASSUME PageAssumption ==
    /\ Fanout \in Nat \ {0}
    /\ Pages \subseteq 0 .. Fanout * Fanout * Fanout * Fanout - 1
    /\ Frames \subseteq Nat
    /\ \A flags \in FlagSets : flags \subseteq {Write, "User", "WriteThrough", "CacheDisable"}

\* The machine's frames start at 0, so what a truncated address points to is
\* memory too.
ASSUME TableAssumption ==
    /\ AddressLimit \in Nat \ {0}
    /\ TableFrames \subseteq Nat \ {0}
    /\ \A f \in TableFrames : f % AddressLimit \in TableFrames \cup {0}

max_depth == 3

Indices == 0 .. Fanout - 1

VARIABLES
    entries_,       \* the contents of every frame, read as a PageTreeNode
    free,           \* frames allocate_frame may still return
    root_,
    phase,          \* "boot", "ready", "mapping" or "panic"
    call,           \* the arguments of map_page_to_frame
    curr, depth     \* its local variables

vars == <<entries_, free, root_, phase, call, curr, depth>>

-----------------------------------------------------------------------------
(* PageTreeNode.  An entry's low 8 bits are flags, the rest an address. *)

Empty == [address |-> 0, flags |-> {}]

\* The index of the page in a table of the given depth: the bits from bit 39,
\* 30, 21 and 12 of its address.
get_table_index(page, d) ==
    CASE d = 0 -> (page \div (Fanout * Fanout * Fanout)) % Fanout
      [] d = 1 -> (page \div (Fanout * Fanout)) % Fanout
      [] d = 2 -> (page \div Fanout) % Fanout
      [] d = 3 -> page % Fanout

\* The mask 0xffffffff << 12 is computed in 32 bits.
get_child_address(node, i) == entries_[node][i].address % AddressLimit

get_child_flags(node, i) == entries_[node][i].flags

\* Mutant of set_child_address: the old address is not cleared.
set_child_address_kept(e, address) ==
    [e EXCEPT !.address = IF @ = 0 THEN address ELSE @]

\* The whole entry is cleared first: the mask (~0xffffffff) << 12 is 0.
set_child_address(e, address) == [address |-> address, flags |-> {}]

\* Mutant of set_child_flags: the flags are not set.
set_child_flags_dropped(e, flags) == [e EXCEPT !.flags = @ \cup {Present}]

set_child_flags(e, flags) == [e EXCEPT !.flags = flags \cup {Present}]

-----------------------------------------------------------------------------
(* PageTree. *)

Init ==
    /\ entries_ = [f \in TableFrames |-> [i \in Indices |-> Empty]]
    /\ free = TableFrames
    /\ root_ = 0
    /\ phase = "boot"
    /\ call \in [page : Pages, frame : Frames, flags : FlagSets]
    /\ curr = 0 /\ depth = 0

\* paging_init takes a frame for the root.
construct(f) ==
    /\ phase = "boot"
    /\ f \in free /\ free' = free \ {f}
    /\ entries_' = [entries_ EXCEPT ![f] = [i \in Indices |-> Empty]]
    /\ root_' = f
    /\ phase' = "ready"
    /\ UNCHANGED <<call, curr, depth>>

map_page_to_frame(page, frame, flags) ==
    /\ phase = "ready"
    /\ phase' = "mapping"
    /\ call' = [page |-> page, frame |-> frame, flags |-> flags]
    /\ curr' = root_
    /\ depth' = 0
    /\ UNCHANGED <<entries_, free, root_>>

\* Mutant of Walking: the loop runs once too often.
Walking_deep == phase = "mapping" /\ depth <= max_depth

Walking == phase = "mapping" /\ depth < max_depth

child_index == get_table_index(call.page, depth)

child_address == get_child_address(curr, child_index)

\* The child exists: its flags are replaced.
descend ==
    /\ Walking /\ child_address # 0
    /\ entries_' = [entries_ EXCEPT ![curr][child_index] =
                       set_child_flags(@, call.flags)]
    /\ curr' = child_address
    /\ depth' = depth + 1
    /\ UNCHANGED <<free, root_, phase, call>>

\* Mutant of grow: the entry is filled in, but the walk stays in the old
\* table, as if next were not updated.
grow_stays(f) ==
    /\ Walking /\ child_address = 0
    /\ f \in free /\ free' = free \ {f}
    /\ entries_' =
          [entries_ EXCEPT ![f] = [i \in Indices |-> Empty],
                           ![curr][child_index] =
                               set_child_flags(set_child_address(@, f), call.flags)]
    /\ depth' = depth + 1
    /\ UNCHANGED <<root_, phase, call, curr>>

\* The child does not exist: an empty table is made for it.
grow(f) ==
    /\ Walking /\ child_address = 0
    /\ f \in free /\ free' = free \ {f}
    /\ entries_' =
          [entries_ EXCEPT ![f] = [i \in Indices |-> Empty],
                           ![curr][child_index] =
                               set_child_flags(set_child_address(@, f), call.flags)]
    /\ curr' = f
    /\ depth' = depth + 1
    /\ UNCHANGED <<root_, phase, call>>

\* allocate_frame panics when there is no free frame.
out_of_frames ==
    /\ free = {}
    /\ phase = "boot" \/ (Walking /\ child_address = 0)
    /\ phase' = "panic"
    /\ UNCHANGED <<entries_, free, root_, call, curr, depth>>

\* The last level: the page's own entry is set.
set_leaf ==
    /\ phase = "mapping" /\ depth = max_depth
    /\ entries_' = [entries_ EXCEPT ![curr][child_index] =
                       set_child_flags(set_child_address(@, call.frame), call.flags)]
    /\ phase' = "ready"
    /\ UNCHANGED <<free, root_, call, curr, depth>>

kernel_hang == phase = "panic" /\ UNCHANGED vars

Next ==
    \/ \E f \in free : construct(f) \/ grow(f)
    \/ \E p \in Pages, f \in Frames, flags \in FlagSets : map_page_to_frame(p, f, flags)
    \/ descend \/ out_of_frames \/ set_leaf \/ kernel_hang

Spec == Init /\ [][Next]_vars

\* The child of a table on the way to a page; null has no children.
child(node, page, d) ==
    IF node = 0 THEN 0 ELSE get_child_address(node, get_table_index(page, d))

\* The table of depth d on the way to a page, or null.
table(page, d) ==
    CASE d = 0 -> root_
      [] d = 1 -> child(root_, page, 0)
      [] d = 2 -> child(child(root_, page, 0), page, 1)
      [] d = 3 -> child(child(child(root_, page, 0), page, 1), page, 2)

get_translation(page) ==
    LET t == table(page, max_depth)
        i == get_table_index(page, max_depth)
    IN  IF t = 0 THEN Empty
        ELSE [address |-> get_child_address(t, i), flags |-> get_child_flags(t, i)]

\* What the processor finds on its own walk: the four entries on the way to a
\* page, and the flags set in all of them.
Entry(page, d) == entries_[table(page, d)][get_table_index(page, d)]

Reached(page) == table(page, max_depth) # 0

effective_flags(page) ==
    {fl \in Entry(page, max_depth).flags :
        \A d \in 0 .. max_depth - 1 : fl \in Entry(page, d).flags}

-----------------------------------------------------------------------------
(* Properties. *)

Entries == [address : Nat, flags : SUBSET {Present, Write, "User", "WriteThrough", "CacheDisable"}]

\* Every table holds addresses and page flags only, and the walk stays
\* between the root and the leaves.
TypeOK ==
    /\ entries_ \in [TableFrames -> [Indices -> Entries]]
    /\ free \subseteq TableFrames
    /\ root_ \in TableFrames \cup {0}
    /\ phase \in {"boot", "ready", "mapping", "panic"}
    /\ call \in [page : Pages, frame : Frames, flags : FlagSets]
    /\ curr \in TableFrames \cup {0}
    /\ depth \in 0 .. max_depth

\* get_child_address loses nothing: every frame lies below 4 GiB.
AllAddressable == TableFrames \cup Frames \subseteq 0 .. AddressLimit - 1

SamePath(p, q, d) == \A k \in 0 .. d - 1 : get_table_index(p, k) = get_table_index(q, k)

\* The tables form a tree: a table is reached at one depth and by one prefix
\* of the page only, so no two pages share a table by accident, and no table
\* in use is free to be handed out again.
TreeShape ==
    AllAddressable =>
        \A p, q \in Pages, d, e \in 0 .. max_depth :
            table(p, d) # 0 =>
                /\ table(p, d) \notin free
                /\ table(p, d) = table(q, e) => d = e /\ SamePath(p, q, d)

\* map_page_to_frame leaves the page with the access it was asked for: the
\* processor sees exactly these flags, whatever the tables on the way had.
MapTakesEffect ==
    [][AllAddressable /\ set_leaf =>
          effective_flags(call.page)' = call.flags \cup {Present}]_vars

\* The tree implements the abstract page map: looking a page up gives what it
\* was last mapped to, and mapping a page changes no other page.
Map == INSTANCE PageMap WITH
           FlagSets <- {flags \cup {Present} : flags \in FlagSets},
           Unmapped <- Empty,
           request <- [call EXCEPT !.flags = @ \cup {Present}],
           translation <- [p \in Pages |-> get_translation(p)]

PageMapSpec == Map!Spec
=============================================================================
