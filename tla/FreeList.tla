------------------------------ MODULE FreeList ------------------------------
(***************************************************************************)
(* The allocator behind vmalloc and vfree: a doubly linked list of free    *)
(* blocks in address order, first fit, blocks carved from the end of a     *)
(* free block, and neighbours merged when a block is freed                 *)
(* (kernel/include/kernel/FreeListAllocator.cpp); and the regions          *)
(* vmm_init gives it (paging_get_initial_free_regions, paging.cpp); and    *)
(* test_allocator (tests.cpp), which runs between vmm_init and the first   *)
(* vmalloc and gives the first region to a second allocator.               *)
(*                                                                         *)
(* A word is 8 bytes.  free and used are the headers in memory, by         *)
(* address.  Nothing but the allocator writes headers, so each operation   *)
(* is one step, until an operation writes or follows a pointer that is not *)
(* to a free header: what the code does then depends on the contents of    *)
(* foreign memory, and the model stops (Corrupt).                          *)
(***************************************************************************)
EXTENDS Integers, Sequences, FiniteSets, FiniteSetsExt, SequencesExt

CONSTANTS
    Unavailable,    \* unavailable_virtual_memory_ranges: records of base and size
    FirstBase,      \* 0x1000, where the search for free regions starts
    SizeMax,        \* the largest size_t
    Requests,       \* the sizes vmalloc is called with
    TestRequests,   \* the sizes test_allocator asks for, in order
    free_region_max_size

null  == 0
magic == -1         \* UsedBlockHeader::magic_constant, never a block's address

used_header == 2    \* sizeof(UsedBlockHeader): size, magic
free_header == 3    \* sizeof(FreeBlockHeader): size, next, prev

Wrap(n) == n % (SizeMax + 1)

\* The array of free regions has 16 elements.
ASSUME RangeAssumption ==
    /\ SizeMax \in Nat
    /\ Unavailable \in Seq([base : 1 .. SizeMax, size : 0 .. SizeMax])
    /\ Len(Unavailable) <= 16
    /\ FirstBase \in 1 .. SizeMax

\* No request is so large that adding the header overflows.
ASSUME RequestAssumption ==
    /\ Requests \subseteq 0 .. SizeMax - used_header
    /\ TestRequests \in Seq(1 .. SizeMax - used_header) /\ TestRequests # <<>>

-----------------------------------------------------------------------------
(* The free regions. *)

\* base and free_regions after n rounds of the loop.
scan[n \in 0 .. Len(Unavailable)] ==
    IF n = 0 THEN [base |-> FirstBase, regions |-> <<>>]
    ELSE LET before == scan[n - 1]
             start  == Unavailable[n].base
             end    == Wrap(start + Unavailable[n].size)
         IN  IF before.base >= start
             THEN [before EXCEPT !.base = Max({@, end})]
             ELSE [base    |-> end,
                   regions |-> Append(before.regions, [base |-> before.base,
                                                       size |-> start - before.base])]

paging_get_initial_free_regions == scan[Len(Unavailable)].regions

Regions == paging_get_initial_free_regions

\* The unavailable ranges leave room for the words that add_memory takes behind
\* a region.
ASSUME RegionAssumption ==
    /\ Regions \in Seq([base : 1 .. SizeMax, size : 1 .. SizeMax]) /\ Regions # <<>>
    /\ free_region_max_size \in 0 .. Regions[1].size
    /\ \A i \in DOMAIN Regions : Regions[i].base + Regions[i].size + used_header <= SizeMax
    /\ \A i, j \in DOMAIN Regions :
          i < j => Regions[i].base + Regions[i].size + used_header <= Regions[j].base

-----------------------------------------------------------------------------
VARIABLES
    head,       \* head of the allocator in use
    vmm_head,   \* head of vmm.cpp's allocator while test_allocator's is in use
    stage,      \* "boot", "construct", "test", "release" or "running"
    p,          \* the blocks test_allocator holds: p1, p2, p3
    free,       \* address -> size, next and prev of the free header there
    used,       \* address -> size of the used header there
    added,      \* the regions vmm_init has added
    lost,       \* words no header accounts for any more
    stray,      \* whether a word outside the free headers was written
    panic,      \* whether the allocator ran out of memory
    asked       \* the size last asked for, by vmalloc's caller or the test

testVars == <<vmm_head, stage, p>>

vars == <<head, free, used, added, lost, stray, panic, asked, testVars>>

Init ==
    /\ head = null
    /\ free = <<>> /\ used = <<>>
    /\ added = 0 /\ lost = 0
    /\ stray = FALSE /\ panic = FALSE /\ asked = 0
    /\ vmm_head = null /\ stage = "boot" /\ p = <<>>

real_size(b) == Wrap(free[b].size + free_header)

\* The addresses a walk along the next pointers meets, from head on.
walk ==
    LET block[n \in 0 .. Cardinality(DOMAIN free)] ==
            IF n = 0 THEN head
            ELSE IF block[n - 1] \in DOMAIN free THEN free[block[n - 1]].next
            ELSE block[n - 1]
    IN  block

\* A walk ends at null, at a pointer to no free block, or not at all.
Corrupt == stray \/ walk[Cardinality(DOMAIN free)] # null

Ready == ~Corrupt /\ ~panic

-----------------------------------------------------------------------------
(* deallocate_impl and add_memory_impl. *)

touches(b, size, next) == next # null /\ next = Wrap(b + size)

\* Mutant of coalesce_next: the absorbed block stays in the list.
coalesce_next_linked(b, block) ==
    IF touches(b, Wrap(block.size + free_header), block.next)
    THEN [block EXCEPT !.size = Wrap(@ + real_size(block.next))]
    ELSE block

\* Mutant of coalesce_next: only the lower neighbour is merged.
coalesce_next_never(b, block) == block

\* Only the next pointer of the block at b moves: that of prev still leads to
\* it, and the prev of the block after the absorbed one leads to nothing.
coalesce_next(b, block) ==
    IF touches(b, Wrap(block.size + free_header), block.next)
    THEN [block EXCEPT !.size = Wrap(@ + real_size(block.next)),
                       !.next = free[block.next].next]
    ELSE block

\* The header at prev once the block at b is linked behind it.
coalesce_prev(b, block, prev) ==
    IF touches(prev, real_size(prev), b)
    THEN [free[prev] EXCEPT !.size = Wrap(@ + block.size + free_header), !.next = block.next]
    ELSE [free[prev] EXCEPT !.next = b]

link_back(curr, b) == [free[curr] EXCEPT !.prev = b]

\* The headers after a block of size words at b, not in the list, has been
\* linked between prev and curr and merged with them where they touch.
insert(b, size, prev, curr) ==
    LET linked == [size |-> Wrap(size - free_header), next |-> curr, prev |-> prev]
        block  == coalesce_next(b, linked)
        absorbed == (IF block # linked THEN {curr} ELSE {})
                        \cup (IF prev # null /\ touches(prev, real_size(prev), b)
                              THEN {b} ELSE {})
    IN  [c \in (DOMAIN free \cup {b}) \ absorbed |->
            CASE c = b    -> block
              [] c = prev -> coalesce_prev(b, block, prev)
              [] c = curr -> link_back(curr, b)
              [] OTHER    -> free[c]]

\* Frees the block at b, size words with its header, which is too small for a
\* free header if nothing was asked of it.
release(b, size) ==
    LET n    == Min({i \in DOMAIN walk : walk[i] = null \/ walk[i] >= b})
        prev == IF n = 0 THEN null ELSE walk[n - 1]
    IN  /\ free' = insert(b, size, prev, walk[n])
        /\ head' = IF prev = null THEN b ELSE head
        /\ stray' = (size < free_header)

\* Mutant of deallocate: the header's words are forgotten.
deallocate_headless(b) ==
    /\ release(b, used[b])
    /\ used' = Restrict(used, DOMAIN used \ {b})
    /\ UNCHANGED <<lost, panic>>

deallocate(b) ==
    /\ release(b, used[b] + used_header)
    /\ used' = Restrict(used, DOMAIN used \ {b})
    /\ UNCHANGED <<lost, panic>>

\* The region becomes a used block whose size is that of the region, and that
\* block is freed.
add_memory(base, size) ==
    /\ release(base, size + used_header)
    /\ UNCHANGED <<used, lost, panic>>

-----------------------------------------------------------------------------
(* allocate_impl. *)

can_fit(b, request) == Wrap(request + used_header) <= free[b].size

perfect_fit(b, request) == Wrap(request + used_header) = free[b].size

\* The neighbours' headers once the block at b is taken out of the list.
unlink(b) ==
    [c \in DOMAIN free \ {b} |->
        [free[c] EXCEPT !.next = IF c = free[b].prev THEN free[b].next ELSE @,
                        !.prev = IF c = free[b].next THEN free[b].prev ELSE @]]

\* The used header is written over the free one before head is read from it:
\* magic is where next was.
reserve_entire(b, request) ==
    /\ free' = unlink(b)
    /\ stray' = (free[b].prev # null /\ free[b].prev \notin DOMAIN free)
    /\ used' = [a \in DOMAIN used \cup {b} |-> IF a = b THEN request ELSE used[a]]
    /\ head' = IF b = head THEN magic ELSE head
    /\ lost' = lost + free_header

\* Mutant of reserve_end: the free block does not shrink by the header.
reserve_end_overlap(b, request) ==
    LET allocation_size    == request + used_header
        allocation_address == b + real_size(b) - allocation_size
    IN  /\ free' = [free EXCEPT ![b].size = @ - request]
        /\ used' = [a \in DOMAIN used \cup {allocation_address} |->
                      IF a = allocation_address THEN request ELSE used[a]]
        /\ UNCHANGED <<head, lost, stray>>

\* Mutant of reserve_end: the header is taken from the words asked for.
reserve_end_short(b, request) ==
    LET allocation_size    == Max({request, used_header})
        allocation_address == b + real_size(b) - allocation_size
    IN  /\ free' = [free EXCEPT ![b].size = @ - allocation_size]
        /\ used' = [a \in DOMAIN used \cup {allocation_address} |->
                      IF a = allocation_address THEN allocation_size - used_header ELSE used[a]]
        /\ UNCHANGED <<head, lost, stray>>

reserve_end(b, request) ==
    LET allocation_size    == request + used_header
        allocation_address == b + real_size(b) - allocation_size
    IN  /\ free' = [free EXCEPT ![b].size = @ - allocation_size]
        /\ used' = [a \in DOMAIN used \cup {allocation_address} |->
                      IF a = allocation_address THEN request ELSE used[a]]
        /\ UNCHANGED <<head, lost, stray>>

\* The first block of the list that fits, or null.
first_fit(request) ==
    walk[Min({i \in DOMAIN walk : walk[i] = null \/ can_fit(walk[i], request)})]

allocate(request) ==
    IF first_fit(request) = null
    THEN panic' = TRUE /\ UNCHANGED <<head, free, used, lost, stray>>
    ELSE /\ IF perfect_fit(first_fit(request), request)
            THEN reserve_entire(first_fit(request), request)
            ELSE reserve_end(first_fit(request), request)
         /\ UNCHANGED panic

-----------------------------------------------------------------------------
(* vmm.cpp. *)

vmm_init ==
    /\ Ready /\ stage = "boot" /\ added < Len(Regions)
    /\ add_memory(Regions[added + 1].base, Regions[added + 1].size)
    /\ added' = added + 1
    /\ UNCHANGED <<asked, testVars>>

vmalloc(request) ==
    /\ Ready /\ stage = "running"
    /\ allocate(request)
    /\ asked' = request
    /\ UNCHANGED <<added, testVars>>

vfree(b) ==
    /\ Ready /\ stage = "running"
    /\ deallocate(b)
    /\ UNCHANGED <<added, asked, testVars>>

-----------------------------------------------------------------------------
(* test_allocator. *)

test_construct ==
    /\ Ready /\ stage = "boot" /\ added = Len(Regions)
    /\ vmm_head' = head /\ head' = null
    /\ stage' = "construct"
    /\ UNCHANGED <<free, used, added, lost, stray, panic, asked, p>>

\* The header of the first region is written anew, without its successor.
test_add_memory ==
    /\ Ready /\ stage = "construct"
    /\ add_memory(Regions[1].base, Max({Regions[1].size, free_region_max_size}))
    /\ stage' = "test"
    /\ UNCHANGED <<added, asked, vmm_head, p>>

test_allocate ==
    /\ Ready /\ stage = "test"
    /\ allocate(TestRequests[Len(p) + 1])
    /\ asked' = TestRequests[Len(p) + 1]
    /\ p' = p \o SetToSeq(DOMAIN used' \ DOMAIN used)
    /\ stage' = IF Len(p') = Len(TestRequests) THEN "release" ELSE stage
    /\ UNCHANGED <<added, vmm_head>>

test_deallocate ==
    /\ Ready /\ stage = "release" /\ p # <<>>
    /\ deallocate(Last(p))
    /\ p' = Front(p)
    /\ UNCHANGED <<added, asked, vmm_head, stage>>

\* The test's allocator goes out of scope.
test_end ==
    /\ Ready /\ stage = "release" /\ p = <<>>
    /\ head' = vmm_head
    /\ stage' = "running"
    /\ UNCHANGED <<free, used, added, lost, stray, panic, asked, vmm_head, p>>

kernel_hang == (panic \/ Corrupt) /\ UNCHANGED vars

Next ==
    \/ vmm_init
    \/ test_construct \/ test_add_memory \/ test_allocate \/ test_deallocate \/ test_end
    \/ \E request \in Requests : vmalloc(request)
    \/ \E b \in DOMAIN used : vfree(b)
    \/ kernel_hang

Spec == Init /\ [][Next]_vars

-----------------------------------------------------------------------------
(* Properties. *)

ListAddresses == {walk[i] : i \in DOMAIN walk} \ {null}

FreeWords(b) == b .. b + real_size(b) - 1
UsedWords(b) == b .. b + used[b] + used_header - 1

\* The words add_memory turned into a free block: those of the region and, since
\* the region's size goes into a header that counts only the words behind it,
\* two more.
TakenFrom(i) == Regions[i].base .. Regions[i].base + Regions[i].size + used_header - 1

TakenWords == UNION {TakenFrom(i) : i \in 1 .. added}

\* The regions themselves: what vmm_init has given to the allocator.
GivenWords ==
    UNION {Regions[i].base .. Regions[i].base + Regions[i].size - 1 : i \in 1 .. added}

\* What the allocator in use took.  test_allocator writes the first region's
\* header anew, and with it goes the only pointer to the other regions.
ManagedWords ==
    CASE stage = "boot"      -> TakenWords
      [] stage = "construct" -> {}
      [] OTHER               -> TakenFrom(1)

\* No word belongs to two blocks, headers included, and every block lies in
\* the words add_memory took: first fit, splitting and merging never hand out
\* or reclaim a word of another block, or of one the list never had.
BlocksDisjoint ==
    /\ \A b \in DOMAIN free : FreeWords(b) \subseteq TakenWords
    /\ \A b \in DOMAIN used : UsedWords(b) \subseteq TakenWords
    /\ \A b \in DOMAIN free : \A c \in DOMAIN free \ {b} : FreeWords(b) \cap FreeWords(c) = {}
    /\ \A b \in DOMAIN used : \A c \in DOMAIN used \ {b} : UsedWords(b) \cap UsedWords(c) = {}
    /\ \A b \in DOMAIN free : \A c \in DOMAIN used : FreeWords(b) \cap UsedWords(c) = {}

\* As long as its pointers are sound the list holds every free block the
\* allocator took, in address order, and no two of them could have been
\* merged; vmm.cpp's list is that of the first region alone once test_allocator
\* is over, whatever regions vmm_init added.
ListComplete ==
    ~Corrupt =>
        /\ ListAddresses = DOMAIN free \cap ManagedWords
        /\ \A b \in ListAddresses :
              /\ free[b].next = null \/ free[b].next > b
              /\ b + real_size(b) \notin ListAddresses

\* No word it took disappears, except the three that an exact fit takes
\* without noting them in the used header: test_allocator gives everything back.
WordsAccounted ==
    stage # "construct" =>
        Cardinality(ManagedWords) =
            lost + MapThenSumSet(real_size, DOMAIN free \cap ManagedWords)
                 + MapThenSumSet(LAMBDA b : used[b] + used_header, DOMAIN used)

\* The list is destroyed only by freeing a block of no words, or by an exact
\* fit of the first block or of one whose prev pointer is stale.
CorruptionCauses ==
    [][~Corrupt /\ Corrupt' =>
          \/ \E b \in DOMAIN used \ DOMAIN used' : used[b] = 0
          \/ \E b \in DOMAIN free \cap DOMAIN used' :
                b = head \/ ~(free[b].prev \in DOMAIN free /\ free[free[b].prev].next = b)]_vars

\* The blocks in use, by what their headers say.
HeapBlocks == {[base |-> b + used_header, size |-> used[b]] : b \in DOMAIN used}

HeapWords == 0 .. SizeMax

H == INSTANCE Heap WITH Sizes <- Requests \cup Range(TestRequests), Words <- HeapWords,
                        Overrun <- used_header, memory <- GivenWords, held <- HeapBlocks

\* vmalloc and vfree behave as a heap over the regions given to vmm_init: every
\* caller gets as many words as it asked for, and nobody else has any of them
\* until that block is freed.  A block may reach two words behind its region,
\* those add_memory takes by mistake, and no further.
HeapSpec == H!Spec

\* vmm.h: "Allocate a contiguous region of virtual address space."  Whatever
\* blocks were allocated and freed before, the next vmalloc finds a sound list.
ListIntact == ~Corrupt
=============================================================================
