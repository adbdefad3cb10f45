---------------------------- MODULE VirtualMemory ----------------------------
(***************************************************************************)
(* Demand paging: the page-fault handler (kernel/src/idt.cpp) on top of    *)
(* paging_allocate_and_map, the end-of-interrupt it sends to the local     *)
(* APIC, and vmalloc/vfree, whose memory is backed by frames only when it  *)
(* is first touched.                                                       *)
(*                                                                         *)
(* The page tree is used through its contract (PageMap): tree[page] is the *)
(* frame of a page, or NoFrame.  The frame allocator is its free stack; an *)
(* instruction that faults is retried when the handler returns, and the    *)
(* handler's own end-of-interrupt may fault too, so handlers nest.         *)
(* Nothing in the kernel executes invlpg: when a mapping is replaced, the  *)
(* processor may go on using the old one for as long as it likes.          *)
(***************************************************************************)
EXTENDS PageRange, Sequences, SequencesExt

CONSTANTS
    InitialTree,    \* page -> frame or NoFrame, as add_initial_mappings leaves it
    FreeFrames,     \* the free stack, a sequence of frames, at that point
    m_maxSize,      \* its capacity
    RegionBases,    \* the free regions vmm_init adds, in its order
    HeapAddresses,  \* addresses of the virtual memory vmm_init was given
    Blocks,         \* addresses vmalloc may return
    eoiRegister,    \* LAPIC_EOI_REGISTER, 0xB0
    apicAddress,    \* the local APIC's virtual address
    apicFrame,
    read_vpage,     \* the two pages of test_paging
    write_vpage,
    MaxTables       \* tables map_page_to_frame may have to allocate: 3

NoFrame == -1
NoPage == -1
NullAddress == 0

TestPages == {read_vpage, write_vpage}

PageBases == {a \in Addresses : a % pageSize = 0}

HeapPages == {page_floor(a) : a \in HeapAddresses}

FrameNumbers ==
    Range(FreeFrames) \cup {apicFrame, 0}
        \cup {InitialTree[p] : p \in {q \in PageBases : InitialTree[q] # NoFrame}}

EOIPages == {page_floor(eoiRegister), page_floor(eoiRegister) + pageSize}

\* The heap is virtual memory nothing else uses: no page that is mapped at the
\* boot, not the APIC's, nor the first two, where a write through null lands.
\* The pages the kernel writes to with the mapping of the boot, should the
\* processor have kept it, show no frame of the free stack.
ASSUME LayoutAssumption ==
    /\ InitialTree \in [PageBases -> Nat \cup {NoFrame}]
    /\ m_maxSize \in Nat /\ Len(FreeFrames) <= m_maxSize
    /\ FreeFrames \in Seq(Nat) /\ IsInjective(FreeFrames)
    /\ RegionBases \in Seq(HeapAddresses)
    /\ HeapAddresses \subseteq 0 .. page_floor(AddressMax) - 1
    /\ \A b \in Blocks : {b - 1, b} \subseteq HeapAddresses
    /\ \A p \in HeapPages : InitialTree[p] = NoFrame
    /\ HeapPages \cap (EOIPages \cup {page_floor(apicAddress)}) = {}
    /\ eoiRegister \in 0 .. page_floor(AddressMax) - 1
    /\ {apicAddress, apicAddress + eoiRegister} \subseteq Addresses
    /\ page_floor(apicAddress + eoiRegister) = page_floor(apicAddress)
    /\ apicFrame \in Nat \ Range(FreeFrames)
    /\ TestPages \subseteq {p \in PageBases : InitialTree[p] # NoFrame}
    /\ \A p \in {page_floor(eoiRegister), page_floor(apicAddress), write_vpage} :
          InitialTree[p] \notin Range(FreeFrames)
    /\ MaxTables \in Nat

VARIABLES
    tree, free_stack,
    tlb,            \* the replaced frame the processor still has for a page
    regions,        \* how many regions vmm_init has added
    baseAddress,    \* LocalAPIC::baseAddress
    access,         \* the memory access in progress outside the handlers
    handlers,       \* the activations of isr_page_fault, innermost first
    allocated,      \* the blocks vmalloc returned and vfree has not yet freed
    vfreed,         \* whether vfree was ever called
    phase,          \* "boot", "tests", "running" or "panic"
    reached,        \* history: the frame the last access to a heap page used
    overlaid,       \* history: mapped pages above a page that faulted inside
    writer          \* history: the page through which a frame was last written

memoryVars == <<tree, free_stack, tlb>>
historyVars == <<reached, overlaid, writer>>

vars == <<memoryVars, regions, baseAddress, access, handlers, allocated, vfreed, phase,
          historyVars>>

bootVars == <<regions, baseAddress>>

NoAccess == [op |-> "none", address |-> NullAddress, block |-> NullAddress]

Mapped(address) == tree[page_floor(address)] # NoFrame

\* The frame an access uses: a cached translation goes before the page tree.
translation(page) == IF tlb[page] # NoFrame THEN tlb[page] ELSE tree[page]

\* The last of the writes to a frame is one through page.
write_through(page, frame) == writer' = [writer EXCEPT ![frame] = page]

Idle == access.op = "none" /\ handlers = <<>> /\ phase # "panic"

Init ==
    /\ tree = InitialTree
    /\ free_stack = FreeFrames
    /\ regions = 0
    /\ baseAddress = NullAddress
    /\ access = NoAccess
    /\ handlers = <<>>
    /\ allocated = {}
    /\ vfreed = FALSE
    /\ phase = "boot"
    /\ tlb = [p \in PageBases |-> NoFrame]
    /\ reached = [p \in HeapPages |-> NoFrame]
    /\ overlaid = {}
    /\ writer = [f \in FrameNumbers |-> NoPage]

\* map_page_to_frame on every one of pages: the processor keeps the
\* translations it happens to have cached.
map_pages(pages, frame) ==
    /\ tree' = [p \in PageBases |-> IF p \in pages THEN frame ELSE tree[p]]
    /\ \E cached \in SUBSET pages :
           tlb' = [p \in PageBases |->
                      IF p \notin pages THEN tlb[p]
                      ELSE IF p \in cached /\ translation(p) # frame THEN translation(p)
                      ELSE NoFrame]

\* The processor drops a translation of its own accord.
evict(page) ==
    /\ tlb[page] # NoFrame /\ phase # "panic"
    /\ tlb' = [tlb EXCEPT ![page] = NoFrame]
    /\ UNCHANGED <<tree, free_stack, bootVars, access, handlers, allocated, vfreed, phase,
                   historyVars>>

-----------------------------------------------------------------------------
(* What the kernel does outside the handlers. *)

begin_access(op, address, block) ==
    /\ Idle
    /\ access' = [op |-> op, address |-> address, block |-> block]
    /\ UNCHANGED <<memoryVars, baseAddress, handlers, allocated, vfreed, phase, historyVars>>

\* vmm_init writes a block header at the start of every free region.
vmm_init ==
    /\ regions < Len(RegionBases)
    /\ begin_access("touch", RegionBases[regions + 1], NullAddress)
    /\ regions' = regions + 1

\* The APIC's page is mapped before baseAddress is set, and then two of its
\* registers are written.
enableAPIC ==
    /\ Idle /\ phase = "boot" /\ regions = Len(RegionBases)
    /\ map_pages({page_floor(apicAddress)}, apicFrame)
    /\ baseAddress' = apicAddress
    /\ phase' = "tests"
    /\ write_through(page_floor(apicAddress), translation(page_floor(apicAddress))')
    /\ UNCHANGED <<free_stack, regions, access, handlers, allocated, vfreed, reached, overlaid>>

\* test_paging maps two pages of the identity map to one new frame and writes
\* through one of them; the tables on the way exist.
test_paging ==
    /\ Idle /\ phase = "tests"
    /\ IF free_stack = <<>>
       THEN phase' = "panic" /\ UNCHANGED <<memoryVars, writer>>
       ELSE /\ phase' = "running"
            /\ map_pages(TestPages, Head(free_stack))
            /\ free_stack' = Tail(free_stack)
            /\ write_through(write_vpage, translation(write_vpage)')
    /\ UNCHANGED <<bootVars, access, handlers, allocated, vfreed, reached, overlaid>>

\* The user of a block, or the list of free blocks, touches the heap.
touch(address) ==
    /\ phase = "running" /\ begin_access("touch", address, NullAddress)
    /\ UNCHANGED regions

\* vmalloc and vfree access the header that precedes the block.
vmalloc(b) ==
    /\ phase = "running" /\ b \notin allocated
    /\ begin_access("vmalloc", b - 1, b)
    /\ UNCHANGED regions

vfree(b) ==
    /\ phase = "running" /\ b \in allocated
    /\ begin_access("vfree", b - 1, b)
    /\ UNCHANGED regions

\* Mutant of push: a full stack is not refused.
push_unchecked(frame) == <<frame>> \o free_stack

push(frame) == IF Len(free_stack) = m_maxSize THEN free_stack ELSE <<frame>> \o free_stack

\* The frame vfree gives back, 0 where the block's page was never touched: more
\* than the code does, whose free header reaches into the block.
physical_address(address) == IF Mapped(address) THEN tree[page_floor(address)] ELSE 0

complete_access ==
    /\ access.op # "none" /\ handlers = <<>> /\ phase # "panic"
    /\ Mapped(access.address)
    /\ access' = NoAccess
    /\ CASE access.op = "vmalloc" ->
              allocated' = allocated \cup {access.block} /\ UNCHANGED <<free_stack, vfreed>>
         [] access.op = "vfree" ->
              /\ allocated' = allocated \ {access.block}
              /\ free_stack' = push(physical_address(access.block))
              /\ vfreed' = TRUE
         [] OTHER -> UNCHANGED <<allocated, free_stack, vfreed>>
    /\ LET page == page_floor(access.address)
       IN  /\ reached' = [reached EXCEPT ![page] = translation(page)]
           /\ write_through(page, translation(page))
    /\ UNCHANGED <<tree, tlb, bootVars, handlers, phase, overlaid>>

-----------------------------------------------------------------------------
(* isr_page_fault. *)

\* paging_allocate_and_map(cr2, pageSize, Write) computes its range once.
Activation(cr2) ==
    LET range == get_page_range(cr2, pageSize)
    IN  [cr2 |-> cr2, page |-> range.first_page, last_page |-> range.last_page]

page_fault ==
    /\ access.op # "none" /\ handlers = <<>> /\ phase # "panic"
    /\ ~Mapped(access.address)
    /\ handlers' = <<Activation(access.address)>>
    /\ LET above == page_floor(access.address) + pageSize
       IN  overlaid' = IF access.address % pageSize # 0 /\ tree[above] # NoFrame
                       THEN overlaid \cup {above}
                       ELSE overlaid
    /\ UNCHANGED <<memoryVars, bootVars, access, allocated, vfreed, phase, reached, writer>>

InHandler == handlers # <<>> /\ phase # "panic"

current == Head(handlers)

\* The tables that are taken from the stack are written when the mapping is.
write_tables(tables) ==
    writer' = [f \in FrameNumbers |->
                  IF f \in Range(SubSeq(free_stack, 2, tables + 1)) THEN NoPage ELSE writer[f]]

\* Mutant of allocate_and_map: the frame of a mapping that is replaced is given
\* back to the allocator.
allocate_and_map_reclaims(tables) ==
    /\ InHandler /\ current.page # current.last_page
    /\ IF tables + 1 <= Len(free_stack)
       THEN /\ map_pages({current.page}, free_stack[1])
            /\ LET left == SubSeq(free_stack, tables + 2, Len(free_stack))
               IN  free_stack' = IF tree[current.page] = NoFrame
                                 THEN left
                                 ELSE <<tree[current.page]>> \o left
            /\ handlers' = [handlers EXCEPT ![1].page = Wrap(@ + pageSize)]
            /\ write_tables(tables)
            /\ UNCHANGED phase
       ELSE phase' = "panic" /\ UNCHANGED <<memoryVars, handlers, writer>>
    /\ UNCHANGED <<bootVars, access, allocated, vfreed, reached, overlaid>>

\* One round of the loop: a frame for the page, and the tables the tree needs
\* for it; without enough frames allocate_frame panics.
allocate_and_map(tables) ==
    /\ InHandler /\ current.page # current.last_page
    /\ IF tables + 1 <= Len(free_stack)
       THEN /\ map_pages({current.page}, free_stack[1])
            /\ free_stack' = SubSeq(free_stack, tables + 2, Len(free_stack))
            /\ handlers' = [handlers EXCEPT ![1].page = Wrap(@ + pageSize)]
            /\ write_tables(tables)
            /\ UNCHANGED phase
       ELSE phase' = "panic" /\ UNCHANGED <<memoryVars, handlers, writer>>
    /\ UNCHANGED <<bootVars, access, allocated, vfreed, reached, overlaid>>

\* Mutant of sendEndOfInterrupt: a fault of the write itself is not handled.
sendEndOfInterrupt_waits ==
    /\ InHandler /\ current.page = current.last_page
    /\ handlers' = IF Mapped(baseAddress + eoiRegister)
                   THEN Tail(handlers)
                   ELSE handlers
    /\ UNCHANGED <<memoryVars, bootVars, access, allocated, vfreed, phase, historyVars>>

\* The end-of-interrupt is a write through baseAddress, null during the boot.
sendEndOfInterrupt ==
    /\ InHandler /\ current.page = current.last_page
    /\ IF Mapped(baseAddress + eoiRegister)
       THEN /\ handlers' = Tail(handlers)
            /\ LET page == page_floor(baseAddress + eoiRegister)
               IN  write_through(page, translation(page))
       ELSE /\ handlers' = <<Activation(baseAddress + eoiRegister)>> \o handlers
            /\ UNCHANGED writer
    /\ UNCHANGED <<memoryVars, bootVars, access, allocated, vfreed, phase, reached, overlaid>>

kernel_hang == phase = "panic" /\ UNCHANGED vars

Proceed ==
    \/ complete_access \/ page_fault \/ sendEndOfInterrupt
    \/ \E tables \in 0 .. MaxTables : allocate_and_map(tables)

Next ==
    \/ Proceed \/ vmm_init \/ enableAPIC \/ test_paging \/ kernel_hang
    \/ \E p \in PageBases : evict(p)
    \/ \E a \in HeapAddresses : touch(a)
    \/ \E b \in Blocks : vmalloc(b) \/ vfree(b)

\* An access in progress and the handlers it started run to their end: there
\* is nothing they wait for.
Spec == Init /\ [][Next]_vars /\ WF_vars(Proceed)

-----------------------------------------------------------------------------
(* Properties. *)

\* Addresses and frames stay in range, and the free stack within the size it was
\* given, however often vfree gives frames back.
TypeOK ==
    /\ tree \in [PageBases -> FrameNumbers \cup {NoFrame}]
    /\ tlb \in [PageBases -> FrameNumbers \cup {NoFrame}]
    /\ free_stack \in Seq(FrameNumbers) /\ Len(free_stack) <= m_maxSize
    /\ regions \in 0 .. Len(RegionBases)
    /\ baseAddress \in {NullAddress, apicAddress}
    /\ access \in [op : {"none", "touch", "vmalloc", "vfree"}, address : Addresses,
                   block : Blocks \cup {NullAddress}]
    /\ handlers \in Seq([cr2 : Addresses, page : PageBases, last_page : PageBases])
    /\ allocated \subseteq Blocks
    /\ vfreed \in BOOLEAN
    /\ phase \in {"boot", "tests", "running", "panic"}
    /\ reached \in [HeapPages -> FrameNumbers \cup {NoFrame}]
    /\ overlaid \subseteq PageBases
    /\ writer \in [FrameNumbers -> PageBases \cup {NoPage}]

\* The handler faults in turn only while the APIC is not mapped, and then only
\* on the end-of-interrupt and only once: faults do not recurse.
FaultsNestOnce ==
    /\ Len(handlers) <= 2
    /\ Len(handlers) = 2 => baseAddress = NullAddress /\ handlers[1].cr2 = eoiRegister

\* The frames an access to a page may use, now or after the page's cached
\* translation is dropped.
FramesOf(page) == {tree[page], tlb[page]} \ {NoFrame}

\* Until the first vfree no frame is in two places, although translations are
\* never invalidated: no frame the processor may still use for a page of the
\* heap is free or used for another page, but for the pages that show it in the
\* maps of all memory made at the boot.  (A frame whose mapping is replaced is
\* lost, and it is this leak that makes the missing invlpg harmless here.)
HeapFramesExclusive ==
    ~vfreed =>
        /\ IsInjective(free_stack)
        /\ \A p \in HeapPages, f \in FrameNumbers : f \in FramesOf(p) =>
               /\ f \notin Range(free_stack)
               /\ \A q \in PageBases \ {p} : f \in FramesOf(q) => f = InitialTree[q]

\* Until the first vfree, what was written to a page of the heap is what the
\* next access to it finds: that access uses the frame the last one used,
\* whether by the page tree or by a cached translation, and nothing was written
\* to the frame since but through the page, neither by a handler, as a table, as
\* the APIC nor by test_paging.  The exception is a page that was mapped already
\* when an access inside the page below it faulted: the handler maps it again.
WritesKept ==
    ~vfreed =>
        \A p \in HeapPages \ overlaid : reached[p] # NoFrame =>
            FramesOf(p) = {reached[p]} /\ writer[reached[p]] = p

\* Every access to the heap is eventually carried out, unless the machine is
\* out of frames.
AccessServed == (access.op # "none") ~> (access.op = "none" \/ phase = "panic")
=============================================================================
