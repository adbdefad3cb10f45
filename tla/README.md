# davOS: a TLA+ model of the kernel

davOS is a single-processor x86-64 kernel booted by Limine. This directory holds
TLA+ modules that model its core, TLC configurations that check small instances of
them, and TLAPS proofs of the results that hold for every value of the constants.
Paths below are relative to `src/kernel/`.

## The system

| part | state | operations | modelled by |
|---|---|---|---|
| frame allocator (`src/frame_allocator.cpp`, `NonOwningStack.hpp`, `Frame.cpp`) | a stack of free frame addresses, kept in frames of its own | `frame_allocator_init`, `fill_free_stack`, `allocate_frame`, `deallocate_frame`, `free_limine_bootloader_memory` | `FrameAllocator`, abstract `FramePool` |
| page tree (`src/PageTree.cpp`, `PageTreeNode.cpp`) | four levels of 512-entry tables | constructor, `map_page_to_frame`, `get_translation` | `PageTree`, abstract `PageMap` |
| paging (`src/paging.cpp`) | the initial mappings | `paging_init`, `paging_add_mapping`, `paging_allocate_and_map`, range arithmetic | `PageRange`, `VirtualMemory`, initial states of the others |
| page-fault handler (`src/idt.cpp`) and end-of-interrupt (`src/LocalAPIC.cpp`) | `baseAddress`; nested activations | `isr_page_fault`, `enableAPIC`, `sendEndOfInterrupt` | `VirtualMemory` |
| virtual memory manager (`src/vmm.cpp`) | its free-list allocator | `vmm_init`, `vmalloc`, `vfree` | `VirtualMemory` (memory), `FreeList` (addresses) |
| free-list allocator (`include/kernel/FreeListAllocator.cpp`), free regions (`src/paging.cpp`) | a doubly linked list of free blocks, headers in the memory it manages | `add_memory`, `allocate`, `deallocate`, `paging_get_initial_free_regions` | `FreeList`, abstract `Heap` |
| descriptor tables, local APIC, PIC, keyboard controller, APIC manager (`src/gdt.cpp`, `src/idt.cpp`, `src/LocalAPIC.cpp`, `src/processor.cpp`, `src/APICManager.cpp`) | gates, masks, the redirection entry of IRQ 1, the I/O APICs found | the second half of `kernel_init`, the interrupt tests of `run_all_tests` | `Interrupts` |
| ACPI tables (`RootSystemDescriptionPointer.h`, `RootSDT.h`, the MADT) | the firmware's bytes | `validate`, `findSDTWithSignature`, the walk over the MADT | `AcpiTables` (used by `Interrupts`) |
| keyboard (`src/idt.cpp`, `KeyboardBuffer.hpp`, `CircularQueue.hpp`) | `extended`; a circular queue | `isr_keyboard`, `put`, `get`, `hasData` | `KeyboardBuffer` |
| shell (`src/main.cpp`) | the input line and the cursor | the key loop, `handle_command` | `Shell` (extends `KeyboardBuffer`) |
| terminal (`src/Terminal.cpp`) | a circular buffer of lines, a viewport, the paint cursor, the framebuffer | `write`, `scrollDown`, `clear` | `Terminal` |
| printf (`lib/kpp/stdio`) | what is left of the format and the arguments | `printf`, `vprintf`, `putchar` | `Console` (extends `Terminal`) |
| objects of kpp (`UniquePtr.hpp`, `functional.hpp`, `optional.hpp`) | owning pointers, callables, values in buffers | construction, copy, move, assignment, call, destruction | `KppObjects`, abstract `ObjectValues` |
| boot sequence, panic (`src/kernel.cpp`, `src/main.cpp`, `src/limine_features.cpp`) | the running stack, the boot loader's responses | `kernel_pre_main`, `call_global_constructors`, `kernel_init`, `kernel_panic`, `kernel_hang` | the phases of the models; `KernelStack` (extends `FrameAllocator`) |
| kernel tests (`src/tests.cpp`) | | `run_all_tests` | actions of `FreeList`, `VirtualMemory`, `Interrupts` |

How they interact: `paging_init` takes the page tree's frames from the frame
allocator and gives the bootloader's frames back to it; a page fault takes a frame
from the allocator, and the tree may take up to three more for its tables; the handler
then writes to the APIC's page, which may fault in turn; `vfree` looks a block up in
the tree and gives its frame back. The keyboard interrupt and the shell share the
queue, and nothing else. The shell writes to the terminal, directly and with `printf`, and
scrolls it. The tests run between the boot and the shell on the same state: `test_paging`
replaces two mappings, `test_allocator` builds a second heap on memory `vmm_init` has
already given to the first.

What is hard here: there is one processor and no lock. The main loop runs with
interrupts enabled, so the keyboard handler may run between any two instructions of
`dequeue`. The page-fault handler runs inside any memory access, its own included.
Resources are bounded everywhere and overflow is handled by dropping (a full free
stack, a full queue) or overwriting (the oldest line). Address arithmetic is 64-bit
with some 32-bit masks. `PROJECT.json` lists these hazards at their lines.

## Modules

**FramePool, FrameAllocator, FrameAllocatorProofs.** `FrameAllocator` counts addresses
in frames. Both loops over the memory map take one step per frame (`fill_free_stack`,
`free_limine_bootloader_memory`, with `next_entry` and `end_loop` for their control).
`m_stack`, `m_size` and `m_maxSize` are the members of `NonOwningStack`; `push` drops
its argument when the stack is full, as the code does. `pinned` and `owned` are not
variables of the code: they record who holds the frames that `allocate_frame` has handed
out. `FramePool` is what clients rely on: a frame is free or held, never both.

**PageMap, PageTree, PageTreeProofs.** The contents of every frame are kept as a table
(`entries_`), so that two tables in one frame, or a table in a free frame, would be
visible. `map_page_to_frame` takes one step per level: `descend` when the child exists,
`grow` when a table is made for it, `out_of_frames` when `allocate_frame` panics, and
`set_leaf`. An entry is an address and a set of flags; `get_child_address` keeps the
code's 32-bit mask as `% AddressLimit`. `effective_flags` is the processor's own walk.
`PageMap` is the abstract map: a page is mapped to what it was last asked to be.

**PageRange, VirtualMemory, VirtualMemoryProofs.** `PageRange` is the range arithmetic with wrap-around.
`VirtualMemory` uses the page tree through `PageMap`'s contract (`tree`) and the frame
allocator as its stack. `access` is the memory access in progress outside the handlers,
`handlers` the stack of activations of `isr_page_fault`; an access completes only if its
page is mapped and otherwise faults; the handler allocates one page per step and ends
with the write to the APIC, which may fault again. `vmalloc` may return any free block.
`tlb` holds the translations that have become stale: no mapping is followed by an
`invlpg`, so that `map_pages` (the loop of `paging_add_mapping`) may leave the processor
with the old translation of any page it maps, until `evict` drops it. `reached`, `writer`
and `overlaid` are history variables: the frame the last access to a heap page used, the page
through which a frame was last written (`NoPage` for a new table), and the pages that were
mapped already when an access inside the page below them faulted, which the handler maps
again. `vfree` accesses the block's header only, so that the model also gives back frame 0 for
a block whose own page was never touched; in the code the free header reaches into the block
and touches that page, so this is an over-approximation. After a `vfree` the page stays mapped.

**KeyboardBuffer.** `isr_keyboard` is one step (interrupt gate, one
processor). `dequeue` is split at each access to what the handler also writes:
`dequeue_check`, `dequeue_read`, `dequeue_load`, `dequeue_store`; `--m_size` is a load
and a store because the kernel is built without optimisation. `history`, `taken` and
`lost` are history variables: the keys accepted, how many were dequeued, and how many
increments of `m_size` were overwritten.

**Shell, ShellProofs.** The line editor is the record `ed`; `handle_key` is one round of the key loop,
`handle_command` the end of a line. It extends `KeyboardBuffer`, so that keys arrive
through the same race; the properties of the queue and those of the shell are checked,
and proved, together.

**Terminal.** `buffer_write` is `LineBuffer::write`; `fb` holds the framebuffer in
character cells, the paint cursor, and whether an assertion of `setPixel` has failed.
`paintVisibleBuffer` folds `paintCharacter` over the visible text. `lines` and `reused`
are history variables: the newest lines as they were written, and whether a line of the
buffer has been used again without having been emptied.

**Console, TerminalProofs.** `printf` on that terminal: `vprintf` takes one step per piece (`regular`,
`specifier`), and each character of the piece one more (`putchar`). Characters are model
strings, and a number is rendered by the code's loop (`digits`). Between two calls the
shell echoes, scrolls and clears. `PrintfRenders` compares what the terminal has received with
a definition that reads the format by positions instead of from left to right, and writes a
number by dividing by powers of the base. It is about calls the standard gives a meaning to
(`Conforming`): every conversion is known, and its argument is there and of its type.

**KernelStack.** Composes `kernel_pre_main` and the global constructors with
`FrameAllocator`: which frames hold the stack in use (`rsp`) and the responses the pointers
of `limine_features.cpp` lead to.

**ObjectValues, KppObjects, KppObjectsProofs.** Any program that uses a few `Function`s and `Optional`s.
`object` is the heap with explicit lifetimes, so that a second destruction or a use after
the end is visible (`fault`); a new object takes any free place. A program that calls an empty
`Function` is left out (a guard of the call). An `Optional`'s scope never ends in the model: the
class has no destructor, so the end of its scope does nothing, and its value is never destroyed. `ObjectValues` is what users expect: copies are equal and
independent, moves transfer, and a `Function` made from an lvalue shares the functor.

**Heap, FreeList, FreeListProofs.** `FreeList` counts in words of 8 bytes. `free` and `used` are the headers
in memory by address; `walk` is the traversal along `next`. Splitting and merging keep the
code's arithmetic, including the header that `add_memory` does not subtract, the `prev`
pointers that merging leaves behind, and the read of `curr->next` after the used header was
written over it. `stage` goes from `vmm_init` through `test_allocator`, whose allocator has a
`head` of its own on the first region's memory, to the calls of `vmalloc` and `vfree`. Once
a pointer leads to something that is no free header, what the code does depends on foreign memory: the model stops there (`Corrupt`). `lost` is a history
variable, and so is `asked`, the size the latest caller asked for. `paging_get_initial_free_regions`
is the recursive function `scan`. `Heap` is what a caller expects of `vmalloc`: as many words as
it asked for, in the memory given to the heap, which nobody else has until the block is freed. Its
blocks are mapped to what the used headers say (`HeapBlocks`) and its memory to the regions
(`GivenWords`). `TakenWords` is what `add_memory` made of them, two words more each; `Overrun`
lets a block reach these.

**Interrupts, InterruptsProofs.** One action per step of `kernel_init` from `gdt_init` on that changes what an
interrupt would find, then the two tests that raise interrupts. `remapPIC` is split where it
has cleared the masks and not yet restored them. The keyboard controller's bytes (`output`),
the I/O APIC's entry and the local APIC's `irr` and `isr` are hardware, modelled as the code
uses them: a byte raises an edge only when it becomes the first one behind port 0x60, and an
edge that meets a masked entry is forgotten. The I/O APIC's registers are taken to be where
`IOAPIC` looks for them: its constructor truncates the 64-bit address to `uint32_t`, which
leads to the registers only through the identity map. `machine` is what the firmware presents, and
`AcpiTables` how the code reads it: the checksums modulo 256, the root table as 32-bit words
from the end of its header on, and the MADT as bytes, with what lies behind it.

The `MC*` modules give the constants of each instance. Definitions named "Mutant of ..."
are plausible bugs of the definition that follows; each shows that the property
listed with it in `PROJECT.json` can fail.

## Runs

| run | instance | states | shows |
|---|---|---|---|
| `frames` | 10 frames, two usable entries, a reclaimable and a reserved one, two slots per stack frame | 14,121 | exclusive frames, private storage, no frame lost, booting ends, `FramePool` implemented |
| `shell` | two slots, lines of three, four keys of eight scan codes | 312,800 | `m_size` counts the waiting keys less the lost increments; order; array bounds; the line is what was typed; the shell sees the history; delivery; every Enter answered |
| `pagetree` | fan-out 2, four pages, seven tables | 38,416 | tree shape, flags take effect, `PageMap` implemented |
| `vmem` | 12 pages of 2 bytes, 8 free frames, two blocks in one page | 574,725 | faults served, nested at most once, exclusive heap frames and, until the first `vfree`, kept data in spite of stale translations |
| `terminal` | three lines of two columns, two visible, a partial row; two calls out of seven formats | 1,234,877 | newest lines kept, viewport inside, screen follows text, printf renders its format |
| `freelist` | regions of 19 and 7 words between five unavailable ranges, a test of three requests, then requests of 0, 1, 2, 3 and 5 words | 244,353 | blocks disjoint, list complete and ordered, words accounted for, what can destroy the list, `Heap` implemented: every caller gets the size it asked for |
| `interrupts` | thirteen machines, three keys, room for two I/O APICs | 4,714 | interrupts enabled only when they can be taken, the described I/O APICs found, the boot ends, keys are served |
| `kpp` | three Functions, two Optionals, one functor, three objects | 57,655 | one owner per object, `ObjectValues` implemented |

The bounds are chosen so that every limit is met: the free stack fills up and runs
empty, the queue fills and the race loses increments until the backlog exceeds the
capacity, tables are shared and frames run out in the middle of a mapping, blocks share
a page and cross into the next one, the line buffer wraps, free blocks are split, merged on
either side and on both, and fitted exactly, and there are more I/O APICs than room for
them, tables without end, and bytes inside and behind the MADT that look like an I/O APIC.
`MaxKeys`, `MaxPresses` and `MaxCalls` bound counters; four keys are one more than the race
needs to make the backlog exceed the queue's capacity, two calls of `printf` meet a
screen the first has scrolled, and three presses leave bytes waiting before, during and after the
keyboard's initialisation. `pagetree` uses the action constraint
`LowestFreeFirst`: free tables are interchangeable, so taking the lowest one loses no
behaviour up to renaming. `kpp` uses symmetry of its Functions and Optionals, which no
definition tells apart. Deadlock is checked in every run.

Four runs check what a comment or an assertion of the code says, and fail:

* `terminal_paint` (`PaintsInside`): typing after scrolling up paints outside the
  framebuffer when the last visible line is full.
* `freelist_intact` (`ListIntact`): an exact fit of the first free block sets `head` to the
  magic number. `CorruptionCauses`, in the passing run, lists every way to get there.
* `root_table` (`ListedMadtFound`): `RootSDT` is not packed, so `pointersToOtherSDTs` is at
  byte 40 and not 36; the first table of an RSDT is never looked at, and the pointers read from
  an XSDT are made of halves of two.
* `limine_stack` (`ReclaimIsSafe`): `mov %%rsp, %0` does not load the stack pointer, so the
  kernel runs on Limine's stack, whose frames `free_limine_bootloader_memory` hands out
  together with those of the responses that are still read.

Other disagreements met while reading, for which there is no run:

* The race on `--m_size` loses a key's count: from then on `hasData` is false while a key
  waits. `SizeCountsKeys` says by how much, and `WindowIntact` and `InOrder` what survives.
* The first page fault of `vmm_init` sends its end-of-interrupt through a null pointer, and
  the nested fault replaces pages 0 and 1, the second of them a page of the identity map.
* A fault at an address that is not page-aligned maps the next page as well, even if it was
  mapped: its data is lost and its frame leaks. It is this leak that keeps the missing
  `invlpg` from mixing up frames before the first `vfree` (`HeapFramesExclusive`). `paging.h`
  says that a mapped region is overwritten, so the loss is an exception of `WritesKept`.
* `test_allocator` overwrites the header by which `vmm.cpp`'s list reaches its other regions:
  after the tests `vmalloc` has the first region alone (`ListComplete`).
* `vmm.cpp` declares its allocator as the empty base class, so that `head` lies behind the object.
* `Function` assigned to itself keeps a pointer to a destroyed callable, and `Optional` copies
  a destroyed value; `OneOwner` and `ValueSpec` are stated up to the first self-assignment. The
  copy assignment of `Function` does not compile (`m_callable.clone()`), and `UniquePtr` never
  frees memory.
* `printf` prints nothing for `%d` of a number below zero.
* `map_page_to_frame` replaces the flags of the tables on the way, which other pages share;
  its comment says flags are appended. A page mapped read-only takes `Write` from its neighbours
  until one of them is mapped again.
* `vfree` of one of two blocks in a page gives back the frame the other one is in, although its
  comment assumes that "frames cannot be referenced multiple times"; the frame goes to another
  page or becomes a page table while the first page is still mapped to it, and the `vfree` of the
  other block gives it back again. `WritesKept` and `HeapFramesExclusive` therefore end at the
  first `vfree`.
* `add_memory` makes a free block that ends 16 bytes behind its region, and the first block carved
  from it reaches there, into what `paging.cpp` calls "already in use, or can't be addressed". The
  abstract `Heap` has this as `Overrun`: with 2 words the refinement holds, with 0 it fails at the
  first block.
* `redirectIrq` writes the I/O APIC's id where the id of the processor's local APIC belongs:
  "Redirect a given IRQ to a the local APIC on this processor." (`APICManager.hpp`).
  `ReadyWhenEnabled` (on the destination) and `KeysServed` are therefore stated for machines on
  which the two agree; on one of the run's machines, `IOAPICAt(1, 0)`, they do not.
* A full line buffer's viewport mixes raw indices and positions, so that the last line may
  not be visible.
* Vectors 0x20 to 0x2f have no gates although the PIC is moved there; a spurious interrupt
  of the PIC therefore panics (`spurious_pic`).
* `handlesIRQ` takes the highest entry's number for the number of entries.
* `initKeyboardController` takes a key pressed just before for the command byte.
* `KeyboardBuffer::put` says the oldest key is overwritten, while `enqueue` drops the newest.
* `setScrollMode` has no effect.
* The gates of `idt_init` from vector 15 on are one too low, since vector 15 is reserved.

## Fairness

* `FrameAllocator`: weak fairness of the boot steps. They are straight-line code.
* `KeyboardBuffer`, `Shell`: weak fairness of the main loop, which never blocks. Nothing
  is assumed of the keyboard.
* `VirtualMemory`: weak fairness of the access in progress and of its handlers, which wait
  for nothing.
* `Interrupts`: weak fairness of the boot, which is straight-line code but for the wait for a
  byte the controller has been asked for, and of the delivery of pending interrupts, which
  the processor does by itself. Nobody has to press a key.
* `PageTree`, `Console`, `FreeList`, `KernelStack`, `KppObjects`: safety only.

## Proofs

Checked by TLAPS for every value of the constants that satisfies the named assumptions.

*Frame allocator* (assumptions `MemoryMapAssumption`: usable and reclaimable entries do
not overlap others and do not contain frame 0; `SizeAssumption`). The inductive invariant
is `TypeOK /\ ExclusiveFrames /\ Placed /\ StorageOK`. Exclusiveness alone is not
inductive: that `fill_free_stack` pushes a frame not yet on the stack follows only from
where the loop is, so `Placed` says that the frames in circulation lie before the
cursor, and `StorageOK` that the storage lies inside one usable entry. `NoFrameLost`
needs a second invariant that counts the pinned frames: the stack is never full when a
frame is given back, because the slots used and the frames held add up to at most the
capacity. The refinement of `FramePool` assumes `ReclaimFits`, without which `push`
drops frames.

*Keyboard buffer and shell* (`ShellProofs`; `QueueAssumption`, `KeyAssumption`,
`LineAssumption`). For the buffer the inductive invariant is `TypeOK /\ SizeCountsKeys /\
WindowIntact /\ InFlight`; `InFlight` relates the loaded `rax` to `m_size` and says that a
dequeue past its check has something to take. A step of the shell is a step of the buffer or
leaves it alone (`ShellKeepsBuffer`), so that all of this holds under the shell. The shell's
invariant adds the editor's types, that the cells up to `pos` are what was typed unless an
arrow key was used, and, as long as `lost = 0`, that the editor is where the keys handled so
far lead it. `EditorAfter` is a recursive function; that a run of it exists, and that every run
ends in the present state, is part of the invariant and extended by one key in each step, so
that no induction over the history is needed.

*Page tree* (`PageAssumption`, `TableAssumption`, and `AllAddressable` as the hypothesis
of each theorem: every frame lies below 4 GiB, or the 32-bit mask truncates it). The
inductive invariant says that the tables reached from the root form a tree disjoint
from the free frames, that null entries end every path, and that the walk in progress is
on the path of its page. The four indices of a page determine it (`IndexInjective`), so
setting one leaf changes one translation. From it follow the tree's shape, the
refinement of `PageMap`, and the flags of a completed mapping.

*Interrupts* (`MachineAssumption`: the shape of what the firmware presents, with any MADT). The
inductive invariant adds to `TypeOK` what each step of the boot may rely on: which tables
are loaded, where the PIC's mask is between `remapPIC` and `restore_masks`, what is
enabled, and that the entry stays masked until its destination is written. Even `TypeOK`
needs it: that only vectors with a handler are requested follows from the order in which
`redirectIrq` writes the entry. From it follow `TypeOK` and `ReadyWhenEnabled`.
`IOAPICsAsDescribed` needs a second invariant (`WalkOK`): the cursor of the walk is always at
the start of an entry or at the end of the table (`Offsets`), and the I/O APICs collected so
far are the descriptions in the entries before it (`Met`). For it the bytes of the MADT are
shown to be its entries one after the other (`MadtEntries`), by induction on their number.

*Demand paging* (`VirtualMemoryProofs`; `LayoutAssumption`: the heap's addresses lie on pages
that are not mapped at the boot, are not the APIC's, and not the two where the
end-of-interrupt lands while `baseAddress` is null; free frames are listed once, and the pages
the kernel itself writes to, that of the end-of-interrupt, the APIC's and `test_paging`'s, show no
free frame by the mapping of the boot, which the processor may have kept). First come
lemmas on the range arithmetic: `page_floor` and `page_ceil` are the nearest multiples, a
fault's range is the faulting page and at most the next one, and starts with the faulting
page unless that is the topmost one. The inductive invariant is `TypeOK /\ AccessOK /\
Nesting /\ Exclusive /\ Kept /\ Written`. `Nesting` says what each activation is about: the outer one
serves the access in progress, an inner one the null end-of-interrupt. `Exclusive` is
stronger than `HeapFramesExclusive`: until the first `vfree` the free stack holds no frame
twice, a free frame is seen, in the tree or in the TLB, only where the boot mapped it, and a
heap page's frame by no other page but there. The page above an unaligned fault being
served is not mapped unless it is among the `overlaid` ones (`AboveFree`, a part of `Nesting`). `Kept` says that a heap page that is not
has no stale translation cached and, once reached, keeps its frame, and `Written` that the frame
was last written through that page: the other writes go to frames that are no heap page's,
by `Exclusive`, or, for new tables, come from the free stack.

*Terminal and printf* (`TerminalProofs`; `TerminalAssumption`, `CallAssumption`). The inductive invariant of the line
buffer under `printf`, echo, scrolling and `clear` is `Ring /\ Cells /\ Lines`: `Ring` bounds
the indices, and says that the oldest line is at 0 until the buffer has been full, so that raw
indices and positions agree where the code mixes them; `Lines` says that no line is longer
than a row, and that the lines in use are the last ones written. The characters are arbitrary:
this part is independent of what `printf` computes.

`ScreenFollowsText` needs two things more (`ScreenInv`). `Clean`: as long as no line has been used
twice, the buffer holds null characters exactly where nothing was written, so that `Text` cuts a
line where it ends. `InView`: while the line being written is in view, the screen shows the rows of
the viewport. The fold over the painted text is shown to paint its characters in order
(`FoldPaints`, by induction on its length), a row is then painted character by character
(`RowPainted`), the rows one after the other (`RowsPainted`), and a repaint of the buffer
(`BufferPainted`) agrees with painting a single character (`GlyphShown`) or a newline
(`NewlineShown`). The theorem is about behaviours in which `printf` passes on no null character
(`TextPrinted`): one written by `%c` ends the line for a repaint, not for `putchar`.

`PrintfRenders` follows from `CallInv`: between calls nothing is left over, and during a conforming
call there is a position of the format (`Consumed`) at which a directive may start, such that what is
left of the format and of the arguments is what lies behind it, and what `putchar` has received and
still will is the output of what lies before. A regular piece moves the position over its
characters, of which a first `%%` counts as one (`PieceText`, by induction on the length of the
piece), a conversion over two characters and one argument. That the digit loop writes the numeral
(`DigitsNumeral`) is an induction on the number: the numeral satisfies the equation of the loop
(`NumeralStep`, since dividing by the base takes off the last digit), and only one function does.
The powers, too, are shown to exist (`PowersExist`), and the inductions are over sets of natural
numbers, from the well-foundedness of `<`, not the library's theorems with an operator parameter.

*Free-list allocator* (`FreeListProofs`; `RangeAssumption`; `RequestAssumption`: no request is
so large that its header overflows; `RegionAssumption`: the free regions are in order and
leave the two words that `add_memory` takes behind each). Free and used blocks are seen as
intervals, and the inductive invariant says that these are pairwise apart and inside the
words `add_memory` took (`Sound`), together with the types of the headers, what `test_allocator`
holds and finds (`Stages`), and that no size has wrapped while nothing outside the headers
was written (`Unwrapped`). Nothing is assumed of the pointers: the walk along `next` is shown,
by induction on its length, to meet free blocks only if it ends at null, and the
`prev` pointers may be as stale as merging leaves them. Each operation is then one of a few
changes of intervals (a block appears, disappears, loses its end, or two adjacent ones
become one), and `InsertSizes` shows that linking and merging, with sizes that wrap, are
such changes. The invariant covers the step that destroys the list too. From it follow
`BlocksDisjoint` and the refinement of `Heap`: the header of a new block holds the size that was
asked for, its words lie inside the block, and a word `add_memory` took is at most two behind
one of the region (`TakenWithin`). The induction is over sets of natural
numbers (`SetInduction`), derived from the well-foundedness of `<`.

What the list itself holds needs a second invariant, `ListInv`: unless `Corrupt`, the `next`
pointers lead from `head` through all free blocks of the allocator in use in the order of their
addresses, no two of them are adjacent, and a `prev` pointer, stale or not, never leads past a
block in between (`ListGood`); both allocators start at the first region (`Heads`); and the words
that belong to no block are counted by `lost` (`Accounted`). That stale `prev` pointers are
harmless until an exact fit uses one is the point of the proof: it gives `ListComplete`, and
`CorruptionCauses` as the list of the steps that leave `ListGood`. `WordsAccounted` follows from
`Accounted`, with the library's sum over the headers shown to count the words of the
intervals.

*Objects of kpp* (`KppObjectsProofs`; `BoundsAssumption`). The inductive invariant says that
no two `Function`s hold the same pointer, that every live object has an owner, that
nothing dangles before the first self-assignment, that an `Optional` has a value exactly when
it says so, and what causes a fault. The refinement
of `ObjectValues` maps a `Function` to the value its callable holds or the functor it refers
to; each operation is shown to change the mapped values as the abstract one does.

Only model-checked: `BootEnds`, `KeysDelivered`, `EnterAnswered`, `AccessServed`, `KeysServed`
(liveness is out of the prover's reach). Every invariant and action property of a passing run is
stated by a theorem.

## Not modelled

* The byte encodings of segment and gate descriptors and of device registers: tables of
  constants that the processor interprets.
* The pixels of a glyph: painting is in character cells.
* `limine.h` and `BitmapFont.hpp`: declarations of the boot protocol, and data.
* The mem* and str* functions, `Array`, iterators and algorithms of kpp: single calls without
  state, used as the operators of TLA+.
* `Optional`'s copy constructor and `Function`'s copy assignment, which do not compile.
* `FreeStackAllocator` and `VirtualMemoryAllocator`, which nothing uses.
* `test_stack_smash`, `test_interrupt_handling` and `test_global_constructor`, which touch no
  state of the models, and what `kernel_panic` prints.

## Plan

`VirtualMemory` could take its blocks from `FreeList`, whose headers are themselves memory that
faults on the first access.
