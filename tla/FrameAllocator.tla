---------------------------- MODULE FrameAllocator ----------------------------
(***************************************************************************)
(* The physical frame allocator (kernel/src/frame_allocator.cpp): a stack  *)
(* of free frame addresses kept in frames of its own (NonOwningStack.hpp), *)
(* filled from the Limine memory map, used by paging_init to build the     *)
(* page tree, and then topped up with the bootloader-reclaimable frames.   *)
(*                                                                         *)
(* Addresses and lengths are counted in frames (kernelConstants::frameSize *)
(* bytes); frame 0 is the null address.  The loops of fill_free_stack and  *)
(* free_limine_bootloader_memory take one step per iteration.              *)
(***************************************************************************)
EXTENDS Integers, Sequences, FiniteSets, FiniteSetsExt

CONSTANTS
    MemoryMap,          \* limine::memory_map->entries
    TotalFrames,        \* every entry lies below this frame
    PointersPerFrame,   \* free-stack slots in one frame: 512 on the machine
    BootFrames          \* frames paging_init takes for the page tree

USABLE      == "USABLE"
RECLAIMABLE == "BOOTLOADER_RECLAIMABLE"
RESERVED    == "RESERVED"

Entries == DOMAIN MemoryMap

FramesOf(i) == MemoryMap[i].base .. MemoryMap[i].base + MemoryMap[i].length - 1

FramesOfType(type) ==
    UNION {FramesOf(i) : i \in {j \in Entries : MemoryMap[j].type = type}}

\* What the Limine protocol guarantees of the memory map: usable and
\* reclaimable entries are whole frames, do not contain frame 0, and overlap
\* no other entry.
ASSUME MemoryMapAssumption ==
    /\ TotalFrames \in Nat
    /\ MemoryMap \in Seq([base : Nat, length : Nat,
                          type : {USABLE, RECLAIMABLE, RESERVED}])
    /\ \A i \in Entries :
          /\ MemoryMap[i].base + MemoryMap[i].length <= TotalFrames
          /\ MemoryMap[i].type # RESERVED =>
                /\ MemoryMap[i].base > 0
                /\ \A j \in Entries \ {i} : FramesOf(i) \cap FramesOf(j) = {}

ASSUME SizeAssumption == PointersPerFrame \in Nat \ {0} /\ BootFrames \in Nat

VARIABLES
    phase,              \* where the boot sequence is
    entry, offset,      \* cursor of the loop over the memory map
    stack_begin,        \* first frame of the free stack's own storage
    stack_end,          \* one past the last frame of that storage
    m_stack, m_size,    \* the NonOwningStack
    pinned,             \* frames of the page tree, which is never torn down
    owned               \* frames allocated and not yet deallocated

stackVars  == <<m_stack, m_size>>
cursorVars == <<entry, offset>>
rangeVars  == <<stack_begin, stack_end>>
vars == <<phase, entry, offset, stack_begin, stack_end, m_stack, m_size,
          pinned, owned>>

-----------------------------------------------------------------------------
(* Sizes computed by frame_allocator_init. *)

is_allocatable(i) == MemoryMap[i].type = USABLE

\* The loop adds the lengths of the usable entries, which do not overlap.
get_num_allocatable_frames == Cardinality(FramesOfType(USABLE))

\* Mutant of ceil_div: the remainder is forgotten.
ceil_div_floor(dividend, divisor) == dividend \div divisor

ceil_div(dividend, divisor) ==
    dividend \div divisor + (IF dividend % divisor # 0 THEN 1 ELSE 0)

num_free_stack_frames == ceil_div(get_num_allocatable_frames, PointersPerFrame)

m_maxSize == get_num_allocatable_frames

\* The base of the first usable entry that is long enough, or null.
manually_reserve_contiguous_frames(num_frames) ==
    LET fits == {i \in Entries :
                    is_allocatable(i) /\ MemoryMap[i].length >= num_frames}
    IN  IF fits = {} THEN 0 ELSE MemoryMap[Min(fits)].base

-----------------------------------------------------------------------------
(* NonOwningStack. *)

push(f) ==
    IF m_size = m_maxSize
    THEN UNCHANGED stackVars
    ELSE /\ m_stack' = [m_stack EXCEPT ![m_size] = f]
         /\ m_size' = m_size + 1

top == m_stack[m_size - 1]

\* Mutant of pop: the size is left alone.
pop_keeps == UNCHANGED stackVars

pop ==
    /\ m_size' = IF m_size = 0 THEN m_size ELSE m_size - 1
    /\ UNCHANGED m_stack

-----------------------------------------------------------------------------
(* The allocator's operations. *)

Init ==
    /\ phase = "boot"
    /\ entry = 1 /\ offset = 0
    /\ stack_begin = 0 /\ stack_end = 0
    /\ m_stack = [i \in 0 .. m_maxSize - 1 |-> 0]
    /\ m_size = 0
    /\ pinned = {} /\ owned = {}

\* Up to the call of fill_free_stack.
frame_allocator_init ==
    LET begin == manually_reserve_contiguous_frames(num_free_stack_frames) IN
    /\ phase = "boot"
    /\ phase' = IF begin = 0 THEN "panic" ELSE "fill"
    /\ stack_begin' = begin
    /\ stack_end' = begin + num_free_stack_frames
    /\ UNCHANGED <<cursorVars, stackVars, pinned, owned>>

\* Mutant of AtFrame: the end of the entry is not tested.
AtFrame_endless(type) ==
    /\ entry \in Entries
    /\ MemoryMap[entry].type = type

AtFrame(type) ==
    /\ entry \in Entries
    /\ MemoryMap[entry].type = type
    /\ offset < MemoryMap[entry].length

frame == MemoryMap[entry].base + offset

\* Mutant of in_exclude_range: the end of the range is taken as inclusive.
in_exclude_range_inclusive(f) == f >= stack_begin /\ f <= stack_end

in_exclude_range(f) == f >= stack_begin /\ f < stack_end

fill_free_stack ==
    /\ phase = "fill" /\ AtFrame(USABLE)
    /\ IF in_exclude_range(frame) THEN UNCHANGED stackVars ELSE push(frame)
    /\ offset' = offset + 1
    /\ UNCHANGED <<phase, entry, rangeVars, pinned, owned>>

\* Mutant of free_limine_bootloader_memory: usable entries are not skipped.
free_limine_all_memory ==
    /\ phase = "reclaim" /\ (AtFrame(RECLAIMABLE) \/ AtFrame(USABLE))
    /\ push(frame)
    /\ offset' = offset + 1
    /\ UNCHANGED <<phase, entry, rangeVars, pinned, owned>>

free_limine_bootloader_memory ==
    /\ phase = "reclaim" /\ AtFrame(RECLAIMABLE)
    /\ push(frame)
    /\ offset' = offset + 1
    /\ UNCHANGED <<phase, entry, rangeVars, pinned, owned>>

\* Mutant of next_entry: a reserved entry is not stepped over.
next_entry_stuck ==
    /\ entry \in Entries
    /\ \/ phase = "fill" /\ ~AtFrame(USABLE)
       \/ phase = "reclaim" /\ ~AtFrame(RECLAIMABLE)
    /\ entry' = IF MemoryMap[entry].type = RESERVED THEN entry ELSE entry + 1
    /\ offset' = 0
    /\ UNCHANGED <<phase, rangeVars, stackVars, pinned, owned>>

\* Both loops skip entries of another type and leave finished ones.
next_entry ==
    /\ entry \in Entries
    /\ \/ phase = "fill" /\ ~AtFrame(USABLE)
       \/ phase = "reclaim" /\ ~AtFrame(RECLAIMABLE)
    /\ entry' = entry + 1
    /\ offset' = 0
    /\ UNCHANGED <<phase, rangeVars, stackVars, pinned, owned>>

end_loop ==
    /\ entry \notin Entries
    /\ \/ phase = "fill" /\ phase' = "paging"
       \/ phase = "reclaim" /\ phase' = "running"
    /\ UNCHANGED <<cursorVars, rangeVars, stackVars, pinned, owned>>

\* The caller records the frame it gets in one of the sets pinned and owned.
allocate_frame(held, heldNext) ==
    \/ /\ m_size = 0
       /\ phase' = "panic"
       /\ heldNext = held
       /\ UNCHANGED stackVars
    \/ /\ m_size # 0
       /\ heldNext = held \cup {top}
       /\ pop
       /\ UNCHANGED phase

\* paging_init: the page tree takes its frames ...
paging_allocate ==
    /\ phase = "paging" /\ Cardinality(pinned) < BootFrames
    /\ allocate_frame(pinned, pinned')
    /\ UNCHANGED <<cursorVars, rangeVars, owned>>

\* ... and then bootloader memory is reclaimed.
paging_reclaim ==
    /\ phase = "paging" /\ Cardinality(pinned) = BootFrames
    /\ phase' = "reclaim"
    /\ entry' = 1 /\ offset' = 0
    /\ UNCHANGED <<rangeVars, stackVars, pinned, owned>>

\* A client (Frame::Frame, the page-fault handler, a test) allocates.
client_allocate ==
    /\ phase = "running"
    /\ allocate_frame(owned, owned')
    /\ UNCHANGED <<cursorVars, rangeVars, pinned>>

\* A client gives back a frame it holds (Frame::~Frame).
deallocate_frame(f) ==
    /\ phase = "running"
    /\ f \in owned
    /\ owned' = owned \ {f}
    /\ push(f)
    /\ UNCHANGED <<phase, cursorVars, rangeVars, pinned>>

kernel_hang == phase = "panic" /\ UNCHANGED vars

BootStep ==
    \/ frame_allocator_init \/ fill_free_stack \/ next_entry \/ end_loop
    \/ paging_allocate \/ paging_reclaim \/ free_limine_bootloader_memory

Next ==
    \/ BootStep \/ client_allocate \/ kernel_hang
    \/ \E f \in owned : deallocate_frame(f)

\* Booting is sequential code with nothing to wait for.
Spec == Init /\ [][Next]_vars /\ WF_vars(BootStep)

-----------------------------------------------------------------------------
(* Properties. *)

Storage    == stack_begin .. stack_end - 1
FreeFrames == {m_stack[i] : i \in 0 .. m_size - 1}
Memory     == FramesOfType(USABLE) \cup FramesOfType(RECLAIMABLE)

\* The free stack never holds more frames than there is room for, and only frames
\* the map lists as usable or reclaimable are handed out.
TypeOK ==
    /\ phase \in {"boot", "fill", "paging", "reclaim", "running", "panic"}
    /\ entry \in 1 .. Len(MemoryMap) + 1
    /\ offset \in 0 .. TotalFrames
    /\ stack_begin \in Nat /\ stack_end \in Nat
    /\ m_stack \in [0 .. m_maxSize - 1 -> Nat]
    /\ m_size \in 0 .. m_maxSize
    /\ pinned \subseteq Memory /\ owned \subseteq Memory

\* No frame is in two places: the slots of the free stack hold distinct
\* frames, and none of them is one that allocate_frame has handed out.
ExclusiveFrames ==
    /\ \A i, j \in 0 .. m_size - 1 : m_stack[i] = m_stack[j] => i = j
    /\ FreeFrames \cap (pinned \cup owned) = {}
    /\ pinned \cap owned = {}

\* The free stack never overwrites memory it does not own and never hands out
\* the memory it is kept in: its slots lie in the reserved frames, these are
\* usable memory, and none of them is free or allocated.
StorageIsPrivate ==
    phase \notin {"boot", "panic"} =>
        /\ m_maxSize <= (stack_end - stack_begin) * PointersPerFrame
        /\ Storage \subseteq FramesOfType(USABLE)
        /\ Storage \cap (FreeFrames \cup pinned \cup owned) = {}

\* The frames the loops over the memory map have put in circulation so far.
Passed(type) ==
    {f \in FramesOfType(type) :
        \E i \in Entries :
            /\ f \in FramesOf(i)
            /\ i < entry \/ (i = entry /\ f < MemoryMap[i].base + offset)}

Circulating ==
    CASE phase \in {"boot", "panic"} -> {}
      [] phase = "fill"    -> Passed(USABLE) \ Storage
      [] phase = "paging"  -> FramesOfType(USABLE) \ Storage
      [] phase = "reclaim" -> (FramesOfType(USABLE) \ Storage)
                                 \cup Passed(RECLAIMABLE)
      [] phase = "running" -> Memory \ Storage

\* push drops its argument when the stack is full.  The stack was sized for
\* the usable frames alone, so reclaimed frames fit only in the slots that
\* the stack's own frames and the page tree leave unused.
ReclaimFits ==
    Cardinality(FramesOfType(RECLAIMABLE)) <= num_free_stack_frames + BootFrames

\* Every frame put in circulation stays there: it is free or someone holds
\* it, however often frames are allocated and given back.
NoFrameLost == ReclaimFits => Circulating \subseteq FreeFrames \cup pinned \cup owned

\* The boot sequence ends: the kernel runs, or has panicked for lack of memory.
BootEnds == <>(phase \in {"running", "panic"})

\* The allocator implements the abstract pool.
Pool == INSTANCE FramePool WITH
            Frames <- Memory, free <- FreeFrames, held <- pinned \cup owned

PoolSpec == Pool!Spec
=============================================================================
