------------------------- MODULE FrameAllocatorProofs -------------------------
(***************************************************************************)
(* Proofs about FrameAllocator, for every memory map Limine may report.    *)
(***************************************************************************)
EXTENDS FrameAllocator, FiniteSetTheorems, SequenceTheorems, WellFoundedInduction, TLAPS

\* A nonempty set of numbers has a least element.
LEMMA NatMinimum ==
    ASSUME NEW S, S \subseteq Nat, S # {}
    PROVE  \E x \in S : \A y \in S : x <= y
  <1> DEFINE R == OpToRel(<, Nat)
  <1>1. \A x, y \in Nat : x < y => <<x, y>> \in R
    BY DEF OpToRel
  <1>2. IsWellFoundedOn(R, Nat)
    BY NatLessThanWellFounded
  <1> HIDE DEF R
  <1>3. PICK x \in S : \A y \in S : ~(<<y, x>> \in R)
    BY <1>2, WFMin
  <1>4. \A y \in S : ~(y < x)
    BY <1>1, <1>3, Zenon
  <1> QED
    BY <1>4

(* Facts about the memory map. *)

\* Every entry is a record of numbers.
LEMMA EntryFacts ==
    ASSUME NEW i \in Entries
    PROVE  /\ MemoryMap[i].base \in Nat
           /\ MemoryMap[i].length \in Nat
           /\ i \in 1 .. Len(MemoryMap)
           /\ Len(MemoryMap) \in Nat
           /\ FramesOf(i) \subseteq 0 .. TotalFrames
  <1> DEFINE R == [base : Nat, length : Nat, type : {USABLE, RECLAIMABLE, RESERVED}]
  <1>1. MemoryMap \in Seq(R)
    BY MemoryMapAssumption
  <1>2. Len(MemoryMap) \in Nat /\ Entries = 1 .. Len(MemoryMap)
    <2> HIDE DEF R
    <2> QED  BY <1>1, LenProperties DEF Entries
  <1>3. MemoryMap[i] \in R
    <2> HIDE DEF R
    <2> QED  BY <1>1, <1>2, ElementOfSeq
  <1>4. MemoryMap[i].base + MemoryMap[i].length <= TotalFrames
    BY MemoryMapAssumption
  <1> QED
    BY <1>2, <1>3, <1>4, MemoryMapAssumption DEF FramesOf

\* The frames of one type are finitely many.
LEMMA TypeFinite ==
    ASSUME NEW type
    PROVE  /\ FramesOfType(type) \subseteq 0 .. TotalFrames
           /\ IsFiniteSet(FramesOfType(type))
  <1>1. FramesOfType(type) \subseteq 0 .. TotalFrames
    BY EntryFacts DEF FramesOfType
  <1>2. 0 \in Int /\ TotalFrames \in Int
    BY MemoryMapAssumption
  <1>3. IsFiniteSet(0 .. TotalFrames)
    BY <1>2, FS_Interval, Zenon
  <1> QED
    BY <1>1, <1>3, FS_Subset

\* A frame of a usable or reclaimable entry lies in no other entry.
LEMMA OneEntry ==
    ASSUME NEW i \in Entries, NEW j \in Entries, NEW f,
           f \in FramesOf(i), f \in FramesOf(j), MemoryMap[i].type # RESERVED
    PROVE  i = j
  BY MemoryMapAssumption

\* Usable and reclaimable frames are different frames.
LEMMA TypesDisjoint == FramesOfType(USABLE) \cap FramesOfType(RECLAIMABLE) = {}
  <1> SUFFICES ASSUME NEW f \in FramesOfType(USABLE), f \in FramesOfType(RECLAIMABLE)
               PROVE  FALSE
    OBVIOUS
  <1>1. PICK i \in Entries : MemoryMap[i].type = USABLE /\ f \in FramesOf(i)
    BY DEF FramesOfType
  <1>2. PICK j \in Entries : MemoryMap[j].type = RECLAIMABLE /\ f \in FramesOf(j)
    BY DEF FramesOfType
  <1>3. i = j
    BY <1>1, <1>2, OneEntry DEF USABLE, RESERVED
  <1> QED
    BY <1>1, <1>2, <1>3 DEF USABLE, RECLAIMABLE

\* The free stack's sizes are numbers.
LEMMA SizeFacts ==
    /\ m_maxSize \in Nat
    /\ num_free_stack_frames \in Nat
    /\ m_maxSize <= num_free_stack_frames * PointersPerFrame
  <1>1. m_maxSize \in Nat
    BY TypeFinite, FS_CardinalityType DEF m_maxSize, get_num_allocatable_frames
  <1>2. ASSUME NEW a \in Nat, NEW b \in Nat \ {0}
        PROVE  /\ ceil_div(a, b) \in Nat
               /\ a <= ceil_div(a, b) * b
    <2> DEFINE q == a \div b
               r == a % b
    <2>1. q \in Nat /\ r \in 0 .. b - 1 /\ a = q * b + r
      BY SMT
    <2>2. (q + 1) * b = q * b + b
      BY <2>1, SMT
    <2> QED
      BY <2>1, <2>2, SMT DEF ceil_div
  <1> QED
    BY <1>1, <1>2, SizeAssumption DEF m_maxSize, num_free_stack_frames
-----------------------------------------------------------------------------
(* The free stack. *)

\* The slots in use hold distinct frames.
Distinct == \A i, j \in 0 .. m_size - 1 : m_stack[i] = m_stack[j] => i = j

StackOK == m_stack \in [0 .. m_maxSize - 1 -> Nat] /\ m_size \in 0 .. m_maxSize

\* The image of a set with one more point.
LEMMA ImageExtend ==
    ASSUME NEW g, NEW h, NEW I, NEW n, NEW f,
           \A i \in I : h[i] = g[i], h[n] = f
    PROVE  {h[i] : i \in I \cup {n}} = {g[i] : i \in I} \cup {f}
  OBVIOUS

\* Pushing a frame that is not on the stack adds it, or drops it when full.
LEMMA PushFacts ==
    ASSUME StackOK, Distinct, NEW f \in Nat, f \notin FreeFrames, push(f)
    PROVE  /\ StackOK' /\ Distinct'
           /\ FreeFrames' \subseteq FreeFrames \cup {f}
           /\ m_size # m_maxSize => FreeFrames' = FreeFrames \cup {f}
  <1> USE SizeFacts DEF StackOK, Distinct, FreeFrames
  <1>1. CASE m_size = m_maxSize
    BY <1>1 DEF push, stackVars
  <1>2. CASE m_size # m_maxSize
    <2>1. /\ m_stack' = [m_stack EXCEPT ![m_size] = f]
          /\ m_size' = m_size + 1
          /\ m_size \in 0 .. m_maxSize - 1
      BY <1>2 DEF push
    <2>2. StackOK'
      BY <2>1
    <2>3. /\ m_stack'[m_size] = f
          /\ \A i \in 0 .. m_size - 1 : m_stack'[i] = m_stack[i]
          /\ 0 .. m_size' - 1 = (0 .. m_size - 1) \cup {m_size}
      BY <2>1
    <2>4. FreeFrames' = FreeFrames \cup {f}
      <3>1. {m_stack'[i] : i \in (0 .. m_size - 1) \cup {m_size}}
              = {m_stack[i] : i \in 0 .. m_size - 1} \cup {f}
        BY <2>3, ImageExtend
      <3> QED
        BY <2>3, <3>1
    <2>5. Distinct'
      BY <2>1, <2>3
    <2> QED
      BY <2>2, <2>4, <2>5
  <1> QED
    BY <1>1, <1>2

\* Popping removes the top frame and no other.
LEMMA PopFacts ==
    ASSUME StackOK, Distinct, m_size # 0, pop
    PROVE  /\ StackOK' /\ Distinct'
           /\ top \in FreeFrames
           /\ FreeFrames' = FreeFrames \ {top}
  <1> USE SizeFacts DEF StackOK, Distinct, FreeFrames
  <1>1. m_size' = m_size - 1 /\ m_stack' = m_stack
    BY DEF pop
  <1>2. 0 .. m_size - 1 = (0 .. m_size' - 1) \cup {m_size - 1}
    BY <1>1
  <1>3. \A i \in 0 .. m_size' - 1 : m_stack[i] # m_stack[m_size - 1]
    BY <1>1
  <1> QED
    BY <1>1, <1>2, <1>3 DEF top

\* A frame that goes on or off the stack is one frame among those in Memory.
LEMMA MemoryIsNat == Memory \subseteq Nat
  BY TypeFinite DEF Memory

-----------------------------------------------------------------------------
(* The inductive invariant: what is on the stack or held by somebody has   *)
(* been reached by a loop over the memory map and is not stack storage.    *)

Placed ==
    phase # "panic" => FreeFrames \cup pinned \cup owned \subseteq Circulating

StorageOK ==
    phase \notin {"boot", "panic"} =>
        /\ stack_end = stack_begin + num_free_stack_frames
        /\ Storage \subseteq FramesOfType(USABLE)

IInv == TypeOK /\ ExclusiveFrames /\ Placed /\ StorageOK

\* The frame under the cursor is one the loop has not reached before.
LEMMA CursorFacts ==
    ASSUME TypeOK, NEW type \in {USABLE, RECLAIMABLE}, AtFrame(type)
    PROVE  /\ frame \in FramesOfType(type)
           /\ frame \notin Passed(type)
           /\ (offset' = offset + 1 /\ entry' = entry)
                => Passed(type)' = Passed(type) \cup {frame}
           /\ offset + 1 \in 0 .. TotalFrames
  <1> USE DEF FramesOf
  <1>1. /\ entry \in Entries /\ MemoryMap[entry].type = type
        /\ MemoryMap[entry].type # RESERVED
        /\ offset \in Nat /\ offset < MemoryMap[entry].length
        /\ MemoryMap[entry].base \in Nat /\ MemoryMap[entry].length \in Nat
        /\ MemoryMap[entry].base + MemoryMap[entry].length <= TotalFrames
        /\ TotalFrames \in Nat /\ entry \in Nat
    BY EntryFacts, MemoryMapAssumption
       DEF AtFrame, TypeOK, USABLE, RECLAIMABLE, RESERVED
  <1>2. frame \in FramesOf(entry)
    BY <1>1 DEF frame
  <1>3. frame \in FramesOfType(type)
    BY <1>1, <1>2 DEF FramesOfType
  <1>4. \A i \in Entries : frame \in FramesOf(i) => i = entry
    BY <1>1, <1>2, OneEntry
  <1>5. frame \notin Passed(type)
    <2> SUFFICES ASSUME NEW i \in Entries, frame \in FramesOf(i),
                        i < entry \/ (i = entry /\ frame < MemoryMap[i].base + offset)
                 PROVE  FALSE
      BY DEF Passed
    <2>1. i = entry
      BY <1>4
    <2> QED
      BY <1>1, <2>1 DEF frame
  <1>6. ASSUME offset' = offset + 1, entry' = entry
        PROVE  Passed(type)' = Passed(type) \cup {frame}
    <2>1. ASSUME NEW i \in Entries, NEW f \in FramesOf(i)
          PROVE  (i < entry' \/ (i = entry' /\ f < MemoryMap[i].base + offset'))
                 <=> (\/ i < entry \/ (i = entry /\ f < MemoryMap[i].base + offset)
                      \/ (i = entry /\ f = frame))
      <3>1. i \in Nat /\ MemoryMap[i].base \in Nat /\ MemoryMap[i].length \in Nat
        BY EntryFacts
      <3>2. f \in Nat
        BY <3>1
      <3>3. frame = MemoryMap[entry].base + offset
        BY DEF frame
      <3> QED
        BY <1>1, <1>6, <3>1, <3>2, <3>3
    <2> QED
      BY <1>2, <1>3, <1>4, <1>1, <2>1 DEF Passed
  <1> QED
    BY <1>1, <1>3, <1>5, <1>6
\* Everything in circulation is memory outside the stack's own frames.
LEMMA CirculatingFacts ==
    ASSUME TypeOK, StorageOK, phase # "panic"
    PROVE  /\ Circulating \subseteq Memory
           /\ phase # "boot" => Circulating \cap Storage = {}
  <1>1. \A type : Passed(type) \subseteq FramesOfType(type)
    BY DEF Passed
  <1>2. phase # "boot" => Storage \cap FramesOfType(RECLAIMABLE) = {}
    BY TypesDisjoint DEF StorageOK
  <1> QED
    BY <1>1, <1>2 DEF Circulating, Memory, TypeOK

\* The frames manually reserved for the stack are usable memory.
LEMMA ReserveFacts ==
    ASSUME NEW n \in Nat
    PROVE  LET b == manually_reserve_contiguous_frames(n)
           IN  b \in Nat /\ (b # 0 => b .. b + n - 1 \subseteq FramesOfType(USABLE))
  <1> DEFINE fits == {i \in Entries :
                         is_allocatable(i) /\ MemoryMap[i].length >= n}
             b == manually_reserve_contiguous_frames(n)
  <1>1. CASE fits = {}
    BY <1>1 DEF manually_reserve_contiguous_frames
  <1>2. CASE fits # {}
    <2>1. fits \subseteq Nat
      BY EntryFacts
    <2>2. Min(fits) \in fits
      <3>1. \E x \in fits : \A y \in fits : x <= y
        BY <1>2, <2>1, NatMinimum
      <3> QED
        BY <3>1 DEF Min
    <2> DEFINE m == Min(fits)
    <2> HIDE DEF m
    <2>3. b = MemoryMap[m].base
      BY <1>2 DEF manually_reserve_contiguous_frames, m
    <2>4. m \in Entries /\ MemoryMap[m].type = USABLE /\ MemoryMap[m].length >= n
      BY <2>2 DEF m, is_allocatable
    <2>5. b .. b + n - 1 \subseteq FramesOf(m)
      BY <2>3, <2>4, EntryFacts DEF FramesOf
    <2> QED
      BY <2>3, <2>4, <2>5, EntryFacts DEF FramesOfType
  <1> QED
    BY <1>1, <1>2

\* The machine boots with nothing in circulation.
LEMMA InitIInv == Init => IInv
  <1> SUFFICES ASSUME Init PROVE IInv
    OBVIOUS
  <1> USE SizeFacts DEF Init
  <1>1. FreeFrames = {}
    BY DEF FreeFrames
  <1>2. TypeOK
    BY MemoryMapAssumption, LenProperties DEF TypeOK
  <1> QED
    BY <1>1, <1>2 DEF IInv, ExclusiveFrames, Placed, StorageOK
\* A step that leaves the stack and its holders alone keeps FreeFrames.
LEMMA SameStack ==
    ASSUME UNCHANGED stackVars
    PROVE  FreeFrames' = FreeFrames /\ top' = top
  BY DEF stackVars, FreeFrames, top

\* A step of a loop pushes the frame under its cursor.
LEMMA LoopPush ==
    ASSUME IInv, phase \in {"fill", "reclaim"},
           NEW type \in {USABLE, RECLAIMABLE}, AtFrame(type),
           type = IF phase = "fill" THEN USABLE ELSE RECLAIMABLE,
           phase' = phase, entry' = entry, offset' = offset + 1,
           UNCHANGED <<rangeVars, pinned, owned>>,
           \/ type = USABLE /\ frame \in Storage /\ UNCHANGED stackVars
           \/ frame \notin Storage /\ push(frame)
    PROVE  IInv'
  <1> USE DEF IInv
  <1>1. /\ frame \in FramesOfType(type) /\ frame \notin Passed(type)
        /\ Passed(type)' = Passed(type) \cup {frame}
        /\ offset' \in 0 .. TotalFrames
    BY CursorFacts
  <1>2. Storage' = Storage
    BY DEF rangeVars, Storage
  <1>3. frame \notin FreeFrames \cup pinned \cup owned \/ frame \in Storage
    <2>1. type = USABLE => frame \notin Circulating
      BY <1>1 DEF Circulating, USABLE, RECLAIMABLE
    <2>2. type = RECLAIMABLE => frame \notin Circulating
      BY <1>1, TypesDisjoint DEF Circulating, USABLE, RECLAIMABLE
    <2> QED
      BY <2>1, <2>2 DEF Placed
  <1>4. frame \in Memory /\ frame \in Nat
    BY <1>1, MemoryIsNat DEF Memory
  <1>5. /\ StackOK' /\ Distinct'
        /\ FreeFrames' \subseteq FreeFrames \cup {frame}
        /\ frame \in Storage /\ type = USABLE => FreeFrames' = FreeFrames
    <2>1. StackOK /\ Distinct
      BY DEF TypeOK, ExclusiveFrames, StackOK, Distinct
    <2>2. CASE type = USABLE /\ frame \in Storage /\ UNCHANGED stackVars
      BY <2>1, <2>2, SameStack DEF StackOK, Distinct, stackVars
    <2>3. CASE frame \notin Storage /\ push(frame)
      BY <2>1, <2>3, <1>3, <1>4, PushFacts
    <2> QED
      BY <2>2, <2>3
  <1>6. TypeOK'
    BY <1>1, <1>5 DEF TypeOK, StackOK, rangeVars
  <1>7. ExclusiveFrames'
    BY <1>3, <1>5 DEF ExclusiveFrames, Distinct
  <1>8. Placed'
    <2>1. Circulating \cup (IF frame \in Storage THEN {} ELSE {frame})
             \subseteq Circulating'
      BY <1>1, <1>2 DEF Circulating, USABLE, RECLAIMABLE
    <2>2. frame \in Storage => FreeFrames' = FreeFrames
      BY <1>5, <1>1, TypesDisjoint DEF StorageOK
    <2> QED
      BY <1>5, <2>1, <2>2 DEF Placed
  <1>9. StorageOK'
    BY <1>2 DEF StorageOK, rangeVars
  <1> QED
    BY <1>6, <1>7, <1>8, <1>9

\* A step that moves one frame from the stack to a holder.
LEMMA AllocateStep ==
    ASSUME IInv, phase \in {"paging", "running"}, m_size # 0, pop,
           UNCHANGED <<phase, cursorVars, rangeVars>>,
           \/ pinned' = pinned \cup {top} /\ owned' = owned
           \/ owned' = owned \cup {top} /\ pinned' = pinned
    PROVE  IInv'
  <1> USE DEF IInv
  <1>1. /\ StackOK' /\ Distinct' /\ top \in FreeFrames
        /\ FreeFrames' = FreeFrames \ {top}
    BY PopFacts DEF TypeOK, ExclusiveFrames, StackOK, Distinct
  <1>2. Circulating' = Circulating /\ Storage' = Storage
    BY DEF Circulating, Passed, Storage, cursorVars, rangeVars
  <1>3. Circulating \subseteq Memory
    BY CirculatingFacts
  <1>4. TypeOK'
    BY <1>1, <1>3 DEF TypeOK, StackOK, Placed, cursorVars, rangeVars
  <1>5. ExclusiveFrames'
    BY <1>1 DEF ExclusiveFrames, Distinct
  <1>6. Placed'
    BY <1>1, <1>2 DEF Placed
  <1>7. StorageOK'
    BY <1>2 DEF StorageOK, rangeVars
  <1> QED
    BY <1>4, <1>5, <1>6, <1>7

\* Entering the panic state changes nothing else.
LEMMA PanicStep ==
    ASSUME IInv, phase' = "panic",
           UNCHANGED <<cursorVars, rangeVars, stackVars, pinned, owned>>
    PROVE  IInv'
  BY SameStack DEF IInv, TypeOK, ExclusiveFrames, Placed, StorageOK, stackVars,
                   cursorVars, rangeVars, FreeFrames
\* A step that only moves the cursor or the phase, and reaches no fewer frames.
LEMMA CursorStep ==
    ASSUME IInv, TypeOK', phase \notin {"boot", "panic"},
           phase' \notin {"boot", "panic"},
           UNCHANGED <<rangeVars, stackVars, pinned, owned>>,
           Circulating \subseteq Circulating'
    PROVE  IInv'
  <1>1. FreeFrames' = FreeFrames
    BY SameStack
  <1> QED
    BY <1>1 DEF IInv, ExclusiveFrames, Placed, StorageOK, rangeVars, stackVars, Storage

\* Each step of the boot sequence and of its clients preserves IInv.
LEMMA NextIInv == IInv /\ [Next]_vars => IInv'
  <1> SUFFICES ASSUME IInv, [Next]_vars PROVE IInv'
    OBVIOUS
  <1>1. CASE frame_allocator_init
    <2> DEFINE b == manually_reserve_contiguous_frames(num_free_stack_frames)
    <2>1. /\ b \in Nat
          /\ b # 0 => b .. b + num_free_stack_frames - 1 \subseteq FramesOfType(USABLE)
      BY ReserveFacts, SizeFacts
    <2>2. /\ phase = "boot" /\ phase' = IF b = 0 THEN "panic" ELSE "fill"
          /\ stack_begin' = b /\ stack_end' = b + num_free_stack_frames
          /\ UNCHANGED <<cursorVars, stackVars, pinned, owned>>
      BY <1>1 DEF frame_allocator_init
    <2> HIDE DEF b
    <2>3. TypeOK'
      BY <2>1, <2>2, SizeFacts DEF IInv, TypeOK, cursorVars, stackVars
    <2>4. FreeFrames \cup pinned \cup owned = {} /\ FreeFrames' = FreeFrames
      BY <2>2, SameStack DEF IInv, Placed, Circulating
    <2>5. StorageOK'
      BY <2>1, <2>2, SizeFacts DEF StorageOK, Storage
    <2> QED
      BY <2>2, <2>3, <2>4, <2>5 DEF IInv, Placed, ExclusiveFrames, stackVars
  <1>2. CASE fill_free_stack
    <2>1. frame \in Nat /\ stack_begin \in Nat /\ stack_end \in Nat
      BY <1>2, CursorFacts, MemoryIsNat DEF fill_free_stack, IInv, TypeOK, Memory
    <2>2. in_exclude_range(frame) <=> frame \in Storage
      BY <2>1 DEF in_exclude_range, Storage
    <2> QED
      BY <1>2, <2>2, LoopPush DEF fill_free_stack, stackVars
  <1>3. CASE free_limine_bootloader_memory
    <2>1. frame \notin Storage
      BY <1>3, CursorFacts, TypesDisjoint
         DEF free_limine_bootloader_memory, IInv, StorageOK
    <2> QED
      BY <1>3, <2>1, LoopPush DEF free_limine_bootloader_memory
  <1>4. CASE next_entry
    <2>1. \A type : Passed(type) \subseteq Passed(type)'
      BY <1>4, EntryFacts DEF next_entry, Passed, IInv, TypeOK
    <2>2. TypeOK'
      BY <1>4, EntryFacts, MemoryMapAssumption
         DEF next_entry, IInv, TypeOK, rangeVars, stackVars
    <2>3. Circulating \subseteq Circulating'
      BY <1>4, <2>1 DEF next_entry, Circulating, Storage, rangeVars
    <2> QED
      BY <1>4, <2>2, <2>3, CursorStep DEF next_entry
  <1>5. CASE end_loop
    <2>1. \A type : Passed(type) \subseteq FramesOfType(type)
      BY DEF Passed
    <2>2. TypeOK'
      BY <1>5 DEF end_loop, IInv, TypeOK, cursorVars, rangeVars, stackVars
    <2>3. phase = "reclaim" => FramesOfType(RECLAIMABLE) \cap Storage = {}
      BY TypesDisjoint DEF IInv, StorageOK
    <2>4. Circulating \subseteq Circulating'
      BY <1>5, <2>1, <2>3 DEF end_loop, Circulating, Storage, rangeVars, Memory
    <2> QED
      BY <1>5, <2>2, <2>4, CursorStep DEF end_loop
  <1>6. CASE paging_allocate
    <2>1. CASE m_size = 0
      BY <1>6, <2>1, PanicStep DEF paging_allocate, allocate_frame
    <2>2. CASE m_size # 0
      BY <1>6, <2>2, AllocateStep DEF paging_allocate, allocate_frame
    <2> QED
      BY <2>1, <2>2
  <1>7. CASE paging_reclaim
    <2>1. TypeOK'
      BY <1>7, MemoryMapAssumption, LenProperties
         DEF paging_reclaim, IInv, TypeOK, rangeVars, stackVars
    <2>2. Circulating \subseteq Circulating'
      BY <1>7 DEF paging_reclaim, Circulating, Storage, rangeVars
    <2> QED
      BY <1>7, <2>1, <2>2, CursorStep DEF paging_reclaim
  <1>8. CASE client_allocate
    <2>1. CASE m_size = 0
      BY <1>8, <2>1, PanicStep DEF client_allocate, allocate_frame
    <2>2. CASE m_size # 0
      BY <1>8, <2>2, AllocateStep DEF client_allocate, allocate_frame
    <2> QED
      BY <2>1, <2>2
  <1>9. ASSUME NEW f \in owned, deallocate_frame(f)
        PROVE  IInv'
    <2>1. f \notin FreeFrames \cup pinned /\ f \in Nat
      BY MemoryIsNat DEF IInv, ExclusiveFrames, TypeOK
    <2>2. /\ StackOK' /\ Distinct' /\ FreeFrames' \subseteq FreeFrames \cup {f}
      BY <1>9, <2>1, PushFacts
         DEF deallocate_frame, IInv, TypeOK, ExclusiveFrames, StackOK, Distinct
    <2>3. Circulating' = Circulating /\ Storage' = Storage
      BY <1>9 DEF deallocate_frame, Circulating, Passed, Storage, cursorVars, rangeVars
    <2>4. TypeOK'
      BY <1>9, <2>2 DEF deallocate_frame, IInv, TypeOK, StackOK, cursorVars, rangeVars
    <2>5. ExclusiveFrames'
      BY <1>9, <2>1, <2>2 DEF deallocate_frame, IInv, ExclusiveFrames, Distinct
    <2>6. Placed' /\ StorageOK'
      BY <1>9, <2>2, <2>3
         DEF deallocate_frame, IInv, Placed, StorageOK, rangeVars
    <2> QED
      BY <2>4, <2>5, <2>6 DEF IInv
  <1>10. CASE UNCHANGED vars
    BY <1>10 DEF vars, IInv, TypeOK, ExclusiveFrames, Placed, StorageOK, FreeFrames,
                 Storage, Circulating, Passed
  <1> QED
    BY <1>1, <1>2, <1>3, <1>4, <1>5, <1>6, <1>7, <1>8, <1>9, <1>10
       DEF Next, BootStep, kernel_hang

-----------------------------------------------------------------------------

\* The inductive invariant holds of every reachable state of the allocator.
THEOREM AllocatorIInv == Spec => []IInv
  BY InitIInv, NextIInv, PTL DEF Spec

\* The variables of the allocator keep their types: in particular the stack
\* never grows past its capacity and every frame handed out is real memory.
THEOREM AllocatorTypeOK == Spec => []TypeOK
  <1>1. IInv => TypeOK
    BY DEF IInv
  <1> QED
    BY <1>1, AllocatorIInv, PTL

\* allocate_frame never hands out a frame somebody holds, for every memory map.
THEOREM AllocatorExclusive == Spec => []ExclusiveFrames
  <1>1. IInv => ExclusiveFrames
    BY DEF IInv
  <1> QED
    BY <1>1, AllocatorIInv, PTL

\* The free stack stays inside the frames reserved for it and never hands
\* them out, whatever the number of usable frames.
THEOREM AllocatorStorage == Spec => []StorageIsPrivate
  <1>1. IInv => StorageIsPrivate
    <2> SUFFICES ASSUME IInv, phase \notin {"boot", "panic"}
                 PROVE  /\ m_maxSize <= (stack_end - stack_begin) * PointersPerFrame
                        /\ Storage \subseteq FramesOfType(USABLE)
                        /\ Storage \cap (FreeFrames \cup pinned \cup owned) = {}
      BY DEF StorageIsPrivate
    <2>1. stack_end - stack_begin = num_free_stack_frames
      BY SizeFacts DEF IInv, StorageOK, TypeOK
    <2>2. Circulating \cap Storage = {}
      BY CirculatingFacts DEF IInv
    <2> QED
      BY <2>1, <2>2, SizeFacts DEF IInv, StorageOK, Placed
  <1> QED
    BY <1>1, AllocatorIInv, PTL
-----------------------------------------------------------------------------
(* No frame is lost: a counting argument.  The slots in use are as many as *)
(* the free frames, and these share U + R frames with the storage and the  *)
(* page tree, so a slot is free whenever a frame comes back.               *)

\* Distinct slots hold as many frames as there are slots.
LEMMA FreeCount ==
    ASSUME StackOK, Distinct
    PROVE  IsFiniteSet(FreeFrames) /\ Cardinality(FreeFrames) = m_size
  <1> DEFINE I == 0 .. m_size - 1
             g == [i \in I |-> m_stack[i]]
  <1>1. m_size \in Nat
    BY SizeFacts DEF StackOK
  <1>2. IsFiniteSet(I) /\ Cardinality(I) = m_size
    BY <1>1, FS_Interval
  <1>3. g \in Bijection(I, FreeFrames)
    BY DEF Distinct, FreeFrames, Bijection, Injection, Surjection, IsInjective
  <1>4. ExistsBijection(I, FreeFrames)
    BY <1>3 DEF ExistsBijection
  <1> HIDE DEF I
  <1> QED
    BY <1>2, <1>4, FS_Bijection

\* The number of frames in the union of two disjoint finite sets.
LEMMA DisjointCount ==
    ASSUME NEW S, NEW T, IsFiniteSet(S), IsFiniteSet(T), S \cap T = {}
    PROVE  /\ IsFiniteSet(S \cup T)
           /\ Cardinality(S \cup T) = Cardinality(S) + Cardinality(T)
           /\ Cardinality(S) \in Nat /\ Cardinality(T) \in Nat
  <1>1. Cardinality(S) \in Nat /\ Cardinality(T) \in Nat
    BY FS_CardinalityType
  <1>2. Cardinality(S \cap T) = 0
    BY FS_EmptySet
  <1>3. /\ IsFiniteSet(S \cup T)
        /\ Cardinality(S \cup T)
              = Cardinality(S) + Cardinality(T) - Cardinality(S \cap T)
    BY FS_Union, Zenon
  <1> QED
    BY <1>1, <1>2, <1>3

\* What the proof needs to remember besides IInv.
KInv ==
    /\ phase = "boot" => entry = 1 /\ offset = 0
    /\ phase \in {"reclaim", "running"} => Cardinality(pinned) = BootFrames
    /\ NoFrameLost

\* While the usable frames are pushed the stack is not full.
LEMMA RoomToFill ==
    ASSUME IInv, phase = "fill", NEW f \in FramesOfType(USABLE), f \notin FreeFrames
    PROVE  m_size # m_maxSize
  <1>1. FreeFrames \subseteq FramesOfType(USABLE)
    BY DEF IInv, Placed, Circulating, Passed
  <1>2. IsFiniteSet(FreeFrames) /\ Cardinality(FreeFrames) = m_size
    BY FreeCount DEF IInv, TypeOK, ExclusiveFrames, StackOK, Distinct
  <1>3. Cardinality(FreeFrames \cup {f}) = m_size + 1
    BY <1>2, FS_AddElement
  <1>4. Cardinality(FreeFrames \cup {f}) <= m_maxSize
    BY <1>1, TypeFinite, FS_Subset DEF m_maxSize, get_num_allocatable_frames
  <1> QED
    BY <1>3, <1>4, SizeFacts DEF IInv, TypeOK

\* Once the page tree holds its frames, there is room for every other frame.
LEMMA RoomToPush ==
    ASSUME IInv, KInv, ReclaimFits, phase \in {"reclaim", "running"},
           NEW f \in Memory \ Storage, f \notin FreeFrames \cup pinned
    PROVE  m_size # m_maxSize
  <1> DEFINE U == FramesOfType(USABLE)
             R == FramesOfType(RECLAIMABLE)
             A == FreeFrames \cup pinned
             B == A \cup {f}
             C == B \cup Storage
  <1>1. /\ IsFiniteSet(FreeFrames) /\ Cardinality(FreeFrames) = m_size
        /\ m_size \in Nat
    BY FreeCount, SizeFacts DEF IInv, TypeOK, ExclusiveFrames, StackOK, Distinct
  <1>2. /\ IsFiniteSet(U) /\ IsFiniteSet(R)
        /\ Cardinality(U \cup R) = Cardinality(U) + Cardinality(R)
        /\ Cardinality(U) \in Nat /\ Cardinality(R) \in Nat
        /\ IsFiniteSet(U \cup R)
    BY TypeFinite, TypesDisjoint, DisjointCount
  <1>3. /\ IsFiniteSet(pinned) /\ Cardinality(pinned) = BootFrames
        /\ BootFrames \in Nat
    BY <1>2, FS_Subset, SizeAssumption DEF IInv, TypeOK, KInv, Memory
  <1>4. IsFiniteSet(A) /\ Cardinality(A) = m_size + BootFrames
    BY <1>1, <1>3, DisjointCount DEF IInv, ExclusiveFrames
  <1>5. IsFiniteSet(B) /\ Cardinality(B) = m_size + BootFrames + 1
    <2>1. f \notin A
      OBVIOUS
    <2> HIDE DEF A
    <2>2. /\ IsFiniteSet(A \cup {f})
          /\ Cardinality(A \cup {f}) = IF f \in A THEN Cardinality(A) ELSE Cardinality(A) + 1
      BY <1>4, FS_AddElement, Zenon
    <2>3. Cardinality(A \cup {f}) = Cardinality(A) + 1
      BY <2>1, <2>2, Zenon
    <2> QED
      BY <1>4, <2>2, <2>3
  <1>6. /\ IsFiniteSet(Storage) /\ Cardinality(Storage) = num_free_stack_frames
        /\ num_free_stack_frames \in Nat
    <2>1. /\ stack_end = stack_begin + num_free_stack_frames
          /\ stack_begin \in Nat /\ num_free_stack_frames \in Nat
      BY SizeFacts DEF IInv, StorageOK, TypeOK
    <2> QED
      BY <2>1, FS_Interval DEF Storage
  <1>7. B \cap Storage = {} /\ C \subseteq U \cup R
    BY CirculatingFacts DEF IInv, Placed, StorageOK, Memory
  <1>8. Cardinality(C) = m_size + BootFrames + 1 + num_free_stack_frames
    <2> HIDE DEF B
    <2> QED
      BY <1>5, <1>6, <1>7, <1>1, <1>3, DisjointCount
  <1>9. Cardinality(C) <= Cardinality(U) + Cardinality(R)
    <2> HIDE DEF C
    <2> QED
      BY <1>2, <1>7, FS_Subset
  <1> HIDE DEF C
  <1> QED
    BY <1>1, <1>2, <1>3, <1>6, <1>8, <1>9
       DEF ReclaimFits, m_maxSize, get_num_allocatable_frames

\* A finished loop has reached every frame of its type, a new one none.
LEMMA LoopEnds ==
    ASSUME TypeOK, NEW type \in {USABLE, RECLAIMABLE}
    PROVE  /\ entry \notin Entries => Passed(type) = FramesOfType(type)
           /\ (entry' = 1 /\ offset' = 0) => Passed(type)' = {}
           /\ (/\ entry \in Entries /\ ~AtFrame(type)
               /\ entry' = entry + 1 /\ offset' = 0) => Passed(type)' = Passed(type)
  <1>1. ASSUME entry \notin Entries
        PROVE  Passed(type) = FramesOfType(type)
    <2>1. \A i \in Entries : i < entry
      BY <1>1, EntryFacts, MemoryMapAssumption, LenProperties DEF TypeOK, Entries
    <2> QED
      BY <2>1 DEF Passed, FramesOfType
  <1>2. ASSUME entry' = 1, offset' = 0
        PROVE  Passed(type)' = {}
    <2> SUFFICES ASSUME NEW i \in Entries, NEW f \in FramesOf(i),
                        i < entry' \/ (i = entry' /\ f < MemoryMap[i].base + offset')
                 PROVE  FALSE
      BY DEF Passed
    <2> QED
      BY <1>2, EntryFacts DEF FramesOf
  <1>3. ASSUME entry \in Entries, ~AtFrame(type), entry' = entry + 1, offset' = 0
        PROVE  Passed(type)' = Passed(type)
    <2> SUFFICES ASSUME NEW f \in FramesOfType(type), NEW i \in Entries,
                        f \in FramesOf(i)
                 PROVE  (i < entry' \/ (i = entry' /\ f < MemoryMap[i].base + offset'))
                        <=> (i < entry \/ (i = entry /\ f < MemoryMap[i].base + offset))
      BY DEF Passed
    <2>1. /\ i \in Nat /\ MemoryMap[i].base \in Nat /\ MemoryMap[i].length \in Nat
          /\ entry \in Nat /\ offset \in Nat
      BY EntryFacts DEF TypeOK
    <2>2. f \in MemoryMap[i].base .. MemoryMap[i].base + MemoryMap[i].length - 1
      BY DEF FramesOf
    <2>3. i = entry => f < MemoryMap[i].base + offset
      <3> SUFFICES ASSUME i = entry
                   PROVE  f < MemoryMap[i].base + offset
        OBVIOUS
      <3>1. PICK j \in Entries : MemoryMap[j].type = type /\ f \in FramesOf(j)
        BY DEF FramesOfType
      <3>2. MemoryMap[entry].type = type
        BY <3>1, OneEntry DEF USABLE, RECLAIMABLE, RESERVED
      <3>3. ~(offset < MemoryMap[entry].length)
        BY <1>3, <3>2 DEF AtFrame
      <3> QED
        BY <2>1, <2>2, <3>3
    <2> QED
      BY <1>3, <2>1, <2>2, <2>3
  <1> QED
    BY <1>1, <1>2, <1>3
\* The facts of IInv about the stack, and where the frames on it come from.
LEMMA IInvStack ==
    ASSUME IInv
    PROVE  StackOK /\ Distinct /\ TypeOK
  BY DEF IInv, TypeOK, ExclusiveFrames, StackOK, Distinct

\* While memory is being given out and taken back nothing enters circulation.
LEMMA SameCirculation ==
    ASSUME phase' = phase, UNCHANGED <<cursorVars, rangeVars>>
    PROVE  Circulating' = Circulating
  BY DEF Circulating, Passed, Storage, cursorVars, rangeVars

\* The stack starts empty, so nothing is owed to it.
LEMMA InitKInv == Init => KInv
  BY DEF Init, KInv, NoFrameLost, Circulating

\* Every step keeps the count that push relies on to have room.
LEMMA NextKInv == IInv /\ KInv /\ [Next]_vars => KInv'
  <1> SUFFICES ASSUME IInv, KInv, [Next]_vars PROVE KInv'
    OBVIOUS
  <1> USE IInvStack
  <1>1. CASE frame_allocator_init
    <2>1. Passed(USABLE)' = {}
      BY <1>1, LoopEnds DEF frame_allocator_init, KInv, cursorVars
    <2> QED
      BY <1>1, <2>1 DEF frame_allocator_init, KInv, NoFrameLost, Circulating
  <1>2. CASE fill_free_stack
    <2>1. /\ phase = "fill" /\ phase' = phase /\ AtFrame(USABLE)
          /\ UNCHANGED <<rangeVars, pinned, owned>>
      BY <1>2 DEF fill_free_stack
    <2>2. /\ Passed(USABLE)' = Passed(USABLE) \cup {frame}
          /\ frame \in FramesOfType(USABLE) /\ frame \notin Passed(USABLE)
          /\ frame \in Nat
      BY <1>2, CursorFacts, MemoryIsNat DEF fill_free_stack, Memory
    <2>3. frame \notin FreeFrames
      BY <2>1, <2>2 DEF IInv, Placed, Circulating
    <2>4. frame \in Storage \/ FreeFrames' = FreeFrames \cup {frame}
      BY <1>2, <2>1, <2>2, <2>3, RoomToFill, PushFacts
         DEF fill_free_stack, in_exclude_range, Storage, TypeOK
    <2>5. FreeFrames \subseteq FreeFrames'
      BY <1>2, <2>2, <2>3, RoomToFill, PushFacts, SameStack DEF fill_free_stack
    <2>6. Storage' = Storage
      BY <2>1 DEF rangeVars, Storage
    <2> QED
      BY <2>1, <2>2, <2>4, <2>5, <2>6 DEF KInv, NoFrameLost, Circulating
  <1>3. CASE free_limine_bootloader_memory
    <2>1. /\ phase = "reclaim" /\ phase' = phase /\ AtFrame(RECLAIMABLE)
          /\ UNCHANGED <<rangeVars, pinned, owned>> /\ push(frame)
      BY <1>3 DEF free_limine_bootloader_memory
    <2>2. /\ Passed(RECLAIMABLE)' = Passed(RECLAIMABLE) \cup {frame}
          /\ frame \in FramesOfType(RECLAIMABLE) /\ frame \notin Passed(RECLAIMABLE)
          /\ frame \in Nat
      BY <1>3, CursorFacts, MemoryIsNat DEF free_limine_bootloader_memory, Memory
    <2>3. frame \in Memory \ Storage /\ frame \notin FreeFrames \cup pinned \cup owned
      BY <2>1, <2>2, TypesDisjoint DEF IInv, Placed, StorageOK, Circulating, Memory
    <2>4. ReclaimFits => FreeFrames' = FreeFrames \cup {frame}
      BY <2>1, <2>2, <2>3, RoomToPush, PushFacts
    <2>5. Storage' = Storage
      BY <2>1 DEF rangeVars, Storage
    <2> QED
      BY <2>1, <2>2, <2>4, <2>5 DEF KInv, NoFrameLost, Circulating
  <1>4. CASE next_entry
    <2>1. /\ phase = "fill" => Passed(USABLE)' = Passed(USABLE)
          /\ phase = "reclaim" => Passed(RECLAIMABLE)' = Passed(RECLAIMABLE)
      BY <1>4, LoopEnds DEF next_entry, USABLE, RECLAIMABLE
    <2>2. FreeFrames' = FreeFrames /\ Storage' = Storage
      BY <1>4, SameStack DEF next_entry, rangeVars, Storage
    <2> QED
      BY <1>4, <2>1, <2>2 DEF next_entry, KInv, NoFrameLost, Circulating
  <1>5. CASE end_loop
    <2>1. /\ Passed(USABLE) = FramesOfType(USABLE)
          /\ Passed(RECLAIMABLE) = FramesOfType(RECLAIMABLE)
      BY <1>5, LoopEnds DEF end_loop
    <2>2. FreeFrames' = FreeFrames /\ Storage' = Storage
      BY <1>5, SameStack DEF end_loop, rangeVars, Storage
    <2> QED
      BY <1>5, <2>1, <2>2 DEF end_loop, KInv, NoFrameLost, Circulating, Memory
  <1>6. CASE paging_allocate
    <2>1. CASE m_size = 0
      BY <1>6, <2>1 DEF paging_allocate, allocate_frame, KInv, NoFrameLost, Circulating
    <2>2. CASE m_size # 0
      <3>1. FreeFrames' = FreeFrames \ {top}
        BY <1>6, <2>2, PopFacts DEF paging_allocate, allocate_frame
      <3> QED
        BY <1>6, <2>2, <3>1, SameCirculation
           DEF paging_allocate, allocate_frame, KInv, NoFrameLost
    <2> QED
      BY <2>1, <2>2
  <1>7. CASE paging_reclaim
    <2>1. Passed(RECLAIMABLE)' = {}
      BY <1>7, LoopEnds DEF paging_reclaim
    <2>2. FreeFrames' = FreeFrames /\ Storage' = Storage
      BY <1>7, SameStack DEF paging_reclaim, rangeVars, Storage
    <2> QED
      BY <1>7, <2>1, <2>2 DEF paging_reclaim, KInv, NoFrameLost, Circulating
  <1>8. CASE client_allocate
    <2>1. CASE m_size = 0
      BY <1>8, <2>1 DEF client_allocate, allocate_frame, KInv, NoFrameLost, Circulating
    <2>2. CASE m_size # 0
      <3>1. FreeFrames' = FreeFrames \ {top}
        BY <1>8, <2>2, PopFacts DEF client_allocate, allocate_frame
      <3> QED
        BY <1>8, <2>2, <3>1, SameCirculation
           DEF client_allocate, allocate_frame, KInv, NoFrameLost
    <2> QED
      BY <2>1, <2>2
  <1>9. ASSUME NEW f \in owned, deallocate_frame(f)
        PROVE  KInv'
    <2>1. /\ f \in Nat /\ f \in Memory \ Storage
          /\ f \notin FreeFrames \cup pinned
      BY <1>9, MemoryIsNat, CirculatingFacts
         DEF IInv, ExclusiveFrames, TypeOK, Placed, deallocate_frame
    <2>2. ReclaimFits => FreeFrames' = FreeFrames \cup {f}
      BY <1>9, <2>1, RoomToPush, PushFacts DEF deallocate_frame
    <2>3. Circulating' = Circulating
      BY <1>9, SameCirculation DEF deallocate_frame
    <2> QED
      BY <1>9, <2>2, <2>3 DEF deallocate_frame, KInv, NoFrameLost
  <1>10. CASE UNCHANGED vars
    BY <1>10 DEF vars, KInv, NoFrameLost, FreeFrames, Storage, Circulating, Passed
  <1> QED
    BY <1>1, <1>2, <1>3, <1>4, <1>5, <1>6, <1>7, <1>8, <1>9, <1>10
       DEF Next, BootStep, kernel_hang

\* When the reclaimed frames fit in the slots left over, no frame that was
\* put in circulation is ever lost, for every memory map.
THEOREM AllocatorNoFrameLost == Spec => []NoFrameLost
  <1>1. Spec => []KInv
    BY InitKInv, NextKInv, AllocatorIInv, PTL DEF Spec
  <1>2. KInv => NoFrameLost
    BY DEF KInv
  <1> QED
    BY <1>1, <1>2, PTL
-----------------------------------------------------------------------------
(* The allocator implements the abstract pool.                             *)

\* Every step is one of Donate, Grant and Release, or leaves the pool alone.
LEMMA PoolStep ==
    ASSUME ReclaimFits, IInv, KInv, [Next]_vars
    PROVE  [Pool!Next]_(Pool!poolVars)
  <1> DEFINE held == pinned \cup owned
  <1> USE IInvStack
  <1>1. ASSUME NEW f \in Memory, f \notin FreeFrames \cup held,
               FreeFrames' = FreeFrames \cup {f}, held' = held
        PROVE  Pool!Next
    BY <1>1 DEF Pool!Next, Pool!Donate
  <1>2. ASSUME top \in FreeFrames, FreeFrames' = FreeFrames \ {top},
               held' = held \cup {top}, phase # "panic"
        PROVE  Pool!Next
    <2>1. top \in Memory
      BY <1>2, CirculatingFacts DEF IInv, Placed
    <2> QED
      BY <1>2, <2>1 DEF Pool!Next, Pool!Grant
  <1>3. ASSUME NEW f \in owned, f \notin FreeFrames \cup pinned,
               FreeFrames' = FreeFrames \cup {f},
               owned' = owned \ {f}, pinned' = pinned
        PROVE  Pool!Next
    <2>1. f \in Memory
      BY DEF TypeOK
    <2> QED
      BY <1>3, <2>1 DEF Pool!Next, Pool!Release
  <1>4. ASSUME UNCHANGED <<stackVars, pinned, owned>>
        PROVE  UNCHANGED Pool!poolVars
    BY <1>4, SameStack DEF Pool!poolVars
  <1>5. CASE fill_free_stack
    <2>1. /\ frame \in FramesOfType(USABLE) /\ frame \notin Passed(USABLE)
          /\ frame \in Memory /\ frame \in Nat
      BY <1>5, CursorFacts, MemoryIsNat DEF fill_free_stack, Memory
    <2>2. frame \notin FreeFrames \cup held
      BY <1>5, <2>1 DEF fill_free_stack, IInv, Placed, Circulating
    <2>3. CASE in_exclude_range(frame)
      BY <1>4, <1>5, <2>3 DEF fill_free_stack
    <2>4. CASE ~in_exclude_range(frame)
      <3>1. FreeFrames' = FreeFrames \cup {frame}
        BY <1>5, <2>1, <2>2, <2>4, RoomToFill, PushFacts DEF fill_free_stack
      <3> QED
        BY <1>1, <1>5, <2>1, <2>2, <3>1 DEF fill_free_stack
    <2> QED
      BY <2>3, <2>4
  <1>6. CASE free_limine_bootloader_memory
    <2>1. /\ frame \in FramesOfType(RECLAIMABLE) /\ frame \notin Passed(RECLAIMABLE)
          /\ frame \in Memory /\ frame \in Nat
      BY <1>6, CursorFacts, MemoryIsNat DEF free_limine_bootloader_memory, Memory
    <2>2. frame \notin FreeFrames \cup held /\ frame \notin Storage
      BY <1>6, <2>1, TypesDisjoint
         DEF free_limine_bootloader_memory, IInv, Placed, StorageOK, Circulating
    <2>3. FreeFrames' = FreeFrames \cup {frame}
      BY <1>6, <2>1, <2>2, RoomToPush, PushFacts DEF free_limine_bootloader_memory
    <2> QED
      BY <1>1, <1>6, <2>1, <2>2, <2>3 DEF free_limine_bootloader_memory
  <1>7. CASE paging_allocate
    <2>1. CASE m_size = 0
      BY <1>4, <1>7, <2>1 DEF paging_allocate, allocate_frame
    <2>2. CASE m_size # 0
      BY <1>2, <1>7, <2>2, PopFacts DEF paging_allocate, allocate_frame
    <2> QED
      BY <2>1, <2>2
  <1>8. CASE client_allocate
    <2>1. CASE m_size = 0
      BY <1>4, <1>8, <2>1 DEF client_allocate, allocate_frame
    <2>2. CASE m_size # 0
      BY <1>2, <1>8, <2>2, PopFacts DEF client_allocate, allocate_frame
    <2> QED
      BY <2>1, <2>2
  <1>9. ASSUME NEW f \in owned, deallocate_frame(f)
        PROVE  Pool!Next
    <2>1. /\ f \in Nat /\ f \in Memory \ Storage
          /\ f \notin FreeFrames \cup pinned
      BY <1>9, MemoryIsNat, CirculatingFacts
         DEF IInv, ExclusiveFrames, TypeOK, Placed, deallocate_frame
    <2>2. FreeFrames' = FreeFrames \cup {f}
      BY <1>9, <2>1, RoomToPush, PushFacts DEF deallocate_frame
    <2> QED
      BY <1>3, <1>9, <2>1, <2>2 DEF deallocate_frame
  <1>10. CASE UNCHANGED <<stackVars, pinned, owned>>
    BY <1>4, <1>10
  <1> QED
    BY <1>5, <1>6, <1>7, <1>8, <1>9, <1>10
       DEF Next, BootStep, kernel_hang, vars, stackVars, frame_allocator_init,
           next_entry, end_loop, paging_reclaim

\* Seen through its free frames and its holders, the allocator is the pool its
\* callers are promised, provided the reclaimed frames fit.
THEOREM AllocatorImplementsPool ==
    ASSUME ReclaimFits
    PROVE  Spec => PoolSpec
  <1>1. Init => Pool!Init
    BY DEF Init, Pool!Init, FreeFrames
  <1>2. Spec => [](IInv /\ KInv)
    BY InitKInv, NextKInv, AllocatorIInv, PTL DEF Spec
  <1>3. ASSUME IInv, KInv, [Next]_vars PROVE [Pool!Next]_(Pool!poolVars)
    BY <1>3, PoolStep
  <1> QED
    BY <1>1, <1>2, <1>3, PTL DEF Spec, PoolSpec, Pool!Spec
=============================================================================
