---------------------------- MODULE KeyboardBuffer ----------------------------
(***************************************************************************)
(* The keyboard buffer: isr_keyboard (kernel/src/idt.cpp) decodes a scan   *)
(* code and enqueues a key; the main loop dequeues it (KeyboardBuffer.hpp, *)
(* CircularQueue.hpp).                                                     *)
(*                                                                         *)
(* There is one processor and the handler runs behind an interrupt gate,   *)
(* so isr_keyboard is one step.  dequeue runs with interrupts enabled and  *)
(* no lock: it is split where it touches what the handler also writes,     *)
(* m_size and m_data.  The build does not optimise, so --m_size is a load  *)
(* and a store.                                                            *)
(***************************************************************************)
EXTENDS Integers, Sequences

CONSTANTS
    capacity,           \* s_maxSize, 256 in the code
    Scancodes,          \* the bytes the keyboard may send
    Keys,               \* KeyboardBuffer::Key without None
    scancode_to_ascii,  \* the table: a key or None for each code below 0x80
    MaxKeys             \* bound: keys accepted by the queue in one behaviour

None == "None"

ASSUME QueueAssumption == capacity \in Nat \ {0} /\ MaxKeys \in Nat

ASSUME KeyAssumption ==
    /\ Scancodes \subseteq 0 .. 255
    /\ None \notin Keys
    /\ {"UpArrow", "DownArrow", "LeftArrow", "RightArrow"} \subseteq Keys
    /\ scancode_to_ascii \in [Scancodes \cap 0 .. 127 -> Keys \cup {None}]

VARIABLES
    extended,                       \* static local of scancode_to_key
    m_data, m_front, m_back, m_size,
    pc, item, rax,                  \* a dequeue in progress
    history,                        \* every key the queue accepted, in order
    taken,                          \* keys dequeued: m_front moves so far
    lost                            \* increments of m_size overwritten so far

queueVars == <<m_data, m_front, m_back, m_size>>
dequeueVars == <<pc, item, rax, taken, lost>>
vars == <<extended, m_data, m_front, m_back, m_size, pc, item, rax, history,
          taken, lost>>

-----------------------------------------------------------------------------
(* The interrupt handler. *)

\* The key a scan code stands for.
scancode_to_key(code) ==
    CASE extended  -> CASE code = 72 -> "UpArrow"
                        [] code = 80 -> "DownArrow"
                        [] code = 75 -> "LeftArrow"
                        [] code = 77 -> "RightArrow"
                        [] OTHER     -> None
      [] ~extended /\ code >= 128 -> None    \* the 0xE0 prefix, or a release
      [] OTHER -> scancode_to_ascii[code]

isFull  == m_size = capacity
isEmpty == m_size = 0

\* Mutant of enqueue: a full queue is not refused.
enqueue_unchecked(key) ==
    /\ m_data' = [m_data EXCEPT ![m_back] = key]
    /\ m_back' = (m_back + 1) % capacity
    /\ m_size' = m_size + 1
    /\ history' = Append(history, key)
    /\ UNCHANGED m_front

\* Mutant of enqueue: the slot is written after m_back has moved.
enqueue_late(key) ==
    IF isFull
    THEN UNCHANGED <<queueVars, history>>
    ELSE /\ m_data' = [m_data EXCEPT ![(m_back + 1) % capacity] = key]
         /\ m_back' = (m_back + 1) % capacity
         /\ m_size' = m_size + 1
         /\ history' = Append(history, key)
         /\ UNCHANGED m_front

enqueue(key) ==
    IF isFull
    THEN UNCHANGED <<queueVars, history>>
    ELSE /\ m_data' = [m_data EXCEPT ![m_back] = key]
         /\ m_back' = (m_back + 1) % capacity
         /\ m_size' = m_size + 1
         /\ history' = Append(history, key)
         /\ UNCHANGED m_front

\* Every byte is enqueued, the ones that decode to None too.
isr_keyboard(code) ==
    /\ Len(history) < MaxKeys
    /\ enqueue(scancode_to_key(code))
    /\ extended' = (~extended /\ code = 224)
    /\ UNCHANGED dequeueVars

-----------------------------------------------------------------------------
(* dequeue, called by KeyboardBuffer::get. *)

\* Mutant of dequeue_check: the last key is taken for an empty queue.
dequeue_check_last ==
    /\ pc = "idle"
    /\ IF m_size <= 1 THEN item' = None /\ UNCHANGED pc
                      ELSE pc' = "read" /\ UNCHANGED item
    /\ UNCHANGED <<extended, queueVars, rax, history, taken, lost>>

\* On an empty queue get() returns None.
dequeue_check ==
    /\ pc = "idle"
    /\ IF isEmpty THEN item' = None /\ UNCHANGED pc
                  ELSE pc' = "read" /\ UNCHANGED item
    /\ UNCHANGED <<extended, queueVars, rax, history, taken, lost>>

\* Mutant of dequeue_read: m_front moves before the item is read.
dequeue_read_late ==
    /\ pc = "read"
    /\ item' = m_data[(m_front + 1) % capacity]
    /\ m_front' = (m_front + 1) % capacity
    /\ taken' = taken + 1
    /\ pc' = "load"
    /\ UNCHANGED <<extended, m_data, m_back, m_size, rax, history, lost>>

\* m_front belongs to the main loop alone.
dequeue_read ==
    /\ pc = "read"
    /\ item' = m_data[m_front]
    /\ m_front' = (m_front + 1) % capacity
    /\ taken' = taken + 1
    /\ pc' = "load"
    /\ UNCHANGED <<extended, m_data, m_back, m_size, rax, history, lost>>

dequeue_load ==
    /\ pc = "load"
    /\ rax' = m_size
    /\ pc' = "store"
    /\ UNCHANGED <<extended, queueVars, item, history, taken, lost>>

\* Mutant of dequeue_store: the loaded size is written back as it is.
dequeue_store_undecremented ==
    /\ pc = "store"
    /\ m_size' = rax
    /\ lost' = lost + (m_size - rax)
    /\ pc' = "idle"
    /\ UNCHANGED <<extended, m_data, m_front, m_back, item, rax, history, taken>>

\* What the handler added to m_size since the load is overwritten.
dequeue_store ==
    /\ pc = "store"
    /\ m_size' = rax - 1
    /\ lost' = lost + (m_size - rax)
    /\ pc' = "idle"
    /\ UNCHANGED <<extended, m_data, m_front, m_back, item, rax, history, taken>>

Dequeue == dequeue_check \/ dequeue_read \/ dequeue_load \/ dequeue_store

-----------------------------------------------------------------------------
Init ==
    /\ extended = FALSE
    /\ m_data = [i \in 0 .. capacity - 1 |-> None]
    /\ m_front = 0 /\ m_back = 0 /\ m_size = 0
    /\ pc = "idle" /\ item = None /\ rax = 0
    /\ history = <<>> /\ taken = 0 /\ lost = 0

Next == Dequeue \/ \E code \in Scancodes : isr_keyboard(code)

\* The main loop calls get() for ever; nothing obliges anyone to type.
Spec == Init /\ [][Next]_vars /\ WF_vars(Dequeue)

-----------------------------------------------------------------------------
(* Properties. *)

accepted == Len(history)

\* The indices of the queue and m_size stay within its capacity, although the
\* handler and dequeue race on m_size.
TypeOK ==
    /\ extended \in BOOLEAN
    /\ m_data \in [0 .. capacity - 1 -> Keys \cup {None}]
    /\ m_front \in 0 .. capacity - 1
    /\ m_back \in 0 .. capacity - 1
    /\ m_size \in 0 .. capacity
    /\ pc \in {"idle", "read", "load", "store"}
    /\ item \in Keys \cup {None}
    /\ rax \in 0 .. capacity
    /\ history \in Seq(Keys \cup {None})
    /\ taken \in Nat /\ lost \in Nat

\* m_size counts the keys still to be dequeued, less the increments the race
\* on --m_size has thrown away; m_front and m_back are where they should be.
SizeCountsKeys ==
    /\ m_size + lost = accepted - taken + (IF pc \in {"load", "store"} THEN 1 ELSE 0)
    /\ m_front = taken % capacity
    /\ m_back = accepted % capacity

\* A key stays in its slot until capacity later keys have been accepted:
\* the handler overwrites nothing the main loop could still be waiting for
\* unless lost increments let the backlog grow past the capacity.
WindowIntact ==
    \A n \in 0 .. accepted - 1 :
        n >= accepted - capacity => m_data[n % capacity] = history[n + 1]

\* get() hands out keys in the order they were typed, skipping none, as long
\* as the backlog has not outgrown the queue.
InOrder ==
    [][dequeue_read /\ accepted - taken <= capacity => item' = history[taken + 1]]_vars
=============================================================================
