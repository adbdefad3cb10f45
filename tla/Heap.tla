-------------------------------- MODULE Heap --------------------------------
(***************************************************************************)
(* What a caller may expect of vmalloc and vfree                           *)
(* (kernel/include/kernel/vmm.h): whoever asks for some words gets that    *)
(* many, in the memory the heap was given, and shares none of them with    *)
(* another block in use until the block is freed.  Overrun is 0 in a heap  *)
(* that keeps to its memory.                                               *)
(***************************************************************************)
EXTENDS Integers

CONSTANTS
    Sizes, Words,
    Overrun     \* how many words behind its memory a block may reach

VARIABLES
    memory,     \* the words the heap was given
    held,       \* the blocks in use, records of base and size
    asked       \* the size the latest caller asked for

heapVars == <<memory, held, asked>>

WordsOf(block) == block.base .. block.base + block.size - 1

\* The word belongs to the memory or to the few behind it.
Within(w) == \E given \in memory : w \in given .. given + Overrun

Init == memory = {} /\ held = {} /\ asked = 0

Give == memory \subseteq memory' /\ UNCHANGED <<held, asked>>

Ask(request) == asked' = request

\* The block is as large as the caller asked.
Allocate(request, base) ==
    LET block == [base |-> base, size |-> request]
    IN  /\ Ask(request)
        /\ \A w \in WordsOf(block) : Within(w)
        /\ \A other \in held : WordsOf(block) \cap WordsOf(other) = {}
        /\ held' = held \cup {block}
        /\ UNCHANGED memory

\* There is no such block: the kernel panics.
Refuse(request) == Ask(request) /\ UNCHANGED <<memory, held>>

Free(block) ==
    /\ block \in held
    /\ held' = held \ {block}
    /\ UNCHANGED <<memory, asked>>

Next ==
    \/ Give
    \/ \E request \in Sizes : Refuse(request) \/ \E base \in Words : Allocate(request, base)
    \/ \E block \in held : Free(block)

Spec == Init /\ [][Next]_heapVars
=============================================================================
