----------------------------- MODULE KernelStack -----------------------------
(***************************************************************************)
(* The memory the boot loader leaves the kernel with, and the kernel still *)
(* uses, when free_limine_bootloader_memory gives it to the allocator: the *)
(* stack Limine starts the kernel on (kernel_pre_main, main.cpp) and the   *)
(* responses the global pointers of limine_features.cpp lead to.           *)
(*                                                                         *)
(* Composed with FrameAllocator: kernel_pre_main and the global            *)
(* constructors come before frame_allocator_init.                          *)
(***************************************************************************)
EXTENDS FrameAllocator

CONSTANTS
    LimineStack,        \* the frames of the stack Limine sets up, reclaimable
    LimineResponses,    \* the frames of its responses, reclaimable
    kernel_stack_start  \* the frames of the stack of linker.ld, kernel memory

VARIABLES
    pc,         \* "pre_main", "constructors" or "init"
    rsp,        \* the frames of the stack the kernel runs on
    operand,    \* the register that holds the operand of the mov
    responses   \* the frames limine::memory_map, hhdm_address, ... lead to

stackAllVars == <<vars, pc, rsp, operand, responses>>

StackInit ==
    /\ Init
    /\ pc = "pre_main"
    /\ rsp = LimineStack
    /\ operand = kernel_stack_start
    /\ responses = {}

\* In the order of its operands mov %%rsp, %0 writes the register, not rsp.
kernel_pre_main ==
    /\ pc = "pre_main"
    /\ operand' = rsp
    /\ pc' = "constructors"
    /\ UNCHANGED <<vars, rsp, responses>>

call_global_constructors ==
    /\ pc = "constructors"
    /\ responses' = LimineResponses
    /\ pc' = "init"
    /\ UNCHANGED <<vars, rsp, operand>>

kernel_init ==
    /\ pc = "init"
    /\ Next
    /\ UNCHANGED <<pc, rsp, operand, responses>>

StackNext == kernel_pre_main \/ call_global_constructors \/ kernel_init

StackSpec == StackInit /\ [][StackNext]_stackAllVars

-----------------------------------------------------------------------------
(* Properties. *)

\* main.cpp: "Replace Limine's stack with our own so that we can reclaim
\* bootloader-reclaimable memory", and frame_allocator.h: "This is safe to do
\* once we've set up our own page tables".  No frame the kernel still uses, for
\* its stack or to read a response, is free or handed out.
ReclaimIsSafe == (rsp \cup responses) \cap (FreeFrames \cup pinned \cup owned) = {}
=============================================================================
