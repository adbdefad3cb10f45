---------------------------- MODULE MCKernelStack ----------------------------
(* One usable and one reclaimable entry, with Limine's stack and responses. *)
EXTENDS KernelStack

MCMemoryMap == << [base |-> 0, length |-> 1, type |-> RESERVED],
                  [base |-> 1, length |-> 4, type |-> USABLE],
                  [base |-> 5, length |-> 3, type |-> RECLAIMABLE],
                  [base |-> 8, length |-> 1, type |-> RESERVED] >>
=============================================================================
