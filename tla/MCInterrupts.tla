---------------------------- MODULE MCInterrupts ----------------------------
(* A few machines: one or two I/O APICs, and some the kernel cannot run on. *)
EXTENDS Interrupts

AllFeatures == {"MSR", "APIC", "PAT"}

\* The entries of a MADT: a local APIC, an interrupt override, I/O APICs at
\* 0 and at 24, and an entry of length 0.  Bytes inside the override look like
\* the start of an I/O APIC.
Local        == <<0, 8, 0, 0, 1, 0, 0, 0>>
Override     == <<2, 10, 0, 1, 12, 1, 0, 0, 0, 0>>
IOAPICAt(id, base) == <<1, 12, id, 0, 0, 0, 0, 0, base, 0, 0, 0>>
Endless      == <<0, 0, 0, 0>>

\* Memory behind the table that looks like another I/O APIC.
After == <<1, 12, 7, 0, 0, 0, 0, 0, 0, 0, 0, 0>>

Old == [none |-> FALSE, revision |-> 0, first |-> <<250, 6>>, rest |-> <<3>>]
New == [none |-> FALSE, revision |-> 2, first |-> <<250, 6>>, rest |-> <<100, 156>>]

\* Tables at 5, the MADT, and at 6; behind the root table lies a zero.
Machine(layout) ==
    [features |-> AllFeatures, rsdp |-> Old, root |-> <<6, 5, 0>>, words |-> 2,
     tables |-> [a \in {5, 6} |-> IF a = 5 THEN "APIC" ELSE "FACP"],
     layout |-> layout, after |-> After, entries |-> 23]

Plain == Machine(<<Local, IOAPICAt(0, 0), Override>>)

\* Two I/O APICs in either order, one with another id than the processor, none
\* for the irq, more than the kernel has room for, and endless tables.
MCMachines ==
    {Machine(layout) : layout \in { <<Local, IOAPICAt(0, 0), Override>>,
                                    <<IOAPICAt(2, 24), Local, IOAPICAt(0, 0)>>,
                                    <<IOAPICAt(1, 0)>>, <<Local, IOAPICAt(2, 24)>>,
                                    <<IOAPICAt(0, 0), IOAPICAt(2, 24), IOAPICAt(3, 48)>>,
                                    <<IOAPICAt(0, 0), Endless>>,
                                    <<[IOAPICAt(0, 0) EXCEPT ![2] = 0]>> }}
    \cup {[Plain EXCEPT !.features = AllFeatures \ {"PAT"}],
          [Plain EXCEPT !.rsdp.none = TRUE],
          [Plain EXCEPT !.rsdp = [New EXCEPT !.rest = <<3>>]],
          [Plain EXCEPT !.rsdp = New, !.root = <<6, 0, 5, 0, 0>>, !.words = 4],
          [Plain EXCEPT !.root = <<5, 6, 0>>],
          [Plain EXCEPT !.tables = [a \in {6} |-> "FACP"]]}
=============================================================================
