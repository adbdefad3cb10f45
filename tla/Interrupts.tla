----------------------------- MODULE Interrupts -----------------------------
(***************************************************************************)
(* The second half of kernel_init (kernel/src/kernel.cpp): the descriptor  *)
(* tables, the local APIC, the legacy PIC, the keyboard controller, the    *)
(* I/O APICs of the MADT and the redirection of IRQ 1; then the tests of   *)
(* run_all_tests that raise interrupts.  Keys may be pressed and           *)
(* interrupts may arrive between any two of its steps.                     *)
(*                                                                         *)
(* Handlers run behind interrupt gates and are one step.  The memory side  *)
(* of the boot is the subject of FrameAllocator, PageTree, VirtualMemory   *)
(* and FreeList.                                                           *)
(***************************************************************************)
EXTENDS AcpiTables

CONSTANTS
    Machines,       \* processor features and firmware tables
    lapicId,        \* the id of this processor's local APIC
    maxIoApics,     \* the size of m_ioApics, 16
    MaxPresses      \* bound: keys pressed in one behaviour

irq == 1
keyboard_vector == 48       \* 0x30
test_vector == 255          \* 0xff, also the local APIC's spurious vector
page_fault_vector == 14
not_present_vector == 11    \* raised by the processor for a vector without a gate

ASSUME MachineAssumption ==
    /\ \A m \in Machines : IsMachine(m)
    /\ lapicId \in Nat /\ maxIoApics \in Nat /\ MaxPresses \in Nat

VARIABLES
    machine,
    pc,             \* the next step of kernel_init and run_all_tests
    segments,       \* whose segment descriptors are loaded
    gates,          \* vector -> handler, for the gates loaded in the IDT
    rflags_IF,      \* the processor's interrupt flag
    masked, offset, \* the legacy PICs
    a1,             \* the masks remapPIC saved
    baseAddress, softwareEnabled, taskPriority,     \* the local APIC
    irr, isr,       \* its requested and its in-service vectors
    cursor,         \* apicStructures, as an offset into the MADT
    m_ioApics,
    entry,          \* the I/O APIC's redirection entry for the irq
    output,         \* the keyboard controller's bytes, the first in port 0x60
    irq1,           \* bit 0 of its command byte
    presses, ipiPassed

picVars   == <<masked, offset, a1>>
apicVars  == <<baseAddress, softwareEnabled, taskPriority>>
coreVars  == <<machine, segments, gates, rflags_IF>>
routeVars == <<cursor, m_ioApics, entry>>
kbcVars   == <<output, irq1, presses>>
vars == <<coreVars, pc, picVars, apicVars, irr, isr, routeVars, kbcVars, ipiPassed>>

Init ==
    /\ machine \in Machines
    /\ pc = "gdt_init"
    /\ segments = "bootloader" /\ gates = <<>> /\ rflags_IF = FALSE
    /\ masked = FALSE /\ offset = 8 /\ a1 = FALSE
    /\ baseAddress = "null" /\ softwareEnabled = FALSE /\ taskPriority \in {0, 15}
    /\ irr = {} /\ isr = {}
    /\ cursor = 0 /\ m_ioApics = <<>>
    /\ entry = [vector |-> 0, dest |-> 0, masked |-> TRUE]
    /\ output = <<>> /\ irq1 \in BOOLEAN /\ presses = 0
    /\ ipiPassed = FALSE

at(step) == pc = step
goto(step) == pc' = step

-----------------------------------------------------------------------------
(* The hardware, as the code uses it. *)

\* A byte that arrives in port 0x60 raises the irq's edge, which the I/O APIC
\* forwards, or forgets if the entry is masked or names another processor.
accept(requested) ==
    IF irq1 /\ ~entry.masked /\ entry.dest = lapicId /\ softwareEnabled
    THEN requested \cup {entry.vector}
    ELSE requested

\* A byte joins those waiting behind port 0x60.
put_byte(byte) ==
    /\ output' = Append(output, byte)
    /\ irr' = IF output = <<>> THEN accept(irr) ELSE irr

\* inb(0x60), possibly of an empty port; the next byte raises the next edge.
take_byte(requested) ==
    /\ output' = IF output = <<>> THEN output ELSE Tail(output)
    /\ irr' = IF Len(output) > 1 THEN accept(requested) ELSE requested

press ==
    /\ presses < MaxPresses /\ pc # "panic"
    /\ presses' = presses + 1
    /\ put_byte("key")
    /\ UNCHANGED <<coreVars, pc, picVars, apicVars, isr, routeVars, irq1, ipiPassed>>

-----------------------------------------------------------------------------
(* Descriptor tables. *)

gdt_init ==
    /\ at("gdt_init") /\ goto("idt_init")
    /\ segments' = "kernel"
    /\ UNCHANGED <<machine, gates, rflags_IF, picVars, apicVars, irr, isr, routeVars, kbcVars, ipiPassed>>

\* The exceptions' handlers all panic, but for that of the page fault.
handler(vector) ==
    CASE vector = page_fault_vector -> "isr_page_fault"
      [] vector = keyboard_vector   -> "isr_keyboard"
      [] vector = test_vector       -> "isr_interprocessor_interrupt"
      [] OTHER                      -> "panic"

system_vectors == 0 .. 19

\* The gates that are present; the others stay zero.
load_gate_descriptors(vectors) == gates' = [v \in vectors |-> handler(v)]

idt_init ==
    /\ at("idt_init") /\ goto("enableAPIC")
    /\ load_gate_descriptors(system_vectors \cup {keyboard_vector, test_vector})
    /\ UNCHANGED <<machine, segments, rflags_IF, picVars, apicVars, irr, isr, routeVars,
                   kbcVars, ipiPassed>>

-----------------------------------------------------------------------------
(* LocalAPIC::enableAPIC. *)

\* Without an APIC, its model-specific register or the PAT the kernel panics.
supported == {"MSR", "APIC", "PAT"} \subseteq machine.features

enableAPIC ==
    /\ at("enableAPIC")
    /\ IF supported
       THEN goto("disablePIC") /\ baseAddress' = "mapped"
       ELSE goto("panic") /\ UNCHANGED baseAddress
    /\ UNCHANGED <<coreVars, picVars, softwareEnabled, taskPriority, irr, isr, routeVars,
                   kbcVars, ipiPassed>>

disablePIC ==
    /\ at("disablePIC") /\ goto("remapPIC")
    /\ masked' = TRUE
    /\ UNCHANGED <<coreVars, offset, a1, apicVars, irr, isr, routeVars, kbcVars, ipiPassed>>

\* Mutant of remapPIC: the masks are saved after they have been cleared.
remapPIC_late ==
    /\ at("remapPIC") /\ goto("restore_masks")
    /\ a1' = FALSE /\ masked' = FALSE
    /\ offset' = 32
    /\ UNCHANGED <<coreVars, apicVars, irr, isr, routeVars, kbcVars, ipiPassed>>

\* The first initialisation word clears the masks the kernel has just saved.
remapPIC ==
    /\ at("remapPIC") /\ goto("restore_masks")
    /\ a1' = masked /\ masked' = FALSE
    /\ offset' = 32
    /\ UNCHANGED <<coreVars, apicVars, irr, isr, routeVars, kbcVars, ipiPassed>>

restore_masks ==
    /\ at("restore_masks") /\ goto("sti")
    /\ masked' = a1
    /\ UNCHANGED <<coreVars, offset, a1, apicVars, irr, isr, routeVars, kbcVars, ipiPassed>>

sti ==
    /\ at("sti") /\ goto("software_enable")
    /\ rflags_IF' = TRUE
    /\ UNCHANGED <<machine, segments, gates, picVars, apicVars, irr, isr, routeVars, kbcVars,
                   ipiPassed>>

software_enable ==
    /\ at("software_enable") /\ goto("task_priority")
    /\ softwareEnabled' = TRUE
    /\ UNCHANGED <<coreVars, picVars, baseAddress, taskPriority, irr, isr, routeVars, kbcVars,
                   ipiPassed>>

task_priority ==
    /\ at("task_priority") /\ goto("request_command_byte")
    /\ taskPriority' = 0
    /\ UNCHANGED <<coreVars, picVars, baseAddress, softwareEnabled, irr, isr, routeVars,
                   kbcVars, ipiPassed>>

-----------------------------------------------------------------------------
(* initKeyboardController. *)

request_command_byte ==
    /\ at("request_command_byte") /\ goto("read_command_byte")
    /\ put_byte("command")
    /\ UNCHANGED <<coreVars, picVars, apicVars, isr, routeVars, irq1, presses, ipiPassed>>

\* The loop waits for a byte, and takes the first one for the command byte.
read_command_byte ==
    /\ at("read_command_byte") /\ output # <<>> /\ goto("write_command_byte")
    /\ take_byte(irr)
    /\ UNCHANGED <<coreVars, picVars, apicVars, isr, routeVars, irq1, presses, ipiPassed>>

\* Whatever was read, the interrupt is enabled in what is written back.
write_command_byte ==
    /\ at("write_command_byte") /\ goto("find_madt")
    /\ irq1' = TRUE
    /\ UNCHANGED <<coreVars, picVars, apicVars, irr, isr, routeVars, output, presses, ipiPassed>>

-----------------------------------------------------------------------------
(* APICManager. *)

\* The RSDP is checked and leads to the table that lists the MADT.
find_madt ==
    /\ at("find_madt")
    /\ IF ~machine.rsdp.none /\ validate(machine.rsdp) /\ madt_found(machine)
       THEN goto("walk_madt") ELSE goto("panic")
    /\ UNCHANGED <<coreVars, picVars, apicVars, irr, isr, routeVars, kbcVars, ipiPassed>>

type == madt_byte(machine, cursor)

\* Mutant of next_entry: the two bytes already read are counted again.
next_entry_late == cursor + 2 + madt_byte(machine, cursor + 1)

\* apicStructures += 2, then += length - 2: an entry of length 0 stays.
next_entry == cursor + madt_byte(machine, cursor + 1)

\* Mutant of walk_madt: there is always room for another I/O APIC.
walk_madt_unbounded ==
    /\ at("walk_madt") /\ cursor < madt_end(machine)
    /\ m_ioApics' = IF type = 1 THEN Append(m_ioApics, IOAPIC(machine, cursor)) ELSE m_ioApics
    /\ cursor' = next_entry
    /\ UNCHANGED <<coreVars, pc, picVars, apicVars, irr, isr, entry, kbcVars, ipiPassed>>

\* Mutant of walk_madt: an entry of no interest is not stepped over.
walk_madt_stuck ==
    /\ at("walk_madt") /\ cursor < madt_end(machine)
    /\ type = 1 /\ Len(m_ioApics) < maxIoApics
    /\ m_ioApics' = Append(m_ioApics, IOAPIC(machine, cursor))
    /\ cursor' = next_entry
    /\ UNCHANGED <<coreVars, pc, picVars, apicVars, irr, isr, entry, kbcVars, ipiPassed>>

\* One entry of the MADT; only those of type 1 are kept.
walk_madt ==
    /\ at("walk_madt") /\ cursor < madt_end(machine)
    /\ \/ type # 1 /\ UNCHANGED <<pc, m_ioApics>>
       \/ type = 1 /\ Len(m_ioApics) >= maxIoApics /\ goto("panic") /\ UNCHANGED m_ioApics
       \/ /\ type = 1 /\ Len(m_ioApics) < maxIoApics
          /\ m_ioApics' = Append(m_ioApics, IOAPIC(machine, cursor))
          /\ UNCHANGED pc
    /\ cursor' = next_entry
    /\ UNCHANGED <<coreVars, picVars, apicVars, irr, isr, entry, kbcVars, ipiPassed>>

end_madt ==
    /\ at("walk_madt") /\ cursor >= madt_end(machine)
    /\ goto("redirect_high")
    /\ UNCHANGED <<coreVars, picVars, apicVars, irr, isr, routeVars, kbcVars, ipiPassed>>

\* entries is the highest number of a redirection entry, not their count.
handlesIRQ(ioApic) == irq >= ioApic.base /\ irq < ioApic.base + ioApic.numRedirectionEntries

Handling == {i \in 1 .. Len(m_ioApics) : handlesIRQ(m_ioApics[i])}

\* The first I/O APIC of the array that handles the irq, if there is one.
ioApic == m_ioApics[CHOOSE i \in Handling : \A j \in Handling : i <= j]

writeRedirectionEntryHigh(apicId) == entry' = [entry EXCEPT !.dest = apicId]

writeRedirectionEntryLow(vector) == entry' = [entry EXCEPT !.vector = vector, !.masked = FALSE]

\* redirectIrq writes the destination, then the vector, and with it the mask.
redirect_high ==
    /\ at("redirect_high")
    /\ IF Handling = {}
       THEN goto("test_interprocessor_interrupts") /\ UNCHANGED entry
       ELSE goto("redirect_low") /\ writeRedirectionEntryHigh(ioApic.id)
    /\ UNCHANGED <<coreVars, picVars, apicVars, irr, isr, cursor, m_ioApics, kbcVars, ipiPassed>>

redirect_low ==
    /\ at("redirect_low") /\ goto("test_interprocessor_interrupts")
    /\ writeRedirectionEntryLow(keyboard_vector)
    /\ UNCHANGED <<coreVars, picVars, apicVars, irr, isr, cursor, m_ioApics, kbcVars, ipiPassed>>

-----------------------------------------------------------------------------
(* run_all_tests. *)

sendInterprocessorInterrupt(destination, vector) ==
    irr' = IF destination = lapicId THEN irr \cup {vector} ELSE irr

test_interprocessor_interrupts ==
    /\ at("test_interprocessor_interrupts") /\ goto("test_keyboard")
    /\ sendInterprocessorInterrupt(0, test_vector)
    /\ UNCHANGED <<coreVars, picVars, apicVars, isr, routeVars, kbcVars, ipiPassed>>

test_keyboard ==
    /\ at("test_keyboard") /\ goto("test_keyboard_read")
    /\ put_byte("command")
    /\ UNCHANGED <<coreVars, picVars, apicVars, isr, routeVars, irq1, presses, ipiPassed>>

\* Mutant of test_keyboard_read: the reply is left to the interrupt handler.
test_keyboard_unread ==
    /\ at("test_keyboard_read") /\ goto("running")
    /\ UNCHANGED <<coreVars, picVars, apicVars, irr, isr, routeVars, kbcVars, ipiPassed>>

test_keyboard_read ==
    /\ at("test_keyboard_read") /\ goto("running")
    /\ take_byte(irr)
    /\ UNCHANGED <<coreVars, picVars, apicVars, isr, routeVars, irq1, presses, ipiPassed>>

-----------------------------------------------------------------------------
(* Interrupts. *)

\* The handler the processor enters; a vector without a gate is an exception.
dispatch(vector) == IF vector \in DOMAIN gates THEN gates[vector] ELSE gates[not_present_vector]

sendEndOfInterrupt(inService) == inService \ {v \in inService : \A w \in inService : w <= v}

isr_keyboard(vector) == take_byte(irr \ {vector}) /\ UNCHANGED ipiPassed

isr_interprocessor_interrupt(vector) ==
    irr' = irr \ {vector} /\ ipiPassed' = TRUE /\ UNCHANGED output

\* The highest pending vector that is above those in service.
deliver(vector) ==
    /\ rflags_IF /\ softwareEnabled /\ taskPriority = 0 /\ pc # "panic"
    /\ vector \in irr /\ \A v \in isr \cup irr : v <= vector
    /\ vector \notin isr
    /\ isr' = sendEndOfInterrupt(isr \cup {vector})
    /\ \/ dispatch(vector) = "isr_keyboard" /\ isr_keyboard(vector)
       \/ dispatch(vector) = "isr_interprocessor_interrupt"
             /\ isr_interprocessor_interrupt(vector)
    /\ UNCHANGED <<coreVars, pc, picVars, apicVars, routeVars, irq1, presses>>

\* A spurious interrupt of the disabled PIC: its last line, no gate.
spurious_pic ==
    /\ rflags_IF /\ pc # "panic"
    /\ pc' = IF dispatch(offset + 7) = "panic" THEN "panic" ELSE pc
    /\ UNCHANGED <<coreVars, picVars, apicVars, irr, isr, routeVars, kbcVars, ipiPassed>>

kernel_hang == pc = "panic" /\ UNCHANGED vars

Boot ==
    \/ gdt_init \/ idt_init \/ enableAPIC \/ disablePIC \/ remapPIC \/ restore_masks \/ sti
    \/ software_enable \/ task_priority \/ request_command_byte \/ read_command_byte
    \/ write_command_byte \/ find_madt \/ walk_madt \/ end_madt \/ redirect_high
    \/ redirect_low \/ test_interprocessor_interrupts \/ test_keyboard \/ test_keyboard_read

Deliver == \E vector \in irr : deliver(vector)

\* The shell's loop, modelled in Shell, goes on while nothing happens here.
idle == pc = "running" /\ UNCHANGED vars

Next == Boot \/ Deliver \/ press \/ spurious_pic \/ kernel_hang \/ idle

\* The processor executes the boot and takes the interrupts that are pending;
\* nobody has to press a key.
Spec == Init /\ [][Next]_vars /\ WF_vars(Boot) /\ WF_vars(Deliver)

-----------------------------------------------------------------------------
(* Properties. *)

\* Only vectors with a handler of their own are ever requested or in service, and
\* m_ioApics is never written behind its end, whatever the MADT lists.
TypeOK ==
    /\ machine \in Machines
    /\ segments \in {"bootloader", "kernel"}
    /\ \A v \in DOMAIN gates : gates[v] = handler(v)
    /\ {rflags_IF, masked, a1, softwareEnabled, irq1, ipiPassed} \subseteq BOOLEAN
    /\ offset \in {8, 32} /\ taskPriority \in {0, 15}
    /\ baseAddress \in {"null", "mapped"}
    /\ irr \cup isr \subseteq {keyboard_vector, test_vector}
    /\ cursor \in Nat
    /\ Len(m_ioApics) <= maxIoApics
    /\ entry \in [vector : {0, keyboard_vector}, dest : Nat, masked : BOOLEAN]
    /\ output \in Seq({"key", "command"}) /\ presses \in 0 .. MaxPresses

\* Interrupts are enabled only when the kernel can take them: its own segments
\* and gates are loaded, the end-of-interrupt has somewhere to go, and the PIC
\* is masked and moved away from the exceptions.  The keyboard's entry is
\* unmasked only when an interrupt through it finds the local APIC enabled and
\* the keyboard's gate.  redirectIrq is to lead it to the local APIC of this
\* processor and writes the I/O APIC's id instead: it has led it here, before the
\* entry is unmasked, where the two ids are the same.
ReadyWhenEnabled ==
    /\ rflags_IF => /\ segments = "kernel" /\ gates # <<>>
                    /\ baseAddress = "mapped"
                    /\ masked /\ offset = 32
    /\ ~entry.masked => /\ rflags_IF /\ softwareEnabled /\ taskPriority = 0
                        /\ dispatch(entry.vector) = "isr_keyboard"
                        /\ ioApic.id = lapicId => entry.dest = lapicId

\* Where the walk stands after the I/O APICs have been collected.
Walked == {"redirect_high", "redirect_low", "test_interprocessor_interrupts",
           "test_keyboard", "test_keyboard_read", "running"}

\* The walk over the bytes of the MADT collects the I/O APICs its entries
\* describe, in order and no others: it never mistakes a byte inside an entry
\* or behind the table for one.
IOAPICsAsDescribed ==
    WellFormed(machine) /\ pc \in Walked =>
        [i \in DOMAIN m_ioApics |-> [id |-> m_ioApics[i].id, base |-> m_ioApics[i].base]]
            = DescribedIOAPICs(machine)

\* The walk has come to an entry of length 0.
Stepless == at("walk_madt") /\ cursor < madt_end(machine) /\ next_entry = cursor

\* kernel_init and the tests end: no handler takes the byte that
\* initKeyboardController waits for, and the loop over the MADT does, too,
\* unless it comes to an entry of length 0 and stays there for ever.
BootEnds ==
    /\ <>(pc \in {"running", "panic"}) \/ <>[]Stepless
    /\ WellFormed(machine) => <>(pc \in {"running", "panic"})

\* Once the kernel runs and IRQ 1 leads to this processor, the keyboard
\* controller is always emptied again, also when keys pressed during the boot
\* found the entry masked and their edge was forgotten: test_keyboard's own
\* read of port 0x60 makes room for the next edge.
KeysServed ==
    (pc = "running" /\ ~entry.masked /\ entry.dest = lapicId /\ output # <<>>)
        ~> (output = <<>> \/ pc = "panic")

\* RootSDT.h, findSDTWithSignature: "Find a system descriptor table with a
\* given 4-byte signature."  The kernel finds the MADT if the table lists it.
ListedMadtFound ==
    [][find_madt /\ ~machine.rsdp.none /\ validate(machine.rsdp) /\ MadtListed(machine)
          => pc' = "walk_madt"]_vars
=============================================================================
