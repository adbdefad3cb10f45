----------------------------- MODULE AcpiTables -----------------------------
(***************************************************************************)
(* How the kernel reads the firmware's tables: the RSDP and its checksums  *)
(* (RootSystemDescriptionPointer.h), the search of the root table          *)
(* (RootSDT.h), and the bytes of the MADT (APICManager.cpp).               *)
(*                                                                         *)
(* A machine m has                                                         *)
(*   rsdp     the revision, and the bytes before and from rsdpSize on;     *)
(*            none = TRUE if the bootloader found no RSDP;                 *)
(*   root     the 32-bit words from the end of the root table's header on, *)
(*            past the end of the table;                                   *)
(*   words    how many of them belong to the table;                        *)
(*   tables   the signature of the table at a physical address;            *)
(*   layout   the entries of the MADT, each a sequence of bytes;           *)
(*   after    the bytes behind the MADT;                                   *)
(*   entries  the highest redirection entry of its I/O APICs.              *)
(***************************************************************************)
EXTENDS Integers, Sequences, SequencesExt

-----------------------------------------------------------------------------
(* RootSystemDescriptionPointer. *)

\* The sum of the bytes in a uint8_t.
checksum(bytes) == SumFunction(bytes) % 256

verifyPartialChecksum(r) == checksum(r.first) = 0

verifyFullChecksum(r) == checksum(r.first \o r.rest) = 0

\* What rootSDTPhysicalAddress panics without.
validate(r) == IF r.revision = 0 THEN verifyPartialChecksum(r) ELSE verifyFullChecksum(r)

-----------------------------------------------------------------------------
(* RootSDT. *)

\* In words: a pointer is one word in the RSDT and two in the XSDT.
wordsPerPointer(m) == IF m.rsdp.revision = 0 THEN 1 ELSE 2

numPointersToOtherSDTs(m) == m.words \div wordsPerPointer(m)

\* The header has 36 bytes and RootSDT is not packed, so pointersToOtherSDTs,
\* aligned to 8, is at byte 40: one word behind the first pointer.
padding == 1

\* The two halves of the i-th pointer, counted from 0, if the pointers start
\* skipped words behind the header.
pointer(m, i, skipped) ==
    LET low == i * wordsPerPointer(m) + skipped + 1
    IN  [low  |-> m.root[low],
         high |-> IF wordsPerPointer(m) = 1 THEN 0 ELSE m.root[low + 1]]

\* The signature read through a pointer; there is no table above 4 GiB, where
\* the read is a general protection or finds a fresh frame.
signature(m, p) ==
    IF p.high = 0 /\ p.low \in DOMAIN m.tables THEN m.tables[p.low] ELSE "none"

\* Whether findSDTWithSignature("APIC") returns a table.
madt_found(m) ==
    \E i \in 0 .. numPointersToOtherSDTs(m) - 1 :
        signature(m, pointer(m, i, padding)) = "APIC"

\* Whether the root table lists the MADT.
MadtListed(m) ==
    \E i \in 0 .. numPointersToOtherSDTs(m) - 1 : signature(m, pointer(m, i, 0)) = "APIC"

-----------------------------------------------------------------------------
(* The entries of the MADT: a type, a length, and what depends on the type.  *)

\* The memory from apicStructures on, and the part of it that is the table.
madt(m) == FlattenSeq(m.layout) \o m.after

madt_end(m) == Len(FlattenSeq(m.layout))

madt_byte(m, offset) == madt(m)[offset + 1]

\* An I/O APIC: id, reserved, address, and 32 bits of globalSystemInterruptBase.
IOAPIC(m, offset) ==
    [id   |-> madt_byte(m, offset + 2),
     base |-> madt_byte(m, offset + 8) + 256 * madt_byte(m, offset + 9)
                 + 65536 * madt_byte(m, offset + 10) + 16777216 * madt_byte(m, offset + 11),
     numRedirectionEntries |-> m.entries]

\* A table whose entries have the length they say they have.
WellFormed(m) ==
    \A i \in DOMAIN m.layout :
        LET e == m.layout[i] IN Len(e) >= 2 /\ e[2] = Len(e) /\ (e[1] = 1 => Len(e) = 12)

\* The I/O APIC that an entry describes, by id and base.
Described(e) == [id |-> e[3], base |-> e[9] + 256 * e[10] + 65536 * e[11] + 16777216 * e[12]]

\* The I/O APICs such a table describes, in order.
DescribedIOAPICs(m) ==
    LET first[n \in 0 .. Len(m.layout)] ==
            IF n = 0 THEN <<>>
            ELSE IF m.layout[n][1] = 1 THEN Append(first[n - 1], Described(m.layout[n]))
            ELSE first[n - 1]
    IN  first[Len(m.layout)]

\* Bytes and words are what they are, and behind a table there is memory, too.
IsMachine(m) ==
    /\ m.features \subseteq {"MSR", "APIC", "PAT"}
    /\ m.rsdp.none \in BOOLEAN /\ m.rsdp.revision \in Nat
    /\ {m.rsdp.first, m.rsdp.rest, m.after} \subseteq Seq(0 .. 255)
    /\ m.root \in Seq(Nat) /\ m.words \in Nat /\ Len(m.root) > m.words
    /\ m.layout \in Seq(Seq(0 .. 255)) /\ Len(m.after) >= 12
    /\ m.entries \in Nat
=============================================================================
