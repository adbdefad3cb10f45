-------------------------- MODULE InterruptsProofs --------------------------
(***************************************************************************)
(* Proofs about Interrupts, for every machine the firmware may present and *)
(* every number of I/O APICs and key presses.                              *)
(***************************************************************************)
EXTENDS Interrupts, SequenceTheorems, WellFoundedInduction, TLAPS

-----------------------------------------------------------------------------
(* The MADT as its entries. *)

\* A nonempty set of natural numbers has a smallest element.
LEMMA LeastNumber ==
    ASSUME NEW T, T \subseteq Nat, T # {}
    PROVE  \E x \in T : \A y \in T : x <= y
  <1> DEFINE R == OpToRel(<, Nat)
  <1>1. IsWellFoundedOn(R, Nat)
    BY NatLessThanWellFounded, Zenon DEF R
  <1>2. \A x, y \in Nat : x < y => <<x, y>> \in R
    BY Zenon DEF OpToRel, R
  <1> HIDE DEF R
  <1>3. PICK x \in T : \A y \in T : ~(<<y, x>> \in R)
    BY <1>1, WFMin
  <1>4. \A y \in T : ~(y < x)
    BY <1>2, <1>3
  <1> QED
    BY <1>4

\* What holds for 0 and is passed on up to n holds up to n.
LEMMA UpTo ==
    ASSUME NEW n \in Nat, NEW S, 0 \in S, \A k \in 0 .. n - 1 : k \in S => k + 1 \in S
    PROVE  \A k \in 0 .. n : k \in S
  <1> SUFFICES ASSUME (0 .. n) \ S # {} PROVE FALSE
    OBVIOUS
  <1>0. PICK T : T = (0 .. n) \ S
    OBVIOUS
  <1>a. T \subseteq Nat /\ T # {}
    BY <1>0
  <1>1. PICK x \in (0 .. n) \ S : \A y \in (0 .. n) \ S : x <= y
    BY <1>0, <1>a, LeastNumber
  <1>2. x # 0 /\ x - 1 \in 0 .. n - 1 /\ x - 1 \in 0 .. n /\ x - 1 < x /\ (x - 1) + 1 = x
    OBVIOUS
  <1>3. x - 1 \in S
    BY <1>1, <1>2
  <1> QED
    BY <1>2, <1>3

\* f[k] is the concatenation of the first k sequences of L.
Concatenations(L, B, f) ==
    /\ f \in [0 .. Len(L) -> Seq(B)]
    /\ f[0] = <<>>
    /\ \A k \in 1 .. Len(L) : f[k] = f[k - 1] \o L[k]

\* There are such concatenations.
LEMMA ConcatenationsExist ==
    ASSUME NEW B, NEW L \in Seq(Seq(B))
    PROVE  \E f : Concatenations(L, B, f)
  <1>1. PICK n \in Nat : n = Len(L)
    BY LenProperties
  <1> DEFINE To(k, f) == /\ f \in [0 .. k -> Seq(B)]
                         /\ f[0] = <<>>
                         /\ \A i \in 1 .. k : f[i] = f[i - 1] \o L[i]
             S == {k \in Nat : \E f : To(k, f)}
  <1>2. 0 \in S
    <2> DEFINE f == [i \in 0 .. 0 |-> <<>>]
    <2>1. To(0, f)
      BY EmptySeq
    <2> QED
      BY <2>1
  <1>3. ASSUME NEW k \in 0 .. n - 1, k \in S PROVE k + 1 \in S
    <2>1. PICK f : To(k, f)
      BY <1>3
    <2> DEFINE g == [i \in 0 .. k + 1 |-> IF i <= k THEN f[i] ELSE f[k] \o L[k + 1]]
    <2>2. f[k] \in Seq(B) /\ L[k + 1] \in Seq(B)
      <3>1. k + 1 \in 1 .. Len(L) /\ k \in 0 .. k
        BY <1>1
      <3> QED
        BY <2>1, <3>1, ElementOfSeq
    <2>3. f[k] \o L[k + 1] \in Seq(B)
      BY <2>2, ConcatProperties
    <2>4. g \in [0 .. k + 1 -> Seq(B)]
      BY <2>1, <2>3
    <2>5. ASSUME NEW i \in 1 .. k + 1 PROVE g[i] = g[i - 1] \o L[i]
      <3>1. i - 1 \in 0 .. k + 1 /\ i - 1 <= k /\ (i <= k \/ i = k + 1) /\ i \in 0 .. k + 1
        OBVIOUS
      <3>2. g[i - 1] = f[i - 1]
        BY <3>1
      <3>3. CASE i <= k
        <4>1. i \in 1 .. k /\ g[i] = f[i]
          BY <3>1, <3>3
        <4> QED
          BY <2>1, <3>2, <4>1
      <3>4. CASE i = k + 1
        <4>1. i - 1 = k /\ ~(i <= k)
          BY <3>4
        <4>2. g[i] = f[k] \o L[k + 1]
          BY <3>1, <4>1
        <4> QED
          BY <3>2, <3>4, <4>1, <4>2
      <3> QED
        BY <3>1, <3>3, <3>4
    <2>6. g[0] = <<>>
      BY <2>1
    <2> HIDE DEF g
    <2>7. To(k + 1, g)
      BY <2>4, <2>5, <2>6
    <2> HIDE DEF To
    <2> QED
      BY <2>7
  <1> HIDE DEF S
  <1>4. \A k \in 0 .. n : k \in S
    BY <1>2, <1>3, UpTo
  <1>5. n \in S
    BY <1>4
  <1> QED
    BY <1>1, <1>5 DEF S, Concatenations

\* One round of FlattenSeq.
FlattenStep(L, f, i) == IF i = 1 THEN L[i] ELSE f[i - 1] \o L[i]

\* FlattenSeq returns the last of them.
LEMMA FlattenLast ==
    ASSUME NEW B, NEW L \in Seq(Seq(B)), NEW f, Concatenations(L, B, f)
    PROVE  FlattenSeq(L) = f[Len(L)]
  <1>1. PICK n \in Nat : n = Len(L)
    BY LenProperties
  <1>2. CASE n = 0
    <2>1. L = <<>>
      BY <1>1, <1>2, EmptySeq
    <2>2. FlattenSeq(L) = L
      BY <1>1, <1>2 DEF FlattenSeq
    <2> QED
      BY <1>1, <1>2, <2>1, <2>2 DEF Concatenations
  <1>3. CASE n # 0
    <2> DEFINE h == [i \in 1 .. n |-> f[i]]
    <2>1. ASSUME NEW i \in 1 .. n PROVE h[i] = FlattenStep(L, h, i)
      <3>1. f[i] = f[i - 1] \o L[i] /\ L[i] \in Seq(B)
        BY <1>1, ElementOfSeq DEF Concatenations
      <3>2. CASE i = 1
        <4>1. f[i - 1] = <<>>
          BY <3>2 DEF Concatenations
        <4>2. <<>> \o L[i] = L[i]
          BY <3>1, ConcatEmptySeq
        <4> QED
          BY <3>1, <3>2, <4>1, <4>2 DEF FlattenStep
      <3>3. CASE i # 1
        <4>1. i - 1 \in 1 .. n
          BY <3>3
        <4> QED
          BY <3>1, <3>3, <4>1 DEF FlattenStep
      <3> QED
        BY <3>2, <3>3
    <2>2. h = [i \in 1 .. n |-> FlattenStep(L, h, i)]
      BY <2>1
    <2> HIDE DEF h
    <2>3. \E g : g = [i \in 1 .. n |-> FlattenStep(L, g, i)]
      BY <2>2
    <2>4. PICK g : g = CHOOSE e : e = [i \in 1 .. n |-> FlattenStep(L, e, i)]
      OBVIOUS
    <2>5. g = [i \in 1 .. n |-> FlattenStep(L, g, i)]
      BY <2>3, <2>4
    <2>6. FlattenSeq(L) = g[n]
      BY <1>1, <1>3, <2>4 DEF FlattenSeq, FlattenStep
    <2> DEFINE S == {k \in Nat : k \in 1 .. n => g[k] = h[k]}
    <2>7. 0 \in S
      OBVIOUS
    <2>8. ASSUME NEW k \in 0 .. n - 1, k \in S PROVE k + 1 \in S
      <3>1. k + 1 \in 1 .. n /\ (k + 1) - 1 = k /\ (k # 0 => k \in 1 .. n) /\ (k + 1 = 1 <=> k = 0)
        OBVIOUS
      <3>2. g[k + 1] = FlattenStep(L, g, k + 1) /\ h[k + 1] = FlattenStep(L, h, k + 1)
        BY <2>2, <2>5, <3>1
      <3>3. k # 0 => g[k] = h[k]
        BY <2>8, <3>1
      <3>4. FlattenStep(L, g, k + 1) = FlattenStep(L, h, k + 1)
        BY <3>1, <3>3 DEF FlattenStep
      <3> QED
        BY <3>2, <3>4
    <2> HIDE DEF S
    <2>9. \A k \in 0 .. n : k \in S
      BY <2>7, <2>8, UpTo
    <2>10. n \in S /\ n \in 1 .. n
      BY <1>3, <2>9
    <2> QED
      BY <1>1, <2>6, <2>10 DEF S, h
  <1> QED
    BY <1>2, <1>3

\* Each concatenation starts with the shorter ones.
LEMMA ConcatenationsGrow ==
    ASSUME NEW B, NEW L \in Seq(Seq(B)), NEW f, Concatenations(L, B, f),
           NEW i \in 0 .. Len(L)
    PROVE  /\ Len(f[i]) \in Nat /\ Len(f[i]) <= Len(f[Len(L)])
           /\ \A x \in 1 .. Len(f[i]) : f[Len(L)][x] = f[i][x]
  <1>1. PICK n \in Nat : n = Len(L)
    BY LenProperties
  <1>2. \A k \in 0 .. n : f[k] \in Seq(B) /\ Len(f[k]) \in Nat
    BY <1>1, LenProperties DEF Concatenations
  <1> DEFINE S == {k \in Nat : i <= k => /\ Len(f[i]) <= Len(f[k])
                                         /\ \A x \in 1 .. Len(f[i]) : f[k][x] = f[i][x]}
  <1>3. 0 \in S
    BY <1>1, <1>2
  <1>4. ASSUME NEW k \in 0 .. n - 1, k \in S PROVE k + 1 \in S
    <2> SUFFICES ASSUME i <= k + 1
                 PROVE  /\ Len(f[i]) <= Len(f[k + 1])
                        /\ \A x \in 1 .. Len(f[i]) : f[k + 1][x] = f[i][x]
      OBVIOUS
    <2>1. CASE i = k + 1
      BY <1>1, <1>2, <2>1
    <2>2. CASE i <= k
      <3>1. Len(f[i]) <= Len(f[k]) /\ \A x \in 1 .. Len(f[i]) : f[k][x] = f[i][x]
        BY <1>4, <2>2
      <3>2. k + 1 \in 1 .. Len(L) /\ (k + 1) - 1 = k /\ k \in 0 .. n /\ i \in 0 .. n
        BY <1>1
      <3>3. f[k + 1] = f[k] \o L[k + 1]
        BY <3>2 DEF Concatenations
      <3>4. L[k + 1] \in Seq(B) /\ f[k] \in Seq(B)
        BY <1>2, <3>2, ElementOfSeq
      <3>5. PICK a \in Nat, b \in Nat, c \in Nat : a = Len(f[k]) /\ b = Len(L[k + 1]) /\ c = Len(f[i])
        BY <1>2, <3>2, <3>4, LenProperties
      <3>6. /\ Len(f[k] \o L[k + 1]) = a + b
            /\ \A x \in 1 .. a + b : (f[k] \o L[k + 1])[x] = IF x <= a THEN f[k][x] ELSE L[k + 1][x - a]
        BY <3>4, <3>5, ConcatProperties
      <3>7. c <= a /\ Len(f[k + 1]) = a + b
        BY <3>1, <3>3, <3>5, <3>6
      <3>8. ASSUME NEW x \in 1 .. c PROVE f[k + 1][x] = f[i][x]
        <4>1. x \in 1 .. a + b /\ x <= a
          BY <3>7
        <4>2. (f[k] \o L[k + 1])[x] = f[k][x]
          BY <3>6, <4>1
        <4>3. f[k][x] = f[i][x]
          BY <3>1, <3>5
        <4> QED
          BY <3>3, <4>2, <4>3
      <3>9. Len(f[i]) <= Len(f[k + 1])
        <4>1. c <= a + b
          BY <3>7
        <4> QED
          BY <3>5, <3>7, <4>1, Zenon
      <3> QED
        BY <3>5, <3>8, <3>9
    <2> QED
      BY <1>1, <2>1, <2>2
  <1> HIDE DEF S
  <1>5. \A k \in 0 .. n : k \in S
    BY <1>3, <1>4, UpTo
  <1>6. n \in S
    BY <1>5
  <1> QED
    BY <1>1, <1>2, <1>6 DEF S

\* off[k] is where the k-th entry of m's MADT ends and the next one starts.
Offsets(m, off) ==
    /\ off \in [0 .. Len(m.layout) -> Nat]
    /\ off[0] = 0 /\ off[Len(m.layout)] = madt_end(m)
    /\ \A k \in 1 .. Len(m.layout) :
          /\ off[k] = off[k - 1] + Len(m.layout[k]) /\ off[k] <= madt_end(m)
          /\ \A j \in 1 .. Len(m.layout[k]) : madt(m)[off[k - 1] + j] = m.layout[k][j]

\* The bytes of the MADT are those of its entries, one after the other, and
\* behind it there is memory.
LEMMA MadtEntries ==
    ASSUME NEW m, IsMachine(m)
    PROVE  /\ madt(m) \in Seq(0 .. 255) /\ madt_end(m) \in Nat
           /\ Len(madt(m)) >= madt_end(m) + 12
           /\ \E off : Offsets(m, off)
  <1>1. PICK B, L, A : B = 0 .. 255 /\ L = m.layout /\ A = m.after
    OBVIOUS
  <1>2. L \in Seq(Seq(B)) /\ A \in Seq(B) /\ Len(A) >= 12
    BY <1>1 DEF IsMachine
  <1>3. PICK n \in Nat : n = Len(L)
    BY <1>2, LenProperties
  <1>4. PICK f : Concatenations(L, B, f)
    BY <1>2, ConcatenationsExist
  <1>5. FlattenSeq(L) = f[n]
    BY <1>2, <1>3, <1>4, FlattenLast
  <1>6. \A k \in 0 .. n : f[k] \in Seq(B) /\ Len(f[k]) \in Nat
    BY <1>3, <1>4, LenProperties DEF Concatenations
  <1>7. PICK e \in Nat : e = Len(f[n]) /\ e = madt_end(m)
    BY <1>1, <1>5, <1>6 DEF madt_end
  <1>8. madt(m) = f[n] \o A
    BY <1>1, <1>5 DEF madt
  <1>9. PICK a \in Nat : a = Len(A)
    BY <1>2, LenProperties
  <1>10. /\ madt(m) \in Seq(B) /\ Len(madt(m)) = e + a
         /\ \A x \in 1 .. e + a : madt(m)[x] = IF x <= e THEN f[n][x] ELSE A[x - e]
    <2>1. PICK g : g = f[n] /\ g \in Seq(B)
      BY <1>6
    <2>2. /\ g \o A \in Seq(B) /\ Len(g \o A) = Len(g) + Len(A)
          /\ \A x \in 1 .. Len(g) + Len(A) : (g \o A)[x] = IF x <= Len(g) THEN g[x] ELSE A[x - Len(g)]
      BY <1>2, <2>1, ConcatProperties
    <2> QED
      BY <1>7, <1>8, <1>9, <2>1, <2>2
  <1> DEFINE off == [k \in 0 .. n |-> Len(f[k])]
  <1>11. off \in [0 .. n -> Nat] /\ off[0] = 0 /\ off[n] = e
    <2>1. f[0] = <<>>
      BY <1>4 DEF Concatenations
    <2>2. Len(f[0]) = 0
      BY <2>1, EmptySeq
    <2>3. 0 \in 0 .. n /\ n \in 0 .. n
      OBVIOUS
    <2>4. off[0] = 0 /\ off[n] = e
      BY <1>7, <2>2, <2>3
    <2>5. off \in [0 .. n -> Nat]
      BY <1>6
    <2> QED
      BY <2>4, <2>5
  <1>12. ASSUME NEW k \in 1 .. n
         PROVE  /\ off[k] = off[k - 1] + Len(L[k]) /\ off[k] <= e
                /\ \A j \in 1 .. Len(L[k]) : madt(m)[off[k - 1] + j] = L[k][j]
    <2>0. k - 1 \in 0 .. n /\ k \in 0 .. n
      OBVIOUS
    <2>1. f[k] = f[k - 1] \o L[k]
      BY <1>3, <1>4 DEF Concatenations
    <2>2. f[k - 1] \in Seq(B) /\ L[k] \in Seq(B)
      BY <1>2, <1>3, <1>6, <2>0, ElementOfSeq
    <2>3. PICK c \in Nat, d \in Nat : c = Len(f[k - 1]) /\ d = Len(L[k])
      BY <2>2, LenProperties
    <2>4. /\ Len(f[k]) = c + d
          /\ \A x \in 1 .. c + d : f[k][x] = IF x <= c THEN f[k - 1][x] ELSE L[k][x - c]
      <3>1. PICK g, h : g = f[k - 1] /\ h = L[k]
        OBVIOUS
      <3>2. g \in Seq(B) /\ h \in Seq(B)
        BY <2>2, <3>1
      <3>3. /\ Len(g \o h) = Len(g) + Len(h)
            /\ \A x \in 1 .. Len(g) + Len(h) : (g \o h)[x] = IF x <= Len(g) THEN g[x] ELSE h[x - Len(g)]
        BY <3>2, ConcatProperties
      <3> QED
        BY <2>1, <2>3, <3>1, <3>3
    <2>5. Len(f[k]) <= e /\ \A x \in 1 .. Len(f[k]) : f[n][x] = f[k][x]
      <3>1. k \in 0 .. Len(L)
        BY <1>3, <2>0
      <3>2. /\ Len(f[k]) \in Nat /\ Len(f[k]) <= Len(f[Len(L)])
            /\ \A x \in 1 .. Len(f[k]) : f[Len(L)][x] = f[k][x]
        BY <1>2, <1>4, <3>1, ConcatenationsGrow
      <3> QED
        BY <1>3, <1>7, <3>2
    <2>6. off[k] = c + d /\ off[k - 1] = c
      BY <2>0, <2>3, <2>4
    <2>7. ASSUME NEW j \in 1 .. d PROVE madt(m)[c + j] = L[k][j]
      <3>1. c + j \in 1 .. c + d /\ c + j \in 1 .. e + a /\ c + j <= e /\ ~(c + j <= c) /\ (c + j) - c = j
        BY <2>4, <2>5
      <3>2. madt(m)[c + j] = f[n][c + j]
        BY <1>10, <3>1
      <3>3. f[n][c + j] = f[k][c + j]
        BY <2>4, <2>5, <3>1
      <3>4. f[k][c + j] = L[k][j]
        BY <2>4, <3>1
      <3> QED
        BY <3>2, <3>3, <3>4
    <2> QED
      BY <2>3, <2>4, <2>5, <2>6, <2>7
  <1> HIDE DEF off
  <1>13. Offsets(m, off)
    BY <1>1, <1>3, <1>7, <1>11, <1>12 DEF Offsets
  <1> QED
    BY <1>1, <1>2, <1>7, <1>9, <1>10, <1>13

-----------------------------------------------------------------------------
(* What each step of the boot may rely on. *)

Tests       == {"test_interprocessor_interrupts", "test_keyboard", "test_keyboard_read",
                "running"}
Redirecting == {"request_command_byte", "read_command_byte", "write_command_byte",
                "find_madt", "walk_madt", "redirect_high", "redirect_low"}
Enabling    == {"software_enable", "task_priority"}
BeforeSti   == {"gdt_init", "idt_init", "enableAPIC", "disablePIC", "remapPIC",
                "restore_masks", "sti"}
AfterSti    == Enabling \cup Redirecting \cup Tests

Loaded == system_vectors \cup {keyboard_vector, test_vector}

\* The variables TypeOK leaves out.
StepsOK ==
    /\ pc \in BeforeSti \cup AfterSti \cup {"panic"}
    /\ m_ioApics \in Seq([base : Nat, id : Nat, numRedirectionEntries : Nat])

\* What has been loaded, and when.
TablesOK ==
    /\ gates = <<>> \/ DOMAIN gates = Loaded
    /\ pc \notin {"gdt_init", "panic"} => segments = "kernel"
    /\ pc \notin {"gdt_init", "idt_init", "panic"} => DOMAIN gates = Loaded
    /\ pc \notin {"gdt_init", "idt_init", "enableAPIC", "panic"} => baseAddress = "mapped"

\* The PIC stays masked from disablePIC on, but for the time the mask is in a1.
PicOK ==
    /\ pc = "remapPIC" => masked = TRUE
    /\ pc = "restore_masks" => a1 = TRUE
    /\ pc \in {"restore_masks", "sti"} \cup AfterSti => offset = 32
    /\ pc \in {"sti"} \cup AfterSti => masked = TRUE

\* The processor and its APIC accept interrupts before the entry is unmasked.
EnabledOK ==
    /\ pc \in BeforeSti => rflags_IF = FALSE
    /\ pc \in AfterSti => rflags_IF = TRUE
    /\ pc \in {"task_priority"} \cup Redirecting \cup Tests => softwareEnabled = TRUE
    /\ pc \in Redirecting \cup Tests => taskPriority = 0

\* The entry is masked until its destination has been written.
EntryOK ==
    /\ pc \in BeforeSti \cup Enabling \cup Redirecting => entry.masked = TRUE
    /\ pc = "redirect_low" => entry.dest = ioApic.id
    /\ entry.masked = FALSE => entry.vector = keyboard_vector

\* ReadyWhenEnabled, with the Boolean variables compared.
ReadyOK ==
    /\ rflags_IF = TRUE => /\ segments = "kernel" /\ DOMAIN gates = Loaded
                           /\ baseAddress = "mapped"
                           /\ masked = TRUE /\ offset = 32
    /\ entry.masked = FALSE => /\ rflags_IF = TRUE /\ softwareEnabled = TRUE
                               /\ taskPriority = 0
                               /\ entry.dest = ioApic.id

Inv == TypeOK /\ StepsOK /\ TablesOK /\ PicOK /\ EnabledOK /\ EntryOK /\ ReadyOK

-----------------------------------------------------------------------------
(* Lemmas. *)

\* Nothing of the redirection changes with the array of I/O APICs unchanged.
LEMMA SameIoApic == ASSUME UNCHANGED m_ioApics PROVE ioApic' = ioApic
  BY DEF ioApic, Handling, handlesIRQ

\* The I/O APIC redirectIrq stops at, if there is one, is one of the array.
LEMMA IoApicType ==
    ASSUME StepsOK, Handling # {}
    PROVE  ioApic.id \in Nat
  <1>1. Handling \subseteq Nat
    BY DEF Handling, StepsOK
  <1>2. \E i \in Handling : \A j \in Handling : i <= j
    <2>1. \E i \in Handling : \A j \in Handling : ~ (<<j, i>> \in OpToRel(<, Nat))
      BY <1>1, NatLessThanWellFounded, WFMin, Zenon
    <2>2. \A i, j \in Nat : ~ (<<j, i>> \in OpToRel(<, Nat)) => i <= j
      BY DEF OpToRel
    <2> QED
      BY <1>1, <2>1, <2>2
  <1> DEFINE first == CHOOSE i \in Handling : \A j \in Handling : i <= j
  <1>3. first \in Handling
    BY <1>2
  <1>4. first \in 1 .. Len(m_ioApics)
    BY <1>3 DEF Handling
  <1>5. ioApic = m_ioApics[first]
    BY DEF ioApic
  <1> HIDE DEF first
  <1>6. m_ioApics[first] \in [base : Nat, id : Nat, numRedirectionEntries : Nat]
    BY <1>4, ElementOfSeq DEF StepsOK
  <1> QED
    BY <1>5, <1>6

\* Up to twelve bytes from an entry of the MADT on there is memory to read.
LEMMA MadtByte ==
    ASSUME machine \in Machines, cursor \in Nat, cursor < madt_end(machine),
           NEW i \in 0 .. 11
    PROVE  madt_byte(machine, cursor + i) \in Nat
  <1>1. /\ madt(machine) \in Seq(0 .. 255)
        /\ madt_end(machine) \in Nat
        /\ Len(madt(machine)) >= madt_end(machine) + 12
    BY MachineAssumption, MadtEntries
  <1>2. cursor + i + 1 \in 1 .. Len(madt(machine))
    BY <1>1, LenProperties
  <1>3. madt(machine)[cursor + i + 1] \in 0 .. 255
    BY <1>1, <1>2, ElementOfSeq
  <1> QED
    BY <1>3 DEF madt_byte

\* The interrupt a byte raises has a vector with a handler of its own.
LEMMA AcceptType ==
    ASSUME Inv, NEW requested \in SUBSET {keyboard_vector, test_vector}
    PROVE  accept(requested) \subseteq {keyboard_vector, test_vector}
  BY DEF Inv, TypeOK, EntryOK, accept

\* The keyboard's gate, once the gates are loaded, is that of isr_keyboard.
LEMMA KeyboardGate ==
    ASSUME TypeOK, DOMAIN gates = Loaded
    PROVE  gates # <<>> /\ dispatch(keyboard_vector) = "isr_keyboard"
  <1>1. keyboard_vector \in DOMAIN gates
    BY DEF Loaded
  <1>2. gates # <<>>
    BY <1>1 DEF keyboard_vector
  <1>3. gates[keyboard_vector] = handler(keyboard_vector)
    BY <1>1 DEF TypeOK
  <1>4. handler(keyboard_vector) = "isr_keyboard"
    BY DEF handler, keyboard_vector, page_fault_vector, test_vector
  <1> QED
    BY <1>1, <1>2, <1>3, <1>4 DEF dispatch

\* A byte that arrives keeps the types of the controller and of the APIC.
LEMMA PutType ==
    ASSUME Inv, NEW byte \in {"key", "command"}, put_byte(byte)
    PROVE  output' \in Seq({"key", "command"}) /\ irr' \subseteq {keyboard_vector, test_vector}
  <1>1. irr \subseteq {keyboard_vector, test_vector} /\ output \in Seq({"key", "command"})
    BY DEF Inv, TypeOK
  <1>2. accept(irr) \subseteq {keyboard_vector, test_vector}
    BY <1>1, AcceptType
  <1> QED
    BY <1>1, <1>2, AppendProperties DEF put_byte

\* So does the read of port 0x60.
LEMMA TakeType ==
    ASSUME Inv, NEW requested \in SUBSET {keyboard_vector, test_vector}, take_byte(requested)
    PROVE  output' \in Seq({"key", "command"}) /\ irr' \subseteq {keyboard_vector, test_vector}
  <1>1. output \in Seq({"key", "command"})
    BY DEF Inv, TypeOK
  <1>2. accept(requested) \subseteq {keyboard_vector, test_vector}
    BY AcceptType
  <1>3. output # <<>> => Tail(output) \in Seq({"key", "command"})
    BY <1>1, HeadTailProperties
  <1> QED
    BY <1>1, <1>2, <1>3 DEF take_byte

\* What a key or an interrupt changes, the boot does not depend on.
LEMMA BytesKeepInv ==
    ASSUME Inv,
           irr' \subseteq {keyboard_vector, test_vector},
           isr' \subseteq {keyboard_vector, test_vector},
           output' \in Seq({"key", "command"}), presses' \in 0 .. MaxPresses,
           ipiPassed' \in BOOLEAN,
           UNCHANGED <<coreVars, pc, picVars, apicVars, routeVars, irq1>>
    PROVE  Inv'
  <1>1. ioApic' = ioApic
    BY SameIoApic DEF routeVars
  <1>2. TypeOK'
    BY DEF Inv, TypeOK, coreVars, picVars, apicVars, routeVars
  <1> QED
    BY <1>1, <1>2 DEF Inv, StepsOK, TablesOK, PicOK, EnabledOK, EntryOK, ReadyOK,
                      coreVars, picVars, apicVars, routeVars

\* The initial states.
LEMMA InitInv == Init => Inv
  <1> SUFFICES ASSUME Init PROVE Inv
    OBVIOUS
  <1>1. TypeOK
    <2>1. cursor \in Nat
      BY DEF Init
    <2>2. maxIoApics \in Nat /\ MaxPresses \in Nat
      BY MachineAssumption
    <2>3. \A v \in DOMAIN gates : gates[v] = handler(v)
      BY DEF Init
    <2>4. Len(m_ioApics) <= maxIoApics /\ presses \in 0 .. MaxPresses
      BY <2>2 DEF Init
    <2>5. {rflags_IF, masked, a1, softwareEnabled, irq1, ipiPassed} \subseteq BOOLEAN
      BY DEF Init
    <2> QED
      BY <2>1, <2>3, <2>4, <2>5 DEF Init, TypeOK
  <1> QED
    BY <1>1 DEF Init, Inv, StepsOK, TablesOK, PicOK, EnabledOK, EntryOK, ReadyOK,
                BeforeSti, AfterSti, Enabling, Redirecting, Tests

\* A step over an entry of the MADT keeps to the array.
LEMMA WalkType ==
    ASSUME TypeOK, StepsOK, walk_madt
    PROVE  /\ m_ioApics' \in Seq([base : Nat, id : Nat, numRedirectionEntries : Nat])
           /\ Len(m_ioApics') <= maxIoApics
           /\ cursor' \in Nat
           /\ pc' \in {"walk_madt", "panic"}
  <1> DEFINE e == IOAPIC(machine, cursor)
  <1>1. /\ machine \in Machines /\ cursor \in Nat /\ cursor < madt_end(machine)
        /\ cursor' = next_entry
    BY DEF TypeOK, walk_madt
  <1>2. maxIoApics \in Nat /\ Len(m_ioApics) \in Nat
    BY LenProperties, MachineAssumption DEF StepsOK
  <1>3. \A i \in 0 .. 11 : madt_byte(machine, cursor + i) \in Nat
    BY <1>1, MadtByte
  <1>4. cursor' \in Nat
    BY <1>1, <1>3 DEF next_entry
  <1>5. e \in [base : Nat, id : Nat, numRedirectionEntries : Nat]
    <2>1. machine.entries \in Nat
      BY <1>1, MachineAssumption DEF IsMachine
    <2>2. /\ madt_byte(machine, cursor + 2) \in Nat
          /\ madt_byte(machine, cursor + 8) \in Nat
          /\ madt_byte(machine, cursor + 9) \in Nat
          /\ madt_byte(machine, cursor + 10) \in Nat
          /\ madt_byte(machine, cursor + 11) \in Nat
      BY <1>3
    <2> QED
      BY <2>1, <2>2 DEF IOAPIC
  <1>6. /\ pc' \in {"walk_madt", "panic"}
        /\ \/ m_ioApics' = m_ioApics
           \/ Len(m_ioApics) < maxIoApics /\ m_ioApics' = Append(m_ioApics, e)
    BY <1>2 DEF walk_madt, at, goto
  <1> HIDE DEF e
  <1>7. CASE m_ioApics' = m_ioApics
    BY <1>4, <1>6, <1>7 DEF TypeOK, StepsOK
  <1>8. CASE Len(m_ioApics) < maxIoApics /\ m_ioApics' = Append(m_ioApics, e)
    BY <1>2, <1>4, <1>5, <1>6, <1>8 DEF StepsOK
  <1> QED
    BY <1>6, <1>7, <1>8

\* Every step of the boot that changes nothing a key or an interrupt changes.
LEMMA BootStep ==
    ASSUME Inv,
           \/ gdt_init \/ idt_init \/ enableAPIC \/ disablePIC \/ remapPIC
           \/ restore_masks \/ sti \/ software_enable \/ task_priority
           \/ write_command_byte \/ find_madt \/ walk_madt \/ end_madt
           \/ redirect_high \/ redirect_low
    PROVE  Inv'
  <1> USE DEF Inv, TypeOK, StepsOK, TablesOK, PicOK, EnabledOK, EntryOK, ReadyOK,
              Tests, Redirecting, Enabling, BeforeSti, AfterSti, at, goto,
              coreVars, picVars, apicVars, routeVars, kbcVars
  <1>1. CASE gdt_init
    BY <1>1, SameIoApic DEF gdt_init
  <1>2. CASE idt_init
    BY <1>2, SameIoApic DEF idt_init, load_gate_descriptors, Loaded
  <1>3. CASE enableAPIC
    BY <1>3, SameIoApic DEF enableAPIC
  <1>4. CASE disablePIC
    BY <1>4, SameIoApic DEF disablePIC
  <1>5. CASE remapPIC
    BY <1>5, SameIoApic DEF remapPIC
  <1>6. CASE restore_masks
    BY <1>6, SameIoApic DEF restore_masks
  <1>7. CASE sti
    BY <1>7, SameIoApic DEF sti
  <1>8. CASE software_enable
    BY <1>8, SameIoApic DEF software_enable
  <1>9. CASE task_priority
    BY <1>9, SameIoApic DEF task_priority
  <1>10. CASE write_command_byte
    BY <1>10, SameIoApic DEF write_command_byte
  <1>11. CASE find_madt
    BY <1>11, SameIoApic DEF find_madt
  <1>12. CASE walk_madt
    BY <1>12, WalkType DEF walk_madt
  <1>13. CASE end_madt
    BY <1>13, SameIoApic DEF end_madt
  <1>14. CASE redirect_high
    <2>1. ioApic' = ioApic
      BY <1>14, SameIoApic DEF redirect_high
    <2>2. CASE Handling = {}
      BY <1>14, <2>1, <2>2 DEF redirect_high
    <2>3. CASE Handling # {}
      <3>1. ioApic.id \in Nat
        BY <2>3, IoApicType
      <3> QED
        BY <1>14, <2>1, <2>3, <3>1 DEF redirect_high, writeRedirectionEntryHigh
    <2> QED
      BY <2>2, <2>3
  <1>15. CASE redirect_low
    BY <1>15, SameIoApic DEF redirect_low, writeRedirectionEntryLow
  <1> QED
    BY <1>1, <1>2, <1>3, <1>4, <1>5, <1>6, <1>7, <1>8, <1>9,
       <1>10, <1>11, <1>12, <1>13, <1>14, <1>15

\* The steps of the boot that talk to the keyboard controller or send an
\* interrupt.
LEMMA ByteStep ==
    ASSUME Inv,
           \/ request_command_byte \/ read_command_byte
           \/ test_interprocessor_interrupts \/ test_keyboard \/ test_keyboard_read
    PROVE  Inv'
  <1>1. output' \in Seq({"key", "command"}) /\ irr' \subseteq {keyboard_vector, test_vector}
    <2>1. output \in Seq({"key", "command"}) /\ irr \subseteq {keyboard_vector, test_vector}
      BY DEF Inv, TypeOK
    <2>2. CASE request_command_byte
      BY <2>2, PutType DEF request_command_byte
    <2>3. CASE read_command_byte
      BY <2>1, <2>3, TakeType DEF read_command_byte
    <2>4. CASE test_interprocessor_interrupts
      BY <2>1, <2>4 DEF test_interprocessor_interrupts, sendInterprocessorInterrupt, kbcVars
    <2>5. CASE test_keyboard
      BY <2>5, PutType DEF test_keyboard
    <2>6. CASE test_keyboard_read
      BY <2>1, <2>6, TakeType DEF test_keyboard_read
    <2> QED
      BY <2>2, <2>3, <2>4, <2>5, <2>6
  <1>2. UNCHANGED <<coreVars, picVars, apicVars, isr, routeVars, irq1, presses, ipiPassed>>
    BY DEF request_command_byte, read_command_byte, test_interprocessor_interrupts,
           test_keyboard, test_keyboard_read, kbcVars
  <1>3. \/ pc = "request_command_byte" /\ pc' = "read_command_byte"
        \/ pc = "read_command_byte" /\ pc' = "write_command_byte"
        \/ pc \in Tests /\ pc' \in Tests
    BY DEF request_command_byte, read_command_byte, test_interprocessor_interrupts,
           test_keyboard, test_keyboard_read, at, goto, Tests
  <1>4. ioApic' = ioApic
    BY <1>2, SameIoApic DEF routeVars
  <1>5. TypeOK'
    BY <1>1, <1>2 DEF Inv, TypeOK, coreVars, picVars, apicVars, routeVars
  <1> QED
    BY <1>2, <1>3, <1>4, <1>5
       DEF Inv, StepsOK, TablesOK, PicOK, EnabledOK, EntryOK, ReadyOK,
           Tests, Redirecting, Enabling, BeforeSti, AfterSti,
           coreVars, picVars, apicVars, routeVars

\* Keys and interrupts.
LEMMA InterruptStep ==
    ASSUME Inv, press \/ Deliver
    PROVE  Inv'
  <1>1. /\ irr \subseteq {keyboard_vector, test_vector}
        /\ isr \subseteq {keyboard_vector, test_vector}
        /\ output \in Seq({"key", "command"}) /\ presses \in 0 .. MaxPresses
        /\ ipiPassed \in BOOLEAN
    BY DEF Inv, TypeOK
  <1>2. CASE press
    <2>1. output' \in Seq({"key", "command"}) /\ irr' \subseteq {keyboard_vector, test_vector}
      BY <1>2, PutType DEF press
    <2>2. presses' \in 0 .. MaxPresses
      <3>1. MaxPresses \in Nat
        BY MachineAssumption
      <3>2. presses < MaxPresses /\ presses' = presses + 1
        BY <1>2 DEF press
      <3>3. presses \in Nat /\ presses + 1 <= MaxPresses
        BY <1>1, <3>1, <3>2
      <3> QED
        BY <3>1, <3>2, <3>3
    <2> QED
      BY <1>1, <1>2, <2>1, <2>2, BytesKeepInv DEF press
  <1>3. CASE Deliver
    <2>1. PICK vector \in irr : deliver(vector)
      BY <1>3 DEF Deliver
    <2>2. isr' \subseteq {keyboard_vector, test_vector}
      <3>1. isr' = sendEndOfInterrupt(isr \cup {vector})
        BY <2>1 DEF deliver
      <3>2. isr' \subseteq isr \cup {vector}
        BY <3>1 DEF sendEndOfInterrupt
      <3> QED
        BY <1>1, <3>2
    <2>3. /\ output' \in Seq({"key", "command"}) /\ irr' \subseteq {keyboard_vector, test_vector}
          /\ ipiPassed' \in BOOLEAN
      <3>1. CASE isr_keyboard(vector)
        BY <1>1, <3>1, TakeType DEF isr_keyboard
      <3>2. CASE isr_interprocessor_interrupt(vector)
        BY <1>1, <3>2 DEF isr_interprocessor_interrupt
      <3> QED
        BY <2>1, <3>1, <3>2 DEF deliver
    <2> QED
      BY <1>1, <2>1, <2>2, <2>3, BytesKeepInv DEF deliver
  <1> QED
    BY <1>2, <1>3

\* A panic keeps what was enabled as it was.
LEMMA PanicStep ==
    ASSUME Inv, spurious_pic
    PROVE  Inv'
  <1>1. UNCHANGED <<coreVars, picVars, apicVars, irr, isr, routeVars, kbcVars, ipiPassed>>
    BY DEF spurious_pic
  <1>2. pc' = pc \/ pc' = "panic"
    BY DEF spurious_pic
  <1>3. ioApic' = ioApic
    BY <1>1, SameIoApic DEF routeVars
  <1>4. TypeOK'
    BY <1>1 DEF Inv, TypeOK, coreVars, picVars, apicVars, routeVars, kbcVars
  <1> QED
    BY <1>1, <1>2, <1>3, <1>4
       DEF Inv, StepsOK, TablesOK, PicOK, EnabledOK, EntryOK, ReadyOK,
           Tests, Redirecting, Enabling, BeforeSti, AfterSti,
           coreVars, picVars, apicVars, routeVars

\* Every step keeps the invariant.
LEMMA NextInv == Inv /\ [Next]_vars => Inv'
  <1> SUFFICES ASSUME Inv, [Next]_vars PROVE Inv'
    OBVIOUS
  <1>1. CASE Boot
    BY <1>1, BootStep, ByteStep DEF Boot
  <1>2. CASE Deliver \/ press
    BY <1>2, InterruptStep
  <1>3. CASE spurious_pic
    BY <1>3, PanicStep
  <1>4. CASE UNCHANGED vars
    <2>1. ioApic' = ioApic
      BY <1>4, SameIoApic DEF vars, routeVars
    <2>2. TypeOK'
      BY <1>4 DEF Inv, TypeOK, vars, coreVars, picVars, apicVars, routeVars, kbcVars
    <2> QED
      BY <1>4, <2>1, <2>2 DEF Inv, StepsOK, TablesOK, PicOK, EnabledOK, EntryOK, ReadyOK,
                              vars, coreVars, picVars, apicVars, routeVars
  <1> QED
    BY <1>1, <1>2, <1>3, <1>4 DEF Next, kernel_hang, idle

\* The invariant at work.
LEMMA InvReady == Inv => ReadyWhenEnabled
  <1> SUFFICES ASSUME Inv PROVE ReadyWhenEnabled
    OBVIOUS
  <1>1. rflags_IF \in BOOLEAN /\ softwareEnabled \in BOOLEAN /\ entry.masked \in BOOLEAN
    BY DEF Inv, TypeOK
  <1>2. DOMAIN gates = Loaded => gates # <<>> /\ dispatch(keyboard_vector) = "isr_keyboard"
    BY KeyboardGate DEF Inv
  <1> QED
    BY <1>1, <1>2 DEF Inv, ReadyOK, EntryOK, ReadyWhenEnabled

-----------------------------------------------------------------------------
(* The walk over the MADT. *)

Pairs == [id : Nat, base : Nat]

\* What the I/O APICs of the array say of themselves.
Ids(s) == [i \in DOMAIN s |-> [id |-> s[i].id, base |-> s[i].base]]

IoApicRecord == [base : Nat, id : Nat, numRedirectionEntries : Nat]

\* One more I/O APIC in the array.
LEMMA IdsAppend ==
    ASSUME NEW s \in Seq(IoApicRecord), NEW x \in IoApicRecord
    PROVE  Ids(Append(s, x)) = Append(Ids(s), [id |-> x.id, base |-> x.base])
  <1>1. PICK n \in Nat : n = Len(s)
    BY LenProperties
  <1>2. DOMAIN s = 1 .. n /\ \A i \in 1 .. n : s[i] \in IoApicRecord
    BY <1>1, LenProperties, ElementOfSeq
  <1>3. PICK y : y = [id |-> x.id, base |-> x.base]
    OBVIOUS
  <1>4. y \in Pairs
    BY <1>3 DEF Pairs, IoApicRecord
  <1>5. Ids(s) \in Seq(Pairs) /\ Len(Ids(s)) = n
    <2>1. Ids(s) = [i \in 1 .. n |-> [id |-> s[i].id, base |-> s[i].base]]
      BY <1>2 DEF Ids
    <2>2. \A i \in 1 .. n : [id |-> s[i].id, base |-> s[i].base] \in Pairs
      BY <1>2 DEF Pairs, IoApicRecord
    <2>3. Ids(s) \in [1 .. n -> Pairs]
      BY <2>1, <2>2
    <2>4. Ids(s) \in Seq(Pairs)
      BY <2>3, SeqDef
    <2>5. Len(Ids(s)) \in Nat /\ DOMAIN Ids(s) = 1 .. Len(Ids(s)) /\ DOMAIN Ids(s) = 1 .. n
      BY <2>3, <2>4, LenProperties
    <2>6. PICK a \in Nat : a = Len(Ids(s))
      BY <2>5
    <2>7. (a # 0 => a \in 1 .. a) /\ (n # 0 => n \in 1 .. n)
      OBVIOUS
    <2>8. 1 .. a = 1 .. n
      BY <2>5, <2>6, Zenon
    <2>9. (a # 0 => a \in 1 .. n) /\ (n # 0 => n \in 1 .. a)
      BY <2>7, <2>8, Zenon
    <2>10. a = n
      BY <2>9
    <2> QED
      BY <2>4, <2>6, <2>10
  <1>6. PICK u, v : u = Append(s, x) /\ v = Append(Ids(s), y)
    OBVIOUS
  <1>7. /\ u \in Seq(IoApicRecord) /\ Len(u) = n + 1
        /\ \A i \in 1 .. n : u[i] = s[i]
        /\ u[n + 1] = x
    BY <1>1, <1>6, AppendProperties
  <1>8. /\ v \in Seq(Pairs) /\ Len(v) = n + 1
        /\ \A i \in 1 .. n : v[i] = Ids(s)[i]
        /\ v[n + 1] = y
    BY <1>4, <1>5, <1>6, AppendProperties
  <1>9. DOMAIN u = 1 .. n + 1 /\ DOMAIN v = 1 .. n + 1 /\ v = [i \in 1 .. n + 1 |-> v[i]]
    BY <1>7, <1>8, LenProperties
  <1>10. ASSUME NEW i \in 1 .. n + 1 PROVE v[i] = [id |-> u[i].id, base |-> u[i].base]
    <2>1. CASE i \in 1 .. n
      <3>1. Ids(s)[i] = [id |-> s[i].id, base |-> s[i].base]
        BY <1>2, <2>1 DEF Ids
      <3> QED
        BY <1>7, <1>8, <2>1, <3>1
    <2>2. CASE i = n + 1
      BY <1>3, <1>7, <1>8, <2>2
    <2> QED
      BY <2>1, <2>2
  <1>11. Ids(u) = [i \in 1 .. n + 1 |-> [id |-> u[i].id, base |-> u[i].base]]
    BY <1>9 DEF Ids
  <1>12. Ids(u) = v
    BY <1>9, <1>10, <1>11
  <1> QED
    BY <1>3, <1>6, <1>12

\* One more entry of the MADT.
DescribedStep(m, g, n) ==
    IF n = 0 THEN <<>>
    ELSE IF m.layout[n][1] = 1 THEN Append(g[n - 1], Described(m.layout[n]))
    ELSE g[n - 1]

\* g[k] is what the first k entries describe.
Descriptions(m, g) ==
    /\ g = [n \in 0 .. Len(m.layout) |-> DescribedStep(m, g, n)]
    /\ g[Len(m.layout)] = DescribedIOAPICs(m)

\* There are such descriptions.
LEMMA DescriptionsExist ==
    ASSUME NEW m, Len(m.layout) \in Nat
    PROVE  \E g : Descriptions(m, g)
  <1>1. PICK N \in Nat : N = Len(m.layout)
    OBVIOUS
  <1> DEFINE S == {k \in Nat : \E g : g = [n \in 0 .. k |-> DescribedStep(m, g, n)]}
  <1>2. 0 \in S
    <2> DEFINE g == [n \in 0 .. 0 |-> <<>>]
    <2>1. g = [n \in 0 .. 0 |-> DescribedStep(m, g, n)]
      BY DEF DescribedStep
    <2> QED
      BY <2>1
  <1>3. ASSUME NEW k \in 0 .. N - 1, k \in S PROVE k + 1 \in S
    <2>1. PICK g : g = [n \in 0 .. k |-> DescribedStep(m, g, n)]
      BY <1>3
    <2> DEFINE h == [n \in 0 .. k + 1 |-> IF n <= k THEN g[n] ELSE DescribedStep(m, g, n)]
    <2>2. ASSUME NEW n \in 0 .. k + 1 PROVE h[n] = DescribedStep(m, h, n)
      <3>1. h[n] = DescribedStep(m, g, n)
        BY <2>1
      <3>2. n # 0 => n - 1 \in 0 .. k + 1 /\ n - 1 <= k
        OBVIOUS
      <3>3. n # 0 => h[n - 1] = g[n - 1]
        BY <3>2
      <3> QED
        BY <3>1, <3>3 DEF DescribedStep
    <2>3. h = [n \in 0 .. k + 1 |-> DescribedStep(m, h, n)]
      BY <2>2
    <2> HIDE DEF h
    <2>4. \E f : f = [n \in 0 .. k + 1 |-> DescribedStep(m, f, n)]
      BY <2>3
    <2> QED
      BY <2>4
  <1> HIDE DEF S
  <1>4. \A k \in 0 .. N : k \in S
    BY <1>2, <1>3, UpTo
  <1>5. \E g : g = [n \in 0 .. N |-> DescribedStep(m, g, n)]
    BY <1>4 DEF S
  <1>6. PICK f : f = CHOOSE g : g = [n \in 0 .. N |-> DescribedStep(m, g, n)]
    OBVIOUS
  <1>7. f = [n \in 0 .. N |-> DescribedStep(m, f, n)]
    BY <1>5, <1>6
  <1>8. DescribedIOAPICs(m) = f[N]
    BY <1>1, <1>6 DEF DescribedIOAPICs, DescribedStep
  <1> QED
    BY <1>1, <1>7, <1>8 DEF Descriptions

\* The cursor stands at the end of an entry, and the array holds what the entries
\* up to there describe.
Met ==
    \E off, g : \E k \in 0 .. Len(machine.layout) :
        /\ Offsets(machine, off) /\ Descriptions(machine, g)
        /\ cursor = off[k] /\ Ids(m_ioApics) = g[k]

\* Before the walk.
Unwalked == BeforeSti \cup Enabling \cup {"request_command_byte", "read_command_byte",
                                          "write_command_byte", "find_madt"}

WalkOK ==
    WellFormed(machine) =>
        /\ pc \in Unwalked => cursor = 0 /\ m_ioApics = <<>>
        /\ pc = "walk_madt" => Met
        /\ pc \in Walked => Ids(m_ioApics) = DescribedIOAPICs(machine)

\* The walk starts with nothing.
LEMMA WalkStarts ==
    ASSUME machine \in Machines, cursor = 0, m_ioApics = <<>>
    PROVE  Met
  <1>1. IsMachine(machine)
    BY MachineAssumption
  <1>2. Len(machine.layout) \in Nat
    BY <1>1, LenProperties DEF IsMachine
  <1>3. PICK off : Offsets(machine, off)
    BY <1>1, MadtEntries
  <1>4. PICK g : Descriptions(machine, g)
    BY <1>2, DescriptionsExist
  <1>5. 0 \in 0 .. Len(machine.layout)
    BY <1>2
  <1>6. g[0] = <<>>
    BY <1>4, <1>5 DEF Descriptions, DescribedStep
  <1>7. Ids(m_ioApics) = <<>>
    BY DEF Ids
  <1>8. off[0] = cursor
    BY <1>3 DEF Offsets
  <1> QED
    BY <1>3, <1>4, <1>5, <1>6, <1>7, <1>8 DEF Met

\* It ends behind the last entry.
LEMMA WalkEnds ==
    ASSUME machine \in Machines, WellFormed(machine), Met, cursor >= madt_end(machine)
    PROVE  Ids(m_ioApics) = DescribedIOAPICs(machine)
  <1>1. PICK N \in Nat : N = Len(machine.layout) /\ DOMAIN machine.layout = 1 .. N
    <2>1. machine.layout \in Seq(Seq(0 .. 255))
      BY MachineAssumption DEF IsMachine
    <2> QED
      BY <2>1, LenProperties
  <1>2. PICK off, g : \E k \in 0 .. N : /\ Offsets(machine, off) /\ Descriptions(machine, g)
                                        /\ cursor = off[k] /\ Ids(m_ioApics) = g[k]
    BY <1>1 DEF Met
  <1>3. PICK k \in 0 .. N : /\ Offsets(machine, off) /\ Descriptions(machine, g)
                            /\ cursor = off[k] /\ Ids(m_ioApics) = g[k]
    BY <1>2
  <1>4. ASSUME k # N PROVE FALSE
    <2>1. k + 1 \in 1 .. N /\ (k + 1) - 1 = k
      BY <1>4
    <2>2. off[k + 1] = off[k] + Len(machine.layout[k + 1]) /\ off[k + 1] <= madt_end(machine)
      BY <1>1, <1>3, <2>1 DEF Offsets
    <2>3. Len(machine.layout[k + 1]) >= 2 /\ Len(machine.layout[k + 1]) \in Nat
      <3>1. machine.layout \in Seq(Seq(0 .. 255))
        BY MachineAssumption DEF IsMachine
      <3>2. machine.layout[k + 1] \in Seq(0 .. 255)
        BY <1>1, <2>1, <3>1, ElementOfSeq
      <3> QED
        BY <1>1, <2>1, <3>2, LenProperties DEF WellFormed
    <2>4. off[k] \in Nat /\ off[k + 1] \in Nat /\ madt_end(machine) \in Nat
      <3>1. k + 1 \in 0 .. N /\ N \in 0 .. N
        BY <2>1
      <3>2. off \in [0 .. N -> Nat] /\ off[N] = madt_end(machine)
        BY <1>1, <1>3 DEF Offsets
      <3> QED
        BY <3>1, <3>2
    <2>5. PICK a \in Nat, b \in Nat, c \in Nat, d \in Nat :
            a = off[k] /\ b = off[k + 1] /\ c = madt_end(machine) /\ d = Len(machine.layout[k + 1])
      BY <2>3, <2>4
    <2>6. a >= c /\ b = a + d /\ b <= c /\ d >= 2
      BY <1>3, <2>2, <2>3, <2>5
    <2> QED
      BY <2>6
  <1> QED
    BY <1>1, <1>3, <1>4 DEF Descriptions

\* It steps from one entry to the next, and keeps what that one describes.
LEMMA WalkSteps ==
    ASSUME machine \in Machines, WellFormed(machine), Met, cursor < madt_end(machine),
           m_ioApics \in Seq(IoApicRecord), UNCHANGED machine, cursor' = next_entry,
           m_ioApics' = IF type = 1 THEN Append(m_ioApics, IOAPIC(machine, cursor)) ELSE m_ioApics
    PROVE  Met'
  <1>1. PICK N \in Nat : N = Len(machine.layout) /\ DOMAIN machine.layout = 1 .. N
    <2>1. machine.layout \in Seq(Seq(0 .. 255))
      BY MachineAssumption DEF IsMachine
    <2> QED
      BY <2>1, LenProperties
  <1>2. PICK off, g : \E k \in 0 .. N : /\ Offsets(machine, off) /\ Descriptions(machine, g)
                                        /\ cursor = off[k] /\ Ids(m_ioApics) = g[k]
    BY <1>1 DEF Met
  <1>3. PICK k \in 0 .. N : /\ Offsets(machine, off) /\ Descriptions(machine, g)
                            /\ cursor = off[k] /\ Ids(m_ioApics) = g[k]
    BY <1>2
  <1>4. k + 1 \in 1 .. N /\ (k + 1) - 1 = k /\ k + 1 # 0 /\ k + 1 \in 0 .. N
    <2>1. k # N
      <3>1. off[N] = madt_end(machine) /\ madt_end(machine) \in Nat
        <4>1. N \in 0 .. N
          OBVIOUS
        <4> QED
          BY <1>1, <1>3, <4>1 DEF Offsets
      <3> QED
        BY <1>3, <3>1
    <2> QED
      BY <2>1
  <1>5. PICK e : e = machine.layout[k + 1]
    OBVIOUS
  <1>6. e \in Seq(0 .. 255) /\ Len(e) \in Nat /\ Len(e) >= 2 /\ e[2] = Len(e) /\ (e[1] = 1 => Len(e) = 12)
    <2>1. machine.layout \in Seq(Seq(0 .. 255))
      BY MachineAssumption DEF IsMachine
    <2>2. e \in Seq(0 .. 255)
      BY <1>1, <1>4, <1>5, <2>1, ElementOfSeq
    <2>3. Len(e) >= 2 /\ e[2] = Len(e) /\ (e[1] = 1 => Len(e) = 12)
      BY <1>1, <1>4, <1>5 DEF WellFormed
    <2> QED
      BY <2>2, <2>3, LenProperties
  <1>7. PICK c \in Nat : c = off[k] /\ c = cursor
    BY <1>1, <1>3 DEF Offsets
  <1>8. /\ off[k + 1] = c + Len(e)
        /\ \A j \in 1 .. Len(e) : madt(machine)[c + j] = e[j]
    BY <1>1, <1>3, <1>4, <1>5, <1>7 DEF Offsets
  <1>9. ASSUME NEW j \in 0 .. Len(e) - 1 PROVE madt_byte(machine, cursor + j) = e[j + 1]
    <2>1. j + 1 \in 1 .. Len(e) /\ (c + j) + 1 = c + (j + 1)
      BY <1>6
    <2>2. madt(machine)[c + (j + 1)] = e[j + 1]
      BY <1>8, <2>1
    <2> QED
      BY <1>7, <2>1, <2>2 DEF madt_byte
  <1>10. type = e[1] /\ next_entry = off[k + 1]
    <2>1. 0 \in 0 .. Len(e) - 1 /\ 1 \in 0 .. Len(e) - 1 /\ c + 0 = c
      BY <1>6
    <2>2. madt_byte(machine, cursor + 0) = e[0 + 1] /\ madt_byte(machine, cursor + 1) = e[1 + 1]
      BY <1>9, <2>1
    <2> QED
      BY <1>6, <1>7, <1>8, <2>1, <2>2 DEF type, next_entry
  <1>11. g[k + 1] = IF e[1] = 1 THEN Append(g[k], Described(e)) ELSE g[k]
    <2>1. g = [n \in 0 .. N |-> DescribedStep(machine, g, n)]
      BY <1>1, <1>3 DEF Descriptions
    <2>2. g[k + 1] = DescribedStep(machine, g, k + 1)
      BY <1>4, <2>1
    <2> QED
      BY <1>4, <1>5, <2>2 DEF DescribedStep
  <1>12. Ids(m_ioApics)' = g[k + 1]
    <2>1. CASE e[1] # 1
      BY <1>3, <1>10, <1>11, <2>1 DEF Ids
    <2>2. CASE e[1] = 1
      <3>1. PICK x : x = IOAPIC(machine, cursor)
        OBVIOUS
      <3>2. Len(e) = 12
        BY <1>6, <2>2
      <3>3. /\ madt_byte(machine, cursor + 2) = e[3] /\ madt_byte(machine, cursor + 8) = e[9]
            /\ madt_byte(machine, cursor + 9) = e[10] /\ madt_byte(machine, cursor + 10) = e[11]
            /\ madt_byte(machine, cursor + 11) = e[12]
        BY <1>9, <3>2
      <3>4. /\ e[3] \in 0 .. 255 /\ e[9] \in 0 .. 255 /\ e[10] \in 0 .. 255 /\ e[11] \in 0 .. 255
            /\ e[12] \in 0 .. 255
        <4>1. \A j \in 1 .. Len(e) : e[j] \in 0 .. 255
          BY <1>6, ElementOfSeq
        <4> QED
          BY <3>2, <4>1
      <3>5. x = [id   |-> e[3],
                 base |-> e[9] + 256 * e[10] + 65536 * e[11] + 16777216 * e[12],
                 numRedirectionEntries |-> machine.entries]
        BY <3>1, <3>3 DEF IOAPIC
      <3>6. machine.entries \in Nat
        BY MachineAssumption DEF IsMachine
      <3>7. x \in IoApicRecord /\ [id |-> x.id, base |-> x.base] = Described(e)
        <4>1. PICK b : b = e[9] + 256 * e[10] + 65536 * e[11] + 16777216 * e[12]
          OBVIOUS
        <4>2. b \in Nat /\ e[3] \in Nat
          <5>1. PICK o \in 0 .. 255, q \in 0 .. 255, r \in 0 .. 255, s \in 0 .. 255, t \in 0 .. 255 :
                  o = e[3] /\ q = e[9] /\ r = e[10] /\ s = e[11] /\ t = e[12]
            BY <3>4
          <5>2. q + 256 * r + 65536 * s + 16777216 * t \in Nat
            OBVIOUS
          <5>3. o \in Nat
            OBVIOUS
          <5> QED
            BY <4>1, <5>1, <5>2, <5>3
        <4>3. x = [id |-> e[3], base |-> b, numRedirectionEntries |-> machine.entries]
          BY <3>5, <4>1
        <4>4. Described(e) = [id |-> e[3], base |-> b]
          BY <4>1 DEF Described
        <4> QED
          BY <3>6, <4>2, <4>3, <4>4 DEF IoApicRecord
      <3>8. Ids(Append(m_ioApics, x)) = Append(Ids(m_ioApics), Described(e))
        BY <3>7, IdsAppend
      <3>9. m_ioApics' = Append(m_ioApics, x)
        BY <1>10, <2>2, <3>1
      <3> QED
        BY <1>3, <1>11, <2>2, <3>8, <3>9 DEF Ids
    <2> QED
      BY <2>1, <2>2
  <1>13. Offsets(machine, off)' /\ Descriptions(machine, g)'
    BY <1>3
  <1>14. cursor' = off[k + 1] /\ k + 1 \in 0 .. Len(machine.layout)'
    BY <1>1, <1>4, <1>10
  <1> QED
    BY <1>12, <1>13, <1>14 DEF Met

\* What the walk has met depends on the cursor, the array and the table only.
LEMMA MetKept ==
    ASSUME Met, UNCHANGED <<machine, cursor, m_ioApics>>
    PROVE  Met'
  <1>1. PICK off, g : \E k \in 0 .. Len(machine.layout) :
            /\ Offsets(machine, off) /\ Descriptions(machine, g)
            /\ cursor = off[k] /\ Ids(m_ioApics) = g[k]
    BY DEF Met
  <1>2. PICK k \in 0 .. Len(machine.layout) :
            /\ Offsets(machine, off) /\ Descriptions(machine, g)
            /\ cursor = off[k] /\ Ids(m_ioApics) = g[k]
    BY <1>1
  <1>3. Offsets(machine, off)' /\ Descriptions(machine, g)'
    BY <1>2
  <1>4. Ids(m_ioApics)' = g[k]
    BY <1>2 DEF Ids
  <1>5. cursor' = off[k] /\ k \in 0 .. Len(machine.layout)'
    BY <1>2
  <1> QED
    BY <1>3, <1>4, <1>5 DEF Met

\* Steps that leave the walk alone.
LEMMA WalkKept ==
    ASSUME WalkOK, UNCHANGED <<machine, cursor, m_ioApics>>,
           \/ pc' \in {pc, "panic"}
           \/ pc \in Unwalked /\ pc' \in Unwalked
           \/ pc \in Walked /\ pc' \in Walked
    PROVE  WalkOK'
  <1>1. Ids(m_ioApics)' = Ids(m_ioApics)
    BY DEF Ids
  <1>2. DescribedIOAPICs(machine)' = DescribedIOAPICs(machine)
    BY DEF DescribedIOAPICs
  <1>3. Met => Met'
    BY MetKept
  <1>4. WellFormed(machine)' = WellFormed(machine)
    BY DEF WellFormed
  <1>5. "panic" \notin Unwalked \cup Walked \cup {"walk_madt"} /\ "walk_madt" \notin Unwalked \cup Walked
    BY DEF Unwalked, Walked, BeforeSti, Enabling
  <1>6. Unwalked \cap Walked = {}
    BY DEF Unwalked, Walked, BeforeSti, Enabling
  <1> QED
    BY <1>1, <1>2, <1>3, <1>4, <1>5, <1>6 DEF WalkOK

\* Every step keeps what the walk has met.
LEMMA NextWalkOK == Inv /\ WalkOK /\ [Next]_vars => WalkOK'
  <1> SUFFICES ASSUME Inv, WalkOK, [Next]_vars PROVE WalkOK'
    OBVIOUS
  <1>0. machine \in Machines /\ cursor \in Nat /\ m_ioApics \in Seq(IoApicRecord)
    BY DEF Inv, TypeOK, StepsOK, IoApicRecord
  <1>1. CASE gdt_init \/ idt_init \/ enableAPIC \/ disablePIC \/ remapPIC \/ restore_masks \/ sti
             \/ software_enable \/ task_priority \/ request_command_byte \/ read_command_byte
             \/ write_command_byte
    <2>1. UNCHANGED <<machine, cursor, m_ioApics>>
      BY <1>1 DEF gdt_init, idt_init, enableAPIC, disablePIC, remapPIC, restore_masks, sti,
                  software_enable, task_priority, request_command_byte, read_command_byte,
                  write_command_byte, coreVars, routeVars
    <2>2. pc \in Unwalked /\ pc' \in Unwalked \cup {"panic"}
      BY <1>1 DEF gdt_init, idt_init, enableAPIC, disablePIC, remapPIC, restore_masks, sti,
                  software_enable, task_priority, request_command_byte, read_command_byte,
                  write_command_byte, at, goto, Unwalked, BeforeSti, Enabling
    <2> QED
      BY <2>1, <2>2, WalkKept
  <1>2. CASE find_madt
    <2>1. UNCHANGED <<machine, cursor, m_ioApics>> /\ pc = "find_madt" /\ pc' \in {"walk_madt", "panic"}
      BY <1>2 DEF find_madt, at, goto, coreVars, routeVars
    <2>2. CASE pc' = "panic"
      BY <2>1, <2>2, WalkKept
    <2>3. CASE pc' = "walk_madt"
      <3>1. WellFormed(machine)' => WellFormed(machine)
        BY <2>1 DEF WellFormed
      <3>2. ASSUME WellFormed(machine) PROVE Met'
        <4>1. cursor = 0 /\ m_ioApics = <<>>
          BY <2>1, <3>2 DEF WalkOK, Unwalked
        <4>2. Met
          BY <1>0, <4>1, WalkStarts
        <4> QED
          BY <2>1, <4>2, MetKept
      <3>3. pc' \notin Unwalked \cup Walked
        BY <2>3 DEF Unwalked, Walked, BeforeSti, Enabling
      <3> QED
        BY <3>1, <3>2, <3>3 DEF WalkOK
    <2> QED
      BY <2>1, <2>2, <2>3
  <1>3. CASE walk_madt
    <2>1. /\ pc = "walk_madt" /\ cursor < madt_end(machine) /\ cursor' = next_entry
          /\ UNCHANGED machine
          /\ \/ pc' = "panic"
             \/ /\ pc' = pc
                /\ m_ioApics' = IF type = 1 THEN Append(m_ioApics, IOAPIC(machine, cursor)) ELSE m_ioApics
      BY <1>3 DEF walk_madt, at, goto, coreVars
    <2>2. "panic" \notin Unwalked \cup Walked /\ "walk_madt" \notin Unwalked \cup Walked
      BY DEF Unwalked, Walked, BeforeSti, Enabling
    <2>3. CASE pc' = "panic"
      BY <2>2, <2>3 DEF WalkOK
    <2>4. CASE pc' # "panic"
      <3>1. WellFormed(machine)' => WellFormed(machine)
        BY <2>1 DEF WellFormed
      <3>2. ASSUME WellFormed(machine) PROVE Met'
        <4>1. Met
          BY <2>1, <3>2 DEF WalkOK
        <4>2. m_ioApics' = IF type = 1 THEN Append(m_ioApics, IOAPIC(machine, cursor)) ELSE m_ioApics
          BY <2>1, <2>4
        <4> QED
          BY <1>0, <2>1, <3>2, <4>1, <4>2, WalkSteps
      <3> QED
        BY <2>1, <2>2, <2>4, <3>1, <3>2 DEF WalkOK
    <2> QED
      BY <2>3, <2>4
  <1>4. CASE end_madt
    <2>1. /\ pc = "walk_madt" /\ cursor >= madt_end(machine) /\ pc' = "redirect_high"
          /\ UNCHANGED <<machine, cursor, m_ioApics>>
      BY <1>4 DEF end_madt, at, goto, coreVars, routeVars
    <2>2. WellFormed(machine)' => WellFormed(machine)
      BY <2>1 DEF WellFormed
    <2>3. ASSUME WellFormed(machine) PROVE Ids(m_ioApics) = DescribedIOAPICs(machine)
      <3>1. Met
        BY <2>1, <2>3 DEF WalkOK
      <3> QED
        BY <1>0, <2>1, <2>3, <3>1, WalkEnds
    <2>4. Ids(m_ioApics)' = Ids(m_ioApics) /\ DescribedIOAPICs(machine)' = DescribedIOAPICs(machine)
      BY <2>1 DEF Ids, DescribedIOAPICs
    <2>5. pc' \notin Unwalked \cup {"walk_madt"}
      BY <2>1 DEF Unwalked, BeforeSti, Enabling
    <2> QED
      BY <2>2, <2>3, <2>4, <2>5 DEF WalkOK
  <1>5. CASE redirect_high \/ redirect_low \/ test_interprocessor_interrupts \/ test_keyboard
             \/ test_keyboard_read
    <2>1. UNCHANGED <<machine, cursor, m_ioApics>>
      BY <1>5 DEF redirect_high, redirect_low, test_interprocessor_interrupts, test_keyboard,
                  test_keyboard_read, coreVars, routeVars
    <2>2. pc \in Walked /\ pc' \in Walked
      BY <1>5 DEF redirect_high, redirect_low, test_interprocessor_interrupts, test_keyboard,
                  test_keyboard_read, at, goto, Walked
    <2> QED
      BY <2>1, <2>2, WalkKept
  <1>6. CASE Deliver \/ press \/ spurious_pic \/ UNCHANGED vars
    <2>1. UNCHANGED <<machine, cursor, m_ioApics>> /\ pc' \in {pc, "panic"}
      BY <1>6 DEF Deliver, deliver, press, spurious_pic, vars, coreVars, routeVars
    <2> QED
      BY <2>1, WalkKept
  <1> QED
    BY <1>1, <1>2, <1>3, <1>4, <1>5, <1>6 DEF Next, Boot, kernel_hang, idle

-----------------------------------------------------------------------------
(* Theorems. *)

\* Every variable of the boot keeps its type: no vector but those of isr_keyboard
\* and isr_interprocessor_interrupt is ever requested, and m_ioApics never
\* overflows, whatever the MADT lists.
THEOREM InterruptsTypeOK == Spec => []TypeOK
  <1>1. Inv => TypeOK
    BY DEF Inv
  <1> QED
    BY <1>1, InitInv, NextInv, PTL DEF Spec

\* kernel_init enables interrupts only when the kernel can take them, and
\* redirectIrq unmasks the keyboard's entry last, on every machine.
THEOREM InterruptsReadyWhenEnabled == Spec => []ReadyWhenEnabled
  BY InitInv, NextInv, InvReady, PTL DEF Spec

\* The walk over the bytes of a well-formed MADT, whatever its entries and the
\* memory behind it, collects the I/O APICs the entries describe, in order and no
\* others.
THEOREM InterruptsIOAPICsAsDescribed == Spec => []IOAPICsAsDescribed
  <1>1. Init => WalkOK
    BY DEF Init, WalkOK, Unwalked, Walked
  <1>2. WalkOK => IOAPICsAsDescribed
    BY DEF WalkOK, IOAPICsAsDescribed, Ids
  <1> QED
    BY <1>1, <1>2, InitInv, NextInv, NextWalkOK, PTL DEF Spec
=============================================================================
