------------------------- MODULE VirtualMemoryProofs -------------------------
(***************************************************************************)
(* Proofs about demand paging: the range of pages the fault handler maps,  *)
(* how deep its faults nest, and whose frames are whose; for every size of *)
(* a page and of the address space, layout of the heap and number of       *)
(* frames.                                                                 *)
(***************************************************************************)
EXTENDS VirtualMemory, SequenceTheorems, TLAPS

(* Multiples of the size of a page. *)

Multiple(x) == \E k \in Nat : x = k * pageSize

\* The multiples are the numbers without remainder.
LEMMA MultipleMod ==
    ASSUME NEW x \in Nat
    PROVE  x % pageSize = 0 <=> Multiple(x)
  <1> USE AddressAssumption
  <1>1. ASSUME x % pageSize = 0
        PROVE  Multiple(x)
    <2>1. x \div pageSize \in Nat /\ x = (x \div pageSize) * pageSize + (x % pageSize)
      BY SMT
    <2> QED
      BY <1>1, <2>1 DEF Multiple
  <1>2. ASSUME NEW k \in Nat, x = k * pageSize
        PROVE  x % pageSize = 0
    <2> DEFINE j == x \div pageSize
               r == x % pageSize
    <2>1. j \in Nat /\ r \in 0 .. pageSize - 1 /\ x = j * pageSize + r
      BY SMT
    <2> HIDE DEF j, r
    <2>2. (k - j) * pageSize = k * pageSize - j * pageSize
      BY <2>1, SMT
    <2>3. (k - j) * pageSize = r
      BY <1>2, <2>1, <2>2, SMT
    <2>4. CASE k - j >= 1
      <3>1. (k - j) * pageSize >= pageSize
        BY <2>1, <2>4, SMT
      <3> QED
        BY <2>1, <2>3, <3>1, SMT
    <2>5. CASE k - j <= -1
      <3>1. (k - j) * pageSize <= -pageSize
        BY <2>1, <2>5, SMT
      <3> QED
        BY <2>1, <2>3, <3>1, SMT
    <2>6. CASE k = j
      BY <1>2, <2>1, <2>6, SMT DEF r
    <2> QED
      BY <2>1, <2>4, <2>5, <2>6, SMT
  <1> QED
    BY <1>1, <1>2 DEF Multiple

\* The next multiple is a page further.
LEMMA MultipleNext ==
    ASSUME NEW x, NEW y, Multiple(x), Multiple(y)
    PROVE  /\ x \in Nat /\ y \in Nat
           /\ Multiple(x + pageSize)
           /\ x < y => x + pageSize <= y
  <1> USE AddressAssumption
  <1>1. PICK j \in Nat : x = j * pageSize
    BY DEF Multiple
  <1>2. PICK k \in Nat : y = k * pageSize
    BY DEF Multiple
  <1>3. x \in Nat /\ y \in Nat
    BY <1>1, <1>2, SMT
  <1>4. (j + 1) * pageSize = x + pageSize
    BY <1>1, SMT
  <1>5. ASSUME x < y PROVE x + pageSize <= y
    <2>1. CASE k <= j
      <3>1. k * pageSize <= j * pageSize
        BY <2>1, SMT
      <3> QED
        BY <1>1, <1>2, <1>5, <3>1, SMT
    <2>2. CASE k >= j + 1
      <3>1. (j + 1) * pageSize <= k * pageSize
        BY <2>2, SMT
      <3> QED
        BY <1>2, <1>4, <3>1
    <2> QED
      BY <2>1, <2>2
  <1>6. Multiple(x + pageSize)
    BY <1>4 DEF Multiple
  <1> QED
    BY <1>3, <1>5, <1>6

\* page_floor rounds down to a page.
LEMMA FloorProperties ==
    ASSUME NEW a \in Nat
    PROVE  /\ page_floor(a) \in Nat /\ Multiple(page_floor(a))
           /\ page_floor(a) <= a /\ a < page_floor(a) + pageSize
           /\ page_floor(a) = a <=> a % pageSize = 0
  <1> USE AddressAssumption
  <1> DEFINE k == a \div pageSize
             r == a % pageSize
  <1>1. k \in Nat /\ r \in 0 .. pageSize - 1 /\ a = k * pageSize + r
    BY SMT
  <1>2. page_floor(a) = a - r
    BY DEF page_floor
  <1>3. k * pageSize \in Nat
    BY <1>1, SMT
  <1> HIDE DEF k, r
  <1>4. page_floor(a) = k * pageSize
    BY <1>1, <1>2, <1>3
  <1>5. Multiple(page_floor(a))
    BY <1>1, <1>4 DEF Multiple
  <1>6. a - r = a <=> r = 0
    BY <1>1
  <1> QED
    BY <1>1, <1>2, <1>3, <1>4, <1>5, <1>6 DEF r

\* page_floor is the only page an address is in.
LEMMA FloorUnique ==
    ASSUME NEW a \in Nat, NEW p, Multiple(p), p <= a, a < p + pageSize
    PROVE  page_floor(a) = p
  <1> USE AddressAssumption
  <1>1. /\ page_floor(a) \in Nat /\ Multiple(page_floor(a))
        /\ page_floor(a) <= a /\ a < page_floor(a) + pageSize /\ p \in Nat
    BY FloorProperties, MultipleNext
  <1>2. CASE page_floor(a) < p
    BY <1>1, <1>2, MultipleNext
  <1>3. CASE p < page_floor(a)
    BY <1>1, <1>3, MultipleNext
  <1> QED
    BY <1>1, <1>2, <1>3

\* The last page of the address space, and the bases of the pages.
LEMMA LastPage ==
    /\ Multiple(AddressMax + 1)
    /\ page_floor(AddressMax) = AddressMax + 1 - pageSize
    /\ Multiple(page_floor(AddressMax)) /\ page_floor(AddressMax) \in Nat
    /\ PageBases = {p \in 0 .. page_floor(AddressMax) : Multiple(p)}
  <1> USE AddressAssumption
  <1>1. Multiple(AddressMax + 1)
    BY MultipleMod
  <1>2. /\ page_floor(AddressMax) \in Nat /\ Multiple(page_floor(AddressMax))
        /\ page_floor(AddressMax) <= AddressMax /\ AddressMax < page_floor(AddressMax) + pageSize
    BY FloorProperties
  <1>3. page_floor(AddressMax) = AddressMax + 1 - pageSize
    <2>1. page_floor(AddressMax) + pageSize <= AddressMax + 1
      BY <1>1, <1>2, MultipleNext
    <2> QED
      BY <1>2, <2>1
  <1>4. ASSUME NEW p \in 0 .. AddressMax, Multiple(p)
        PROVE  p <= page_floor(AddressMax)
    BY <1>2, <1>3, <1>4, <1>1, MultipleNext
  <1>5. \A p \in 0 .. AddressMax : p % pageSize = 0 <=> Multiple(p)
    BY MultipleMod
  <1> QED
    BY <1>1, <1>2, <1>3, <1>4, <1>5 DEF PageBases, Addresses

\* Below the last page, the page of an address and the one above it exist.
LEMMA PageAbove ==
    ASSUME NEW a \in 0 .. page_floor(AddressMax) - 1
    PROVE  /\ a \in Addresses /\ a \in Nat
           /\ page_floor(a) \in PageBases /\ page_floor(a) + pageSize \in PageBases
           /\ Multiple(page_floor(a)) /\ Multiple(page_floor(a) + pageSize)
           /\ page_floor(a) + pageSize <= page_floor(AddressMax)
  <1> USE AddressAssumption
  <1>1. a \in Nat /\ a \in Addresses
    BY LastPage DEF Addresses
  <1>2. /\ page_floor(a) \in Nat /\ Multiple(page_floor(a))
        /\ page_floor(a) <= a /\ a < page_floor(a) + pageSize
    BY <1>1, FloorProperties
  <1>3. /\ page_floor(a) + pageSize <= page_floor(AddressMax)
        /\ Multiple(page_floor(a) + pageSize)
    BY <1>1, <1>2, LastPage, MultipleNext
  <1> QED
    BY <1>1, <1>2, <1>3, LastPage

\* What get_page_range returns for a page-sized access that does not fault in
\* the last page: the page of the address, and if the address is not aligned
\* the page above it too.
LEMMA RangeOfAccess ==
    ASSUME NEW a \in 0 .. page_floor(AddressMax) - 1
    PROVE  LET range == get_page_range(a, pageSize)
           IN  /\ range.first_page = page_floor(a)
               /\ range.last_page \in PageBases
               /\ \/ range.last_page = page_floor(a) + pageSize
                  \/ /\ a % pageSize # 0
                     /\ range.last_page = page_floor(a) + pageSize + pageSize
  <1> USE AddressAssumption
  <1> DEFINE L == page_floor(AddressMax)
             f == page_floor(a)
  <1>1. /\ a \in Nat /\ f \in Nat /\ Multiple(f) /\ Multiple(f + pageSize) /\ f + pageSize <= L
        /\ f <= a /\ a < f + pageSize /\ f + pageSize \in PageBases
        /\ (f = a <=> a % pageSize = 0)
    BY PageAbove, FloorProperties
  <1>2. L \in Nat /\ Multiple(L) /\ L = AddressMax + 1 - pageSize
    BY LastPage
  <1>3. Wrap(L - pageSize) = L - pageSize
    <2>1. L - pageSize \in Nat /\ L - pageSize < AddressMax + 1
      BY <1>1, <1>2
    <2>2. ASSUME NEW x \in Nat, NEW m \in Nat, x < m PROVE x % m = x
      BY <2>2, SMT
    <2> QED
      BY <2>1, <2>2 DEF Wrap
  <1>4. /\ get_page_range(a, pageSize).first_page = f
        /\ get_page_range(a, pageSize).last_page =
              IF L - pageSize < a THEN L ELSE page_ceil(a + pageSize)
    BY <1>3 DEF get_page_range
  <1> HIDE DEF L, f
  <1>5. CASE L - pageSize < a
    <2>1. L = f + pageSize
      <3>1. f + pageSize < L => f + pageSize + pageSize <= L
        BY <1>1, <1>2, MultipleNext
      <3> QED
        BY <1>1, <1>2, <1>5, <3>1
    <2> QED
      BY <1>1, <1>4, <1>5, <2>1 DEF f
  <1>6. CASE ~(L - pageSize < a) /\ a % pageSize = 0
    <2>1. (a + pageSize) % pageSize = 0
      BY <1>1, <1>6, MultipleMod
    <2>2. page_ceil(a + pageSize) = a + pageSize
      BY <2>1 DEF page_ceil
    <2> QED
      BY <1>1, <1>4, <1>6, <2>2 DEF f
  <1>7. CASE ~(L - pageSize < a) /\ a % pageSize # 0
    <2>1. f < a /\ f + pageSize < L
      BY <1>1, <1>2, <1>7
    <2>2. f + pageSize + pageSize <= L /\ Multiple(f + pageSize + pageSize)
      BY <1>1, <1>2, <2>1, MultipleNext
    <2>3. (a + pageSize) % pageSize # 0
      <3> SUFFICES ASSUME (a + pageSize) % pageSize = 0 PROVE FALSE
        OBVIOUS
      <3>1. Multiple(a + pageSize) /\ a + pageSize > f + pageSize
        BY <1>1, <2>1, MultipleMod
      <3>2. f + pageSize + pageSize <= a + pageSize
        BY <1>1, <3>1, MultipleNext
      <3> QED
        BY <1>1, <3>2
    <2>4. a + pageSize # L
      BY <1>2, <2>3, MultipleMod
    <2>5. ~(AddressMax - pageSize < a + pageSize)
      BY <1>1, <1>2, <1>7, <2>4
    <2>6. page_ceil(a + pageSize) = page_floor(a + pageSize + pageSize)
      BY <2>3, <2>5 DEF page_ceil
    <2>7. page_floor(a + pageSize + pageSize) = f + pageSize + pageSize
      BY <1>1, <2>2, FloorUnique
    <2>8. f + pageSize + pageSize \in PageBases
      BY <1>1, <2>2, LastPage DEF L
    <2> QED
      BY <1>4, <1>7, <2>6, <2>7, <2>8 DEF f
  <1> QED
    BY <1>5, <1>6, <1>7

-----------------------------------------------------------------------------
(* The inductive invariant. *)

\* An access under way is to the heap.
AccessOK ==
    \/ access = NoAccess
    \/ /\ access.op \in {"touch", "vmalloc", "vfree"}
       /\ access.address \in HeapAddresses
       /\ access.op \in {"vmalloc", "vfree"} => access.block \in Blocks

\* A handler maps the page that faulted and at most the one above, and has
\* mapped the first as soon as it is past it.
HandlerOK(h) ==
    /\ h.cr2 \in 0 .. page_floor(AddressMax) - 1
    /\ \/ h.last_page = page_floor(h.cr2) + pageSize
       \/ /\ h.cr2 % pageSize # 0
          /\ h.last_page = page_floor(h.cr2) + pageSize + pageSize
    /\ h.page \in {page_floor(h.cr2), page_floor(h.cr2) + pageSize, h.last_page}
    /\ h.page = page_floor(h.cr2) <=> ~Mapped(h.cr2)

\* The page above a fault inside a page has no frame, unless overlaid says so.
AboveFree(h) ==
    h.cr2 % pageSize # 0 /\ h.page # h.last_page =>
        \/ page_floor(h.cr2) + pageSize \in overlaid
        \/ tree[page_floor(h.cr2) + pageSize] = NoFrame

\* The activation that serves the access, below the one of its end-of-interrupt.
outermost == handlers[Len(handlers)]

Nesting ==
    /\ Len(handlers) <= 2
    /\ \A i \in 1 .. Len(handlers) : HandlerOK(handlers[i])
    /\ handlers # <<>> =>
          /\ access.op # "none" /\ outermost.cr2 = access.address
          /\ AboveFree(outermost)
    /\ Len(handlers) = 2 =>
          /\ baseAddress = NullAddress /\ handlers[1].cr2 = eoiRegister
          /\ handlers[2].page = handlers[2].last_page
    /\ baseAddress # NullAddress => Mapped(baseAddress + eoiRegister)

\* Until the first vfree the free frames are some of those the allocator began
\* with; a page has one of them only in the maps made at the boot, and a page
\* of the heap has frames that were once free and that no other page has.
Exclusive ==
    ~vfreed =>
        /\ IsInjective(free_stack)
        /\ Range(free_stack) \subseteq Range(FreeFrames)
        /\ \A q \in PageBases : \A f \in FramesOf(q) :
              f \in Range(free_stack) => f = InitialTree[q]
        /\ \A p \in HeapPages : \A f \in FramesOf(p) :
              /\ f \in Range(FreeFrames)
              /\ \A q \in PageBases \ {p} : f \in FramesOf(q) => f = InitialTree[q]

\* A page of the heap that no other fault maps too is mapped once: nothing of
\* it is left in the processor, and an access has used its only frame.
Kept ==
    \A p \in HeapPages \ overlaid :
        tlb[p] = NoFrame /\ (reached[p] # NoFrame => tree[p] = reached[p])

\* Nobody else has written to that frame since.
Written ==
    ~vfreed => \A p \in HeapPages \ overlaid : reached[p] # NoFrame => writer[reached[p]] = p

IInv == TypeOK /\ AccessOK /\ Nesting /\ Exclusive /\ Kept /\ Written

-----------------------------------------------------------------------------
(* Frames and pages. *)

\* The frames are numbers, NoFrame is none of them, and the heap's pages are
\* not used for anything else.
LEMMA Layout ==
    /\ NoFrame \notin FrameNumbers /\ 0 \in FrameNumbers /\ apicFrame \in FrameNumbers
    /\ Range(FreeFrames) \subseteq FrameNumbers /\ FreeFrames \in Seq(FrameNumbers)
    /\ InitialTree \in [PageBases -> FrameNumbers \cup {NoFrame}]
  <1>1. Range(FreeFrames) \subseteq Nat
    BY LayoutAssumption, LenProperties DEF Range
  <1>2. \A p \in PageBases : InitialTree[p] # NoFrame => InitialTree[p] \in Nat
    BY LayoutAssumption
  <1>3. NoFrame \notin Nat
    BY DEF NoFrame
  <1>4. FreeFrames \in Seq(FrameNumbers)
    <2>1. \A i \in 1 .. Len(FreeFrames) : FreeFrames[i] \in FrameNumbers
      BY LayoutAssumption, LenProperties DEF FrameNumbers, Range
    <2> QED
      BY <2>1, LayoutAssumption, ElementOfSeq, LenProperties, SeqDef
  <1>5. NoFrame \notin FrameNumbers
    BY <1>1, <1>2, <1>3, LayoutAssumption DEF FrameNumbers
  <1>6. InitialTree \in [PageBases -> FrameNumbers \cup {NoFrame}]
    <2>1. \A p \in PageBases : InitialTree[p] \in FrameNumbers \cup {NoFrame}
      BY DEF FrameNumbers
    <2> QED
      BY <2>1, LayoutAssumption
  <1> QED
    BY <1>4, <1>5, <1>6 DEF FrameNumbers

\* Every address is in a page.
LEMMA FloorInPages ==
    ASSUME NEW a \in Addresses
    PROVE  page_floor(a) \in PageBases
  <1> USE AddressAssumption
  <1>1. a \in Nat /\ a <= AddressMax
    BY DEF Addresses
  <1>2. page_floor(a) \in Nat /\ Multiple(page_floor(a)) /\ page_floor(a) <= a
    BY <1>1, FloorProperties
  <1>3. page_floor(a) % pageSize = 0
    BY <1>2, MultipleMod
  <1> QED
    BY <1>1, <1>2, <1>3 DEF PageBases, Addresses

\* Where the heap, the blocks, the APIC and the end-of-interrupt lie.
LEMMA HeapLayout ==
    /\ \A a \in HeapAddresses : /\ a \in 0 .. page_floor(AddressMax) - 1 /\ a \in Addresses
                                /\ page_floor(a) \in HeapPages
    /\ HeapPages \subseteq PageBases
    /\ \A p \in HeapPages : /\ InitialTree[p] = NoFrame /\ p \notin TestPages
                            /\ p # page_floor(apicAddress) /\ p \notin EOIPages
    /\ TestPages \subseteq PageBases
    /\ page_floor(apicAddress) \in PageBases
    /\ eoiRegister \in 0 .. page_floor(AddressMax) - 1 /\ eoiRegister \in Addresses
    /\ Blocks \subseteq HeapAddresses /\ \A b \in Blocks : b - 1 \in HeapAddresses
    /\ apicAddress \in Addresses /\ apicAddress + eoiRegister \in Addresses
    /\ page_floor(apicAddress + eoiRegister) = page_floor(apicAddress)
    /\ apicFrame \notin Range(FreeFrames)
    /\ NullAddress \in Addresses
    /\ write_vpage \in PageBases
    /\ \A p \in HeapPages \cup {page_floor(eoiRegister), page_floor(apicAddress), write_vpage} :
          InitialTree[p] \notin Range(FreeFrames)
  <1>1. \A a \in 0 .. page_floor(AddressMax) - 1 : a \in Addresses
    BY PageAbove
  <1>2. \A a \in HeapAddresses : /\ a \in 0 .. page_floor(AddressMax) - 1 /\ a \in Addresses
                                 /\ page_floor(a) \in HeapPages
    BY <1>1, LayoutAssumption DEF HeapPages
  <1>3. HeapPages \subseteq PageBases
    BY <1>2, FloorInPages DEF HeapPages
  <1>4. NullAddress \in Addresses
    BY AddressAssumption DEF NullAddress, Addresses
  <1>5. NoFrame \notin Range(FreeFrames)
    BY Layout
  <1>6. TestPages \subseteq PageBases /\ write_vpage \in TestPages
        /\ \A p \in TestPages : InitialTree[p] # NoFrame
    BY LayoutAssumption DEF TestPages
  <1>7. \A p \in HeapPages : InitialTree[p] = NoFrame
    BY LayoutAssumption
  <1> QED
    BY <1>1, <1>2, <1>3, <1>4, <1>5, <1>6, <1>7, FloorInPages, LayoutAssumption

\* Taking frames off the stack: the first is used and never comes back.
LEMMA PopFrames ==
    ASSUME NEW S, NEW s \in Seq(S), NEW k \in Nat, k + 1 <= Len(s)
    PROVE  LET t == SubSeq(s, k + 2, Len(s))
           IN  /\ t \in Seq(S) /\ Len(t) <= Len(s) /\ s[1] \in S /\ s[1] \in Range(s)
               /\ Range(t) \subseteq Range(s)
               /\ IsInjective(s) => IsInjective(t) /\ s[1] \notin Range(t)
  <1> DEFINE t == SubSeq(s, k + 2, Len(s))
             n == Len(s) - (k + 2) + 1
  <1>1. Len(s) \in Nat /\ DOMAIN s = 1 .. Len(s) /\ \A i \in 1 .. Len(s) : s[i] \in S
    BY LenProperties, ElementOfSeq
  <1>2. /\ t \in Seq(S) /\ Len(t) = IF k + 2 <= Len(s) THEN n ELSE 0
        /\ \A i \in 1 .. n : t[i] = s[k + 2 + i - 1]
    BY <1>1, SubSeqProperties
  <1>3. n \in Nat /\ n = Len(s) - k - 1
    BY <1>1
  <1> HIDE DEF t, n
  <1>4. /\ Len(t) = n /\ DOMAIN t = 1 .. n
        /\ \A i \in 1 .. n : k + i + 1 \in 2 .. Len(s) /\ t[i] = s[k + i + 1]
    <2>1. Len(t) = n
      BY <1>1, <1>2, <1>3
    <2>2. DOMAIN t = 1 .. n
      BY <1>2, <2>1, LenProperties
    <2>3. ASSUME NEW i \in 1 .. n
          PROVE  k + i + 1 \in 2 .. Len(s) /\ t[i] = s[k + i + 1]
      <3>1. k + 2 + i - 1 = k + i + 1
        BY <1>3
      <3>2. k + i + 1 \in 2 .. Len(s)
        BY <1>1, <1>3
      <3> QED
        BY <1>2, <3>1, <3>2
    <2> QED
      BY <2>1, <2>2, <2>3
  <1>5. Len(t) <= Len(s) /\ s[1] \in S /\ s[1] \in Range(s)
    BY <1>1, <1>3, <1>4 DEF Range
  <1>6. Range(t) \subseteq Range(s)
    BY <1>1, <1>3, <1>4 DEF Range
  <1>7. ASSUME IsInjective(s)
        PROVE  IsInjective(t) /\ s[1] \notin Range(t)
    <2>1. \A i, j \in 1 .. Len(s) : s[i] = s[j] => i = j
      BY <1>1, <1>7 DEF IsInjective
    <2>2. IsInjective(t)
      <3> SUFFICES ASSUME NEW i \in 1 .. n, NEW j \in 1 .. n, t[i] = t[j]
                   PROVE  i = j
        BY <1>4 DEF IsInjective
      <3>1. k + i + 1 \in 1 .. Len(s) /\ k + j + 1 \in 1 .. Len(s)
        BY <1>1, <1>3, <1>4
      <3>2. k + i + 1 = k + j + 1
        BY <1>4, <2>1, <3>1
      <3> QED
        BY <1>3, <3>2
    <2>3. s[1] \notin Range(t)
      <3> SUFFICES ASSUME NEW i \in 1 .. n, s[1] = t[i]
                   PROVE  FALSE
        BY <1>4 DEF Range
      <3>1. k + i + 1 \in 2 .. Len(s) /\ s[1] = s[k + i + 1]
        BY <1>4
      <3>2. 1 \in 1 .. Len(s) /\ k + i + 1 \in 1 .. Len(s)
        BY <1>1, <3>1
      <3> QED
        BY <2>1, <3>1, <3>2
    <2> QED
      BY <2>2, <2>3
  <1> QED
    BY <1>2, <1>5, <1>6, <1>7 DEF t

\* map_page_to_frame: what the page tree and the processor have afterwards.
LEMMA MapPages ==
    ASSUME TypeOK, NEW pages \in SUBSET PageBases, NEW frame \in FrameNumbers,
           map_pages(pages, frame)
    PROVE  /\ tree' \in [PageBases -> FrameNumbers \cup {NoFrame}]
           /\ tlb' \in [PageBases -> FrameNumbers \cup {NoFrame}]
           /\ \A q \in pages : tree'[q] = frame /\ tlb'[q] \in {translation(q), NoFrame}
           /\ \A q \in PageBases \ pages : tree'[q] = tree[q] /\ tlb'[q] = tlb[q]
           /\ \A q \in PageBases : FramesOf(q)' \subseteq FramesOf(q) \cup {frame}
           /\ \A q \in PageBases \ pages : FramesOf(q)' = FramesOf(q)
           /\ \A a \in Addresses : Mapped(a) => Mapped(a)'
  <1>1. tree' = [p \in PageBases |-> IF p \in pages THEN frame ELSE tree[p]]
    BY DEF map_pages
  <1>2. PICK cached \in SUBSET pages :
           tlb' = [p \in PageBases |->
                      IF p \notin pages THEN tlb[p]
                      ELSE IF p \in cached /\ translation(p) # frame THEN translation(p)
                      ELSE NoFrame]
    BY DEF map_pages
  <1>3. \A q \in PageBases : translation(q) \in FrameNumbers \cup {NoFrame}
    BY DEF TypeOK, translation
  <1>4. tree' \in [PageBases -> FrameNumbers \cup {NoFrame}]
    BY <1>1 DEF TypeOK
  <1>5. tlb' \in [PageBases -> FrameNumbers \cup {NoFrame}]
    BY <1>2, <1>3 DEF TypeOK
  <1>6. \A q \in pages : tree'[q] = frame /\ tlb'[q] \in {translation(q), NoFrame}
    BY <1>1, <1>2
  <1>7. \A q \in PageBases \ pages : tree'[q] = tree[q] /\ tlb'[q] = tlb[q]
    BY <1>1, <1>2
  <1>8. \A q \in PageBases \ pages : FramesOf(q)' = FramesOf(q)
    BY <1>7 DEF FramesOf
  <1>9. \A q \in PageBases : FramesOf(q)' \subseteq FramesOf(q) \cup {frame}
    BY <1>6, <1>8 DEF FramesOf, translation
  <1>10. \A a \in Addresses : Mapped(a) => Mapped(a)'
    <2>1. frame # NoFrame
      BY Layout
    <2> QED
      BY <1>6, <1>7, <2>1, FloorInPages DEF Mapped
  <1> QED
    BY <1>4, <1>5, <1>6, <1>7, <1>8, <1>9, <1>10

-----------------------------------------------------------------------------
(* The frames stay apart. *)

\* Mapping pages to a frame that is taken off the free stack, or was never on
\* it, keeps the heap's frames apart: at most one page of the heap is mapped,
\* and only to a free frame.
LEMMA ExclusiveMap ==
    ASSUME TypeOK, Exclusive, NEW pages \in SUBSET PageBases, NEW frame \in FrameNumbers,
           map_pages(pages, frame), UNCHANGED vfreed,
           ~vfreed => /\ IsInjective(free_stack')
                      /\ Range(free_stack') \subseteq Range(free_stack) \ {frame}
                      /\ \/ frame \in Range(free_stack)
                         \/ frame \notin Range(FreeFrames) /\ pages \cap HeapPages = {},
           \A p \in pages \cap HeapPages : pages = {p}
    PROVE  Exclusive'
  <1> SUFFICES ASSUME ~vfreed
               PROVE  /\ IsInjective(free_stack')
                      /\ Range(free_stack') \subseteq Range(FreeFrames)
                      /\ \A q \in PageBases : \A f \in FramesOf(q)' :
                            f \in Range(free_stack') => f = InitialTree[q]
                      /\ \A p \in HeapPages : \A f \in FramesOf(p)' :
                            /\ f \in Range(FreeFrames)
                            /\ \A q \in PageBases \ {p} :
                                  f \in FramesOf(q)' => f = InitialTree[q]
    BY DEF Exclusive
  <1>1. /\ \A q \in PageBases : FramesOf(q)' \subseteq FramesOf(q) \cup {frame}
        /\ \A q \in PageBases \ pages : FramesOf(q)' = FramesOf(q)
    BY MapPages
  <1>2. /\ Range(free_stack) \subseteq Range(FreeFrames)
        /\ \A q \in PageBases : \A f \in FramesOf(q) :
              f \in Range(free_stack) => f = InitialTree[q]
        /\ \A p \in HeapPages : \A f \in FramesOf(p) :
              /\ f \in Range(FreeFrames)
              /\ \A q \in PageBases \ {p} : f \in FramesOf(q) => f = InitialTree[q]
    BY DEF Exclusive
  <1>3. \A p \in HeapPages \ pages : frame \notin FramesOf(p)
    <2> SUFFICES ASSUME NEW p \in HeapPages, frame \in FramesOf(p), p \notin pages
                 PROVE  FALSE
      OBVIOUS
    <2>1. InitialTree[p] = NoFrame /\ frame # NoFrame /\ p \in PageBases
      BY HeapLayout, Layout
    <2> QED
      BY <1>2, <2>1
  <1>4. ASSUME NEW q \in PageBases, NEW f \in FramesOf(q)', f \in Range(free_stack')
        PROVE  f = InitialTree[q]
    <2>1. f # frame /\ f \in Range(free_stack)
      BY <1>4
    <2>2. f \in FramesOf(q)
      BY <1>1, <1>4, <2>1
    <2> QED
      BY <1>2, <2>1, <2>2
  <1>5. ASSUME NEW p \in HeapPages, NEW f \in FramesOf(p)'
        PROVE  /\ f \in Range(FreeFrames)
               /\ \A q \in PageBases \ {p} : f \in FramesOf(q)' => f = InitialTree[q]
    <2>0. p \in PageBases
      BY HeapLayout
    <2>1. CASE p \notin pages
      <3>1. f \in FramesOf(p) /\ f # frame
        BY <1>1, <1>3, <1>5, <2>0, <2>1
      <3>2. ASSUME NEW q \in PageBases \ {p}, f \in FramesOf(q)'
            PROVE  f \in FramesOf(q)
        BY <1>1, <3>1, <3>2
      <3> QED
        BY <1>2, <3>1, <3>2
    <2>2. CASE p \in pages
      <3>1. pages = {p} /\ frame \in Range(free_stack)
        BY <2>2
      <3>2. ASSUME NEW q \in PageBases \ {p}
            PROVE  FramesOf(q)' = FramesOf(q)
        BY <1>1, <3>1
      <3>3. CASE f = frame
        BY <1>2, <3>1, <3>2, <3>3
      <3>4. CASE f \in FramesOf(p)
        BY <1>2, <3>2, <3>4
      <3> QED
        BY <1>1, <1>5, <2>0, <3>3, <3>4
    <2> QED
      BY <2>1, <2>2
  <1>6. IsInjective(free_stack') /\ Range(free_stack') \subseteq Range(FreeFrames)
    BY <1>2
  <1> QED
    BY <1>4, <1>5, <1>6

\* What was written to the heap stays: a step that maps only pages of the heap
\* that have no frame yet, or that the handler maps a second time.
LEMMA KeptMap ==
    ASSUME TypeOK, Kept, NEW pages \in SUBSET PageBases, NEW frame \in FrameNumbers,
           map_pages(pages, frame), UNCHANGED <<reached, overlaid>>,
           \A p \in pages \cap HeapPages : p \in overlaid \/ tree[p] = NoFrame
    PROVE  Kept'
  <1> SUFFICES ASSUME NEW p \in HeapPages \ overlaid
               PROVE  tlb'[p] = NoFrame /\ (reached[p] # NoFrame => tree'[p] = reached[p])
    BY DEF Kept
  <1>1. p \in PageBases /\ tlb[p] = NoFrame /\ (reached[p] # NoFrame => tree[p] = reached[p])
    BY HeapLayout DEF Kept
  <1>2. CASE p \notin pages
    <2>1. tree'[p] = tree[p] /\ tlb'[p] = tlb[p]
      BY <1>1, <1>2, MapPages
    <2> QED
      BY <1>1, <2>1
  <1>3. CASE p \in pages
    <2>1. tree[p] = NoFrame /\ reached[p] = NoFrame
      BY <1>1, <1>3
    <2>2. tlb'[p] \in {translation(p), NoFrame}
      BY <1>3, MapPages
    <2> QED
      BY <1>1, <2>1, <2>2 DEF translation
  <1> QED
    BY <1>2, <1>3

\* A write through a page that the boot maps to no free frame reaches no frame
\* of another page of the heap.
LEMMA WrittenBy ==
    ASSUME TypeOK, Written, Exclusive', Kept', vfreed => vfreed', UNCHANGED overlaid,
           NEW q \in PageBases, InitialTree[q] \notin Range(FreeFrames),
           NEW f \in FrameNumbers, f \in FramesOf(q)', write_through(q, f),
           \A p \in HeapPages \ {q} : reached'[p] = reached[p],
           q \in HeapPages => reached'[q] = f
    PROVE  Written'
  <1> SUFFICES ASSUME ~vfreed', NEW p \in HeapPages \ overlaid, reached'[p] # NoFrame
               PROVE  writer'[reached'[p]] = p
    BY DEF Written
  <1>1. writer' = [writer EXCEPT ![f] = q] /\ writer'[f] = q
    BY DEF write_through, TypeOK
  <1>2. CASE p = q
    BY <1>1, <1>2
  <1>3. CASE p # q
    <2>1. PICK g : g = reached'[p]
      OBVIOUS
    <2>2. g = reached[p] /\ g # NoFrame /\ g \in FrameNumbers /\ writer[g] = p
      BY <1>3, <2>1 DEF Written, TypeOK
    <2>3. g \in FramesOf(p)'
      BY <2>1, <2>2 DEF Kept, FramesOf
    <2>4. g \in Range(FreeFrames) /\ (g \in FramesOf(q)' => g = InitialTree[q])
      BY <1>3, <2>3 DEF Exclusive
    <2>5. g # f
      BY <2>4
    <2> QED
      BY <1>1, <2>1, <2>2, <2>5 DEF TypeOK
  <1> QED
    BY <1>2, <1>3

-----------------------------------------------------------------------------
(* The steps. *)

\* Neither the frames nor the heap's contents are affected by anything else.
LEMMA MemoryKept ==
    ASSUME IInv, UNCHANGED <<tree, tlb, free_stack, vfreed, reached>>, overlaid \subseteq overlaid',
           UNCHANGED writer
    PROVE  Exclusive' /\ Kept' /\ Written'
  <1>1. Exclusive'
    BY DEF IInv, Exclusive, FramesOf
  <1>2. Kept' /\ Written'
    BY DEF IInv, Kept, Written
  <1> QED
    BY <1>1, <1>2

\* The processor drops a translation.
LEMMA EvictStep ==
    ASSUME IInv, NEW page \in PageBases, evict(page)
    PROVE  IInv'
  <1>1. /\ tlb' = [tlb EXCEPT ![page] = NoFrame]
        /\ UNCHANGED <<tree, free_stack, regions, baseAddress, access, handlers, allocated,
                       vfreed, phase, reached, overlaid, writer>>
    BY DEF evict, bootVars, historyVars
  <1>2. TypeOK'
    BY <1>1 DEF IInv, TypeOK
  <1>3. AccessOK' /\ Nesting'
    BY <1>1 DEF IInv, AccessOK, Nesting, HandlerOK, Mapped, outermost, AboveFree
  <1>4. \A q \in PageBases : tlb'[q] \in {tlb[q], NoFrame}
    BY <1>1 DEF IInv, TypeOK
  <1>5. \A q \in PageBases : FramesOf(q)' \subseteq FramesOf(q)
    BY <1>1, <1>4 DEF FramesOf
  <1>6. Exclusive'
    BY <1>1, <1>5, HeapLayout DEF IInv, Exclusive
  <1>7. Kept' /\ Written'
    BY <1>1, <1>4, HeapLayout DEF IInv, Kept, Written
  <1> QED
    BY <1>2, <1>3, <1>6, <1>7 DEF IInv

\* An access to the heap begins.
LEMMA BeginAccess ==
    ASSUME IInv, NEW o \in {"touch", "vmalloc", "vfree"}, NEW a \in HeapAddresses,
           NEW b \in Blocks \cup {NullAddress}, o \in {"vmalloc", "vfree"} => b \in Blocks,
           begin_access(o, a, b), regions' \in 0 .. Len(RegionBases)
    PROVE  IInv'
  <1>1. /\ handlers = <<>> /\ access' = [op |-> o, address |-> a, block |-> b]
        /\ UNCHANGED <<tree, free_stack, tlb, baseAddress, handlers, allocated, vfreed, phase,
                       reached, overlaid, writer>>
    BY DEF begin_access, Idle, memoryVars, historyVars
  <1>2. TypeOK'
    BY <1>1, HeapLayout DEF IInv, TypeOK
  <1>3. AccessOK'
    BY <1>1 DEF AccessOK
  <1>4. Nesting'
    BY <1>1 DEF IInv, Nesting, Mapped
  <1>5. Exclusive' /\ Kept' /\ Written'
    BY <1>1, MemoryKept
  <1> QED
    BY <1>2, <1>3, <1>4, <1>5 DEF IInv

\* The APIC's page is mapped and baseAddress set.
LEMMA EnableAPICStep ==
    ASSUME IInv, enableAPIC
    PROVE  IInv'
  <1> DEFINE pages == {page_floor(apicAddress)}
  <1>1. /\ handlers = <<>> /\ map_pages(pages, apicFrame) /\ baseAddress' = apicAddress
        /\ phase' = "tests"
        /\ UNCHANGED <<free_stack, regions, access, handlers, allocated, vfreed, reached, overlaid>>
    BY DEF enableAPIC, Idle
  <1>2. pages \in SUBSET PageBases /\ apicFrame \in FrameNumbers /\ pages \cap HeapPages = {}
    BY HeapLayout, Layout
  <1> HIDE DEF pages
  <1>3. /\ tree' \in [PageBases -> FrameNumbers \cup {NoFrame}]
        /\ tlb' \in [PageBases -> FrameNumbers \cup {NoFrame}]
        /\ \A q \in pages : tree'[q] = apicFrame
    <2>1. TypeOK
      BY DEF IInv
    <2>2. \A q \in pages : tree'[q] = apicFrame /\ tlb'[q] \in {translation(q), NoFrame}
      BY <1>1, <1>2, <2>1, MapPages
    <2> QED
      BY <1>1, <1>2, <2>1, <2>2, MapPages
  <1>10. PICK q \in PageBases : q = page_floor(apicAddress)
    BY HeapLayout
  <1>11. PICK f : f = translation(q)'
    OBVIOUS
  <1>12. f \in FrameNumbers /\ f \in FramesOf(q)' /\ write_through(q, f)
    <2>1. q \in pages /\ apicFrame # NoFrame
      BY <1>10, Layout DEF pages
    <2>2. f \in {tree'[q], tlb'[q]} /\ f # NoFrame
      BY <1>3, <1>11, <2>1 DEF translation
    <2>3. write_through(page_floor(apicAddress), translation(page_floor(apicAddress))')
      BY DEF enableAPIC
    <2>4. write_through(q, f)
      BY <1>10, <1>11, <2>3 DEF write_through, translation
    <2> QED
      BY <1>3, <2>2, <2>4 DEF FramesOf
  <1>13. writer' \in [FrameNumbers -> PageBases \cup {NoPage}]
    BY <1>12 DEF IInv, TypeOK, write_through
  <1>4. TypeOK'
    BY <1>1, <1>3, <1>13 DEF IInv, TypeOK
  <1>5. AccessOK'
    BY <1>1 DEF IInv, AccessOK
  <1>6. Mapped(baseAddress + eoiRegister)'
    <2>1. apicFrame # NoFrame
      BY Layout
    <2> QED
      BY <1>1, <1>3, <2>1, HeapLayout DEF pages, Mapped
  <1>7. Nesting'
    BY <1>1, <1>6 DEF IInv, Nesting
  <1>8. Exclusive'
    <2>1. ~vfreed => /\ IsInjective(free_stack')
                     /\ Range(free_stack') \subseteq Range(free_stack) \ {apicFrame}
                     /\ apicFrame \notin Range(FreeFrames)
      BY <1>1, HeapLayout DEF IInv, Exclusive
    <2> QED
      BY <1>1, <1>2, <2>1, ExclusiveMap DEF IInv
  <1>9. Kept'
    BY <1>1, <1>2, KeptMap DEF IInv
  <1>14. Written'
    BY <1>1, <1>8, <1>9, <1>10, <1>12, HeapLayout, WrittenBy DEF IInv
  <1> QED
    BY <1>4, <1>5, <1>7, <1>8, <1>9, <1>14 DEF IInv

\* test_paging.
LEMMA TestPagingStep ==
    ASSUME IInv, test_paging
    PROVE  IInv'
  <1>1. /\ handlers = <<>>
        /\ UNCHANGED <<regions, baseAddress, access, handlers, allocated, vfreed, reached, overlaid>>
    BY DEF test_paging, Idle, bootVars
  <1>2. CASE free_stack = <<>>
    <2>1. phase' = "panic" /\ UNCHANGED <<tree, free_stack, tlb, writer>>
      BY <1>2 DEF test_paging, memoryVars
    <2>2. TypeOK' /\ AccessOK'
      BY <1>1, <2>1 DEF IInv, TypeOK, AccessOK
    <2>3. Nesting'
      BY <1>1, <2>1 DEF IInv, Nesting, Mapped
    <2>4. Exclusive' /\ Kept' /\ Written'
      BY <1>1, <2>1, MemoryKept
    <2> QED
      BY <2>2, <2>3, <2>4 DEF IInv
  <1>3. CASE free_stack # <<>>
    <2>1. free_stack \in Seq(FrameNumbers)
      BY DEF IInv, TypeOK
    <2>2. Len(free_stack) \in Nat /\ Len(free_stack) >= 1
      BY <1>3, <2>1, EmptySeq, LenProperties
    <2>3. /\ phase' = "running" /\ map_pages(TestPages, free_stack[1])
          /\ free_stack' = SubSeq(free_stack, 0 + 2, Len(free_stack))
      <3>1. phase' = "running" /\ map_pages(TestPages, Head(free_stack))
            /\ free_stack' = Tail(free_stack)
        BY <1>3 DEF test_paging
      <3>2. Tail(free_stack) = SubSeq(free_stack, 2, Len(free_stack))
        BY <1>3, <2>1, TailIsSubSeq
      <3>3. Head(free_stack) = free_stack[1]
        BY <1>3, <2>1
      <3> QED
        BY <3>1, <3>2, <3>3
    <2>4. PICK frame : frame = free_stack[1]
      OBVIOUS
    <2>5. /\ free_stack' \in Seq(FrameNumbers) /\ Len(free_stack') <= Len(free_stack)
          /\ frame \in FrameNumbers /\ frame \in Range(free_stack)
          /\ Range(free_stack') \subseteq Range(free_stack)
          /\ IsInjective(free_stack) => IsInjective(free_stack') /\ frame \notin Range(free_stack')
      <3>1. 0 \in Nat /\ 0 + 1 <= Len(free_stack)
        BY <2>2
      <3> QED
        BY <2>1, <2>3, <2>4, <3>1, PopFrames
    <2>6. map_pages(TestPages, frame) /\ TestPages \in SUBSET PageBases
          /\ TestPages \cap HeapPages = {}
      BY <2>3, <2>4, HeapLayout DEF map_pages
    <2>7. /\ tree' \in [PageBases -> FrameNumbers \cup {NoFrame}]
          /\ tlb' \in [PageBases -> FrameNumbers \cup {NoFrame}]
          /\ \A a \in Addresses : Mapped(a) => Mapped(a)'
      BY <2>5, <2>6, MapPages DEF IInv
    <2>13. PICK q \in PageBases : q = write_vpage
      BY HeapLayout
    <2>14. PICK f : f = translation(q)'
      OBVIOUS
    <2>15. f \in FrameNumbers /\ f \in FramesOf(q)' /\ write_through(q, f)
      <3>1. q \in TestPages /\ frame # NoFrame
        BY <2>5, <2>13, Layout DEF TestPages
      <3>2. \A r \in TestPages : tree'[r] = frame /\ tlb'[r] \in {translation(r), NoFrame}
        BY <2>5, <2>6, MapPages DEF IInv
      <3>3. f \in {tree'[q], tlb'[q]} /\ f # NoFrame
        BY <2>14, <3>1, <3>2 DEF translation
      <3>4. write_through(write_vpage, translation(write_vpage)')
        BY <1>3 DEF test_paging
      <3>5. write_through(q, f)
        BY <2>13, <2>14, <3>4 DEF write_through, translation
      <3> QED
        BY <2>7, <3>3, <3>5 DEF FramesOf
    <2>16. writer' \in [FrameNumbers -> PageBases \cup {NoPage}]
      BY <2>15 DEF IInv, TypeOK, write_through
    <2>8. TypeOK'
      <3>1. Len(free_stack') <= m_maxSize
        BY <2>2, <2>5, LayoutAssumption, LenProperties DEF IInv, TypeOK
      <3> QED
        BY <1>1, <2>3, <2>5, <2>7, <2>16, <3>1 DEF IInv, TypeOK
    <2>9. AccessOK'
      BY <1>1 DEF IInv, AccessOK
    <2>10. Nesting'
      <3>1. baseAddress # NullAddress => baseAddress + eoiRegister \in Addresses
        BY HeapLayout DEF IInv, TypeOK
      <3>2. baseAddress # NullAddress => Mapped(baseAddress + eoiRegister)'
        BY <1>1, <2>7, <3>1 DEF IInv, Nesting, Mapped
      <3> QED
        BY <1>1, <3>2 DEF IInv, Nesting
    <2>11. Exclusive'
      BY <1>1, <2>5, <2>6, ExclusiveMap DEF IInv, Exclusive
    <2>12. Kept'
      BY <1>1, <2>5, <2>6, KeptMap DEF IInv
    <2>17. Written'
      <3>1. InitialTree[q] \notin Range(FreeFrames) /\ q \notin HeapPages
        BY <2>13, HeapLayout DEF TestPages
      <3> QED
        BY <1>1, <2>11, <2>12, <2>15, <3>1, WrittenBy DEF IInv
    <2> QED
      BY <2>8, <2>9, <2>10, <2>11, <2>12, <2>17 DEF IInv
  <1> QED
    BY <1>2, <1>3

\* vfree gives a frame back; the stack does not outgrow its size.
LEMMA PushFrame ==
    ASSUME TypeOK, NEW frame \in FrameNumbers
    PROVE  push(frame) \in Seq(FrameNumbers) /\ Len(push(frame)) <= m_maxSize
  <1>1. /\ free_stack \in Seq(FrameNumbers) /\ Len(free_stack) \in Nat
        /\ Len(free_stack) <= m_maxSize /\ m_maxSize \in Nat
    BY LayoutAssumption, LenProperties DEF TypeOK
  <1>2. <<frame>> \in Seq(FrameNumbers) /\ Len(<<frame>>) = 1
    OBVIOUS
  <1>3. <<frame>> \o free_stack \in Seq(FrameNumbers)
        /\ Len(<<frame>> \o free_stack) = 1 + Len(free_stack)
    BY <1>1, <1>2, ConcatProperties
  <1>4. CASE Len(free_stack) = m_maxSize
    BY <1>1, <1>4 DEF push
  <1>5. CASE Len(free_stack) # m_maxSize
    BY <1>1, <1>3, <1>5 DEF push
  <1> QED
    BY <1>4, <1>5

\* The access is carried out.
LEMMA CompleteStep ==
    ASSUME IInv, complete_access
    PROVE  IInv'
  <1> DEFINE page == page_floor(access.address)
  <1>1. /\ access.op # "none" /\ handlers = <<>> /\ Mapped(access.address) /\ access' = NoAccess
        /\ UNCHANGED <<tree, tlb, regions, baseAddress, handlers, phase, overlaid>>
        /\ reached' = [reached EXCEPT ![page] = translation(page)]
        /\ write_through(page, translation(page))
    BY DEF complete_access, bootVars
  <1>2. /\ access.op \in {"touch", "vmalloc", "vfree"} /\ access.address \in HeapAddresses
        /\ access.op \in {"vmalloc", "vfree"} => access.block \in Blocks
    BY <1>1 DEF IInv, AccessOK, NoAccess
  <1>3. page \in HeapPages /\ page \in PageBases
    BY <1>2, HeapLayout
  <1>0. tree[page] # NoFrame
    BY <1>1 DEF Mapped
  <1> HIDE DEF page
  <1>4. translation(page) \in FrameNumbers /\ translation(page) \in FramesOf(page)
    BY <1>0, <1>3 DEF IInv, TypeOK, translation, FramesOf
  <1>12. writer' \in [FrameNumbers -> PageBases \cup {NoPage}]
    BY <1>1, <1>3, <1>4 DEF IInv, TypeOK, write_through
  <1>5. reached' \in [HeapPages -> FrameNumbers \cup {NoFrame}]
    BY <1>1, <1>3, <1>4 DEF IInv, TypeOK
  <1>6. /\ allocated' \subseteq Blocks /\ vfreed' \in BOOLEAN
        /\ free_stack' \in Seq(FrameNumbers) /\ Len(free_stack') <= m_maxSize
        /\ vfreed' = TRUE \/ UNCHANGED <<free_stack, vfreed>>
    <2>1. CASE access.op = "vmalloc"
      <3>1. allocated' = allocated \cup {access.block} /\ UNCHANGED <<free_stack, vfreed>>
        BY <2>1 DEF complete_access
      <3> QED
        BY <1>2, <2>1, <3>1 DEF IInv, TypeOK
    <2>2. CASE access.op = "vfree"
      <3>1. /\ allocated' = allocated \ {access.block} /\ vfreed' = TRUE
            /\ free_stack' = push(physical_address(access.block))
        BY <2>2 DEF complete_access
      <3>2. page_floor(access.block) \in PageBases
        BY <1>2, <2>2, HeapLayout
      <3>3. physical_address(access.block) \in FrameNumbers
        BY <3>2, Layout DEF physical_address, Mapped, IInv, TypeOK
      <3>4. push(physical_address(access.block)) \in Seq(FrameNumbers)
            /\ Len(push(physical_address(access.block))) <= m_maxSize
        BY <3>3, PushFrame DEF IInv
      <3> QED
        BY <3>1, <3>4 DEF IInv, TypeOK
    <2>3. CASE access.op = "touch"
      <3>1. UNCHANGED <<allocated, free_stack, vfreed>>
        BY <2>3 DEF complete_access
      <3> QED
        BY <3>1 DEF IInv, TypeOK
    <2> QED
      BY <1>2, <2>1, <2>2, <2>3
  <1>7. TypeOK'
    <2>1. NoAccess \in [op : {"none", "touch", "vmalloc", "vfree"}, address : Addresses,
                        block : Blocks \cup {NullAddress}]
      BY HeapLayout DEF NoAccess
    <2> QED
      BY <1>1, <1>5, <1>6, <1>12, <2>1 DEF IInv, TypeOK
  <1>8. AccessOK'
    BY <1>1 DEF AccessOK
  <1>9. Nesting'
    BY <1>1 DEF IInv, Nesting, Mapped
  <1>10. Exclusive'
    <2>1. CASE vfreed' = TRUE
      BY <2>1 DEF Exclusive
    <2>2. CASE UNCHANGED <<free_stack, vfreed>>
      BY <1>1, <2>2 DEF IInv, Exclusive, FramesOf
    <2> QED
      BY <1>6, <2>1, <2>2
  <1>11. Kept'
    <2> SUFFICES ASSUME NEW p \in HeapPages \ overlaid
                 PROVE  tlb[p] = NoFrame /\ (reached'[p] # NoFrame => tree[p] = reached'[p])
      BY <1>1 DEF Kept
    <2>1. tlb[p] = NoFrame /\ (reached[p] # NoFrame => tree[p] = reached[p])
      BY DEF IInv, Kept
    <2>2. CASE p = page
      <3>1. reached'[p] = translation(p) /\ translation(p) = tree[p]
        BY <1>1, <1>3, <2>1, <2>2 DEF translation, IInv, TypeOK
      <3> QED
        BY <2>1, <3>1
    <2>3. CASE p # page
      <3>1. reached'[p] = reached[p]
        BY <1>1, <1>3, <2>3 DEF IInv, TypeOK
      <3> QED
        BY <2>1, <3>1
    <2> QED
      BY <2>2, <2>3
  <1>13. Written'
    <2>1. PICK q, f : q = page /\ f = translation(page)
      OBVIOUS
    <2>2. q \in HeapPages /\ q \in PageBases /\ InitialTree[q] \notin Range(FreeFrames)
      BY <1>3, <2>1, HeapLayout
    <2>3. f \in FrameNumbers /\ f \in FramesOf(q) /\ write_through(q, f)
      BY <1>1, <1>4, <2>1 DEF write_through, FramesOf
    <2>4. f \in FramesOf(q)'
      BY <1>1, <2>3 DEF FramesOf
    <2>5. (\A p \in HeapPages \ {q} : reached'[p] = reached[p]) /\ reached'[q] = f
      BY <1>1, <1>3, <2>1 DEF IInv, TypeOK
    <2>6. vfreed => vfreed'
      BY <1>6
    <2> QED
      BY <1>1, <1>10, <1>11, <2>2, <2>3, <2>4, <2>5, <2>6, WrittenBy DEF IInv
  <1> QED
    BY <1>7, <1>8, <1>9, <1>10, <1>11, <1>13 DEF IInv

Activations == [cr2 : Addresses, page : PageBases, last_page : PageBases]

\* A new activation of the handler has its range before it.
LEMMA NewActivation ==
    ASSUME TypeOK, NEW a \in 0 .. page_floor(AddressMax) - 1, ~Mapped(a)
    PROVE  /\ Activation(a) \in Activations /\ HandlerOK(Activation(a))
           /\ Activation(a).cr2 = a
  <1> DEFINE range == get_page_range(a, pageSize)
             h == [cr2 |-> a, page |-> range.first_page, last_page |-> range.last_page]
  <1>1. Activation(a) = h
    BY DEF Activation
  <1>2. /\ range.first_page = page_floor(a) /\ range.last_page \in PageBases
        /\ \/ range.last_page = page_floor(a) + pageSize
           \/ a % pageSize # 0 /\ range.last_page = page_floor(a) + pageSize + pageSize
    BY RangeOfAccess
  <1>3. a \in Addresses /\ page_floor(a) \in PageBases
    BY PageAbove
  <1> HIDE DEF range
  <1>4. h.cr2 = a /\ h.page = page_floor(a) /\ h.last_page = range.last_page
    BY <1>2
  <1>5. h \in Activations
    BY <1>2, <1>3 DEF Activations
  <1> HIDE DEF h
  <1>6. HandlerOK(h)
    BY <1>2, <1>4 DEF HandlerOK
  <1> QED
    BY <1>1, <1>4, <1>5, <1>6

\* The access faults.
LEMMA FaultStep ==
    ASSUME IInv, page_fault
    PROVE  IInv'
  <1>1. /\ access.op # "none" /\ handlers = <<>> /\ ~Mapped(access.address)
        /\ handlers' = <<Activation(access.address)>>
        /\ overlaid' = IF /\ access.address % pageSize # 0
                          /\ tree[page_floor(access.address) + pageSize] # NoFrame
                       THEN overlaid \cup {page_floor(access.address) + pageSize}
                       ELSE overlaid
        /\ UNCHANGED <<tree, free_stack, tlb, regions, baseAddress, access, allocated, vfreed,
                       phase, reached, writer>>
    BY DEF page_fault, memoryVars, bootVars
  <1>2. PICK a \in 0 .. page_floor(AddressMax) - 1 : a = access.address
    BY <1>1, HeapLayout DEF IInv, AccessOK, NoAccess
  <1>3. PICK h : h = Activation(a)
    OBVIOUS
  <1>4. h \in Activations /\ HandlerOK(h) /\ h.cr2 = a
    <2>1. ~Mapped(a)
      BY <1>1, <1>2 DEF Mapped
    <2> QED
      BY <1>3, <2>1, NewActivation DEF IInv
  <1>5. handlers' = <<h>>
    BY <1>1, <1>2, <1>3
  <1>6. /\ handlers' \in Seq(Activations) /\ Len(handlers') = 1 /\ handlers'[1] = h
        /\ handlers' # <<>>
    BY <1>4, <1>5
  <1>7. page_floor(a) + pageSize \in PageBases
    BY PageAbove
  <1>8. TypeOK'
    BY <1>1, <1>2, <1>6, <1>7 DEF IInv, TypeOK, Activations
  <1>9. AccessOK'
    BY <1>1 DEF IInv, AccessOK
  <1>10. Nesting'
    <2>1. HandlerOK(h)'
      BY <1>1, <1>4 DEF HandlerOK, Mapped
    <2>2. outermost' = h
      BY <1>6 DEF outermost
    <2>3. AboveFree(h)'
      BY <1>1, <1>2, <1>4 DEF AboveFree
    <2>6. AboveFree(outermost)'
      BY <2>2, <2>3 DEF AboveFree
    <2>4. (baseAddress # NullAddress => Mapped(baseAddress + eoiRegister))'
      BY <1>1 DEF IInv, Nesting, Mapped
    <2>5. (\A i \in 1 .. Len(handlers) : HandlerOK(handlers[i]))'
      <3> SUFFICES ASSUME NEW i \in 1 .. Len(handlers') PROVE HandlerOK(handlers[i])'
        OBVIOUS
      <3>1. i = 1
        BY <1>6
      <3> QED
        BY <1>6, <2>1, <3>1 DEF HandlerOK, Mapped
    <2> QED
      BY <1>1, <1>2, <1>4, <1>6, <2>2, <2>4, <2>5, <2>6 DEF Nesting
  <1>11. Exclusive' /\ Kept' /\ Written'
    BY <1>1, MemoryKept
  <1> QED
    BY <1>8, <1>9, <1>10, <1>11 DEF IInv

\* The page a handler maps next: the page that faulted, or the one above if the
\* fault was inside it; the one after that is still in the address space.
LEMMA HandlerRound ==
    ASSUME NEW g \in Activations, HandlerOK(g), g.page # g.last_page
    PROVE  /\ Wrap(g.page + pageSize) = g.page + pageSize /\ g.page + pageSize \in PageBases
           /\ page_floor(g.cr2) \in Nat
           /\ g.page + pageSize \in {page_floor(g.cr2) + pageSize, g.last_page}
           /\ g.page + pageSize # page_floor(g.cr2)
           /\ \/ g.page = page_floor(g.cr2) /\ ~Mapped(g.cr2)
              \/ /\ g.page = page_floor(g.cr2) + pageSize /\ Mapped(g.cr2)
                 /\ g.cr2 % pageSize # 0
  <1> USE AddressAssumption
  <1> DEFINE f == page_floor(g.cr2)
  <1>1. f \in Nat /\ f \in PageBases /\ f + pageSize \in PageBases /\ g.cr2 \in Nat
    BY PageAbove, FloorProperties DEF HandlerOK
  <1>2. /\ g.last_page \in PageBases
        /\ \/ g.last_page = f + pageSize
           \/ g.cr2 % pageSize # 0 /\ g.last_page = f + pageSize + pageSize
        /\ g.page \in {f, f + pageSize, g.last_page}
        /\ g.page = f <=> ~Mapped(g.cr2)
    BY DEF HandlerOK, Activations
  <1> HIDE DEF f
  <1>3. \/ g.page = f /\ ~Mapped(g.cr2)
        \/ /\ g.page = f + pageSize /\ g.page # f /\ Mapped(g.cr2)
           /\ g.cr2 % pageSize # 0 /\ g.last_page = g.page + pageSize
    BY <1>1, <1>2
  <1>4. /\ g.page + pageSize \in {f + pageSize, g.last_page}
        /\ g.page + pageSize \in PageBases /\ g.page + pageSize # f
    BY <1>1, <1>2, <1>3
  <1>5. Wrap(g.page + pageSize) = g.page + pageSize
    <2>1. ASSUME NEW x \in Nat, NEW m \in Nat, x < m PROVE x % m = x
      BY <2>1, SMT
    <2>2. g.page + pageSize \in Nat /\ g.page + pageSize < AddressMax + 1 /\ AddressMax + 1 \in Nat
      BY <1>4 DEF PageBases, Addresses
    <2> QED
      BY <2>1, <2>2 DEF Wrap
  <1> QED
    BY <1>1, <1>3, <1>4, <1>5 DEF f

\* A handler past the page that faulted is not affected by what is mapped.
LEMMA HandlerStays ==
    ASSUME NEW g \in Activations, HandlerOK(g), g.page # page_floor(g.cr2),
           Mapped(g.cr2) => Mapped(g.cr2)'
    PROVE  HandlerOK(g)'
  BY DEF HandlerOK

\* The frames of new tables come from the stack.
LEMMA TablesOnStack ==
    ASSUME NEW S, NEW s \in Seq(S), NEW k \in Nat, k + 1 <= Len(s)
    PROVE  Range(SubSeq(s, 2, k + 1)) \subseteq Range(s)
  <1> DEFINE t == SubSeq(s, 2, k + 1)
  <1>1. Len(s) \in Nat /\ DOMAIN s = 1 .. Len(s)
    BY LenProperties
  <1>2. /\ t \in Seq(S) /\ Len(t) = IF 2 <= k + 1 THEN k + 1 - 2 + 1 ELSE 0
        /\ \A i \in 1 .. k + 1 - 2 + 1 : t[i] = s[2 + i - 1]
    BY <1>1, SubSeqProperties
  <1> HIDE DEF t
  <1>3. Len(t) = k /\ DOMAIN t = 1 .. k
    BY <1>2, LenProperties
  <1>4. ASSUME NEW i \in 1 .. k PROVE t[i] = s[i + 1] /\ i + 1 \in 1 .. Len(s)
    <2>1. i \in 1 .. k + 1 - 2 + 1 /\ 2 + i - 1 = i + 1
      OBVIOUS
    <2> QED
      BY <1>1, <1>2, <2>1
  <1> QED
    BY <1>1, <1>3, <1>4 DEF Range, t

\* A round of the handler's loop.
LEMMA AllocateStep ==
    ASSUME IInv, NEW tables \in 0 .. MaxTables, allocate_and_map(tables)
    PROVE  IInv'
  <1> USE AddressAssumption
  <1>1. /\ handlers # <<>> /\ handlers[1].page # handlers[1].last_page
        /\ UNCHANGED <<regions, baseAddress, access, allocated, vfreed, reached, overlaid>>
    BY DEF allocate_and_map, InHandler, current, bootVars, IInv, TypeOK
  <1>2. TypeOK
    BY DEF IInv
  <1>3. CASE ~(tables + 1 <= Len(free_stack))
    <2>1. phase' = "panic" /\ UNCHANGED <<tree, free_stack, tlb, handlers, writer>>
      BY <1>3 DEF allocate_and_map, memoryVars
    <2>2. TypeOK' /\ AccessOK'
      BY <1>1, <2>1 DEF IInv, TypeOK, AccessOK
    <2>3. Nesting'
      BY <1>1, <2>1 DEF IInv, Nesting, Mapped, HandlerOK, outermost, AboveFree
    <2>4. Exclusive' /\ Kept' /\ Written'
      BY <1>1, <2>1, MemoryKept
    <2> QED
      BY <2>2, <2>3, <2>4 DEF IInv
  <1>4. CASE tables + 1 <= Len(free_stack)
    <2>1. PICK g, frame, n : g = handlers[1] /\ frame = free_stack[1] /\ n = Len(handlers)
      OBVIOUS
    <2>2. /\ map_pages({g.page}, frame) /\ UNCHANGED phase
          /\ free_stack' = SubSeq(free_stack, tables + 2, Len(free_stack))
          /\ handlers' = [handlers EXCEPT ![1].page = Wrap(@ + pageSize)]
      <3>1. current = g
        BY <1>1, <1>2, <2>1 DEF current, TypeOK
      <3>2. /\ map_pages({current.page}, free_stack[1]) /\ UNCHANGED phase
            /\ free_stack' = SubSeq(free_stack, tables + 2, Len(free_stack))
            /\ handlers' = [handlers EXCEPT ![1].page = Wrap(@ + pageSize)]
        BY <1>4 DEF allocate_and_map
      <3>3. {current.page} = {g.page}
        BY <3>1
      <3> QED
        BY <2>1, <3>2, <3>3
    <2>3. handlers \in Seq(Activations) /\ n \in {1, 2} /\ 1 \in 1 .. n /\ DOMAIN handlers = 1 .. n
      <3>1. handlers \in Seq(Activations)
        BY <1>2 DEF TypeOK, Activations
      <3>2. n \in Nat /\ n # 0 /\ n <= 2 /\ DOMAIN handlers = 1 .. n
        BY <1>1, <2>1, <3>1, EmptySeq, LenProperties DEF IInv, Nesting
      <3> QED
        BY <3>1, <3>2
    <2>4. g \in Activations /\ HandlerOK(g) /\ g.page # g.last_page
      <3>1. \A i \in 1 .. n : handlers[i] \in Activations
        BY <2>1, <2>3, ElementOfSeq
      <3>2. HandlerOK(handlers[1])
        BY <2>1, <2>3 DEF IInv, Nesting
      <3> QED
        BY <1>1, <2>1, <2>3, <3>1, <3>2 DEF HandlerOK, Mapped
    <2>5. /\ Wrap(g.page + pageSize) = g.page + pageSize /\ g.page + pageSize \in PageBases
          /\ page_floor(g.cr2) \in Nat
          /\ g.page + pageSize \in {page_floor(g.cr2) + pageSize, g.last_page}
          /\ g.page + pageSize # page_floor(g.cr2)
          /\ \/ g.page = page_floor(g.cr2) /\ ~Mapped(g.cr2)
             \/ /\ g.page = page_floor(g.cr2) + pageSize /\ Mapped(g.cr2)
                /\ g.cr2 % pageSize # 0
      BY <2>4, HandlerRound
    <2>6. PICK k : k = [g EXCEPT !.page = g.page + pageSize]
      OBVIOUS
    <2>7. /\ k \in Activations /\ k.cr2 = g.cr2 /\ k.last_page = g.last_page
          /\ k.page = g.page + pageSize
      BY <2>4, <2>5, <2>6 DEF Activations
    <2>8. handlers' = [handlers EXCEPT ![1] = k]
      BY <2>1, <2>2, <2>3, <2>5, <2>6
    <2>9. /\ handlers' \in Seq(Activations) /\ Len(handlers') = n /\ handlers'[1] = k
          /\ n = 2 => handlers'[2] = handlers[2]
      BY <2>1, <2>3, <2>7, <2>8
    <2>10. /\ free_stack' \in Seq(FrameNumbers) /\ Len(free_stack') <= Len(free_stack)
           /\ frame \in FrameNumbers /\ frame \in Range(free_stack)
           /\ Range(free_stack') \subseteq Range(free_stack)
           /\ IsInjective(free_stack) => IsInjective(free_stack') /\ frame \notin Range(free_stack')
      <3>1. tables \in Nat /\ free_stack \in Seq(FrameNumbers)
        BY <1>2, LayoutAssumption DEF TypeOK
      <3> QED
        BY <1>4, <2>1, <2>2, <3>1, PopFrames
    <2>11. PICK pages \in SUBSET PageBases : pages = {g.page}
      BY <2>4 DEF Activations
    <2>12. /\ tree' \in [PageBases -> FrameNumbers \cup {NoFrame}]
           /\ tlb' \in [PageBases -> FrameNumbers \cup {NoFrame}]
           /\ \A a \in Addresses : Mapped(a) => Mapped(a)'
           /\ map_pages(pages, frame)
           /\ tree'[g.page] = frame
      <3>1. map_pages(pages, frame)
        BY <2>2, <2>11
      <3>2. \A q \in pages : tree'[q] = frame /\ tlb'[q] \in {translation(q), NoFrame}
        BY <1>2, <2>10, <3>1, MapPages
      <3> QED
        BY <1>2, <2>10, <2>11, <3>1, <3>2, MapPages
    <2>20. /\ writer' \in [FrameNumbers -> PageBases \cup {NoPage}]
           /\ \A f \in FrameNumbers : f \notin Range(free_stack) => writer'[f] = writer[f]
      <3>1. write_tables(tables)
        BY <1>4 DEF allocate_and_map
      <3>2. Range(SubSeq(free_stack, 2, tables + 1)) \subseteq Range(free_stack)
        <4>1. free_stack \in Seq(FrameNumbers) /\ tables \in Nat
          BY <1>2, LayoutAssumption DEF TypeOK
        <4> QED
          BY <1>4, <4>1, TablesOnStack
      <3> QED
        BY <1>2, <3>1, <3>2 DEF write_tables, TypeOK
    <2>13. TypeOK'
      <3>1. Len(free_stack') <= m_maxSize
        BY <1>2, <2>10, LayoutAssumption, LenProperties DEF TypeOK
      <3> QED
        BY <1>1, <1>2, <2>2, <2>9, <2>10, <2>12, <2>20, <3>1 DEF TypeOK, Activations
    <2>14. AccessOK'
      BY <1>1 DEF IInv, AccessOK
    <2>15. HandlerOK(k)'
      <3>1. Mapped(k.cr2)'
        <4>1. frame # NoFrame /\ g.cr2 \in Addresses
          BY <2>4, <2>10, Layout DEF Activations
        <4> QED
          BY <2>5, <2>7, <2>12, <4>1 DEF Mapped
      <3> QED
        BY <2>4, <2>5, <2>7, <3>1 DEF HandlerOK
    <2>16. n = 2 => HandlerOK(handlers[2])'
      <3> SUFFICES ASSUME n = 2 PROVE HandlerOK(handlers[2])'
        OBVIOUS
      <3>1. PICK e : e = handlers[2]
        OBVIOUS
      <3>2. e \in Activations /\ HandlerOK(e) /\ e.page = e.last_page
        <4>1. 2 \in 1 .. Len(handlers) /\ handlers[2] \in Activations
          <5>1. Len(handlers) = 2
            BY <2>1
          <5> QED
            BY <2>3, <5>1, ElementOfSeq
        <4>2. HandlerOK(handlers[2]) /\ handlers[2].page = handlers[2].last_page
          BY <2>1, <4>1 DEF IInv, Nesting
        <4> QED
          BY <3>1, <4>1, <4>2 DEF HandlerOK, Mapped
      <3>3. e.cr2 \in Addresses /\ page_floor(e.cr2) \in Nat /\ e.page # page_floor(e.cr2)
        <4>1. page_floor(e.cr2) \in Nat /\ e.cr2 \in Addresses
          BY <3>2, PageAbove, FloorProperties DEF HandlerOK
        <4> QED
          BY <3>2, <4>1 DEF HandlerOK
      <3>4. HandlerOK(e)'
        BY <2>12, <3>2, <3>3, HandlerStays
      <3>5. handlers'[2] = e
        BY <2>9, <3>1
      <3> QED
        BY <3>4, <3>5 DEF HandlerOK, Mapped
    <2>17. Nesting'
      <3>1. (\A i \in 1 .. Len(handlers) : HandlerOK(handlers[i]))'
        <4> SUFFICES ASSUME NEW i \in 1 .. Len(handlers') PROVE HandlerOK(handlers[i])'
          OBVIOUS
        <4>1. i = 1 \/ (n = 2 /\ i = 2)
          BY <2>3, <2>9
        <4>2. CASE i = 1
          BY <2>9, <2>15, <4>2 DEF HandlerOK, Mapped
        <4>3. CASE n = 2 /\ i = 2
          BY <2>9, <2>16, <4>3 DEF HandlerOK, Mapped
        <4> QED
          BY <4>1, <4>2, <4>3
      <3>2. handlers' # <<>>
        BY <2>3, <2>9
      <3>3. outermost'.cr2 = outermost.cr2
        <4>1. CASE n = 1
          BY <2>1, <2>7, <2>9, <4>1 DEF outermost
        <4>2. CASE n = 2
          BY <2>1, <2>9, <4>2 DEF outermost
        <4> QED
          BY <2>3, <4>1, <4>2
      <3>4. outermost'.cr2 = access'.address /\ access'.op # "none"
        BY <1>1, <3>3 DEF IInv, Nesting
      <3>7. AboveFree(outermost)'
        <4>1. CASE n = 2
          <5>1. PICK e : e = handlers[2]
            OBVIOUS
          <5>2. outermost' = e /\ e.page = e.last_page
            BY <2>1, <2>9, <4>1, <5>1 DEF outermost, IInv, Nesting
          <5> QED
            BY <5>2 DEF AboveFree
        <4>2. CASE n = 1
          <5>1. outermost = g /\ outermost' = k
            BY <2>1, <2>9, <4>2 DEF outermost
          <5>2. AboveFree(g)
            <6>1. AboveFree(outermost)
              BY <1>1 DEF IInv, Nesting
            <6> QED
              BY <5>1, <6>1 DEF AboveFree
          <5>3. SUFFICES ASSUME k.cr2 % pageSize # 0, k.page # k.last_page
                         PROVE  \/ page_floor(g.cr2) + pageSize \in overlaid
                                \/ tree'[page_floor(g.cr2) + pageSize] = NoFrame
            BY <1>1, <2>7, <5>1 DEF AboveFree
          <5>4. /\ g.page = page_floor(g.cr2) /\ g.page # page_floor(g.cr2) + pageSize
                /\ page_floor(g.cr2) + pageSize \in PageBases
            BY <2>4, <2>5, <2>7, <5>3 DEF HandlerOK
          <5>5. tree'[page_floor(g.cr2) + pageSize] = tree[page_floor(g.cr2) + pageSize]
            <6>1. \A q \in PageBases \ pages : tree'[q] = tree[q] /\ tlb'[q] = tlb[q]
              BY <1>2, <2>10, <2>12, MapPages
            <6> QED
              BY <2>11, <5>4, <6>1
          <5> QED
            BY <2>4, <2>7, <5>2, <5>3, <5>5 DEF AboveFree
        <4> QED
          BY <2>3, <4>1, <4>2
      <3>5. n = 2 => /\ baseAddress' = NullAddress /\ handlers'[1].cr2 = eoiRegister
                     /\ handlers'[2].page = handlers'[2].last_page
        BY <1>1, <2>1, <2>7, <2>9 DEF IInv, Nesting
      <3>6. (baseAddress # NullAddress => Mapped(baseAddress + eoiRegister))'
        <4>1. PICK b : b = baseAddress
          OBVIOUS
        <4>2. b # NullAddress => b + eoiRegister \in Addresses /\ Mapped(b + eoiRegister)
          BY <1>2, <4>1, HeapLayout DEF IInv, TypeOK, Nesting, Mapped
        <4>3. b # NullAddress => Mapped(b + eoiRegister)'
          BY <2>12, <4>2
        <4> QED
          BY <1>1, <4>1, <4>3 DEF Mapped
      <3> QED
        BY <2>3, <2>9, <3>1, <3>2, <3>4, <3>5, <3>6, <3>7 DEF Nesting
    <2>18. Exclusive'
      <3>1. \A p \in pages \cap HeapPages : pages = {p}
        BY <2>11
      <3>2. ~vfreed => /\ IsInjective(free_stack')
                       /\ Range(free_stack') \subseteq Range(free_stack) \ {frame}
                       /\ frame \in Range(free_stack)
        BY <2>10 DEF IInv, Exclusive
      <3> QED
        BY <1>1, <1>2, <2>10, <2>12, <3>1, <3>2, ExclusiveMap DEF IInv
    <2>19. Kept'
      <3>1. g.page \in HeapPages => g.page \in overlaid \/ tree[g.page] = NoFrame
        <4>1. CASE n = 2
          <5>1. g.cr2 = eoiRegister
            BY <2>1, <4>1 DEF IInv, Nesting
          <5>2. g.page \in EOIPages
            BY <2>5, <5>1 DEF EOIPages
          <5> QED
            BY <5>2, HeapLayout
        <4>2. CASE n = 1
          <5>1. outermost = g
            BY <2>1, <4>2 DEF outermost
          <5>2. AboveFree(outermost)
            BY <1>1 DEF IInv, Nesting
          <5>3. AboveFree(g)
            BY <5>1, <5>2 DEF AboveFree
          <5> QED
            BY <2>4, <2>5, <5>3 DEF Mapped, AboveFree
        <4> QED
          BY <2>3, <4>1, <4>2
      <3> QED
        BY <1>1, <1>2, <2>10, <2>11, <2>12, <3>1, KeptMap DEF IInv
    <2>21. Written'
      <3> SUFFICES ASSUME ~vfreed, NEW p \in HeapPages \ overlaid, reached[p] # NoFrame
                   PROVE  writer'[reached[p]] = p
        BY <1>1 DEF Written
      <3>1. PICK f : f = reached[p]
        OBVIOUS
      <3>2. f \in FrameNumbers /\ f # NoFrame /\ f \in FramesOf(p) /\ writer[f] = p
        BY <1>2, <3>1 DEF IInv, Kept, Written, FramesOf, TypeOK
      <3>3. p \in PageBases /\ InitialTree[p] = NoFrame
        BY HeapLayout
      <3>4. f \notin Range(free_stack)
        BY <3>2, <3>3 DEF IInv, Exclusive
      <3> QED
        BY <2>20, <3>1, <3>2, <3>4
    <2> QED
      BY <2>13, <2>14, <2>17, <2>18, <2>19, <2>21 DEF IInv
  <1> QED
    BY <1>3, <1>4

\* The end-of-interrupt returns from the handler, or it faults, which only the
\* access's own handler can see and only before the APIC is mapped.
LEMMA SendEOIStep ==
    ASSUME IInv, sendEndOfInterrupt
    PROVE  IInv'
  <1> USE AddressAssumption
  <1> DEFINE target == baseAddress + eoiRegister
  <1>1. /\ handlers # <<>> /\ handlers[1].page = handlers[1].last_page
        /\ UNCHANGED <<tree, free_stack, tlb, regions, baseAddress, access, allocated, vfreed,
                       phase, reached, overlaid>>
    BY DEF sendEndOfInterrupt, InHandler, current, memoryVars, bootVars, IInv, TypeOK
  <1>2. TypeOK /\ handlers \in Seq(Activations)
    BY DEF IInv, TypeOK, Activations
  <1>3. PICK n : n = Len(handlers) /\ n \in {1, 2} /\ DOMAIN handlers = 1 .. n
    <2>1. Len(handlers) \in Nat /\ Len(handlers) # 0 /\ Len(handlers) <= 2
      BY <1>1, <1>2, EmptySeq, LenProperties DEF IInv, Nesting
    <2> QED
      BY <1>2, <2>1, LenProperties
  <1>4. \A i \in 1 .. n : handlers[i] \in Activations /\ HandlerOK(handlers[i])
    BY <1>2, <1>3, ElementOfSeq DEF IInv, Nesting
  <1>5. AccessOK'
    BY <1>1 DEF IInv, AccessOK
  <1>6. Exclusive' /\ Kept'
    <2>1. Exclusive'
      BY <1>1 DEF IInv, Exclusive, FramesOf
    <2>2. Kept'
      BY <1>1 DEF IInv, Kept
    <2> QED
      BY <2>1, <2>2
  <1>7. (baseAddress # NullAddress => Mapped(baseAddress + eoiRegister))'
    BY <1>1 DEF IInv, Nesting, Mapped
  <1>8. CASE Mapped(target)
    <2>1. handlers' = Tail(handlers)
      BY <1>8 DEF sendEndOfInterrupt
    <2>5. PICK q : q = page_floor(baseAddress + eoiRegister)
      OBVIOUS
    <2>6. PICK f : f = translation(q)
      OBVIOUS
    <2>7. q \in PageBases /\ q \notin HeapPages /\ InitialTree[q] \notin Range(FreeFrames)
      <3>1. CASE baseAddress = NullAddress
        <4>1. baseAddress + eoiRegister = eoiRegister
          BY <3>1, LayoutAssumption DEF NullAddress
        <4>2. q = page_floor(eoiRegister) /\ q \in EOIPages
          BY <2>5, <4>1 DEF EOIPages
        <4> QED
          BY <4>2, HeapLayout, FloorInPages
      <3>2. CASE baseAddress = apicAddress
        BY <2>5, <3>2, HeapLayout
      <3> QED
        BY <1>2, <3>1, <3>2 DEF TypeOK
    <2>8. f \in FrameNumbers /\ f \in FramesOf(q) /\ write_through(q, f)
      <3>1. tree[q] # NoFrame
        BY <1>8, <2>5 DEF Mapped
      <3>2. f \in {tree[q], tlb[q]} /\ f # NoFrame
        BY <2>6, <3>1 DEF translation
      <3>3. write_through(page_floor(baseAddress + eoiRegister),
                          translation(page_floor(baseAddress + eoiRegister)))
        BY <1>8 DEF sendEndOfInterrupt
      <3>4. write_through(q, f)
        BY <2>5, <2>6, <3>3 DEF write_through, translation
      <3> QED
        BY <1>2, <2>7, <3>2, <3>4 DEF FramesOf, TypeOK
    <2>9. Written'
      <3>1. f \in FramesOf(q)'
        BY <1>1, <2>8 DEF FramesOf
      <3> QED
        BY <1>1, <1>2, <1>6, <2>7, <2>8, <3>1, WrittenBy DEF IInv
    <2>10. writer' \in [FrameNumbers -> PageBases \cup {NoPage}]
      BY <1>2, <2>7, <2>8 DEF TypeOK, write_through
    <2>2. /\ handlers' \in Seq(Activations) /\ Len(handlers') = n - 1
          /\ n = 2 => handlers'[1] = handlers[2]
      BY <1>1, <1>2, <1>3, <2>1
    <2>3. TypeOK'
      BY <1>1, <1>2, <2>2, <2>10 DEF TypeOK, Activations
    <2>4. Nesting'
      <3>1. CASE n = 1
        <4>1. Len(handlers') = 0 /\ handlers' = <<>>
          BY <2>2, <3>1, EmptySeq
        <4> QED
          BY <1>7, <4>1 DEF Nesting
      <3>2. CASE n = 2
        <4>1. Len(handlers') = 1
          BY <2>2, <3>2
        <4>0. handlers' # <<>>
          <5>1. Len(<<>>) = 0
            OBVIOUS
          <5> QED
            BY <4>1, <5>1
        <4>2. outermost' = outermost
          BY <1>3, <2>2, <3>2, <4>1 DEF outermost
        <4>3. (\A i \in 1 .. Len(handlers) : HandlerOK(handlers[i]))'
          <5> SUFFICES ASSUME NEW i \in 1 .. Len(handlers') PROVE HandlerOK(handlers[i])'
            OBVIOUS
          <5>1. i = 1
            BY <4>1
          <5>2. HandlerOK(handlers[2])
            BY <1>4, <3>2
          <5> QED
            BY <1>1, <2>2, <3>2, <5>1, <5>2 DEF HandlerOK, Mapped
        <4>4. AboveFree(outermost)'
          BY <1>1, <4>2 DEF IInv, Nesting, AboveFree
        <4> QED
          BY <1>1, <1>7, <4>0, <4>1, <4>2, <4>3, <4>4 DEF IInv, Nesting
      <3> QED
        BY <1>3, <3>1, <3>2
    <2> QED
      BY <1>5, <1>6, <2>3, <2>4, <2>9 DEF IInv
  <1>9. CASE ~Mapped(target)
    <2>1. baseAddress = NullAddress /\ target = eoiRegister
      <3>1. baseAddress = NullAddress
        BY <1>9 DEF IInv, Nesting
      <3> QED
        BY <3>1, LayoutAssumption DEF NullAddress
    <2>2. ~Mapped(eoiRegister)
      BY <1>9, <2>1 DEF Mapped
    <2>3. n = 1
      <3> SUFFICES ASSUME n = 2 PROVE FALSE
        BY <1>3
      <3>1. PICK g : g = handlers[1]
        OBVIOUS
      <3>2. g.cr2 = eoiRegister /\ g.page = g.last_page /\ HandlerOK(handlers[1])
        BY <1>1, <1>3, <1>4, <3>1 DEF IInv, Nesting
      <3>3. HandlerOK(g)
        BY <3>1, <3>2 DEF HandlerOK, Mapped
      <3>4. page_floor(g.cr2) \in Nat
        BY <3>2, HeapLayout, PageAbove, FloorProperties
      <3>5. g.page # page_floor(g.cr2)
        BY <3>2, <3>3, <3>4 DEF HandlerOK
      <3> QED
        BY <2>2, <3>2, <3>3, <3>5 DEF HandlerOK
    <2>4. PICK h : h = Activation(eoiRegister)
      OBVIOUS
    <2>5. h \in Activations /\ HandlerOK(h) /\ h.cr2 = eoiRegister
      BY <1>2, <2>2, <2>4, HeapLayout, NewActivation
    <2>6. handlers' = <<h>> \o handlers
      BY <1>9, <2>1, <2>4 DEF sendEndOfInterrupt
    <2>7. /\ handlers' \in Seq(Activations) /\ Len(handlers') = 2
          /\ handlers'[1] = h /\ handlers'[2] = handlers[1] /\ handlers' # <<>>
      <3>1. <<h>> \in Seq(Activations) /\ Len(<<h>>) = 1 /\ <<h>>[1] = h /\ Len(handlers) = 1
        BY <1>3, <2>3, <2>5
      <3>2. /\ handlers' \in Seq(Activations) /\ Len(handlers') = 1 + 1
            /\ \A i \in 1 .. 1 + 1 :
                  handlers'[i] = IF i <= 1 THEN <<h>>[i] ELSE handlers[i - 1]
        BY <1>2, <2>6, <3>1, ConcatProperties
      <3>3. handlers'[1] = h /\ handlers'[2] = handlers[2 - 1]
        <4>1. 1 \in 1 .. 1 + 1 /\ 2 \in 1 .. 1 + 1 /\ 1 <= 1 /\ ~(2 <= 1)
          OBVIOUS
        <4> QED
          BY <3>1, <3>2, <4>1
      <3>4. 1 + 1 = 2 /\ 2 - 1 = 1
        OBVIOUS
      <3>5. handlers' # <<>>
        <4>1. Len(handlers') = 2
          BY <3>2, <3>4
        <4>2. Len(<<>>) = 0
          OBVIOUS
        <4> QED
          BY <4>1, <4>2
      <3> QED
        BY <3>2, <3>3, <3>4, <3>5
    <2>10. UNCHANGED writer
      BY <1>9 DEF sendEndOfInterrupt
    <2>11. Written'
      BY <1>1, <2>10 DEF IInv, Written
    <2>8. TypeOK'
      BY <1>1, <1>2, <2>7, <2>10 DEF TypeOK, Activations
    <2>9. Nesting'
      <3>1. (\A i \in 1 .. Len(handlers) : HandlerOK(handlers[i]))'
        <4> SUFFICES ASSUME NEW i \in 1 .. Len(handlers') PROVE HandlerOK(handlers[i])'
          OBVIOUS
        <4>1. i = 1 \/ i = 2
          BY <2>7
        <4>2. CASE i = 1
          BY <1>1, <2>5, <2>7, <4>2 DEF HandlerOK, Mapped
        <4>3. CASE i = 2
          <5>1. HandlerOK(handlers[1])
            BY <1>3, <1>4
          <5> QED
            BY <1>1, <2>7, <4>3, <5>1 DEF HandlerOK, Mapped
        <4> QED
          BY <4>1, <4>2, <4>3
      <3>2. outermost' = outermost
        BY <1>3, <2>3, <2>7 DEF outermost
      <3>3. outermost'.cr2 = access'.address /\ access'.op # "none"
        BY <1>1, <3>2 DEF IInv, Nesting
      <3>5. AboveFree(outermost)'
        BY <1>1, <3>2 DEF IInv, Nesting, AboveFree
      <3>4. /\ baseAddress' = NullAddress /\ handlers'[1].cr2 = eoiRegister
            /\ handlers'[2].page = handlers'[2].last_page
        BY <1>1, <2>1, <2>5, <2>7
      <3> QED
        BY <1>7, <2>7, <3>1, <3>3, <3>4, <3>5 DEF Nesting
    <2> QED
      BY <1>5, <1>6, <2>8, <2>9, <2>11 DEF IInv
  <1> QED
    BY <1>8, <1>9

-----------------------------------------------------------------------------
(* The theorems. *)

\* The boot hands over a page tree and a free stack that satisfy the invariant.
LEMMA InitIInv == Init => IInv
  <1> SUFFICES ASSUME Init PROVE IInv
    OBVIOUS
  <1>1. /\ tree = InitialTree /\ free_stack = FreeFrames /\ access = NoAccess /\ handlers = <<>>
        /\ baseAddress = NullAddress /\ regions = 0 /\ allocated = {} /\ vfreed = FALSE
        /\ phase = "boot" /\ tlb = [p \in PageBases |-> NoFrame]
        /\ reached = [p \in HeapPages |-> NoFrame] /\ overlaid = {}
        /\ writer = [f \in FrameNumbers |-> NoPage]
    BY DEF Init
  <1>2. Len(RegionBases) \in Nat
    BY LayoutAssumption, LenProperties
  <1>3. NoAccess \in [op : {"none", "touch", "vmalloc", "vfree"}, address : Addresses,
                      block : Blocks \cup {NullAddress}]
    BY HeapLayout DEF NoAccess
  <1>4. TypeOK
    <2>1. /\ tree \in [PageBases -> FrameNumbers \cup {NoFrame}]
          /\ tlb \in [PageBases -> FrameNumbers \cup {NoFrame}]
          /\ reached \in [HeapPages -> FrameNumbers \cup {NoFrame}]
      BY <1>1, Layout
    <2>2. free_stack \in Seq(FrameNumbers) /\ Len(free_stack) <= m_maxSize
      BY <1>1, Layout, LayoutAssumption
    <2>3. handlers \in Seq([cr2 : Addresses, page : PageBases, last_page : PageBases])
      BY <1>1
    <2>4. regions \in 0 .. Len(RegionBases)
      BY <1>1, <1>2
    <2> QED
      BY <1>1, <1>3, <2>1, <2>2, <2>3, <2>4 DEF TypeOK
  <1>5. AccessOK
    BY <1>1 DEF AccessOK
  <1>6. Nesting
    BY <1>1 DEF Nesting
  <1>7. \A q \in PageBases : FramesOf(q) = {InitialTree[q]} \ {NoFrame}
    BY <1>1 DEF FramesOf
  <1>8. Exclusive
    BY <1>1, <1>7, HeapLayout, LayoutAssumption DEF Exclusive
  <1>9. Kept /\ Written
    BY <1>1, HeapLayout DEF Kept, Written
  <1> QED
    BY <1>4, <1>5, <1>6, <1>8, <1>9 DEF IInv

\* Every step of the kernel, of its handlers and of the processor preserves it.
LEMMA NextIInv == IInv /\ [Next]_vars => IInv'
  <1> SUFFICES ASSUME IInv, [Next]_vars PROVE IInv'
    OBVIOUS
  <1>1. CASE complete_access
    BY <1>1, CompleteStep
  <1>2. CASE page_fault
    BY <1>2, FaultStep
  <1>3. CASE sendEndOfInterrupt
    BY <1>3, SendEOIStep
  <1>4. ASSUME NEW tables \in 0 .. MaxTables, allocate_and_map(tables) PROVE IInv'
    BY <1>4, AllocateStep
  <1>5. CASE vmm_init
    <2>1. regions \in 0 .. Len(RegionBases) /\ Len(RegionBases) \in Nat
      BY LayoutAssumption, LenProperties DEF IInv, TypeOK
    <2>2. PICK a : a = RegionBases[regions + 1]
      OBVIOUS
    <2>3. /\ regions < Len(RegionBases) /\ regions' = regions + 1
          /\ begin_access("touch", RegionBases[regions + 1], NullAddress)
      BY <1>5 DEF vmm_init
    <2>4. a \in HeapAddresses
      <3>1. regions + 1 \in 1 .. Len(RegionBases)
        BY <2>1, <2>3
      <3> QED
        BY <2>2, <3>1, LayoutAssumption, ElementOfSeq
    <2>5. regions' \in 0 .. Len(RegionBases)
      BY <2>1, <2>3
    <2>6. begin_access("touch", a, NullAddress)
      BY <2>2, <2>3 DEF begin_access
    <2> QED
      BY <2>4, <2>5, <2>6, BeginAccess
  <1>6. CASE enableAPIC
    BY <1>6, EnableAPICStep
  <1>7. CASE test_paging
    BY <1>7, TestPagingStep
  <1>8. CASE UNCHANGED vars
    <2>1. UNCHANGED <<tree, free_stack, tlb, regions, baseAddress, access, handlers, allocated,
                      vfreed, phase, reached, overlaid, writer>>
      BY <1>8 DEF vars, memoryVars, historyVars
    <2>2. TypeOK' /\ AccessOK'
      BY <2>1 DEF IInv, TypeOK, AccessOK
    <2>3. Nesting'
      BY <2>1 DEF IInv, Nesting, HandlerOK, Mapped, outermost, AboveFree
    <2>4. Exclusive' /\ Kept' /\ Written'
      BY <2>1, MemoryKept
    <2> QED
      BY <2>2, <2>3, <2>4 DEF IInv
  <1>9. CASE kernel_hang
    BY <1>8, <1>9 DEF kernel_hang
  <1>10. ASSUME NEW p \in PageBases, evict(p) PROVE IInv'
    BY <1>10, EvictStep
  <1>11. ASSUME regions' = regions PROVE regions' \in 0 .. Len(RegionBases)
    BY <1>11 DEF IInv, TypeOK
  <1>12. ASSUME NEW a \in HeapAddresses, touch(a) PROVE IInv'
    <2>1. begin_access("touch", a, NullAddress) /\ regions' = regions
      BY <1>12 DEF touch
    <2> QED
      BY <1>11, <2>1, BeginAccess
  <1>13. ASSUME NEW b \in Blocks, vmalloc(b) PROVE IInv'
    <2>1. begin_access("vmalloc", b - 1, b) /\ regions' = regions
      BY <1>13 DEF vmalloc
    <2>2. b - 1 \in HeapAddresses
      BY HeapLayout
    <2> QED
      BY <1>11, <2>1, <2>2, BeginAccess
  <1>14. ASSUME NEW b \in Blocks, vfree(b) PROVE IInv'
    <2>1. begin_access("vfree", b - 1, b) /\ regions' = regions
      BY <1>14 DEF vfree
    <2>2. b - 1 \in HeapAddresses
      BY HeapLayout
    <2> QED
      BY <1>11, <2>1, <2>2, BeginAccess
  <1> QED
    BY <1>1, <1>2, <1>3, <1>4, <1>5, <1>6, <1>7, <1>8, <1>9, <1>10, <1>12, <1>13, <1>14
       DEF Next, Proceed

\* The inductive invariant holds throughout, whatever faults, is evicted, and
\* is allocated or freed.
THEOREM VMInvariant == Spec => []IInv
  BY InitIInv, NextIInv, PTL DEF Spec

\* Addresses, pages and frames stay in range, and the free stack never outgrows
\* the capacity push checks for, however often vfree gives frames back.
THEOREM VMTypeOK == Spec => []TypeOK
  <1>1. IInv => TypeOK
    BY DEF IInv
  <1> QED
    BY <1>1, VMInvariant, PTL

\* Page faults nest at most once, in the end-of-interrupt of a handler that
\* runs before the APIC is mapped: isr_page_fault never recurses.
THEOREM VMFaultsNestOnce == Spec => []FaultsNestOnce
  <1>1. IInv => FaultsNestOnce
    BY DEF IInv, Nesting, FaultsNestOnce
  <1> QED
    BY <1>1, VMInvariant, PTL

\* Until the first vfree no frame of the heap is free or backs another page,
\* although the kernel never invalidates a translation.
THEOREM VMHeapFramesExclusive == Spec => []HeapFramesExclusive
  <1>1. IInv => HeapFramesExclusive
    <2> SUFFICES ASSUME IInv, ~vfreed
                 PROVE  /\ IsInjective(free_stack)
                        /\ \A p \in HeapPages, f \in FrameNumbers : f \in FramesOf(p) =>
                              /\ f \notin Range(free_stack)
                              /\ \A q \in PageBases \ {p} : f \in FramesOf(q) => f = InitialTree[q]
      BY DEF HeapFramesExclusive
    <2>1. /\ IsInjective(free_stack)
          /\ \A q \in PageBases : \A f \in FramesOf(q) :
                f \in Range(free_stack) => f = InitialTree[q]
          /\ \A p \in HeapPages : \A f \in FramesOf(p) :
                \A q \in PageBases \ {p} : f \in FramesOf(q) => f = InitialTree[q]
      BY DEF IInv, Exclusive
    <2>2. ASSUME NEW p \in HeapPages, NEW f \in FrameNumbers, f \in FramesOf(p)
          PROVE  f \notin Range(free_stack)
      <3>1. p \in PageBases /\ InitialTree[p] = NoFrame /\ f # NoFrame
        BY HeapLayout, Layout
      <3> QED
        BY <2>1, <2>2, <3>1
    <2> QED
      BY <2>1, <2>2
  <1> QED
    BY <1>1, VMInvariant, PTL

\* Until the first vfree, what an access wrote to a page of the heap the next
\* one finds: the page keeps its frame in the tree, nothing else is cached for
\* it, and nobody writes to the frame through another page or makes it a table,
\* unless the handler maps the page a second time with the page below.
THEOREM VMWritesKept == Spec => []WritesKept
  <1>1. IInv => WritesKept
    <2> SUFFICES ASSUME IInv, ~vfreed, NEW p \in HeapPages \ overlaid, reached[p] # NoFrame
                 PROVE  FramesOf(p) = {reached[p]} /\ writer[reached[p]] = p
      BY DEF WritesKept
    <2>1. tlb[p] = NoFrame /\ tree[p] = reached[p]
      BY DEF IInv, Kept
    <2>2. writer[reached[p]] = p
      BY DEF IInv, Written
    <2> QED
      BY <2>1, <2>2 DEF FramesOf
  <1> QED
    BY <1>1, VMInvariant, PTL
=============================================================================
