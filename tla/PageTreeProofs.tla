---------------------------- MODULE PageTreeProofs ----------------------------
(***************************************************************************)
(* Proofs about the page tree.                                             *)
(***************************************************************************)
EXTENDS PageTree, TLAPS

-----------------------------------------------------------------------------
(* A page is determined by its four table indices. *)

\* Quotient and remainder by the fanout determine a number.
LEMMA DivMod ==
    ASSUME NEW F \in Nat \ {0}, NEW n \in Nat
    PROVE  /\ n \div F \in Nat /\ n % F \in 0 .. F - 1
           /\ n = F * (n \div F) + (n % F)
  BY SMT

\* A larger factor gives a larger product.
LEMMA MulMonotone ==
    ASSUME NEW F \in Nat, NEW x \in Nat, NEW y \in Nat, x <= y
    PROVE  F * x <= F * y /\ F * x \in Nat
<1>1. F * (y - x) >= 0
  BY SMT
<1>2. F * (y - x) = F * y - F * x
  BY SMT
<1> QED BY <1>1, <1>2, SMT

\* They are the only such pair.
LEMMA DivUnique ==
    ASSUME NEW F \in Nat \ {0}, NEW q \in Nat, NEW r \in 0 .. F - 1
    PROVE  (F * q + r) \div F = q
<1> DEFINE n == F * q + r
<1>0. n \in Nat
  <2>1. F * q \in Nat
    BY SMT
  <2> QED BY <2>1
<1>1. n \div F \in Nat /\ n % F \in 0 .. F - 1 /\ n = F * (n \div F) + (n % F)
  BY <1>0, DivMod
<1> DEFINE a == n \div F
<1>2. F * (a - q) = r - (n % F)
  BY <1>1, SMT
<1>3. a - q < 1
  <2> SUFFICES ASSUME a - q >= 1 PROVE FALSE
    BY <1>1, SMT
  <2>1. F * (a - q) >= F
    BY <1>1, SMT
  <2> QED BY <1>1, <1>2, <2>1, SMT
<1>4. a - q > -1
  <2> SUFFICES ASSUME a - q <= -1 PROVE FALSE
    BY <1>1, SMT
  <2>1. F * (a - q) <= -F
    BY <1>1, SMT
  <2> QED BY <1>1, <1>2, <2>1, SMT
<1> QED BY <1>1, <1>3, <1>4, SMT

\* Dividing twice is dividing by the product.
LEMMA DivDiv ==
    ASSUME NEW F \in Nat \ {0}, NEW G \in Nat \ {0}, NEW n \in Nat
    PROVE  n \div (G * F) = (n \div F) \div G
<1> DEFINE a == n \div F
           b == a \div G
           r == F * (a % G) + (n % F)
<1>1. a \in Nat /\ n % F \in 0 .. F - 1 /\ n = F * a + (n % F)
  BY DivMod
<1>2. b \in Nat /\ a % G \in 0 .. G - 1 /\ a = G * b + (a % G)
  BY <1>1, DivMod
<1> HIDE DEF a, b
<1>3. n = (G * F) * b + r
  <2>1. F * a = F * (G * b) + F * (a % G)
    BY <1>1, <1>2, SMT
  <2>2. F * (G * b) = (G * F) * b
    BY <1>2, SMT
  <2> QED BY <1>1, <1>2, <2>1, <2>2, SMT
<1>4. r \in 0 .. G * F - 1
  <2>1. F * (a % G) <= F * (G - 1) /\ F * (a % G) >= 0
    <3>1. a % G \in Nat /\ G - 1 \in Nat /\ a % G <= G - 1 /\ F \in Nat
      BY <1>2
    <3>2. F * (a % G) <= F * (G - 1) /\ F * (a % G) \in Nat
      BY <3>1, MulMonotone
    <3> QED BY <3>2, SMT
  <2>2. F * (G - 1) = G * F - F
    BY SMT
  <2> QED BY <1>1, <1>2, <2>1, <2>2, SMT
<1>5. G * F \in Nat \ {0}
  BY SMT
<1> HIDE DEF r
<1>6. ((G * F) * b + r) \div (G * F) = b
  BY <1>2, <1>4, <1>5, DivUnique
<1> QED BY <1>3, <1>6 DEF a, b

\* get_table_index loses nothing: pages with the same four indices are equal.
LEMMA IndexInjective ==
    ASSUME NEW p \in Pages, NEW q \in Pages,
           \A d \in 0 .. max_depth : get_table_index(p, d) = get_table_index(q, d)
    PROVE  p = q
<1> DEFINE F == Fanout
<1>0. F \in Nat \ {0} /\ p \in Nat /\ q \in Nat
  BY PageAssumption
<1>1. F * F \in Nat \ {0} /\ (F * F) * F \in Nat \ {0}
  BY <1>0, SMT
<1>2. \A n \in Pages : /\ get_table_index(n, 0) = (n \div ((F * F) * F)) % F
                       /\ get_table_index(n, 1) = (n \div (F * F)) % F
                       /\ get_table_index(n, 2) = (n \div F) % F
                       /\ get_table_index(n, 3) = n % F
  BY DEF get_table_index
<1> DEFINE a(n) == n \div F
           b(n) == a(n) \div F
           c(n) == b(n) \div F
<1>3. ASSUME NEW n \in Pages
      PROVE  /\ a(n) \in Nat /\ b(n) \in Nat /\ c(n) \in Nat
             /\ n = F * a(n) + (n % F)
             /\ a(n) = F * b(n) + (a(n) % F)
             /\ b(n) = F * c(n) + (b(n) % F)
             /\ n \div (F * F) = b(n)
             /\ n \div ((F * F) * F) = c(n)
             /\ c(n) < F
  <2>0. n \in Nat
    BY PageAssumption
  <2>1. a(n) \in Nat /\ n % F \in 0 .. F - 1 /\ n = F * a(n) + (n % F)
    BY <1>0, <2>0, DivMod
  <2>2. b(n) \in Nat /\ a(n) % F \in 0 .. F - 1 /\ a(n) = F * b(n) + (a(n) % F)
    BY <1>0, <2>1, DivMod
  <2>3. c(n) \in Nat /\ b(n) % F \in 0 .. F - 1 /\ b(n) = F * c(n) + (b(n) % F)
    BY <1>0, <2>2, DivMod
  <2>4. n \div (F * F) = b(n)
    BY <1>0, <2>0, DivDiv
  <2>5. n \div ((F * F) * F) = c(n)
    <3>1. n \div ((F * F) * F) = a(n) \div (F * F)
      BY <1>0, <1>1, <2>0, DivDiv
    <3>2. a(n) \div (F * F) = c(n)
      BY <1>0, <2>1, DivDiv
    <3> QED BY <3>1, <3>2
  <2>6. c(n) < F
    <3> DEFINE G == (F * F) * F
    <3>1. n < G * F
      BY <2>0, PageAssumption, SMT
    <3>2. n \div G \in Nat /\ n % G \in 0 .. G - 1 /\ n = G * (n \div G) + (n % G)
      BY <1>1, <2>0, DivMod
    <3> HIDE DEF G, F, c
    <3>3. SUFFICES ASSUME F <= c(n) PROVE FALSE
      BY <1>0, <2>3
    <3>4. G * F <= G * c(n)
      BY <1>0, <1>1, <2>3, <3>3, MulMonotone DEF G
    <3>5. G * F \in Nat /\ G * c(n) \in Nat /\ G \in Nat
      BY <1>0, <1>1, <2>3, SMT DEF G
    <3>6. n \div G = c(n)
      BY <2>5 DEF G
    <3> QED BY <2>0, <3>1, <3>2, <3>4, <3>5, <3>6, SMT
  <2> QED BY <2>1, <2>2, <2>3, <2>4, <2>5, <2>6
<1>4. /\ p % F = q % F /\ a(p) % F = a(q) % F
      /\ b(p) % F = b(q) % F /\ c(p) % F = c(q) % F
  <2>1. /\ get_table_index(p, 0) = get_table_index(q, 0)
        /\ get_table_index(p, 1) = get_table_index(q, 1)
        /\ get_table_index(p, 2) = get_table_index(q, 2)
        /\ get_table_index(p, 3) = get_table_index(q, 3)
    BY DEF max_depth
  <2>2. p \div (F * F) = b(p) /\ p \div ((F * F) * F) = c(p)
    BY <1>3
  <2>3. q \div (F * F) = b(q) /\ q \div ((F * F) * F) = c(q)
    BY <1>3
  <2>4. p % F = q % F /\ (p \div F) % F = (q \div F) % F
    BY <1>2, <2>1
  <2>5. (p \div (F * F)) % F = (q \div (F * F)) % F
    BY <1>2, <2>1
  <2>6. (p \div ((F * F) * F)) % F = (q \div ((F * F) * F)) % F
    BY <1>2, <2>1
  <2> QED BY <2>2, <2>3, <2>4, <2>5, <2>6
<1>5. c(p) = c(q)
  <2>1. c(p) \in Nat /\ c(q) \in Nat /\ c(p) < F /\ c(q) < F
    BY <1>3
  <2> HIDE DEF c, F
  <2> QED BY <1>0, <1>4, <2>1, SMT
<1>6. b(p) = b(q)
  BY <1>3, <1>4, <1>5
<1>7. a(p) = a(q)
  BY <1>3, <1>4, <1>6
<1> QED BY <1>3, <1>4, <1>7

\* get_table_index never leaves the table.
LEMMA IndexType ==
    ASSUME NEW p \in Pages, NEW d \in 0 .. max_depth
    PROVE  get_table_index(p, d) \in Indices
<1> DEFINE F == Fanout
<1>0. F \in Nat \ {0} /\ p \in Nat
  BY PageAssumption
<1>1. F * F \in Nat \ {0} /\ F * F * F \in Nat \ {0}
  BY <1>0, SMT
<1>2. p \div (F * F * F) \in Nat /\ p \div (F * F) \in Nat /\ p \div F \in Nat
  BY <1>0, <1>1, DivMod
<1>3. \A n \in Nat : n % F \in 0 .. F - 1
  BY <1>0, DivMod
<1> QED BY <1>0, <1>2, <1>3 DEF get_table_index, max_depth, Indices

\* The mask of get_child_address keeps an address below the limit.
LEMMA ModSmall ==
    ASSUME NEW L \in Nat \ {0}, NEW x \in 0 .. L - 1
    PROVE  x % L = x
  BY SMT

-----------------------------------------------------------------------------
(* Chains of tables, for any contents ent of the frames and any root. *)

Depths == 0 .. max_depth

ChildIn(ent, node, p, d) ==
    IF node = 0 THEN 0 ELSE ent[node][get_table_index(p, d)].address

Chain(ent, root, p, d) ==
    CASE d = 0 -> root
      [] d = 1 -> ChildIn(ent, root, p, 0)
      [] d = 2 -> ChildIn(ent, ChildIn(ent, root, p, 0), p, 1)
      [] d = 3 -> ChildIn(ent, ChildIn(ent, ChildIn(ent, root, p, 0), p, 1), p, 2)

\* The table of a depth is the child of the table above it.
LEMMA ChainStep ==
    ASSUME NEW ent, NEW root, NEW p
    PROVE  /\ Chain(ent, root, p, 0) = root
           /\ \A d \in 0 .. 2 :
                 Chain(ent, root, p, d + 1) = ChildIn(ent, Chain(ent, root, p, d), p, d)
<1>1. /\ Chain(ent, root, p, 0) = root
      /\ Chain(ent, root, p, 1) = ChildIn(ent, Chain(ent, root, p, 0), p, 0)
      /\ Chain(ent, root, p, 2) = ChildIn(ent, Chain(ent, root, p, 1), p, 1)
      /\ Chain(ent, root, p, 3) = ChildIn(ent, Chain(ent, root, p, 2), p, 2)
  BY DEF Chain
<1>2. \A d \in 0 .. 2 : d = 0 \/ d = 1 \/ d = 2
  BY SMT
<1>3. 0 + 1 = 1 /\ 1 + 1 = 2 /\ 2 + 1 = 3
  BY SMT
<1> QED BY <1>1, <1>2, <1>3, Zenon

\* Induction over the four depths.
LEMMA DepthInduction ==
    ASSUME NEW S, 0 \in S, \A d \in 0 .. 2 : d \in S => d + 1 \in S
    PROVE  Depths \subseteq S
<1>1. 1 \in S
  <2>1. 0 \in 0 .. 2 /\ 0 + 1 = 1
    BY SMT
  <2> QED BY <2>1
<1>2. 2 \in S
  <2>1. 1 \in 0 .. 2 /\ 1 + 1 = 2
    BY SMT
  <2> QED BY <1>1, <2>1
<1>3. 3 \in S
  <2>1. 2 \in 0 .. 2 /\ 2 + 1 = 3
    BY SMT
  <2> QED BY <1>2, <2>1
<1>4. \A d \in Depths : d = 0 \/ d = 1 \/ d = 2 \/ d = 3
  BY SMT DEF Depths, max_depth
<1> QED BY <1>1, <1>2, <1>3, <1>4

\* Pages that agree down to a depth share the table of that depth.
LEMMA SamePathChain ==
    ASSUME NEW ent, NEW root, NEW p \in Pages, NEW q \in Pages
    PROVE  \A d \in Depths :
               SamePath(p, q, d) => Chain(ent, root, p, d) = Chain(ent, root, q, d)
<1> DEFINE S == {d \in Depths :
                   SamePath(p, q, d) => Chain(ent, root, p, d) = Chain(ent, root, q, d)}
<1>1. 0 \in S
  BY ChainStep DEF Depths, max_depth
<1>2. ASSUME NEW d \in 0 .. 2, d \in S PROVE d + 1 \in S
  <2>1. SUFFICES ASSUME SamePath(p, q, d + 1)
                 PROVE  Chain(ent, root, p, d + 1) = Chain(ent, root, q, d + 1)
    BY <1>2 DEF Depths, max_depth
  <2>2. SamePath(p, q, d) /\ get_table_index(p, d) = get_table_index(q, d)
    BY <2>1 DEF SamePath
  <2>3. Chain(ent, root, p, d) = Chain(ent, root, q, d)
    BY <1>2, <2>2
  <2> QED BY <2>2, <2>3, ChainStep DEF ChildIn
<1>3. Depths \subseteq S
  <2> HIDE DEF S
  <2> QED BY <1>1, <1>2, DepthInduction
<1> QED BY <1>3

\* The tables form a tree, and none of them is in the set avail.
IsTree(ent, root, avail) ==
    \A p, q \in Pages, d, e \in Depths :
        Chain(ent, root, p, d) # 0 =>
            /\ Chain(ent, root, p, d) \in TableFrames \ avail
            /\ Chain(ent, root, p, d) = Chain(ent, root, q, e) =>
                   d = e /\ SamePath(p, q, d)

\* Only the addresses in the tables above the last level matter.
LEMMA ChainSame ==
    ASSUME NEW ent, NEW ent2, NEW root,
           \A p \in Pages, d \in 0 .. 2 :
               Chain(ent, root, p, d) # 0 =>
                   ent2[Chain(ent, root, p, d)][get_table_index(p, d)].address
                     = ent[Chain(ent, root, p, d)][get_table_index(p, d)].address
    PROVE  \A p \in Pages, d \in Depths : Chain(ent2, root, p, d) = Chain(ent, root, p, d)
<1> TAKE p \in Pages
<1> DEFINE S == {d \in Depths : Chain(ent2, root, p, d) = Chain(ent, root, p, d)}
<1>1. 0 \in S
  BY ChainStep DEF Depths, max_depth
<1>2. ASSUME NEW d \in 0 .. 2, d \in S PROVE d + 1 \in S
  <2>1. d \in Depths /\ d + 1 \in Depths
    BY DEF Depths, max_depth
  <2> QED BY <1>2, <2>1, ChainStep DEF ChildIn
<1>3. Depths \subseteq S
  <2> HIDE DEF S
  <2> QED BY <1>1, <1>2, DepthInduction
<1> QED BY <1>3

\* A new empty table f in the entry of page at depth k lengthens by one the
\* chains of the pages that go through this entry, and no other.
LEMMA ChainGrow ==
    ASSUME NEW ent, NEW ent2, NEW root, NEW avail, NEW f \in TableFrames \cap avail,
           NEW page \in Pages, NEW k \in 0 .. 2,
           IsTree(ent, root, avail),
           Chain(ent, root, page, k) # 0,
           Chain(ent, root, page, k + 1) = 0,
           \A n \in TableFrames, i \in Indices :
               ent2[n][i].address =
                   IF n = f THEN 0
                   ELSE IF n = Chain(ent, root, page, k) /\ i = get_table_index(page, k)
                        THEN f ELSE ent[n][i].address
    PROVE  \A p \in Pages, d \in Depths :
               Chain(ent2, root, p, d) =
                   IF d = k + 1 /\ SamePath(p, page, k + 1) THEN f
                   ELSE Chain(ent, root, p, d)
<1> TAKE p \in Pages
<1> DEFINE T(d) == Chain(ent, root, p, d)
           Goal(d) == Chain(ent2, root, p, d) =
                          IF d = k + 1 /\ SamePath(p, page, k + 1) THEN f ELSE T(d)
           S == {d \in Depths : Goal(d)}
<1>0. k \in Depths /\ k + 1 \in Depths /\ f # 0
  BY TableAssumption DEF Depths, max_depth
<1>1. 0 \in S
  BY ChainStep DEF Depths, max_depth
<1>2. ASSUME NEW d \in 0 .. 2, d \in S PROVE d + 1 \in S
  <2>1. d \in Depths /\ d + 1 \in Depths /\ (d + 1 = k + 1 <=> d = k)
    BY DEF Depths, max_depth
  <2>2. get_table_index(p, d) \in Indices
    BY <2>1, IndexType DEF Depths
  <2>3. /\ Chain(ent2, root, p, d + 1) = ChildIn(ent2, Chain(ent2, root, p, d), p, d)
        /\ T(d + 1) = ChildIn(ent, T(d), p, d)
    BY ChainStep
  <2>4. SamePath(p, page, k + 1) => T(k) = Chain(ent, root, page, k) /\ T(k + 1) = 0
    <3> SUFFICES ASSUME SamePath(p, page, k + 1)
                 PROVE  T(k) = Chain(ent, root, page, k) /\ T(k + 1) = 0
      OBVIOUS
    <3>1. SamePath(p, page, k)
      BY DEF SamePath
    <3> QED BY <1>0, <3>1, SamePathChain
  <2>5. CASE d = k + 1 /\ SamePath(p, page, k + 1)
    <3>1. Chain(ent2, root, p, d) = f /\ T(d) = 0
      BY <1>2, <2>4, <2>5
    <3>2. ent2[f][get_table_index(p, d)].address = 0
      BY <2>2
    <3>3. Chain(ent2, root, p, d + 1) = 0 /\ T(d + 1) = 0
      BY <1>0, <2>3, <3>1, <3>2 DEF ChildIn
    <3> QED BY <2>1, <2>5, <3>3
  <2>6. CASE ~(d = k + 1 /\ SamePath(p, page, k + 1)) /\ T(d) = 0
    <3>1. Chain(ent2, root, p, d + 1) = 0 /\ T(d + 1) = 0
      BY <1>2, <2>3, <2>6 DEF ChildIn
    <3>2. ~(d = k /\ SamePath(p, page, k + 1))
      BY <2>4, <2>6
    <3> QED BY <2>1, <3>1, <3>2
  <2>7. CASE ~(d = k + 1 /\ SamePath(p, page, k + 1)) /\ T(d) # 0
    <3>1. Chain(ent2, root, p, d) = T(d)
      BY <1>2, <2>7
    <3>2. T(d) \in TableFrames /\ T(d) # f
      BY <2>1, <2>7 DEF IsTree
    <3>3. T(d) = Chain(ent, root, page, k) <=> d = k /\ SamePath(p, page, k)
      BY <1>0, <2>1, <2>7, SamePathChain DEF IsTree
    <3>4. d = k => (SamePath(p, page, k + 1) <=>
                       SamePath(p, page, k) /\ get_table_index(p, d) = get_table_index(page, k))
      BY DEF SamePath
    <3>5. Chain(ent2, root, p, d + 1) =
              IF d = k /\ SamePath(p, page, k + 1) THEN f ELSE T(d + 1)
      BY <2>2, <2>3, <2>7, <3>1, <3>2, <3>3, <3>4 DEF ChildIn
    <3> QED BY <2>1, <3>5
  <2> QED BY <2>5, <2>6, <2>7
<1>3. Depths \subseteq S
  <2> HIDE DEF S
  <2> QED BY <1>1, <1>2, DepthInduction
<1> QED BY <1>3

\* A chain that reaches a depth reaches every depth above it.
LEMMA ChainPrefix ==
    ASSUME NEW ent, NEW root, NEW p, NEW k \in Depths, NEW d \in 0 .. k,
           Chain(ent, root, p, k) # 0
    PROVE  Chain(ent, root, p, d) # 0
<1> DEFINE C(i) == Chain(ent, root, p, i)
<1>1. \A i \in 0 .. 2 : C(i) = 0 => C(i + 1) = 0
  BY ChainStep DEF ChildIn
<1>2. (C(0) = 0 => C(1) = 0) /\ (C(1) = 0 => C(2) = 0) /\ (C(2) = 0 => C(3) = 0)
  <2>1. 0 \in 0 .. 2 /\ 1 \in 0 .. 2 /\ 2 \in 0 .. 2 /\ 0 + 1 = 1 /\ 1 + 1 = 2 /\ 2 + 1 = 3
    BY SMT
  <2> HIDE DEF C
  <2>2. (C(0) = 0 => C(0 + 1) = 0) /\ (C(1) = 0 => C(1 + 1) = 0)
        /\ (C(2) = 0 => C(2 + 1) = 0)
    BY <1>1, <2>1
  <2> QED BY <2>1, <2>2
<1>3. k \in 0 .. 3
  BY DEF Depths, max_depth
<1>4. C(k) # 0
  OBVIOUS
<1> HIDE DEF C
<1>5. C(d) # 0
  BY <1>2, <1>3, <1>4, SMT
<1> QED BY <1>5 DEF C

-----------------------------------------------------------------------------
(* The inductive invariant. *)

\* Nothing is lost when an address is read back.
Bounded ==
    \A n \in TableFrames, i \in Indices : entries_[n][i].address \in 0 .. AddressLimit - 1

\* The walk is where the page's indices lead, and has set the flags it passed.
WalkOnPath ==
    phase = "mapping" =>
        /\ curr # 0 /\ curr = Chain(entries_, root_, call.page, depth)
        /\ \A d \in 0 .. depth - 1 :
              entries_[Chain(entries_, root_, call.page, d)]
                      [get_table_index(call.page, d)].flags = call.flags \cup {Present}

RootSet ==
    /\ phase = "boot" => root_ = 0
    /\ phase \in {"ready", "mapping"} => root_ # 0

IInv == TypeOK /\ Bounded /\ RootSet /\ IsTree(entries_, root_, free) /\ WalkOnPath

\* get_child_address returns the address that is in the entry.
LEMMA AddressReadBack ==
    ASSUME IInv, NEW n \in TableFrames, NEW i \in Indices
    PROVE  get_child_address(n, i) = entries_[n][i].address
  BY ModSmall, TableAssumption DEF IInv, Bounded, get_child_address

\* The walk of get_translation follows the chain.
LEMMA TableIsChain ==
    ASSUME IInv
    PROVE  \A p \in Pages, d \in Depths : table(p, d) = Chain(entries_, root_, p, d)
<1> TAKE p \in Pages
<1> DEFINE C(d) == Chain(entries_, root_, p, d)
<1>1. ASSUME NEW d \in 0 .. 2
      PROVE  child(C(d), p, d) = C(d + 1)
  <2>1. d \in Depths /\ get_table_index(p, d) \in Indices
    BY IndexType DEF Depths, max_depth
  <2>2. C(d) = 0 \/ C(d) \in TableFrames
    BY <2>1 DEF IInv, IsTree
  <2>3. C(d) # 0 => get_child_address(C(d), get_table_index(p, d))
                      = entries_[C(d)][get_table_index(p, d)].address
    BY <2>1, <2>2, AddressReadBack
  <2> QED BY <2>3, ChainStep DEF child, ChildIn
<1>2. C(0) = root_
  BY ChainStep
<1>3. child(root_, p, 0) = C(1) /\ child(C(1), p, 1) = C(2) /\ child(C(2), p, 2) = C(3)
  <2>1. 0 \in 0 .. 2 /\ 1 \in 0 .. 2 /\ 2 \in 0 .. 2 /\ 0 + 1 = 1 /\ 1 + 1 = 2 /\ 2 + 1 = 3
    BY SMT
  <2> HIDE DEF C
  <2>2. child(C(0), p, 0) = C(0 + 1) /\ child(C(1), p, 1) = C(1 + 1)
        /\ child(C(2), p, 2) = C(2 + 1)
    BY <1>1, <2>1
  <2> QED BY <1>2, <2>1, <2>2
<1>4. \A d \in Depths : d = 0 \/ d = 1 \/ d = 2 \/ d = 3
  BY SMT DEF Depths, max_depth
<1>5. table(p, 0) = C(0) /\ table(p, 1) = C(1) /\ table(p, 2) = C(2) /\ table(p, 3) = C(3)
  <2> HIDE DEF C
  <2> QED BY <1>2, <1>3 DEF table
<1> QED BY <1>4, <1>5, Zenon

\* The initial states satisfy the invariant.
LEMMA PageTreeInit ==
    ASSUME Init PROVE IInv
<1>1. TypeOK
  BY DEF Init, TypeOK, Entries, Empty, max_depth
<1>2. \A n \in TableFrames, i \in Indices : entries_[n][i].address = 0
  BY DEF Init, Empty
<1>3. Bounded
  <2>1. AddressLimit \in Nat \ {0}
    BY TableAssumption
  <2>2. 0 \in 0 .. AddressLimit - 1
    BY <2>1
  <2> QED BY <1>2, <2>2 DEF Bounded
<1>4. \A p \in Pages : \A d \in Depths : Chain(entries_, root_, p, d) = 0
  <2> TAKE p \in Pages
  <2> DEFINE S == {d \in Depths : Chain(entries_, root_, p, d) = 0}
  <2>1. 0 \in S
    BY ChainStep DEF Init, Depths, max_depth
  <2>2. ASSUME NEW d \in 0 .. 2, d \in S PROVE d + 1 \in S
    BY <2>2, ChainStep DEF ChildIn, Depths, max_depth
  <2>3. Depths \subseteq S
    <3> HIDE DEF S
    <3> QED BY <2>1, <2>2, DepthInduction
  <2> QED BY <2>3
<1>5. IsTree(entries_, root_, free)
  BY <1>4 DEF IsTree
<1> QED BY <1>1, <1>3, <1>5 DEF IInv, Init, RootSet, WalkOnPath

\* What an update of one entry does, entry by entry.
LEMMA EntryUpdate ==
    ASSUME NEW ent \in [TableFrames -> [Indices -> Entries]],
           NEW n0 \in TableFrames, NEW i0 \in Indices, NEW e0 \in Entries
    PROVE  /\ [ent EXCEPT ![n0][i0] = e0] \in [TableFrames -> [Indices -> Entries]]
           /\ \A n \in TableFrames, i \in Indices :
                 [ent EXCEPT ![n0][i0] = e0][n][i] =
                     IF n = n0 /\ i = i0 THEN e0 ELSE ent[n][i]
  OBVIOUS

\* The flags written by set_child_flags are flags of an entry.
LEMMA FlagSetType ==
    ASSUME NEW flags \in FlagSets
    PROVE  flags \cup {Present}
               \in SUBSET {Present, Write, "User", "WriteThrough", "CacheDisable"}
  BY PageAssumption

\* Where the walk stands.
LEMMA WalkFacts ==
    ASSUME IInv, phase = "mapping"
    PROVE  /\ call.page \in Pages /\ call.frame \in Frames /\ call.flags \in FlagSets
           /\ depth \in Depths /\ child_index \in Indices
           /\ curr \in TableFrames \ free
           /\ curr = Chain(entries_, root_, call.page, depth)
           /\ child_address = entries_[curr][child_index].address
<1>1. /\ call.page \in Pages /\ call.frame \in Frames /\ call.flags \in FlagSets
      /\ depth \in Depths
  BY DEF IInv, TypeOK, Depths
<1>2. child_index \in Indices
  BY <1>1, IndexType DEF child_index, Depths
<1>3. curr # 0 /\ curr = Chain(entries_, root_, call.page, depth)
  BY DEF IInv, WalkOnPath
<1>4. curr \in TableFrames \ free
  BY <1>1, <1>3 DEF IInv, IsTree
<1>5. child_address = entries_[curr][child_index].address
  BY <1>2, <1>4, AddressReadBack DEF child_address
<1> QED BY <1>1, <1>2, <1>3, <1>4, <1>5

\* Going down one existing level changes flags only.
LEMMA DescendStep ==
    ASSUME IInv, descend
    PROVE  /\ IInv'
           /\ \A p \in Pages, d \in Depths :
                 Chain(entries_', root_', p, d) = Chain(entries_, root_, p, d)
           /\ \A n \in TableFrames, i \in Indices :
                 entries_'[n][i] = IF n = curr /\ i = child_index
                                   THEN [entries_[n][i] EXCEPT !.flags = call.flags \cup {Present}]
                                   ELSE entries_[n][i]
<1> DEFINE e0 == [entries_[curr][child_index] EXCEPT !.flags = call.flags \cup {Present}]
<1>0. /\ phase = "mapping" /\ depth < max_depth /\ child_address # 0
      /\ entries_' = [entries_ EXCEPT ![curr][child_index] = e0]
      /\ curr' = child_address /\ depth' = depth + 1
      /\ UNCHANGED <<free, root_, phase, call>>
  BY DEF descend, Walking, set_child_flags
<1>1. /\ call.page \in Pages /\ call.frame \in Frames /\ call.flags \in FlagSets
      /\ depth \in Depths /\ child_index \in Indices
      /\ curr \in TableFrames \ free
      /\ curr = Chain(entries_, root_, call.page, depth)
      /\ child_address = entries_[curr][child_index].address
  BY <1>0, WalkFacts
<1>2. entries_ \in [TableFrames -> [Indices -> Entries]]
  BY DEF IInv, TypeOK
<1>3. e0 \in Entries /\ e0.address = entries_[curr][child_index].address
      /\ e0.flags = call.flags \cup {Present}
  <2>1. entries_[curr][child_index] \in Entries
    BY <1>1, <1>2
  <2>2. call.flags \cup {Present}
            \in SUBSET {Present, Write, "User", "WriteThrough", "CacheDisable"}
    BY <1>1, FlagSetType
  <2> QED BY <2>1, <2>2 DEF Entries
<1>4. /\ entries_' \in [TableFrames -> [Indices -> Entries]]
      /\ \A n \in TableFrames, i \in Indices :
            entries_'[n][i] = IF n = curr /\ i = child_index THEN e0 ELSE entries_[n][i]
  <2> HIDE DEF e0
  <2> QED BY <1>0, <1>1, <1>2, <1>3, EntryUpdate
<1>5. \A n \in TableFrames, i \in Indices : entries_'[n][i].address = entries_[n][i].address
  <2> HIDE DEF e0
  <2> QED BY <1>3, <1>4
<1>6. \A p \in Pages, d \in Depths :
          Chain(entries_', root_', p, d) = Chain(entries_, root_, p, d)
  <2>1. IsTree(entries_, root_, free)
    BY DEF IInv
  <2>2. ASSUME NEW p \in Pages, NEW d \in 0 .. 2, Chain(entries_, root_, p, d) # 0
        PROVE  entries_'[Chain(entries_, root_, p, d)][get_table_index(p, d)].address
                 = entries_[Chain(entries_, root_, p, d)][get_table_index(p, d)].address
    <3>1. d \in Depths /\ get_table_index(p, d) \in Indices
      BY IndexType DEF Depths, max_depth
    <3>2. Chain(entries_, root_, p, d) \in TableFrames
      BY <2>1, <2>2, <3>1 DEF IsTree
    <3> QED BY <1>5, <3>1, <3>2
  <2>3. \A p \in Pages, d \in Depths :
            Chain(entries_', root_, p, d) = Chain(entries_, root_, p, d)
    BY <2>2, ChainSame
  <2> QED BY <1>0, <2>3
<1>7. child_address = Chain(entries_, root_, call.page, depth + 1)
  <2>1. depth \in 0 .. 2
    BY <1>0, <1>1 DEF Depths, max_depth
  <2>2. curr # 0
    BY <1>1, TableAssumption
  <2> QED BY <1>1, <2>1, <2>2, ChainStep DEF ChildIn, child_index
<1>8. TypeOK'
  <2>1. child_address \in TableFrames
    BY <1>0, <1>1, <1>7 DEF IInv, IsTree, Depths, max_depth
  <2>2. depth + 1 \in 0 .. max_depth
    BY <1>0, <1>1 DEF Depths, max_depth
  <2> QED BY <1>0, <1>4, <2>1, <2>2 DEF IInv, TypeOK
<1>9. Bounded'
  BY <1>5 DEF IInv, Bounded
<1>10. IsTree(entries_, root_, free)'
  <2>1. IsTree(entries_', root_', free)
    BY <1>6 DEF IInv, IsTree
  <2> QED BY <1>0, <2>1
<1>11. WalkOnPath'
  <2>1. curr' # 0 /\ curr' = Chain(entries_', root_', call'.page, depth')
    <3>1. depth + 1 \in Depths
      BY <1>0, <1>1 DEF Depths, max_depth
    <3> QED BY <1>0, <1>1, <1>6, <1>7, <3>1
  <2>2. ASSUME NEW d \in 0 .. depth' - 1
        PROVE  entries_'[Chain(entries_', root_', call'.page, d)]
                      [get_table_index(call'.page, d)].flags = call'.flags \cup {Present}
    <3>1. d \in Depths /\ (d = depth \/ d \in 0 .. depth - 1)
      BY <1>0, <1>1 DEF Depths, max_depth
    <3>2. call' = call /\ Chain(entries_', root_', call.page, d) = Chain(entries_, root_, call.page, d)
      BY <1>0, <1>1, <1>6, <3>1
    <3> HIDE DEF e0
    <3>3. CASE d = depth
      BY <1>1, <1>3, <1>4, <3>2, <3>3 DEF child_index
    <3>4. CASE d \in 0 .. depth - 1
      <4>1. Chain(entries_, root_, call.page, d) # 0
        <5>1. d \in 0 .. depth
          BY <1>1, <3>4 DEF Depths, max_depth
        <5>2. Chain(entries_, root_, call.page, depth) # 0
          BY <1>1, TableAssumption
        <5> QED BY <1>1, <5>1, <5>2, ChainPrefix
      <4>2. /\ Chain(entries_, root_, call.page, d) \in TableFrames
            /\ Chain(entries_, root_, call.page, d) # curr
        BY <1>1, <3>1, <3>4, <4>1 DEF IInv, IsTree
      <4>3. get_table_index(call.page, d) \in Indices
        BY <1>1, <3>1, IndexType DEF Depths
      <4>4. entries_[Chain(entries_, root_, call.page, d)]
                    [get_table_index(call.page, d)].flags = call.flags \cup {Present}
        BY <1>0, <3>4 DEF IInv, WalkOnPath
      <4> QED BY <1>4, <3>2, <4>2, <4>3, <4>4
    <3> QED BY <3>1, <3>3, <3>4
  <2> QED BY <2>1, <2>2 DEF WalkOnPath
<1>12. RootSet'
  BY <1>0 DEF IInv, RootSet
<1>13. IInv'
  BY <1>8, <1>9, <1>10, <1>11, <1>12 DEF IInv
<1>14. \A n \in TableFrames, i \in Indices :
          entries_'[n][i] = IF n = curr /\ i = child_index
                            THEN [entries_[n][i] EXCEPT !.flags = call.flags \cup {Present}]
                            ELSE entries_[n][i]
  BY <1>4
<1> QED BY <1>6, <1>13, <1>14

\* A new table leaves the tree a tree.
LEMMA GrowStep ==
    ASSUME IInv, AllAddressable, NEW f \in free, grow(f)
    PROVE  /\ IInv'
           /\ \A p \in Pages, d \in Depths :
                 Chain(entries_', root_', p, d) =
                     IF d = depth + 1 /\ SamePath(p, call.page, depth + 1) THEN f
                     ELSE Chain(entries_, root_, p, d)
           /\ \A n \in TableFrames, i \in Indices :
                 entries_'[n][i] = IF n = f THEN Empty
                                   ELSE IF n = curr /\ i = child_index
                                        THEN [address |-> f, flags |-> call.flags \cup {Present}]
                                        ELSE entries_[n][i]
<1> DEFINE e0 == [address |-> f, flags |-> call.flags \cup {Present}]
           mid == [entries_ EXCEPT ![f] = [i \in Indices |-> Empty]]
           C(p, d) == Chain(entries_, root_, p, d)
<1>0. /\ phase = "mapping" /\ depth < max_depth /\ child_address = 0
      /\ entries_' = [mid EXCEPT ![curr][child_index] = e0]
      /\ free' = free \ {f}
      /\ curr' = f /\ depth' = depth + 1
      /\ UNCHANGED <<root_, phase, call>>
  <2>1. \A e : set_child_flags(set_child_address(e, f), call.flags) = e0
    BY DEF set_child_flags, set_child_address
  <2> HIDE DEF e0
  <2>2. entries_' = [mid EXCEPT ![curr][child_index] = e0]
    BY <2>1 DEF grow
  <2> QED BY <2>2 DEF grow, Walking
<1>1. /\ call.page \in Pages /\ call.frame \in Frames /\ call.flags \in FlagSets
      /\ depth \in Depths /\ child_index \in Indices
      /\ curr \in TableFrames \ free
      /\ curr = C(call.page, depth)
      /\ child_address = entries_[curr][child_index].address
  BY <1>0, WalkFacts
<1>2. entries_ \in [TableFrames -> [Indices -> Entries]] /\ f \in TableFrames /\ f # curr
      /\ f # 0 /\ f \in 0 .. AddressLimit - 1 /\ curr # 0 /\ IsTree(entries_, root_, free)
  <2>1. entries_ \in [TableFrames -> [Indices -> Entries]] /\ f \in TableFrames
        /\ IsTree(entries_, root_, free)
    BY DEF IInv, TypeOK
  <2>2. f # 0 /\ curr # 0 /\ f \in Nat
    BY <1>1, <2>1, TableAssumption
  <2> QED BY <1>1, <2>1, <2>2 DEF AllAddressable
<1>3. e0 \in Entries /\ Empty \in Entries
  <2>1. call.flags \cup {Present}
            \in SUBSET {Present, Write, "User", "WriteThrough", "CacheDisable"}
    BY <1>1, FlagSetType
  <2> QED BY <1>2, <2>1, TableAssumption DEF Entries, Empty
<1>4. /\ mid \in [TableFrames -> [Indices -> Entries]]
      /\ \A n \in TableFrames, i \in Indices :
            mid[n][i] = IF n = f THEN Empty ELSE entries_[n][i]
  <2> HIDE DEF e0, Empty
  <2> QED BY <1>2, <1>3
<1>5. /\ entries_' \in [TableFrames -> [Indices -> Entries]]
      /\ \A n \in TableFrames, i \in Indices :
            entries_'[n][i] = IF n = curr /\ i = child_index THEN e0 ELSE mid[n][i]
  <2> HIDE DEF e0, mid
  <2> QED BY <1>0, <1>1, <1>3, <1>4, EntryUpdate
<1>6. \A n \in TableFrames, i \in Indices :
          entries_'[n][i] = IF n = f THEN Empty
                            ELSE IF n = curr /\ i = child_index THEN e0 ELSE entries_[n][i]
  <2> HIDE DEF e0, mid
  <2> QED BY <1>2, <1>4, <1>5
<1>7. \A n \in TableFrames, i \in Indices :
          entries_'[n][i].address =
              IF n = f THEN 0
              ELSE IF n = curr /\ i = child_index THEN f ELSE entries_[n][i].address
  <2>1. e0.address = f /\ Empty.address = 0
    BY DEF Empty
  <2> HIDE DEF e0, mid
  <2> QED BY <1>6, <2>1
<1>8. depth \in 0 .. 2 /\ depth + 1 \in Depths
  BY <1>0, <1>1 DEF Depths, max_depth
<1>9. C(call.page, depth + 1) = 0
  BY <1>0, <1>1, <1>2, <1>8, ChainStep DEF ChildIn, child_index
<1>10. \A p \in Pages, d \in Depths :
          Chain(entries_', root_', p, d) =
              IF d = depth + 1 /\ SamePath(p, call.page, depth + 1) THEN f ELSE C(p, d)
  <2>1. f \in TableFrames \cap free /\ C(call.page, depth) # 0
    BY <1>1, <1>2
  <2>2. \A n \in TableFrames, i \in Indices :
          entries_'[n][i].address =
              IF n = f THEN 0
              ELSE IF n = C(call.page, depth) /\ i = get_table_index(call.page, depth)
                   THEN f ELSE entries_[n][i].address
    BY <1>1, <1>7 DEF child_index
  <2>3. \A p \in Pages, d \in Depths :
          Chain(entries_', root_, p, d) =
              IF d = depth + 1 /\ SamePath(p, call.page, depth + 1) THEN f ELSE C(p, d)
    <3>1. call.page \in Pages /\ depth \in 0 .. 2 /\ IsTree(entries_, root_, free)
      BY <1>1, <1>2, <1>8
    <3> QED BY <1>9, <2>1, <2>2, <3>1, ChainGrow
  <2> QED BY <1>0, <2>3
<1>11. IsTree(entries_', root_', free')
  <2> DEFINE D(p, d) == Chain(entries_', root_', p, d)
  <2> SUFFICES ASSUME NEW p \in Pages, NEW q \in Pages, NEW d \in Depths, NEW e \in Depths,
                      D(p, d) # 0
               PROVE  /\ D(p, d) \in TableFrames \ free'
                      /\ D(p, d) = D(q, e) => d = e /\ SamePath(p, q, d)
    BY DEF IsTree
  <2>1. /\ D(p, d) = IF d = depth + 1 /\ SamePath(p, call.page, depth + 1) THEN f ELSE C(p, d)
        /\ D(q, e) = IF e = depth + 1 /\ SamePath(q, call.page, depth + 1) THEN f ELSE C(q, e)
    BY <1>10
  <2>2. C(p, d) # f /\ C(q, e) # f
    BY <1>2 DEF IsTree
  <2>3. C(p, d) # 0 => /\ C(p, d) \in TableFrames \ free
                       /\ C(p, d) = C(q, e) => d = e /\ SamePath(p, q, d)
    BY <1>2 DEF IsTree
  <2> HIDE DEF C, D
  <2>4. CASE d = depth + 1 /\ SamePath(p, call.page, depth + 1)
    <3>1. D(p, d) = D(q, e) => e = depth + 1 /\ SamePath(q, call.page, depth + 1)
      BY <2>1, <2>2, <2>4
    <3>2. SamePath(q, call.page, depth + 1) => SamePath(p, q, depth + 1)
      BY <2>4 DEF SamePath
    <3> QED BY <1>0, <1>2, <2>1, <2>4, <3>1, <3>2
  <2>5. CASE ~(d = depth + 1 /\ SamePath(p, call.page, depth + 1))
    BY <1>0, <2>1, <2>2, <2>3, <2>5
  <2> QED BY <2>4, <2>5
<1>12. TypeOK'
  BY <1>0, <1>2, <1>5, <1>8 DEF IInv, TypeOK, Depths
<1>13. Bounded'
  <2>1. \A n \in TableFrames, i \in Indices :
            entries_[n][i].address \in 0 .. AddressLimit - 1
    BY DEF IInv, Bounded
  <2>2. 0 \in 0 .. AddressLimit - 1
    <3>1. AddressLimit \in Nat \ {0}
      BY TableAssumption
    <3> QED BY <3>1
  <2> QED BY <1>2, <1>7, <2>1, <2>2 DEF Bounded
<1>14. RootSet'
  BY <1>0 DEF IInv, RootSet
<1>15. WalkOnPath'
  <2>1. curr' # 0 /\ curr' = Chain(entries_', root_', call'.page, depth')
    <3>1. SamePath(call.page, call.page, depth + 1)
      BY DEF SamePath
    <3> QED BY <1>0, <1>1, <1>2, <1>8, <1>10, <3>1
  <2>2. ASSUME NEW d \in 0 .. depth' - 1
        PROVE  entries_'[Chain(entries_', root_', call'.page, d)]
                      [get_table_index(call'.page, d)].flags = call'.flags \cup {Present}
    <3>1. d \in Depths /\ d # depth + 1 /\ d \in 0 .. depth /\ (d = depth \/ d \in 0 .. depth - 1)
      BY <1>0, <1>1 DEF Depths, max_depth
    <3>2. call' = call /\ Chain(entries_', root_', call.page, d) = C(call.page, d)
      BY <1>0, <1>1, <1>10, <3>1
    <3>3. C(call.page, d) # 0
      BY <1>1, <1>2, <3>1, ChainPrefix
    <3>4. /\ C(call.page, d) \in TableFrames /\ C(call.page, d) # f
          /\ d # depth => C(call.page, d) # curr
      BY <1>1, <1>2, <3>1, <3>3 DEF IsTree
    <3>5. get_table_index(call.page, d) \in Indices
      BY <1>1, <3>1, IndexType DEF Depths
    <3>6. CASE d = depth
      <4>1. e0.flags = call.flags \cup {Present}
        OBVIOUS
      <4> HIDE DEF e0
      <4> QED BY <1>1, <1>2, <1>6, <3>2, <3>6, <4>1 DEF child_index
    <3>7. CASE d \in 0 .. depth - 1
      <4>1. entries_[C(call.page, d)][get_table_index(call.page, d)].flags
              = call.flags \cup {Present}
        BY <1>0, <3>7 DEF IInv, WalkOnPath
      <4>2. d # depth
        BY <1>1, <3>7 DEF Depths, max_depth
      <4> HIDE DEF e0, C
      <4> QED BY <1>6, <3>2, <3>4, <3>5, <4>1, <4>2
    <3> QED BY <3>1, <3>6, <3>7
  <2> QED BY <2>1, <2>2 DEF WalkOnPath
<1>16. IInv'
  BY <1>11, <1>12, <1>13, <1>14, <1>15 DEF IInv
<1> QED BY <1>6, <1>10, <1>16

\* The last step writes one entry of the last level and moves no table.
LEMMA LeafStep ==
    ASSUME IInv, AllAddressable, set_leaf
    PROVE  /\ IInv'
           /\ \A p \in Pages, d \in Depths :
                 Chain(entries_', root_', p, d) = Chain(entries_, root_, p, d)
           /\ \A n \in TableFrames, i \in Indices :
                 entries_'[n][i] = IF n = curr /\ i = child_index
                                   THEN [address |-> call.frame, flags |-> call.flags \cup {Present}]
                                   ELSE entries_[n][i]
<1> DEFINE e0 == [address |-> call.frame, flags |-> call.flags \cup {Present}]
<1>0. /\ phase = "mapping" /\ depth = max_depth /\ phase' = "ready"
      /\ entries_' = [entries_ EXCEPT ![curr][child_index] = e0]
      /\ UNCHANGED <<free, root_, call, curr, depth>>
  <2>1. \A e : set_child_flags(set_child_address(e, call.frame), call.flags) = e0
    BY DEF set_child_flags, set_child_address
  <2> HIDE DEF e0
  <2>2. entries_' = [entries_ EXCEPT ![curr][child_index] = e0]
    BY <2>1 DEF set_leaf
  <2> QED BY <2>2 DEF set_leaf
<1>1. /\ call.page \in Pages /\ call.frame \in Frames /\ call.flags \in FlagSets
      /\ depth \in Depths /\ child_index \in Indices
      /\ curr \in TableFrames \ free
      /\ curr = Chain(entries_, root_, call.page, depth)
  BY <1>0, WalkFacts
<1>2. entries_ \in [TableFrames -> [Indices -> Entries]] /\ IsTree(entries_, root_, free)
  BY DEF IInv, TypeOK
<1>3. e0 \in Entries
  <2>1. call.flags \cup {Present}
            \in SUBSET {Present, Write, "User", "WriteThrough", "CacheDisable"}
    BY <1>1, FlagSetType
  <2>2. call.frame \in Nat
    BY <1>1, PageAssumption
  <2> QED BY <2>1, <2>2 DEF Entries
<1>4. /\ entries_' \in [TableFrames -> [Indices -> Entries]]
      /\ \A n \in TableFrames, i \in Indices :
            entries_'[n][i] = IF n = curr /\ i = child_index THEN e0 ELSE entries_[n][i]
  <2> HIDE DEF e0
  <2> QED BY <1>0, <1>1, <1>2, <1>3, EntryUpdate
<1>5. \A p \in Pages, d \in Depths :
          Chain(entries_', root_', p, d) = Chain(entries_, root_, p, d)
  <2>1. ASSUME NEW p \in Pages, NEW d \in 0 .. 2, Chain(entries_, root_, p, d) # 0
        PROVE  entries_'[Chain(entries_, root_, p, d)][get_table_index(p, d)].address
                 = entries_[Chain(entries_, root_, p, d)][get_table_index(p, d)].address
    <3>1. d \in Depths /\ d # depth /\ get_table_index(p, d) \in Indices
      BY <1>0, IndexType DEF Depths, max_depth
    <3>2. Chain(entries_, root_, p, d) \in TableFrames /\ Chain(entries_, root_, p, d) # curr
      BY <1>1, <1>2, <2>1, <3>1 DEF IsTree
    <3> HIDE DEF e0
    <3> QED BY <1>4, <3>1, <3>2
  <2>2. \A p \in Pages, d \in Depths :
            Chain(entries_', root_, p, d) = Chain(entries_, root_, p, d)
    BY <2>1, ChainSame
  <2> QED BY <1>0, <2>2
<1>6. TypeOK'
  BY <1>0, <1>4 DEF IInv, TypeOK
<1>7. Bounded'
  <2>1. \A n \in TableFrames, i \in Indices :
            entries_[n][i].address \in 0 .. AddressLimit - 1
    BY DEF IInv, Bounded
  <2>2. e0.address \in 0 .. AddressLimit - 1
    BY <1>1 DEF AllAddressable
  <2> HIDE DEF e0
  <2> QED BY <1>4, <2>1, <2>2 DEF Bounded
<1>8. IsTree(entries_', root_', free')
  <2>1. IsTree(entries_', root_', free)
    BY <1>2, <1>5 DEF IsTree
  <2> QED BY <1>0, <2>1
<1>9. RootSet' /\ WalkOnPath'
  BY <1>0 DEF IInv, RootSet, WalkOnPath
<1>10. IInv'
  BY <1>6, <1>7, <1>8, <1>9 DEF IInv
<1> QED BY <1>4, <1>5, <1>10

\* The root alone is a tree.
LEMMA ConstructStep ==
    ASSUME IInv, NEW f \in free, construct(f)
    PROVE  /\ IInv'
           /\ \A p \in Pages, d \in Depths :
                 Chain(entries_', root_', p, d) = IF d = 0 THEN f ELSE 0
           /\ root_ = 0
<1>0. /\ phase = "boot" /\ phase' = "ready" /\ root_ = 0 /\ root_' = f
      /\ free' = free \ {f} /\ f \in TableFrames /\ f # 0
      /\ entries_' = [entries_ EXCEPT ![f] = [i \in Indices |-> Empty]]
      /\ UNCHANGED <<call, curr, depth>>
  BY TableAssumption DEF construct, IInv, RootSet, TypeOK
<1>1. /\ entries_' \in [TableFrames -> [Indices -> Entries]]
      /\ \A n \in TableFrames, i \in Indices :
            entries_'[n][i] = IF n = f THEN Empty ELSE entries_[n][i]
  <2>1. entries_ \in [TableFrames -> [Indices -> Entries]]
    BY DEF IInv, TypeOK
  <2>2. Empty \in Entries
    BY DEF Empty, Entries
  <2> QED BY <1>0, <2>1, <2>2
<1>2. ASSUME NEW p \in Pages
      PROVE  \A d \in Depths : Chain(entries_', root_', p, d) = IF d = 0 THEN f ELSE 0
  <2> DEFINE S == {d \in Depths : Chain(entries_', root_', p, d) = IF d = 0 THEN f ELSE 0}
  <2>1. 0 \in S
    BY <1>0, ChainStep DEF Depths, max_depth
  <2>2. ASSUME NEW d \in 0 .. 2, d \in S PROVE d + 1 \in S
    <3>1. d \in Depths /\ d + 1 \in Depths /\ d + 1 # 0
      BY DEF Depths, max_depth
    <3>2. get_table_index(p, d) \in Indices
      BY <3>1, IndexType DEF Depths
    <3>3. entries_'[f][get_table_index(p, d)].address = 0
      BY <1>0, <1>1, <3>2 DEF Empty
    <3>4. Chain(entries_', root_', p, d + 1) = ChildIn(entries_', Chain(entries_', root_', p, d), p, d)
      BY ChainStep
    <3> QED BY <2>2, <3>1, <3>3, <3>4 DEF ChildIn
  <2>3. Depths \subseteq S
    <3> HIDE DEF S
    <3> QED BY <2>1, <2>2, DepthInduction
  <2> QED BY <2>3
<1>3. IsTree(entries_', root_', free')
  <2> DEFINE D(p, d) == Chain(entries_', root_', p, d)
  <2> SUFFICES ASSUME NEW p \in Pages, NEW q \in Pages, NEW d \in Depths, NEW e \in Depths,
                      D(p, d) # 0
               PROVE  /\ D(p, d) \in TableFrames \ free'
                      /\ D(p, d) = D(q, e) => d = e /\ SamePath(p, q, d)
    BY DEF IsTree
  <2>1. D(p, d) = (IF d = 0 THEN f ELSE 0) /\ D(q, e) = (IF e = 0 THEN f ELSE 0)
    BY <1>2
  <2>2. SamePath(p, q, 0)
    BY DEF SamePath
  <2> HIDE DEF D
  <2> QED BY <1>0, <2>1, <2>2
<1>4. TypeOK'
  BY <1>0, <1>1 DEF IInv, TypeOK
<1>5. Bounded'
  <2>1. Empty.address \in 0 .. AddressLimit - 1
    <3>1. AddressLimit \in Nat \ {0}
      BY TableAssumption
    <3> QED BY <3>1 DEF Empty
  <2> HIDE DEF Empty
  <2> QED BY <1>1, <2>1 DEF IInv, Bounded
<1>6. RootSet' /\ WalkOnPath'
  BY <1>0 DEF RootSet, WalkOnPath
<1>7. IInv'
  BY <1>3, <1>4, <1>5, <1>6 DEF IInv
<1> QED BY <1>0, <1>2, <1>7

\* The steps that leave the tables alone.
LEMMA QuietStep ==
    ASSUME IInv,
           \/ \E p \in Pages, f \in Frames, flags \in FlagSets : map_page_to_frame(p, f, flags)
           \/ out_of_frames \/ kernel_hang \/ UNCHANGED vars
    PROVE  IInv' /\ UNCHANGED <<entries_, root_>>
<1>1. ASSUME NEW p \in Pages, NEW f \in Frames, NEW flags \in FlagSets,
             map_page_to_frame(p, f, flags)
      PROVE  IInv' /\ UNCHANGED <<entries_, root_>>
  <2>1. /\ phase = "ready" /\ phase' = "mapping" /\ curr' = root_ /\ depth' = 0
        /\ call' = [page |-> p, frame |-> f, flags |-> flags]
        /\ UNCHANGED <<entries_, free, root_>>
    BY <1>1 DEF map_page_to_frame
  <2>2. TypeOK'
    BY <2>1 DEF IInv, TypeOK, max_depth
  <2>3. root_ # 0
    BY <2>1 DEF IInv, RootSet
  <2>4. WalkOnPath'
    BY <2>1, <2>3, ChainStep DEF WalkOnPath
  <2>5. RootSet' /\ Bounded' /\ IsTree(entries_, root_, free)'
    BY <2>1, <2>3 DEF IInv, RootSet, Bounded, IsTree
  <2> QED BY <2>1, <2>2, <2>4, <2>5 DEF IInv
<1>2. ASSUME out_of_frames
      PROVE  IInv' /\ UNCHANGED <<entries_, root_>>
  <2>1. phase' = "panic" /\ UNCHANGED <<entries_, free, root_, call, curr, depth>>
    BY <1>2 DEF out_of_frames
  <2> QED BY <2>1 DEF IInv, TypeOK, RootSet, WalkOnPath, Bounded, IsTree
<1>3. ASSUME UNCHANGED vars
      PROVE  IInv' /\ UNCHANGED <<entries_, root_>>
  BY <1>3 DEF vars, IInv, TypeOK, RootSet, WalkOnPath, Bounded, IsTree, child_index
<1> QED BY <1>1, <1>2, <1>3 DEF kernel_hang

\* Every step of map_page_to_frame keeps the invariant.
LEMMA PageTreeNext ==
    ASSUME IInv, AllAddressable, [Next]_vars PROVE IInv'
  BY ConstructStep, GrowStep, DescendStep, LeafStep, QuietStep DEF Next

\* The inductive invariant holds of every reachable state.
THEOREM PageTreeIInv == ASSUME AllAddressable PROVE Spec => []IInv
<1>1. Init => IInv
  BY PageTreeInit
<1>2. IInv /\ [Next]_vars => IInv'
  BY PageTreeNext
<1> QED BY <1>1, <1>2, PTL DEF Spec

\* The page tree's variables keep their types: in particular curr, through
\* which every entry is read and written, is always a table or null.
THEOREM PageTreeTypeOK == ASSUME AllAddressable PROVE Spec => []TypeOK
<1>1. IInv => TypeOK
  BY DEF IInv
<1> QED BY <1>1, PageTreeIInv, PTL

\* Whatever is mapped in whatever order, the tables form a tree and none of
\* them is handed out again.
THEOREM PageTreeShape == ASSUME AllAddressable PROVE Spec => []TreeShape
<1>1. IInv => TreeShape
  BY TableIsChain DEF IInv, IsTree, TreeShape, Depths
<1> QED BY <1>1, PageTreeIInv, PTL

-----------------------------------------------------------------------------
(* The tree implements the page map. *)

\* The entry of a page in the last level.
Lookup(ent, root, p) ==
    IF Chain(ent, root, p, 3) = 0 THEN Empty
    ELSE ent[Chain(ent, root, p, 3)][get_table_index(p, 3)]

LookupMatches == \A p \in Pages : get_translation(p) = Lookup(entries_, root_, p)

\* get_translation returns the entry of the page in the last level.
LEMMA TranslationIsLookup ==
    ASSUME IInv PROVE LookupMatches
<1> SUFFICES ASSUME NEW p \in Pages
             PROVE  get_translation(p) = Lookup(entries_, root_, p)
  BY DEF LookupMatches
<1> DEFINE t == Chain(entries_, root_, p, 3)
           i == get_table_index(p, 3)
<1>1. 3 \in Depths /\ i \in Indices
  BY IndexType DEF Depths, max_depth
<1>2. table(p, 3) = t
  BY <1>1, TableIsChain
<1>3. CASE t = 0
  BY <1>2, <1>3 DEF get_translation, Lookup, max_depth
<1>4. CASE t # 0
  <2>1. t \in TableFrames
    BY <1>1, <1>4 DEF IInv, IsTree
  <2>2. entries_[t][i] \in Entries
    BY <1>1, <2>1 DEF IInv, TypeOK
  <2>3. get_child_address(t, i) = entries_[t][i].address
    BY <1>1, <2>1, AddressReadBack
  <2>4. get_translation(p) = [address |-> entries_[t][i].address, flags |-> entries_[t][i].flags]
    BY <1>2, <1>4, <2>3 DEF get_translation, get_child_flags, max_depth
  <2> HIDE DEF t, i
  <2>5. entries_[t][i] = [address |-> entries_[t][i].address, flags |-> entries_[t][i].flags]
    BY <2>2 DEF Entries
  <2> QED BY <1>4, <2>4, <2>5 DEF Lookup, t, i
<1> QED BY <1>3, <1>4

\* Walking down changes no translation.
LEMMA WalkKeepsLookup ==
    ASSUME IInv, AllAddressable, NEW f, construct(f) \/ grow(f) \/ descend
    PROVE  (\A p \in Pages : Lookup(entries_', root_', p) = Lookup(entries_, root_, p))
           /\ call' = call
<1>0. 3 \in Depths /\ IsTree(entries_, root_, free)
      /\ (\A p \in Pages : get_table_index(p, 3) \in Indices)
  BY IndexType DEF IInv, Depths, max_depth
<1>1. ASSUME construct(f)
      PROVE  \A p \in Pages : Lookup(entries_', root_', p) = Lookup(entries_, root_, p)
  <2>0. f \in free
    BY <1>1 DEF construct
  <2>1. \A p \in Pages : Chain(entries_', root_', p, 3) = 0
    BY <1>0, <1>1, <2>0, ConstructStep
  <2>2. ASSUME NEW p \in Pages PROVE Chain(entries_, root_, p, 3) = 0
    <3>1. Chain(entries_, root_, p, 0) = 0
      BY <1>1, <2>0, ConstructStep, ChainStep
    <3>2. 0 \in 0 .. 3
      BY SMT
    <3> QED BY <1>0, <3>1, <3>2, ChainPrefix
  <2> QED BY <2>1, <2>2 DEF Lookup
<1>2. ASSUME grow(f)
      PROVE  \A p \in Pages : Lookup(entries_', root_', p) = Lookup(entries_, root_, p)
  <2> SUFFICES ASSUME NEW p \in Pages
               PROVE  Lookup(entries_', root_', p) = Lookup(entries_, root_, p)
    OBVIOUS
  <2> DEFINE t == Chain(entries_, root_, p, 3)
             i == get_table_index(p, 3)
  <2>0. depth \in 0 .. 2 /\ f \in TableFrames /\ f # 0 /\ phase = "mapping"
        /\ depth < max_depth /\ child_address = 0 /\ f \in free
    BY <1>2, TableAssumption DEF grow, Walking, IInv, TypeOK, max_depth
  <2>1. /\ call.page \in Pages /\ curr \in TableFrames
        /\ curr = Chain(entries_, root_, call.page, depth)
        /\ child_address = entries_[curr][child_index].address
    BY <2>0, WalkFacts
  <2>2. Chain(entries_', root_', p, 3) =
            IF 3 = depth + 1 /\ SamePath(p, call.page, depth + 1) THEN f ELSE t
    BY <1>0, <1>2, <2>0, GrowStep
  <2>3. \A n \in TableFrames, j \in Indices :
            entries_'[n][j] = IF n = f THEN Empty
                              ELSE IF n = curr /\ j = child_index
                                   THEN [address |-> f, flags |-> call.flags \cup {Present}]
                                   ELSE entries_[n][j]
    BY <1>2, <2>0, GrowStep
  <2>4. CASE 3 = depth + 1 /\ SamePath(p, call.page, depth + 1)
    <3>1. Chain(entries_, root_, call.page, 3) = 0
      <4>1. curr # 0
        BY <2>1, TableAssumption
      <4> QED BY <2>0, <2>1, <2>4, <4>1, ChainStep DEF ChildIn, child_index
    <3>2. t = 0
      BY <1>0, <2>1, <2>4, <3>1, SamePathChain
    <3>3. entries_'[f][i] = Empty
      BY <1>0, <2>0, <2>3
    <3> QED BY <2>0, <2>2, <2>4, <3>2, <3>3 DEF Lookup
  <2>5. CASE ~(3 = depth + 1 /\ SamePath(p, call.page, depth + 1)) /\ t = 0
    BY <2>2, <2>5 DEF Lookup
  <2>6. CASE ~(3 = depth + 1 /\ SamePath(p, call.page, depth + 1)) /\ t # 0
    <3>1. t \in TableFrames \ free
      BY <1>0, <2>6 DEF IsTree
    <3>2. t # curr
      <4>1. depth \in Depths /\ depth # 3
        BY <2>0 DEF Depths, max_depth
      <4> QED BY <1>0, <2>1, <2>6, <4>1 DEF IsTree
    <3>3. entries_'[t][i] = entries_[t][i]
      <4> HIDE DEF t, i
      <4>1. i \in Indices
        BY <1>0 DEF i
      <4> QED BY <2>0, <2>3, <3>1, <3>2, <4>1
    <3> QED BY <2>2, <2>6, <3>3 DEF Lookup
  <2> QED BY <2>4, <2>5, <2>6
<1>3. ASSUME descend
      PROVE  \A p \in Pages : Lookup(entries_', root_', p) = Lookup(entries_, root_, p)
  <2> SUFFICES ASSUME NEW p \in Pages
               PROVE  Lookup(entries_', root_', p) = Lookup(entries_, root_, p)
    OBVIOUS
  <2> DEFINE t == Chain(entries_, root_, p, 3)
             i == get_table_index(p, 3)
  <2>0. depth \in 0 .. 2 /\ phase = "mapping"
    BY <1>3 DEF descend, Walking, IInv, TypeOK, max_depth
  <2>1. call.page \in Pages /\ curr = Chain(entries_, root_, call.page, depth)
    BY <2>0, WalkFacts
  <2>2. Chain(entries_', root_', p, 3) = t
    BY <1>0, <1>3, DescendStep
  <2>3. CASE t = 0
    BY <2>2, <2>3 DEF Lookup
  <2>4. CASE t # 0
    <3>1. t \in TableFrames /\ t # curr
      <4>1. depth \in Depths /\ depth # 3
        BY <2>0 DEF Depths, max_depth
      <4> QED BY <1>0, <2>1, <2>4, <4>1 DEF IsTree
    <3>2. entries_'[t][i] = entries_[t][i]
      BY <1>0, <1>3, <3>1, DescendStep
    <3> QED BY <2>2, <2>4, <3>2 DEF Lookup
  <2> QED BY <2>3, <2>4
<1>4. call' = call
  BY DEF construct, grow, descend
<1> QED BY <1>1, <1>2, <1>3, <1>4

\* The last step changes the translation of the page it maps, and no other.
LEMMA LeafLookup ==
    ASSUME IInv, AllAddressable, set_leaf, NEW p \in Pages
    PROVE  Lookup(entries_', root_', p) =
               IF p = call.page
               THEN [address |-> call.frame, flags |-> call.flags \cup {Present}]
               ELSE Lookup(entries_, root_, p)
<1> DEFINE t == Chain(entries_, root_, p, 3)
           i == get_table_index(p, 3)
           e0 == [address |-> call.frame, flags |-> call.flags \cup {Present}]
<1>0. phase = "mapping" /\ depth = 3 /\ 3 \in Depths /\ IsTree(entries_, root_, free)
  BY DEF set_leaf, max_depth, IInv, Depths
<1>1. /\ call.page \in Pages /\ curr \in TableFrames /\ curr # 0
      /\ curr = Chain(entries_, root_, call.page, 3)
  BY <1>0, WalkFacts, TableAssumption
<1>2. i \in Indices /\ child_index = get_table_index(call.page, 3)
  BY <1>0, IndexType DEF child_index, Depths
<1>3. Chain(entries_', root_', p, 3) = t
  BY <1>0, LeafStep
<1>4. \A n \in TableFrames, j \in Indices :
          entries_'[n][j] = IF n = curr /\ j = child_index THEN e0 ELSE entries_[n][j]
  BY LeafStep
<1> HIDE DEF e0
<1>5. CASE p = call.page
  BY <1>1, <1>2, <1>3, <1>4, <1>5 DEF Lookup, e0
<1>6. CASE p # call.page /\ t = 0
  BY <1>3, <1>6 DEF Lookup
<1>7. CASE p # call.page /\ t # 0
  <2>1. t \in TableFrames
    BY <1>0, <1>7 DEF IsTree
  <2>2. ~(t = curr /\ i = child_index)
    <3> SUFFICES ASSUME t = curr, i = child_index PROVE FALSE
      OBVIOUS
    <3>1. SamePath(p, call.page, 3)
      BY <1>0, <1>1, <1>7 DEF IsTree
    <3>2. \A d \in 0 .. max_depth : get_table_index(p, d) = get_table_index(call.page, d)
      <4>1. \A d \in 0 .. max_depth : d = 3 \/ d \in 0 .. 3 - 1
        BY DEF max_depth
      <4> QED BY <1>2, <3>1, <4>1 DEF SamePath
    <3> QED BY <1>1, <1>7, <3>2, IndexInjective
  <2>3. entries_'[t][i] = entries_[t][i]
    <3> HIDE DEF t, i
    <3> QED BY <1>2, <1>4, <2>1, <2>2
  <2> QED BY <1>3, <1>7, <2>3 DEF Lookup
<1> QED BY <1>5, <1>6, <1>7 DEF e0

\* Every step of the tree is a step of the page map, or none.
LEMMA PageTreeSimulation ==
    ASSUME IInv, LookupMatches, LookupMatches', AllAddressable, [Next]_vars
    PROVE  [Map!Next]_(Map!mapVars)
<1> DEFINE tr == [p \in Pages |-> get_translation(p)]
           lk == [p \in Pages |-> Lookup(entries_, root_, p)]
           lk2 == [p \in Pages |-> Lookup(entries_', root_', p)]
           req == [call EXCEPT !.flags = @ \cup {Present}]
<1>1. tr = lk /\ tr' = lk2
  BY DEF LookupMatches
<1>2. call \in [page : Pages, frame : Frames, flags : FlagSets]
  BY DEF IInv, TypeOK
<1>3. ASSUME UNCHANGED <<req, tr>> PROVE [Map!Next]_(Map!mapVars)
  BY <1>3 DEF Map!mapVars
<1>4. ASSUME NEW f \in free, construct(f) \/ grow(f) PROVE [Map!Next]_(Map!mapVars)
  <2>1. lk2 = lk /\ call' = call
    BY <1>4, WalkKeepsLookup
  <2> HIDE DEF lk, lk2, tr
  <2>2. UNCHANGED <<req, tr>>
    BY <1>1, <2>1
  <2> QED BY <1>3, <2>2
<1>5. ASSUME descend PROVE [Map!Next]_(Map!mapVars)
  <2>1. lk2 = lk /\ call' = call
    BY <1>5, WalkKeepsLookup
  <2> HIDE DEF lk, lk2, tr
  <2>2. UNCHANGED <<req, tr>>
    BY <1>1, <2>1
  <2> QED BY <1>3, <2>2
<1>6. ASSUME set_leaf PROVE [Map!Next]_(Map!mapVars)
  <2>1. call' = call /\ call.page \in Pages
    BY <1>2, <1>6 DEF set_leaf
  <2>2. lk2 = [lk EXCEPT ![call.page] =
                 [address |-> call.frame, flags |-> call.flags \cup {Present}]]
    BY <1>6, <2>1, LeafLookup
  <2>3. req.page = call.page /\ req.frame = call.frame /\ req.flags = call.flags \cup {Present}
    BY <1>2
  <2> HIDE DEF lk, lk2
  <2>4. tr' = [tr EXCEPT ![req.page] = [address |-> req.frame, flags |-> req.flags]]
        /\ req' = req
    <3> HIDE DEF tr
    <3>1. req' = req
      BY <2>1
    <3> HIDE DEF req
    <3> QED BY <1>1, <2>2, <2>3, <3>1
  <2>5. Map!Map
    BY <2>4 DEF Map!Map
  <2> QED BY <2>5 DEF Map!Next
<1>7. ASSUME NEW p \in Pages, NEW f \in Frames, NEW flags \in FlagSets,
             map_page_to_frame(p, f, flags)
      PROVE  [Map!Next]_(Map!mapVars)
  <2>1. UNCHANGED <<entries_, root_>> /\ call' = [page |-> p, frame |-> f, flags |-> flags]
    BY <1>7 DEF map_page_to_frame
  <2>2. tr' = tr
    <3>1. lk2 = lk
      BY <2>1
    <3> HIDE DEF lk, lk2, tr
    <3> QED BY <1>1, <3>1
  <2>3. req' = [page |-> p, frame |-> f, flags |-> flags \cup {Present}]
    BY <2>1
  <2>4. req' \in Map!Requests
    BY <2>3 DEF Map!Requests
  <2>5. Map!Ask(req')
    BY <2>2 DEF Map!Ask
  <2> QED BY <2>4, <2>5 DEF Map!Next
<1>8. ASSUME out_of_frames \/ kernel_hang \/ UNCHANGED vars PROVE [Map!Next]_(Map!mapVars)
  <2>1. UNCHANGED <<entries_, root_, call>>
    BY <1>8 DEF out_of_frames, kernel_hang, vars
  <2>2. lk2 = lk
    BY <2>1
  <2> HIDE DEF lk, lk2, tr
  <2>3. UNCHANGED <<req, tr>>
    BY <1>1, <2>1, <2>2
  <2> QED BY <1>3, <2>3
<1> QED BY <1>4, <1>5, <1>6, <1>7, <1>8 DEF Next

\* Before the first mapping every lookup fails.
LEMMA PageTreeStartsUnmapped ==
    ASSUME Init PROVE Map!Init
<1>1. IInv /\ root_ = 0
  BY PageTreeInit DEF Init
<1>2. LookupMatches
  BY <1>1, TranslationIsLookup
<1>3. ASSUME NEW p \in Pages PROVE get_translation(p) = Empty
  <2>1. Chain(entries_, root_, p, 0) = 0
    BY <1>1, ChainStep
  <2>2. 3 \in Depths /\ 0 \in 0 .. 3
    BY DEF Depths, max_depth
  <2>3. Chain(entries_, root_, p, 3) = 0
    BY <2>1, <2>2, ChainPrefix
  <2> QED BY <1>2, <2>3 DEF LookupMatches, Lookup
<1>4. [call EXCEPT !.flags = @ \cup {Present}] \in Map!Requests
  BY DEF Init, Map!Requests
<1>5. [p \in Pages |-> get_translation(p)] = [p \in Pages |-> Empty]
  BY <1>3
<1> QED BY <1>4, <1>5 DEF Map!Init

\* The page tree implements the page map: looking up a page gives what it was
\* last mapped to, whatever else was mapped in between.
THEOREM PageTreeImplementsMap == ASSUME AllAddressable PROVE Spec => PageMapSpec
<1>1. Init => Map!Init
  BY PageTreeStartsUnmapped
<1>2. IInv => LookupMatches
  BY TranslationIsLookup
<1>3. IInv /\ LookupMatches /\ LookupMatches' /\ [Next]_vars => [Map!Next]_(Map!mapVars)
  BY PageTreeSimulation
<1> QED BY <1>1, <1>2, <1>3, PageTreeIInv, PTL DEF Spec, PageMapSpec, Map!Spec

\* The processor sees exactly the flags asked for on the page just mapped.
THEOREM PageTreeMapTakesEffect == ASSUME AllAddressable PROVE Spec => MapTakesEffect
<1>1. IInv => \A p \in Pages, d \in Depths : table(p, d) = Chain(entries_, root_, p, d)
  BY TableIsChain
<1> DEFINE TablesMatch == \A p \in Pages, d \in Depths : table(p, d) = Chain(entries_, root_, p, d)
<1>2. ASSUME IInv, TablesMatch', set_leaf
      PROVE  effective_flags(call.page)' = call.flags \cup {Present}
  <2> DEFINE c == call.page
             fl == call.flags \cup {Present}
             node(d) == Chain(entries_, root_, c, d)
  <2>0. phase = "mapping" /\ depth = 3 /\ 3 \in Depths /\ IsTree(entries_, root_, free)
        /\ call' = call
    BY <1>2 DEF set_leaf, max_depth, IInv, Depths
  <2>1. /\ c \in Pages /\ curr \in TableFrames /\ curr # 0 /\ curr = node(3)
        /\ child_index = get_table_index(c, 3) /\ child_index \in Indices
    BY <1>2, <2>0, WalkFacts, TableAssumption DEF child_index
  <2>2. \A n \in TableFrames, i \in Indices :
            entries_'[n][i] = IF n = curr /\ i = child_index
                              THEN [address |-> call.frame, flags |-> fl] ELSE entries_[n][i]
    BY <1>2, LeafStep
  <2>3. \A d \in Depths : Entry(c, d)' = entries_'[node(d)][get_table_index(c, d)]
    <3>1. \A d \in Depths : table(c, d)' = node(d)
      <4>1. \A d \in Depths : Chain(entries_', root_', c, d) = node(d)
        BY <1>2, <2>1, LeafStep
      <4>2. \A d \in Depths : table(c, d)' = Chain(entries_', root_', c, d)
        BY <1>2, <2>0, <2>1
      <4> QED BY <4>1, <4>2
    <3> QED BY <2>0, <3>1 DEF Entry
  <2>4. \A d \in Depths : Entry(c, d)'.flags = fl
    <3> TAKE d \in Depths
    <3>1. CASE d = 3
      BY <2>0, <2>1, <2>2, <2>3, <3>1
    <3>2. CASE d # 3
      <4>1. d \in 0 .. depth - 1 /\ d \in 0 .. 3
        BY <2>0, <3>2 DEF Depths, max_depth
      <4>2. entries_[node(d)][get_table_index(c, d)].flags = fl
        BY <1>2, <2>0, <4>1 DEF IInv, WalkOnPath
      <4>3. node(d) # 0
        BY <2>0, <2>1, <4>1, ChainPrefix
      <4>4. node(d) \in TableFrames /\ node(d) # curr
        BY <2>0, <2>1, <3>2, <4>3 DEF IsTree
      <4>5. get_table_index(c, d) \in Indices
        BY <2>1, IndexType DEF Depths
      <4> HIDE DEF node, fl
      <4> QED BY <2>2, <2>3, <4>2, <4>4, <4>5
    <3> QED BY <3>1, <3>2
  <2>5. max_depth \in Depths /\ \A d \in 0 .. max_depth - 1 : d \in Depths
    BY DEF Depths, max_depth
  <2>6. effective_flags(call.page)' =
          {x \in Entry(c, max_depth)'.flags :
              \A d \in 0 .. max_depth - 1 : x \in Entry(c, d)'.flags}
    BY <2>0 DEF effective_flags
  <2> QED BY <2>4, <2>5, <2>6
<1>3. IInv /\ TablesMatch' /\ [Next]_vars =>
        [AllAddressable /\ set_leaf =>
            effective_flags(call.page)' = call.flags \cup {Present}]_vars
  BY <1>2
<1> QED BY <1>1, <1>3, PageTreeIInv, PTL DEF Spec, MapTakesEffect
=============================================================================
