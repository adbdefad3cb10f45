---------------------------- MODULE FreeListProofs ----------------------------
(***************************************************************************)
(* Proofs about the free-list allocator: no word belongs to two blocks,    *)
(* the blocks handed out are what vmalloc promises, the list holds every   *)
(* free block in order until one of three operations destroys it, and no   *)
(* word is lost but those of the exact fits; for every address space,      *)
(* every set of free regions, and every sequence of allocations and        *)
(* deallocations, up to and including the one that destroys the list.      *)
(***************************************************************************)
EXTENDS FreeList, FiniteSetTheorems, WellFoundedInduction, SequenceTheorems, TLAPS

(* Induction.  The library's theorems speak of predicates; these speak of  *)
(* sets, and rest on the fact that < is well-founded on Nat.               *)

\* A nonempty set of natural numbers has a smallest element.
LEMMA Smallest ==
    ASSUME NEW T, T \subseteq Nat, T # {}
    PROVE  \E x \in T : \A y \in T : x <= y
  <1> DEFINE R == OpToRel(<, Nat)
  <1>1. IsWellFoundedOn(R, Nat)
    BY NatLessThanWellFounded, Zenon DEF R
  <1>2. \A x, y \in Nat : x < y => <<x, y>> \in R
    BY Zenon DEF OpToRel, R
  <1> HIDE DEF R
  <1>3. PICK x \in T : \A y \in T : ~(<<y, x>> \in R)
    BY <1>1, WFMin
  <1>4. \A y \in T : ~(y < x)
    BY <1>2, <1>3
  <1> QED
    BY <1>4

\* What holds for 0 and is passed on holds for every natural number.
LEMMA SetInduction ==
    ASSUME NEW S, 0 \in S, \A n \in Nat : n \in S => n + 1 \in S
    PROVE  Nat \subseteq S
  <1> SUFFICES ASSUME Nat \ S # {} PROVE FALSE
    OBVIOUS
  <1>1. PICK x \in Nat \ S : \A y \in Nat \ S : x <= y
    BY Smallest
  <1>2. x # 0 /\ x - 1 \in Nat /\ x - 1 < x /\ (x - 1) + 1 = x
    OBVIOUS
  <1>3. x - 1 \in S
    BY <1>1, <1>2
  <1> QED
    BY <1>2, <1>3

\* Min, on a nonempty set of natural numbers.
LEMMA MinProperties ==
    ASSUME NEW T, T \subseteq Nat, T # {}
    PROVE  Min(T) \in T /\ \A y \in T : Min(T) <= y
  BY Smallest DEF Min

(* Arithmetic modulo the size of the address space. *)

\* The remainder is determined by its range.
LEMMA Remainder ==
    ASSUME NEW m \in Nat \ {0}, NEW x \in Int, NEW q \in Int, NEW r \in 0 .. m - 1, x = q * m + r
    PROVE  x % m = r
  <1> DEFINE d == x \div m
             e == x % m
  <1>1. d \in Int /\ e \in 0 .. m - 1 /\ x = d * m + e
    BY SMT
  <1> HIDE DEF d, e
  <1>2. (q - d) * m = q * m - d * m
    BY <1>1, SMT
  <1>3. (q - d) * m = e - r
    BY <1>1, <1>2
  <1>4. CASE q - d >= 1
    <2>1. (q - d) * m >= m
      BY <1>1, <1>4, SMT
    <2> QED
      BY <1>1, <1>3, <2>1
  <1>5. CASE q - d <= -1
    <2>1. (q - d) * m <= -m
      BY <1>1, <1>5, SMT
    <2> QED
      BY <1>1, <1>3, <2>1
  <1>6. CASE q = d
    BY <1>1, <1>6 DEF e
  <1> QED
    BY <1>1, <1>4, <1>5, <1>6

\* Wrap leaves alone what fits.
LEMMA WrapSame ==
    ASSUME NEW x \in 0 .. SizeMax
    PROVE  Wrap(x) = x
  <1>1. PICK m \in Nat \ {0} : m = SizeMax + 1
    BY RangeAssumption
  <1>2. x \in 0 .. m - 1 /\ x \in Int /\ x = 0 * m + x
    BY <1>1, RangeAssumption
  <1>3. x % m = x
    BY <1>2, Remainder
  <1> QED
    BY <1>1, <1>3 DEF Wrap

\* What Wrap returns fits.
LEMMA WrapRange ==
    ASSUME NEW x \in Int
    PROVE  Wrap(x) \in 0 .. SizeMax
  BY RangeAssumption, SMT DEF Wrap

\* Wrap may be applied early or late.
LEMMA WrapEarly ==
    ASSUME NEW x \in Int, NEW y \in Int, NEW k \in Int, NEW l \in Int,
           k = Wrap(x) + y, l = x + y
    PROVE  Wrap(k) = Wrap(l)
  <1>1. PICK m \in Nat \ {0} : m = SizeMax + 1
    BY RangeAssumption
  <1>2. \A z : Wrap(z) = z % m
    BY <1>1 DEF Wrap
  <1>3. \A z \in Int : z % m \in 0 .. m - 1 /\ z \div m \in Int /\ z = (z \div m) * m + (z % m)
    BY SMT
  <1>4. PICK d \in Int, r \in 0 .. m - 1 : x = d * m + r /\ r = Wrap(x)
    BY <1>2, <1>3
  <1>5. PICK e \in Int, s \in 0 .. m - 1 : k = e * m + s /\ s = Wrap(k)
    BY <1>2, <1>3
  <1>6. PICK dm \in Int, em \in Int : dm = d * m /\ em = e * m
    OBVIOUS
  <1>7. l = dm + em + s
    BY <1>4, <1>5, <1>6
  <1>8. PICK q \in Int : q = d + e
    OBVIOUS
  <1>9. q * m = dm + em
    BY <1>6, <1>8, SMT
  <1>10. l = q * m + s
    BY <1>7, <1>9
  <1>11. l % m = s
    BY <1>10, Remainder
  <1> QED
    BY <1>2, <1>5, <1>11

\* Sizes of free blocks: the size stored leaves out the header, and wraps when
\* the block is smaller than that; merging adds the real sizes all the same.
LEMMA SizeArithmetic ==
    /\ \A s \in 0 .. SizeMax : Wrap(Wrap(s - free_header) + free_header) = s
    /\ \A z, r \in 0 .. SizeMax :
          Wrap(z + free_header) + r <= SizeMax =>
              Wrap(Wrap(z + r) + free_header) = Wrap(z + free_header) + r
    /\ \A y, z \in 0 .. SizeMax :
          Wrap(y + free_header) + Wrap(z + free_header) <= SizeMax =>
              Wrap(Wrap(y + z + free_header) + free_header)
                  = Wrap(y + free_header) + Wrap(z + free_header)
    /\ \A z \in 0 .. SizeMax, r \in 1 .. SizeMax : Wrap(z + r) # z
  <1> USE RangeAssumption DEF free_header
  <1>1. ASSUME NEW s \in 0 .. SizeMax PROVE Wrap(Wrap(s - 3) + 3) = s
    <2>1. PICK u \in Int : u = s - 3
      OBVIOUS
    <2>2. PICK k \in Int : k = Wrap(u) + 3
      BY WrapRange
    <2>3. s = u + 3 /\ s \in Int
      BY <2>1
    <2>4. Wrap(k) = Wrap(s)
      BY <2>2, <2>3, WrapEarly
    <2>5. Wrap(s) = s
      BY WrapSame
    <2> QED
      BY <2>1, <2>2, <2>4, <2>5
  <1>2. ASSUME NEW z \in 0 .. SizeMax, NEW r \in 0 .. SizeMax, Wrap(z + 3) + r <= SizeMax
        PROVE  Wrap(Wrap(z + r) + 3) = Wrap(z + 3) + r
    <2>1. PICK u \in Int, v \in Int, l \in Int : u = z + r /\ v = z + 3 /\ l = z + r + 3
      OBVIOUS
    <2>2. PICK k \in Int : k = Wrap(u) + 3
      BY WrapRange
    <2>n. PICK n \in Int : n = Wrap(v) + r
      BY WrapRange
    <2>3. l = u + 3 /\ l = v + r
      BY <2>1
    <2>4. Wrap(k) = Wrap(l)
      BY <2>2, <2>3, WrapEarly
    <2>m. Wrap(n) = Wrap(l)
      BY <2>n, <2>3, WrapEarly
    <2>5. n \in 0 .. SizeMax
      BY <1>2, <2>1, <2>n, WrapRange
    <2>6. Wrap(n) = n
      BY <2>5, WrapSame
    <2> QED
      BY <2>1, <2>2, <2>n, <2>4, <2>m, <2>6
  <1>3. ASSUME NEW y \in 0 .. SizeMax, NEW z \in 0 .. SizeMax, Wrap(y + 3) + Wrap(z + 3) <= SizeMax
        PROVE  Wrap(Wrap(y + z + 3) + 3) = Wrap(y + 3) + Wrap(z + 3)
    <2>1. PICK u \in Int, v \in Int : u = y + 3 /\ v = z + 3
      OBVIOUS
    <2>2. PICK a \in 0 .. SizeMax, b \in 0 .. SizeMax : a = Wrap(u) /\ b = Wrap(v)
      BY WrapRange
    <2>3. PICK t \in Int, l \in Int, g \in Int, n \in Int :
              t = y + z + 3 /\ l = y + z + 6 /\ g = a + v /\ n = b + a
      BY <2>1
    <2>4. PICK k \in Int : k = Wrap(t) + 3
      BY WrapRange
    <2>5. l = t + 3 /\ l = u + v /\ g = v + a /\ g = Wrap(u) + v /\ n = Wrap(v) + a
      BY <2>1, <2>2, <2>3
    <2>6. Wrap(k) = Wrap(l)
      BY <2>4, <2>5, WrapEarly
    <2>7. Wrap(g) = Wrap(l)
      <3>1. g = Wrap(u) + v
        BY <2>5
      <3>2. l = u + v
        BY <2>5
      <3> QED
        BY <3>1, <3>2, WrapEarly
    <2>8. Wrap(n) = Wrap(g)
      BY <2>5, WrapEarly
    <2>9. n \in 0 .. SizeMax
      BY <1>3, <2>1, <2>2, <2>3
    <2>10. Wrap(n) = n
      BY <2>9, WrapSame
    <2> QED
      BY <2>1, <2>2, <2>3, <2>4, <2>6, <2>7, <2>8, <2>10
  <1>4. ASSUME NEW z \in 0 .. SizeMax, NEW r \in 1 .. SizeMax PROVE Wrap(z + r) # z
    <2>1. PICK u \in Int : u = z + r
      OBVIOUS
    <2>2. CASE u <= SizeMax
      <3>1. Wrap(u) = u
        BY <2>1, <2>2, WrapSame
      <3> QED
        BY <2>1, <3>1
    <2>3. CASE u > SizeMax
      <3>1. PICK m \in Nat \ {0}, w \in Int : m = SizeMax + 1 /\ w = u - m
        OBVIOUS
      <3>2. w \in 0 .. m - 1 /\ w < z /\ u = 1 * m + w
        BY <2>1, <2>3, <3>1
      <3>3. u % m = w
        BY <3>2, Remainder
      <3> QED
        BY <2>1, <3>1, <3>2, <3>3 DEF Wrap
    <2> QED
      BY <2>2, <2>3
  <1> QED
    BY <1>1, <1>2, <1>3, <1>4

-----------------------------------------------------------------------------
(* The walk along the list. *)

\* What the walk has met before, with one more step.
WalkStep(g, n) ==
    IF n = 0 THEN head
    ELSE IF g[n - 1] \in DOMAIN free THEN free[g[n - 1]].next
    ELSE g[n - 1]

\* A walk of any length exists.
LEMMA WalkExists ==
    ASSUME NEW N \in Nat
    PROVE  \E g : g = [n \in 0 .. N |-> WalkStep(g, n)]
  <1> DEFINE S == {k \in Nat : \E g : g = [n \in 0 .. k |-> WalkStep(g, n)]}
  <1>1. 0 \in S
    <2> DEFINE g == [n \in 0 .. 0 |-> head]
    <2>1. g = [n \in 0 .. 0 |-> WalkStep(g, n)]
      BY DEF WalkStep
    <2> QED
      BY <2>1
  <1>2. ASSUME NEW k \in Nat, k \in S PROVE k + 1 \in S
    <2>1. PICK g : g = [n \in 0 .. k |-> WalkStep(g, n)]
      BY <1>2
    <2> DEFINE h == [n \in 0 .. k + 1 |-> IF n <= k THEN g[n] ELSE WalkStep(g, n)]
    <2>2. ASSUME NEW n \in 0 .. k + 1 PROVE h[n] = WalkStep(h, n)
      <3>1. h[n] = WalkStep(g, n)
        BY <2>1
      <3>2. n # 0 => n - 1 \in 0 .. k + 1 /\ n - 1 <= k
        OBVIOUS
      <3>3. n # 0 => h[n - 1] = g[n - 1]
        BY <3>2
      <3> QED
        BY <3>1, <3>3 DEF WalkStep
    <2>3. h = [n \in 0 .. k + 1 |-> WalkStep(h, n)]
      BY <2>2
    <2> HIDE DEF h
    <2>4. \E f : f = [n \in 0 .. k + 1 |-> WalkStep(f, n)]
      BY <2>3
    <2> QED
      BY <2>4
  <1> HIDE DEF S
  <1>3. N \in S
    BY <1>1, <1>2, SetInduction
  <1> QED
    BY <1>3 DEF S

\* The walk starts at head and follows the next pointers; a pointer to no free
\* block ends it.
LEMMA WalkEquation ==
    ASSUME IsFiniteSet(DOMAIN free)
    PROVE  /\ Cardinality(DOMAIN free) \in Nat
           /\ walk = [n \in 0 .. Cardinality(DOMAIN free) |-> WalkStep(walk, n)]
  <1>1. PICK N \in Nat : N = Cardinality(DOMAIN free)
    BY FS_CardinalityType
  <1>2. walk = CHOOSE g : g = [n \in 0 .. N |-> WalkStep(g, n)]
    BY <1>1 DEF walk, WalkStep
  <1>3. \E g : g = [n \in 0 .. N |-> WalkStep(g, n)]
    BY WalkExists
  <1>4. walk = [n \in 0 .. N |-> WalkStep(walk, n)]
    BY <1>2, <1>3
  <1> QED
    BY <1>1, <1>4

\* A walk that ends at null meets free blocks and null, and nothing else.
LEMMA WalkStays ==
    ASSUME IsFiniteSet(DOMAIN free), ~Corrupt
    PROVE  /\ Cardinality(DOMAIN free) \in Nat
           /\ DOMAIN walk = 0 .. Cardinality(DOMAIN free)
           /\ walk[0] = head
           /\ walk[Cardinality(DOMAIN free)] = null
           /\ \A i \in DOMAIN walk : walk[i] \in DOMAIN free \cup {null}
  <1>1. PICK N \in Nat : N = Cardinality(DOMAIN free)
    BY WalkEquation
  <1>2. walk = [n \in 0 .. N |-> WalkStep(walk, n)]
    BY <1>1, WalkEquation
  <1>3. PICK w : w = walk
    OBVIOUS
  <1>4. w[N] = null
    BY <1>1, <1>3 DEF Corrupt
  <1>5. DOMAIN w = 0 .. N /\ w[0] = head
    BY <1>2, <1>3 DEF WalkStep
  <1>6. ASSUME NEW i \in 0 .. N, w[i] \notin DOMAIN free PROVE w[i] = null
    <2> DEFINE S == {k \in Nat : i + k <= N => w[i + k] = w[i]}
    <2>1. 0 \in S
      OBVIOUS
    <2>2. ASSUME NEW k \in Nat, k \in S PROVE k + 1 \in S
      <3> SUFFICES ASSUME i + (k + 1) <= N PROVE w[i + (k + 1)] = w[i]
        OBVIOUS
      <3>1. PICK j \in 0 .. N : j = i + (k + 1) /\ j # 0 /\ j - 1 = i + k
        OBVIOUS
      <3>2. w[i + k] = w[i]
        BY <2>2
      <3>3. w[j] = WalkStep(w, j)
        BY <1>2, <1>3
      <3> QED
        BY <1>6, <3>1, <3>2, <3>3 DEF WalkStep
    <2> HIDE DEF S
    <2>3. PICK k \in Nat : k = N - i
      OBVIOUS
    <2>4. k \in S
      BY <2>1, <2>2, SetInduction
    <2>5. w[i + k] = w[i] /\ i + k = N
      BY <2>3, <2>4 DEF S
    <2> QED
      BY <1>4, <2>5
  <1> QED
    BY <1>1, <1>3, <1>4, <1>5, <1>6

\* Where a block at b goes: behind prev, a lower free block or none, and before
\* curr, a free block not below b or none.
LEMMA PlaceInList ==
    ASSUME NEW b \in Nat, IsFiniteSet(DOMAIN free), DOMAIN free \subseteq Nat \ {0}, ~Corrupt,
           NEW n, n = Min({i \in DOMAIN walk : walk[i] = null \/ walk[i] >= b}),
           NEW prev, prev = IF n = 0 THEN null ELSE walk[n - 1],
           NEW curr, curr = walk[n]
    PROVE  /\ prev # null => prev \in DOMAIN free /\ prev < b
           /\ curr # null => curr \in DOMAIN free /\ curr >= b
           /\ head = null => prev = null /\ curr = null
  <1> DEFINE T == {i \in DOMAIN walk : walk[i] = null \/ walk[i] >= b}
  <1>1. PICK N \in Nat : N = Cardinality(DOMAIN free)
    BY WalkStays
  <1>2. DOMAIN walk = 0 .. N /\ walk[0] = head /\ walk[N] = null
    BY <1>1, WalkStays
  <1>3. \A i \in 0 .. N : walk[i] \in DOMAIN free \cup {null}
    BY <1>1, WalkStays
  <1>4. T \subseteq Nat /\ N \in T
    BY <1>2
  <1>5. n \in T /\ \A i \in T : n <= i
    BY <1>4, MinProperties
  <1>6. n \in 0 .. N /\ (walk[n] = null \/ walk[n] >= b)
    BY <1>2, <1>5
  <1>7. n # 0 => n - 1 \in 0 .. N /\ n - 1 \notin T
    BY <1>5, <1>6
  <1>8. n # 0 => walk[n - 1] # null /\ ~(walk[n - 1] >= b)
    BY <1>2, <1>7
  <1>9. n # 0 => walk[n - 1] \in DOMAIN free
    BY <1>3, <1>7, <1>8
  <1>10. head = null => 0 \in T
    BY <1>2
  <1>11. head = null => n = 0
    BY <1>5, <1>6, <1>10
  <1>12. ASSUME prev # null PROVE prev \in DOMAIN free /\ prev < b
    <2>1. prev \in DOMAIN free /\ ~(prev >= b)
      BY <1>8, <1>9, <1>12
    <2>2. prev \in Nat
      BY <2>1
    <2> QED
      BY <2>1, <2>2
  <1>13. curr # null => curr \in DOMAIN free /\ curr >= b
    <2>1. curr \in DOMAIN free \cup {null}
      BY <1>3, <1>6
    <2>2. curr = null \/ curr >= b
      BY <1>6
    <2> QED
      BY <2>1, <2>2
  <1>14. head = null => prev = null /\ curr = null
    BY <1>2, <1>11
  <1> QED
    BY <1>12, <1>13, <1>14

\* The first fit is a free block that is large enough, or there is none.
LEMMA FirstFits ==
    ASSUME NEW request, IsFiniteSet(DOMAIN free), ~Corrupt, first_fit(request) # null
    PROVE  /\ first_fit(request) \in DOMAIN free /\ can_fit(first_fit(request), request)
           /\ first_fit(request) \in ListAddresses
  <1> DEFINE T == {i \in DOMAIN walk : walk[i] = null \/ can_fit(walk[i], request)}
  <1>1. PICK N \in Nat : N = Cardinality(DOMAIN free)
    BY WalkStays
  <1>2. DOMAIN walk = 0 .. N /\ walk[N] = null
    BY <1>1, WalkStays
  <1>3. \A i \in 0 .. N : walk[i] \in DOMAIN free \cup {null}
    BY <1>1, WalkStays
  <1>4. T \subseteq Nat /\ N \in T
    BY <1>2
  <1>5. Min(T) \in T
    BY <1>4, MinProperties
  <1>6. first_fit(request) \in ListAddresses
    BY <1>2, <1>5 DEF first_fit, ListAddresses
  <1> QED
    BY <1>2, <1>3, <1>5, <1>6 DEF first_fit

-----------------------------------------------------------------------------
(* The list: the addresses of a set, in ascending order. *)

\* n leads from b to the next address of A, or to null behind the last one.
Leads(n, b, A) ==
    /\ n = null \/ (n \in A /\ n > b)
    /\ \A c \in A : c > b => n # null /\ n <= c

\* The headers f form a list from h on through the addresses of A, in order.  A
\* prev pointer may be stale, but never leads past a block of the list.
Linked(f, h, A) ==
    /\ A \subseteq DOMAIN f
    /\ Leads(h, null, A)
    /\ \A b \in A : /\ Leads(f[b].next, b, A)
                    /\ f[b].prev < b
                    /\ \A c \in A : ~(f[b].prev < c /\ c < b)

\* prev and curr are the neighbours in the list of a block at b that is not in it.
Between(prev, b, curr, A) ==
    /\ prev = null \/ (prev \in A /\ prev < b)
    /\ \A c \in A : ~(prev < c /\ c < b)
    /\ Leads(curr, b, A)
    /\ curr = IF prev = null THEN head ELSE free[prev].next

\* The neighbours of b in a list, where a walk w from head on passes b at n.
LEMMA Neighbours ==
    ASSUME DOMAIN free \subseteq Nat \ {0},
           NEW A, Linked(free, head, A), NEW b \in Nat \ {0}, b \notin A,
           NEW w, NEW n \in Nat, w[0] = head,
           \A i \in 0 .. n - 1 :
              w[i + 1] = IF w[i] \in DOMAIN free THEN free[w[i]].next ELSE w[i],
           w[n] = 0 \/ w[n] >= b, \A i \in 0 .. n - 1 : w[i] # 0 /\ ~(w[i] >= b),
           NEW prev, prev = IF n = 0 THEN 0 ELSE w[n - 1],
           NEW curr, curr = w[n]
    PROVE  Between(prev, b, curr, A)
  <1>1. /\ A \subseteq Nat \ {0} /\ A \subseteq DOMAIN free
        /\ \A c \in A : c > 0 => head # 0 /\ head <= c
        /\ head = 0 \/ head \in A
        /\ \A a \in A : /\ free[a].next = 0 \/ (free[a].next \in A /\ free[a].next > a)
                        /\ \A c \in A : c > a => free[a].next # 0 /\ free[a].next <= c
    BY DEF Linked, Leads, null
  <1>0. \A c \in A : c \in Nat /\ c > 0 /\ c # b
    BY <1>1
  <1> DEFINE S == {i \in Nat : i <= n => w[i] = 0 \/ w[i] \in A}
  <1>2. 0 \in S
    BY <1>1
  <1>3. ASSUME NEW i \in Nat, i + 1 <= n, w[i] = 0 \/ w[i] \in A PROVE w[i + 1] = 0 \/ w[i + 1] \in A
    <2>1. i \in 0 .. n - 1
      BY <1>3
    <2>2. w[i] \in A
      BY <1>3, <2>1
    <2>3. w[i + 1] = free[w[i]].next
      BY <1>1, <2>1, <2>2
    <2> QED
      BY <1>1, <2>2, <2>3
  <1>4. \A i \in Nat : i \in S => i + 1 \in S
    BY <1>3
  <1>5. \A i \in 0 .. n : w[i] = 0 \/ w[i] \in A
    <2> HIDE DEF S
    <2>1. Nat \subseteq S
      BY <1>2, <1>4, SetInduction
    <2> QED
      BY <2>1 DEF S
  <1> HIDE DEF S
  <1>6. CASE n = 0
    <2>1. prev = 0 /\ curr = head
      BY <1>6
    <2>2. curr = 0 \/ (curr \in A /\ curr > b)
      <3>1. curr = 0 \/ (curr \in A /\ curr >= b)
        BY <1>1, <2>1, <1>6
      <3> QED
        BY <1>0, <3>1
    <2>3. \A c \in A : c > b => curr # 0 /\ curr <= c
      BY <1>1, <2>1
    <2>4. ASSUME NEW c \in A, 0 < c, c < b PROVE FALSE
      <3>1. c \in Nat /\ curr # 0 /\ curr <= c
        BY <1>0, <1>1, <2>1, <2>4
      <3>2. curr \in Nat /\ curr > b
        BY <1>0, <2>2, <3>1
      <3> QED
        BY <2>4, <3>1, <3>2
    <2> QED
      BY <2>1, <2>2, <2>3, <2>4 DEF Between, Leads, null
  <1>7. CASE n # 0
    <2>1. PICK i \in 0 .. n - 1 : i = n - 1 /\ n = i + 1
      BY <1>7
    <2>2. prev = w[i] /\ curr = w[i + 1]
      BY <1>7, <2>1
    <2>3. prev \in A
      BY <1>5, <2>1, <2>2
    <2>4. prev # 0 /\ prev < b
      BY <1>1, <2>1, <2>2, <2>3
    <2>5. curr = free[prev].next
      BY <1>1, <2>1, <2>2, <2>3
    <2>6. curr = 0 \/ (curr \in A /\ curr > prev)
      BY <1>1, <2>3, <2>5
    <2>7. \A c \in A : c > prev => curr # 0 /\ curr <= c
      BY <1>1, <2>3, <2>5
    <2>8. curr = 0 \/ (curr \in A /\ curr > b)
      BY <1>0, <2>1, <2>2, <2>6
    <2>9. \A c \in A : c > b => curr # 0 /\ curr <= c
      BY <1>0, <2>3, <2>4, <2>7
    <2>10. ASSUME NEW c \in A, prev < c, c < b PROVE FALSE
      <3>1. c \in Nat /\ prev \in Nat
        BY <1>0, <2>3
      <3>2. curr # 0 /\ curr <= c
        BY <2>7, <2>10, <3>1
      <3>3. curr \in Nat /\ curr > b
        BY <1>0, <2>8, <3>2
      <3> QED
        BY <2>10, <3>1, <3>2, <3>3
    <2> QED
      BY <2>3, <2>4, <2>5, <2>8, <2>9, <2>10 DEF Between, Leads, null
  <1> QED
    BY <1>6, <1>7

\* Where release puts the block at b: between its neighbours in the list.
LEMMA ReleasePlace ==
    ASSUME IsFiniteSet(DOMAIN free), DOMAIN free \subseteq Nat \ {0}, ~Corrupt,
           NEW A, Linked(free, head, A), NEW b \in Nat \ {0}, b \notin A,
           NEW n, n = Min({i \in DOMAIN walk : walk[i] = null \/ walk[i] >= b}),
           NEW prev, prev = IF n = 0 THEN null ELSE walk[n - 1],
           NEW curr, curr = walk[n]
    PROVE  Between(prev, b, curr, A)
  <1> DEFINE T == {i \in DOMAIN walk : walk[i] = null \/ walk[i] >= b}
  <1>0. null = 0
    BY DEF null
  <1>1. PICK N \in Nat : N = Cardinality(DOMAIN free)
    BY WalkStays
  <1>2. DOMAIN walk = 0 .. N /\ walk[0] = head /\ walk[N] = null
    BY <1>1, WalkStays
  <1>3. T \subseteq Nat /\ N \in T
    BY <1>2
  <1>4. n \in T /\ \A i \in T : n <= i
    BY <1>3, MinProperties
  <1>5. n \in 0 .. N /\ (walk[n] = null \/ walk[n] >= b)
    BY <1>2, <1>4
  <1>6. ASSUME NEW i \in 0 .. n - 1
        PROVE  /\ walk[i] # null /\ ~(walk[i] >= b)
               /\ walk[i + 1] = IF walk[i] \in DOMAIN free THEN free[walk[i]].next ELSE walk[i]
    <2>1. i \in 0 .. N /\ ~(n <= i)
      BY <1>5
    <2>2. walk[i] # null /\ ~(walk[i] >= b)
      BY <1>2, <1>4, <2>1
    <2>3. i + 1 \in 0 .. N /\ i + 1 # 0 /\ (i + 1) - 1 = i
      BY <1>5
    <2>4. walk[i + 1] = WalkStep(walk, i + 1)
      BY <1>1, <2>3, WalkEquation
    <2>5. walk[i + 1] = IF walk[i] \in DOMAIN free THEN free[walk[i]].next ELSE walk[i]
      BY <2>3, <2>4 DEF WalkStep
    <2> QED
      BY <2>2, <2>5
  <1>7. PICK w : w = walk
    OBVIOUS
  <1>8. w[0] = head
    BY <1>2, <1>7
  <1>9. w[n] = 0 \/ w[n] >= b
    BY <1>0, <1>5, <1>7
  <1>10. \A i \in 0 .. n - 1 : w[i] # 0 /\ ~(w[i] >= b)
    BY <1>0, <1>6, <1>7
  <1>11. \A i \in 0 .. n - 1 :
            w[i + 1] = IF w[i] \in DOMAIN free THEN free[w[i]].next ELSE w[i]
    BY <1>6, <1>7, Zenon
  <1>12. prev = IF n = 0 THEN 0 ELSE w[n - 1]
    BY <1>0, <1>7
  <1>13. curr = w[n] /\ n \in Nat
    BY <1>5, <1>7
  <1> HIDE DEF T
  <1> QED
    BY <1>8, <1>9, <1>10, <1>11, <1>12, <1>13, Neighbours

-----------------------------------------------------------------------------
(* Blocks as intervals: S and U give the words of each free and each used  *)
(* block by address, M is the memory they lie in.                          *)

Apart(b, r, c, s) == b + r <= c \/ c + s <= b

Sized(S) == DOMAIN S \subseteq Nat /\ S \in [DOMAIN S -> Nat \ {0}]

Inside(S, M) == \A b \in DOMAIN S : b .. b + S[b] - 1 \subseteq M

Separate(S) == \A b \in DOMAIN S : \A c \in DOMAIN S \ {b} : Apart(b, S[b], c, S[c])

Across(S, U) == \A b \in DOMAIN S : \A c \in DOMAIN U : Apart(b, S[b], c, U[c])

Sound(S, U, M) ==
    /\ Sized(S) /\ Separate(S) /\ Inside(S, M)
    /\ Sized(U) /\ Separate(U) /\ Inside(U, M)
    /\ Across(S, U)

\* A block of s words at b, in place of any other there.
Put(S, b, s) == [c \in DOMAIN S \cup {b} |-> IF c = b THEN s ELSE S[c]]

Drop(S, b) == [c \in DOMAIN S \ {b} |-> S[c]]

\* The block at a with the words of the block at b.
Merge(S, a, b) == [c \in DOMAIN S \ {b} |-> IF c = a THEN S[a] + S[b] ELSE S[c]]

\* Intervals that are apart share no word.
LEMMA ApartDisjoint ==
    ASSUME NEW b \in Nat, NEW r \in Nat, NEW c \in Nat, NEW s \in Nat, Apart(b, r, c, s)
    PROVE  (b .. b + r - 1) \cap (c .. c + s - 1) = {}
  BY DEF Apart

\* Free and used blocks play the same part.
LEMMA SoundSwap ==
    ASSUME NEW S, NEW U, NEW M, Sound(S, U, M)
    PROVE  Sound(U, S, M)
  <1>1. Across(U, S)
    BY DEF Sound, Across, Apart, Sized
  <1> QED
    BY <1>1 DEF Sound

\* Memory may be added.
LEMMA SoundMore ==
    ASSUME NEW S, NEW U, NEW M, Sound(S, U, M), NEW N, M \subseteq N
    PROVE  Sound(S, U, N)
  BY DEF Sound, Inside

\* A block may disappear.
LEMMA SoundDrop ==
    ASSUME NEW S, NEW U, NEW M, Sound(S, U, M), NEW b
    PROVE  Sound(Drop(S, b), U, M)
  BY DEF Sound, Drop, Sized, Separate, Inside, Across

\* A block may appear, or change its size, where no other block is.
LEMMA SoundPut ==
    ASSUME NEW S, NEW U, NEW M, Sound(S, U, M),
           NEW b \in Nat, NEW s \in Nat \ {0}, b .. b + s - 1 \subseteq M,
           \A c \in DOMAIN S \ {b} : Apart(b, s, c, S[c]),
           \A c \in DOMAIN U : Apart(b, s, c, U[c])
    PROVE  Sound(Put(S, b, s), U, M)
  <1> DEFINE T == Put(S, b, s)
  <1>1. DOMAIN T = DOMAIN S \cup {b} /\ T[b] = s /\ \A c \in DOMAIN S \ {b} : T[c] = S[c]
    BY DEF Put
  <1>2. Sized(S) /\ Separate(S) /\ Inside(S, M) /\ Sized(U) /\ Separate(U) /\ Inside(U, M) /\ Across(S, U)
    BY DEF Sound
  <1>3. Sized(T)
    BY <1>2 DEF Sized, Put
  <1> HIDE DEF T
  <1>4. Separate(T)
    <2> SUFFICES ASSUME NEW c \in DOMAIN T, NEW d \in DOMAIN T \ {c} PROVE Apart(c, T[c], d, T[d])
      BY DEF Separate
    <2>1. CASE c = b
      BY <1>1, <2>1
    <2>2. CASE d = b
      <3>1. Apart(b, s, c, S[c]) /\ c \in Nat /\ S[c] \in Nat
        BY <1>1, <1>2, <2>2 DEF Sized
      <3> QED
        BY <1>1, <2>2, <3>1 DEF Apart
    <2>3. CASE c # b /\ d # b
      BY <1>1, <1>2, <2>3 DEF Separate
    <2> QED
      BY <2>1, <2>2, <2>3
  <1>5. Inside(T, M)
    BY <1>1, <1>2 DEF Inside
  <1>6. Across(T, U)
    BY <1>1, <1>2 DEF Across
  <1> QED
    BY <1>2, <1>3, <1>4, <1>5, <1>6 DEF Sound, T

\* What is apart from two adjacent blocks is apart from both as one.
LEMMA ApartMerge ==
    ASSUME NEW a \in Nat, NEW r \in Nat \ {0}, NEW b \in Nat, NEW s \in Nat \ {0},
           NEW c \in Nat, NEW t \in Nat \ {0},
           a + r = b, Apart(a, r, c, t), Apart(b, s, c, t)
    PROVE  Apart(a, r + s, c, t)
  BY DEF Apart

\* Two adjacent blocks may become one.
LEMMA SoundMerge ==
    ASSUME NEW S, NEW U, NEW M, Sound(S, U, M),
           NEW a \in DOMAIN S, NEW b \in DOMAIN S, a + S[a] = b
    PROVE  Sound(Merge(S, a, b), U, M)
  <1> DEFINE T == Drop(S, b)
  <1>1. Sized(S) /\ Separate(S) /\ Inside(S, M) /\ Sized(U) /\ Across(S, U)
    BY DEF Sound
  <1>2. a \in Nat /\ b \in Nat /\ S[a] \in Nat \ {0} /\ S[b] \in Nat \ {0}
    BY <1>1 DEF Sized
  <1>3. a # b
    BY <1>2
  <1>4. Sound(T, U, M)
    BY SoundDrop
  <1>5. DOMAIN T = DOMAIN S \ {b} /\ \A c \in DOMAIN T : T[c] = S[c]
    BY DEF Drop
  <1>6. PICK s \in Nat \ {0} : s = S[a] + S[b]
    BY <1>2
  <1>7. ASSUME NEW c \in DOMAIN T \ {a} PROVE Apart(a, s, c, T[c])
    <2>1. c \in Nat /\ S[c] \in Nat \ {0} /\ Apart(a, S[a], c, S[c]) /\ Apart(b, S[b], c, S[c])
      BY <1>1, <1>5, <1>7 DEF Sized, Separate
    <2>2. Apart(a, S[a] + S[b], c, S[c])
      BY <1>2, <2>1, ApartMerge
    <2> QED
      BY <1>5, <1>6, <2>2
  <1>8. ASSUME NEW c \in DOMAIN U PROVE Apart(a, s, c, U[c])
    <2>1. c \in Nat /\ U[c] \in Nat \ {0} /\ Apart(a, S[a], c, U[c]) /\ Apart(b, S[b], c, U[c])
      BY <1>1 DEF Sized, Across
    <2>2. Apart(a, S[a] + S[b], c, U[c])
      BY <1>2, <2>1, ApartMerge
    <2> QED
      BY <1>6, <2>2
  <1>9. a .. a + s - 1 \subseteq M
    <2>1. a .. a + S[a] - 1 \subseteq M /\ b .. b + S[b] - 1 \subseteq M
      BY <1>1 DEF Inside
    <2> QED
      BY <1>2, <1>6, <2>1
  <1> HIDE DEF T
  <1>10. Sound(Put(T, a, s), U, M)
    BY <1>2, <1>4, <1>7, <1>8, <1>9, SoundPut
  <1>11. Put(T, a, s) = Merge(S, a, b)
    BY <1>3, <1>5, <1>6 DEF Put, Merge
  <1> QED
    BY <1>10, <1>11

\* A used block may become free.
LEMMA SoundFree ==
    ASSUME NEW S, NEW U, NEW M, Sound(S, U, M), NEW b \in DOMAIN U
    PROVE  Sound(Put(S, b, U[b]), Drop(U, b), M) /\ b \notin DOMAIN S
  <1>1. Sized(S) /\ Sized(U) /\ Separate(U) /\ Inside(U, M) /\ Across(S, U)
    BY DEF Sound
  <1>2. b \in Nat /\ U[b] \in Nat \ {0} /\ b .. b + U[b] - 1 \subseteq M
    BY <1>1 DEF Sized, Inside
  <1>3. Sound(S, Drop(U, b), M)
    BY SoundSwap, SoundDrop
  <1>4. \A c \in DOMAIN Drop(U, b) : Apart(b, U[b], c, Drop(U, b)[c])
    BY <1>1 DEF Drop, Separate
  <1>5. \A c \in DOMAIN S : Apart(b, U[b], c, S[c])
    BY <1>1 DEF Across, Apart, Sized
  <1>6. b \notin DOMAIN S
    BY <1>1, <1>2 DEF Across, Apart, Sized
  <1> QED
    BY <1>2, <1>3, <1>4, <1>5, <1>6, SoundPut

\* The end of a free block may become a used block: its r first words stay free.
LEMMA SoundCarve ==
    ASSUME NEW S, NEW U, NEW M, Sound(S, U, M), NEW b \in DOMAIN S,
           NEW r \in Nat \ {0}, NEW s \in Nat \ {0}, r + s = S[b]
    PROVE  Sound(Put(S, b, r), Put(U, b + r, s), M) /\ b + r \notin DOMAIN U
  <1>1. Sized(S) /\ Separate(S) /\ Inside(S, M) /\ Sized(U) /\ Across(S, U)
    BY DEF Sound
  <1>2. b \in Nat /\ S[b] \in Nat \ {0}
    BY <1>1 DEF Sized
  <1>3. PICK a \in Nat : a = b + r
    BY <1>2
  <1>4. b .. b + r - 1 \subseteq M /\ a .. a + s - 1 \subseteq M
    <2>1. b .. b + S[b] - 1 \subseteq M
      BY <1>1 DEF Inside
    <2> QED
      BY <1>2, <1>3, <2>1
  <1>5. ASSUME NEW c \in Nat, NEW t \in Nat \ {0}, Apart(b, S[b], c, t)
        PROVE  Apart(b, r, c, t) /\ Apart(a, s, c, t)
    BY <1>2, <1>3, <1>5 DEF Apart
  <1>6. \A c \in DOMAIN S \ {b} : Apart(b, r, c, S[c]) /\ Apart(a, s, c, S[c])
    BY <1>1, <1>5 DEF Sized, Separate
  <1>7. \A c \in DOMAIN U : Apart(b, r, c, U[c]) /\ Apart(a, s, c, U[c])
    BY <1>1, <1>5 DEF Sized, Across
  <1>8. a \notin DOMAIN U
    BY <1>1, <1>3, <1>7 DEF Apart, Sized
  <1>9. PICK T : T = Put(S, b, r)
    OBVIOUS
  <1>10. Sound(T, U, M)
    BY <1>2, <1>4, <1>6, <1>7, <1>9, SoundPut
  <1>11. \A c \in DOMAIN T : Apart(a, s, c, T[c])
    BY <1>2, <1>3, <1>6, <1>9 DEF Put, Apart
  <1>12. Sound(U, T, M)
    BY <1>10, SoundSwap
  <1>13. Sound(Put(U, a, s), T, M)
    BY <1>4, <1>7, <1>11, <1>12, SoundPut
  <1>14. Sound(T, Put(U, a, s), M)
    BY <1>13, SoundSwap
  <1> QED
    BY <1>3, <1>8, <1>9, <1>14

\* A free block may become a used block of s words, if it has as many.
LEMMA SoundTake ==
    ASSUME NEW S, NEW U, NEW M, Sound(S, U, M), NEW b \in DOMAIN S,
           NEW s \in Nat \ {0}, s <= S[b]
    PROVE  Sound(Drop(S, b), Put(U, b, s), M) /\ b \notin DOMAIN U
  <1>1. Sized(S) /\ Separate(S) /\ Inside(S, M) /\ Sized(U) /\ Across(S, U)
    BY DEF Sound
  <1>2. b \in Nat /\ S[b] \in Nat \ {0}
    BY <1>1 DEF Sized
  <1>3. b .. b + s - 1 \subseteq M
    <2>1. b .. b + S[b] - 1 \subseteq M
      BY <1>1 DEF Inside
    <2> QED
      BY <1>2, <2>1
  <1>4. \A c \in DOMAIN U : Apart(b, S[b], c, U[c]) /\ c \in Nat /\ U[c] \in Nat \ {0}
    BY <1>1 DEF Across, Sized
  <1>5. \A c \in DOMAIN U : Apart(b, s, c, U[c])
    BY <1>2, <1>4 DEF Apart
  <1>6. b \notin DOMAIN U
    BY <1>2, <1>4 DEF Apart
  <1>7. PICK T : T = Drop(S, b)
    OBVIOUS
  <1>8. Sound(U, T, M)
    BY <1>7, SoundDrop, SoundSwap
  <1>9. \A c \in DOMAIN T : Apart(b, S[b], c, T[c]) /\ c \in Nat /\ T[c] \in Nat \ {0}
    BY <1>1, <1>7 DEF Drop, Sized, Separate
  <1>10. \A c \in DOMAIN T : Apart(b, s, c, T[c])
    BY <1>2, <1>9 DEF Apart
  <1>11. Sound(Put(U, b, s), T, M)
    BY <1>2, <1>3, <1>5, <1>8, <1>10, SoundPut
  <1>12. Sound(T, Put(U, b, s), M)
    BY <1>11, SoundSwap
  <1> QED
    BY <1>6, <1>7, <1>12

-----------------------------------------------------------------------------
(* The headers, and what insert makes of them. *)

Header == [size : 0 .. SizeMax, next : Int, prev : Int]

\* The words of the blocks that the free headers in f describe.
SizesOf(f) == [c \in DOMAIN f |-> Wrap(f[c].size + free_header)]

UsedSizes == [c \in DOMAIN used |-> used[c] + used_header]

\* The pointers of the headers G once b is linked between prev and curr, and
\* curr is merged into it if N, and it into prev if P.
Relinked(G, prev, b, curr, N, P) ==
    /\ DOMAIN G = (DOMAIN free \cup {b}) \ ((IF N THEN {curr} ELSE {}) \cup (IF P THEN {b} ELSE {}))
    /\ \A c \in DOMAIN G :
          /\ G[c].next = IF c = b \/ (P /\ c = prev) THEN IF N THEN free[curr].next ELSE curr
                         ELSE IF c = prev THEN b ELSE free[c].next
          /\ G[c].prev = IF c = b THEN prev ELSE IF c = curr THEN b ELSE free[c].prev

\* The words of a block of size words at b with those of curr, if N.
Joined(size, curr, N) == IF N THEN size + real_size(curr) ELSE size

\* The sizes T of the blocks then.
Resized(T, size, prev, b, curr, N, P) ==
    \A c \in DOMAIN T :
        T[c] = IF c = b THEN Joined(size, curr, N)
               ELSE IF P /\ c = prev THEN real_size(prev) + Joined(size, curr, N)
               ELSE real_size(c)

\* The same, step by step.
Merged(size, prev, b, curr, N, P) ==
    LET S1 == Put(SizesOf(free), b, size)
        S2 == IF N THEN Merge(S1, b, curr) ELSE S1
    IN  IF P THEN Merge(S2, prev, b) ELSE S2

Inserted(G, size, prev, b, curr, N, P) ==
    /\ G \in [DOMAIN G -> Header]
    /\ Relinked(G, prev, b, curr, N, P)
    /\ Resized(SizesOf(G), size, prev, b, curr, N, P)
    /\ SizesOf(G) = Merged(size, prev, b, curr, N, P)

\* A new block takes over the words and the pointers of the neighbours it
\* touches, and no other block changes its size.
LEMMA InsertHeaders ==
    ASSUME DOMAIN free \subseteq 1 .. SizeMax, free \in [DOMAIN free -> Header],
           \A c \in DOMAIN free : real_size(c) \in 1 .. SizeMax /\ c + real_size(c) <= SizeMax,
           NEW b \in 1 .. SizeMax, NEW size \in 1 .. SizeMax, b + size <= SizeMax,
           NEW prev, prev # null => prev \in DOMAIN free /\ prev < b,
           NEW curr, curr # null => curr \in DOMAIN free /\ curr > b,
           NEW N \in BOOLEAN, N = (curr # null /\ b + size = curr),
           NEW P \in BOOLEAN, P = (prev # null /\ prev + real_size(prev) = b),
           NEW G, G = insert(b, size, prev, curr)
    PROVE  Inserted(G, size, prev, b, curr, N, P)
  <1>s. PICK S1, S2, S3 : /\ S1 = Put(SizesOf(free), b, size)
                          /\ S2 = IF N THEN Merge(S1, b, curr) ELSE S1
                          /\ S3 = IF P THEN Merge(S2, prev, b) ELSE S2
    OBVIOUS
  <1>0. SizeMax \in Nat
    BY RangeAssumption
  <1>n. null = 0 /\ free_header = 3
    BY DEF null, free_header
  <1>1. PICK linked : linked = [size |-> Wrap(size - 3), next |-> curr, prev |-> prev]
    OBVIOUS
  <1>2. curr \in Int /\ prev \in Int
    BY <1>0, <1>n
  <1>3. linked \in Header /\ linked.size \in 0 .. SizeMax /\ linked.size = Wrap(size - 3)
    BY <1>0, <1>1, <1>2, WrapRange DEF Header
  <1>4. Wrap(linked.size + 3) = size
    BY <1>0, <1>3, SizeArithmetic DEF free_header
  <1>5. N = (curr # null /\ b + size = curr)
    OBVIOUS
  <1>6. P = (prev # null /\ prev + real_size(prev) = b)
    OBVIOUS
  <1>7. touches(b, size, curr) <=> N
    <2>1. Wrap(b + size) = b + size
      BY <1>0, WrapSame
    <2> QED
      BY <1>5, <2>1 DEF touches
  <1>8. prev # null => (touches(prev, real_size(prev), b) <=> P)
    <2> SUFFICES ASSUME prev # null PROVE touches(prev, real_size(prev), b) <=> P
      OBVIOUS
    <2>1. PICK k \in 0 .. SizeMax : k = prev + real_size(prev)
      BY <1>0
    <2>2. Wrap(k) = k
      BY WrapSame
    <2>3. Wrap(prev + real_size(prev)) = prev + real_size(prev)
      BY <2>1, <2>2
    <2>4. b # null
      BY <1>n
    <2> QED
      BY <1>6, <2>3, <2>4 DEF touches
  <1>9. PICK block : block = coalesce_next(b, linked)
    OBVIOUS
  <1>10. PICK rb \in 1 .. SizeMax :
            b + rb <= SizeMax /\ rb = IF N THEN size + real_size(curr) ELSE size
    <2>1. CASE N
      <3>1. curr \in DOMAIN free /\ curr = b + size
        BY <1>5, <2>1
      <3>2. PICK r \in 1 .. SizeMax : r = real_size(curr) /\ curr + r <= SizeMax
        BY <3>1
      <3>3. size + r \in 1 .. SizeMax /\ b + (size + r) <= SizeMax
        BY <1>0, <3>1, <3>2
      <3> QED
        BY <2>1, <3>2, <3>3
    <2>2. CASE ~N
      BY <2>2
    <2> QED
      BY <2>1, <2>2
  <1>r. rb = Joined(size, curr, N)
    BY <1>10 DEF Joined
  <1>x. PICK nx : nx = IF N THEN free[curr].next ELSE curr
    OBVIOUS
  <1>11. /\ block \in Header /\ Wrap(block.size + 3) = rb /\ (block # linked <=> N)
         /\ block.next = nx /\ block.prev = prev
    <2>1. CASE N
      <3>1. curr # null /\ curr \in DOMAIN free /\ linked.next = curr
        BY <1>1, <1>5, <2>1
      <3>2. PICK z \in 0 .. SizeMax, r \in 1 .. SizeMax : z = linked.size /\ r = real_size(curr)
        BY <1>3, <3>1
      <3>3. block = [linked EXCEPT !.size = Wrap(z + r), !.next = free[curr].next]
        BY <1>4, <1>7, <1>9, <1>n, <2>1, <3>1, <3>2 DEF coalesce_next
      <3>4. free[curr].next \in Int
        BY <3>1 DEF Header
      <3>5. Wrap(z + r) \in 0 .. SizeMax
        BY WrapRange
      <3>6. block \in Header /\ block.size = Wrap(z + r)
        BY <1>3, <3>3, <3>4, <3>5 DEF Header
      <3>p. block.next = nx /\ block.prev = prev
        BY <1>1, <1>x, <2>1, <3>3
      <3>7. Wrap(z + 3) = size /\ Wrap(z + 3) + r <= SizeMax /\ r \in 0 .. SizeMax
        BY <1>4, <1>10, <2>1, <3>2
      <3>8. Wrap(Wrap(z + r) + 3) = Wrap(z + 3) + r
        BY <3>7, <1>n, SizeArithmetic
      <3>9. Wrap(z + r) # z
        BY SizeArithmetic
      <3> QED
        BY <1>10, <2>1, <3>2, <3>6, <3>p, <3>7, <3>8, <3>9
    <2>2. CASE ~N
      <3>1. block = linked
        BY <1>1, <1>4, <1>7, <1>9, <1>n, <2>2 DEF coalesce_next
      <3>2. block.next = nx /\ block.prev = prev
        BY <1>1, <1>x, <2>2, <3>1
      <3> QED
        BY <1>3, <1>4, <1>10, <2>2, <3>1, <3>2
    <2> QED
      BY <2>1, <2>2
  <1>d. /\ b # prev /\ b # curr
        /\ \A c \in DOMAIN free : c = prev => c # curr
    BY <1>n
  <1>12. PICK A : A = (IF N THEN {curr} ELSE {}) \cup (IF P THEN {b} ELSE {})
    OBVIOUS
  <1>13. G = [c \in (DOMAIN free \cup {b}) \ A |->
                CASE c = b    -> block
                  [] c = prev -> coalesce_prev(b, block, prev)
                  [] c = curr -> link_back(curr, b)
                  [] OTHER    -> free[c]]
    <2>1. A = (IF block # linked THEN {curr} ELSE {})
                 \cup (IF prev # null /\ touches(prev, real_size(prev), b) THEN {b} ELSE {})
      BY <1>6, <1>8, <1>11, <1>12
    <2> QED
      BY <1>1, <1>9, <1>n, <2>1 DEF insert
  <1>14. DOMAIN S3 = (DOMAIN free \cup {b}) \ A
    <2>1. DOMAIN S1 = DOMAIN free \cup {b}
      BY <1>s DEF Put, SizesOf
    <2>2. DOMAIN S2 = (DOMAIN free \cup {b}) \ (IF N THEN {curr} ELSE {})
      BY <1>s, <1>5, <2>1 DEF Merge
    <2> QED
      BY <1>s, <1>6, <1>12, <2>2 DEF Merge
  <1>15. ASSUME NEW c \in DOMAIN S3
         PROVE  S3[c] = IF c = b THEN rb
                        ELSE IF P /\ c = prev THEN real_size(prev) + rb
                        ELSE real_size(c)
    <2>1. DOMAIN S1 = DOMAIN free \cup {b} /\ S1[b] = size
      BY <1>s DEF Put, SizesOf
    <2>2. \A d \in DOMAIN free \ {b} : S1[d] = real_size(d)
      BY <1>s DEF Put, SizesOf, real_size
    <2>3. DOMAIN S2 = DOMAIN S1 \ (IF N THEN {curr} ELSE {})
      BY <1>s, <1>5 DEF Merge
    <2>4. b \in DOMAIN S2 /\ S2[b] = rb
      <3>1. CASE N
        <4>1. S2 = Merge(S1, b, curr) /\ curr \in DOMAIN free \ {b}
          BY <1>s, <1>5, <1>d, <3>1
        <4> QED
          BY <1>10, <2>1, <2>2, <3>1, <4>1 DEF Merge
      <3>2. CASE ~N
        BY <1>s, <1>5, <1>10, <2>1, <3>2
      <3> QED
        BY <3>1, <3>2
    <2>5. \A d \in DOMAIN S2 \ {b} : S2[d] = real_size(d)
      BY <1>s, <1>5, <2>1, <2>2, <2>3 DEF Merge
    <2>6. P => prev \in DOMAIN S2 /\ prev # b /\ S2[prev] = real_size(prev)
      <3> SUFFICES ASSUME P PROVE prev \in DOMAIN S2
        BY <1>d, <2>5
      <3>1. prev \in DOMAIN free
        BY <1>s, <1>6
      <3> QED
        BY <1>d, <2>1, <2>3, <3>1
    <2>7. CASE P
      <3>1. S3 = Merge(S2, prev, b)
        BY <1>s, <1>6, <2>7
      <3>2. c # b /\ c \in DOMAIN S2
        BY <3>1 DEF Merge
      <3> QED
        BY <2>4, <2>5, <2>6, <2>7, <3>1, <3>2 DEF Merge
    <2>8. CASE ~P
      BY <1>s, <1>6, <2>4, <2>5, <2>8
    <2> QED
      BY <2>7, <2>8
  <1>16. ASSUME NEW c \in DOMAIN S3
         PROVE  /\ G[c] \in Header /\ Wrap(G[c].size + 3) = S3[c]
                /\ G[c].next = IF c = b \/ (P /\ c = prev) THEN nx
                               ELSE IF c = prev THEN b ELSE free[c].next
                /\ G[c].prev = IF c = b THEN prev ELSE IF c = curr THEN b ELSE free[c].prev
    <2>1. c \in (DOMAIN free \cup {b}) \ A
      BY <1>14
    <2>2. CASE c = b
      <3>1. G[c] = block
        BY <1>13, <1>d, <2>1, <2>2
      <3> QED
        BY <1>11, <1>15, <2>2, <3>1
    <2>3. CASE c = prev /\ c # b
      <3>1. G[c] = coalesce_prev(b, block, prev) /\ prev \in DOMAIN free
        BY <1>13, <1>d, <2>1, <2>3
      <3>2. free[prev] \in Header /\ free[prev].size \in 0 .. SizeMax /\ block.next \in Int
        BY <1>11, <3>1 DEF Header
      <3>3. prev # null
        BY <1>n, <3>1
      <3>4. CASE P
        <4>1. G[c] = [free[prev] EXCEPT !.size = Wrap(@ + block.size + 3), !.next = block.next]
          BY <1>8, <1>n, <3>1, <3>3, <3>4 DEF coalesce_prev
        <4>2. PICK y \in 0 .. SizeMax, z \in 0 .. SizeMax : y = free[prev].size /\ z = block.size
          BY <1>11, <3>2 DEF Header
        <4>3. PICK k \in Int : k = y + z + 3
          OBVIOUS
        <4>4. Wrap(k) \in 0 .. SizeMax
          BY WrapRange
        <4>p. G[c].next = nx /\ G[c].prev = free[c].prev
          BY <1>11, <2>3, <3>2, <4>1 DEF Header
        <4>5. G[c] \in Header /\ G[c].size = Wrap(k)
          BY <3>2, <4>1, <4>2, <4>3, <4>4 DEF Header
        <4>6. Wrap(y + 3) = real_size(prev) /\ Wrap(z + 3) = rb
          BY <1>11, <1>n, <4>2 DEF real_size
        <4>7. real_size(prev) + rb <= SizeMax
          <5>1. prev + real_size(prev) = b /\ prev \in 1 .. SizeMax /\ real_size(prev) \in 1 .. SizeMax
            BY <1>6, <3>1, <3>4
          <5> QED
            BY <1>0, <1>10, <5>1
        <4>8. Wrap(Wrap(y + z + 3) + 3) = Wrap(y + 3) + Wrap(z + 3)
          BY <1>n, <4>6, <4>7, SizeArithmetic
        <4> QED
          BY <1>15, <1>d, <2>3, <3>1, <3>4, <4>p, <4>3, <4>5, <4>6, <4>8
      <3>5. CASE ~P
        <4>1. G[c] = [free[prev] EXCEPT !.next = b]
          BY <1>8, <1>n, <3>1, <3>3, <3>5 DEF coalesce_prev
        <4>2. G[c] \in Header /\ G[c].size = free[prev].size
          BY <3>2, <4>1 DEF Header
        <4>3. G[c].next = b /\ G[c].prev = free[c].prev
          BY <2>3, <3>2, <4>1 DEF Header
        <4> QED
          BY <1>15, <1>d, <1>n, <2>3, <3>1, <3>5, <4>2, <4>3 DEF real_size
      <3> QED
        BY <3>4, <3>5
    <2>4. CASE c = curr /\ c # b /\ c # prev
      <3>1. G[c] = [free[c] EXCEPT !.prev = b] /\ c \in DOMAIN free
        BY <1>13, <2>1, <2>4 DEF link_back
      <3>2. free[c] \in Header
        BY <3>1
      <3>3. /\ G[c] \in Header /\ G[c].size = free[c].size
            /\ G[c].next = free[c].next /\ G[c].prev = b
        BY <3>1, <3>2 DEF Header
      <3> QED
        BY <1>15, <1>n, <2>4, <3>3 DEF real_size
    <2>5. CASE c # b /\ c # prev /\ c # curr
      <3>1. G[c] = free[c] /\ c \in DOMAIN free
        BY <1>13, <2>1, <2>5
      <3> QED
        BY <1>15, <1>n, <2>5, <3>1 DEF real_size
    <2> QED
      BY <2>2, <2>3, <2>4, <2>5
  <1>17. DOMAIN G = DOMAIN S3 /\ G = [c \in DOMAIN G |-> G[c]]
    <2>1. DOMAIN G = (DOMAIN free \cup {b}) \ A
      BY <1>13
    <2>2. G = [c \in DOMAIN G |-> G[c]]
      BY <1>13
    <2> QED
      BY <1>14, <2>1, <2>2
  <1>18. S3 = [c \in DOMAIN S3 |-> S3[c]]
    <2>1. S1 = [c \in DOMAIN S1 |-> S1[c]]
      BY <1>s DEF Put
    <2>2. S2 = [c \in DOMAIN S2 |-> S2[c]]
      <3>1. CASE N
        BY <1>s, <1>5, <3>1 DEF Merge
      <3>2. CASE ~N
        BY <1>s, <1>5, <2>1, <3>2
      <3> QED
        BY <3>1, <3>2
    <2>3. CASE P
      <3>1. S3 = Merge(S2, prev, b)
        BY <1>s, <1>6, <2>3
      <3> QED
        BY <3>1 DEF Merge
    <2>4. CASE ~P
      BY <1>s, <1>6, <2>2, <2>4
    <2> QED
      BY <2>3, <2>4
  <1>19. SizesOf(G) = S3
    BY <1>16, <1>17, <1>18, <1>n DEF SizesOf
  <1>20. Relinked(G, prev, b, curr, N, P)
    <2>1. DOMAIN G = (DOMAIN free \cup {b}) \ ((IF N THEN {curr} ELSE {}) \cup (IF P THEN {b} ELSE {}))
      BY <1>12, <1>14, <1>17
    <2> QED
      BY <1>16, <1>17, <1>x, <2>1 DEF Relinked
  <1>21. Resized(SizesOf(G), size, prev, b, curr, N, P)
    BY <1>15, <1>r, <1>19 DEF Resized
  <1> QED
    BY <1>s, <1>16, <1>17, <1>19, <1>20, <1>21 DEF Inserted, Merged

\* A free block whose size did not wrap when its header was subtracted.
LEMMA RealSize ==
    ASSUME NEW z \in 0 .. SizeMax, NEW k \in Int, k = z + 3, Wrap(k) >= 3
    PROVE  Wrap(k) = k
  <1>0. SizeMax \in Nat
    BY RangeAssumption
  <1>1. CASE k <= SizeMax
    BY <1>0, <1>1, WrapSame
  <1>2. CASE k > SizeMax
    <2>1. PICK m \in Nat \ {0}, w \in Int : m = SizeMax + 1 /\ w = k - m
      BY <1>0
    <2>2. CASE w \in 0 .. m - 1
      <3>1. k = 1 * m + w
        BY <2>1
      <3>2. k % m = w
        BY <2>2, <3>1, Remainder
      <3>3. Wrap(k) = w /\ w <= 2
        BY <1>0, <2>1, <3>2 DEF Wrap
      <3> QED
        BY <2>1, <3>3
    <2>3. CASE w \notin 0 .. m - 1
      <3>1. SizeMax <= 2 /\ Wrap(k) \in 0 .. SizeMax
        BY <1>0, <1>2, <2>1, <2>3, WrapRange
      <3> QED
        BY <1>0, <3>1
    <2> QED
      BY <2>2, <2>3
  <1> QED
    BY <1>0, <1>1, <1>2

\* What the assumption says of one region.
LEMMA RegionFacts ==
    ASSUME NEW i \in 1 .. Len(Regions)
    PROVE  /\ Regions[i].base \in 1 .. SizeMax /\ Regions[i].size \in 1 .. SizeMax
           /\ Regions[i].base + Regions[i].size + 2 <= SizeMax
           /\ \A j \in 1 .. Len(Regions) :
                 i < j => Regions[i].base + Regions[i].size + 2 <= Regions[j].base
  <1>1. Regions \in Seq([base : 1 .. SizeMax, size : 1 .. SizeMax])
    BY RegionAssumption
  <1>2. DOMAIN Regions = 1 .. Len(Regions) /\ Regions[i] \in [base : 1 .. SizeMax, size : 1 .. SizeMax]
    BY <1>1, LenProperties, ElementOfSeq
  <1>3. Regions[i].base \in 1 .. SizeMax /\ Regions[i].size \in 1 .. SizeMax
    BY <1>2
  <1>4. Regions[i].base + Regions[i].size + 2 <= SizeMax
    BY <1>2, RegionAssumption DEF used_header
  <1>5. \A j \in 1 .. Len(Regions) :
            i < j => Regions[i].base + Regions[i].size + 2 <= Regions[j].base
    BY <1>2, RegionAssumption DEF used_header
  <1> QED
    BY <1>3, <1>4, <1>5

\* The words given to the allocator are addresses, and the last one is not of
\* them.
LEMMA GivenInside ==
    ASSUME added \in 0 .. Len(Regions)
    PROVE  TakenWords \subseteq 1 .. SizeMax - 1
  <1> SUFFICES ASSUME NEW i \in 1 .. added, NEW w \in TakenFrom(i) PROVE w \in 1 .. SizeMax - 1
    BY DEF TakenWords
  <1>1. Regions \in Seq([base : 1 .. SizeMax, size : 1 .. SizeMax])
    BY RegionAssumption
  <1>2. i \in 1 .. Len(Regions)
    BY <1>1
  <1>3. /\ Regions[i].base \in 1 .. SizeMax /\ Regions[i].size \in 1 .. SizeMax
        /\ Regions[i].base + Regions[i].size + 2 <= SizeMax
    BY <1>2, RegionFacts
  <1>4. PICK base \in 1 .. SizeMax, size \in 1 .. SizeMax :
            base = Regions[i].base /\ size = Regions[i].size
    BY <1>3
  <1>5. w \in base .. base + size + 2 - 1 /\ base + size + 2 <= SizeMax
    BY <1>3, <1>4 DEF TakenFrom, used_header
  <1>6. SizeMax \in Nat
    BY RangeAssumption
  <1> QED
    BY <1>5, <1>6

\* Where release puts the block at b, and what the headers are then.
Released(b, size, prev, curr, N, P) ==
    /\ prev # null => prev \in DOMAIN free /\ prev < b
    /\ curr # null => curr \in DOMAIN free /\ curr > b
    /\ head = null => prev = null /\ curr = null
    /\ N = (curr # null /\ b + size = curr)
    /\ P = (prev # null /\ prev + real_size(prev) = b)
    /\ head' = IF prev = null THEN b ELSE head
    /\ Inserted(free', size, prev, b, curr, N, P)
    /\ \A A : Linked(free, head, A) /\ b \notin A => Between(prev, b, curr, A)

\* The blocks lie below the end of the address space.
LEMMA BlocksFit ==
    ASSUME NEW S, NEW U, NEW M, Sound(S, U, M), M \subseteq 1 .. SizeMax - 1
    PROVE  \A c \in DOMAIN S : c \in 1 .. SizeMax /\ S[c] \in 1 .. SizeMax /\ c + S[c] <= SizeMax
  <1>0. SizeMax \in Nat
    BY RangeAssumption
  <1> SUFFICES ASSUME NEW c \in DOMAIN S
               PROVE  c \in 1 .. SizeMax /\ S[c] \in 1 .. SizeMax /\ c + S[c] <= SizeMax
    OBVIOUS
  <1>1. c \in Nat /\ S[c] \in Nat \ {0} /\ c .. c + S[c] - 1 \subseteq 1 .. SizeMax - 1
    BY DEF Sound, Sized, Inside
  <1>2. c \in c .. c + S[c] - 1 /\ c + S[c] - 1 \in c .. c + S[c] - 1
    BY <1>1
  <1>3. c \in 1 .. SizeMax - 1 /\ c + S[c] - 1 \in 1 .. SizeMax - 1
    BY <1>1, <1>2
  <1> QED
    BY <1>0, <1>1, <1>3

\* release links the block behind the blocks below it and merges it with its
\* neighbours.
LEMMA ReleaseHeaders ==
    ASSUME IsFiniteSet(DOMAIN free), free \in [DOMAIN free -> Header], ~Corrupt,
           NEW b, NEW size, b \notin DOMAIN free \/ head = null,
           NEW U, NEW V, NEW M, M \subseteq 1 .. SizeMax - 1,
           Sound(SizesOf(free), V, M), Sound(Put(SizesOf(free), b, size), U, M),
           release(b, size)
    PROVE  \E prev, curr : \E N, P \in BOOLEAN : Released(b, size, prev, curr, N, P)
  <1>0. SizeMax \in Nat /\ null = 0
    BY RangeAssumption DEF null
  <1>1. PICK S : S = SizesOf(free)
    OBVIOUS
  <1>2. DOMAIN S = DOMAIN free /\ \A c \in DOMAIN free : S[c] = real_size(c)
    BY <1>1 DEF SizesOf, real_size
  <1>3. \A c \in DOMAIN S : c \in 1 .. SizeMax /\ S[c] \in 1 .. SizeMax /\ c + S[c] <= SizeMax
    BY <1>1, BlocksFit
  <1>4. \A c \in DOMAIN free :
            c \in 1 .. SizeMax /\ real_size(c) \in 1 .. SizeMax /\ c + real_size(c) <= SizeMax
    BY <1>2, <1>3
  <1>5. PICK S1 : S1 = Put(S, b, size)
    OBVIOUS
  <1>6. Sound(S1, U, M)
    BY <1>1, <1>5
  <1>7. b \in DOMAIN S1 /\ S1[b] = size
    BY <1>5 DEF Put
  <1>8. b \in 1 .. SizeMax /\ size \in 1 .. SizeMax /\ b + size <= SizeMax
    BY <1>6, <1>7, BlocksFit
  <1> DEFINE n == Min({i \in DOMAIN walk : walk[i] = null \/ walk[i] >= b})
  <1>9. PICK prev : prev = IF n = 0 THEN null ELSE walk[n - 1]
    OBVIOUS
  <1>10. PICK curr : curr = walk[n]
    OBVIOUS
  <1>11. free' = insert(b, size, prev, curr) /\ head' = IF prev = null THEN b ELSE head
    BY <1>9, <1>10 DEF release
  <1>d. b \in Nat \ {0} /\ b \in Nat /\ DOMAIN free \subseteq Nat \ {0}
    BY <1>4, <1>8
  <1>12. /\ prev # null => prev \in DOMAIN free /\ prev < b
         /\ curr # null => curr \in DOMAIN free /\ curr >= b
         /\ head = null => prev = null /\ curr = null
    BY <1>9, <1>10, <1>d, PlaceInList
  <1>a. ASSUME NEW A, Linked(free, head, A), b \notin A PROVE Between(prev, b, curr, A)
    BY <1>9, <1>10, <1>d, <1>a, ReleasePlace
  <1> HIDE DEF n
  <1>13. curr # null => curr \in DOMAIN free /\ curr > b
    <2> SUFFICES ASSUME curr # null PROVE curr \in DOMAIN free /\ curr > b
      OBVIOUS
    <2>1. curr \in DOMAIN free /\ curr >= b /\ curr # b
      BY <1>12
    <2> QED
      BY <1>4, <1>8, <2>1
  <1>14. PICK N \in BOOLEAN : N = (curr # null /\ b + size = curr)
    OBVIOUS
  <1>15. PICK P \in BOOLEAN : P = (prev # null /\ prev + real_size(prev) = b)
    OBVIOUS
  <1>16. PICK G : G = free'
    OBVIOUS
  <1>17. Inserted(G, size, prev, b, curr, N, P)
    <2>1. DOMAIN free \subseteq 1 .. SizeMax
      BY <1>4
    <2>2. G = insert(b, size, prev, curr)
      BY <1>11, <1>16
    <2>3. prev # null => prev \in DOMAIN free /\ prev < b
      BY <1>12
    <2>4. \A c \in DOMAIN free : real_size(c) \in 1 .. SizeMax /\ c + real_size(c) <= SizeMax
      BY <1>4
    <2>5. b + size <= SizeMax
      BY <1>8
    <2> QED
      BY <1>8, <1>13, <1>14, <1>15, <2>1, <2>2, <2>3, <2>4, <2>5, InsertHeaders
  <1>18. Released(b, size, prev, curr, N, P)
    BY <1>11, <1>12, <1>a, <1>13, <1>14, <1>15, <1>16, <1>17 DEF Released
  <1> QED
    BY <1>18

\* release puts the block on the list and merges it with its neighbours: no
\* block becomes smaller, and none below it disappears.
LEMMA ReleaseSound ==
    ASSUME IsFiniteSet(DOMAIN free), free \in [DOMAIN free -> Header], ~Corrupt,
           NEW b, NEW size, b \notin DOMAIN free \/ head = null,
           NEW U, NEW V, NEW M, M \subseteq 1 .. SizeMax - 1,
           Sound(SizesOf(free), V, M), Sound(Put(SizesOf(free), b, size), U, M),
           release(b, size)
    PROVE  /\ IsFiniteSet(DOMAIN free')
           /\ free' \in [DOMAIN free' -> Header]
           /\ Sound(SizesOf(free'), U, M)
           /\ \A c \in DOMAIN free' :
                 /\ c \in DOMAIN free \cup {b}
                 /\ SizesOf(free')[c] >= Put(SizesOf(free), b, size)[c]
           /\ \A c \in DOMAIN free : c < b => c \in DOMAIN free'
           /\ DOMAIN free = {} \/ head = null => SizesOf(free') = Put(SizesOf(free), b, size)
  <1>0. SizeMax \in Nat /\ null = 0
    BY RangeAssumption DEF null
  <1>1. PICK S : S = SizesOf(free)
    OBVIOUS
  <1>2. DOMAIN S = DOMAIN free /\ \A c \in DOMAIN free : S[c] = real_size(c)
    BY <1>1 DEF SizesOf, real_size
  <1>4. \A c \in DOMAIN free : c \in 1 .. SizeMax
    BY <1>1, <1>2, BlocksFit
  <1>5. PICK S1 : S1 = Put(S, b, size)
    OBVIOUS
  <1>6. Sound(S1, U, M)
    BY <1>1, <1>5
  <1>7. DOMAIN S1 = DOMAIN free \cup {b} /\ S1[b] = size /\ \A c \in DOMAIN free \ {b} : S1[c] = S[c]
    BY <1>2, <1>5 DEF Put
  <1>8. b \in 1 .. SizeMax /\ size \in 1 .. SizeMax
    BY <1>6, <1>7, BlocksFit
  <1>9. PICK prev, curr : \E N, P \in BOOLEAN : Released(b, size, prev, curr, N, P)
    BY ReleaseHeaders
  <1>10. PICK N \in BOOLEAN, P \in BOOLEAN : Released(b, size, prev, curr, N, P)
    BY <1>9
  <1>12. /\ prev # null => prev \in DOMAIN free /\ prev < b
         /\ head = null => prev = null /\ curr = null
    BY <1>10 DEF Released
  <1>13. curr # null => curr \in DOMAIN free /\ curr > b
    BY <1>10 DEF Released
  <1>n. N = (curr # null /\ b + size = curr) /\ P = (prev # null /\ prev + real_size(prev) = b)
    BY <1>10 DEF Released
  <1>14. PICK S2 : S2 = IF curr # null /\ b + size = curr THEN Merge(S1, b, curr) ELSE S1
    OBVIOUS
  <1>15. PICK S3 : S3 = IF prev # null /\ prev + real_size(prev) = b THEN Merge(S2, prev, b) ELSE S2
    OBVIOUS
  <1>16. PICK G : G = free'
    OBVIOUS
  <1>17. G \in [DOMAIN G -> Header] /\ SizesOf(G) = S3
    BY <1>1, <1>5, <1>10, <1>n, <1>14, <1>15, <1>16 DEF Released, Inserted, Merged
  <1>18. /\ Sound(S2, U, M)
         /\ DOMAIN S2 \subseteq DOMAIN S1 /\ b \in DOMAIN S2
         /\ \A c \in DOMAIN S2 : S2[c] >= S1[c]
         /\ \A c \in DOMAIN free : c < b => c \in DOMAIN S2 /\ S2[c] = S[c]
    <2>1. \A c \in DOMAIN S1 : c \in Nat /\ S1[c] \in Nat
      BY <1>6 DEF Sound, Sized
    <2>2. CASE curr # null /\ b + size = curr
      <3>1. S2 = Merge(S1, b, curr) /\ curr \in DOMAIN S1 /\ b \in DOMAIN S1 /\ b + S1[b] = curr /\ curr # b
        BY <1>7, <1>8, <1>13, <1>14, <2>2
      <3>2. Sound(S2, U, M)
        BY <1>6, <3>1, SoundMerge
      <3>3. DOMAIN S2 = DOMAIN S1 \ {curr} /\ S2[b] = S1[b] + S1[curr]
        BY <3>1 DEF Merge
      <3>4. \A c \in DOMAIN S2 \ {b} : S2[c] = S1[c]
        BY <3>1 DEF Merge
      <3>5. \A c \in DOMAIN S2 : S2[c] >= S1[c]
        BY <2>1, <3>1, <3>3, <3>4
      <3>6. \A c \in DOMAIN free : c < b => c # curr /\ c # b
        BY <1>4, <1>8, <1>13, <2>2
      <3> QED
        BY <1>7, <3>1, <3>2, <3>3, <3>4, <3>5, <3>6
    <2>3. CASE ~(curr # null /\ b + size = curr)
      <3>1. S2 = S1
        BY <1>14, <2>3
      <3>2. \A c \in DOMAIN free : c < b => c # b
        BY <1>4, <1>8
      <3> QED
        BY <1>6, <1>7, <2>1, <3>1, <3>2
    <2> QED
      BY <2>2, <2>3
  <1>19. /\ Sound(S3, U, M)
         /\ DOMAIN S3 \subseteq DOMAIN S1
         /\ \A c \in DOMAIN S3 : S3[c] >= S1[c]
         /\ \A c \in DOMAIN free : c < b => c \in DOMAIN S3
    <2>1. \A c \in DOMAIN S1 : c \in Nat /\ S1[c] \in Nat
      BY <1>6 DEF Sound, Sized
    <2>2. \A c \in DOMAIN S2 : S2[c] \in Nat
      BY <1>18 DEF Sound, Sized
    <2>3. CASE prev # null /\ prev + real_size(prev) = b
      <3>1. prev \in DOMAIN S2 /\ S2[prev] = real_size(prev) /\ prev # b
        BY <1>2, <1>4, <1>8, <1>12, <1>18, <2>3
      <3>2. S3 = Merge(S2, prev, b) /\ prev + S2[prev] = b /\ b \in DOMAIN S2
        BY <1>15, <1>18, <2>3, <3>1
      <3>3. Sound(S3, U, M)
        BY <1>18, <3>1, <3>2, SoundMerge
      <3>4. DOMAIN S3 = DOMAIN S2 \ {b} /\ S3[prev] = S2[prev] + S2[b]
        BY <3>1, <3>2 DEF Merge
      <3>5. \A c \in DOMAIN S3 \ {prev} : S3[c] = S2[c]
        BY <3>2 DEF Merge
      <3>6. \A c \in DOMAIN S3 : S3[c] >= S1[c]
        BY <1>18, <2>1, <2>2, <3>1, <3>2, <3>4, <3>5
      <3>7. \A c \in DOMAIN free : c < b => c # b
        BY <1>4, <1>8
      <3> QED
        BY <1>18, <3>3, <3>4, <3>6, <3>7
    <2>4. CASE ~(prev # null /\ prev + real_size(prev) = b)
      <3>1. S3 = S2
        BY <1>15, <2>4
      <3> QED
        BY <1>18, <3>1
    <2> QED
      BY <2>3, <2>4
  <1>20. DOMAIN G = DOMAIN S3
    BY <1>17 DEF SizesOf
  <1>21. IsFiniteSet(DOMAIN G)
    <2>1. IsFiniteSet(DOMAIN free \cup {b})
      BY FS_AddElement
    <2>2. DOMAIN G \subseteq DOMAIN free \cup {b}
      BY <1>7, <1>19, <1>20
    <2> QED
      BY <2>1, <2>2, FS_Subset
  <1>22. DOMAIN free = {} \/ head = null => S3 = S1
    BY <1>12, <1>13, <1>14, <1>15
  <1> QED
    BY <1>1, <1>5, <1>7, <1>16, <1>17, <1>19, <1>20, <1>21, <1>22

-----------------------------------------------------------------------------
(* The inductive invariant. *)

HeapSizes == Requests \cup Range(TestRequests)

Types ==
    /\ IsFiniteSet(DOMAIN free)
    /\ free \in [DOMAIN free -> Header]
    /\ used \in [DOMAIN used -> HeapSizes]
    /\ added \in 0 .. Len(Regions)

\* No size has wrapped as long as no word outside the headers was written.
Unwrapped == ~stray => \A b \in DOMAIN free : SizesOf(free)[b] >= free_header

\* What test_allocator finds: nothing is in use, and the first region is at the
\* start of a free block; then it holds the blocks it allocated, each once.
Stages ==
    /\ stage \in {"boot", "construct", "test", "release", "running"}
    /\ stage \in {"boot", "construct"} =>
          /\ DOMAIN used = {} /\ p = <<>>
          /\ added >= 1 =>
                /\ Regions[1].base \in DOMAIN free
                /\ SizesOf(free)[Regions[1].base] >= Regions[1].size + used_header
    /\ stage = "construct" => head = null /\ added = Len(Regions)
    /\ stage = "test" => Len(p) < Len(TestRequests)
    /\ stage = "running" => p = <<>>
    /\ p \in Seq(DOMAIN used)
    /\ \A i, j \in 1 .. Len(p) : p[i] = p[j] => i = j

IInv ==
    /\ Types
    /\ Sound(SizesOf(free), UsedSizes, TakenWords)
    /\ Unwrapped
    /\ Stages

\* Every size asked for leaves room for the header.
LEMMA HeapSizesFit == HeapSizes \subseteq 0 .. SizeMax - 2
  <1>1. Requests \subseteq 0 .. SizeMax - 2
    BY RequestAssumption DEF used_header
  <1>2. TestRequests \in Seq(1 .. SizeMax - 2)
    BY RequestAssumption DEF used_header
  <1>3. ASSUME NEW i \in DOMAIN TestRequests PROVE TestRequests[i] \in 0 .. SizeMax - 2
    <2>1. TestRequests[i] \in 1 .. SizeMax - 2
      BY <1>2, LenProperties, ElementOfSeq
    <2> QED
      BY <2>1
  <1> QED
    BY <1>1, <1>3 DEF HeapSizes, Range

\* All of the free block at b is put into use, three words more than the block
\* needs with its header.
Taken(b, request) ==
    /\ b \in DOMAIN free /\ b \in ListAddresses /\ request \in Nat
    /\ SizesOf(free)[b] = request + 5
    /\ reserve_entire(b, request)
    /\ DOMAIN free' = DOMAIN free \ {b}
    /\ free' \in [DOMAIN free' -> Header]
    /\ SizesOf(free') = Drop(SizesOf(free), b)
    /\ used' = Put(used, b, request)
    /\ UsedSizes' = Put(UsedSizes, b, request + 2)

\* The end of the free block at b is put into use, and its first r words stay
\* free.
Carved(b, r, request) ==
    /\ b \in DOMAIN free /\ b \in ListAddresses /\ request \in Nat
    /\ r \in Nat /\ r >= 3 /\ SizesOf(free)[b] = r + (request + 2)
    /\ DOMAIN free' = DOMAIN free
    /\ free' \in [DOMAIN free' -> Header]
    /\ \A c \in DOMAIN free : free'[c].next = free[c].next /\ free'[c].prev = free[c].prev
    /\ SizesOf(free') = Put(SizesOf(free), b, r)
    /\ used' = Put(used, b + r, request)
    /\ UsedSizes' = Put(UsedSizes, b + r, request + 2)
    /\ UNCHANGED <<head, lost, stray>>

\* What allocate does to the headers: nothing when it panics, or it takes a block
\* of the list, or the end of one.
LEMMA AllocateCases ==
    ASSUME Types, Sound(SizesOf(free), UsedSizes, TakenWords), Unwrapped, ~Corrupt,
           NEW request \in HeapSizes, allocate(request)
    PROVE  \/ UNCHANGED <<head, free, used, lost, stray>>
           \/ \E b : Taken(b, request)
           \/ \E b, r : Carved(b, r, request)
  <1>0. SizeMax \in Nat /\ free_header = 3 /\ used_header = 2
    BY RangeAssumption DEF free_header, used_header
  <1>1. IsFiniteSet(DOMAIN free) /\ free \in [DOMAIN free -> Header]
    BY DEF Types
  <1>2. request \in 0 .. SizeMax - 2 /\ request \in Nat
    BY <1>0, HeapSizesFit
  <1>4. PICK b : b = first_fit(request)
    OBVIOUS
  <1>5. CASE b = null
    BY <1>4, <1>5 DEF allocate
  <1>6. CASE b # null
    <2>1. b \in DOMAIN free /\ can_fit(b, request) /\ b \in ListAddresses
      BY <1>1, <1>4, <1>6, FirstFits
    <2>2. PICK q \in 2 .. SizeMax : q = request + 2
      BY <1>0, <1>2
    <2>3. Wrap(request + used_header) = q
      <3>1. q \in 0 .. SizeMax
        BY <1>0
      <3>2. Wrap(q) = q
        BY <3>1, WrapSame
      <3> QED
        BY <1>0, <2>2, <3>2
    <2>4. PICK z \in 0 .. SizeMax : z = free[b].size /\ q <= z
      <3>1. free[b].size \in 0 .. SizeMax
        BY <1>1, <2>1 DEF Header
      <3> QED
        BY <2>1, <2>3, <3>1 DEF can_fit
    <2>5. PICK S : S = SizesOf(free)
      OBVIOUS
    <2>7. DOMAIN S = DOMAIN free /\ S = [c \in DOMAIN free |-> S[c]]
      BY <2>5 DEF SizesOf
    <2>8. ~stray
      BY DEF Corrupt
    <2>9. \A c \in DOMAIN free : S[c] >= 3
      BY <1>0, <2>5, <2>8 DEF Unwrapped
    <2>10. PICK k \in Int : k = z + 3
      OBVIOUS
    <2>11. S[b] = Wrap(k)
      BY <1>0, <2>1, <2>4, <2>5, <2>10 DEF SizesOf
    <2>12. S[b] = z + 3 /\ real_size(b) = z + 3
      <3>1. Wrap(k) = k
        BY <2>1, <2>9, <2>10, <2>11, RealSize
      <3> QED
        BY <1>0, <2>4, <2>10, <2>11, <3>1 DEF real_size
    <2>13. b \in Nat
      BY <2>1, <2>5, <2>7 DEF Sound, Sized
    <2>14. CASE perfect_fit(b, request)
      <3>1. reserve_entire(b, request)
        BY <1>4, <1>6, <2>14 DEF allocate
      <3>2. PICK G : G = unlink(b)
        OBVIOUS
      <3>3. free' = G /\ used' = Put(used, b, request)
        BY <3>1, <3>2 DEF reserve_entire, Put
      <3>4. DOMAIN G = DOMAIN free \ {b} /\ G = [c \in DOMAIN G |-> G[c]]
        BY <3>2 DEF unlink
      <3>5. ASSUME NEW c \in DOMAIN G PROVE G[c] \in Header /\ G[c].size = free[c].size
        <4>1. c \in DOMAIN free
          BY <3>4
        <4>2. free[c] \in Header /\ free[b] \in Header
          BY <1>1, <2>1, <4>1
        <4>3. G[c] = [free[c] EXCEPT !.next = IF c = free[b].prev THEN free[b].next ELSE @,
                                     !.prev = IF c = free[b].next THEN free[b].prev ELSE @]
          BY <3>2, <3>4 DEF unlink
        <4> QED
          BY <4>2, <4>3 DEF Header
      <3>6. SizesOf(G) = Drop(S, b)
        <4>1. \A c \in DOMAIN G : Wrap(G[c].size + free_header) = S[c]
          BY <2>5, <3>4, <3>5 DEF SizesOf
        <4> QED
          BY <2>7, <3>4, <4>1 DEF SizesOf, Drop
      <3>7. UsedSizes' = Put(UsedSizes, b, q)
        BY <1>0, <2>2, <3>3 DEF UsedSizes, Put
      <3>8. S[b] = request + 5
        BY <1>0, <1>2, <2>2, <2>3, <2>4, <2>12, <2>14 DEF perfect_fit
      <3>9. G \in [DOMAIN G -> Header]
        BY <3>4, <3>5
      <3>10. Taken(b, request)
        BY <1>2, <2>1, <2>2, <2>5, <3>1, <3>3, <3>4, <3>6, <3>7, <3>8, <3>9 DEF Taken
      <3> QED
        BY <3>10
    <2>15. CASE ~perfect_fit(b, request)
      <3>1. reserve_end(b, request)
        BY <1>4, <1>6, <2>15 DEF allocate
      <3>2. q < z
        BY <2>3, <2>4, <2>15 DEF perfect_fit
      <3>3. PICK r \in Nat \ {0} : r = z + 3 - q /\ r >= 3
        BY <3>2
      <3>4. PICK a \in Nat : a = b + r
        BY <2>13
      <3>6. PICK G : G = [free EXCEPT ![b].size = z - q]
        OBVIOUS
      <3>7. free' = G
        BY <1>0, <2>2, <2>4, <3>1, <3>6 DEF reserve_end
      <3>8. used' = Put(used, a, request)
        <4>1. b + real_size(b) - (request + used_header) = a
          BY <1>0, <1>2, <2>2, <2>12, <2>13, <3>3, <3>4
        <4> QED
          BY <3>1, <4>1 DEF reserve_end, Put
      <3>9. DOMAIN G = DOMAIN free /\ G = [c \in DOMAIN free |-> G[c]]
        BY <1>1, <3>6
      <3>10. ASSUME NEW c \in DOMAIN free
             PROVE  /\ G[c] \in Header /\ G[c].size = IF c = b THEN z - q ELSE free[c].size
                    /\ G[c].next = free[c].next /\ G[c].prev = free[c].prev
        <4>1. free[c] \in Header /\ z - q \in 0 .. SizeMax
          BY <1>0, <1>1, <3>2
        <4>2. G[c] = IF c = b THEN [free[c] EXCEPT !.size = z - q] ELSE free[c]
          BY <1>1, <3>6
        <4> QED
          BY <4>1, <4>2 DEF Header
      <3>11. SizesOf(G) = Put(S, b, r)
        <4>1. r \in 0 .. SizeMax
          <5>1. S[b] \in 0 .. SizeMax
            BY <2>10, <2>11, WrapRange
          <5> QED
            BY <1>0, <2>12, <3>3, <5>1
        <4>2. Wrap(r) = r
          BY <4>1, WrapSame
        <4>3. (z - q) + 3 = r
          BY <3>3
        <4>4. Wrap(G[b].size + free_header) = r
          BY <1>0, <2>1, <3>10, <4>2, <4>3
        <4>5. \A c \in DOMAIN free \ {b} : Wrap(G[c].size + free_header) = S[c]
          BY <2>5, <3>10 DEF SizesOf
        <4>6. DOMAIN S \cup {b} = DOMAIN free
          BY <2>1, <2>7
        <4> QED
          BY <3>9, <4>4, <4>5, <4>6 DEF SizesOf, Put
      <3>12. UsedSizes' = Put(UsedSizes, a, q)
        BY <1>0, <2>2, <3>8 DEF UsedSizes, Put
      <3>13. S[b] = r + (request + 2)
        BY <1>0, <1>2, <2>2, <2>12, <3>3
      <3>14. G \in [DOMAIN G -> Header]
        BY <3>9, <3>10
      <3>15. UNCHANGED <<head, lost, stray>>
        BY <3>1 DEF reserve_end
      <3>16. Carved(b, r, request)
        <4>1. b + r = a /\ request + 2 = q
          BY <2>2, <3>4
        <4> QED
          BY <1>2, <2>1, <2>5, <3>3, <3>7, <3>8, <3>9, <3>10, <3>11, <3>12, <3>13, <3>14, <3>15, <4>1
             DEF Carved
      <3> QED
        BY <3>16
    <2> QED
      BY <2>14, <2>15
  <1> QED
    BY <1>5, <1>6

\* What allocate does to the headers and the blocks in use: it panics, or it
\* puts one more block of the size asked for into use.
LEMMA AllocateSound ==
    ASSUME Types, Sound(SizesOf(free), UsedSizes, TakenWords), Unwrapped, ~Corrupt,
           NEW request \in HeapSizes, allocate(request), UNCHANGED added
    PROVE  /\ Types' /\ Sound(SizesOf(free), UsedSizes, TakenWords)' /\ Unwrapped'
           /\ \/ used' = used
              \/ \E a \in Nat \ DOMAIN used : used' = Put(used, a, request)
  <1>0. free_header = 3
    BY DEF free_header
  <1>1. IsFiniteSet(DOMAIN free) /\ used \in [DOMAIN used -> HeapSizes]
    BY DEF Types
  <1>2. TakenWords' = TakenWords
    BY DEF TakenWords
  <1>3. PICK S, U : S = SizesOf(free) /\ U = UsedSizes
    OBVIOUS
  <1>4. Sound(S, U, TakenWords) /\ DOMAIN S = DOMAIN free /\ DOMAIN U = DOMAIN used
    BY <1>3 DEF SizesOf, UsedSizes
  <1>5. \A c \in DOMAIN free : S[c] >= 3
    BY <1>0, <1>3 DEF Unwrapped, Corrupt
  <1>6. CASE UNCHANGED <<head, free, used, lost, stray>>
    <2>1. UNCHANGED <<SizesOf(free), UsedSizes>>
      BY <1>6 DEF SizesOf, UsedSizes
    <2> QED
      BY <1>2, <1>6, <2>1 DEF Types, Unwrapped
  <1>7. ASSUME NEW b, Taken(b, request)
        PROVE  /\ Types' /\ Sound(SizesOf(free), UsedSizes, TakenWords)' /\ Unwrapped'
               /\ \E a \in Nat \ DOMAIN used : used' = Put(used, a, request)
    <2>1. PICK q \in Nat \ {0} : q = request + 2 /\ q <= S[b] /\ b \in DOMAIN S
      BY <1>3, <1>4, <1>7 DEF Taken
    <2>2. SizesOf(free') = Drop(S, b) /\ UsedSizes' = Put(U, b, q)
      BY <1>3, <1>7, <2>1 DEF Taken
    <2>3. Sound(Drop(S, b), Put(U, b, q), TakenWords) /\ b \notin DOMAIN U
      BY <1>4, <2>1, SoundTake
    <2>4. b \in Nat \ DOMAIN used /\ used' = Put(used, b, request)
      BY <1>4, <1>7, <2>1, <2>3 DEF Sound, Sized, Taken
    <2>5. IsFiniteSet(DOMAIN free')
      BY <1>1, <1>7, FS_Subset DEF Taken
    <2>6. used' \in [DOMAIN used' -> HeapSizes]
      BY <1>1, <2>4 DEF Put
    <2>7. Types'
      BY <1>7, <2>5, <2>6 DEF Types, HeapSizes, Taken
    <2>8. \A c \in DOMAIN free' : SizesOf(free')[c] >= 3
      BY <1>4, <1>5, <1>7, <2>2 DEF Drop, Taken
    <2> QED
      BY <1>0, <1>2, <2>2, <2>3, <2>4, <2>7, <2>8 DEF Unwrapped
  <1>8. ASSUME NEW b, NEW r, Carved(b, r, request)
        PROVE  /\ Types' /\ Sound(SizesOf(free), UsedSizes, TakenWords)' /\ Unwrapped'
               /\ \E a \in Nat \ DOMAIN used : used' = Put(used, a, request)
    <2>1. PICK q \in Nat \ {0} : q = request + 2 /\ r + q = S[b] /\ b \in DOMAIN S /\ r \in Nat \ {0}
      BY <1>3, <1>4, <1>8 DEF Carved
    <2>2. SizesOf(free') = Put(S, b, r) /\ UsedSizes' = Put(U, b + r, q)
      BY <1>3, <1>8, <2>1 DEF Carved
    <2>3. Sound(Put(S, b, r), Put(U, b + r, q), TakenWords) /\ b + r \notin DOMAIN U
      BY <1>4, <2>1, SoundCarve
    <2>4. b \in Nat
      BY <1>4, <2>1 DEF Sound, Sized
    <2>5. b + r \in Nat \ DOMAIN used /\ used' = Put(used, b + r, request)
      BY <1>4, <1>8, <2>1, <2>3, <2>4 DEF Carved
    <2>6. used' \in [DOMAIN used' -> HeapSizes]
      BY <1>1, <2>5 DEF Put
    <2>7. Types'
      BY <1>1, <1>8, <2>6 DEF Types, HeapSizes, Carved
    <2>8. \A c \in DOMAIN free' : SizesOf(free')[c] >= 3
      BY <1>4, <1>5, <1>8, <2>2 DEF Put, Carved
    <2> QED
      BY <1>0, <1>2, <2>2, <2>3, <2>5, <2>7, <2>8 DEF Unwrapped
  <1> QED
    BY <1>6, <1>7, <1>8, AllocateCases

\* What deallocate does to the headers and the blocks in use.
LEMMA DeallocateSound ==
    ASSUME Types, Sound(SizesOf(free), UsedSizes, TakenWords), Unwrapped, ~Corrupt,
           NEW b \in DOMAIN used, deallocate(b), UNCHANGED added
    PROVE  /\ Types' /\ Sound(SizesOf(free), UsedSizes, TakenWords)' /\ Unwrapped'
           /\ used' = Drop(used, b)
  <1>0. SizeMax \in Nat /\ free_header = 3 /\ used_header = 2
    BY RangeAssumption DEF free_header, used_header
  <1>1. IsFiniteSet(DOMAIN free) /\ free \in [DOMAIN free -> Header]
    BY DEF Types
  <1>2. TakenWords \subseteq 1 .. SizeMax - 1
    BY GivenInside DEF Types
  <1>3. PICK M : M = TakenWords /\ M = TakenWords'
    BY DEF TakenWords
  <1>4. PICK U : U = UsedSizes
    OBVIOUS
  <1>5. PICK S : S = SizesOf(free)
    OBVIOUS
  <1>6. Sound(S, U, M)
    BY <1>3, <1>4, <1>5
  <1>7. b \in DOMAIN U /\ U[b] = used[b] + used_header
    BY <1>4 DEF UsedSizes
  <1>8. PICK size : size = U[b]
    OBVIOUS
  <1>9. Sound(Put(S, b, size), Drop(U, b), M) /\ b \notin DOMAIN S
    BY <1>6, <1>7, <1>8, SoundFree
  <1>10. b \notin DOMAIN free
    BY <1>5, <1>9 DEF SizesOf
  <1>11. release(b, size) /\ used' = Drop(used, b)
    BY <1>7, <1>8 DEF deallocate, Restrict, Drop
  <1>12. UsedSizes' = Drop(U, b)
    BY <1>4, <1>11 DEF UsedSizes, Drop
  <1>13. /\ IsFiniteSet(DOMAIN free')
         /\ free' \in [DOMAIN free' -> Header]
         /\ Sound(SizesOf(free'), Drop(U, b), M)
         /\ \A c \in DOMAIN free' :
               c \in DOMAIN free \cup {b} /\ SizesOf(free')[c] >= Put(SizesOf(free), b, size)[c]
    <2>1. M \subseteq 1 .. SizeMax - 1 /\ Sound(SizesOf(free), U, M)
      BY <1>2, <1>3, <1>5, <1>6
    <2>2. Sound(Put(SizesOf(free), b, size), Drop(U, b), M)
      BY <1>5, <1>9
    <2> QED
      BY <1>1, <1>10, <1>11, <2>1, <2>2, ReleaseSound
  <1>14. used' \in [DOMAIN used' -> HeapSizes]
    BY <1>11 DEF Types, Drop
  <1>15. Types'
    BY <1>13, <1>14 DEF Types, HeapSizes
  <1>16. Unwrapped'
    <2> SUFFICES ASSUME ~stray', NEW c \in DOMAIN free' PROVE SizesOf(free')[c] >= 3
      BY <1>0 DEF Unwrapped
    <2>1. PICK T : T = Put(S, b, size)
      OBVIOUS
    <2>2. c \in DOMAIN free \cup {b} /\ SizesOf(free')[c] >= T[c]
      BY <1>5, <1>13, <2>1
    <2>3. size >= 3
      <3>1. ~(size < 3)
        BY <1>0, <1>11 DEF release
      <3>2. size \in Nat
        BY <1>6, <1>7, <1>8 DEF Sound, Sized
      <3> QED
        BY <3>1, <3>2
    <2>4. \A d \in DOMAIN free : S[d] >= 3
      BY <1>0, <1>5 DEF Unwrapped, Corrupt
    <2>5. T[c] >= 3
      BY <1>5, <2>1, <2>2, <2>3, <2>4 DEF Put, SizesOf
    <2>6. T[c] \in Int /\ SizesOf(free')[c] \in Int
      <3>1. Sized(T) /\ c \in DOMAIN T
        BY <1>5, <1>9, <2>1, <2>2 DEF Sound, Put, SizesOf
      <3>2. Sized(SizesOf(free')) /\ c \in DOMAIN SizesOf(free')
        BY <1>13 DEF Sound, SizesOf
      <3> QED
        BY <3>1, <3>2 DEF Sized
    <2> QED
      BY <2>2, <2>5, <2>6
  <1> QED
    BY <1>3, <1>11, <1>12, <1>13, <1>15, <1>16

\* A free block may lose its end.
LEMMA SoundShrink ==
    ASSUME NEW S, NEW U, NEW M, Sound(S, U, M), NEW b \in DOMAIN S, NEW r \in Nat \ {0}, r <= S[b]
    PROVE  Sound(Put(S, b, r), U, M)
  <1>1. Sized(S) /\ Separate(S) /\ Inside(S, M) /\ Sized(U) /\ Across(S, U)
    BY DEF Sound
  <1>2. b \in Nat /\ S[b] \in Nat \ {0} /\ b .. b + S[b] - 1 \subseteq M
    BY <1>1 DEF Sized, Inside
  <1>3. b .. b + r - 1 \subseteq M
    BY <1>2
  <1>4. \A c \in DOMAIN S \ {b} : Apart(b, S[b], c, S[c]) /\ c \in Nat /\ S[c] \in Nat
    BY <1>1 DEF Separate, Sized
  <1>5. \A c \in DOMAIN S \ {b} : Apart(b, r, c, S[c])
    BY <1>2, <1>4 DEF Apart
  <1>6. \A c \in DOMAIN U : Apart(b, S[b], c, U[c]) /\ c \in Nat /\ U[c] \in Nat
    BY <1>1 DEF Across, Sized
  <1>7. \A c \in DOMAIN U : Apart(b, r, c, U[c])
    BY <1>2, <1>6 DEF Apart
  <1> QED
    BY <1>2, <1>3, <1>5, <1>7, SoundPut

\* The block at b is a region behind all memory given so far.
NewRegion(b, size) ==
    /\ b = Regions[added + 1].base /\ size = Regions[added + 1].size + 2 /\ b + size <= SizeMax
    /\ release(b, size)
    /\ TakenWords' = TakenWords \cup (b .. b + size - 1)
    /\ TakenWords' \subseteq 1 .. SizeMax - 1
    /\ \A w \in TakenWords : w < b
    /\ b \notin DOMAIN free /\ \A c \in DOMAIN free : c < b
    /\ Sound(SizesOf(free), UsedSizes, TakenWords')
    /\ Sound(Put(SizesOf(free), b, size), UsedSizes, TakenWords')

\* vmm_init adds the regions in address order.
LEMMA RegionNext ==
    ASSUME IInv, vmm_init
    PROVE  \E b, size \in 1 .. SizeMax : NewRegion(b, size)
  <1>0. SizeMax \in Nat /\ free_header = 3 /\ used_header = 2
    BY RangeAssumption DEF free_header, used_header
  <1>1. ~Corrupt /\ stage = "boot" /\ added < Len(Regions) /\ added' = added + 1 /\ UNCHANGED <<used, testVars>>
    BY DEF vmm_init, Ready, add_memory
  <1>2. IsFiniteSet(DOMAIN free) /\ free \in [DOMAIN free -> Header] /\ added \in 0 .. Len(Regions)
    BY DEF IInv, Types
  <1>3. Len(Regions) \in Nat
    BY RegionAssumption, LenProperties
  <1>4. PICK n \in 1 .. Len(Regions) : n = added + 1
    BY <1>1, <1>2, <1>3
  <1>5. PICK b \in 1 .. SizeMax, size \in 1 .. SizeMax :
            b = Regions[n].base /\ size = Regions[n].size + 2 /\ b + size <= SizeMax
    <2>1. /\ Regions[n].base \in 1 .. SizeMax /\ Regions[n].size \in 1 .. SizeMax
          /\ Regions[n].base + Regions[n].size + 2 <= SizeMax
      BY RegionFacts
    <2> QED
      BY <1>0, <2>1
  <1>6. release(b, size)
    BY <1>0, <1>4, <1>5 DEF vmm_init, add_memory
  <1>7. TakenWords' = TakenWords \cup (b .. b + size - 1)
    <2>1. TakenFrom(n) = b .. b + size - 1
      <3>1. PICK r \in Int : r = Regions[n].size
        BY RegionFacts
      <3>s. size = r + 2
        BY <1>5, <3>1
      <3>2. b + r + 2 - 1 = b + size - 1
        BY <1>0, <3>s
      <3> QED
        BY <1>0, <1>5, <3>1, <3>2 DEF TakenFrom
    <2>2. 1 .. added' = 1 .. added \cup {n}
      BY <1>1, <1>2, <1>3, <1>4
    <2>3. \A i : TakenFrom(i)' = TakenFrom(i)
      BY DEF TakenFrom
    <2> QED
      BY <2>1, <2>2, <2>3 DEF TakenWords
  <1>8. PICK M, N : M = TakenWords /\ N = TakenWords'
    OBVIOUS
  <1>9. M \subseteq N /\ b .. b + size - 1 \subseteq N /\ N \subseteq 1 .. SizeMax - 1
    <2>1. M \subseteq 1 .. SizeMax - 1
      BY <1>2, <1>8, GivenInside
    <2>2. b .. b + size - 1 \subseteq 1 .. SizeMax - 1
      BY <1>0, <1>5
    <2> QED
      BY <1>7, <1>8, <2>1, <2>2
  <1>10. PICK S, U : S = SizesOf(free) /\ U = UsedSizes
    OBVIOUS
  <1>11. Sound(S, U, M) /\ DOMAIN U = {} /\ DOMAIN S = DOMAIN free
    BY <1>1, <1>8, <1>10 DEF IInv, Stages, UsedSizes, SizesOf
  <1>12. Sound(S, U, N)
    BY <1>9, <1>11, SoundMore
  <1>13. \A w \in M : w < b
    <2> SUFFICES ASSUME NEW i \in 1 .. added, NEW w \in TakenFrom(i) PROVE w < b
      BY <1>8 DEF TakenWords
    <2>1. i \in 1 .. Len(Regions) /\ i < n
      BY <1>2, <1>3, <1>4
    <2>2. /\ Regions[i].base \in 1 .. SizeMax /\ Regions[i].size \in 1 .. SizeMax
          /\ Regions[i].base + Regions[i].size + 2 <= b
      BY <1>5, <2>1, RegionFacts
    <2> QED
      BY <1>0, <2>2 DEF TakenFrom
  <1>14. \A c \in DOMAIN S : c \in Nat /\ S[c] \in Nat \ {0} /\ c + S[c] <= b
    <2> SUFFICES ASSUME NEW c \in DOMAIN S PROVE c \in Nat /\ S[c] \in Nat \ {0} /\ c + S[c] <= b
      OBVIOUS
    <2>1. c \in Nat /\ S[c] \in Nat \ {0} /\ c .. c + S[c] - 1 \subseteq M
      BY <1>11 DEF Sound, Sized, Inside
    <2>2. c + S[c] - 1 \in c .. c + S[c] - 1
      BY <2>1
    <2>3. c + S[c] - 1 < b
      BY <1>13, <2>1, <2>2
    <2> QED
      BY <2>1, <2>3
  <1>15. b \notin DOMAIN S /\ \A c \in DOMAIN S : c < b
    BY <1>14
  <1>16. Sound(Put(S, b, size), U, N)
    <2>1. \A c \in DOMAIN S \ {b} : Apart(b, size, c, S[c])
      BY <1>14 DEF Apart
    <2>2. \A c \in DOMAIN U : Apart(b, size, c, U[c])
      BY <1>11
    <2>3. b \in Nat /\ size \in Nat \ {0} /\ b .. b + size - 1 \subseteq N
      BY <1>0, <1>9
    <2> QED
      BY <1>12, <2>1, <2>2, <2>3, SoundPut
  <1>17. NewRegion(b, size)
    <2>1. Regions[added + 1].base = b /\ Regions[added + 1].size + 2 = size
      BY <1>4, <1>5
    <2>2. Sound(SizesOf(free), UsedSizes, TakenWords') /\ Sound(Put(SizesOf(free), b, size), UsedSizes, TakenWords')
      BY <1>8, <1>10, <1>12, <1>16
    <2>3. TakenWords' \subseteq 1 .. SizeMax - 1 /\ \A w \in TakenWords : w < b
      BY <1>8, <1>9, <1>13
    <2>4. b \notin DOMAIN free /\ \A c \in DOMAIN free : c < b
      BY <1>11, <1>15
    <2> QED
      BY <1>5, <1>6, <1>7, <2>1, <2>2, <2>3, <2>4 DEF NewRegion
  <1> QED
    BY <1>17

\* vmm_init gives the allocator one more region, behind all it took.
LEMMA RegionAdded ==
    ASSUME IInv, vmm_init
    PROVE  IInv'
  <1>0. SizeMax \in Nat /\ free_header = 3 /\ used_header = 2
    BY RangeAssumption DEF free_header, used_header
  <1>1. ~Corrupt /\ stage = "boot" /\ added < Len(Regions) /\ added' = added + 1 /\ UNCHANGED <<used, testVars>>
    BY DEF vmm_init, Ready, add_memory
  <1>2. IsFiniteSet(DOMAIN free) /\ free \in [DOMAIN free -> Header] /\ added \in 0 .. Len(Regions)
    BY DEF IInv, Types
  <1>3. Len(Regions) \in Nat
    BY RegionAssumption, LenProperties
  <1>4. PICK n \in 1 .. Len(Regions) : n = added + 1
    BY <1>1, <1>2, <1>3
  <1>5. PICK b \in 1 .. SizeMax, size \in 1 .. SizeMax : NewRegion(b, size)
    BY RegionNext
  <1>6. b = Regions[n].base /\ size = Regions[n].size + 2 /\ release(b, size)
    BY <1>4, <1>5 DEF NewRegion
  <1>8. PICK M, N : M = TakenWords /\ N = TakenWords'
    OBVIOUS
  <1>9. N \subseteq 1 .. SizeMax - 1
    BY <1>5, <1>8 DEF NewRegion
  <1>10. PICK S, U : S = SizesOf(free) /\ U = UsedSizes
    OBVIOUS
  <1>11. Sound(S, U, M) /\ DOMAIN U = {} /\ DOMAIN S = DOMAIN free
    BY <1>1, <1>8, <1>10 DEF IInv, Stages, UsedSizes, SizesOf
  <1>12. Sound(S, U, N)
    BY <1>5, <1>8, <1>10 DEF NewRegion
  <1>14. \A c \in DOMAIN S : c \in Nat /\ S[c] \in Nat \ {0}
    BY <1>11 DEF Sound, Sized
  <1>15. b \notin DOMAIN S /\ \A c \in DOMAIN S : c < b
    BY <1>5, <1>11 DEF NewRegion
  <1>16. Sound(Put(S, b, size), U, N)
    BY <1>5, <1>8, <1>10 DEF NewRegion
  <1>17. /\ IsFiniteSet(DOMAIN free')
         /\ free' \in [DOMAIN free' -> Header]
         /\ Sound(SizesOf(free'), U, N)
         /\ \A c \in DOMAIN free' :
               c \in DOMAIN free \cup {b} /\ SizesOf(free')[c] >= Put(SizesOf(free), b, size)[c]
         /\ \A c \in DOMAIN free : c < b => c \in DOMAIN free'
         /\ DOMAIN free = {} \/ head = null => SizesOf(free') = Put(SizesOf(free), b, size)
    <2>1. Sound(SizesOf(free), U, N) /\ Sound(Put(SizesOf(free), b, size), U, N) /\ b \notin DOMAIN free
      BY <1>10, <1>11, <1>12, <1>15, <1>16
    <2>2. release(b, size)
      BY <1>6
    <2> QED
      BY <1>1, <1>2, <1>9, <2>1, <2>2, ReleaseSound
  <1>18. PICK R : R = SizesOf(free')
    OBVIOUS
  <1>19. DOMAIN R = DOMAIN free' /\ \A c \in DOMAIN R : R[c] \in Nat
    BY <1>17, <1>18 DEF SizesOf, Sound, Sized
  <1>20. \A c \in DOMAIN R : c \in DOMAIN free \cup {b} /\ R[c] >= IF c = b THEN size ELSE S[c]
    BY <1>10, <1>11, <1>17, <1>18, <1>19 DEF Put
  <1>21. Types'
    <2>1. added' \in 0 .. Len(Regions)
      BY <1>1, <1>2, <1>3
    <2>2. used' \in [DOMAIN used' -> HeapSizes]
      BY <1>1 DEF IInv, Types
    <2> QED
      BY <1>17, <2>1, <2>2 DEF Types, HeapSizes
  <1>22. Sound(SizesOf(free), UsedSizes, TakenWords)'
    <2>1. UsedSizes' = U
      BY <1>1, <1>10 DEF UsedSizes
    <2> QED
      BY <1>8, <1>17, <2>1
  <1>23. Unwrapped'
    <2>1. \A c \in DOMAIN S : S[c] >= 3
      BY <1>0, <1>1, <1>10, <1>11 DEF IInv, Unwrapped, Corrupt
    <2>2. size >= 3
      BY <1>6, RegionFacts
    <2>3. \A c \in DOMAIN R : R[c] >= 3
      BY <1>11, <1>14, <1>19, <1>20, <2>1, <2>2
    <2> QED
      BY <1>0, <1>18, <1>19, <2>3 DEF Unwrapped
  <1>24. /\ Regions[1].base \in DOMAIN R
         /\ R[Regions[1].base] >= Regions[1].size + 2
    <2>0. 1 \in 1 .. Len(Regions)
      BY <1>3, <1>4
    <2>1. CASE added = 0
      <3>1. M = {}
        BY <1>8, <2>1 DEF TakenWords
      <3>2. DOMAIN free = {}
        <4> SUFFICES ASSUME NEW c \in DOMAIN free PROVE FALSE
          OBVIOUS
        <4>1. c \in Nat /\ S[c] \in Nat \ {0} /\ c .. c + S[c] - 1 \subseteq {}
          BY <1>11, <3>1 DEF Sound, Sized, Inside
        <4>2. c \in c .. c + S[c] - 1
          BY <4>1
        <4> QED
          BY <4>1, <4>2
      <3>3. R = Put(SizesOf(free), b, size)
        BY <1>17, <1>18, <3>2
      <3>4. n = 1
        BY <1>4, <2>1
      <3>5. Regions[1].base \in DOMAIN R /\ R[Regions[1].base] = Regions[1].size + 2
        BY <1>6, <3>3, <3>4 DEF Put
      <3>6. Regions[1].size \in Nat
        BY <2>0, RegionFacts
      <3> QED
        BY <3>5, <3>6
    <2>2. CASE added # 0
      <3>1. PICK a : a = Regions[1].base
        OBVIOUS
      <3>2. a \in DOMAIN free /\ S[a] >= Regions[1].size + 2
        BY <1>0, <1>1, <1>2, <1>10, <2>2, <3>1 DEF IInv, Stages
      <3>3. a < b /\ a # b /\ a \in DOMAIN R
        BY <1>11, <1>15, <1>17, <1>19, <3>2
      <3>4. R[a] >= S[a] /\ R[a] \in Nat /\ S[a] \in Nat
        BY <1>11, <1>14, <1>19, <1>20, <3>2, <3>3
      <3>5. Regions[1].size \in Nat
        BY <2>0, RegionFacts
      <3> QED
        BY <3>1, <3>2, <3>3, <3>4, <3>5
    <2> QED
      BY <2>1, <2>2
  <1>25. Stages'
    BY <1>0, <1>1, <1>18, <1>19, <1>24 DEF IInv, Stages, testVars
  <1> QED
    BY <1>21, <1>22, <1>23, <1>25 DEF IInv

\* The block at b, where the first region begins, has the region's words again.
TakenOver(b, size) ==
    /\ b = Regions[1].base /\ size = Regions[1].size + 2 /\ size >= 3
    /\ release(b, size)
    /\ Sound(Put(SizesOf(free), b, size), UsedSizes, TakenWords)

\* The block at the start of the first region has at least its words.
LEMMA RegionShrinks ==
    ASSUME IInv, test_add_memory
    PROVE  \E b, size \in Nat \ {0} : TakenOver(b, size)
  <1>0. SizeMax \in Nat /\ free_header = 3 /\ used_header = 2
    BY RangeAssumption DEF free_header, used_header
  <1>1. ~Corrupt /\ stage = "construct" /\ stage' = "test" /\ UNCHANGED <<used, added, p>>
    BY DEF test_add_memory, Ready, add_memory
  <1>2. IsFiniteSet(DOMAIN free) /\ free \in [DOMAIN free -> Header] /\ added \in 0 .. Len(Regions)
    BY DEF IInv, Types
  <1>3. /\ head = null /\ p = <<>> /\ added = Len(Regions)
        /\ added >= 1 => /\ Regions[1].base \in DOMAIN free
                         /\ SizesOf(free)[Regions[1].base] >= Regions[1].size + 2
    BY <1>0, <1>1 DEF IInv, Stages
  <1>4. 1 \in 1 .. Len(Regions) /\ Len(Regions) \in Nat
    BY RegionAssumption, EmptySeq, LenProperties
  <1>5. PICK b \in 1 .. SizeMax, r \in 1 .. SizeMax : b = Regions[1].base /\ r = Regions[1].size
    BY <1>4, RegionFacts
  <1>6. Max({Regions[1].size, free_region_max_size}) = r
    <2>1. free_region_max_size \in 0 .. r
      BY <1>5, RegionAssumption
    <2> QED
      BY <1>5, <2>1 DEF Max
  <1>7. PICK size \in Nat \ {0} : size = r + 2 /\ size >= 3
    BY <1>0
  <1>8. release(b, size)
    BY <1>0, <1>5, <1>6, <1>7 DEF test_add_memory, add_memory
  <1>9. PICK S, U, M : S = SizesOf(free) /\ U = UsedSizes /\ M = TakenWords
    OBVIOUS
  <1>10. Sound(S, U, M) /\ DOMAIN S = DOMAIN free
    BY <1>9 DEF IInv, SizesOf
  <1>11. b \in DOMAIN S /\ S[b] >= size
    BY <1>3, <1>4, <1>5, <1>7, <1>9, <1>10
  <1>12. Sound(Put(S, b, size), U, M)
    <2>1. S[b] \in Nat
      BY <1>10, <1>11 DEF Sound, Sized
    <2>2. size <= S[b]
      BY <1>11, <2>1
    <2> QED
      BY <1>10, <1>11, <2>2, SoundShrink
  <1>13. TakenOver(b, size)
    BY <1>5, <1>7, <1>8, <1>9, <1>12 DEF TakenOver
  <1> QED
    BY <1>0, <1>13

\* test_allocator writes the header of the first region anew: what its block
\* loses is free no more, and belongs to nobody.
LEMMA RegionTakenOver ==
    ASSUME IInv, test_add_memory
    PROVE  IInv'
  <1>0. SizeMax \in Nat /\ free_header = 3
    BY RangeAssumption DEF free_header
  <1>1. ~Corrupt /\ stage = "construct" /\ stage' = "test" /\ UNCHANGED <<used, added, p>>
    BY DEF test_add_memory, Ready, add_memory
  <1>2. IsFiniteSet(DOMAIN free) /\ free \in [DOMAIN free -> Header] /\ added \in 0 .. Len(Regions)
    BY DEF IInv, Types
  <1>3. head = null /\ p = <<>>
    BY <1>1 DEF IInv, Stages
  <1>5. PICK b \in Nat \ {0}, size \in Nat \ {0} : TakenOver(b, size)
    BY RegionShrinks
  <1>8. release(b, size) /\ size >= 3
    BY <1>5 DEF TakenOver
  <1>9. PICK S, U, M : S = SizesOf(free) /\ U = UsedSizes /\ M = TakenWords
    OBVIOUS
  <1>10. Sound(S, U, M) /\ DOMAIN S = DOMAIN free
    BY <1>9 DEF IInv, SizesOf
  <1>12. Sound(Put(S, b, size), U, M)
    BY <1>5, <1>9 DEF TakenOver
  <1>13. M \subseteq 1 .. SizeMax - 1
    BY <1>2, <1>9, GivenInside
  <1>14. /\ IsFiniteSet(DOMAIN free')
         /\ free' \in [DOMAIN free' -> Header]
         /\ Sound(SizesOf(free'), U, M)
         /\ \A c \in DOMAIN free' :
               c \in DOMAIN free \cup {b} /\ SizesOf(free')[c] >= Put(SizesOf(free), b, size)[c]
    <2>1. Sound(SizesOf(free), U, M) /\ Sound(Put(SizesOf(free), b, size), U, M)
      BY <1>9, <1>10, <1>12
    <2> QED
      BY <1>1, <1>2, <1>3, <1>8, <1>13, <2>1, ReleaseSound
  <1>15. Types'
    <2>1. used' \in [DOMAIN used' -> HeapSizes]
      BY <1>1 DEF IInv, Types
    <2> QED
      BY <1>1, <1>2, <1>14, <2>1 DEF Types, HeapSizes
  <1>16. Sound(SizesOf(free), UsedSizes, TakenWords)'
    <2>1. UsedSizes' = U /\ TakenWords' = M
      BY <1>1, <1>9 DEF UsedSizes, TakenWords
    <2> QED
      BY <1>14, <2>1
  <1>17. Unwrapped'
    <2>1. \A c \in DOMAIN S : S[c] >= 3 /\ S[c] \in Nat
      BY <1>0, <1>1, <1>9, <1>10 DEF IInv, Unwrapped, Corrupt, Sound, Sized
    <2>2. ASSUME NEW c \in DOMAIN free' PROVE SizesOf(free')[c] >= 3
      <3>1. PICK x : x = SizesOf(free')[c]
        OBVIOUS
      <3>2. x \in Nat
        BY <1>14, <3>1 DEF Sound, Sized, SizesOf
      <3>3. x >= IF c = b THEN size ELSE S[c]
        BY <1>9, <1>10, <1>14, <3>1 DEF Put
      <3>4. c = b \/ c \in DOMAIN S
        BY <1>10, <1>14
      <3> QED
        BY <1>8, <2>1, <3>1, <3>2, <3>3, <3>4
    <2> QED
      BY <1>0, <2>2 DEF Unwrapped
  <1>18. Stages'
    <2>1. Len(p') = 0 /\ Len(TestRequests) > 0
      <3>1. TestRequests \in Seq(1 .. SizeMax - 2) /\ TestRequests # <<>>
        BY RequestAssumption DEF used_header
      <3>2. Len(TestRequests) \in Nat /\ Len(TestRequests) # 0
        BY <3>1, LenProperties, EmptySeq
      <3>3. Len(<<>>) = 0
        OBVIOUS
      <3> QED
        BY <1>1, <1>3, <3>2, <3>3
    <2> QED
      BY <1>1, <1>3, <2>1 DEF IInv, Stages
  <1> QED
    BY <1>15, <1>16, <1>17, <1>18 DEF IInv

\* SetToSeq, of a set of at most one element.
LEMMA SetToSeqSmall ==
    ASSUME NEW T, NEW a, T = {} \/ T = {a}
    PROVE  /\ T = {} => SetToSeq(T) = <<>>
           /\ T = {a} => SetToSeq(T) = <<a>>
  <1>0. IsFiniteSet(T)
    <2>1. CASE T = {}
      BY <2>1, FS_EmptySet
    <2>2. CASE T = {a}
      BY <2>2, FS_Singleton
    <2> QED
      BY <2>1, <2>2
  <1>1. PICK n \in Nat : n = Cardinality(T)
    BY <1>0, FS_CardinalityType
  <1>2. (T = {} => n = 0) /\ (T = {a} => n = 1)
    BY <1>1, FS_EmptySet, FS_Singleton
  <1>3. \E f \in [1 .. n -> T] : IsInjective(f)
    <2> DEFINE g == [i \in 1 .. n |-> a]
    <2>1. g \in [1 .. n -> T]
      BY <1>2
    <2>2. IsInjective(g)
      BY <1>2 DEF IsInjective
    <2> QED
      BY <2>1, <2>2
  <1>4. SetToSeq(T) \in [1 .. n -> T]
    BY <1>1, <1>3 DEF SetToSeq
  <1>5. ASSUME T = {} PROVE SetToSeq(T) = <<>>
    <2>1. SetToSeq(T) \in [1 .. 0 -> {}]
      BY <1>2, <1>4, <1>5
    <2> QED
      BY <2>1
  <1>6. ASSUME T = {a} PROVE SetToSeq(T) = <<a>>
    <2>1. SetToSeq(T) \in [1 .. 1 -> {a}]
      BY <1>2, <1>4, <1>6
    <2> QED
      BY <2>1
  <1> QED
    BY <1>5, <1>6

\* The empty list is a list of anything, without repetition.
LEMMA EmptyHeld ==
    ASSUME NEW T
    PROVE  <<>> \in Seq(T) /\ \A i, j \in 1 .. Len(<<>>) : <<>>[i] = <<>>[j] => i = j
  OBVIOUS

\* test_allocator's allocations: the block put into use is the one it notes.
LEMMA TestAllocates ==
    ASSUME IInv, test_allocate
    PROVE  IInv'
  <1>1. ~Corrupt /\ stage = "test" /\ allocate(TestRequests[Len(p) + 1]) /\ UNCHANGED added
    BY DEF test_allocate, Ready
  <1>2. /\ p' = p \o SetToSeq(DOMAIN used' \ DOMAIN used)
        /\ stage' = IF Len(p') = Len(TestRequests) THEN "release" ELSE stage
    BY DEF test_allocate
  <1>3. /\ p \in Seq(DOMAIN used) /\ Len(p) < Len(TestRequests)
        /\ \A i, j \in 1 .. Len(p) : p[i] = p[j] => i = j
    BY <1>1 DEF IInv, Stages
  <1>4. Len(p) \in Nat /\ Len(TestRequests) \in Nat /\ DOMAIN TestRequests = 1 .. Len(TestRequests)
    BY <1>3, RequestAssumption, LenProperties
  <1>5. PICK request \in HeapSizes : request = TestRequests[Len(p) + 1]
    <2>1. Len(p) + 1 \in DOMAIN TestRequests
      BY <1>3, <1>4
    <2> QED
      BY <2>1 DEF HeapSizes, Range
  <1>6. /\ Types' /\ Sound(SizesOf(free), UsedSizes, TakenWords)' /\ Unwrapped'
        /\ \/ used' = used
           \/ \E a \in Nat \ DOMAIN used : used' = Put(used, a, request)
    <2>1. Types /\ Sound(SizesOf(free), UsedSizes, TakenWords) /\ Unwrapped
      BY DEF IInv
    <2> QED
      BY <1>1, <1>5, <2>1, AllocateSound
  <1>7. CASE used' = used
    <2>1. DOMAIN used' \ DOMAIN used = {}
      BY <1>7
    <2>2. SetToSeq(DOMAIN used' \ DOMAIN used) = <<>>
      BY <2>1, SetToSeqSmall
    <2>3. p' = p
      <3>1. p \o <<>> = p
        BY <1>3, ConcatEmptySeq
      <3> QED
        BY <1>2, <2>2, <3>1
    <2>4. stage' = "test"
      <3>1. Len(p') # Len(TestRequests)
        BY <1>3, <1>4, <2>3
      <3> QED
        BY <1>1, <1>2, <3>1
    <2>5. Stages'
      BY <1>3, <1>7, <2>3, <2>4 DEF Stages
    <2> QED
      BY <1>6, <2>5 DEF IInv
  <1>8. CASE \E a \in Nat \ DOMAIN used : used' = Put(used, a, request)
    <2>1. PICK a \in Nat \ DOMAIN used : used' = Put(used, a, request)
      BY <1>8
    <2>2. DOMAIN used' = DOMAIN used \cup {a}
      BY <2>1 DEF Put
    <2>3. DOMAIN used' \ DOMAIN used = {a}
      BY <2>2
    <2>4. SetToSeq(DOMAIN used' \ DOMAIN used) = <<a>>
      BY <2>3, SetToSeqSmall
    <2>5. PICK q : q = p \o <<a>>
      OBVIOUS
    <2>6. p' = q
      BY <1>2, <2>4, <2>5
    <2>7. /\ q \in Seq(DOMAIN used') /\ Len(q) = Len(p) + 1
          /\ \A i \in 1 .. Len(p) : q[i] = p[i]
          /\ q[Len(p) + 1] = a
      <3>1. PICK T : T = DOMAIN used'
        OBVIOUS
      <3>2. p \in Seq(T) /\ <<a>> \in Seq(T) /\ Len(<<a>>) = 1 /\ <<a>>[1] = a
        BY <1>3, <2>2, <3>1
      <3>3. q \in Seq(T) /\ Len(q) = Len(p) + 1
        BY <2>5, <3>2
      <3>4. \A i \in 1 .. Len(p) : q[i] = p[i]
        BY <1>4, <2>5, <3>2
      <3>5. q[Len(p) + 1] = a
        BY <1>4, <2>5, <3>2
      <3> QED
        BY <3>1, <3>3, <3>4, <3>5
    <2>8. \A i \in 1 .. Len(p) : p[i] # a
      BY <1>3, <2>1, LenProperties, ElementOfSeq
    <2>9. ASSUME NEW i \in 1 .. Len(q), NEW j \in 1 .. Len(q), q[i] = q[j] PROVE i = j
      <3>1. \A k \in 1 .. Len(q) : k \in 1 .. Len(p) \/ k = Len(p) + 1
        BY <1>4, <2>7
      <3>2. CASE i \in 1 .. Len(p) /\ j \in 1 .. Len(p)
        BY <1>3, <2>7, <2>9, <3>2
      <3>3. CASE i \in 1 .. Len(p) /\ j = Len(p) + 1
        BY <2>7, <2>8, <2>9, <3>3
      <3>4. CASE i = Len(p) + 1 /\ j \in 1 .. Len(p)
        BY <2>7, <2>8, <2>9, <3>4
      <3> QED
        BY <3>1, <3>2, <3>3, <3>4
    <2>10. stage' \in {"test", "release"} /\ (stage' = "test" => Len(q) < Len(TestRequests))
      <3>1. stage' = IF Len(q) = Len(TestRequests) THEN "release" ELSE "test"
        BY <1>1, <1>2, <2>6
      <3>2. Len(q) # Len(TestRequests) => Len(q) < Len(TestRequests)
        <4>1. PICK m \in Nat, k \in Nat : m = Len(p) /\ k = Len(TestRequests)
          BY <1>4
        <4>2. m < k /\ Len(q) = m + 1
          BY <1>3, <2>7, <4>1
        <4> QED
          BY <4>1, <4>2
      <3> QED
        BY <3>1, <3>2
    <2>11. Stages'
      BY <2>6, <2>7, <2>9, <2>10 DEF Stages
    <2> QED
      BY <1>6, <2>11 DEF IInv
  <1> QED
    BY <1>6, <1>7, <1>8

\* test_allocator's deallocations: the block it gives back is in use.
LEMMA TestDeallocates ==
    ASSUME IInv, test_deallocate
    PROVE  IInv'
  <1>1. ~Corrupt /\ stage = "release" /\ p # <<>> /\ deallocate(Last(p)) /\ p' = Front(p)
        /\ UNCHANGED <<added, stage>>
    BY DEF test_deallocate, Ready
  <1>2. p \in Seq(DOMAIN used) /\ \A i, j \in 1 .. Len(p) : p[i] = p[j] => i = j
    BY DEF IInv, Stages
  <1>3. Len(p) \in Nat \ {0} /\ DOMAIN p = 1 .. Len(p)
    BY <1>1, <1>2, LenProperties, EmptySeq
  <1>4. PICK n \in Nat \ {0} : n = Len(p)
    BY <1>3
  <1>5. PICK b \in DOMAIN used : b = p[n] /\ b = Last(p)
    BY <1>2, <1>3, <1>4, ElementOfSeq DEF Last
  <1>6. /\ Types' /\ Sound(SizesOf(free), UsedSizes, TakenWords)' /\ Unwrapped'
        /\ used' = Drop(used, b)
    <2>1. Types /\ Sound(SizesOf(free), UsedSizes, TakenWords) /\ Unwrapped
      BY DEF IInv
    <2>2. deallocate(b)
      BY <1>1, <1>5
    <2> QED
      BY <1>1, <2>1, <2>2, DeallocateSound
  <1>7. PICK q : q = SubSeq(p, 1, n - 1)
    OBVIOUS
  <1>8. p' = q
    BY <1>1, <1>4, <1>7 DEF Front
  <1>9. /\ q \in Seq(DOMAIN used) /\ Len(q) = n - 1
        /\ \A i \in 1 .. n - 1 : q[i] = p[i]
    BY <1>2, <1>3, <1>4, <1>7, SubSeqProperties
  <1>10. ASSUME NEW i \in 1 .. n - 1 PROVE q[i] \in DOMAIN used \ {b}
    <2>1. i \in 1 .. Len(p) /\ n \in 1 .. Len(p) /\ i # n
      BY <1>4
    <2>2. p[i] # p[n] /\ p[i] \in DOMAIN used
      BY <1>2, <2>1, ElementOfSeq
    <2> QED
      BY <1>5, <1>9, <2>2
  <1>11. q \in Seq(DOMAIN used')
    <2>1. DOMAIN used' = DOMAIN used \ {b}
      BY <1>6 DEF Drop
    <2>2. Len(q) \in Nat /\ q = [i \in 1 .. Len(q) |-> q[i]]
      BY <1>9, LenProperties
    <2>3. \A i \in 1 .. Len(q) : q[i] \in DOMAIN used'
      BY <1>9, <1>10, <2>1
    <2> QED
      BY <2>2, <2>3, IsASeq
  <1>12. \A i, j \in 1 .. Len(q) : q[i] = q[j] => i = j
    BY <1>2, <1>4, <1>9
  <1>13. Stages'
    BY <1>1, <1>8, <1>11, <1>12 DEF Stages
  <1> QED
    BY <1>6, <1>13 DEF IInv

\* The invariant holds when the kernel starts.
LEMMA InitIInv == Init => IInv
  <1> SUFFICES ASSUME Init PROVE IInv
    OBVIOUS
  <1>1. DOMAIN free = {} /\ DOMAIN used = {} /\ p = <<>> /\ added = 0 /\ stage = "boot"
    BY DEF Init
  <1>2. Len(Regions) \in Nat
    BY RegionAssumption, LenProperties
  <1>3. Types
    <2>1. IsFiniteSet(DOMAIN free)
      BY <1>1, FS_EmptySet
    <2>2. free \in [DOMAIN free -> Header] /\ used \in [DOMAIN used -> HeapSizes]
      BY <1>1 DEF Init
    <2> QED
      BY <1>1, <1>2, <2>1, <2>2 DEF Types
  <1>4. DOMAIN SizesOf(free) = {} /\ DOMAIN UsedSizes = {}
    BY <1>1 DEF SizesOf, UsedSizes
  <1>5. SizesOf(free) \in [{} -> Nat \ {0}] /\ UsedSizes \in [{} -> Nat \ {0}]
    BY <1>1 DEF SizesOf, UsedSizes
  <1>6. Sound(SizesOf(free), UsedSizes, TakenWords)
    BY <1>4, <1>5 DEF Sound, Sized, Separate, Inside, Across
  <1>7. Unwrapped
    BY <1>1 DEF Unwrapped
  <1>8. p \in Seq(DOMAIN used) /\ \A i, j \in 1 .. Len(p) : p[i] = p[j] => i = j
    BY <1>1, EmptyHeld
  <1>9. Stages
    BY <1>1, <1>8 DEF Stages
  <1> QED
    BY <1>3, <1>6, <1>7, <1>9 DEF IInv

\* Every step keeps the invariant.
LEMMA NextIInv == IInv /\ [Next]_vars => IInv'
  <1> SUFFICES ASSUME IInv, [Next]_vars PROVE IInv'
    OBVIOUS
  <1>0. Types /\ Sound(SizesOf(free), UsedSizes, TakenWords) /\ Unwrapped /\ Stages
    BY DEF IInv
  <1>1. CASE vmm_init
    BY <1>1, RegionAdded
  <1>2. CASE test_construct
    <2>1. UNCHANGED <<free, used, added, stray, p>> /\ stage = "boot" /\ stage' = "construct"
          /\ head' = null /\ added = Len(Regions)
      BY <1>2 DEF test_construct
    <2>2. Types' /\ Sound(SizesOf(free), UsedSizes, TakenWords)' /\ Unwrapped'
      BY <1>0, <2>1 DEF Types, SizesOf, UsedSizes, TakenWords, Unwrapped
    <2>3. Stages'
      BY <1>0, <2>1 DEF Stages
    <2> QED
      BY <2>2, <2>3 DEF IInv
  <1>3. CASE test_add_memory
    BY <1>3, RegionTakenOver
  <1>4. CASE test_allocate
    BY <1>4, TestAllocates
  <1>5. CASE test_deallocate
    BY <1>5, TestDeallocates
  <1>6. CASE test_end
    <2>1. UNCHANGED <<free, used, added, stray, p>> /\ stage' = "running" /\ p = <<>>
      BY <1>6 DEF test_end
    <2>2. Types' /\ Sound(SizesOf(free), UsedSizes, TakenWords)' /\ Unwrapped'
      BY <1>0, <2>1 DEF Types, SizesOf, UsedSizes, TakenWords, Unwrapped
    <2>3. Stages'
      BY <1>0, <2>1 DEF Stages
    <2> QED
      BY <2>2, <2>3 DEF IInv
  <1>7. ASSUME NEW request \in Requests, vmalloc(request) PROVE IInv'
    <2>1. ~Corrupt /\ stage = "running" /\ allocate(request) /\ UNCHANGED <<added, stage, p>>
      BY <1>7 DEF vmalloc, Ready, testVars
    <2>2. Types' /\ Sound(SizesOf(free), UsedSizes, TakenWords)' /\ Unwrapped'
      BY <1>0, <2>1, AllocateSound DEF HeapSizes
    <2>3. p' = <<>>
      BY <1>0, <2>1 DEF Stages
    <2>4. p' \in Seq(DOMAIN used') /\ \A i, j \in 1 .. Len(p') : p'[i] = p'[j] => i = j
      BY <2>3, EmptyHeld
    <2>5. Stages'
      BY <2>1, <2>3, <2>4 DEF Stages
    <2> QED
      BY <2>2, <2>5 DEF IInv
  <1>8. ASSUME NEW b \in DOMAIN used, vfree(b) PROVE IInv'
    <2>1. ~Corrupt /\ stage = "running" /\ deallocate(b) /\ UNCHANGED <<added, stage, p>>
      BY <1>8 DEF vfree, Ready, testVars
    <2>2. Types' /\ Sound(SizesOf(free), UsedSizes, TakenWords)' /\ Unwrapped'
      BY <1>0, <2>1, DeallocateSound
    <2>3. p' = <<>>
      BY <1>0, <2>1 DEF Stages
    <2>4. p' \in Seq(DOMAIN used') /\ \A i, j \in 1 .. Len(p') : p'[i] = p'[j] => i = j
      BY <2>3, EmptyHeld
    <2>5. Stages'
      BY <2>1, <2>3, <2>4 DEF Stages
    <2> QED
      BY <2>2, <2>5 DEF IInv
  <1>9. CASE kernel_hang \/ UNCHANGED vars
    <2>1. UNCHANGED <<head, free, used, added, stray, stage, p>>
      BY <1>9 DEF kernel_hang, vars, testVars
    <2>2. Types' /\ Sound(SizesOf(free), UsedSizes, TakenWords)' /\ Unwrapped'
      BY <1>0, <2>1 DEF Types, SizesOf, UsedSizes, TakenWords, Unwrapped
    <2>3. Stages'
      BY <1>0, <2>1 DEF Stages
    <2> QED
      BY <2>2, <2>3 DEF IInv
  <1> QED
    BY <1>1, <1>2, <1>3, <1>4, <1>5, <1>6, <1>7, <1>8, <1>9 DEF Next

\* The words of the blocks, free or in use, are apart and inside the memory the
\* allocator took, for every sequence of operations.
THEOREM FreeListInvariant == Spec => []IInv
  BY InitIInv, NextIInv, PTL DEF Spec

\* First fit, splitting from the end and merging with the neighbours never hand
\* out or take back a word of another block, whatever the regions, the requests
\* and their order.
THEOREM FreeListBlocksDisjoint == Spec => []BlocksDisjoint
  <1>1. IInv => BlocksDisjoint
    <2> SUFFICES ASSUME IInv PROVE BlocksDisjoint
      OBVIOUS
    <2>1. PICK S, U, M : S = SizesOf(free) /\ U = UsedSizes /\ M = TakenWords
      OBVIOUS
    <2>2. Sized(S) /\ Separate(S) /\ Inside(S, M) /\ Sized(U) /\ Separate(U) /\ Inside(U, M) /\ Across(S, U)
      BY <2>1 DEF IInv, Sound
    <2>3. ASSUME NEW b \in DOMAIN free
          PROVE  b \in DOMAIN S /\ b \in Nat /\ S[b] \in Nat /\ FreeWords(b) = b .. b + S[b] - 1
      BY <2>1, <2>2 DEF SizesOf, Sized, FreeWords, real_size
    <2>4. ASSUME NEW b \in DOMAIN used
          PROVE  b \in DOMAIN U /\ b \in Nat /\ U[b] \in Nat /\ UsedWords(b) = b .. b + U[b] - 1
      <3>1. b \in DOMAIN U /\ U[b] = used[b] + used_header
        BY <2>1 DEF UsedSizes
      <3>2. b \in Nat /\ U[b] \in Nat
        BY <2>2, <3>1 DEF Sized
      <3>3. used[b] \in Int /\ used_header = 2
        BY HeapSizesFit DEF IInv, Types, used_header
      <3>4. b + used[b] + used_header - 1 = b + U[b] - 1
        BY <3>1, <3>2, <3>3
      <3> QED
        BY <3>1, <3>2, <3>4 DEF UsedWords
    <2>5. \A b \in DOMAIN free : FreeWords(b) \subseteq TakenWords
      BY <2>1, <2>2, <2>3 DEF Inside
    <2>6. \A b \in DOMAIN used : UsedWords(b) \subseteq TakenWords
      BY <2>1, <2>2, <2>4 DEF Inside
    <2>7. ASSUME NEW b \in DOMAIN free, NEW c \in DOMAIN free \ {b}
          PROVE  FreeWords(b) \cap FreeWords(c) = {}
      <3>1. Apart(b, S[b], c, S[c])
        BY <2>2, <2>3 DEF Separate
      <3>2. b \in Nat /\ S[b] \in Nat /\ c \in Nat /\ S[c] \in Nat
        BY <2>3
      <3>3. (b .. b + S[b] - 1) \cap (c .. c + S[c] - 1) = {}
        BY <3>1, <3>2, ApartDisjoint
      <3> QED
        BY <2>3, <3>3
    <2>8. ASSUME NEW b \in DOMAIN used, NEW c \in DOMAIN used \ {b}
          PROVE  UsedWords(b) \cap UsedWords(c) = {}
      <3>1. Apart(b, U[b], c, U[c])
        BY <2>2, <2>4 DEF Separate
      <3>2. b \in Nat /\ U[b] \in Nat /\ c \in Nat /\ U[c] \in Nat
        BY <2>4
      <3>3. (b .. b + U[b] - 1) \cap (c .. c + U[c] - 1) = {}
        BY <3>1, <3>2, ApartDisjoint
      <3> QED
        BY <2>4, <3>3
    <2>9. ASSUME NEW b \in DOMAIN free, NEW c \in DOMAIN used
          PROVE  FreeWords(b) \cap UsedWords(c) = {}
      <3>1. Apart(b, S[b], c, U[c])
        BY <2>2, <2>3, <2>4 DEF Across
      <3>2. b \in Nat /\ S[b] \in Nat /\ c \in Nat /\ U[c] \in Nat
        BY <2>3, <2>4
      <3>3. (b .. b + S[b] - 1) \cap (c .. c + U[c] - 1) = {}
        BY <3>1, <3>2, ApartDisjoint
      <3> QED
        BY <2>3, <2>4, <3>3
    <2> QED
      BY <2>5, <2>6, <2>7, <2>8, <2>9 DEF BlocksDisjoint
  <1> QED
    BY <1>1, FreeListInvariant, PTL

-----------------------------------------------------------------------------
(* The blocks handed out are what vmalloc promises. *)

\* The block vmalloc returns for the used header at b.
BlockAt(b) == [base |-> b + used_header, size |-> used[b]]

\* A used block in the terms of the invariant.
LEMMA UsedBlock ==
    ASSUME IInv, NEW b \in DOMAIN used
    PROVE  /\ b \in Nat /\ used[b] \in HeapSizes /\ used[b] \in Nat
           /\ BlockAt(b) \in [base : HeapWords, size : HeapSizes]
           /\ b + 2 .. b + 2 + used[b] - 1 \subseteq TakenWords
  <1>0. SizeMax \in Nat /\ used_header = 2
    BY RangeAssumption DEF used_header
  <1>1. used[b] \in HeapSizes /\ used[b] \in Nat
    BY HeapSizesFit DEF IInv, Types
  <1>2. b \in DOMAIN UsedSizes /\ UsedSizes[b] = used[b] + 2
    BY <1>0 DEF UsedSizes
  <1>3. b \in Nat /\ b .. b + UsedSizes[b] - 1 \subseteq TakenWords
    BY <1>2 DEF IInv, Sound, Sized, Inside
  <1>4. TakenWords \subseteq 1 .. SizeMax - 1
    BY GivenInside DEF IInv, Types
  <1>5. b + 1 \in b .. b + UsedSizes[b] - 1
    BY <1>1, <1>2, <1>3
  <1>6. b + 1 \in 1 .. SizeMax - 1
    BY <1>3, <1>4, <1>5
  <1>7. b + 2 \in 0 .. SizeMax
    BY <1>0, <1>3, <1>6
  <1>8. BlockAt(b) \in [base : HeapWords, size : HeapSizes]
    BY <1>0, <1>1, <1>7 DEF BlockAt, HeapWords
  <1>9. b + 2 .. b + 2 + used[b] - 1 \subseteq b .. b + UsedSizes[b] - 1
    BY <1>1, <1>2, <1>3
  <1> QED
    BY <1>1, <1>3, <1>8, <1>9

\* Two used blocks share no word.
LEMMA UsedBlocksApart ==
    ASSUME IInv, NEW b \in DOMAIN used, NEW c \in DOMAIN used \ {b}
    PROVE  (b + 2 .. b + 2 + used[b] - 1) \cap (c + 2 .. c + 2 + used[c] - 1) = {}
  <1>0. used_header = 2
    BY DEF used_header
  <1>1. b \in Nat /\ used[b] \in Nat /\ c \in Nat /\ used[c] \in Nat
    BY UsedBlock
  <1>2. Apart(b, UsedSizes[b], c, UsedSizes[c])
    BY DEF IInv, Sound, Separate, UsedSizes
  <1>3. Apart(b, used[b] + 2, c, used[c] + 2)
    BY <1>0, <1>2 DEF UsedSizes
  <1> QED
    BY <1>1, <1>3 DEF Apart

\* The same, in one state and in the next one.
UsedBlocks ==
    /\ \A c \in DOMAIN used :
          /\ BlockAt(c) \in [base : HeapWords, size : HeapSizes]
          /\ c + 2 .. c + 2 + used[c] - 1 \subseteq TakenWords
    /\ \A b \in DOMAIN used : \A c \in DOMAIN used \ {b} :
          (b + 2 .. b + 2 + used[b] - 1) \cap (c + 2 .. c + 2 + used[c] - 1) = {}

\* The invariant says so of the next state too.
LEMMA UsedBlocksNext == IInv' => UsedBlocks'
  <1>1. IInv => UsedBlocks
    BY UsedBlock, UsedBlocksApart DEF UsedBlocks
  <1> QED
    BY <1>1, PTL

\* add_memory takes two words behind a region, and no more.
LEMMA TakenWithin ==
    ASSUME IInv, NEW w \in TakenWords
    PROVE  H!Within(w)
  <1>1. PICK i \in 1 .. added : w \in TakenFrom(i)
    BY DEF TakenWords
  <1>2. Regions[i] \in [base : 1 .. SizeMax, size : 1 .. SizeMax]
    <2>1. added \in 0 .. Len(Regions) /\ DOMAIN Regions = 1 .. Len(Regions)
          /\ Len(Regions) \in Nat
      BY RegionAssumption, LenProperties DEF IInv, Types
    <2>2. i \in 1 .. Len(Regions)
      BY <2>1
    <2> QED
      BY <2>1, <2>2, RegionAssumption, ElementOfSeq
  <1>3. PICK b \in Nat, s \in Nat \ {0} : b = Regions[i].base /\ s = Regions[i].size
    BY <1>2, RangeAssumption
  <1>4. w \in b .. b + s + 1
    BY <1>1, <1>3 DEF TakenFrom, used_header
  <1>5. \E given \in b .. b + s - 1 : w \in given .. given + 2
    <2>1. CASE w <= b + s - 1
      BY <1>3, <1>4, <2>1
    <2>2. CASE w > b + s - 1
      <3>1. b + s - 1 \in b .. b + s - 1 /\ w \in b + s - 1 .. b + s - 1 + 2
        BY <1>3, <1>4, <2>2
      <3> QED
        BY <3>1
    <2> QED
      BY <1>3, <1>4, <2>1, <2>2
  <1>6. b .. b + s - 1 \subseteq GivenWords
    BY <1>3 DEF GivenWords
  <1> QED
    BY <1>5, <1>6 DEF H!Within, used_header

\* Taking a block into use is an allocation of the heap.
LEMMA HeapAllocates ==
    ASSUME IInv, IInv', UNCHANGED added, NEW request \in HeapSizes,
           NEW a \in Nat \ DOMAIN used, used' = Put(used, a, request), asked' = request
    PROVE  H!Next
  <1>0. used_header = 2
    BY DEF used_header
  <1>1. PICK block : block = [base |-> a + 2, size |-> request]
    OBVIOUS
  <1>2. DOMAIN used' = DOMAIN used \cup {a} /\ used'[a] = request
        /\ \A c \in DOMAIN used : used'[c] = used[c]
    BY DEF Put
  <1>3. a \in DOMAIN used' /\ \A c \in DOMAIN used : c \in DOMAIN used' \ {a}
    BY <1>2
  <1>4. TakenWords' = TakenWords
    BY DEF TakenWords
  <1>5. HeapBlocks' = HeapBlocks \cup {block}
    <2>1. ASSUME NEW x \in HeapBlocks' PROVE x \in HeapBlocks \cup {block}
      <3>1. PICK c \in DOMAIN used' : x = [base |-> c + 2, size |-> used'[c]]
        BY <1>0, <2>1 DEF HeapBlocks
      <3>2. CASE c = a
        BY <1>1, <1>2, <3>1, <3>2
      <3>3. CASE c # a
        BY <1>0, <1>2, <3>1, <3>3 DEF HeapBlocks
      <3> QED
        BY <3>2, <3>3
    <2>2. ASSUME NEW x \in HeapBlocks PROVE x \in HeapBlocks'
      <3>1. PICK c \in DOMAIN used : x = [base |-> c + 2, size |-> used[c]]
        BY <1>0, <2>2 DEF HeapBlocks
      <3>2. c \in DOMAIN used' /\ x = [base |-> c + 2, size |-> used'[c]]
        BY <1>2, <3>1
      <3> QED
        BY <1>0, <3>2 DEF HeapBlocks
    <2>3. block \in HeapBlocks'
      BY <1>0, <1>1, <1>2 DEF HeapBlocks
    <2> QED
      BY <2>1, <2>2, <2>3
  <1>6. block \in [base : HeapWords, size : HeapSizes]
    <2>1. (\A c \in DOMAIN used : BlockAt(c) \in [base : HeapWords, size : HeapSizes])'
      BY UsedBlocksNext DEF UsedBlocks
    <2>2. (\A c \in DOMAIN used : BlockAt(c) = [base |-> c + 2, size |-> used[c]])'
      BY <1>0 DEF BlockAt
    <2>3. HeapWords' = HeapWords /\ HeapSizes' = HeapSizes
      BY DEF HeapWords, HeapSizes
    <2> QED
      BY <1>1, <1>2, <1>3, <2>1, <2>2, <2>3
  <1>7. H!WordsOf(block) = a + 2 .. a + 2 + request - 1
    BY <1>1 DEF H!WordsOf
  <1>8. H!WordsOf(block) \subseteq TakenWords
    <2>1. (\A c \in DOMAIN used : c + 2 .. c + 2 + used[c] - 1 \subseteq TakenWords)'
      BY UsedBlocksNext DEF UsedBlocks
    <2> QED
      BY <1>2, <1>3, <1>4, <1>7, <2>1
  <1>9. ASSUME NEW other \in HeapBlocks PROVE H!WordsOf(block) \cap H!WordsOf(other) = {}
    <2>1. PICK c \in DOMAIN used : other = [base |-> c + 2, size |-> used[c]]
      BY <1>0 DEF HeapBlocks
    <2>2. H!WordsOf(other) = c + 2 .. c + 2 + used[c] - 1
      BY <2>1 DEF H!WordsOf
    <2>3. (\A b \in DOMAIN used : \A d \in DOMAIN used \ {b} :
              (b + 2 .. b + 2 + used[b] - 1) \cap (d + 2 .. d + 2 + used[d] - 1) = {})'
      BY UsedBlocksNext DEF UsedBlocks
    <2>4. (a + 2 .. a + 2 + request - 1) \cap (c + 2 .. c + 2 + used[c] - 1) = {}
      BY <1>2, <1>3, <2>3
    <2> QED
      BY <1>7, <2>2, <2>4
  <1>10. H!Allocate(request, a + 2)
    <2>1. \A w \in H!WordsOf(block) : H!Within(w)
      BY <1>8, TakenWithin
    <2>2. UNCHANGED GivenWords
      BY DEF GivenWords
    <2> QED
      BY <1>1, <1>5, <1>9, <2>1, <2>2 DEF H!Allocate, H!Ask
  <1>11. a + 2 \in HeapWords
    BY <1>1, <1>6
  <1> QED
    BY <1>10, <1>11 DEF H!Next, HeapSizes

\* A call that finds no room is a refusal of the heap.
LEMMA HeapRefuses ==
    ASSUME UNCHANGED <<used, added>>, NEW request \in HeapSizes, asked' = request
    PROVE  H!Next
  <1>1. UNCHANGED <<GivenWords, HeapBlocks>>
    BY DEF GivenWords, HeapBlocks
  <1>2. H!Refuse(request)
    BY <1>1 DEF H!Refuse, H!Ask
  <1> QED
    BY <1>2 DEF H!Next, HeapSizes

\* Giving back a block is a deallocation of the heap.
LEMMA HeapFrees ==
    ASSUME IInv, UNCHANGED <<added, asked>>, NEW b \in DOMAIN used, used' = Drop(used, b)
    PROVE  H!Next
  <1>0. used_header = 2
    BY DEF used_header
  <1>1. PICK block : block = [base |-> b + 2, size |-> used[b]]
    OBVIOUS
  <1>2. DOMAIN used' = DOMAIN used \ {b} /\ \A c \in DOMAIN used \ {b} : used'[c] = used[c]
    BY DEF Drop
  <1>3. GivenWords' = GivenWords
    BY DEF GivenWords
  <1>4. block \in HeapBlocks
    BY <1>0, <1>1 DEF HeapBlocks
  <1>5. HeapBlocks' = HeapBlocks \ {block}
    <2>1. ASSUME NEW x \in HeapBlocks' PROVE x \in HeapBlocks \ {block}
      <3>1. PICK c \in DOMAIN used' : x = [base |-> c + 2, size |-> used'[c]]
        BY <1>0, <2>1 DEF HeapBlocks
      <3>2. c \in DOMAIN used /\ c # b /\ x = [base |-> c + 2, size |-> used[c]]
        BY <1>2, <3>1
      <3>3. c + 2 # b + 2
        BY <3>2, UsedBlock
      <3>4. x # block
        BY <1>1, <3>2, <3>3
      <3> QED
        BY <1>0, <3>2, <3>4 DEF HeapBlocks
    <2>2. ASSUME NEW x \in HeapBlocks \ {block} PROVE x \in HeapBlocks'
      <3>1. PICK c \in DOMAIN used : x = [base |-> c + 2, size |-> used[c]]
        BY <1>0 DEF HeapBlocks
      <3>2. c # b
        BY <1>1, <3>1
      <3>3. c \in DOMAIN used' /\ x = [base |-> c + 2, size |-> used'[c]]
        BY <1>2, <3>1, <3>2
      <3> QED
        BY <1>0, <3>3 DEF HeapBlocks
    <2> QED
      BY <2>1, <2>2
  <1>6. H!Free(block)
    BY <1>3, <1>4, <1>5 DEF H!Free
  <1> QED
    BY <1>4, <1>6 DEF H!Next

\* Every step is a step of the heap, or changes nothing the heap promises.
LEMMA HeapSteps ==
    ASSUME IInv, IInv', [Next]_vars
    PROVE  [H!Next]_(H!heapVars)
  <1>0. Types /\ Sound(SizesOf(free), UsedSizes, TakenWords) /\ Unwrapped /\ Stages
    BY DEF IInv
  <1>1. ASSUME UNCHANGED <<used, added, asked>> PROVE UNCHANGED H!heapVars
    BY <1>1 DEF H!heapVars, HeapBlocks, GivenWords
  <1>2. CASE vmm_init
    <2>1. UNCHANGED <<used, asked>> /\ added' = added + 1
      BY <1>2 DEF vmm_init, add_memory
    <2>2. UNCHANGED <<HeapBlocks, asked>>
      BY <2>1 DEF HeapBlocks
    <2>3. GivenWords \subseteq GivenWords'
      <3>1. added \in Nat
        BY <1>0, RegionAssumption, LenProperties DEF Types
      <3>2. 1 .. added \subseteq 1 .. added'
        BY <2>1, <3>1
      <3> QED
        BY <3>2 DEF GivenWords
    <2> QED
      BY <2>2, <2>3 DEF H!Next, H!Give
  <1>3. ASSUME NEW request \in HeapSizes, ~Corrupt, allocate(request), asked' = request,
               UNCHANGED added
        PROVE  [H!Next]_(H!heapVars)
    <2>1. \/ used' = used
          \/ \E a \in Nat \ DOMAIN used : used' = Put(used, a, request)
      BY <1>0, <1>3, AllocateSound
    <2>2. CASE used' = used
      BY <1>3, <2>2, HeapRefuses
    <2>3. CASE \E a \in Nat \ DOMAIN used : used' = Put(used, a, request)
      <3>1. PICK a \in Nat \ DOMAIN used : used' = Put(used, a, request)
        BY <2>3
      <3> QED
        BY <1>3, <3>1, HeapAllocates
    <2> QED
      BY <2>1, <2>2, <2>3
  <1>4. ASSUME NEW b \in DOMAIN used, ~Corrupt, deallocate(b), UNCHANGED <<added, asked>>
        PROVE  [H!Next]_(H!heapVars)
    <2>1. used' = Drop(used, b)
      BY <1>0, <1>4, DeallocateSound
    <2> QED
      BY <1>4, <2>1, HeapFrees
  <1>5. CASE test_allocate
    <2>1. ~Corrupt /\ stage = "test" /\ allocate(TestRequests[Len(p) + 1])
          /\ asked' = TestRequests[Len(p) + 1] /\ UNCHANGED added
      BY <1>5 DEF test_allocate, Ready
    <2>2. Len(p) \in Nat /\ Len(TestRequests) \in Nat /\ Len(p) < Len(TestRequests)
          /\ DOMAIN TestRequests = 1 .. Len(TestRequests)
      BY <1>0, <2>1, RequestAssumption, LenProperties DEF Stages
    <2>3. Len(p) + 1 \in DOMAIN TestRequests
      BY <2>2
    <2>4. TestRequests[Len(p) + 1] \in HeapSizes
      BY <2>3 DEF HeapSizes, Range
    <2> QED
      BY <1>3, <2>1, <2>4
  <1>6. CASE test_deallocate
    <2>1. ~Corrupt /\ p # <<>> /\ deallocate(Last(p)) /\ UNCHANGED <<added, asked>>
      BY <1>6 DEF test_deallocate, Ready
    <2>2. p \in Seq(DOMAIN used)
      BY <1>0 DEF Stages
    <2>3. Len(p) \in Nat \ {0}
      BY <2>1, <2>2, LenProperties, EmptySeq
    <2>4. Last(p) \in DOMAIN used
      BY <2>2, <2>3, ElementOfSeq DEF Last
    <2> QED
      BY <1>4, <2>1, <2>4
  <1>7. ASSUME NEW request \in Requests, vmalloc(request) PROVE [H!Next]_(H!heapVars)
    BY <1>3, <1>7 DEF vmalloc, Ready, HeapSizes
  <1>8. ASSUME NEW b \in DOMAIN used, vfree(b) PROVE [H!Next]_(H!heapVars)
    BY <1>4, <1>8 DEF vfree, Ready
  <1>9. CASE test_construct \/ test_add_memory \/ test_end \/ kernel_hang \/ UNCHANGED vars
    <2>1. UNCHANGED <<used, added, asked>>
      BY <1>9 DEF test_construct, test_add_memory, add_memory, test_end, kernel_hang, vars
    <2> QED
      BY <1>1, <2>1
  <1> QED
    BY <1>2, <1>5, <1>6, <1>7, <1>8, <1>9 DEF Next

\* vmalloc and vfree, with all of first fit, splitting and merging, implement the
\* heap: each caller gets a block whose header holds exactly the size it asked
\* for, in the regions vmm_init was given or the two words behind one, that no
\* other block in use overlaps until it is given back.
THEOREM FreeListImplementsHeap == Spec => HeapSpec
  <1>1. Init => H!Init
    BY DEF Init, H!Init, GivenWords, HeapBlocks
  <1>2. IInv /\ IInv' /\ [Next]_vars => [H!Next]_(H!heapVars)
    BY HeapSteps
  <1> QED
    BY <1>1, <1>2, FreeListInvariant, PTL DEF Spec, HeapSpec, H!Spec

-----------------------------------------------------------------------------
(* What the operations do to the list. *)

\* Linking and merging keep the list.
LEMMA InsertLinked ==
    ASSUME DOMAIN free \subseteq Nat \ {0}, free \in [DOMAIN free -> Header],
           NEW A, Linked(free, head, A), NEW b \in Nat \ {0}, b \notin A,
           NEW prev, NEW curr, Between(prev, b, curr, A),
           NEW N \in BOOLEAN, NEW P \in BOOLEAN, N => curr # null, P => prev # null,
           NEW G, Relinked(G, prev, b, curr, N, P),
           NEW B, B = (A \cup {b}) \ ((IF N THEN {curr} ELSE {}) \cup (IF P THEN {b} ELSE {}))
    PROVE  Linked(G, IF prev = null THEN b ELSE head, B)
  <1>0. null = 0
    BY DEF null
  <1>1. \A c \in A : c \in DOMAIN free /\ c \in Nat /\ c > 0 /\ c # b
    BY DEF Linked
  <1>2. /\ head = 0 \/ head \in A
        /\ \A c \in A : c > 0 => head # 0 /\ head <= c
        /\ \A a \in A : /\ free[a].next = 0 \/ (free[a].next \in A /\ free[a].next > a)
                        /\ \A c \in A : c > a => free[a].next # 0 /\ free[a].next <= c
                        /\ free[a].prev \in Int /\ free[a].prev < a
                        /\ \A c \in A : ~(free[a].prev < c /\ c < a)
    <2>1. \A a \in A : free[a].prev \in Int
      BY <1>1 DEF Header
    <2> QED
      BY <1>0, <2>1 DEF Linked, Leads
  <1>3. /\ prev = 0 \/ (prev \in A /\ prev < b)
        /\ \A c \in A : ~(prev < c /\ c < b)
        /\ curr = 0 \/ (curr \in A /\ curr > b)
        /\ \A c \in A : c > b => curr # 0 /\ curr <= c
    BY <1>0 DEF Between, Leads
  <1>4. PICK nx : nx = IF N THEN free[curr].next ELSE curr
    OBVIOUS
  <1>5. /\ nx = 0 \/ (nx \in A /\ nx > b /\ (N => nx # curr))
        /\ \A c \in A : c > b /\ (N => c # curr) => nx # 0 /\ nx <= c
    <2>1. CASE N
      <3>1. nx = free[curr].next /\ curr \in A /\ curr > b /\ curr \in Nat
        BY <1>0, <1>1, <1>3, <1>4, <2>1
      <3>2. nx = 0 \/ (nx \in A /\ nx > curr)
        BY <1>2, <3>1
      <3>3. nx = 0 \/ (nx \in A /\ nx > b /\ nx # curr)
        BY <1>1, <3>1, <3>2
      <3>4. ASSUME NEW c \in A, c > b, c # curr PROVE nx # 0 /\ nx <= c
        <4>1. c \in Nat /\ curr <= c
          BY <1>1, <1>3, <3>4
        <4>2. c > curr
          BY <3>1, <3>4, <4>1
        <4> QED
          BY <1>2, <3>1, <4>2
      <3> QED
        BY <2>1, <3>3, <3>4
    <2>2. CASE ~N
      BY <1>3, <1>4, <2>2
    <2> QED
      BY <2>1, <2>2
  <1>6. \A c : c \in B <=> (c \in A /\ (N => c # curr)) \/ (c = b /\ ~P)
    <2>1. N => curr # b
      BY <1>0, <1>1, <1>3
    <2> QED
      BY <1>1, <2>1
  <1>7. /\ B \subseteq DOMAIN G
        /\ \A c \in B :
              /\ G[c].next = IF c = b \/ (P /\ c = prev) THEN nx
                             ELSE IF c = prev THEN b ELSE free[c].next
              /\ G[c].prev = IF c = b THEN prev ELSE IF c = curr THEN b ELSE free[c].prev
    <2>1. B \subseteq DOMAIN G
      <3>1. ASSUME NEW c \in B PROVE c \in DOMAIN G
        BY <1>1, <1>6 DEF Relinked
      <3> QED
        BY <3>1
    <2> QED
      BY <1>4, <2>1 DEF Relinked
  <1>8. \A c \in B : c \in Nat /\ c > 0
    BY <1>1, <1>6
  <1>9. PICK h : h = IF prev = null THEN b ELSE head
    OBVIOUS
  <1>10. Leads(h, 0, B)
    <2>1. CASE prev = 0
      <3>1. h = b /\ b \in B
        BY <1>0, <1>6, <1>9, <2>1
      <3>2. ASSUME NEW c \in B PROVE b <= c
        <4>1. CASE c \in A
          <5>1. c \in Nat /\ c > 0 /\ ~(0 < c /\ c < b)
            BY <1>1, <1>3, <2>1, <4>1
          <5> QED
            BY <5>1
        <4> QED
          BY <1>6, <4>1
      <3> QED
        BY <1>0, <3>1, <3>2 DEF Leads
    <2>2. CASE prev \in A
      <3>1. prev \in Nat /\ prev > 0 /\ prev < b /\ h = head
        BY <1>0, <1>1, <1>3, <1>9, <2>2
      <3>2. head \in A /\ head \in Nat /\ head > 0 /\ head <= prev
        BY <1>1, <1>2, <2>2, <3>1
      <3>3. head # curr
        BY <1>3, <3>1, <3>2
      <3>4. ASSUME NEW c \in B PROVE head <= c
        BY <1>1, <1>2, <1>6, <3>1, <3>2
      <3>5. head \in B
        BY <1>6, <3>2, <3>3
      <3> QED
        BY <1>0, <3>1, <3>2, <3>4, <3>5 DEF Leads
    <2> QED
      BY <1>3, <2>1, <2>2
  <1>11. ASSUME NEW a \in B PROVE Leads(G[a].next, a, B)
    <2>0. PICK y : y = G[a].next
      OBVIOUS
    <2>1. CASE a = b
      <3>1. y = nx
        BY <1>7, <2>0, <2>1
      <3>2. nx = 0 \/ (nx \in B /\ nx > b)
        BY <1>5, <1>6
      <3>3. ASSUME NEW c \in B, c > b PROVE nx # 0 /\ nx <= c
        <4>1. c \in A /\ (N => c # curr)
          BY <1>6, <3>3
        <4> QED
          BY <1>5, <3>3, <4>1
      <3> QED
        BY <1>0, <2>0, <2>1, <3>1, <3>2, <3>3 DEF Leads
    <2>2. CASE a = prev /\ a # b /\ P
      <3>1. y = nx /\ prev \in A /\ prev < b /\ prev \in Nat
        BY <1>0, <1>1, <1>3, <1>7, <2>0, <2>2
      <3>2. nx = 0 \/ (nx \in B /\ nx > a)
        <4>1. nx \in A => nx \in Nat
          BY <1>1
        <4> QED
          BY <1>5, <1>6, <2>2, <3>1, <4>1
      <3>3. ASSUME NEW c \in B, c > a PROVE nx # 0 /\ nx <= c
        <4>1. c \in A /\ (N => c # curr) /\ c \in Nat /\ c # b
          BY <1>1, <1>6, <2>2
        <4>2. c > b
          BY <1>3, <2>2, <3>1, <3>3, <4>1
        <4> QED
          BY <1>5, <4>1, <4>2
      <3> QED
        BY <1>0, <2>0, <3>1, <3>2, <3>3 DEF Leads
    <2>3. CASE a = prev /\ a # b /\ ~P
      <3>1. y = b /\ b \in B /\ prev \in A /\ prev < b /\ prev \in Nat
        BY <1>1, <1>3, <1>6, <1>7, <1>8, <2>0, <2>3
      <3>2. ASSUME NEW c \in B, c > a PROVE b <= c
        <4>1. CASE c \in A
          <5>1. c \in Nat /\ ~(prev < c /\ c < b)
            BY <1>1, <1>3, <4>1
          <5> QED
            BY <2>3, <3>1, <3>2, <5>1
        <4> QED
          BY <1>6, <4>1
      <3> QED
        BY <1>0, <2>0, <2>3, <3>1, <3>2 DEF Leads
    <2>4. CASE a # prev /\ a # b
      <3>1. y = free[a].next /\ a \in A /\ a \in Nat /\ (N => a # curr)
        BY <1>1, <1>6, <1>7, <2>0, <2>4
      <3>2. /\ y = 0 \/ (y \in A /\ y > a)
            /\ \A c \in A : c > a => y # 0 /\ y <= c
        BY <1>2, <3>1
      <3>3. CASE a < b
        <4>1. prev \in A /\ prev \in Nat /\ prev < b /\ a < prev
          <5>1. ~(prev < a)
            BY <1>3, <3>1, <3>3
          <5> QED
            BY <1>1, <1>3, <2>4, <3>1, <5>1
        <4>2. y # 0 /\ y <= prev /\ y \in A /\ y > a /\ y \in Nat
          BY <1>1, <3>2, <4>1
        <4>3. y # curr
          BY <1>3, <4>1, <4>2
        <4>4. y \in B
          BY <1>6, <4>2, <4>3
        <4>5. ASSUME NEW c \in B, c > a PROVE y <= c
          BY <1>1, <1>6, <3>2, <4>1, <4>2, <4>5
        <4> QED
          BY <1>0, <2>0, <4>2, <4>4, <4>5 DEF Leads
      <3>4. CASE a > b
        <4>1. curr \in A /\ curr <= a /\ curr \in Nat
          BY <1>1, <1>3, <3>1, <3>4
        <4>2. y = 0 \/ (y \in B /\ y > a)
          <5>1. y \in A => y \in Nat
            BY <1>1
          <5>2. y = 0 \/ (y \in A /\ y > a /\ y # curr)
            BY <3>1, <3>2, <4>1, <5>1
          <5> QED
            BY <1>6, <5>2
        <4>3. ASSUME NEW c \in B, c > a PROVE y # 0 /\ y <= c
          <5>1. c \in A
            BY <1>6, <1>8, <3>1, <3>4, <4>3
          <5> QED
            BY <3>2, <4>3, <5>1
        <4> QED
          BY <1>0, <2>0, <4>2, <4>3 DEF Leads
      <3> QED
        BY <2>4, <3>1, <3>3, <3>4
    <2> QED
      BY <2>1, <2>2, <2>3, <2>4
  <1>12. ASSUME NEW a \in B
         PROVE  G[a].prev < a /\ \A c \in B : ~(G[a].prev < c /\ c < a)
    <2>0. PICK z : z = G[a].prev
      OBVIOUS
    <2>1. CASE a = b
      <3>1. z = prev /\ z < b
        BY <1>3, <1>7, <2>0, <2>1
      <3>2. ASSUME NEW c \in B, z < c, c < b PROVE FALSE
        BY <1>3, <1>6, <3>1, <3>2
      <3> QED
        BY <2>0, <2>1, <3>1, <3>2
    <2>2. CASE a = curr /\ a # b
      <3>1. z = b /\ a \in A /\ a > b /\ a \in Nat
        BY <1>1, <1>3, <1>6, <1>7, <2>0, <2>2
      <3>2. ASSUME NEW c \in B, b < c, c < a PROVE FALSE
        <4>1. c \in A /\ c \in Nat
          BY <1>1, <1>6, <3>2
        <4>2. curr <= c
          BY <1>3, <3>2, <4>1
        <4> QED
          BY <2>2, <3>1, <3>2, <4>1, <4>2
      <3> QED
        BY <2>0, <3>1, <3>2
    <2>3. CASE a # curr /\ a # b
      <3>1. z = free[a].prev /\ a \in A /\ a \in Nat /\ z \in Int /\ z < a
        BY <1>1, <1>2, <1>6, <1>7, <2>0, <2>3
      <3>2. ASSUME NEW c \in B, z < c, c < a PROVE FALSE
        <4>1. CASE c \in A
          BY <1>2, <3>1, <3>2, <4>1
        <4>2. CASE c = b
          <5>1. curr # 0 /\ curr <= a
            BY <1>3, <3>1, <3>2, <4>2
          <5>2. curr \in A /\ curr > b /\ curr \in Nat
            BY <1>1, <1>3, <5>1
          <5>3. z < curr /\ curr < a
            BY <2>3, <3>1, <3>2, <4>2, <5>1, <5>2
          <5> QED
            BY <1>2, <3>1, <5>2, <5>3
        <4> QED
          BY <1>6, <4>1, <4>2
      <3> QED
        BY <2>0, <3>1, <3>2
    <2> QED
      BY <2>1, <2>2, <2>3
  <1> QED
    BY <1>0, <1>7, <1>9, <1>10, <1>11, <1>12 DEF Linked

\* Taking a block that is not the first out of the list keeps it, if its prev
\* pointer leads to a header.
LEMMA UnlinkLinked ==
    ASSUME DOMAIN free \subseteq Nat \ {0}, free \in [DOMAIN free -> Header],
           NEW A, Linked(free, head, A), NEW b \in A, free[b].prev \in A,
           NEW G, G = unlink(b)
    PROVE  Linked(G, head, A \ {b}) /\ b # head /\ free[free[b].prev].next = b
  <1>0. null = 0
    BY DEF null
  <1>1. \A c \in A : c \in DOMAIN free /\ c \in Nat /\ c > 0
    BY DEF Linked
  <1>2. /\ head = 0 \/ head \in A
        /\ \A c \in A : c > 0 => head # 0 /\ head <= c
        /\ \A a \in A : /\ free[a].next = 0 \/ (free[a].next \in A /\ free[a].next > a)
                        /\ \A c \in A : c > a => free[a].next # 0 /\ free[a].next <= c
                        /\ free[a].prev \in Int /\ free[a].prev < a
                        /\ \A c \in A : ~(free[a].prev < c /\ c < a)
    <2>1. \A a \in A : free[a].prev \in Int
      BY <1>1 DEF Header
    <2> QED
      BY <1>0, <2>1 DEF Linked, Leads
  <1>3. PICK x \in A : x = free[b].prev
    OBVIOUS
  <1>y. PICK y : y = free[b].next
    OBVIOUS
  <1>4. x \in Nat /\ x > 0 /\ b \in Nat /\ x < b
    BY <1>1, <1>2, <1>3
  <1>5. free[x].next = b
    <2>1. free[x].next # 0 /\ free[x].next <= b
      BY <1>2, <1>4
    <2>2. free[x].next \in A /\ free[x].next > x /\ free[x].next \in Nat
      BY <1>1, <1>2, <2>1
    <2>3. ~(x < free[x].next /\ free[x].next < b)
      BY <1>2, <1>3, <2>2
    <2> QED
      BY <1>4, <2>1, <2>2, <2>3
  <1>6. head \in A /\ head # b /\ head \in Nat /\ head > 0
    BY <1>1, <1>2, <1>4
  <1>7. PICK B : B = A \ {b}
    OBVIOUS
  <1>8. /\ B \subseteq DOMAIN G
        /\ \A c \in B : /\ G[c].next = IF c = x THEN y ELSE free[c].next
                        /\ G[c].prev = IF c = y THEN x ELSE free[c].prev
    <2>1. DOMAIN G = DOMAIN free \ {b}
      BY DEF unlink
    <2>2. B \subseteq DOMAIN G
      BY <1>1, <1>7, <2>1
    <2>3. ASSUME NEW c \in B
          PROVE  /\ G[c].next = IF c = x THEN y ELSE free[c].next
                 /\ G[c].prev = IF c = y THEN x ELSE free[c].prev
      <3>1. free[c] \in Header
        BY <2>1, <2>2
      <3>2. G[c] = [free[c] EXCEPT !.next = IF c = x THEN y ELSE @,
                                   !.prev = IF c = y THEN x ELSE @]
        BY <1>3, <1>y, <2>1, <2>2 DEF unlink
      <3> QED
        BY <3>1, <3>2 DEF Header
    <2> QED
      BY <2>2, <2>3
  <1>9. Leads(head, 0, B)
    BY <1>0, <1>2, <1>6, <1>7 DEF Leads
  <1>10. ASSUME NEW a \in B PROVE Leads(G[a].next, a, B)
    <2>0. PICK v : v = G[a].next
      OBVIOUS
    <2>1. CASE a = x
      <3>1. v = y /\ (y = 0 \/ (y \in A /\ y > b))
        BY <1>2, <1>3, <1>y, <1>8, <2>0, <2>1
      <3>2. y = 0 \/ (y \in B /\ y > a)
        BY <1>1, <1>4, <1>7, <2>1, <3>1
      <3>3. ASSUME NEW c \in B, c > a PROVE y # 0 /\ y <= c
        <4>1. c \in A /\ c # b /\ c \in Nat
          BY <1>1, <1>7
        <4>2. ~(x < c /\ c < b)
          BY <1>2, <1>3, <4>1
        <4>3. c > b
          BY <1>4, <2>1, <3>3, <4>1, <4>2
        <4> QED
          BY <1>2, <1>y, <4>1, <4>3
      <3> QED
        BY <1>0, <2>0, <3>1, <3>2, <3>3 DEF Leads
    <2>2. CASE a # x
      <3>1. v = free[a].next /\ a \in A /\ a # b /\ a \in Nat
        BY <1>1, <1>7, <1>8, <2>0, <2>2
      <3>2. /\ v = 0 \/ (v \in A /\ v > a)
            /\ \A c \in A : c > a => v # 0 /\ v <= c
        BY <1>2, <3>1
      <3>3. v # b
        <4> SUFFICES ASSUME v = b PROVE FALSE
          OBVIOUS
        <4>1. a < b
          BY <1>4, <3>1, <3>2
        <4>2. ~(x < a /\ a < b)
          BY <1>2, <1>3, <3>1
        <4>3. a < x
          BY <1>4, <2>2, <3>1, <4>1, <4>2
        <4>4. v <= x
          BY <3>2, <4>3
        <4> QED
          BY <1>4, <4>4
      <3> QED
        BY <1>0, <1>7, <2>0, <3>2, <3>3 DEF Leads
    <2> QED
      BY <2>1, <2>2
  <1>11. ASSUME NEW a \in B
         PROVE  G[a].prev < a /\ \A c \in B : ~(G[a].prev < c /\ c < a)
    <2>0. PICK z : z = G[a].prev
      OBVIOUS
    <2>1. CASE a = y
      <3>1. z = x /\ a \in A /\ a \in Nat /\ a > b
        BY <1>1, <1>2, <1>3, <1>y, <1>7, <1>8, <2>0, <2>1
      <3>2. ASSUME NEW c \in B, x < c, c < a PROVE FALSE
        <4>1. c \in A /\ c # b /\ c \in Nat
          BY <1>1, <1>7
        <4>2. ~(x < c /\ c < b)
          BY <1>2, <1>3, <4>1
        <4>3. c > b
          BY <1>4, <3>2, <4>1, <4>2
        <4>4. y <= c
          BY <1>2, <1>y, <4>1, <4>3
        <4> QED
          BY <2>1, <3>1, <3>2, <4>1, <4>4
      <3> QED
        BY <1>4, <2>0, <3>1, <3>2
    <2>2. CASE a # y
      <3>1. z = free[a].prev /\ a \in A
        BY <1>7, <1>8, <2>0, <2>2
      <3> QED
        BY <1>2, <1>7, <2>0, <3>1
    <2> QED
      BY <2>1, <2>2
  <1>12. Linked(G, head, B)
    BY <1>0, <1>8, <1>9, <1>10, <1>11 DEF Linked
  <1> QED
    BY <1>3, <1>5, <1>6, <1>7, <1>12

\* No block of the list ends where another one begins.
Unmerged(S, A) == \A b \in A : b + S[b] \notin A

\* The words of the blocks of S at the addresses in A.
WordsOf(S, A) == UNION {b .. b + S[b] - 1 : b \in A}

\* The lowest of the addresses.
Lowest(a, A) == a \in A /\ a \in Nat \ {0} /\ \A c \in A : c \in Nat /\ a <= c

\* The list starts at the lowest of its addresses.
LEMMA LinkedHead ==
    ASSUME NEW f, NEW h, NEW A, Linked(f, h, A), NEW a, Lowest(a, A)
    PROVE  h = a
  <1>0. a \in A /\ a \in Nat \ {0} /\ \A c \in A : c \in Nat /\ a <= c
    BY DEF Lowest
  <1>1. h = 0 \/ (h \in A /\ h > 0)
    BY DEF Linked, Leads, null
  <1>2. h # 0 /\ h <= a
    BY <1>0 DEF Linked, Leads, null
  <1>3. h \in Nat /\ a <= h
    BY <1>0, <1>1, <1>2
  <1> QED
    BY <1>0, <1>2, <1>3

\* The list through A has become one through B, with the block at b.
Relisted(b, size, A, B) ==
    /\ Linked(free', head', B) /\ Unmerged(SizesOf(free'), B)
    /\ WordsOf(SizesOf(free'), B) = WordsOf(SizesOf(free), A) \cup (b .. b + size - 1)
    /\ \A c : c \notin A \cup {b} => (c \in DOMAIN free' <=> c \in DOMAIN free)
    /\ \A c \in A : c < b => c \in B

\* release keeps the list, with no two blocks that could be merged, and adds
\* the words of the block to those in it.
LEMMA ReleaseList ==
    ASSUME IsFiniteSet(DOMAIN free), free \in [DOMAIN free -> Header], ~Corrupt,
           NEW b, NEW size, b \notin DOMAIN free \/ head = null,
           NEW U, NEW V, NEW M, M \subseteq 1 .. SizeMax - 1,
           Sound(SizesOf(free), V, M), Sound(Put(SizesOf(free), b, size), U, M),
           NEW A, Linked(free, head, A), Unmerged(SizesOf(free), A), b \notin A,
           release(b, size),
           NEW B, B = DOMAIN free' \cap (A \cup {b})
    PROVE  Relisted(b, size, A, B)
  <1>0. null = 0
    BY DEF null
  <1>1. PICK S, T, S1 : S = SizesOf(free) /\ T = SizesOf(free') /\ S1 = Put(S, b, size)
    OBVIOUS
  <1>2. DOMAIN S = DOMAIN free /\ DOMAIN T = DOMAIN free' /\ \A c \in DOMAIN free : S[c] = real_size(c)
    BY <1>1 DEF SizesOf, real_size
  <1>3. A \subseteq DOMAIN free
    BY DEF Linked
  <1>4. b \in Nat \ {0} /\ size \in Nat \ {0}
    <2>1. b \in DOMAIN S1 /\ S1[b] = size
      BY <1>1 DEF Put
    <2>2. b \in 1 .. SizeMax /\ size \in 1 .. SizeMax
      BY <1>1, <2>1, BlocksFit
    <2> QED
      BY <2>2, RangeAssumption
  <1>d. DOMAIN free \subseteq Nat \ {0}
    <2>1. \A c \in DOMAIN SizesOf(free) : c \in 1 .. SizeMax
      BY BlocksFit
    <2> QED
      BY <1>1, <1>2, <2>1
  <1>5. \A c \in A : c \in Nat /\ c > 0 /\ c # b /\ S[c] \in Nat /\ S[c] > 0 /\ c \in DOMAIN free
    BY <1>1, <1>2, <1>3, <1>d DEF Sound, Sized
  <1>6. \A c \in A : c + S[c] <= b \/ b + size <= c
    <2> SUFFICES ASSUME NEW c \in A PROVE c + S[c] <= b \/ b + size <= c
      OBVIOUS
    <2>1. c \in DOMAIN S1 \ {b} /\ b \in DOMAIN S1 /\ S1[b] = size /\ S1[c] = S[c]
      BY <1>1, <1>2, <1>5 DEF Put
    <2>2. Apart(b, S1[b], c, S1[c])
      BY <1>1, <2>1 DEF Sound, Separate
    <2> QED
      BY <2>1, <2>2 DEF Apart
  <1>7. \A c, d \in A : c < d => c + S[c] <= d
    <2> SUFFICES ASSUME NEW c \in A, NEW d \in A, c < d PROVE c + S[c] <= d
      OBVIOUS
    <2>1. Apart(c, S[c], d, S[d])
      BY <1>1, <1>2, <1>5 DEF Sound, Separate
    <2> QED
      BY <1>5, <2>1 DEF Apart
  <1>8. PICK prev, curr : \E N, P \in BOOLEAN : Released(b, size, prev, curr, N, P)
    BY ReleaseHeaders
  <1>9. PICK N \in BOOLEAN, P \in BOOLEAN : Released(b, size, prev, curr, N, P)
    BY <1>8
  <1>10. Between(prev, b, curr, A)
    BY <1>9 DEF Released
  <1>11. /\ N = (curr # 0 /\ b + size = curr) /\ P = (prev # 0 /\ prev + real_size(prev) = b)
         /\ head' = IF prev = null THEN b ELSE head
    BY <1>0, <1>9 DEF Released
  <1>12. Relinked(free', prev, b, curr, N, P) /\ Resized(T, size, prev, b, curr, N, P)
    BY <1>1, <1>9 DEF Released, Inserted
  <1>13. /\ prev = 0 \/ (prev \in A /\ prev < b)
         /\ \A c \in A : ~(prev < c /\ c < b)
         /\ curr = 0 \/ (curr \in A /\ curr > b)
         /\ \A c \in A : c > b => curr # 0 /\ curr <= c
    BY <1>0, <1>10 DEF Between, Leads
  <1>14. B = (A \cup {b}) \ ((IF N THEN {curr} ELSE {}) \cup (IF P THEN {b} ELSE {}))
    BY <1>3, <1>12 DEF Relinked
  <1>15. \A c : c \notin A \cup {b} => (c \in DOMAIN free' <=> c \in DOMAIN free)
    BY <1>11, <1>12, <1>13 DEF Relinked
  <1>16. Linked(free', head', B)
    <2>1. PICK G : G = free' /\ Relinked(G, prev, b, curr, N, P)
      BY <1>12
    <2>2. (N => curr # null) /\ (P => prev # null)
      BY <1>0, <1>11
    <2>3. Linked(G, IF prev = null THEN b ELSE head, B)
      BY <1>4, <1>10, <1>14, <1>d, <2>1, <2>2, InsertLinked
    <2> QED
      BY <1>11, <2>1, <2>3
  \* rb is what b has with curr, if they are merged.
  <1>17. PICK rb \in Nat \ {0} :
            /\ rb = IF N THEN size + S[curr] ELSE size
            /\ \A c \in B : T[c] = IF c = b THEN rb ELSE IF P /\ c = prev THEN S[prev] + rb ELSE S[c]
    <2>1. N => curr \in A
      BY <1>11, <1>13
    <2>2. P => prev \in A
      BY <1>11, <1>13
    <2>3. PICK rb : rb = Joined(size, curr, N)
      OBVIOUS
    <2>4. rb = IF N THEN size + S[curr] ELSE size
      BY <1>2, <1>3, <2>1, <2>3 DEF Joined
    <2>5. rb \in Nat \ {0}
      BY <1>4, <1>5, <2>1, <2>4
    <2>6. ASSUME NEW c \in B
          PROVE  T[c] = IF c = b THEN rb ELSE IF P /\ c = prev THEN S[prev] + rb ELSE S[c]
      <3>1. c \in DOMAIN T
        BY <1>2
      <3>2. T[c] = IF c = b THEN rb ELSE IF P /\ c = prev THEN real_size(prev) + rb ELSE real_size(c)
        BY <1>12, <2>3, <3>1 DEF Resized
      <3>3. c # b => c \in DOMAIN free
        BY <1>3
      <3> QED
        BY <1>2, <1>3, <2>2, <3>2, <3>3
    <2> QED
      BY <2>4, <2>5, <2>6
  <1>18. P => prev \in A /\ prev + S[prev] = b
    BY <1>2, <1>3, <1>11, <1>13
  <1>19. N => curr \in A /\ b + size = curr
    BY <1>11, <1>13
  <1>20. \A c : c \in B <=> (c \in A /\ ~(N /\ c = curr)) \/ (c = b /\ ~P)
    BY <1>5, <1>14, <1>19
  \* No block begins where the new one ends.
  <1>21. b + rb \notin A
    <2>1. CASE N
      <3>1. b + rb = curr + S[curr]
        BY <1>4, <1>5, <1>17, <1>19, <2>1
      <3> QED
        BY <1>1, <1>19, <2>1, <3>1 DEF Unmerged
    <2>2. CASE ~N
      <3> SUFFICES ASSUME b + size \in A PROVE FALSE
        BY <1>17, <2>2
      <3>1. curr # 0 /\ curr <= b + size
        BY <1>4, <1>13
      <3>2. curr \in A /\ curr > b /\ curr \in Nat
        BY <1>5, <1>13, <3>1
      <3>3. b + size <= curr
        <4>1. curr + S[curr] <= b \/ b + size <= curr
          BY <1>6, <3>2
        <4>2. S[curr] \in Nat
          BY <1>5, <3>2
        <4> QED
          BY <1>4, <3>2, <4>1, <4>2
      <3>4. b + size = curr
        BY <1>4, <3>1, <3>2, <3>3
      <3> QED
        BY <1>11, <2>2, <3>1, <3>4
    <2> QED
      BY <2>1, <2>2
  <1>22. Unmerged(T, B)
    <2> SUFFICES ASSUME NEW c \in B PROVE c + T[c] \notin B
      BY DEF Unmerged
    <2>1. b + rb # b
      BY <1>4
    <2>2. CASE c = b
      BY <1>17, <1>20, <1>21, <2>1, <2>2
    <2>3. CASE P /\ c = prev /\ c # b
      <3>1. c + T[c] = b + rb
        <4>1. T[c] = S[prev] + rb /\ prev \in Nat /\ S[prev] \in Nat
          BY <1>5, <1>17, <1>18, <2>3
        <4> QED
          BY <1>18, <2>3, <4>1
      <3> QED
        BY <1>20, <1>21, <2>1, <3>1
    <2>4. CASE c # b /\ ~(P /\ c = prev)
      <3>1. c \in A /\ T[c] = S[c] /\ c \in Nat /\ S[c] \in Nat
        BY <1>5, <1>17, <1>20, <2>4
      <3>2. c + S[c] \notin A
        BY <1>1, <3>1 DEF Unmerged
      <3>3. c + S[c] # b
        <4> SUFFICES ASSUME c + S[c] = b PROVE FALSE
          OBVIOUS
        <4>1. c < b /\ S[c] > 0
          BY <1>4, <1>5, <3>1
        <4>2. ~(prev < c)
          BY <1>13, <3>1, <4>1
        <4>3. prev \in A /\ prev \in Nat
          BY <1>5, <1>13, <3>1, <4>2
        <4>4. CASE c = prev
          <5>1. prev # 0 /\ S[prev] = real_size(prev)
            BY <1>2, <1>3, <1>5, <4>3
          <5> QED
            BY <1>11, <2>4, <4>4, <5>1
        <4>5. CASE c < prev
          <5>1. c + S[c] <= prev /\ prev < b
            BY <1>5, <1>7, <1>13, <3>1, <4>3, <4>5
          <5> QED
            BY <1>4, <4>3, <5>1
        <4> QED
          BY <3>1, <4>2, <4>3, <4>4, <4>5
      <3> QED
        BY <1>20, <3>1, <3>2, <3>3
    <2> QED
      BY <2>2, <2>3, <2>4
  \* The words of the new block are those of the block it has become part of.
  <1>23. PICK root \in B : root .. root + T[root] - 1 = (b .. b + rb - 1) \cup
                                 (IF P THEN prev .. prev + S[prev] - 1 ELSE {})
    <2>1. CASE P
      <3>1. prev \in A /\ prev \in Nat /\ S[prev] \in Nat /\ prev + S[prev] = b
        BY <1>5, <1>18, <2>1
      <3>2. prev \in B /\ prev # b
        BY <1>5, <1>13, <1>19, <1>20, <3>1
      <3>3. T[prev] = S[prev] + rb
        BY <1>17, <2>1, <3>2
      <3>4. prev .. prev + T[prev] - 1 = (b .. b + rb - 1) \cup (prev .. prev + S[prev] - 1)
        BY <1>4, <3>1, <3>3
      <3> QED
        BY <2>1, <3>2, <3>4
    <2>2. CASE ~P
      <3>1. b \in B /\ T[b] = rb
        BY <1>17, <1>20, <2>2
      <3> QED
        BY <2>2, <3>1
    <2> QED
      BY <2>1, <2>2
  <1>24. b .. b + rb - 1 = (b .. b + size - 1) \cup (IF N THEN curr .. curr + S[curr] - 1 ELSE {})
    <2>1. CASE N
      <3>1. curr \in Nat /\ S[curr] \in Nat /\ b + size = curr /\ rb = size + S[curr]
        BY <1>5, <1>17, <1>19, <2>1
      <3> QED
        BY <1>4, <2>1, <3>1
    <2>2. CASE ~N
      BY <1>17, <2>2
    <2> QED
      BY <2>1, <2>2
  <1>25. WordsOf(T, B) = WordsOf(S, A) \cup (b .. b + size - 1)
    <2>1. ASSUME NEW w, w \in WordsOf(T, B) PROVE w \in WordsOf(S, A) \cup (b .. b + size - 1)
      <3>1. PICK c \in B : w \in c .. c + T[c] - 1
        BY <2>1 DEF WordsOf
      <3>2. CASE w \in b .. b + rb - 1
        <4>1. N => curr \in A
          BY <1>19
        <4> QED
          BY <1>24, <3>2, <4>1 DEF WordsOf
      <3>3. CASE c = b
        BY <1>17, <3>1, <3>2, <3>3
      <3>4. CASE P /\ c = prev /\ c # b
        <4>1. T[c] = S[prev] + rb /\ prev \in Nat /\ S[prev] \in Nat /\ prev + S[prev] = b /\ prev \in A
          BY <1>5, <1>17, <1>18, <3>4
        <4>2. w \in prev .. prev + S[prev] - 1 \/ w \in b .. b + rb - 1
          BY <1>4, <3>1, <3>4, <4>1
        <4> QED
          BY <3>2, <4>1, <4>2 DEF WordsOf
      <3>5. CASE c # b /\ ~(P /\ c = prev)
        <4>1. c \in A /\ T[c] = S[c]
          BY <1>17, <1>20, <3>5
        <4> QED
          BY <3>1, <4>1 DEF WordsOf
      <3> QED
        BY <3>3, <3>4, <3>5
    <2>2. ASSUME NEW w, w \in b .. b + rb - 1 PROVE w \in WordsOf(T, B)
      BY <1>23, <2>2 DEF WordsOf
    <2>3. ASSUME NEW w, w \in WordsOf(S, A) PROVE w \in WordsOf(T, B)
      <3>1. PICK c \in A : w \in c .. c + S[c] - 1
        BY <2>3 DEF WordsOf
      <3>2. CASE N /\ c = curr
        BY <1>24, <2>2, <3>1, <3>2
      <3>3. CASE P /\ c = prev
        BY <1>23, <3>1, <3>3 DEF WordsOf
      <3>4. CASE ~(N /\ c = curr) /\ ~(P /\ c = prev)
        <4>1. c \in B /\ T[c] = S[c]
          BY <1>5, <1>17, <1>20, <3>4
        <4> QED
          BY <3>1, <4>1 DEF WordsOf
      <3> QED
        BY <3>2, <3>3, <3>4
    <2>4. \A w \in b .. b + size - 1 : w \in b .. b + rb - 1
      BY <1>24
    <2> QED
      BY <2>1, <2>2, <2>3, <2>4
  <1>26. \A c \in A : c < b => c \in B
    BY <1>4, <1>5, <1>19, <1>20
  <1> QED
    BY <1>1, <1>15, <1>16, <1>22, <1>25, <1>26 DEF Relisted

-----------------------------------------------------------------------------
(* The list of the allocator in use. *)

\* The free blocks of the allocator in use.
Managed == DOMAIN free \cap ManagedWords

\* They form a list without neighbours that could be merged.
ListGood == ~stray /\ Linked(free, head, Managed) /\ Unmerged(SizesOf(free), Managed)

\* Both allocators start at the first region, which is never freed as a whole
\* nor merged into a lower block.
Heads ==
    /\ stage # "boot" => vmm_head = Regions[1].base
    /\ stage \notin {"boot", "construct"} /\ ~Corrupt => head = Regions[1].base

\* The words of the blocks, free or in use.
Covered == WordsOf(SizesOf(free), Managed) \cup WordsOf(UsedSizes, DOMAIN used)

\* The words of no block are the lost ones.
Accounted ==
    /\ Covered \subseteq ManagedWords
    /\ stage # "construct" => Cardinality(ManagedWords \ Covered) = lost
    /\ stage \in {"boot", "construct"} => lost = 0

ListInv == (~Corrupt => ListGood) /\ Heads /\ Accounted

\* What destroys the list.
Cause ==
    \/ \E b \in DOMAIN used \ DOMAIN used' : used[b] = 0
    \/ \E b \in DOMAIN free \cap DOMAIN used' :
          b = head \/ ~(free[b].prev \in DOMAIN free /\ free[free[b].prev].next = b)

\* A step keeps the list, or is one that destroys it; the words are accounted
\* for either way.
ListStep == Heads' /\ Accounted' /\ (ListGood' \/ (Corrupt' /\ Cause))

\* The walk meets the blocks of the list and no others, and ends.
LEMMA LinkedWalk ==
    /\ IsFiniteSet(DOMAIN free) /\ DOMAIN free \subseteq Nat \ {0} /\ ~stray
    /\ Linked(free, head, Managed)
    => ~Corrupt /\ ListAddresses = Managed
  <1> SUFFICES ASSUME IsFiniteSet(DOMAIN free), DOMAIN free \subseteq Nat \ {0}, ~stray,
                      Linked(free, head, Managed)
               PROVE  ~Corrupt /\ ListAddresses = Managed
    OBVIOUS
  <1>1. PICK A : A = Managed
    OBVIOUS
  <1>2. /\ A \subseteq Nat \ {0} /\ A \subseteq DOMAIN free /\ Leads(head, 0, A)
        /\ \A b \in A : Leads(free[b].next, b, A)
    BY <1>1 DEF Linked, Managed, null
  <1>3. PICK N \in Nat : N = Cardinality(DOMAIN free)
    BY WalkEquation
  <1>4. PICK w : w = walk /\ w = [n \in 0 .. N |-> WalkStep(w, n)]
    BY <1>3, WalkEquation
  <1>5. DOMAIN w = 0 .. N /\ w[0] = head
    BY <1>4 DEF WalkStep
  <1>6. ASSUME NEW n \in Nat, n + 1 <= N
        PROVE  w[n + 1] = IF w[n] \in DOMAIN free THEN free[w[n]].next ELSE w[n]
    <2>1. n + 1 \in 0 .. N /\ n + 1 # 0 /\ (n + 1) - 1 = n
      BY <1>6
    <2>2. w[n + 1] = WalkStep(w, n + 1)
      BY <1>4, <2>1
    <2> QED
      BY <2>1, <2>2 DEF WalkStep
  \* First blocks of the list, in ascending order, then null.
  <1> DEFINE Up(n) == \/ w[n] = 0
                      \/ /\ w[n] \in A
                         /\ \A i \in 0 .. n - 1 : w[i] \in A /\ w[i] < w[n]
             S == {n \in Nat : n <= N => Up(n)}
  <1>7. 0 \in S
    BY <1>2, <1>5 DEF Leads, null
  <1>8. ASSUME NEW n \in Nat, n \in S PROVE n + 1 \in S
    <2> SUFFICES ASSUME n + 1 <= N PROVE Up(n + 1)
      OBVIOUS
    <2>1. Up(n)
      BY <1>8
    <2>2. CASE w[n] = 0
      BY <1>6, <2>2
    <2>3. CASE w[n] \in A
      <3>1. w[n + 1] = free[w[n]].next
        BY <1>2, <1>6, <2>3
      <3>2. Leads(w[n + 1], w[n], A)
        BY <1>2, <2>3, <3>1
      <3>3. w[n + 1] = 0 \/ (w[n + 1] \in A /\ w[n + 1] > w[n])
        BY <3>2, Zenon DEF Leads, null
      <3>4. \A i \in 0 .. n - 1 : w[i] \in A /\ w[i] < w[n]
        BY <1>2, <2>1, <2>3
      <3>5. ASSUME w[n + 1] \in A, w[n + 1] > w[n], NEW i \in 0 .. n
            PROVE  w[i] \in A /\ w[i] < w[n + 1]
        <4>1. i \in 0 .. n - 1 \/ i = n
          OBVIOUS
        <4>2. w[n] \in Nat /\ w[n + 1] \in Nat /\ (w[i] \in A => w[i] \in Nat)
          BY <1>2, <2>3, <3>5
        <4> QED
          BY <2>3, <3>4, <3>5, <4>1, <4>2
      <3>6. 0 .. (n + 1) - 1 = 0 .. n
        OBVIOUS
      <3> QED
        BY <3>3, <3>5, <3>6
    <2> QED
      BY <2>1, <2>2, <2>3
  <1>9. \A n \in 0 .. N : Up(n)
    <2> HIDE DEF S
    <2>1. Nat \subseteq S
      BY <1>7, <1>8, SetInduction
    <2> QED
      BY <2>1 DEF S
  <1> HIDE DEF S
  \* There are fewer blocks than steps.
  <1>10. w[N] = 0
    <2> SUFFICES ASSUME w[N] # 0 PROVE FALSE
      OBVIOUS
    <2>1. \A n \in 0 .. N : w[n] \in A
      BY <1>9
    <2>2. ASSUME NEW i \in 0 .. N, NEW j \in 0 .. N, i < j PROVE w[i] < w[j]
      <3>1. w[j] \in A /\ w[j] # 0
        BY <1>2, <2>1
      <3>2. i \in 0 .. j - 1
        BY <2>2
      <3> QED
        BY <1>9, <3>1, <3>2
    <2>3. w \in Injection(0 .. N, DOMAIN free)
      <3>1. w \in [0 .. N -> DOMAIN free]
        BY <1>2, <1>4, <2>1
      <3>2. ASSUME NEW i \in 0 .. N, NEW j \in 0 .. N, w[i] = w[j] PROVE i = j
        <4>1. w[i] \in Nat /\ w[j] \in Nat
          BY <1>2, <2>1
        <4> QED
          BY <2>2, <3>2, <4>1
      <3> QED
        BY <3>1, <3>2 DEF Injection, IsInjective
    <2>4. IsFiniteSet(0 .. N) /\ Cardinality(0 .. N) = N + 1
      BY FS_Interval
    <2>5. Cardinality(0 .. N) <= Cardinality(DOMAIN free)
      BY <2>3, <2>4, FS_Injection
    <2> QED
      BY <1>3, <2>4, <2>5
  <1>11. ASSUME NEW a \in A PROVE \E i \in 0 .. N : w[i] = a
    <2> SUFFICES ASSUME \A i \in 0 .. N : w[i] # a PROVE FALSE
      OBVIOUS
    <2> DEFINE T == {n \in Nat : n <= N => w[n] \in A /\ w[n] < a}
    <2>1. 0 \in T
      <3>1. head # 0 /\ head \in A /\ head <= a /\ head # a
        BY <1>2, <1>5 DEF Leads, null
      <3> QED
        BY <1>2, <1>5, <3>1
    <2>2. ASSUME NEW n \in Nat, n \in T PROVE n + 1 \in T
      <3> SUFFICES ASSUME n + 1 <= N PROVE w[n + 1] \in A /\ w[n + 1] < a
        OBVIOUS
      <3>1. w[n] \in A /\ w[n] < a
        BY <2>2
      <3>2. w[n + 1] = free[w[n]].next
        BY <1>2, <1>6, <3>1
      <3>3. Leads(w[n + 1], w[n], A)
        BY <1>2, <3>1, <3>2
      <3>4. w[n + 1] \in A /\ w[n + 1] <= a
        BY <1>2, <3>1, <3>3 DEF Leads, null
      <3>5. w[n + 1] # a
        BY n + 1 \in 0 .. N
      <3>6. w[n + 1] \in Nat /\ a \in Nat
        BY <1>2, <3>4
      <3> QED
        BY <3>4, <3>5, <3>6
    <2> HIDE DEF T
    <2>3. N \in T
      BY <2>1, <2>2, SetInduction
    <2> QED
      BY <1>2, <1>10, <2>3 DEF T
  <1>12. \A n \in 0 .. N : w[n] \in A \cup {0}
    BY <1>9
  <1>13. ~Corrupt
    BY <1>3, <1>4, <1>10 DEF Corrupt, null
  <1>14. ListAddresses = A
    <2>1. ListAddresses = {w[i] : i \in 0 .. N} \ {0}
      BY <1>4, <1>5 DEF ListAddresses, null
    <2>2. 0 \notin A
      BY <1>2
    <2>3. A \subseteq ListAddresses
      BY <1>11, <2>1, <2>2, Zenon
    <2>4. ListAddresses \subseteq A
      BY <1>12, <2>1
    <2> QED
      BY <2>3, <2>4
  <1> QED
    BY <1>1, <1>13, <1>14

\* The free blocks are at addresses behind the start of the first region.
LEMMA FreeAddresses ==
    IInv => /\ Regions[1].base \in Nat \ {0}
            /\ \A c \in DOMAIN free : /\ c \in Nat \ {0} /\ c \in TakenWords /\ Regions[1].base <= c
                                      /\ SizesOf(free)[c] \in Nat \ {0}
            /\ \A c \in DOMAIN used : c \in Nat \ {0} /\ c \in TakenWords /\ Regions[1].base <= c
            /\ \A w \in TakenWords : w \in Nat /\ Regions[1].base <= w
            /\ ManagedWords \subseteq 1 .. SizeMax - 1
            /\ IsFiniteSet(ManagedWords)
  <1> SUFFICES ASSUME IInv
               PROVE  /\ Regions[1].base \in Nat \ {0}
                      /\ \A c \in DOMAIN free :
                            /\ c \in Nat \ {0} /\ c \in TakenWords /\ Regions[1].base <= c
                            /\ SizesOf(free)[c] \in Nat \ {0}
                      /\ \A c \in DOMAIN used : c \in Nat \ {0} /\ c \in TakenWords /\ Regions[1].base <= c
                      /\ \A w \in TakenWords : w \in Nat /\ Regions[1].base <= w
                      /\ ManagedWords \subseteq 1 .. SizeMax - 1
                      /\ IsFiniteSet(ManagedWords)
    OBVIOUS
  <1>0. SizeMax \in Nat /\ used_header = 2
    BY RangeAssumption DEF used_header
  <1>1. added \in 0 .. Len(Regions) /\ Len(Regions) \in Nat /\ 1 \in 1 .. Len(Regions)
    BY RegionAssumption, EmptySeq, LenProperties DEF IInv, Types
  <1>2. PICK a \in 1 .. SizeMax : a = Regions[1].base /\ Regions[1].size \in 1 .. SizeMax
                                  /\ a + Regions[1].size + 2 <= SizeMax
    BY <1>1, RegionFacts
  <1>3. TakenWords \subseteq 1 .. SizeMax - 1
    BY <1>1, GivenInside
  <1>4. ASSUME NEW w \in TakenWords PROVE w \in Nat \ {0} /\ a <= w
    <2>1. PICK i \in 1 .. added : w \in TakenFrom(i)
      BY DEF TakenWords
    <2>2. i \in 1 .. Len(Regions) /\ (i = 1 \/ 1 < i)
      BY <1>1
    <2>3. a <= Regions[i].base
      <3>1. Regions[i].base \in 1 .. SizeMax
        BY <2>2, RegionFacts
      <3>2. 1 < i => a + Regions[1].size + 2 <= Regions[i].base
        BY <1>1, <1>2, <2>2, RegionFacts
      <3> QED
        BY <1>0, <1>2, <2>2, <3>1, <3>2
    <2>4. w >= Regions[i].base /\ Regions[i].base \in Nat /\ w \in Nat \ {0}
      <3>1. Regions[i].base \in 1 .. SizeMax
        BY <2>2, RegionFacts
      <3> QED
        BY <1>0, <1>3, <2>1, <3>1 DEF TakenFrom
    <2> QED
      BY <1>0, <2>3, <2>4
  <1>5. ASSUME NEW c \in DOMAIN free PROVE c \in TakenWords /\ SizesOf(free)[c] \in Nat \ {0}
    <2>1. PICK s : s = SizesOf(free)[c]
      OBVIOUS
    <2>2. c \in Nat /\ s \in Nat \ {0} /\ c .. c + s - 1 \subseteq TakenWords
      BY <2>1 DEF IInv, Sound, Sized, Inside, SizesOf
    <2>3. c \in c .. c + s - 1
      BY <2>2
    <2> QED
      BY <2>1, <2>2, <2>3
  <1>6. ASSUME NEW c \in DOMAIN used PROVE c \in TakenWords
    <2>1. PICK s : s = UsedSizes[c]
      OBVIOUS
    <2>2. c \in Nat /\ s \in Nat \ {0} /\ c .. c + s - 1 \subseteq TakenWords
      BY <2>1 DEF IInv, Sound, Sized, Inside, UsedSizes
    <2>3. c \in c .. c + s - 1
      BY <2>2
    <2> QED
      BY <2>2, <2>3
  <1>7. ManagedWords \subseteq 1 .. SizeMax - 1
    <2>1. TakenFrom(1) \subseteq 1 .. SizeMax - 1
      BY <1>0, <1>2 DEF TakenFrom
    <2> QED
      BY <1>3, <2>1 DEF IInv, Stages, ManagedWords
  <1>8. IsFiniteSet(ManagedWords)
    <2>1. IsFiniteSet(1 .. SizeMax - 1)
      BY <1>0, FS_Interval
    <2> QED
      BY <1>7, <2>1, FS_Subset
  <1> QED
    BY <1>0, <1>2, <1>4, <1>5, <1>6, <1>7, <1>8

\* A walk along a good list meets its blocks and ends.
LEMMA GoodWalk == IInv /\ ListGood => ~Corrupt /\ ListAddresses = Managed
  <1> SUFFICES ASSUME IInv, ListGood PROVE ~Corrupt /\ ListAddresses = Managed
    OBVIOUS
  <1>1. IsFiniteSet(DOMAIN free)
    BY DEF IInv, Types
  <1>2. DOMAIN free \subseteq Nat \ {0}
    BY FreeAddresses
  <1> QED
    BY <1>1, <1>2, LinkedWalk DEF ListGood

\* The next state is not corrupt if its list is good.
LEMMA GoodNext == IInv' /\ ListGood' => ~Corrupt'
  BY GoodWalk, PTL

\* A head that leads to no free block is the end of the list.
LEMMA LostHead == IInv /\ head \notin DOMAIN free \cup {null} => Corrupt
  <1> SUFFICES ASSUME IInv, head \notin DOMAIN free \cup {null}, ~Corrupt PROVE FALSE
    OBVIOUS
  <1>1. IsFiniteSet(DOMAIN free)
    BY DEF IInv, Types
  <1>2. /\ Cardinality(DOMAIN free) \in Nat /\ DOMAIN walk = 0 .. Cardinality(DOMAIN free)
        /\ walk[0] = head /\ \A i \in DOMAIN walk : walk[i] \in DOMAIN free \cup {null}
    BY <1>1, WalkStays
  <1>3. 0 \in DOMAIN walk
    BY <1>2
  <1> QED
    BY <1>2, <1>3

\* The same, of the next state.
LEMMA LostHeadNext == IInv' /\ head' \notin DOMAIN free' \cup {null} => Corrupt'
  <1>1. (IInv /\ head \notin DOMAIN free \cup {null} => Corrupt)'
    BY LostHead, PTL
  <1> QED
    BY <1>1 DEF null

\* Blocks that are the same have the same words.
LEMMA WordsSame ==
    ASSUME NEW S, NEW T, NEW A, \A c \in A : S[c] = T[c]
    PROVE  WordsOf(S, A) = WordsOf(T, A)
  BY DEF WordsOf

\* One block's words, and those of the others.
LEMMA WordsSplit ==
    ASSUME NEW S, NEW A, NEW b \in A
    PROVE  WordsOf(S, A) = WordsOf(S, A \ {b}) \cup (b .. b + S[b] - 1)
  BY DEF WordsOf

\* A list with the same pointers is the same list.
LEMMA LinkedSame ==
    ASSUME NEW f, NEW g, NEW h, NEW A, Linked(f, h, A), A \subseteq DOMAIN g,
           \A c \in A : g[c].next = f[c].next /\ g[c].prev = f[c].prev
    PROVE  Linked(g, h, A)
  BY DEF Linked

\* Words that are taken away from the blocks are no longer accounted for.
LEMMA MoreLost ==
    ASSUME NEW W, IsFiniteSet(W), NEW C, C \subseteq W, NEW X, X \subseteq C,
           NEW b \in Nat, X = b .. b + 2
    PROVE  Cardinality(W \ (C \ X)) = Cardinality(W \ C) + 3
  <1>1. IsFiniteSet(W \ C) /\ IsFiniteSet(X)
    BY FS_Subset
  <1>2. Cardinality(X) = 3
    BY FS_Interval
  <1>3. PICK Y : Y = W \ C
    OBVIOUS
  <1>4. Y \cap X = {} /\ W \ (C \ X) = Y \cup X
    BY <1>3
  <1>5. PICK n \in Nat : n = Cardinality(Y)
    BY <1>1, <1>3, FS_CardinalityType
  <1>6. Cardinality(Y \cup X) = Cardinality(Y) + Cardinality(X) - Cardinality(Y \cap X)
    BY <1>1, <1>3, FS_Union
  <1>7. Cardinality(Y \cap X) = 0
    BY <1>4, FS_EmptySet
  <1>8. Cardinality(Y \cup X) = n + 3
    BY <1>2, <1>5, <1>6, <1>7
  <1> QED
    BY <1>3, <1>4, <1>5, <1>8

\* What the list's invariant says while an allocator is in use.
LEMMA Running ==
    ASSUME IInv, ListInv, ~Corrupt, stage \notin {"boot", "construct"}
    PROVE  /\ ListGood /\ head = Regions[1].base /\ vmm_head = Regions[1].base
           /\ ManagedWords = TakenFrom(1)
           /\ Covered \subseteq TakenFrom(1)
           /\ Cardinality(TakenFrom(1) \ Covered) = lost
           /\ Regions[1].base \in Managed /\ ListAddresses = Managed
           /\ \A c \in DOMAIN free : \A b \in Managed : c < b => c \in Managed
  <1>1. ListGood /\ head = Regions[1].base /\ vmm_head = Regions[1].base
    BY DEF ListInv, Heads
  <1>2. ManagedWords = TakenFrom(1)
    BY DEF IInv, Stages, ManagedWords
  <1>3. Covered \subseteq TakenFrom(1) /\ Cardinality(TakenFrom(1) \ Covered) = lost
    BY <1>2 DEF ListInv, Accounted
  <1>4. Regions[1].base \in Managed
    <2>1. Regions[1].base # 0
      BY FreeAddresses
    <2> QED
      BY <1>1, <2>1 DEF ListGood, Linked, Leads, null
  <1>5. ListAddresses = Managed
    BY <1>1, GoodWalk
  <1>6. ASSUME NEW c \in DOMAIN free, NEW b \in Managed, c < b PROVE c \in Managed
    <2>1. PICK a, e : a = Regions[1].base /\ e = Regions[1].base + Regions[1].size + used_header - 1
      OBVIOUS
    <2>2. a \in Nat /\ c \in Nat /\ a <= c
      BY <2>1, FreeAddresses
    <2>3. e \in Int
      <3>1. 1 \in 1 .. Len(Regions)
        BY RegionAssumption, EmptySeq, LenProperties
      <3>2. Regions[1].base \in 1 .. SizeMax /\ Regions[1].size \in 1 .. SizeMax
        BY <3>1, RegionFacts
      <3> QED
        BY <2>1, <3>2, RangeAssumption DEF used_header
    <2>4. b \in a .. e
      BY <1>2, <2>1 DEF Managed, TakenFrom
    <2>5. c \in a .. e
      BY <1>6, <2>2, <2>3, <2>4
    <2> QED
      BY <1>2, <2>1, <2>5 DEF Managed, TakenFrom
  <1> QED
    BY <1>1, <1>2, <1>3, <1>4, <1>5, <1>6

\* An exact fit: the block leaves the list, which survives if the block is not the
\* first one and its prev pointer leads to a header; three words are lost.
LEMMA TakeList ==
    ASSUME IInv, ListInv, IInv', ~Corrupt, stage \notin {"boot", "construct"},
           stage' \notin {"boot", "construct"}, UNCHANGED <<added, vmm_head>>,
           NEW b, NEW request, Taken(b, request)
    PROVE  ListStep
  <1>0. null = 0 /\ free_header = 3
    BY DEF null, free_header
  <1>1. /\ ListGood /\ head = Regions[1].base /\ vmm_head = Regions[1].base
        /\ ManagedWords = TakenFrom(1) /\ Covered \subseteq TakenFrom(1)
        /\ Cardinality(TakenFrom(1) \ Covered) = lost
        /\ Regions[1].base \in Managed /\ ListAddresses = Managed
        /\ \A c \in DOMAIN free : \A d \in Managed : c < d => c \in Managed
    BY Running
  <1>2. ManagedWords' = TakenFrom(1)
    <2>1. TakenFrom(1)' = TakenFrom(1)
      BY DEF TakenFrom
    <2> QED
      BY <2>1 DEF IInv, Stages, ManagedWords
  <1>3. PICK A, S, U : A = Managed /\ S = SizesOf(free) /\ U = UsedSizes
    OBVIOUS
  <1>4. PICK q \in Nat \ {0} : q = request + 2 /\ S[b] = q + 3 /\ request \in Nat
    BY <1>3 DEF Taken
  <1>5. /\ b \in DOMAIN free /\ b \in A /\ DOMAIN free' = DOMAIN free \ {b}
        /\ SizesOf(free') = Drop(S, b) /\ UsedSizes' = Put(U, b, q) /\ used' = Put(used, b, request)
    BY <1>1, <1>3, <1>4 DEF Taken
  <1>6. reserve_entire(b, request)
    BY DEF Taken
  <1>7. Managed' = A \ {b}
    BY <1>1, <1>2, <1>3, <1>5 DEF Managed
  <1>8. free \in [DOMAIN free -> Header] /\ DOMAIN free \subseteq Nat \ {0}
    BY FreeAddresses DEF IInv, Types
  <1>9. Linked(free, head, A) /\ Unmerged(S, A)
    BY <1>1, <1>3 DEF ListGood
  <1>10. Unmerged(SizesOf(free'), A \ {b})
    <2>1. \A c \in A \ {b} : Drop(S, b)[c] = S[c]
      BY <1>3, <1>9 DEF Drop, SizesOf, Linked
    <2> QED
      BY <1>5, <1>9, <2>1 DEF Unmerged
  <1>11. ASSUME b = head PROVE Corrupt' /\ Cause
    <2>1. head' = -1
      BY <1>6, <1>11 DEF reserve_entire, magic
    <2>2. -1 \notin DOMAIN free' \cup {null}
      BY <1>0, <1>5, <1>8
    <2>3. Corrupt'
      BY <2>1, <2>2, LostHeadNext
    <2>4. b \in DOMAIN free \cap DOMAIN used'
      BY <1>5 DEF Put
    <2>5. Cause
      BY <1>11, <2>4 DEF Cause
    <2> QED
      BY <2>3, <2>5
  <1>12. ASSUME b # head PROVE head' = head /\ (ListGood' \/ (Corrupt' /\ Cause))
    <2>1. head' = head /\ free' = unlink(b) /\ stray' = (free[b].prev # null /\ free[b].prev \notin DOMAIN free)
      BY <1>6, <1>12 DEF reserve_entire
    <2>2. free[b].prev \in Int /\ free[b].prev < b
      BY <1>5, <1>8, <1>9 DEF Linked, Header
    <2>3. free[b].prev # 0
      <3> SUFFICES ASSUME free[b].prev = 0 PROVE FALSE
        OBVIOUS
      <3>1. \A c \in A : ~(0 < c /\ c < b)
        BY <1>5, <1>9 DEF Linked
      <3>2. ASSUME NEW c \in A PROVE c \in Nat /\ b <= c
        <4>1. c \in Nat \ {0} /\ b \in Nat
          BY <1>3, <1>5, <1>8 DEF Managed
        <4> QED
          BY <3>1, <4>1
      <3>3. b \in Nat \ {0}
        BY <1>5, <1>8
      <3>4. Lowest(b, A)
        BY <1>5, <3>2, <3>3 DEF Lowest
      <3>5. Linked(free, head, A)
        BY <1>9
      <3>6. head = b
        BY <3>4, <3>5, LinkedHead
      <3> QED
        BY <1>12, <3>6
    <2>4. CASE free[b].prev \notin DOMAIN free
      <3>1. stray'
        BY <1>0, <2>1, <2>3, <2>4
      <3>2. Corrupt'
        BY <3>1 DEF Corrupt
      <3>3. b \in DOMAIN free \cap DOMAIN used'
        BY <1>5 DEF Put
      <3>4. Cause
        BY <2>4, <3>3 DEF Cause
      <3> QED
        BY <2>1, <3>2, <3>4
    <2>5. CASE free[b].prev \in DOMAIN free
      <3>1. free[b].prev \in A
        BY <1>1, <1>3, <1>5, <2>2, <2>5
      <3>2. PICK G : G = unlink(b) /\ G = free'
        BY <2>1
      <3>3. Linked(G, head, A \ {b})
        BY <1>5, <1>8, <1>9, <3>1, <3>2, UnlinkLinked
      <3>4. ~stray'
        BY <2>1, <2>5
      <3>5. ListGood'
        BY <1>7, <1>10, <2>1, <3>2, <3>3, <3>4 DEF ListGood
      <3> QED
        BY <2>1, <3>5
    <2> QED
      BY <2>4, <2>5
  <1>13. Heads'
    <2>1. b # head => head' = Regions[1].base
      BY <1>1, <1>12
    <2>2. b = head => Corrupt'
      BY <1>11
    <2> QED
      BY <1>1, <2>1, <2>2 DEF Heads
  <1>14. Accounted'
    <2>1. PICK D, I, X, R : /\ D = DOMAIN used /\ I = b .. b + q + 2 /\ X = b + q .. b + q + 2
                            /\ R = WordsOf(S, A \ {b}) \cup WordsOf(U, D)
      OBVIOUS
    <2>2. b \in Nat /\ DOMAIN U = D /\ b \notin D /\ DOMAIN S = DOMAIN free /\ A \subseteq DOMAIN S
      <3>1. DOMAIN U = D /\ DOMAIN S = DOMAIN free
        BY <1>3, <2>1 DEF UsedSizes, SizesOf
      <3>2. b \in DOMAIN S /\ q <= S[b] /\ Sound(S, U, TakenWords)
        BY <1>3, <1>4, <1>5, <3>1 DEF IInv
      <3>3. b \notin DOMAIN U
        BY <3>2, SoundTake
      <3> QED
        BY <1>3, <1>5, <1>8, <3>1, <3>3 DEF Managed
    <2>3. Covered = R \cup I
      <3>1. WordsOf(S, A) = WordsOf(S, A \ {b}) \cup (b .. b + S[b] - 1)
        BY <1>5, WordsSplit
      <3>2. b + S[b] - 1 = b + q + 2
        BY <1>4, <2>2
      <3>3. Covered = WordsOf(S, A) \cup WordsOf(U, D)
        BY <1>3, <2>1 DEF Covered
      <3> QED
        BY <2>1, <3>1, <3>2, <3>3
    <2>4. Covered' = R \cup (b .. b + q - 1)
      <3>1. PICK T, V : T = SizesOf(free') /\ V = UsedSizes' /\ T = Drop(S, b) /\ V = Put(U, b, q)
        BY <1>5
      <3>2. Covered' = WordsOf(T, A \ {b}) \cup WordsOf(V, D \cup {b})
        <4>1. DOMAIN used' = D \cup {b}
          BY <1>5, <2>1 DEF Put
        <4> QED
          BY <1>7, <3>1, <4>1 DEF Covered
      <3>3. WordsOf(T, A \ {b}) = WordsOf(S, A \ {b})
        <4>1. \A c \in A \ {b} : T[c] = S[c]
          BY <2>2, <3>1 DEF Drop
        <4> QED
          BY <4>1, WordsSame
      <3>4. WordsOf(V, D \cup {b}) = WordsOf(V, (D \cup {b}) \ {b}) \cup (b .. b + V[b] - 1)
        BY WordsSplit
      <3>5. V[b] = q /\ (D \cup {b}) \ {b} = D
        BY <2>2, <3>1 DEF Put
      <3>6. WordsOf(V, D) = WordsOf(U, D)
        <4>1. \A c \in D : V[c] = U[c]
          BY <2>2, <3>1 DEF Put
        <4> QED
          BY <4>1, WordsSame
      <3> QED
        BY <2>1, <3>2, <3>3, <3>4, <3>5, <3>6
    <2>5. R \cap I = {}
      <3> SUFFICES ASSUME NEW w \in I, w \in R PROVE FALSE
        OBVIOUS
      <3>1. Sized(S) /\ Sized(U) /\ Separate(S) /\ Across(S, U)
        BY <1>3 DEF IInv, Sound
      <3>2. CASE w \in WordsOf(S, A \ {b})
        <4>1. PICK c \in A \ {b} : w \in c .. c + S[c] - 1
          BY <3>2 DEF WordsOf
        <4>2. Apart(b, S[b], c, S[c]) /\ c \in Nat /\ S[c] \in Nat
          BY <1>5, <2>2, <3>1 DEF Separate, Sized
        <4> QED
          BY <1>4, <2>1, <2>2, <4>1, <4>2 DEF Apart
      <3>3. CASE w \in WordsOf(U, D)
        <4>1. PICK c \in D : w \in c .. c + U[c] - 1
          BY <3>3 DEF WordsOf
        <4>2. Apart(b, S[b], c, U[c]) /\ c \in Nat /\ U[c] \in Nat
          BY <1>5, <2>2, <3>1 DEF Across, Sized
        <4> QED
          BY <1>4, <2>1, <2>2, <4>1, <4>2 DEF Apart
      <3> QED
        BY <2>1, <3>2, <3>3
    <2>6. PICK C : C = Covered
      OBVIOUS
    <2>7. Covered' = C \ X /\ X \subseteq C
      <3>1. I = (b .. b + q - 1) \cup X /\ (b .. b + q - 1) \cap X = {} /\ X \subseteq I
        BY <2>1, <2>2
      <3> QED
        BY <2>3, <2>4, <2>5, <2>6, <3>1
    <2>8. PICK W : W = TakenFrom(1) /\ IsFiniteSet(W) /\ C \subseteq W /\ Cardinality(W \ C) = lost
      BY <1>1, <2>6, FreeAddresses
    <2>9. Cardinality(W \ (C \ X)) = Cardinality(W \ C) + 3
      <3>1. PICK x \in Nat : x = b + q
        BY <2>2
      <3>2. X = x .. x + 2
        BY <2>1, <3>1
      <3> QED
        BY <2>7, <2>8, <3>2, MoreLost
    <2>10. lost' = lost + 3
      BY <1>0, <1>6 DEF reserve_entire
    <2> QED
      BY <1>2, <2>7, <2>8, <2>9, <2>10 DEF Accounted
  <1> QED
    BY <1>11, <1>12, <1>13, <1>14 DEF ListStep

\* A block carved from the end of a free one leaves the list as it is.
LEMMA CarveList ==
    ASSUME IInv, ListInv, IInv', ~Corrupt, stage \notin {"boot", "construct"},
           stage' \notin {"boot", "construct"}, UNCHANGED <<added, vmm_head>>,
           NEW b, NEW r, NEW request, Carved(b, r, request)
    PROVE  ListStep
  <1>1. /\ ListGood /\ head = Regions[1].base /\ vmm_head = Regions[1].base
        /\ ManagedWords = TakenFrom(1) /\ Covered \subseteq TakenFrom(1)
        /\ Cardinality(TakenFrom(1) \ Covered) = lost /\ ListAddresses = Managed
    BY Running
  <1>2. ManagedWords' = TakenFrom(1)
    <2>1. TakenFrom(1)' = TakenFrom(1)
      BY DEF TakenFrom
    <2> QED
      BY <2>1 DEF IInv, Stages, ManagedWords
  <1>3. PICK A, S, U, D : A = Managed /\ S = SizesOf(free) /\ U = UsedSizes /\ D = DOMAIN used
    OBVIOUS
  <1>4. PICK q \in Nat \ {0} : q = request + 2 /\ S[b] = r + q /\ r \in Nat \ {0}
    BY <1>3 DEF Carved
  <1>5. /\ b \in DOMAIN free /\ b \in A /\ DOMAIN free' = DOMAIN free /\ used' = Put(used, b + r, request)
        /\ SizesOf(free') = Put(S, b, r) /\ UsedSizes' = Put(U, b + r, q)
        /\ \A c \in DOMAIN free : free'[c].next = free[c].next /\ free'[c].prev = free[c].prev
        /\ UNCHANGED <<head, lost, stray>>
    BY <1>1, <1>3, <1>4 DEF Carved
  <1>6. Managed' = A
    BY <1>1, <1>2, <1>3, <1>5 DEF Managed
  <1>7. /\ Linked(free, head, A) /\ Unmerged(S, A) /\ ~stray
        /\ DOMAIN S = DOMAIN free /\ A \subseteq DOMAIN S /\ DOMAIN U = D
    BY <1>1, <1>3 DEF ListGood, Managed, SizesOf, UsedSizes
  <1>8. Sound(S, U, TakenWords) /\ Sized(S) /\ Separate(S) /\ b \in DOMAIN S
    BY <1>3, <1>5, <1>7 DEF IInv, Sound
  <1>9. b \in Nat /\ b + r \notin D
    <2>1. b + r \notin DOMAIN U
      BY <1>4, <1>8, SoundCarve
    <2> QED
      BY <1>7, <1>8, <2>1 DEF Sized
  <1>10. ListGood'
    <2>1. PICK G : G = free' /\ A \subseteq DOMAIN G
                   /\ \A c \in A : G[c].next = free[c].next /\ G[c].prev = free[c].prev
      BY <1>5, <1>7
    <2>2. Linked(G, head, A)
      BY <1>7, <2>1, LinkedSame
    <2>3. b + r \notin A
      <3> SUFFICES ASSUME b + r \in A PROVE FALSE
        OBVIOUS
      <3>1. b + r \in DOMAIN S \ {b} /\ b + r \in Nat
        BY <1>4, <1>7, <1>9
      <3>2. Apart(b, S[b], b + r, S[b + r]) /\ S[b + r] \in Nat \ {0}
        BY <1>8, <3>1 DEF Separate, Sized
      <3> QED
        BY <1>4, <1>9, <3>1, <3>2 DEF Apart
    <2>4. Unmerged(Put(S, b, r), A)
      <3> SUFFICES ASSUME NEW c \in A PROVE c + Put(S, b, r)[c] \notin A
        BY DEF Unmerged
      <3>1. Put(S, b, r)[c] = IF c = b THEN r ELSE S[c]
        BY <1>7 DEF Put
      <3> QED
        BY <1>7, <2>3, <3>1 DEF Unmerged
    <2> QED
      BY <1>5, <1>6, <1>7, <2>1, <2>2, <2>4 DEF ListGood
  <1>11. Covered' = Covered
    <2>1. PICK T, V : T = SizesOf(free') /\ V = UsedSizes' /\ T = Put(S, b, r) /\ V = Put(U, b + r, q)
      BY <1>5
    <2>2. Covered' = WordsOf(T, A) \cup WordsOf(V, D \cup {b + r})
      <3>1. DOMAIN used' = D \cup {b + r}
        BY <1>3, <1>5 DEF Put
      <3> QED
        BY <1>6, <2>1, <3>1 DEF Covered
    <2>3. Covered = WordsOf(S, A) \cup WordsOf(U, D)
      BY <1>3 DEF Covered
    <2>4. WordsOf(T, A) = WordsOf(T, A \ {b}) \cup (b .. b + T[b] - 1)
          /\ WordsOf(S, A) = WordsOf(S, A \ {b}) \cup (b .. b + S[b] - 1)
      BY <1>5, WordsSplit
    <2>5. WordsOf(T, A \ {b}) = WordsOf(S, A \ {b})
      <3>1. \A c \in A \ {b} : T[c] = S[c]
        BY <1>7, <2>1 DEF Put
      <3> QED
        BY <3>1, WordsSame
    <2>6. PICK a \in Nat : a = b + r
      BY <1>4, <1>9
    <2>7. WordsOf(V, D \cup {a}) = WordsOf(V, (D \cup {a}) \ {a}) \cup (a .. a + V[a] - 1)
      BY WordsSplit
    <2>8. V[a] = q /\ (D \cup {a}) \ {a} = D /\ T[b] = r
      BY <1>8, <1>9, <2>1, <2>6 DEF Put
    <2>9. WordsOf(V, D) = WordsOf(U, D)
      <3>1. \A c \in D : V[c] = U[c]
        BY <1>7, <1>9, <2>1 DEF Put
      <3> QED
        BY <3>1, WordsSame
    <2>10. b .. b + S[b] - 1 = (b .. b + r - 1) \cup (a .. a + q - 1)
      BY <1>4, <1>9, <2>6
    <2>11. PICK X, Y : X = WordsOf(S, A \ {b}) /\ Y = WordsOf(U, D)
      OBVIOUS
    <2>12. Covered' = (X \cup (b .. b + r - 1)) \cup (Y \cup (a .. a + q - 1))
      <3>1. Covered' = WordsOf(T, A) \cup WordsOf(V, D \cup {a})
        BY <2>2, <2>6
      <3>2. WordsOf(T, A) = X \cup (b .. b + r - 1)
        BY <2>4, <2>5, <2>8, <2>11
      <3>3. WordsOf(V, D \cup {a}) = Y \cup (a .. a + q - 1)
        BY <2>7, <2>8, <2>9, <2>11
      <3> QED
        BY <3>1, <3>2, <3>3
    <2>13. Covered = (X \cup (b .. b + S[b] - 1)) \cup Y
      BY <2>3, <2>4, <2>11
    <2> QED
      BY <2>10, <2>12, <2>13
  <1>12. Heads' /\ Accounted'
    BY <1>1, <1>2, <1>5, <1>11 DEF Heads, Accounted
  <1> QED
    BY <1>10, <1>12 DEF ListStep

\* vmalloc and the test's allocations.
LEMMA AllocateList ==
    ASSUME IInv, ListInv, IInv', ~Corrupt, stage \notin {"boot", "construct"},
           stage' \notin {"boot", "construct"}, UNCHANGED <<added, vmm_head>>,
           NEW request \in HeapSizes, allocate(request)
    PROVE  ListStep
  <1>1. CASE UNCHANGED <<head, free, used, lost, stray>>
    <2>1. /\ ListGood /\ head = Regions[1].base /\ vmm_head = Regions[1].base
          /\ ManagedWords = TakenFrom(1) /\ Covered \subseteq TakenFrom(1)
          /\ Cardinality(TakenFrom(1) \ Covered) = lost
      BY Running
    <2>2. ManagedWords' = ManagedWords /\ ManagedWords' = TakenFrom(1)
      <3>1. TakenFrom(1)' = TakenFrom(1)
        BY DEF TakenFrom
      <3> QED
        BY <2>1, <3>1 DEF IInv, Stages, ManagedWords
    <2>3. UNCHANGED <<SizesOf(free), UsedSizes>>
      BY <1>1 DEF SizesOf, UsedSizes
    <2>4. Managed' = Managed
      BY <1>1, <2>2 DEF Managed
    <2>5. Covered' = Covered
      BY <1>1, <2>3, <2>4 DEF Covered
    <2>6. ListGood'
      BY <1>1, <2>1, <2>3, <2>4 DEF ListGood
    <2>7. Heads' /\ Accounted'
      BY <1>1, <2>1, <2>2, <2>5 DEF Heads, Accounted
    <2> QED
      BY <2>6, <2>7 DEF ListStep
  <1>2. ASSUME NEW b, Taken(b, request) PROVE ListStep
    BY <1>2, TakeList
  <1>3. ASSUME NEW b, NEW r, Carved(b, r, request) PROVE ListStep
    BY <1>3, CarveList
  <1>4. Types /\ Sound(SizesOf(free), UsedSizes, TakenWords) /\ Unwrapped
    BY DEF IInv
  <1> QED
    BY <1>1, <1>2, <1>3, <1>4, AllocateCases

\* vfree and the test's deallocations: the list is kept, unless the block has no
\* words and its header is too small for the pointers.
LEMMA DeallocateList ==
    ASSUME IInv, ListInv, IInv', ~Corrupt, stage \notin {"boot", "construct"},
           stage' \notin {"boot", "construct"}, UNCHANGED <<added, vmm_head>>,
           NEW b \in DOMAIN used, deallocate(b)
    PROVE  ListStep
  <1>0. free_header = 3 /\ used_header = 2
    BY DEF free_header, used_header
  <1>1. /\ ListGood /\ head = Regions[1].base /\ vmm_head = Regions[1].base
        /\ ManagedWords = TakenFrom(1) /\ Covered \subseteq TakenFrom(1)
        /\ Cardinality(TakenFrom(1) \ Covered) = lost
        /\ Regions[1].base \in Managed
    BY Running
  <1>2. ManagedWords' = TakenFrom(1)
    <2>1. TakenFrom(1)' = TakenFrom(1)
      BY DEF TakenFrom
    <2> QED
      BY <2>1 DEF IInv, Stages, ManagedWords
  <1>3. PICK A, S, U, D : A = Managed /\ S = SizesOf(free) /\ U = UsedSizes /\ D = DOMAIN used
    OBVIOUS
  <1>4. /\ IsFiniteSet(DOMAIN free) /\ free \in [DOMAIN free -> Header] /\ DOMAIN U = D
        /\ DOMAIN S = DOMAIN free /\ A \subseteq DOMAIN free
    BY <1>3 DEF IInv, Types, UsedSizes, Managed, SizesOf
  <1>5. PICK M : M = TakenWords /\ M \subseteq 1 .. SizeMax - 1
    BY GivenInside DEF IInv, Types
  <1>6. Sound(S, U, M)
    BY <1>3, <1>5 DEF IInv
  <1>7. b \in Nat \ {0} /\ Regions[1].base <= b /\ used[b] \in Nat /\ Regions[1].base \in Nat
    BY FreeAddresses, UsedBlock
  <1>8. PICK size \in Nat \ {0} : size = U[b] /\ size = used[b] + 2
    BY <1>0, <1>3, <1>7 DEF UsedSizes
  <1>9. Sound(Put(S, b, size), Drop(U, b), M) /\ b \notin DOMAIN S
    BY <1>3, <1>4, <1>6, <1>8, SoundFree
  <1>10. /\ release(b, size) /\ used' = Drop(used, b) /\ UNCHANGED lost
         /\ stray' = (size < 3)
    BY <1>0, <1>8 DEF deallocate, Restrict, Drop, release
  <1>11. UsedSizes' = Drop(U, b) /\ DOMAIN used' = D \ {b}
    BY <1>3, <1>10 DEF UsedSizes, Drop
  <1>12. PICK B : B = DOMAIN free' \cap (A \cup {b})
    OBVIOUS
  <1>13. /\ Linked(free', head', B) /\ Unmerged(SizesOf(free'), B)
         /\ WordsOf(SizesOf(free'), B) = WordsOf(S, A) \cup (b .. b + size - 1)
         /\ \A c : c \notin A \cup {b} => (c \in DOMAIN free' <=> c \in DOMAIN free)
         /\ \A c \in A : c < b => c \in B
    <2>1. Sound(SizesOf(free), U, M) /\ Sound(Put(SizesOf(free), b, size), Drop(U, b), M)
      BY <1>3, <1>6, <1>9
    <2>2. Linked(free, head, A) /\ Unmerged(SizesOf(free), A) /\ b \notin A /\ b \notin DOMAIN free
      BY <1>1, <1>3, <1>4, <1>9 DEF ListGood
    <2>3. M \subseteq 1 .. SizeMax - 1 /\ release(b, size)
      BY <1>5, <1>10
    <2>4. Relisted(b, size, A, B)
      BY <1>4, <1>12, <2>1, <2>2, <2>3, ReleaseList
    <2> QED
      BY <1>3, <2>4 DEF Relisted
  <1>14. b .. b + size - 1 \subseteq TakenFrom(1) /\ b \in TakenFrom(1)
    <2>1. b .. b + size - 1 \subseteq WordsOf(UsedSizes, DOMAIN used)
      BY <1>3, <1>8 DEF WordsOf
    <2>2. b \in b .. b + size - 1
      BY <1>7
    <2> QED
      BY <1>1, <2>1, <2>2 DEF Covered
  <1>15. Managed' = B
    BY <1>1, <1>2, <1>3, <1>12, <1>13, <1>14 DEF Managed
  <1>16. Covered' = Covered
    <2>1. Covered' = (WordsOf(S, A) \cup (b .. b + size - 1)) \cup WordsOf(Drop(U, b), D \ {b})
      BY <1>11, <1>13, <1>15 DEF Covered
    <2>2. WordsOf(Drop(U, b), D \ {b}) = WordsOf(U, D \ {b})
      <3>1. PICK V : V = Drop(U, b)
        OBVIOUS
      <3>2. \A c \in D \ {b} : V[c] = U[c]
        BY <1>4, <3>1 DEF Drop
      <3>3. WordsOf(V, D \ {b}) = WordsOf(U, D \ {b})
        BY <3>2, WordsSame
      <3> QED
        BY <3>1, <3>3
    <2>3. WordsOf(U, D) = WordsOf(U, D \ {b}) \cup (b .. b + U[b] - 1)
      BY <1>3, WordsSplit
    <2>4. Covered = WordsOf(S, A) \cup WordsOf(U, D)
      BY <1>3 DEF Covered
    <2> QED
      BY <1>8, <2>1, <2>2, <2>3, <2>4
  <1>17. head' = Regions[1].base
    <2>1. PICK a \in Nat \ {0} : a = Regions[1].base
      BY FreeAddresses
    <2>2. a \in A /\ a # b /\ a < b
      <3>1. a # b
        BY <1>1, <1>4, <1>3, <1>9, <2>1
      <3> QED
        BY <1>1, <1>3, <1>7, <2>1, <3>1
    <2>3. a \in B
      BY <1>13, <2>2
    <2>4. \A c \in B : c \in Nat /\ a <= c
      BY <1>4, <1>7, <1>12, <2>1, FreeAddresses
    <2>5. Linked(free', head', B)
      BY <1>13
    <2>6. Lowest(a, B)
      BY <2>1, <2>3, <2>4 DEF Lowest
    <2>7. head' = a
      BY <2>5, <2>6, LinkedHead
    <2> QED
      BY <2>1, <2>7
  <1>18. Heads' /\ Accounted'
    BY <1>1, <1>2, <1>10, <1>16, <1>17 DEF Heads, Accounted
  <1>19. CASE size < 3
    <2>1. Corrupt'
      BY <1>10, <1>19 DEF Corrupt
    <2>2. used[b] = 0 /\ b \in DOMAIN used \ DOMAIN used'
      BY <1>3, <1>7, <1>8, <1>11, <1>19
    <2>3. Cause
      BY <2>2 DEF Cause
    <2> QED
      BY <1>18, <2>1, <2>3 DEF ListStep
  <1>20. CASE ~(size < 3)
    <2>1. ListGood'
      BY <1>10, <1>13, <1>15, <1>20 DEF ListGood
    <2> QED
      BY <1>18, <2>1 DEF ListStep
  <1> QED
    BY <1>19, <1>20

\* vmm_init: the region is the last block of the list, or part of it.
LEMMA RegionList ==
    ASSUME IInv, ListInv, IInv', vmm_init
    PROVE  ListStep
  <1>0. free_header = 3
    BY DEF free_header
  <1>1. /\ ~Corrupt /\ stage = "boot" /\ stage' = "boot" /\ UNCHANGED <<used, lost>>
        /\ added < Len(Regions)
    BY DEF vmm_init, Ready, add_memory, testVars
  <1>2. PICK b \in 1 .. SizeMax, size \in 1 .. SizeMax : NewRegion(b, size)
    BY RegionNext
  <1>3. ManagedWords = TakenWords /\ ManagedWords' = TakenWords'
    BY <1>1 DEF ManagedWords
  <1>4. PICK A, S, U, M, N : A = Managed /\ S = SizesOf(free) /\ U = UsedSizes
                             /\ M = TakenWords /\ N = TakenWords'
    OBVIOUS
  <1>5. A = DOMAIN free
    BY <1>3, <1>4, FreeAddresses DEF Managed
  <1>6. IsFiniteSet(DOMAIN free) /\ free \in [DOMAIN free -> Header]
    BY DEF IInv, Types
  <1>7. ListGood /\ Linked(free, head, A) /\ Unmerged(SizesOf(free), A)
    BY <1>1, <1>4 DEF ListInv, ListGood
  <1>8. /\ N \subseteq 1 .. SizeMax - 1 /\ release(b, size) /\ b \notin A /\ b \notin DOMAIN free
        /\ N = M \cup (b .. b + size - 1) /\ \A w \in M : w < b
    BY <1>2, <1>4, <1>5 DEF NewRegion
  <1>9. Sound(SizesOf(free), U, N) /\ Sound(Put(SizesOf(free), b, size), U, N)
    BY <1>2, <1>4 DEF NewRegion
  <1>10. PICK B : B = DOMAIN free' \cap (A \cup {b})
    OBVIOUS
  <1>11. Relisted(b, size, A, B)
    BY <1>1, <1>6, <1>7, <1>8, <1>9, <1>10, ReleaseList
  <1>12. Managed' = B
    <2>1. DOMAIN free' \subseteq A \cup {b}
      BY <1>5, <1>11 DEF Relisted
    <2>2. b \in N /\ A \subseteq M
      <3>1. b \in b .. b + size - 1
        BY <1>8, RangeAssumption
      <3> QED
        BY <1>4, <1>5, <1>8, <3>1, FreeAddresses
    <2> QED
      BY <1>3, <1>4, <1>8, <1>10, <2>1, <2>2 DEF Managed
  <1>13. ~stray'
    <2>1. size >= 3 /\ size \in Nat
      <3>1. added + 1 \in 1 .. Len(Regions) /\ size = Regions[added + 1].size + 2
        <4>1. added \in 0 .. Len(Regions) /\ Len(Regions) \in Nat
          BY RegionAssumption, LenProperties DEF IInv, Types
        <4> QED
          BY <1>1, <1>2, <4>1 DEF NewRegion
      <3>2. Regions[added + 1].size \in 1 .. SizeMax
        BY <3>1, RegionFacts
      <3> QED
        BY <3>1, <3>2, RangeAssumption
    <2>2. release(b, size)
      BY <1>8
    <2>3. stray' = (size < 3)
      BY <1>0, <2>2, Zenon DEF release
    <2>4. ~(size < 3)
      BY <2>1
    <2> QED
      BY <2>3, <2>4
  <1>14. ListGood'
    BY <1>11, <1>12, <1>13 DEF ListGood, Relisted
  <1>15. DOMAIN used = {} /\ DOMAIN used' = {}
    BY <1>1 DEF IInv, Stages
  <1>16. PICK C : C = WordsOf(S, A)
    OBVIOUS
  <1>17. Covered = C /\ Covered' = C \cup (b .. b + size - 1)
    <2>1. \A T : WordsOf(T, {}) = {}
      BY DEF WordsOf
    <2> QED
      BY <1>4, <1>11, <1>12, <1>15, <1>16, <2>1 DEF Covered, Relisted
  <1>18. C \subseteq M /\ Cardinality(M \ C) = lost /\ lost = 0
    BY <1>1, <1>3, <1>4, <1>17 DEF ListInv, Accounted
  <1>19. N \ (C \cup (b .. b + size - 1)) = M \ C
    <2>1. M \cap (b .. b + size - 1) = {}
      <3>1. \A w \in M : w \in Nat
        BY <1>4, FreeAddresses
      <3> QED
        BY <1>8, <3>1, RangeAssumption
    <2> QED
      BY <1>8, <2>1
  <1>20. Accounted'
    BY <1>1, <1>3, <1>4, <1>8, <1>17, <1>18, <1>19 DEF Accounted
  <1>21. Heads'
    BY <1>1 DEF Heads
  <1> QED
    BY <1>14, <1>20, <1>21 DEF ListStep

\* The allocator that test_allocator constructs has no block; vmm.cpp's starts at
\* the first region.
LEMMA ConstructList ==
    ASSUME IInv, ListInv, IInv', test_construct
    PROVE  ListStep
  <1>1. /\ ~Corrupt /\ stage = "boot" /\ stage' = "construct" /\ added = Len(Regions)
        /\ vmm_head' = head /\ head' = null /\ UNCHANGED <<free, used, lost, stray>>
    BY DEF test_construct, Ready
  <1>2. ManagedWords = TakenWords /\ ManagedWords' = {}
    BY <1>1 DEF ManagedWords
  <1>3. ListGood
    BY <1>1 DEF ListInv
  <1>4. PICK a \in Nat \ {0} : a = Regions[1].base
    BY FreeAddresses
  <1>5. a \in Managed
    <2>1. added >= 1
      BY <1>1, RegionAssumption, EmptySeq, LenProperties
    <2>2. a \in DOMAIN free
      BY <1>1, <1>4, <2>1 DEF IInv, Stages
    <2> QED
      BY <1>2, <2>2, FreeAddresses DEF Managed
  <1>6. head = a
    <2>1. \A c \in Managed : c \in Nat /\ a <= c
      BY <1>4, FreeAddresses DEF Managed
    <2>2. Linked(free, head, Managed)
      BY <1>3 DEF ListGood
    <2>3. Lowest(a, Managed)
      BY <1>4, <1>5, <2>1 DEF Lowest
    <2> QED
      BY <2>2, <2>3, LinkedHead
  <1>7. Managed' = {}
    BY <1>2 DEF Managed
  <1>8. ListGood'
    <2>1. Linked(free', head', {})
      BY <1>1 DEF Linked, Leads, null
    <2>2. Unmerged(SizesOf(free'), {})
      BY DEF Unmerged
    <2>3. ~stray'
      BY <1>1, <1>3 DEF ListGood
    <2> QED
      BY <1>7, <2>1, <2>2, <2>3 DEF ListGood
  <1>9. Accounted'
    <2>1. DOMAIN used' = {}
      BY <1>1 DEF IInv, Stages
    <2>2. \A T : WordsOf(T, {}) = {}
      BY DEF WordsOf
    <2>3. Covered' = {}
      BY <1>7, <2>1, <2>2 DEF Covered
    <2>4. lost' = 0
      BY <1>1 DEF ListInv, Accounted
    <2> QED
      BY <1>1, <2>3, <2>4 DEF Accounted
  <1>10. Heads'
    BY <1>1, <1>4, <1>6 DEF Heads
  <1> QED
    BY <1>8, <1>9, <1>10 DEF ListStep

\* The test's allocator has the block of the first region, and no other.
LEMMA TakeOverList ==
    ASSUME IInv, ListInv, IInv', test_add_memory
    PROVE  ListStep
  <1>0. SizeMax \in Nat /\ free_header = 3 /\ used_header = 2
    BY RangeAssumption DEF free_header, used_header
  <1>1. /\ ~Corrupt /\ stage = "construct" /\ stage' = "test" /\ UNCHANGED <<used, added, lost, vmm_head>>
    BY DEF test_add_memory, Ready, add_memory
  <1>2. IsFiniteSet(DOMAIN free) /\ free \in [DOMAIN free -> Header] /\ added \in 0 .. Len(Regions)
        /\ head = null
    BY <1>1 DEF IInv, Types, Stages
  <1>3. PICK b \in Nat \ {0}, size \in Nat \ {0} : TakenOver(b, size)
    BY RegionShrinks
  <1>4. b = Regions[1].base /\ size = Regions[1].size + 2 /\ size >= 3 /\ release(b, size)
    BY <1>3 DEF TakenOver
  <1>5. PICK U, M : U = UsedSizes /\ M = TakenWords
    OBVIOUS
  <1>6. Sound(SizesOf(free), U, M) /\ Sound(Put(SizesOf(free), b, size), U, M)
    BY <1>3, <1>5 DEF TakenOver, IInv
  <1>7. M \subseteq 1 .. SizeMax - 1
    BY <1>2, <1>5, GivenInside
  <1>8. PICK A : A = {}
    OBVIOUS
  <1>9. Linked(free, head, A) /\ Unmerged(SizesOf(free), A) /\ b \notin A
    BY <1>2, <1>8 DEF Linked, Leads, Unmerged, null
  <1>10. PICK B : B = DOMAIN free' \cap (A \cup {b})
    OBVIOUS
  <1>11. Relisted(b, size, A, B)
    BY <1>1, <1>2, <1>4, <1>6, <1>7, <1>9, <1>10, ReleaseList
  <1>12. TakenFrom(1) = b .. b + size - 1 /\ ManagedWords' = TakenFrom(1)
    <2>1. PICK r \in Nat : r = Regions[1].size
      <3>1. 1 \in 1 .. Len(Regions)
        BY RegionAssumption, EmptySeq, LenProperties
      <3> QED
        BY <1>0, <3>1, RegionFacts
    <2>2. size = r + 2 /\ b + r + 2 - 1 = b + size - 1
      BY <1>4, <2>1
    <2>3. TakenFrom(1)' = TakenFrom(1)
      BY DEF TakenFrom
    <2> QED
      BY <1>0, <1>1, <1>4, <2>1, <2>2, <2>3 DEF TakenFrom, ManagedWords
  <1>13. PICK T : T = SizesOf(free')
    OBVIOUS
  <1>14. /\ WordsOf(T, B) = b .. b + size - 1
         /\ B \subseteq {b} /\ B \subseteq DOMAIN free'
    <2>1. WordsOf(SizesOf(free), A) = {}
      BY <1>8 DEF WordsOf
    <2> QED
      BY <1>8, <1>10, <1>11, <1>13, <2>1 DEF Relisted
  <1>15. B = {b} /\ b .. b + T[b] - 1 = b .. b + size - 1
    <2>1. b \in b .. b + size - 1
      OBVIOUS
    <2>2. B # {}
      BY <1>14, <2>1 DEF WordsOf
    <2>3. B = {b}
      BY <1>14, <2>2
    <2>4. WordsOf(T, {b}) = b .. b + T[b] - 1
      BY Zenon DEF WordsOf
    <2> QED
      BY <1>14, <2>3, <2>4
  <1>16. Managed' = B
    <2> SUFFICES ASSUME NEW c \in DOMAIN free', c \in b .. b + size - 1, c # b PROVE FALSE
      <3>1. Managed' = DOMAIN free' \cap (b .. b + size - 1)
        BY <1>12 DEF Managed
      <3>2. b \in DOMAIN free' /\ b \in b .. b + size - 1
        BY <1>14, <1>15
      <3> QED
        BY <1>15, <3>1, <3>2
    <2>1. Sized(T) /\ Separate(T) /\ DOMAIN T = DOMAIN free'
      BY <1>13 DEF IInv, Sound, SizesOf
    <2>2. b \in DOMAIN T /\ c \in DOMAIN T \ {b}
      BY <1>14, <1>15, <2>1
    <2>3. Apart(b, T[b], c, T[c])
      BY <2>1, <2>2 DEF Separate
    <2>4. T[b] \in Nat \ {0} /\ c \in Nat /\ T[c] \in Nat \ {0}
      BY <2>1, <2>2 DEF Sized
    <2>5. c \in b .. b + T[b] - 1
      BY <1>15
    <2> QED
      BY <2>3, <2>4, <2>5 DEF Apart
  <1>17. ListGood'
    <2>1. ~stray'
      <3>1. release(b, size)
        BY <1>4
      <3>2. stray' = (size < 3)
        BY <1>0, <3>1, Zenon DEF release
      <3>3. ~(size < 3)
        BY <1>3, <1>4
      <3> QED
        BY <3>2, <3>3
    <2> QED
      BY <1>11, <1>16, <2>1 DEF ListGood, Relisted
  <1>18. Covered' = TakenFrom(1)
    <2>1. DOMAIN used' = {}
      BY <1>1 DEF IInv, Stages
    <2>2. \A V : WordsOf(V, {}) = {}
      BY DEF WordsOf
    <2> QED
      BY <1>12, <1>13, <1>14, <1>16, <2>1, <2>2 DEF Covered
  <1>19. Accounted'
    <2>1. lost' = 0
      BY <1>1 DEF ListInv, Accounted
    <2>2. Cardinality(TakenFrom(1) \ TakenFrom(1)) = 0
      <3>1. TakenFrom(1) \ TakenFrom(1) = {}
        OBVIOUS
      <3> QED
        BY <3>1, FS_EmptySet
    <2> QED
      BY <1>1, <1>12, <1>18, <2>1, <2>2 DEF Accounted
  <1>20. head' = Regions[1].base
    <2>1. Linked(free', head', B)
      BY <1>11 DEF Relisted
    <2>2. b \in B /\ \A c \in B : c = b
      BY <1>15
    <2>3. head' = b
      BY <1>3, <2>1, <2>2 DEF Linked, Leads, null
    <2> QED
      BY <1>4, <2>3
  <1>21. Heads'
    BY <1>1, <1>20 DEF Heads, ListInv
  <1> QED
    BY <1>17, <1>19, <1>21 DEF ListStep

\* vmm.cpp's allocator starts where the test's did.
LEMMA EndList ==
    ASSUME IInv, ListInv, IInv', test_end
    PROVE  ListStep
  <1>1. /\ ~Corrupt /\ stage = "release" /\ stage' = "running"
        /\ head' = vmm_head /\ UNCHANGED <<free, used, added, lost, stray, vmm_head>>
    BY DEF test_end, Ready
  <1>2. /\ ListGood /\ head = Regions[1].base /\ vmm_head = Regions[1].base
        /\ ManagedWords = TakenFrom(1) /\ Covered \subseteq TakenFrom(1)
        /\ Cardinality(TakenFrom(1) \ Covered) = lost
    BY <1>1, Running
  <1>3. ManagedWords' = TakenFrom(1)
    <2>1. TakenFrom(1)' = TakenFrom(1)
      BY DEF TakenFrom
    <2> QED
      BY <1>1, <2>1 DEF ManagedWords
  <1>4. Managed' = Managed /\ UNCHANGED <<SizesOf(free), UsedSizes>>
    BY <1>1, <1>2, <1>3 DEF Managed, SizesOf, UsedSizes
  <1>5. Covered' = Covered
    BY <1>1, <1>4 DEF Covered
  <1>6. ListGood'
    BY <1>1, <1>2, <1>4 DEF ListGood
  <1>7. Heads' /\ Accounted'
    BY <1>1, <1>2, <1>3, <1>5 DEF Heads, Accounted
  <1> QED
    BY <1>6, <1>7 DEF ListStep

\* The first state has no block.
LEMMA InitListInv == Init => ListInv
  <1> SUFFICES ASSUME Init PROVE ListInv
    OBVIOUS
  <1>1. /\ DOMAIN free = {} /\ DOMAIN used = {} /\ added = 0 /\ stage = "boot"
        /\ head = null /\ lost = 0 /\ ~stray
    BY DEF Init
  <1>2. Managed = {} /\ ManagedWords = {}
    <2>1. TakenWords = {}
      BY <1>1 DEF TakenWords
    <2> QED
      BY <1>1, <2>1 DEF Managed, ManagedWords
  <1>3. ListGood
    BY <1>1, <1>2 DEF ListGood, Linked, Leads, Unmerged
  <1>4. Covered = {}
    BY <1>1, <1>2 DEF Covered, WordsOf
  <1>5. Cardinality(ManagedWords \ Covered) = 0
    <2>1. ManagedWords \ Covered = {}
      BY <1>2
    <2> QED
      BY <2>1, FS_EmptySet
  <1>6. Heads /\ Accounted
    BY <1>1, <1>2, <1>4, <1>5 DEF Heads, Accounted
  <1> QED
    BY <1>3, <1>6 DEF ListInv

\* Every operation keeps the list or destroys it in one of the ways of Cause.
LEMMA OperationsList ==
    ASSUME IInv, ListInv, IInv', Next
    PROVE  ListStep \/ kernel_hang
  <1>1. CASE vmm_init
    BY <1>1, RegionList
  <1>2. CASE test_construct
    BY <1>2, ConstructList
  <1>3. CASE test_add_memory
    BY <1>3, TakeOverList
  <1>4. CASE test_allocate
    <2>1. /\ ~Corrupt /\ stage = "test" /\ allocate(TestRequests[Len(p) + 1])
          /\ stage' \in {"test", "release"} /\ UNCHANGED <<added, vmm_head>>
      BY <1>4 DEF test_allocate, Ready
    <2>2. p \in Seq(DOMAIN used) /\ Len(p) < Len(TestRequests)
      BY <2>1 DEF IInv, Stages
    <2>3. Len(p) \in Nat /\ Len(TestRequests) \in Nat /\ DOMAIN TestRequests = 1 .. Len(TestRequests)
      BY <2>2, RequestAssumption, LenProperties
    <2>4. Len(p) + 1 \in DOMAIN TestRequests
      BY <2>2, <2>3
    <2>5. PICK request \in HeapSizes : request = TestRequests[Len(p) + 1]
      BY <2>4 DEF HeapSizes, Range
    <2>6. allocate(request)
      BY <2>1, <2>5
    <2>7. stage \notin {"boot", "construct"} /\ stage' \notin {"boot", "construct"}
      BY <2>1
    <2> QED
      BY <2>1, <2>6, <2>7, AllocateList
  <1>5. CASE test_deallocate
    <2>1. /\ ~Corrupt /\ stage = "release" /\ p # <<>> /\ deallocate(Last(p))
          /\ UNCHANGED <<added, vmm_head, stage>>
      BY <1>5 DEF test_deallocate, Ready
    <2>2. p \in Seq(DOMAIN used)
      BY DEF IInv, Stages
    <2>3. Len(p) \in Nat \ {0}
      BY <2>1, <2>2, LenProperties, EmptySeq
    <2>4. Len(p) \in 1 .. Len(p)
      BY <2>3
    <2>5. PICK b \in DOMAIN used : b = Last(p)
      BY <2>2, <2>4, ElementOfSeq DEF Last
    <2>6. deallocate(b)
      BY <2>1, <2>5
    <2>7. stage \notin {"boot", "construct"} /\ stage' \notin {"boot", "construct"}
      BY <2>1
    <2> QED
      BY <2>1, <2>6, <2>7, DeallocateList
  <1>6. CASE test_end
    BY <1>6, EndList
  <1>7. ASSUME NEW request \in Requests, vmalloc(request) PROVE ListStep
    <2>1. ~Corrupt /\ stage = "running" /\ allocate(request) /\ UNCHANGED <<added, vmm_head, stage>>
      BY <1>7 DEF vmalloc, Ready, testVars
    <2>2. stage \notin {"boot", "construct"} /\ stage' \notin {"boot", "construct"}
      BY <2>1
    <2>3. request \in HeapSizes
      BY DEF HeapSizes
    <2> QED
      BY <2>1, <2>2, <2>3, AllocateList
  <1>8. ASSUME NEW b \in DOMAIN used, vfree(b) PROVE ListStep
    <2>1. ~Corrupt /\ stage = "running" /\ deallocate(b) /\ UNCHANGED <<added, vmm_head, stage>>
      BY <1>8 DEF vfree, Ready, testVars
    <2>2. stage \notin {"boot", "construct"} /\ stage' \notin {"boot", "construct"}
      BY <2>1
    <2> QED
      BY <2>1, <2>2, DeallocateList
  <1> QED
    BY <1>1, <1>2, <1>3, <1>4, <1>5, <1>6, <1>7, <1>8 DEF Next

\* Where nothing changes, nothing changes.
LEMMA UnchangedList ==
    ASSUME UNCHANGED vars
    PROVE  Corrupt' = Corrupt /\ (ListInv => ListInv')
  <1>1. UNCHANGED <<head, vmm_head, stage, free, used, added, lost, stray>>
    BY DEF vars, testVars
  <1>2. walk' = walk
    BY <1>1 DEF walk
  <1>3. Corrupt' = Corrupt
    BY <1>1, <1>2 DEF Corrupt
  <1>4. ManagedWords' = ManagedWords
    BY <1>1 DEF ManagedWords, TakenWords, TakenFrom
  <1>5. Managed' = Managed /\ UNCHANGED <<SizesOf(free), UsedSizes>>
    BY <1>1, <1>4 DEF Managed, SizesOf, UsedSizes
  <1>6. Covered' = Covered
    BY <1>1, <1>5 DEF Covered
  <1>7. ListGood' = ListGood
    BY <1>1, <1>5 DEF ListGood
  <1>8. Heads' = Heads
    BY <1>1, <1>3 DEF Heads
  <1>9. Accounted' = Accounted
    BY <1>1, <1>4, <1>6 DEF Accounted
  <1> QED
    BY <1>3, <1>7, <1>8, <1>9 DEF ListInv

\* Every step keeps the list's invariant, and the list itself unless it is one of
\* those of Cause.
LEMMA NextListInv ==
    IInv /\ IInv' /\ ListInv /\ [Next]_vars => ListInv' /\ (~Corrupt /\ Corrupt' => Cause)
  <1> SUFFICES ASSUME IInv, IInv', ListInv, [Next]_vars
               PROVE  ListInv' /\ (~Corrupt /\ Corrupt' => Cause)
    OBVIOUS
  <1>1. CASE ListStep
    BY <1>1, GoodNext DEF ListStep, ListInv
  <1>2. CASE UNCHANGED vars
    BY <1>2, UnchangedList
  <1>3. kernel_hang => UNCHANGED vars
    BY DEF kernel_hang
  <1> QED
    BY <1>1, <1>2, <1>3, OperationsList

\* The blocks of the allocator in use form a list in address order, which starts at
\* the first region, until an operation destroys it; their words and those of the
\* blocks in use are the words it took, but for the lost ones.
THEOREM FreeListListInvariant == Spec => []ListInv
  <1>1. IInv /\ IInv' /\ ListInv /\ [Next]_vars => ListInv'
    BY NextListInv
  <1> QED
    BY <1>1, InitListInv, FreeListInvariant, PTL DEF Spec

\* Inserting, merging, splitting and unlinking keep the list whole: as long as its
\* pointers are sound it holds every free block of the memory its allocator was
\* given, in address order, and no two of them could still be merged.
THEOREM FreeListListComplete == Spec => []ListComplete
  <1>1. IInv /\ ListInv => ListComplete
    <2> SUFFICES ASSUME IInv, ListInv, ~Corrupt
                 PROVE  /\ ListAddresses = DOMAIN free \cap ManagedWords
                        /\ \A b \in ListAddresses :
                              /\ free[b].next = null \/ free[b].next > b
                              /\ b + real_size(b) \notin ListAddresses
      BY DEF ListComplete
    <2>1. ListGood
      BY DEF ListInv
    <2>2. ListAddresses = Managed
      BY <2>1, GoodWalk
    <2>3. ASSUME NEW b \in Managed
          PROVE  /\ free[b].next = null \/ free[b].next > b
                 /\ b + real_size(b) \notin Managed
      <3>1. free[b].next = null \/ free[b].next > b
        BY <2>1 DEF ListGood, Linked, Leads
      <3>2. b \in DOMAIN free /\ SizesOf(free)[b] = real_size(b)
        BY DEF Managed, SizesOf, real_size
      <3>3. b + SizesOf(free)[b] \notin Managed
        BY <2>1 DEF ListGood, Unmerged
      <3> QED
        BY <3>1, <3>2, <3>3
    <2> QED
      BY <2>2, <2>3 DEF Managed
  <1> QED
    BY <1>1, FreeListInvariant, FreeListListInvariant, PTL

\* Freeing a block of no words, and an exact fit of the first block or of one whose
\* prev pointer is stale, are the only operations that destroy the list.
THEOREM FreeListCorruptionCauses == Spec => CorruptionCauses
  <1>1. IInv /\ IInv' /\ ListInv /\ [Next]_vars =>
            [~Corrupt /\ Corrupt' =>
                \/ \E b \in DOMAIN used \ DOMAIN used' : used[b] = 0
                \/ \E b \in DOMAIN free \cap DOMAIN used' :
                      b = head \/ ~(free[b].prev \in DOMAIN free /\ free[free[b].prev].next = b)]_vars
    BY NextListInv DEF Cause
  <1> QED
    BY <1>1, FreeListInvariant, FreeListListInvariant, PTL DEF Spec, CorruptionCauses

-----------------------------------------------------------------------------
(* The words of the blocks, counted. *)

\* The blocks of S at the addresses in T, apart from each other and inside M.
Counted(S, T, M) ==
    /\ \A b \in T : b \in Nat /\ S[b] \in Nat \ {0}
    /\ \A b \in T : \A c \in T \ {b} : Apart(b, S[b], c, S[c])
    /\ WordsOf(S, T) \subseteq M /\ IsFiniteSet(M)

\* One round of MapThenSumSet: the size of one block, and what g says of the rest.
SumStep(S, g, s) ==
    IF s = {} THEN 0 ELSE S[CHOOSE x \in s : TRUE] + g[s \ {CHOOSE x \in s : TRUE}]

\* A block has as many words as its size says, and shares none with the others.
LEMMA OneCounted ==
    ASSUME NEW S, NEW T, NEW M, Counted(S, T, M), NEW s \in SUBSET T, NEW x \in s
    PROVE  Cardinality(WordsOf(S, s)) = S[x] + Cardinality(WordsOf(S, s \ {x}))
  <1>1. PICK r : r = S[x]
    OBVIOUS
  <1>2. x \in Nat /\ r \in Nat \ {0}
    BY <1>1 DEF Counted
  <1>3. PICK B, W, V : B = x .. x + r - 1 /\ W = WordsOf(S, s \ {x}) /\ V = WordsOf(S, s)
    OBVIOUS
  <1>4. V = W \cup B
    BY <1>1, <1>3, WordsSplit
  <1>5. W \cap B = {}
    <2> SUFFICES ASSUME NEW w \in W, w \in B PROVE FALSE
      OBVIOUS
    <2>1. PICK c \in s \ {x} : w \in c .. c + S[c] - 1
      BY <1>3 DEF WordsOf
    <2>2. PICK q : q = S[c]
      OBVIOUS
    <2>3. c \in Nat /\ q \in Nat \ {0} /\ Apart(x, r, c, q)
      BY <1>1, <2>2 DEF Counted
    <2>4. w \in c .. c + q - 1 /\ w \in x .. x + r - 1
      BY <1>3, <2>1, <2>2
    <2> QED
      BY <1>2, <2>3, <2>4 DEF Apart
  <1>6. V \subseteq M
    BY <1>3 DEF Counted, WordsOf
  <1>7. IsFiniteSet(W) /\ IsFiniteSet(B)
    <2>1. W \subseteq M /\ B \subseteq M /\ IsFiniteSet(M)
      BY <1>4, <1>6 DEF Counted
    <2> QED
      BY <2>1, FS_Subset
  <1>8. Cardinality(V) = Cardinality(W) + Cardinality(B) - Cardinality(W \cap B)
    BY <1>4, <1>7, FS_Union
  <1>9. Cardinality(W \cap B) = 0
    BY <1>5, FS_EmptySet
  <1>10. Cardinality(B) = r
    <2>1. PICK e \in Int : e = x + r - 1
      BY <1>2
    <2>2. Cardinality(x .. e) = IF x > e THEN 0 ELSE e - x + 1
      BY <1>2, <2>1, FS_Interval
    <2> QED
      BY <1>2, <1>3, <2>1, <2>2
  <1>11. PICK n \in Nat : n = Cardinality(W)
    BY <1>7, FS_CardinalityType
  <1>12. Cardinality(V) = r + n
    BY <1>2, <1>8, <1>9, <1>10, <1>11
  <1> QED
    BY <1>1, <1>3, <1>11, <1>12

\* There is a function that sums the sizes, and every such function counts words.
LEMMA SumCounts ==
    ASSUME NEW S, NEW T, NEW M, Counted(S, T, M)
    PROVE  /\ \E g : g = [s \in SUBSET T |-> SumStep(S, g, s)]
           /\ \A g : g = [s \in SUBSET T |-> SumStep(S, g, s)] => g[T] = Cardinality(WordsOf(S, T))
  <1>1. Cardinality(WordsOf(S, {})) = 0
    <2>1. WordsOf(S, {}) = {}
      BY DEF WordsOf
    <2> QED
      BY <2>1, FS_EmptySet
  <1>2. ASSUME NEW s \in SUBSET T, s # {}
        PROVE  /\ (CHOOSE x \in s : TRUE) \in s
               /\ Cardinality(WordsOf(S, s)) =
                      S[CHOOSE x \in s : TRUE] + Cardinality(WordsOf(S, s \ {CHOOSE x \in s : TRUE}))
    <2>1. (CHOOSE x \in s : TRUE) \in s
      BY <1>2
    <2>2. PICK x \in s : x = CHOOSE y \in s : TRUE
      BY <2>1
    <2>3. Cardinality(WordsOf(S, s)) = S[x] + Cardinality(WordsOf(S, s \ {x}))
      BY OneCounted
    <2> QED
      BY <2>1, <2>2, <2>3
  <1>3. \E g : g = [s \in SUBSET T |-> SumStep(S, g, s)]
    <2> DEFINE h == [s \in SUBSET T |-> Cardinality(WordsOf(S, s))]
    <2>1. ASSUME NEW s \in SUBSET T PROVE h[s] = SumStep(S, h, s)
      <3>1. CASE s = {}
        BY <1>1, <3>1 DEF SumStep
      <3>2. CASE s # {}
        <4>1. s \ {CHOOSE x \in s : TRUE} \in SUBSET T
          OBVIOUS
        <4> QED
          BY <1>2, <3>2, <4>1 DEF SumStep
      <3> QED
        BY <3>1, <3>2
    <2>2. h = [s \in SUBSET T |-> SumStep(S, h, s)]
      BY <2>1
    <2> HIDE DEF h
    <2> QED
      BY <2>2
  <1>4. IsFiniteSet(T)
    <2>1. T \subseteq WordsOf(S, T)
      <3> SUFFICES ASSUME NEW b \in T PROVE b \in WordsOf(S, T)
        OBVIOUS
      <3>1. b \in b .. b + S[b] - 1
        BY DEF Counted
      <3> QED
        BY <3>1 DEF WordsOf
    <2>2. T \subseteq M /\ IsFiniteSet(M)
      BY <2>1 DEF Counted
    <2> QED
      BY <2>2, FS_Subset
  <1>5. ASSUME NEW g, g = [s \in SUBSET T |-> SumStep(S, g, s)]
        PROVE  g[T] = Cardinality(WordsOf(S, T))
    <2>0. \A s \in SUBSET T : g[s] = SumStep(S, g, s)
      BY <1>5
    <2> DEFINE K == {n \in Nat : \A s \in SUBSET T :
                        Cardinality(s) = n => g[s] = Cardinality(WordsOf(S, s))}
    <2>1. 0 \in K
      <3> SUFFICES ASSUME NEW s \in SUBSET T, Cardinality(s) = 0
                   PROVE  g[s] = Cardinality(WordsOf(S, s))
        OBVIOUS
      <3>1. s = {}
        BY <1>4, FS_Subset, FS_EmptySet
      <3> QED
        BY <1>1, <2>0, <3>1 DEF SumStep
    <2>2. ASSUME NEW n \in Nat, n \in K PROVE n + 1 \in K
      <3> SUFFICES ASSUME NEW s \in SUBSET T, Cardinality(s) = n + 1
                   PROVE  g[s] = Cardinality(WordsOf(S, s))
        OBVIOUS
      <3>1. IsFiniteSet(s)
        BY <1>4, FS_Subset
      <3>2. s # {}
        BY FS_EmptySet
      <3>3. PICK x \in s : x = CHOOSE y \in s : TRUE
        BY <1>2, <3>2
      <3>4. Cardinality(s \ {x}) = n
        <4>1. Cardinality(s \ {x}) = Cardinality(s) - 1
          BY <3>1, FS_RemoveElement
        <4> QED
          BY <4>1
      <3>5. g[s \ {x}] = Cardinality(WordsOf(S, s \ {x}))
        <4>1. s \ {x} \in SUBSET T
          OBVIOUS
        <4> QED
          BY <2>2, <3>4, <4>1
      <3>6. g[s] = S[x] + g[s \ {x}]
        BY <2>0, <3>2, <3>3 DEF SumStep
      <3>7. Cardinality(WordsOf(S, s)) = S[x] + Cardinality(WordsOf(S, s \ {x}))
        BY OneCounted
      <3> QED
        BY <3>5, <3>6, <3>7
    <2> HIDE DEF K
    <2>3. \A n \in Nat : n \in K
      BY <2>1, <2>2, SetInduction
    <2>4. Cardinality(T) \in Nat
      BY <1>4, FS_CardinalityType
    <2> QED
      BY <2>3, <2>4 DEF K
  <1> QED
    BY <1>3, <1>5

\* The rounds of the two sums.
FreeSum(g, s) ==
    IF s = {} THEN 0 ELSE real_size(CHOOSE x \in s : TRUE) + g[s \ {CHOOSE x \in s : TRUE}]

UsedSum(g, s) ==
    IF s = {} THEN 0
    ELSE (used[CHOOSE x \in s : TRUE] + used_header) + g[s \ {CHOOSE x \in s : TRUE}]

\* The free blocks' sizes add up to their words.
LEMMA FreeSumCounts ==
    ASSUME NEW T \in SUBSET DOMAIN free, NEW M, Counted(SizesOf(free), T, M)
    PROVE  MapThenSumSet(real_size, T) = Cardinality(WordsOf(SizesOf(free), T))
  <1>1. PICK S : S = SizesOf(free)
    OBVIOUS
  <1>2. ASSUME NEW g, NEW s \in SUBSET T PROVE SumStep(S, g, s) = FreeSum(g, s)
    <2>1. ASSUME s # {} PROVE S[CHOOSE x \in s : TRUE] = real_size(CHOOSE x \in s : TRUE)
      <3>1. PICK x \in s : x = CHOOSE y \in s : TRUE
        BY <2>1
      <3>2. S[x] = real_size(x)
        BY <1>1 DEF SizesOf, real_size
      <3> QED
        BY <3>1, <3>2
    <2> QED
      BY <2>1 DEF SumStep, FreeSum
  <1>3. \A g : [s \in SUBSET T |-> SumStep(S, g, s)] = [s \in SUBSET T |-> FreeSum(g, s)]
    BY <1>2
  <1>4. /\ \E g : g = [s \in SUBSET T |-> FreeSum(g, s)]
        /\ \A g : g = [s \in SUBSET T |-> FreeSum(g, s)] => g[T] = Cardinality(WordsOf(S, T))
    <2>1. Counted(S, T, M)
      BY <1>1
    <2>2. /\ \E g : g = [s \in SUBSET T |-> SumStep(S, g, s)]
          /\ \A g : g = [s \in SUBSET T |-> SumStep(S, g, s)] => g[T] = Cardinality(WordsOf(S, T))
      BY <2>1, SumCounts
    <2>3. PICK h : h = [s \in SUBSET T |-> SumStep(S, h, s)]
      BY <2>2
    <2>4. h = [s \in SUBSET T |-> FreeSum(h, s)]
      BY <1>3, <2>3
    <2>5. ASSUME NEW g, g = [s \in SUBSET T |-> FreeSum(g, s)]
          PROVE  g[T] = Cardinality(WordsOf(S, T))
      <3>1. g = [s \in SUBSET T |-> SumStep(S, g, s)]
        BY <1>3, <2>5
      <3> QED
        BY <2>2, <3>1
    <2> QED
      BY <2>4, <2>5
  <1>5. PICK h : h = CHOOSE g : g = [s \in SUBSET T |-> FreeSum(g, s)]
    OBVIOUS
  <1>6. MapThenSumSet(real_size, T) = h[T]
    BY <1>5 DEF MapThenSumSet, MapThenFoldSet, FreeSum
  <1>7. h = [s \in SUBSET T |-> FreeSum(h, s)]
    BY <1>4, <1>5
  <1> QED
    BY <1>1, <1>4, <1>6, <1>7

\* The same, of the blocks in use.
LEMMA UsedSumCounts ==
    ASSUME NEW M, Counted(UsedSizes, DOMAIN used, M)
    PROVE  MapThenSumSet(LAMBDA b : used[b] + used_header, DOMAIN used)
              = Cardinality(WordsOf(UsedSizes, DOMAIN used))
  <1>1. PICK S, T : S = UsedSizes /\ T = DOMAIN used
    OBVIOUS
  <1>2. ASSUME NEW g, NEW s \in SUBSET T PROVE SumStep(S, g, s) = UsedSum(g, s)
    <2>1. ASSUME s # {} PROVE S[CHOOSE x \in s : TRUE] = used[CHOOSE x \in s : TRUE] + used_header
      <3>1. PICK x \in s : x = CHOOSE y \in s : TRUE
        BY <2>1
      <3>2. S[x] = used[x] + used_header
        BY <1>1 DEF UsedSizes
      <3> QED
        BY <3>1, <3>2
    <2> QED
      BY <2>1 DEF SumStep, UsedSum
  <1>3. \A g : [s \in SUBSET T |-> SumStep(S, g, s)] = [s \in SUBSET T |-> UsedSum(g, s)]
    BY <1>2
  <1>4. /\ \E g : g = [s \in SUBSET T |-> UsedSum(g, s)]
        /\ \A g : g = [s \in SUBSET T |-> UsedSum(g, s)] => g[T] = Cardinality(WordsOf(S, T))
    <2>1. Counted(S, T, M)
      BY <1>1
    <2>2. /\ \E g : g = [s \in SUBSET T |-> SumStep(S, g, s)]
          /\ \A g : g = [s \in SUBSET T |-> SumStep(S, g, s)] => g[T] = Cardinality(WordsOf(S, T))
      BY <2>1, SumCounts
    <2>3. PICK h : h = [s \in SUBSET T |-> SumStep(S, h, s)]
      BY <2>2
    <2>4. h = [s \in SUBSET T |-> UsedSum(h, s)]
      BY <1>3, <2>3
    <2>5. ASSUME NEW g, g = [s \in SUBSET T |-> UsedSum(g, s)]
          PROVE  g[T] = Cardinality(WordsOf(S, T))
      <3>1. g = [s \in SUBSET T |-> SumStep(S, g, s)]
        BY <1>3, <2>5
      <3> QED
        BY <2>2, <3>1
    <2> QED
      BY <2>4, <2>5
  <1>5. PICK h : h = CHOOSE g : g = [s \in SUBSET T |-> UsedSum(g, s)]
    OBVIOUS
  <1>6. MapThenSumSet(LAMBDA b : used[b] + used_header, T) = h[T]
    BY <1>5 DEF MapThenSumSet, MapThenFoldSet, UsedSum
  <1>7. h = [s \in SUBSET T |-> UsedSum(h, s)]
    BY <1>4, <1>5
  <1>8. MapThenSumSet(LAMBDA b : used[b] + used_header, T) = Cardinality(WordsOf(S, T))
    BY <1>4, <1>6, <1>7
  <1> QED
    BY <1>1, <1>8 DEF MapThenSumSet, MapThenFoldSet

\* No word an allocator took disappears, whatever the regions,
\* the requests and their order, except the three of every exact fit: the sizes in
\* the headers, free and in use, add up to the rest.
THEOREM FreeListWordsAccounted == Spec => []WordsAccounted
  <1>1. IInv /\ ListInv => WordsAccounted
    <2> SUFFICES ASSUME IInv, ListInv, stage # "construct"
                 PROVE  Cardinality(ManagedWords) =
                            lost + MapThenSumSet(real_size, DOMAIN free \cap ManagedWords)
                                 + MapThenSumSet(LAMBDA b : used[b] + used_header, DOMAIN used)
      BY DEF WordsAccounted
    <2>1. PICK M, F, U, A, D : /\ M = ManagedWords /\ F = WordsOf(SizesOf(free), Managed)
                               /\ U = WordsOf(UsedSizes, DOMAIN used)
                               /\ A = Managed /\ D = DOMAIN used
      OBVIOUS
    <2>2. F \cup U \subseteq M /\ Cardinality(M \ (F \cup U)) = lost
      BY <2>1 DEF ListInv, Accounted, Covered
    <2>3. IsFiniteSet(M)
      BY <2>1, FreeAddresses
    <2>4. /\ Sized(SizesOf(free)) /\ Separate(SizesOf(free)) /\ Sized(UsedSizes) /\ Separate(UsedSizes)
          /\ Across(SizesOf(free), UsedSizes)
      BY DEF IInv, Sound
    <2>5. DOMAIN SizesOf(free) = DOMAIN free /\ DOMAIN UsedSizes = DOMAIN used /\ A \subseteq DOMAIN free
      BY <2>1 DEF SizesOf, UsedSizes, Managed
    <2>6. Counted(SizesOf(free), A, M)
      <3>1. WordsOf(SizesOf(free), A) \subseteq M
        BY <2>1, <2>2
      <3>2. \A b \in A : b \in Nat /\ SizesOf(free)[b] \in Nat \ {0}
        BY <2>4, <2>5 DEF Sized
      <3>3. \A b \in A : \A c \in A \ {b} : Apart(b, SizesOf(free)[b], c, SizesOf(free)[c])
        BY <2>4, <2>5 DEF Separate
      <3> QED
        BY <2>3, <3>1, <3>2, <3>3 DEF Counted
    <2>7. Counted(UsedSizes, DOMAIN used, M)
      <3>1. WordsOf(UsedSizes, DOMAIN used) \subseteq M
        BY <2>1, <2>2
      <3>2. \A b \in DOMAIN used : b \in Nat /\ UsedSizes[b] \in Nat \ {0}
        BY <2>4, <2>5 DEF Sized
      <3>3. \A b \in DOMAIN used : \A c \in DOMAIN used \ {b} : Apart(b, UsedSizes[b], c, UsedSizes[c])
        BY <2>4, <2>5 DEF Separate
      <3> QED
        BY <2>3, <3>1, <3>2, <3>3 DEF Counted
    <2>8. MapThenSumSet(real_size, A) = Cardinality(F)
      <3>1. A \in SUBSET DOMAIN free
        BY <2>5
      <3>2. MapThenSumSet(real_size, A) = Cardinality(WordsOf(SizesOf(free), A))
        BY <2>6, <3>1, FreeSumCounts
      <3> QED
        BY <2>1, <3>2
    <2>9. MapThenSumSet(LAMBDA b : used[b] + used_header, DOMAIN used) = Cardinality(U)
      BY <2>1, <2>7, UsedSumCounts
    <2>10. F \cap U = {}
      <3> SUFFICES ASSUME NEW w \in F, w \in U PROVE FALSE
        OBVIOUS
      <3>1. PICK b \in A : w \in b .. b + SizesOf(free)[b] - 1
        BY <2>1 DEF WordsOf
      <3>2. PICK c \in DOMAIN used : w \in c .. c + UsedSizes[c] - 1
        BY <2>1 DEF WordsOf
      <3>3. PICK r, q : r = SizesOf(free)[b] /\ q = UsedSizes[c]
        OBVIOUS
      <3>4. b \in Nat /\ c \in Nat /\ r \in Nat /\ q \in Nat
        BY <2>6, <2>7, <3>3 DEF Counted
      <3>5. Apart(b, r, c, q)
        BY <2>4, <2>5, <3>3 DEF Across
      <3> QED
        BY <3>1, <3>2, <3>3, <3>4, <3>5 DEF Apart
    <2>11. IsFiniteSet(F) /\ IsFiniteSet(U) /\ IsFiniteSet(F \cup U) /\ IsFiniteSet(M \ (F \cup U))
      BY <2>2, <2>3, FS_Subset
    <2>12. Cardinality(F \cup U) = Cardinality(F) + Cardinality(U) - Cardinality(F \cap U)
      BY <2>11, FS_Union
    <2>13. PICK C, L : C = F \cup U /\ L = M \ C
      OBVIOUS
    <2>14. M = L \cup C /\ L \cap C = {}
      BY <2>2, <2>13
    <2>15. Cardinality(M) = Cardinality(L) + Cardinality(C) - Cardinality(L \cap C)
      BY <2>11, <2>13, <2>14, FS_Union
    <2>16. Cardinality(F \cap U) = 0 /\ Cardinality(L \cap C) = 0
      BY <2>10, <2>14, FS_EmptySet
    <2>17. PICK f \in Nat, u \in Nat, l \in Nat : f = Cardinality(F) /\ u = Cardinality(U) /\ l = Cardinality(L)
      BY <2>11, <2>13, FS_CardinalityType
    <2>18. Cardinality(M) = l + f + u /\ lost = l
      BY <2>2, <2>12, <2>13, <2>15, <2>16, <2>17
    <2>19. A = DOMAIN free \cap ManagedWords
      BY <2>1 DEF Managed
    <2>20. PICK x, y : x = MapThenSumSet(real_size, A)
                       /\ y = MapThenSumSet(LAMBDA b : used[b] + used_header, DOMAIN used)
      OBVIOUS
    <2>21. Cardinality(M) = lost + x + y
      BY <2>8, <2>9, <2>17, <2>18, <2>20
    <2> QED
      BY <2>1, <2>19, <2>20, <2>21 DEF MapThenSumSet, MapThenFoldSet
  <1> QED
    BY <1>1, FreeListInvariant, FreeListListInvariant, PTL
=============================================================================
