------------------------------ MODULE ShellProofs ------------------------------
(***************************************************************************)
(* Proofs about the keyboard buffer, and about the shell's line editor on  *)
(* top of it: for every capacity, size of the line, keyboard and number of *)
(* keys typed.                                                             *)
(***************************************************************************)
EXTENDS Shell, SequenceTheorems, TLAPS

(* Arithmetic modulo the capacity. *)

\* Quotient and remainder.
LEMMA DivMod ==
    ASSUME NEW x \in Nat, NEW c \in Nat \ {0}
    PROVE  x \div c \in Nat /\ x % c \in 0 .. c - 1 /\ x = (x \div c) * c + (x % c)
  BY SMT

\* Two numbers with a common multiple less than c apart are equal.
LEMMA MultipleGap ==
    ASSUME NEW c \in Nat \ {0}, NEW p \in Int, NEW q \in Int,
           NEW r \in 0 .. c - 1, NEW s \in 0 .. c - 1, p * c + r = q * c + s
    PROVE  p = q /\ r = s
  <1>1. (p - q) * c = s - r
    <2>1. (p - q) * c = p * c - q * c
      BY SMT
    <2> QED
      BY <2>1, SMT
  <1>2. CASE p - q >= 1
    <2>1. (p - q) * c >= c
      BY <1>2, SMT
    <2> QED
      BY <1>1, <2>1, SMT
  <1>3. CASE p - q <= -1
    <2>1. (p - q) * c <= -c
      BY <1>3, SMT
    <2> QED
      BY <1>1, <2>1, SMT
  <1>4. CASE p = q
    BY <1>1, <1>4, SMT
  <1> QED
    BY <1>2, <1>3, <1>4

\* Advancing an index modulo c.
LEMMA ModSucc ==
    ASSUME NEW x \in Nat, NEW c \in Nat \ {0}
    PROVE  ((x % c) + 1) % c = (x + 1) % c
  <1> DEFINE y == (x % c) + 1
             w == x + 1
             a == x \div c
             b == y \div c
             d == w \div c
             e == a + b
             r == y % c
             s == w % c
  <1>1. a \in Nat /\ x % c \in 0 .. c - 1 /\ x = a * c + (x % c)
    BY DivMod
  <1>2. b \in Nat /\ r \in 0 .. c - 1 /\ y = b * c + r
    <2> y \in Nat
      BY <1>1
    <2> HIDE DEF y
    <2> QED
      BY DivMod
  <1>3. d \in Nat /\ s \in 0 .. c - 1 /\ w = d * c + s
    <2> w \in Nat
      OBVIOUS
    <2> HIDE DEF w
    <2> QED
      BY DivMod
  <1>4. w = a * c + y
    BY <1>1
  <1> HIDE DEF y, w, a, b, d, r, s
  <1>5. e \in Int /\ e * c + r = d * c + s
    <2>1. (a + b) * c = a * c + b * c
      BY <1>1, <1>2, SMT
    <2> QED
      BY <1>1, <1>2, <1>3, <1>4, <2>1
  <1> HIDE DEF e
  <1>6. r = s
    BY <1>2, <1>3, <1>5, MultipleGap
  <1> QED
    BY <1>6 DEF r, s, y, w

\* Numbers less than c apart have different remainders.
LEMMA ModDistinct ==
    ASSUME NEW x \in Nat, NEW z \in Nat, NEW c \in Nat \ {0}, x < z, z - x < c
    PROVE  x % c # z % c
  <1> SUFFICES ASSUME x % c = z % c
               PROVE  FALSE
    OBVIOUS
  <1>1. /\ x \div c \in Nat /\ x % c \in 0 .. c - 1
        /\ x = (x \div c) * c + (x % c)
    BY DivMod
  <1>2. /\ z \div c \in Nat /\ z % c \in 0 .. c - 1
        /\ z = (z \div c) * c + (z % c)
    BY DivMod
  <1> DEFINE a == x \div c
             b == z \div c
             d == z - x
  <1>3. a * c + d = b * c + 0
    BY <1>1, <1>2
  <1>4. d = 0
    <2> a \in Int /\ b \in Int /\ d \in 0 .. c - 1 /\ 0 \in 0 .. c - 1
      BY <1>1, <1>2
    <2> HIDE DEF a, b, d
    <2> QED
      BY <1>3, MultipleGap
  <1> QED
    BY <1>4
-----------------------------------------------------------------------------
(* The inductive invariant. *)

\* A dequeue under way has seen a nonempty queue, and the handler only adds.
InFlight ==
    /\ pc \in {"read", "load", "store"} => m_size >= 1
    /\ pc = "store" => rax >= 1 /\ rax <= m_size

IInv == TypeOK /\ SizeCountsKeys /\ WindowIntact /\ InFlight

\* The handler puts a key or None in the queue.
LEMMA DecodedKey ==
    ASSUME TypeOK, NEW code \in Scancodes
    PROVE  scancode_to_key(code) \in Keys \cup {None}
  <1>1. CASE extended
    BY <1>1, KeyAssumption DEF scancode_to_key
  <1>2. CASE ~extended /\ code >= 128
    BY <1>2 DEF scancode_to_key
  <1>3. CASE ~extended /\ ~(code >= 128)
    <2>1. code \in Scancodes \cap 0 .. 127
      BY <1>3, KeyAssumption
    <2> QED
      BY <1>3, <2>1, KeyAssumption DEF scancode_to_key
  <1> QED
    BY <1>1, <1>2, <1>3 DEF TypeOK

\* Enqueueing a key puts it in the next slot and disturbs no slot whose key
\* is among the last capacity ones.
LEMMA EnqueueStep ==
    ASSUME IInv, NEW key \in Keys \cup {None}, enqueue(key),
           extended' \in BOOLEAN, UNCHANGED dequeueVars
    PROVE  IInv'
  <1> USE QueueAssumption
  <1>1. CASE isFull
    BY <1>1 DEF enqueue, IInv, TypeOK, SizeCountsKeys, WindowIntact, InFlight,
                queueVars, dequeueVars, accepted
  <1>2. CASE ~isFull
    <2>1. /\ m_data' = [m_data EXCEPT ![m_back] = key]
          /\ m_back' = (m_back + 1) % capacity
          /\ m_size' = m_size + 1 /\ m_front' = m_front
          /\ history' = Append(history, key)
          /\ UNCHANGED <<pc, item, rax, taken, lost>>
      BY <1>2 DEF enqueue, dequeueVars
    <2>2. /\ accepted \in Nat /\ accepted' = accepted + 1
          /\ history' \in Seq(Keys \cup {None})
          /\ \A n \in 1 .. accepted : history'[n] = history[n]
          /\ history'[accepted + 1] = key
      BY <2>1, LenProperties, AppendProperties DEF IInv, TypeOK, accepted
    <2>3. m_back = accepted % capacity /\ m_back' = (accepted + 1) % capacity
      BY <2>1, <2>2, ModSucc DEF IInv, SizeCountsKeys
    <2>4. m_back' \in 0 .. capacity - 1
      BY <2>2, <2>3, DivMod
    <2>5. TypeOK'
      BY <1>2, <2>1, <2>2, <2>4 DEF IInv, TypeOK, isFull
    <2>6. SizeCountsKeys'
      BY <2>1, <2>2, <2>3 DEF IInv, TypeOK, SizeCountsKeys
    <2>7. WindowIntact'
      <3> SUFFICES ASSUME NEW n \in 0 .. accepted' - 1, n >= accepted' - capacity
                   PROVE  m_data'[n % capacity] = history'[n + 1]
        BY DEF WindowIntact
      <3>0. n \in Nat /\ n <= accepted /\ accepted - n < capacity
        BY <2>2
      <3>1. n % capacity \in 0 .. capacity - 1
        BY <3>0, DivMod
      <3>2. CASE n = accepted
        BY <2>1, <2>2, <2>3, <3>2 DEF IInv, TypeOK
      <3>3. CASE n < accepted
        <4>1. n % capacity # m_back
          BY <2>2, <2>3, <3>0, <3>3, ModDistinct
        <4>2. m_data[n % capacity] = history[n + 1]
          <5>1. n \in 0 .. accepted - 1 /\ n >= accepted - capacity
            BY <2>2, <3>0, <3>3
          <5> QED
            BY <5>1 DEF IInv, WindowIntact
        <4>3. history'[n + 1] = history[n + 1]
          BY <2>2, <3>3
        <4> QED
          BY <2>1, <3>1, <4>1, <4>2, <4>3 DEF IInv, TypeOK
      <3> QED
        BY <2>2, <3>0, <3>2, <3>3
    <2>8. InFlight'
      BY <2>1 DEF IInv, TypeOK, InFlight
    <2> QED
      BY <2>5, <2>6, <2>7, <2>8 DEF IInv
  <1> QED
    BY <1>1, <1>2

\* The queue starts empty and no dequeue is under way.
LEMMA InitIInv == Init => IInv
  <1> SUFFICES ASSUME Init PROVE IInv
    OBVIOUS
  <1> USE QueueAssumption DEF Init
  <1>1. accepted = 0
    BY DEF accepted
  <1>2. 0 % capacity = 0
    BY SMT
  <1> QED
    BY <1>1, <1>2 DEF IInv, TypeOK, SizeCountsKeys, WindowIntact, InFlight

\* Every step of the handler and of dequeue keeps the invariant.
LEMMA NextIInv == IInv /\ [Next]_vars => IInv'
  <1> SUFFICES ASSUME IInv, [Next]_vars PROVE IInv'
    OBVIOUS
  <1> USE QueueAssumption
  <1>0. accepted \in Nat
    BY LenProperties DEF IInv, TypeOK, accepted
  <1>1. ASSUME NEW code \in Scancodes, isr_keyboard(code)
        PROVE  IInv'
    BY <1>1, EnqueueStep, DecodedKey DEF isr_keyboard, IInv
  <1>2. CASE dequeue_check
    BY <1>2 DEF dequeue_check, isEmpty, IInv, TypeOK, SizeCountsKeys, WindowIntact,
                InFlight, queueVars, accepted
  <1>3. CASE dequeue_read
    <2>1. m_front' = (taken + 1) % capacity
      BY <1>3, ModSucc DEF dequeue_read, IInv, TypeOK, SizeCountsKeys
    <2>2. m_front' \in 0 .. capacity - 1
      BY <2>1, DivMod DEF IInv, TypeOK
    <2>3. TypeOK'
      BY <1>3, <2>2 DEF dequeue_read, IInv, TypeOK
    <2>4. SizeCountsKeys'
      <3>1. /\ pc = "read" /\ pc' = "load" /\ taken' = taken + 1
            /\ UNCHANGED <<m_size, m_back, lost, accepted>>
        BY <1>3 DEF dequeue_read, accepted
      <3>2. m_size \in Nat /\ taken \in Nat /\ lost \in Nat
        BY DEF IInv, TypeOK
      <3> QED
        BY <1>0, <2>1, <3>1, <3>2 DEF IInv, SizeCountsKeys
    <2>5. WindowIntact'
      BY <1>3 DEF dequeue_read, IInv, WindowIntact, accepted
    <2>6. InFlight'
      BY <1>3 DEF dequeue_read, IInv, InFlight
    <2> QED
      BY <2>3, <2>4, <2>5, <2>6 DEF IInv
  <1>4. CASE dequeue_load
    <2>1. TypeOK' /\ InFlight'
      BY <1>4 DEF dequeue_load, IInv, TypeOK, InFlight, queueVars
    <2>2. SizeCountsKeys' /\ WindowIntact'
      BY <1>4 DEF dequeue_load, IInv, SizeCountsKeys, WindowIntact, queueVars, accepted
    <2> QED
      BY <2>1, <2>2 DEF IInv
  <1>5. CASE dequeue_store
    <2>1. m_size - rax \in Nat /\ rax - 1 \in 0 .. capacity
      BY <1>5 DEF dequeue_store, IInv, TypeOK, InFlight
    <2>2. TypeOK' /\ InFlight'
      BY <1>5, <2>1 DEF dequeue_store, IInv, TypeOK, InFlight
    <2>3. SizeCountsKeys'
      BY <1>0, <1>5, <2>1 DEF dequeue_store, IInv, TypeOK, SizeCountsKeys, accepted
    <2>4. WindowIntact'
      BY <1>5 DEF dequeue_store, IInv, WindowIntact, accepted
    <2> QED
      BY <2>2, <2>3, <2>4 DEF IInv
  <1>6. CASE UNCHANGED vars
    BY <1>6 DEF vars, IInv, TypeOK, SizeCountsKeys, WindowIntact, InFlight, accepted
  <1> QED
    BY <1>1, <1>2, <1>3, <1>4, <1>5, <1>6 DEF Next, Dequeue

-----------------------------------------------------------------------------

\* The inductive invariant holds in every reachable state.
THEOREM KeyboardIInv == Spec => []IInv
  BY InitIInv, NextIInv, PTL DEF Spec

\* Whatever the interleaving of the handler and the main loop, m_size stays
\* between 0 and capacity: the unlocked --m_size never wraps below zero, and
\* no index leaves the array.
THEOREM KeyboardTypeOK == Spec => []TypeOK
  <1>1. IInv => TypeOK
    BY DEF IInv
  <1> QED
    BY <1>1, KeyboardIInv, PTL

\* The race costs exactly the increments that arrive between the load and the
\* store of --m_size, and never moves m_front or m_back.
THEOREM KeyboardSizeCountsKeys == Spec => []SizeCountsKeys
  <1>1. IInv => SizeCountsKeys
    BY DEF IInv
  <1> QED
    BY <1>1, KeyboardIInv, PTL

\* The handler overwrites no slot the main loop still has to read, as long as
\* the backlog fits the queue.
THEOREM KeyboardWindowIntact == Spec => []WindowIntact
  <1>1. IInv => WindowIntact
    BY DEF IInv
  <1> QED
    BY <1>1, KeyboardIInv, PTL

\* A read returns the key that was accepted next, if the backlog fits.
LEMMA ReadInOrder ==
    ASSUME IInv
    PROVE  [dequeue_read /\ accepted - taken <= capacity => item' = history[taken + 1]]_vars
  <1> SUFFICES ASSUME dequeue_read, accepted - taken <= capacity
               PROVE  item' = history[taken + 1]
    OBVIOUS
  <1> USE QueueAssumption
  <1>1. accepted \in Nat /\ taken \in Nat /\ m_size \in Nat /\ lost \in Nat
    BY LenProperties DEF IInv, TypeOK, accepted
  <1>2. taken < accepted /\ m_front = taken % capacity
    BY <1>1 DEF IInv, SizeCountsKeys, InFlight, dequeue_read
  <1> QED
    BY <1>1, <1>2 DEF IInv, WindowIntact, dequeue_read

\* get() returns the keys in the order they were accepted while the backlog
\* fits the queue, for every capacity.
THEOREM KeyboardInOrder == Spec => InOrder
  <1>1. IInv => [dequeue_read /\ accepted - taken <= capacity => item' = history[taken + 1]]_vars
    BY ReadInOrder
  <1> QED
    BY <1>1, KeyboardIInv, PTL DEF Spec, InOrder

-----------------------------------------------------------------------------
(* The line editor. *)

\* What the editor keeps, as one record.
EdType ==
    [input : [0 .. lineSize - 1 -> Keys \cup {NUL}], pos : 0 .. lineSize - 1,
     mode : {"editing", "hung"}, cleared : Nat, lines : Nat, typed : Seq(Keys),
     moved : BOOLEAN]

\* The line of an editor whose cursor no arrow key has moved is what was typed.
LineOK(e) ==
    ~e.moved => /\ Len(e.typed) = e.pos
                /\ \A i \in 1 .. e.pos : e.input[i - 1] = e.typed[i]

\* Erasing the last character of a line.
LEMMA EraseLastProperties ==
    ASSUME NEW s \in Seq(Keys)
    PROVE  /\ EraseLast(s) \in Seq(Keys)
           /\ s # <<>> => /\ Len(EraseLast(s)) = Len(s) - 1
                          /\ \A i \in 1 .. Len(s) - 1 : EraseLast(s)[i] = s[i]
  <1>1. CASE s = <<>>
    BY <1>1 DEF EraseLast
  <1>2. CASE s # <<>>
    <2>1. Len(s) \in Nat /\ Len(s) >= 1
      BY <1>2, EmptySeq, LenProperties
    <2>2. EraseLast(s) = SubSeq(s, 1, Len(s) - 1)
      BY <1>2 DEF EraseLast, Front
    <2> DEFINE n == Len(s) - 1
    <2>3. 1 \in 1 .. Len(s) + 1 /\ n \in 1 - 1 .. Len(s) /\ n \in Nat /\ n - 1 + 1 = n
      BY <2>1
    <2> HIDE DEF n
    <2>4. SubSeq(s, 1, n) \in Seq(Keys) /\ Len(SubSeq(s, 1, n)) = n
      BY <2>1, <2>3, SubSeqProperties
    <2>5. \A i \in 1 .. n : SubSeq(s, 1, n)[i] = s[i]
      BY <2>1, <2>3, SubSeqProperties
    <2> QED
      BY <1>2, <2>2, <2>4, <2>5 DEF n
  <1> QED
    BY <1>1, <1>2

\* Enter starts a new line, and neither it nor a command touches the array.
LEMMA HandleCommand ==
    ASSUME NEW e \in EdType, NEW input \in [0 .. lineSize - 1 -> Keys \cup {NUL}]
    PROVE  /\ handle_command(e, input) \in EdType
           /\ LineOK(handle_command(e, input))
  <1>1. 0 \in 0 .. lineSize - 1
    BY LineAssumption
  <1>2. /\ handle_command(e, input).pos = 0 /\ handle_command(e, input).typed = <<>>
        /\ handle_command(e, input) \in EdType
    BY <1>1 DEF handle_command, EdType
  <1> QED
    BY <1>2 DEF LineOK

\* A key that is neither an arrow, Enter, Backspace nor None.
Printable == Keys \ {"enter", "backspace", "UpArrow", "DownArrow", "LeftArrow", "RightArrow"}

\* A key keeps pos within the array, and the line what was typed.
LEMMA HandleKey ==
    ASSUME NEW e \in EdType, LineOK(e), NEW key \in Keys \cup {None}
    PROVE  /\ handle_key(e, key) \in EdType
           /\ LineOK(handle_key(e, key))
  <1> USE LineAssumption, KeyAssumption
  <1>0. /\ e.input \in [0 .. lineSize - 1 -> Keys \cup {NUL}] /\ e.pos \in 0 .. lineSize - 1
        /\ e.typed \in Seq(Keys) /\ Len(e.typed) \in Nat
    BY LenProperties DEF EdType
  <1>1. CASE key \in {None, "UpArrow", "DownArrow"}
    <2>1. handle_key(e, key) = e
      <3>1. CASE key = None
        BY <3>1 DEF handle_key, None
      <3>2. CASE key = "UpArrow"
        BY <3>2 DEF handle_key
      <3>3. CASE key = "DownArrow"
        BY <3>3 DEF handle_key
      <3> QED
        BY <1>1, <3>1, <3>2, <3>3
    <2> QED
      BY <2>1
  <1>2. CASE key = "enter"
    <2>1. [e.input EXCEPT ![e.pos] = NUL] \in [0 .. lineSize - 1 -> Keys \cup {NUL}]
      BY <1>0
    <2>2. handle_key(e, key) = handle_command(e, [e.input EXCEPT ![e.pos] = NUL])
      BY <1>2 DEF handle_key, None
    <2> QED
      BY <2>1, <2>2, HandleCommand
  <1>3. CASE key = "backspace"
    <2>1. CASE e.pos > 0
      <3> DEFINE d == [e EXCEPT !.pos = e.pos - 1, !.typed = EraseLast(e.typed)]
      <3>1. handle_key(e, key) = d
        BY <1>3, <2>1 DEF handle_key, None
      <3>2. e.pos - 1 \in 0 .. lineSize - 1 /\ EraseLast(e.typed) \in Seq(Keys)
        BY <1>0, <2>1, EraseLastProperties
      <3>3. d \in EdType
        BY <3>2 DEF EdType
      <3>4. /\ d.pos = e.pos - 1 /\ d.typed = EraseLast(e.typed) /\ d.input = e.input
            /\ d.moved = e.moved
        BY DEF EdType
      <3>5. LineOK(d)
        <4> SUFFICES ASSUME ~e.moved
                     PROVE  /\ Len(EraseLast(e.typed)) = e.pos - 1
                            /\ \A i \in 1 .. e.pos - 1 : e.input[i - 1] = EraseLast(e.typed)[i]
          BY <3>4 DEF LineOK
        <4>1. Len(e.typed) = e.pos /\ \A i \in 1 .. e.pos : e.input[i - 1] = e.typed[i]
          BY DEF LineOK
        <4>2. e.typed # <<>>
          BY <2>1, <4>1, <1>0
        <4>3. /\ Len(EraseLast(e.typed)) = Len(e.typed) - 1
              /\ \A i \in 1 .. Len(e.typed) - 1 : EraseLast(e.typed)[i] = e.typed[i]
          BY <1>0, <4>2, EraseLastProperties
        <4> QED
          BY <1>0, <4>1, <4>3
      <3> QED
        BY <3>1, <3>3, <3>5
    <2>2. CASE ~(e.pos > 0)
      BY <1>3, <2>2 DEF handle_key, None
    <2> QED
      BY <2>1, <2>2
  <1>4. CASE key = "LeftArrow"
    <2>1. CASE e.pos > 0
      <3> DEFINE d == [e EXCEPT !.pos = e.pos - 1, !.moved = TRUE]
      <3>1. handle_key(e, key) = d
        BY <1>4, <2>1 DEF handle_key, None
      <3>2. e.pos - 1 \in 0 .. lineSize - 1
        BY <1>0, <2>1
      <3>3. d \in EdType /\ d.moved = TRUE
        BY <3>2 DEF EdType
      <3> QED
        BY <3>1, <3>3 DEF LineOK
    <2>2. CASE ~(e.pos > 0)
      BY <1>4, <2>2 DEF handle_key, None
    <2> QED
      BY <2>1, <2>2
  <1>5. CASE key = "RightArrow"
    <2>1. CASE e.pos < lineSize - 1 /\ e.input[e.pos] # NUL
      <3> DEFINE d == [e EXCEPT !.pos = e.pos + 1, !.moved = TRUE]
      <3>1. handle_key(e, key) = d
        BY <1>5, <2>1 DEF handle_key, None
      <3>2. e.pos + 1 \in 0 .. lineSize - 1
        BY <1>0, <2>1
      <3>3. d \in EdType /\ d.moved = TRUE
        BY <3>2 DEF EdType
      <3> QED
        BY <3>1, <3>3 DEF LineOK
    <2>2. CASE ~(e.pos < lineSize - 1 /\ e.input[e.pos] # NUL)
      BY <1>5, <2>2 DEF handle_key, None
    <2> QED
      BY <2>1, <2>2
  <1>6. CASE key \in Printable
    <2>0. key \in Keys /\ key # None
      BY <1>6 DEF Printable
    <2>1. CASE e.pos < lineSize - 1
      <3> DEFINE d == [e EXCEPT !.input = [e.input EXCEPT ![e.pos] = key],
                                !.pos = e.pos + 1, !.typed = Append(e.typed, key)]
      <3>1. handle_key(e, key) = d
        BY <1>6, <2>0, <2>1 DEF handle_key, Printable
      <3>2. /\ e.pos + 1 \in 0 .. lineSize - 1 /\ Append(e.typed, key) \in Seq(Keys)
            /\ [e.input EXCEPT ![e.pos] = key] \in [0 .. lineSize - 1 -> Keys \cup {NUL}]
        BY <1>0, <2>0, <2>1, AppendProperties
      <3>3. d \in EdType
        BY <3>2 DEF EdType
      <3>4. /\ d.pos = e.pos + 1 /\ d.typed = Append(e.typed, key)
            /\ d.input = [e.input EXCEPT ![e.pos] = key] /\ d.moved = e.moved
        BY DEF EdType
      <3>5. LineOK(d)
        <4> SUFFICES ASSUME ~e.moved
                     PROVE  /\ Len(Append(e.typed, key)) = e.pos + 1
                            /\ \A i \in 1 .. e.pos + 1 :
                                  [e.input EXCEPT ![e.pos] = key][i - 1] = Append(e.typed, key)[i]
          BY <3>4 DEF LineOK
        <4>1. Len(e.typed) = e.pos /\ \A i \in 1 .. e.pos : e.input[i - 1] = e.typed[i]
          BY DEF LineOK
        <4>2. /\ Len(Append(e.typed, key)) = e.pos + 1
              /\ \A i \in 1 .. e.pos : Append(e.typed, key)[i] = e.typed[i]
              /\ Append(e.typed, key)[e.pos + 1] = key
          BY <1>0, <2>0, <4>1, AppendProperties
        <4> QED
          BY <1>0, <4>1, <4>2
      <3> QED
        BY <3>1, <3>3, <3>5
    <2>2. CASE ~(e.pos < lineSize - 1)
      BY <1>6, <2>0, <2>2 DEF handle_key, Printable
    <2> QED
      BY <2>1, <2>2
  <1> QED
    BY <1>1, <1>2, <1>3, <1>4, <1>5, <1>6 DEF Printable

-----------------------------------------------------------------------------
(* The shell on top of the buffer. *)

\* The keys the shell has handled: the one it has read but not yet counted off
\* m_size is still to come.
Handled == IF pc \in {"load", "store"} THEN taken - 1 ELSE taken

\* run lists the states of an editor fed with the first n keys of the history.
IsRun(run, input, n) ==
    run = [k \in 0 .. n |->
              IF k = 0 THEN InitEd(input) ELSE handle_key(run[k - 1], history[k])]

\* Until the race strikes, the shell is where the keys it has handled lead an
\* editor, and the key it has read is the next one.  That there is such a run
\* of the editor, and that all of them end in the same state, is carried along
\* with every key, as it cannot be had from an induction over the history.
Follows ==
    lost = 0 =>
        /\ taken <= accepted
        /\ pc \in {"load", "store"} => taken >= 1 /\ item = history[taken]
        /\ \E input \in [0 .. lineSize - 1 -> Junk] :
              /\ \E run : IsRun(run, input, Handled)
              /\ \A run : IsRun(run, input, Handled) => run[Handled] = ed

ShellIInv == IInv /\ ed \in EdType /\ LineOK(ed) /\ Follows

\* One more key: a run of the editor goes on with handle_key.
LEMMA RunStep ==
    ASSUME NEW n \in Nat, NEW input
    PROVE  /\ (\E run : IsRun(run, input, n)) => \E run : IsRun(run, input, n + 1)
           /\ \A run : IsRun(run, input, n + 1) =>
                 \E shorter : /\ IsRun(shorter, input, n)
                              /\ run[n + 1] = handle_key(shorter[n], history[n + 1])
  <1>1. ASSUME NEW run, IsRun(run, input, n)
        PROVE  \E longer : IsRun(longer, input, n + 1)
    <2> DEFINE longer == [k \in 0 .. n + 1 |->
                             IF k = n + 1 THEN handle_key(run[n], history[n + 1]) ELSE run[k]]
    <2>1. run = [k \in 0 .. n |->
                    IF k = 0 THEN InitEd(input) ELSE handle_key(run[k - 1], history[k])]
      BY <1>1 DEF IsRun
    <2>2. ASSUME NEW k \in 0 .. n + 1
          PROVE  longer[k] = IF k = 0 THEN InitEd(input)
                             ELSE handle_key(longer[k - 1], history[k])
      <3>1. CASE k = n + 1
        <4>1. longer[k] = handle_key(run[n], history[n + 1]) /\ longer[k - 1] = run[n]
          BY <3>1
        <4> QED
          BY <3>1, <4>1
      <3>2. CASE k \in 1 .. n
        <4>1. longer[k] = run[k] /\ longer[k - 1] = run[k - 1]
          BY <3>2
        <4>2. run[k] = handle_key(run[k - 1], history[k])
          BY <2>1, <3>2
        <4> QED
          BY <3>2, <4>1, <4>2
      <3>3. CASE k = 0
        <4>1. longer[k] = run[k] /\ run[k] = InitEd(input)
          BY <2>1, <3>3
        <4> QED
          BY <3>3, <4>1
      <3> QED
        BY <3>1, <3>2, <3>3
    <2>3. IsRun(longer, input, n + 1)
      <3>1. longer = [k \in 0 .. n + 1 |-> longer[k]]
        OBVIOUS
      <3> HIDE DEF longer
      <3> QED
        BY <2>2, <3>1 DEF IsRun
    <2> QED
      BY <2>3
  <1>2. ASSUME NEW run, IsRun(run, input, n + 1)
        PROVE  \E shorter : /\ IsRun(shorter, input, n)
                            /\ run[n + 1] = handle_key(shorter[n], history[n + 1])
    <2> DEFINE shorter == [k \in 0 .. n |-> run[k]]
    <2>1. run = [k \in 0 .. n + 1 |->
                    IF k = 0 THEN InitEd(input) ELSE handle_key(run[k - 1], history[k])]
      BY <1>2 DEF IsRun
    <2>2. ASSUME NEW k \in 0 .. n
          PROVE  shorter[k] = IF k = 0 THEN InitEd(input)
                              ELSE handle_key(shorter[k - 1], history[k])
      <3>1. CASE k = 0
        BY <2>1, <3>1
      <3>2. CASE k # 0
        <4>1. shorter[k] = run[k] /\ shorter[k - 1] = run[k - 1]
          BY <3>2
        <4>2. run[k] = handle_key(run[k - 1], history[k])
          BY <2>1, <3>2
        <4> QED
          BY <3>2, <4>1, <4>2
      <3> QED
        BY <3>1, <3>2
    <2>3. shorter = [k \in 0 .. n |-> shorter[k]]
      OBVIOUS
    <2>4. shorter[n] = run[n]
      OBVIOUS
    <2>5. run[n + 1] = handle_key(run[n], history[n + 1])
      <3>1. n + 1 \in 0 .. n + 1 /\ n + 1 # 0 /\ n + 1 - 1 = n
        OBVIOUS
      <3> QED
        BY <2>1, <3>1
    <2> HIDE DEF shorter
    <2>6. IsRun(shorter, input, n)
      BY <2>2, <2>3 DEF IsRun
    <2> QED
      BY <2>4, <2>5, <2>6
  <1> QED
    BY <1>1, <1>2

\* Keys typed later do not change what the earlier ones did.
LEMMA SameRuns ==
    ASSUME NEW n \in Nat, NEW input, NEW run,
           \A k \in 1 .. n : history'[k] = history[k]
    PROVE  IsRun(run, input, n)' <=> IsRun(run, input, n)
  <1>1. \A k \in 0 .. n : (IF k = 0 THEN InitEd(input) ELSE handle_key(run[k - 1], history'[k]))
                        = (IF k = 0 THEN InitEd(input) ELSE handle_key(run[k - 1], history[k]))
    <2> SUFFICES ASSUME NEW k \in 0 .. n, k # 0
                 PROVE  history'[k] = history[k]
      OBVIOUS
    <2> QED
      OBVIOUS
  <1> DEFINE a == [k \in 0 .. n |->
                      IF k = 0 THEN InitEd(input) ELSE handle_key(run[k - 1], history'[k])]
             b == [k \in 0 .. n |->
                      IF k = 0 THEN InitEd(input) ELSE handle_key(run[k - 1], history[k])]
  <1>2. a = b
    BY <1>1
  <1> QED
    BY <1>2 DEF IsRun

\* A step that handles no key leaves the shell where it was.
LEMMA FollowsKept ==
    ASSUME IInv, Follows, UNCHANGED ed, lost' = 0 => lost = 0, Handled' = Handled,
           \A k \in 1 .. accepted : history'[k] = history[k],
           lost = 0 => /\ taken' <= accepted'
                       /\ pc' \in {"load", "store"} => taken' >= 1 /\ item' = history'[taken']
    PROVE  Follows'
  <1> SUFFICES ASSUME lost' = 0
               PROVE  \E input \in [0 .. lineSize - 1 -> Junk] :
                         /\ \E run : IsRun(run, input, Handled)'
                         /\ \A run : IsRun(run, input, Handled)' => run[Handled'] = ed'
    BY DEF Follows
  <1>1. lost = 0 /\ Handled \in Nat /\ Handled <= accepted /\ accepted \in Nat
    BY LenProperties DEF IInv, TypeOK, Follows, Handled, accepted
  <1>2. PICK input \in [0 .. lineSize - 1 -> Junk] :
              /\ \E run : IsRun(run, input, Handled)
              /\ \A run : IsRun(run, input, Handled) => run[Handled] = ed
    BY <1>1 DEF Follows
  <1>3. PICK n \in Nat : n = Handled
    BY <1>1
  <1>4. \A k \in 1 .. n : history'[k] = history[k]
    BY <1>1, <1>3
  <1>5. \A run : IsRun(run, input, n)' <=> IsRun(run, input, n)
    BY <1>4, SameRuns
  <1>6. n = Handled'
    BY <1>3
  <1>7. ASSUME NEW run
        PROVE  /\ IsRun(run, input, Handled)' <=> IsRun(run, input, n)'
               /\ IsRun(run, input, Handled) <=> IsRun(run, input, n)
    BY <1>3, <1>6 DEF IsRun
  <1> QED
    BY <1>2, <1>3, <1>5, <1>6, <1>7

\* get() and the handler: the key the shell is given next is the next one.
LEMMA FollowsQueue ==
    ASSUME IInv, IInv', Follows, UNCHANGED ed,
           \/ dequeue_check \/ dequeue_read \/ dequeue_load
           \/ \E code \in Scancodes : isr_keyboard(code)
    PROVE  Follows'
  <1> USE QueueAssumption
  <1>1. /\ accepted \in Nat /\ taken \in Nat /\ m_size \in 0 .. capacity /\ lost \in Nat
        /\ history \in Seq(Keys \cup {None})
    BY LenProperties DEF IInv, TypeOK, accepted
  <1>2. CASE dequeue_check
    <2>1. /\ pc = "idle" /\ pc' \in {"idle", "read"} /\ UNCHANGED <<history, taken, lost>>
      BY <1>2 DEF dequeue_check
    <2>2. Handled' = Handled /\ accepted' = accepted
      BY <2>1 DEF Handled, accepted
    <2> QED
      BY <2>1, <2>2, FollowsKept DEF Follows
  <1>3. CASE dequeue_read
    <2>1. /\ pc = "read" /\ pc' = "load" /\ taken' = taken + 1 /\ UNCHANGED <<history, lost>>
          /\ item' = m_data[m_front]
      BY <1>3 DEF dequeue_read
    <2>2. Handled' = Handled /\ accepted' = accepted
      BY <1>1, <2>1 DEF Handled, accepted
    <2>3. m_size >= 1 /\ m_size + lost = accepted - taken /\ m_front = taken % capacity
      BY <1>1, <2>1 DEF IInv, InFlight, SizeCountsKeys
    <2>4. lost = 0 => taken \in 0 .. accepted - 1 /\ taken >= accepted - capacity
      BY <1>1, <2>3
    <2>5. lost = 0 => item' = history[taken + 1]
      BY <2>1, <2>3, <2>4 DEF IInv, WindowIntact
    <2>6. lost = 0 => taken' <= accepted' /\ taken' >= 1 /\ item' = history'[taken']
      BY <1>1, <2>1, <2>2, <2>4, <2>5
    <2> QED
      BY <2>1, <2>2, <2>6, FollowsKept
  <1>4. CASE dequeue_load
    <2>1. pc = "load" /\ pc' = "store" /\ UNCHANGED <<history, taken, lost, item>>
      BY <1>4 DEF dequeue_load
    <2>2. Handled' = Handled /\ accepted' = accepted
      BY <2>1 DEF Handled, accepted
    <2> QED
      BY <2>1, <2>2, FollowsKept DEF Follows
  <1>5. ASSUME NEW code \in Scancodes, isr_keyboard(code)
        PROVE  Follows'
    <2>1. UNCHANGED <<pc, item, taken, lost>>
      BY <1>5 DEF isr_keyboard, dequeueVars
    <2>2. Handled' = Handled
      BY <2>1 DEF Handled
    <2>3. /\ accepted' \in Nat /\ accepted <= accepted'
          /\ \A k \in 1 .. accepted : history'[k] = history[k]
      <3>1. CASE isFull
        BY <1>1, <1>5, <3>1 DEF isr_keyboard, enqueue, accepted
      <3>2. CASE ~isFull
        <4>1. scancode_to_key(code) \in Keys \cup {None}
          BY DecodedKey DEF IInv
        <4>2. history' = Append(history, scancode_to_key(code))
          BY <1>5, <3>2 DEF isr_keyboard, enqueue
        <4> QED
          BY <1>1, <4>1, <4>2, AppendProperties DEF accepted
      <3> QED
        BY <3>1, <3>2
    <2>4. lost = 0 => /\ taken' <= accepted'
                      /\ pc' \in {"load", "store"} => taken' >= 1 /\ item' = history'[taken']
      BY <1>1, <2>1, <2>3 DEF Follows
    <2> QED
      BY <2>1, <2>2, <2>3, <2>4, FollowsKept
  <1> QED
    BY <1>2, <1>3, <1>4, <1>5

\* The shell handles the key it has read.
LEMMA FollowsStore ==
    ASSUME IInv, Follows, dequeue_store, ed' = handle_key(ed, item)
    PROVE  Follows'
  <1> SUFFICES ASSUME lost' = 0
               PROVE  /\ taken' <= accepted' /\ pc' = "idle"
                      /\ \E input \in [0 .. lineSize - 1 -> Junk] :
                            /\ \E run : IsRun(run, input, Handled)'
                            /\ \A run : IsRun(run, input, Handled)' => run[Handled'] = ed'
    BY DEF Follows
  <1>1. /\ pc = "store" /\ pc' = "idle" /\ UNCHANGED <<history, taken, item>>
        /\ lost' = lost + (m_size - rax)
    BY DEF dequeue_store
  <1>2. lost = 0
    BY <1>1 DEF IInv, TypeOK, InFlight
  <1>3. taken <= accepted /\ taken >= 1 /\ item = history[taken] /\ taken \in Nat
    BY <1>1, <1>2 DEF Follows, IInv, TypeOK
  <1>4. PICK n \in Nat : n = taken - 1
    BY <1>3
  <1>5. Handled = n /\ Handled' = n + 1
    BY <1>1, <1>3, <1>4 DEF Handled
  <1>6. PICK input \in [0 .. lineSize - 1 -> Junk] :
              /\ \E run : IsRun(run, input, Handled)
              /\ \A run : IsRun(run, input, Handled) => run[Handled] = ed
    BY <1>2 DEF Follows
  <1>7. \A run : IsRun(run, input, Handled) <=> IsRun(run, input, n)
    BY <1>5 DEF IsRun
  <1>8. \A run : IsRun(run, input, Handled)' <=> IsRun(run, input, n + 1)
    BY <1>1, <1>5 DEF IsRun
  <1>9. \E run : IsRun(run, input, n + 1)
    BY <1>6, <1>7, RunStep
  <1>10. ASSUME NEW run, IsRun(run, input, n + 1)
         PROVE  run[n + 1] = ed'
    <2>1. PICK shorter : /\ IsRun(shorter, input, n)
                         /\ run[n + 1] = handle_key(shorter[n], history[n + 1])
      BY <1>10, RunStep
    <2>2. shorter[n] = ed
      BY <1>5, <1>6, <1>7, <2>1
    <2>3. history[n + 1] = item
      BY <1>3, <1>4
    <2> QED
      BY <2>1, <2>2, <2>3
  <1>11. accepted' = accepted
    BY <1>1 DEF accepted
  <1> QED
    BY <1>1, <1>3, <1>5, <1>8, <1>9, <1>10, <1>11

\* Before the first key the editor is new, whatever its array contains.
LEMMA ShellInitIInv == ShellInit => ShellIInv
  <1> SUFFICES ASSUME ShellInit PROVE ShellIInv
    OBVIOUS
  <1>1. Init /\ IInv
    BY InitIInv DEF ShellInit
  <1>2. PICK input \in [0 .. lineSize - 1 -> Junk] : ed = InitEd(input)
    BY DEF ShellInit
  <1>3. ed \in EdType
    <2>1. 0 \in 0 .. lineSize - 1 /\ input \in [0 .. lineSize - 1 -> Keys \cup {NUL}]
      BY LineAssumption
    <2> QED
      BY <1>2, <2>1 DEF InitEd, EdType
  <1>4. LineOK(ed)
    BY <1>2 DEF InitEd, LineOK
  <1>5. Follows
    <2>1. taken = 0 /\ pc = "idle" /\ accepted = 0 /\ Handled = 0
      BY <1>1 DEF Init, accepted, Handled
    <2> DEFINE first == [k \in 0 .. 0 |-> InitEd(input)]
    <2>2. IsRun(first, input, 0)
      <3>1. first = [k \in 0 .. 0 |->
                        IF k = 0 THEN InitEd(input) ELSE handle_key(first[k - 1], history[k])]
        OBVIOUS
      <3> QED
        BY <3>1 DEF IsRun
    <2>3. ASSUME NEW run, IsRun(run, input, 0)
          PROVE  run[0] = ed
      BY <1>2, <2>3 DEF IsRun
    <2> HIDE DEF first
    <2> QED
      BY <2>1, <2>2, <2>3 DEF Follows
  <1> QED
    BY <1>1, <1>3, <1>4, <1>5 DEF ShellIInv

\* Every step of the shell and of the handler keeps the invariant.
LEMMA ShellNextIInv == ShellIInv /\ [ShellNext]_shellVars => ShellIInv'
  <1> SUFFICES ASSUME ShellIInv, [ShellNext]_shellVars PROVE ShellIInv'
    OBVIOUS
  <1>1. ASSUME [Next]_vars PROVE IInv'
    BY <1>1, NextIInv DEF ShellIInv
  <1>2. CASE shell_step
    <2>1. CASE (dequeue_check \/ dequeue_read \/ dequeue_load) /\ UNCHANGED ed
      <3>1. IInv'
        BY <1>1, <2>1 DEF Next, Dequeue
      <3> QED
        BY <2>1, <3>1, FollowsQueue DEF ShellIInv
    <2>2. CASE dequeue_store /\ ed' = handle_key(ed, item)
      <3>1. IInv'
        BY <1>1, <2>2 DEF Next, Dequeue
      <3>2. item \in Keys \cup {None}
        BY DEF ShellIInv, IInv, TypeOK
      <3>3. ed' \in EdType /\ LineOK(ed')
        BY <2>2, <3>2, HandleKey DEF ShellIInv
      <3>4. Follows'
        BY <2>2, FollowsStore DEF ShellIInv
      <3> QED
        BY <3>1, <3>3, <3>4 DEF ShellIInv
    <2> QED
      BY <1>2, <2>1, <2>2 DEF shell_step
  <1>3. CASE keyboard_interrupt
    <2>1. PICK code \in Scancodes : isr_keyboard(code) /\ UNCHANGED ed
      BY <1>3 DEF keyboard_interrupt
    <2>2. IInv'
      BY <1>1, <2>1 DEF Next
    <2> QED
      BY <2>1, <2>2, FollowsQueue DEF ShellIInv
  <1>4. CASE UNCHANGED shellVars
    <2>1. UNCHANGED vars /\ UNCHANGED ed
      BY <1>4 DEF shellVars
    <2>2. IInv'
      BY <1>1, <2>1
    <2>3. UNCHANGED <<history, taken, lost, pc, item>> /\ accepted' = accepted
      BY <2>1 DEF vars, accepted
    <2>4. Handled' = Handled
      BY <2>3 DEF Handled
    <2>5. Follows'
      BY <2>1, <2>3, <2>4, FollowsKept DEF ShellIInv, Follows
    <2> QED
      BY <2>1, <2>2, <2>5 DEF ShellIInv
  <1>5. CASE kernel_hang
    BY <1>4, <1>5 DEF kernel_hang
  <1> QED
    BY <1>2, <1>3, <1>4, <1>5 DEF ShellNext

\* The inductive invariant of the shell.
THEOREM ShellInvariant == ShellSpec => []ShellIInv
  BY ShellInitIInv, ShellNextIInv, PTL DEF ShellSpec

\* Neither the final input[pos] = '\0' nor input[pos++] = key of the line editor
\* writes past the array, whatever is typed and whatever the line's size.
THEOREM ShellTypes == ShellSpec => []ShellTypeOK
  <1>1. ShellIInv => ShellTypeOK
    BY DEF ShellIInv, EdType, ShellTypeOK
  <1> QED
    BY <1>1, ShellInvariant, PTL

\* handle_command gets the line the user typed, free of what the uninitialised
\* array or an earlier line left behind.
THEOREM ShellLineIsWhatWasTyped == ShellSpec => []LineIsWhatWasTyped
  <1>1. ShellIInv => LineIsWhatWasTyped
    BY DEF ShellIInv, LineOK, LineIsWhatWasTyped
  <1> QED
    BY <1>1, ShellInvariant, PTL

\* Until the race on m_size strikes, the shell is in the state that the keys
\* typed so far lead an editor to when they are fed to it directly.
THEOREM ShellFollowsHistory == ShellSpec => []ShellSeesHistory
  <1>1. ShellIInv => ShellSeesHistory
    <2> SUFFICES ASSUME ShellIInv, lost = 0, pc \in {"idle", "read"}
                 PROVE  \E input \in [0 .. lineSize - 1 -> Junk] : ed = EditorAfter(input, taken)
      BY DEF ShellSeesHistory
    <2>1. Handled = taken
      BY DEF Handled
    <2>2. PICK input \in [0 .. lineSize - 1 -> Junk] :
              /\ \E run : IsRun(run, input, Handled)
              /\ \A run : IsRun(run, input, Handled) => run[Handled] = ed
      BY DEF ShellIInv, Follows
    <2> DEFINE run == CHOOSE r : IsRun(r, input, taken)
    <2>3. IsRun(run, input, taken)
      BY <2>1, <2>2
    <2>4. run[taken] = ed
      BY <2>1, <2>2, <2>3
    <2>5. EditorAfter(input, taken) = run[taken]
      BY DEF EditorAfter, IsRun
    <2> QED
      BY <2>4, <2>5
  <1> QED
    BY <1>1, ShellInvariant, PTL

\* The shell uses the buffer as its specification says, so what is proved of
\* the buffer holds under the shell: sizes, slots and the order of the keys.
THEOREM ShellKeepsBuffer ==
    ShellSpec => [](TypeOK /\ SizeCountsKeys /\ WindowIntact) /\ InOrder
  <1>1. ShellInit => Init
    BY DEF ShellInit
  <1>2. [ShellNext]_shellVars => [Next]_vars
    BY DEF ShellNext, shell_step, keyboard_interrupt, kernel_hang, shellVars, Next, Dequeue
  <1>3. IInv => TypeOK /\ SizeCountsKeys /\ WindowIntact
    BY DEF IInv
  <1>4. IInv /\ [Next]_vars =>
            [dequeue_read /\ accepted - taken <= capacity
                => item' = history[taken + 1]]_vars
    BY ReadInOrder
  <1> QED
    BY <1>1, <1>2, <1>3, <1>4, InitIInv, NextIInv, PTL DEF ShellSpec, InOrder
=============================================================================
