---------------------------- MODULE TerminalProofs ----------------------------
(***************************************************************************)
(* Proofs about the terminal under printf and the shell: the viewport      *)
(* stays inside the line buffer and the newest lines are kept, whatever is *)
(* printed; and the screen shows them until a line is used again, unless a *)
(* null character is printed.  And printf writes what its format and its   *)
(* arguments stand for.  For every size of the buffer and of the           *)
(* framebuffer, every format and every number.                             *)
(***************************************************************************)
EXTENDS Console, FiniteSetTheorems, SequenceTheorems, NaturalsInduction,
        WellFoundedInduction, TLAPS

(* Arithmetic of the circular buffer. *)

\* An index that has gone around the buffer at most once.
LEMMA ModOnce ==
    ASSUME NEW m \in Nat \ {0}, NEW x \in Nat, x < m + m
    PROVE  x % m = IF x < m THEN x ELSE x - m
  <1> DEFINE q == x \div m
             r == x % m
  <1>1. q \in Nat /\ r \in 0 .. m - 1 /\ x = q * m + r
    BY SMT
  <1> HIDE DEF q, r
  <1>2. CASE q = 0
    BY <1>1, <1>2 DEF r
  <1>3. CASE q = 1
    BY <1>1, <1>3 DEF r
  <1>4. CASE q >= 2
    <2>1. q * m >= m + m
      BY <1>1, <1>4, SMT
    <2> QED
      BY <1>1, <2>1
  <1> QED
    BY <1>1, <1>2, <1>3, <1>4

\* The smaller and the larger of two numbers.
LEMMA Bounds ==
    ASSUME NEW a \in Int, NEW b \in Int
    PROVE  /\ SmallerOf(a, b) \in {a, b} /\ SmallerOf(a, b) <= a /\ SmallerOf(a, b) <= b
           /\ LargerOf(a, b) \in {a, b} /\ LargerOf(a, b) >= a /\ LargerOf(a, b) >= b
  BY DEF SmallerOf, LargerOf

\* The sizes of the line buffer and of the viewport.
LEMMA Sizes ==
    /\ s_maxLines \in Nat \ {0} /\ s_maxColumns \in Nat \ {0}
    /\ m_lineSize \in 1 .. s_maxColumns /\ m_visibleLines \in 1 .. s_maxLines
  <1>1. s_maxLines \in Nat \ {0} /\ s_maxColumns \in Nat \ {0}
        /\ Columns \in Nat \ {0} /\ Rows \in Nat \ {0}
    BY TerminalAssumption
  <1> QED
    BY <1>1 DEF m_lineSize, m_visibleLines, SmallerOf

(* Sequences of anything: printf writes whatever its format holds. *)

IsSeq(s) == Len(s) \in Nat /\ s = [i \in 1 .. Len(s) |-> s[i]]

Elements(s) == {s[i] : i \in 1 .. Len(s)}

\* A sequence is a sequence of its elements.
LEMMA SeqOfElements ==
    ASSUME NEW s
    PROVE  /\ IsSeq(s) => s \in Seq(Elements(s))
           /\ \A S : s \in Seq(S) => IsSeq(s)
  <1>1. ASSUME IsSeq(s) PROVE s \in Seq(Elements(s))
    BY <1>1 DEF IsSeq, Elements
  <1>2. ASSUME NEW S, s \in Seq(S) PROVE IsSeq(s)
    BY <1>2, LenProperties DEF IsSeq
  <1> QED
    BY <1>1, <1>2

\* A character, or anything else, at the end of a sequence.
LEMMA Extended ==
    ASSUME NEW s, IsSeq(s), NEW c
    PROVE  /\ IsSeq(s \o <<c>>) /\ Len(s \o <<c>>) = Len(s) + 1
           /\ \A i \in 1 .. Len(s) : (s \o <<c>>)[i] = s[i]
           /\ (s \o <<c>>)[Len(s) + 1] = c
           /\ Append(s, c) = s \o <<c>>
  <1> DEFINE S == Elements(s) \cup {c}
  <1>1. s \in Seq(S) /\ Len(s) \in Nat
    <2>1. s \in Seq(Elements(s))
      BY SeqOfElements
    <2> QED
      BY <2>1, SeqMonotonic, LenProperties
  <1>2. <<c>> \in Seq(S) /\ Len(<<c>>) = 1 /\ <<c>>[1] = c
    OBVIOUS
  <1> HIDE DEF S
  <1>3. /\ s \o <<c>> \in Seq(S) /\ Len(s \o <<c>>) = Len(s) + 1
        /\ \A i \in 1 .. Len(s) + 1 :
              (s \o <<c>>)[i] = IF i <= Len(s) THEN s[i] ELSE <<c>>[i - Len(s)]
    BY <1>1, <1>2, ConcatProperties
  <1>4. Append(s, c) = s \o <<c>>
    BY <1>1, AppendIsConcat DEF S
  <1>5. IsSeq(s \o <<c>>)
    BY <1>3, SeqOfElements
  <1>6. (s \o <<c>>)[Len(s) + 1] = c
    <2>1. Len(s) + 1 - Len(s) = 1
      BY <1>1
    <2> QED
      BY <1>1, <1>2, <1>3, <2>1
  <1> QED
    BY <1>1, <1>3, <1>4, <1>5, <1>6

\* Two sequences of anything, one behind the other.
LEMMA Joined ==
    ASSUME NEW s, NEW t, IsSeq(s), IsSeq(t)
    PROVE  /\ IsSeq(s \o t) /\ Len(s \o t) = Len(s) + Len(t)
           /\ \A i \in 1 .. Len(s) + Len(t) :
                 (s \o t)[i] = IF i <= Len(s) THEN s[i] ELSE t[i - Len(s)]
  <1> DEFINE S == Elements(s) \cup Elements(t)
  <1>1. s \in Seq(S) /\ t \in Seq(S)
    BY SeqOfElements, SeqMonotonic
  <1> HIDE DEF S
  <1>2. s \o t \in Seq(S)
    BY <1>1, ConcatProperties
  <1> QED
    BY <1>1, <1>2, ConcatProperties, SeqOfElements

\* The new line at the end of the history, and what is given up for it.
LEMMA NewestLines ==
    ASSUME NEW s, IsSeq(s), NEW c, NEW n \in Nat \ {0}, Len(s) <= n
    PROVE  LET t == Newest(Append(s, c), n)
           IN  /\ IsSeq(t)
               /\ Len(s) < n => /\ Len(t) = Len(s) + 1 /\ t[Len(s) + 1] = c
                                /\ \A i \in 1 .. Len(s) : t[i] = s[i]
               /\ Len(s) = n => /\ Len(t) = n /\ t[n] = c
                                /\ \A i \in 1 .. n - 1 : t[i] = s[i + 1]
  <1> DEFINE a == Append(s, c)
             t == Newest(a, n)
  <1>1. /\ IsSeq(a) /\ Len(a) = Len(s) + 1 /\ Len(s) \in Nat /\ a[Len(s) + 1] = c
        /\ \A i \in 1 .. Len(s) : a[i] = s[i]
    <2>1. a = s \o <<c>> /\ Len(s) \in Nat
      BY Extended DEF IsSeq
    <2> QED
      BY <2>1, Extended
  <1> HIDE DEF a
  <1>2. CASE Len(s) < n
    <2>1. LargerOf(1, Len(a) - n + 1) = 1
      BY <1>1, <1>2 DEF LargerOf
    <2>2. a \in Seq(Elements(a))
      BY <1>1, SeqOfElements
    <2>3. t = a
      BY <2>1, <2>2, SubSeqFull DEF Newest
    <2> QED
      BY <1>1, <1>2, <2>3 DEF a
  <1>3. CASE Len(s) = n
    <2>1. LargerOf(1, Len(a) - n + 1) = 2
      BY <1>1, <1>3 DEF LargerOf
    <2>2. t = SubSeq(a, 2, n + 1)
      BY <1>1, <1>3, <2>1 DEF Newest
    <2>3. \A i \in 2 .. n + 1 : a[i] \in Elements(a)
      BY <1>1, <1>3 DEF Elements
    <2>4. /\ t \in Seq(Elements(a)) /\ Len(t) = IF 2 <= n + 1 THEN n + 1 - 2 + 1 ELSE 0
          /\ \A i \in 1 .. n + 1 - 2 + 1 : t[i] = a[2 + i - 1]
      BY <2>2, <2>3, SubSeqProperties
    <2>5. Len(t) = n /\ \A i \in 1 .. n : t[i] = a[i + 1]
      <3>1. n + 1 - 2 + 1 = n /\ 2 <= n + 1
        OBVIOUS
      <3>2. \A i \in 1 .. n : 2 + i - 1 = i + 1
        OBVIOUS
      <3> QED
        BY <2>4, <3>1, <3>2
    <2>6. \A i \in 1 .. n - 1 : t[i] = s[i + 1]
      BY <1>1, <1>3, <2>5
    <2>7. t[n] = c
      BY <1>1, <1>3, <2>5
    <2>8. IsSeq(t)
      BY <2>4, SeqOfElements
    <2> QED
      BY <1>3, <2>5, <2>6, <2>7, <2>8 DEF a
  <1> QED
    BY <1>1, <1>2, <1>3

-----------------------------------------------------------------------------
(* The inductive invariant. *)

\* The oldest line is the first one until the buffer is full, and the viewport
\* starts at a line that is in use.
Ring ==
    /\ m_size \in 1 .. s_maxLines /\ m_front \in 0 .. s_maxLines - 1
    /\ m_front # 0 => m_size = s_maxLines
    /\ m_firstVisibleLine \in 0 .. m_size - 1

Cells ==
    /\ DOMAIN m_lineBuffer = 0 .. s_maxLines - 1
    /\ \A i \in 0 .. s_maxLines - 1 : DOMAIN m_lineBuffer[i] = 0 .. s_maxColumns - 1

\* No line is longer than a row, so the cell a character goes to exists.
Lines ==
    /\ IsSeq(lines) /\ \A i \in 1 .. Len(lines) : IsSeq(lines[i]) /\ Len(lines[i]) <= m_lineSize
    /\ ScrollbackKept

IInv == Ring /\ Cells /\ Lines

\* Where the lines of the buffer are.
slot(i) == (m_front + (i - 1)) % s_maxLines

\* Where line i of size lines is when the oldest is at front.
LEMMA SlotOf ==
    ASSUME NEW front \in 0 .. s_maxLines - 1, NEW i \in 1 .. s_maxLines
    PROVE  (front + (i - 1)) % s_maxLines = IF front + (i - 1) < s_maxLines
                                            THEN front + (i - 1)
                                            ELSE front + (i - 1) - s_maxLines
  <1>1. PICK x : x = front + (i - 1)
    OBVIOUS
  <1>2. x \in Nat /\ x < s_maxLines + s_maxLines
    BY <1>1, Sizes
  <1>3. x % s_maxLines = IF x < s_maxLines THEN x ELSE x - s_maxLines
    BY <1>2, ModOnce, Sizes
  <1> QED
    BY <1>1, <1>2, <1>3, Sizes

\* The lines of the buffer are in different slots.
LEMMA Slots ==
    ASSUME NEW front \in 0 .. s_maxLines - 1
    PROVE  /\ \A i \in 1 .. s_maxLines : (front + (i - 1)) % s_maxLines \in 0 .. s_maxLines - 1
           /\ \A i, j \in 1 .. s_maxLines :
                 (front + (i - 1)) % s_maxLines = (front + (j - 1)) % s_maxLines => i = j
  <1>1. \A i \in 1 .. s_maxLines :
           (front + (i - 1)) % s_maxLines = IF front + (i - 1) < s_maxLines
                                            THEN front + (i - 1)
                                            ELSE front + (i - 1) - s_maxLines
    BY SlotOf
  <1> DEFINE f(i) == (front + (i - 1)) % s_maxLines
  <1>2. \A i \in 1 .. s_maxLines : f(i) = IF front + (i - 1) < s_maxLines
                                          THEN front + (i - 1)
                                          ELSE front + (i - 1) - s_maxLines
    BY <1>1
  <1> HIDE DEF f
  <1>3. \A i \in 1 .. s_maxLines : f(i) \in 0 .. s_maxLines - 1
    BY <1>2, Sizes
  <1>4. \A i, j \in 1 .. s_maxLines : f(i) = f(j) => i = j
    BY <1>2, Sizes
  <1> QED
    BY <1>3, <1>4 DEF f

\* Giving up the oldest line moves the others one place up.
LEMMA SlotsShift ==
    ASSUME NEW front \in 0 .. s_maxLines - 1, NEW i \in 1 .. s_maxLines - 1
    PROVE  /\ (front + 1) % s_maxLines \in 0 .. s_maxLines - 1
           /\ (((front + 1) % s_maxLines) + (i - 1)) % s_maxLines = (front + i) % s_maxLines
  <1>1. PICK g : g = (front + 1) % s_maxLines
    OBVIOUS
  <1>2. /\ front + (2 - 1) = front + 1 /\ front + ((i + 1) - 1) = front + i
        /\ 2 \in 1 .. s_maxLines /\ i + 1 \in 1 .. s_maxLines /\ i \in 1 .. s_maxLines
    BY Sizes
  <1>3. g = IF front + 1 < s_maxLines THEN front + 1 ELSE front + 1 - s_maxLines
    <2>1. (front + (2 - 1)) % s_maxLines = IF front + (2 - 1) < s_maxLines
                                           THEN front + (2 - 1)
                                           ELSE front + (2 - 1) - s_maxLines
      BY <1>2, SlotOf
    <2> QED
      BY <1>1, <1>2, <2>1
  <1>4. g \in 0 .. s_maxLines - 1
    BY <1>3, Sizes
  <1>5. (g + (i - 1)) % s_maxLines = IF g + (i - 1) < s_maxLines
                                     THEN g + (i - 1) ELSE g + (i - 1) - s_maxLines
    BY <1>2, <1>4, SlotOf
  <1>6. (front + i) % s_maxLines = IF front + i < s_maxLines
                                   THEN front + i ELSE front + i - s_maxLines
    <2>1. (front + ((i + 1) - 1)) % s_maxLines = IF front + ((i + 1) - 1) < s_maxLines
                                                 THEN front + ((i + 1) - 1)
                                                 ELSE front + ((i + 1) - 1) - s_maxLines
      BY <1>2, SlotOf
    <2> QED
      BY <1>2, <2>1
  <1> QED
    BY <1>1, <1>3, <1>4, <1>5, <1>6, Sizes

\* The viewport starts and ends inside the buffer.
LEMMA Viewport ==
    ASSUME Ring
    PROVE  /\ firstVisibleLineIndex \in 0 .. m_size - 1
           /\ ViewportInside
  <1>1. firstVisibleLineIndex \in 0 .. m_size - 1
    BY Sizes DEF Ring, firstVisibleLineIndex
  <1> QED
    BY <1>1, Sizes DEF Ring, ViewportInside, lastVisibleLineIndex, SmallerOf

-----------------------------------------------------------------------------
(* The steps. *)

\* A character on the line being written.
LEMMA WriteHere ==
    ASSUME IInv, NEW character, write(character), ~line_wrap(character)
    PROVE  IInv'
  <1> DEFINE col == m_currentColumn
             raw == slot(m_size)
  <1>1. /\ Ring /\ Cells /\ IsSeq(lines) /\ Len(lines) = m_size /\ col = Len(lines[m_size])
        /\ \A i \in 1 .. m_size : IsSeq(lines[i]) /\ Len(lines[i]) <= m_lineSize
        /\ \A i \in 1 .. m_size : \A j \in 1 .. Len(lines[i]) : getLine(i - 1)[j - 1] = lines[i][j]
    BY DEF IInv, Lines, ScrollbackKept
  <1>2. /\ character # NL /\ col \in 0 .. m_lineSize - 1 /\ col \in 0 .. s_maxColumns - 1
        /\ m_size \in 1 .. m_size /\ m_size \in Nat
    <2>1. character # NL /\ ~(col >= m_lineSize)
      BY DEF line_wrap
    <2>2. m_size \in 1 .. m_size /\ m_size \in Nat
      BY <1>1, Sizes DEF Ring
    <2>3. col \in Nat
      BY <1>1, <2>2 DEF IsSeq
    <2> QED
      BY <2>1, <2>2, <2>3, Sizes
  <1>3. /\ UNCHANGED <<m_front, m_size, m_firstVisibleLine>> /\ m_currentColumn' = col + 1
        /\ m_lineBuffer' = [m_lineBuffer EXCEPT ![raw][col] = character]
    <2>1. (m_front + m_size - 1) % s_maxLines = raw
      <3>1. m_front + m_size - 1 = m_front + (m_size - 1)
        BY <1>1, Sizes DEF Ring
      <3> QED
        BY <3>1 DEF slot
    <2> QED
      BY <1>2, <2>1 DEF write, buffer_write, same_line
  <1>4. lines' = [lines EXCEPT ![m_size] = lines[m_size] \o <<character>>]
    BY <1>1, <1>2 DEF write
  <1>5. /\ raw \in 0 .. s_maxLines - 1 /\ \A i \in 1 .. m_size : slot(i) = raw => i = m_size
        /\ \A i \in 1 .. m_size : slot(i) \in 0 .. s_maxLines - 1
    <2>1. PICK front \in 0 .. s_maxLines - 1 : front = m_front
      BY <1>1 DEF Ring
    <2>2. \A i \in 1 .. m_size : i \in 1 .. s_maxLines
      BY <1>1, Sizes DEF Ring
    <2>3. \A i : slot(i) = (front + (i - 1)) % s_maxLines
      BY <2>1 DEF slot
    <2> QED
      BY <1>2, <2>2, <2>3, Slots
  <1> HIDE DEF col, raw
  <1>6. PICK new : new = lines[m_size] \o <<character>>
    OBVIOUS
  <1>7. /\ IsSeq(new) /\ Len(new) = col + 1 /\ new[col + 1] = character
        /\ \A j \in 1 .. col : new[j] = lines[m_size][j]
    BY <1>1, <1>2, <1>6, Extended DEF col
  <1>8. /\ IsSeq(lines') /\ Len(lines') = m_size /\ lines'[m_size] = new
        /\ \A i \in 1 .. m_size : i # m_size => lines'[i] = lines[i]
    <2> DEFINE S == Elements(lines) \cup {new}
    <2>1. lines \in Seq(S)
      BY <1>1, SeqOfElements, SeqMonotonic
    <2>2. new \in S
      OBVIOUS
    <2> HIDE DEF S
    <2>3. lines' = [lines EXCEPT ![m_size] = new]
      BY <1>4, <1>6
    <2>4. /\ lines' \in Seq(S) /\ Len(lines') = m_size
          /\ \A i \in 1 .. m_size : lines'[i] = IF i = m_size THEN new ELSE lines[i]
      BY <1>1, <1>2, <2>1, <2>2, <2>3, ExceptSeq
    <2> QED
      BY <1>2, <2>4, SeqOfElements
  <1>9. Ring'
    BY <1>1, <1>3 DEF Ring
  <1>10. /\ Cells'
         /\ \A i \in 0 .. s_maxLines - 1 : i # raw => m_lineBuffer'[i] = m_lineBuffer[i]
         /\ m_lineBuffer'[raw] = [m_lineBuffer[raw] EXCEPT ![col] = character]
    BY <1>1, <1>3, <1>5 DEF Cells
  <1>11. \A i \in 1 .. m_size : getLine(i - 1)' = m_lineBuffer'[slot(i)]
                                /\ getLine(i - 1) = m_lineBuffer[slot(i)]
    BY <1>3 DEF getLine, slot
  <1>12. ASSUME NEW i \in 1 .. m_size, NEW j \in 1 .. Len(lines'[i])
         PROVE  m_lineBuffer'[slot(i)][j - 1] = lines'[i][j]
    <2>1. slot(i) \in 0 .. s_maxLines - 1
      BY <1>5
    <2>2. CASE i # m_size
      <3>1. lines'[i] = lines[i] /\ slot(i) # raw
        BY <1>5, <1>8, <2>2
      <3>2. m_lineBuffer'[slot(i)] = m_lineBuffer[slot(i)]
        BY <1>10, <2>1, <3>1
      <3> QED
        BY <1>1, <1>11, <1>12, <3>1, <3>2
    <2>3. CASE i = m_size
      <3>1. slot(i) = raw /\ lines'[i] = new /\ j \in 1 .. col + 1
        BY <1>7, <1>8, <1>12, <2>3 DEF raw
      <3>2. DOMAIN m_lineBuffer[raw] = 0 .. s_maxColumns - 1
        BY <1>1, <1>5 DEF Cells
      <3>3. CASE j = col + 1
        <4>1. j - 1 = col
          BY <1>2, <3>3
        <4> QED
          BY <1>2, <1>7, <1>10, <3>1, <3>2, <3>3, <4>1
      <3>4. CASE j # col + 1
        <4>1. j \in 1 .. col /\ j - 1 # col /\ j - 1 \in 0 .. s_maxColumns - 1
          BY <1>2, <3>1, <3>4, Sizes
        <4>2. m_lineBuffer'[raw][j - 1] = m_lineBuffer[raw][j - 1]
          BY <1>10, <3>2, <4>1
        <4>3. m_lineBuffer[raw][j - 1] = lines[m_size][j]
          BY <1>1, <1>2, <1>11, <2>3, <3>1, <4>1 DEF col
        <4> QED
          BY <1>7, <3>1, <4>1, <4>2, <4>3
      <3> QED
        BY <3>3, <3>4
    <2> QED
      BY <2>2, <2>3
  <1>13. ScrollbackKept'
    <2>1. (\A i \in 1 .. m_size : \A j \in 1 .. Len(lines[i]) :
              getLine(i - 1)[j - 1] = lines[i][j])'
      BY <1>3, <1>11, <1>12
    <2>2. (Len(lines) = m_size /\ m_currentColumn = Len(lines[m_size]))'
      BY <1>3, <1>7, <1>8
    <2> QED
      BY <2>1, <2>2 DEF ScrollbackKept
  <1>14. \A i \in 1 .. Len(lines') : IsSeq(lines'[i]) /\ Len(lines'[i]) <= m_lineSize
    BY <1>1, <1>2, <1>7, <1>8, Sizes
  <1> QED
    BY <1>8, <1>9, <1>10, <1>13, <1>14 DEF IInv, Lines

\* A new line, on which the character may be written: k is the number of old
\* lines that are given up for it.
LEMMA NewLine ==
    ASSUME IInv, NEW character, write(character), line_wrap(character),
           NEW k \in {0, 1}, Ring', m_size' = m_size + 1 - k,
           k = 1 <=> m_size = s_maxLines,
           \A i \in 1 .. m_size' - 1 : slot(i)' = slot(i + k),
           m_front' = next_line.front, m_size' = next_line.size
    PROVE  IInv'
  <1> DEFINE glyphs == IF character = NL THEN <<>> ELSE <<character>>
             raw    == (m_front' + (m_size' - 1)) % s_maxLines
  <1>1. /\ Ring /\ Cells /\ IsSeq(lines) /\ Len(lines) = m_size
        /\ \A i \in 1 .. m_size : IsSeq(lines[i]) /\ Len(lines[i]) <= m_lineSize
        /\ \A i \in 1 .. m_size : \A j \in 1 .. Len(lines[i]) : getLine(i - 1)[j - 1] = lines[i][j]
    BY DEF IInv, Lines, ScrollbackKept
  <1>2. /\ m_size \in Nat /\ m_size' \in 1 .. s_maxLines /\ m_size' \in 1 .. m_size'
        /\ m_front' \in 0 .. s_maxLines - 1
    BY <1>1, Sizes DEF Ring
  <1>3. /\ IsSeq(glyphs)
        /\ character = NL => Len(glyphs) = 0
        /\ character # NL => Len(glyphs) = 1 /\ glyphs[1] = character
    BY DEF IsSeq
  <1>4. lines' = Newest(Append(lines, glyphs), s_maxLines)
    BY DEF write
  <1>5. /\ m_currentColumn' = Len(glyphs)
        /\ m_lineBuffer' = IF character = NL THEN m_lineBuffer
                           ELSE [m_lineBuffer EXCEPT ![raw][0] = character]
    <2>1. raw = (next_line.front + next_line.size - 1) % s_maxLines
      <3>1. m_front' + (m_size' - 1) = m_front' + m_size' - 1
        BY <1>2
      <3> QED
        BY <3>1
    <2>2. next_line.column = 0
      BY DEF next_line
    <2> QED
      BY <1>3, <2>1, <2>2 DEF write, buffer_write
  <1>6. /\ raw \in 0 .. s_maxLines - 1
        /\ \A i \in 1 .. m_size' : /\ slot(i)' \in 0 .. s_maxLines - 1
                                   /\ slot(i)' = raw => i = m_size'
    <2>1. PICK front \in 0 .. s_maxLines - 1 : front = m_front'
      BY <1>2
    <2>2. \A i \in 1 .. m_size' : i \in 1 .. s_maxLines
      BY <1>2, Sizes
    <2>3. \A i : slot(i)' = (front + (i - 1)) % s_maxLines
      BY <2>1 DEF slot
    <2>4. raw = (front + (m_size' - 1)) % s_maxLines
      BY <2>1
    <2> QED
      BY <1>2, <2>2, <2>3, <2>4, Slots
  <1> HIDE DEF raw, glyphs
  <1>7. /\ IsSeq(lines') /\ Len(lines') = m_size' /\ lines'[m_size'] = glyphs
        /\ \A i \in 1 .. m_size' - 1 : lines'[i] = lines[i + k] /\ i + k \in 1 .. m_size
    <2>1. CASE k = 0
      <3>1. m_size < s_maxLines /\ m_size' = m_size + 1
        BY <1>1, <1>2, <2>1, Sizes DEF Ring
      <3>2. /\ IsSeq(lines') /\ Len(lines') = m_size + 1 /\ lines'[m_size + 1] = glyphs
            /\ \A i \in 1 .. m_size : lines'[i] = lines[i]
        BY <1>1, <1>4, <3>1, NewestLines, Sizes
      <3>3. \A i \in 1 .. m_size' - 1 : i + k = i /\ i \in 1 .. m_size
        BY <1>2, <2>1, <3>1
      <3> QED
        BY <3>1, <3>2, <3>3
    <2>2. CASE k = 1
      <3>1. m_size = s_maxLines /\ m_size' = m_size
        BY <1>1, <1>2, <2>2, Sizes DEF Ring
      <3>2. /\ IsSeq(lines') /\ Len(lines') = m_size /\ lines'[m_size] = glyphs
            /\ \A i \in 1 .. m_size - 1 : lines'[i] = lines[i + 1]
        BY <1>1, <1>4, <3>1, NewestLines, Sizes
      <3>3. \A i \in 1 .. m_size - 1 : i + 1 \in 1 .. m_size
        BY <1>2
      <3> QED
        BY <2>2, <3>1, <3>2, <3>3
    <2> QED
      BY <2>1, <2>2
  <1>8. /\ Cells'
        /\ \A i \in 0 .. s_maxLines - 1 : i # raw => m_lineBuffer'[i] = m_lineBuffer[i]
        /\ character # NL => m_lineBuffer'[raw][0] = character
    <2>1. CASE character = NL
      BY <1>1, <1>5, <2>1 DEF Cells
    <2>2. CASE character # NL
      <3>1. 0 \in 0 .. s_maxColumns - 1
        BY Sizes
      <3>2. m_lineBuffer' = [m_lineBuffer EXCEPT ![raw] = [m_lineBuffer[raw] EXCEPT ![0] = character]]
        BY <1>5, <2>2
      <3> QED
        BY <1>1, <1>6, <2>2, <3>1, <3>2 DEF Cells
    <2> QED
      BY <2>1, <2>2
  <1>9. ASSUME NEW i \in 1 .. m_size', NEW j \in 1 .. Len(lines'[i])
        PROVE  m_lineBuffer'[slot(i)'][j - 1] = lines'[i][j]
    <2>1. CASE i = m_size'
      <3>1. lines'[i] = glyphs /\ slot(i)' = raw
        BY <1>7, <2>1 DEF slot, raw
      <3>2. character # NL /\ j = 1
        <4>1. j \in 1 .. Len(glyphs)
          BY <1>9, <3>1
        <4>2. CASE character = NL
          <5>1. Len(glyphs) = 0
            BY <1>3, <4>2
          <5> QED
            BY <4>1, <5>1
        <4>3. CASE character # NL
          <5>1. Len(glyphs) = 1
            BY <1>3, <4>3
          <5> QED
            BY <4>1, <4>3, <5>1
        <4> QED
          BY <4>2, <4>3
      <3> QED
        BY <1>3, <1>8, <3>1, <3>2
    <2>2. CASE i # m_size'
      <3>1. i \in 1 .. m_size' - 1
        BY <1>2, <2>2
      <3>2. /\ lines'[i] = lines[i + k] /\ i + k \in 1 .. m_size /\ slot(i)' = slot(i + k)
            /\ slot(i)' # raw /\ slot(i)' \in 0 .. s_maxLines - 1
        BY <1>6, <1>7, <2>2, <3>1
      <3>3. m_lineBuffer'[slot(i)'] = m_lineBuffer[slot(i + k)]
        BY <1>8, <3>2
      <3>4. m_lineBuffer[slot(i + k)] = getLine(i + k - 1)
        <4>1. m_front + ((i + k) - 1) = m_front + (i + k - 1)
          BY <3>2
        <4> QED
          BY <4>1 DEF getLine, slot
      <3>5. getLine(i + k - 1)[j - 1] = lines[i + k][j]
        BY <1>1, <1>9, <3>2
      <3> QED
        BY <3>2, <3>3, <3>4, <3>5
    <2> QED
      BY <2>1, <2>2
  <1>10. ScrollbackKept'
    <2>1. (\A i \in 1 .. m_size : \A j \in 1 .. Len(lines[i]) :
              getLine(i - 1)[j - 1] = lines[i][j])'
      BY <1>9 DEF getLine, slot
    <2>2. (Len(lines) = m_size /\ m_currentColumn = Len(lines[m_size]))'
      BY <1>5, <1>7
    <2> QED
      BY <2>1, <2>2 DEF ScrollbackKept
  <1>11. \A i \in 1 .. Len(lines') : IsSeq(lines'[i]) /\ Len(lines'[i]) <= m_lineSize
    <2> SUFFICES ASSUME NEW i \in 1 .. m_size'
                 PROVE  IsSeq(lines'[i]) /\ Len(lines'[i]) <= m_lineSize
      BY <1>7
    <2>1. CASE i = m_size'
      <3>1. Len(glyphs) \in 0 .. 1
        BY <1>3
      <3>2. lines'[i] = glyphs
        BY <1>7, <2>1
      <3>3. Len(glyphs) <= m_lineSize
        <4>1. m_lineSize \in Nat /\ 1 <= m_lineSize
          BY Sizes
        <4>2. PICK n \in 0 .. 1 : n = Len(glyphs)
          BY <3>1
        <4>3. n <= m_lineSize
          BY <4>1
        <4> QED
          BY <4>2, <4>3
      <3> QED
        BY <1>3, <3>2, <3>3
    <2>2. CASE i # m_size'
      <3>1. i \in 1 .. m_size' - 1
        BY <1>2, <2>2
      <3> QED
        BY <1>1, <1>7, <3>1
    <2> QED
      BY <2>1, <2>2
  <1> QED
    BY <1>7, <1>8, <1>10, <1>11 DEF IInv, Lines

\* Terminal::write.
LEMMA WriteStep ==
    ASSUME IInv, NEW character, write(character)
    PROVE  IInv'
  <1>1. CASE ~line_wrap(character)
    BY <1>1, WriteHere
  <1>2. CASE line_wrap(character)
    <2>1. Ring /\ m_size \in Nat /\ m_front \in Nat /\ m_firstVisibleLine \in Nat
      BY Sizes DEF IInv, Ring
    <2>2. /\ m_front' = next_line.front /\ m_size' = next_line.size
          /\ m_firstVisibleLine' = next_line.first
      BY <1>2 DEF write, buffer_write
    <2>3. /\ next_line.front = IF m_size >= s_maxLines THEN (m_front + 1) % s_maxLines ELSE m_front
          /\ next_line.size = IF m_size >= s_maxLines THEN m_size ELSE m_size + 1
      BY DEF next_line
    <2>4. CASE m_size = s_maxLines
      <3>1. m_front' = (m_front + 1) % s_maxLines /\ m_size' = m_size
        BY <2>1, <2>2, <2>3, <2>4, Sizes
      <3>2. (m_front + 1) % s_maxLines \in 0 .. s_maxLines - 1
        BY <2>1, Sizes, SMT
      <3>3. next_line.first \in 0 .. m_size - 1
        <4>1. (m_firstVisibleLine + 1) % s_maxLines \in 0 .. s_maxLines - 1
          BY <2>1, Sizes, SMT
        <4>2. PICK first \in 0 .. s_maxLines - 1 : \E bottom \in 0 .. s_maxLines - 1 :
                 next_line.first = LargerOf(first, bottom)
          <5>1. next_line.first =
                   LargerOf(IF m_size >= s_maxLines /\ m_firstVisibleLine = m_front'
                            THEN (m_firstVisibleLine + 1) % s_maxLines ELSE m_firstVisibleLine,
                            IF m_size > m_visibleLines THEN m_size - m_visibleLines ELSE 0)
            BY <2>2, <2>3, <2>4, <3>1, Sizes DEF next_line
          <5>2. (IF m_size > m_visibleLines THEN m_size - m_visibleLines ELSE 0)
                   \in 0 .. s_maxLines - 1
            BY <2>4, Sizes
          <5>3. (IF m_size >= s_maxLines /\ m_firstVisibleLine = m_front'
                 THEN (m_firstVisibleLine + 1) % s_maxLines ELSE m_firstVisibleLine)
                   \in 0 .. s_maxLines - 1
            BY <2>1, <2>4, <4>1, Sizes DEF Ring
          <5> QED
            BY <5>1, <5>2, <5>3
        <4> QED
          BY <2>4, <4>2, Sizes DEF LargerOf
      <3>4. Ring'
        BY <2>1, <2>2, <2>4, <3>1, <3>2, <3>3, Sizes DEF Ring
      <3>5. \A i \in 1 .. m_size' - 1 : slot(i)' = slot(i + 1)
        <4> SUFFICES ASSUME NEW i \in 1 .. s_maxLines - 1 PROVE slot(i)' = slot(i + 1)
          BY <2>4, <3>1
        <4>1. PICK front \in 0 .. s_maxLines - 1 : front = m_front
          BY <2>1 DEF Ring
        <4>2. (((front + 1) % s_maxLines) + (i - 1)) % s_maxLines = (front + i) % s_maxLines
          BY SlotsShift
        <4>3. slot(i)' = (((front + 1) % s_maxLines) + (i - 1)) % s_maxLines
          BY <3>1, <4>1 DEF slot
        <4>4. slot(i + 1) = (front + i) % s_maxLines
          <5>1. (i + 1) - 1 = i
            BY Sizes
          <5> QED
            BY <4>1, <5>1 DEF slot
        <4> QED
          BY <4>2, <4>3, <4>4
      <3>6. PICK k \in {0, 1} : k = 1
        OBVIOUS
      <3>7. m_size' = m_size + 1 - k
        BY <2>1, <3>1, <3>6
      <3> QED
        BY <1>2, <2>2, <2>4, <3>4, <3>5, <3>6, <3>7, NewLine
    <2>5. CASE m_size # s_maxLines
      <3>1. m_front = 0 /\ m_front' = 0 /\ m_size' = m_size + 1 /\ m_size < s_maxLines
        BY <2>1, <2>2, <2>3, <2>5, Sizes DEF Ring
      <3>2. next_line.first \in 0 .. m_size
        <4>1. next_line.first =
                 LargerOf(m_firstVisibleLine,
                          IF m_size + 1 > m_visibleLines THEN m_size + 1 - m_visibleLines ELSE 0)
          BY <2>1, <3>1, Sizes DEF next_line
        <4>2. PICK bottom : bottom = IF m_size + 1 > m_visibleLines
                                     THEN m_size + 1 - m_visibleLines ELSE 0
          OBVIOUS
        <4>3. bottom \in 0 .. m_size
          BY <2>1, <4>2, Sizes
        <4> QED
          BY <2>1, <4>1, <4>2, <4>3 DEF Ring, LargerOf
      <3>3. Ring'
        BY <2>1, <2>2, <3>1, <3>2, Sizes DEF Ring
      <3>4. \A i \in 1 .. m_size' - 1 : slot(i)' = slot(i + 0)
        <4> SUFFICES ASSUME NEW i \in 1 .. m_size' - 1 PROVE slot(i)' = slot(i + 0)
          OBVIOUS
        <4>1. i + 0 = i
          BY <2>1, <3>1
        <4> QED
          BY <3>1, <4>1 DEF slot
      <3>5. PICK k \in {0, 1} : k = 0
        OBVIOUS
      <3>6. m_size' = m_size + 1 - k
        BY <2>1, <3>1, <3>5
      <3> QED
        BY <1>2, <2>2, <2>5, <3>3, <3>4, <3>5, <3>6, NewLine
    <2> QED
      BY <2>4, <2>5
  <1> QED
    BY <1>1, <1>2

\* LineBuffer::scrollDown.
LEMMA ScrollStep ==
    ASSUME IInv, NEW n \in Int, scrollDown(n)
    PROVE  IInv'
  <1>1. /\ UNCHANGED <<m_lineBuffer, m_front, m_size, m_currentColumn, lines>>
        /\ m_firstVisibleLine' = IF n >= 0 THEN SmallerOf(m_size - 1, m_firstVisibleLine + n)
                                           ELSE LargerOf(0, m_firstVisibleLine + n)
    BY DEF scrollDown
  <1>2. Ring'
    BY <1>1, Sizes DEF IInv, Ring, SmallerOf, LargerOf
  <1>3. Cells'
    BY <1>1 DEF IInv, Cells
  <1>4. Lines'
    BY <1>1 DEF IInv, Lines, ScrollbackKept, getLine
  <1> QED
    BY <1>2, <1>3, <1>4 DEF IInv

\* A history of one empty line.
LEMMA EmptyLine ==
    /\ IsSeq(<< <<>> >>) /\ Len(<< <<>> >>) = 1 /\ << <<>> >>[1] = <<>>
    /\ IsSeq(<<>>) /\ Len(<<>>) = 0
  BY DEF IsSeq

\* The buffer with one empty line, at the boot and after clear.
LEMMA Emptied ==
    ASSUME m_size = 1, m_currentColumn = 0, lines = << <<>> >>
    PROVE  Lines
  <1>1. IsSeq(lines) /\ Len(lines) = 1 /\ lines[1] = <<>> /\ IsSeq(lines[1]) /\ Len(lines[1]) = 0
    BY EmptyLine
  <1>2. \A i \in 1 .. 1 : i = 1
    OBVIOUS
  <1>3. ScrollbackKept
    BY <1>1, <1>2 DEF ScrollbackKept
  <1> QED
    BY <1>1, <1>2, <1>3, Sizes DEF Lines

\* The terminal's clear.
LEMMA ClearStep ==
    ASSUME IInv, clear
    PROVE  IInv'
  <1>1. /\ m_front' = 0 /\ m_size' = 1 /\ m_firstVisibleLine' = 0 /\ m_currentColumn' = 0
        /\ m_lineBuffer' = [m_lineBuffer EXCEPT ![0] = [j \in 0 .. s_maxColumns - 1 |-> NUL]]
        /\ lines' = << <<>> >>
    BY DEF clear
  <1>2. Ring'
    BY <1>1, Sizes DEF Ring
  <1>3. Cells'
    BY <1>1, Sizes DEF IInv, Cells
  <1>4. Lines'
    <2>1. /\ IsSeq(lines') /\ Len(lines') = 1 /\ lines'[1] = <<>> /\ IsSeq(lines'[1])
          /\ Len(lines'[1]) = 0
      BY <1>1, EmptyLine
    <2>2. \A i \in 1 .. 1 : i = 1
      OBVIOUS
    <2>3. ScrollbackKept'
      BY <1>1, <2>1, <2>2 DEF ScrollbackKept
    <2> QED
      BY <1>1, <2>1, <2>2, <2>3, Sizes DEF Lines
  <1> QED
    BY <1>2, <1>3, <1>4 DEF IInv

-----------------------------------------------------------------------------
(* The theorems. *)

\* The line buffer as its constructor leaves it.
LEMMA InitIInv == ConsoleInit => IInv
  <1> SUFFICES ASSUME ConsoleInit PROVE IInv
    OBVIOUS
  <1>1. /\ m_front = 0 /\ m_size = 1 /\ m_firstVisibleLine = 0 /\ m_currentColumn = 0
        /\ lines = << <<>> >>
        /\ \E c \in Junk :
              m_lineBuffer = [i \in 0 .. s_maxLines - 1 |-> [j \in 0 .. s_maxColumns - 1 |-> c]]
    BY DEF ConsoleInit, Init, InitLineBuffer
  <1>2. Ring
    BY <1>1, Sizes DEF Ring
  <1>3. Cells
    BY <1>1 DEF Cells
  <1>4. Lines
    BY <1>1, Emptied
  <1> QED
    BY <1>2, <1>3, <1>4 DEF IInv

\* Every step of printf and of the shell preserves the invariant.
LEMMA NextIInv == IInv /\ [ConsoleNext]_consoleVars => IInv'
  <1> SUFFICES ASSUME IInv, [ConsoleNext]_consoleVars PROVE IInv'
    OBVIOUS
  <1>1. CASE UNCHANGED vars
    <2>1. UNCHANGED <<m_lineBuffer, m_front, m_size, m_firstVisibleLine, m_currentColumn, lines>>
      BY <1>1 DEF vars
    <2> QED
      BY <2>1 DEF IInv, Ring, Cells, Lines, ScrollbackKept, getLine
  <1>2. ASSUME NEW c \in Calls, printf(c) PROVE IInv'
    BY <1>1, <1>2 DEF printf
  <1>3. CASE regular
    BY <1>1, <1>3 DEF regular
  <1>4. CASE specifier
    BY <1>1, <1>4 DEF specifier
  <1>5. CASE putchar
    <2>1. PICK character : character = Head(pending)
      OBVIOUS
    <2>2. write(Head(pending))
      BY <1>5 DEF putchar
    <2>3. write(character)
      BY <2>1, <2>2
    <2> QED
      BY <2>3, WriteStep
  <1>6. CASE return
    BY <1>1, <1>6 DEF return
  <1>7. CASE shell
    <2>1. ASSUME NEW character \in Echoed \cup {NL}, write(character) PROVE IInv'
      BY <2>1, WriteStep
    <2>2. ASSUME NEW n \in {-1, 1}, scrollDown(n) PROVE IInv'
      <3>1. n \in Int
        OBVIOUS
      <3> QED
        BY <2>2, <3>1, ScrollStep
    <2>3. CASE clear
      BY <2>3, ClearStep
    <2> QED
      BY <1>7, <2>1, <2>2, <2>3 DEF shell
  <1>8. CASE hang
    BY <1>1, <1>8 DEF hang, kernel_hang
  <1>9. CASE UNCHANGED consoleVars
    BY <1>1, <1>9 DEF consoleVars
  <1> QED
    BY <1>2, <1>3, <1>4, <1>5, <1>6, <1>7, <1>8, <1>9 DEF ConsoleNext

\* The inductive invariant of the line buffer holds under every sequence of
\* printf calls, keys, scrolling and clearing.
THEOREM TerminalInvariant == ConsoleSpec => []IInv
  BY InitIInv, NextIInv, PTL DEF ConsoleSpec

\* The viewport is never empty and never leaves the buffer, whatever its size
\* and however often the circular buffer has wrapped.
THEOREM TerminalViewportInside == ConsoleSpec => []ViewportInside
  <1>1. IInv => ViewportInside
    BY Viewport DEF IInv
  <1> QED
    BY <1>1, TerminalInvariant, PTL

\* The buffer holds the newest lines as they were written, and the next
\* character goes behind the last one.
THEOREM TerminalScrollbackKept == ConsoleSpec => []ScrollbackKept
  <1>1. IInv => ScrollbackKept
    BY DEF IInv, Lines
  <1> QED
    BY <1>1, TerminalInvariant, PTL

-----------------------------------------------------------------------------
(* Painting a text character by character. *)

\* A nonempty set of natural numbers has a smallest element.
LEMMA LeastNumber ==
    ASSUME NEW T, T \subseteq Nat, T # {}
    PROVE  \E x \in T : \A y \in T : x <= y
  <1> DEFINE R == OpToRel(<, Nat)
  <1>1. IsWellFoundedOn(R, Nat)
    BY NatLessThanWellFounded, Zenon DEF R
  <1>2. \A x, y \in Nat : x < y => <<x, y>> \in R
    BY Zenon DEF OpToRel, R
  <1> HIDE DEF R
  <1>3. PICK x \in T : \A y \in T : ~(<<y, x>> \in R)
    BY <1>1, WFMin
  <1>4. \A y \in T : ~(y < x)
    BY <1>2, <1>3
  <1> QED
    BY <1>4

\* What holds for 0 and is passed on up to n holds up to n.
LEMMA UpTo ==
    ASSUME NEW n \in Nat, NEW S, 0 \in S, \A k \in 0 .. n - 1 : k \in S => k + 1 \in S
    PROVE  \A k \in 0 .. n : k \in S
  <1> SUFFICES ASSUME (0 .. n) \ S # {} PROVE FALSE
    OBVIOUS
  <1>1. PICK T : T = (0 .. n) \ S
    OBVIOUS
  <1>2. T \subseteq Nat /\ T # {}
    BY <1>1
  <1>3. PICK x \in T : \A y \in T : x <= y
    BY <1>2, LeastNumber
  <1>4. x # 0 /\ x - 1 \in 0 .. n - 1 /\ x - 1 \in 0 .. n /\ x - 1 < x /\ (x - 1) + 1 = x
    BY <1>1, <1>3
  <1>5. x - 1 \in S
    BY <1>1, <1>3, <1>4
  <1> QED
    BY <1>1, <1>4, <1>5

\* Painting the characters of s one after the other leads from f to g.
Paints(f, s, g) ==
    \E F : /\ F[0] = f /\ F[Len(s)] = g
           /\ \A k \in 1 .. Len(s) : F[k] = paintCharacter(F[k - 1], s[k])

\* One round of the fold over the characters of s: g is the result for the others.
FoldStep(f, s, g, t) ==
    IF t = {} THEN f ELSE paintCharacter(g[t \ {Max(t)}], s[Max(t)])

\* The last of the first positions.
LEMMA MaxUpTo ==
    ASSUME NEW k \in Nat, NEW t, t \subseteq 1 .. k + 1, k + 1 \in t
    PROVE  Max(t) = k + 1
  <1>1. \A y \in t : k + 1 >= y
    OBVIOUS
  <1>2. \A x \in t : (\A y \in t : x >= y) => x = k + 1
    OBVIOUS
  <1> QED
    BY <1>1, <1>2 DEF Max

\* There is a function that computes the fold.
LEMMA FoldExists ==
    ASSUME NEW f, NEW s, NEW n \in Nat
    PROVE  \E g : g = [t \in SUBSET (1 .. n) |-> FoldStep(f, s, g, t)]
  <1> DEFINE S == {k \in Nat : \E g : g = [t \in SUBSET (1 .. k) |-> FoldStep(f, s, g, t)]}
  <1>1. 0 \in S
    <2> DEFINE g == [t \in SUBSET (1 .. 0) |-> f]
    <2>1. ASSUME NEW t \in SUBSET (1 .. 0) PROVE g[t] = FoldStep(f, s, g, t)
      BY DEF FoldStep
    <2>2. g = [t \in SUBSET (1 .. 0) |-> FoldStep(f, s, g, t)]
      BY <2>1
    <2> HIDE DEF g
    <2> QED
      BY <2>2
  <1>2. ASSUME NEW k \in 0 .. n - 1, k \in S PROVE k + 1 \in S
    <2>1. PICK g : g = [t \in SUBSET (1 .. k) |-> FoldStep(f, s, g, t)]
      BY <1>2
    <2> DEFINE h == [t \in SUBSET (1 .. k + 1) |->
                        IF k + 1 \in t THEN paintCharacter(g[t \ {k + 1}], s[k + 1]) ELSE g[t]]
    <2>2. ASSUME NEW t \in SUBSET (1 .. k + 1) PROVE h[t] = FoldStep(f, s, h, t)
      <3>1. CASE k + 1 \in t
        <4>1. Max(t) = k + 1
          <5>1. k \in Nat /\ t \subseteq 1 .. k + 1
            OBVIOUS
          <5> QED
            BY <3>1, <5>1, MaxUpTo
        <4>2. t \ {k + 1} \in SUBSET (1 .. k + 1) /\ k + 1 \notin t \ {k + 1}
          OBVIOUS
        <4>3. h[t \ {k + 1}] = g[t \ {k + 1}]
          BY <4>2
        <4>4. h[t] = paintCharacter(g[t \ {k + 1}], s[k + 1])
          BY <3>1
        <4> QED
          BY <3>1, <4>1, <4>3, <4>4 DEF FoldStep
      <3>2. CASE k + 1 \notin t
        <4>1. t \in SUBSET (1 .. k)
          BY <3>2
        <4>2. h[t] = g[t]
          BY <3>2
        <4>3. g[t] = FoldStep(f, s, g, t)
          BY <2>1, <4>1
        <4>4. t \ {Max(t)} \in SUBSET (1 .. k + 1) /\ k + 1 \notin t \ {Max(t)}
          BY <3>2
        <4>5. h[t \ {Max(t)}] = g[t \ {Max(t)}]
          BY <4>4
        <4> QED
          BY <4>2, <4>3, <4>5 DEF FoldStep
      <3> QED
        BY <3>1, <3>2
    <2>3. h = [t \in SUBSET (1 .. k + 1) |-> FoldStep(f, s, h, t)]
      BY <2>2
    <2> HIDE DEF h
    <2> QED
      BY <2>3
  <1> HIDE DEF S
  <1>3. \A k \in 0 .. n : k \in S
    BY <1>1, <1>2, UpTo
  <1>4. n \in S
    BY <1>3
  <1> QED
    BY <1>4 DEF S

\* The fold paints the characters in order.
LEMMA FoldPaints ==
    ASSUME NEW f, NEW s, IsSeq(s)
    PROVE  Paints(f, s, FoldLeft(paintCharacter, f, s))
  <1>1. PICK n \in Nat : n = Len(s)
    BY DEF IsSeq
  <1>2. DOMAIN s = 1 .. n
    BY <1>1 DEF IsSeq
  <1> DEFINE g == CHOOSE g : g = [t \in SUBSET (1 .. n) |-> FoldStep(f, s, g, t)]
  <1>3. FoldLeft(paintCharacter, f, s) = g[1 .. n]
    BY <1>2 DEF FoldLeft, MapThenFoldSet, FoldStep
  <1>4. \E h : h = [t \in SUBSET (1 .. n) |-> FoldStep(f, s, h, t)]
    BY FoldExists
  <1>5. g = [t \in SUBSET (1 .. n) |-> FoldStep(f, s, g, t)]
    BY <1>4
  <1> HIDE DEF g
  <1>6. \A t \in SUBSET (1 .. n) : g[t] = FoldStep(f, s, g, t)
    BY <1>5
  <1> DEFINE F == [k \in 0 .. n |-> g[1 .. k]]
  <1>7. F[0] = f
    <2>1. 1 .. 0 = {}
      OBVIOUS
    <2> QED
      BY <1>6, <2>1 DEF FoldStep
  <1>8. ASSUME NEW k \in 1 .. n PROVE F[k] = paintCharacter(F[k - 1], s[k])
    <2>1. PICK j \in Nat : k = j + 1 /\ j = k - 1
      <3>1. k - 1 \in Nat
        OBVIOUS
      <3> QED
        BY <3>1
    <2>2. Max(1 .. j + 1) = j + 1
      BY <2>1, MaxUpTo
    <2>3. 1 .. k \in SUBSET (1 .. n) /\ 1 .. k # {} /\ (1 .. k) \ {k} = 1 .. k - 1
      OBVIOUS
    <2>4. g[1 .. k] = paintCharacter(g[1 .. k - 1], s[k])
      BY <1>6, <2>1, <2>2, <2>3 DEF FoldStep
    <2> QED
      BY <2>4
  <1>9. F[n] = FoldLeft(paintCharacter, f, s)
    BY <1>3
  <1> HIDE DEF F
  <1> QED
    BY <1>1, <1>7, <1>8, <1>9 DEF Paints

\* There is only one way to paint a text.
LEMMA PaintsOnce ==
    ASSUME NEW f, NEW s, NEW g, NEW h, IsSeq(s), Paints(f, s, g), Paints(f, s, h)
    PROVE  g = h
  <1>1. PICK n \in Nat : n = Len(s)
    BY DEF IsSeq
  <1>2. PICK F : F[0] = f /\ F[n] = g /\ \A k \in 1 .. n : F[k] = paintCharacter(F[k - 1], s[k])
    BY <1>1 DEF Paints
  <1>3. PICK G : G[0] = f /\ G[n] = h /\ \A k \in 1 .. n : G[k] = paintCharacter(G[k - 1], s[k])
    BY <1>1 DEF Paints
  <1> DEFINE S == {k \in Nat : F[k] = G[k]}
  <1>4. 0 \in S
    BY <1>2, <1>3
  <1>5. ASSUME NEW k \in 0 .. n - 1, k \in S PROVE k + 1 \in S
    <2>1. k + 1 \in 1 .. n /\ (k + 1) - 1 = k
      OBVIOUS
    <2> QED
      BY <1>2, <1>3, <1>5, <2>1
  <1> HIDE DEF S
  <1>6. \A k \in 0 .. n : k \in S
    BY <1>4, <1>5, UpTo
  <1> QED
    BY <1>2, <1>3, <1>6 DEF S

\* The fold is what painting the text leads to.
LEMMA FoldIs ==
    ASSUME NEW f, NEW s, NEW g, IsSeq(s), Paints(f, s, g)
    PROVE  FoldLeft(paintCharacter, f, s) = g
  BY FoldPaints, PaintsOnce

\* One text after another.
LEMMA PaintsBoth ==
    ASSUME NEW f, NEW s, NEW g, NEW t, NEW h, IsSeq(s), IsSeq(t), Paints(f, s, g), Paints(g, t, h)
    PROVE  IsSeq(s \o t) /\ Paints(f, s \o t, h)
  <1>1. PICK m \in Nat, n \in Nat : m = Len(s) /\ n = Len(t)
    BY DEF IsSeq
  <1>2. /\ IsSeq(s \o t) /\ Len(s \o t) = m + n
        /\ \A i \in 1 .. m + n : (s \o t)[i] = IF i <= m THEN s[i] ELSE t[i - m]
    BY <1>1, Joined
  <1>3. PICK F : F[0] = f /\ F[m] = g /\ \A k \in 1 .. m : F[k] = paintCharacter(F[k - 1], s[k])
    BY <1>1 DEF Paints
  <1>4. PICK G : G[0] = g /\ G[n] = h /\ \A k \in 1 .. n : G[k] = paintCharacter(G[k - 1], t[k])
    BY <1>1 DEF Paints
  <1> DEFINE H == [k \in 0 .. m + n |-> IF k <= m THEN F[k] ELSE G[k - m]]
  <1>5. H[0] = f /\ H[m + n] = h
    <2>1. 0 \in 0 .. m + n /\ 0 <= m
      OBVIOUS
    <2>2. CASE n = 0
      BY <1>3, <1>4, <2>1, <2>2
    <2>3. CASE n # 0
      <3>1. ~(m + n <= m) /\ m + n \in 0 .. m + n /\ (m + n) - m = n
        BY <2>3
      <3> QED
        BY <1>3, <1>4, <2>1, <3>1
    <2> QED
      BY <2>2, <2>3
  <1>6. ASSUME NEW k \in 1 .. m + n PROVE H[k] = paintCharacter(H[k - 1], (s \o t)[k])
    <2>1. CASE k <= m
      <3>1. k \in 1 .. m /\ k - 1 <= m /\ k - 1 \in 0 .. m + n /\ k \in 0 .. m + n
        BY <2>1
      <3>2. H[k] = F[k] /\ H[k - 1] = F[k - 1] /\ (s \o t)[k] = s[k]
        BY <1>2, <2>1, <3>1
      <3> QED
        BY <1>3, <3>1, <3>2
    <2>2. CASE ~(k <= m)
      <3>1. /\ k - m \in 1 .. n /\ k - 1 \in 0 .. m + n /\ k \in 0 .. m + n
            /\ (k - 1) - m = (k - m) - 1
        BY <2>2
      <3>2. H[k] = G[k - m] /\ (s \o t)[k] = t[k - m]
        BY <1>2, <2>2, <3>1
      <3>3. H[k - 1] = G[(k - m) - 1]
        <4>1. CASE k - 1 <= m
          <5>1. k - 1 = m /\ (k - m) - 1 = 0
            BY <2>2, <4>1
          <5> QED
            BY <1>3, <1>4, <3>1, <5>1
        <4>2. CASE ~(k - 1 <= m)
          BY <3>1, <4>2
        <4> QED
          BY <4>1, <4>2
      <3> QED
        BY <1>4, <3>1, <3>2, <3>3
    <2> QED
      BY <2>1, <2>2
  <1> HIDE DEF H
  <1>7. Paints(f, s \o t, h)
    <2>1. PICK u : u = s \o t
      OBVIOUS
    <2>2. /\ H[0] = f /\ H[Len(u)] = h
          /\ \A k \in 1 .. Len(u) : H[k] = paintCharacter(H[k - 1], u[k])
      BY <1>2, <1>5, <1>6, <2>1
    <2>3. Paints(f, u, h)
      BY <2>2 DEF Paints
    <2> QED
      BY <2>1, <2>3
  <1> QED
    BY <1>2, <1>7

\* A text of one character.
LEMMA PaintsOne ==
    ASSUME NEW f, NEW c
    PROVE  IsSeq(<<c>>) /\ Paints(f, <<c>>, paintCharacter(f, c))
  <1>1. IsSeq(<<c>>) /\ Len(<<c>>) = 1 /\ <<c>>[1] = c
    BY DEF IsSeq
  <1> DEFINE F == [k \in 0 .. 1 |-> IF k = 0 THEN f ELSE paintCharacter(f, c)]
  <1>2. F[0] = f /\ F[1] = paintCharacter(f, c)
    OBVIOUS
  <1> HIDE DEF F
  <1>3. \A k \in 1 .. 1 : F[k] = paintCharacter(F[k - 1], <<c>>[k])
    BY <1>1, <1>2
  <1> QED
    BY <1>1, <1>2, <1>3 DEF Paints

\* The empty text.
LEMMA PaintsNothing ==
    ASSUME NEW f
    PROVE  IsSeq(<<>>) /\ Paints(f, <<>>, f)
  <1>1. IsSeq(<<>>) /\ Len(<<>>) = 0
    BY DEF IsSeq
  <1> DEFINE F == [k \in 0 .. 0 |-> f]
  <1>2. F[0] = f
    OBVIOUS
  <1> HIDE DEF F
  <1> QED
    BY <1>1, <1>2 DEF Paints

\* The concatenation of sequences, one at a time.
LEMMA Flattened ==
    ASSUME NEW L, NEW n \in Nat \ {0}, Len(L) = n
    PROVE  \E f : /\ f[1] = L[1] /\ \A i \in 2 .. n : f[i] = f[i - 1] \o L[i]
                  /\ FlattenSeq(L) = f[n]
  <1> DEFINE Round(f, i) == IF i = 1 THEN L[i] ELSE f[i - 1] \o L[i]
             S == {k \in Nat : \E f : f = [i \in 1 .. k |-> Round(f, i)]}
  <1>1. 0 \in S
    <2> DEFINE f == [i \in 1 .. 0 |-> 0]
    <2>1. \A i \in 1 .. 0 : f[i] = Round(f, i)
      OBVIOUS
    <2>2. f = [i \in 1 .. 0 |-> Round(f, i)]
      BY <2>1
    <2> HIDE DEF f
    <2> QED
      BY <2>2
  <1>2. ASSUME NEW k \in 0 .. n - 1, k \in S PROVE k + 1 \in S
    <2>1. PICK f : f = [i \in 1 .. k |-> Round(f, i)]
      BY <1>2
    <2>2. \A i \in 1 .. k : f[i] = Round(f, i)
      BY <2>1
    <2> DEFINE h == [i \in 1 .. k + 1 |-> IF i <= k THEN f[i] ELSE Round(f, i)]
    <2>3. ASSUME NEW i \in 1 .. k + 1 PROVE h[i] = Round(h, i)
      <3>1. h[i] = Round(f, i)
        BY <2>2
      <3>2. CASE i = 1
        BY <3>1, <3>2
      <3>3. CASE i # 1
        <4>1. i - 1 \in 1 .. k + 1 /\ i - 1 <= k
          BY <3>3
        <4>2. h[i - 1] = f[i - 1]
          BY <4>1
        <4> QED
          BY <3>1, <3>3, <4>2
      <3> QED
        BY <3>2, <3>3
    <2>4. h = [i \in 1 .. k + 1 |-> Round(h, i)]
      BY <2>3
    <2> HIDE DEF h, Round
    <2> QED
      BY <2>4
  <1> HIDE DEF S
  <1>3. \A k \in 0 .. n : k \in S
    BY <1>1, <1>2, UpTo
  <1>4. \E f : f = [i \in 1 .. n |-> Round(f, i)]
    <2> HIDE DEF Round
    <2>1. n \in S
      BY <1>3
    <2> QED
      BY <2>1 DEF S
  <1> DEFINE f == CHOOSE f : f = [i \in 1 .. n |-> Round(f, i)]
  <1>5. f = [i \in 1 .. n |-> Round(f, i)]
    <2> HIDE DEF Round
    <2> QED
      BY <1>4
  <1>6. FlattenSeq(L) = f[n]
    BY DEF FlattenSeq
  <1> HIDE DEF f
  <1>7. \A i \in 1 .. n : f[i] = Round(f, i)
    BY <1>5
  <1>8. f[1] = L[1] /\ \A i \in 2 .. n : f[i] = f[i - 1] \o L[i]
    <2>1. 1 \in 1 .. n /\ \A i \in 2 .. n : i \in 1 .. n /\ i # 1
      OBVIOUS
    <2> QED
      BY <1>7, <2>1
  <1> QED
    BY <1>6, <1>8

-----------------------------------------------------------------------------
(* What is on the screen.  L gives the text of each row. *)

Grid(cells) ==
    /\ cells = [r \in 0 .. Rows - 1 |-> cells[r]]
    /\ \A r \in 0 .. Rows - 1 : cells[r] = [c \in 0 .. Columns - 1 |-> cells[r][c]]

Screen(f) ==
    /\ f = [cells |-> f.cells, x |-> f.x, y |-> f.y, panicked |-> f.panicked]
    /\ Grid(f.cells) /\ f.x \in Nat /\ f.y \in Nat /\ f.panicked \in BOOLEAN

\* The rows above y show their text, and row y the first x characters of its own.
Painted(f, L, y, x) ==
    /\ Screen(f) /\ ~f.panicked /\ f.x = x /\ f.y = y
    /\ \A r \in 0 .. y - 1 : f.cells[r] = Padded(L[r])
    /\ \A c \in 0 .. x - 1 : f.cells[y][c] = L[y][c + 1]

\* The rows down to y show their text, and the others nothing.
Shown(f, L, y, x) ==
    /\ Screen(f) /\ ~f.panicked /\ f.x = x /\ f.y = y
    /\ \A r \in 0 .. Rows - 1 : f.cells[r] = IF r <= y THEN Padded(L[r]) ELSE BlankScreen[r]

\* A text that fits into a row.
RowText(s) ==
    IsSeq(s) /\ Len(s) <= Columns /\ \A i \in 1 .. Len(s) : s[i] # NL

\* The size of the framebuffer.
LEMMA ScreenSizes ==
    /\ Rows \in Nat \ {0} /\ Columns \in Nat \ {0}
    /\ m_lineSize <= Columns /\ m_visibleLines <= Rows
  BY TerminalAssumption DEF m_lineSize, m_visibleLines, SmallerOf

\* clear_row on a row of the screen.
LEMMA RowCleared ==
    ASSUME NEW f, Screen(f), NEW x, x = f.x, NEW y, y = f.y, y < Rows, NEW g, g = clear_row(f)
    PROVE  /\ Screen(g) /\ g.x = x /\ g.y = y /\ g.panicked = f.panicked
           /\ \A r \in 0 .. Rows - 1 : r # y => g.cells[r] = f.cells[r]
           /\ g.cells[y] = [c \in 0 .. Columns - 1 |-> IF c < x THEN f.cells[y][c] ELSE Blank]
  <1>1. PICK cells, p : cells = f.cells /\ p = f.panicked
    OBVIOUS
  <1>2. /\ f = [cells |-> cells, x |-> x, y |-> y, panicked |-> p]
        /\ Grid(cells) /\ x \in Nat /\ y \in 0 .. Rows - 1 /\ p \in BOOLEAN
    BY <1>1, ScreenSizes DEF Screen
  <1>3. PICK row : row = [c \in 0 .. Columns - 1 |-> IF c < x THEN cells[y][c] ELSE Blank]
    OBVIOUS
  <1>4. PICK new : new = [cells EXCEPT ![y] = row]
    OBVIOUS
  <1>5. g = [cells |-> new, x |-> x, y |-> y, panicked |-> p]
    BY <1>1, <1>2, <1>3, <1>4 DEF clear_row
  <1>6. /\ Grid(new) /\ new[y] = row
        /\ \A r \in 0 .. Rows - 1 : r # y => new[r] = cells[r]
    <2>1. DOMAIN cells = 0 .. Rows - 1
      BY <1>2 DEF Grid
    <2>2. new = [r \in 0 .. Rows - 1 |-> IF r = y THEN row ELSE cells[r]]
      BY <1>4, <2>1
    <2>3. \A c \in 0 .. Columns - 1 : row[c] = IF c < x THEN cells[y][c] ELSE Blank
      BY <1>3
    <2>4. row = [c \in 0 .. Columns - 1 |-> row[c]]
      BY <1>3, <2>3
    <2>5. \A r \in 0 .. Rows - 1 : new[r] = IF r = y THEN row ELSE cells[r]
      BY <2>2
    <2>6. new = [r \in 0 .. Rows - 1 |-> new[r]]
      BY <2>2, <2>5
    <2>7. \A r \in 0 .. Rows - 1 : new[r] = [c \in 0 .. Columns - 1 |-> new[r][c]]
      BY <1>2, <2>4, <2>5 DEF Grid
    <2> QED
      BY <1>2, <2>5, <2>6, <2>7 DEF Grid
  <1>7. g.cells = new /\ g.x = x /\ g.y = y /\ g.panicked = p
    BY <1>5
  <1>8. Screen(g)
    BY <1>2, <1>5, <1>6, <1>7 DEF Screen
  <1> QED
    BY <1>1, <1>3, <1>6, <1>7, <1>8

\* paint_glyph on a cell of the screen.
LEMMA GlyphAt ==
    ASSUME NEW f, Screen(f), ~f.panicked, NEW x, x = f.x, NEW y, y = f.y, x < Columns, y < Rows,
           NEW c, c # NL, NEW g, g = paintCharacter(f, c)
    PROVE  /\ Screen(g) /\ g.x = x + 1 /\ g.y = y /\ ~g.panicked
           /\ \A r \in 0 .. Rows - 1 : r # y => g.cells[r] = f.cells[r]
           /\ \A k \in 0 .. Columns - 1 : g.cells[y][k] = IF k = x THEN c ELSE f.cells[y][k]
  <1>1. PICK cells, p : cells = f.cells /\ p = f.panicked
    OBVIOUS
  <1>2. /\ f = [cells |-> cells, x |-> x, y |-> y, panicked |-> p]
        /\ Grid(cells) /\ x \in 0 .. Columns - 1 /\ y \in 0 .. Rows - 1 /\ p \in BOOLEAN /\ ~p
    BY <1>1, ScreenSizes DEF Screen
  <1>3. PICK row : row = [cells[y] EXCEPT ![x] = c]
    OBVIOUS
  <1>4. PICK new : new = [cells EXCEPT ![y] = row]
    OBVIOUS
  <1>5. g = [cells |-> new, x |-> x + 1, y |-> y, panicked |-> p]
    <2>1. g = paint_glyph(f, c)
      BY DEF paintCharacter
    <2>2. CursorInside(f)
      BY DEF CursorInside
    <2>3. paint_glyph(f, c) = [[f EXCEPT !.cells = new] EXCEPT !.x = x + 1]
      BY <1>1, <1>3, <1>4, <2>2 DEF paint_glyph
    <2>4. PICK h : h = [f EXCEPT !.cells = new]
      OBVIOUS
    <2>5. h = [cells |-> new, x |-> x, y |-> y, panicked |-> p]
      BY <1>2, <2>4
    <2>6. g = [h EXCEPT !.x = x + 1]
      BY <2>1, <2>3, <2>4
    <2> QED
      BY <2>5, <2>6
  <1>6. /\ Grid(new) /\ new[y] = row
        /\ \A r \in 0 .. Rows - 1 : r # y => new[r] = cells[r]
        /\ \A k \in 0 .. Columns - 1 : row[k] = IF k = x THEN c ELSE cells[y][k]
    <2>1. DOMAIN cells = 0 .. Rows - 1 /\ DOMAIN cells[y] = 0 .. Columns - 1
      BY <1>2 DEF Grid
    <2>2. new = [r \in 0 .. Rows - 1 |-> IF r = y THEN row ELSE cells[r]]
      BY <1>4, <2>1
    <2>3. row = [k \in 0 .. Columns - 1 |-> IF k = x THEN c ELSE cells[y][k]]
      BY <1>3, <2>1
    <2>4. row = [k \in 0 .. Columns - 1 |-> row[k]]
      BY <2>3
    <2>5. \A r \in 0 .. Rows - 1 : new[r] = IF r = y THEN row ELSE cells[r]
      BY <2>2
    <2>6. new = [r \in 0 .. Rows - 1 |-> new[r]]
      BY <2>2, <2>5
    <2>7. \A r \in 0 .. Rows - 1 : new[r] = [k \in 0 .. Columns - 1 |-> new[r][k]]
      BY <1>2, <2>4, <2>5 DEF Grid
    <2> QED
      BY <1>2, <2>3, <2>5, <2>6, <2>7 DEF Grid
  <1>7. g.cells = new /\ g.x = x + 1 /\ g.y = y /\ g.panicked = p
    BY <1>5
  <1>8. Screen(g)
    BY <1>2, <1>5, <1>6, <1>7 DEF Screen
  <1> QED
    BY <1>1, <1>2, <1>6, <1>7, <1>8

\* paint_newline above the last row.
LEMMA NewlineAt ==
    ASSUME NEW f, Screen(f), ~f.panicked, NEW x, x = f.x, NEW y, y = f.y, y + 1 < Rows,
           NEW g, g = paintCharacter(f, NL)
    PROVE  /\ Screen(g) /\ g.x = 0 /\ g.y = y + 1 /\ ~g.panicked
           /\ \A r \in 0 .. Rows - 1 : r # y => g.cells[r] = f.cells[r]
           /\ g.cells[y] = [c \in 0 .. Columns - 1 |-> IF c < x THEN f.cells[y][c] ELSE Blank]
  <1>1. PICK h : h = clear_row(f)
    OBVIOUS
  <1>2. y < Rows /\ y \in Nat
    BY ScreenSizes DEF Screen
  <1>3. /\ Screen(h) /\ h.x = x /\ h.y = y /\ h.panicked = f.panicked
        /\ \A r \in 0 .. Rows - 1 : r # y => h.cells[r] = f.cells[r]
        /\ h.cells[y] = [c \in 0 .. Columns - 1 |-> IF c < x THEN f.cells[y][c] ELSE Blank]
    BY <1>1, <1>2, RowCleared
  <1>4. g = [h EXCEPT !.x = 0, !.y = y + 1]
    <2>1. CanMoveDown(f)
      BY DEF CanMoveDown
    <2>2. g = paint_newline(f)
      BY DEF paintCharacter
    <2> QED
      BY <1>1, <1>3, <2>1, <2>2 DEF paint_newline
  <1>5. /\ g = [cells |-> h.cells, x |-> 0, y |-> y + 1, panicked |-> h.panicked]
        /\ g.cells = h.cells /\ g.x = 0 /\ g.y = y + 1 /\ g.panicked = h.panicked
    BY <1>3, <1>4 DEF Screen
  <1>6. Screen(g)
    BY <1>2, <1>3, <1>5 DEF Screen
  <1> QED
    BY <1>3, <1>5, <1>6

\* Whatever is painted, the screen keeps its shape.
LEMMA ScreenKept ==
    ASSUME NEW f, Screen(f), NEW c
    PROVE  Screen(paintCharacter(f, c))
  <1>1. CASE f.panicked
    BY <1>1 DEF paintCharacter
  <1>2. CASE ~f.panicked /\ c = NL
    <2>1. PICK h : h = clear_row(f)
      OBVIOUS
    <2>2. Screen(h)
      <3>1. CASE f.y < Rows
        BY <2>1, <3>1, RowCleared
      <3>2. CASE ~(f.y < Rows)
        <4>1. h = [f EXCEPT !.panicked = f.x < Columns]
          BY <2>1, <3>2 DEF clear_row
        <4>2. (f.x < Columns) \in BOOLEAN
          OBVIOUS
        <4>3. PICK p \in BOOLEAN : p = (f.x < Columns)
          BY <4>2
        <4>4. /\ h = [cells |-> f.cells, x |-> f.x, y |-> f.y, panicked |-> p]
              /\ h.cells = f.cells /\ h.x = f.x /\ h.y = f.y /\ h.panicked = p
          BY <4>1, <4>3 DEF Screen
        <4> QED
          BY <4>4 DEF Screen
      <3> QED
        BY <3>1, <3>2
    <2>3. PICK y : y = IF CanMoveDown(f) THEN h.y + 1 ELSE h.y
      OBVIOUS
    <2>4. y \in Nat
      BY <2>2, <2>3 DEF Screen
    <2>5. PICK g : g = [h EXCEPT !.x = 0, !.y = y]
      OBVIOUS
    <2>6. paintCharacter(f, c) = g
      <3>1. paintCharacter(f, c) = paint_newline(f)
        BY <1>2 DEF paintCharacter
      <3> QED
        BY <2>1, <2>3, <2>5, <3>1 DEF paint_newline
    <2>7. /\ g = [cells |-> h.cells, x |-> 0, y |-> y, panicked |-> h.panicked]
          /\ g.cells = h.cells /\ g.x = 0 /\ g.y = y /\ g.panicked = h.panicked
      BY <2>2, <2>5 DEF Screen
    <2>8. Screen(g)
      BY <2>2, <2>4, <2>7 DEF Screen
    <2> QED
      BY <2>6, <2>8
  <1>3. CASE ~f.panicked /\ c # NL
    <2>1. CASE f.y < Rows /\ f.x < Columns
      BY <1>3, <2>1, GlyphAt
    <2>2. CASE ~(f.y < Rows /\ f.x < Columns)
      <3>1. PICK g : g = [f EXCEPT !.panicked = TRUE]
        OBVIOUS
      <3>2. paintCharacter(f, c) = g
        BY <1>3, <2>2, <3>1 DEF paintCharacter, paint_glyph, CursorInside
      <3>3. /\ g = [cells |-> f.cells, x |-> f.x, y |-> f.y, panicked |-> TRUE]
            /\ g.cells = f.cells /\ g.x = f.x /\ g.y = f.y /\ g.panicked = TRUE
        BY <3>1 DEF Screen
      <3>4. Screen(g)
        BY <3>3 DEF Screen
      <3> QED
        BY <3>2, <3>4
    <2> QED
      BY <2>1, <2>2
  <1> QED
    BY <1>1, <1>2, <1>3

\* The text of one row, character by character.
LEMMA RowPainted ==
    ASSUME NEW f, NEW L, NEW y \in 0 .. Rows - 1, Painted(f, L, y, 0), RowText(L[y])
    PROVE  \E g : Paints(f, L[y], g) /\ Painted(g, L, y, Len(L[y]))
  <1>0. PICK s : s = L[y]
    OBVIOUS
  <1>1. PICK n \in Nat : s = L[y] /\ n = Len(s) /\ IsSeq(s) /\ n <= Columns
                         /\ \A i \in 1 .. n : s[i] # NL
    BY <1>0 DEF RowText, IsSeq
  <1> DEFINE First(k) == SubSeq(s, 1, k)
             S == {k \in Nat : \E g : IsSeq(First(k)) /\ Paints(f, First(k), g)
                                      /\ Painted(g, L, y, k)}
  <1>2. s \in Seq(Elements(s))
    BY <1>1, SeqOfElements
  <1>3. 0 \in S
    <2>1. First(0) = <<>>
      OBVIOUS
    <2> HIDE DEF First
    <2>2. IsSeq(First(0)) /\ Paints(f, First(0), f)
      BY <2>1, PaintsNothing
    <2> QED
      BY <2>2
  <1>4. ASSUME NEW k \in 0 .. n - 1, k \in S PROVE k + 1 \in S
    <2>1. PICK g : IsSeq(First(k)) /\ Paints(f, First(k), g) /\ Painted(g, L, y, k)
      BY <1>4
    <2>2. k + 1 \in 1 .. n /\ k \in 0 .. Columns - 1 /\ k \in Nat
      BY <1>1, ScreenSizes
    <2>3. PICK c : c = s[k + 1]
      OBVIOUS
    <2>4. c # NL
      BY <1>1, <2>2, <2>3
    <2>5. PICK h : h = paintCharacter(g, c)
      OBVIOUS
    <2>6. Painted(h, L, y, k + 1)
      <3>1. /\ Screen(g) /\ ~g.panicked /\ g.x = k /\ g.y = y
            /\ \A r \in 0 .. y - 1 : g.cells[r] = Padded(L[r])
            /\ \A i \in 0 .. k - 1 : g.cells[y][i] = s[i + 1]
        BY <1>1, <2>1 DEF Painted
      <3>2. y < Rows /\ k < Columns
        BY <2>2, ScreenSizes
      <3>3. /\ Screen(h) /\ h.x = k + 1 /\ h.y = y /\ ~h.panicked
            /\ \A r \in 0 .. Rows - 1 : r # y => h.cells[r] = g.cells[r]
            /\ \A i \in 0 .. Columns - 1 : h.cells[y][i] = IF i = k THEN c ELSE g.cells[y][i]
        <4>1. Screen(g) /\ ~g.panicked /\ k = g.x /\ y = g.y
          BY <3>1
        <4> QED
          BY <2>4, <2>5, <3>2, <4>1, GlyphAt
      <3>4. \A r \in 0 .. y - 1 : h.cells[r] = Padded(L[r])
        <4>1. \A r \in 0 .. y - 1 : r \in 0 .. Rows - 1 /\ r # y
          BY ScreenSizes
        <4> QED
          BY <3>1, <3>3, <4>1
      <3>5. ASSUME NEW i \in 0 .. (k + 1) - 1 PROVE h.cells[y][i] = L[y][i + 1]
        <4>1. i \in 0 .. Columns - 1 /\ (i = k \/ i \in 0 .. k - 1)
          BY <2>2, ScreenSizes
        <4> QED
          BY <1>1, <2>3, <3>1, <3>3, <4>1
      <3> QED
        BY <3>3, <3>4, <3>5 DEF Painted
    <2>7. First(k + 1) = First(k) \o <<c>>
      <3>1. \A i \in 1 .. k + 1 : s[i] \in Elements(s)
        BY <1>1, <2>2 DEF Elements
      <3>2. First(k + 1) \in Seq(Elements(s)) /\ Len(First(k + 1)) = k + 1
            /\ \A i \in 1 .. k + 1 : First(k + 1)[i] = s[i]
        BY <2>2, <3>1, SubSeqProperties
      <3>3. First(k) \in Seq(Elements(s)) /\ Len(First(k)) = k
            /\ \A i \in 1 .. k : First(k)[i] = s[i]
        BY <2>2, <3>1, SubSeqProperties
      <3> HIDE DEF First
      <3>4. /\ IsSeq(First(k) \o <<c>>) /\ Len(First(k) \o <<c>>) = k + 1
            /\ \A i \in 1 .. k : (First(k) \o <<c>>)[i] = First(k)[i]
            /\ (First(k) \o <<c>>)[k + 1] = c
        BY <2>1, <3>3, Extended
      <3>5. IsSeq(First(k + 1))
        BY <3>2, SeqOfElements
      <3>6. \A i \in 1 .. k + 1 : First(k + 1)[i] = (First(k) \o <<c>>)[i]
        <4>1. \A i \in 1 .. k + 1 : i \in 1 .. k \/ i = k + 1
          BY <2>2
        <4> QED
          BY <2>3, <3>2, <3>3, <3>4, <4>1
      <3> QED
        BY <3>2, <3>4, <3>5, <3>6 DEF IsSeq
    <2> HIDE DEF First
    <2>8. IsSeq(First(k + 1)) /\ Paints(f, First(k + 1), h)
      <3>1. IsSeq(<<c>>) /\ Paints(g, <<c>>, h)
        BY <2>5, PaintsOne
      <3> QED
        BY <2>1, <2>7, <3>1, PaintsBoth
    <2> QED
      BY <2>2, <2>6, <2>8
  <1> HIDE DEF S
  <1>5. \A k \in 0 .. n : k \in S
    BY <1>3, <1>4, UpTo
  <1>6. First(n) = s
    BY <1>1, <1>2, SubSeqFull
  <1> HIDE DEF First
  <1>7. n \in S
    BY <1>5
  <1> QED
    BY <1>1, <1>6, <1>7 DEF S

\* The end of one row and the start of the next.
LEMMA NewlinePainted ==
    ASSUME NEW f, NEW L, NEW y \in 0 .. Rows - 1, y + 1 < Rows, RowText(L[y]),
           Painted(f, L, y, Len(L[y]))
    PROVE  Painted(paintCharacter(f, NL), L, y + 1, 0)
  <1>0. PICK s : s = L[y]
    OBVIOUS
  <1>1. PICK n \in Nat : s = L[y] /\ n = Len(s) /\ RowText(s)
    BY <1>0 DEF RowText, IsSeq
  <1>2. /\ Screen(f) /\ ~f.panicked /\ f.x = n /\ f.y = y
        /\ \A r \in 0 .. y - 1 : f.cells[r] = Padded(L[r])
        /\ \A c \in 0 .. n - 1 : f.cells[y][c] = s[c + 1]
    BY <1>1 DEF Painted
  <1>3. PICK g : g = paintCharacter(f, NL)
    OBVIOUS
  <1>4. /\ Screen(g) /\ g.x = 0 /\ g.y = y + 1 /\ ~g.panicked
        /\ \A r \in 0 .. Rows - 1 : r # y => g.cells[r] = f.cells[r]
        /\ g.cells[y] = [c \in 0 .. Columns - 1 |-> IF c < n THEN f.cells[y][c] ELSE Blank]
    <2>1. Screen(f) /\ ~f.panicked /\ n = f.x /\ y = f.y
      BY <1>2
    <2> QED
      BY <1>3, <2>1, NewlineAt
  <1>5. g.cells[y] = Padded(s)
    <2>1. PICK row : row = g.cells[y]
      OBVIOUS
    <2>2. \A c \in 0 .. Columns - 1 : row[c] = IF c < n THEN s[c + 1] ELSE Blank
      <3>1. \A c \in 0 .. Columns - 1 : c < n => c \in 0 .. n - 1
        OBVIOUS
      <3> QED
        BY <1>2, <1>4, <2>1, <3>1
    <2>3. row = [c \in 0 .. Columns - 1 |-> row[c]]
      BY <1>4, <2>1
    <2> QED
      BY <1>1, <2>1, <2>2, <2>3 DEF Padded
  <1>6. ASSUME NEW r \in 0 .. (y + 1) - 1 PROVE g.cells[r] = Padded(L[r])
    <2>1. r \in 0 .. Rows - 1 /\ (r = y \/ (r \in 0 .. y - 1 /\ r # y))
      BY ScreenSizes
    <2> QED
      BY <1>1, <1>2, <1>4, <1>5, <2>1
  <1> QED
    BY <1>3, <1>4, <1>6 DEF Painted

\* The rows down to y, with newlines between them.
LEMMA RowsPainted ==
    ASSUME NEW f, NEW L, NEW y \in 0 .. Rows - 1, \A r \in 0 .. y : RowText(L[r]),
           Painted(f, L, 0, 0), NEW K, Len(K) = y + 1,
           \A i \in 1 .. y + 1 : K[i] = (IF i = 1 THEN <<>> ELSE <<NL>>) \o L[i - 1]
    PROVE  Painted(FoldLeft(paintCharacter, f, FlattenSeq(K)), L, y, Len(L[y]))
  <1>0. y \in Nat /\ y + 1 \in Nat \ {0}
    OBVIOUS
  <1>1. PICK F : /\ F[1] = K[1] /\ \A i \in 2 .. y + 1 : F[i] = F[i - 1] \o K[i]
                 /\ FlattenSeq(K) = F[y + 1]
    BY <1>0, Flattened
  <1> DEFINE S == {r \in Nat : \E g : /\ IsSeq(F[r + 1]) /\ Paints(f, F[r + 1], g)
                                      /\ Painted(g, L, r, Len(L[r]))}
  <1>2. 0 \in S
    <2>1. 0 \in 0 .. Rows - 1 /\ RowText(L[0]) /\ IsSeq(L[0])
      BY ScreenSizes DEF RowText
    <2>2. PICK g : Paints(f, L[0], g) /\ Painted(g, L, 0, Len(L[0]))
      BY <2>1, RowPainted
    <2>3. IsSeq(<<>>) /\ Paints(f, <<>>, f)
      BY PaintsNothing
    <2>4. IsSeq(<<>> \o L[0]) /\ Paints(f, <<>> \o L[0], g)
      BY <2>1, <2>2, <2>3, PaintsBoth
    <2>5. F[0 + 1] = <<>> \o L[0]
      <3>1. 1 \in 1 .. y + 1 /\ 1 - 1 = 0 /\ 0 + 1 = 1
        OBVIOUS
      <3>2. K[1] = <<>> \o L[0]
        BY <3>1
      <3> QED
        BY <1>1, <3>1, <3>2
    <2> QED
      BY <2>2, <2>4, <2>5
  <1>3. ASSUME NEW r \in 0 .. y - 1, r \in S PROVE r + 1 \in S
    <2>1. PICK g : IsSeq(F[r + 1]) /\ Paints(f, F[r + 1], g) /\ Painted(g, L, r, Len(L[r]))
      BY <1>3
    <2>2. /\ r \in 0 .. Rows - 1 /\ r + 1 < Rows /\ r + 1 \in 0 .. Rows - 1 /\ r \in 0 .. y
          /\ r + 1 \in 0 .. y /\ (r + 1) + 1 \in 2 .. y + 1 /\ (r + 1) + 1 \in 1 .. y + 1
          /\ (r + 1) + 1 # 1 /\ ((r + 1) + 1) - 1 = r + 1 /\ r + 1 \in Nat
      BY ScreenSizes
    <2>3. RowText(L[r]) /\ RowText(L[r + 1]) /\ IsSeq(L[r + 1])
      BY <2>2 DEF RowText
    <2>4. PICK h : h = paintCharacter(g, NL)
      OBVIOUS
    <2>5. Painted(h, L, r + 1, 0)
      BY <2>1, <2>2, <2>3, <2>4, NewlinePainted
    <2>6. PICK e : Paints(h, L[r + 1], e) /\ Painted(e, L, r + 1, Len(L[r + 1]))
      BY <2>2, <2>3, <2>5, RowPainted
    <2>7. IsSeq(<<NL>>) /\ Paints(g, <<NL>>, h)
      BY <2>4, PaintsOne
    <2>8. IsSeq(<<NL>> \o L[r + 1]) /\ Paints(g, <<NL>> \o L[r + 1], e)
      BY <2>3, <2>6, <2>7, PaintsBoth
    <2>9. PICK t : t = <<NL>> \o L[r + 1]
      OBVIOUS
    <2>10. IsSeq(F[r + 1] \o t) /\ Paints(f, F[r + 1] \o t, e)
      BY <2>1, <2>8, <2>9, PaintsBoth
    <2>11. F[(r + 1) + 1] = F[r + 1] \o t
      <3>1. K[(r + 1) + 1] = t
        BY <2>2, <2>9
      <3>2. F[(r + 1) + 1] = F[((r + 1) + 1) - 1] \o K[(r + 1) + 1]
        BY <1>1, <2>2
      <3> QED
        BY <2>2, <3>1, <3>2
    <2> QED
      BY <2>2, <2>6, <2>10, <2>11
  <1> HIDE DEF S
  <1>4. \A r \in 0 .. y : r \in S
    BY <1>0, <1>2, <1>3, UpTo
  <1>5. y \in S
    BY <1>0, <1>4
  <1>6. PICK g : IsSeq(F[y + 1]) /\ Paints(f, F[y + 1], g) /\ Painted(g, L, y, Len(L[y]))
    BY <1>5 DEF S
  <1>7. FoldLeft(paintCharacter, f, F[y + 1]) = g
    BY <1>6, FoldIs
  <1> QED
    BY <1>1, <1>6, <1>7

\* paintVisibleBuffer leaves the text it is given, and nothing else, on the screen.
LEMMA BufferPainted ==
    ASSUME NEW f, Screen(f), ~f.panicked,
           NEW L, NEW y \in 0 .. Rows - 1, \A r \in 0 .. y : RowText(L[r]),
           NEW K, Len(K) = y + 1,
           \A i \in 1 .. y + 1 : K[i] = (IF i = 1 THEN <<>> ELSE <<NL>>) \o L[i - 1]
    PROVE  Shown(paintVisibleBuffer(f, FlattenSeq(K)), L, y, Len(L[y]))
  <1>1. PICK b : b = [f EXCEPT !.x = 0, !.y = 0]
    OBVIOUS
  <1>2. Painted(b, L, 0, 0)
    <2>1. /\ b = [cells |-> f.cells, x |-> 0, y |-> 0, panicked |-> f.panicked]
          /\ b.cells = f.cells /\ b.x = 0 /\ b.y = 0 /\ b.panicked = f.panicked
      BY <1>1 DEF Screen
    <2>2. Screen(b)
      BY <2>1 DEF Screen
    <2> QED
      BY <2>1, <2>2 DEF Painted
  <1>3. PICK p : p = FoldLeft(paintCharacter, b, FlattenSeq(K))
    OBVIOUS
  <1>a. PICK s : s = L[y]
    OBVIOUS
  <1>4. PICK n \in Nat : s = L[y] /\ n = Len(s) /\ RowText(s) /\ n <= Columns
    <2>1. y \in 0 .. y
      OBVIOUS
    <2> QED
      BY <1>a, <2>1 DEF RowText, IsSeq
  <1>5. Painted(p, L, y, n)
    BY <1>2, <1>3, <1>4, RowsPainted
  <1>6. /\ Screen(p) /\ ~p.panicked /\ p.x = n /\ p.y = y
        /\ \A r \in 0 .. y - 1 : p.cells[r] = Padded(L[r])
        /\ \A c \in 0 .. n - 1 : p.cells[y][c] = s[c + 1]
    BY <1>4, <1>5 DEF Painted
  <1>7. PICK g : g = clear_row(p)
    OBVIOUS
  <1>8. /\ Screen(g) /\ g.x = n /\ g.y = y /\ ~g.panicked
        /\ \A r \in 0 .. Rows - 1 : r # y => g.cells[r] = p.cells[r]
        /\ g.cells[y] = [c \in 0 .. Columns - 1 |-> IF c < n THEN p.cells[y][c] ELSE Blank]
    <2>1. y < Rows
      BY ScreenSizes
    <2> QED
      BY <1>6, <1>7, <2>1, RowCleared
  <1>9. g.cells[y] = Padded(s)
    <2>1. PICK row : row = g.cells[y]
      OBVIOUS
    <2>2. \A c \in 0 .. Columns - 1 : row[c] = IF c < n THEN s[c + 1] ELSE Blank
      <3>1. \A c \in 0 .. Columns - 1 : c < n => c \in 0 .. n - 1
        OBVIOUS
      <3> QED
        BY <1>6, <1>8, <2>1, <3>1
    <2>3. row = [c \in 0 .. Columns - 1 |-> row[c]]
      BY <1>8, <2>1
    <2> QED
      BY <1>4, <2>1, <2>2, <2>3 DEF Padded
  <1>10. PICK cells : cells = [r \in 0 .. Rows - 1 |-> IF r > y THEN BlankScreen[r] ELSE g.cells[r]]
    OBVIOUS
  <1>11. PICK e : e = [g EXCEPT !.cells = cells]
    OBVIOUS
  <1>12. paintVisibleBuffer(f, FlattenSeq(K)) = e
    BY <1>1, <1>3, <1>6, <1>7, <1>10, <1>11 DEF paintVisibleBuffer
  <1>13. /\ e = [cells |-> cells, x |-> n, y |-> y, panicked |-> g.panicked]
         /\ e.cells = cells /\ e.x = n /\ e.y = y /\ e.panicked = g.panicked
    BY <1>8, <1>11 DEF Screen
  <1>14. ASSUME NEW r \in 0 .. Rows - 1
         PROVE  cells[r] = IF r <= y THEN Padded(L[r]) ELSE BlankScreen[r]
    <2>1. CASE r > y
      BY <1>10, <2>1
    <2>2. CASE r = y
      <3>1. ~(r > y) /\ r <= y
        BY <2>2
      <3> QED
        BY <1>4, <1>9, <1>10, <2>2, <3>1
    <2>3. CASE r < y
      <3>1. ~(r > y) /\ r <= y /\ r # y /\ r \in 0 .. y - 1
        BY <2>3
      <3>2. cells[r] = g.cells[r]
        BY <1>10, <3>1
      <3> QED
        BY <1>6, <1>8, <3>1, <3>2
    <2> QED
      BY <2>1, <2>2, <2>3
  <1>15. Grid(cells)
    <2>1. ASSUME NEW r \in 0 .. Rows - 1
          PROVE  cells[r] = [c \in 0 .. Columns - 1 |-> cells[r][c]]
      <3>1. CASE r <= y
        BY <1>14, <3>1 DEF Padded
      <3>2. CASE ~(r <= y)
        BY <1>14, <3>2 DEF BlankScreen
      <3> QED
        BY <3>1, <3>2
    <2>2. cells = [r \in 0 .. Rows - 1 |-> cells[r]]
      BY <1>10
    <2> QED
      BY <2>1, <2>2 DEF Grid
  <1>16. Screen(e)
    BY <1>8, <1>13, <1>15 DEF Screen
  <1> QED
    BY <1>4, <1>8, <1>12, <1>13, <1>14, <1>16 DEF Shown

\* Painting one more character of the last row.
LEMMA GlyphShown ==
    ASSUME NEW f, NEW L, NEW M, NEW y \in 0 .. Rows - 1, NEW x \in 0 .. Columns - 1,
           Shown(f, L, y, x), RowText(L[y]), Len(L[y]) = x, NEW c, c # NL,
           \A r \in 0 .. y - 1 : M[r] = L[r], M[y] = L[y] \o <<c>>
    PROVE  Shown(paintCharacter(f, c), M, y, x + 1)
  <1>1. PICK s : s = L[y]
    OBVIOUS
  <1>2. /\ Screen(f) /\ ~f.panicked /\ f.x = x /\ f.y = y
        /\ \A r \in 0 .. Rows - 1 : f.cells[r] = IF r <= y THEN Padded(L[r]) ELSE BlankScreen[r]
    BY DEF Shown
  <1>3. PICK g : g = paintCharacter(f, c)
    OBVIOUS
  <1>4. y < Rows /\ x < Columns
    BY ScreenSizes
  <1>5. /\ Screen(g) /\ g.x = x + 1 /\ g.y = y /\ ~g.panicked
        /\ \A r \in 0 .. Rows - 1 : r # y => g.cells[r] = f.cells[r]
        /\ \A k \in 0 .. Columns - 1 : g.cells[y][k] = IF k = x THEN c ELSE f.cells[y][k]
    <2>1. Screen(f) /\ ~f.panicked /\ x = f.x /\ y = f.y
      BY <1>2
    <2> QED
      BY <1>3, <1>4, <2>1, GlyphAt
  <1>6. PICK t : t = M[y] /\ t = s \o <<c>>
    BY <1>1
  <1>7. /\ IsSeq(t) /\ Len(t) = x + 1 /\ t[x + 1] = c
        /\ \A i \in 1 .. x : t[i] = s[i]
    <2>1. IsSeq(s) /\ Len(s) = x
      BY <1>1 DEF RowText
    <2>2. /\ IsSeq(s \o <<c>>) /\ Len(s \o <<c>>) = Len(s) + 1
          /\ \A i \in 1 .. Len(s) : (s \o <<c>>)[i] = s[i]
          /\ (s \o <<c>>)[Len(s) + 1] = c
      BY <2>1, Extended
    <2> QED
      BY <1>6, <2>1, <2>2
  <1>8. RowText(t)
    <2>1. \A i \in 1 .. x + 1 : i \in 1 .. x \/ i = x + 1
      OBVIOUS
    <2>2. \A i \in 1 .. x : s[i] # NL
      BY <1>1 DEF RowText
    <2> QED
      BY <1>7, <2>1, <2>2, ScreenSizes DEF RowText
  <1>9. g.cells[y] = Padded(t)
    <2>1. PICK row : row = g.cells[y]
      OBVIOUS
    <2>2. row = [k \in 0 .. Columns - 1 |-> row[k]]
      BY <1>5, <2>1 DEF Screen, Grid
    <2>3. \A k \in 0 .. Columns - 1 : f.cells[y][k] = IF k < x THEN s[k + 1] ELSE Blank
      <3>1. f.cells[y] = Padded(s)
        BY <1>1, <1>2
      <3> QED
        BY <1>1, <3>1 DEF Padded
    <2>4. ASSUME NEW k \in 0 .. Columns - 1
          PROVE  row[k] = IF k < Len(t) THEN t[k + 1] ELSE Blank
      <3>1. CASE k < x
        <4>1. k + 1 \in 1 .. x /\ k < x + 1 /\ k # x
          BY <3>1
        <4> QED
          BY <1>5, <1>7, <2>1, <2>3, <3>1, <4>1
      <3>2. CASE k = x
        <4>1. k < x + 1
          BY <3>2
        <4> QED
          BY <1>5, <1>7, <2>1, <3>2, <4>1
      <3>3. CASE k > x
        <4>1. ~(k < x + 1) /\ ~(k < x) /\ k # x
          BY <3>3
        <4> QED
          BY <1>5, <1>7, <2>1, <2>3, <4>1
      <3> QED
        BY <3>1, <3>2, <3>3
    <2> QED
      BY <2>1, <2>2, <2>4 DEF Padded
  <1>10. ASSUME NEW r \in 0 .. Rows - 1
         PROVE  g.cells[r] = IF r <= y THEN Padded(M[r]) ELSE BlankScreen[r]
    <2>1. CASE r = y
      <3>1. r <= y
        BY <2>1
      <3> QED
        BY <1>6, <1>9, <2>1, <3>1
    <2>2. CASE r # y
      <3>1. r <= y => r \in 0 .. y - 1
        BY <2>2
      <3>2. r <= y => M[r] = L[r]
        BY <3>1
      <3> QED
        BY <1>2, <1>5, <2>2, <3>2
    <2> QED
      BY <2>1, <2>2
  <1> QED
    BY <1>3, <1>5, <1>10 DEF Shown

\* Painting a newline above the last row of the screen.
LEMMA NewlineShown ==
    ASSUME NEW f, NEW L, NEW M, NEW y \in 0 .. Rows - 1, y + 1 < Rows, NEW x,
           Shown(f, L, y, x), RowText(L[y]), Len(L[y]) = x,
           \A r \in 0 .. y : M[r] = L[r], M[y + 1] = <<>>
    PROVE  Shown(paintCharacter(f, NL), M, y + 1, 0)
  <1>0. PICK s : s = L[y]
    OBVIOUS
  <1>1. PICK n \in Nat : s = L[y] /\ n = Len(s) /\ n = x
    BY <1>0 DEF RowText, IsSeq
  <1>2. /\ Screen(f) /\ ~f.panicked /\ f.x = n /\ f.y = y
        /\ \A r \in 0 .. Rows - 1 : f.cells[r] = IF r <= y THEN Padded(L[r]) ELSE BlankScreen[r]
    BY <1>1 DEF Shown
  <1>3. PICK g : g = paintCharacter(f, NL)
    OBVIOUS
  <1>4. /\ Screen(g) /\ g.x = 0 /\ g.y = y + 1 /\ ~g.panicked
        /\ \A r \in 0 .. Rows - 1 : r # y => g.cells[r] = f.cells[r]
        /\ g.cells[y] = [c \in 0 .. Columns - 1 |-> IF c < n THEN f.cells[y][c] ELSE Blank]
    <2>1. Screen(f) /\ ~f.panicked /\ n = f.x /\ y = f.y
      BY <1>2
    <2> QED
      BY <1>3, <2>1, NewlineAt
  <1>5. g.cells[y] = Padded(s)
    <2>1. PICK row : row = g.cells[y]
      OBVIOUS
    <2>2. \A c \in 0 .. Columns - 1 : f.cells[y][c] = IF c < n THEN s[c + 1] ELSE Blank
      <3>1. f.cells[y] = Padded(s)
        BY <1>1, <1>2
      <3> QED
        BY <1>1, <3>1 DEF Padded
    <2>3. \A c \in 0 .. Columns - 1 : row[c] = IF c < n THEN s[c + 1] ELSE Blank
      BY <1>4, <2>1, <2>2
    <2>4. row = [c \in 0 .. Columns - 1 |-> row[c]]
      BY <1>4, <2>1
    <2> QED
      BY <1>1, <2>1, <2>3, <2>4 DEF Padded
  <1>6. BlankScreen[y + 1] = Padded(<<>>)
    <2>1. y + 1 \in 0 .. Rows - 1
      BY ScreenSizes
    <2>2. BlankScreen[y + 1] = [c \in 0 .. Columns - 1 |-> Blank]
      BY <2>1 DEF BlankScreen
    <2>3. Padded(<<>>) = [c \in 0 .. Columns - 1 |-> Blank]
      <3>1. \A c \in 0 .. Columns - 1 : ~(c < Len(<<>>))
        OBVIOUS
      <3> QED
        BY <3>1 DEF Padded
    <2> QED
      BY <2>2, <2>3
  <1>7. ASSUME NEW r \in 0 .. Rows - 1
        PROVE  g.cells[r] = IF r <= y + 1 THEN Padded(M[r]) ELSE BlankScreen[r]
    <2>1. CASE r = y
      BY <1>1, <1>5, <2>1
    <2>2. CASE r = y + 1
      <3>1. ~(r <= y) /\ r # y /\ r <= y + 1
        BY <2>2
      <3> QED
        BY <1>2, <1>4, <1>6, <2>2, <3>1
    <2>3. CASE r # y /\ r # y + 1
      <3>1. (r <= y <=> r <= y + 1) /\ (r <= y => r \in 0 .. y)
        BY <2>3
      <3>2. r <= y => M[r] = L[r]
        BY <3>1
      <3> QED
        BY <1>2, <1>4, <2>3, <3>1, <3>2
    <2> QED
      BY <2>1, <2>2, <2>3
  <1> QED
    BY <1>3, <1>4, <1>7 DEF Shown

-----------------------------------------------------------------------------
(* The screen and the line buffer. *)

\* As long as no line has been used twice, the buffer holds null characters
\* wherever nothing was written, and none where something was.
Clean ==
    /\ m_front = 0
    /\ \A i \in 1 .. Len(lines) : \A j \in 1 .. Len(lines[i]) : lines[i][j] \notin {NL, NUL}
    /\ \A i \in 0 .. s_maxLines - 1 : \A c \in 0 .. s_maxColumns - 1 :
          (i < m_size => Len(lines[i + 1]) <= c) => m_lineBuffer[i][c] = NUL

ViewRows == [r \in Nat |-> lines[firstVisibleLineIndex + r + 1]]
LastRow  == lastVisibleLineIndex - firstVisibleLineIndex

\* The rows on the screen when the line being written is in view.
InView ==
    CurrentLineInView => Shown(fb, ViewRows, m_size - 1 - firstVisibleLineIndex, m_currentColumn)

ScreenInv == ~reused => Clean /\ Screen(fb) /\ InView

\* The text T is that of the rows L down to y.
TextOf(T, L, y) ==
    /\ y \in 0 .. Rows - 1 /\ \A r \in 0 .. y : RowText(L[r])
    /\ \E K : /\ T = FlattenSeq(K) /\ Len(K) = y + 1
              /\ \A i \in 1 .. y + 1 : K[i] = (IF i = 1 THEN <<>> ELSE <<NL>>) \o L[i - 1]

\* What the line buffer's invariant says of a buffer that has never been full.
LEMMA CleanBuffer ==
    ASSUME IInv, Clean
    PROVE  /\ firstVisibleLineIndex = m_firstVisibleLine /\ m_firstVisibleLine \in 0 .. m_size - 1
           /\ m_size \in 1 .. s_maxLines /\ m_size \in Nat /\ m_firstVisibleLine \in Nat
           /\ \A i \in 1 .. m_size : getLine(i - 1) = m_lineBuffer[i - 1]
           /\ IsSeq(lines) /\ Len(lines) = m_size /\ m_currentColumn = Len(lines[m_size])
           /\ \A i \in 1 .. m_size : /\ IsSeq(lines[i]) /\ Len(lines[i]) \in 0 .. m_lineSize
                                     /\ RowText(lines[i])
           /\ \A i \in 1 .. m_size : \A j \in 1 .. Len(lines[i]) :
                 m_lineBuffer[i - 1][j - 1] = lines[i][j]
  <1>1. Ring /\ Lines /\ ScrollbackKept /\ m_front = 0
    BY DEF IInv, Lines, Clean
  <1>2. /\ m_firstVisibleLine \in 0 .. m_size - 1 /\ m_size \in 1 .. s_maxLines /\ m_size \in Nat
        /\ m_firstVisibleLine \in Nat
    BY <1>1, Sizes DEF Ring
  <1>3. firstVisibleLineIndex = m_firstVisibleLine
    BY <1>1, <1>2 DEF firstVisibleLineIndex
  <1>4. ASSUME NEW i \in 1 .. m_size PROVE getLine(i - 1) = m_lineBuffer[i - 1]
    <2>1. i \in 1 .. s_maxLines /\ 0 \in 0 .. s_maxLines - 1 /\ 0 + (i - 1) < s_maxLines
          /\ 0 + (i - 1) = i - 1
      BY <1>2, Sizes
    <2>2. (0 + (i - 1)) % s_maxLines = i - 1
      BY <2>1, SlotOf
    <2> QED
      BY <1>1, <2>2 DEF getLine
  <1>5. /\ IsSeq(lines) /\ Len(lines) = m_size /\ m_currentColumn = Len(lines[m_size])
        /\ \A i \in 1 .. m_size : IsSeq(lines[i]) /\ Len(lines[i]) <= m_lineSize
        /\ \A i \in 1 .. m_size : \A j \in 1 .. Len(lines[i]) : getLine(i - 1)[j - 1] = lines[i][j]
    BY <1>1 DEF Lines, ScrollbackKept
  <1>6. ASSUME NEW i \in 1 .. m_size
        PROVE  Len(lines[i]) \in 0 .. m_lineSize /\ RowText(lines[i])
    <2>1. PICK s : s = lines[i]
      OBVIOUS
    <2>2. IsSeq(s) /\ Len(s) \in Nat /\ Len(s) <= m_lineSize
      BY <1>5, <2>1 DEF IsSeq
    <2>3. \A j \in 1 .. Len(s) : s[j] # NL
      BY <1>5, <2>1 DEF Clean
    <2>4. Len(s) \in 0 .. m_lineSize /\ Len(s) <= Columns
      BY <2>2, Sizes, ScreenSizes
    <2> QED
      BY <2>1, <2>2, <2>3, <2>4 DEF RowText
  <1> QED
    BY <1>2, <1>3, <1>4, <1>5, <1>6

\* A line is painted as it was written.
LEMMA TextOfLine ==
    ASSUME IInv, Clean, NEW i \in 1 .. m_size
    PROVE  Text(getLine(i - 1)) = lines[i]
  <1>1. PICK line, s : line = m_lineBuffer[i - 1] /\ s = lines[i]
    OBVIOUS
  <1>2. PICK n \in Nat : n = Len(s) /\ n <= s_maxColumns
    BY <1>1, CleanBuffer, Sizes
  <1>3. getLine(i - 1) = line /\ IsSeq(s) /\ i - 1 \in 0 .. s_maxLines - 1 /\ i - 1 < m_size
        /\ (i - 1) + 1 = i
    BY <1>1, CleanBuffer, Sizes
  <1>4. \A j \in 0 .. n - 1 : line[j] = s[j + 1] /\ line[j] # NUL
    <2> SUFFICES ASSUME NEW j \in 0 .. n - 1 PROVE line[j] = s[j + 1] /\ line[j] # NUL
      OBVIOUS
    <2>1. j + 1 \in 1 .. n /\ (j + 1) - 1 = j
      OBVIOUS
    <2>2. m_lineBuffer[i - 1][(j + 1) - 1] = lines[i][j + 1]
      BY <1>1, <1>2, <2>1, CleanBuffer
    <2>3. lines[i][j + 1] # NUL
      BY <1>1, <1>2, <2>1, CleanBuffer DEF Clean
    <2> QED
      BY <1>1, <2>1, <2>2, <2>3
  <1>5. n = s_maxColumns \/ line[n] = NUL
    <2>1. CASE n < s_maxColumns
      <3>1. n \in 0 .. s_maxColumns - 1
        BY <2>1, Sizes
      <3>2. Len(lines[(i - 1) + 1]) <= n
        BY <1>1, <1>2, <1>3
      <3>3. m_lineBuffer[i - 1][n] = NUL
        BY <1>3, <3>1, <3>2 DEF Clean
      <3> QED
        BY <1>1, <3>3
    <2> QED
      BY <1>2, <2>1, Sizes
  <1> DEFINE E == {k \in 0 .. s_maxColumns : k = s_maxColumns \/ line[k] = NUL}
  <1>6. n \in E
    BY <1>2, <1>5, Sizes
  <1>7. \A k \in E : n <= k
    <2> SUFFICES ASSUME NEW k \in E, k < n PROVE FALSE
      BY <1>2, Sizes
    <2>1. k \in 0 .. n - 1 /\ k # s_maxColumns
      BY <1>2, Sizes
    <2> QED
      BY <1>4, <2>1
  <1>8. E \subseteq Int
    BY Sizes
  <1>9. Min(E) = n
    <2> HIDE DEF E
    <2>1. \A x \in E : (\A k \in E : x <= k) => x = n
      BY <1>6, <1>7, <1>8
    <2> QED
      BY <1>6, <1>7, <2>1 DEF Min
  <1>10. Text(line) = [j \in 1 .. n |-> line[j - 1]]
    BY <1>9 DEF Text
  <1>11. \A j \in 1 .. n : line[j - 1] = s[j]
    <2> SUFFICES ASSUME NEW j \in 1 .. n PROVE line[j - 1] = s[j]
      OBVIOUS
    <2>1. j - 1 \in 0 .. n - 1 /\ (j - 1) + 1 = j
      OBVIOUS
    <2> QED
      BY <1>4, <2>1
  <1>12. Text(line) = s
    BY <1>2, <1>3, <1>10, <1>11 DEF IsSeq
  <1> QED
    BY <1>1, <1>3, <1>12

\* What paintVisibleBuffer paints is the text of the rows in view.
LEMMA VisibleText == IInv /\ Clean => TextOf(visible_text, ViewRows, LastRow)
  <1> SUFFICES ASSUME IInv, Clean PROVE TextOf(visible_text, ViewRows, LastRow)
    OBVIOUS
  <1>1. PICK first \in Nat : first = firstVisibleLineIndex /\ first <= m_size - 1
    BY CleanBuffer
  <1>2. PICK y : y = LastRow
    OBVIOUS
  <1>3. y \in Nat /\ y \in 0 .. Rows - 1 /\ first + y <= m_size - 1
    <2>1. m_size \in Nat /\ m_visibleLines \in Nat \ {0} /\ m_visibleLines <= Rows
      BY CleanBuffer, Sizes, ScreenSizes
    <2>2. y = SmallerOf(m_size - 1, first + m_visibleLines - 1) - first
      BY <1>1, <1>2 DEF LastRow, lastVisibleLineIndex
    <2> QED
      BY <1>1, <2>1, <2>2, ScreenSizes DEF SmallerOf
  <1>4. ASSUME NEW r \in 0 .. y
        PROVE  first + r + 1 \in 1 .. m_size /\ ViewRows[r] = lines[first + r + 1]
    BY <1>1, <1>3, CleanBuffer DEF ViewRows
  <1>5. \A r \in 0 .. y : RowText(ViewRows[r])
    BY <1>4, CleanBuffer
  <1> DEFINE K == [i \in 1 .. y + 1 |->
                      (IF i = 1 THEN <<>> ELSE <<NL>>) \o Text(getLine(first + i - 1))]
  <1>6. visible_text = FlattenSeq(K)
    BY <1>1, <1>2 DEF visible_text, LastRow
  <1>7. Len(K) = y + 1
    BY <1>3
  <1>8. ASSUME NEW i \in 1 .. y + 1
        PROVE  K[i] = (IF i = 1 THEN <<>> ELSE <<NL>>) \o ViewRows[i - 1]
    <2>1. /\ i - 1 \in 0 .. y /\ first + (i - 1) + 1 \in 1 .. m_size
          /\ first + i - 1 = (first + (i - 1) + 1) - 1
      BY <1>1, <1>3, CleanBuffer
    <2>2. PICK j \in 1 .. m_size : j = first + (i - 1) + 1
      BY <2>1
    <2>3. Text(getLine(first + i - 1)) = lines[j]
      BY <2>1, <2>2, TextOfLine
    <2>4. ViewRows[i - 1] = lines[j]
      BY <1>4, <2>1, <2>2
    <2> QED
      BY <2>3, <2>4
  <1> HIDE DEF K
  <1>9. TextOf(visible_text, ViewRows, y)
    BY <1>3, <1>5, <1>6, <1>7, <1>8 DEF TextOf
  <1> QED
    BY <1>2, <1>9

\* The last row in view is that of the line being written.
LEMMA LastInView ==
    IInv /\ Clean /\ CurrentLineInView =>
        /\ LastRow = m_size - 1 - firstVisibleLineIndex
        /\ LastRow \in 0 .. Rows - 1
        /\ ViewRows[LastRow] = lines[m_size] /\ m_currentColumn = Len(lines[m_size])
        /\ RowText(lines[m_size])
  <1> SUFFICES ASSUME IInv, Clean, CurrentLineInView
               PROVE  /\ LastRow = m_size - 1 - firstVisibleLineIndex
                      /\ LastRow \in 0 .. Rows - 1
                      /\ ViewRows[LastRow] = lines[m_size]
                      /\ m_currentColumn = Len(lines[m_size]) /\ RowText(lines[m_size])
    OBVIOUS
  <1>1. PICK first \in Nat : first = firstVisibleLineIndex /\ first <= m_size - 1
    BY CleanBuffer
  <1>2. LastRow = m_size - 1 - first
    BY <1>1 DEF CurrentLineInView, LastRow
  <1>3. m_size - 1 - first \in 0 .. Rows - 1
    <2>1. m_size - 1 <= first + m_visibleLines - 1
      BY <1>1, CleanBuffer, Sizes DEF CurrentLineInView, lastVisibleLineIndex, SmallerOf
    <2> QED
      BY <1>1, <2>1, CleanBuffer, Sizes, ScreenSizes
  <1>4. m_size - 1 - first \in Nat /\ first + (m_size - 1 - first) + 1 = m_size
    BY <1>1, <1>3, CleanBuffer
  <1>5. ViewRows[m_size - 1 - first] = lines[m_size]
    BY <1>1, <1>4 DEF ViewRows
  <1>6. m_size \in 1 .. m_size
    BY CleanBuffer
  <1> QED
    BY <1>1, <1>2, <1>3, <1>5, <1>6, CleanBuffer

\* Repainting shows the rows in view.
LEMMA Repainted ==
    ASSUME IInv', Clean', Screen(fb), ~fb.panicked, fb' = paintVisibleBuffer(fb, visible_text')
    PROVE  Screen(fb') /\ InView'
  <1>1. TextOf(visible_text, ViewRows, LastRow)'
    BY VisibleText, PTL
  <1>2. PICK T, L : T = visible_text' /\ L = ViewRows'
    OBVIOUS
  <1>3. PICK y : y = LastRow'
    OBVIOUS
  <1>4. TextOf(T, L, y)
    BY <1>1, <1>2, <1>3
  <1>5. PICK K : /\ T = FlattenSeq(K) /\ Len(K) = y + 1
                 /\ \A i \in 1 .. y + 1 : K[i] = (IF i = 1 THEN <<>> ELSE <<NL>>) \o L[i - 1]
    BY <1>4 DEF TextOf
  <1>6. Shown(fb', L, y, Len(L[y]))
    <2>1. y \in 0 .. Rows - 1 /\ \A r \in 0 .. y : RowText(L[r])
      BY <1>4 DEF TextOf
    <2>2. Shown(paintVisibleBuffer(fb, FlattenSeq(K)), L, y, Len(L[y]))
      BY <1>5, <2>1, BufferPainted
    <2> QED
      BY <1>2, <1>5, <2>2
  <1>7. Screen(fb')
    BY <1>6 DEF Shown
  <1>8. ASSUME CurrentLineInView'
        PROVE  Shown(fb', L, m_size' - 1 - firstVisibleLineIndex', m_currentColumn')
    <2>1. (/\ LastRow = m_size - 1 - firstVisibleLineIndex
           /\ LastRow \in 0 .. Rows - 1
           /\ ViewRows[LastRow] = lines[m_size] /\ m_currentColumn = Len(lines[m_size])
           /\ RowText(lines[m_size]))'
      BY <1>8, LastInView, PTL
    <2>2. y = m_size' - 1 - firstVisibleLineIndex' /\ Len(L[y]) = m_currentColumn'
      BY <1>2, <1>3, <2>1
    <2> QED
      BY <1>6, <2>2
  <1>9. InView'
    BY <1>2, <1>8 DEF InView
  <1> QED
    BY <1>7, <1>9

\* A character on the line being written, in a buffer that has never been full.
LEMMA HereClean ==
    ASSUME IInv, IInv', Clean, NEW character, character # NUL, write(character),
           ~line_wrap(character)
    PROVE  /\ Clean' /\ character # NL /\ m_currentColumn \in 0 .. m_lineSize - 1
           /\ UNCHANGED <<m_front, m_size, m_firstVisibleLine>>
           /\ m_currentColumn' = m_currentColumn + 1
           /\ lines'[m_size] = lines[m_size] \o <<character>>
           /\ \A i \in 1 .. m_size - 1 : lines'[i] = lines[i]
  <1>1. PICK col, n : col = m_currentColumn /\ n = m_size
    OBVIOUS
  <1>2. /\ m_front = 0 /\ n \in 1 .. s_maxLines /\ n \in 1 .. n /\ n - 1 \in 0 .. s_maxLines - 1
        /\ IsSeq(lines) /\ Len(lines) = n /\ IsSeq(lines[n]) /\ col = Len(lines[n])
        /\ col \in 0 .. m_lineSize
    BY <1>1, CleanBuffer, Sizes DEF Clean
  <1>3. character # NL /\ col \in 0 .. m_lineSize - 1 /\ col \in 0 .. s_maxColumns - 1
    <2>1. character # NL /\ ~(col >= m_lineSize)
      BY <1>1 DEF line_wrap
    <2> QED
      BY <1>2, <2>1, Sizes
  <1>4. /\ UNCHANGED <<m_front, m_size, m_firstVisibleLine>> /\ m_currentColumn' = col + 1
        /\ m_lineBuffer' = [m_lineBuffer EXCEPT
                               ![n - 1] = [m_lineBuffer[n - 1] EXCEPT ![col] = character]]
    <2>1. (m_front + m_size - 1) % s_maxLines = n - 1
      <3>1. 0 + (n - 1) < s_maxLines /\ 0 + (n - 1) = n - 1 /\ 0 \in 0 .. s_maxLines - 1
            /\ 0 + n - 1 = 0 + (n - 1)
        BY <1>2, Sizes
      <3>2. (0 + (n - 1)) % s_maxLines = n - 1
        BY <1>2, <3>1, SlotOf
      <3> QED
        BY <1>1, <1>2, <3>1, <3>2
    <2> QED
      BY <1>1, <1>3, <2>1 DEF write, buffer_write, same_line
  <1>5. lines' = [lines EXCEPT ![n] = lines[n] \o <<character>>]
    BY <1>2, <1>3 DEF write
  <1>6. PICK new : new = lines[n] \o <<character>>
    OBVIOUS
  <1>7. /\ IsSeq(new) /\ Len(new) = col + 1 /\ new[col + 1] = character
        /\ \A j \in 1 .. col : new[j] = lines[n][j]
    <2>1. PICK s : s = lines[n]
      OBVIOUS
    <2>2. /\ IsSeq(s \o <<character>>) /\ Len(s \o <<character>>) = Len(s) + 1
          /\ \A i \in 1 .. Len(s) : (s \o <<character>>)[i] = s[i]
          /\ (s \o <<character>>)[Len(s) + 1] = character
      BY <1>2, <2>1, Extended
    <2> QED
      BY <1>2, <1>6, <2>1, <2>2
  <1>8. DOMAIN lines = 1 .. n
    BY <1>2 DEF IsSeq
  <1>9. lines'[n] = new /\ \A i \in 1 .. n : i # n => lines'[i] = lines[i]
    BY <1>2, <1>5, <1>6, <1>8
  <1>10. Len(lines') = n /\ m_size' = n
    BY <1>1, <1>4 DEF IInv, Lines, ScrollbackKept
  <1>11. ASSUME NEW i \in 1 .. Len(lines'), NEW j \in 1 .. Len(lines'[i])
         PROVE  lines'[i][j] \notin {NL, NUL}
    <2>1. CASE i # n
      <3>1. i \in 1 .. Len(lines) /\ lines'[i] = lines[i]
        BY <1>2, <1>9, <1>10, <2>1
      <3> QED
        BY <3>1 DEF Clean
    <2>2. CASE i = n
      <3>1. lines'[i] = new /\ j \in 1 .. col + 1
        BY <1>7, <1>9, <2>2
      <3>2. CASE j = col + 1
        BY <1>3, <1>7, <3>1, <3>2
      <3>3. CASE j # col + 1
        <4>1. j \in 1 .. col
          BY <1>2, <3>1, <3>3, Sizes
        <4>2. lines[n][j] \notin {NL, NUL}
          BY <1>2, <4>1 DEF Clean
        <4> QED
          BY <1>7, <3>1, <4>1, <4>2
      <3> QED
        BY <3>2, <3>3
    <2> QED
      BY <2>1, <2>2
  <1>12. ASSUME NEW i \in 0 .. s_maxLines - 1, NEW c \in 0 .. s_maxColumns - 1,
                i < m_size' => Len(lines'[i + 1]) <= c
         PROVE  m_lineBuffer'[i][c] = NUL
    <2>1. /\ DOMAIN m_lineBuffer = 0 .. s_maxLines - 1
          /\ DOMAIN m_lineBuffer[n - 1] = 0 .. s_maxColumns - 1
      BY <1>2 DEF IInv, Cells
    <2>2. CASE i # n - 1
      <3>1. m_lineBuffer'[i] = m_lineBuffer[i]
        BY <1>2, <1>4, <2>1, <2>2
      <3>2. ASSUME i < m_size PROVE Len(lines[i + 1]) <= c
        <4>1. i + 1 \in 1 .. n /\ i + 1 # n /\ i < m_size'
          BY <1>1, <1>2, <1>10, <2>2, <3>2, Sizes
        <4>2. lines'[i + 1] = lines[i + 1]
          BY <1>9, <4>1
        <4> QED
          BY <1>12, <4>1, <4>2
      <3>3. m_lineBuffer[i][c] = NUL
        BY <3>2 DEF Clean
      <3> QED
        BY <3>1, <3>3
    <2>3. CASE i = n - 1
      <3>1. i + 1 = n /\ i < m_size' /\ i < m_size
        BY <1>1, <1>2, <1>10, <2>3, Sizes
      <3>2. col + 1 <= c
        BY <1>7, <1>9, <1>12, <3>1
      <3>3. c # col /\ col <= c
        BY <1>2, <3>2, Sizes
      <3>4. m_lineBuffer'[i] = [m_lineBuffer[i] EXCEPT ![col] = character]
        BY <1>2, <1>4, <2>1, <2>3
      <3>5. m_lineBuffer'[i][c] = m_lineBuffer[i][c]
        BY <2>1, <2>3, <3>3, <3>4
      <3>6. m_lineBuffer[i][c] = NUL
        BY <1>1, <1>2, <3>1, <3>3 DEF Clean
      <3> QED
        BY <3>5, <3>6
    <2> QED
      BY <2>2, <2>3
  <1>13. Clean'
    BY <1>2, <1>4, <1>11, <1>12 DEF Clean
  <1> QED
    BY <1>1, <1>2, <1>3, <1>4, <1>6, <1>9, <1>13

\* A new line in a buffer that has never been full.
LEMMA NextClean ==
    ASSUME IInv, IInv', Clean, NEW character, character # NUL, write(character),
           line_wrap(character), m_size < s_maxLines
    PROVE  /\ Clean' /\ m_size' = m_size + 1
           /\ m_firstVisibleLine' =
                 LargerOf(m_firstVisibleLine,
                          IF m_size + 1 > m_visibleLines THEN m_size + 1 - m_visibleLines ELSE 0)
           /\ \A i \in 1 .. m_size : lines'[i] = lines[i]
           /\ lines'[m_size + 1] = IF character = NL THEN <<>> ELSE <<character>>
           /\ m_currentColumn' = IF character = NL THEN 0 ELSE 1
  <1>1. PICK glyphs : glyphs = IF character = NL THEN <<>> ELSE <<character>>
    OBVIOUS
  <1>2. PICK n : n = m_size
    OBVIOUS
  <1>3. /\ m_front = 0 /\ n \in 1 .. s_maxLines - 1 /\ n \in Nat /\ n \in 0 .. s_maxLines - 1
        /\ IsSeq(lines) /\ Len(lines) = n
    BY <1>2, CleanBuffer, Sizes DEF Clean
  <1>4. /\ next_line.front = 0 /\ next_line.size = n + 1 /\ next_line.column = 0
        /\ next_line.first = LargerOf(m_firstVisibleLine, IF n + 1 > m_visibleLines
                                                          THEN n + 1 - m_visibleLines ELSE 0)
    BY <1>2, <1>3, Sizes DEF next_line
  <1>5. /\ m_front' = 0 /\ m_size' = n + 1 /\ m_firstVisibleLine' = next_line.first
        /\ m_currentColumn' = IF character = NL THEN 0 ELSE 1
        /\ m_lineBuffer' = IF character = NL THEN m_lineBuffer
                           ELSE [m_lineBuffer EXCEPT ![n] = [m_lineBuffer[n] EXCEPT ![0] = character]]
    <2>1. (next_line.front + next_line.size - 1) % s_maxLines = n
      <3>1. /\ 0 + ((n + 1) - 1) < s_maxLines /\ 0 + ((n + 1) - 1) = n /\ 0 \in 0 .. s_maxLines - 1
            /\ 0 + (n + 1) - 1 = 0 + ((n + 1) - 1) /\ n + 1 \in 1 .. s_maxLines
        BY <1>3, Sizes
      <3>2. (0 + ((n + 1) - 1)) % s_maxLines = n
        BY <3>1, SlotOf
      <3> QED
        BY <1>4, <3>1, <3>2
    <2>2. 0 + 1 = 1
      OBVIOUS
    <2> QED
      BY <1>4, <2>1, <2>2 DEF write, buffer_write
  <1>6. lines' = Newest(Append(lines, glyphs), s_maxLines)
    BY <1>1 DEF write
  <1>7. /\ Len(lines') = n + 1 /\ lines'[n + 1] = glyphs
        /\ \A i \in 1 .. n : lines'[i] = lines[i]
    <2>1. Len(lines) < s_maxLines /\ Len(lines) <= s_maxLines
      BY <1>3, Sizes
    <2> QED
      BY <1>3, <1>6, <2>1, NewestLines, Sizes
  <1>8. /\ character = NL => Len(glyphs) = 0
        /\ character # NL => Len(glyphs) = 1 /\ glyphs[1] = character
    BY <1>1
  <1>9. ASSUME NEW i \in 1 .. Len(lines'), NEW j \in 1 .. Len(lines'[i])
        PROVE  lines'[i][j] \notin {NL, NUL}
    <2>1. CASE i # n + 1
      <3>1. i \in 1 .. Len(lines) /\ lines'[i] = lines[i]
        BY <1>3, <1>7, <2>1
      <3> QED
        BY <3>1 DEF Clean
    <2>2. CASE i = n + 1
      <3>1. lines'[i] = glyphs
        BY <1>7, <2>2
      <3>2. CASE character = NL
        <4>1. Len(glyphs) = 0
          BY <1>8, <3>2
        <4> QED
          BY <3>1, <4>1
      <3>3. CASE character # NL
        <4>1. Len(glyphs) = 1 /\ glyphs[1] = character
          BY <1>8, <3>3
        <4>2. j = 1
          BY <3>1, <4>1
        <4> QED
          BY <3>1, <3>3, <4>1, <4>2
      <3> QED
        BY <3>2, <3>3
    <2> QED
      BY <2>1, <2>2
  <1>10. ASSUME NEW i \in 0 .. s_maxLines - 1, NEW c \in 0 .. s_maxColumns - 1,
                i < m_size' => Len(lines'[i + 1]) <= c
         PROVE  m_lineBuffer'[i][c] = NUL
    <2>1. /\ DOMAIN m_lineBuffer = 0 .. s_maxLines - 1
          /\ DOMAIN m_lineBuffer[n] = 0 .. s_maxColumns - 1
      BY <1>3 DEF IInv, Cells
    <2>2. ASSUME i < m_size PROVE Len(lines[i + 1]) <= c
      <3>1. i + 1 \in 1 .. n /\ i < m_size'
        BY <1>2, <1>3, <1>5, <2>2, Sizes
      <3> QED
        BY <1>7, <1>10, <3>1
    <2>3. m_lineBuffer[i][c] = NUL
      BY <2>2 DEF Clean
    <2>4. CASE character = NL
      BY <1>5, <2>3, <2>4
    <2>5. CASE character # NL
      <3>1. m_lineBuffer' = [m_lineBuffer EXCEPT ![n] = [m_lineBuffer[n] EXCEPT ![0] = character]]
        BY <1>5, <2>5
      <3>2. CASE i # n
        BY <1>3, <2>1, <2>3, <3>1, <3>2
      <3>3. CASE i = n
        <4>1. i < m_size'
          BY <1>3, <1>5, <3>3
        <4>2. 1 <= c
          BY <1>7, <1>8, <1>10, <2>5, <3>3, <4>1
        <4>3. c # 0
          BY <4>2
        <4> QED
          BY <1>3, <2>1, <2>3, <3>1, <3>3, <4>3
      <3> QED
        BY <3>2, <3>3
    <2> QED
      BY <2>4, <2>5
  <1>11. Clean'
    BY <1>5, <1>9, <1>10 DEF Clean
  <1> QED
    BY <1>1, <1>2, <1>4, <1>5, <1>7, <1>11

\* The character painted alone.
LEMMA HereShown ==
    ASSUME IInv, IInv', Clean, Screen(fb), ~fb.panicked, InView,
           NEW character, character # NUL, write(character), ~line_wrap(character)
    PROVE  Screen(fb') /\ InView'
  <1>1. /\ Clean' /\ character # NL /\ m_currentColumn \in 0 .. m_lineSize - 1
        /\ UNCHANGED <<m_front, m_size, m_firstVisibleLine>>
        /\ m_currentColumn' = m_currentColumn + 1
        /\ lines'[m_size] = lines[m_size] \o <<character>>
        /\ \A i \in 1 .. m_size - 1 : lines'[i] = lines[i]
    BY HereClean
  <1>2. fb' = paintCharacter(fb, character)
    <2>1. fb' = FoldLeft(paintCharacter, fb, <<character>>)
      BY <1>1 DEF write
    <2>2. IsSeq(<<character>>) /\ Paints(fb, <<character>>, paintCharacter(fb, character))
      BY PaintsOne
    <2> QED
      BY <2>1, <2>2, FoldIs
  <1>3. Screen(fb')
    BY <1>1, <1>2, ScreenKept
  <1>4. firstVisibleLineIndex' = firstVisibleLineIndex /\ (CurrentLineInView' <=> CurrentLineInView)
    BY <1>1 DEF firstVisibleLineIndex, CurrentLineInView, lastVisibleLineIndex
  <1>5. ASSUME CurrentLineInView
        PROVE  Shown(fb', ViewRows', m_size - 1 - firstVisibleLineIndex, m_currentColumn + 1)
    <2>1. PICK y, x, first : y = m_size - 1 - firstVisibleLineIndex /\ x = m_currentColumn
                             /\ first = firstVisibleLineIndex
      OBVIOUS
    <2>2. PICK L, M : L = ViewRows /\ M = ViewRows'
      OBVIOUS
    <2>3. /\ y \in 0 .. Rows - 1 /\ L[y] = lines[m_size] /\ x = Len(lines[m_size])
          /\ RowText(lines[m_size])
      BY <1>5, <2>1, <2>2, LastInView
    <2>4. x \in 0 .. Columns - 1
      BY <1>1, <2>1, Sizes, ScreenSizes
    <2>5. first \in Nat /\ m_size \in Nat /\ first + y + 1 = m_size /\ y \in Nat
      BY <2>1, <2>3, CleanBuffer
    <2>6. \A r \in Nat : L[r] = lines[first + r + 1] /\ M[r] = lines'[first + r + 1]
      BY <1>4, <2>1, <2>2 DEF ViewRows
    <2>7. M[y] = L[y] \o <<character>>
      BY <1>1, <2>3, <2>5, <2>6
    <2>8. \A r \in 0 .. y - 1 : M[r] = L[r]
      <3>1. \A r \in 0 .. y - 1 : r \in Nat /\ first + r + 1 \in 1 .. m_size - 1
        BY <2>5
      <3> QED
        BY <1>1, <2>6, <3>1
    <2>9. Shown(fb, L, y, x)
      BY <1>5, <2>1, <2>2 DEF InView
    <2>10. Shown(paintCharacter(fb, character), M, y, x + 1)
      BY <1>1, <2>3, <2>4, <2>7, <2>8, <2>9, GlyphShown
    <2> QED
      BY <1>2, <2>1, <2>2, <2>10
  <1>6. InView'
    BY <1>1, <1>4, <1>5 DEF InView
  <1> QED
    BY <1>3, <1>6

\* The newline and the character painted alone, when the viewport has not moved.
LEMMA NextShown ==
    ASSUME IInv, IInv', Clean, Screen(fb), ~fb.panicked, InView,
           NEW character, character # NUL, write(character), line_wrap(character),
           m_size < s_maxLines, m_firstVisibleLine' = m_firstVisibleLine
    PROVE  Screen(fb') /\ InView'
  <1>1. /\ Clean' /\ m_size' = m_size + 1
        /\ m_firstVisibleLine' =
              LargerOf(m_firstVisibleLine,
                       IF m_size + 1 > m_visibleLines THEN m_size + 1 - m_visibleLines ELSE 0)
        /\ \A i \in 1 .. m_size : lines'[i] = lines[i]
        /\ lines'[m_size + 1] = IF character = NL THEN <<>> ELSE <<character>>
        /\ m_currentColumn' = IF character = NL THEN 0 ELSE 1
    BY NextClean
  <1>2. PICK first \in Nat : /\ first = m_firstVisibleLine /\ first = firstVisibleLineIndex
                             /\ first <= m_size - 1
    BY CleanBuffer
  <1>3. m_size \in Nat /\ m_size + 1 <= first + m_visibleLines
    <2>1. PICK bottom : bottom = IF m_size + 1 > m_visibleLines
                                 THEN m_size + 1 - m_visibleLines ELSE 0
      OBVIOUS
    <2>2. first = LargerOf(first, bottom)
      BY <1>1, <1>2, <2>1
    <2>3. bottom \in Int /\ m_size \in Nat
      BY <2>1, CleanBuffer, Sizes
    <2>4. bottom <= first
      BY <1>2, <2>2, <2>3 DEF LargerOf
    <2> QED
      BY <1>2, <2>1, <2>3, <2>4, Sizes
  <1>4. CurrentLineInView
    BY <1>2, <1>3, Sizes DEF CurrentLineInView, lastVisibleLineIndex, SmallerOf
  <1>5. firstVisibleLineIndex' = first
    <2>1. m_front' = 0
      BY <1>1 DEF Clean
    <2> QED
      BY <1>2, <2>1 DEF firstVisibleLineIndex
  <1>6. PICK y : y = m_size - 1 - first
    OBVIOUS
  <1>7. PICK L, M : L = ViewRows /\ M = ViewRows'
    OBVIOUS
  <1>8. /\ y \in 0 .. Rows - 1 /\ L[y] = lines[m_size] /\ m_currentColumn = Len(lines[m_size])
        /\ RowText(lines[m_size])
    BY <1>2, <1>4, <1>6, <1>7, LastInView
  <1>9. /\ y \in Nat /\ first + y + 1 = m_size /\ y + 1 < Rows /\ first + (y + 1) + 1 = m_size + 1
        /\ y + 1 \in 0 .. Rows - 1 /\ (m_size + 1) - 1 - first = y + 1
    BY <1>2, <1>3, <1>6, <1>8, Sizes, ScreenSizes
  <1>10. \A r \in Nat : L[r] = lines[first + r + 1] /\ M[r] = lines'[first + r + 1]
    BY <1>2, <1>5, <1>7 DEF ViewRows
  <1>11. \A r \in 0 .. y : M[r] = L[r]
    <2>1. \A r \in 0 .. y : r \in Nat /\ first + r + 1 \in 1 .. m_size
      BY <1>2, <1>3, <1>9
    <2> QED
      BY <1>1, <1>10, <2>1
  <1>12. M[y + 1] = IF character = NL THEN <<>> ELSE <<character>>
    <2>1. y + 1 \in Nat
      BY <1>9
    <2> QED
      BY <1>1, <1>9, <1>10, <2>1
  <1>13. Shown(fb, L, y, m_currentColumn)
    BY <1>2, <1>4, <1>6, <1>7 DEF InView
  <1>14. PICK g : g = paintCharacter(fb, NL)
    OBVIOUS
  <1>15. PICK N : N = [r \in Nat |-> IF r = y + 1 THEN <<>> ELSE L[r]]
    OBVIOUS
  <1>16. \A r \in 0 .. y : N[r] = L[r]
    <2>1. \A r \in 0 .. y : r \in Nat /\ r # y + 1
      BY <1>9
    <2> QED
      BY <1>15, <2>1
  <1>17. N[y + 1] = <<>> /\ y + 1 \in Nat
    BY <1>9, <1>15
  <1>18. Shown(g, N, y + 1, 0)
    BY <1>8, <1>9, <1>13, <1>14, <1>16, <1>17, NewlineShown
  <1>19. IsSeq(<<NL>>) /\ Paints(fb, <<NL>>, g)
    BY <1>14, PaintsOne
  <1>20. Shown(fb', M, y + 1, m_currentColumn')
    <2>1. CASE character = NL
      <3>1. fb' = FoldLeft(paintCharacter, fb, <<NL>>)
        BY <2>1 DEF write
      <3>2. fb' = g
        BY <1>19, <3>1, FoldIs
      <3>3. M[y + 1] = <<>>
        BY <1>12, <2>1
      <3>4. Shown(g, M, y + 1, 0)
        BY <1>8, <1>9, <1>11, <1>13, <1>14, <3>3, NewlineShown
      <3> QED
        BY <1>1, <2>1, <3>2, <3>4
    <2>2. CASE character # NL
      <3>1. fb' = FoldLeft(paintCharacter, fb, <<NL, character>>)
        BY <2>2 DEF write
      <3>2. PICK h : h = paintCharacter(g, character)
        OBVIOUS
      <3>3. fb' = h
        <4>1. IsSeq(<<character>>) /\ Paints(g, <<character>>, h)
          BY <3>2, PaintsOne
        <4>2. <<NL, character>> = <<NL>> \o <<character>>
          OBVIOUS
        <4>3. IsSeq(<<NL, character>>) /\ Paints(fb, <<NL, character>>, h)
          BY <1>19, <4>1, <4>2, PaintsBoth
        <4> QED
          BY <3>1, <4>3, FoldIs
      <3>4. RowText(N[y + 1]) /\ Len(N[y + 1]) = 0
        <4>1. IsSeq(<<>>) /\ Len(<<>>) = 0 /\ 0 <= Columns
          BY EmptyLine, ScreenSizes
        <4> QED
          BY <1>17, <4>1 DEF RowText
      <3>5. M[y + 1] = N[y + 1] \o <<character>>
        <4>1. <<>> \o <<character>> = <<character>>
          OBVIOUS
        <4> QED
          BY <1>12, <1>17, <2>2, <4>1
      <3>6. \A r \in 0 .. (y + 1) - 1 : M[r] = N[r]
        <4>1. \A r \in 0 .. (y + 1) - 1 : r \in 0 .. y
          BY <1>9
        <4> QED
          BY <1>11, <1>16, <4>1
      <3>7. 0 \in 0 .. Columns - 1 /\ 0 + 1 = 1
        BY ScreenSizes
      <3>8. Shown(h, M, y + 1, 0 + 1)
        BY <1>9, <1>18, <2>2, <3>2, <3>4, <3>5, <3>6, <3>7, GlyphShown
      <3> QED
        BY <1>1, <2>2, <3>3, <3>7, <3>8
    <2> QED
      BY <2>1, <2>2
  <1>21. InView'
    BY <1>1, <1>5, <1>7, <1>9, <1>20 DEF InView
  <1> QED
    BY <1>20, <1>21 DEF Shown

\* Terminal::write, until a line is used again.
LEMMA WriteScreen ==
    ASSUME IInv, IInv', ScreenInv, NEW character, character # NUL, write(character)
    PROVE  ScreenInv'
  <1> SUFFICES ASSUME ~reused' PROVE Clean' /\ Screen(fb') /\ InView'
    BY DEF ScreenInv
  <1>1. ~reused /\ ~(line_wrap(character) /\ m_size = s_maxLines) /\ ~fb.panicked
    BY DEF write
  <1>2. Clean /\ Screen(fb) /\ InView
    BY <1>1 DEF ScreenInv
  <1>3. CASE ~line_wrap(character)
    BY <1>1, <1>2, <1>3, HereClean, HereShown
  <1>4. CASE line_wrap(character)
    <2>1. m_size < s_maxLines
      BY <1>1, <1>2, <1>4, CleanBuffer, Sizes
    <2>2. Clean'
      BY <1>2, <1>4, <2>1, NextClean
    <2>3. CASE m_firstVisibleLine' = m_firstVisibleLine
      BY <1>1, <1>2, <1>4, <2>1, <2>2, <2>3, NextShown
    <2>4. CASE m_firstVisibleLine' # m_firstVisibleLine
      <3>1. fb' = paintVisibleBuffer(fb, visible_text')
        BY <2>4 DEF write
      <3> QED
        BY <1>1, <1>2, <2>2, <3>1, Repainted
    <2> QED
      BY <2>3, <2>4
  <1> QED
    BY <1>3, <1>4

\* LineBuffer::scrollDown repaints.
LEMMA ScrollScreen ==
    ASSUME IInv, IInv', ScreenInv, NEW n \in Int, scrollDown(n)
    PROVE  ScreenInv'
  <1> SUFFICES ASSUME ~reused' PROVE Clean' /\ Screen(fb') /\ InView'
    BY DEF ScreenInv
  <1>1. /\ UNCHANGED <<m_lineBuffer, m_front, m_size, m_currentColumn, lines, reused>>
        /\ fb' = paintVisibleBuffer(fb, visible_text') /\ ~fb.panicked
    BY DEF scrollDown
  <1>2. Clean /\ Screen(fb) /\ InView
    BY <1>1 DEF ScreenInv
  <1>3. Clean'
    BY <1>1, <1>2 DEF Clean
  <1> QED
    BY <1>1, <1>2, <1>3, Repainted

\* An empty screen shows one empty line.
LEMMA ScreenBlank ==
    ASSUME NEW L, L[0] = <<>>, NEW f,
           f = [cells |-> BlankScreen, x |-> 0, y |-> 0, panicked |-> FALSE]
    PROVE  Shown(f, L, 0, 0)
  <1>1. f.cells = BlankScreen /\ f.x = 0 /\ f.y = 0 /\ ~f.panicked /\ f.panicked \in BOOLEAN
    OBVIOUS
  <1>2. \A r \in 0 .. Rows - 1 : BlankScreen[r] = [c \in 0 .. Columns - 1 |-> Blank]
    BY DEF BlankScreen
  <1>3. Grid(BlankScreen)
    <2>1. BlankScreen = [r \in 0 .. Rows - 1 |-> BlankScreen[r]]
      BY DEF BlankScreen
    <2> QED
      BY <1>2, <2>1 DEF Grid
  <1>4. Screen(f)
    BY <1>1, <1>3 DEF Screen
  <1>5. Padded(<<>>) = [c \in 0 .. Columns - 1 |-> Blank]
    <2>1. \A c \in 0 .. Columns - 1 : ~(c < Len(<<>>))
      OBVIOUS
    <2> QED
      BY <2>1 DEF Padded
  <1>6. \A r \in 0 .. Rows - 1 : r <= 0 => r = 0
    OBVIOUS
  <1> QED
    BY <1>1, <1>2, <1>4, <1>5, <1>6 DEF Shown

\* The terminal's clear, if only the first line was in use.
LEMMA ClearScreen ==
    ASSUME IInv, IInv', ScreenInv, clear
    PROVE  ScreenInv'
  <1> SUFFICES ASSUME ~reused' PROVE Clean' /\ Screen(fb') /\ InView'
    BY DEF ScreenInv
  <1>1. /\ m_front' = 0 /\ m_size' = 1 /\ m_firstVisibleLine' = 0 /\ m_currentColumn' = 0
        /\ m_lineBuffer' = [m_lineBuffer EXCEPT ![0] = [j \in 0 .. s_maxColumns - 1 |-> NUL]]
        /\ lines' = << <<>> >> /\ ~fb.panicked
        /\ fb' = [fb EXCEPT !.cells = BlankScreen, !.x = 0, !.y = 0]
    BY DEF clear
  <1>2. ~reused /\ ~(m_size > 1)
    BY DEF clear
  <1>3. Clean /\ Screen(fb)
    BY <1>2 DEF ScreenInv
  <1>4. m_size = 1
    BY <1>2, <1>3, CleanBuffer
  <1>5. Len(lines') = 1 /\ lines'[1] = <<>> /\ Len(<<>>) = 0
    BY <1>1, EmptyLine
  <1>6. ASSUME NEW i \in 1 .. Len(lines'), NEW j \in 1 .. Len(lines'[i])
        PROVE  lines'[i][j] \notin {NL, NUL}
    <2>1. i = 1
      BY <1>5
    <2> QED
      BY <1>5, <2>1
  <1>7. ASSUME NEW i \in 0 .. s_maxLines - 1, NEW c \in 0 .. s_maxColumns - 1
        PROVE  m_lineBuffer'[i][c] = NUL
    <2>1. DOMAIN m_lineBuffer = 0 .. s_maxLines - 1
      BY DEF IInv, Cells
    <2>2. CASE i = 0
      BY <1>1, <2>1, <2>2
    <2>3. CASE i # 0
      <3>1. m_lineBuffer'[i] = m_lineBuffer[i]
        BY <1>1, <2>1, <2>3
      <3>2. ~(i < m_size)
        BY <1>4, <2>3
      <3> QED
        BY <1>3, <3>1, <3>2 DEF Clean
    <2> QED
      BY <2>2, <2>3
  <1>8. Clean'
    BY <1>1, <1>6, <1>7 DEF Clean
  <1>9. fb' = [cells |-> BlankScreen, x |-> 0, y |-> 0, panicked |-> FALSE]
    BY <1>1, <1>3 DEF Screen
  <1>10. firstVisibleLineIndex' = 0
    BY <1>1 DEF firstVisibleLineIndex
  <1>11. ViewRows'[0] = <<>>
    BY <1>5, <1>10 DEF ViewRows
  <1>12. Shown(fb', ViewRows', 0, 0)
    BY <1>9, <1>11, ScreenBlank
  <1>13. m_size' - 1 - firstVisibleLineIndex' = 0
    BY <1>1, <1>10
  <1>14. InView'
    BY <1>1, <1>12, <1>13 DEF InView
  <1> QED
    BY <1>8, <1>12, <1>14 DEF Shown

\* The terminal as its constructor leaves it.
LEMMA InitScreen == ConsoleInit => ScreenInv
  <1> SUFFICES ASSUME ConsoleInit, ~reused PROVE Clean /\ Screen(fb) /\ InView
    BY DEF ScreenInv
  <1>1. /\ m_front = 0 /\ m_size = 1 /\ m_firstVisibleLine = 0 /\ m_currentColumn = 0
        /\ lines = << <<>> >>
        /\ fb = [cells |-> BlankScreen, x |-> 0, y |-> 0, panicked |-> FALSE]
    BY DEF ConsoleInit, Init, InitLineBuffer
  <1>2. PICK c \in Junk :
           /\ m_lineBuffer = [i \in 0 .. s_maxLines - 1 |-> [j \in 0 .. s_maxColumns - 1 |-> c]]
           /\ reused = (c # NUL)
    BY DEF ConsoleInit, Init, InitLineBuffer
  <1>3. c = NUL
    BY <1>2
  <1>4. Len(lines) = 1 /\ lines[1] = <<>> /\ Len(<<>>) = 0
    BY <1>1, EmptyLine
  <1>5. ASSUME NEW i \in 1 .. Len(lines), NEW j \in 1 .. Len(lines[i])
        PROVE  lines[i][j] \notin {NL, NUL}
    <2>1. i = 1
      BY <1>4
    <2> QED
      BY <1>4, <2>1
  <1>6. Clean
    BY <1>1, <1>2, <1>3, <1>5 DEF Clean
  <1>7. firstVisibleLineIndex = 0
    BY <1>1 DEF firstVisibleLineIndex
  <1>8. ViewRows[0] = <<>>
    BY <1>4, <1>7 DEF ViewRows
  <1>9. Shown(fb, ViewRows, 0, 0)
    BY <1>1, <1>8, ScreenBlank
  <1>10. m_size - 1 - firstVisibleLineIndex = 0
    BY <1>1, <1>7
  <1>11. InView
    BY <1>1, <1>9, <1>10 DEF InView
  <1> QED
    BY <1>6, <1>9, <1>11 DEF Shown

\* printf passes no null character on: a string ends with it.
TextPrinted == pending # <<>> => Head(pending) # NUL

\* Every step keeps screen and buffer together.
LEMMA NextScreen ==
    IInv /\ IInv' /\ TextPrinted /\ ScreenInv /\ [ConsoleNext]_consoleVars => ScreenInv'
  <1> SUFFICES ASSUME IInv, IInv', TextPrinted, ScreenInv, [ConsoleNext]_consoleVars
               PROVE  ScreenInv'
    OBVIOUS
  <1>1. CASE UNCHANGED vars
    <2>1. UNCHANGED <<m_lineBuffer, m_front, m_size, m_firstVisibleLine, m_currentColumn, lines,
                      fb, reused>>
      BY <1>1 DEF vars
    <2>2. Clean => Clean'
      BY <2>1 DEF Clean
    <2>3. InView => InView'
      BY <2>1 DEF InView, CurrentLineInView, lastVisibleLineIndex, firstVisibleLineIndex, ViewRows
    <2>4. Screen(fb) => Screen(fb')
      BY <2>1
    <2> QED
      BY <2>1, <2>2, <2>3, <2>4 DEF ScreenInv
  <1>2. ASSUME NEW c \in Calls, printf(c) PROVE ScreenInv'
    BY <1>1, <1>2 DEF printf
  <1>3. CASE regular
    BY <1>1, <1>3 DEF regular
  <1>4. CASE specifier
    BY <1>1, <1>4 DEF specifier
  <1>5. CASE putchar
    <2>1. PICK character : character = Head(pending)
      OBVIOUS
    <2>2. write(Head(pending)) /\ pending # <<>>
      BY <1>5 DEF putchar
    <2>3. write(character) /\ character # NUL
      BY <2>1, <2>2 DEF TextPrinted
    <2> QED
      BY <2>3, WriteScreen
  <1>6. CASE return
    BY <1>1, <1>6 DEF return
  <1>7. CASE shell
    <2>1. ASSUME NEW character \in Echoed \cup {NL}, write(character) PROVE ScreenInv'
      <3>1. character # NUL
        BY TerminalAssumption, CallAssumption DEF NL, NUL
      <3> QED
        BY <2>1, <3>1, WriteScreen
    <2>2. ASSUME NEW n \in {-1, 1}, scrollDown(n) PROVE ScreenInv'
      <3>1. n \in Int
        OBVIOUS
      <3> QED
        BY <2>2, <3>1, ScrollScreen
    <2>3. CASE clear
      BY <2>3, ClearScreen
    <2> QED
      BY <1>7, <2>1, <2>2, <2>3 DEF shell
  <1>8. CASE hang
    BY <1>1, <1>8 DEF hang, kernel_hang
  <1>9. CASE UNCHANGED consoleVars
    BY <1>1, <1>9 DEF consoleVars
  <1> QED
    BY <1>2, <1>3, <1>4, <1>5, <1>6, <1>7, <1>8, <1>9 DEF ConsoleNext

\* As long as printf is given no null character, the screen shows the lines of the
\* viewport while the line being written is in view, until a line is used again:
\* painting a character alone and repainting everything agree, for every size of
\* the buffer and of the framebuffer.
THEOREM TerminalScreenFollowsText == ConsoleSpec /\ []TextPrinted => []ScreenFollowsText
  <1>1. IInv /\ ScreenInv => ScreenFollowsText
    <2> SUFFICES ASSUME IInv, ScreenInv, ~reused, CurrentLineInView
                 PROVE  /\ ~fb.panicked
                        /\ fb.x = m_currentColumn
                        /\ fb.y = m_size - 1 - firstVisibleLineIndex
                        /\ fb.cells = [r \in 0 .. Rows - 1 |->
                               IF r <= fb.y THEN Padded(lines[firstVisibleLineIndex + r + 1])
                                            ELSE BlankScreen[r]]
      BY DEF ScreenFollowsText
    <2>1. Screen(fb) /\ Shown(fb, ViewRows, m_size - 1 - firstVisibleLineIndex, m_currentColumn)
      BY DEF ScreenInv, InView
    <2>2. /\ ~fb.panicked /\ fb.x = m_currentColumn /\ fb.y = m_size - 1 - firstVisibleLineIndex
          /\ \A r \in 0 .. Rows - 1 :
                fb.cells[r] = IF r <= fb.y THEN Padded(ViewRows[r]) ELSE BlankScreen[r]
      BY <2>1 DEF Shown
    <2>3. fb.cells = [r \in 0 .. Rows - 1 |-> fb.cells[r]]
      BY <2>1 DEF Screen, Grid
    <2>4. \A r \in 0 .. Rows - 1 : ViewRows[r] = lines[firstVisibleLineIndex + r + 1]
      BY DEF ViewRows
    <2>5. \A r \in 0 .. Rows - 1 :
             fb.cells[r] = IF r <= fb.y THEN Padded(lines[firstVisibleLineIndex + r + 1])
                                        ELSE BlankScreen[r]
      BY <2>2, <2>4
    <2> QED
      BY <2>2, <2>3, <2>5
  <1> QED
    BY <1>1, InitScreen, NextScreen, TerminalInvariant, PTL DEF ConsoleSpec

-----------------------------------------------------------------------------
(* The digits of a number. *)

\* What holds of a number when it holds of all smaller ones holds of all.
LEMMA Strong ==
    ASSUME NEW S, \A n \in Nat : (\A m \in 0 .. n - 1 : m \in S) => n \in S
    PROVE  \A n \in Nat : n \in S
  <1> SUFFICES ASSUME NEW k \in Nat, k \notin S PROVE FALSE
    OBVIOUS
  <1>1. PICK T : T = {n \in Nat : n \notin S}
    OBVIOUS
  <1>2. T \subseteq Nat /\ T # {}
    BY <1>1
  <1>3. PICK x \in T : \A y \in T : x <= y
    BY <1>2, LeastNumber
  <1>4. x \in Nat /\ x \notin S
    BY <1>1
  <1>5. \A m \in 0 .. x - 1 : m \in S
    BY <1>1, <1>3, <1>4
  <1> QED
    BY <1>4, <1>5

\* A function that starts at 1 and is multiplied by the base in every step, up to n.
Powers(base, n, g) == \A k \in 0 .. n : g[k] = IF k = 0 THEN 1 ELSE base * g[k - 1]

\* There is such a function for every length.
LEMMA PowersExist ==
    ASSUME NEW base \in Nat, NEW n \in Nat
    PROVE  \E g : Powers(base, n, g) /\ \A k \in 0 .. n : g[k] \in Nat
  <1> DEFINE S == {k \in Nat : \E g : Powers(base, k, g) /\ \A j \in 0 .. k : g[j] \in Nat}
  <1>1. 0 \in S
    <2> DEFINE g == [k \in 0 .. 0 |-> 1]
    <2>1. Powers(base, 0, g) /\ \A k \in 0 .. 0 : g[k] \in Nat
      BY DEF Powers
    <2> HIDE DEF g
    <2> QED
      BY <2>1
  <1>2. ASSUME NEW k \in 0 .. n - 1, k \in S PROVE k + 1 \in S
    <2>1. PICK g : Powers(base, k, g) /\ \A j \in 0 .. k : g[j] \in Nat
      BY <1>2
    <2> DEFINE h == [j \in 0 .. k + 1 |-> IF j <= k THEN g[j] ELSE base * g[k]]
    <2>2. \A j \in 0 .. k : h[j] = g[j]
      OBVIOUS
    <2>3. h[k + 1] = base * g[k] /\ base * g[k] \in Nat
      BY <2>1
    <2> HIDE DEF h
    <2>4. ASSUME NEW j \in 0 .. k + 1 PROVE h[j] = (IF j = 0 THEN 1 ELSE base * h[j - 1]) /\ h[j] \in Nat
      <3>1. CASE j <= k
        <4>1. j \in 0 .. k /\ (j # 0 => j - 1 \in 0 .. k)
          BY <3>1
        <4> QED
          BY <2>1, <2>2, <4>1 DEF Powers
      <3>2. CASE ~(j <= k)
        <4>1. j = k + 1 /\ j # 0 /\ j - 1 = k /\ k \in 0 .. k
          BY <3>2
        <4> QED
          BY <2>2, <2>3, <4>1
      <3> QED
        BY <3>1, <3>2
    <2>5. Powers(base, k + 1, h) /\ \A j \in 0 .. k + 1 : h[j] \in Nat
      BY <2>4 DEF Powers
    <2> QED
      BY <2>5
  <1> HIDE DEF S
  <1>3. \A k \in 0 .. n : k \in S
    BY <1>1, <1>2, UpTo
  <1>4. n \in S
    BY <1>3
  <1> QED
    BY <1>4 DEF S

\* Functions of that kind agree where both are defined.
LEMMA PowersOnce ==
    ASSUME NEW base \in Nat, NEW m \in Nat, NEW n \in Nat, NEW g, NEW h,
           Powers(base, m, g), Powers(base, n, h), m <= n
    PROVE  g[m] = h[m]
  <1> DEFINE S == {k \in Nat : g[k] = h[k]}
  <1>1. 0 \in S
    BY DEF Powers
  <1>2. ASSUME NEW k \in 0 .. m - 1, k \in S PROVE k + 1 \in S
    <2>1. k + 1 \in 0 .. m /\ k + 1 \in 0 .. n /\ k + 1 # 0 /\ (k + 1) - 1 = k /\ k + 1 \in Nat
      OBVIOUS
    <2> QED
      BY <1>2, <2>1 DEF Powers
  <1> HIDE DEF S
  <1>3. \A k \in 0 .. m : k \in S
    BY <1>1, <1>2, UpTo
  <1>4. m \in S
    BY <1>3
  <1> QED
    BY <1>4 DEF S

\* The powers of a base.
LEMMA PowerIs ==
    ASSUME NEW base \in Nat \ {0, 1}
    PROVE  /\ power(base, 0) = 1
           /\ \A k \in Nat : /\ power(base, k) \in Nat \ {0}
                             /\ power(base, k + 1) = base * power(base, k)
  <1>1. base \in Nat
    OBVIOUS
  <1> DEFINE Q(n) == CHOOSE g : Powers(base, n, g) /\ \A k \in 0 .. n : g[k] \in Nat
             p == [n \in Nat |-> Q(n)[n]]
             Step(g, k) == IF k = 0 THEN 1 ELSE base * g[k - 1]
  <1>2. \A n \in Nat : Powers(base, n, Q(n)) /\ \A k \in 0 .. n : Q(n)[k] \in Nat
    BY <1>1, PowersExist
  <1> HIDE DEF Q
  <1>3. ASSUME NEW n \in Nat PROVE p[n] = Step(p, n) /\ p[n] \in Nat
    <2>1. p[n] = Q(n)[n] /\ n \in 0 .. n
      OBVIOUS
    <2>2. CASE n = 0
      BY <1>2, <2>1, <2>2 DEF Powers
    <2>3. CASE n # 0
      <3>1. n - 1 \in Nat /\ n - 1 <= n
        BY <2>3
      <3>2. p[n - 1] = Q(n - 1)[n - 1]
        BY <3>1
      <3>3. Q(n - 1)[n - 1] = Q(n)[n - 1]
        BY <1>1, <1>2, <3>1, PowersOnce
      <3>4. Q(n)[n] = base * Q(n)[n - 1]
        BY <1>2, <2>1, <2>3 DEF Powers
      <3> QED
        BY <1>2, <2>1, <2>3, <3>2, <3>3, <3>4
    <2> QED
      BY <2>2, <2>3
  <1>4. p = [n \in Nat |-> Step(p, n)]
    <2>1. \A n \in Nat : p[n] = Step(p, n)
      BY <1>3
    <2> HIDE DEF Step
    <2> QED
      BY <2>1
  <1>5. \E g : g = [n \in Nat |-> Step(g, n)]
    <2> HIDE DEF p, Step
    <2> QED
      BY <1>4
  <1> DEFINE r == CHOOSE g : g = [n \in Nat |-> Step(g, n)]
  <1>6. r = [n \in Nat |-> Step(r, n)]
    <2> HIDE DEF Step
    <2> QED
      BY <1>5
  <1>7. \A k : power(base, k) = r[k]
    BY DEF power
  <1> HIDE DEF p, r
  <1>8. \A n \in Nat : r[n] = Step(r, n)
    BY <1>6
  <1>9. ASSUME NEW k \in Nat PROVE r[k + 1] = base * r[k]
    <2>1. k + 1 \in Nat /\ k + 1 # 0 /\ (k + 1) - 1 = k
      OBVIOUS
    <2> QED
      BY <1>8, <2>1
  <1>10. r[0] = 1
    BY <1>8
  <1>11. ASSUME NEW n \in Nat PROVE r[n] \in Nat \ {0}
    <2> DEFINE S == {k \in Nat : r[k] \in Nat \ {0}}
    <2>1. 0 \in S
      BY <1>10
    <2>2. ASSUME NEW k \in 0 .. n - 1, k \in S PROVE k + 1 \in S
      <3>1. PICK x \in Nat \ {0} : x = r[k]
        BY <2>2
      <3>2. base * x \in Nat \ {0}
        OBVIOUS
      <3> QED
        BY <1>9, <3>1, <3>2
    <2> HIDE DEF S
    <2>3. \A k \in 0 .. n : k \in S
      BY <2>1, <2>2, UpTo
    <2> QED
      BY <2>3 DEF S
  <1> QED
    BY <1>7, <1>9, <1>10, <1>11

Bases == {10, 16}

\* Powers grow, and faster than their exponents.
LEMMA PowersGrow ==
    ASSUME NEW base \in Bases
    PROVE  /\ power(base, 1) = base
           /\ \A j, k \in Nat : j <= k => power(base, j) <= power(base, k)
           /\ \A k \in Nat : k < power(base, k)
  <1>1. base \in Nat \ {0, 1}
    BY DEF Bases
  <1> DEFINE p == [k \in Nat |-> power(base, k)]
  <1>2. /\ p[0] = 1
        /\ \A k \in Nat : p[k] \in Nat \ {0} /\ p[k + 1] = base * p[k] /\ power(base, k) = p[k]
    <2>1. \A k \in Nat : k + 1 \in Nat /\ p[k] = power(base, k)
      OBVIOUS
    <2> HIDE DEF p
    <2> QED
      BY <1>1, <2>1, PowerIs
  <1> HIDE DEF p
  <1>3. \A k \in Nat : p[k] < p[k + 1]
    <2> SUFFICES ASSUME NEW k \in Nat PROVE p[k] < p[k + 1]
      OBVIOUS
    <2>1. PICK x \in Nat \ {0} : x = p[k]
      BY <1>2
    <2>2. x < base * x
      BY <1>1
    <2> QED
      BY <1>2, <2>1, <2>2
  <1>4. ASSUME NEW j \in Nat, NEW d \in Nat PROVE p[j] <= p[j + d]
    <2> DEFINE S == {k \in Nat : p[j] <= p[j + k]}
    <2>1. 0 \in S
      BY <1>2
    <2>2. ASSUME NEW k \in 0 .. d - 1, k \in S PROVE k + 1 \in S
      <3>1. j + k \in Nat /\ j + (k + 1) = (j + k) + 1 /\ k + 1 \in Nat
        OBVIOUS
      <3>2. p[j + k] < p[(j + k) + 1] /\ p[j + k] \in Nat /\ p[(j + k) + 1] \in Nat /\ p[j] \in Nat
        BY <1>2, <1>3, <3>1
      <3>3. p[j] <= p[j + k]
        BY <2>2
      <3>4. p[j] <= p[j + (k + 1)]
        BY <3>1, <3>2, <3>3
      <3> QED
        BY <3>1, <3>4
    <2> HIDE DEF S
    <2>3. \A k \in 0 .. d : k \in S
      BY <2>1, <2>2, UpTo
    <2> QED
      BY <2>3 DEF S
  <1>5. ASSUME NEW j \in Nat, NEW k \in Nat, j <= k PROVE p[j] <= p[k]
    <2>1. k - j \in Nat /\ j + (k - j) = k
      BY <1>5
    <2> QED
      BY <1>4, <2>1
  <1>6. ASSUME NEW n \in Nat PROVE n < p[n]
    <2> DEFINE S == {k \in Nat : k < p[k]}
    <2>1. 0 \in S
      BY <1>2
    <2>2. ASSUME NEW k \in 0 .. n - 1, k \in S PROVE k + 1 \in S
      <3>1. k \in Nat /\ k < p[k] /\ p[k] < p[k + 1] /\ p[k] \in Nat /\ p[k + 1] \in Nat
        BY <1>2, <1>3, <2>2
      <3> QED
        BY <3>1
    <2> HIDE DEF S
    <2>3. \A k \in 0 .. n : k \in S
      BY <2>1, <2>2, UpTo
    <2> QED
      BY <2>3 DEF S
  <1>7. p[1] = base
    <2>1. 1 = 0 + 1 /\ base * 1 = base
      BY <1>1
    <2> QED
      BY <1>2, <2>1
  <1> QED
    BY <1>2, <1>5, <1>6, <1>7

\* k is the number of digits of n.
IsLength(base, n, k) == n < power(base, k) /\ (k = 1 \/ power(base, k - 1) <= n)

LengthOf(base, n) == CHOOSE k \in 1 .. n + 1 : IsLength(base, n, k)

\* A number has a number of digits.
LEMMA LengthExists ==
    ASSUME NEW base \in Bases, NEW n \in Nat
    PROVE  \E k \in 1 .. n + 1 : IsLength(base, n, k)
  <1>1. base \in Nat \ {0, 1}
    BY DEF Bases
  <1>2. PICK T : T = {k \in Nat \ {0} : n < power(base, k)}
    OBVIOUS
  <1>3. n + 1 \in T
    <2>1. PICK k \in Nat \ {0} : k = n + 1
      OBVIOUS
    <2>2. k < power(base, k) /\ power(base, k) \in Nat
      BY <1>1, PowerIs, PowersGrow
    <2>3. n < power(base, k)
      BY <2>1, <2>2
    <2> QED
      BY <1>2, <2>1, <2>3
  <1>4. T \subseteq Nat /\ T # {}
    BY <1>2, <1>3
  <1>5. PICK k \in T : \A y \in T : k <= y
    BY <1>4, LeastNumber
  <1>6. k \in 1 .. n + 1 /\ n < power(base, k)
    BY <1>2, <1>3, <1>5
  <1>7. CASE k = 1
    BY <1>6, <1>7 DEF IsLength
  <1>8. CASE k # 1
    <2>1. k - 1 \in Nat \ {0} /\ ~(k <= k - 1)
      BY <1>6, <1>8
    <2>2. k - 1 \notin T
      BY <1>5, <2>1
    <2>3. power(base, k - 1) \in Nat
      BY <1>1, <2>1, PowerIs
    <2>4. power(base, k - 1) <= n
      BY <1>2, <2>1, <2>2, <2>3
    <2> QED
      BY <1>6, <2>4 DEF IsLength
  <1> QED
    BY <1>7, <1>8

\* A number has no two numbers of digits.
LEMMA LengthOnce ==
    ASSUME NEW base \in Bases, NEW n \in Nat, NEW j \in Nat \ {0}, NEW k \in Nat \ {0},
           IsLength(base, n, j), IsLength(base, n, k)
    PROVE  j = k
  <1>1. base \in Nat \ {0, 1}
    BY DEF Bases
  <1>2. ASSUME NEW a \in Nat \ {0}, NEW b \in Nat \ {0}, IsLength(base, n, a), IsLength(base, n, b)
        PROVE  ~(a < b)
    <2> SUFFICES ASSUME a < b PROVE FALSE
      OBVIOUS
    <2>1. b # 1 /\ b - 1 \in Nat /\ a <= b - 1
      BY <1>2
    <2>2. power(base, a) <= power(base, b - 1) /\ power(base, a) \in Nat /\ power(base, b - 1) \in Nat
      BY <1>1, <2>1, PowersGrow, PowerIs
    <2>3. n < power(base, a) /\ power(base, b - 1) <= n
      BY <1>2, <2>1 DEF IsLength
    <2> QED
      BY <2>2, <2>3
  <1>3. ~(j < k) /\ ~(k < j)
    BY <1>2
  <1> QED
    BY <1>3

\* The number of digits the definition chooses is the one.
LEMMA LengthIs ==
    ASSUME NEW base \in Bases, NEW n \in Nat
    PROVE  /\ LengthOf(base, n) \in 1 .. n + 1 /\ IsLength(base, n, LengthOf(base, n))
           /\ \A k \in Nat \ {0} : IsLength(base, n, k) => LengthOf(base, n) = k
  <1>1. LengthOf(base, n) \in 1 .. n + 1 /\ IsLength(base, n, LengthOf(base, n))
    BY LengthExists DEF LengthOf
  <1> QED
    BY <1>1, LengthOnce

\* The last digit off, a number of several digits has one less.
LEMMA LengthStep ==
    ASSUME NEW base \in Bases, NEW n \in Nat
    PROVE  /\ n < base => LengthOf(base, n) = 1
           /\ n >= base => LengthOf(base, n) = LengthOf(base, n \div base) + 1
  <1>1. base \in Nat \ {0, 1}
    BY DEF Bases
  <1>2. ASSUME n < base PROVE LengthOf(base, n) = 1
    <2>1. IsLength(base, n, 1)
      BY <1>2, PowersGrow DEF IsLength
    <2> QED
      BY <2>1, LengthIs
  <1>3. ASSUME n >= base PROVE LengthOf(base, n) = LengthOf(base, n \div base) + 1
    <2>1. PICK m \in Nat : m = n \div base /\ base * m <= n /\ n < base * (m + 1)
      BY DEF Bases
    <2>2. PICK k \in Nat \ {0} : k = LengthOf(base, m) /\ IsLength(base, m, k)
      BY LengthIs
    <2>3. PICK q \in Nat : q = power(base, k) /\ power(base, k + 1) = base * q
      BY <1>1, PowerIs
    <2>4. n < base * q
      <3>1. m + 1 <= q
        BY <2>2, <2>3 DEF IsLength
      <3>2. base * (m + 1) <= base * q
        BY <3>1 DEF Bases
      <3> QED
        BY <1>1, <2>1, <3>2
    <2>5. q <= n
      <3>1. CASE k = 1
        BY <1>3, <2>3, <3>1, PowersGrow
      <3>2. CASE k # 1
        <4>1. k - 1 \in Nat /\ k = (k - 1) + 1
          BY <3>2
        <4>2. PICK r \in Nat : r = power(base, k - 1) /\ power(base, (k - 1) + 1) = base * r
          BY <1>1, <4>1, PowerIs
        <4>3. r <= m /\ q = base * r
          BY <2>2, <2>3, <3>2, <4>1, <4>2 DEF IsLength
        <4>4. base * r <= base * m
          BY <4>3 DEF Bases
        <4> QED
          BY <1>1, <2>1, <4>3, <4>4
      <3> QED
        BY <3>1, <3>2
    <2>6. (k + 1) - 1 = k /\ k + 1 \in Nat \ {0}
      OBVIOUS
    <2>7. IsLength(base, n, k + 1)
      BY <2>3, <2>4, <2>5, <2>6 DEF IsLength
    <2> QED
      BY <2>1, <2>2, <2>6, <2>7, LengthIs
  <1> QED
    BY <1>2, <1>3

\* A numeral is the numeral without its last digit, and that digit.
LEMMA NumeralStep ==
    ASSUME NEW base \in Bases, NEW n \in Nat
    PROVE  /\ IsSeq(Numeral(base, n))
           /\ Numeral(base, n) = (IF n < base THEN <<>> ELSE Numeral(base, n \div base))
                                     \o <<Digits[(n % base) + 1]>>
  <1>1. base \in Nat \ {0, 1}
    BY DEF Bases
  <1>2. \A a \in Nat : /\ IsSeq(Numeral(base, a)) /\ Len(Numeral(base, a)) = LengthOf(base, a)
                       /\ \A i \in 1 .. LengthOf(base, a) :
                              Numeral(base, a)[i]
                                = Digits[((a \div power(base, LengthOf(base, a) - i)) % base) + 1]
    <2> SUFFICES ASSUME NEW a \in Nat
                 PROVE  /\ IsSeq(Numeral(base, a)) /\ Len(Numeral(base, a)) = LengthOf(base, a)
                        /\ \A i \in 1 .. LengthOf(base, a) :
                               Numeral(base, a)[i]
                                 = Digits[((a \div power(base, LengthOf(base, a) - i)) % base) + 1]
      OBVIOUS
    <2>1. PICK k \in Nat : k = LengthOf(base, a)
      BY LengthIs
    <2>2. Numeral(base, a) = [i \in 1 .. k |-> Digits[((a \div power(base, k - i)) % base) + 1]]
      BY <2>1 DEF Numeral, LengthOf, IsLength
    <2> QED
      BY <2>1, <2>2 DEF IsSeq
  <1>3. CASE n < base
    <2>1. LengthOf(base, n) = 1
      BY <1>3, LengthStep
    <2>2. power(base, 1 - 1) = 1 /\ n \div 1 = n
      BY <1>1, PowerIs
    <2>3. Numeral(base, n)[1] = Digits[(n % base) + 1] /\ Len(Numeral(base, n)) = 1
      <3>1. 1 \in 1 .. LengthOf(base, n)
        BY <2>1
      <3>2. Numeral(base, n)[1] = Digits[((n \div power(base, LengthOf(base, n) - 1)) % base) + 1]
        BY <1>2, <3>1
      <3> QED
        BY <1>2, <2>1, <2>2, <3>2
    <2>4. Numeral(base, n) = <<Digits[(n % base) + 1]>>
      BY <1>2, <2>3 DEF IsSeq
    <2>5. <<>> \o <<Digits[(n % base) + 1]>> = <<Digits[(n % base) + 1]>>
      OBVIOUS
    <2> QED
      BY <1>2, <1>3, <2>4, <2>5
  <1>4. CASE ~(n < base)
    <2>1. n >= base
      BY <1>1, <1>4
    <2>2. PICK m \in Nat : m = n \div base
      BY DEF Bases
    <2>3. PICK k \in Nat : k = LengthOf(base, m)
      BY LengthIs
    <2>4. LengthOf(base, n) = k + 1
      BY <2>1, <2>2, <2>3, LengthStep
    <2>5. PICK t : t = <<Digits[(n % base) + 1]>>
      OBVIOUS
    <2>6. PICK s : s = Numeral(base, m)
      OBVIOUS
    <2>7. IsSeq(s) /\ Len(s) = k
      BY <1>2, <2>3, <2>6
    <2>8. IsSeq(t) /\ Len(t) = 1 /\ t[1] = Digits[(n % base) + 1]
      BY <2>5 DEF IsSeq
    <2>9. /\ IsSeq(s \o t) /\ Len(s \o t) = k + 1
          /\ \A i \in 1 .. k + 1 : (s \o t)[i] = IF i <= k THEN s[i] ELSE t[i - k]
      BY <2>7, <2>8, Joined
    <2>10. PICK u : u = Numeral(base, n)
      OBVIOUS
    <2>11. IsSeq(u) /\ Len(u) = k + 1
      BY <1>2, <2>4, <2>10
    <2>12. ASSUME NEW i \in 1 .. k + 1 PROVE u[i] = (s \o t)[i]
      <3>1. u[i] = Digits[((n \div power(base, (k + 1) - i)) % base) + 1]
        BY <1>2, <2>4, <2>10
      <3>2. CASE i <= k
        <4>1. i \in 1 .. k /\ k - i \in Nat /\ (k + 1) - i = (k - i) + 1
          BY <3>2
        <4>2. PICK q \in Nat \ {0} : q = power(base, k - i) /\ power(base, (k + 1) - i) = base * q
          BY <1>1, <4>1, PowerIs
        <4>3. n \div (base * q) = m \div q
          BY <2>2 DEF Bases
        <4>4. s[i] = Digits[((m \div q) % base) + 1]
          BY <1>2, <2>3, <2>6, <4>1, <4>2
        <4> QED
          BY <2>9, <3>1, <3>2, <4>2, <4>3, <4>4
      <3>3. CASE ~(i <= k)
        <4>1. i = k + 1 /\ (k + 1) - i = 0 /\ i - k = 1
          BY <3>3
        <4>2. power(base, 0) = 1 /\ n \div 1 = n
          BY <1>1, PowerIs
        <4> QED
          BY <2>8, <2>9, <3>1, <3>3, <4>1, <4>2
      <3> QED
        BY <3>2, <3>3
    <2>13. u = s \o t
      BY <2>9, <2>11, <2>12 DEF IsSeq
    <2> QED
      BY <1>4, <2>2, <2>5, <2>6, <2>10, <2>11, <2>13
  <1> QED
    BY <1>3, <1>4

\* The loop writes the numeral.
LEMMA DigitsNumeral ==
    ASSUME NEW base \in Bases, NEW n \in Nat
    PROVE  digits(base, n) = Numeral(base, n)
  <1>1. base \in Nat \ {0, 1}
    BY DEF Bases
  <1> DEFINE Step(g, k) == (IF k < base THEN <<>> ELSE g[k \div base]) \o <<Digits[(k % base) + 1]>>
             h == [k \in Nat |-> Numeral(base, k)]
  <1>2. ASSUME NEW k \in Nat PROVE h[k] = Step(h, k)
    <2>1. k \div base \in Nat
      BY DEF Bases
    <2>2. h[k \div base] = Numeral(base, k \div base) /\ h[k] = Numeral(base, k)
      BY <2>1
    <2> QED
      BY <2>2, NumeralStep
  <1>3. h = [k \in Nat |-> Step(h, k)]
    <2>1. \A k \in Nat : h[k] = Step(h, k)
      BY <1>2
    <2> HIDE DEF Step
    <2> QED
      BY <2>1
  <1>4. \E g : g = [k \in Nat |-> Step(g, k)]
    <2> HIDE DEF h, Step
    <2> QED
      BY <1>3
  <1> DEFINE r == CHOOSE g : g = [k \in Nat |-> Step(g, k)]
  <1>5. r = [k \in Nat |-> Step(r, k)]
    <2> HIDE DEF Step
    <2> QED
      BY <1>4
  <1>6. digits(base, n) = r[n]
    BY DEF digits
  <1>7. h[n] = Numeral(base, n)
    OBVIOUS
  <1> HIDE DEF r, h
  <1>8. \A k \in Nat : r[k] = Step(r, k)
    <2> HIDE DEF Step
    <2> QED
      BY <1>5
  <1> DEFINE S == {k \in Nat : r[k] = h[k]}
  <1>9. ASSUME NEW k \in Nat, \A m \in 0 .. k - 1 : m \in S PROVE k \in S
    <2>1. CASE k < base
      BY <1>2, <1>8, <2>1
    <2>2. CASE ~(k < base)
      <3>1. k \div base \in 0 .. k - 1
        BY <2>2 DEF Bases
      <3>2. r[k \div base] = h[k \div base]
        BY <1>9, <3>1
      <3> QED
        BY <1>2, <1>8, <2>2, <3>2
    <2> QED
      BY <2>1, <2>2
  <1> HIDE DEF S
  <1>10. n \in S
    <2>1. \A k \in Nat : (\A m \in 0 .. k - 1 : m \in S) => k \in S
      BY <1>9
    <2> QED
      BY <2>1, Strong
  <1> QED
    BY <1>6, <1>7, <1>10 DEF S

-----------------------------------------------------------------------------
(* The directives of a format. *)

\* The % immediately before a position.
Run(f, i) == {j \in 1 .. i - 1 : \A k \in j .. i - 1 : f[k] = Percent}

\* A directive may start at the position, which may be the end of the format.
StartAt(f, i) == Cardinality(Run(f, i)) % 2 = 0

\* A directive is a character, or a pair that starts with %.
LEMMA StartStep ==
    ASSUME NEW f
    PROVE  /\ StartAt(f, 1)
           /\ \A i \in Nat \ {0} : StartAt(f, i + 1) <=> ~(StartAt(f, i) /\ f[i] = Percent)
           /\ \A i \in 1 .. Len(f) : i \in Starts(f) <=> StartAt(f, i)
  <1>1. Run(f, 1) = {}
    BY DEF Run
  <1>2. StartAt(f, 1)
    BY <1>1, FS_EmptySet DEF StartAt
  <1>3. ASSUME NEW i \in Nat \ {0} PROVE StartAt(f, i + 1) <=> ~(StartAt(f, i) /\ f[i] = Percent)
    <2>1. IsFiniteSet(Run(f, i)) /\ i \notin Run(f, i)
      <3>1. Run(f, i) \subseteq 1 .. i - 1 /\ i \notin Run(f, i)
        BY DEF Run
      <3>2. IsFiniteSet(1 .. i - 1)
        BY FS_Interval
      <3> QED
        BY <3>1, <3>2, FS_Subset
    <2>2. CASE f[i] = Percent
      <3>1. Run(f, i + 1) = Run(f, i) \cup {i}
        <4>1. ASSUME NEW j \in Run(f, i + 1), j # i PROVE j \in Run(f, i)
          BY <4>1 DEF Run
        <4>2. ASSUME NEW j \in Run(f, i) PROVE j \in Run(f, i + 1)
          <5>1. j \in 1 .. i - 1 /\ \A k \in j .. i - 1 : f[k] = Percent
            BY <4>2 DEF Run
          <5>2. \A k \in j .. (i + 1) - 1 : f[k] = Percent
            BY <2>2, <5>1
          <5> QED
            BY <5>1, <5>2 DEF Run
        <4>3. i \in Run(f, i + 1)
          BY <2>2 DEF Run
        <4> QED
          BY <4>1, <4>2, <4>3
      <3>2. Cardinality(Run(f, i + 1)) = Cardinality(Run(f, i)) + 1
        BY <2>1, <3>1, FS_AddElement
      <3>3. PICK c \in Nat : c = Cardinality(Run(f, i))
        BY <2>1, FS_CardinalityType
      <3>4. (c + 1) % 2 = 0 <=> ~(c % 2 = 0)
        OBVIOUS
      <3> QED
        BY <2>2, <3>2, <3>3, <3>4 DEF StartAt
    <2>3. CASE f[i] # Percent
      <3>1. Run(f, i + 1) = {}
        <4> SUFFICES ASSUME NEW j \in Run(f, i + 1) PROVE FALSE
          OBVIOUS
        <4>1. j \in 1 .. i /\ \A k \in j .. (i + 1) - 1 : f[k] = Percent
          BY DEF Run
        <4>2. i \in j .. (i + 1) - 1
          BY <4>1
        <4> QED
          BY <2>3, <4>1, <4>2
      <3>2. StartAt(f, i + 1)
        BY <3>1, FS_EmptySet DEF StartAt
      <3> QED
        BY <2>3, <3>2
    <2> QED
      BY <2>2, <2>3
  <1>4. \A i \in 1 .. Len(f) : i \in Starts(f) <=> StartAt(f, i)
    BY DEF Starts, StartAt, Run
  <1> QED
    BY <1>2, <1>3, <1>4

\* Arguments are consumed by conversions only, one by each.
LEMMA ArgumentStep ==
    ASSUME NEW f, Len(f) \in Nat
    PROVE  /\ ConversionsUpTo(f, 0) = 0
           /\ \A i \in Nat : /\ ConversionsUpTo(f, i) \in Nat
                             /\ ConversionsUpTo(f, i + 1)
                                  = IF i + 1 \in Conversions(f) THEN ConversionsUpTo(f, i) + 1
                                    ELSE ConversionsUpTo(f, i)
  <1>1. Conversions(f) \subseteq 1 .. Len(f)
    BY DEF Conversions, Starts
  <1>2. {j \in Conversions(f) : j <= 0} = {}
    BY <1>1
  <1>3. ConversionsUpTo(f, 0) = 0
    BY <1>2, FS_EmptySet DEF ConversionsUpTo
  <1>4. ASSUME NEW i \in Nat
        PROVE  /\ ConversionsUpTo(f, i) \in Nat
               /\ ConversionsUpTo(f, i + 1)
                    = IF i + 1 \in Conversions(f) THEN ConversionsUpTo(f, i) + 1
                      ELSE ConversionsUpTo(f, i)
    <2>1. PICK A : A = {j \in Conversions(f) : j <= i}
      OBVIOUS
    <2>2. PICK B : B = {j \in Conversions(f) : j <= i + 1}
      OBVIOUS
    <2>3. IsFiniteSet(A)
      <3>1. A \subseteq 1 .. Len(f)
        BY <1>1, <2>1
      <3>2. IsFiniteSet(1 .. Len(f))
        BY FS_Interval
      <3> QED
        BY <3>1, <3>2, FS_Subset
    <2>4. B = IF i + 1 \in Conversions(f) THEN A \cup {i + 1} ELSE A
      BY <1>1, <2>1, <2>2
    <2>5. i + 1 \notin A
      BY <2>1
    <2>6. Cardinality(A \cup {i + 1}) = Cardinality(A) + 1 /\ Cardinality(A) \in Nat
      BY <2>3, <2>5, FS_AddElement, FS_CardinalityType
    <2>7. ConversionsUpTo(f, i) = Cardinality(A) /\ ConversionsUpTo(f, i + 1) = Cardinality(B)
      BY <2>1, <2>2 DEF ConversionsUpTo
    <2> QED
      BY <2>4, <2>6, <2>7
  <1> QED
    BY <1>3, <1>4

\* What printf writes for a conversion is what the conversion stands for.
LEMMA ConvertRenders ==
    ASSUME NEW s \in Specifiers, NEW a, s = "s" => a \in Seq(STRING), s \in {"d", "x", "p"} => a \in Nat
    PROVE  convert(s, a) = Rendered(s, a) /\ IsSeq(Rendered(s, a))
  <1>1. CASE s = "c"
    <2>1. convert(s, a) = <<a>> /\ Rendered(s, a) = <<a>>
      BY <1>1 DEF convert, Rendered
    <2> QED
      BY <2>1 DEF IsSeq
  <1>2. CASE s = "s"
    <2>1. convert(s, a) = a /\ Rendered(s, a) = a
      BY <1>2 DEF convert, Rendered
    <2> QED
      BY <1>2, <2>1, SeqOfElements
  <1>3. CASE s = "d"
    <2>1. a \in Nat /\ ~(a < 0) /\ 10 \in Bases
      BY <1>3 DEF Bases
    <2>2. convert(s, a) = decimal(a) /\ Rendered(s, a) = Numeral(10, a)
      BY <1>3 DEF convert, Rendered
    <2>3. decimal(a) = digits(10, a)
      BY <2>1 DEF decimal
    <2> QED
      BY <2>1, <2>2, <2>3, DigitsNumeral, NumeralStep
  <1>4. CASE s \in {"x", "p"}
    <2>1. a \in Nat /\ 16 \in Bases
      BY <1>4 DEF Bases
    <2>2. convert(s, a) = hex(a) /\ Rendered(s, a) = Numeral(16, a)
      BY <1>4 DEF convert, Rendered
    <2>3. hex(a) = digits(16, a)
      BY DEF hex
    <2> QED
      BY <2>1, <2>2, <2>3, DigitsNumeral, NumeralStep
  <1> QED
    BY <1>1, <1>2, <1>3, <1>4 DEF Specifiers

\* The directives of a call the standard gives a meaning to.
LEMMA ConversionAt ==
    ASSUME NEW c, Conforming(c), NEW i \in Starts(c.format), c.format[i] = Percent
    PROVE  /\ i < Len(c.format)
           /\ c.format[i + 1] # Percent =>
                 /\ i \in Conversions(c.format) /\ c.format[i + 1] \in Specifiers
                 /\ ConversionsUpTo(c.format, i) <= Len(c.args)
                 /\ Directive(c, i) = convert(c.format[i + 1], ArgumentOf(c, i))
                 /\ IsSeq(Directive(c, i))
  <1>1. /\ i < Len(c.format) /\ c.format[i + 1] \in Specifiers \cup {Percent}
        /\ c.format[i + 1] # Percent => ConversionsUpTo(c.format, i) <= Len(c.args)
        /\ c.format[i + 1] = "s" => ArgumentOf(c, i) \in Seq(STRING)
        /\ c.format[i + 1] \in {"d", "x", "p"} => ArgumentOf(c, i) \in Nat
    BY DEF Conforming
  <1>2. ASSUME c.format[i + 1] # Percent
        PROVE  /\ i \in Conversions(c.format) /\ c.format[i + 1] \in Specifiers
               /\ ConversionsUpTo(c.format, i) <= Len(c.args)
               /\ Directive(c, i) = convert(c.format[i + 1], ArgumentOf(c, i))
               /\ IsSeq(Directive(c, i))
    <2>1. i \in Conversions(c.format) /\ c.format[i + 1] \in Specifiers
      BY <1>1, <1>2 DEF Conversions
    <2>2. Directive(c, i) = Rendered(c.format[i + 1], ArgumentOf(c, i))
      BY <2>1 DEF Directive
    <2> QED
      BY <1>1, <1>2, <2>1, <2>2, ConvertRenders
  <1> QED
    BY <1>1, <1>2

\* What a directive stands for is a text.
LEMMA DirectiveIsSeq ==
    ASSUME NEW c, Conforming(c), NEW i \in 1 .. Len(c.format)
    PROVE  IsSeq(Directive(c, i))
  <1>1. CASE i \in Conversions(c.format)
    <2>1. i \in Starts(c.format) /\ c.format[i] = Percent /\ c.format[i + 1] # Percent
      BY <1>1 DEF Conversions
    <2> QED
      BY <2>1, ConversionAt
  <1>2. CASE i \notin Conversions(c.format)
    <2>1. Directive(c, i) = <<c.format[i]>> \/ Directive(c, i) = <<>>
      BY <1>2 DEF Directive
    <2>2. IsSeq(<<>>) /\ \A x : IsSeq(<<x>>)
      BY DEF IsSeq
    <2> QED
      BY <2>1, <2>2
  <1> QED
    BY <1>1, <1>2

\* The text of the first i positions of a call's format, and of all of it.
IsOutput(c, F) ==
    /\ F[0] = <<>>
    /\ \A i \in 1 .. Len(c.format) : F[i] = F[i - 1] \o Directive(c, i)
    /\ F[Len(c.format)] = FlattenSeq([i \in 1 .. Len(c.format) |-> Directive(c, i)])

Output(c) == CHOOSE F : IsOutput(c, F)

\* The output exists: the outputs of the prefixes, and the library's flattening of all.
LEMMA OutputIs ==
    ASSUME NEW c, Conforming(c), Len(c.format) \in Nat
    PROVE  IsOutput(c, Output(c)) /\ \A i \in 0 .. Len(c.format) : IsSeq(Output(c)[i])
  <1>1. PICK n \in Nat : n = Len(c.format)
    OBVIOUS
  <1>2. PICK L : L = [i \in 1 .. n |-> Directive(c, i)]
    OBVIOUS
  <1>3. Len(L) = n /\ \A i \in 1 .. n : L[i] = Directive(c, i)
    BY <1>2
  <1>4. \E F : IsOutput(c, F)
    <2>1. CASE n = 0
      <3> DEFINE F == [i \in 0 .. 0 |-> <<>>]
      <3>1. F[0] = <<>>
        OBVIOUS
      <3>2. FlattenSeq(L) = L
        BY <1>3, <2>1 DEF FlattenSeq
      <3>3. L = <<>>
        BY <1>2, <2>1
      <3> HIDE DEF F
      <3>4. \A i \in 1 .. n : F[i] = F[i - 1] \o Directive(c, i)
        BY <2>1
      <3>5. IsOutput(c, F)
        BY <1>1, <1>2, <2>1, <3>1, <3>2, <3>3, <3>4 DEF IsOutput
      <3> QED
        BY <3>5
    <2>2. CASE n # 0
      <3>1. n \in Nat \ {0}
        BY <2>2
      <3>2. PICK f : /\ f[1] = L[1] /\ \A i \in 2 .. n : f[i] = f[i - 1] \o L[i]
                     /\ FlattenSeq(L) = f[n]
        BY <1>3, <3>1, Flattened
      <3> DEFINE F == [i \in 0 .. n |-> IF i = 0 THEN <<>> ELSE f[i]]
      <3>3. F[0] = <<>> /\ \A i \in 1 .. n : F[i] = f[i]
        OBVIOUS
      <3> HIDE DEF F
      <3>4. ASSUME NEW i \in 1 .. n PROVE F[i] = F[i - 1] \o Directive(c, i)
        <4>1. CASE i = 1
          <5>1. PICK s : s = Directive(c, 1)
            OBVIOUS
          <5>2. IsSeq(s)
            BY <1>1, <3>1, <5>1, DirectiveIsSeq
          <5>3. <<>> \o s = s
            BY <5>2, SeqOfElements, ConcatEmptySeq
          <5>4. F[1] = s /\ F[1 - 1] = <<>>
            BY <1>3, <3>1, <3>2, <3>3, <5>1
          <5> QED
            BY <4>1, <5>1, <5>3, <5>4
        <4>2. CASE i # 1
          <5>1. i \in 2 .. n /\ i - 1 \in 1 .. n
            BY <4>2
          <5> QED
            BY <1>3, <3>2, <3>3, <5>1
        <4> QED
          BY <4>1, <4>2
      <3>5. F[n] = FlattenSeq(L)
        BY <3>1, <3>2, <3>3
      <3>6. IsOutput(c, F)
        BY <1>1, <1>2, <3>3, <3>4, <3>5 DEF IsOutput
      <3> QED
        BY <3>6
    <2> QED
      BY <2>1, <2>2
  <1>5. IsOutput(c, Output(c))
    BY <1>4 DEF Output
  <1>6. PICK F : F = Output(c)
    OBVIOUS
  <1> DEFINE S == {i \in Nat : IsSeq(F[i])}
  <1>7. 0 \in S
    <2>1. F[0] = <<>>
      BY <1>5, <1>6 DEF IsOutput
    <2>2. IsSeq(<<>>)
      BY DEF IsSeq
    <2> QED
      BY <2>1, <2>2
  <1>8. ASSUME NEW i \in 0 .. n - 1, i \in S PROVE i + 1 \in S
    <2>1. i + 1 \in 1 .. n /\ (i + 1) - 1 = i
      OBVIOUS
    <2>2. F[i + 1] = F[i] \o Directive(c, i + 1)
      BY <1>1, <1>5, <1>6, <2>1 DEF IsOutput
    <2>3. IsSeq(F[i]) /\ IsSeq(Directive(c, i + 1))
      BY <1>1, <1>8, <2>1, DirectiveIsSeq
    <2>4. IsSeq(F[i + 1])
      BY <2>2, <2>3, Joined
    <2> QED
      BY <2>4
  <1> HIDE DEF S
  <1>9. \A i \in 0 .. n : i \in S
    BY <1>7, <1>8, UpTo
  <1> QED
    BY <1>1, <1>5, <1>6, <1>9 DEF S

-----------------------------------------------------------------------------
(* The walk over the format. *)

\* What is left of a sequence after its first p elements, and the next n of them.
Rest(s, p) == [i \in 1 .. Len(s) - p |-> s[p + i]]

Piece(s, p, n) == [i \in 1 .. n |-> s[p + i]]

\* Taking elements from the front.
LEMMA RestIs ==
    ASSUME NEW s, IsSeq(s), NEW p \in 0 .. Len(s)
    PROVE  /\ IsSeq(Rest(s, p)) /\ Len(Rest(s, p)) = Len(s) - p
           /\ \A i \in 1 .. Len(s) - p : Rest(s, p)[i] = s[p + i]
           /\ Rest(s, 0) = s
           /\ Rest(s, p) = <<>> <=> p = Len(s)
           /\ p < Len(s) => Head(Rest(s, p)) = s[p + 1] /\ Tail(Rest(s, p)) = Rest(s, p + 1)
  <1>1. PICK n \in Nat : n = Len(s)
    BY DEF IsSeq
  <1>2. PICK r : r = Rest(s, p)
    OBVIOUS
  <1>3. IsSeq(r) /\ Len(r) = n - p /\ \A i \in 1 .. n - p : r[i] = s[p + i]
    BY <1>1, <1>2 DEF Rest, IsSeq
  <1>4. Rest(s, 0) = s
    <2>1. Rest(s, 0) = [i \in 1 .. n |-> s[i]]
      BY <1>1 DEF Rest
    <2> QED
      BY <1>1, <2>1 DEF IsSeq
  <1>5. r = <<>> <=> p = n
    <2>1. ASSUME p = n PROVE r = <<>>
      <3>1. Len(r) = 0 /\ r \in Seq(Elements(r))
        BY <1>1, <1>3, <2>1, SeqOfElements
      <3> QED
        BY <3>1, EmptySeq
    <2>2. Len(<<>>) = 0
      OBVIOUS
    <2>3. ASSUME r = <<>> PROVE p = n
      BY <1>1, <1>3, <2>2, <2>3
    <2> QED
      BY <2>1, <2>3
  <1>6. ASSUME p < n PROVE Head(r) = s[p + 1] /\ Tail(r) = Rest(s, p + 1)
    <2>1. r \in Seq(Elements(r)) /\ r # <<>> /\ 1 \in 1 .. n - p
      BY <1>1, <1>3, <1>5, <1>6, SeqOfElements
    <2>2. Head(r) = r[1]
      BY <2>1, HeadTailProperties
    <2>3. PICK t : t = Tail(r)
      OBVIOUS
    <2>4. t \in Seq(Elements(r)) /\ Len(t) = (n - p) - 1 /\ \A i \in 1 .. Len(t) : t[i] = r[i + 1]
      BY <1>3, <2>1, <2>3, HeadTailProperties
    <2>5. IsSeq(t)
      BY <2>4, SeqOfElements
    <2>6. \A i \in 1 .. n - (p + 1) : t[i] = s[(p + 1) + i]
      <3> SUFFICES ASSUME NEW i \in 1 .. n - (p + 1) PROVE t[i] = s[(p + 1) + i]
        OBVIOUS
      <3>1. i \in 1 .. Len(t) /\ i + 1 \in 1 .. n - p /\ p + (i + 1) = (p + 1) + i
        BY <1>1, <2>4
      <3> QED
        BY <1>3, <2>4, <3>1
    <2>7. t = [i \in 1 .. n - (p + 1) |-> s[(p + 1) + i]]
      <3>1. Len(t) = n - (p + 1)
        BY <1>1, <2>4
      <3> QED
        BY <2>5, <2>6, <3>1 DEF IsSeq
    <2> QED
      BY <1>1, <1>3, <2>1, <2>2, <2>3, <2>7 DEF Rest
  <1> QED
    BY <1>1, <1>2, <1>3, <1>4, <1>5, <1>6

\* Taking several at once.
LEMMA RestPieces ==
    ASSUME NEW s, IsSeq(s), NEW p \in 0 .. Len(s), NEW n \in 0 .. Len(s) - p
    PROVE  /\ SubSeq(Rest(s, p), 1, n) = Piece(s, p, n)
           /\ SubSeq(Rest(s, p), n + 1, Len(Rest(s, p))) = Rest(s, p + n)
           /\ p + n \in 0 .. Len(s)
  <1>1. PICK m \in Nat : m = Len(s)
    BY DEF IsSeq
  <1>2. PICK r : r = Rest(s, p)
    OBVIOUS
  <1>3. Len(r) = m - p /\ \A i \in 1 .. m - p : r[i] = s[p + i]
    BY <1>1, <1>2, RestIs
  <1>4. SubSeq(r, 1, n) = [i \in 1 .. n |-> s[p + i]]
    <2>1. SubSeq(r, 1, n) = [i \in 1 .. n |-> r[i]]
      <3>1. SubSeq(r, 1, n) = [i \in 1 .. (1 + n) - 1 |-> r[(i + 1) - 1]]
        BY <1>1
      <3> QED
        BY <1>1, <3>1
    <2>2. \A i \in 1 .. n : i \in 1 .. m - p
      BY <1>1
    <2> QED
      BY <1>3, <2>1, <2>2
  <1>5. SubSeq(r, n + 1, m - p) = [i \in 1 .. m - (p + n) |-> s[(p + n) + i]]
    <2>1. SubSeq(r, n + 1, m - p) = [i \in 1 .. (1 + (m - p)) - (n + 1) |-> r[(i + (n + 1)) - 1]]
      BY <1>1
    <2>2. (1 + (m - p)) - (n + 1) = m - (p + n)
      BY <1>1
    <2>3. ASSUME NEW i \in 1 .. m - (p + n) PROVE r[(i + (n + 1)) - 1] = s[(p + n) + i]
      <3>1. (i + (n + 1)) - 1 \in 1 .. m - p /\ p + ((i + (n + 1)) - 1) = (p + n) + i
        BY <1>1
      <3> QED
        BY <1>3, <3>1
    <2> QED
      BY <2>1, <2>2, <2>3
  <1>6. p + n \in 0 .. m
    BY <1>1
  <1> QED
    BY <1>1, <1>2, <1>3, <1>4, <1>5, <1>6 DEF Rest, Piece

\* The piece of a length.
LEMMA PieceIs ==
    ASSUME NEW s, NEW p \in Nat, NEW n \in Nat
    PROVE  IsSeq(Piece(s, p, n)) /\ Len(Piece(s, p, n)) = n /\ Piece(s, p, 1) = <<s[p + 1]>>
  <1>1. Len(Piece(s, p, n)) = n /\ \A i \in 1 .. n : Piece(s, p, n)[i] = s[p + i]
    BY DEF Piece
  <1>2. IsSeq(Piece(s, p, n))
    BY <1>1 DEF Piece, IsSeq
  <1>3. Piece(s, p, 1) = <<s[p + 1]>>
    BY DEF Piece
  <1> QED
    BY <1>1, <1>2, <1>3

\* b is a with one character more.
OneMore(a, b) ==
    /\ IsSeq(a) /\ IsSeq(b) /\ Len(b) = Len(a) + 1
    /\ \A i \in 1 .. Len(a) : a[i] = b[i]

\* After any text, it adds that character.
LEMMA PieceGrows ==
    ASSUME NEW t, NEW a, NEW b, IsSeq(t), OneMore(a, b)
    PROVE  t \o b = (t \o a) \o <<b[Len(b)]>>
  <1>1. PICK n \in Nat : n = Len(a)
    BY DEF OneMore, IsSeq
  <1>2. /\ IsSeq(a) /\ Len(a) = n /\ IsSeq(b) /\ Len(b) = n + 1
        /\ \A i \in 1 .. n : a[i] = b[i]
    BY <1>1 DEF OneMore
  <1>3. PICK m \in Nat : m = Len(t)
    BY DEF IsSeq
  <1>4. PICK x : x = b[n + 1]
    OBVIOUS
  <1>5. PICK u : u = t \o b
    OBVIOUS
  <1>6. /\ IsSeq(u) /\ Len(u) = m + (n + 1)
        /\ \A i \in 1 .. m + (n + 1) : u[i] = IF i <= m THEN t[i] ELSE b[i - m]
    <2>1. /\ IsSeq(u) /\ Len(u) = Len(t) + Len(b)
          /\ \A i \in 1 .. Len(t) + Len(b) : u[i] = IF i <= Len(t) THEN t[i] ELSE b[i - Len(t)]
      BY <1>2, <1>5, Joined
    <2> QED
      BY <1>2, <1>3, <2>1
  <1>7. PICK v : v = t \o a
    OBVIOUS
  <1>8. /\ IsSeq(v) /\ Len(v) = m + n
        /\ \A i \in 1 .. m + n : v[i] = IF i <= m THEN t[i] ELSE a[i - m]
    <2>1. /\ IsSeq(v) /\ Len(v) = Len(t) + Len(a)
          /\ \A i \in 1 .. Len(t) + Len(a) : v[i] = IF i <= Len(t) THEN t[i] ELSE a[i - Len(t)]
      BY <1>2, <1>7, Joined
    <2> QED
      BY <1>2, <1>3, <2>1
  <1>9. PICK w : w = v \o <<x>>
    OBVIOUS
  <1>10. /\ IsSeq(w) /\ Len(w) = (m + n) + 1 /\ w[(m + n) + 1] = x
         /\ \A i \in 1 .. m + n : w[i] = v[i]
    <2>1. /\ IsSeq(w) /\ Len(w) = Len(v) + 1 /\ w[Len(v) + 1] = x
          /\ \A i \in 1 .. Len(v) : w[i] = v[i]
      BY <1>8, <1>9, Extended
    <2> QED
      BY <1>8, <2>1
  <1>11. ASSUME NEW i \in 1 .. m + (n + 1) PROVE u[i] = w[i]
    <2>1. CASE i <= m + n
      <3>1. i \in 1 .. m + n /\ (~(i <= m) => i - m \in 1 .. n)
        BY <2>1
      <3> QED
        BY <1>2, <1>4, <1>6, <1>8, <1>10, <3>1
    <2>2. CASE ~(i <= m + n)
      <3>1. i = (m + n) + 1 /\ ~(i <= m) /\ i - m = n + 1
        BY <2>2
      <3> QED
        BY <1>2, <1>4, <1>6, <1>10, <3>1
    <2> QED
      BY <2>1, <2>2
  <1>12. u = w
    <2>1. m + (n + 1) = (m + n) + 1
      OBVIOUS
    <2> QED
      BY <1>6, <1>10, <1>11, <2>1 DEF IsSeq
  <1> QED
    BY <1>2, <1>4, <1>5, <1>7, <1>9, <1>12

\* A regular character is a directive of its own.
LEMMA OneCharacter ==
    ASSUME NEW c, Conforming(c), Len(c.format) \in Nat, NEW i \in 0 .. Len(c.format) - 1,
           StartAt(c.format, i + 1), c.format[i + 1] # Percent
    PROVE  /\ StartAt(c.format, i + 2)
           /\ ConversionsUpTo(c.format, i + 1) = ConversionsUpTo(c.format, i)
           /\ Output(c)[i + 1] = Output(c)[i] \o <<c.format[i + 1]>>
  <1>1. PICK f : f = c.format
    OBVIOUS
  <1>2. i + 1 \in Nat \ {0} /\ i + 2 = (i + 1) + 1 /\ i + 1 \in 1 .. Len(f) /\ i \in Nat
    BY <1>1
  <1>3. i + 1 \in Starts(f) /\ i + 1 \notin Conversions(f)
    BY <1>1, <1>2, StartStep DEF Conversions
  <1>4. StartAt(f, i + 2)
    BY <1>1, <1>2, StartStep
  <1>5. ConversionsUpTo(f, i + 1) = ConversionsUpTo(f, i)
    BY <1>1, <1>2, <1>3, ArgumentStep
  <1>6. Directive(c, i + 1) = <<f[i + 1]>>
    BY <1>1, <1>3 DEF Directive
  <1>7. Output(c)[i + 1] = Output(c)[(i + 1) - 1] \o Directive(c, i + 1)
    BY <1>1, <1>2, OutputIs DEF IsOutput
  <1>8. (i + 1) - 1 = i
    OBVIOUS
  <1> QED
    BY <1>1, <1>4, <1>5, <1>6, <1>7, <1>8

\* The second character of a pair adds nothing.
LEMMA SecondCharacter ==
    ASSUME NEW c, Conforming(c), Len(c.format) \in Nat, NEW i \in 0 .. Len(c.format) - 1,
           ~StartAt(c.format, i + 1)
    PROVE  /\ StartAt(c.format, i + 2)
           /\ ConversionsUpTo(c.format, i + 1) = ConversionsUpTo(c.format, i)
           /\ Output(c)[i + 1] = Output(c)[i]
  <1>1. PICK f : f = c.format
    OBVIOUS
  <1>2. i + 1 \in Nat \ {0} /\ i + 2 = (i + 1) + 1 /\ i + 1 \in 1 .. Len(f) /\ i \in Nat
    BY <1>1
  <1>3. i + 1 \notin Starts(f) /\ i + 1 \notin Conversions(f)
    BY <1>1, <1>2, StartStep DEF Conversions
  <1>4. StartAt(f, i + 2)
    BY <1>1, <1>2, StartStep
  <1>5. ConversionsUpTo(f, i + 1) = ConversionsUpTo(f, i)
    BY <1>1, <1>2, <1>3, ArgumentStep
  <1>6. Directive(c, i + 1) = <<>>
    BY <1>1, <1>3 DEF Directive
  <1>7. PICK t : t = Output(c)[i]
    OBVIOUS
  <1>8. (i + 1) - 1 = i /\ i \in 0 .. Len(f)
    BY <1>1
  <1>9. Output(c)[i + 1] = t \o Directive(c, i + 1) /\ IsSeq(t)
    BY <1>1, <1>2, <1>7, <1>8, OutputIs DEF IsOutput
  <1>10. t \o <<>> = t
    BY <1>9, SeqOfElements, ConcatEmptySeq
  <1> QED
    BY <1>1, <1>4, <1>5, <1>6, <1>7, <1>9, <1>10

\* The text of a piece: its first character, and regular ones up to the next %.
LEMMA PieceText ==
    ASSUME NEW c, Conforming(c), Len(c.format) \in Nat, NEW q \in Nat, NEW n \in Nat,
           q + (n + 1) <= Len(c.format), NEW t, IsSeq(t),
           StartAt(c.format, q + 2), Output(c)[q + 1] = t \o <<c.format[q + 1]>>,
           \A k \in 1 .. n : c.format[q + (k + 1)] # Percent
    PROVE  /\ StartAt(c.format, (q + (n + 1)) + 1)
           /\ ConversionsUpTo(c.format, q + (n + 1)) = ConversionsUpTo(c.format, q + 1)
           /\ Output(c)[q + (n + 1)] = t \o Piece(c.format, q, n + 1)
  <1>1. PICK f, F : f = c.format /\ F = Output(c)
    OBVIOUS
  <1>2. \A m \in Nat : t \o Piece(f, q, m + 1) = (t \o Piece(f, q, m)) \o <<f[q + (m + 1)]>>
    <2> SUFFICES ASSUME NEW m \in Nat
                 PROVE  t \o Piece(f, q, m + 1) = (t \o Piece(f, q, m)) \o <<f[q + (m + 1)]>>
      OBVIOUS
    <2>1. PICK a, b : a = Piece(f, q, m) /\ b = Piece(f, q, m + 1)
      OBVIOUS
    <2>2. \A k \in Nat : IsSeq(Piece(f, q, k)) /\ Len(Piece(f, q, k)) = k
      BY PieceIs
    <2>3. IsSeq(a) /\ Len(a) = m /\ IsSeq(b) /\ Len(b) = m + 1
      BY <2>1, <2>2
    <2>4. (\A i \in 1 .. m : a[i] = b[i]) /\ b[m + 1] = f[q + (m + 1)]
      BY <2>1 DEF Piece
    <2>5. OneMore(a, b)
      BY <2>3, <2>4 DEF OneMore
    <2>6. IsSeq(t)
      OBVIOUS
    <2>7. t \o b = (t \o a) \o <<b[Len(b)]>>
      BY ONLY <2>5, <2>6, PieceGrows
    <2> QED
      BY <2>1, <2>3, <2>4, <2>7
  <1> DEFINE S == {k \in Nat : /\ StartAt(f, q + (k + 2))
                               /\ ConversionsUpTo(f, q + (k + 1)) = ConversionsUpTo(f, q + 1)
                               /\ F[q + (k + 1)] = t \o Piece(f, q, k + 1)}
  <1>3. 0 \in S
    <2>1. q + (0 + 2) = q + 2 /\ q + (0 + 1) = q + 1 /\ 0 + 1 = 1 /\ 0 \in Nat
      OBVIOUS
    <2>2. Piece(f, q, 1) = <<f[q + 1]>>
      BY <2>1, PieceIs
    <2> QED
      BY <1>1, <2>1, <2>2
  <1>4. ASSUME NEW k \in 0 .. n - 1, k \in S PROVE k + 1 \in S
    <2>1. PICK i : i = q + (k + 1)
      OBVIOUS
    <2>2. /\ i \in 0 .. Len(c.format) - 1 /\ k + 1 \in 1 .. n /\ k + 1 \in Nat
          /\ i + 1 = q + (k + 2) /\ i + 1 = q + ((k + 1) + 1) /\ i + 2 = q + ((k + 1) + 2)
      BY <2>1
    <2>3. StartAt(f, i + 1) /\ f[i + 1] # Percent
      BY <1>1, <1>4, <2>2
    <2>4. /\ StartAt(f, i + 2) /\ ConversionsUpTo(f, i + 1) = ConversionsUpTo(f, i)
          /\ F[i + 1] = F[i] \o <<f[i + 1]>>
      BY <1>1, <2>2, <2>3, OneCharacter
    <2>5. F[i] = t \o Piece(f, q, k + 1) /\ ConversionsUpTo(f, i) = ConversionsUpTo(f, q + 1)
      BY <1>4, <2>1
    <2>6. t \o Piece(f, q, (k + 1) + 1) = (t \o Piece(f, q, k + 1)) \o <<f[q + ((k + 1) + 1)]>>
      BY <2>2, <1>2
    <2> QED
      BY <2>2, <2>4, <2>5, <2>6
  <1> HIDE DEF S
  <1>5. \A k \in 0 .. n : k \in S
    BY <1>3, <1>4, UpTo
  <1>6. n \in S
    BY <1>5
  <1>7. (q + (n + 1)) + 1 = q + (n + 2)
    OBVIOUS
  <1> QED
    BY <1>1, <1>6, <1>7 DEF S

-----------------------------------------------------------------------------
(* A call of printf. *)

\* vprintf has consumed the first p positions of the format and their arguments, and
\* has written their text, or is about to.
Consumed(p) ==
    /\ p \in 0 .. Len(call.format) /\ StartAt(call.format, p + 1)
    /\ format = Rest(call.format, p)
    /\ ConversionsUpTo(call.format, p) <= Len(call.args)
    /\ args = Rest(call.args, ConversionsUpTo(call.format, p))
    /\ IsSeq(sent) /\ IsSeq(pending) /\ sent \o pending = Output(call)[p]
    /\ written = Len(sent) + Len(pending)

\* Between two calls nothing is left over; in a call with a meaning, every position
\* of the format is either consumed or still to come.
CallInv ==
    /\ Idle => format = <<>> /\ pending = <<>> /\ written = 0 /\ sent = <<>>
    /\ ~Idle => call \in Calls /\ (Conforming(call) => \E p : Consumed(p))

\* The formats and the arguments.
LEMMA CallTypes ==
    ASSUME NEW c \in Calls
    PROVE  IsSeq(c.format) /\ IsSeq(c.args) /\ Len(c.format) \in Nat /\ Len(c.args) \in Nat
  <1>1. c.format \in Seq(STRING) /\ Len(c.args) \in Nat /\ c.args = [i \in 1 .. Len(c.args) |-> c.args[i]]
    BY CallAssumption
  <1> QED
    BY <1>1, SeqOfElements DEF IsSeq

\* Nothing to write yet, or any more.
LEMMA NothingPending ==
    ASSUME NEW s, IsSeq(s)
    PROVE  s \o <<>> = s /\ IsSeq(<<>>) /\ Len(<<>>) = 0
  <1>1. s \o <<>> = s
    BY SeqOfElements, ConcatEmptySeq
  <1> QED
    BY <1>1 DEF IsSeq

\* No call has begun.
LEMMA InitCall == ConsoleInit => CallInv
  BY DEF ConsoleInit, CallInv, Idle

\* A call begins: nothing is consumed.
LEMMA PrintfCall ==
    ASSUME CallInv, NEW c \in Calls, printf(c)
    PROVE  CallInv'
  <1>1. /\ call' = c /\ format' = c.format /\ args' = c.args
        /\ pending' = <<>> /\ written' = 0 /\ sent' = <<>>
    BY DEF printf, CallInv
  <1>2. ASSUME Idle' PROVE format' = <<>>
    BY <1>1, <1>2 DEF Idle, None
  <1>3. ASSUME Conforming(c) PROVE Consumed(0)'
    <2>1. IsSeq(c.format) /\ IsSeq(c.args) /\ Len(c.format) \in Nat /\ Len(c.args) \in Nat
      BY CallTypes
    <2>2. StartAt(c.format, 0 + 1)
      BY StartStep
    <2>3. ConversionsUpTo(c.format, 0) = 0
      BY <2>1, ArgumentStep
    <2>4. 0 \in 0 .. Len(c.format) /\ 0 \in 0 .. Len(c.args)
      BY <2>1
    <2>5. c.format = Rest(c.format, 0) /\ c.args = Rest(c.args, 0)
      BY <2>1, <2>4, RestIs
    <2>6. Output(c)[0] = <<>>
      BY <1>3, <2>1, OutputIs DEF IsOutput
    <2>7. <<>> \o <<>> = <<>> /\ IsSeq(<<>>) /\ Len(<<>>) = 0
      BY NothingPending DEF IsSeq
    <2> QED
      BY <1>1, <2>1, <2>2, <2>3, <2>4, <2>5, <2>6, <2>7 DEF Consumed
  <1>4. \A d : Conforming(d)' <=> Conforming(d)
    OBVIOUS
  <1>5. Conforming(call)' => \E p : Consumed(p)'
    BY <1>1, <1>3
  <1> QED
    BY <1>1, <1>2, <1>5 DEF CallInv

\* The text of a regular piece: where it starts, and how far it goes.
LEMMA PieceOf ==
    ASSUME NEW text, IsSeq(text), Len(text) > 0, NEW length,
           length = Min({n \in 1 .. Len(text) : n = Len(text) \/ text[n + 1] = Percent})
    PROVE  /\ length \in 1 .. Len(text)
           /\ \A n \in 1 .. length - 1 : text[n + 1] # Percent
  <1>1. PICK m \in Nat : m = Len(text)
    BY DEF IsSeq
  <1>2. PICK T : T = {n \in 1 .. m : n = m \/ text[n + 1] = Percent}
    OBVIOUS
  <1>3. T \subseteq Nat /\ m \in T
    BY <1>1, <1>2
  <1>4. PICK x \in T : \A y \in T : x <= y
    BY <1>3, LeastNumber
  <1>5. length \in T /\ \A y \in T : length <= y
    BY <1>1, <1>2, <1>4 DEF Min
  <1>6. length \in 1 .. m
    BY <1>2, <1>5
  <1>7. ASSUME NEW n \in 1 .. length - 1 PROVE text[n + 1] # Percent
    <2>1. n \in 1 .. m /\ ~(length <= n)
      BY <1>1, <1>6
    <2> QED
      BY <1>2, <1>5, <2>1
  <1> QED
    BY <1>1, <1>6, <1>7

\* A regular piece consumes the characters it prints, and the first of two %.
LEMMA RegularCall ==
    ASSUME CallInv, regular, Conforming(call)
    PROVE  \E p : Consumed(p)'
  <1>1. call \in Calls /\ pending = <<>> /\ format # <<>>
    BY DEF regular, NextPiece, CallInv
  <1>2. PICK p : Consumed(p)
    BY DEF CallInv, regular, NextPiece
  <1>3. PICK f : f = call.format /\ IsSeq(f)
    BY <1>1, CallTypes
  <1>4. PICK N \in Nat : f = call.format /\ N = Len(f) /\ IsSeq(f)
    BY <1>3 DEF IsSeq
  <1>5. p \in 0 .. N /\ StartAt(f, p + 1) /\ format = Rest(f, p) /\ IsSeq(sent)
    BY <1>2, <1>4 DEF Consumed
  <1>6. p < N /\ p \in 0 .. N - 1 /\ p + 1 \in 0 .. N
    <2>1. p # N
      BY <1>1, <1>4, <1>5, RestIs
    <2> QED
      BY <1>5, <2>1
  <1>7. /\ Head(format) = f[p + 1] /\ Tail(format) = Rest(f, p + 1)
        /\ Len(format) = N - p /\ \A i \in 1 .. N - p : format[i] = f[p + i]
    <2>1. p \in 0 .. Len(f) /\ p < Len(f) /\ IsSeq(f)
      BY <1>4, <1>5, <1>6
    <2>2. Head(Rest(f, p)) = f[p + 1] /\ Tail(Rest(f, p)) = Rest(f, p + 1)
      BY <2>1, RestIs
    <2>3. Len(Rest(f, p)) = Len(f) - p /\ \A i \in 1 .. Len(f) - p : Rest(f, p)[i] = f[p + i]
      BY <2>1, RestIs
    <2> QED
      BY <1>4, <1>5, <2>2, <2>3
  <1>8. sent = Output(call)[p]
    BY <1>1, <1>2, NothingPending DEF Consumed
  <1>9. PICK text : text = IF Head(format) = Percent THEN Tail(format) ELSE format
    OBVIOUS
  <1>10. PICK length : length = Min({n \in 1 .. Len(text) : n = Len(text) \/ text[n + 1] = Percent})
    OBVIOUS
  <1>11. /\ pending' = SubSeq(text, 1, length) /\ format' = SubSeq(text, length + 1, Len(text))
         /\ written' = written + length /\ UNCHANGED <<call, args, sent>>
         /\ (Head(format) # Percent \/ Escaped)
    BY <1>9, <1>10 DEF regular
  <1>12. PICK q \in 0 .. N - 1 :
             /\ text = Rest(f, q) /\ StartAt(f, q + 2)
             /\ Output(call)[q + 1] = sent \o <<f[q + 1]>>
             /\ ConversionsUpTo(f, q + 1) = ConversionsUpTo(f, p)
    <2>1. CASE Head(format) # Percent
      <3>1. text = Rest(f, p)
        BY <1>5, <1>9, <2>1
      <3>2. /\ StartAt(f, p + 2) /\ ConversionsUpTo(f, p + 1) = ConversionsUpTo(f, p)
            /\ Output(call)[p + 1] = Output(call)[p] \o <<f[p + 1]>>
        BY <1>4, <1>5, <1>6, <1>7, <2>1, OneCharacter
      <3> QED
        BY <1>6, <1>8, <3>1, <3>2
    <2>2. CASE Head(format) = Percent
      <3>1. N - p > 1 /\ format[2] = Percent
        BY <1>7, <1>11, <2>2 DEF Escaped
      <3>2. 2 \in 1 .. N - p /\ p + 1 \in 0 .. N - 1
        BY <1>5, <3>1
      <3>3. f[p + 2] = Percent /\ f[p + 1] = Percent
        BY <1>7, <2>2, <3>1, <3>2
      <3>4. text = Rest(f, p + 1)
        BY <1>7, <1>9, <2>2
      <3>5. p + 1 \in 1 .. N /\ p + 1 \in Nat \ {0} /\ (p + 1) + 1 = p + 2 /\ (p + 1) + 2 = p + 3 /\ p \in Nat
        BY <1>5, <3>2
      <3>6. p + 1 \in Starts(f) /\ p + 1 \notin Conversions(f) /\ ~StartAt(f, p + 2)
        BY <1>4, <1>5, <3>3, <3>5, StartStep DEF Conversions
      <3>7. Directive(call, p + 1) = <<f[p + 1]>>
        BY <1>4, <3>6 DEF Directive
      <3>8. (p + 1) - 1 = p
        BY <1>5
      <3>9. Output(call)[p + 1] = sent \o <<f[p + 1]>>
        BY <1>4, <1>8, <3>5, <3>7, <3>8, OutputIs DEF IsOutput
      <3>10. ConversionsUpTo(f, p + 1) = ConversionsUpTo(f, p)
        BY <1>4, <3>5, <3>6, ArgumentStep
      <3>11. PICK q \in 0 .. N - 1 : q = p + 1
        BY <3>2
      <3>12. /\ StartAt(f, q + 2) /\ ConversionsUpTo(f, q + 1) = ConversionsUpTo(f, q)
             /\ Output(call)[q + 1] = Output(call)[q]
        BY <1>4, <3>5, <3>6, <3>11, SecondCharacter
      <3>13. f[q + 1] = f[p + 1]
        BY <3>3, <3>5, <3>11
      <3> QED
        BY <3>4, <3>9, <3>10, <3>11, <3>12, <3>13
    <2> QED
      BY <2>1, <2>2
  <1>13. q \in 0 .. N /\ IsSeq(text) /\ Len(text) = N - q /\ \A i \in 1 .. N - q : text[i] = f[q + i]
    <2>1. q \in 0 .. N
      BY <1>4
    <2>2. q \in 0 .. Len(f) /\ IsSeq(f)
      BY <1>4, <2>1
    <2>3. /\ IsSeq(Rest(f, q)) /\ Len(Rest(f, q)) = Len(f) - q
          /\ \A i \in 1 .. Len(f) - q : Rest(f, q)[i] = f[q + i]
      BY <2>2, RestIs
    <2> QED
      BY <1>4, <1>12, <2>1, <2>3
  <1>14. length \in 1 .. N - q /\ \A n \in 1 .. length - 1 : text[n + 1] # Percent
    <2>1. N - q > 0
      BY <1>4
    <2> QED
      BY <1>10, <1>13, <2>1, PieceOf
  <1>15. PICK n \in Nat : length = n + 1
    <2>1. length - 1 \in Nat /\ length = (length - 1) + 1
      BY <1>4, <1>14
    <2> QED
      BY <2>1
  <1>16. \A k \in 1 .. n : f[q + (k + 1)] # Percent
    <2> SUFFICES ASSUME NEW k \in 1 .. n PROVE f[q + (k + 1)] # Percent
      OBVIOUS
    <2>1. k \in 1 .. length - 1 /\ k + 1 \in 1 .. N - q
      BY <1>4, <1>14, <1>15
    <2> QED
      BY <1>13, <1>14, <2>1
  <1>17. q \in Nat /\ q + (n + 1) <= N /\ length \in 0 .. N - q
    BY <1>4, <1>14, <1>15
  <1>18. /\ StartAt(f, (q + (n + 1)) + 1)
         /\ ConversionsUpTo(f, q + (n + 1)) = ConversionsUpTo(f, q + 1)
         /\ Output(call)[q + (n + 1)] = sent \o Piece(f, q, n + 1)
    <2>1. Len(call.format) \in Nat /\ q + (n + 1) <= Len(call.format)
      BY <1>4, <1>17
    <2>2. StartAt(call.format, q + 2) /\ Output(call)[q + 1] = sent \o <<call.format[q + 1]>>
      BY <1>4, <1>12
    <2>3. \A k \in 1 .. n : call.format[q + (k + 1)] # Percent
      BY <1>4, <1>16
    <2>4. /\ StartAt(call.format, (q + (n + 1)) + 1)
          /\ ConversionsUpTo(call.format, q + (n + 1)) = ConversionsUpTo(call.format, q + 1)
          /\ Output(call)[q + (n + 1)] = sent \o Piece(call.format, q, n + 1)
      BY <1>5, <1>17, <2>1, <2>2, <2>3, PieceText
    <2> QED
      BY <1>4, <2>4
  <1>19. /\ pending' = Piece(f, q, length) /\ format' = Rest(f, q + length)
         /\ q + length \in 0 .. N
    BY <1>4, <1>11, <1>12, <1>13, <1>17, RestPieces
  <1>20. IsSeq(pending') /\ Len(pending') = length
    <2>1. length \in Nat
      BY <1>15
    <2>2. IsSeq(Piece(f, q, length)) /\ Len(Piece(f, q, length)) = length
      BY <1>17, <2>1, PieceIs
    <2> QED
      BY <1>19, <2>2
  <1>21. written' = Len(sent) + Len(pending')
    <2>1. written = Len(sent) + 0 /\ Len(sent) \in Nat
      BY <1>1, <1>2, <1>5, NothingPending DEF Consumed, IsSeq
    <2> QED
      BY <1>11, <1>15, <1>20, <2>1
  <1>22. PICK r : r = q + length
    OBVIOUS
  <1>23. /\ r \in 0 .. N /\ StartAt(f, r + 1) /\ format' = Rest(f, r)
         /\ ConversionsUpTo(f, r) = ConversionsUpTo(f, p)
         /\ sent \o pending' = Output(call)[r]
    BY <1>12, <1>15, <1>18, <1>19, <1>22
  <1>24. /\ ConversionsUpTo(f, p) <= Len(call.args)
         /\ args = Rest(call.args, ConversionsUpTo(f, p))
    BY <1>2, <1>4 DEF Consumed
  <1>25. Consumed(r)'
    BY <1>4, <1>5, <1>11, <1>20, <1>21, <1>23, <1>24 DEF Consumed
  <1> QED
    BY <1>25

\* A conversion consumes its two characters and one argument.
LEMMA SpecifierCall ==
    ASSUME CallInv, specifier, Conforming(call)
    PROVE  \E p : Consumed(p)'
  <1>1. call \in Calls /\ pending = <<>> /\ format # <<>> /\ Head(format) = Percent /\ ~Escaped
    BY DEF specifier, NextPiece, CallInv
  <1>2. PICK p : Consumed(p)
    BY DEF CallInv, specifier, NextPiece
  <1>3. PICK f : f = call.format /\ IsSeq(f)
    BY <1>1, CallTypes
  <1>4. PICK N \in Nat : f = call.format /\ N = Len(f) /\ IsSeq(f)
    BY <1>3 DEF IsSeq
  <1>5. p \in 0 .. N /\ StartAt(f, p + 1) /\ format = Rest(f, p) /\ IsSeq(sent)
    BY <1>2, <1>4 DEF Consumed
  <1>6. p < N /\ p \in 0 .. N - 1 /\ p + 1 \in 0 .. N /\ p + 1 \in 1 .. N
    <2>1. p # N
      BY <1>1, <1>4, <1>5, RestIs
    <2> QED
      BY <1>5, <2>1
  <1>7. /\ Head(format) = f[p + 1] /\ Tail(format) = Rest(f, p + 1)
        /\ Len(format) = N - p /\ \A i \in 1 .. N - p : format[i] = f[p + i]
    <2>1. p \in 0 .. Len(f) /\ p < Len(f) /\ IsSeq(f)
      BY <1>4, <1>5, <1>6
    <2>2. Head(Rest(f, p)) = f[p + 1] /\ Tail(Rest(f, p)) = Rest(f, p + 1)
      BY <2>1, RestIs
    <2>3. Len(Rest(f, p)) = Len(f) - p /\ \A i \in 1 .. Len(f) - p : Rest(f, p)[i] = f[p + i]
      BY <2>1, RestIs
    <2> QED
      BY <1>4, <1>5, <2>2, <2>3
  <1>8. sent = Output(call)[p]
    BY <1>1, <1>2, NothingPending DEF Consumed
  <1>9. p + 1 \in Starts(f) /\ f[p + 1] = Percent
    BY <1>1, <1>5, <1>6, <1>7, <1>4, StartStep
  <1>10. p + 1 < N
    BY <1>4, <1>9, ConversionAt
  <1>11. format[2] = f[p + 2] /\ Len(format) > 1 /\ f[p + 2] # Percent
    <2>1. 2 \in 1 .. N - p /\ N - p > 1
      BY <1>5, <1>10
    <2>2. format[2] = f[p + 2] /\ Len(format) > 1
      BY <1>7, <2>1
    <2> QED
      BY <1>1, <2>2 DEF Escaped
  <1>12. PICK a : a = ArgumentOf(call, p + 1)
    OBVIOUS
  <1>13. (p + 1) + 1 = p + 2 /\ (p + 1) + 2 = p + 3 /\ (p + 2) + 1 = p + 3 /\ (p + 1) - 1 = p /\ p \in Nat
    BY <1>5
  <1>14. /\ p + 1 \in Conversions(f) /\ f[p + 2] \in Specifiers
         /\ ConversionsUpTo(f, p + 1) <= Len(call.args)
         /\ Directive(call, p + 1) = convert(f[p + 2], a) /\ IsSeq(Directive(call, p + 1))
    BY <1>4, <1>9, <1>11, <1>12, <1>13, ConversionAt
  <1>15. PICK m \in Nat : m = ConversionsUpTo(f, p) /\ ConversionsUpTo(f, p + 1) = m + 1
    BY <1>4, <1>13, <1>14, ArgumentStep
  <1>16. /\ IsSeq(call.args) /\ Len(call.args) \in Nat /\ m \in 0 .. Len(call.args)
         /\ m + 1 <= Len(call.args) /\ m < Len(call.args)
    BY <1>1, <1>14, <1>15, CallTypes
  <1>17. args = Rest(call.args, m)
    BY <1>2, <1>4, <1>15 DEF Consumed
  <1>18. Head(args) = a /\ Tail(args) = Rest(call.args, m + 1)
    <2>1. Head(args) = call.args[m + 1] /\ Tail(args) = Rest(call.args, m + 1)
      BY <1>16, <1>17, RestIs
    <2> QED
      BY <1>4, <1>12, <1>15, <2>1 DEF ArgumentOf
  <1>19. /\ pending' = convert(f[p + 2], a) /\ written' = written + Len(pending')
         /\ args' = Rest(call.args, m + 1) /\ format' = Tail(Tail(format))
         /\ UNCHANGED <<call, sent>>
    BY <1>11, <1>14, <1>18 DEF specifier
  <1>20. format' = Rest(f, p + 2)
    <2>1. PICK q : q = p + 1
      OBVIOUS
    <2>2. q \in 0 .. N /\ q < N /\ q + 1 = p + 2
      BY <1>6, <1>10, <1>13, <2>1
    <2>3. Tail(Rest(f, q)) = Rest(f, q + 1)
      BY <1>4, <2>2, RestIs
    <2> QED
      BY <1>7, <1>19, <2>1, <2>2, <2>3
  <1>21. Output(call)[p + 1] = sent \o pending'
    BY <1>4, <1>6, <1>8, <1>13, <1>14, <1>19, OutputIs DEF IsOutput
  <1>22. ~StartAt(f, p + 2)
    <2>1. PICK q \in Nat \ {0} : q = p + 1
      BY <1>13
    <2>2. ~StartAt(f, q + 1)
      BY <1>5, <1>9, <2>1, StartStep
    <2> QED
      BY <1>13, <2>1, <2>2
  <1>23. /\ StartAt(f, (p + 2) + 1) /\ ConversionsUpTo(f, p + 2) = m + 1
         /\ Output(call)[p + 2] = sent \o pending'
    <2>1. PICK q \in 0 .. N - 1 : q = p + 1
      BY <1>4, <1>6, <1>10
    <2>2. /\ StartAt(f, q + 2) /\ ConversionsUpTo(f, q + 1) = ConversionsUpTo(f, q)
          /\ Output(call)[q + 1] = Output(call)[q]
      BY <1>4, <1>13, <1>22, <2>1, SecondCharacter
    <2> QED
      BY <1>13, <1>15, <1>21, <2>1, <2>2
  <1>24. p + 2 \in 0 .. N
    BY <1>5, <1>10
  <1>25. written' = Len(sent) + Len(pending') /\ IsSeq(pending')
    <2>1. written = Len(sent) + 0 /\ Len(sent) \in Nat
      BY <1>1, <1>2, <1>5, NothingPending DEF Consumed, IsSeq
    <2>2. IsSeq(pending')
      BY <1>14, <1>19
    <2>3. Len(pending') \in Nat
      BY <2>2 DEF IsSeq
    <2> QED
      BY <1>19, <2>1, <2>2, <2>3
  <1>26. PICK r : r = p + 2
    OBVIOUS
  <1>27. Consumed(r)'
    BY <1>4, <1>5, <1>16, <1>19, <1>20, <1>23, <1>24, <1>25, <1>26 DEF Consumed
  <1> QED
    BY <1>27

\* A character moves from what is to be written to what is written.
LEMMA PutcharCall ==
    ASSUME CallInv, putchar, Conforming(call)
    PROVE  \E p : Consumed(p)'
  <1>1. pending # <<>> /\ ~Idle
    BY DEF putchar, CallInv
  <1>2. PICK p : Consumed(p)
    BY <1>1 DEF CallInv
  <1>3. /\ sent' = Append(sent, Head(pending)) /\ pending' = Tail(pending)
        /\ UNCHANGED <<call, format, args, written>>
    BY DEF putchar
  <1>4. IsSeq(sent) /\ IsSeq(pending)
    BY <1>2 DEF Consumed
  <1>5. PICK m, n \in Nat : m = Len(sent) /\ n = Len(pending)
    BY <1>4 DEF IsSeq
  <1>6. n # 0
    BY <1>1, <1>4, <1>5, SeqOfElements, EmptySeq
  <1>7. PICK x, t : x = Head(pending) /\ t = Tail(pending)
    OBVIOUS
  <1>8. /\ IsSeq(t) /\ Len(t) = n - 1 /\ x = pending[1] /\ \A i \in 1 .. n - 1 : t[i] = pending[i + 1]
    <2>1. pending \in Seq(Elements(pending))
      BY <1>4, SeqOfElements
    <2>2. /\ t \in Seq(Elements(pending)) /\ Len(t) = n - 1 /\ x = pending[1]
          /\ \A i \in 1 .. Len(t) : t[i] = pending[i + 1]
      BY <1>1, <1>5, <1>7, <2>1, HeadTailProperties
    <2> QED
      BY <2>2, SeqOfElements
  <1>9. PICK s : s = Append(sent, x)
    OBVIOUS
  <1>10. IsSeq(s) /\ Len(s) = m + 1 /\ s[m + 1] = x /\ \A i \in 1 .. m : s[i] = sent[i]
    <2>1. s = sent \o <<x>>
      BY <1>4, <1>9, Extended
    <2> QED
      BY <1>4, <1>5, <2>1, Extended
  <1>11. PICK u, v : u = sent \o pending /\ v = s \o t
    OBVIOUS
  <1>12. /\ IsSeq(u) /\ Len(u) = m + n
         /\ \A i \in 1 .. m + n : u[i] = IF i <= m THEN sent[i] ELSE pending[i - m]
    BY <1>4, <1>5, <1>11, Joined
  <1>13. /\ IsSeq(v) /\ Len(v) = (m + 1) + (n - 1)
         /\ \A i \in 1 .. (m + 1) + (n - 1) : v[i] = IF i <= m + 1 THEN s[i] ELSE t[i - (m + 1)]
    <2>1. /\ IsSeq(v) /\ Len(v) = Len(s) + Len(t)
          /\ \A i \in 1 .. Len(s) + Len(t) : v[i] = IF i <= Len(s) THEN s[i] ELSE t[i - Len(s)]
      BY <1>8, <1>10, <1>11, Joined
    <2> QED
      BY <1>8, <1>10, <2>1
  <1>14. (m + 1) + (n - 1) = m + n
    OBVIOUS
  <1>15. ASSUME NEW i \in 1 .. m + n PROVE u[i] = v[i]
    <2>1. CASE i <= m
      <3>1. i \in 1 .. m /\ i <= m + 1
        BY <2>1
      <3> QED
        BY <1>10, <1>12, <1>13, <1>14, <2>1, <3>1
    <2>2. CASE i = m + 1
      <3>1. ~(i <= m) /\ i - m = 1 /\ i <= m + 1
        BY <2>2
      <3> QED
        BY <1>8, <1>10, <1>12, <1>13, <1>14, <2>2, <3>1
    <2>3. CASE i > m + 1
      <3>1. ~(i <= m) /\ ~(i <= m + 1) /\ i - (m + 1) \in 1 .. n - 1 /\ (i - (m + 1)) + 1 = i - m
        BY <2>3
      <3> QED
        BY <1>8, <1>12, <1>13, <1>14, <3>1
    <2> QED
      BY <2>1, <2>2, <2>3
  <1>16. u = v
    BY <1>12, <1>13, <1>14, <1>15 DEF IsSeq
  <1>17. IsSeq(sent') /\ IsSeq(pending') /\ sent' \o pending' = sent \o pending
    BY <1>3, <1>7, <1>8, <1>9, <1>10, <1>11, <1>16
  <1>18. Len(sent') + Len(pending') = Len(sent) + Len(pending)
    BY <1>3, <1>5, <1>7, <1>8, <1>9, <1>10, <1>14
  <1>19. Consumed(p)'
    BY <1>2, <1>3, <1>17, <1>18 DEF Consumed
  <1> QED
    BY <1>19

\* Every step keeps the account of the call.
LEMMA NextCall == CallInv /\ [ConsoleNext]_consoleVars => CallInv'
  <1> SUFFICES ASSUME CallInv, [ConsoleNext]_consoleVars PROVE CallInv'
    OBVIOUS
  <1>1. CASE \E c \in Calls : printf(c)
    BY <1>1, PrintfCall
  <1>2. CASE regular
    <2>1. call' = call /\ ~Idle
      BY <1>2 DEF regular, NextPiece
    <2>2. Conforming(call) => \E p : Consumed(p)'
      BY <1>2, RegularCall
    <2> QED
      BY <2>1, <2>2 DEF CallInv, Idle
  <1>3. CASE specifier
    <2>1. call' = call /\ ~Idle
      BY <1>3 DEF specifier, NextPiece
    <2>2. Conforming(call) => \E p : Consumed(p)'
      BY <1>3, SpecifierCall
    <2> QED
      BY <2>1, <2>2 DEF CallInv, Idle
  <1>4. CASE putchar
    <2>1. call' = call /\ ~Idle
      BY <1>4 DEF putchar, CallInv
    <2>2. Conforming(call) => \E p : Consumed(p)'
      BY <1>4, PutcharCall
    <2> QED
      BY <2>1, <2>2 DEF CallInv, Idle
  <1>5. CASE return
    BY <1>5 DEF return, Finished, CallInv, Idle
  <1>6. CASE UNCHANGED callVars
    BY <1>6 DEF callVars, CallInv, Consumed, Idle
  <1>7. CASE shell
    BY <1>6, <1>7 DEF shell
  <1>8. CASE hang
    BY <1>6, <1>8 DEF hang
  <1>9. CASE UNCHANGED consoleVars
    BY <1>6, <1>9 DEF consoleVars
  <1> QED
    BY <1>1, <1>2, <1>3, <1>4, <1>5, <1>7, <1>8, <1>9 DEF ConsoleNext

\* At the end of the format all of it is consumed, and written.
LEMMA CallRenders == CallInv => PrintfRenders
  <1> SUFFICES ASSUME CallInv, Finished, Conforming(call)
               PROVE  /\ sent = FlattenSeq([i \in 1 .. Len(call.format) |-> Directive(call, i)])
                      /\ written = Len(sent)
    BY DEF PrintfRenders
  <1>1. call \in Calls /\ pending = <<>> /\ format = <<>>
    BY DEF Finished, CallInv
  <1>2. PICK p : Consumed(p)
    BY DEF CallInv, Finished
  <1>3. IsSeq(call.format) /\ Len(call.format) \in Nat
    BY <1>1, CallTypes
  <1>4. p = Len(call.format)
    BY <1>1, <1>2, <1>3, RestIs DEF Consumed
  <1>5. IsSeq(sent) /\ sent \o <<>> = Output(call)[p] /\ written = Len(sent) + Len(<<>>)
    BY <1>1, <1>2 DEF Consumed
  <1>6. sent = Output(call)[p] /\ written = Len(sent)
    BY <1>5, NothingPending DEF IsSeq
  <1>7. Output(call)[Len(call.format)] = FlattenSeq([i \in 1 .. Len(call.format) |-> Directive(call, i)])
    BY <1>3, OutputIs DEF IsOutput
  <1> QED
    BY <1>4, <1>6, <1>7

\* A printf with a meaning writes the text its format and arguments stand for, directive
\* by directive, and returns its length: pieces, pairs of % and conversions add up to it.
THEOREM TerminalPrintfRenders == ConsoleSpec => []PrintfRenders
  <1>1. ConsoleSpec => []CallInv
    BY InitCall, NextCall, PTL DEF ConsoleSpec
  <1> QED
    BY <1>1, CallRenders, PTL
==============================================================================
