------------------------------- MODULE Terminal -------------------------------
(***************************************************************************)
(* The terminal (kernel/src/Terminal.cpp): a circular buffer of lines with *)
(* a movable viewport, and the framebuffer it is painted on.  The shell    *)
(* and printf write characters, the arrow keys scroll, "clear" clears.     *)
(*                                                                         *)
(* The framebuffer is a grid of character cells: a glyph is painted as a   *)
(* whole.  Its width is a whole number of glyphs; PartialRow says whether  *)
(* some pixels are left over below the last full row.                      *)
(***************************************************************************)
EXTENDS Integers, Sequences, SequencesExt, FiniteSetsExt

CONSTANTS
    s_maxLines, s_maxColumns,   \* size of the line buffer: 256 and 200
    Columns, Rows, PartialRow,  \* size of the framebuffer
    Chars,                      \* printable characters
    Junk                        \* what the uninitialised line buffer may hold

NL    == "\n"
NUL   == "NUL"
Blank == "blank"

ASSUME TerminalAssumption ==
    /\ {s_maxLines, s_maxColumns, Columns, Rows} \subseteq Nat \ {0}
    /\ PartialRow \in BOOLEAN
    /\ {NL, NUL, Blank} \cap Chars = {}
    /\ Junk \subseteq Chars \cup {NUL}

SmallerOf(a, b) == IF a < b THEN a ELSE b
LargerOf(a, b)  == IF a > b THEN a ELSE b

m_lineSize     == SmallerOf(Columns, s_maxColumns)
m_visibleLines == SmallerOf(Rows, s_maxLines)

VARIABLES
    m_lineBuffer, m_front, m_size, m_firstVisibleLine, m_currentColumn,
    fb,         \* the framebuffer's cells, the paint cursor, and whether an
                \*   assertion of setPixel has failed
    lines,      \* the last s_maxLines lines as they were written
    reused      \* whether a line is in use that was not empty before

bufferVars == <<m_lineBuffer, m_front, m_size, m_firstVisibleLine, m_currentColumn>>
vars == <<m_lineBuffer, m_front, m_size, m_firstVisibleLine, m_currentColumn, fb,
          lines, reused>>

-----------------------------------------------------------------------------
(* Painting. *)

BlankScreen == [r \in 0 .. Rows - 1 |-> [c \in 0 .. Columns - 1 |-> Blank]]

\* Paint the rest of the cursor's row black.
clear_row(f) ==
    IF f.y < Rows
    THEN [f EXCEPT !.cells[f.y] = [c \in 0 .. Columns - 1 |-> IF c < f.x THEN @[c] ELSE Blank]]
    ELSE [f EXCEPT !.panicked = f.x < Columns]

CanMoveDown(f) == f.y + 1 < Rows \/ (f.y + 1 = Rows /\ PartialRow)

\* Mutant of paint_newline: the cursor goes down without going back.
paint_newline_straight(f) ==
    LET cleared == clear_row(f)
    IN  [cleared EXCEPT !.y = IF CanMoveDown(f) THEN @ + 1 ELSE @]

paint_newline(f) ==
    LET cleared == clear_row(f)
    IN  [cleared EXCEPT !.x = 0, !.y = IF CanMoveDown(f) THEN @ + 1 ELSE @]

\* What setPixel asserts.
CursorInside(f) == f.x < Columns /\ f.y < Rows

paint_glyph(f, character) ==
    IF CursorInside(f)
    THEN [f EXCEPT !.cells[f.y][f.x] = character, !.x = @ + 1]
    ELSE [f EXCEPT !.panicked = TRUE]

paintCharacter(f, character) ==
    CASE f.panicked                     -> f
      [] ~f.panicked /\ character = NL  -> paint_newline(f)
      [] OTHER                          -> paint_glyph(f, character)

-----------------------------------------------------------------------------
(* The viewport. *)

firstVisibleLineIndex ==
    IF m_firstVisibleLine < m_front
    THEN m_firstVisibleLine + (s_maxLines - m_front - 1)
    ELSE m_firstVisibleLine - m_front

lastVisibleLineIndex == SmallerOf(m_size - 1, firstVisibleLineIndex + m_visibleLines - 1)

\* Mutant of getLine: the position is taken for the raw index.
getLine_raw(index) == m_lineBuffer[index]

getLine(index) == m_lineBuffer[(m_front + index) % s_maxLines]

\* A line is painted up to its first null character.
Text(line) ==
    LET length == Min({n \in 0 .. s_maxColumns : n = s_maxColumns \/ line[n] = NUL})
    IN  [i \in 1 .. length |-> line[i - 1]]

\* What paintVisibleBuffer paints, line by line.
visible_text ==
    FlattenSeq([i \in 1 .. lastVisibleLineIndex - firstVisibleLineIndex + 1 |->
                   (IF i = 1 THEN <<>> ELSE <<NL>>)
                       \o Text(getLine(firstVisibleLineIndex + i - 1))])

paintVisibleBuffer(f, text) ==
    LET painted == FoldLeft(paintCharacter, [f EXCEPT !.x = 0, !.y = 0], text)
        cleared == clear_row(painted)
    IN  IF painted.panicked THEN painted
        ELSE [cleared EXCEPT !.cells = [r \in 0 .. Rows - 1 |->
                                           IF r > painted.y THEN BlankScreen[r] ELSE @[r]]]

-----------------------------------------------------------------------------
(* Operations. *)

\* The lines themselves are not initialised.
InitLineBuffer ==
    /\ \E c \in Junk :
          /\ m_lineBuffer = [i \in 0 .. s_maxLines - 1 |-> [j \in 0 .. s_maxColumns - 1 |-> c]]
          /\ reused = (c # NUL)
    /\ m_front = 0 /\ m_size = 1
    /\ m_firstVisibleLine = 0 /\ m_currentColumn = 0

Init ==
    /\ InitLineBuffer
    /\ fb = [cells |-> BlankScreen, x |-> 0, y |-> 0, panicked |-> FALSE]
    /\ lines = << <<>> >>

\* The last n elements of a sequence.
Newest(s, n) == SubSeq(s, LargerOf(1, Len(s) - n + 1), Len(s))

line_wrap(character) == m_currentColumn >= m_lineSize \/ character = NL

\* Start a new line: the oldest is given up when the buffer is full, and the
\* viewport moves down.
next_line ==
    LET full   == m_size >= s_maxLines
        front  == IF full THEN (m_front + 1) % s_maxLines ELSE m_front
        size   == IF full THEN m_size ELSE m_size + 1
        first  == IF full /\ m_firstVisibleLine = front
                  THEN (m_firstVisibleLine + 1) % s_maxLines ELSE m_firstVisibleLine
        bottom == IF size > m_visibleLines THEN size - m_visibleLines ELSE 0
    IN  [front |-> front, size |-> size, first |-> LargerOf(first, bottom), column |-> 0]

same_line ==
    [front |-> m_front, size |-> m_size, first |-> m_firstVisibleLine,
     column |-> m_currentColumn]

\* LineBuffer::write
buffer_write(character) ==
    LET at  == IF line_wrap(character) THEN next_line ELSE same_line
        raw == (at.front + at.size - 1) % s_maxLines
    IN  /\ m_front' = at.front
        /\ m_size' = at.size
        /\ m_firstVisibleLine' = at.first
        /\ IF character = NL
           THEN m_currentColumn' = at.column /\ UNCHANGED m_lineBuffer
           ELSE /\ m_currentColumn' = at.column + 1
                /\ m_lineBuffer' = [m_lineBuffer EXCEPT ![raw][at.column] = character]

\* Terminal::write: the viewport is repainted when it has moved.
write(character) ==
    LET wrapped == line_wrap(character) IN
    /\ ~fb.panicked
    /\ buffer_write(character)
    /\ fb' = IF m_firstVisibleLine' # m_firstVisibleLine
             THEN paintVisibleBuffer(fb, visible_text')
             ELSE FoldLeft(paintCharacter, fb,
                           IF wrapped /\ character # NL THEN <<NL, character>>
                                                        ELSE <<character>>)
    /\ LET glyphs == IF character = NL THEN <<>> ELSE <<character>> IN
       lines' = IF wrapped THEN Newest(Append(lines, glyphs), s_maxLines)
                           ELSE [lines EXCEPT ![Len(lines)] = @ \o glyphs]
    /\ reused' = (reused \/ (wrapped /\ m_size = s_maxLines))

\* Mutant of scrollDown: the viewport may start one past the last line.
scrollDown_past(n) ==
    /\ ~fb.panicked
    /\ m_firstVisibleLine' = IF n >= 0 THEN SmallerOf(m_size, m_firstVisibleLine + n)
                                       ELSE LargerOf(0, m_firstVisibleLine + n)
    /\ UNCHANGED <<m_lineBuffer, m_front, m_size, m_currentColumn, lines, reused>>
    /\ fb' = paintVisibleBuffer(fb, visible_text')

\* LineBuffer::scrollDown, then paintVisibleBuffer.
scrollDown(n) ==
    /\ ~fb.panicked
    /\ m_firstVisibleLine' = IF n >= 0 THEN SmallerOf(m_size - 1, m_firstVisibleLine + n)
                                       ELSE LargerOf(0, m_firstVisibleLine + n)
    /\ UNCHANGED <<m_lineBuffer, m_front, m_size, m_currentColumn, lines, reused>>
    /\ fb' = paintVisibleBuffer(fb, visible_text')

\* Only the first line of the buffer is emptied.
clear ==
    /\ ~fb.panicked
    /\ fb' = [fb EXCEPT !.cells = BlankScreen, !.x = 0, !.y = 0]
    /\ m_front' = 0 /\ m_size' = 1
    /\ m_firstVisibleLine' = 0 /\ m_currentColumn' = 0
    /\ m_lineBuffer' = [m_lineBuffer EXCEPT ![0] = [j \in 0 .. s_maxColumns - 1 |-> NUL]]
    /\ lines' = << <<>> >>
    /\ reused' = (reused \/ m_size > 1)

\* A failed assertion ends in kernel_panic, which never returns; what it paints
\* on the way is left out.
kernel_hang == fb.panicked /\ UNCHANGED vars

-----------------------------------------------------------------------------
(* Properties. *)

\* The viewport is never empty and never leaves the buffer, however the
\* circular buffer wraps, so that a repaint paints every row.
ViewportInside ==
    /\ firstVisibleLineIndex <= lastVisibleLineIndex
    /\ lastVisibleLineIndex < m_size

\* The buffer keeps the newest lines: each holds what was written to it, and
\* the next character goes where the newest one ends.
ScrollbackKept ==
    /\ Len(lines) = m_size
    /\ m_currentColumn = Len(lines[m_size])
    /\ \A i \in 1 .. m_size : \A j \in 1 .. Len(lines[i]) :
          getLine(i - 1)[j - 1] = lines[i][j]

\* The line being written is in the viewport.
CurrentLineInView == lastVisibleLineIndex = m_size - 1

Padded(line) == [c \in 0 .. Columns - 1 |-> IF c < Len(line) THEN line[c + 1] ELSE Blank]

\* While the line being written is in view, the screen shows the lines of the
\* viewport and nothing else, and the paint cursor is where the next character
\* belongs: painting a character alone and repainting everything agree.  This
\* holds until a line of the buffer is used again, which clear() and a full
\* buffer do without emptying it.
ScreenFollowsText ==
    ~reused /\ CurrentLineInView =>
        /\ ~fb.panicked
        /\ fb.x = m_currentColumn
        /\ fb.y = m_size - 1 - firstVisibleLineIndex
        /\ fb.cells = [r \in 0 .. Rows - 1 |->
                          IF r <= fb.y THEN Padded(lines[firstVisibleLineIndex + r + 1])
                                       ELSE BlankScreen[r]]

\* Terminal.hpp, setPixel: kernel_assert(..., "Cursor out of bounds").
\* Nothing is ever painted outside the framebuffer.
PaintsInside == ~fb.panicked
=============================================================================
