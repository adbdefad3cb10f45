-------------------------------- MODULE Shell --------------------------------
(***************************************************************************)
(* The shell loop of kernel_main (kernel/src/main.cpp) on top of the       *)
(* keyboard buffer.  The line editor's state is one record, ed, and the    *)
(* effect of a key on it is the function handle_key.  A key is handled in  *)
(* the step that ends dequeue: the handler shares nothing with the editor. *)
(* What the commands print is the terminal's concern and is left out.      *)
(***************************************************************************)
EXTENDS KeyboardBuffer, SequencesExt

CONSTANTS
    lineSize,           \* sizeof(input), 256 in the code
    exit_command,       \* the prefixes handle_command compares the line with:
    clear_command,      \*   "exit" and "clear"; "help" and "echo " only print
    Junk                \* what the uninitialised input array may contain

NUL == "NUL"

ASSUME LineAssumption ==
    lineSize \in Nat \ {0} /\ NUL \notin Keys /\ Junk \subseteq Keys \cup {NUL}

VARIABLES ed

shellVars == <<vars, ed>>

Editing == ed.mode = "editing"

\* typed is the line as the user means it: what was typed at this prompt, less
\* what was erased; moved says an arrow key took the cursor off its end.
InitEd(input) ==
    [input |-> input, pos |-> 0, mode |-> "editing", cleared |-> 0,
     lines |-> 0, typed |-> <<>>, moved |-> FALSE]

-----------------------------------------------------------------------------

\* strncmp(input, command, n) == 0
StartsWith(input, command) ==
    \A i \in 1 .. Len(command) : i <= lineSize /\ input[i - 1] = command[i]

\* The line is complete: NUL-terminated at pos and handed to handle_command.
handle_command(e, input) ==
    [input |-> input, pos |-> 0, typed |-> <<>>, moved |-> FALSE,
     lines |-> e.lines + 1,
     mode  |-> IF e.pos > 0 /\ StartsWith(input, exit_command)
               THEN "hung" ELSE "editing",
     cleared |-> IF /\ e.pos > 0
                    /\ ~StartsWith(input, exit_command)
                    /\ StartsWith(input, clear_command)
                 THEN e.cleared + 1 ELSE e.cleared]

EraseLast(s) == IF s = <<>> THEN s ELSE Front(s)

\* Mutant of handle_key: the bound on pos is the size of the array.
handle_key_overflow(e, key) ==
    CASE key \in {None, "UpArrow", "DownArrow"} -> e
      [] key = "enter" -> handle_command(e, [e.input EXCEPT ![e.pos] = NUL])
      [] key \in {"backspace", "LeftArrow"} /\ e.pos > 0 -> [e EXCEPT !.pos = @ - 1]
      [] key \notin {None, "enter", "backspace", "UpArrow", "DownArrow", "LeftArrow",
                     "RightArrow"} /\ e.pos < lineSize ->
            [e EXCEPT !.input[e.pos] = key, !.pos = @ + 1]
      [] OTHER -> e

\* Mutant of handle_key: erasing a character does not move the cursor back.
handle_key_noerase(e, key) ==
    CASE key \in {None, "UpArrow", "DownArrow"} -> e
      [] key = "enter" -> handle_command(e, [e.input EXCEPT ![e.pos] = NUL])
      [] key = "backspace" -> [e EXCEPT !.typed = EraseLast(@)]
      [] key \notin {None, "enter", "backspace", "UpArrow", "DownArrow", "LeftArrow",
                     "RightArrow"} /\ e.pos < lineSize - 1 ->
            [e EXCEPT !.input[e.pos] = key, !.pos = @ + 1, !.typed = Append(@, key)]
      [] OTHER -> e

\* One round of the inner loop; Up and Down scroll the terminal.
handle_key(e, key) ==
    CASE key \in {None, "UpArrow", "DownArrow"} -> e
      [] key = "enter" -> handle_command(e, [e.input EXCEPT ![e.pos] = NUL])
      [] key = "backspace" ->
            IF e.pos > 0 THEN [e EXCEPT !.pos = @ - 1, !.typed = EraseLast(@)] ELSE e
      [] key = "LeftArrow" ->
            IF e.pos > 0 THEN [e EXCEPT !.pos = @ - 1, !.moved = TRUE] ELSE e
      [] key = "RightArrow" ->
            IF e.pos < lineSize - 1 /\ e.input[e.pos] # NUL
            THEN [e EXCEPT !.pos = @ + 1, !.moved = TRUE] ELSE e
      [] OTHER ->
            IF e.pos < lineSize - 1
            THEN [e EXCEPT !.input[e.pos] = key, !.pos = @ + 1,
                           !.typed = Append(@, key)]
            ELSE e

\* get(), and what the loop does with the key.  After "exit" kernel_hang
\* halts for ever; interrupts stay enabled.
shell_step ==
    /\ Editing
    /\ \/ (dequeue_check \/ dequeue_read \/ dequeue_load) /\ UNCHANGED ed
       \/ dequeue_store /\ ed' = handle_key(ed, item)

keyboard_interrupt == \E code \in Scancodes : isr_keyboard(code) /\ UNCHANGED ed

kernel_hang == ~Editing /\ UNCHANGED shellVars

ShellInit ==
    /\ Init
    /\ \E input \in [0 .. lineSize - 1 -> Junk] : ed = InitEd(input)

ShellNext == shell_step \/ keyboard_interrupt \/ kernel_hang

\* The loop never blocks: it polls the buffer.
ShellSpec == ShellInit /\ [][ShellNext]_shellVars /\ WF_shellVars(shell_step)

-----------------------------------------------------------------------------
(* Properties. *)

\* pos never leaves the array, so neither input[pos++] = key nor the final
\* input[pos] = '\0' can write past its end.
ShellTypeOK ==
    /\ ed.input \in [0 .. lineSize - 1 -> Keys \cup {NUL}]
    /\ ed.pos \in 0 .. lineSize - 1
    /\ ed.mode \in {"editing", "hung"}
    /\ ed.lines \in Nat /\ ed.cleared \in Nat
    /\ ed.typed \in Seq(Keys) /\ ed.moved \in BOOLEAN

\* Unless the cursor was moved with an arrow key, the line handle_command
\* would get now is what the user typed: nothing of an earlier line, and
\* nothing of the uninitialised array, is in it.
LineIsWhatWasTyped ==
    ~ed.moved => /\ Len(ed.typed) = ed.pos
                 /\ \A i \in 1 .. ed.pos : ed.input[i - 1] = ed.typed[i]

\* The editor after the first n keys of the history, fed to it directly.
EditorAfter(input, n) ==
    LET run[k \in 0 .. n] ==
            IF k = 0 THEN InitEd(input) ELSE handle_key(run[k - 1], history[k])
    IN  run[n]

\* As long as the race has not struck, the shell has seen exactly the keys
\* that were typed, in order: its state is what an editor fed directly with
\* the first keys of the history would have reached.
ShellSeesHistory ==
    lost = 0 /\ pc \in {"idle", "read"} =>
        \E input \in [0 .. lineSize - 1 -> Junk] : ed = EditorAfter(input, taken)

\* Until the race strikes, every key put in the buffer is handed to the shell,
\* unless the shell was told to exit.
KeysDelivered ==
    \A n \in 1 .. MaxKeys :
        (accepted >= n /\ lost = 0) ~> (taken >= n \/ lost > 0 \/ ~Editing)

EntersIn(n) == Len(SelectSeq(SubSeq(history, 1, n), LAMBDA k : k = "enter"))

\* Every Enter in the buffer is answered: the shell gets to handle as many
\* lines, unless it was told to exit or the race delays it.
EnterAnswered ==
    \A n \in 1 .. MaxKeys :
        (EntersIn(accepted) >= n) ~> (ed.lines >= n \/ ~Editing \/ lost > 0)
=============================================================================
