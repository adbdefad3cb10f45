-------------------------------- MODULE MCShell --------------------------------
(* A shell with a line of three characters and a two-slot keyboard buffer. *)
EXTENDS Shell

\* 'x', its release, 'c', Enter, Backspace, the extended prefix, Left and Right.
MCScancodes == {45, 173, 46, 28, 14, 224, 75, 77}
MCAscii     == 45 :> "x" @@ 46 :> "c" @@ 28 :> "enter" @@ 14 :> "backspace"
                  @@ 75 :> None @@ 77 :> None
MCKeys      == {"x", "c", "enter", "backspace", "UpArrow", "DownArrow",
                "LeftArrow", "RightArrow"}
MCExit      == <<"x", "x">>
MCClear     == <<"c">>
MCJunk      == {NUL, "x"}
=============================================================================
