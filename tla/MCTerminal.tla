------------------------------ MODULE MCTerminal ------------------------------
(* Three lines of two columns, two of them visible. *)
EXTENDS Console

MCChars  == {"a", "0", "1", "%"}
MCJunk   == {NUL, "a"}
MCZeroed == {NUL}
MCEchoed == {"a"}
MCDigits == <<"0", "1", "2", "3", "4", "5", "6", "7", "8", "9",
              "a", "b", "c", "d", "e", "f">>

\* Text before, between and after conversions, escapes next to each other and
\* to a conversion, numbers at the boundary of a digit, an empty string, and
\* the formats the code answers in its own way: an unknown specifier, a last
\* %, and a number below zero.
MCCalls ==
    { [format |-> <<"%", "%", "a">>,           args |-> <<>>],
      [format |-> <<"%", "%", "%", "d">>,      args |-> <<10>>],
      [format |-> <<"a", "%", "x", NL>>,       args |-> <<16>>],
      [format |-> <<"%", "c", "%", "p">>,      args |-> <<"1", 0>>],
      [format |-> <<"%", "s", NL>>,            args |-> << <<"a", "1">> >>],
      [format |-> <<"%", "s", "%", "%">>,      args |-> << <<>> >>],
      [format |-> <<"%", "a", "%", "d", "%">>, args |-> <<-1>>] }
=============================================================================
