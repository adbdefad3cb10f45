------------------------------- MODULE Console -------------------------------
(***************************************************************************)
(* printf on the terminal (kernel/lib/kpp/stdio): vprintf walks the format *)
(* piece by piece, and every character of a piece goes through putchar to  *)
(* Terminal::write.  Between two calls the shell echoes a key, scrolls or  *)
(* clears.                                                                 *)
(*                                                                         *)
(* The characters of a number are its digits 0 .. 15, as Digits names      *)
(* them; print never fails, since putchar returns the byte it is given.    *)
(***************************************************************************)
EXTENDS Terminal

CONSTANTS
    Calls,      \* records of a format and the arguments for it
    MaxCalls,   \* bound: calls of printf in a behaviour
    Digits,     \* the characters of 0 .. 15
    Echoed      \* the characters the shell echoes

Percent == "%"
Specifiers == {"c", "s", "d", "x", "p"}

ASSUME CallAssumption ==
    /\ MaxCalls \in Nat /\ Len(Digits) = 16 /\ Echoed \subseteq Chars
    /\ \A c \in Calls : /\ c.format \in Seq(STRING)
                         /\ Len(c.args) \in Nat
                         /\ c.args = [i \in 1 .. Len(c.args) |-> c.args[i]]

VARIABLES
    calls,          \* calls of printf so far
    call,           \* the call in progress, or None
    format, args,   \* what vprintf has not consumed yet
    pending,        \* what print has not passed to putchar yet
    written,
    sent            \* what putchar has received in this call

callVars == <<calls, call, format, args, pending, written, sent>>
consoleVars == <<vars, callVars>>

None == [format |-> <<>>, args |-> <<>>]
Idle == call = None

ConsoleInit ==
    /\ Init
    /\ calls = 0 /\ call = None
    /\ format = <<>> /\ args = <<>> /\ pending = <<>> /\ written = 0 /\ sent = <<>>

-----------------------------------------------------------------------------
(* The conversions. *)

digits(base, num) ==
    LET string[n \in Nat] ==
            (IF n < base THEN <<>> ELSE string[n \div base]) \o <<Digits[(n % base) + 1]>>
    IN  string[num]

\* The loop of %d stops at once for a number below zero.
decimal(n) == IF n < 0 THEN <<>> ELSE digits(10, n)

hex(n) == digits(16, n)

convert(specifier, argument) ==
    CASE specifier = "c" -> <<argument>>
      [] specifier = "s" -> argument
      [] specifier = "d" -> decimal(argument)
      [] OTHER           -> hex(argument)

-----------------------------------------------------------------------------
(* vprintf. *)

printf(c) ==
    /\ Idle /\ ~fb.panicked /\ calls < MaxCalls
    /\ calls' = calls + 1
    /\ call' = c /\ format' = c.format /\ args' = c.args
    /\ UNCHANGED <<vars, pending, written, sent>>

NextPiece == ~Idle /\ pending = <<>> /\ format # <<>>

Escaped == Len(format) > 1 /\ format[2] = Percent

\* Mutant of regular: the % that ends a piece is skipped.
regular_skips ==
    /\ NextPiece
    /\ Head(format) # Percent \/ Escaped
    /\ LET text   == IF Head(format) = Percent THEN Tail(format) ELSE format
           length == Min({n \in 1 .. Len(text) :
                             n = Len(text) \/ text[n + 1] = Percent})
       IN  /\ pending' = SubSeq(text, 1, length)
           /\ format' = SubSeq(text, length + 2, Len(text))
           /\ written' = written + length
    /\ UNCHANGED <<vars, calls, call, args, sent>>

\* Regular characters, and the second of two %, up to the next %.
regular ==
    /\ NextPiece
    /\ Head(format) # Percent \/ Escaped
    /\ LET text   == IF Head(format) = Percent THEN Tail(format) ELSE format
           length == Min({n \in 1 .. Len(text) :
                             n = Len(text) \/ text[n + 1] = Percent})
       IN  /\ pending' = SubSeq(text, 1, length)
           /\ format' = SubSeq(text, length + 1, Len(text))
           /\ written' = written + length
    /\ UNCHANGED <<vars, calls, call, args, sent>>

\* A % with a specifier consumes an argument; any other % is dropped.
specifier ==
    /\ NextPiece
    /\ Head(format) = Percent /\ ~Escaped
    /\ IF Len(format) > 1 /\ format[2] \in Specifiers
       THEN /\ pending' = convert(format[2], Head(args))
            /\ written' = written + Len(pending')
            /\ args' = Tail(args)
            /\ format' = Tail(Tail(format))
       ELSE format' = Tail(format) /\ UNCHANGED <<pending, written, args>>
    /\ UNCHANGED <<vars, calls, call, sent>>

putchar ==
    /\ pending # <<>>
    /\ write(Head(pending))
    /\ sent' = Append(sent, Head(pending))
    /\ pending' = Tail(pending)
    /\ UNCHANGED <<calls, call, format, args, written>>

Finished == ~Idle /\ pending = <<>> /\ format = <<>>

return ==
    /\ Finished
    /\ call' = None
    /\ args' = <<>> /\ written' = 0 /\ sent' = <<>>
    /\ UNCHANGED <<vars, calls, format, pending>>

\* What else the shell does with the terminal.
shell ==
    /\ Idle
    /\ \/ \E character \in Echoed \cup {NL} : write(character)
       \/ \E n \in {-1, 1} : scrollDown(n)
       \/ clear
    /\ UNCHANGED callVars

hang == kernel_hang /\ UNCHANGED callVars

ConsoleNext ==
    \/ \E c \in Calls : printf(c)
    \/ regular \/ specifier \/ putchar \/ return \/ shell \/ hang

ConsoleSpec == ConsoleInit /\ [][ConsoleNext]_consoleVars

-----------------------------------------------------------------------------
(* Properties. *)

\* The positions at which a directive starts, a character by itself or a pair:
\* an even number of % immediately before it.
Starts(f) ==
    {i \in 1 .. Len(f) :
        Cardinality({j \in 1 .. i - 1 : \A k \in j .. i - 1 : f[k] = Percent}) % 2 = 0}

Conversions(f) == {i \in Starts(f) : f[i] = Percent /\ i < Len(f) /\ f[i + 1] # Percent}

ConversionsUpTo(f, i) == Cardinality({j \in Conversions(f) : j <= i})

ArgumentOf(c, i) == c.args[ConversionsUpTo(c.format, i)]

\* A call the standard gives a meaning to, without numbers below zero: every
\* conversion is a known one, and its argument is there and of its type.
Conforming(c) ==
    \A i \in Starts(c.format) : c.format[i] = Percent =>
        /\ i < Len(c.format)
        /\ c.format[i + 1] \in Specifiers \cup {Percent}
        /\ c.format[i + 1] # Percent => ConversionsUpTo(c.format, i) <= Len(c.args)
        /\ c.format[i + 1] = "s" => ArgumentOf(c, i) \in Seq(STRING)
        /\ c.format[i + 1] \in {"d", "x", "p"} => ArgumentOf(c, i) \in Nat

power(base, exponent) ==
    LET product[k \in Nat] == IF k = 0 THEN 1 ELSE base * product[k - 1]
    IN  product[exponent]

\* The digits of n by the powers of the base, without zeros in front.
Numeral(base, n) ==
    LET length == CHOOSE k \in 1 .. n + 1 :
                      n < power(base, k) /\ (k = 1 \/ power(base, k - 1) <= n)
    IN  [i \in 1 .. length |-> Digits[((n \div power(base, length - i)) % base) + 1]]

Rendered(conversion, argument) ==
    CASE conversion = "c" -> <<argument>>
      [] conversion = "s" -> argument
      [] conversion = "d" -> Numeral(10, argument)
      [] OTHER            -> Numeral(16, argument)

Directive(c, i) ==
    IF i \in Conversions(c.format) THEN Rendered(c.format[i + 1], ArgumentOf(c, i))
    ELSE IF i \in Starts(c.format) THEN <<c.format[i]>>
    ELSE <<>>

\* When vprintf returns, the terminal has received what the format and the
\* arguments stand for, directive by directive, and the result is its length.
PrintfRenders ==
    Finished /\ Conforming(call) =>
        /\ sent = FlattenSeq([i \in 1 .. Len(call.format) |-> Directive(call, i)])
        /\ written = Len(sent)
=============================================================================
