---------------------------- MODULE ObjectValues ----------------------------
(***************************************************************************)
(* What a user of kpp::Function and kpp::Optional counts on: they behave   *)
(* as values.  A Function is empty, has a callable of its own, or refers   *)
(* to a functor of the caller; a copy is equal to its source and from then *)
(* on independent of it; a call changes nothing but the callable that is   *)
(* called.  An Optional is empty or has a value.                           *)
(*                                                                         *)
(* A callable's state, like that of an Optional's value, starts at 0 and   *)
(* steps through Values.                                                   *)
(***************************************************************************)
EXTENDS Integers

CONSTANTS Functions, Optionals, Functors, MaxValue

Values == 0 .. MaxValue
None   == -1

Step(v) == (v + 1) % (MaxValue + 1)

VARIABLES
    callable,   \* Function -> [own |-> value or None] or [refers |-> functor]
    unusable,   \* the Functions that hold what assigning one to itself left
    functor,    \* the state of the caller's functors, None when there is none
    content,    \* Optional -> value or None
    op,         \* the operation the program performed last, and its operands
    broken      \* a destroyed object was used: nothing is promised any more

valueVars == <<callable, unusable, functor, content, op, broken>>
otherVars == <<functor, content, broken>>

Empty == [own |-> None]

Init ==
    /\ callable = [f \in Functions |-> Empty]
    /\ unusable = {}
    /\ functor = [t \in Functors |-> None]
    /\ content = [o \in Optionals |-> None]
    /\ op = <<"none">>
    /\ broken = FALSE

Become(f, c) ==
    /\ callable[f] = Empty /\ f \notin unusable
    /\ callable' = [callable EXCEPT ![f] = c]
    /\ UNCHANGED <<unusable, otherVars>>

Make(f)      == op' = <<"make", f>> /\ Become(f, [own |-> 0])
MakeEmpty(f) == op' = <<"empty", f>> /\ Become(f, Empty)
Refer(f, t)  == op' = <<"refer", f, t>> /\ functor[t] # None /\ Become(f, [refers |-> t])
Copy(f, g)   == op' = <<"copy", f, g>> /\ g \notin unusable /\ Become(f, callable[g])

End(f) ==
    /\ op' = <<"end", f>>
    /\ f \notin unusable
    /\ callable' = [callable EXCEPT ![f] = Empty]
    /\ UNCHANGED <<unusable, otherVars>>

\* f # g, or f = g is empty; what else assigning f to itself leaves is unusable.
Move(f, g) ==
    /\ op' = <<"move", f, g>>
    /\ f \notin unusable
    /\ IF f = g
       THEN /\ unusable' = IF callable[f] = Empty THEN unusable ELSE unusable \cup {f}
            /\ callable' = [callable EXCEPT ![f] = Empty]
       ELSE /\ unusable' = IF g \in unusable THEN (unusable \ {g}) \cup {f} ELSE unusable
            /\ callable' = [callable EXCEPT ![f] = callable[g], ![g] = Empty]
    /\ UNCHANGED otherVars

Call(f) ==
    /\ op' = <<"call", f>>
    /\ f \notin unusable
    /\ \/ /\ callable[f] \in [own : Values]
          /\ callable' = [callable EXCEPT ![f].own = Step(@)]
          /\ UNCHANGED functor
       \/ \E t \in Functors :
             /\ callable[f] = [refers |-> t] /\ functor[t] # None
             /\ functor' = [functor EXCEPT ![t] = Step(@)]
             /\ UNCHANGED callable
    /\ UNCHANGED <<unusable, content, broken>>

\* A functor's scope begins, or ends.
Functor(t) ==
    /\ op' = <<"functor", t>>
    /\ functor' = [functor EXCEPT ![t] = IF @ = None THEN 0 ELSE None]
    /\ UNCHANGED <<callable, unusable, content, broken>>

Content(o, v) ==
    /\ content' = [content EXCEPT ![o] = v]
    /\ UNCHANGED <<callable, unusable, functor, broken>>

Emplace(o)   == op' = <<"emplace", o>> /\ Content(o, 0)
Reset(o)     == op' = <<"reset", o>> /\ Content(o, None)
Change(o)    == op' = <<"change", o>> /\ content[o] # None /\ Content(o, Step(content[o]))
Assign(o, q) == op' = <<"assign", o, q>> /\ Content(o, content[q])

\* What the implementation does not survive: a Function that was assigned to
\* itself is used, or one whose functor is gone; an Optional with a value is
\* assigned to itself.
Break ==
    /\ \/ unusable # {}
       \/ \E f \in Functions, t \in Functors :
             callable[f] = [refers |-> t] /\ functor[t] = None
       \/ \E o \in Optionals : content[o] # None /\ op' = <<"assign", o, o>>
    /\ broken' = TRUE

Next ==
    \/ \E f \in Functions : Make(f) \/ MakeEmpty(f) \/ End(f) \/ Call(f)
    \/ \E f \in Functions, t \in Functors : Refer(f, t)
    \/ \E f, g \in Functions : Copy(f, g) \/ Move(f, g)
    \/ \E t \in Functors : Functor(t)
    \/ \E o \in Optionals : Emplace(o) \/ Reset(o) \/ Change(o)
    \/ \E o, q \in Optionals : Assign(o, q)
    \/ Break

Spec == Init /\ [][Next]_valueVars
=============================================================================
