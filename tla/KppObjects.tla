----------------------------- MODULE KppObjects -----------------------------
(***************************************************************************)
(* The classes of kpp that construct and destroy objects by hand:          *)
(* UniquePtr, whose pointer owns an object; Function, which keeps its      *)
(* callable behind a UniquePtr and clones it when it is copied; and        *)
(* Optional, which constructs its value in a buffer.                       *)
(*                                                                         *)
(* A program does anything with them that compiles, except call an empty   *)
(* Function.  Using or destroying an object that has been destroyed is     *)
(* undefined, and the model stops there (fault).                           *)
(***************************************************************************)
EXTENDS Integers

CONSTANTS
    Functions, Optionals,
    Functors,       \* objects of the program a Function may be made from
    MaxObjects,     \* bound: objects that exist at one time
    MaxValue        \* bound: the states of a functor or a value

ASSUME BoundsAssumption == MaxObjects \in Nat /\ MaxValue \in Nat

Objects == 1 .. MaxObjects
nullptr == 0
Values  == 0 .. MaxValue
None    == -1

Step(v) == (v + 1) % (MaxValue + 1)

VARIABLES
    scope,          \* the Functions that exist
    m_callable,     \* Function -> m_resource of its UniquePtr
    object,         \* CallableImpl: live or destroyed, and m_callable
    functor,        \* state of the program's functors, None out of scope
    is_present,     \* Optional
    buffer,         \* Optional -> live or destroyed, and the value
    op,             \* the operation the program performed last
    self_assigned,  \* history: something was assigned to itself
    fault

optionalVars == <<is_present, buffer>>
functionVars == <<scope, m_callable, object, functor>>
vars == <<functionVars, optionalVars, op, self_assigned, fault>>

Init ==
    /\ scope = {}
    /\ m_callable = [f \in Functions |-> nullptr]
    /\ object = [i \in Objects |-> [live |-> FALSE, m_callable |-> [own |-> None]]]
    /\ functor = [t \in Functors |-> None]
    /\ is_present = [o \in Optionals |-> FALSE]
    /\ buffer = [o \in Optionals |-> [live |-> FALSE, value |-> None]]
    /\ op = <<"none">>
    /\ self_assigned = FALSE /\ fault = FALSE

-----------------------------------------------------------------------------
(* UniquePtr. *)

Live(pointer) == pointer # nullptr /\ object[pointer].live

\* makeUnique: new takes memory nothing points to.
makeUnique(f, callable) ==
    LET free == {i \in Objects : ~object[i].live /\ \A g \in Functions : m_callable[g] # i}
        i    == CHOOSE j \in free : TRUE
    IN  /\ free # {}
        /\ object' = [object EXCEPT ![i] = [live |-> TRUE, m_callable |-> callable]]
        /\ m_callable' = [m_callable EXCEPT ![f] = i]

\* Mutant of release: the source keeps its pointer.
release_keeps(g) == m_callable

\* The pointers once that of g is released.
release(g) == [m_callable EXCEPT ![g] = nullptr]

\* The destructor, of the object if there is one; its memory is not freed.
destroy(pointer) ==
    /\ object' = IF pointer = nullptr THEN object
                 ELSE [object EXCEPT ![pointer] = [live |-> FALSE,
                                                   m_callable |-> [own |-> None]]]
    /\ fault' = (pointer # nullptr /\ ~object[pointer].live)

-----------------------------------------------------------------------------
(* Function. *)

new_function(f) ==
    /\ ~fault /\ f \notin scope
    /\ scope' = scope \cup {f}
    /\ UNCHANGED <<functor, optionalVars, self_assigned>>

default_construct(f) ==
    /\ new_function(f) /\ op' = <<"empty", f>>
    /\ UNCHANGED <<m_callable, object, fault>>

\* CallableType is F for an rvalue: the callable is moved into the object.
from_rvalue(f) ==
    /\ new_function(f) /\ op' = <<"make", f>>
    /\ makeUnique(f, [own |-> 0])
    /\ UNCHANGED fault

\* CallableType is F& for an lvalue: the object keeps a reference.
from_lvalue(f, t) ==
    /\ functor[t] # None
    /\ new_function(f) /\ op' = <<"refer", f, t>>
    /\ makeUnique(f, [refers |-> t])
    /\ UNCHANGED fault

\* Mutant of clone: the copy starts in the state of a new callable.
clone_fresh(g) ==
    LET callable == object[m_callable[g]].m_callable
    IN  IF callable \in [own : Values] THEN [own |-> 0] ELSE callable

\* A CallableImpl made from m_callable: a copy, or the same reference.
clone(g) == object[m_callable[g]].m_callable

copy_construct(f, g) ==
    /\ g \in scope
    /\ new_function(f) /\ op' = <<"copy", f, g>>
    /\ IF Live(m_callable[g])
       THEN makeUnique(f, clone(g)) /\ UNCHANGED fault
       ELSE fault' = (m_callable[g] # nullptr) /\ UNCHANGED <<m_callable, object>>

move_construct(f, g) ==
    /\ g \in scope
    /\ new_function(f) /\ op' = <<"move", f, g>>
    /\ m_callable' = [release(g) EXCEPT ![f] = m_callable[g]]
    /\ UNCHANGED <<object, fault>>

\* The old object is destroyed, then g's pointer is released and stored: in f
\* again if g is f.
move_assign(f, g) ==
    /\ ~fault /\ {f, g} \subseteq scope
    /\ op' = <<"move", f, g>>
    /\ destroy(m_callable[f])
    /\ m_callable' = [release(g) EXCEPT ![f] = m_callable[g]]
    /\ self_assigned' = (self_assigned \/ f = g)
    /\ UNCHANGED <<scope, functor, optionalVars>>

end_scope(f) ==
    /\ ~fault /\ f \in scope
    /\ op' = <<"end", f>>
    /\ destroy(m_callable[f])
    /\ m_callable' = release(f)
    /\ scope' = scope \ {f}
    /\ UNCHANGED <<functor, optionalVars, self_assigned>>

\* operator() of a Function that is not empty.
call(f) ==
    /\ ~fault /\ f \in scope /\ m_callable[f] # nullptr
    /\ op' = <<"call", f>>
    /\ LET i == m_callable[f]
           callable == object[i].m_callable
       IN  \/ /\ Live(i) /\ callable \in [own : Values]
              /\ object' = [object EXCEPT ![i].m_callable.own = Step(@)]
              /\ UNCHANGED <<functor, fault>>
           \/ \E t \in Functors :
                 /\ Live(i) /\ callable = [refers |-> t]
                 /\ functor' = IF functor[t] = None THEN functor
                               ELSE [functor EXCEPT ![t] = Step(@)]
                 /\ fault' = (functor[t] = None)
                 /\ UNCHANGED object
           \/ ~Live(i) /\ fault' = TRUE /\ UNCHANGED <<object, functor>>
    /\ UNCHANGED <<scope, m_callable, optionalVars, self_assigned>>

\* The program's functors come and go.
functor_scope(t) ==
    /\ ~fault /\ op' = <<"functor", t>>
    /\ functor' = [functor EXCEPT ![t] = IF @ = None THEN 0 ELSE None]
    /\ UNCHANGED <<scope, m_callable, object, optionalVars, self_assigned, fault>>

-----------------------------------------------------------------------------
(* Optional. *)

\* The buffers after reset() of o.
reset(o) ==
    IF is_present[o] THEN [buffer EXCEPT ![o] = [live |-> FALSE, value |-> None]] ELSE buffer

\* reset(), then construction from the value that is in from's buffer by then.
emplace(o, value, valid) ==
    /\ is_present' = [is_present EXCEPT ![o] = TRUE]
    /\ buffer' = [reset(o) EXCEPT ![o] = [live |-> TRUE, value |-> value]]
    /\ fault' = (~valid \/ reset(o)[o].live)

\* reset(), and assignment of Nullopt_t.
reset_value(o) ==
    /\ is_present' = [is_present EXCEPT ![o] = FALSE]
    /\ buffer' = reset(o)
    /\ UNCHANGED fault

optional_reset(o) ==
    /\ ~fault /\ op' = <<"reset", o>>
    /\ reset_value(o)
    /\ UNCHANGED <<functionVars, self_assigned>>

\* emplace() and assignment of a new value.
optional_emplace(o) ==
    /\ ~fault /\ op' = <<"emplace", o>>
    /\ emplace(o, 0, TRUE)
    /\ UNCHANGED <<functionVars, self_assigned>>

\* Assignment of another Optional, or of *q: the source is read after reset().
optional_assign(o, q) ==
    /\ ~fault /\ op' = <<"assign", o, q>>
    /\ IF is_present[q]
       THEN emplace(o, reset(o)[q].value, reset(o)[q].live)
       ELSE reset_value(o)
    /\ self_assigned' = (self_assigned \/ o = q)
    /\ UNCHANGED functionVars

\* The program changes the value through operator*.
optional_change(o) ==
    /\ ~fault /\ op' = <<"change", o>> /\ is_present[o]
    /\ buffer' = [buffer EXCEPT ![o].value = Step(@)]
    /\ UNCHANGED <<functionVars, is_present, self_assigned, fault>>

undefined == fault /\ UNCHANGED vars

Next ==
    \/ \E f \in Functions :
          default_construct(f) \/ from_rvalue(f) \/ end_scope(f) \/ call(f)
    \/ \E f \in Functions, t \in Functors : from_lvalue(f, t)
    \/ \E f, g \in Functions :
          copy_construct(f, g) \/ move_construct(f, g) \/ move_assign(f, g)
    \/ \E t \in Functors : functor_scope(t)
    \/ \E o \in Optionals : optional_reset(o) \/ optional_emplace(o) \/ optional_change(o)
    \/ \E o, q \in Optionals : optional_assign(o, q)
    \/ undefined

Spec == Init /\ [][Next]_vars

-----------------------------------------------------------------------------
(* Properties. *)

CallableOf(f) ==
    IF Live(m_callable[f]) THEN object[m_callable[f]].m_callable ELSE [own |-> None]

\* Every object has exactly one owner that will destroy it, and no object is
\* used or destroyed after its end, as long as nothing is assigned to itself
\* and no Function is called whose functor is gone.  An Optional says that it
\* has a value exactly when a value lives in its buffer.
OneOwner ==
    /\ \A f, g \in scope : m_callable[f] = m_callable[g] /\ f # g => m_callable[f] = nullptr
    /\ \A i \in Objects : object[i].live => \E f \in scope : m_callable[f] = i
    /\ ~self_assigned => \A f \in scope : m_callable[f] # nullptr => Live(m_callable[f])
    /\ \A o \in Optionals : is_present[o] = buffer[o].live
    /\ fault => \/ self_assigned
                \/ \E f \in scope, t \in Functors :
                      CallableOf(f) = [refers |-> t] /\ functor[t] = None

\* Functions and Optionals behave as values: a copy equals its source and is
\* independent of it afterwards.
V == INSTANCE ObjectValues WITH
        callable <- [f \in Functions |-> CallableOf(f)],
        unusable <- {f \in Functions : m_callable[f] # nullptr /\ ~Live(m_callable[f])},
        content  <- [o \in Optionals |-> buffer[o].value],
        broken   <- fault

ValueSpec == V!Spec
=============================================================================
