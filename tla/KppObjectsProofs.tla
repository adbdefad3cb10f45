-------------------------- MODULE KppObjectsProofs --------------------------
(***************************************************************************)
(* Proofs about the classes of kpp that own objects: that every object has *)
(* one owner, and that Functions and Optionals implement the values of     *)
(* ObjectValues.                                                           *)
(***************************************************************************)
EXTENDS KppObjects, TLAPS

Callables == [own : Values] \cup [refers : Functors]

\* The types of what the classes keep.
KppTypeOK ==
    /\ scope \subseteq Functions
    /\ m_callable \in [Functions -> Objects \cup {nullptr}]
    /\ object \in [Objects -> [live : BOOLEAN, m_callable : Callables \cup {[own |-> None]}]]
    /\ functor \in [Functors -> Values \cup {None}]
    /\ is_present \in [Optionals -> BOOLEAN]
    /\ buffer \in [Optionals -> [live : BOOLEAN, value : Values \cup {None}]]
    /\ self_assigned \in BOOLEAN /\ fault \in BOOLEAN

\* The pointer of a Function that does not exist is null, and a pointer is in
\* one Function at most.
Unshared ==
    /\ \A f \in Functions : f \notin scope => m_callable[f] = nullptr
    /\ \A f, g \in Functions : m_callable[f] = m_callable[g] /\ f # g => m_callable[f] = nullptr

\* A live object has a callable, and some Function points to it.
Owned ==
    \A i \in Objects : object[i].live =>
        /\ object[i].m_callable \in Callables
        /\ \E f \in Functions : m_callable[f] = i

\* Only assigning a Function to itself leaves a pointer to a destroyed object.
NoDangling ==
    ~self_assigned => \A f \in Functions : m_callable[f] # nullptr => Live(m_callable[f])

\* An Optional has a value exactly when it says so.
Present ==
    \A o \in Optionals :
        /\ is_present[o] = buffer[o].live
        /\ ~fault => (buffer[o].live <=> buffer[o].value # None)

\* The operations that are undefined.
FaultCause ==
    fault => \/ self_assigned
             \/ \E f \in scope, t \in Functors :
                   CallableOf(f) = [refers |-> t] /\ functor[t] = None

IInv == KppTypeOK /\ Unshared /\ Owned /\ NoDangling /\ Present /\ FaultCause

-----------------------------------------------------------------------------
(* Values and operations. *)

\* The states of a functor follow one another within Values.
LEMMA StepType ==
    ASSUME NEW v \in Values
    PROVE  Step(v) \in Values
  <1>1. v + 1 \in Nat /\ MaxValue + 1 \in Nat \ {0}
    BY BoundsAssumption DEF Values
  <1>2. (v + 1) % (MaxValue + 1) \in 0 .. MaxValue
    BY <1>1, BoundsAssumption
  <1> QED
    BY <1>2 DEF Step, Values

\* None is told apart from every value, and an empty callable from every other.
LEMMA NoneIsNoValue == None \notin Values /\ [own |-> None] \notin Callables
  <1>1. None \notin Values
    BY DEF None, Values
  <1>2. [own |-> None] \notin [own : Values]
    BY <1>1
  <1>3. [own |-> None] \notin [refers : Functors]
    <2>1. SUFFICES ASSUME NEW c \in [refers : Functors], c = [own |-> None] PROVE FALSE
      OBVIOUS
    <2>2. DOMAIN c = {"refers"} /\ DOMAIN [own |-> None] = {"own"}
      OBVIOUS
    <2> QED
      BY <2>1, <2>2
  <1> QED
    BY <1>1, <1>2, <1>3 DEF Callables

\* Calling an object steps a callable of its own and keeps it of its own.
LEMMA OwnStep ==
    ASSUME NEW c \in [own : Values]
    PROVE  /\ [c EXCEPT !.own = Step(@)] = [own |-> Step(c.own)]
           /\ [own |-> Step(c.own)] \in Callables
  <1>1. PICK v \in Values : c = [own |-> v]
    OBVIOUS
  <1>2. c.own = v /\ Step(v) \in Values
    BY <1>1, StepType
  <1> QED
    BY <1>1, <1>2 DEF Callables

ObjectRecords == [live : BOOLEAN, m_callable : Callables \cup {[own |-> None]}]
BufferRecords == [live : BOOLEAN, value : Values \cup {None}]

\* Changing one field of a record keeps the other.
LEMMA ExceptField ==
    /\ \A r \in ObjectRecords, c \in Callables \cup {[own |-> None]} :
          [r EXCEPT !.m_callable = c] = [live |-> r.live, m_callable |-> c]
    /\ \A r \in BufferRecords, c \in Values \cup {None} :
          [r EXCEPT !.value = c] = [live |-> r.live, value |-> c]
  <1>1. ASSUME NEW L, NEW C, NEW r \in [live : L, m_callable : C], NEW c \in C
        PROVE  [r EXCEPT !.m_callable = c] = [live |-> r.live, m_callable |-> c]
    OBVIOUS
  <1>2. ASSUME NEW L, NEW C, NEW r \in [live : L, value : C], NEW c \in C
        PROVE  [r EXCEPT !.value = c] = [live |-> r.live, value |-> c]
    OBVIOUS
  <1> QED
    BY <1>1, <1>2 DEF ObjectRecords, BufferRecords

\* What makeUnique does: the object is new, in memory no Function points to.
LEMMA MakeUnique ==
    ASSUME KppTypeOK, Unshared, NEW f \in Functions, f \notin scope,
           NEW callable \in Callables, makeUnique(f, callable)
    PROVE  \E i \in Objects :
              /\ ~object[i].live
              /\ \A g \in Functions : m_callable[g] # i
              /\ i # nullptr
              /\ object' = [object EXCEPT ![i] = [live |-> TRUE, m_callable |-> callable]]
              /\ m_callable' = [m_callable EXCEPT ![f] = i]
  <1> DEFINE free == {i \in Objects : ~object[i].live /\ \A g \in Functions : m_callable[g] # i}
             i    == CHOOSE j \in free : TRUE
  <1>1. free # {} /\ object' = [object EXCEPT ![i] = [live |-> TRUE, m_callable |-> callable]]
                  /\ m_callable' = [m_callable EXCEPT ![f] = i]
    BY DEF makeUnique
  <1>2. i \in free
    BY <1>1
  <1>3. \A j \in Objects : j # nullptr
    BY BoundsAssumption DEF Objects, nullptr
  <1> HIDE DEF i
  <1> QED
    BY <1>1, <1>2, <1>3

\* A Function that comes into being around a new object: the first owner of it.
LEMMA NewObject ==
    ASSUME IInv, NEW f \in Functions, NEW callable \in Callables,
           new_function(f), makeUnique(f, callable), UNCHANGED fault
    PROVE  IInv'
  <1>1. PICK i \in Objects :
              /\ ~object[i].live
              /\ \A g \in Functions : m_callable[g] # i
              /\ i # nullptr
              /\ object' = [object EXCEPT ![i] = [live |-> TRUE, m_callable |-> callable]]
              /\ m_callable' = [m_callable EXCEPT ![f] = i]
    BY MakeUnique DEF IInv, new_function
  <1>2. /\ scope' = scope \cup {f} /\ f \notin scope /\ fault = FALSE /\ fault' = FALSE
        /\ UNCHANGED <<functor, is_present, buffer, self_assigned>>
    BY DEF new_function, optionalVars, IInv, KppTypeOK
  <1>3. KppTypeOK'
    BY <1>1, <1>2 DEF IInv, KppTypeOK
  <1>4. Unshared'
    BY <1>1, <1>2 DEF IInv, KppTypeOK, Unshared
  <1>5. Owned'
    <2> SUFFICES ASSUME NEW j \in Objects, object'[j].live
                 PROVE  object'[j].m_callable \in Callables /\ \E h \in Functions : m_callable'[h] = j
      BY DEF Owned
    <2>1. CASE j = i
      BY <1>1, <2>1 DEF IInv, KppTypeOK
    <2>2. CASE j # i
      <3>1. object'[j] = object[j]
        BY <1>1, <2>2 DEF IInv, KppTypeOK
      <3>2. object[j].m_callable \in Callables /\ \E h \in Functions : m_callable[h] = j
        BY <3>1 DEF IInv, Owned
      <3>3. PICK h \in Functions : m_callable[h] = j
        BY <3>2
      <3>4. m_callable[f] = nullptr /\ j # nullptr /\ h # f
        BY <1>2, <3>3, BoundsAssumption DEF IInv, Unshared, Objects, nullptr
      <3> QED
        BY <1>1, <3>1, <3>2, <3>3, <3>4 DEF IInv, KppTypeOK
    <2> QED
      BY <2>1, <2>2
  <1>6. NoDangling'
    BY <1>1, <1>2 DEF IInv, KppTypeOK, NoDangling, Live
  <1>7. Present' /\ FaultCause'
    BY <1>2 DEF IInv, Present, FaultCause
  <1> QED
    BY <1>3, <1>4, <1>5, <1>6, <1>7 DEF IInv

\* The pointer of g moves to f; what f pointed to has been destroyed.
LEMMA MovePointer ==
    ASSUME KppTypeOK, Unshared, NEW f \in Functions, NEW g \in Functions
    PROVE  /\ [release(g) EXCEPT ![f] = m_callable[g]] =
                  [h \in Functions |-> IF h = f THEN m_callable[g]
                                       ELSE IF h = g THEN nullptr ELSE m_callable[h]]
           /\ release(f) = [h \in Functions |-> IF h = f THEN nullptr ELSE m_callable[h]]
  BY DEF KppTypeOK, release

\* The objects once the one pointer leads to is destroyed.
LEMMA DestroyedObject ==
    ASSUME KppTypeOK, NEW f \in Functions, destroy(m_callable[f])
    PROVE  /\ object' = [i \in Objects |->
                            IF i = m_callable[f] THEN [live |-> FALSE, m_callable |-> [own |-> None]]
                            ELSE object[i]]
           /\ fault' \in BOOLEAN
           /\ fault' <=> (m_callable[f] # nullptr /\ ~Live(m_callable[f]))
  <1>1. \A i \in Objects : i # nullptr
    BY BoundsAssumption DEF Objects, nullptr
  <1> QED
    BY <1>1 DEF destroy, KppTypeOK, Live

\* Move assignment keeps the invariant, of a Function to itself included.
LEMMA MoveAssign ==
    ASSUME IInv, NEW f \in Functions, NEW g \in Functions, move_assign(f, g)
    PROVE  IInv'
  <1>1. m_callable' = [h \in Functions |-> IF h = f THEN m_callable[g]
                                           ELSE IF h = g THEN nullptr ELSE m_callable[h]]
    BY MovePointer DEF move_assign, IInv
  <1>2. /\ object' = [i \in Objects |->
                          IF i = m_callable[f] THEN [live |-> FALSE, m_callable |-> [own |-> None]]
                          ELSE object[i]]
        /\ fault' \in BOOLEAN
        /\ fault' <=> (m_callable[f] # nullptr /\ ~Live(m_callable[f]))
    BY DestroyedObject DEF move_assign, IInv
  <1>3. /\ {f, g} \subseteq scope /\ ~fault
        /\ UNCHANGED <<scope, functor, is_present, buffer>>
        /\ self_assigned' = (self_assigned \/ f = g)
    BY DEF move_assign, optionalVars
  <1>4. \A i \in Objects : i # nullptr
    BY BoundsAssumption DEF Objects, nullptr
  <1>5. KppTypeOK'
    BY <1>1, <1>2, <1>3 DEF IInv, KppTypeOK
  <1>6. Unshared'
    BY <1>1, <1>3 DEF IInv, KppTypeOK, Unshared
  <1>7. Owned'
    BY <1>1, <1>2, <1>3, <1>4 DEF IInv, KppTypeOK, Owned
  <1>8. NoDangling'
    BY <1>1, <1>2, <1>3, <1>4 DEF IInv, KppTypeOK, Unshared, NoDangling, Live
  <1>9. Present'
    BY <1>2, <1>3 DEF IInv, Present
  <1>10. FaultCause'
    BY <1>2, <1>3 DEF IInv, KppTypeOK, NoDangling, FaultCause
  <1> QED
    BY <1>5, <1>6, <1>7, <1>8, <1>9, <1>10 DEF IInv

\* So does the destructor of a Function.
LEMMA EndScope ==
    ASSUME IInv, NEW f \in Functions, end_scope(f)
    PROVE  IInv'
  <1>1. m_callable' = [h \in Functions |-> IF h = f THEN nullptr ELSE m_callable[h]]
    BY MovePointer DEF end_scope, IInv
  <1>2. /\ object' = [i \in Objects |->
                          IF i = m_callable[f] THEN [live |-> FALSE, m_callable |-> [own |-> None]]
                          ELSE object[i]]
        /\ fault' \in BOOLEAN
        /\ fault' <=> (m_callable[f] # nullptr /\ ~Live(m_callable[f]))
    BY DestroyedObject DEF end_scope, IInv
  <1>3. /\ ~fault /\ f \in scope /\ scope' = scope \ {f}
        /\ UNCHANGED <<functor, is_present, buffer, self_assigned>>
    BY DEF end_scope, optionalVars
  <1>4. \A i \in Objects : i # nullptr
    BY BoundsAssumption DEF Objects, nullptr
  <1>5. KppTypeOK'
    BY <1>1, <1>2, <1>3 DEF IInv, KppTypeOK
  <1>6. Unshared'
    BY <1>1, <1>3 DEF IInv, KppTypeOK, Unshared
  <1>7. Owned'
    BY <1>1, <1>2, <1>3, <1>4 DEF IInv, KppTypeOK, Owned
  <1>8. NoDangling'
    BY <1>1, <1>2, <1>3, <1>4 DEF IInv, KppTypeOK, Unshared, NoDangling, Live
  <1>9. Present'
    BY <1>2, <1>3 DEF IInv, Present
  <1>10. FaultCause'
    BY <1>2, <1>3 DEF IInv, KppTypeOK, NoDangling, FaultCause
  <1> QED
    BY <1>5, <1>6, <1>7, <1>8, <1>9, <1>10 DEF IInv

\* A copy gets an object of its own.
LEMMA CopyConstruct ==
    ASSUME IInv, NEW f \in Functions, NEW g \in Functions, copy_construct(f, g)
    PROVE  IInv'
  <1>1. CASE Live(m_callable[g])
    <2>1. clone(g) \in Callables
      BY <1>1 DEF IInv, KppTypeOK, Owned, Live, clone
    <2> QED
      BY <1>1, <2>1, NewObject DEF copy_construct
  <1>2. CASE ~Live(m_callable[g])
    <2>1. /\ f \notin scope /\ scope' = scope \cup {f} /\ fault' = (m_callable[g] # nullptr)
          /\ ~fault
          /\ UNCHANGED <<m_callable, object, functor, is_present, buffer, self_assigned>>
      BY <1>2 DEF copy_construct, new_function, optionalVars
    <2>2. KppTypeOK' /\ Unshared' /\ Owned'
      BY <2>1 DEF IInv, KppTypeOK, Unshared, Owned
    <2>3. NoDangling' /\ Present'
      BY <2>1 DEF IInv, NoDangling, Live, Present
    <2>4. FaultCause'
      BY <1>2, <2>1 DEF IInv, KppTypeOK, NoDangling, FaultCause
    <2> QED
      BY <2>2, <2>3, <2>4 DEF IInv
  <1> QED
    BY <1>1, <1>2

\* A move leaves the number of owners as it is.
LEMMA MoveConstruct ==
    ASSUME IInv, NEW f \in Functions, NEW g \in Functions, move_construct(f, g)
    PROVE  IInv'
  <1>1. m_callable' = [h \in Functions |-> IF h = f THEN m_callable[g]
                                           ELSE IF h = g THEN nullptr ELSE m_callable[h]]
    BY MovePointer DEF move_construct, IInv
  <1>2. /\ f \notin scope /\ g \in scope /\ scope' = scope \cup {f}
        /\ UNCHANGED <<object, functor, is_present, buffer, self_assigned, fault>> /\ ~fault
    BY DEF move_construct, new_function, optionalVars
  <1>3. KppTypeOK' /\ Unshared'
    BY <1>1, <1>2 DEF IInv, KppTypeOK, Unshared
  <1>4. Owned'
    <2> SUFFICES ASSUME NEW i \in Objects, object'[i].live
                 PROVE  object'[i].m_callable \in Callables /\ \E h \in Functions : m_callable'[h] = i
      BY DEF Owned
    <2>1. object[i].m_callable \in Callables /\ \E h \in Functions : m_callable[h] = i
      BY <1>2 DEF IInv, Owned
    <2>2. PICK h \in Functions : m_callable[h] = i
      BY <2>1
    <2>3. m_callable[f] = nullptr /\ i # nullptr /\ h # f
      BY <1>2, <2>2, BoundsAssumption DEF IInv, Unshared, Objects, nullptr
    <2> QED
      BY <1>1, <1>2, <2>1, <2>2, <2>3
  <1>5. NoDangling' /\ Present' /\ FaultCause'
    BY <1>1, <1>2 DEF IInv, NoDangling, Live, Present, FaultCause
  <1> QED
    BY <1>3, <1>4, <1>5 DEF IInv

\* operator() keeps the invariant, of a Function whose functor is gone too.
LEMMA CallFunction ==
    ASSUME IInv, NEW f \in Functions, call(f)
    PROVE  IInv'
  <1> DEFINE i == m_callable[f]
  <1>1. /\ ~fault /\ f \in scope /\ i # nullptr /\ i \in Objects
        /\ UNCHANGED <<scope, m_callable, is_present, buffer, self_assigned>>
    BY DEF call, optionalVars, IInv, KppTypeOK
  <1>2. CASE /\ Live(i) /\ object[i].m_callable \in [own : Values]
             /\ object' = [object EXCEPT ![i].m_callable.own = Step(@)]
             /\ UNCHANGED <<functor, fault>>
    <2> DEFINE c == [own |-> Step(object[i].m_callable.own)]
    <2>1. [object[i].m_callable EXCEPT !.own = Step(@)] = c /\ c \in Callables
      BY <1>2, OwnStep
    <2>2. object[i].live = TRUE
      BY <1>1, <1>2 DEF IInv, KppTypeOK, Live
    <2>3. object' = [j \in Objects |-> IF j = i THEN [live |-> TRUE, m_callable |-> c] ELSE object[j]]
      <3> DEFINE d == [object[i].m_callable EXCEPT !.own = Step(object[i].m_callable.own)]
      <3>1. object' = [object EXCEPT ![i] = [object[i] EXCEPT !.m_callable = d]]
        BY <1>2
      <3>2. d = c
        BY <2>1
      <3> HIDE DEF d, c
      <3>3. [object[i] EXCEPT !.m_callable = d] = [live |-> TRUE, m_callable |-> c]
        <4>1. object[i] \in ObjectRecords
          BY <1>1 DEF IInv, KppTypeOK, ObjectRecords
        <4>2. d \in Callables \cup {[own |-> None]}
          BY <2>1, <3>2
        <4>3. [object[i] EXCEPT !.m_callable = d] = [live |-> object[i].live, m_callable |-> d]
          BY <4>1, <4>2, ExceptField
        <4> QED
          BY <2>2, <3>2, <4>3
      <3> QED
        BY <1>1, <3>1, <3>3 DEF IInv, KppTypeOK
    <2> HIDE DEF c
    <2>4. KppTypeOK' /\ Unshared'
      BY <1>1, <1>2, <2>1, <2>3 DEF IInv, KppTypeOK, Unshared
    <2>5. Owned'
      BY <1>1, <2>1, <2>3 DEF IInv, Owned
    <2>6. NoDangling'
      BY <1>1, <2>3 DEF IInv, KppTypeOK, NoDangling, Live
    <2>7. Present' /\ FaultCause'
      BY <1>1, <1>2 DEF IInv, Present, FaultCause
    <2> QED
      BY <2>4, <2>5, <2>6, <2>7 DEF IInv
  <1>3. ASSUME NEW t \in Functors, Live(i), object[i].m_callable = [refers |-> t],
               functor' = IF functor[t] = None THEN functor ELSE [functor EXCEPT ![t] = Step(@)],
               fault' = (functor[t] = None), UNCHANGED object
        PROVE  IInv'
    <2>1. functor[t] # None => Step(functor[t]) \in Values
      BY StepType DEF IInv, KppTypeOK
    <2>2. KppTypeOK' /\ Unshared' /\ Owned'
      BY <1>1, <1>3, <2>1 DEF IInv, KppTypeOK, Unshared, Owned
    <2>3. NoDangling' /\ Present'
      BY <1>1, <1>3 DEF IInv, NoDangling, Live, Present
    <2>4. FaultCause'
      <3> SUFFICES ASSUME fault'
                   PROVE  \E h \in scope', u \in Functors :
                             CallableOf(h)' = [refers |-> u] /\ functor'[u] = None
        BY DEF FaultCause
      <3>1. CallableOf(f)' = [refers |-> t]
        BY <1>1, <1>3 DEF CallableOf, Live
      <3> QED
        BY <1>1, <1>3, <3>1
    <2> QED
      BY <2>2, <2>3, <2>4 DEF IInv
  <1>4. CASE ~Live(i) /\ fault' = TRUE /\ UNCHANGED <<object, functor>>
    <2>1. KppTypeOK' /\ Unshared' /\ Owned'
      BY <1>1, <1>4 DEF IInv, KppTypeOK, Unshared, Owned
    <2>2. NoDangling' /\ Present'
      BY <1>1, <1>4 DEF IInv, NoDangling, Live, Present
    <2>3. FaultCause'
      BY <1>1, <1>4 DEF IInv, KppTypeOK, NoDangling, FaultCause
    <2> QED
      BY <2>1, <2>2, <2>3 DEF IInv
  <1> QED
    BY <1>2, <1>3, <1>4 DEF call

\* The operations on Functions leave the Optionals alone, and the other way
\* round.
LEMMA OptionalStep ==
    ASSUME IInv, UNCHANGED functionVars, self_assigned' \in BOOLEAN,
           self_assigned => self_assigned', fault' \in BOOLEAN, fault' => self_assigned',
           is_present' \in [Optionals -> BOOLEAN],
           buffer' \in [Optionals -> [live : BOOLEAN, value : Values \cup {None}]],
           Present'
    PROVE  IInv'
  <1>1. KppTypeOK' /\ Unshared' /\ Owned'
    BY DEF IInv, KppTypeOK, Unshared, Owned, functionVars
  <1>2. NoDangling' /\ FaultCause'
    BY DEF IInv, NoDangling, Live, FaultCause, functionVars
  <1> QED
    BY <1>1, <1>2 DEF IInv

\* The buffers after reset.
LEMMA ResetBuffer ==
    ASSUME IInv, ~fault, NEW o \in Optionals
    PROVE  reset(o) = [q \in Optionals |-> IF q = o THEN [live |-> FALSE, value |-> None]
                                           ELSE buffer[q]]
  <1>1. CASE is_present[o]
    BY <1>1 DEF IInv, KppTypeOK, reset
  <1>2. CASE ~is_present[o]
    <2>1. buffer[o] = [live |-> FALSE, value |-> None]
      BY <1>2 DEF IInv, KppTypeOK, Present
    <2> QED
      BY <1>2, <2>1 DEF IInv, KppTypeOK, reset
  <1> QED
    BY <1>1, <1>2

\* A value is constructed in the buffer of o.
LEMMA EmplaceValue ==
    ASSUME IInv, ~fault, UNCHANGED functionVars, NEW o \in Optionals,
           NEW value \in Values \cup {None}, NEW valid \in BOOLEAN,
           valid => value # None, ~valid => self_assigned',
           emplace(o, value, valid),
           self_assigned' \in BOOLEAN, self_assigned => self_assigned'
    PROVE  /\ IInv'
           /\ fault' <=> ~valid
           /\ buffer' = [buffer EXCEPT ![o] = [live |-> TRUE, value |-> value]]
  <1>1. /\ is_present' = [is_present EXCEPT ![o] = TRUE]
        /\ buffer' = [buffer EXCEPT ![o] = [live |-> TRUE, value |-> value]]
        /\ fault' = ~valid
    <2>2. [reset(o) EXCEPT ![o] = [live |-> TRUE, value |-> value]] =
              [buffer EXCEPT ![o] = [live |-> TRUE, value |-> value]]
      BY ResetBuffer DEF IInv, KppTypeOK
    <2>3. reset(o)[o].live = FALSE
      BY ResetBuffer
    <2> QED
      BY <2>2, <2>3 DEF emplace
  <1>2. /\ is_present' \in [Optionals -> BOOLEAN]
        /\ buffer' \in [Optionals -> [live : BOOLEAN, value : Values \cup {None}]]
    BY <1>1 DEF IInv, KppTypeOK
  <1>3. Present'
    BY <1>1 DEF IInv, KppTypeOK, Present
  <1> QED
    BY <1>1, <1>2, <1>3, OptionalStep

\* The value of o is destroyed, if it has one.
LEMMA ResetValue ==
    ASSUME IInv, ~fault, UNCHANGED functionVars, NEW o \in Optionals, reset_value(o),
           self_assigned' \in BOOLEAN, self_assigned => self_assigned'
    PROVE  /\ IInv'
           /\ ~fault'
           /\ buffer' = [buffer EXCEPT ![o] = [live |-> FALSE, value |-> None]]
  <1>1. /\ is_present' = [is_present EXCEPT ![o] = FALSE]
        /\ buffer' = [buffer EXCEPT ![o] = [live |-> FALSE, value |-> None]]
        /\ fault' = FALSE
    BY ResetBuffer DEF reset_value, IInv, KppTypeOK
  <1>2. /\ is_present' \in [Optionals -> BOOLEAN]
        /\ buffer' \in [Optionals -> [live : BOOLEAN, value : Values \cup {None}]]
    BY <1>1 DEF IInv, KppTypeOK
  <1>3. Present'
    BY <1>1 DEF IInv, KppTypeOK, Present
  <1> QED
    BY <1>1, <1>2, <1>3, OptionalStep

\* Assignment: from itself, an Optional with a value takes what reset() left.
LEMMA OptionalAssign ==
    ASSUME IInv, NEW o \in Optionals, NEW q \in Optionals, optional_assign(o, q)
    PROVE  /\ IInv'
           /\ fault' <=> (o = q /\ is_present[o])
           /\ ~fault' => \E live \in BOOLEAN :
                 buffer' = [buffer EXCEPT ![o] = [live |-> live, value |-> buffer[q].value]]
  <1>1. /\ ~fault /\ UNCHANGED functionVars
        /\ self_assigned' = (self_assigned \/ o = q) /\ self_assigned' \in BOOLEAN
        /\ self_assigned => self_assigned'
    BY DEF optional_assign, IInv, KppTypeOK
  <1>2. CASE is_present[q]
    <2> DEFINE value == reset(o)[q].value
               valid == reset(o)[q].live
    <2>1. emplace(o, value, valid)
      BY <1>2 DEF optional_assign
    <2>2. CASE o = q
      <3>1. value = None /\ valid = FALSE
        BY <1>1, <2>2, ResetBuffer
      <3> HIDE DEF value, valid
      <3>2. IInv' /\ (fault' <=> ~valid)
        BY <1>1, <2>1, <2>2, <3>1, EmplaceValue
      <3> QED
        BY <1>2, <2>2, <3>1, <3>2
    <2>3. CASE o # q
      <3>1. value = buffer[q].value /\ valid = buffer[q].live
        BY <1>1, <2>3, ResetBuffer
      <3>2. value \in Values /\ valid = TRUE
        BY <1>1, <1>2, <3>1 DEF IInv, KppTypeOK, Present
      <3>3. value # None
        BY <3>2, NoneIsNoValue
      <3> HIDE DEF value, valid
      <3>4. /\ IInv' /\ ~fault'
            /\ buffer' = [buffer EXCEPT ![o] = [live |-> TRUE, value |-> value]]
        BY <1>1, <2>1, <3>2, <3>3, EmplaceValue
      <3> QED
        BY <2>3, <3>1, <3>4
    <2> QED
      BY <2>2, <2>3
  <1>3. CASE ~is_present[q]
    <2>1. reset_value(o)
      BY <1>3 DEF optional_assign
    <2>2. /\ IInv' /\ ~fault'
          /\ buffer' = [buffer EXCEPT ![o] = [live |-> FALSE, value |-> None]]
      BY <1>1, <2>1, ResetValue
    <2>3. buffer[q].value = None
      BY <1>1, <1>3 DEF IInv, KppTypeOK, Present
    <2> QED
      BY <1>3, <2>2, <2>3
  <1> QED
    BY <1>2, <1>3

\* Changing the value through operator* leaves the Optional a value.
LEMMA OptionalChange ==
    ASSUME IInv, NEW o \in Optionals, optional_change(o)
    PROVE  /\ IInv' /\ ~fault' /\ buffer[o].value \in Values
           /\ buffer' = [buffer EXCEPT ![o] = [live |-> TRUE, value |-> Step(buffer[o].value)]]
  <1>1. /\ ~fault /\ UNCHANGED <<functionVars, is_present, self_assigned, fault>>
        /\ is_present[o] /\ buffer' = [buffer EXCEPT ![o].value = Step(@)]
    BY DEF optional_change
  <1>2. buffer[o].value \in Values /\ buffer[o].live = TRUE
    BY <1>1 DEF IInv, KppTypeOK, Present
  <1>3. Step(buffer[o].value) \in Values
    BY <1>2, StepType
  <1>4. Step(buffer[o].value) # None
    BY <1>3, NoneIsNoValue
  <1>5. buffer' = [buffer EXCEPT ![o] = [live |-> TRUE, value |-> Step(buffer[o].value)]]
    <2>1. buffer' = [buffer EXCEPT ![o] = [buffer[o] EXCEPT !.value = Step(buffer[o].value)]]
      BY <1>1
    <2>2. buffer[o] \in BufferRecords
      BY DEF IInv, KppTypeOK, BufferRecords
    <2> QED
      BY <1>2, <1>3, <2>1, <2>2, ExceptField
  <1>6. buffer' \in [Optionals -> [live : BOOLEAN, value : Values \cup {None}]]
    BY <1>3, <1>5 DEF IInv, KppTypeOK
  <1>7. Present'
    <2> SUFFICES ASSUME NEW q \in Optionals
                 PROVE  /\ is_present'[q] = buffer'[q].live
                        /\ ~fault' => (buffer'[q].live <=> buffer'[q].value # None)
      BY DEF Present
    <2>1. CASE q = o
      <3>1. buffer'[q] = [live |-> TRUE, value |-> Step(buffer[o].value)]
        BY <1>5, <2>1 DEF IInv, KppTypeOK
      <3>2. is_present[o] = TRUE
        BY <1>1, <1>2 DEF IInv, Present
      <3>3. buffer'[q].live = TRUE /\ buffer'[q].value # None
        BY <1>4, <3>1
      <3>4. is_present'[q] = TRUE
        BY <1>1, <2>1, <3>2
      <3> QED
        BY <3>3, <3>4
    <2>2. CASE q # o
      <3>1. buffer'[q] = buffer[q]
        BY <1>5, <2>2 DEF IInv, KppTypeOK
      <3> QED
        BY <1>1, <3>1 DEF IInv, Present
    <2> QED
      BY <2>1, <2>2
  <1>8. is_present' \in [Optionals -> BOOLEAN] /\ self_assigned' \in BOOLEAN /\ fault' = FALSE
    BY <1>1 DEF IInv, KppTypeOK
  <1> QED
    BY <1>1, <1>2, <1>5, <1>6, <1>7, <1>8, OptionalStep

\* The scope of a functor begins or ends.
LEMMA FunctorScope ==
    ASSUME IInv, NEW t \in Functors, functor_scope(t)
    PROVE  IInv'
  <1>1. /\ ~fault /\ functor' = [functor EXCEPT ![t] = IF @ = None THEN 0 ELSE None]
        /\ UNCHANGED <<scope, m_callable, object, is_present, buffer, self_assigned, fault>>
    BY DEF functor_scope, optionalVars
  <1>2. 0 \in Values
    BY BoundsAssumption DEF Values
  <1>3. KppTypeOK' /\ Unshared' /\ Owned'
    BY <1>1, <1>2 DEF IInv, KppTypeOK, Unshared, Owned
  <1>4. NoDangling' /\ Present' /\ FaultCause'
    BY <1>1 DEF IInv, NoDangling, Live, Present, FaultCause
  <1> QED
    BY <1>3, <1>4 DEF IInv

\* The invariant holds before the first operation.
LEMMA InitIInv == Init => IInv
  <1> SUFFICES ASSUME Init PROVE IInv
    OBVIOUS
  <1>1. KppTypeOK
    BY DEF Init, KppTypeOK
  <1>2. Unshared /\ Owned /\ NoDangling /\ Present /\ FaultCause
    BY DEF Init, Unshared, Owned, NoDangling, Present, FaultCause
  <1> QED
    BY <1>1, <1>2 DEF IInv

\* The operations that need more than the lemmas about one of them.
LEMMA ConstructFunction ==
    ASSUME IInv, NEW f \in Functions, default_construct(f) \/ from_rvalue(f)
    PROVE  IInv'
  <1>1. CASE default_construct(f)
    <2>1. /\ f \notin scope /\ scope' = scope \cup {f} /\ ~fault
          /\ UNCHANGED <<m_callable, object, functor, is_present, buffer, self_assigned, fault>>
      BY <1>1 DEF default_construct, new_function, optionalVars
    <2>2. KppTypeOK' /\ Unshared' /\ Owned'
      BY <2>1 DEF IInv, KppTypeOK, Unshared, Owned
    <2>3. NoDangling' /\ Present' /\ FaultCause'
      BY <2>1 DEF IInv, NoDangling, Live, Present, FaultCause
    <2> QED
      BY <2>2, <2>3 DEF IInv
  <1>2. CASE from_rvalue(f)
    <2>1. [own |-> 0] \in Callables
      BY BoundsAssumption DEF Callables, Values
    <2> QED
      BY <1>2, <2>1, NewObject DEF from_rvalue
  <1> QED
    BY <1>1, <1>2

\* Every operation keeps the invariant.
LEMMA NextIInv == IInv /\ [Next]_vars => IInv'
  <1> SUFFICES ASSUME IInv, [Next]_vars PROVE IInv'
    OBVIOUS
  <1>1. ASSUME NEW f \in Functions, default_construct(f) \/ from_rvalue(f) PROVE IInv'
    BY <1>1, ConstructFunction
  <1>2. ASSUME NEW f \in Functions, end_scope(f) PROVE IInv'
    BY <1>2, EndScope
  <1>3. ASSUME NEW f \in Functions, call(f) PROVE IInv'
    BY <1>3, CallFunction
  <1>4. ASSUME NEW f \in Functions, NEW t \in Functors, from_lvalue(f, t) PROVE IInv'
    <2>1. [refers |-> t] \in Callables
      BY DEF Callables
    <2> QED
      BY <1>4, <2>1, NewObject DEF from_lvalue
  <1>5. ASSUME NEW f \in Functions, NEW g \in Functions, copy_construct(f, g) PROVE IInv'
    BY <1>5, CopyConstruct
  <1>6. ASSUME NEW f \in Functions, NEW g \in Functions, move_construct(f, g) PROVE IInv'
    BY <1>6, MoveConstruct
  <1>7. ASSUME NEW f \in Functions, NEW g \in Functions, move_assign(f, g) PROVE IInv'
    BY <1>7, MoveAssign
  <1>8. ASSUME NEW t \in Functors, functor_scope(t) PROVE IInv'
    BY <1>8, FunctorScope
  <1>9. self_assigned \in BOOLEAN
    BY DEF IInv, KppTypeOK
  <1>10. ASSUME NEW o \in Optionals, optional_reset(o) PROVE IInv'
    BY <1>9, <1>10, ResetValue DEF optional_reset
  <1>11. ASSUME NEW o \in Optionals, optional_emplace(o) PROVE IInv'
    <2>1. 0 \in Values /\ 0 # None
      BY BoundsAssumption DEF Values, None
    <2> QED
      BY <1>9, <1>11, <2>1, EmplaceValue DEF optional_emplace
  <1>12. ASSUME NEW o \in Optionals, optional_change(o) PROVE IInv'
    BY <1>12, OptionalChange
  <1>13. ASSUME NEW o \in Optionals, NEW q \in Optionals, optional_assign(o, q) PROVE IInv'
    BY <1>13, OptionalAssign
  <1>14. CASE UNCHANGED vars
    <2>1. UNCHANGED <<scope, m_callable, object, functor, is_present, buffer, self_assigned, fault>>
      BY <1>14 DEF vars, functionVars, optionalVars
    <2>2. KppTypeOK' /\ Unshared' /\ Owned'
      BY <2>1 DEF IInv, KppTypeOK, Unshared, Owned
    <2>3. NoDangling' /\ Present' /\ FaultCause'
      BY <2>1 DEF IInv, NoDangling, Live, Present, FaultCause, CallableOf
    <2> QED
      BY <2>2, <2>3 DEF IInv
  <1>15. CASE undefined
    BY <1>14, <1>15 DEF undefined
  <1> QED
    BY <1>1, <1>2, <1>3, <1>4, <1>5, <1>6, <1>7, <1>8, <1>10, <1>11, <1>12, <1>13, <1>14, <1>15
    DEF Next

\* The inductive invariant of the classes of kpp, whatever the program does.
THEOREM KppInvariant == Spec => []IInv
  <1>1. Init => IInv
    BY InitIInv
  <1>2. IInv /\ [Next]_vars => IInv'
    BY NextIInv
  <1> QED
    BY <1>1, <1>2, PTL DEF Spec

\* Every object of the kpp classes has exactly one owner, and nothing is used
\* or destroyed after its end but by assigning something to itself or calling
\* a Function whose functor is gone: for any number of Functions, Optionals,
\* functors and objects.
THEOREM KppOneOwner == Spec => []OneOwner
  <1>1. IInv => OneOwner
    <2> SUFFICES ASSUME IInv PROVE OneOwner
      OBVIOUS
    <2>1. \A f, g \in scope : m_callable[f] = m_callable[g] /\ f # g => m_callable[f] = nullptr
      BY DEF IInv, KppTypeOK, Unshared
    <2>2. \A i \in Objects : object[i].live => \E f \in scope : m_callable[f] = i
      <3> SUFFICES ASSUME NEW i \in Objects, object[i].live
                   PROVE  \E f \in scope : m_callable[f] = i
        OBVIOUS
      <3>1. PICK f \in Functions : m_callable[f] = i
        BY DEF IInv, Owned
      <3>2. i # nullptr
        BY BoundsAssumption DEF Objects, nullptr
      <3> QED
        BY <3>1, <3>2 DEF IInv, Unshared
    <2>3. ~self_assigned => \A f \in scope : m_callable[f] # nullptr => Live(m_callable[f])
      BY DEF IInv, KppTypeOK, NoDangling
    <2>4. \A o \in Optionals : is_present[o] = buffer[o].live
      BY DEF IInv, Present
    <2> QED
      BY <2>1, <2>2, <2>3, <2>4 DEF OneOwner, IInv, FaultCause
  <1> QED
    BY <1>1, KppInvariant, PTL

-----------------------------------------------------------------------------
(* The refinement of ObjectValues.  The abstract state, under its mapping: *)

Held     == [f \in Functions |-> CallableOf(f)]
Dangling == {f \in Functions : m_callable[f] # nullptr /\ ~Live(m_callable[f])}
Contents == [o \in Optionals |-> buffer[o].value]

\* A step that changes no pointer and no object changes no Function's value.
LEMMA FunctionsKept ==
    ASSUME UNCHANGED <<m_callable, object>>
    PROVE  Held' = Held /\ Dangling' = Dangling
  BY DEF Held, Dangling, CallableOf, Live

\* A null pointer is an empty Function.
LEMMA NullIsEmpty ==
    ASSUME NEW f \in Functions, m_callable[f] = nullptr
    PROVE  Held[f] = [own |-> None] /\ f \notin Dangling
  BY DEF Held, Dangling, CallableOf, Live

\* A Function made around a new object has its callable; the others keep theirs.
LEMMA NewObjectHeld ==
    ASSUME IInv, NEW f \in Functions, f \notin scope, NEW callable \in Callables,
           makeUnique(f, callable)
    PROVE  Held' = [Held EXCEPT ![f] = callable] /\ Dangling' = Dangling
  <1>1. PICK i \in Objects :
              /\ ~object[i].live
              /\ \A g \in Functions : m_callable[g] # i
              /\ i # nullptr
              /\ object' = [object EXCEPT ![i] = [live |-> TRUE, m_callable |-> callable]]
              /\ m_callable' = [m_callable EXCEPT ![f] = i]
    BY MakeUnique DEF IInv
  <1>2. m_callable[f] = nullptr /\ m_callable'[f] = i /\ Live(m_callable[f])'
        /\ CallableOf(f)' = callable
    BY <1>1 DEF IInv, KppTypeOK, Unshared, Live, CallableOf
  <1>3. ASSUME NEW h \in Functions, h # f
        PROVE  /\ CallableOf(h)' = CallableOf(h)
               /\ (h \in Dangling') <=> (h \in Dangling)
    <2>1. m_callable'[h] = m_callable[h] /\ m_callable[h] \in Objects \cup {nullptr}
          /\ m_callable[h] # i
      BY <1>1, <1>3 DEF IInv, KppTypeOK
    <2>2. m_callable[h] # nullptr => object'[m_callable[h]] = object[m_callable[h]]
      BY <1>1, <2>1 DEF IInv, KppTypeOK
    <2> QED
      BY <2>1, <2>2 DEF CallableOf, Live, Dangling
  <1>4. f \notin Dangling /\ f \notin Dangling'
    BY <1>2 DEF Dangling
  <1> QED
    BY <1>2, <1>3, <1>4 DEF Held, Dangling

\* The Functions after the object of f was destroyed and the pointers moved by
\* a move or a release: g is the source, or f itself at its end.
LEMMA DestroyHeld ==
    ASSUME IInv, NEW f \in Functions, NEW p \in [Functions -> Objects \cup {nullptr}],
           m_callable' = p,
           object' = [i \in Objects |->
                         IF i = m_callable[f] THEN [live |-> FALSE, m_callable |-> [own |-> None]]
                         ELSE object[i]],
           NEW h \in Functions, NEW g \in Functions, g # f, p[h] = m_callable[g]
    PROVE  Held'[h] = Held[g] /\ (h \in Dangling' <=> g \in Dangling)
  <1>1. \A i \in Objects : i # nullptr
    BY BoundsAssumption DEF Objects, nullptr
  <1>2. CASE m_callable[g] = nullptr
    BY <1>2 DEF Held, Dangling, CallableOf, Live
  <1>3. CASE m_callable[g] # nullptr
    <2>1. m_callable[g] \in Objects /\ m_callable[g] # m_callable[f]
      BY <1>3 DEF IInv, KppTypeOK, Unshared
    <2>2. object'[m_callable[g]] = object[m_callable[g]]
      BY <2>1
    <2>3. m_callable'[h] = m_callable[g]
      OBVIOUS
    <2> QED
      BY <1>3, <2>2, <2>3 DEF Held, Dangling, CallableOf, Live
  <1> QED
    BY <1>2, <1>3

\* The invariant and the mapping, in the terms of ObjectValues.
LEMMA Mapping ==
    /\ V!Empty = [own |-> None] /\ V!None = None /\ V!Values = Values
    /\ \A v : V!Step(v) = Step(v)
  BY DEF V!Empty, V!None, None, V!Values, Values, V!Step, Step

\* from_rvalue makes a Function with a callable of its own.
LEMMA ValueMake ==
    ASSUME IInv, NEW f \in Functions, from_rvalue(f)
    PROVE  V!Make(f)
  <1>1. [own |-> 0] \in Callables
    BY BoundsAssumption DEF Callables, Values
  <1>2. Held' = [Held EXCEPT ![f] = [own |-> 0]] /\ Dangling' = Dangling
    BY <1>1, NewObjectHeld DEF from_rvalue, new_function
  <1>3. Held[f] = [own |-> None] /\ f \notin Dangling
    BY NullIsEmpty DEF from_rvalue, new_function, IInv, Unshared
  <1>4. op' = <<"make", f>> /\ UNCHANGED <<functor, fault>> /\ Contents' = Contents
    BY DEF from_rvalue, new_function, optionalVars, Contents
  <1> QED
    BY <1>2, <1>3, <1>4, Mapping DEF V!Make, V!Become, V!otherVars, Held, Dangling, Contents

\* The default constructor makes an empty one.
LEMMA ValueMakeEmpty ==
    ASSUME IInv, NEW f \in Functions, default_construct(f)
    PROVE  V!MakeEmpty(f)
  <1>1. Held' = Held /\ Dangling' = Dangling
    BY FunctionsKept DEF default_construct
  <1>2. Held[f] = [own |-> None] /\ f \notin Dangling
    BY NullIsEmpty DEF default_construct, new_function, IInv, Unshared
  <1>3. Held' = [Held EXCEPT ![f] = [own |-> None]]
    BY <1>1, <1>2 DEF Held
  <1>4. op' = <<"empty", f>> /\ UNCHANGED <<functor, fault>> /\ Contents' = Contents
    BY DEF default_construct, new_function, optionalVars, Contents
  <1> QED
    BY <1>1, <1>2, <1>3, <1>4, Mapping
    DEF V!MakeEmpty, V!Become, V!otherVars, Held, Dangling, Contents

\* from_lvalue makes one that refers to the functor.
LEMMA ValueRefer ==
    ASSUME IInv, NEW f \in Functions, NEW t \in Functors, from_lvalue(f, t)
    PROVE  V!Refer(f, t)
  <1>1. [refers |-> t] \in Callables
    BY DEF Callables
  <1>2. Held' = [Held EXCEPT ![f] = [refers |-> t]] /\ Dangling' = Dangling
    BY <1>1, NewObjectHeld DEF from_lvalue, new_function
  <1>3. Held[f] = [own |-> None] /\ f \notin Dangling
    BY NullIsEmpty DEF from_lvalue, new_function, IInv, Unshared
  <1>4. /\ op' = <<"refer", f, t>> /\ functor[t] # None
        /\ UNCHANGED <<functor, fault>> /\ Contents' = Contents
    BY DEF from_lvalue, new_function, optionalVars, Contents
  <1> QED
    BY <1>2, <1>3, <1>4, Mapping DEF V!Refer, V!Become, V!otherVars, Held, Dangling, Contents

\* Using a Function that holds a destroyed object is what ObjectValues lets
\* break everything.
LEMMA ValueBreak ==
    ASSUME NEW f \in Functions, f \in Dangling, fault' = TRUE
    PROVE  V!Break
  BY DEF V!Break, Dangling

\* Copying implements Copy, or uses a destroyed object.
LEMMA ValueCopy ==
    ASSUME IInv, NEW f \in Functions, NEW g \in Functions, copy_construct(f, g)
    PROVE  V!Copy(f, g) \/ V!Break
  <1>1. Held[f] = [own |-> None] /\ f \notin Dangling
    BY NullIsEmpty DEF copy_construct, new_function, IInv, Unshared
  <1>2. op' = <<"copy", f, g>> /\ UNCHANGED functor /\ Contents' = Contents
    BY DEF copy_construct, new_function, optionalVars, Contents
  <1>3. CASE Live(m_callable[g])
    <2>1. clone(g) \in Callables /\ Held[g] = clone(g) /\ g \notin Dangling
      BY <1>3 DEF IInv, KppTypeOK, Owned, Live, clone, Held, CallableOf, Dangling
    <2>2. Held' = [Held EXCEPT ![f] = Held[g]] /\ Dangling' = Dangling /\ UNCHANGED fault
      BY <1>3, <2>1, NewObjectHeld DEF copy_construct, new_function
    <2> QED
      BY <1>1, <1>2, <2>1, <2>2, Mapping
      DEF V!Copy, V!Become, V!otherVars, Held, Dangling, Contents
  <1>4. CASE m_callable[g] = nullptr
    <2>1. Held[g] = [own |-> None] /\ g \notin Dangling
      BY <1>4, NullIsEmpty
    <2>2. ~Live(m_callable[g]) /\ ~fault
      BY <1>4 DEF Live, copy_construct, new_function
    <2>3. UNCHANGED <<m_callable, object>> /\ fault' = FALSE
      BY <1>4, <2>2 DEF copy_construct
    <2>4. Held' = Held /\ Dangling' = Dangling
      BY <2>3, FunctionsKept
    <2>5. Held' = [Held EXCEPT ![f] = Held[g]]
      BY <1>1, <2>1, <2>4 DEF Held
    <2>6. UNCHANGED fault
      BY <2>2, <2>3 DEF IInv, KppTypeOK
    <2> QED
      BY <1>1, <1>2, <2>1, <2>4, <2>5, <2>6, Mapping
      DEF V!Copy, V!Become, V!otherVars, Held, Dangling, Contents
  <1>5. CASE m_callable[g] # nullptr /\ ~Live(m_callable[g])
    BY <1>5, ValueBreak DEF copy_construct, Dangling
  <1> QED
    BY <1>3, <1>4, <1>5

\* A move from g to f, f # g: f has the value of g, g is empty, and the others
\* keep theirs.  Whether the object f pointed to is destroyed (assignment) or f
\* pointed to none (construction) makes no difference.
LEMMA MoveHeld ==
    ASSUME IInv, NEW f \in Functions, NEW g \in Functions, f # g,
           m_callable' = [h \in Functions |-> IF h = f THEN m_callable[g]
                                              ELSE IF h = g THEN nullptr ELSE m_callable[h]],
           object' = [i \in Objects |->
                         IF i = m_callable[f] THEN [live |-> FALSE, m_callable |-> [own |-> None]]
                         ELSE object[i]],
           f \notin Dangling
    PROVE  /\ Held' = [Held EXCEPT ![f] = Held[g], ![g] = [own |-> None]]
           /\ Dangling' = IF g \in Dangling THEN (Dangling \ {g}) \cup {f} ELSE Dangling
  <1>1. m_callable' \in [Functions -> Objects \cup {nullptr}]
    BY DEF IInv, KppTypeOK
  <1>2. Held'[f] = Held[g] /\ (f \in Dangling' <=> g \in Dangling)
    BY <1>1, DestroyHeld
  <1>3. Held'[g] = [own |-> None] /\ g \notin Dangling'
    BY DEF Held, Dangling, CallableOf, Live
  <1>4. ASSUME NEW h \in Functions, h # f, h # g
        PROVE  Held'[h] = Held[h] /\ (h \in Dangling' <=> h \in Dangling)
    BY <1>1, <1>4, DestroyHeld
  <1>5. Held' = [h \in Functions |-> Held'[h]] /\ Held = [h \in Functions |-> Held[h]]
        /\ Dangling \subseteq Functions /\ Dangling' \subseteq Functions
    BY DEF Held, Dangling
  <1>6. Held' = [Held EXCEPT ![f] = Held[g], ![g] = [own |-> None]]
    BY <1>2, <1>3, <1>4, <1>5
  <1>7. Dangling' = IF g \in Dangling THEN (Dangling \ {g}) \cup {f} ELSE Dangling
    BY <1>2, <1>3, <1>4, <1>5
  <1> QED
    BY <1>6, <1>7

\* Move construction implements Move.
LEMMA ValueMoveConstruct ==
    ASSUME IInv, NEW f \in Functions, NEW g \in Functions, move_construct(f, g)
    PROVE  V!Move(f, g)
  <1>1. m_callable' = [h \in Functions |-> IF h = f THEN m_callable[g]
                                           ELSE IF h = g THEN nullptr ELSE m_callable[h]]
    BY MovePointer DEF move_construct, IInv
  <1>2. f # g /\ m_callable[f] = nullptr
    BY DEF move_construct, new_function, IInv, Unshared
  <1>3. object' = [i \in Objects |->
                      IF i = m_callable[f] THEN [live |-> FALSE, m_callable |-> [own |-> None]]
                      ELSE object[i]]
    <2>1. \A i \in Objects : i # m_callable[f]
      BY <1>2, BoundsAssumption DEF Objects, nullptr
    <2>2. object = [i \in Objects |-> object[i]] /\ object' = object
      BY DEF IInv, KppTypeOK, move_construct
    <2> QED
      BY <2>1, <2>2
  <1>4. f \notin Dangling
    BY <1>2, NullIsEmpty
  <1>5. /\ Held' = [Held EXCEPT ![f] = Held[g], ![g] = [own |-> None]]
        /\ Dangling' = IF g \in Dangling THEN (Dangling \ {g}) \cup {f} ELSE Dangling
    BY <1>1, <1>2, <1>3, <1>4, MoveHeld
  <1>6. op' = <<"move", f, g>> /\ UNCHANGED <<functor, fault>> /\ Contents' = Contents
    BY DEF move_construct, new_function, optionalVars, Contents
  <1> QED
    BY <1>2, <1>4, <1>5, <1>6, Mapping DEF V!Move, V!otherVars, Held, Dangling, Contents

\* Move assignment implements Move, of a Function to itself too.
LEMMA ValueMoveAssign ==
    ASSUME IInv, NEW f \in Functions, NEW g \in Functions, move_assign(f, g)
    PROVE  V!Move(f, g) \/ V!Break
  <1>1. m_callable' = [h \in Functions |-> IF h = f THEN m_callable[g]
                                           ELSE IF h = g THEN nullptr ELSE m_callable[h]]
    BY MovePointer DEF move_assign, IInv
  <1>2. /\ object' = [i \in Objects |->
                          IF i = m_callable[f] THEN [live |-> FALSE, m_callable |-> [own |-> None]]
                          ELSE object[i]]
        /\ fault' \in BOOLEAN
        /\ fault' <=> f \in Dangling
    BY DestroyedObject DEF move_assign, IInv, Dangling
  <1>3. op' = <<"move", f, g>> /\ UNCHANGED functor /\ Contents' = Contents /\ fault = FALSE
    BY DEF move_assign, optionalVars, Contents, IInv, KppTypeOK
  <1>4. CASE f \in Dangling
    BY <1>2, <1>4, ValueBreak
  <1>5. CASE f \notin Dangling /\ f # g
    <2>1. /\ Held' = [Held EXCEPT ![f] = Held[g], ![g] = [own |-> None]]
          /\ Dangling' = IF g \in Dangling THEN (Dangling \ {g}) \cup {f} ELSE Dangling
      BY <1>1, <1>2, <1>5, MoveHeld
    <2>2. UNCHANGED fault
      BY <1>2, <1>3, <1>5
    <2> QED
      BY <1>3, <1>5, <2>1, <2>2, Mapping DEF V!Move, V!otherVars, Held, Dangling, Contents
  <1>6. CASE f \notin Dangling /\ f = g
    <2>1. m_callable' = m_callable /\ m_callable' \in [Functions -> Objects \cup {nullptr}]
      BY <1>1, <1>6 DEF IInv, KppTypeOK
    <2>2. UNCHANGED fault
      BY <1>2, <1>3, <1>6
    <2>3. ASSUME NEW h \in Functions, h # f
          PROVE  Held'[h] = Held[h] /\ (h \in Dangling' <=> h \in Dangling)
      BY <1>2, <2>1, <2>3, DestroyHeld
    <2>4. CASE m_callable[f] = nullptr
      <3>1. Held'[f] = [own |-> None] /\ f \notin Dangling' /\ Held[f] = [own |-> None]
        BY <2>1, <2>4 DEF Held, Dangling, CallableOf, Live
      <3>2. Held' = [Held EXCEPT ![f] = [own |-> None]]
        BY <2>3, <3>1 DEF Held
      <3>3. Dangling' = Dangling
        BY <1>6, <2>3, <3>1 DEF Dangling
      <3> QED
        BY <1>3, <1>6, <2>2, <3>1, <3>2, <3>3, Mapping
        DEF V!Move, V!otherVars, Held, Dangling, Contents
    <2>5. CASE m_callable[f] # nullptr
      <3>1. m_callable[f] \in Objects /\ object[m_callable[f]].live
        BY <1>6, <2>5 DEF IInv, KppTypeOK, Dangling, Live
      <3>2. Held[f] = object[m_callable[f]].m_callable
        BY <2>5, <3>1 DEF Held, CallableOf, Live
      <3>3. Held[f] # [own |-> None]
        BY <3>1, <3>2, NoneIsNoValue DEF IInv, Owned
      <3>4. object'[m_callable[f]] = [live |-> FALSE, m_callable |-> [own |-> None]]
        BY <1>2, <3>1
      <3>5. object'[m_callable[f]].live = FALSE
        BY <3>4
      <3>6. Held'[f] = [own |-> None] /\ f \in Dangling'
        BY <2>1, <2>5, <3>5 DEF Held, Dangling, CallableOf, Live
      <3>7. Held' = [Held EXCEPT ![f] = [own |-> None]]
        BY <2>3, <3>6 DEF Held
      <3>8. Dangling' = Dangling \cup {f}
        BY <1>6, <2>3, <3>6 DEF Dangling
      <3> QED
        BY <1>3, <1>6, <2>2, <3>3, <3>7, <3>8, Mapping
        DEF V!Move, V!otherVars, Held, Dangling, Contents
    <2> QED
      BY <2>4, <2>5
  <1> QED
    BY <1>4, <1>5, <1>6

\* The destructor implements End.
LEMMA ValueEnd ==
    ASSUME IInv, NEW f \in Functions, end_scope(f)
    PROVE  V!End(f) \/ V!Break
  <1>1. m_callable' = [h \in Functions |-> IF h = f THEN nullptr ELSE m_callable[h]]
    BY MovePointer DEF end_scope, IInv
  <1>2. /\ object' = [i \in Objects |->
                          IF i = m_callable[f] THEN [live |-> FALSE, m_callable |-> [own |-> None]]
                          ELSE object[i]]
        /\ fault' \in BOOLEAN
        /\ fault' <=> f \in Dangling
    BY DestroyedObject DEF end_scope, IInv, Dangling
  <1>3. op' = <<"end", f>> /\ UNCHANGED functor /\ Contents' = Contents /\ fault = FALSE
    BY DEF end_scope, optionalVars, Contents, IInv, KppTypeOK
  <1>4. CASE f \in Dangling
    BY <1>2, <1>4, ValueBreak
  <1>5. CASE f \notin Dangling
    <2>1. m_callable' \in [Functions -> Objects \cup {nullptr}]
      BY <1>1 DEF IInv, KppTypeOK
    <2>2. ASSUME NEW h \in Functions, h # f
          PROVE  Held'[h] = Held[h] /\ (h \in Dangling' <=> h \in Dangling)
      BY <1>1, <1>2, <2>1, <2>2, DestroyHeld
    <2>3. Held'[f] = [own |-> None] /\ f \notin Dangling'
      BY <1>1 DEF Held, Dangling, CallableOf, Live
    <2>4. Held' = [Held EXCEPT ![f] = [own |-> None]]
      BY <2>2, <2>3 DEF Held
    <2>5. Dangling' = Dangling
      BY <1>5, <2>2, <2>3 DEF Dangling
    <2>6. UNCHANGED fault
      BY <1>2, <1>3, <1>5
    <2> QED
      BY <1>3, <1>5, <2>4, <2>5, <2>6, Mapping DEF V!End, V!otherVars, Held, Dangling, Contents
  <1> QED
    BY <1>4, <1>5

\* operator() implements Call.
LEMMA ValueCall ==
    ASSUME IInv, NEW f \in Functions, call(f)
    PROVE  V!Call(f) \/ V!Break
  <1> DEFINE i == m_callable[f]
  <1>1. /\ i # nullptr /\ i \in Objects /\ UNCHANGED m_callable /\ fault = FALSE
        /\ op' = <<"call", f>> /\ Contents' = Contents
    BY DEF call, optionalVars, Contents, IInv, KppTypeOK
  <1>2. CASE /\ Live(i) /\ object[i].m_callable \in [own : Values]
             /\ object' = [object EXCEPT ![i].m_callable.own = Step(@)]
             /\ UNCHANGED <<functor, fault>>
    <2> DEFINE c == [own |-> Step(object[i].m_callable.own)]
    <2>1. [object[i].m_callable EXCEPT !.own = Step(@)] = c /\ c \in Callables
      BY <1>2, OwnStep
    <2>2. object[i].live = TRUE /\ Held[f] = object[i].m_callable /\ f \notin Dangling
      BY <1>1, <1>2 DEF IInv, KppTypeOK, Live, Held, CallableOf, Dangling
    <2>3. object' = [j \in Objects |-> IF j = i THEN [live |-> TRUE, m_callable |-> c] ELSE object[j]]
      <3> DEFINE d == [object[i].m_callable EXCEPT !.own = Step(object[i].m_callable.own)]
      <3>1. object' = [object EXCEPT ![i] = [object[i] EXCEPT !.m_callable = d]]
        BY <1>2
      <3>2. d = c
        BY <2>1
      <3> HIDE DEF d, c
      <3>3. object[i] \in ObjectRecords
        BY <1>1 DEF IInv, KppTypeOK, ObjectRecords
      <3>4. d \in Callables \cup {[own |-> None]}
        BY <2>1, <3>2
      <3>5. [object[i] EXCEPT !.m_callable = d] = [live |-> object[i].live, m_callable |-> d]
        BY <3>3, <3>4, ExceptField
      <3>6. [object[i] EXCEPT !.m_callable = d] = [live |-> TRUE, m_callable |-> c]
        BY <2>2, <3>2, <3>5
      <3> QED
        BY <1>1, <3>1, <3>6 DEF IInv, KppTypeOK
    <2>4. [Held[f] EXCEPT !.own = Step(@)] = c
      BY <2>1, <2>2
    <2> HIDE DEF c
    <2>5. object'[i].live = TRUE /\ object'[i].m_callable = c
      BY <1>1, <2>3
    <2>6. Held'[f] = c /\ f \notin Dangling'
      BY <1>1, <2>5 DEF Held, CallableOf, Live, Dangling
    <2>7. ASSUME NEW h \in Functions, h # f
          PROVE  Held'[h] = Held[h] /\ (h \in Dangling' <=> h \in Dangling)
      <3>1. m_callable[h] # i
        BY <1>1, <2>7 DEF IInv, Unshared
      <3>2. CASE m_callable[h] = nullptr
        BY <1>1, <3>2 DEF Held, CallableOf, Live, Dangling
      <3>3. CASE m_callable[h] # nullptr
        <4>1. m_callable[h] \in Objects
          BY <3>3 DEF IInv, KppTypeOK
        <4>2. object'[m_callable[h]] = object[m_callable[h]]
          BY <2>3, <3>1, <4>1
        <4> QED
          BY <1>1, <3>3, <4>2 DEF Held, CallableOf, Live, Dangling
      <3> QED
        BY <3>2, <3>3
    <2>8. Held' = [Held EXCEPT ![f] = c]
      BY <2>6, <2>7 DEF Held
    <2>9. Held' = [Held EXCEPT ![f].own = Step(@)]
      BY <2>4, <2>8
    <2>10. Dangling' = Dangling
      BY <2>2, <2>6, <2>7 DEF Dangling
    <2>11. Held[f] \in [own : V!Values]
      BY <1>2, <2>2, Mapping
    <2>12. Held' = [Held EXCEPT ![f].own = V!Step(@)]
      BY <2>9, Mapping
    <2> QED
      BY <1>1, <1>2, <2>2, <2>10, <2>11, <2>12 DEF V!Call, Held, Dangling, Contents
  <1>3. ASSUME NEW t \in Functors, Live(i), object[i].m_callable = [refers |-> t],
               functor' = IF functor[t] = None THEN functor ELSE [functor EXCEPT ![t] = Step(@)],
               fault' = (functor[t] = None), UNCHANGED object
        PROVE  V!Call(f) \/ V!Break
    <2>1. Held[f] = [refers |-> t] /\ f \notin Dangling
      BY <1>1, <1>3 DEF Held, CallableOf, Dangling
    <2>2. CASE functor[t] = None
      BY <1>3, <2>1, <2>2, Mapping DEF V!Break, Held
    <2>3. CASE functor[t] # None
      <3>1. fault' = fault /\ functor' = [functor EXCEPT ![t] = V!Step(@)]
        BY <1>1, <1>3, <2>3, Mapping
      <3>2. Held' = Held /\ Dangling' = Dangling
        BY <1>1, <1>3, FunctionsKept
      <3> QED
        BY <1>1, <2>1, <2>3, <3>1, <3>2, Mapping DEF V!Call, Held, Dangling, Contents
    <2> QED
      BY <2>2, <2>3
  <1>4. CASE ~Live(i) /\ fault' = TRUE /\ UNCHANGED <<object, functor>>
    <2>1. f \in Dangling
      BY <1>1, <1>4 DEF Dangling
    <2> QED
      BY <1>4, <2>1, ValueBreak
  <1> QED
    BY <1>2, <1>3, <1>4 DEF call

\* A functor's scope is the same in both.
LEMMA ValueFunctor ==
    ASSUME IInv, NEW t \in Functors, functor_scope(t)
    PROVE  V!Functor(t)
  <1>1. Held' = Held /\ Dangling' = Dangling
    BY FunctionsKept DEF functor_scope
  <1>2. /\ op' = <<"functor", t>> /\ UNCHANGED fault /\ Contents' = Contents
        /\ functor' = [functor EXCEPT ![t] = IF @ = None THEN 0 ELSE None]
    BY DEF functor_scope, optionalVars, Contents
  <1> QED
    BY <1>1, <1>2, Mapping DEF V!Functor, Held, Dangling, Contents

\* An Optional gets another content, the Functions being left alone.
LEMMA ValueContent ==
    ASSUME IInv, UNCHANGED <<functionVars, fault>>, NEW o \in Optionals, NEW live, NEW value,
           buffer' = [buffer EXCEPT ![o] = [live |-> live, value |-> value]]
    PROVE  V!Content(o, value)
  <1>1. Held' = Held /\ Dangling' = Dangling /\ UNCHANGED functor
    BY FunctionsKept DEF functionVars
  <1>2. Contents' = [Contents EXCEPT ![o] = value]
    BY DEF Contents, IInv, KppTypeOK
  <1> QED
    BY <1>1, <1>2 DEF V!Content, Held, Dangling, Contents

\* reset, emplace and a change through operator* implement their namesakes.
LEMMA ValueOptional ==
    ASSUME IInv, NEW o \in Optionals,
           optional_reset(o) \/ optional_emplace(o) \/ optional_change(o)
    PROVE  V!Reset(o) \/ V!Emplace(o) \/ V!Change(o)
  <1>1. self_assigned \in BOOLEAN /\ fault \in BOOLEAN
    BY DEF IInv, KppTypeOK
  <1>2. CASE optional_reset(o)
    <2>1. ~fault /\ ~fault' /\ buffer' = [buffer EXCEPT ![o] = [live |-> FALSE, value |-> None]]
      BY <1>1, <1>2, ResetValue DEF optional_reset
    <2>2. UNCHANGED <<functionVars, fault>> /\ op' = <<"reset", o>>
      BY <1>2, <2>1 DEF optional_reset, reset_value
    <2>3. V!Content(o, None)
      BY <2>1, <2>2, ValueContent
    <2> QED
      BY <2>2, <2>3, Mapping DEF V!Reset
  <1>3. CASE optional_emplace(o)
    <2>1. 0 \in Values /\ 0 # None
      BY BoundsAssumption DEF Values, None
    <2>2. ~fault /\ ~fault' /\ buffer' = [buffer EXCEPT ![o] = [live |-> TRUE, value |-> 0]]
      BY <1>1, <1>3, <2>1, EmplaceValue DEF optional_emplace
    <2>3. fault' = (~TRUE \/ reset(o)[o].live) /\ UNCHANGED functionVars /\ op' = <<"emplace", o>>
      BY <1>3 DEF optional_emplace, emplace
    <2>4. reset(o)[o].live = FALSE
      BY <2>2, ResetBuffer
    <2>5. UNCHANGED fault
      BY <1>1, <2>2, <2>3, <2>4
    <2>6. V!Content(o, 0)
      BY <2>2, <2>3, <2>5, ValueContent
    <2> QED
      BY <2>3, <2>6 DEF V!Emplace
  <1>4. CASE optional_change(o)
    <2>1. /\ buffer[o].value \in Values
          /\ buffer' = [buffer EXCEPT ![o] = [live |-> TRUE, value |-> Step(buffer[o].value)]]
      BY <1>4, OptionalChange
    <2>2. UNCHANGED <<functionVars, fault>> /\ op' = <<"change", o>>
      BY <1>4 DEF optional_change
    <2>3. PICK v : v = Step(buffer[o].value)
      OBVIOUS
    <2>4. V!Content(o, v)
      BY <2>1, <2>2, <2>3, ValueContent
    <2>5. Contents[o] = buffer[o].value /\ buffer[o].value # None
      BY <2>1, NoneIsNoValue DEF Contents
    <2> QED
      BY <2>2, <2>3, <2>4, <2>5, Mapping DEF V!Change, V!Content, Contents
  <1> QED
    BY <1>2, <1>3, <1>4

\* Assignment of an Optional implements Assign, except to itself.
LEMMA ValueAssign ==
    ASSUME IInv, NEW o \in Optionals, NEW q \in Optionals, optional_assign(o, q)
    PROVE  V!Assign(o, q) \/ V!Break
  <1>1. /\ op' = <<"assign", o, q>> /\ UNCHANGED functionVars /\ fault = FALSE
        /\ fault' \in BOOLEAN
    BY OptionalAssign DEF optional_assign, IInv, KppTypeOK
  <1>2. CASE o = q /\ is_present[o]
    <2>1. fault' = TRUE
      BY <1>1, <1>2, OptionalAssign
    <2>2. Contents[o] # None
      BY <1>1, <1>2 DEF Contents, IInv, Present
    <2> QED
      BY <1>1, <1>2, <2>1, <2>2, Mapping DEF V!Break, Contents
  <1>3. CASE ~(o = q /\ is_present[o])
    <2>1. fault' = FALSE
      BY <1>1, <1>3, OptionalAssign
    <2>2. PICK live \in BOOLEAN :
             buffer' = [buffer EXCEPT ![o] = [live |-> live, value |-> buffer[q].value]]
      BY <2>1, OptionalAssign
    <2>3. PICK v : v = buffer[q].value
      OBVIOUS
    <2>4. V!Content(o, v)
      BY <1>1, <2>1, <2>2, <2>3, ValueContent
    <2>5. Contents[q] = v
      BY <2>3 DEF Contents
    <2> QED
      BY <1>1, <2>4, <2>5 DEF V!Assign, V!Content, Contents
  <1> QED
    BY <1>2, <1>3

\* Every step implements a step of ObjectValues, or none.
LEMMA ValueNext ==
    ASSUME IInv, [Next]_vars
    PROVE  V!Next \/ UNCHANGED V!valueVars
  <1>1. ASSUME NEW f \in Functions,
               default_construct(f) \/ from_rvalue(f) \/ end_scope(f) \/ call(f)
        PROVE  V!Next
    BY <1>1, ValueMake, ValueMakeEmpty, ValueEnd, ValueCall DEF V!Next
  <1>2. ASSUME NEW f \in Functions, NEW t \in Functors, from_lvalue(f, t) PROVE V!Next
    BY <1>2, ValueRefer DEF V!Next
  <1>3. ASSUME NEW f \in Functions, NEW g \in Functions,
               copy_construct(f, g) \/ move_construct(f, g) \/ move_assign(f, g)
        PROVE  V!Next
    BY <1>3, ValueCopy, ValueMoveConstruct, ValueMoveAssign DEF V!Next
  <1>4. ASSUME NEW t \in Functors, functor_scope(t) PROVE V!Next
    BY <1>4, ValueFunctor DEF V!Next
  <1>5. ASSUME NEW o \in Optionals,
               optional_reset(o) \/ optional_emplace(o) \/ optional_change(o)
        PROVE  V!Next
    BY <1>5, ValueOptional DEF V!Next
  <1>6. ASSUME NEW o \in Optionals, NEW q \in Optionals, optional_assign(o, q) PROVE V!Next
    BY <1>6, ValueAssign DEF V!Next
  <1>7. CASE UNCHANGED vars
    <2>1. Held' = Held /\ Dangling' = Dangling
      BY <1>7, FunctionsKept DEF vars, functionVars
    <2>2. Contents' = Contents /\ UNCHANGED <<functor, op, fault>>
      BY <1>7 DEF Contents, vars, functionVars, optionalVars
    <2> QED
      BY <2>1, <2>2 DEF V!valueVars, Held, Dangling, Contents
  <1>8. CASE undefined
    BY <1>7, <1>8 DEF undefined
  <1> QED
    BY <1>1, <1>2, <1>3, <1>4, <1>5, <1>6, <1>7, <1>8 DEF Next

\* Nothing exists at the start.
LEMMA ValueInit == Init => V!Init
  <1> SUFFICES ASSUME Init PROVE V!Init
    OBVIOUS
  <1>1. Held = [f \in Functions |-> [own |-> None]]
    BY NullIsEmpty DEF Init, Held
  <1>2. Dangling = {}
    BY DEF Init, Dangling
  <1>3. Contents = [o \in Optionals |-> None]
    BY DEF Init, Contents
  <1>4. functor = [t \in Functors |-> None] /\ op = <<"none">> /\ fault = FALSE
    BY DEF Init
  <1> QED
    BY <1>1, <1>2, <1>3, <1>4, Mapping DEF V!Init, Held, Dangling, Contents

\* kpp::Function and kpp::Optional implement values: every construction, copy,
\* move, call, reset and assignment does to the objects in memory what
\* ObjectValues says it does to the values, for any number of them.
THEOREM KppImplementsValues == Spec => ValueSpec
  <1>1. Init => V!Init
    BY ValueInit
  <1>2. IInv /\ [Next]_vars => [V!Next]_(V!valueVars)
    BY ValueNext
  <1> QED
    BY <1>1, <1>2, KppInvariant, PTL DEF Spec, ValueSpec, V!Spec
=============================================================================
