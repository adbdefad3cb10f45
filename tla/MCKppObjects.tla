---------------------------- MODULE MCKppObjects ----------------------------
(* Three Functions over one functor, and two Optionals. *)
EXTENDS KppObjects, TLC

CONSTANTS f1, f2, f3, t1, o1, o2

MCFunctions == {f1, f2, f3}
MCOptionals == {o1, o2}

\* Neither the Functions nor the Optionals differ from each other, and both
\* properties are safety properties.
MCSymmetry == Permutations(MCFunctions) \cup Permutations(MCOptionals)
=============================================================================
