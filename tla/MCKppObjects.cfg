SPECIFICATION Spec
CONSTANTS
    f1 = f1
    f2 = f2
    f3 = f3
    t1 = t1
    o1 = o1
    o2 = o2
    Functions <- MCFunctions
    Optionals <- MCOptionals
    Functors = {t1}
    MaxObjects = 3
    MaxValue = 1
INVARIANTS OneOwner
PROPERTIES ValueSpec
SYMMETRY MCSymmetry
