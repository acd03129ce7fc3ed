CONSTANTS
    Sessions = {s1, s2, s3}
SYMMETRY Symmetry
SPECIFICATION Spec
INVARIANTS
    IInv
    LastOneCleansUp
    InsideIsComplete
