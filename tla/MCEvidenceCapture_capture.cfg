\* g8 with its two children, beside other processes.
SPECIFICATION Spec
CONSTANTS
    c2 = c2
    h2 = h2
    c5 = c5
    h5 = h5
    a = a
    b = b
    d = d
    Child2 = c2
    Child5 = c5
    D2Runs = {c2, h2}
    D5Runs = {c5, h5}
    Callers = {a, b, d}
    Casts <- MCCasts
INVARIANTS TypeOK VerdictIsFresh 
PROPERTIES CaptureEnds
\* Every script ends.
CHECK_DEADLOCK FALSE
