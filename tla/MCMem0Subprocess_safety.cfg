\* Two callers adding to and clearing a shared scope, and adding to another.
\* Timeouts of zero: a worker may be killed, and a polling one may give up, at
\* any moment, so these are the interleavings of every choice of timeouts.
SPECIFICATION Spec
CONSTANTS
    Callers = {c1, c2}
    Outsiders = {}
    None = None
    Facts = {f1, f2}
    Scopes = {s1, s2}
    Home = s1
    HomeScope <- MCHomeScope
    Ops = {"add", "inspect", "clear"}
    MaxCalls = 3
    LockTimeout = 0
    CallTimeout = 0
    MaxImport = 0
    MaxHold = 0
SYMMETRY Symmetry
VIEW ProtocolView
INVARIANTS OneWorkerAtATime NoDuplicateFacts
PROPERTIES AtMostOnce
\* The callers stop after MaxCalls calls.
CHECK_DEADLOCK FALSE
