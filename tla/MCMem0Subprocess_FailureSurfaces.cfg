\* A claim of the source that the code does not keep.
SPECIFICATION Spec
CONSTANTS
    Callers = {c1}
    Outsiders = {}
    None = None
    Facts = {f1}
    Scopes = {s1}
    Home = s1
    HomeScope <- MCHomeScope
    Ops = {"add", "clear"}
    MaxCalls = 2
    LockTimeout = 1
    CallTimeout = 1
    MaxImport = 1
    MaxHold = 1
PROPERTIES FailureSurfaces
\* The callers stop after MaxCalls calls.
CHECK_DEADLOCK FALSE
