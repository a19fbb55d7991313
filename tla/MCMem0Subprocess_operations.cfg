\* Under fairness, with a process that opens the store behind the wrapper's
\* back. One call each of two callers, inside the budget of the timeouts until
\* a worker overstays: the operation in it may also hang until it is killed.
SPECIFICATION FairSpec
CONSTANTS
    Callers = {c1, c2}
    Outsiders = {d1}
    None = None
    Facts = {}
    Scopes = {s1}
    Home = s1
    HomeScope <- MCHomeScope
    Ops = {"add", "search"}
    MaxCalls = 1
    LockTimeout = 2
    CallTimeout = 4
    MaxImport = 1
    MaxHold = 1
INVARIANTS TypeOK LocksFollowLife 
PROPERTIES NoMutualConflict NobodyTimesOut EveryCallReturns
\* The callers stop after MaxCalls calls.
CHECK_DEADLOCK FALSE
