\* One runner, started over and over under fairness, told to measure one session or two;
\* a session resumed in Codex (t1 and t3) and another; torn writes and crashes.
SPECIFICATION FairSpec
CONSTANTS
    t1 = t1
    t2 = t2
    t3 = t3
    s1 = s1
    s2 = s2
    Transcripts = {t1, t2, t3}
    Codex = {t1, t3}
    Sessions = {s1, s2}
    SessionOf <- MCSessionOf
    Arms = {mem0}
    None = None
    Runners = {r1}
    Corrupt = {}
    Caps = {1, 2}
    MaxFaults = 2
INVARIANTS TypeOK BlocksLogged NoOlderBlock OneRowPerSession
PROPERTIES EverySessionMeasured
