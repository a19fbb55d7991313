\* One session, one runner, no faults: the injection log is not joined.
SPECIFICATION Spec
CONSTANTS
    t1 = t1
    t2 = t2
    t3 = t3
    s1 = s1
    s2 = s2
    Transcripts = {t1}
    Codex = {}
    Sessions = {s1, s2}
    SessionOf <- MCSessionOf
    Arms = {mem0}
    None = None
    Runners = {r1}
    Corrupt = {}
    Caps = {1}
    MaxFaults = 0
INVARIANTS ArmJoined
