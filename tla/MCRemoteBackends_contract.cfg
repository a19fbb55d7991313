\* Two clients on one server, over two scopes.
SPECIFICATION Spec
CONSTANTS
    Clients = {c1, c2}
    Kinds = {"letta", "hindsight", "cognee"}
    s1 = s1
    s2 = s2
    Scopes = {s1, s2}
    Home <- MCHome
    None = None
    MaxAgents = 3
    MaxStrays <- MCMaxStrays
    MaxOpens = 3
    MaxCalls = 2
SYMMETRY Symmetry
INVARIANTS TypeOK HealthIsHonest EveryCallCounted AgentsBounded
PROPERTIES EmptyHandedIsCounted HonorsContract
\* The clients stop after MaxOpens processes of MaxCalls calls.
CHECK_DEADLOCK FALSE
