\* Two processes, one after the other, on a store with three scopes, two of
\* which share a user_id.
SPECIFICATION Spec
CONSTANTS
    s1 = s1
    s2 = s2
    s3 = s3
    u1 = u1
    u2 = u2
    Scopes = {s1, s2, s3}
    Home = s1
    UserIds = {u1, u2}
    UserId <- MCUserId
    Facts = {f1, f2}
    MaxOpens = 2
    MaxCalls = 2
INVARIANTS TypeOK HealthIsHonest EveryCallCounted SpendBounded
PROPERTIES EmptyHandedLeavesTrace HonorsContract
\* A process stops after MaxCalls calls, and there are MaxOpens of them.
CHECK_DEADLOCK FALSE
