\* One root, two more worktrees, two memories; m1 needs two hits for promotion.
SPECIFICATION Spec
CONSTANTS
    m1 = m1
    m2 = m2
    Worktrees = {main, other, a}
    Roots = {main}
    Memories = {m1, m2}
    Profile <- MCProfile
    Policies <- MCPolicies
    MinSupport = 2
    MinHitRate = 70
    MaxConflicts = 1
    MinDelta = 5
    MaxInherit = 1
    K = 1
    None = None
    MaxAdds = 2
    MaxSearches = 4
    MaxViews = 3
INVARIANTS TypeOK PromotionEarned InheritanceTraceable
\* Searches and adds are bounded.
CHECK_DEADLOCK FALSE
