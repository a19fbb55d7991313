\* Every object with strings of two characters amid prose, and samples of four tasks.
SPECIFICATION Spec
CONSTANTS
    MaxUnits = 2
    Values = {0, 1}
    NaN = NaN
    MinPairs = 2
    MaxProse = 1
    MaxTasks = 4
INVARIANTS ExtractsTheObject EffectSizesAgree
\* The inputs stop growing.
CHECK_DEADLOCK FALSE
