\* A failed confirm_transaction call inside one leg: default record or
\* the end of the benchmark?
CONSTANTS
    Rounds = 2
    Rtts = {2, 6}
    TimeoutMs = 2
    MaxSlot = 2
    UseStats = TRUE
SPECIFICATION Spec
INVARIANT LegFailuresContained
