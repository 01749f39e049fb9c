SPECIFICATION Spec
CONSTANTS
    MaxSlot = 3
    SlotsPerEpoch = 2
    NTx = 2
    MaxCalls = 2
INVARIANT
    InRangeSound
