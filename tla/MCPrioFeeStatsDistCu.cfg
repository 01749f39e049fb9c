\* The comment's p0..p100 shape of dist_fee_by_cu.
CONSTANTS
    MaxLen = 4
    MaxFee = 2
    MaxCu = 2
SPECIFICATION Spec
INVARIANT DistByCuComplete
