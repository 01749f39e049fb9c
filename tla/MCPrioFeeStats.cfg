\* Every list of up to four (fee, cu) pairs against the reference percentiles.
CONSTANTS
    MaxLen = 4
    MaxFee = 2
    MaxCu = 2
SPECIFICATION Spec
INVARIANTS
    TypeOK
    IndexPercentilesMatch
    CuPercentilesMatch
