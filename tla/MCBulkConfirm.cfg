\* The batch send-and-poll task: three transactions, a round budget of 3,
\* an aligner budget of 3, slots up to 4, one abandoned fork per
\* transaction.  The liveness property assumes a cluster that eventually
\* confirms or abandons every processed block.
CONSTANTS
    s1 = s1
    s2 = s2
    s3 = s3
    N = 3
    Sigs <- MCSigs
    Sig <- MCSig
    MaxIter = 3
    MaxAlign = 3
    MaxSlot = 4
    MaxDrops = 1
SPECIFICATION FairSpec
INVARIANT TypeOK
INVARIANT NoConsistencyFault
INVARIANT SuccessIsConfirmed
INVARIANT Totality
PROPERTY Termination
PROPERTY TrackerSpec
