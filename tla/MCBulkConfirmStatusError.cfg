\* A failed getSignatureStatuses call during polling: retried or fatal?
CONSTANTS
    s1 = s1
    s2 = s2
    s3 = s3
    N = 3
    Sigs <- MCSigs
    Sig <- MCSig
    MaxIter = 3
    MaxAlign = 3
    MaxSlot = 4
    MaxDrops = 1
SPECIFICATION Spec
INVARIANT StatusErrorsRetried
