\* Termination of the batch task within its round budget when the cluster
\* stalls: a block may stay processed for as long as the task polls.
CONSTANTS
    s1 = s1
    s2 = s2
    s3 = s3
    N = 3
    Sigs <- MCSigs
    Sig <- MCSig
    MaxIter = 3
    MaxAlign = 3
    MaxSlot = 4
    MaxDrops = 1
SPECIFICATION TaskFairSpec
PROPERTY Termination
