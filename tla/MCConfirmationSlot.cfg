\* Two rounds with the stats sink on; round trips 2 or 6 (a held-back leg
\* waits 2 ticks), a 2-tick confirm deadline, slots up to 2.
CONSTANTS
    Rounds = 2
    Rtts = {2, 6}
    TimeoutMs = 2
    MaxSlot = 2
    UseStats = TRUE
SPECIFICATION FairSpec
INVARIANT TypeOK
INVARIANT SinkSound
PROPERTY Termination
