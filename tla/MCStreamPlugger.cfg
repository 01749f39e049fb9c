\* Both tasks: channelize_stream (output_rx from the start, abort allowed)
\* and spawn_plugger_mpcs_to_broadcast (no receiver until one subscribes),
\* two receivers, four messages, a broadcast channel of 2 and an mpsc of 2;
\* the task is scheduled fairly, receivers may stall forever.
CONSTANTS
    r1 = r1
    r2 = r2
    Receivers <- MCReceivers
    FirstRx = r1
    NMsg = 4
    Cap = 2
    UpCap = 2
    Kinds = {"plugger", "channelize"}
SPECIFICATION FairSpec
INVARIANTS
    TypeOK
    NoSilentLoss
PROPERTY
    UpstreamDrained
    QueuesSpec
