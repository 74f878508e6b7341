SPECIFICATION LifeFairSpec
CONSTANTS
    ChanCap = 1
    BatchSize = 2
    MaxResults = 3
    Informers = {i1}
    Restarts = {r1}
    QueueCap = 1
    MaxCommands = 1
INVARIANTS LifeTypeOK ResultsInOrder
PROPERTIES SendersServed ResultsReachPipe RestartEnds
CHECK_DEADLOCK FALSE
