SPECIFICATION LogsFairSpec
CONSTANTS
    None = None
    Writers = {g1}
    Syncers = {s1, s2}
    Workers = {w1}
    logBatchSize = 2
    logExpiryCount = 1
    LinesPerSend = 1
    LinesPerFailure = 1
    MaxLines = 1
    MaxFailures = 1
INVARIANTS RoomForNextLine LinesKept SendsPaidFor
PROPERTIES WritesReturn LogsSettle
CHECK_DEADLOCK FALSE
