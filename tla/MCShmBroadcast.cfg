SPECIFICATION Spec
CONSTANTS
    Readers = {r1, r2}
    MaxChunks = 2
    MaxMsgs = 3
    Scenarios <- MCScenarios
INVARIANTS
    NobodyReadsWhatIsWritten
PROPERTIES
    QueueIsAChannel
    Delivered
    OrphansExit
CHECK_DEADLOCK FALSE
