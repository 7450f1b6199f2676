\* Files of up to four records with three keys; images of up to five rows and up
\* to three threads; batches of up to four lines, read three at a time; up to
\* three signals, and four keys.
CONSTANTS
    Keys <- MCKeys
    MaxRecords = 4
    MaxHeight = 5
    MaxThreads = 3
    MaxFilter = 4
    Batches <- MCBatches
    BlockLines = 3
    MaxSignals = 3
    MaxKeys = 4
SPECIFICATION MCSpec
INVARIANTS
    SortedSoFar
    NothingLost
    RowsOnce
    LinesOnce
    CountsAgree
    NoStrayDater
PROPERTIES
    PipelinesEnd
    BothEnd
\* The programs end.
CHECK_DEADLOCK FALSE
