SPECIFICATION StoreSpec
CONSTANTS
    DayLen = 2
    NumRows = 2
    Conn <- MCConn
    Batch = 1
    FlowDays = {1, 2}
    ArchiveDays = 2
    Now0 = 5
    MaxNow = 6
    Seen = {1, 2, 4}
    MaxWrites = 2
    MaxTroubles = 1
    Sightings <- SomeSightings
    Arrivals <- SomeArrivals
    PairingGap = 1
    DayLength = 3
    LastTime = 5
    CoverageEnd = 3
    Requests <- SomeRequests
    Budget = 1
INVARIANTS
    ArchiveIsComplete ConnectionsStaySound AnswerSaysWhatIsMissing
PROPERTIES
    ExpiredRowsGo
CHECK_DEADLOCK FALSE
