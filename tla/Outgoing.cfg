SPECIFICATION OutgoingSpec
CONSTANTS
    NumChannels = 2
    DueLimit = 1
    Attempts = 2
    Backoff <- OneMinute
    ChannelStrikes = 2
    ChannelRest = 2
    NumDeliveries = 3
    MaxLate = 3
    MaxMishaps = 1
    MaxToggles = 1
    NumReportIds = 2
    MaxReports = 2
    NumReads = 1
    MaxSwitches = 1
    MaxStops = 1
    MaxClock = 6
    MatchingDays <- FiveDays
    MaxScheduleEdits = 3
    MaxTickStops = 1
    MaxIds = 1
    MaxTurns = 1
    MaxOwn = 2
    MaxEditions = 1
    MaxFaults = 1
    NumHosts = 2
    People = {"ann", "bob"}
    Asks <- WhoAsks
    MaxConfirms = 2
    MaxConsole = 1
    MaxWriteFaults = 1
    NumQHosts = 2
    Handlers = {"ann", "bob"}
    Starters <- AnnFirst
    Selections = {{1, 2}}
    Levels = {"Mild", "Severe"}
    MaxBatches = 2
    MaxOutside = 1
    MaxQFaults = 1
    Enablers = {"ann", "bob"}
    MaxEnables = 2
    MaxFwEdits = 2
    MaxRhcFaults = 1
INVARIANTS
    DeliveriesAreSound ReportsKeepTheirPromise SchedulesDoNoHarm WritesAreAsConfirmed
PROPERTIES
    WorkComesToItsEnd
CHECK_DEADLOCK FALSE
