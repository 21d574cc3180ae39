SPECIFICATION AccessSpec
CONSTANTS
    Callers = {"q1"}
    Rates = {1, 2}
    Burst <- OneToOne
    BudgetWait = 1
    QueryTime = 2
    EndOfTime = 4
    LastStart = 1
    MaxResults = 2
    MatchCounts = {0, 1, 3}
    PageLimit = 2
    Totals = {1, 2, 3}
    MaxRateSaves = 1
    MaxOthers = 1
    NoCache = NoCache
    Hour = 2
    History = 8
    ExactRecent = 2
    MaxAge = 1
    Windows = {1, 2}
    BlockedTargets = {"a", "b"}
    Start = 9
    HistoryEnd = 10
    MaxHits = 3
    Editors = {"p1", "p2"}
    Sections = {"s"}
    MaxFileSaves = 3
    MaxEdits = 2
    MaxStops = 2
    Browsers = {"b1", "b2"}
    AddressOf <- TwoAddresses
    Lists <- SomeLists
    Attempts = 3
    MaxLogins = 3
    MaxChanges = 2
    MaxListSaves = 1
    MaxRestarts = 1
    Workers = {"w1", "w2"}
    MaxKeys = 3
    MaxTlsSaves = 2
    MaxTlsStops = 1
    MaxDestinations = 2
    MaxSchedules = 2
    LatestSchema = 3
    Openers = {"job", "rescue"}
    MaxOpens = 3
    PceEvents = {2, 4, 6, 8}
    StoppedAt = 5
    UpgradedAt = 7
    ColdStartCap = 5
    CycleTimes = {7, 9}
    EventOverlap = 6
    EventBatch = 2
    MaxCuts = 1
INVARIANTS
    WhatIsReadIsWhole DoorIsSound UpgradesAreFaithful
PROPERTIES
    SettingsAreKept
CHECK_DEADLOCK FALSE
