SPECIFICATION AnalysisSpec
CONSTANTS
    NumDetections = 2
    MaxSev = 3
    MinSev = 2
    Cooldown = 1
    Count = 1
    Period = 2
    Page = 1
    Batches = 2
    MaxNow = 3
    MaxRuns = 2
    MaxTroubles = 2
    None = None
    Milli = 10
    PublicIps = {"p1"}
    Endpoints <- SomeEndpoints
    Ends <- SomeEnds
    Knowledge <- SomeKnowledge
    PortConds <- SomePortConds
    Texts <- SomeTexts
    Inventory <- SomeInventory
    LabelGroups <- SomeGroups
    IpLists <- SomeIpLists
    Actors <- SomeActors
    Scopes <- SomeScopes
    MaxPairs = 4
    Limits = {3, 99}
    Ranges <- SomeRanges
    UsageStart = 1
    UsageDays = 2
    UsageDay = 2
    MaxSplits = 1
    Caps = {1, 2, 5}
    Fellows <- SomeFellows
    Never = Never
    Targets = {"a", "b"}
    AllowedTargets = {"b"}
    Began <- BeganBefore
    Overlap = 1
    FanoutWindow = 1
    FanoutTargets = 2
    DayLength = 2
    Installed = 1
    Horizon = 3
    MaxRecords = 3
    MaxHistory = 1
    MaxRunTroubles = 1
    NoGroup = "none"
    Managed = {"w1", "w2", "w3", "dc"}
    Public = {}
    DirectoryServers = {"dc", "x"}
    Group <- HostGroup
    Class <- PortClass
    ProcessOf <- OpenedBy
    UserOf <- RunBy
    Expected <- OnList
    Tools = {"psexec"}
    Lo = 3
    Hi = 5
    LongHistory = 2
    Firsts = {1, 5}
    Lasts = {2, 5}
    Pairs <- SomePairs
    PeerMinGroup = 3
    PairRollout = 2
    PairScan = 2
    PairVariety = 2
    MaxRows = 3
    Hour = 2
    Quiet = 4
    Kept = 8
    Week = 6
    Surge = 2
    Floor = 1
    Factor = 2
    DayHours = 2
    MinDays = 1
    Ats = {8, 9}
    SomeFindings <- FindingsOfTwo
INVARIANTS
    RiseAlertsOnce OneFilter PolicyIsShownAsItIs DetectionsAreTrue
CHECK_DEADLOCK FALSE
