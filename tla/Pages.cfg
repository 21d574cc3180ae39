SPECIFICATION PagesSpec
CONSTANTS
    Dests = {d1}
    Pces = {pA, pB}
    None = None
    BatchSize = 1
    MaxRecords = 2
    MaxSwitches = 1
    MaxClears = 1
    MaxSaves = 1
    NoAnswer = "none"
    Clicks = {c1, c2}
    PceNames = {a, b}
    Lengths = {1, 2}
    Keep = 0
    MaxTime = 1
    MaxPceSaves = 2
    Nowhere = Nowhere
    Slots = 8
    DaySlots = 4
    SlotRows = {0, 1, 3}
    PerQuery = 3
    PullLimit = 6
    MaxHalvings = 12
    NumHosts = 3
    NumPivotHosts = 5
    MaxLinks = 5
    MaxCandidates = 5
    TopCuts = 3
    MaxCrossEnv = 2
    MaxHour = 3
    MaxPces = 2
    MaxSpoils = 1
    StaleAfter = 1
    TrafficEvery = 2
    KeepFocus = 2
    Varying = {"exposure", "traffic"}
    MaxGaps = 6
    GapMinutes = {0, 1, 10, 20}
    Missing = Missing
    MaxEventTime = 6
    Every = 2
    PreviewStart = 2
    RuleWindow = 3
SYMMETRY MCSymmetry
CONSTRAINT MCNotOvertaken
CHECK_DEADLOCK FALSE
INVARIANTS
    SkipsOnlyWhenOvertaken PullsAreSound PagesTellTheTruth RulesDoAsShown
PROPERTIES
    AnswersAreCurrent PredictedIsCurrent
