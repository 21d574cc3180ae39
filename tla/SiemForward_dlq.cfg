SPECIFICATION Spec
CONSTANTS
    MaxId = 5
    BatchSize = 2
    Retries = 1
    Stuck = 2
    Hard = 3
    Probe = 2
    DlqMax = 2
    MaxDead = 8
    Unformattable = {1}
    Refused = {2}
    Poison = {3}
    SentBefore = {}
    MaxOutages = 2
    MaxRetentions = 0
    MaxPurges = 2
    MaxCrashes = 1
INVARIANTS
    NothingPassedOver
    QueueIsInOrder
    OutageBlamesNoRecord
PROPERTIES
    SentInOrder
