SPECIFICATION FairSpec
CONSTANTS
    MaxId = 4
    BatchSize = 2
    Retries = 1
    Stuck = 2
    Hard = 3
    Probe = 1
    DlqMax = 3
    MaxDead = 6
    Unformattable = {2}
    Refused = {}
    Poison = {1, 4}
    SentBefore = {3}
    MaxOutages = 1
    MaxRetentions = 1
    MaxPurges = 0
    MaxCrashes = 0
INVARIANTS
    DropsAreCounted
PROPERTIES
    EveryRecordIsForwarded
