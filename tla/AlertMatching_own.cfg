SPECIFICATION MatchingSpec
CONSTANTS
 MaxGaps = 1
 GapMinutes = {1}
 Missing = Missing
 MaxEventTime = 6
 Every = 2
 PreviewStart = 2
 RuleWindow = 3
INVARIANT HeldBackForItsOwn
CHECK_DEADLOCK FALSE
