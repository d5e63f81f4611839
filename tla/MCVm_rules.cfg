SPECIFICATION Spec
CONSTANTS
    Source <- MCSource
    Code <- MCCode
    Flags = {0, 1}
    Devices = {0, 1}
    TimeoutNos = {0}
    FlagValues = {0, 1}
    Wishes = {0, 1}
    StackSize = 6
    Height <- MCHeight
    StackNeed <- MCStackNeed
    StopDepth <- MCStopDepth
INVARIANTS
    TypeOK
    AbortsForCause
    LeftoversComeFromStop
PROPERTIES
    RuleMeans
    EveryRuleEnds
CHECK_DEADLOCK FALSE
