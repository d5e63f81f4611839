SPECIFICATION Spec
CONSTANTS
    Timers <- RefreshTimers
    SequencesOf <- RefreshOnly
    Days <- MCDays
    DayLength = 6
    Hour = 2
    NoTimeouts = 1
    OffActions = {}
    Durations = {1}
    THE_END_OF_TIME = 99
    Today = 8
    Horizon = 17
    Drift = 0
    MaxLate = 0
PROPERTIES
    FlawEndsAtTwo
CHECK_DEADLOCK FALSE
