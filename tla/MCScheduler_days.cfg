SPECIFICATION Spec
CONSTANTS
    Timers <- MCTimers
    SequencesOf <- MCSequences
    Days <- MCDays
    DayLength = 6
    Hour = 1
    NoTimeouts = 2
    OffActions = {1, 2}
    Durations = {2}
    THE_END_OF_TIME = 99
    Today = 11
    Horizon = 16
    Drift = 1
    MaxLate = 2
INVARIANTS
    TypeOK
    SettingIsKept
PROPERTIES
    NoneOvertaken
    PastOnTime
    TimersMoveOn
    NoneStaysDue
CHECK_DEADLOCK FALSE
