SPECIFICATION Spec
CONSTANTS
    Codes = {0, 1001}
    Tries = 2
    Step = 2
    Limit = 3
    MaxStreak = 8
    Period = 3
    Hour = 6
    Sections = {"discover", "every2", "start"}
    Mins <- MCMins
    Loading = 1
    MaxConnect = 1
    MaxRound = 4
    Oversleep = 1
    MaxFlips = 2
    MaxTime = 20
INVARIANTS SleepBounded SleepMatchesStreak SameSecond InTime
PROPERTIES NotTooOften UptimeGap
CHECK_DEADLOCK FALSE
