SPECIFICATION FairSpec
CONSTANTS
    Monitors = {m1}
    Files = {m1}
    OutFile <- OwnFile
    Senders = {s1}
    Servers = {v1, v2}
    MaxLines = 3
    Overlap = FALSE
    Kills = TRUE
INVARIANTS OfferedBeforeArchived InOrder DeathLosesOnlyItsOwn
PROPERTY EventuallyArchived
CHECK_DEADLOCK FALSE
