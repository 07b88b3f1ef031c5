SPECIFICATION Spec
CONSTANTS
    Monitors = {m1}
    Files = {m1}
    OutFile <- OwnFile
    Senders = {s1, s2}
    Servers = {v1}
    MaxLines = 2
    Overlap = TRUE
    Kills = TRUE
SYMMETRY Symmetric
INVARIANT LateOnlyIfRaced
CHECK_DEADLOCK FALSE
