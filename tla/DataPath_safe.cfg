SPECIFICATION Spec
CONSTANTS
    Monitors = {m1, m2}
    Files = {m1, m2}
    OutFile <- OwnFile
    Senders = {s1, s2}
    Servers = {v1}
    MaxLines = 2
    Overlap = FALSE
    Kills = FALSE
SYMMETRY Symmetric
INVARIANTS OneRun NeverTrips LineAccounted OfferedOnce
PROPERTY Delivers
CHECK_DEADLOCK FALSE
