SPECIFICATION FairSpec
CONSTANTS
    Monitor = mon
    Clis = {c1}
    Passwords = {"p1", "p2"}
    Long = {}
    FirstKeys = 0
    MaxKeys = 2
    MaxEdits = 1
    KeysHere = TRUE
    Deletes = "idle"
    Crashes = FALSE
PROPERTIES Rekeyed EndsRight
CHECK_DEADLOCK FALSE
