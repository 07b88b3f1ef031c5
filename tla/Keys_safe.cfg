SPECIFICATION Spec
CONSTANTS
    Monitor = mon
    Clis = {c1}
    Passwords = {p1, p2}
    Long = {}
    FirstKeys = 0
    MaxKeys = 2
    MaxEdits = 1
    KeysHere = TRUE
    Deletes = "never"
    Crashes = TRUE
SYMMETRY AllAlike
INVARIANTS PasswordKept SettlesRight BrokenWithCause
CHECK_DEADLOCK FALSE
