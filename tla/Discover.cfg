SPECIFICATION Spec
CONSTANTS
    Runs = {d1, d2}
    NRows = 2
    Protocol <- MCProtocol
    Members <- MCMembers
    Database <- MCDatabase
    Passwords = {"p", "q"}
    MaxEdits = 1
INVARIANTS PasswordKept SentWhole
CHECK_DEADLOCK FALSE
