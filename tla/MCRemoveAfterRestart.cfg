CONSTANTS
    Client = {c1}
    Storage = {s1, s2}
    Path = {p1}
    Absent = Absent
    Torn = Torn
    Jobs = {"WRITE_FILE", "REMOVE"}
    Restarting = {"metadata"}
    Respelling = TRUE
    MaxRequests = 4
    MaxChunks = 1
    MaxWrites = 2
    MaxObjects = 4
    MaxFaults = 1
    MaxTimeouts = 0
    MaxRestarts = 1
    MaxMishaps = 2
SYMMETRY Symmetry
SPECIFICATION Spec
CHECK_DEADLOCK FALSE
INVARIANTS DeletionCanBeRetried
