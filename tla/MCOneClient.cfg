CONSTANTS
    Client = {c1}
    Storage = {s1, s2}
    Path = {p1}
    Absent = Absent
    Torn = Torn
    Jobs = {"CREATE_FILE", "WRITE_FILE", "READ_FILE", "REMOVE"}
    Restarting = {"storage", "metadata"}
    Respelling = TRUE
    MaxRequests = 3
    MaxChunks = 2
    MaxWrites = 2
    MaxObjects = 3
    MaxFaults = 1
    MaxTimeouts = 1
    MaxRestarts = 1
    MaxMishaps = 3
SYMMETRY Symmetry
SPECIFICATION Spec
CHECK_DEADLOCK FALSE
INVARIANTS AckedOnBothReplicas ReadsLastWrite NoOrphansOneEpoch NoStalePending NoLeftoverAnswers
