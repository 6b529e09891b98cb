CONSTANTS
    Client = {c1, c2}
    Storage = {s1, s2}
    Path = {p1, p2}
    Absent = Absent
    Torn = Torn
    Jobs = {"WRITE_FILE", "RENAME", "REMOVE"}
    Restarting = {}
    Respelling = FALSE
    MaxRequests = 2
    MaxChunks = 2
    MaxWrites = 2
    MaxObjects = 3
    MaxFaults = 0
    MaxTimeouts = 0
    MaxRestarts = 0
    MaxMishaps = 0
SYMMETRY Symmetry
SPECIFICATION Spec
CHECK_DEADLOCK FALSE
INVARIANTS NotRemovedWhileWritten
