CONSTANTS
    Client = {c1, c2}
    Storage = {s1, s2}
    Path = {p1}
    Absent = Absent
    Torn = Torn
    Jobs = {"WRITE_FILE", "READ_FILE", "REMOVE"}
    Restarting = {"client"}
    Respelling = FALSE
    MaxRequests = 2
    MaxChunks = 2
    MaxWrites = 2
    MaxObjects = 3
    MaxFaults = 1
    MaxTimeouts = 0
    MaxRestarts = 1
    MaxMishaps = 1
SYMMETRY Symmetry
SPECIFICATION Spec
CHECK_DEADLOCK FALSE
INVARIANTS AckedOnBothReplicas NoOrphans NotRemovedWhileWritten
