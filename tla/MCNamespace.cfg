CONSTANTS
    Client = {c1}
    Storage = {s1, s2}
    Path = {p1, p2}
    Absent = Absent
    Torn = Torn
    Jobs = {"CREATE_FILE", "WRITE_FILE", "READ_FILE", "REMOVE", "RENAME", "MKDIR", "LIST", "STAT"}
    Restarting = {}
    Respelling = TRUE
    MaxRequests = 4
    MaxChunks = 1
    MaxWrites = 2
    MaxObjects = 4
    MaxFaults = 1
    MaxTimeouts = 1
    MaxRestarts = 0
    MaxMishaps = 1
SYMMETRY Symmetry
SPECIFICATION Spec
CHECK_DEADLOCK FALSE
INVARIANTS TypeOK ReadsLastWrite ObjectIdentity NoOrphans
