CONSTANTS
    Object = {o1}
    Absent = Absent
    Torn = Torn
    MaxWrites = 3
    MaxChunks = 3
    MaxFaults = 2
    MaxInbox = 3
SPECIFICATION Spec
CHECK_DEADLOCK FALSE
INVARIANTS WholeObjects OldOrNew
