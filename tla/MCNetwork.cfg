CONSTANTS
    Node <- Nodes
    Role <- Roles
    MaxStarts = 2
    MaxFrames = 2
    MaxBreaks = 1
SPECIFICATION FairSpec
CHECK_DEADLOCK FALSE
INVARIANTS OneConnection HelloFirst CurrentConnection Delivery
PROPERTIES DialledUntilLinked EverythingRead
