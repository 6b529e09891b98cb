CONSTANTS
    Producer = {p1, p2}
    Consumer = {c1, c2, c3}
    request = request
    response = response
    Item <- Kinds
    Nothing = Nothing
    Predicates <- ByKind
    Patient = {c3}
    MaxPushes = 3
SPECIFICATION FairSpec
CHECK_DEADLOCK FALSE
INVARIANTS TypeOK NoLostWakeup
PROPERTIES NothingLeftLying AtomicQueue
