CONSTANTS
    Base = 16
    TicksPerMs = 10
    HEADER_MAGIC = 6
    METADATA_MAGIC = 6
    METADATA_VERSION = 1
    MAX_MESSAGE_SIZE = 48
    Messages <- AllMessages
    Followers <- SomeMessages
    Metadata <- Files
    MaxSent = 2
SPECIFICATION Spec
CHECK_DEADLOCK FALSE
INVARIANTS Faithful PredicatesExact TornFileRejected
