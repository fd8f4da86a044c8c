\* A queue of four bytes, two per flush: it fills up, wraps, drains and overflows.
\* A closed connection does nothing more.
SPECIFICATION FairSpec
CHECK_DEADLOCK FALSE
CONSTANTS
    Capacity = 4
    Budget = 2
    MaxSend = 5
    MaxBytes = 8
    MaxWindow = 3
PROPERTIES ImplementsStream Drains
