\* A module that does as it pleases before one that follows the protocol.
\* The server may stand still when all messages are posted.
SPECIFICATION FairSpec
CHECK_DEADLOCK FALSE
CONSTANTS
    N = 2
    Good = {2}
    QueueLimit = 1
    MaxResponses = 2
    MaxInvalid = 2
    StdinSize = 1
    StdoutSize = 2
    MaxEvents = 2
    MaxWrites = 3
INVARIANTS NoEventSkipped  PublishedInOrder Amplification
PROPERTIES EventsHandled ShutdownEnds
