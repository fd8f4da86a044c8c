\* A session, and two others that join, post, mention it and leave.
\* Once nobody is connected and the broadcasts are used up, nothing happens.
SPECIFICATION FairSpec
CHECK_DEADLOCK FALSE
CONSTANTS
    Client = {c1}
    Other = {o1, o2}
    MaxSeq = 3
INVARIANTS ScreenFresh OnlineExact
PROPERTIES UpdateShown MentionReachesScreen
