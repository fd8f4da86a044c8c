\* Two sessions, an inbox of one message.
SPECIFICATION FairSpec
CONSTANTS
    Client = {c1, c2}
    Name = {n1, n2}
    NoName = none
    InboxSize = 1
    MaxMsgs = 2
INVARIANTS MarkedAreCounted InboxFresh TitleFresh
PROPERTIES InboxRefreshes
