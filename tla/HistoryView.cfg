\* Room for three messages, windows of two and three rows.
SPECIFICATION ViewSpec
CONSTANTS
    RoomSize = 3
    Heights = {5, 6}
    MaxMsgs = 4
INVARIANTS LatestShown
PROPERTIES BrowsingStable
