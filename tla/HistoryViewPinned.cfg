\* Room for four messages, a window of two rows.
SPECIFICATION ViewSpec
CONSTANTS
    RoomSize = 4
    Heights = {5}
    MaxMsgs = 4
PROPERTIES PinnedUntilUp
