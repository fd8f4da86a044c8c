\* An append after a partial line.
\* The server may stand still once the messages and crashes are used up.
SPECIFICATION Spec
CHECK_DEADLOCK FALSE
CONSTANTS
    Author = {a1, a2}
    MaxMessages = 2
    MaxLines = 3
    MaxPosts = 3
    MaxCrashes = 0
SYMMETRY Symmetry
INVARIANTS OnlyPartialIgnored
