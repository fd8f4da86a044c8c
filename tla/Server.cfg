\* Two authors, a room of two messages, a log that is rotated after three,
\* and two process ids, so that starts overlap and a pid is used again.
\* The server may stand still once the messages and starts are used up.
SPECIFICATION MCSpec
CHECK_DEADLOCK FALSE
CONSTANTS
    Author = {a1, a2}
    Proc = {p1, p2}
    MaxMessages = 2
    MaxLines = 3
    MaxPosts = 4
    MaxCrashes = 1
    MaxStarts = 3
CONSTRAINT StartBound
SYMMETRY Symmetry
INVARIANTS AuthorOrder AckedSaved ReadersAgree HostKeyWhole KeyKept
PROPERTY RestartShowsAcked
