\* Three sessions that notify each other and two workers that notify them.
\* Without connections the server is idle.
SPECIFICATION FairSpec
CHECK_DEADLOCK FALSE
CONSTANTS
    Client = {c1, c2, c3}
    Worker = {w1, w2}
INVARIANTS RefExact NoUseAfterFree
PROPERTY NoLeak
