\* Four connections from three addresses, three of them at a time, and a table
\* of two slots: slots are reused while connections come and go, and when all
\* of them have open connections.
SPECIFICATION Spec
CONSTANTS
    Session = {s1, s2, s3, s4}
    IP = {a1, a2, a3}
    NoIP = NoIP
    MaxTrackedIPs = 2
    MaxConnPerIp = 1
    MaxConnRatePerIp = 1
    RateLimitEnabled = FALSE
    RateLimitWindow = 1
    MaxAuthFailures = 2
    BlockDuration = 2
    MaxConnections = 3
    MaxAuthAttempts = 1
    MaxTime = 1
SYMMETRY Symmetry
CONSTRAINT CrowdBound
INVARIANTS TotalExact RoomNeverFull ClientsAuthenticated
PROPERTY ActiveExact
