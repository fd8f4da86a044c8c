\* Two connections of one address, a token, and a clock that outlasts a block.
SPECIFICATION HFairSpec
CONSTANTS
    Session = {s1, s2}
    IP = {a1}
    NoIP = NoIP
    MaxTrackedIPs = 1
    MaxConnPerIp = 2
    MaxConnRatePerIp = 2
    RateLimitEnabled = TRUE
    RateLimitWindow = 2
    MaxAuthFailures = 2
    BlockDuration = 2
    MaxConnections = 2
    MaxAuthAttempts = 1
    MaxTime = 2
INVARIANTS FailuresBan BurstBounded
PROPERTIES BanHonoured HandshakeEnds
