CONSTANTS
    Hosts = {h1}
    AddrLists = {a1}
    KeyDatas = {k1}
    Reqs = {r1, r2}
    NoCallback = NoCallback
    NoData = NoData
    Ttls <- MCTtls
    DefaultTtl <- MCDefaultTtl
    NumberOfProbes <- MCProbes
    NumberOfAnnounces <- MCAnnounces
    InitialProbeDelay <- MCInitialProbeDelay
    ProbeWaitTime <- MCProbeWaitTime
    AnnounceInterval <- MCAnnounceInterval
    MinIntervalBetweenMulticast <- MCMinInterval
    MinIntervalProbeResponse <- MCMinIntervalProbeResponse
    ProbeRestartDelay <- MCProbeRestartDelay
    MaxTieBreaksLost <- MCMaxTieBreaksLost
    PeerProbes = TRUE

SPECIFICATION Spec
INVARIANT RequestHeld
