CONSTANTS
    Msgs = {m1, m2}
    ExpireInterval <- MCExpireInterval
    MaxLoopDelay <- MCMaxLoopDelay
SPECIFICATION Spec
INVARIANT TypeOK
INVARIANT EchoRecognised
INVARIANT NoStaleHash
