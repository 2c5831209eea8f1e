CONSTANTS
    Senders = {p1, p2}
    MinProcessDelay <- MCMinProcessDelay
    MaxProcessDelay <- MCMaxProcessDelay
    MaxNumMessages <- MCMaxNumMessages
    MaxRx <- MCMaxRx
    ServicesPtrTtl <- MCServicesPtrTtl
    KnownAnswerTtls <- MCKnownAnswerTtls
    MinResponseDelay <- MCMinResponseDelay
    MaxResponseDelay <- MCMaxResponseDelay

SPECIFICATION Spec
INVARIANT TypeOK
INVARIANT ContinuationIncluded
INVARIANT KnownAnswerHonoured
PROPERTY BufferedQueryProcessed
