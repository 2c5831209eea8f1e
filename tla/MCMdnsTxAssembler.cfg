CONSTANTS
    EntrySizes <- MCEntrySizes
    MaxEntries <- MCMaxEntries
    MaxMessageSize <- MCMaxMessageSize
    HeaderSize <- MCHeaderSize
SPECIFICATION Spec
INVARIANT TypeOK
INVARIANT SentAsPacked
PROPERTY PassEnds
