\* TCP: 4 one-byte writes through a 2-record pipe into a 2-record send
\* buffer, so short writes, a full buffer and WouldBlock all happen.
CONSTANTS
    Proto = "tcp"
    Addrs = {a1}
    NoAddr = NoAddr
    BadAddr = BadAddr
    MaxWrites = 4
    PipeCap = 2
    MaxRead = 2
    SndCap = 2
SPECIFICATION FairSpec
INVARIANT TypeOK
INVARIANT StreamFidelity
INVARIANT CloseDrains
PROPERTY NoWriteAfterClose
PROPERTY CloseCompletes
PROPERTY ImplementsStream
