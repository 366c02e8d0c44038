\* UDP: 3 datagrams, each to a1, to no address or with an undecodable
\* header; link resolution on the first send. The client may also shut
\* down its write side; that reaches the panic of line 130 (see
\* MCLoopWriteUDPShut), and the properties hold up to it.
CONSTANTS
    Proto = "udp"
    Addrs = {a1}
    NoAddr = NoAddr
    BadAddr = BadAddr
    MaxWrites = 3
    PipeCap = 2
    MaxRead = 2
    SndCap = 1
SPECIFICATION FairSpec
INVARIANT TypeOK
INVARIANT StreamFidelity
INVARIANT CloseDrains
PROPERTY NoWriteAfterClose
PROPERTY CloseCompletes
PROPERTY ImplementsStream
