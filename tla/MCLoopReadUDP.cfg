\* UDP: up to three datagrams from two senders into a socket that holds
\* one, the client reading, shutting down or closing, and Close.
CONSTANTS
    s1 = s1
    s2 = s2
    Senders <- MCSenders
    NoAddr = NoAddr
    Proto = "udp"
    MaxData = 3
    PipeCap = 1
    MaxConnects = 0
    Reconnect = FALSE
SPECIFICATION FairSpec
INVARIANT ReadFidelity
PROPERTY ImplementsStream
