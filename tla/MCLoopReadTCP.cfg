\* TCP: a connect that may be refused and tried again, two bytes into a
\* one-byte socket, the peer's FIN, and Close at any point.
CONSTANTS
    s1 = s1
    s2 = s2
    Senders <- MCSenders
    NoAddr = NoAddr
    Proto = "tcp"
    MaxData = 2
    PipeCap = 1
    MaxConnects = 2
    Reconnect = TRUE
SPECIFICATION FairSpec
INVARIANT TypeOK
INVARIANT ReadFidelity
INVARIANT EOFAfterAllData
INVARIANT ConnectedOnce
INVARIANT NoReadPanic
PROPERTY LoopReadExits
PROPERTY ImplementsStream
