\* TCP: the peer's FIN arrives before loopRead's first Read after the
\* handshake completes.
CONSTANTS
    s1 = s1
    s2 = s2
    Senders <- MCSenders
    NoAddr = NoAddr
    Proto = "tcp"
    MaxData = 1
    PipeCap = 1
    MaxConnects = 1
    Reconnect = FALSE
SPECIFICATION Spec
INVARIANT ConnectedBeforeEOF
