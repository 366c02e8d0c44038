\* TCP: a refused connect retried with a second Connect that succeeds.
CONSTANTS
    s1 = s1
    s2 = s2
    Senders <- MCSenders
    NoAddr = NoAddr
    Proto = "tcp"
    MaxData = 1
    PipeCap = 1
    MaxConnects = 2
    Reconnect = TRUE
SPECIFICATION FairSpec
PROPERTY ConnectAnnounced
