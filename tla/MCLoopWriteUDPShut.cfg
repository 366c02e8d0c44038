\* UDP with a client that shuts down its write side while loopWrite waits.
CONSTANTS
    Proto = "udp"
    Addrs = {a1}
    NoAddr = NoAddr
    BadAddr = BadAddr
    MaxWrites = 1
    PipeCap = 1
    MaxRead = 2
    SndCap = 1
SPECIFICATION Spec
INVARIANT NoPanic
