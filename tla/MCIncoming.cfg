\* Three connections into a backlog of two: notifications coalesce in inCh
\* and Accept races loopRead for incomingAssertedMu.
CONSTANTS
    Backlog = 2
    MaxConns = 3
SPECIFICATION FairSpec
INVARIANT TypeOK
INVARIANT NoLostIncoming
PROPERTY IncomingAnnounced
