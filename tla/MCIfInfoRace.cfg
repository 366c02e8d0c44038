CONSTANTS
    c1 = c1
    c2 = c2
    lo = lo
    n1 = n1
    n2 = n2
    n3 = n3
    Clients <- MCClients2
    Nics <- MCNics
    Loopback = lo
    NoNic = NoNic
    NoInfo = NoInfo
    InfoMax = 2
    MaxChanges = 0
SPECIFICATION Spec
INVARIANT ListingConsistent
