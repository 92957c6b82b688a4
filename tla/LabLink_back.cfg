SPECIFICATION FairSpec
CONSTANTS
    Client = {k1, k2}
    Name = {w1, w2}
    Conn = {n1, n2}
    NoConn = NoConn
    Req = {}
    NoName = NoName
    MaxFaults = 1
    MaxDelays = 1
CHECK_DEADLOCK FALSE
PROPERTIES
    ClientsComeBack
