SPECIFICATION Spec
CONSTANTS
    Client = {k1, k2}
    Name = {w1, w2}
    Conn = {n1, n2, n3}
    NoConn = NoConn
    Req = {r1}
    NoName = NoName
    MaxFaults = 1
    MaxDelays = 1
SYMMETRY Symmetry
CHECK_DEADLOCK FALSE
INVARIANTS
    TypeOK
    OneSessionPerName
    MembersAreClients
    ListenersAreClients
PROPERTIES
    AnsweredBySessionAsked
