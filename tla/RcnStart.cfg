SPECIFICATION FairSpec
CONSTANTS
    s1 = s1
    s2 = s2
    c1 = c1
    u1 = u1
    p1 = p1
    p2 = p2
    Starts = {s1, s2, c1}
    Stops = {u1}
    TypeOf <- MCTypeOf
    Ports = {p1, p2}
    PortsOf <- MCPortsOf
    Killable = {s1}
INVARIANTS
    TypeOK
    ErrorIsTrue
PROPERTIES
    ConnectFindsDaemon
    PathKept
    StartEnds
CHECK_DEADLOCK FALSE
