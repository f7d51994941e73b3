SPECIFICATION ServerSpec
CONSTANTS
    s1 = s1  s2 = s2  s3 = s3  a1 = a1  a2 = a2  n1 = n1
    Sockets = {s1, s2, s3}
    Address = {a1, a2}
    Peer <- MCPeer
    Network <- MCNetwork
    NoSocket = NoSocket
    NoBan = NoBan
    MaxPerTurn = 2
    MaxQuits = 1
    CountRange = 8
INVARIANTS NoSocketForgotten OnlyLatecomersEscape
PROPERTIES EverySocketServed
CHECK_DEADLOCK FALSE
