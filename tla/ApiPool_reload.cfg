\* Three IDCs, the second without a node, so that two switches can follow each other; the
\* relay protocol; a reload of the configuration at any moment.
SPECIFICATION FairSpec
CONSTANTS
    c1 = c1  c2 = c2  c3 = c3
    s1 = s1
    v1 = v1
    Call = {c1, c2}
    Site = {s1}
    Server = {v1}
    ServerOf <- OwnServer
    MiddleServers = {}
    Api = {a1, a2, a3}
    MaxConn = 1
    NumIdc = 3
    NodeIdcs = {1, 3}
    Reloads = 1  MaxFaults = 0
    NoCall = NoCall  NoApi = NoApi  NoSite = NoSite
INVARIANTS PoolInv
PROPERTIES SwitchesEnd
