\* The assertion of encode, with a reload.
SPECIFICATION Spec
CONSTANTS
    c1 = c1  c2 = c2  c3 = c3
    s1 = s1
    v1 = v1
    Call = {c1, c2, c3}
    Site = {s1}
    Server = {v1}
    ServerOf <- OwnServer
    MiddleServers = {v1}
    Api = {a1, a2, a3, a4}
    MaxConn = 2
    NumIdc = 2
    NodeIdcs = {1, 2}
    Reloads = 1  MaxFaults = 0
    NoCall = NoCall  NoApi = NoApi  NoSite = NoSite
SYMMETRY Symmetric
INVARIANTS EncodeAsserts
