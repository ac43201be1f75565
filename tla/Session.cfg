SPECIFICATION FairSpec
CONSTANTS
    Kinds = {"middle", "relay"}
    Socket = {s1, s2}
    NoSocket = NoSocket
    Calls = 2
    HeadLen = 2
    BodyLen = 1
INVARIANTS StateFits Framed TakenClean
PROPERTIES RequestEnds ImplementsCallReply
CHECK_DEADLOCK FALSE
