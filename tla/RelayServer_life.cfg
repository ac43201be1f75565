\* Three threads, of which the round robin uses two; one look-up fails; fair threads.
SPECIFICATION FairSpec
CONSTANTS
    a1 = a1  a2 = a2
    NumThreads = 3
    Fd = {n1, n2, n3}
    Api = {a1, a2}
    KeptApis = {a1}
    MaxAccepts = 3
    PipeSize = 2
    FaultKinds = {"lookup"}
    MaxFaults = 1
    NoFd = NoFd  NoApi = NoApi
CHECK_DEADLOCK FALSE
PROPERTIES ImplementsLife ClientsEnd
