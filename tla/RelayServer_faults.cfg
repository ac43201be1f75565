\* Two failures, of any kind.
SPECIFICATION Spec
CONSTANTS
    a1 = a1  a2 = a2
    NumThreads = 3
    Fd = {n1, n2, n3}
    Api = {a1, a2}
    KeptApis = {a1}
    MaxAccepts = 4
    PipeSize = 2
    FaultKinds = {"init", "pipe", "epoll", "lookup"}
    MaxFaults = 2
    NoFd = NoFd  NoApi = NoApi
SYMMETRY Symmetric
CHECK_DEADLOCK FALSE
INVARIANTS OwnOnly ServedOnce HandlersFindClient
