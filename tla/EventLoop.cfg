SPECIFICATION FairSpec
CONSTANTS
    p = p
    e1 = e1
    e2 = e2
    end = end
    null = null
    Event <- Two
    Pipe <- p
    End <- end
    NULL <- null
    Masks <- ReadWrite
    MaxFd = 2
    BeatCount = 1
    MaxFaults = 1
INVARIANTS TypeOK Linked LoopSafe ListIsEpoll
PROPERTIES LoopServes ImplementsEventSet
