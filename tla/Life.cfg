SPECIFICATION FairSpec
CONSTANTS
    Writer <- Writers
    NoWriter <- Nobody
    Shift = 2
    MaxNum = 3
    MaxSize = 2
    MaxLines = 6
    MaxFaults = 1
    NumThreads = 2
    Confs <- SomeConfs
    MaxStarts = 2
    MaxHups = 2
INVARIANTS LogOrdered LogBounded LifeSafe
PROPERTIES LifeGoesOn
CHECK_DEADLOCK FALSE
