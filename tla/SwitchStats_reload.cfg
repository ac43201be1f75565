\* A reload in the middle of the calls.
SPECIFICATION FairSpec
CONSTANTS
    s1 = s1  s2 = s2  x1 = x1  x2 = x2  e1 = e1  e2 = e2
    Worker = {w1, w2}
    Service = {s1}
    Site = {x1, x2}
    Confs <- OneReload
    Error = {e1}
    NumIdcs = 2
    SwitchOn = TRUE
    MaxTime = 1
    MaxCalls = 2
    Main = Main  NoOne = NoOne  NoSite = NoSite
CHECK_DEADLOCK FALSE
INVARIANTS ErrorsExact LockHeldByDecider
PROPERTIES CallsEnd
