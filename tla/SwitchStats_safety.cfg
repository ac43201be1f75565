\* Two workers, keys that share an id, no reload.
SPECIFICATION Spec
CONSTANTS
    s1 = s1  s2 = s2  x1 = x1  x2 = x2  e1 = e1  e2 = e2
    Worker = {w1, w2}
    Service = {s1, s2}
    Site = {x1}
    Confs <- NoReload
    Error = {e1, e2}
    NumIdcs = 2
    SwitchOn = TRUE
    MaxTime = 2
    MaxCalls = 3
    Main = Main  NoOne = NoOne  NoSite = NoSite
CHECK_DEADLOCK FALSE
SYMMETRY Symmetric
INVARIANTS StatsExact DecisionsEnd
