SPECIFICATION Spec
SYMMETRY Alike
CONSTANTS
    w1 = w1
    w2 = w2
    missing = missing
    none = none
    Worker <- Workers
    Requests <- Three
    Ranges <- TwoRanges
    Installed <- Before
    Files <- SomeFiles
    RuleFile <- Rules
    Missing <- missing
    NoRequest <- none
    MaxRequests = 3
    MaxNow = 1
    Reloads = 1
INVARIANTS LimitsKept OnlyAdmitted TablesFollowFiles
CHECK_DEADLOCK FALSE
