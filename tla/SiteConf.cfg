SPECIFICATION Spec
SYMMETRY Alike
CONSTANTS
    w1 = w1
    w2 = w2
    missing = missing
    none = none
    Worker <- Workers
    Site = {1, 2, 3}
    Installed <- Before
    Files <- SomeFiles
    Missing <- missing
    Answers <- SomeAnswers
    Texts <- Short
    None <- none
    MaxWork = 4
INVARIANTS LockKept MovesAsked ToldRight ClientTold SitesFollowFiles
CHECK_DEADLOCK FALSE
