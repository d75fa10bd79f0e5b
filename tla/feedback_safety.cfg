SPECIFICATION FairSpec
CONSTANTS
    FeedbackIds = {f1, f2}
    Scanners = {w1}
    Reviewers = {r1, r2}
    Updaters = {u1, u2}
    Mortal = {w1, r1, r2, u2}
    MaxLog = 3
    MaxStaged = 1
INVARIANTS
    TypeOK
    VerdictHasSource
PROPERTIES
    RejectedStaysOut
    PassIsCompleted
CHECK_DEADLOCK FALSE
