SPECIFICATION Spec
CONSTANTS
    FeedbackIds = {f1}
    Scanners = {w1}
    Reviewers = {r1}
    Updaters = {u1}
    Mortal = {}
    MaxLog = 3
    MaxStaged = 2
PROPERTY NewFeedbackWaits
CHECK_DEADLOCK FALSE
