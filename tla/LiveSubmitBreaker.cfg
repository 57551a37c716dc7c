SPECIFICATION Spec
CONSTANTS
    DailyCap = 3
    PerBundleCap = 2
    Tips <- MCTips
    MaxLosses = 2
    Bucket = 1
    Simulates = TRUE
    MaxDay = 1
    MaxSeq = 3
    MaxBoots = 2
PROPERTY RejectedIsLoss
CHECK_DEADLOCK FALSE
