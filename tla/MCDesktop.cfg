SPECIFICATION Spec
CONSTANTS
    Corners <- TwoCorners
    DefaultCorner = "bottomRight"
    None = None
    FirstFiles <- UpgradedFile
    MaxOps = 3
    MaxRestarts = 1
INVARIANTS CopiesAgree FileHoldsEveryChoice
CHECK_DEADLOCK FALSE
