SPECIFICATION Spec
CONSTANTS
    Corners <- TwoCorners
    Sizes <- TwoSizes
    Nothing = Nothing
    Reassertions = 1
    MaxItems = 2
    MaxLayouts = 2
INVARIANTS CornerAgrees
 
CHECK_DEADLOCK FALSE
