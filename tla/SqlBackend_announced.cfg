SPECIFICATION Spec
CONSTANTS
    MaxPhoto = 4
    MaxGroup = 2
    Names <- OneName
    Values <- TwoValues
    Edits <- ThreeEdits
    Collections <- SomeCollections
    MaxBatch = 2
    MaxRequests = 3
    MaxFaults = 1
INVARIANT AnnouncedAdded
CHECK_DEADLOCK FALSE
