SPECIFICATION Spec
CONSTANTS
    MaxPhoto = 4
    MaxGroup = 2
    Names <- OneName
    Values <- TwoValues
    Edits <- ThreeEdits
    Collections <- SomeCollections
    MaxBatch = 2
    MaxRequests = 3
    MaxFaults = 1
INVARIANT TypeOK
INVARIANT LogTellsTags
INVARIANT LogTellsGroups
INVARIANT AnnouncedExist
INVARIANT ReportedIsDurable
PROPERTY AllOrNothing
CHECK_DEADLOCK FALSE
