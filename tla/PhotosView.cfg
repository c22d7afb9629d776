SPECIFICATION Spec
CONSTANTS
    MaxPhoto = 5
    MaxDate = 2
    Collections <- SomeCollections
    MaxRequests = 2
    MaxControls = 1
    MaxShown = 1
INVARIANT TypeOK
INVARIANT ShowsTheCollection
INVARIANT FreshDetails
INVARIANT ListIsTakenOver
INVARIANT FirstRemovalIsExact
INVARIANT TimeViewWithinDates
CHECK_DEADLOCK FALSE
