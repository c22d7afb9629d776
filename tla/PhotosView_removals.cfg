SPECIFICATION Spec
CONSTANTS
    MaxPhoto = 5
    MaxDate = 2
    Collections <- GroupsOnly
    MaxRequests = 2
    MaxControls = 0
    MaxShown = 0
INVARIANT RemovesOnlyTheRemoved
CHECK_DEADLOCK FALSE
