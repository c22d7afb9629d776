SPECIFICATION Spec
CONSTANTS
    t1 = t1
    t2 = t2
    v1 = v1
    v2 = v2
    Empty = Empty
    Editor = Editor
    other = other
    Load = Load
    Close = Close
    None = None
    Nobody = Nobody
    Values <- OneValue
    Requests <- MCRequests
    Tags <- TwoTags
    Clients <- OneClient
    QueueLimit = 3
    MaxRequests = 4
    MaxFaults = 0
INVARIANT SetTagIsKept
\* A closed database has nothing left to do.
CHECK_DEADLOCK FALSE
