SPECIFICATION FairSpec
CONSTANTS
    t1 = t1
    t2 = t2
    v1 = v1
    v2 = v2
    Empty = Empty
    Editor = Editor
    other = other
    Load = Load
    Close = Close
    None = None
    Nobody = Nobody
    Values <- TwoValues
    Requests <- MCRequests
    Tags <- OneTag
    Clients <- TwoClients
    QueueLimit = 2
    MaxRequests = 3
    MaxFaults = 1
INVARIANT TypeOK
INVARIANT CopyIsStoredOrRefused
INVARIANT ExecutedInOrder
INVARIANT EndsClosed
PROPERTY CallersReturnUnlessFull
\* A closed database has nothing left to do, and a full queue may stop everyone.
CHECK_DEADLOCK FALSE
