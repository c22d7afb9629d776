SPECIFICATION FairSpec
CONSTANTS
    \* one worker, so three tasks fill the executor and three may wait
    MaxPushes = 6
    HeavyWorkers = 1
INVARIANT TypeOK
INVARIANT NoTaskWaitsNeedlessly
INVARIANT DestroyedIsQuiet
PROPERTY HandedInOrder
PROPERTY DestructorReturns
\* After the destructor nothing happens any more.
CHECK_DEADLOCK FALSE
