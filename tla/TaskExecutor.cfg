SPECIFICATION FairSpec
CONSTANTS
    t1 = t1
    t2 = t2
    l1 = l1
    l2 = l2
    Tasks <- TwoTasks
    LightTasks <- TwoLightTasks
    NThreads = 2
INVARIANT TypeOK
INVARIANT SlotsAccounted
INVARIANT EatOutlivesTasks
INVARIANT StopWaitsForLightTasks
PROPERTY IsTaskPool
PROPERTY WorkersServeTheQueue
PROPERTY StopReturnsOnceEaterGone
\* A stopped executor, or one nobody stops, has nothing left to do.
CHECK_DEADLOCK FALSE
