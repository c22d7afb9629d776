SPECIFICATION FairSpec
CONSTANTS
    t1 = t1
    t2 = t2
    l1 = l1
    l2 = l2
    Tasks <- TwoTasks
    LightTasks <- OneLightTask
    NThreads = 1
PROPERTY ManagerLearnsThreadIsGone
\* A stopped executor, or one nobody stops, has nothing left to do.
CHECK_DEADLOCK FALSE
