SPECIFICATION FairSpec
CONSTANTS
    p1 = p1
    p2 = p2
    Photos <- TwoPhotos
    Unreadable <- OneUnreadable
    Earlier <- Leftovers
    Workers = 2
    KickLimit = 2
INVARIANT TypeOK
INVARIANT OneBatchAtATime
INVARIANT TouchedWillBeFlushed
INVARIANT AnalysedOnce
INVARIANT NothingForgotten
INVARIANT FlagsNotAhead
PROPERTY EverythingAnalysed
PROPERTY StopReturns
\* A destroyed analyzer stops.
CHECK_DEADLOCK FALSE
