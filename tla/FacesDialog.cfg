SPECIFICATION FairSpec
CONSTANTS
    Faces = {1, 2, 3}
    Names = {"Ann", "Bob"}
    Earlier <- EarlierContents
    MaxSessions = 3
INVARIANT NamesAsAccepted
INVARIANT ShowsStoredNames
PROPERTY DialogCloses
CHECK_DEADLOCK FALSE
