CONSTANT MaxChunks = 1
SPECIFICATION FairSpec
INVARIANT EndOfStreamIsComplete
PROPERTIES ServiceCloseReleases ConnectionLossReleases
CHECK_DEADLOCK FALSE
