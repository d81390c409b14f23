CONSTANT MaxChunks = 0
SPECIFICATION FairSpec
PROPERTY AppCloseReleases
CHECK_DEADLOCK FALSE
