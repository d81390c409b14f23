CONSTANT HttpRunners = {"api", "metrics"}
SPECIFICATION FairSpec
INVARIANT ExitAfterShutdown
PROPERTY ProcessEnds
CHECK_DEADLOCK FALSE
