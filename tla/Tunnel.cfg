CONSTANTS
  Channels = {c1, c2}
  NoExpiry = NoExpiry
  ValidBefore = 2
  MaxTime = 3
  Services = {web, db}
SPECIFICATION TunnelFairSpec
INVARIANTS ServiceIsCovered OpensAreAwaited
PROPERTIES ExpiryEndsService ClosedTransportDrains UsedConnectionsExpire CancelReleases LostLinkClosesLocals
CHECK_DEADLOCK FALSE
