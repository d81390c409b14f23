SPECIFICATION GatewaySpec
CONSTANTS
  Handlers = {h1}
  Closers = {"join"}
  Timers = {t1}
  NoTimer = NoTimer
  NoWorkload = NoWorkload
  Unlocked = Unlocked
  ShutdownTask = ShutdownTask
  alice = alice
  carol = carol
  bob = bob
  shared = shared
  bobs = bobs
  aliceWeb = aliceWeb
  carolWeb = carolWeb
  bobDirect = bobDirect
  app = app
  Grants <- MCGrants
  Workloads = {app}
  WorkloadOf <- MCWorkloadOf
  Identities <- MCIdentities
  OwnerOf <- MCOwnerOf
  Blueprint <- MCBlueprint
  Namespaces = {shared, bobs}
  NamespaceOf <- MCNamespaceOf
  PlaceOf <- MCPlaceOf
  ObjectOf <- MCObjectOf
  Logins = {l1, l2}
  LastObject = 2
  MaxStray = 1
SYMMETRY Symmetry
INVARIANT
  InUseMeansUp
