SPECIFICATION Spec
CONSTANTS
  Handlers = {h1, h2, h3}
  Closers = {"join", "context"}
  Timers = {t1, t2}
  NoTimer = NoTimer
  NoWorkload = NoWorkload
  Unlocked = Unlocked
  ShutdownTask = ShutdownTask
  db = db
  dbAlias = dbAlias
  web = web
  postgres = postgres
  Grants <- SharedGrants
  Workloads <- SharedWorkloads
  WorkloadOf <- SharedWorkloadOf
SYMMETRY Symmetry
VIEW View
INVARIANTS
  TypeOK
  ActiveExact
  GaugesExact
  InUseMeansUp
  IdleHasCallback
  ScaledTracksCluster
PROPERTY
  ImplementsScaleToZero
