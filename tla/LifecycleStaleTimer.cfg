SPECIFICATION Spec
CONSTANTS
  Handlers = {h1, h2}
  Closers = {"join"}
  Timers = {t1, t2}
  NoTimer = NoTimer
  NoWorkload = NoWorkload
  Unlocked = Unlocked
  ShutdownTask = ShutdownTask
  db = db
  dbAlias = dbAlias
  web = web
  postgres = postgres
  Grants <- SharedGrants
  Workloads <- SharedWorkloads
  WorkloadOf <- SharedWorkloadOf
SYMMETRY Symmetry
INVARIANT
  IdlePeriodIsHonoured
