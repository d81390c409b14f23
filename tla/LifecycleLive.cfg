SPECIFICATION FairSpec
CONSTANTS
  Handlers = {h1, h2}
  Closers = {"join"}
  Timers = {t1}
  NoTimer = NoTimer
  NoWorkload = NoWorkload
  Unlocked = Unlocked
  ShutdownTask = ShutdownTask
  db = db
  dbAlias = dbAlias
  web = web
  postgres = postgres
  Grants <- OneGrants
  Workloads <- OneWorkloads
  WorkloadOf <- OneWorkloadOf
PROPERTIES
  IdleIsReclaimed
  OpenReturns
  ShutdownEnds
