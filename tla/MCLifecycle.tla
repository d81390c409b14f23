------------------------------ MODULE MCLifecycle ------------------------------
(* Instances of Lifecycle for TLC.                                           *)
EXTENDS Lifecycle, TLC

CONSTANTS db, dbAlias, web, postgres

(* Two aliases of one workload, and a static service.                        *)
SharedGrants == {db, dbAlias, web}
SharedWorkloads == {postgres}
SharedWorkloadOf == (db :> postgres) @@ (dbAlias :> postgres) @@ (web :> NoWorkload)

(* One workload and a static service.                                        *)
OneGrants == {db, web}
OneWorkloads == {postgres}
OneWorkloadOf == (db :> postgres) @@ (web :> NoWorkload)

(* Handlers and timers are interchangeable; liveness runs do not use this.   *)
Symmetry == Permutations(Handlers) \cup Permutations(Timers)

(* All but what nothing reads any more: the runtime of a handler without a   *)
(* connection and of a timer that has ended.                                 *)
View ==
  <<runtimes, backend, mu, active, scaled, idleTimer, timer, pc, closers, shut, todo, expired, up, late,
    lastScale, connections, managedWorkloads,
    [h \in Handlers |-> IF pc[h] \in {"idle", "closed"} THEN NoTimer ELSE key[h]],
    [t \in Timers |-> IF timer[t] = "free" THEN NoTimer ELSE timerKey[t]]>>
=============================================================================
