------------------------------- MODULE Lifecycle -------------------------------
(***************************************************************************)
(* The service lifecycle engine of tearenvd (internal/server/lifecycle.go): *)
(* one runtime per workload, reference-counted by the connections proxied   *)
(* to it, scaled up by the first Open and scaled to zero by an idle timer.  *)
(*                                                                          *)
(* Concurrency is that of the Go program.  Every Open, every release and    *)
(* every timer callback is a goroutine that contends for the runtime's      *)
(* mutex.  Open keeps the mutex across its scaler call and its dial, so     *)
(* those are steps of their own; release has no blocking call and is one    *)
(* step.  A timer that has fired is a goroutine on its way to the mutex:    *)
(* Stop no longer reaches it.                                               *)
(*                                                                          *)
(* A Scale call can fail.  The update of a failed call may have been applied *)
(* by the cluster, may be lost, or may arrive after the engine has gone on. *)
(* The API server accepts it only while the object has the version that the *)
(* call had read (Scaler has these calls in detail).  This is one process:  *)
(* it starts when no update of an earlier one is on its way (Gateway has    *)
(* the crashes and what they leave).                                        *)
(***************************************************************************)
EXTENDS Integers, FiniteSets

CONSTANTS
  Handlers,       (* goroutines serving one SSH channel each                *)
  Grants,         (* services the policy can resolve: identity and alias    *)
  Workloads,      (* kind/namespace/name tuples                             *)
  WorkloadOf,     (* the workload of a grant, or NoWorkload if it is static *)
  NoWorkload,
  Closers,        (* callers of Close on a connection: "join" is proxy.Join, *)
                  (* "context" the watcher of the SSH connection's context  *)
  Timers,         (* identities for time.AfterFunc timers (a bound)         *)
  NoTimer,        (* runtime.idleTimer = nil                                *)
  Unlocked,       (* runtime.mu is free                                     *)
  ShutdownTask    (* the goroutine that runs Shutdown                       *)

ASSUME GrantAssumption ==
  /\ Grants \cap Workloads = {}
  /\ NoWorkload \notin Workloads
  /\ WorkloadOf \in [Grants -> Workloads \cup {NoWorkload}]

ASSUME ActorAssumption ==
  /\ IsFiniteSet(Handlers)
  /\ Handlers \cap Timers = {}
  /\ {Unlocked, ShutdownTask} \cap (Handlers \cup Timers) = {}
  /\ Unlocked # ShutdownTask
  /\ NoTimer \notin Timers
  /\ "join" \in Closers

ASSUME KeysAssumption ==
  IsFiniteSet(Grants) /\ IsFiniteSet(Workloads) /\ Grants # {}

VARIABLES
  runtimes,       (* keys present in gateway.runtimes                       *)
  backend,        (* gateway.scaler # nil                                   *)
  mu,             (* holder of runtime.mu                                   *)
  active,         (* runtime.active                                         *)
  scaled,         (* runtime.scaled                                         *)
  idleTimer,      (* runtime.idleTimer                                      *)
  timer,          (* "free", "pending", "fired" (callback wants mu) or      *)
                  (* "scaling" (callback inside its Scale call)             *)
  timerKey,       (* the runtime a timer's callback closes over             *)
  pc,             (* where a handler is                                     *)
  key,            (* the runtime a handler's Open found                     *)
  closers,        (* who has called Close on the handler's connection       *)
  shut,           (* "serving", "draining" (Shutdown runs), "done"          *)
  todo,           (* runtimes Shutdown has not handled yet                  *)
  expired,        (* Shutdown's single 30 s context has expired             *)
  up,             (* the cluster: the workload's scale is above zero        *)
  late,           (* directions of the updates that failed calls have left  *)
                  (* on their way and whose version is still current        *)
  lastScale,      (* history: outcome of the last Scale call on a workload  *)
  connections,    (* gauge activeConnections, by service type               *)
  managedWorkloads (* gauge managedWorkloads                                *)

runtimeVars == <<runtimes, backend, mu, active, scaled>>
timerVars   == <<idleTimer, timer, timerKey>>
handlerVars == <<pc, key, closers>>
shutVars    == <<shut, todo, expired>>
clusterVars == <<up, late, lastScale>>
gaugeVars   == <<connections, managedWorkloads>>
vars == <<runtimeVars, timerVars, handlerVars, shutVars, clusterVars, gaugeVars>>

(***************************************************************************)
(* The key of a runtime: the workload, or the grant itself when static.     *)
(* Aliases of one workload share a runtime.                                 *)
(***************************************************************************)
Keys == Workloads \cup Grants

RuntimeKey(g) ==
  IF WorkloadOf[g] # NoWorkload THEN WorkloadOf[g] ELSE g

ServiceType(k) == IF k \in Workloads THEN "managed" ELSE "static"

(* Handlers that hold runtime.mu, and handlers that hold a tracked connection. *)
OpenSteps == {"scaling", "dialing", "undoing"}
Connected == {"open", "releasing"}

TypeOK ==
  /\ runtimes \subseteq Keys
  /\ backend \in BOOLEAN
  /\ mu \in [Keys -> Handlers \cup Timers \cup {Unlocked, ShutdownTask}]
  /\ active \in [Keys -> Nat]
  /\ scaled \in [Keys -> BOOLEAN]
  /\ idleTimer \in [Keys -> Timers \cup {NoTimer}]
  /\ timer \in [Timers -> {"free", "pending", "fired", "scaling"}]
  /\ timerKey \in [Timers -> Keys]
  /\ pc \in [Handlers -> {"idle", "waiting", "closed"} \cup OpenSteps \cup Connected]
  /\ key \in [Handlers -> Keys]
  /\ closers \in [Handlers -> SUBSET Closers]
  /\ shut \in {"serving", "draining", "done"}
  /\ todo \in SUBSET Keys
  /\ expired \in BOOLEAN
  /\ up \in [Workloads -> BOOLEAN]
  /\ late \in [Workloads -> SUBSET {"up", "down"}]
  /\ lastScale \in [Workloads -> {"none", "ok", "failed"}]
  /\ connections \in [{"static", "managed"} -> Int]
  /\ managedWorkloads \in Int

(* A gateway starts with no runtimes; the cluster may be in any state.  The  *)
(* key of a handler or of a timer means nothing until it is set.             *)
Init ==
  /\ runtimes = {}
  /\ backend \in BOOLEAN
  /\ mu = [k \in Keys |-> Unlocked]
  /\ active = [k \in Keys |-> 0]
  /\ scaled = [k \in Keys |-> FALSE]
  /\ idleTimer = [k \in Keys |-> NoTimer]
  /\ timer = [t \in Timers |-> "free"]
  /\ timerKey = [t \in Timers |-> CHOOSE k \in Keys : TRUE]
  /\ pc = [h \in Handlers |-> "idle"]
  /\ key = [h \in Handlers |-> CHOOSE k \in Keys : TRUE]
  /\ closers = [h \in Handlers |-> {}]
  /\ shut = "serving"
  /\ todo = {}
  /\ expired = FALSE
  /\ up \in [Workloads -> BOOLEAN]
  /\ late = [w \in Workloads |-> {}]
  /\ lastScale = [w \in Workloads |-> "none"]
  /\ connections = [s \in {"static", "managed"} |-> 0]
  /\ managedWorkloads = 0

-----------------------------------------------------------------------------
(* Effects shared by the operations.                                         *)

Lock(k, who) ==
  /\ mu[k] = Unlocked
  /\ mu' = [mu EXCEPT ![k] = who]

Unlock(k) == mu' = [mu EXCEPT ![k] = Unlocked]

Goto(h, label) == pc' = [pc EXCEPT ![h] = label]

Direction(running) == IF running THEN "up" ELSE "down"

(* The API server stores a scale.  A write that changes the object outdates  *)
(* the updates that are on their way.                                        *)
Store(w, running) ==
  /\ up' = [up EXCEPT ![w] = running]
  /\ late' = [late EXCEPT ![w] = IF up[w] = running THEN @ ELSE {}]

(* The scaler backend answered: the cluster has the replicas asked for.      *)
ScaleOK(w, running) ==
  /\ Store(w, running)
  /\ lastScale' = [lastScale EXCEPT ![w] = "ok"]

(* The scaler backend returned an error, or its context ended.  The update   *)
(* was not applied, was applied, or is on its way.                           *)
ScaleErr(w, running) ==
  /\ \/ UNCHANGED <<up, late>>
     \/ Store(w, running)
     \/ late' = [late EXCEPT ![w] = @ \cup {Direction(running)}] /\ UNCHANGED up
  /\ lastScale' = [lastScale EXCEPT ![w] = "failed"]

(* An update of a call that has failed arrives, whoever holds the mutex now. *)
(* One that changes nothing or never arrives needs no step.                  *)
LateUpdate(w, running) ==
  /\ Direction(running) \in late[w]
  /\ up[w] # running
  /\ Store(w, running)
  /\ UNCHANGED <<runtimeVars, timerVars, handlerVars, shutVars, lastScale, gaugeVars>>

(* scaled = true with workloadStarted(), scaled = false with workloadStopped() *)
MarkStarted(k) ==
  /\ scaled' = [scaled EXCEPT ![k] = TRUE]
  /\ managedWorkloads' = managedWorkloads + 1

(* Mutants: the gauge is not decremented; the flag is not cleared.           *)
MarkStoppedWithoutGauge(k) ==
  /\ scaled' = [scaled EXCEPT ![k] = FALSE]
  /\ UNCHANGED managedWorkloads

MarkStoppedWithoutFlag(k) ==
  /\ UNCHANGED scaled
  /\ managedWorkloads' = managedWorkloads - 1

MarkStopped(k) ==
  /\ scaled' = [scaled EXCEPT ![k] = FALSE]
  /\ managedWorkloads' = managedWorkloads - 1

(* idleTimer.Stop(); idleTimer = nil.  Stop has no effect on a fired timer.  *)
StopTimer(k) ==
  /\ timer' = [t \in Timers |->
                 IF t = idleTimer[k] /\ timer[t] = "pending" THEN "free" ELSE timer[t]]
  /\ idleTimer' = [idleTimer EXCEPT ![k] = NoTimer]
  /\ UNCHANGED timerKey

(* A timer identity is free again when nothing refers to it.                 *)
FreeTimers == {t \in Timers : timer[t] = "free" /\ \A k \in Keys : idleTimer[k] # t}

-----------------------------------------------------------------------------
(* Open.                                                                     *)

(* ResolveService allowed the grant g; runtime() finds or creates its runtime. *)
OpenResolve(h, g) ==
  /\ pc[h] = "idle"
  /\ Goto(h, "waiting")
  /\ key' = [key EXCEPT ![h] = RuntimeKey(g)]
  /\ runtimes' = runtimes \cup {RuntimeKey(g)}
  /\ UNCHANGED <<closers, backend, mu, active, scaled, timerVars, shutVars, clusterVars, gaugeVars>>

NeedsScaleUp(k) == k \in Workloads /\ ~scaled[k]

(* The mutex is taken and the idle timer cancelled.  Without a scaler a      *)
(* managed service is refused, which releases the mutex at once.             *)
OpenLock(h) ==
  LET k == key[h] IN
  /\ pc[h] = "waiting"
  /\ mu[k] = Unlocked
  /\ StopTimer(k)
  /\ \/ /\ NeedsScaleUp(k) /\ ~backend
        /\ Goto(h, "idle")
        /\ UNCHANGED mu
     \/ /\ NeedsScaleUp(k) /\ backend
        /\ Goto(h, "scaling")
        /\ Lock(k, h)
     \/ /\ ~NeedsScaleUp(k)
        /\ Goto(h, "dialing")
        /\ Lock(k, h)
  /\ UNCHANGED <<runtimes, backend, active, scaled, key, closers, shutVars, clusterVars, gaugeVars>>

(* Mutant: a refused scale-up starts the Open again.                         *)
OpenScaleUpRetries(h) ==
  LET k == key[h] IN
  /\ pc[h] = "scaling"
  /\ \/ ScaleOK(k, TRUE) /\ MarkStarted(k) /\ Goto(h, "dialing") /\ UNCHANGED mu
     \/ ScaleErr(k, TRUE) /\ Goto(h, "waiting") /\ Unlock(k) /\ UNCHANGED <<scaled, managedWorkloads>>
  /\ UNCHANGED <<runtimes, backend, active, timerVars, key, closers, shutVars, connections>>

OpenScaleUp(h) ==
  LET k == key[h] IN
  /\ pc[h] = "scaling"
  /\ \/ /\ ScaleOK(k, TRUE)
        /\ MarkStarted(k)
        /\ Goto(h, "dialing")
        /\ UNCHANGED mu
     \/ /\ ScaleErr(k, TRUE)
        /\ Goto(h, "idle")
        /\ Unlock(k)
        /\ UNCHANGED <<scaled, managedWorkloads>>
  /\ UNCHANGED <<runtimes, backend, active, timerVars, key, closers, shutVars, connections>>

(* A dial that may be retried until the readiness timeout.  The target of a  *)
(* managed service answers only while its workload runs.                     *)
DialSucceeds(k) == k \in Workloads => up[k]

OpenDial(h) ==
  LET k == key[h] IN
  /\ pc[h] = "dialing"
  /\ DialSucceeds(k)
  /\ active' = [active EXCEPT ![k] = @ + 1]
  /\ connections' = [connections EXCEPT ![ServiceType(k)] = @ + 1]
  /\ Goto(h, "open")
  /\ Unlock(k)
  /\ UNCHANGED <<runtimes, backend, scaled, timerVars, key, closers, shutVars, clusterVars, managedWorkloads>>

(* Mutants: the downscale is forgotten; done under the connections of other  *)
(* handlers.                                                                 *)
MustUndoNever(k) == FALSE

MustUndoInUse(k) == k \in Workloads

MustUndo(k) == k \in Workloads /\ active[k] = 0

OpenDialFails(h) ==
  LET k == key[h] IN
  /\ pc[h] = "dialing"
  /\ \/ /\ MustUndo(k)
        /\ Goto(h, "undoing")
        /\ UNCHANGED mu
     \/ /\ ~MustUndo(k)
        /\ Goto(h, "idle")
        /\ Unlock(k)
  /\ UNCHANGED <<runtimes, backend, active, scaled, timerVars, key, closers, shutVars, clusterVars, gaugeVars>>

(* The best-effort downscale after a dial failed with nobody connected.      *)
OpenUndo(h) ==
  LET k == key[h] IN
  /\ pc[h] = "undoing"
  /\ \/ ScaleOK(k, FALSE) /\ MarkStopped(k)
     \/ ScaleErr(k, FALSE) /\ UNCHANGED <<scaled, managedWorkloads>>
  /\ Goto(h, "idle")
  /\ Unlock(k)
  /\ UNCHANGED <<runtimes, backend, active, timerVars, key, closers, shutVars, connections>>

-----------------------------------------------------------------------------
(* Close and release.                                                        *)

(* Mutant: Close without the sync.Once.                                      *)
CloseWithoutOnce(h, c) ==
  /\ pc[h] \in Connected \cup {"closed"}
  /\ c \notin closers[h]
  /\ closers' = [closers EXCEPT ![h] = @ \cup {c}]
  /\ Goto(h, "releasing")
  /\ UNCHANGED <<runtimeVars, timerVars, key, shutVars, clusterVars, gaugeVars>>

(* trackedConnection.Close, called by proxy.Join when both copies end and by *)
(* proxyWithContext when the SSH connection ends.  Only the first call       *)
(* releases.                                                                 *)
Close(h, c) ==
  /\ pc[h] \in Connected \cup {"closed"}
  /\ c \notin closers[h]
  /\ closers' = [closers EXCEPT ![h] = @ \cup {c}]
  /\ pc' = [pc EXCEPT ![h] = IF @ = "open" THEN "releasing" ELSE @]
  /\ UNCHANGED <<runtimeVars, timerVars, key, shutVars, clusterVars, gaugeVars>>

(* Join has closed both ends: the channel's handler returns.                 *)
Return(h) ==
  /\ pc[h] = "closed"
  /\ "join" \in closers[h]
  /\ Goto(h, "idle")
  /\ closers' = [closers EXCEPT ![h] = {}]
  /\ UNCHANGED <<runtimeVars, timerVars, key, shutVars, clusterVars, gaugeVars>>

(* Mutant: the timer is armed one connection too early.                      *)
StartsIdleOffByOne(k, n) == n = 1 /\ k \in Workloads /\ scaled[k]

(* The idle timer starts: no connection is left (n) on a workload we scaled. *)
StartsIdle(k, n) == n = 0 /\ k \in Workloads /\ scaled[k]

ArmTimer(k) ==
  \E t \in FreeTimers :
    /\ timer' = [timer EXCEPT ![t] = "pending"]
    /\ timerKey' = [timerKey EXCEPT ![t] = k]
    /\ idleTimer' = [idleTimer EXCEPT ![k] = t]

(* Mutant: a second Close releases again and active is not kept above zero.  *)
ReleaseUnguarded(h) ==
  /\ pc[h] \in {"releasing", "closed"}
  /\ mu[key[h]] = Unlocked
  /\ active' = [active EXCEPT ![key[h]] = @ - 1]
  /\ Goto(h, "closed")
  /\ UNCHANGED <<runtimes, backend, mu, scaled, timerVars, key, closers, shutVars, clusterVars, gaugeVars>>

Release(h) ==
  LET k == key[h]
      n == IF active[k] > 0 THEN active[k] - 1 ELSE 0 IN
  /\ pc[h] = "releasing"
  /\ mu[k] = Unlocked
  /\ active' = [active EXCEPT ![k] = n]
  /\ connections' = [connections EXCEPT ![ServiceType(k)] = @ - (active[k] - n)]
  /\ Goto(h, "closed")
  /\ IF StartsIdle(k, n) THEN ArmTimer(k) ELSE UNCHANGED timerVars
  /\ UNCHANGED <<runtimes, backend, mu, scaled, key, closers, shutVars, clusterVars, managedWorkloads>>

-----------------------------------------------------------------------------
(* The idle timer.                                                           *)

TimerFires(t) ==
  /\ timer[t] = "pending"
  /\ timer' = [timer EXCEPT ![t] = "fired"]
  /\ UNCHANGED <<runtimeVars, idleTimer, timerKey, handlerVars, shutVars, clusterVars, gaugeVars>>

(* Mutant: the callback does not look at active again.                       *)
StillIdleUnchecked(k) == scaled[k]

(* What the callback re-checks once it has the mutex.                        *)
StillIdle(k) == active[k] = 0 /\ scaled[k]

CallbackLock(t) ==
  LET k == timerKey[t] IN
  /\ timer[t] = "fired"
  /\ mu[k] = Unlocked
  /\ \/ /\ StillIdle(k)
        /\ timer' = [timer EXCEPT ![t] = "scaling"]
        /\ Lock(k, t)
     \/ /\ ~StillIdle(k)
        /\ timer' = [timer EXCEPT ![t] = "free"]
        /\ UNCHANGED mu
  /\ UNCHANGED <<runtimes, backend, active, scaled, idleTimer, timerKey, handlerVars, shutVars, clusterVars, gaugeVars>>

(* A failed downscale is only logged: scaled stays true, no timer is set.    *)
CallbackScaleDown(t) ==
  LET k == timerKey[t] IN
  /\ timer[t] = "scaling"
  /\ \/ /\ ScaleOK(k, FALSE)
        /\ MarkStopped(k)
        /\ idleTimer' = [idleTimer EXCEPT ![k] = NoTimer]
     \/ /\ ScaleErr(k, FALSE)
        /\ UNCHANGED <<scaled, managedWorkloads, idleTimer>>
  /\ timer' = [timer EXCEPT ![t] = "free"]
  /\ Unlock(k)
  /\ UNCHANGED <<runtimes, backend, active, timerKey, handlerVars, shutVars, connections>>

-----------------------------------------------------------------------------
(* Shutdown.  SSH handlers keep running until the process exits, so Opens    *)
(* and releases interleave with it.                                          *)

ShutdownBegin ==
  /\ shut = "serving"
  /\ shut' = "draining"
  /\ todo' = runtimes
  /\ UNCHANGED <<expired, runtimeVars, timerVars, handlerVars, clusterVars, gaugeVars>>

(* The runtime whose mutex Shutdown holds during its Scale call.             *)
InShutdown(k) == mu[k] = ShutdownTask

ShutdownLock(k) ==
  /\ shut = "draining"
  /\ k \in todo
  /\ \A j \in Keys : ~InShutdown(j)
  /\ mu[k] = Unlocked
  /\ StopTimer(k)
  /\ \/ /\ scaled[k] /\ k \in Workloads
        /\ Lock(k, ShutdownTask)
        /\ UNCHANGED todo
     \/ /\ ~(scaled[k] /\ k \in Workloads)
        /\ todo' = todo \ {k}
        /\ UNCHANGED mu
  /\ UNCHANGED <<runtimes, backend, active, scaled, handlerVars, shut, expired, clusterVars, gaugeVars>>

(* Mutant: a runtime is retried until its downscale succeeds.                *)
ShutdownScaleDownRetries(k) ==
  /\ InShutdown(k)
  /\ \/ ~expired /\ ScaleOK(k, FALSE) /\ MarkStopped(k) /\ todo' = todo \ {k}
     \/ ScaleErr(k, FALSE) /\ UNCHANGED <<scaled, managedWorkloads, todo>>
  /\ Unlock(k)
  /\ UNCHANGED <<runtimes, backend, active, timerVars, handlerVars, shut, expired, connections>>

ShutdownScaleDown(k) ==
  /\ InShutdown(k)
  /\ \/ ~expired /\ ScaleOK(k, FALSE) /\ MarkStopped(k)
     \/ ScaleErr(k, FALSE) /\ UNCHANGED <<scaled, managedWorkloads>>
  /\ todo' = todo \ {k}
  /\ Unlock(k)
  /\ UNCHANGED <<runtimes, backend, active, timerVars, handlerVars, shut, expired, connections>>

(* The 30 s context that Serve creates once, for the whole Shutdown call, runs *)
(* out while Shutdown waits for a scaler call or for a mutex.                *)
ShutdownExpires ==
  /\ shut = "draining"
  /\ ~expired
  /\ \E k \in todo : mu[k] # Unlocked
  /\ expired' = TRUE
  /\ UNCHANGED <<shut, todo, runtimeVars, timerVars, handlerVars, clusterVars, gaugeVars>>

ShutdownEnd ==
  /\ shut = "draining"
  /\ todo = {}
  /\ shut' = "done"
  /\ UNCHANGED <<todo, expired, runtimeVars, timerVars, handlerVars, clusterVars, gaugeVars>>

-----------------------------------------------------------------------------
HandlerStep(h) ==
  \/ \E g \in Grants : OpenResolve(h, g)
  \/ OpenLock(h)
  \/ OpenScaleUp(h)
  \/ OpenDial(h)
  \/ OpenDialFails(h)
  \/ OpenUndo(h)
  \/ \E c \in Closers : Close(h, c)
  \/ Release(h)
  \/ Return(h)

TimerStep(t) == TimerFires(t) \/ CallbackLock(t) \/ CallbackScaleDown(t)

ShutdownStep ==
  \/ ShutdownBegin
  \/ \E k \in Keys : ShutdownLock(k) \/ ShutdownScaleDown(k)
  \/ ShutdownExpires
  \/ ShutdownEnd

Next ==
  \/ \E h \in Handlers : HandlerStep(h)
  \/ \E t \in Timers : TimerStep(t)
  \/ ShutdownStep
  \/ \E w \in Workloads, running \in BOOLEAN : LateUpdate(w, running)

Spec == Init /\ [][Next]_vars

(***************************************************************************)
(* Fairness.  sync.Mutex hands the lock to a waiter that has starved for a  *)
(* millisecond, so taking the mutex is strongly fair.  Every downscale has  *)
(* a deadline of 30 s and the dial of a managed service its ready timeout;  *)
(* timers fire.  Open's scale-up and the dial of a static service have no   *)
(* deadline of their own, only the context of the SSH connection: nothing   *)
(* obliges them to end (EndlessCall).  Nothing obliges a client to open or  *)
(* to close a connection.                                                   *)
(***************************************************************************)
Fairness ==
  /\ \A h \in Handlers :
       /\ SF_vars(OpenLock(h) \/ Release(h))
       /\ WF_vars((key[h] \in Workloads /\ (OpenDial(h) \/ OpenDialFails(h))) \/ OpenUndo(h))
  /\ \A t \in Timers :
       /\ SF_vars(CallbackLock(t))
       /\ WF_vars(TimerFires(t) \/ CallbackScaleDown(t))
  /\ SF_vars(\E k \in Keys : ShutdownLock(k))
  /\ WF_vars(ShutdownEnd \/ \E k \in Keys : ShutdownScaleDown(k))

FairSpec == Spec /\ Fairness

-----------------------------------------------------------------------------
(* Safety.                                                                   *)

(* Handlers holding a tracked connection of the runtime k.                   *)
Users(k) == {h \in Handlers : pc[h] \in Connected /\ key[h] = k}

(* The reference count is exact: active is the number of connections that    *)
(* were returned by Open and not yet released, whatever the order of the     *)
(* Close calls of proxy.Join and of the SSH context.                         *)
ActiveExact == \A k \in Keys : active[k] = Cardinality(Users(k))

(* The Prometheus gauges never drift from the state they report.             *)
GaugesExact ==
  /\ managedWorkloads = Cardinality({k \in Keys : scaled[k]})
  /\ \A s \in {"static", "managed"} :
       connections[s] = Cardinality({h \in Handlers : pc[h] \in Connected /\ ServiceType(key[h]) = s})

(* While the gateway serves, a workload with an open connection through any  *)
(* of its aliases is one the engine keeps scaled, and it runs: no timer,     *)
(* failed dial or late answer takes it down under a user.  The exception is  *)
(* a workload whose last scaler call failed: the update of a downscale that  *)
(* was abandoned when nobody was connected can still arrive, because the     *)
(* next Open finds scaled true and sends no update of its own.               *)
InUseMeansUp ==
  shut = "serving" =>
    \A w \in Workloads :
      active[w] > 0 => scaled[w] /\ (up[w] \/ lastScale[w] = "failed")

(* No lost wakeup: an idle workload that the engine scaled has a timer       *)
(* pending or a callback on its way, unless the scaler refused a call.       *)
(* Shutdown, which stops timers and is raced by Opens and releases, does not *)
(* change that: what it leaves up somebody used after it had passed.         *)
IdleHasCallback ==
  \A w \in Workloads :
    scaled[w] /\ active[w] = 0 /\ mu[w] = Unlocked /\ lastScale[w] = "ok" =>
      \E t \in Timers : timer[t] \in {"pending", "fired"} /\ timerKey[t] = w

(* runtime.scaled agrees with the cluster whenever nobody is inside a scaler *)
(* call and the last call on the workload was answered.                      *)
ScaledTracksCluster ==
  \A w \in Workloads :
    mu[w] = Unlocked /\ lastScale[w] = "ok" => (scaled[w] <=> up[w])

(* docs/overview.md: "A new connection cancels the timer.  Expiration scales *)
(* the workload to zero."  A workload whose current idle timer has not       *)
(* expired is not being scaled down by the callback of an earlier one.       *)
IdlePeriodIsHonoured ==
  shut = "serving" =>
    \A t, u \in Timers :
      timer[t] = "scaling" /\ idleTimer[timerKey[t]] = u => timer[u] # "pending"

(* What makes the properties above inductive.  The mutex of a runtime is     *)
(* held exactly by the handler, callback or Shutdown inside its blocking     *)
(* call, and each of them can rely on what it checked after locking.         *)
MutexInv ==
  /\ \A h \in Handlers : pc[h] \in OpenSteps => mu[key[h]] = h
  /\ \A t \in Timers : timer[t] = "scaling" => mu[timerKey[t]] = t
  /\ \A k \in Keys : InShutdown(k) => shut = "draining" /\ k \in todo /\ scaled[k]
  /\ \A j, k \in Keys : InShutdown(j) /\ InShutdown(k) => j = k

HolderInv ==
  /\ \A h \in Handlers :
       LET k == key[h] IN
       /\ pc[h] = "scaling" => k \in Workloads /\ ~scaled[k]
       /\ pc[h] = "dialing" /\ k \in Workloads => scaled[k]
       /\ pc[h] = "undoing" => k \in Workloads /\ scaled[k] /\ active[k] = 0
  /\ \A t \in Timers :
       timer[t] = "scaling" => scaled[timerKey[t]] /\ active[timerKey[t]] = 0
  /\ \A k \in Keys : scaled[k] => k \in Workloads
  /\ \A k \in Keys, t \in Timers : idleTimer[k] = t => timerKey[t] = k

LockInv == TypeOK /\ MutexInv /\ HolderInv

(* Updates on their way never turn a workload against the engine: the engine *)
(* changes direction only after an answered call, which outdates what could  *)
(* undo it.                                                                  *)
LateInv ==
  \A w \in Workloads :
    /\ scaled[w] => lastScale[w] # "none" /\ ("up" \in late[w] => up[w])
    /\ ~scaled[w] => ("down" \in late[w] => ~up[w])
    /\ lastScale[w] = "ok" =>
         /\ scaled[w] <=> up[w]
         /\ "up" \in late[w] => scaled[w]
         /\ "down" \in late[w] => ~scaled[w]

IInv == TypeOK /\ MutexInv /\ HolderInv /\ LateInv /\ InUseMeansUp

(* The engine implements the abstract specification of scale to zero: the    *)
(* clients of a workload are the handlers whose connection is not released,  *)
(* and a stop is abandoned while its update is on its way.                   *)
Abstract == INSTANCE ScaleToZero WITH
  Clients <- Handlers,
  running <- up,
  users <- [w \in Workloads |-> Users(w)],
  abandoned <- {w \in Workloads : "down" \in late[w]},
  draining <- shut # "serving"

ImplementsScaleToZero == Abstract!Spec

-----------------------------------------------------------------------------
(* Liveness, under FairSpec.                                                 *)

(* A workload that falls idle is scaled down, unless somebody connects       *)
(* again, Shutdown takes over, or a scaler call failed.                      *)
IdleIsReclaimed ==
  \A w \in Workloads :
    (scaled[w] /\ active[w] = 0 /\ lastScale[w] = "ok")
      ~> (~scaled[w] \/ active[w] > 0 \/ lastScale[w] = "failed" \/ shut # "serving")

(* A handler inside a call that only the SSH connection's context can end.   *)
EndlessCall(h) == pc[h] = "scaling" \/ (pc[h] = "dialing" /\ key[h] \notin Workloads)

(* Every Open returns, unless a scale-up or a static dial on the same        *)
(* runtime never ends: no path leaves the runtime's mutex held, and a call   *)
(* that hangs on one runtime blocks no Open on another.                      *)
OpenReturns ==
  \A k \in {RuntimeKey(g) : g \in Grants} :
    (\A j \in Handlers : []<>~(EndlessCall(j) /\ key[j] = k)) =>
      \A h \in Handlers : (pc[h] = "waiting" /\ key[h] = k) ~> pc[h] \in {"idle", "open"}

(* Shutdown ends although handlers and callbacks compete for the mutexes,    *)
(* provided that no scale-up or static dial hangs: Serve closes the SSH      *)
(* server, and with it the contexts of these calls, before it calls Shutdown. *)
ShutdownEnds ==
  (\A j \in Handlers : []<>~EndlessCall(j)) => (shut = "draining" ~> shut = "done")

=============================================================================
