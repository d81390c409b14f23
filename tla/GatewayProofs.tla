----------------------------- MODULE GatewayProofs -----------------------------
(***************************************************************************)
(* Proofs about Environment and about its composition with the lifecycle    *)
(* engine in Gateway, for any number of logins, identities, blueprint       *)
(* objects, connections and workloads.                                      *)
(***************************************************************************)
EXTENDS Gateway, LifecycleProofs

-----------------------------------------------------------------------------
(* Environment.                                                              *)

(* The part of EnvInv about reconciliations under way.                       *)
Progress(l) ==
  login[l] = "applying" => \A n \in Objects : n < next[l] => n \in objects[Home(l)]

(* The initial state satisfies the inductive invariant.                      *)
LEMMA InitEnvironment == EnvInit => EnvInv
  BY ObjectAssumption DEF EnvInit, EnvInv, EnvTypeOK, VisibleMeansComplete,
     AcceptedMeansVisible, Visible, Objects

(* A login works in a namespace of the cluster.                              *)
LEMMA HomeType == EnvTypeOK => \A l \in Logins : Home(l) \in Namespaces
  BY NamespaceAssumption DEF EnvTypeOK, Home

(* What nobody waits for is a set of Patches.                                *)
LEMMA StrayType ==
  ASSUME EnvTypeOK, NEW patches \in SUBSET (Namespaces \X Objects), Leave(patches)
  PROVE  stray' \subseteq Namespaces \X Objects
  BY DEF EnvTypeOK, Leave

(* A Patch adds to one namespace and removes nothing.                        *)
LEMMA CreateAdds ==
  ASSUME EnvTypeOK, NEW ns \in Namespaces, NEW n \in Objects, Create(ns, n)
  PROVE  /\ objects' \in [Namespaces -> SUBSET Objects]
         /\ n \in objects'[ns]
         /\ \A m \in Namespaces : objects[m] \subseteq objects'[m]
  BY DEF EnvTypeOK, Create

(* Adding objects keeps complete environments complete.                      *)
LEMMA GrowthKeepsComplete ==
  ASSUME EnvTypeOK, VisibleMeansComplete, services' = services,
         objects' \in [Namespaces -> SUBSET Objects],
         \A m \in Namespaces : objects[m] \subseteq objects'[m]
  PROVE  VisibleMeansComplete'
<1>1. ASSUME NEW i \in Identities, i \in services
      PROVE  objects'[NamespaceOf[i]] = Objects
  <2>1. NamespaceOf[i] \in Namespaces
    BY NamespaceAssumption
  <2>2. objects[NamespaceOf[i]] = Objects
    BY <1>1 DEF VisibleMeansComplete, Visible
  <2>3. QED
    BY <2>1, <2>2
<1>2. QED
  BY <1>1 DEF VisibleMeansComplete, Visible, Objects

(* One login's step preserves the invariant: its patches only add objects,   *)
(* and it publishes only behind its last one.                                *)
LEMMA LoginPreserves ==
  ASSUME EnvInv, NEW l \in Logins, LoginStep(l)
  PROVE  EnvInv'
<1> USE ObjectAssumption
<1>0. /\ EnvTypeOK /\ VisibleMeansComplete /\ AcceptedMeansVisible
      /\ \A m \in Logins : Progress(m)
  BY DEF EnvInv, Progress
<1>1. CASE Authenticate(l) \/ Reject(l)
  <2>1. EnvTypeOK'
    BY <1>0, <1>1 DEF Authenticate, Reject, EnvTypeOK
  <2>2. VisibleMeansComplete' /\ AcceptedMeansVisible'
    BY <1>0, <1>1 DEF Authenticate, Reject, EnvTypeOK, VisibleMeansComplete,
       AcceptedMeansVisible, Visible
  <2>3. ASSUME NEW m \in Logins
        PROVE  Progress(m)'
    <3>1. CASE m = l
      <4>1. login'[m] # "applying" \/ next'[m] = 0
        BY <1>0, <1>1, <3>1 DEF Authenticate, Reject, EnvTypeOK
      <4>2. QED
        BY <4>1 DEF Progress, Objects
    <3>2. CASE m # l
      BY <1>0, <1>1, <3>2 DEF Authenticate, Reject, EnvTypeOK, Progress, Home, Objects
    <3>3. QED
      BY <3>1, <3>2
  <2>4. QED
    BY <2>1, <2>2, <2>3 DEF EnvInv, Progress
<1>2. CASE Apply(l)
  <2>1. next[l] \in Objects /\ Home(l) \in Namespaces
    BY <1>0, <1>2, HomeType DEF Apply, EnvTypeOK, Objects
  <2>2. /\ objects' \in [Namespaces -> SUBSET Objects]
        /\ next[l] \in objects'[Home(l)]
        /\ \A m \in Namespaces : objects[m] \subseteq objects'[m]
    BY <1>0, <1>2, <2>1, CreateAdds DEF Apply
  <2>3. VisibleMeansComplete'
    BY <1>0, <1>2, <2>2, GrowthKeepsComplete DEF Apply
  <2>4. EnvTypeOK'
    BY <1>0, <1>2, <2>2 DEF Apply, EnvTypeOK
  <2>5. ASSUME NEW m \in Logins
        PROVE  Progress(m)'
    <3>1. CASE m = l
      BY <1>0, <1>2, <2>1, <2>2, <3>1 DEF Apply, Progress, EnvTypeOK, Objects, Home
    <3>2. CASE m # l
      BY <1>0, <1>2, <2>2, <3>2, HomeType DEF Apply, Progress, EnvTypeOK, Home, Objects
    <3>3. QED
      BY <3>1, <3>2
  <2>6. AcceptedMeansVisible'
    BY <1>0, <1>2 DEF Apply, AcceptedMeansVisible, Visible
  <2>7. QED
    BY <2>3, <2>4, <2>5, <2>6 DEF EnvInv, Progress
<1>3. CASE ApplyFails(l)
  <2>1. next[l] \in Objects /\ Home(l) \in Namespaces
    BY <1>0, <1>3, HomeType DEF ApplyFails, EnvTypeOK, Objects
  <2>2. /\ objects' \in [Namespaces -> SUBSET Objects]
        /\ \A m \in Namespaces : objects[m] \subseteq objects'[m]
    <3>1. CASE Create(Home(l), next[l])
      BY <1>0, <2>1, <3>1, CreateAdds
    <3>2. CASE UNCHANGED objects
      BY <1>0, <3>2 DEF EnvTypeOK
    <3>3. QED
      BY <1>3, <3>1, <3>2 DEF ApplyFails
  <2>3. VisibleMeansComplete'
    BY <1>0, <1>3, <2>2, GrowthKeepsComplete DEF ApplyFails
  <2>4. EnvTypeOK'
    <3>1. stray' \subseteq Namespaces \X Objects
      <4>1. UNCHANGED stray \/ Leave({<<Home(l), next[l]>>})
        BY <1>3 DEF ApplyFails
      <4>2. QED
        BY <1>0, <2>1, <4>1, StrayType DEF EnvTypeOK
    <3>2. QED
      BY <1>0, <1>3, <2>2, <3>1 DEF ApplyFails, EnvTypeOK
  <2>5. \A m \in Logins : Progress(m)'
    BY <1>0, <1>3, <2>2, HomeType DEF ApplyFails, Progress, EnvTypeOK, Home, Objects
  <2>6. AcceptedMeansVisible'
    BY <1>0, <1>3 DEF ApplyFails, AcceptedMeansVisible, Visible, EnvTypeOK
  <2>7. QED
    BY <2>3, <2>4, <2>5, <2>6 DEF EnvInv, Progress
<1>4. CASE Publish(l)
  <2>1. objects[Home(l)] = Objects
    <3>1. \A n \in Objects : n < next[l]
      BY <1>4 DEF Publish, Objects
    <3>2. \A n \in Objects : n \in objects[Home(l)]
      BY <1>0, <1>4, <3>1 DEF Publish, Progress
    <3>3. objects[Home(l)] \subseteq Objects
      BY <1>0, HomeType DEF EnvTypeOK
    <3>4. QED
      BY <3>2, <3>3
  <2>2. VisibleMeansComplete'
    BY <1>0, <1>4, <2>1 DEF Publish, VisibleMeansComplete, Visible, EnvTypeOK, Home, Objects
  <2>3. QED
    BY <1>0, <1>4, <2>2 DEF Publish, EnvInv, EnvTypeOK, AcceptedMeansVisible, Visible, Progress,
       Home, Objects
<1>5. CASE Disconnect(l)
  BY <1>0, <1>5 DEF Disconnect, EnvInv, EnvTypeOK, VisibleMeansComplete,
     AcceptedMeansVisible, Visible, Progress, Home, Objects
<1>6. QED
  BY <1>1, <1>2, <1>3, <1>4, <1>5 DEF LoginStep

(* The invariant is inductive: a crash forgets services and logins together. *)
LEMMA NextEnvironment == EnvInv /\ [EnvNext]_envVars => EnvInv'
<1> SUFFICES ASSUME EnvInv, [EnvNext]_envVars
             PROVE  EnvInv'
  OBVIOUS
<1>0. EnvTypeOK
  BY DEF EnvInv
<1>1. CASE Crash
  <2>1. InFlight \subseteq Namespaces \X Objects
    BY <1>0, HomeType DEF InFlight
  <2>2. stray' \subseteq Namespaces \X Objects
    BY <1>0, <1>1, <2>1, StrayType DEF Crash
  <2>3. QED
    BY <1>1, <2>2 DEF Crash, EnvInv, EnvTypeOK, VisibleMeansComplete, AcceptedMeansVisible, Visible
<1>2. ASSUME NEW l \in Logins, LoginStep(l)
      PROVE  EnvInv'
  BY <1>2, LoginPreserves
<1>3. ASSUME NEW ns \in Namespaces, NEW n \in Objects, LatePatch(ns, n)
      PROVE  EnvInv'
  <2>1. /\ objects' \in [Namespaces -> SUBSET Objects]
        /\ \A m \in Namespaces : objects[m] \subseteq objects'[m]
    BY <1>0, <1>3, CreateAdds DEF LatePatch
  <2>2. VisibleMeansComplete'
    BY <1>0, <1>3, <2>1, GrowthKeepsComplete DEF LatePatch, EnvInv
  <2>3. EnvTypeOK' /\ AcceptedMeansVisible'
    BY <1>0, <1>3, <2>1 DEF LatePatch, EnvInv, EnvTypeOK, AcceptedMeansVisible, Visible
  <2>4. \A l \in Logins : Progress(l)'
    BY <1>0, <1>3, <2>1, HomeType DEF LatePatch, EnvInv, Progress, Home, Objects
  <2>5. QED
    BY <2>2, <2>3, <2>4 DEF EnvInv, Progress
<1>4. CASE UNCHANGED envVars
  BY <1>4 DEF envVars, EnvInv, EnvTypeOK, VisibleMeansComplete, AcceptedMeansVisible, Visible, Home, Objects
<1>5. QED
  BY <1>1, <1>2, <1>3, <1>4 DEF EnvNext

(* Blueprint services are visible only in a completely applied environment,  *)
(* for every blueprint, every failed Patch and every crash.                  *)
THEOREM PublishedEnvironmentsAreComplete == EnvSpec => []VisibleMeansComplete
<1>1. EnvInv => VisibleMeansComplete
  BY DEF EnvInv
<1>2. QED
  BY <1>1, InitEnvironment, NextEnvironment, PTL DEF EnvSpec

(* An accepted login finds its environment's services while it lasts.        *)
THEOREM AcceptedLoginsSeeServices == EnvSpec => []AcceptedMeansVisible
<1>1. EnvInv => AcceptedMeansVisible
  BY DEF EnvInv
<1>2. QED
  BY <1>1, InitEnvironment, NextEnvironment, PTL DEF EnvSpec

(* The environment is well typed: a login's position never passes the last   *)
(* object by more than one.                                                  *)
THEOREM EnvironmentTypes == EnvSpec => []EnvTypeOK
<1>1. EnvInv => EnvTypeOK
  BY DEF EnvInv
<1>2. QED
  BY <1>1, InitEnvironment, NextEnvironment, PTL DEF EnvSpec

-----------------------------------------------------------------------------
(* Gateway.                                                                  *)

(* The engine's steps in the composition are steps of Lifecycle.             *)
LEMMA EngineSteps == EngineStep => Next /\ UNCHANGED envVars
  BY DEF EngineStep, Next, HandlerStep

(* A login's step in the composition is a step of Environment, and of the    *)
(* engine's variables it changes the cluster's scale at most.                *)
LEMMA LoginSteps ==
  ASSUME \/ \E l \in Logins : LoginAndCluster(l)
         \/ \E ns \in Namespaces, n \in Objects : LatePatchAndCluster(ns, n)
  PROVE  /\ EnvNext
         /\ UNCHANGED <<runtimeVars, timerVars, handlerVars, shutVars, lastScale, gaugeVars>>
         /\ TypeOK => /\ up' \in [Workloads -> BOOLEAN]
                      /\ late' \in [Workloads -> SUBSET {"up", "down"}]
<1>1. EnvNext /\ UNCHANGED <<runtimeVars, timerVars, handlerVars, shutVars, lastScale, gaugeVars>>
  BY DEF LoginAndCluster, LatePatchAndCluster, LoginStep, EnvNext
<1>2. ASSUME TypeOK
      PROVE  /\ up' \in [Workloads -> BOOLEAN]
             /\ late' \in [Workloads -> SUBSET {"up", "down"}]
  <2>1. ASSUME NEW ns, NEW n, Patched(ns, n)
        PROVE  /\ up' \in [Workloads -> BOOLEAN]
               /\ late' \in [Workloads -> SUBSET {"up", "down"}]
    <3>1. up' \in [Workloads -> BOOLEAN]
      BY <1>2, <2>1, Zenon DEF TypeOK, Patched
    <3>2. late' \in [Workloads -> SUBSET {"up", "down"}]
      BY <1>2, <2>1 DEF TypeOK, Patched
    <3>3. QED
      BY <3>1, <3>2
  <2>2. UNCHANGED <<up, late>> \/ \E ns, n : Patched(ns, n)
    BY DEF LoginAndCluster, LatePatchAndCluster
  <2>3. QED
    BY <1>2, <2>1, <2>2 DEF TypeOK
<1>3. QED
  BY <1>1, <1>2

(* Every step of the composition is a step of Environment or leaves its      *)
(* variables alone.                                                          *)
LEMMA GatewayStepIsEnvironment == [GatewayNext]_gatewayVars => [EnvNext]_envVars
  BY EngineSteps, LoginSteps DEF GatewayNext, GatewayCrash, EnvNext, gatewayVars

(* Nothing in the composition removes an object.                             *)
LEMMA ObjectsStay ==
  ASSUME EnvInv, [GatewayNext]_gatewayVars, NEW ns \in Namespaces, objects[ns] = Objects
  PROVE  objects'[ns] = Objects
<1>0. EnvTypeOK /\ EnvTypeOK'
  BY GatewayStepIsEnvironment, NextEnvironment DEF EnvInv
<1>1. [EnvNext]_envVars
  BY GatewayStepIsEnvironment
<1>2. objects[ns] \subseteq objects'[ns]
  <2>1. ASSUME NEW l \in Logins, LoginStep(l)
        PROVE  objects[ns] \subseteq objects'[ns]
    <3>1. CASE Apply(l) \/ ApplyFails(l)
      BY <1>0, <3>1 DEF Apply, ApplyFails, Create, EnvTypeOK
    <3>2. CASE Authenticate(l) \/ Reject(l) \/ Publish(l) \/ Disconnect(l)
      BY <3>2 DEF Authenticate, Reject, Publish, Disconnect
    <3>3. QED
      BY <2>1, <3>1, <3>2 DEF LoginStep
  <2>2. ASSUME NEW m \in Namespaces, NEW n \in Objects, LatePatch(m, n)
        PROVE  objects[ns] \subseteq objects'[ns]
    BY <1>0, <2>2 DEF LatePatch, Create, EnvTypeOK
  <2>3. QED
    BY <1>1, <2>1, <2>2 DEF EnvNext, Crash, envVars
<1>3. QED
  BY <1>0, <1>2 DEF EnvTypeOK

(* A crash leaves the engine as after a start, but for the cluster.          *)
LEMMA CrashLocks == LockInv /\ GatewayCrash => LockInv'
<1> SUFFICES ASSUME LockInv, GatewayCrash
             PROVE  LockInv'
  OBVIOUS
<1>1. TypeOK'
  <2>1. /\ runtimes' \subseteq Keys
        /\ scaled' \in [Keys -> BOOLEAN]
        /\ expired' \in BOOLEAN
    BY Zenon DEF GatewayCrash
  <2>2. /\ mu' \in [Keys -> Handlers \cup Timers \cup {Unlocked, ShutdownTask}]
        /\ active' \in [Keys -> Nat]
        /\ idleTimer' \in [Keys -> Timers \cup {NoTimer}]
        /\ timer' \in [Timers -> {"free", "pending", "fired", "scaling"}]
        /\ pc' \in [Handlers -> {"idle", "waiting", "closed"} \cup OpenSteps \cup Connected]
        /\ closers' \in [Handlers -> SUBSET Closers]
    BY DEF GatewayCrash
  <2>3. /\ shut' \in {"serving", "draining", "done"}
        /\ todo' \in SUBSET Keys
        /\ lastScale' \in [Workloads -> {"none", "ok", "failed"}]
        /\ connections' \in [{"static", "managed"} -> Int]
        /\ managedWorkloads' \in Int
    BY DEF GatewayCrash
  <2>4. /\ backend' \in BOOLEAN /\ up' \in [Workloads -> BOOLEAN]
        /\ timerKey' \in [Timers -> Keys] /\ key' \in [Handlers -> Keys]
    BY Zenon DEF GatewayCrash, LockInv, TypeOK
  <2>5. late' \in [Workloads -> SUBSET {"up", "down"}]
    <3>1. \A w \in Workloads : Unanswered(w) \subseteq {"up", "down"}
      BY DEF Unanswered, Direction
    <3>2. QED
      BY <3>1 DEF GatewayCrash, LockInv, TypeOK
  <2>6. QED
    BY <2>1, <2>2, <2>3, <2>4, <2>5 DEF TypeOK
<1>2. MutexInv'
  BY ActorAssumption DEF GatewayCrash, MutexInv, OpenSteps, InShutdown
<1>3. HolderInv'
  BY <1>1, ActorAssumption DEF GatewayCrash, HolderInv
<1>4. QED
  BY <1>1, <1>2, <1>3 DEF LockInv

(* The engine's locks work in the composition as they do alone: logins and   *)
(* crashes do not touch them.                                                *)
LEMMA GatewayLocks == LockInv /\ [GatewayNext]_gatewayVars => LockInv'
<1> SUFFICES ASSUME LockInv, [GatewayNext]_gatewayVars
             PROVE  LockInv'
  OBVIOUS
<1>1. CASE EngineStep
  BY <1>1, EngineSteps, NextLocks
<1>2. ASSUME \/ \E l \in Logins : LoginAndCluster(l)
             \/ \E ns \in Namespaces, n \in Objects : LatePatchAndCluster(ns, n)
      PROVE  LockInv'
  <2>1. TypeOK'
    BY <1>2, LoginSteps DEF LockInv, TypeOK, runtimeVars, timerVars, handlerVars, shutVars, gaugeVars
  <2>2. MutexInv' /\ HolderInv'
    BY <1>2, LoginSteps DEF LockInv, MutexInv, HolderInv, InShutdown, runtimeVars, timerVars,
       handlerVars, shutVars
  <2>3. QED
    BY <2>1, <2>2 DEF LockInv
<1>3. CASE GatewayCrash
  BY <1>3, CrashLocks
<1>4. CASE UNCHANGED gatewayVars
  <2>1. UNCHANGED vars
    BY <1>4 DEF gatewayVars
  <2>2. QED
    BY <2>1, NextLocks
<1>5. QED
  BY <1>1, <1>2, <1>3, <1>4 DEF GatewayNext

(* Only an Open that holds the mutex for its scale-up sets scaled.           *)
LEMMA OnlyOpenStarts ==
  ASSUME LockInv, Next, NEW w \in Workloads, scaled'[w], ~scaled[w]
  PROVE  \E h \in Handlers : pc[h] = "scaling" /\ key[h] = w
<1> USE DEF LockInv, TypeOK, Keys, runtimeVars, timerVars, handlerVars, shutVars, clusterVars, gaugeVars
<1>1. ASSUME NEW h \in Handlers, HandlerStep(h)
      PROVE  pc[h] = "scaling" /\ key[h] = w
  <2>1. CASE OpenScaleUp(h)
    BY <1>1, <2>1 DEF OpenScaleUp, MarkStarted
  <2>2. CASE OpenUndo(h)
    BY <1>1, <2>2 DEF OpenUndo, MarkStopped
  <2>3. CASE ~(OpenScaleUp(h) \/ OpenUndo(h))
    <3>1. UNCHANGED scaled
      BY <1>1, <2>3 DEF HandlerStep, OpenResolve, OpenLock, OpenDial, OpenDialFails, Close, Release, Return
    <3>2. QED
      BY <3>1
  <2>4. QED
    BY <2>1, <2>2, <2>3
<1>2. ASSUME NEW t \in Timers, TimerStep(t)
      PROVE  FALSE
  BY <1>2 DEF TimerStep, TimerFires, CallbackLock, CallbackScaleDown, MarkStopped
<1>3. CASE ShutdownStep
  BY <1>3 DEF ShutdownStep, ShutdownBegin, ShutdownLock, ShutdownScaleDown, ShutdownExpires,
     ShutdownEnd, MarkStopped
<1>4. ASSUME NEW v \in Workloads, NEW b \in BOOLEAN, LateUpdate(v, b)
      PROVE  FALSE
  BY <1>4 DEF LateUpdate
<1>5. QED
  BY <1>1, <1>2, <1>3, <1>4 DEF Next

(* An Open gets on its way by OpenResolve only, for a grant that resolves.   *)
LEMMA OnlyResolveBegins ==
  ASSUME LockInv, EngineStep, NEW h \in Handlers, pc'[h] # "idle"
  PROVE  \/ pc[h] # "idle" /\ key'[h] = key[h]
         \/ \E g \in Grants : Resolves(g) /\ key'[h] = RuntimeKey(g)
<1> USE DEF LockInv, TypeOK, runtimeVars, timerVars, handlerVars, shutVars, clusterVars, gaugeVars
<1>1. ASSUME NEW f \in Handlers, NEW g \in Grants, Resolves(g), OpenResolve(f, g)
      PROVE  \/ pc[h] # "idle" /\ key'[h] = key[h]
             \/ Resolves(g) /\ key'[h] = RuntimeKey(g)
  BY <1>1, RuntimeKeyType DEF OpenResolve, Goto
<1>2. ASSUME NEW f \in Handlers,
             \/ OpenLock(f) \/ OpenScaleUp(f) \/ OpenDial(f) \/ OpenDialFails(f) \/ OpenUndo(f)
             \/ Release(f) \/ Return(f) \/ \E c \in Closers : Close(f, c)
      PROVE  pc[h] # "idle" /\ key'[h] = key[h]
  <2>1. CASE OpenLock(f) \/ OpenScaleUp(f)
    BY <2>1 DEF OpenLock, OpenScaleUp, Goto
  <2>2. CASE OpenDial(f) \/ OpenDialFails(f) \/ OpenUndo(f)
    BY <2>2 DEF OpenDial, OpenDialFails, OpenUndo, Goto
  <2>3. CASE Release(f) \/ Return(f) \/ \E c \in Closers : Close(f, c)
    BY <2>3 DEF Release, Return, Close, Goto
  <2>4. QED
    BY <1>2, <2>1, <2>2, <2>3
<1>3. ASSUME NEW t \in Timers, TimerStep(t)
      PROVE  pc[h] # "idle" /\ key'[h] = key[h]
  BY <1>3 DEF TimerStep, TimerFires, CallbackLock, CallbackScaleDown
<1>4. ASSUME NEW v \in Workloads, NEW b \in BOOLEAN, LateUpdate(v, b)
      PROVE  pc[h] # "idle" /\ key'[h] = key[h]
  BY <1>4 DEF LateUpdate
<1>5. QED
  BY <1>1, <1>2, <1>3, <1>4 DEF EngineStep

(* A grant that resolves to a workload only the blueprint names belongs to a *)
(* published environment.                                                    *)
LEMMA ResolvedIsComplete ==
  ASSUME EnvInv, NEW g \in Grants, Resolves(g), RuntimeKey(g) \in Workloads,
         OnlyByBlueprint(RuntimeKey(g))
  PROVE  objects[PlaceOf[RuntimeKey(g)]] = Objects
<1>1. WorkloadOf[g] = RuntimeKey(g)
  BY GrantAssumption DEF RuntimeKey
<1>2. g \in Blueprint
  BY <1>1 DEF OnlyByBlueprint
<1>3. PlaceOf[RuntimeKey(g)] = NamespaceOf[OwnerOf[g]] /\ OwnerOf[g] \in Identities
  BY <1>1, <1>2, GatewayAssumption
<1>4. QED
  BY <1>2, <1>3 DEF Resolves, EnvInv, VisibleMeansComplete

(* The composition starts in its invariant.                                  *)
LEMMA InitGateway == GatewayInit => GatewayInv
<1> SUFFICES ASSUME GatewayInit
             PROVE  GatewayInv
  OBVIOUS
<1>1. LockInv
  BY InitInv DEF GatewayInit, IInv, LockInv
<1>2. EnvInv
  BY InitEnvironment DEF GatewayInit
<1>3. OpeningMeansComplete /\ StartedMeansComplete
  BY DEF GatewayInit, Init, OpeningMeansComplete, StartedMeansComplete, Keys
<1>4. QED
  BY <1>1, <1>2, <1>3 DEF GatewayInv

(* Every step of the composition preserves the invariant.                    *)
LEMMA NextGateway == GatewayInv /\ [GatewayNext]_gatewayVars => GatewayInv'
<1> SUFFICES ASSUME GatewayInv, [GatewayNext]_gatewayVars
             PROVE  GatewayInv'
  OBVIOUS
<1>0. /\ LockInv /\ EnvInv /\ OpeningMeansComplete /\ StartedMeansComplete
      /\ LockInv' /\ EnvInv'
  BY GatewayLocks, GatewayStepIsEnvironment, NextEnvironment DEF GatewayInv
<1>1. \A w \in Workloads : PlaceOf[w] \in Namespaces
  BY GatewayAssumption
<1>2. \A w \in Workloads :
        objects[PlaceOf[w]] = Objects => objects'[PlaceOf[w]] = Objects
  BY <1>0, <1>1, ObjectsStay
<1>3. OpeningMeansComplete'
  <2> SUFFICES ASSUME NEW h \in Handlers, pc'[h] # "idle", key'[h] \in Workloads,
                      OnlyByBlueprint(key'[h])
               PROVE  objects'[PlaceOf[key'[h]]] = Objects
    BY DEF OpeningMeansComplete, OnlyByBlueprint, Objects
  <2>1. CASE pc[h] # "idle" /\ key'[h] = key[h]
    BY <1>0, <1>2, <2>1 DEF OpeningMeansComplete
  <2>2. CASE EngineStep
    BY <1>0, <1>2, <2>1, <2>2, OnlyResolveBegins, ResolvedIsComplete
  <2>3. ASSUME \/ \E l \in Logins : LoginAndCluster(l)
               \/ \E ns \in Namespaces, n \in Objects : LatePatchAndCluster(ns, n)
        PROVE  pc[h] # "idle" /\ key'[h] = key[h]
    BY <2>3, LoginSteps DEF handlerVars
  <2>4. ASSUME GatewayCrash
        PROVE  FALSE
    BY <2>4 DEF GatewayCrash
  <2>5. ASSUME UNCHANGED gatewayVars
        PROVE  pc[h] # "idle" /\ key'[h] = key[h]
    BY <2>5 DEF gatewayVars, vars, handlerVars
  <2>6. QED
    BY <2>1, <2>2, <2>3, <2>4, <2>5 DEF GatewayNext
<1>4. StartedMeansComplete'
  <2> SUFFICES ASSUME NEW w \in Workloads, scaled'[w], OnlyByBlueprint(w)
               PROVE  objects'[PlaceOf[w]] = Objects
    BY DEF StartedMeansComplete, OnlyByBlueprint, Objects
  <2>1. CASE scaled[w]
    BY <1>0, <1>2, <2>1 DEF StartedMeansComplete
  <2>2. CASE EngineStep /\ ~scaled[w]
    <3>1. PICK h \in Handlers : pc[h] = "scaling" /\ key[h] = w
      BY <1>0, <2>2, EngineSteps, OnlyOpenStarts
    <3>2. QED
      BY <1>0, <1>2, <3>1 DEF OpeningMeansComplete
  <2>3. ASSUME \/ \E l \in Logins : LoginAndCluster(l)
               \/ \E ns \in Namespaces, n \in Objects : LatePatchAndCluster(ns, n)
        PROVE  scaled[w]
    BY <2>3, LoginSteps DEF runtimeVars
  <2>4. ASSUME GatewayCrash
        PROVE  FALSE
    BY <2>4 DEF GatewayCrash, Keys
  <2>5. ASSUME UNCHANGED gatewayVars
        PROVE  scaled[w]
    BY <2>5 DEF gatewayVars, vars, runtimeVars
  <2>6. QED
    BY <2>1, <2>2, <2>3, <2>4, <2>5 DEF GatewayNext
<1>5. QED
  BY <1>0, <1>3, <1>4 DEF GatewayInv

(* The composition implements Environment: what was proved about logins      *)
(* holds beside the engine and across the crashes of the whole process.      *)
THEOREM GatewayRefinesEnvironment == GatewaySpec => EnvSpec
<1>1. GatewayInit => EnvInit
  BY DEF GatewayInit
<1>2. QED
  BY <1>1, GatewayStepIsEnvironment, PTL DEF GatewaySpec, EnvSpec

(* A workload that only the blueprint names is started only in a complete    *)
(* environment, whatever logins fail and wherever the gateway crashes.       *)
THEOREM StartedInCompleteEnvironments == GatewaySpec => []StartedMeansComplete
<1>1. GatewayInv => StartedMeansComplete
  BY DEF GatewayInv
<1>2. QED
  BY <1>1, InitGateway, NextGateway, PTL DEF GatewaySpec

(* The engine stops a workload in use only by an update that was on its way: *)
(* whoever scales down holds the mutex and has seen the count at zero.       *)
LEMMA EngineStopsUnused ==
  ASSUME LockInv, EngineStep, NEW w \in Workloads, active[w] > 0, "down" \notin late[w]
  PROVE  up[w] => up'[w]
<1> USE DEF LockInv, TypeOK, Keys, runtimeVars, timerVars, handlerVars, shutVars, clusterVars, gaugeVars
<1>0. ASSUME NEW k \in Workloads, NEW b \in BOOLEAN, ScaleOK(k, b) \/ ScaleErr(k, b), b \/ k # w
      PROVE  up[w] => up'[w]
  BY <1>0 DEF ScaleOK, ScaleErr, Store
<1>1. ASSUME NEW h \in Handlers, OpenScaleUp(h)
      PROVE  up[w] => up'[w]
  <2>1. key[h] \in Workloads
    BY <1>1 DEF OpenScaleUp, HolderInv
  <2>2. QED
    BY <1>0, <1>1, <2>1 DEF OpenScaleUp
<1>2. ASSUME NEW h \in Handlers, OpenUndo(h)
      PROVE  up[w] => up'[w]
  <2>1. key[h] \in Workloads /\ key[h] # w
    BY <1>2 DEF OpenUndo, HolderInv
  <2>2. QED
    BY <1>0, <1>2, <2>1 DEF OpenUndo
<1>3. ASSUME NEW t \in Timers, CallbackScaleDown(t)
      PROVE  up[w] => up'[w]
  <2>1. timerKey[t] \in Workloads /\ timerKey[t] # w
    BY <1>3 DEF CallbackScaleDown, HolderInv
  <2>2. QED
    BY <1>0, <1>3, <2>1 DEF CallbackScaleDown
<1>4. ASSUME NEW v \in Workloads, NEW b \in BOOLEAN, LateUpdate(v, b)
      PROVE  up[w] => up'[w]
  BY <1>4 DEF LateUpdate, Store, Direction
<1>5. CASE UNCHANGED up
  BY <1>5
<1>6. QED
  BY <1>1, <1>2, <1>3, <1>4, <1>5 DEF EngineStep, OpenResolve, OpenLock, OpenDial, OpenDialFails,
     Release, Return, Close, TimerStep, TimerFires, CallbackLock

(* A workload in use is taken down by a Patch for its own namespace, sent by *)
(* a login under way or left behind by a failed one or by a dead process, or *)
(* by the update of a downscale that was never answered, and by nothing      *)
(* else, for any identities and any map of identities to namespaces.         *)
THEOREM OthersAreHarmless == GatewaySpec => OthersLoginsAreHarmless
<1> DEFINE Harmless ==
      \A w \in Workloads :
        active[w] > 0 /\ active'[w] > 0 /\ up[w] /\ ~up'[w] =>
          \/ <<PlaceOf[w], ObjectOf[w]>> \in InFlight \cup stray
          \/ "down" \in late[w]
<1>1. GatewayInv /\ [GatewayNext]_gatewayVars => [Harmless]_gatewayVars
  <2> SUFFICES ASSUME GatewayInv, [GatewayNext]_gatewayVars, NEW w \in Workloads,
                      active[w] > 0, active'[w] > 0, up[w], ~up'[w], "down" \notin late[w]
               PROVE  <<PlaceOf[w], ObjectOf[w]>> \in InFlight \cup stray
    OBVIOUS
  <2>1. ASSUME EngineStep
        PROVE  FALSE
    BY <2>1, EngineStopsUnused DEF GatewayInv
  <2>2. ASSUME NEW ns, NEW n, Patched(ns, n)
        PROVE  PlaceOf[w] = ns /\ ObjectOf[w] = n
    BY <2>2 DEF Patched, ForcedToZero
  <2>3. ASSUME NEW l \in Logins, LoginAndCluster(l)
        PROVE  <<PlaceOf[w], ObjectOf[w]>> \in InFlight
    <3>1. login[l] = "applying" /\ next[l] <= LastObject /\ Patched(Home(l), next[l])
      BY <2>3 DEF LoginAndCluster, Apply, ApplyFails
    <3>2. next[l] \in Objects
      BY <3>1, ObjectAssumption DEF GatewayInv, EnvInv, EnvTypeOK, Objects
    <3>3. QED
      BY <2>2, <3>1, <3>2 DEF InFlight
  <2>4. ASSUME NEW ns \in Namespaces, NEW n \in Objects, LatePatchAndCluster(ns, n)
        PROVE  <<PlaceOf[w], ObjectOf[w]>> \in stray
    BY <2>2, <2>4 DEF LatePatchAndCluster, LatePatch
  <2>5. ASSUME GatewayCrash \/ UNCHANGED gatewayVars
        PROVE  FALSE
    BY <2>5 DEF GatewayCrash, gatewayVars, vars, clusterVars
  <2>6. QED
    BY <2>1, <2>3, <2>4, <2>5 DEF GatewayNext
<1>2. QED
  BY <1>1, InitGateway, NextGateway, PTL DEF GatewaySpec, OthersLoginsAreHarmless

-----------------------------------------------------------------------------
(* What the engine promises alone and keeps while logins write its           *)
(* workloads and the process dies.  InUseMeansUp is not among it.            *)

(* A step of the gateway is a step of the engine, the process's death, or    *)
(* leaves everything alone that the engine keeps.                            *)
LEMMA GatewaySteps ==
  ASSUME [GatewayNext]_gatewayVars
  PROVE  \/ [Next]_vars
         \/ GatewayCrash
         \/ UNCHANGED <<runtimeVars, timerVars, handlerVars, lastScale>>
  BY EngineSteps, LoginSteps DEF GatewayNext, gatewayVars

(* The engine's locks work as they do alone.                                 *)
LEMMA GatewayIsLocked == GatewaySpec => []LockInv
<1>1. GatewayInv => LockInv
  BY DEF GatewayInv
<1>2. QED
  BY <1>1, InitGateway, NextGateway, PTL DEF GatewaySpec

(* runtime.active stays exact across logins and crashes: a connection is     *)
(* counted in the process that opened it, and in no later one.               *)
THEOREM ActiveIsExactInGateway == GatewaySpec => []ActiveExact
<1>1. GatewayInit => ActiveExact
  BY InitActive DEF GatewayInit
<1>2. ASSUME LockInv, ActiveExact, [GatewayNext]_gatewayVars
      PROVE  ActiveExact'
  <2>1. CASE [Next]_vars
    BY <1>2, <2>1, NextActive DEF LockInv
  <2>2. CASE GatewayCrash
    <3> SUFFICES ASSUME NEW k \in Keys PROVE active'[k] = Cardinality(Users(k)')
      BY DEF ActiveExact
    <3>1. Users(k)' = {} /\ active'[k] = 0
      BY <2>2 DEF GatewayCrash, Users, Connected
    <3>2. QED
      BY <3>1, FS_EmptySet
  <2>3. CASE UNCHANGED <<runtimeVars, timerVars, handlerVars, lastScale>>
    BY <1>2, <2>3 DEF runtimeVars, handlerVars, ActiveExact, Users
  <2>4. QED
    BY <1>2, <2>1, <2>2, <2>3, GatewaySteps
<1>3. QED
  BY <1>1, <1>2, GatewayIsLocked, PTL DEF GatewaySpec

(* An idle workload that this process started has a callback that will look  *)
(* at it, also if a login took the workload down in between.                 *)
THEOREM NoLostWakeupInGateway == GatewaySpec => []IdleHasCallback
<1>1. GatewayInit => IdleHasCallback
  BY DEF GatewayInit, Init, IdleHasCallback
<1>2. ASSUME LockInv, IdleHasCallback, [GatewayNext]_gatewayVars
      PROVE  IdleHasCallback'
  <2>1. CASE [Next]_vars
    BY <1>2, <2>1, NextIdle
  <2>2. CASE GatewayCrash
    BY <2>2 DEF GatewayCrash, IdleHasCallback
  <2>3. CASE UNCHANGED <<runtimeVars, timerVars, handlerVars, lastScale>>
    BY <1>2, <2>3 DEF runtimeVars, timerVars, IdleHasCallback
  <2>4. QED
    BY <1>2, <2>1, <2>2, <2>3, GatewaySteps
<1>3. QED
  BY <1>1, <1>2, GatewayIsLocked, PTL DEF GatewaySpec

=============================================================================
