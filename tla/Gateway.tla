-------------------------------- MODULE Gateway --------------------------------
(***************************************************************************)
(* The gateway with a blueprint: logins provision environments              *)
(* (Environment) while open connections drive the scale of the workloads in *)
(* them (Lifecycle).  Both write the same field of the cluster.  Every      *)
(* blueprint workload declares spec.replicas 0 (validateScale), and         *)
(* Reconcile applies it by force at every login, so applying the object of  *)
(* a workload sets its scale to zero.  A crash may leave a call of the      *)
(* engine unanswered; its update can arrive in the life of the next process. *)
(***************************************************************************)
EXTENDS Lifecycle, Environment

CONSTANTS
  OwnerOf,       (* the identity a grant belongs to                        *)
  Blueprint,     (* the grants that come from the blueprint                *)
  PlaceOf,       (* the namespace of a workload                            *)
  ObjectOf       (* the blueprint object that declares a workload          *)

ASSUME GatewayAssumption ==
  /\ OwnerOf \in [Grants -> Identities]
  /\ Blueprint \subseteq Grants
  /\ \A g \in Blueprint :
       WorkloadOf[g] \in Workloads /\ PlaceOf[WorkloadOf[g]] = NamespaceOf[OwnerOf[g]]
  /\ PlaceOf \in [Workloads -> Namespaces]
  /\ ObjectOf \in [Workloads -> 1 .. LastObject]

gatewayVars == <<vars, envVars>>

(* Manager.ResolveService for an authenticated session: the blueprint's      *)
(* services once published, then the direct grants.                          *)
Resolves(g) ==
  /\ \E l \in Logins : login[l] = "accepted" /\ identity[l] = OwnerOf[g]
  /\ g \in Blueprint => Visible(OwnerOf[g])

(* Mutant: the rendered resources are applied without their namespace.       *)
ForcedToZeroAnywhere(ns, n) == {w \in Workloads : ObjectOf[w] = n}

(* The workloads whose replicas an applied object n of ns sets back to zero. *)
ForcedToZero(ns, n) == {w \in Workloads : PlaceOf[w] = ns /\ ObjectOf[w] = n}

(* What an applied Patch does to the scale.  A workload that it takes down   *)
(* has a new version, which outdates the updates on their way.               *)
Patched(ns, n) ==
  LET hit == {w \in ForcedToZero(ns, n) : up[w]} IN
  /\ up' = [w \in Workloads |-> up[w] /\ w \notin hit]
  /\ late' = [w \in Workloads |-> IF w \in hit THEN {} ELSE late[w]]

(* The cluster side of a login step: a Patch that was applied resets the     *)
(* replicas, in a failed call and when it comes late too; steps that send no *)
(* Patch do not.                                                             *)
LoginAndCluster(l) ==
  /\ \/ Apply(l) /\ Patched(Home(l), next[l])
     \/ /\ ApplyFails(l)
        /\ \/ UNCHANGED <<up, late>>
           \/ next[l] \in objects'[Home(l)] /\ stray' = stray /\ Patched(Home(l), next[l])
     \/ (Authenticate(l) \/ Reject(l) \/ Publish(l) \/ Disconnect(l)) /\ UNCHANGED <<up, late>>
  /\ UNCHANGED <<runtimeVars, timerVars, handlerVars, shutVars, lastScale, gaugeVars>>

LatePatchAndCluster(ns, n) ==
  /\ LatePatch(ns, n)
  /\ Patched(ns, n)
  /\ UNCHANGED <<runtimeVars, timerVars, handlerVars, shutVars, lastScale, gaugeVars>>

(* The engine runs as in Lifecycle, for grants the manager resolves.  The    *)
(* gateway leaves by a crash here; Shutdown is studied in Lifecycle alone.   *)
EngineStep ==
  /\ \/ \E h \in Handlers, g \in Grants : Resolves(g) /\ OpenResolve(h, g)
     \/ \E h \in Handlers :
          \/ OpenLock(h) \/ OpenScaleUp(h) \/ OpenDial(h) \/ OpenDialFails(h) \/ OpenUndo(h)
          \/ Release(h) \/ Return(h) \/ \E c \in Closers : Close(h, c)
     \/ \E t \in Timers : TimerStep(t)
     \/ \E w \in Workloads, running \in BOOLEAN : LateUpdate(w, running)
  /\ UNCHANGED envVars

(* The directions of the calls on w that the process has not had answered.   *)
Unanswered(w) ==
  {Direction(TRUE) : h \in {f \in Handlers : pc[f] = "scaling" /\ key[f] = w}} \cup
  {Direction(FALSE) : h \in {f \in Handlers : pc[f] = "undoing" /\ key[f] = w}} \cup
  {Direction(FALSE) : t \in {u \in Timers : timer[u] = "scaling" /\ timerKey[u] = w}}

(* The process dies: lifecycle state, sessions and published services are    *)
(* gone, the cluster keeps its objects and replicas, and the updates of the  *)
(* calls under way may still reach it.                                       *)
GatewayCrash ==
  /\ Crash
  /\ runtimes' = {}
  /\ mu' = [k \in Keys |-> Unlocked]
  /\ active' = [k \in Keys |-> 0]
  /\ scaled' = [k \in Keys |-> FALSE]
  /\ idleTimer' = [k \in Keys |-> NoTimer]
  /\ timer' = [t \in Timers |-> "free"]
  /\ pc' = [h \in Handlers |-> "idle"]
  /\ closers' = [h \in Handlers |-> {}]
  /\ shut' = "serving"
  /\ todo' = {}
  /\ expired' = FALSE
  /\ late' = [w \in Workloads |-> late[w] \cup Unanswered(w)]
  /\ lastScale' = [w \in Workloads |-> "none"]
  /\ connections' = [s \in {"static", "managed"} |-> 0]
  /\ managedWorkloads' = 0
  /\ UNCHANGED <<backend, timerKey, key, up>>

GatewayInit ==
  /\ Init
  /\ EnvInit
  /\ backend
  /\ up = [w \in Workloads |-> FALSE]

GatewayNext ==
  \/ EngineStep
  \/ \E l \in Logins : LoginAndCluster(l)
  \/ \E ns \in Namespaces, n \in Objects : LatePatchAndCluster(ns, n)
  \/ GatewayCrash

GatewaySpec == GatewayInit /\ [][GatewayNext]_gatewayVars

(* Every grant of the workload comes from the blueprint.  An operator may    *)
(* grant such a workload directly too, and then it can be started any time.  *)
OnlyByBlueprint(w) == \A g \in Grants : WorkloadOf[g] = w => g \in Blueprint

(* No workload of a blueprint is started before all objects of its           *)
(* environment are in the cluster, across failed logins and crashes.         *)
StartedMeansComplete ==
  \A w \in Workloads :
    scaled[w] /\ OnlyByBlueprint(w) => objects[PlaceOf[w]] = Objects

(* A workload in use goes down only by a Patch for its own namespace (of a   *)
(* login under way, or one that a failed login or a dead process left        *)
(* behind) or by the late update of a downscale that was never answered.     *)
(* Logins into other namespaces, timers, undone dials and what a crash left  *)
(* of the other workloads do not touch it.                                   *)
OthersLoginsAreHarmless ==
  [][\A w \in Workloads :
       active[w] > 0 /\ active'[w] > 0 /\ up[w] /\ ~up'[w] =>
         \/ <<PlaceOf[w], ObjectOf[w]>> \in InFlight \cup stray
         \/ "down" \in late[w]]_gatewayVars

(* What makes them inductive: the engine's locks work as in Lifecycle, and   *)
(* an Open on its way to a blueprint workload was resolved in a published    *)
(* environment.  Objects stay, so that is still true after a crash.          *)
OpeningMeansComplete ==
  \A h \in Handlers :
    pc[h] # "idle" /\ key[h] \in Workloads /\ OnlyByBlueprint(key[h]) =>
      objects[PlaceOf[key[h]]] = Objects

GatewayInv == LockInv /\ EnvInv /\ OpeningMeansComplete /\ StartedMeansComplete

=============================================================================
