---------------------------- MODULE LifecycleProofs ----------------------------
(***************************************************************************)
(* Proofs about Lifecycle for any handlers, grants, workloads and timers.   *)
(***************************************************************************)
EXTENDS Lifecycle, FiniteSetTheorems, TLAPS

(* runtime() always names a runtime of the gateway.                          *)
LEMMA RuntimeKeyType == \A g \in Grants : RuntimeKey(g) \in Keys
  BY GrantAssumption DEF RuntimeKey, Keys

(* The effects shared by the operations keep the types of what they assign.  *)
LEMMA EffectTypes ==
  ASSUME TypeOK
  PROVE  /\ \A k \in Keys, b \in BOOLEAN :
              ScaleOK(k, b) \/ ScaleErr(k, b) =>
                /\ up' \in [Workloads -> BOOLEAN]
                /\ late' \in [Workloads -> SUBSET {"up", "down"}]
                /\ lastScale' \in [Workloads -> {"none", "ok", "failed"}]
         /\ \A k \in Keys :
              MarkStarted(k) \/ MarkStopped(k) =>
                scaled' \in [Keys -> BOOLEAN] /\ managedWorkloads' \in Int
         /\ \A k \in Keys :
              StopTimer(k) \/ ArmTimer(k) =>
                /\ idleTimer' \in [Keys -> Timers \cup {NoTimer}]
                /\ timer' \in [Timers -> {"free", "pending", "fired", "scaling"}]
                /\ timerKey' \in [Timers -> Keys]
  <1>1. ASSUME NEW k \in Keys, NEW b \in BOOLEAN, ScaleOK(k, b) \/ ScaleErr(k, b)
        PROVE  /\ up' \in [Workloads -> BOOLEAN]
               /\ late' \in [Workloads -> SUBSET {"up", "down"}]
               /\ lastScale' \in [Workloads -> {"none", "ok", "failed"}]
    BY <1>1 DEF TypeOK, ScaleOK, ScaleErr, Store, Direction
  <1>2. ASSUME NEW k \in Keys, MarkStarted(k) \/ MarkStopped(k)
        PROVE  scaled' \in [Keys -> BOOLEAN] /\ managedWorkloads' \in Int
    <2>1. scaled' \in [Keys -> BOOLEAN]
      BY <1>2, Zenon DEF TypeOK, MarkStarted, MarkStopped
    <2>2. managedWorkloads' \in Int
      BY <1>2 DEF TypeOK, MarkStarted, MarkStopped
    <2> QED BY <2>1, <2>2
  <1>3. ASSUME NEW k \in Keys, StopTimer(k) \/ ArmTimer(k)
        PROVE  /\ idleTimer' \in [Keys -> Timers \cup {NoTimer}]
               /\ timer' \in [Timers -> {"free", "pending", "fired", "scaling"}]
               /\ timerKey' \in [Timers -> Keys]
    BY <1>3 DEF TypeOK, StopTimer, ArmTimer, FreeTimers
  <1> QED BY <1>1, <1>2, <1>3

(* The initial state of the gateway is well typed.                           *)
LEMMA InitType == Init => TypeOK
  <1>1. Keys # {}
    BY KeysAssumption DEF Keys
  <1>2. ASSUME Init
        PROVE  /\ key \in [Handlers -> Keys]
               /\ timerKey \in [Timers -> Keys]
    <2>1. (CHOOSE k \in Keys : TRUE) \in Keys
      BY <1>1
    <2> QED BY <1>2, <2>1 DEF Init
  <1>3. ASSUME Init
        PROVE  /\ runtimes \subseteq Keys
               /\ scaled \in [Keys -> BOOLEAN]
               /\ up \in [Workloads -> BOOLEAN]
               /\ backend \in BOOLEAN /\ expired \in BOOLEAN
    BY <1>3, Zenon DEF Init
  <1>4. ASSUME Init
        PROVE  /\ mu \in [Keys -> Handlers \cup Timers \cup {Unlocked, ShutdownTask}]
               /\ active \in [Keys -> Nat]
               /\ idleTimer \in [Keys -> Timers \cup {NoTimer}]
               /\ timer \in [Timers -> {"free", "pending", "fired", "scaling"}]
               /\ pc \in [Handlers -> {"idle", "waiting", "closed"} \cup OpenSteps \cup Connected]
               /\ closers \in [Handlers -> SUBSET Closers]
    BY <1>4 DEF Init
  <1>5. ASSUME Init
        PROVE  /\ shut \in {"serving", "draining", "done"}
               /\ todo \in SUBSET Keys
               /\ late \in [Workloads -> SUBSET {"up", "down"}]
               /\ lastScale \in [Workloads -> {"none", "ok", "failed"}]
               /\ connections \in [{"static", "managed"} -> Int]
               /\ managedWorkloads \in Int
    BY <1>5 DEF Init
  <1> QED BY <1>2, <1>3, <1>4, <1>5 DEF TypeOK

(* Every step of a handler, a callback or Shutdown keeps the types.          *)
LEMMA NextType == TypeOK /\ [Next]_vars => TypeOK'
  <1> SUFFICES ASSUME TypeOK, [Next]_vars PROVE TypeOK'
    OBVIOUS
  <1> USE DEF runtimeVars, timerVars, handlerVars, shutVars, clusterVars, gaugeVars
  <1>0. Workloads \subseteq Keys /\ \A k : ServiceType(k) \in {"static", "managed"}
    BY DEF Keys, ServiceType
  <1>1. ASSUME NEW h \in Handlers, NEW g \in Grants, OpenResolve(h, g) PROVE TypeOK'
    BY <1>1, RuntimeKeyType DEF TypeOK, OpenResolve, Goto
  <1>2. ASSUME NEW h \in Handlers, OpenLock(h) PROVE TypeOK'
    <2>1. key[h] \in Keys
      BY DEF TypeOK
    <2>2. StopTimer(key[h])
      BY <1>2 DEF OpenLock
    <2>3. /\ mu' = mu \/ mu' = [mu EXCEPT ![key[h]] = h]
          /\ \E label \in {"idle", "scaling", "dialing"} : pc' = [pc EXCEPT ![h] = label]
          /\ UNCHANGED <<runtimes, backend, active, scaled, key, closers, shutVars, clusterVars, gaugeVars>>
      BY <1>2 DEF OpenLock, Goto, Lock
    <2>4. /\ idleTimer' \in [Keys -> Timers \cup {NoTimer}]
          /\ timer' \in [Timers -> {"free", "pending", "fired", "scaling"}]
          /\ timerKey' \in [Timers -> Keys]
      BY <2>1, <2>2, EffectTypes
    <2>5. mu' \in [Keys -> Handlers \cup Timers \cup {Unlocked, ShutdownTask}]
      BY <2>1, <2>3 DEF TypeOK
    <2>6. pc' \in [Handlers -> {"idle", "waiting", "closed"} \cup OpenSteps \cup Connected]
      BY <2>3 DEF TypeOK, OpenSteps
    <2> QED BY <2>3, <2>4, <2>5, <2>6 DEF TypeOK
  <1>3. ASSUME NEW h \in Handlers, OpenScaleUp(h) PROVE TypeOK'
    <2>1. key[h] \in Keys
      BY DEF TypeOK
    <2> QED BY <1>3, <2>1, EffectTypes DEF TypeOK, OpenScaleUp, Goto, Unlock, OpenSteps
  <1>4. ASSUME NEW h \in Handlers, OpenDial(h) PROVE TypeOK'
    BY <1>4, <1>0 DEF TypeOK, OpenDial, Goto, Unlock, Connected
  <1>5. ASSUME NEW h \in Handlers, OpenDialFails(h) PROVE TypeOK'
    BY <1>5 DEF TypeOK, OpenDialFails, Goto, Unlock, OpenSteps
  <1>6. ASSUME NEW h \in Handlers, OpenUndo(h) PROVE TypeOK'
    <2>1. key[h] \in Keys
      BY DEF TypeOK
    <2> QED BY <1>6, <2>1, EffectTypes DEF TypeOK, OpenUndo, Goto, Unlock
  <1>7. ASSUME NEW h \in Handlers, NEW c \in Closers, Close(h, c) PROVE TypeOK'
    BY <1>7 DEF TypeOK, Close, Connected
  <1>8. ASSUME NEW h \in Handlers, Release(h) PROVE TypeOK'
    <2> DEFINE k == key[h]
               n == IF active[k] > 0 THEN active[k] - 1 ELSE 0
    <2>1. k \in Keys /\ n \in Nat /\ active[k] - n \in Int
      BY DEF TypeOK
    <2>2. /\ active' = [active EXCEPT ![k] = n]
          /\ connections' = [connections EXCEPT ![ServiceType(k)] = @ - (active[k] - n)]
          /\ Goto(h, "closed")
          /\ ArmTimer(k) \/ UNCHANGED timerVars
          /\ UNCHANGED <<runtimes, backend, mu, scaled, key, closers, shutVars, clusterVars, managedWorkloads>>
      BY <1>8 DEF Release
    <2> HIDE DEF k, n
    <2> QED BY <2>1, <2>2, <1>0, EffectTypes DEF TypeOK, Goto
  <1>9. ASSUME NEW h \in Handlers, Return(h) PROVE TypeOK'
    BY <1>9 DEF TypeOK, Return, Goto
  <1>10. ASSUME NEW t \in Timers, TimerFires(t) PROVE TypeOK'
    BY <1>10 DEF TypeOK, TimerFires
  <1>11. ASSUME NEW t \in Timers, CallbackLock(t) PROVE TypeOK'
    BY <1>11 DEF TypeOK, CallbackLock, Lock
  <1>12. ASSUME NEW t \in Timers, CallbackScaleDown(t) PROVE TypeOK'
    <2>1. timerKey[t] \in Keys
      BY DEF TypeOK
    <2> QED BY <1>12, <2>1, EffectTypes DEF TypeOK, CallbackScaleDown, Unlock
  <1>13. CASE ShutdownBegin
    BY <1>13 DEF TypeOK, ShutdownBegin
  <1>14. ASSUME NEW k \in Keys, ShutdownLock(k) PROVE TypeOK'
    BY <1>14, EffectTypes DEF TypeOK, ShutdownLock, Lock
  <1>15. ASSUME NEW k \in Keys, ShutdownScaleDown(k) PROVE TypeOK'
    BY <1>15, EffectTypes DEF TypeOK, ShutdownScaleDown, Unlock
  <1>16. CASE ShutdownExpires
    BY <1>16 DEF TypeOK, ShutdownExpires
  <1>17. CASE ShutdownEnd
    BY <1>17 DEF TypeOK, ShutdownEnd
  <1>18. ASSUME NEW w \in Workloads, NEW b \in BOOLEAN, LateUpdate(w, b) PROVE TypeOK'
    BY <1>18 DEF TypeOK, LateUpdate, Store
  <1>19. CASE UNCHANGED vars
    BY <1>19 DEF TypeOK, vars
  <1> QED
    BY <1>1, <1>2, <1>3, <1>4, <1>5, <1>6, <1>7, <1>8, <1>9, <1>10, <1>11, <1>12,
       <1>13, <1>14, <1>15, <1>16, <1>17, <1>18, <1>19
    DEF Next, HandlerStep, TimerStep, ShutdownStep

(* Every variable of the engine keeps its type in every behaviour.           *)
THEOREM TypeCorrect == Spec => []TypeOK
  BY InitType, NextType, PTL DEF Spec

-----------------------------------------------------------------------------
(* The engine's inductive invariant.                                         *)

(* The inductive invariant holds when no runtime exists yet.                 *)
LEMMA InitInv == Init => IInv
  <1> SUFFICES ASSUME Init PROVE IInv
    OBVIOUS
  <1>1. TypeOK
    BY InitType
  <1>2. MutexInv
    BY ActorAssumption DEF Init, MutexInv, OpenSteps, InShutdown, TypeOK
  <1>3. HolderInv
    BY <1>1, ActorAssumption DEF Init, HolderInv, TypeOK
  <1>4. LateInv
    BY DEF Init, LateInv, Keys
  <1>5. InUseMeansUp
    BY DEF Init, InUseMeansUp, Keys
  <1> QED BY <1>1, <1>2, <1>3, <1>4, <1>5 DEF IInv

(* What a downscale does to the flag and to the history.                     *)
Lowers(k) ==
  \/ scaled' = [scaled EXCEPT ![k] = FALSE] /\ lastScale' = [lastScale EXCEPT ![k] = "ok"]
  \/ scaled' = scaled /\ lastScale' = [lastScale EXCEPT ![k] = "failed"]

(* What the steps that end a scaler call change outside the cluster.         *)
LEMMA ScaleSteps ==
  /\ \A h : OpenScaleUp(h) =>
       /\ pc[h] = "scaling"
       /\ \/ /\ scaled' = [scaled EXCEPT ![key[h]] = TRUE]
             /\ lastScale' = [lastScale EXCEPT ![key[h]] = "ok"]
             /\ pc' = [pc EXCEPT ![h] = "dialing"] /\ mu' = mu
          \/ /\ scaled' = scaled
             /\ lastScale' = [lastScale EXCEPT ![key[h]] = "failed"]
             /\ pc' = [pc EXCEPT ![h] = "idle"] /\ mu' = [mu EXCEPT ![key[h]] = Unlocked]
       /\ UNCHANGED <<active, idleTimer, timer, timerKey, key, shut, todo>>
  /\ \A h : OpenUndo(h) =>
       /\ pc[h] = "undoing" /\ Lowers(key[h])
       /\ pc' = [pc EXCEPT ![h] = "idle"] /\ mu' = [mu EXCEPT ![key[h]] = Unlocked]
       /\ UNCHANGED <<active, idleTimer, timer, timerKey, key, shut, todo>>
  /\ \A t : CallbackScaleDown(t) =>
       /\ timer[t] = "scaling" /\ Lowers(timerKey[t])
       /\ timer' = [timer EXCEPT ![t] = "free"] /\ mu' = [mu EXCEPT ![timerKey[t]] = Unlocked]
       /\ idleTimer' \in {idleTimer, [idleTimer EXCEPT ![timerKey[t]] = NoTimer]}
       /\ UNCHANGED <<active, timerKey, pc, key, shut, todo>>
  /\ \A k : ShutdownScaleDown(k) =>
       /\ InShutdown(k) /\ Lowers(k)
       /\ todo' = todo \ {k} /\ mu' = [mu EXCEPT ![k] = Unlocked]
       /\ UNCHANGED <<active, idleTimer, timer, timerKey, pc, key, shut>>
  BY DEF OpenScaleUp, OpenUndo, CallbackScaleDown, ShutdownScaleDown, Lowers, ScaleOK, ScaleErr,
         MarkStarted, MarkStopped, Goto, Unlock, timerVars, handlerVars, shutVars

(* A step of any operation keeps the holder of each mutex and what it relies *)
(* on, whatever else has happened to the cluster.                            *)
LEMMA NextLocks == LockInv /\ [Next]_vars => LockInv'
  <1> SUFFICES ASSUME LockInv, [Next]_vars PROVE LockInv'
    OBVIOUS
  <1> USE ActorAssumption
      DEF LockInv, runtimeVars, timerVars, handlerVars, shutVars, clusterVars, gaugeVars
  <1>0. TypeOK /\ TypeOK' /\ Workloads \subseteq Keys
    BY NextType DEF Keys
  <1> DEFINE Goal == MutexInv' /\ HolderInv'
  <1>1. ASSUME NEW h \in Handlers, NEW g \in Grants, OpenResolve(h, g) PROVE Goal
    <2>1. MutexInv'
      BY <1>0, <1>1 DEF OpenResolve, Goto, TypeOK, MutexInv, OpenSteps, InShutdown
    <2>2. HolderInv'
      BY <1>0, <1>1 DEF OpenResolve, Goto, TypeOK, HolderInv
    <2> QED BY <2>1, <2>2
  <1>2. ASSUME NEW h \in Handlers, OpenLock(h) PROVE Goal
    <2>1. MutexInv'
      <3>1. /\ key[h] \in Keys /\ mu[key[h]] = Unlocked
            /\ \A t \in Timers : timer'[t] = "scaling" => timer[t] = "scaling"
            /\ UNCHANGED <<timerKey, shut, todo, key, scaled>>
        BY <1>0, <1>2 DEF OpenLock, StopTimer, TypeOK
      <3>2. CASE pc' = [pc EXCEPT ![h] = "idle"] /\ mu' = mu
        BY <1>0, <3>1, <3>2 DEF TypeOK, MutexInv, OpenSteps, InShutdown
      <3>3. CASE mu' = [mu EXCEPT ![key[h]] = h] /\ \E s \in OpenSteps : pc' = [pc EXCEPT ![h] = s]
        <4>1. /\ mu'[key[h]] = h
              /\ \A k \in Keys \ {key[h]} : mu'[k] = mu[k]
              /\ \A f \in Handlers \ {h} : pc'[f] = pc[f]
          BY <1>0, <3>1, <3>3 DEF TypeOK
        <4>2. \A f \in Handlers : pc'[f] \in OpenSteps => mu'[key'[f]] = f
          <5> SUFFICES ASSUME NEW f \in Handlers, f # h, pc'[f] \in OpenSteps
                       PROVE  mu'[key[f]] = f
            BY <3>1, <4>1
          <5>1. mu[key[f]] = f /\ key[f] \in Keys
            BY <1>0, <4>1 DEF TypeOK, MutexInv
          <5>2. key[f] # key[h]
            BY <3>1, <5>1
          <5> QED BY <4>1, <5>1, <5>2
        <4>3. \A t \in Timers : timer'[t] = "scaling" => mu'[timerKey'[t]] = t
          BY <1>0, <3>1, <4>1 DEF TypeOK, MutexInv
        <4>4. \A k \in Keys : InShutdown(k)' => InShutdown(k)
          BY <4>1 DEF InShutdown
        <4> QED BY <3>1, <4>2, <4>3, <4>4 DEF MutexInv
      <3> QED BY <1>2, <3>2, <3>3 DEF OpenLock, Goto, Lock, OpenSteps
    <2>2. HolderInv'
      BY <1>0, <1>2 DEF OpenLock, Lock, Goto, StopTimer, NeedsScaleUp, TypeOK, MutexInv, HolderInv, OpenSteps, Connected, InShutdown
    <2> QED BY <2>1, <2>2
  <1>3. ASSUME NEW h \in Handlers, OpenScaleUp(h) PROVE Goal
    <2>1. MutexInv'
      <3>1. /\ key[h] \in Keys /\ mu[key[h]] = h
            /\ UNCHANGED <<timer, timerKey, shut, todo, key>>
        BY <1>0, <1>3 DEF OpenScaleUp, TypeOK, MutexInv, OpenSteps
      <3>2. \/ /\ pc' = [pc EXCEPT ![h] = "dialing"] /\ mu' = mu
               /\ scaled' = [scaled EXCEPT ![key[h]] = TRUE]
            \/ /\ pc' = [pc EXCEPT ![h] = "idle"] /\ mu' = [mu EXCEPT ![key[h]] = Unlocked]
               /\ scaled' = scaled
        BY <1>3 DEF OpenScaleUp, Goto, MarkStarted, Unlock
      <3>3. CASE pc' = [pc EXCEPT ![h] = "dialing"] /\ mu' = mu /\ scaled' = [scaled EXCEPT ![key[h]] = TRUE]
        BY <1>0, <3>1, <3>3 DEF TypeOK, MutexInv, OpenSteps, InShutdown
      <3>4. CASE pc' = [pc EXCEPT ![h] = "idle"] /\ mu' = [mu EXCEPT ![key[h]] = Unlocked] /\ scaled' = scaled
        BY <1>0, <3>1, <3>4 DEF TypeOK, MutexInv, OpenSteps, InShutdown
      <3> QED BY <3>2, <3>3, <3>4
    <2>2. HolderInv'
      BY <1>0, <1>3, ScaleSteps DEF TypeOK, MutexInv, HolderInv, OpenSteps, Connected, InShutdown
    <2> QED BY <2>1, <2>2
  <1>4. ASSUME NEW h \in Handlers, OpenDial(h) PROVE Goal
    <2>1. MutexInv'
      BY <1>0, <1>4 DEF OpenDial, DialSucceeds, Unlock, Goto, TypeOK, MutexInv, HolderInv, OpenSteps, Connected, InShutdown
    <2>2. HolderInv'
      BY <1>0, <1>4 DEF OpenDial, DialSucceeds, Unlock, Goto, TypeOK, MutexInv, HolderInv, OpenSteps, Connected, InShutdown
    <2> QED BY <2>1, <2>2
  <1>5. ASSUME NEW h \in Handlers, OpenDialFails(h) PROVE Goal
    <2>1. MutexInv'
      BY <1>0, <1>5 DEF OpenDialFails, MustUndo, Unlock, Goto, TypeOK, MutexInv, HolderInv, OpenSteps, Connected, InShutdown
    <2>2. HolderInv'
      BY <1>0, <1>5 DEF OpenDialFails, MustUndo, Unlock, Goto, TypeOK, MutexInv, HolderInv, OpenSteps, Connected, InShutdown
    <2> QED BY <2>1, <2>2
  <1>6. ASSUME NEW h \in Handlers, OpenUndo(h) PROVE Goal
    <2>0. /\ pc[h] = "undoing" /\ Lowers(key[h])
          /\ pc' = [pc EXCEPT ![h] = "idle"] /\ mu' = [mu EXCEPT ![key[h]] = Unlocked]
          /\ UNCHANGED <<active, idleTimer, timer, timerKey, key, shut, todo>>
      BY <1>6, ScaleSteps
    <2>1. key[h] \in Keys /\ mu[key[h]] = h
      BY <1>0, <2>0 DEF TypeOK, MutexInv, OpenSteps
    <2>2. MutexInv'
      BY <1>0, <2>0, <2>1 DEF Lowers, TypeOK, MutexInv, OpenSteps, InShutdown
    <2>3. HolderInv'
      <3>1. /\ \A k \in Keys : scaled'[k] => scaled[k]
            /\ \A k \in Keys : k # key[h] => scaled'[k] = scaled[k]
        BY <1>0, <2>0, <2>1 DEF Lowers, TypeOK
      <3> QED BY <1>0, <2>0, <2>1, <3>1 DEF TypeOK, MutexInv, HolderInv, OpenSteps
    <2> QED BY <2>2, <2>3
  <1>7. ASSUME NEW h \in Handlers, NEW c \in Closers, Close(h, c) PROVE Goal
    <2>1. MutexInv'
      BY <1>0, <1>7 DEF Close, TypeOK, MutexInv, HolderInv, OpenSteps, Connected, InShutdown
    <2>2. HolderInv'
      BY <1>0, <1>7 DEF Close, TypeOK, MutexInv, HolderInv, OpenSteps, Connected, InShutdown
    <2> QED BY <2>1, <2>2
  <1>8. ASSUME NEW h \in Handlers, Release(h) PROVE Goal
    <2>1. MutexInv'
      BY <1>0, <1>8 DEF Release, ArmTimer, FreeTimers, StartsIdle, Goto, TypeOK, MutexInv, HolderInv, OpenSteps, Connected, InShutdown
    <2>2. HolderInv'
      <3>1. /\ pc' = [pc EXCEPT ![h] = "closed"] /\ key[h] \in Keys /\ mu[key[h]] = Unlocked
            /\ \A k \in Keys : k # key[h] => active'[k] = active[k]
            /\ UNCHANGED <<scaled, key>>
        BY <1>0, <1>8 DEF Release, Goto, TypeOK
      <3>2. /\ \A t \in Timers : timer'[t] = "scaling" => timer[t] = "scaling" /\ timerKey'[t] = timerKey[t]
            /\ \A k \in Keys, t \in Timers : idleTimer'[k] = t => timerKey'[t] = k
        <4>1. ArmTimer(key[h]) \/ UNCHANGED timerVars
          BY <1>8 DEF Release
        <4> QED BY <1>0, <3>1, <4>1 DEF ArmTimer, FreeTimers, TypeOK, HolderInv
      <3> QED BY <1>0, <3>1, <3>2 DEF TypeOK, MutexInv, HolderInv, OpenSteps
    <2> QED BY <2>1, <2>2
  <1>9. ASSUME NEW h \in Handlers, Return(h) PROVE Goal
    <2>1. MutexInv'
      BY <1>0, <1>9 DEF Return, Goto, TypeOK, MutexInv, HolderInv, OpenSteps, Connected, InShutdown
    <2>2. HolderInv'
      BY <1>0, <1>9 DEF Return, Goto, TypeOK, MutexInv, HolderInv, OpenSteps, Connected, InShutdown
    <2> QED BY <2>1, <2>2
  <1>10. ASSUME NEW t \in Timers, TimerFires(t) PROVE Goal
    <2>1. MutexInv'
      BY <1>0, <1>10 DEF TimerFires, TypeOK, MutexInv, HolderInv, OpenSteps, Connected, InShutdown
    <2>2. HolderInv'
      BY <1>0, <1>10 DEF TimerFires, TypeOK, MutexInv, HolderInv, OpenSteps, Connected, InShutdown
    <2> QED BY <2>1, <2>2
  <1>11. ASSUME NEW t \in Timers, CallbackLock(t) PROVE Goal
    <2>1. MutexInv'
      <3>1. /\ timerKey[t] \in Keys /\ mu[timerKey[t]] = Unlocked
            /\ UNCHANGED <<timerKey, shut, todo, key, scaled, pc>>
        BY <1>0, <1>11 DEF CallbackLock, TypeOK
      <3>2. CASE timer' = [timer EXCEPT ![t] = "free"] /\ mu' = mu
        BY <1>0, <3>1, <3>2 DEF TypeOK, MutexInv, OpenSteps, InShutdown
      <3>3. CASE timer' = [timer EXCEPT ![t] = "scaling"] /\ mu' = [mu EXCEPT ![timerKey[t]] = t]
        <4>1. /\ mu'[timerKey[t]] = t
              /\ \A k \in Keys \ {timerKey[t]} : mu'[k] = mu[k]
              /\ \A u \in Timers \ {t} : timer'[u] = timer[u]
          BY <1>0, <3>1, <3>3 DEF TypeOK
        <4>2. \A f \in Handlers : pc[f] \in OpenSteps => mu'[key[f]] = f
          BY <1>0, <3>1, <4>1 DEF TypeOK, MutexInv
        <4>3. \A u \in Timers : timer'[u] = "scaling" => mu'[timerKey[u]] = u
          BY <1>0, <3>1, <4>1 DEF TypeOK, MutexInv
        <4>4. \A k \in Keys : InShutdown(k)' => InShutdown(k)
          BY <4>1 DEF InShutdown
        <4> QED BY <3>1, <4>2, <4>3, <4>4 DEF MutexInv
      <3> QED BY <1>11, <3>2, <3>3 DEF CallbackLock, Lock
    <2>2. HolderInv'
      BY <1>0, <1>11 DEF CallbackLock, StillIdle, Lock, TypeOK, MutexInv, HolderInv, OpenSteps, Connected, InShutdown
    <2> QED BY <2>1, <2>2
  <1>12. ASSUME NEW t \in Timers, CallbackScaleDown(t) PROVE Goal
    <2>0. /\ timer[t] = "scaling" /\ Lowers(timerKey[t])
          /\ timer' = [timer EXCEPT ![t] = "free"] /\ mu' = [mu EXCEPT ![timerKey[t]] = Unlocked]
          /\ idleTimer' \in {idleTimer, [idleTimer EXCEPT ![timerKey[t]] = NoTimer]}
          /\ UNCHANGED <<active, timerKey, pc, key, shut, todo>>
      BY <1>12, ScaleSteps
    <2>1. timerKey[t] \in Keys /\ mu[timerKey[t]] = t
      BY <1>0, <2>0 DEF TypeOK, MutexInv, OpenSteps
    <2>2. MutexInv'
      BY <1>0, <2>0, <2>1 DEF Lowers, TypeOK, MutexInv, OpenSteps, InShutdown
    <2>3. HolderInv'
      <3>1. /\ \A k \in Keys : scaled'[k] => scaled[k]
            /\ \A k \in Keys : k # timerKey[t] => scaled'[k] = scaled[k]
        BY <1>0, <2>0, <2>1 DEF Lowers, TypeOK
      <3> QED BY <1>0, <2>0, <2>1, <3>1 DEF TypeOK, MutexInv, HolderInv, OpenSteps
    <2> QED BY <2>2, <2>3
  <1>13. ASSUME ShutdownBegin PROVE Goal
    <2>1. MutexInv'
      BY <1>0, <1>13 DEF ShutdownBegin, TypeOK, MutexInv, HolderInv, OpenSteps, Connected, InShutdown
    <2>2. HolderInv'
      BY <1>0, <1>13 DEF ShutdownBegin, TypeOK, MutexInv, HolderInv, OpenSteps, Connected, InShutdown
    <2> QED BY <2>1, <2>2
  <1>14. ASSUME NEW k \in Keys, ShutdownLock(k) PROVE Goal
    <2>1. MutexInv'
      BY <1>0, <1>14 DEF ShutdownLock, Lock, StopTimer, TypeOK, MutexInv, HolderInv, OpenSteps, Connected, InShutdown
    <2>2. HolderInv'
      BY <1>0, <1>14 DEF ShutdownLock, Lock, StopTimer, TypeOK, MutexInv, HolderInv, OpenSteps, Connected, InShutdown
    <2> QED BY <2>1, <2>2
  <1>15. ASSUME NEW k \in Keys, ShutdownScaleDown(k) PROVE Goal
    <2>1. MutexInv'
      BY <1>0, <1>15, ScaleSteps DEF Lowers, TypeOK, MutexInv, HolderInv, OpenSteps, Connected, InShutdown
    <2>2. HolderInv'
      BY <1>0, <1>15, ScaleSteps DEF Lowers, TypeOK, MutexInv, HolderInv, OpenSteps, Connected, InShutdown
    <2> QED BY <2>1, <2>2
  <1>16. ASSUME ShutdownExpires PROVE Goal
    <2>1. MutexInv'
      BY <1>0, <1>16 DEF ShutdownExpires, TypeOK, MutexInv, HolderInv, OpenSteps, Connected, InShutdown
    <2>2. HolderInv'
      BY <1>0, <1>16 DEF ShutdownExpires, TypeOK, MutexInv, HolderInv, OpenSteps, Connected, InShutdown
    <2> QED BY <2>1, <2>2
  <1>17. ASSUME ShutdownEnd PROVE Goal
    <2>1. MutexInv'
      BY <1>0, <1>17 DEF ShutdownEnd, TypeOK, MutexInv, HolderInv, OpenSteps, Connected, InShutdown
    <2>2. HolderInv'
      BY <1>0, <1>17 DEF ShutdownEnd, TypeOK, MutexInv, HolderInv, OpenSteps, Connected, InShutdown
    <2> QED BY <2>1, <2>2
  <1>18. ASSUME UNCHANGED vars \/ \E w \in Workloads, b \in BOOLEAN : LateUpdate(w, b) PROVE Goal
    BY <1>18 DEF LateUpdate, vars, MutexInv, HolderInv, InShutdown
  <1> QED
    BY <1>0, <1>1, <1>2, <1>3, <1>4, <1>5, <1>6, <1>7, <1>8, <1>9, <1>10, <1>11, <1>12, <1>13, <1>14, <1>15, <1>16, <1>17, <1>18
    DEF Next, HandlerStep, TimerStep, ShutdownStep

(* What the answered and the failed calls and a late update do to LateInv.   *)
LEMMA NextLate == TypeOK /\ MutexInv /\ HolderInv /\ LateInv /\ [Next]_vars => LateInv'
  <1> SUFFICES ASSUME TypeOK, MutexInv, HolderInv, LateInv, [Next]_vars PROVE LateInv'
    OBVIOUS
  <1> DEFINE Quiet == UNCHANGED <<scaled, clusterVars>>
  <1> USE DEF runtimeVars, timerVars, handlerVars, shutVars, gaugeVars
  <1>0. Workloads \subseteq Keys
    BY DEF Keys
  <1>1. ASSUME Quiet PROVE LateInv'
    BY <1>1 DEF LateInv, clusterVars
  <1>2. ASSUME NEW h \in Handlers, HandlerStep(h), ~OpenScaleUp(h), ~OpenUndo(h)
        PROVE  Quiet
    BY <1>2 DEF HandlerStep, OpenResolve, OpenLock, OpenDial, OpenDialFails, Close, Release, Return
  <1>3. ASSUME NEW k \in Workloads, ScaleErr(k, ~scaled[k]), UNCHANGED scaled PROVE LateInv'
    <2>1. ASSUME NEW w \in Workloads, w # k
          PROVE  scaled'[w] = scaled[w] /\ up'[w] = up[w] /\ late'[w] = late[w] /\ lastScale'[w] = lastScale[w]
      BY <1>3, <2>1 DEF ScaleErr, Store, TypeOK
    <2>2. lastScale'[k] = "failed" /\ scaled'[k] = scaled[k]
      BY <1>3 DEF ScaleErr, TypeOK
    <2>3. /\ scaled[k] => ("up" \in late'[k] => up'[k])
          /\ ~scaled[k] => ("down" \in late'[k] => ~up'[k])
      BY <1>0, <1>3 DEF ScaleErr, Store, Direction, TypeOK, LateInv
    <2> QED BY <2>1, <2>2, <2>3 DEF LateInv
  <1>4. ASSUME NEW k \in Workloads, ~scaled[k], ScaleOK(k, TRUE), MarkStarted(k) PROVE LateInv'
    BY <1>0, <1>4 DEF ScaleOK, Store, MarkStarted, TypeOK, LateInv
  <1>5. ASSUME NEW k \in Workloads, scaled[k], ScaleOK(k, FALSE), MarkStopped(k) PROVE LateInv'
    BY <1>0, <1>5 DEF ScaleOK, Store, MarkStopped, TypeOK, LateInv
  <1>6. ASSUME NEW h \in Handlers, OpenScaleUp(h) PROVE LateInv'
    <2>1. key[h] \in Workloads /\ scaled[key[h]] = FALSE
      BY <1>0, <1>6 DEF HolderInv, OpenScaleUp, TypeOK
    <2> QED BY <1>3, <1>4, <1>6, <2>1 DEF OpenScaleUp
  <1>7. ASSUME NEW h \in Handlers, OpenUndo(h) PROVE LateInv'
    <2>1. key[h] \in Workloads /\ scaled[key[h]] = TRUE
      BY <1>0, <1>7 DEF HolderInv, OpenUndo, TypeOK
    <2> QED BY <1>3, <1>5, <1>7, <2>1 DEF OpenUndo
  <1>8. ASSUME NEW t \in Timers, CallbackScaleDown(t) PROVE LateInv'
    <2>1. timerKey[t] \in Workloads /\ scaled[timerKey[t]] = TRUE
      BY <1>0, <1>8 DEF HolderInv, CallbackScaleDown, TypeOK
    <2> QED BY <1>3, <1>5, <1>8, <2>1 DEF CallbackScaleDown
  <1>9. ASSUME NEW k \in Keys, ShutdownScaleDown(k) PROVE LateInv'
    <2>1. k \in Workloads /\ scaled[k] = TRUE
      BY <1>0, <1>9 DEF MutexInv, HolderInv, ShutdownScaleDown, TypeOK
    <2> QED BY <1>3, <1>5, <1>9, <2>1 DEF ShutdownScaleDown
  <1>10. ASSUME NEW w \in Workloads, NEW b \in BOOLEAN, LateUpdate(w, b) PROVE LateInv'
    BY <1>0, <1>10 DEF LateUpdate, Store, Direction, TypeOK, LateInv
  <1>11. ASSUME \/ \E t \in Timers : TimerFires(t) \/ CallbackLock(t)
                \/ \E k \in Keys : ShutdownLock(k)
                \/ ShutdownBegin \/ ShutdownExpires \/ ShutdownEnd
                \/ UNCHANGED vars
         PROVE  Quiet
    BY <1>11 DEF TimerFires, CallbackLock, ShutdownLock, ShutdownBegin, ShutdownExpires, ShutdownEnd, vars
  <1> HIDE DEF Quiet
  <1> QED BY <1>1, <1>2, <1>6, <1>7, <1>8, <1>9, <1>10, <1>11 DEF Next, TimerStep, ShutdownStep

(* While the gateway serves, the engine clears scaled only for a workload    *)
(* that its holder found unused.                                             *)
UsedAreScaled ==
  shut = "serving" => \A w \in Workloads : active[w] > 0 => scaled[w]

(* Every step keeps the workloads in use scaled.                             *)
LEMMA NextUsed == TypeOK /\ MutexInv /\ HolderInv /\ UsedAreScaled /\ [Next]_vars => UsedAreScaled'
  <1> SUFFICES ASSUME TypeOK, MutexInv, HolderInv, UsedAreScaled, [Next]_vars,
                      shut' = "serving", NEW w \in Workloads, active'[w] > 0
               PROVE  scaled'[w]
    BY DEF UsedAreScaled
  <1> DEFINE Quiet == active'[w] = active[w] /\ scaled'[w] = scaled[w] /\ shut = "serving"
  <1> USE DEF runtimeVars, timerVars, handlerVars, shutVars, clusterVars, gaugeVars
  <1>0. w \in Keys
    BY DEF Keys
  <1>1. ASSUME Quiet PROVE scaled'[w]
    BY <1>1 DEF UsedAreScaled
  <1>2. ASSUME NEW h \in Handlers, NEW g \in Grants, OpenResolve(h, g) PROVE Quiet
    BY <1>2 DEF OpenResolve
  <1>3. ASSUME NEW h \in Handlers, NEW c \in Closers, Close(h, c) PROVE Quiet
    BY <1>3 DEF Close
  <1>4. ASSUME NEW h \in Handlers, OpenLock(h) \/ OpenDialFails(h) \/ Return(h) PROVE Quiet
    BY <1>4 DEF OpenLock, OpenDialFails, Return
  <1>5. ASSUME NEW h \in Handlers, OpenScaleUp(h) PROVE scaled'[w]
    BY <1>0, <1>5 DEF OpenScaleUp, MarkStarted, TypeOK, UsedAreScaled
  <1>6. ASSUME NEW h \in Handlers, OpenDial(h) PROVE scaled'[w]
    BY <1>0, <1>6 DEF OpenDial, TypeOK, HolderInv, UsedAreScaled
  <1>7. ASSUME NEW h \in Handlers, OpenUndo(h) PROVE scaled'[w]
    <2>1. key[h] \in Keys /\ active[key[h]] = 0 /\ UNCHANGED <<active, shut>>
      BY <1>0, <1>7 DEF OpenUndo, TypeOK, HolderInv
    <2>2. w # key[h] /\ scaled[w]
      BY <2>1 DEF UsedAreScaled
    <2> QED BY <1>0, <1>7, <2>2 DEF OpenUndo, MarkStopped, TypeOK
  <1>8. ASSUME NEW h \in Handlers, Release(h) PROVE scaled'[w]
    <2>1. active[w] > 0 /\ scaled' = scaled /\ shut = "serving"
      BY <1>0, <1>8 DEF Release, TypeOK
    <2> QED BY <2>1 DEF UsedAreScaled
  <1>9. ASSUME NEW t \in Timers, TimerFires(t) \/ CallbackLock(t) PROVE Quiet
    BY <1>9 DEF TimerFires, CallbackLock
  <1>10. ASSUME NEW t \in Timers, CallbackScaleDown(t) PROVE scaled'[w]
    <2>1. timerKey[t] \in Keys /\ active[timerKey[t]] = 0 /\ UNCHANGED <<active, shut>>
      BY <1>0, <1>10 DEF CallbackScaleDown, TypeOK, HolderInv
    <2>2. w # timerKey[t] /\ scaled[w]
      BY <2>1 DEF UsedAreScaled
    <2> QED BY <1>0, <1>10, <2>2 DEF CallbackScaleDown, MarkStopped, TypeOK
  <1>11. ASSUME ShutdownStep PROVE Quiet
    <2>1. ~ShutdownBegin /\ ~ShutdownEnd /\ ~ShutdownExpires
      BY DEF ShutdownBegin, ShutdownEnd, ShutdownExpires
    <2>2. \A k \in Keys : ~ShutdownLock(k) /\ ~ShutdownScaleDown(k)
      BY DEF ShutdownLock, ShutdownScaleDown, MutexInv
    <2> QED BY <1>11, <2>1, <2>2 DEF ShutdownStep
  <1>12. ASSUME UNCHANGED vars \/ \E v \in Workloads, b \in BOOLEAN : LateUpdate(v, b) PROVE Quiet
    BY <1>12 DEF LateUpdate, vars
  <1> HIDE DEF Quiet
  <1> QED
    BY <1>1, <1>2, <1>3, <1>4, <1>5, <1>6, <1>7, <1>8, <1>9, <1>10, <1>11, <1>12
    DEF Next, HandlerStep, TimerStep

(* A workload in use is scaled, and a scaled workload is up unless its last  *)
(* call failed.                                                              *)
LEMMA NextInv == IInv /\ [Next]_vars => IInv'
  <1> SUFFICES ASSUME IInv, [Next]_vars PROVE IInv'
    OBVIOUS
  <1>1. TypeOK' /\ MutexInv' /\ HolderInv'
    BY NextLocks DEF IInv, LockInv
  <1>2. LateInv'
    BY NextLate DEF IInv
  <1>3. UsedAreScaled
    BY DEF IInv, InUseMeansUp, UsedAreScaled
  <1>4. UsedAreScaled'
    BY <1>3, NextUsed DEF IInv
  <1>5. InUseMeansUp'
    <2> SUFFICES ASSUME shut' = "serving", NEW w \in Workloads, active'[w] > 0
                 PROVE  scaled'[w] /\ (up'[w] \/ lastScale'[w] = "failed")
      BY DEF InUseMeansUp
    <2>1. scaled'[w]
      BY <1>4 DEF UsedAreScaled
    <2>2. lastScale'[w] \in {"none", "ok", "failed"}
      BY <1>1 DEF TypeOK
    <2> QED BY <1>2, <2>1, <2>2 DEF LateInv
  <1> QED BY <1>1, <1>2, <1>5 DEF IInv

(* The mutex of a runtime is held exactly by whoever is inside its blocking  *)
(* call, what Open, the callback and Shutdown checked under it stays true,   *)
(* and no update still on its way from a failed call can turn a workload     *)
(* against an answered one.                                                  *)
THEOREM EngineInvariant == Spec => []IInv
  BY InitInv, NextInv, PTL DEF Spec

-----------------------------------------------------------------------------
(* The reference count.                                                      *)

(* Connections are made by OpenDial and given back by Release; every other   *)
(* step leaves the connected handlers, their runtimes and the counts alone.  *)
LEMMA ConnectionSteps ==
  ASSUME TypeOK, [Next]_vars
  PROVE  \/ /\ \A h \in Handlers :
                 /\ pc'[h] \in Connected <=> pc[h] \in Connected
                 /\ pc[h] \in Connected => key'[h] = key[h]
            /\ UNCHANGED <<active, connections>>
         \/ \E h \in Handlers : OpenDial(h) \/ Release(h)
  <1> DEFINE Same == /\ \A h \in Handlers :
                          /\ pc'[h] \in Connected <=> pc[h] \in Connected
                          /\ pc[h] \in Connected => key'[h] = key[h]
                     /\ UNCHANGED <<active, connections>>
  <1> USE DEF TypeOK, Connected, runtimeVars, timerVars, handlerVars, shutVars, clusterVars, gaugeVars
  <1>1. ASSUME NEW h \in Handlers, NEW g \in Grants, OpenResolve(h, g) PROVE Same
    BY <1>1 DEF OpenResolve, Goto
  <1>2. ASSUME NEW h \in Handlers, OpenLock(h) PROVE Same
    BY <1>2 DEF OpenLock, Goto
  <1>3. ASSUME NEW h \in Handlers, OpenScaleUp(h) PROVE Same
    BY <1>3 DEF OpenScaleUp, Goto
  <1>4. ASSUME NEW h \in Handlers, OpenDialFails(h) PROVE Same
    BY <1>4 DEF OpenDialFails, Goto
  <1>5. ASSUME NEW h \in Handlers, OpenUndo(h) PROVE Same
    BY <1>5 DEF OpenUndo, Goto
  <1>6. ASSUME NEW h \in Handlers, NEW c \in Closers, Close(h, c) PROVE Same
    BY <1>6 DEF Close
  <1>7. ASSUME NEW h \in Handlers, Return(h) PROVE Same
    BY <1>7 DEF Return, Goto
  <1>8. ASSUME NEW t \in Timers, TimerStep(t) PROVE Same
    BY <1>8 DEF TimerStep, TimerFires, CallbackLock, CallbackScaleDown
  <1>9. ASSUME ShutdownStep PROVE Same
    BY <1>9 DEF ShutdownStep, ShutdownBegin, ShutdownLock, ShutdownScaleDown, ShutdownExpires, ShutdownEnd
  <1>10. ASSUME UNCHANGED vars \/ \E w \in Workloads, b \in BOOLEAN : LateUpdate(w, b) PROVE Same
    BY <1>10 DEF LateUpdate, vars
  <1> QED
    BY <1>1, <1>2, <1>3, <1>4, <1>5, <1>6, <1>7, <1>8, <1>9, <1>10 DEF Next, HandlerStep

(* The connections of a runtime are finitely many, so they can be counted.   *)
LEMMA UsersFinite ==
  \A k : IsFiniteSet(Users(k)) /\ Cardinality(Users(k)) \in Nat
  BY FS_Subset, FS_CardinalityType, ActorAssumption DEF Users

(* What OpenDial and Release do to the sets of users.                        *)
LEMMA DialUsers ==
  ASSUME TypeOK, NEW h \in Handlers, OpenDial(h)
  PROVE  /\ h \notin Users(key[h])
         /\ \A k : Users(k)' = IF k = key[h] THEN Users(k) \cup {h} ELSE Users(k)
  BY DEF TypeOK, OpenDial, Goto, Users, Connected

(* A release takes exactly its handler from the users of the runtime.        *)
LEMMA ReleaseUsers ==
  ASSUME TypeOK, NEW h \in Handlers, Release(h)
  PROVE  /\ h \in Users(key[h])
         /\ \A k : Users(k)' = IF k = key[h] THEN Users(k) \ {h} ELSE Users(k)
  BY DEF TypeOK, Release, Goto, Users, Connected

(* Every step of the engine keeps the reference count exact.                 *)
LEMMA NextActive == TypeOK /\ ActiveExact /\ [Next]_vars => ActiveExact'
  <1> SUFFICES ASSUME TypeOK, ActiveExact, [Next]_vars PROVE ActiveExact'
    OBVIOUS
  <1>1. ASSUME \A h \in Handlers :
                 /\ pc'[h] \in Connected <=> pc[h] \in Connected
                 /\ pc[h] \in Connected => key'[h] = key[h],
               UNCHANGED active
        PROVE  ActiveExact'
    <2>1. \A k : Users(k)' = Users(k)
      BY <1>1 DEF Users
    <2> QED BY <1>1, <2>1 DEF ActiveExact
  <1>2. ASSUME NEW h \in Handlers, OpenDial(h), NEW k \in Keys
        PROVE  active'[k] = Cardinality(Users(k)')
    <2>1. active' = [active EXCEPT ![key[h]] = active[key[h]] + 1]
      BY <1>2 DEF OpenDial
    <2>2. k = key[h] => Cardinality(Users(k)') = Cardinality(Users(k)) + 1
      BY <1>2, DialUsers, UsersFinite, FS_AddElement
    <2>3. k # key[h] => Users(k)' = Users(k)
      BY <1>2, DialUsers
    <2> QED BY <2>1, <2>2, <2>3 DEF ActiveExact, TypeOK
  <1>3. ASSUME NEW h \in Handlers, Release(h), NEW k \in Keys
        PROVE  active'[k] = Cardinality(Users(k)')
    <2>1. active' = [active EXCEPT ![key[h]] = IF active[key[h]] > 0 THEN active[key[h]] - 1 ELSE 0]
      BY <1>3 DEF Release
    <2>2. k = key[h] => /\ Cardinality(Users(k)') = Cardinality(Users(k)) - 1
                        /\ Users(k) # {}
      BY <1>3, ReleaseUsers, UsersFinite, FS_RemoveElement
    <2>3. k # key[h] => Users(k)' = Users(k)
      BY <1>3, ReleaseUsers
    <2>4. k = key[h] => active[k] = Cardinality(Users(k)) /\ active[k] > 0
      BY <2>2, UsersFinite, FS_EmptySet DEF ActiveExact
    <2> QED BY <2>1, <2>2, <2>3, <2>4 DEF ActiveExact, TypeOK
  <1> QED BY <1>1, <1>2, <1>3, ConnectionSteps DEF ActiveExact

(* Without connections the counts are zero.                                  *)
LEMMA InitActive == Init => ActiveExact
  <1> SUFFICES ASSUME Init, NEW k \in Keys PROVE active[k] = Cardinality(Users(k))
    BY DEF ActiveExact
  <1>1. Users(k) = {}
    BY DEF Init, Users, Connected
  <1> QED BY <1>1, FS_EmptySet DEF Init

(* runtime.active is exact in every behaviour: a connection is counted once  *)
(* when Open returns it and discounted once however often it is closed.      *)
THEOREM ActiveIsExact == Spec => []ActiveExact
  BY InitActive, NextActive, TypeCorrect, PTL DEF Spec

(* Until Shutdown begins, a workload with a connection through any of its    *)
(* aliases stays scaled for the engine and up in the cluster, with the one   *)
(* exception the code has: its last scaler call failed, so the update of an  *)
(* abandoned downscale may still arrive.                                     *)
THEOREM NeverDownInUse == Spec => []InUseMeansUp
  <1>1. IInv => InUseMeansUp
    BY DEF IInv
  <1> QED BY <1>1, EngineInvariant, PTL

-----------------------------------------------------------------------------
(* No lost wakeup.                                                           *)

(* Every step of the engine keeps a callback for an idle workload.           *)
LEMMA NextIdle == LockInv /\ IdleHasCallback /\ [Next]_vars => IdleHasCallback'
  <1> SUFFICES ASSUME LockInv, IdleHasCallback, [Next]_vars,
                      NEW w \in Workloads,
                      scaled'[w], active'[w] = 0, mu'[w] = Unlocked, lastScale'[w] = "ok"
               PROVE  \E t \in Timers : timer'[t] \in {"pending", "fired"} /\ timerKey'[t] = w
    BY DEF IdleHasCallback
  <1> DEFINE Goal == \E t \in Timers : timer'[t] \in {"pending", "fired"} /\ timerKey'[t] = w
  <1> USE ActorAssumption
      DEF runtimeVars, timerVars, handlerVars, shutVars, clusterVars, gaugeVars
  <1>0. TypeOK /\ MutexInv /\ HolderInv /\ Workloads \subseteq Keys
    BY DEF LockInv, Keys
  <1>1. ASSUME NEW h \in Handlers, NEW g \in Grants, OpenResolve(h, g) PROVE Goal
    BY <1>1 DEF OpenResolve, IdleHasCallback
  <1>2. ASSUME NEW h \in Handlers, OpenLock(h) PROVE Goal
    <2>1. w # key[h] /\ mu[w] = Unlocked
      BY <1>0, <1>2 DEF OpenLock, NeedsScaleUp, Lock, TypeOK
    <2>2. PICK t \in Timers : timer[t] \in {"pending", "fired"} /\ timerKey[t] = w
      BY <1>2, <2>1 DEF OpenLock, IdleHasCallback
    <2>3. t # idleTimer[key[h]]
      BY <1>0, <2>1, <2>2 DEF HolderInv, TypeOK
    <2> QED BY <1>0, <1>2, <2>2, <2>3 DEF OpenLock, StopTimer, TypeOK
  <1>3. ASSUME NEW h \in Handlers, OpenScaleUp(h) PROVE Goal
    BY <1>0, <1>3, ScaleSteps DEF OpenSteps,
                      MutexInv, HolderInv, TypeOK, IdleHasCallback
  <1>4. ASSUME NEW h \in Handlers, OpenDial(h) PROVE Goal
    BY <1>0, <1>4 DEF OpenDial, Unlock, TypeOK, IdleHasCallback
  <1>5. ASSUME NEW h \in Handlers, OpenDialFails(h) PROVE Goal
    BY <1>0, <1>5 DEF OpenDialFails, MustUndo, Unlock, TypeOK, IdleHasCallback
  <1>6. ASSUME NEW h \in Handlers, OpenUndo(h) PROVE Goal
    BY <1>0, <1>6, ScaleSteps DEF Lowers, TypeOK, IdleHasCallback
  <1>7. ASSUME NEW h \in Handlers, NEW c \in Closers, Close(h, c) PROVE Goal
    BY <1>7 DEF Close, IdleHasCallback
  <1>8. ASSUME NEW h \in Handlers, Release(h) PROVE Goal
    <2>1. CASE w = key[h]
      <3>1. ArmTimer(w)
        BY <1>0, <1>8, <2>1 DEF Release, StartsIdle, TypeOK
      <3> QED BY <1>0, <3>1 DEF ArmTimer, FreeTimers, TypeOK
    <2>2. CASE w # key[h]
      <3>1. PICK t \in Timers : timer[t] \in {"pending", "fired"} /\ timerKey[t] = w
        BY <1>0, <1>8, <2>2 DEF Release, TypeOK, IdleHasCallback
      <3>2. ArmTimer(key[h]) \/ UNCHANGED timerVars
        BY <1>8 DEF Release
      <3> QED BY <1>0, <3>1, <3>2 DEF ArmTimer, FreeTimers, TypeOK
    <2> QED BY <2>1, <2>2
  <1>9. ASSUME NEW h \in Handlers, Return(h) PROVE Goal
    BY <1>9 DEF Return, IdleHasCallback
  <1>10. ASSUME NEW t \in Timers, TimerFires(t) PROVE Goal
    BY <1>0, <1>10 DEF TimerFires, TypeOK, IdleHasCallback
  <1>11. ASSUME NEW t \in Timers, CallbackLock(t) PROVE Goal
    BY <1>0, <1>11 DEF CallbackLock, StillIdle, Lock, TypeOK, IdleHasCallback
  <1>12. ASSUME NEW t \in Timers, CallbackScaleDown(t) PROVE Goal
    BY <1>0, <1>12, ScaleSteps DEF Lowers, TypeOK, IdleHasCallback
  <1>13. ASSUME ShutdownStep PROVE Goal
    <2>1. ASSUME ShutdownBegin \/ ShutdownExpires \/ ShutdownEnd PROVE Goal
      BY <2>1 DEF ShutdownBegin, ShutdownExpires, ShutdownEnd, IdleHasCallback
    <2>2. ASSUME NEW k \in Keys, ShutdownLock(k) PROVE Goal
      <3>1. w # k /\ mu[w] = Unlocked
        BY <1>0, <2>2 DEF ShutdownLock, Lock, TypeOK
      <3>2. PICK t \in Timers : timer[t] \in {"pending", "fired"} /\ timerKey[t] = w
        BY <2>2, <3>1 DEF ShutdownLock, IdleHasCallback
      <3>3. t # idleTimer[k]
        BY <1>0, <3>1, <3>2 DEF HolderInv, TypeOK
      <3> QED BY <1>0, <2>2, <3>2, <3>3 DEF ShutdownLock, StopTimer, TypeOK
    <2>3. ASSUME NEW k \in Keys, ShutdownScaleDown(k) PROVE Goal
      BY <1>0, <2>3, ScaleSteps DEF Lowers, TypeOK, IdleHasCallback
    <2> QED BY <1>13, <2>1, <2>2, <2>3 DEF ShutdownStep
  <1>14. ASSUME UNCHANGED vars \/ \E v \in Workloads, b \in BOOLEAN : LateUpdate(v, b) PROVE Goal
    BY <1>14 DEF LateUpdate, vars, IdleHasCallback
  <1> QED
    BY <1>1, <1>2, <1>3, <1>4, <1>5, <1>6, <1>7, <1>8, <1>9, <1>10, <1>11, <1>12, <1>13, <1>14
    DEF Next, HandlerStep, TimerStep

(* An idle workload the engine started always has a timer or a callback that *)
(* will look at it, unless the scaler refused the last call on it.           *)
THEOREM NoLostWakeup == Spec => []IdleHasCallback
  <1>1. Init => IdleHasCallback
    BY DEF Init, IdleHasCallback
  <1>2. IInv => LockInv
    BY DEF IInv, LockInv
  <1> QED BY <1>1, <1>2, NextIdle, EngineInvariant, PTL DEF Spec

-----------------------------------------------------------------------------
(* The engine's view of the cluster.                                         *)

(* runtime.scaled agrees with the cluster whenever no scaler call is running *)
(* and the last one was answered, whatever updates of earlier, failed calls  *)
(* are still on their way.                                                   *)
THEOREM FlagTracksCluster == Spec => []ScaledTracksCluster
  <1>1. IInv => ScaledTracksCluster
    BY DEF IInv, LateInv, ScaledTracksCluster
  <1> QED BY <1>1, EngineInvariant, PTL

-----------------------------------------------------------------------------
(* The gauges.                                                               *)

(* The workloads the engine has up are finitely many, and so are the         *)
(* connections of a service type.                                            *)
ScaledKeys == {k \in Keys : scaled[k]}
TypeUsers(s) == {h \in Handlers : pc[h] \in Connected /\ ServiceType(key[h]) = s}

(* What the gauges count is finite.                                          *)
LEMMA GaugedFinite ==
  /\ IsFiniteSet(ScaledKeys)
  /\ \A s : IsFiniteSet(TypeUsers(s))
  <1>1. IsFiniteSet(Keys)
    BY KeysAssumption, FS_Union DEF Keys
  <1> QED BY <1>1, FS_Subset, ActorAssumption DEF ScaledKeys, TypeUsers

(* The workload gauge follows scaled: who marks a workload as started holds  *)
(* its mutex and found it stopped, and the other way round.                  *)
LEMMA NextManaged ==
  IInv /\ managedWorkloads = Cardinality(ScaledKeys) /\ [Next]_vars
    => managedWorkloads' = Cardinality(ScaledKeys')
  <1> SUFFICES ASSUME IInv, managedWorkloads = Cardinality(ScaledKeys), [Next]_vars
               PROVE  managedWorkloads' = Cardinality(ScaledKeys')
    OBVIOUS
  <1> DEFINE Goal == managedWorkloads' = Cardinality(ScaledKeys')
             Quiet == UNCHANGED <<scaled, managedWorkloads>>
  <1> USE DEF runtimeVars, timerVars, handlerVars, shutVars, clusterVars, gaugeVars
  <1>0. TypeOK /\ HolderInv /\ MutexInv
    BY DEF IInv
  <1>1. ASSUME Quiet PROVE Goal
    BY <1>1 DEF ScaledKeys
  <1>2. ASSUME NEW h \in Handlers, HandlerStep(h), ~OpenScaleUp(h), ~OpenUndo(h)
        PROVE  Quiet
    BY <1>2 DEF HandlerStep, OpenResolve, OpenLock, OpenDial, OpenDialFails, Close, Release, Return
  <1>3. ASSUME NEW k \in Keys, ~scaled[k], MarkStarted(k) PROVE Goal
    <2>1. ScaledKeys' = ScaledKeys \cup {k} /\ k \notin ScaledKeys
      BY <1>0, <1>3 DEF MarkStarted, ScaledKeys, TypeOK
    <2>2. Cardinality(ScaledKeys \cup {k}) = Cardinality(ScaledKeys) + 1
      BY <2>1, GaugedFinite, FS_AddElement
    <2> QED BY <1>3, <2>1, <2>2 DEF MarkStarted
  <1>4. ASSUME NEW k \in Keys, scaled[k], MarkStopped(k) PROVE Goal
    <2>1. ScaledKeys' = ScaledKeys \ {k} /\ k \in ScaledKeys
      BY <1>0, <1>4 DEF MarkStopped, ScaledKeys, TypeOK
    <2>2. Cardinality(ScaledKeys \ {k}) = Cardinality(ScaledKeys) - 1
      BY <2>1, GaugedFinite, FS_RemoveElement
    <2> QED BY <1>4, <2>1, <2>2 DEF MarkStopped
  <1>5. ASSUME NEW h \in Handlers, OpenScaleUp(h) PROVE Goal
    <2>1. key[h] \in Keys /\ ~scaled[key[h]]
      BY <1>0, <1>5 DEF TypeOK, HolderInv, OpenScaleUp
    <2> QED BY <1>1, <1>3, <1>5, <2>1 DEF OpenScaleUp
  <1>6. ASSUME NEW h \in Handlers, OpenUndo(h) PROVE Goal
    <2>1. key[h] \in Keys /\ scaled[key[h]]
      BY <1>0, <1>6 DEF TypeOK, HolderInv, OpenUndo
    <2> QED BY <1>1, <1>4, <1>6, <2>1 DEF OpenUndo
  <1>7. ASSUME NEW t \in Timers, TimerFires(t) \/ CallbackLock(t) PROVE Quiet
    BY <1>7 DEF TimerFires, CallbackLock
  <1>8. ASSUME NEW t \in Timers, CallbackScaleDown(t) PROVE Goal
    <2>1. timerKey[t] \in Keys /\ scaled[timerKey[t]]
      BY <1>0, <1>8 DEF TypeOK, HolderInv, CallbackScaleDown
    <2> QED BY <1>1, <1>4, <1>8, <2>1 DEF CallbackScaleDown
  <1>9. ASSUME NEW k \in Keys, ShutdownScaleDown(k) PROVE Goal
    <2>1. scaled[k]
      BY <1>0, <1>9 DEF MutexInv, ShutdownScaleDown
    <2> QED BY <1>1, <1>4, <1>9, <2>1 DEF ShutdownScaleDown
  <1>10. ASSUME ShutdownBegin \/ (\E k \in Keys : ShutdownLock(k)) \/ ShutdownExpires \/ ShutdownEnd
         PROVE  Quiet
    BY <1>10 DEF ShutdownBegin, ShutdownLock, ShutdownExpires, ShutdownEnd
  <1>11. ASSUME UNCHANGED vars \/ \E w \in Workloads, b \in BOOLEAN : LateUpdate(w, b) PROVE Quiet
    BY <1>11 DEF LateUpdate, vars
  <1> HIDE DEF Goal, Quiet
  <1>12. Goal
    BY <1>1, <1>2, <1>5, <1>6, <1>7, <1>8, <1>9, <1>10, <1>11 DEF Next, TimerStep, ShutdownStep
  <1> QED BY <1>12 DEF Goal

(* The connection gauges count what active counts, by service type.          *)
ConnectionsExact ==
  \A s \in {"static", "managed"} : connections[s] = Cardinality(TypeUsers(s))

(* A connection is gauged when Open returns it and when its count goes down. *)
LEMMA NextConnections ==
  TypeOK /\ ActiveExact /\ ConnectionsExact /\ [Next]_vars => ConnectionsExact'
  <1> SUFFICES ASSUME TypeOK, ActiveExact, ConnectionsExact, [Next]_vars,
                      NEW s \in {"static", "managed"}
               PROVE  connections'[s] = Cardinality(TypeUsers(s)')
    BY DEF ConnectionsExact
  <1>0. connections[s] = Cardinality(TypeUsers(s)) /\ connections \in [{"static", "managed"} -> Int]
    BY DEF ConnectionsExact, TypeOK
  <1>1. CASE /\ \A h \in Handlers :
                  /\ pc'[h] \in Connected <=> pc[h] \in Connected
                  /\ pc[h] \in Connected => key'[h] = key[h]
             /\ UNCHANGED <<active, connections>>
    <2>1. TypeUsers(s)' = TypeUsers(s)
      BY <1>1 DEF TypeUsers
    <2> QED BY <1>0, <1>1, <2>1
  <1>2. ASSUME NEW h \in Handlers, OpenDial(h)
        PROVE  connections'[s] = Cardinality(TypeUsers(s)')
    <2>1. connections' = [connections EXCEPT ![ServiceType(key[h])] = connections[ServiceType(key[h])] + 1]
      BY <1>2 DEF OpenDial
    <2>2. CASE s = ServiceType(key[h])
      <3>1. TypeUsers(s)' = TypeUsers(s) \cup {h} /\ h \notin TypeUsers(s)
        BY <1>2, <2>2 DEF OpenDial, Goto, TypeUsers, Connected, TypeOK
      <3>2. Cardinality(TypeUsers(s) \cup {h}) = Cardinality(TypeUsers(s)) + 1
        BY <3>1, GaugedFinite, FS_AddElement
      <3> QED BY <1>0, <2>1, <2>2, <3>1, <3>2
    <2>3. CASE s # ServiceType(key[h])
      <3>1. TypeUsers(s)' = TypeUsers(s)
        BY <1>2, <2>3 DEF OpenDial, Goto, TypeUsers, Connected, TypeOK
      <3> QED BY <1>0, <2>1, <2>3, <3>1
    <2> QED BY <2>2, <2>3
  <1>3. ASSUME NEW h \in Handlers, Release(h)
        PROVE  connections'[s] = Cardinality(TypeUsers(s)')
    <2>1. key[h] \in Keys /\ active[key[h]] \in Nat /\ active[key[h]] > 0
      <3>1. key[h] \in Keys /\ h \in Users(key[h])
        BY <1>3, ReleaseUsers DEF TypeOK
      <3> QED BY <3>1, UsersFinite, FS_EmptySet DEF ActiveExact
    <2>2. connections' = [connections EXCEPT ![ServiceType(key[h])] = connections[ServiceType(key[h])] - 1]
      <3>1. active[key[h]] - (active[key[h]] - 1) = 1
        BY <2>1
      <3> QED BY <1>3, <2>1, <3>1 DEF Release
    <2>3. CASE s = ServiceType(key[h])
      <3>1. TypeUsers(s)' = TypeUsers(s) \ {h} /\ h \in TypeUsers(s)
        BY <1>3, <2>3 DEF Release, Goto, TypeUsers, Connected, TypeOK
      <3>2. Cardinality(TypeUsers(s) \ {h}) = Cardinality(TypeUsers(s)) - 1
        BY <3>1, GaugedFinite, FS_RemoveElement
      <3> QED BY <1>0, <2>2, <2>3, <3>1, <3>2
    <2>4. CASE s # ServiceType(key[h])
      <3>1. TypeUsers(s)' = TypeUsers(s)
        BY <1>3, <2>4 DEF Release, Goto, TypeUsers, Connected, TypeOK
      <3> QED BY <1>0, <2>2, <2>4, <3>1
    <2> QED BY <2>3, <2>4
  <1> QED BY <1>1, <1>2, <1>3, ConnectionSteps

(* The Prometheus gauges report the engine's state in every behaviour: none  *)
(* of the paths that scale, connect or release forgets its gauge.            *)
THEOREM GaugesNeverDrift == Spec => []GaugesExact
  <1> DEFINE ManagedExact == managedWorkloads = Cardinality(ScaledKeys)
  <1>1. Init => ManagedExact /\ ConnectionsExact
    <2> SUFFICES ASSUME Init PROVE ManagedExact /\ ConnectionsExact
      OBVIOUS
    <2>1. ScaledKeys = {} /\ \A s : TypeUsers(s) = {}
      BY DEF Init, ScaledKeys, TypeUsers, Connected
    <2> QED BY <2>1, FS_EmptySet DEF Init, ConnectionsExact
  <1>2. IInv /\ ManagedExact /\ [Next]_vars => ManagedExact'
    BY NextManaged
  <1>3. ManagedExact /\ ConnectionsExact => GaugesExact
    BY DEF GaugesExact, ConnectionsExact, ScaledKeys, TypeUsers
  <1> HIDE DEF ManagedExact
  <1> QED BY <1>1, <1>2, <1>3, NextConnections, TypeCorrect, EngineInvariant, ActiveIsExact, PTL DEF Spec

-----------------------------------------------------------------------------
(* The engine implements ScaleToZero.                                        *)

(* A runtime whose count is zero has no user.                                *)
LEMMA CountZero == ActiveExact => \A k \in Keys : active[k] = 0 => Users(k) = {}
  BY UsersFinite, FS_EmptySet DEF ActiveExact

(* The abstract users, as a function.                                        *)
LEMMA SameUsers ==
  ASSUME \A h \in Handlers :
           /\ pc'[h] \in Connected <=> pc[h] \in Connected
           /\ pc[h] \in Connected => key'[h] = key[h]
  PROVE  [w \in Workloads |-> Users(w)]' = [w \in Workloads |-> Users(w)]
  BY DEF Users

(* Every step of the engine is a step of ScaleToZero or changes nothing there. *)
LEMMA StepImplements ==
  IInv /\ ActiveExact /\ [Next]_vars => [Abstract!Next]_(Abstract!vars)
  <1> SUFFICES ASSUME IInv, ActiveExact, [Next]_vars
               PROVE  Abstract!Next \/ UNCHANGED Abstract!vars
    OBVIOUS
  <1> DEFINE us == [w \in Workloads |-> Users(w)]
             draining == shut # "serving"
             stops == {w \in Workloads : "down" \in late[w]}
             Still == us' = us /\ draining' = draining
             Quiet == up' = up /\ stops' = stops /\ Still
             Changed(k) == stops' = IF up[k] = up'[k] THEN stops ELSE stops \ {k}
             Up(k) == k \in Workloads /\ up' = [up EXCEPT ![k] = TRUE] /\ Changed(k) /\ Still
             Unused(k) == k \in Workloads /\ (us[k] = {} \/ draining)
             Down(k) == up' = [up EXCEPT ![k] = FALSE] /\ Changed(k) /\ Still
             Abandoned(k) == up' = up /\ stops' = stops \cup {k} /\ Still
             Done == Abstract!Next \/ UNCHANGED Abstract!vars
  <1> USE DEF runtimeVars, timerVars, handlerVars, shutVars, clusterVars, gaugeVars
  <1>0. TypeOK /\ MutexInv /\ HolderInv /\ Workloads \subseteq Keys
    BY DEF IInv, Keys
  <1>a. Quiet => UNCHANGED Abstract!vars
    BY DEF Abstract!vars
  <1>b. ASSUME NEW k, Up(k) PROVE Abstract!Next
    BY <1>0, <1>b DEF Abstract!Next, Abstract!Start, Abstract!Becomes, TypeOK
  <1>c. ASSUME NEW k, Unused(k), Down(k) \/ Abandoned(k) PROVE Abstract!Next
    BY <1>0, <1>c DEF Abstract!Next, Abstract!Stop, Abstract!Abandon, Abstract!Becomes, TypeOK
  <1>d. ASSUME NEW k \in Workloads, NEW b \in BOOLEAN, Store(k, b), Still
        PROVE  IF b THEN Up(k) ELSE Down(k)
    <2>1. Changed(k)
      BY <1>0, <1>d DEF Store, TypeOK
    <2> QED BY <1>d, <2>1 DEF Store
  <1>e. ASSUME NEW k \in Workloads, ScaleOK(k, TRUE) \/ ScaleErr(k, TRUE), Still
        PROVE  Quiet \/ Up(k)
    <2>1. CASE Store(k, TRUE)
      BY <1>d, <1>e, <2>1
    <2>2. CASE UNCHANGED <<up, late>>
      BY <1>e, <2>2
    <2>3. CASE late' = [late EXCEPT ![k] = @ \cup {"up"}] /\ UNCHANGED up
      <3>1. stops' = stops
        BY <1>0, <2>3 DEF TypeOK
      <3> QED BY <1>e, <2>3, <3>1
    <2> QED BY <1>e, <2>1, <2>2, <2>3 DEF ScaleOK, ScaleErr, Direction
  <1>f. ASSUME NEW k \in Workloads, ScaleOK(k, FALSE) \/ ScaleErr(k, FALSE), Still
        PROVE  Quiet \/ Down(k) \/ Abandoned(k)
    <2>1. CASE Store(k, FALSE)
      BY <1>d, <1>f, <2>1
    <2>2. CASE UNCHANGED <<up, late>>
      BY <1>f, <2>2
    <2>3. CASE late' = [late EXCEPT ![k] = @ \cup {"down"}] /\ UNCHANGED up
      <3>1. stops' = stops \cup {k}
        BY <1>0, <2>3 DEF TypeOK
      <3> QED BY <1>f, <2>3, <3>1
    <2> QED BY <1>f, <2>1, <2>2, <2>3 DEF ScaleOK, ScaleErr, Direction
  <1>1. ASSUME NEW h \in Handlers, OpenDial(h) PROVE Abstract!Next \/ UNCHANGED Abstract!vars
    <2>1. up' = up /\ stops' = stops /\ draining' = draining /\ key[h] \in Keys
      BY <1>0, <1>1 DEF OpenDial, TypeOK
    <2>2. CASE key[h] \in Workloads
      <3>1. up[key[h]] /\ \A v \in Workloads : h \notin us[v]
        BY <1>0, <1>1, <2>2 DEF OpenDial, DialSucceeds, Users, Connected
      <3>2. us' = [us EXCEPT ![key[h]] = @ \cup {h}]
        BY <1>0, <1>1, DialUsers
      <3> QED BY <2>1, <2>2, <3>1, <3>2 DEF Abstract!Next, Abstract!Connect
    <2>3. CASE key[h] \notin Workloads
      <3>1. us' = us
        BY <1>0, <1>1, <2>3, DialUsers
      <3> QED BY <1>a, <2>1, <3>1
    <2> QED BY <2>2, <2>3
  <1>2. ASSUME NEW h \in Handlers, Release(h) PROVE Abstract!Next \/ UNCHANGED Abstract!vars
    <2>1. up' = up /\ stops' = stops /\ draining' = draining
      BY <1>2 DEF Release
    <2>2. CASE key[h] \in Workloads
      <3>1. h \in us[key[h]]
        BY <1>0, <1>2, <2>2, ReleaseUsers
      <3>2. us' = [us EXCEPT ![key[h]] = @ \ {h}]
        BY <1>0, <1>2, ReleaseUsers
      <3> QED BY <2>1, <2>2, <3>1, <3>2 DEF Abstract!Next, Abstract!Disconnect
    <2>3. CASE key[h] \notin Workloads
      <3>1. us' = us
        BY <1>0, <1>2, <2>3, ReleaseUsers
      <3> QED BY <1>a, <2>1, <3>1
    <2> QED BY <2>2, <2>3
  <1>3. CASE ~(\E h \in Handlers : OpenDial(h) \/ Release(h))
    <2>0. us' = us
      BY <1>0, <1>3, ConnectionSteps, SameUsers
    <2>1. ASSUME NEW h \in Handlers, HandlerStep(h), ~OpenScaleUp(h), ~OpenUndo(h)
          PROVE  Quiet
      BY <1>3, <2>0, <2>1 DEF HandlerStep, OpenResolve, OpenLock, OpenDialFails, Close, Return
    <2>2. ASSUME NEW h \in Handlers, OpenScaleUp(h) PROVE Done
      <3>1. key[h] \in Workloads /\ Still
        BY <1>0, <2>0, <2>2 DEF OpenScaleUp, HolderInv
      <3>2. Quiet \/ Up(key[h])
        BY <1>e, <2>2, <3>1 DEF OpenScaleUp
      <3> QED BY <1>a, <1>b, <3>2
    <2>3. ASSUME NEW h \in Handlers, OpenUndo(h) PROVE Done
      <3>1. Unused(key[h]) /\ Still
        BY <1>0, <2>0, <2>3, CountZero DEF OpenUndo, HolderInv
      <3>2. Quiet \/ Down(key[h]) \/ Abandoned(key[h])
        BY <1>f, <2>3, <3>1 DEF OpenUndo
      <3> QED BY <1>a, <1>c, <3>1, <3>2
    <2>4. ASSUME NEW t \in Timers, TimerFires(t) \/ CallbackLock(t) PROVE Quiet
      BY <2>0, <2>4 DEF TimerFires, CallbackLock
    <2>5. ASSUME NEW t \in Timers, CallbackScaleDown(t) PROVE Done
      <3>1. Unused(timerKey[t]) /\ Still
        BY <1>0, <2>0, <2>5, CountZero DEF CallbackScaleDown, HolderInv, TypeOK
      <3>2. Quiet \/ Down(timerKey[t]) \/ Abandoned(timerKey[t])
        BY <1>f, <2>5, <3>1 DEF CallbackScaleDown
      <3> QED BY <1>a, <1>c, <3>1, <3>2
    <2>6. ASSUME ShutdownBegin PROVE Done
      BY <2>0, <2>6 DEF ShutdownBegin, Abstract!Next, Abstract!Drain
    <2>7. ASSUME NEW k \in Keys, ShutdownLock(k) PROVE Quiet
      BY <2>0, <2>7 DEF ShutdownLock
    <2>8. ASSUME NEW k \in Keys, ShutdownScaleDown(k) PROVE Done
      <3>1. Unused(k) /\ Still
        BY <1>0, <2>0, <2>8 DEF ShutdownScaleDown, MutexInv, HolderInv
      <3>2. Quiet \/ Down(k) \/ Abandoned(k)
        BY <1>f, <2>8, <3>1 DEF ShutdownScaleDown
      <3> QED BY <1>a, <1>c, <3>1, <3>2
    <2>9. ASSUME ShutdownExpires \/ ShutdownEnd \/ UNCHANGED vars PROVE Quiet
      BY <2>0, <2>9 DEF ShutdownExpires, ShutdownEnd, vars
    <2>10. ASSUME NEW w \in Workloads, NEW b \in BOOLEAN, LateUpdate(w, b) PROVE Done
      <3>1. Store(w, b) /\ Still /\ Direction(b) \in late[w]
        BY <2>0, <2>10 DEF LateUpdate
      <3>2. CASE b = TRUE
        BY <1>b, <1>d, <3>1, <3>2
      <3>3. CASE b = FALSE
        <4>1. Down(w) /\ w \in stops
          BY <1>d, <3>1, <3>3 DEF Direction
        <4> QED BY <1>0, <4>1 DEF Abstract!Next, Abstract!LateStop, Abstract!Becomes, TypeOK
      <3> QED BY <3>2, <3>3
    <2>11. Quiet => Done
      BY <1>a
    <2> HIDE DEF Quiet, Done
    <2>12. Done
      BY <2>11, <2>1, <2>2, <2>3, <2>4, <2>5, <2>6, <2>7, <2>8, <2>9, <2>10
      DEF Next, TimerStep, ShutdownStep
    <2> QED BY <2>12 DEF Done
  <1> QED BY <1>1, <1>2, <1>3

(* The engine, with its mutexes, timers and failing scaler calls, promises   *)
(* what ScaleToZero states: connections only to running workloads, and       *)
(* before Shutdown no stop under a user, except by an update that was on its *)
(* way from a downscale abandoned when there was none.                       *)
THEOREM Refinement == Spec => ImplementsScaleToZero
  <1>1. Init => Abstract!Init
    BY DEF Init, Abstract!Init, Users, Connected
  <1> QED
    BY <1>1, StepImplements, EngineInvariant, ActiveIsExact, PTL
    DEF Spec, ImplementsScaleToZero, Abstract!Spec
=============================================================================
