-------------------------------- MODULE Scaler --------------------------------
(***************************************************************************)
(* One workload's scale in the Kubernetes API and the Scale calls of the     *)
(* lifecycle engine on it (internal/kube/scaler.go; internal/server/         *)
(* lifecycle.go decides which call comes next).                              *)
(*                                                                           *)
(* Scale reads the scale, writes it back with the replicas asked for, and    *)
(* starts again when the API server reports a conflict: something else wrote *)
(* the object in between.  A call that gives up, by its deadline or by a     *)
(* network error, may leave its update on its way: the API server can apply  *)
(* it when the engine has gone on to later calls.                            *)
(*                                                                           *)
(* The API server accepts an update only with the object's current           *)
(* resourceVersion, changes the version with every write that changes the    *)
(* object, and never reuses one.  So of a version that somebody has read the *)
(* model keeps whether it is still current, and an update that is on its way *)
(* with an outdated version is dropped at once: it can only be refused.      *)
(***************************************************************************)
EXTENDS ConflictRetry

CONSTANT Replicas   (* replica counts that grants of the workload ask for *)

ASSUME ReplicasAssumption == Replicas \subseteq Nat \ {0}

VARIABLES
  replicas,       (* the object: spec.replicas                              *)
  scaled,         (* runtime.scaled of the engine                           *)
  answer,         (* history: the last answer, "none", "ok" or "failed"     *)
  call,           (* "none", "get", "update" or "sent": the Scale call that *)
                  (* holds runtime.mu                                       *)
  target,         (* the replicas it asks for                               *)
  attempt,        (* of RetryOnConflict                                     *)
  current,        (* the version it has read is the object's version        *)
  late            (* updates with the current version that abandoned calls  *)
                  (* have left on their way                                 *)

scalerVars == <<replicas, scaled, answer, call, target, attempt, current, late>>

Counts == Replicas \cup {0}

ScalerTypeOK ==
  /\ replicas \in Nat
  /\ scaled \in BOOLEAN
  /\ answer \in {"none", "ok", "failed"}
  /\ call \in {"none", "get", "update", "sent"}
  /\ target \in Counts
  /\ attempt \in 1..Steps
  /\ current \in BOOLEAN
  /\ late \subseteq Counts

(* The gateway has just started; the cluster is as somebody left it.         *)
ScalerInit ==
  /\ replicas \in Counts
  /\ scaled = FALSE
  /\ answer = "none"
  /\ call = "none"
  /\ target = 0
  /\ attempt = 1
  /\ current = FALSE
  /\ late = {}

-----------------------------------------------------------------------------
(* The API server.                                                           *)

(* Mutant: updates on their way do not carry the version they were computed  *)
(* from, so a write does not outdate them.                                   *)
StoreUnversioned(r) ==
  /\ replicas' = r
  /\ UNCHANGED late

(* A write that changes the object outdates every version read before; one   *)
(* that changes nothing is not stored and leaves the version alone.          *)
Store(r) ==
  /\ replicas' = r
  /\ late' = IF r = replicas THEN late ELSE {}

(* The workload's controller writes the status, or somebody a label.         *)
OtherWrite ==
  /\ current' = FALSE
  /\ late' = {}
  /\ UNCHANGED <<replicas, scaled, answer, call, target, attempt>>

(* An update of an abandoned call arrives, and its version still fits.       *)
LateUpdate(r) ==
  /\ r \in late
  /\ replicas' = r
  /\ late' = IF r = replicas THEN late \ {r} ELSE {}
  /\ current' = (current /\ r = replicas)
  /\ UNCHANGED <<scaled, answer, call, target, attempt>>

-----------------------------------------------------------------------------
(* The engine.  Each call holds runtime.mu, so there is one at a time.       *)

(* Open scales up what is not scaled; the idle timer, the undo of a failed   *)
(* dial and Shutdown scale down what is.                                     *)
MustScale(r) == IF scaled THEN r = 0 ELSE r \in Replicas

Scale(r) ==
  /\ call = "none"
  /\ MustScale(r)
  /\ call' = "get"
  /\ target' = r
  /\ attempt' = 1
  /\ UNCHANGED <<replicas, scaled, answer, current, late>>

(* The engine notes the answer.  After an error scaled stays as it was.  The *)
(* call's own variables are gone.                                            *)
Return(a) ==
  /\ call' = "none"
  /\ answer' = a
  /\ scaled' = IF a = "ok" THEN target > 0 ELSE scaled
  /\ target' = 0
  /\ attempt' = 1
  /\ current' = FALSE

GetScale ==
  /\ call = "get"
  /\ call' = "update"
  /\ current' = TRUE
  /\ UNCHANGED <<replicas, scaled, answer, target, attempt, late>>

(* scale.Spec.Replicas = replicas, and the request leaves.                   *)
SendUpdate ==
  /\ call = "update"
  /\ call' = "sent"
  /\ UNCHANGED <<replicas, scaled, answer, target, attempt, current, late>>

(* UpdateScale was applied and the answer arrives.                           *)
UpdateScale ==
  /\ call = "sent"
  /\ current
  /\ Store(target)
  /\ Return("ok")

(* Mutant: attempts without limit.                                           *)
ConflictRetriesForever ==
  /\ call = "sent"
  /\ ~current
  /\ call' = "get"
  /\ UNCHANGED <<replicas, scaled, answer, target, attempt, current, late>>

(* The API server reports a conflict: RetryOnConflict reads again, up to     *)
(* Steps attempts.                                                           *)
Conflict ==
  /\ call = "sent"
  /\ ~current
  /\ \/ /\ attempt < Steps
        /\ call' = "get"
        /\ attempt' = attempt + 1
        /\ UNCHANGED <<scaled, answer, target, current>>
     \/ /\ attempt = Steps
        /\ Return("failed")
  /\ UNCHANGED <<replicas, late>>

(* Any other error ends the call: the object is gone, access is denied, the  *)
(* network fails or the context ends.  An update that was sent may have been *)
(* applied, may never arrive, or may arrive later.                           *)
Fail ==
  /\ call \in {"get", "sent"}
  /\ Return("failed")
  /\ \/ UNCHANGED <<replicas, late>>
     \/ call = "sent" /\ current /\ Store(target)
     \/ /\ call = "sent" /\ current
        /\ late' = late \cup {target}
        /\ UNCHANGED replicas

ScalerNext ==
  \/ OtherWrite
  \/ \E r \in Counts : LateUpdate(r) \/ Scale(r)
  \/ GetScale
  \/ SendUpdate
  \/ UpdateScale
  \/ Conflict
  \/ Fail

ScalerSpec == ScalerInit /\ [][ScalerNext]_scalerVars

(* Requests are answered or their context ends: a scale-down has a deadline, *)
(* a scale-up has only the context of its SSH connection, so for it this     *)
(* assumes that the API server answers or the developer leaves.  Nothing     *)
(* else is owed: the other writers may conflict with every attempt.          *)
ScalerFairness ==
  WF_scalerVars(GetScale \/ SendUpdate \/ UpdateScale \/ Conflict \/ Fail)

-----------------------------------------------------------------------------
(* What Lifecycle assumes of an answered Scale call: from then on the        *)
(* workload runs exactly if the engine believes so, also when updates of     *)
(* earlier calls that failed arrive after it.  It holds because updates      *)
(* carry the version they were computed from, and because the engine never   *)
(* turns from one direction to the other without an answered call between.   *)
(* This is about one life of the gateway: what an earlier process left on    *)
(* its way is not here.                                                      *)
AnsweredScaleHolds == answer = "ok" => (scaled <=> replicas > 0)

(* Every Scale call returns if its requests end, although other writers may  *)
(* cause a conflict at every attempt: retries do not hold runtime.mu for     *)
(* ever.                                                                     *)
ScaleReturns == call # "none" ~> call = "none"

(* Updates that can still be applied, the call's own included, never turn a  *)
(* workload against the engine: what could stop a workload is only on its    *)
(* way while the engine has it scaled or while it is stopped anyway.         *)
OnTheWay ==
  late \cup (IF call \in {"update", "sent"} /\ current THEN {target} ELSE {})

DirectionInv ==
  /\ call # "none" => (scaled <=> target = 0)
  /\ \A r \in OnTheWay :
       /\ scaled /\ r > 0 => replicas > 0
       /\ ~scaled /\ r = 0 => replicas = 0

(* After an answered call the updates on their way agree with the engine     *)
(* until the next call begins, which can only be abandoned with an error.    *)
QuietInv ==
  answer = "ok" => \A r \in late : (r > 0) <=> scaled

ScalerInv ==
  ScalerTypeOK /\ DirectionInv /\ QuietInv /\ AnsweredScaleHolds

===============================================================================
