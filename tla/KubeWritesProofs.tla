--------------------------- MODULE KubeWritesProofs ---------------------------
(***************************************************************************)
(* Proofs about the two read-modify-write loops of internal/kube, for every  *)
(* set of replica counts and keys and every number of attempts.              *)
(***************************************************************************)
EXTENDS KubeWrites, TLAPS

-----------------------------------------------------------------------------
(* The scale of a workload.                                                  *)

(* Replica counts are numbers, and the first attempt is one.                 *)
LEMMA CountsAreNumbers == Counts \subseteq Nat /\ 0 \in Counts
  BY ReplicasAssumption DEF Counts

(* A call has at least one attempt.                                           *)
LEMMA FirstAttempt == 1 \in 1..Steps /\ Steps \in Nat
  BY StepsAssumption

(* The engine has made no call yet.                                          *)
LEMMA ScalerInitInv == ScalerInit => ScalerInv
  <1> SUFFICES ASSUME ScalerInit
               PROVE  ScalerInv
    OBVIOUS
  <1>1. ScalerTypeOK
    BY CountsAreNumbers, FirstAttempt DEF ScalerInit, ScalerTypeOK
  <1>2. DirectionInv /\ QuietInv /\ AnsweredScaleHolds
    BY DEF ScalerInit, DirectionInv, OnTheWay, QuietInv, AnsweredScaleHolds
  <1> QED BY <1>1, <1>2 DEF ScalerInv

(* A write by somebody else outdates everything that is on its way.          *)
LEMMA OtherWriteKeeps ==
  ASSUME ScalerInv, OtherWrite
  PROVE  ScalerInv'
  <1>1. ScalerTypeOK'
    BY DEF OtherWrite, ScalerInv, ScalerTypeOK
  <1>2. DirectionInv'
    BY DEF OtherWrite, ScalerInv, DirectionInv, OnTheWay
  <1>3. QuietInv' /\ AnsweredScaleHolds'
    BY DEF OtherWrite, ScalerInv, QuietInv, AnsweredScaleHolds
  <1> QED BY <1>1, <1>2, <1>3 DEF ScalerInv

(* A late update finds the engine of its own direction, or changes nothing.  *)
LEMMA LateUpdateKeeps ==
  ASSUME NEW r \in Counts, ScalerInv, LateUpdate(r)
  PROVE  ScalerInv'
  <1> USE DEF ScalerInv
  <1>1. r \in OnTheWay /\ r \in late /\ r \in Nat /\ replicas \in Nat
    BY CountsAreNumbers DEF LateUpdate, OnTheWay, ScalerTypeOK
  <1>2. current' \in BOOLEAN /\ late' \subseteq late /\ replicas' = r
    BY DEF LateUpdate
  <1>3. ScalerTypeOK'
    BY <1>1, <1>2 DEF LateUpdate, ScalerTypeOK
  <1>4. DirectionInv'
    <2>1. CASE r = replicas
      BY <2>1, <1>1 DEF LateUpdate, DirectionInv, OnTheWay
    <2>2. CASE r # replicas
      BY <2>2, <1>1 DEF LateUpdate, DirectionInv, OnTheWay
    <2> QED BY <2>1, <2>2
  <1>5. QuietInv'
    BY <1>2 DEF LateUpdate, QuietInv
  <1>6. AnsweredScaleHolds'
    BY <1>1, <1>2 DEF LateUpdate, QuietInv, AnsweredScaleHolds
  <1> QED BY <1>3, <1>4, <1>5, <1>6

(* The engine calls in the direction it is not in.                           *)
LEMMA ScaleKeeps ==
  ASSUME NEW r \in Counts, ScalerInv, Scale(r)
  PROVE  ScalerInv'
  <1>1. ScalerTypeOK'
    BY FirstAttempt DEF Scale, ScalerInv, ScalerTypeOK
  <1>2. scaled <=> r = 0
    BY ReplicasAssumption DEF Scale, MustScale
  <1>3. DirectionInv'
    BY <1>2 DEF Scale, ScalerInv, DirectionInv, OnTheWay
  <1>4. QuietInv' /\ AnsweredScaleHolds'
    BY DEF Scale, ScalerInv, QuietInv, AnsweredScaleHolds
  <1> QED BY <1>1, <1>3, <1>4 DEF ScalerInv

(* Reading and sending change no object.  What the call would write goes     *)
(* against the engine only where the workload agrees already.                *)
LEMMA RequestKeeps ==
  ASSUME ScalerInv, GetScale \/ SendUpdate
  PROVE  ScalerInv'
  <1>1. ScalerTypeOK'
    BY DEF GetScale, SendUpdate, ScalerInv, ScalerTypeOK
  <1>2. \A r \in OnTheWay' : r \in OnTheWay \/ r = target
    BY DEF GetScale, SendUpdate, OnTheWay
  <1>3. (scaled <=> target = 0) /\ target \in Nat /\ UNCHANGED <<scaled, target, replicas>>
    BY CountsAreNumbers DEF GetScale, SendUpdate, ScalerInv, ScalerTypeOK, DirectionInv
  <1>4. ASSUME NEW r \in OnTheWay'
        PROVE  (scaled /\ r > 0 => replicas > 0) /\ (~scaled /\ r = 0 => replicas = 0)
    <2>1. CASE r \in OnTheWay
      BY <2>1 DEF ScalerInv, DirectionInv
    <2>2. CASE r = target
      BY <2>2, <1>3
    <2> QED BY <1>2, <1>4, <2>1, <2>2
  <1>5. DirectionInv'
    BY <1>3, <1>4 DEF DirectionInv
  <1>6. QuietInv' /\ AnsweredScaleHolds'
    BY DEF GetScale, SendUpdate, ScalerInv, QuietInv, AnsweredScaleHolds
  <1> QED BY <1>1, <1>5, <1>6 DEF ScalerInv

(* The call's answer sets the engine's flag with the replicas.  A write that *)
(* changes nothing keeps the late updates; by DirectionInv those agree.      *)
LEMMA UpdateScaleKeeps ==
  ASSUME ScalerInv, UpdateScale
  PROVE  ScalerInv'
  <1>a. scaled' = (target > 0)
    BY DEF UpdateScale, Return
  <1>b. scaled' \in BOOLEAN
    BY <1>a
  <1>c. scaled' <=> target > 0
    BY <1>a, Zenon
  <1>1. scaled' \in BOOLEAN /\ (scaled' <=> target > 0)
    BY <1>b, <1>c
  <1>2. target \in Nat /\ replicas \in Nat /\ replicas' = target
    BY CountsAreNumbers DEF UpdateScale, Store, ScalerInv, ScalerTypeOK
  <1>3. ScalerTypeOK'
    BY <1>1, <1>2, CountsAreNumbers, FirstAttempt
    DEF UpdateScale, Store, Return, ScalerInv, ScalerTypeOK
  <1>4. AnsweredScaleHolds'
    BY <1>1, <1>2 DEF AnsweredScaleHolds
  <1>5. ASSUME NEW r \in late'
        PROVE  (r > 0) <=> scaled'
    <2>1. r \in late /\ target = replicas
      BY <1>5 DEF UpdateScale, Store
    <2>2. r \in OnTheWay /\ r \in Nat
      BY <2>1, CountsAreNumbers DEF OnTheWay, ScalerInv, ScalerTypeOK
    <2>3. (scaled /\ r > 0 => replicas > 0) /\ (~scaled /\ r = 0 => replicas = 0)
      BY <2>2 DEF ScalerInv, DirectionInv
    <2>4. scaled <=> target = 0
      BY DEF UpdateScale, ScalerInv, DirectionInv
    <2> QED BY <1>1, <1>2, <2>1, <2>2, <2>3, <2>4
  <1>6. call' = "none" /\ \A r \in OnTheWay' : r \in late' /\ r \in Nat
    BY <1>3, CountsAreNumbers DEF UpdateScale, Return, OnTheWay, ScalerTypeOK
  <1>7. DirectionInv'
    <2>1. ASSUME NEW r \in OnTheWay'
          PROVE  (scaled' /\ r > 0 => replicas' > 0) /\ (~scaled' /\ r = 0 => replicas' = 0)
      BY <2>1, <1>1, <1>2, <1>5, <1>6
    <2> QED BY <2>1, <1>6 DEF DirectionInv
  <1>8. QuietInv'
    BY <1>5 DEF QuietInv
  <1> QED BY <1>3, <1>4, <1>7, <1>8 DEF ScalerInv

(* A conflict ends in another attempt or in an error.                        *)
LEMMA ConflictKeeps ==
  ASSUME ScalerInv, Conflict
  PROVE  ScalerInv'
  <1>1. scaled' \in BOOLEAN
    BY DEF Conflict, Return, ScalerInv, ScalerTypeOK
  <1>2. attempt' \in 1..Steps
    BY FirstAttempt DEF Conflict, Return, ScalerInv, ScalerTypeOK
  <1>3. ScalerTypeOK'
    BY <1>1, <1>2, CountsAreNumbers DEF Conflict, Return, ScalerInv, ScalerTypeOK
  <1>4. DirectionInv'
    BY CountsAreNumbers DEF Conflict, Return, ScalerInv, ScalerTypeOK, DirectionInv, OnTheWay
  <1>5. QuietInv' /\ AnsweredScaleHolds'
    BY DEF Conflict, Return, ScalerInv, QuietInv, AnsweredScaleHolds
  <1> QED BY <1>3, <1>4, <1>5 DEF ScalerInv

(* An error leaves the engine's flag alone; what the call sent joins the     *)
(* late updates, among which DirectionInv has counted it already.            *)
LEMMA FailKeeps ==
  ASSUME ScalerInv, Fail
  PROVE  ScalerInv'
  <1>1. ScalerTypeOK'
    BY CountsAreNumbers, FirstAttempt DEF Fail, Store, Return, ScalerInv, ScalerTypeOK
  <1>2. answer' = "failed" /\ call' = "none" /\ scaled' = scaled
    BY DEF Fail, Return
  <1>3. \A r \in late' : r \in OnTheWay
    BY DEF Fail, Store, OnTheWay
  <1>4. replicas' = replicas \/ late' = {}
    BY DEF Fail, Store
  <1>5. DirectionInv'
    BY <1>2, <1>3, <1>4 DEF ScalerInv, DirectionInv, OnTheWay
  <1> QED BY <1>1, <1>2, <1>5 DEF ScalerInv, QuietInv, AnsweredScaleHolds

(* Every step of the engine, of its calls and of the API server.             *)
LEMMA ScalerStep == ScalerInv /\ [ScalerNext]_scalerVars => ScalerInv'
  <1> SUFFICES ASSUME ScalerInv, [ScalerNext]_scalerVars
               PROVE  ScalerInv'
    OBVIOUS
  <1>1. CASE OtherWrite
    BY <1>1, OtherWriteKeeps
  <1>2. CASE \E r \in Counts : LateUpdate(r) \/ Scale(r)
    BY <1>2, LateUpdateKeeps, ScaleKeeps
  <1>3. CASE GetScale \/ SendUpdate
    BY <1>3, RequestKeeps
  <1>4. CASE UpdateScale
    BY <1>4, UpdateScaleKeeps
  <1>5. CASE Conflict
    BY <1>5, ConflictKeeps
  <1>6. CASE Fail
    BY <1>6, FailKeeps
  <1>7. CASE UNCHANGED scalerVars
    BY <1>7 DEF scalerVars, ScalerInv, ScalerTypeOK, DirectionInv, QuietInv,
                AnsweredScaleHolds, OnTheWay
  <1> QED BY <1>1, <1>2, <1>3, <1>4, <1>5, <1>6, <1>7 DEF ScalerNext

-----------------------------------------------------------------------------
(* The Secret of authorized keys.                                            *)

(* There is no Secret and nobody has read one.                               *)
LEMMA SecretInitInv == SecretInit => SecretInv
  BY FirstAttempt
  DEF SecretInit, SecretInv, SecretTypeOK, WritesExtend, RegisteredIsStored, Documents

(* The document a caller sends, while its version fits, extends the present  *)
(* one.                                                                      *)
LEMMA SendExtends ==
  ASSUME NEW k \in Keys, SecretInv, unchanged[k]
  PROVE  /\ UpsertPublicKey(document[k], k) \in Documents
         /\ secret \subseteq UpsertPublicKey(document[k], k)
         /\ k \in UpsertPublicKey(document[k], k)
  BY DEF SecretInv, SecretTypeOK, WritesExtend, UpsertPublicKey, Documents

(* An accepted write that extends the document keeps what was stored, and    *)
(* leaves on their way only writes that extend the new document.             *)
LEMMA WrittenKeeps ==
  ASSUME SecretInv, NEW d \in Documents, secret \subseteq d, Written(d)
  PROVE  /\ exists' \in BOOLEAN /\ secret' \in Documents /\ lost' \subseteq Documents
         /\ secret \subseteq secret'
         /\ \A e \in lost' : secret' \subseteq e
         /\ secret' # secret => lost' = {}
  BY DEF SecretInv, SecretTypeOK, WritesExtend, Written

(* Every step of a caller and of the API server.                             *)
LEMMA SecretStep == SecretInv /\ [SecretNext]_secretVars => SecretInv'
  <1> SUFFICES ASSUME SecretInv, [SecretNext]_secretVars
               PROVE  SecretInv'
    OBVIOUS
  <1> USE FirstAttempt
  <1>1. CASE SecretOtherWrite
    BY <1>1 DEF SecretOtherWrite, SecretInv, SecretTypeOK, WritesExtend, RegisteredIsStored
  <1>2. ASSUME NEW d \in Documents, LostWrite(d)
        PROVE  SecretInv'
    <2>1. secret \subseteq d /\ Written(d)
      BY <1>2 DEF LostWrite, SecretInv, WritesExtend
    <2>2. /\ exists' \in BOOLEAN /\ secret' \in Documents /\ lost' \subseteq Documents
          /\ secret \subseteq secret'
          /\ \A e \in lost' : secret' \subseteq e
      BY <2>1, WrittenKeeps
    <2>3. SecretTypeOK'
      BY <1>2, <2>2 DEF LostWrite, StillCurrent, SecretInv, SecretTypeOK
    <2>4. WritesExtend'
      BY <1>2, <2>1, <2>2 DEF LostWrite, StillCurrent, Written, SecretInv, SecretTypeOK, WritesExtend
    <2>5. RegisteredIsStored'
      BY <1>2, <2>2 DEF LostWrite, SecretInv, RegisteredIsStored
    <2> QED BY <2>3, <2>4, <2>5 DEF SecretInv
  <1>3. ASSUME NEW k \in Keys, Upsert(k)
        PROVE  SecretInv'
    BY <1>3 DEF Upsert, SecretInv, SecretTypeOK, WritesExtend, RegisteredIsStored
  <1>4. ASSUME NEW k \in Keys, SecretGet(k)
        PROVE  SecretInv'
    BY <1>4 DEF SecretGet, SecretInv, SecretTypeOK, WritesExtend, RegisteredIsStored
  <1>5. ASSUME NEW k \in Keys, SecretWrite(k)
        PROVE  SecretInv'
    <2> DEFINE d == UpsertPublicKey(document[k], k)
    <2>1. d \in Documents /\ secret \subseteq d /\ k \in d /\ Written(d)
      BY <1>5, SendExtends DEF SecretWrite
    <2>2. /\ exists' \in BOOLEAN /\ secret' \in Documents /\ lost' \subseteq Documents
          /\ secret \subseteq secret'
          /\ \A e \in lost' : secret' \subseteq e
      BY <2>1, WrittenKeeps
    <2> HIDE DEF d
    <2>3. unchanged' = StillCurrent(d, Keys \ {k}) /\ UpsertReturns(k) /\ registered' = registered \cup {k}
      BY <1>5 DEF SecretWrite, d
    <2>4. SecretTypeOK'
      BY <2>2, <2>3 DEF StillCurrent, UpsertReturns, SecretInv, SecretTypeOK, Documents
    <2>5. WritesExtend'
      BY <2>1, <2>2, <2>3 DEF StillCurrent, UpsertReturns, Written, SecretInv, SecretTypeOK, WritesExtend
    <2>6. RegisteredIsStored'
      BY <2>1, <2>2, <2>3 DEF Written, SecretInv, RegisteredIsStored
    <2> QED BY <2>4, <2>5, <2>6 DEF SecretInv
  <1>6. ASSUME NEW k \in Keys, SecretRefused(k)
        PROVE  SecretInv'
    <2>1. SecretTypeOK'
      BY <1>6 DEF SecretRefused, UpsertReturns, SecretInv, SecretTypeOK, Documents
    <2>2. WritesExtend' /\ RegisteredIsStored'
      BY <1>6 DEF SecretRefused, UpsertReturns, SecretInv, SecretTypeOK, WritesExtend, RegisteredIsStored
    <2> QED BY <2>1, <2>2 DEF SecretInv
  <1>7. ASSUME NEW k \in Keys, SecretFails(k)
        PROVE  SecretInv'
    <2> DEFINE d == UpsertPublicKey(document[k], k)
               sent == upsert[k] # "get" /\ unchanged[k]
    <2>1. UpsertReturns(k) /\ registered' = registered
      BY <1>7 DEF SecretFails
    <2>2. \/ UNCHANGED <<exists, secret, lost>> /\ unchanged' = StillCurrent(secret, Keys \ {k})
          \/ sent /\ Written(d) /\ unchanged' = StillCurrent(d, Keys \ {k})
          \/ /\ sent /\ lost' = lost \cup {d} /\ unchanged' = StillCurrent(secret, Keys \ {k})
             /\ UNCHANGED <<exists, secret>>
      BY <1>7 DEF SecretFails
    <2>3. sent => d \in Documents /\ secret \subseteq d
      BY SendExtends
    <2> HIDE DEF d
    <2>4. sent /\ Written(d) => /\ exists' \in BOOLEAN /\ secret' \in Documents
                                /\ lost' \subseteq Documents /\ secret \subseteq secret'
                                /\ \A e \in lost' : secret' \subseteq e
      BY <2>3, WrittenKeeps
    <2>5. SecretTypeOK'
      BY <2>1, <2>2, <2>3, <2>4 DEF StillCurrent, UpsertReturns, SecretInv, SecretTypeOK, Documents
    <2>6. WritesExtend'
      <3>1. CASE UNCHANGED <<exists, secret, lost>> /\ unchanged' = StillCurrent(secret, Keys \ {k})
        BY <2>1, <3>1 DEF StillCurrent, UpsertReturns, SecretInv, SecretTypeOK, WritesExtend
      <3>2. CASE sent /\ Written(d) /\ unchanged' = StillCurrent(d, Keys \ {k})
        BY <2>1, <2>4, <3>2 DEF StillCurrent, UpsertReturns, Written, SecretInv, SecretTypeOK, WritesExtend
      <3>3. CASE /\ sent /\ lost' = lost \cup {d} /\ unchanged' = StillCurrent(secret, Keys \ {k})
                 /\ UNCHANGED <<exists, secret>>
        BY <2>1, <2>3, <3>3 DEF StillCurrent, UpsertReturns, SecretInv, SecretTypeOK, WritesExtend
      <3> QED BY <2>2, <3>1, <3>2, <3>3
    <2>7. RegisteredIsStored'
      BY <2>1, <2>2, <2>4 DEF SecretInv, RegisteredIsStored
    <2> QED BY <2>5, <2>6, <2>7 DEF SecretInv
  <1>8. CASE UNCHANGED secretVars
    BY <1>8 DEF secretVars, SecretInv, SecretTypeOK, WritesExtend, RegisteredIsStored
  <1> QED BY <1>1, <1>2, <1>3, <1>4, <1>5, <1>6, <1>7, <1>8 DEF SecretNext, UpsertStep

-----------------------------------------------------------------------------
(* After an answered Scale call the workload runs exactly if the engine      *)
(* believes so, whatever updates of failed calls arrive later.               *)
THEOREM AnsweredScaleAlwaysHolds == KubeSpec => []AnsweredScaleHolds
  <1>1. KubeInit => ScalerInv
    BY ScalerInitInv DEF KubeInit
  <1>2. ScalerInv /\ [KubeNext]_kubeVars => ScalerInv'
    BY ScalerStep DEF KubeNext, kubeVars
  <1>3. ScalerInv => AnsweredScaleHolds
    BY DEF ScalerInv
  <1> QED BY <1>1, <1>2, <1>3, PTL DEF KubeSpec

(* No interleaving of upserts, failures and late writes loses a key whose    *)
(* registration was answered.                                                *)
THEOREM RegisteredKeysAreKept == KubeSpec => []RegisteredIsStored
  <1>1. KubeInit => SecretInv
    BY SecretInitInv DEF KubeInit
  <1>2. SecretInv /\ [KubeNext]_kubeVars => SecretInv'
    BY SecretStep DEF KubeNext, kubeVars
  <1>3. SecretInv => RegisteredIsStored
    BY DEF SecretInv
  <1> QED BY <1>1, <1>2, <1>3, PTL DEF KubeSpec

================================================================================
