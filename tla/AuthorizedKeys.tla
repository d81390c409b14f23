---------------------------- MODULE AuthorizedKeys ----------------------------
(***************************************************************************)
(* The Secret that holds the public keys of a gateway, and the calls of      *)
(* UpsertAuthorizedKeySecret that add keys to it (internal/kube/             *)
(* authorized_keys.go, internal/authorization/public_keys.go).  Developers   *)
(* run them with their own credentials, each in a process of their own: only *)
(* the resourceVersion keeps two calls from overwriting each other.  As in   *)
(* Scaler, a version that was read is kept as whether it is still current,   *)
(* and an update of a call that gave up may arrive later.                    *)
(*                                                                           *)
(* A document is the set of its keys; a key stands for an identity's key.    *)
(***************************************************************************)
EXTENDS ConflictRetry

CONSTANT Keys       (* each added by one caller, possibly more than once *)

Documents == SUBSET Keys

VARIABLES
  exists,         (* there is a Secret                                      *)
  secret,         (* the document in it                                     *)
  upsert,         (* per caller: "none", "get", "create" or "update" (sent) *)
  document,       (* what the caller has read                               *)
  unchanged,      (* the Secret was not written since                       *)
  round,          (* of RetryOnConflict                                     *)
  lost,           (* documents on their way, with the current version, of   *)
                  (* callers that gave up                                   *)
  registered      (* history: keys whose upsert returned nil                *)

secretVars == <<exists, secret, upsert, document, unchanged, round, lost, registered>>

SecretTypeOK ==
  /\ exists \in BOOLEAN
  /\ secret \in Documents
  /\ upsert \in [Keys -> {"none", "get", "create", "update"}]
  /\ document \in [Keys -> Documents]
  /\ unchanged \in [Keys -> BOOLEAN]
  /\ round \in [Keys -> 1..Steps]
  /\ lost \subseteq Documents
  /\ registered \subseteq Keys

SecretInit ==
  /\ exists = FALSE
  /\ secret = {}
  /\ upsert = [k \in Keys |-> "none"]
  /\ document = [k \in Keys |-> {}]
  /\ unchanged = [k \in Keys |-> FALSE]
  /\ round = [k \in Keys |-> 1]
  /\ lost = {}
  /\ registered = {}

-----------------------------------------------------------------------------
(* A write that changes the Secret outdates what everybody has read.  What   *)
(* is written has a key, so the first write is a change.                     *)
Written(d) ==
  /\ secret' = d
  /\ exists' = TRUE
  /\ lost' = IF d = secret THEN lost \ {d} ELSE {}

(* The versions that are current after that, among those of the set cs.      *)
StillCurrent(d, cs) == [k \in Keys |-> unchanged[k] /\ k \in cs /\ d = secret]

(* Somebody changes another field of the Secret, or creates it empty.        *)
SecretOtherWrite ==
  /\ exists' = TRUE
  /\ unchanged' = [k \in Keys |-> FALSE]
  /\ lost' = {}
  /\ UNCHANGED <<secret, upsert, document, round, registered>>

(* A Create fits while there is no Secret, an Update while its version does. *)
LostWrite(d) ==
  /\ d \in lost
  /\ Written(d)
  /\ unchanged' = StillCurrent(d, Keys)
  /\ UNCHANGED <<upsert, document, round, registered>>

-----------------------------------------------------------------------------
(* Mutant: UpsertPublicKey starts from an empty document.                    *)
UpsertReplaces(d, k) == {k}

(* UpsertPublicKey: every key of the document and this one, once.            *)
UpsertPublicKey(d, k) == d \cup {k}

Upsert(k) ==
  /\ upsert[k] = "none"
  /\ upsert' = [upsert EXCEPT ![k] = "get"]
  /\ UNCHANGED <<exists, secret, document, unchanged, round, lost, registered>>

(* The call returns, and its variables are gone.                             *)
UpsertReturns(k) ==
  /\ upsert' = [upsert EXCEPT ![k] = "none"]
  /\ document' = [document EXCEPT ![k] = {}]
  /\ round' = [round EXCEPT ![k] = 1]

(* Get, and what follows from it: Create if not found, else Update.          *)
SecretGet(k) ==
  /\ upsert[k] = "get"
  /\ upsert' = [upsert EXCEPT ![k] = IF exists THEN "update" ELSE "create"]
  /\ document' = [document EXCEPT ![k] = secret]
  /\ unchanged' = [unchanged EXCEPT ![k] = TRUE]
  /\ UNCHANGED <<exists, secret, round, lost, registered>>

(* The Create or Update is accepted and its answer arrives.                  *)
SecretWrite(k) ==
  /\ upsert[k] \in {"create", "update"}
  /\ unchanged[k]
  /\ Written(UpsertPublicKey(document[k], k))
  /\ unchanged' = StillCurrent(UpsertPublicKey(document[k], k), Keys \ {k})
  /\ UpsertReturns(k)
  /\ registered' = registered \cup {k}

(* A conflict is retried.  A Create that comes second (AlreadyExists) is not *)
(* a conflict: the call fails and the developer has to run it again.         *)
SecretRefused(k) ==
  /\ upsert[k] \in {"create", "update"}
  /\ ~unchanged[k]
  /\ \/ /\ upsert[k] = "update" /\ round[k] < Steps
        /\ upsert' = [upsert EXCEPT ![k] = "get"]
        /\ round' = [round EXCEPT ![k] = @ + 1]
        /\ UNCHANGED document
     \/ /\ upsert[k] = "create" \/ round[k] = Steps
        /\ UpsertReturns(k)
  /\ UNCHANGED <<exists, secret, unchanged, lost, registered>>

(* Any other error; a write that was sent may be applied now, later or never. *)
SecretFails(k) ==
  LET d == UpsertPublicKey(document[k], k)
      sent == upsert[k] # "get" /\ unchanged[k] IN
  /\ upsert[k] # "none"
  /\ \/ /\ UNCHANGED <<exists, secret, lost>>
        /\ unchanged' = StillCurrent(secret, Keys \ {k})
     \/ /\ sent
        /\ Written(d)
        /\ unchanged' = StillCurrent(d, Keys \ {k})
     \/ /\ sent
        /\ lost' = lost \cup {d}
        /\ unchanged' = StillCurrent(secret, Keys \ {k})
        /\ UNCHANGED <<exists, secret>>
  /\ UpsertReturns(k)
  /\ UNCHANGED registered

UpsertStep(k) ==
  SecretGet(k) \/ SecretWrite(k) \/ SecretRefused(k) \/ SecretFails(k)

SecretNext ==
  \/ SecretOtherWrite
  \/ \E d \in Documents : LostWrite(d)
  \/ \E k \in Keys : Upsert(k) \/ UpsertStep(k)

SecretSpec == SecretInit /\ [][SecretNext]_secretVars

-----------------------------------------------------------------------------
(* UpsertAuthorizedKeySecret "updates the public-key document without        *)
(* replacing keys belonging to other identities": a key whose upsert was     *)
(* answered stays in the Secret, whatever calls raced with it and whenever   *)
(* an update of an abandoned one arrives.                                    *)
RegisteredIsStored == registered \subseteq secret

(* What a caller or a late request would write extends the present document. *)
WritesExtend ==
  /\ \A d \in lost : secret \subseteq d
  /\ \A k \in Keys : unchanged[k] => document[k] = secret

SecretInv == SecretTypeOK /\ WritesExtend /\ RegisteredIsStored

===============================================================================
