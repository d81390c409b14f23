----------------------------- MODULE Registration -----------------------------
(***************************************************************************)
(* The registration API of tearenvd (internal/registration): UserRegistration *)
(* files, created or adopted by PUT, read by the SSH public-key login and by *)
(* the token exchange that issues SSH certificates.                          *)
(*                                                                           *)
(* HTTP handlers are goroutines.  PutAs holds the store's mutex from its     *)
(* read to its rename, but the process can stop between any two of its       *)
(* steps, and may be restarted in another authentication mode.  The token    *)
(* exchange reads a registration under the read lock and signs afterwards.   *)
(*                                                                           *)
(* A registration has one file: its namespace, which the client chooses, is *)
(* the directory, its identity gives the file name.  Registrations of every *)
(* namespace are stored alike, but only those of the server's               *)
(* --registration-namespace let anybody in.  Validation, encoding and the    *)
(* fields nobody decides on are abstracted away: a registration is a set of  *)
(* public keys and an owner.                                                 *)
(***************************************************************************)
EXTENDS FiniteSets

CONSTANTS
  Handlers,       (* goroutines of the HTTP server                          *)
  Identities,
  Namespaces,     (* what a client can put into metadata.namespace           *)
  AuthenticationNamespace,  (* --registration-namespace, of every process    *)
  PublicKeys,
  Subjects,       (* OIDC issuer and subject                                *)
  NoOwner,        (* status.authenticatedPrincipal is not set               *)
  NoFile,
  Unlocked

ASSUME SubjectAssumption == NoOwner \notin Subjects
ASSUME HandlerAssumption == Unlocked \notin Handlers
ASSUME DomainAssumption ==
  Identities # {} /\ PublicKeys # {} /\ AuthenticationNamespace \in Namespaces

Specs == (SUBSET PublicKeys) \ {{}}
Places == [namespace : Namespaces, id : Identities]
Registrations == [spec : Specs, owner : Subjects \cup {NoOwner}]

ASSUME FileAssumption == NoFile \notin Registrations

VARIABLES
  mode,           (* "open" (anonymous or static token) or "oidc"           *)
  file,           (* the registration stored at a place, or NoFile          *)
  mu,             (* writer holding store.mu                                *)
  pc,             (* "idle", "writing", "renamed" or "issuing"              *)
  place,          (* the place a handler works on                           *)
  reg,            (* the registration it writes, or has read                *)
  answered,       (* history: registrations answered with 200 or 201        *)
  certs           (* history: certificates issued                           *)

vars == <<mode, file, mu, pc, place, reg, answered, certs>>

Answers == [place : Places, spec : Specs, subject : Subjects \cup {NoOwner}]
Certificates == [id : Identities, key : PublicKeys, subject : Subjects]

RegistrationTypeOK ==
  /\ mode \in {"open", "oidc"}
  /\ file \in [Places -> Registrations \cup {NoFile}]
  /\ mu \in Handlers \cup {Unlocked}
  /\ pc \in [Handlers -> {"idle", "writing", "renamed", "issuing"}]
  /\ place \in [Handlers -> Places]
  /\ reg \in [Handlers -> Registrations]
  /\ answered \subseteq Answers
  /\ certs \subseteq Certificates

(* The variables of a handler mean nothing while it is idle.                 *)
Init ==
  /\ mode \in {"open", "oidc"}
  /\ file = [p \in Places |-> NoFile]
  /\ mu = Unlocked
  /\ pc = [h \in Handlers |-> "idle"]
  /\ place = [h \in Handlers |-> CHOOSE p \in Places : TRUE]
  /\ reg = [h \in Handlers |-> CHOOSE r \in Registrations : TRUE]
  /\ answered = {}
  /\ certs = {}

-----------------------------------------------------------------------------
(* Principals.  In OIDC mode the claim must equal the identity asked for, so *)
(* what is left of a principal is its subject; the identity provider may     *)
(* give one claim to several subjects over time.  Otherwise there is none.   *)
Principals == IF mode = "oidc" THEN Subjects ELSE {NoOwner}

(* Mutant: a registration without an owner belongs to everybody.             *)
OwnedByAnyone(r, s) == s \in Subjects /\ r.owner \in {s, NoOwner}

registrationOwnedBy(r, s) == s \in Subjects /\ r.owner = s

(* The one registration of i that logs in: store.Authenticate lists, and the *)
(* token exchange reads, only the server's own namespace.                    *)
Authenticating(i) == [namespace |-> AuthenticationNamespace, id |-> i]

(* store.Authenticate, the SSH login of the open mode: a registered key logs *)
(* its identity in.  In OIDC mode only certificates do.                      *)
Authenticates(i, k) ==
  file[Authenticating(i)] # NoFile /\ k \in file[Authenticating(i)].spec

(* store.PublicKey, for the token exchange: s may read the keys at p.        *)
Readable(p, s) == file[p] # NoFile /\ registrationOwnedBy(file[p], s)

Respond(p, spec, s) ==
  answered' = answered \cup {[place |-> p, spec |-> spec, subject |-> s]}

Write(h, p, r) ==
  /\ pc' = [pc EXCEPT ![h] = "writing"]
  /\ place' = [place EXCEPT ![h] = p]
  /\ reg' = [reg EXCEPT ![h] = r]

(* PutAs decides under the mutex.  A different spec (409) and a registration *)
(* owned by another subject (403) change nothing.                            *)
MustCreate(p) == file[p] = NoFile

SameSpec(p, spec) == file[p] # NoFile /\ file[p].spec = spec

MustAdopt(p, spec) == SameSpec(p, spec) /\ mode = "oidc" /\ file[p].owner = NoOwner

IsRetry(p, spec, s) ==
  SameSpec(p, spec) /\ (mode = "oidc" => registrationOwnedBy(file[p], s))

(* Mutants: the mutex is not taken for the write; the answer precedes it.    *)
PutUnlocked(h, p, spec, s) ==
  /\ pc[h] = "idle"
  /\ s \in Principals
  /\ \/ MustCreate(p) /\ Write(h, p, [spec |-> spec, owner |-> s]) /\ UNCHANGED answered
     \/ MustAdopt(p, spec) /\ Write(h, p, [file[p] EXCEPT !.owner = s]) /\ UNCHANGED answered
     \/ IsRetry(p, spec, s) /\ Respond(p, spec, s) /\ UNCHANGED <<pc, place, reg>>
  /\ UNCHANGED <<mode, file, mu, certs>>

PutAnswersFirst(h, p, spec, s) ==
  /\ pc[h] = "idle"
  /\ mu = Unlocked
  /\ s \in Principals
  /\ MustCreate(p)
  /\ Write(h, p, [spec |-> spec, owner |-> s])
  /\ Respond(p, spec, s)
  /\ mu' = h
  /\ UNCHANGED <<mode, file, certs>>

Put(h, p, spec, s) ==
  /\ pc[h] = "idle"
  /\ mu = Unlocked
  /\ s \in Principals
  /\ \/ /\ MustCreate(p)
        /\ Write(h, p, [spec |-> spec, owner |-> s])
        /\ mu' = h
        /\ UNCHANGED answered
     \/ /\ MustAdopt(p, spec)
        /\ Write(h, p, [file[p] EXCEPT !.owner = s])
        /\ mu' = h
        /\ UNCHANGED answered
     \/ /\ IsRetry(p, spec, s)
        /\ Respond(p, spec, s)
        /\ UNCHANGED <<mu, pc, place, reg>>
  /\ UNCHANGED <<mode, file, certs>>

(* writeUnlocked: a temporary file is written and synced, then renamed; any  *)
(* of that may fail, which answers 500.                                      *)
Rename(h) ==
  /\ pc[h] = "writing"
  /\ \/ /\ file' = [file EXCEPT ![place[h]] = reg[h]]
        /\ pc' = [pc EXCEPT ![h] = "renamed"]
        /\ UNCHANGED mu
     \/ /\ pc' = [pc EXCEPT ![h] = "idle"]
        /\ mu' = Unlocked
        /\ UNCHANGED file
  /\ UNCHANGED <<mode, place, reg, answered, certs>>

Answer(h) ==
  /\ pc[h] = "renamed"
  /\ Respond(place[h], reg[h].spec, reg[h].owner)
  /\ pc' = [pc EXCEPT ![h] = "idle"]
  /\ mu' = Unlocked
  /\ UNCHANGED <<mode, file, place, reg, certs>>

-----------------------------------------------------------------------------
(* Token exchange: store.PublicKey under the read lock, then Issue.          *)

Exchange(h, i, s) ==
  /\ mode = "oidc"
  /\ pc[h] = "idle"
  /\ mu = Unlocked
  /\ Readable(Authenticating(i), s)
  /\ pc' = [pc EXCEPT ![h] = "issuing"]
  /\ place' = [place EXCEPT ![h] = Authenticating(i)]
  /\ reg' = [reg EXCEPT ![h] = [file[Authenticating(i)] EXCEPT !.owner = s]]
  /\ UNCHANGED <<mode, file, mu, answered, certs>>

(* The certificate carries one of the keys read, the identity and, in its    *)
(* key id, the subject of the principal.                                     *)
Issue(h, k) ==
  /\ pc[h] = "issuing"
  /\ k \in reg[h].spec
  /\ certs' = certs \cup {[id |-> place[h].id, key |-> k, subject |-> reg[h].owner]}
  /\ pc' = [pc EXCEPT ![h] = "idle"]
  /\ UNCHANGED <<mode, file, mu, place, reg, answered>>

(* The process stops and is started again, perhaps in the other mode.  Only  *)
(* renamed files remain; a leftover temporary file is not a .yaml file and   *)
(* list() skips it.                                                          *)
Restart(m) ==
  /\ mode' = m
  /\ pc' = [h \in Handlers |-> "idle"]
  /\ mu' = Unlocked
  /\ UNCHANGED <<file, place, reg, answered, certs>>

Next ==
  \/ \E h \in Handlers, p \in Places, spec \in Specs, s \in Subjects \cup {NoOwner} :
       Put(h, p, spec, s)
  \/ \E h \in Handlers : Rename(h) \/ Answer(h)
  \/ \E h \in Handlers, i \in Identities, s \in Subjects : Exchange(h, i, s)
  \/ \E h \in Handlers, k \in PublicKeys : Issue(h, k)
  \/ \E m \in {"open", "oidc"} : Restart(m)

Spec == Init /\ [][Next]_vars

-----------------------------------------------------------------------------
(* "Specs are immutable so an unauthenticated retry cannot replace a         *)
(* previously registered key": no race of PUTs, restart or change of mode    *)
(* replaces keys stored in any namespace, and an owner is bound at most once. *)
Preserved(old, new) ==
  old # NoFile =>
    /\ new # NoFile
    /\ new.spec = old.spec
    /\ old.owner # NoOwner => new.owner = old.owner

RegistrationsAreImmutable ==
  [][\A p \in Places : Preserved(file[p], file'[p])]_vars

(* A 200 or 201 is a promise that survives crashes, restarts and changes of  *)
(* mode: the registration stays where it was put, with the keys and the      *)
(* owner that were answered.  In the server's own namespace that means that  *)
(* store.Authenticate accepts every key of it and that its subject can       *)
(* exchange tokens for certificates; in another namespace a registration is  *)
(* answered and kept all the same but lets nobody in ("check that the API    *)
(* namespace matches tearenvd --registration-namespace").                    *)
AnsweredCanLogIn ==
  \A a \in answered :
    /\ file[a.place] # NoFile /\ file[a.place].spec = a.spec
    /\ a.subject \in Subjects => Readable(a.place, a.subject)
    /\ a.place.namespace = AuthenticationNamespace =>
         \A k \in a.spec : Authenticates(a.place.id, k)

(* Every certificate names a key of the registration in the server's own     *)
(* namespace and the subject that owns it, although it is signed after the   *)
(* read lock is gone.  So two subjects that share a claim never both hold    *)
(* certificates of the identity.                                             *)
CertificatesMatchOwner ==
  \A c \in certs :
    /\ Authenticates(c.id, c.key)
    /\ file[Authenticating(c.id)].owner = c.subject

(* What a handler in the middle of a request can rely on.                    *)
HandlerInv ==
  \A h \in Handlers :
    /\ pc[h] \in {"writing", "renamed"} => mu = h
    /\ pc[h] = "writing" => Preserved(file[place[h]], reg[h])
    /\ pc[h] \in {"renamed", "issuing"} => file[place[h]] = reg[h]
    /\ pc[h] = "issuing" =>
         place[h].namespace = AuthenticationNamespace /\ reg[h].owner \in Subjects

RegistrationInv ==
  /\ RegistrationTypeOK
  /\ HandlerInv
  /\ AnsweredCanLogIn
  /\ CertificatesMatchOwner

=============================================================================
