------------------------------ MODULE LoginProofs ------------------------------
(* Proofs about Registration, for every set of handlers, identities, keys    *)
(* and subjects, and about Login, for any number of homes, handlers, keys    *)
(* and names.                                                                *)
EXTENDS Login, TLAPS

(* The idle handlers' placeholder registration is a registration.            *)
LEMMA SomeRegistration == (CHOOSE r \in Registrations : TRUE) \in Registrations
<1>1. PICK k \in PublicKeys : TRUE
  BY DomainAssumption
<1>2. {k} \in Specs
  <2>1. {k} \subseteq PublicKeys /\ {k} # {}
    BY <1>1
  <2>2. QED
    BY <2>1 DEF Specs
<1>3. [spec |-> {k}, owner |-> NoOwner] \in Registrations
  BY <1>2 DEF Registrations
<1>4. QED
  BY <1>3

(* Replacing the owner of an unowned registration preserves it, and so does  *)
(* leaving it alone; preservation is what PutAs establishes before writing.  *)
LEMMA AdoptionPreserves ==
  ASSUME NEW r \in Registrations, r.owner = NoOwner, NEW s \in Subjects \cup {NoOwner}
  PROVE  /\ [r EXCEPT !.owner = s] \in Registrations
         /\ Preserved(r, [r EXCEPT !.owner = s])
  BY FileAssumption DEF Registrations, Preserved

(* The place of a registration that logs in is one of the places.            *)
LEMMA AuthenticatingPlace ==
  ASSUME NEW i \in Identities
  PROVE  /\ Authenticating(i) \in Places
         /\ Authenticating(i).namespace = AuthenticationNamespace
         /\ Authenticating(i).id = i
  BY DomainAssumption DEF Authenticating, Places

LEMMA SomePlace == (CHOOSE p \in Places : TRUE) \in Places
<1>1. PICK i \in Identities : TRUE
  BY DomainAssumption
<1>2. Authenticating(i) \in Places
  BY AuthenticatingPlace
<1>3. QED
  BY <1>2

(* The initial state satisfies the inductive invariant.                      *)
LEMMA InitRegistration == Init => RegistrationInv
<1>1. (CHOOSE p \in Places : TRUE) \in Places
  BY SomePlace
<1>2. QED
  BY <1>1, SomeRegistration DEF Init, RegistrationInv, RegistrationTypeOK, HandlerInv,
     AnsweredCanLogIn, CertificatesMatchOwner

(* Every step preserves the types.                                           *)
LEMMA NextRegistrationType ==
  ASSUME RegistrationInv, [Next]_vars
  PROVE  RegistrationTypeOK'
<1> USE DEF RegistrationInv, RegistrationTypeOK
<1>1. ASSUME NEW h \in Handlers, NEW p \in Places, NEW spec \in Specs,
             NEW s \in Subjects \cup {NoOwner}, Put(h, p, spec, s)
      PROVE  RegistrationTypeOK'
  <2>1. CASE MustCreate(p) /\ Write(h, p, [spec |-> spec, owner |-> s]) /\ mu' = h /\ UNCHANGED answered
    <3>1. [spec |-> spec, owner |-> s] \in Registrations
      BY DEF Registrations
    <3>2. QED
      BY <1>1, <2>1, <3>1 DEF Put, Write
  <2>2. CASE MustAdopt(p, spec) /\ Write(h, p, [file[p] EXCEPT !.owner = s]) /\ mu' = h /\ UNCHANGED answered
    <3>1. file[p] \in Registrations /\ file[p].owner = NoOwner
      BY <2>2 DEF MustAdopt, SameSpec
    <3>2. [file[p] EXCEPT !.owner = s] \in Registrations
      BY <3>1, AdoptionPreserves
    <3>3. QED
      BY <1>1, <2>2, <3>2 DEF Put, Write
  <2>3. CASE IsRetry(p, spec, s) /\ Respond(p, spec, s) /\ UNCHANGED <<mu, pc, place, reg>>
    BY <1>1, <2>3 DEF Put, Respond, Answers
  <2>4. QED
    BY <1>1, <2>1, <2>2, <2>3 DEF Put
<1>2. ASSUME NEW h \in Handlers, Rename(h)
      PROVE  RegistrationTypeOK'
  BY <1>2 DEF Rename
<1>3. ASSUME NEW h \in Handlers, Answer(h)
      PROVE  RegistrationTypeOK'
  <2>1. reg[h].spec \in Specs /\ reg[h].owner \in Subjects \cup {NoOwner}
    BY DEF Registrations
  <2>2. QED
    BY <1>3, <2>1 DEF Answer, Respond, Answers
<1>4. ASSUME NEW h \in Handlers, NEW i \in Identities, NEW s \in Subjects, Exchange(h, i, s)
      PROVE  RegistrationTypeOK'
  <2>0. Authenticating(i) \in Places
    BY AuthenticatingPlace
  <2>1. [file[Authenticating(i)] EXCEPT !.owner = s] \in Registrations
    BY <1>4, <2>0 DEF Readable, Exchange, Registrations
  <2>2. QED
    BY <1>4, <2>0, <2>1 DEF Exchange
<1>5. ASSUME NEW h \in Handlers, NEW k \in PublicKeys, Issue(h, k)
      PROVE  RegistrationTypeOK'
  <2>1. reg[h].owner \in Subjects /\ place[h].id \in Identities
    BY <1>5 DEF Issue, HandlerInv, Places
  <2>2. [id |-> place[h].id, key |-> k, subject |-> reg[h].owner] \in Certificates
    BY <2>1 DEF Certificates
  <2>3. QED
    BY <1>5, <2>2 DEF Issue
<1>6. ASSUME NEW m \in {"open", "oidc"}, Restart(m)
      PROVE  RegistrationTypeOK'
  BY <1>6 DEF Restart
<1>7. CASE UNCHANGED vars
  BY <1>7 DEF vars
<1>8. QED
  BY <1>1, <1>2, <1>3, <1>4, <1>5, <1>6, <1>7 DEF Next

(* The one write of a file preserves what was there: the writer holds the    *)
(* mutex since it decided.                                                   *)
LEMMA FilesPreserved ==
  ASSUME RegistrationInv, [Next]_vars
  PROVE  \A p \in Places : Preserved(file[p], file'[p])
<1> USE DEF RegistrationInv, RegistrationTypeOK
<1>1. ASSUME NEW h \in Handlers, Rename(h), NEW p \in Places
      PROVE  Preserved(file[p], file'[p])
  <2>1. Preserved(file[place[h]], reg[h])
    BY <1>1 DEF Rename, HandlerInv
  <2>2. QED
    BY <1>1, <2>1 DEF Rename, Preserved
<1>2. CASE file' = file
  BY <1>2 DEF Preserved
<1>3. QED
  BY <1>1, <1>2 DEF Next, Put, Answer, Exchange, Issue, Restart, vars

(* Handlers keep what they rely on: nobody writes while another does, and a  *)
(* registration that a token exchange has read does not change any more.     *)
LEMMA NextHandler ==
  ASSUME RegistrationInv, [Next]_vars
  PROVE  HandlerInv'
<1> USE DEF RegistrationInv, RegistrationTypeOK
<1>t. RegistrationTypeOK'
  BY NextRegistrationType
<1>1. ASSUME NEW h \in Handlers, NEW p \in Places, NEW spec \in Specs,
             NEW s \in Subjects \cup {NoOwner}, Put(h, p, spec, s)
      PROVE  HandlerInv'
  <2>1. CASE MustCreate(p) /\ Write(h, p, [spec |-> spec, owner |-> s]) /\ mu' = h /\ UNCHANGED answered
    BY <1>1, <2>1, HandlerAssumption DEF Put, Write, MustCreate, HandlerInv, Preserved
  <2>2. CASE MustAdopt(p, spec) /\ Write(h, p, [file[p] EXCEPT !.owner = s]) /\ mu' = h /\ UNCHANGED answered
    <3>1. file[p] \in Registrations /\ file[p].owner = NoOwner
      BY <2>2 DEF MustAdopt, SameSpec
    <3>2. Preserved(file[p], [file[p] EXCEPT !.owner = s])
      BY <3>1, AdoptionPreserves
    <3>3. QED
      BY <1>1, <2>2, <3>2, HandlerAssumption DEF Put, Write, HandlerInv
  <2>3. CASE UNCHANGED <<mu, pc, place, reg>>
    BY <1>1, <2>3 DEF Put, HandlerInv
  <2>4. QED
    BY <1>1, <2>1, <2>2, <2>3 DEF Put
<1>2. ASSUME NEW h \in Handlers, Rename(h)
      PROVE  HandlerInv'
  <2>1. CASE file' = [file EXCEPT ![place[h]] = reg[h]] /\ pc' = [pc EXCEPT ![h] = "renamed"] /\ UNCHANGED mu
    <3>1. ASSUME NEW g \in Handlers, g # h
          PROVE  pc[g] \notin {"writing", "renamed"}
      BY <1>2, <3>1 DEF Rename, HandlerInv
    <3>2. ASSUME NEW g \in Handlers, g # h, pc[g] = "issuing"
          PROVE  file'[place[g]] = reg[g]
      <4>1. CASE place[g] # place[h]
        BY <2>1, <3>2, <4>1 DEF HandlerInv
      <4>2. CASE place[g] = place[h]
        <5>1. file[place[h]] = reg[g] /\ reg[g].owner \in Subjects
          BY <3>2, <4>2 DEF HandlerInv
        <5>2. Preserved(reg[g], reg[h])
          BY <1>2, <5>1 DEF Rename, HandlerInv
        <5>3. reg[g] # NoFile
          BY FileAssumption
        <5>4. reg[h].spec = reg[g].spec /\ reg[h].owner = reg[g].owner
          BY <5>1, <5>2, <5>3, SubjectAssumption DEF Preserved
        <5>5. reg[h] = reg[g]
          BY <5>4 DEF Registrations
        <5>6. QED
          BY <2>1, <4>2, <5>5
      <4>3. QED
        BY <4>1, <4>2
    <3>3. QED
      BY <1>2, <2>1, <3>1, <3>2 DEF Rename, HandlerInv
  <2>2. CASE pc' = [pc EXCEPT ![h] = "idle"] /\ mu' = Unlocked /\ UNCHANGED file
    BY <1>2, <2>2 DEF Rename, HandlerInv
  <2>3. QED
    BY <1>2, <2>1, <2>2 DEF Rename
<1>3. ASSUME NEW h \in Handlers, Answer(h)
      PROVE  HandlerInv'
  BY <1>3 DEF Answer, HandlerInv
<1>4. ASSUME NEW h \in Handlers, NEW i \in Identities, NEW s \in Subjects, Exchange(h, i, s)
      PROVE  HandlerInv'
  <2> DEFINE p == Authenticating(i)
  <2>0. p \in Places /\ p.namespace = AuthenticationNamespace
    BY AuthenticatingPlace
  <2>1. file[p] \in Registrations /\ file[p].owner = s
    BY <1>4, <2>0 DEF Readable, Exchange, registrationOwnedBy
  <2>2. [file[p] EXCEPT !.owner = s] = file[p]
    BY <2>1 DEF Registrations
  <2>3. pc' = [pc EXCEPT ![h] = "issuing"] /\ place' = [place EXCEPT ![h] = p]
        /\ reg' = [reg EXCEPT ![h] = file[p]] /\ UNCHANGED <<file, mu>> /\ pc[h] = "idle"
    BY <1>4, <2>2 DEF Exchange
  <2> HIDE DEF p
  <2>4. QED
    BY <2>0, <2>1, <2>3 DEF HandlerInv
<1>5. ASSUME NEW h \in Handlers, NEW k \in PublicKeys, Issue(h, k)
      PROVE  HandlerInv'
  BY <1>5 DEF Issue, HandlerInv
<1>6. ASSUME NEW m \in {"open", "oidc"}, Restart(m)
      PROVE  HandlerInv'
  BY <1>6 DEF Restart, HandlerInv
<1>7. CASE UNCHANGED vars
  BY <1>7 DEF vars, HandlerInv
<1>8. QED
  BY <1>1, <1>2, <1>3, <1>4, <1>5, <1>6, <1>7 DEF Next

(* What was once answered is still accepted and readable for its subject.    *)
LEMMA NextAnswered ==
  ASSUME RegistrationInv, [Next]_vars
  PROVE  AnsweredCanLogIn'
<1> USE DEF RegistrationInv, RegistrationTypeOK
<1> DEFINE Kept(p, spec, s) ==
             /\ file[p] # NoFile /\ file[p].spec = spec
             /\ s \in Subjects => Readable(p, s)
             /\ p.namespace = AuthenticationNamespace => \A k \in spec : Authenticates(p.id, k)
<1>0. ASSUME NEW p \in Places, p.namespace = AuthenticationNamespace
      PROVE  Authenticating(p.id) = p
  BY <1>0 DEF Places, Authenticating
<1>1. ASSUME NEW p \in Places, NEW spec, NEW s, Kept(p, spec, s)
      PROVE  Kept(p, spec, s)'
  <2>1. Preserved(file[p], file'[p])
    BY FilesPreserved
  <2>2. file'[p] # NoFile /\ file'[p].spec = spec /\ (s \in Subjects => Readable(p, s)')
    BY <1>1, <2>1, SubjectAssumption DEF Readable, registrationOwnedBy, Preserved
  <2>3. p.namespace = AuthenticationNamespace => \A k \in spec : Authenticates(p.id, k)'
    BY <1>0, <2>2 DEF Authenticates
  <2>4. QED
    BY <2>2, <2>3
<1>2. \A a \in answered : Kept(a.place, a.spec, a.subject)'
  <2>1. \A a \in answered : a.place \in Places /\ Kept(a.place, a.spec, a.subject)
    BY DEF AnsweredCanLogIn, Answers
  <2> HIDE DEF Kept
  <2>2. QED
    BY <1>1, <2>1
<1> HIDE DEF Kept
<1>3. ASSUME NEW p, NEW spec, NEW s, Respond(p, spec, s), Kept(p, spec, s)'
      PROVE  AnsweredCanLogIn'
  <2>1. \A a \in answered' : Kept(a.place, a.spec, a.subject)'
    BY <1>2, <1>3 DEF Respond
  <2>2. QED
    BY <2>1 DEF AnsweredCanLogIn, Kept
<1>4. ASSUME NEW h \in Handlers, NEW p \in Places, NEW spec \in Specs,
             NEW s \in Subjects \cup {NoOwner}, Put(h, p, spec, s)
      PROVE  AnsweredCanLogIn'
  <2>1. CASE UNCHANGED answered
    BY <1>2, <2>1 DEF AnsweredCanLogIn, Kept
  <2>2. CASE IsRetry(p, spec, s) /\ Respond(p, spec, s)
    <3>1. s \in Subjects => mode = "oidc"
      BY <1>4, SubjectAssumption DEF Put, Principals
    <3>2. Kept(p, spec, s)
      BY <1>0, <2>2, <3>1 DEF Kept, IsRetry, SameSpec, Authenticates, Readable
    <3>3. QED
      BY <1>1, <1>3, <2>2, <3>2
  <2>3. QED
    BY <1>4, <2>1, <2>2 DEF Put
<1>5. ASSUME NEW h \in Handlers, Answer(h)
      PROVE  AnsweredCanLogIn'
  <2>1. file[place[h]] = reg[h] /\ reg[h] # NoFile /\ place[h] \in Places
    BY <1>5, FileAssumption DEF Answer, HandlerInv
  <2>2. Kept(place[h], reg[h].spec, reg[h].owner)
    BY <1>0, <2>1 DEF Kept, Authenticates, Readable, registrationOwnedBy
  <2>3. QED
    BY <1>1, <1>3, <1>5, <2>1, <2>2 DEF Answer
<1>6. CASE UNCHANGED answered
  BY <1>2, <1>6 DEF AnsweredCanLogIn, Kept
<1>7. QED
  BY <1>4, <1>5, <1>6 DEF Next, Rename, Exchange, Issue, Restart, vars

(* Certificates keep matching the registration they were issued for.         *)
LEMMA NextCertificates ==
  ASSUME RegistrationInv, [Next]_vars
  PROVE  CertificatesMatchOwner'
<1> USE DEF RegistrationInv, RegistrationTypeOK
<1> DEFINE CertificateOwned(c) == Authenticates(c.id, c.key) /\ file[Authenticating(c.id)].owner = c.subject
<1>1. ASSUME NEW c \in Certificates, CertificateOwned(c)
      PROVE  CertificateOwned(c)'
  <2>1. Authenticating(c.id) \in Places /\ c.subject # NoOwner
    BY SubjectAssumption, AuthenticatingPlace DEF Certificates
  <2>2. QED
    BY <1>1, <2>1, FilesPreserved DEF Authenticates, Preserved
<1>2. \A c \in certs : CertificateOwned(c)'
  BY <1>1 DEF CertificatesMatchOwner
<1>3. ASSUME NEW h \in Handlers, NEW k \in PublicKeys, Issue(h, k)
      PROVE  CertificatesMatchOwner'
  <2> DEFINE new == [id |-> place[h].id, key |-> k, subject |-> reg[h].owner]
  <2>1. file[place[h]] = reg[h] /\ reg[h] # NoFile /\ reg[h].owner \in Subjects
    BY <1>3, FileAssumption DEF Issue, HandlerInv
  <2>0. Authenticating(place[h].id) = place[h] /\ place[h].id \in Identities
    BY <1>3 DEF Issue, HandlerInv, Places, Authenticating
  <2>2. new \in Certificates
    BY <2>0, <2>1 DEF Certificates
  <2>3. CertificateOwned(new)
    BY <1>3, <2>0, <2>1 DEF Issue, Authenticates
  <2>4. CertificateOwned(new)'
    BY <1>3, <2>3 DEF Issue, Authenticates
  <2>5. QED
    BY <1>2, <1>3, <2>4 DEF Issue, CertificatesMatchOwner
<1>4. CASE UNCHANGED certs
  BY <1>2, <1>4 DEF CertificatesMatchOwner
<1>5. QED
  BY <1>3, <1>4 DEF Next, Put, Rename, Answer, Exchange, Restart, vars

(* The inductive invariant of the registration API holds in every reachable  *)
(* state, whatever the requests, write errors and restarts.                  *)
THEOREM RegistrationInvariant == Spec => []RegistrationInv
<1>1. Init => RegistrationInv
  BY InitRegistration
<1>2. RegistrationInv /\ [Next]_vars => RegistrationInv'
  BY NextRegistrationType, NextHandler, NextAnswered, NextCertificates DEF RegistrationInv
<1>3. QED
  BY <1>1, <1>2, PTL DEF Spec

(* A registration answered with 200 or 201 is kept ever after in the         *)
(* namespace it was put to; in the server's own namespace its keys are       *)
(* accepted and its subject can exchange tokens.                             *)
THEOREM AnswersAreKept == Spec => []AnsweredCanLogIn
<1>1. RegistrationInv => AnsweredCanLogIn
  BY DEF RegistrationInv
<1>2. QED
  BY <1>1, RegistrationInvariant, PTL

(* Every certificate issued names a key registered in the server's own       *)
(* namespace and its one owner.                                              *)
THEOREM CertificatesAreOwned == Spec => []CertificatesMatchOwner
<1>1. RegistrationInv => CertificatesMatchOwner
  BY DEF RegistrationInv
<1>2. QED
  BY <1>1, RegistrationInvariant, PTL

(* No step replaces stored keys or a bound owner.                            *)
THEOREM Immutability == Spec => RegistrationsAreImmutable
<1>1. RegistrationInv /\ [Next]_vars =>
        [\A p \in Places : Preserved(file[p], file'[p])]_vars
  BY FilesPreserved
<1>2. QED
  BY <1>1, RegistrationInvariant, PTL DEF Spec, RegistrationsAreImmutable

-----------------------------------------------------------------------------
(* What a login submits is a valid registration: one named key.              *)
LEMMA SubmittedType ==
  ASSUME NEW n \in Names, NEW k \in Keys
  PROVE  {Named(n, k)} \in Specs /\ Named(n, k) \in PublicKeys
<1>1. Named(n, k) \in PublicKeys
  BY KeyAssumption DEF Named
<1>2. {Named(n, k)} \subseteq PublicKeys /\ {Named(n, k)} # {}
  BY <1>1
<1>3. QED
  BY <1>1, <1>2 DEF Specs

(* Every step of the composition is a step of the registration API or leaves *)
(* the API alone.                                                            *)
LEMMA StepRefines ==
  ASSUME ClientTypeOK, [LoginNext]_loginVars
  PROVE  [Next]_vars
<1> USE DEF ClientTypeOK
<1>1. ASSUME NEW r \in Requests, NEW k \in Keys, NEW g \in Handlers, PutFor(g, r, k)
      PROVE  Next
  <2>1. r.place \in Places /\ r.name \in Names /\ r.subject \in Subjects \cup {NoOwner}
    BY DEF Requests
  <2>2. (IF mode = "oidc" THEN r.subject ELSE NoOwner) \in Subjects \cup {NoOwner}
    BY <2>1
  <2>3. QED
    BY <1>1, <2>1, <2>2, SubmittedType DEF PutFor, Principal, Next
<1>2. ASSUME NEW h \in Homes, ClientStep(h)
      PROVE  [Next]_vars
  <2>1. ASSUME NEW g \in Handlers, SubmitUserRegistration(h, g)
        PROVE  Next
    BY <1>1, <2>1 DEF SubmitUserRegistration
  <2>2. ASSUME NEW g \in Handlers, ExchangeSSHCertificate(h, g)
        PROVE  Next
    <3>1. request[h].place.id \in Identities
      BY DEF Requests, Places
    <3>2. Readable(Authenticating(request[h].place.id), request[h].subject)
      BY <2>2 DEF ExchangeSSHCertificate, Exchange
    <3>3. request[h].subject \in Subjects
      BY <3>2 DEF Readable, registrationOwnedBy
    <3>4. QED
      BY <2>2, <3>1, <3>3 DEF ExchangeSSHCertificate, Next
  <2>3. QED
    BY <1>2, <2>1, <2>2
    DEF ClientStep, Begin, LoadPrivateKey, CreatePrivateKey, SaveProfile, GiveUp
<1>3. ASSUME NEW g \in Handlers, ServerStep(g)
      PROVE  Next
  <2>1. ASSUME NEW q \in late, LatePut(q, g)
        PROVE  Next
    <3>1. q.request \in Requests /\ q.key \in Keys
      OBVIOUS
    <3>2. QED
      BY <1>1, <2>1, <3>1 DEF LatePut
  <2>2. QED
    BY <1>3, <2>1 DEF ServerStep, ServerRenames, ServerAnswers, ServerIssues, Next
<1>4. ASSUME NEW m \in {"open", "oidc"}, ServerRestarts(m)
      PROVE  Next
  BY <1>4 DEF ServerRestarts, Next
<1>5. CASE UNCHANGED loginVars
  BY <1>5 DEF loginVars
<1>6. QED
  BY <1>2, <1>3, <1>4, <1>5 DEF LoginNext

-----------------------------------------------------------------------------
(* At first there is nothing to keep.                                        *)
LEMMA LoginInitInv == LoginInit => LoginInv
<1>1. PICK p \in PublicKeys : TRUE
  BY DomainAssumption
<1>2. p.name \in Names /\ p.key \in Keys
  BY <1>1, KeyAssumption
<1>3. (CHOOSE k \in Keys : TRUE) \in Keys
  BY <1>2
<1>4. (CHOOSE r \in Requests : TRUE) \in Requests
  <2>1. PICK w \in Places : TRUE
    BY SomePlace
  <2>2. [mode |-> "open", place |-> w, subject |-> NoOwner, name |-> p.name] \in Requests
    BY <1>2, <2>1 DEF Requests
  <2>3. QED
    BY <2>2
<1>5. QED
  BY <1>3, <1>4, LoginMarkerAssumption
  DEF LoginInit, Init, ClientInit, LoginInv, ClientTypeOK, KeysInv, ProgressInv, ProfileLogsIn, Promised

(* Types are kept.                                                           *)
LEMMA ClientTypeStep ==
  ASSUME ClientTypeOK, [LoginNext]_loginVars
  PROVE  ClientTypeOK'
<1> USE DEF ClientTypeOK
<1>1. ASSUME NEW h \in Homes, ClientStep(h)
      PROVE  ClientTypeOK'
  <2>1. ASSUME NEW m \in {"open", "oidc"}, NEW p \in Places, NEW s \in Subjects \cup {NoOwner},
               NEW n \in Names, Begin(h, m, p, s, n)
        PROVE  ClientTypeOK'
    <3>1. [mode |-> m, place |-> p, subject |-> s, name |-> n] \in Requests
      BY DEF Requests
    <3>2. QED
      BY <2>1, <3>1 DEF Begin, Goto
  <2>2. CASE LoadPrivateKey(h)
    BY <2>2 DEF LoadPrivateKey, Goto
  <2>3. ASSUME NEW k \in Keys, CreatePrivateKey(h, k)
        PROVE  ClientTypeOK'
    BY <2>3 DEF CreatePrivateKey, Goto
  <2>4. ASSUME NEW g \in Handlers, SubmitUserRegistration(h, g) \/ ExchangeSSHCertificate(h, g)
        PROVE  ClientTypeOK'
    BY <2>4 DEF SubmitUserRegistration, ExchangeSSHCertificate, Goto
  <2>5. CASE SaveProfile(h)
    BY <2>5 DEF SaveProfile, Goto, Profiles
  <2>6. CASE GiveUp(h)
    <3>1. [request |-> request[h], key |-> signer[h]] \in [request : Requests, key : Keys]
      OBVIOUS
    <3>2. late' \subseteq [request : Requests, key : Keys]
      BY <2>6, <3>1 DEF GiveUp
    <3>3. QED
      BY <2>6, <3>2 DEF GiveUp, Goto
  <2>7. QED
    BY <1>1, <2>1, <2>2, <2>3, <2>4, <2>5, <2>6 DEF ClientStep
<1>2. ASSUME NEW g \in Handlers, ServerStep(g)
      PROVE  ClientTypeOK'
  <2>1. Released \in [Homes -> Handlers \cup {NoHandler}]
    BY DEF Released
  <2>2. QED
    BY <1>2, <2>1 DEF ServerStep, LatePut, ServerRenames, ServerAnswers, ServerIssues
<1>3. ASSUME NEW m \in {"open", "oidc"}, ServerRestarts(m)
      PROVE  ClientTypeOK'
  BY <1>3 DEF ServerRestarts
<1>4. CASE UNCHANGED loginVars
  BY <1>4 DEF loginVars, clientVars
<1>5. QED
  BY <1>1, <1>2, <1>3, <1>4 DEF LoginNext

-----------------------------------------------------------------------------
(* A private key file is never replaced.                                     *)
LEMMA KeyFileStays ==
  ASSUME ClientTypeOK, [LoginNext]_loginVars, NEW h \in Homes, keyFile[h] # NoKey
  PROVE  keyFile'[h] = keyFile[h]
<1>1. ASSUME NEW f \in Homes, NEW k \in Keys, CreatePrivateKey(f, k)
      PROVE  keyFile'[h] = keyFile[h]
  BY <1>1 DEF CreatePrivateKey, ClientTypeOK
<1>2. QED
  BY <1>1 DEF LoginNext, ClientStep, ServerStep, Begin, LoadPrivateKey, SubmitUserRegistration,
     ExchangeSSHCertificate, SaveProfile, GiveUp, LatePut, ServerRenames, ServerAnswers,
     ServerIssues, ServerRestarts, loginVars, clientVars

(* So what is on a disk stays there.                                         *)
LEMMA DisksKeep ==
  ASSUME ClientTypeOK, [LoginNext]_loginVars, NEW spec, OnDisk(spec)
  PROVE  OnDisk(spec)'
<1>1. PICK h \in Homes, n \in Names : keyFile[h] \in Keys /\ spec = {Named(n, keyFile[h])}
  BY DEF OnDisk
<1>2. keyFile'[h] = keyFile[h]
  BY <1>1, KeyFileStays, KeyAssumption
<1>3. QED
  BY <1>1, <1>2 DEF OnDisk, Named

(* The server stores only specs that it was sent: a set S that has all of    *)
(* them still has all of them after a PUT with a spec of S...                *)
LEMMA PutKeepsSpecs ==
  ASSUME RegistrationTypeOK, NEW S, NEW g \in Handlers, NEW p \in Places, NEW spec \in S,
         NEW s, Put(g, p, spec, s),
         \A f \in Handlers : pc[f] # "idle" => reg[f].spec \in S,
         \A j \in Places : file[j] # NoFile => file[j].spec \in S
  PROVE  /\ \A f \in Handlers : pc'[f] # "idle" => reg'[f].spec \in S
         /\ \A j \in Places : file'[j] # NoFile => file'[j].spec \in S
<1> USE DEF RegistrationTypeOK
<1>1. \A j \in Places : file'[j] # NoFile => file'[j].spec \in S
  BY DEF Put
<1>2. ASSUME NEW r, r.spec \in S, Write(g, p, r)
      PROVE  \A f \in Handlers : pc'[f] # "idle" => reg'[f].spec \in S
  BY <1>2 DEF Write
<1>3. CASE MustCreate(p) /\ Write(g, p, [spec |-> spec, owner |-> s])
  BY <1>1, <1>2, <1>3
<1>4. CASE MustAdopt(p, spec) /\ Write(g, p, [file[p] EXCEPT !.owner = s])
  <2>1. file[p] \in Registrations /\ file[p].spec \in S
    BY <1>4 DEF MustAdopt, SameSpec
  <2>2. [file[p] EXCEPT !.owner = s].spec = file[p].spec
    BY <2>1 DEF Registrations
  <2>3. QED
    BY <1>1, <1>2, <1>4, <2>1, <2>2
<1>5. CASE UNCHANGED <<pc, reg>>
  BY <1>1, <1>5
<1>6. QED
  BY <1>3, <1>4, <1>5 DEF Put

(* ... and after any step that is not a PUT.                                 *)
LEMMA OthersKeepSpecs ==
  ASSUME RegistrationTypeOK, NEW S,
         \/ \E h \in Handlers : Rename(h) \/ Answer(h)
         \/ \E h \in Handlers, i \in Identities, s \in Subjects : Exchange(h, i, s)
         \/ \E h \in Handlers, k \in PublicKeys : Issue(h, k)
         \/ \E m \in {"open", "oidc"} : Restart(m)
         \/ UNCHANGED vars,
         \A f \in Handlers : pc[f] # "idle" => reg[f].spec \in S,
         \A j \in Places : file[j] # NoFile => file[j].spec \in S
  PROVE  /\ \A f \in Handlers : pc'[f] # "idle" => reg'[f].spec \in S
         /\ \A j \in Places : file'[j] # NoFile => file'[j].spec \in S
<1> USE DEF RegistrationTypeOK
<1>1. ASSUME NEW h \in Handlers, Rename(h)
      PROVE  /\ \A f \in Handlers : pc'[f] # "idle" => reg'[f].spec \in S
             /\ \A j \in Places : file'[j] # NoFile => file'[j].spec \in S
  BY <1>1 DEF Rename
<1>2. ASSUME NEW h \in Handlers, NEW i \in Identities, NEW s \in Subjects, Exchange(h, i, s)
      PROVE  /\ \A f \in Handlers : pc'[f] # "idle" => reg'[f].spec \in S
             /\ \A j \in Places : file'[j] # NoFile => file'[j].spec \in S
  <2>0. Authenticating(i) \in Places
    BY AuthenticatingPlace
  <2>1. file[Authenticating(i)] \in Registrations /\ file[Authenticating(i)].spec \in S
    BY <1>2, <2>0 DEF Exchange, Readable
  <2>2. [file[Authenticating(i)] EXCEPT !.owner = s].spec = file[Authenticating(i)].spec
    BY <2>1 DEF Registrations
  <2>3. QED
    BY <1>2, <2>1, <2>2 DEF Exchange
<1>3. QED
  BY <1>1, <1>2 DEF Answer, Issue, Restart, vars

(* Every step is a PUT for a login or an ended one, or another server step.  *)
LEMMA StepKinds ==
  ASSUME ClientTypeOK, [LoginNext]_loginVars
  PROVE  \/ \E h \in Homes, g \in Handlers : SubmitUserRegistration(h, g)
         \/ \E g \in Handlers : \E q \in late : LatePut(q, g)
         \/ \E h \in Handlers : Rename(h) \/ Answer(h)
         \/ \E h \in Handlers, i \in Identities, s \in Subjects : Exchange(h, i, s)
         \/ \E h \in Handlers, k \in PublicKeys : Issue(h, k)
         \/ \E m \in {"open", "oidc"} : Restart(m)
         \/ UNCHANGED vars
<1>1. ASSUME NEW h \in Homes, NEW g \in Handlers, ExchangeSSHCertificate(h, g)
      PROVE  \E f \in Handlers, i \in Identities, s \in Subjects : Exchange(f, i, s)
  <2>1. request[h].place.id \in Identities
    BY DEF ClientTypeOK, Requests, Places
  <2>2. request[h].subject \in Subjects
    BY <1>1 DEF ExchangeSSHCertificate, Exchange, Readable, registrationOwnedBy
  <2>3. QED
    BY <1>1, <2>1, <2>2 DEF ExchangeSSHCertificate
<1>2. QED
  BY <1>1 DEF LoginNext, ClientStep, ServerStep, Begin, LoadPrivateKey, CreatePrivateKey, SaveProfile,
     GiveUp, ServerRenames, ServerAnswers, ServerIssues, ServerRestarts, loginVars

(* Every key in use, on its way or stored stays on a disk.                   *)
LEMMA KeysStep ==
  ASSUME RegistrationTypeOK, ClientTypeOK, KeysInv, ProgressInv, [LoginNext]_loginVars
  PROVE  KeysInv'
<1>1. ASSUME NEW h \in Homes, at[h] \in {"submitting", "sent", "accepted", "exchanging", "verified"}
      PROVE  signer[h] \in Keys /\ keyFile[h] = signer[h] /\ request[h].name \in Names
  BY <1>1 DEF KeysInv, ClientTypeOK, Requests
<1>2. \A h \in Homes : at'[h] \notin {"idle", "named"} => signer'[h] = keyFile'[h]
  <2>1. ASSUME NEW f \in Homes, NEW k \in Keys, CreatePrivateKey(f, k)
        PROVE  \A h \in Homes : at'[h] \notin {"idle", "named"} => signer'[h] = keyFile'[h]
    BY <2>1 DEF CreatePrivateKey, Goto, KeysInv, ClientTypeOK
  <2>2. ASSUME NEW f \in Homes, LoadPrivateKey(f)
        PROVE  \A h \in Homes : at'[h] \notin {"idle", "named"} => signer'[h] = keyFile'[h]
    BY <2>2 DEF LoadPrivateKey, Goto, KeysInv, ClientTypeOK
  <2>3. ASSUME NEW f \in Homes, NEW m, NEW p, NEW s, NEW n, Begin(f, m, p, s, n)
        PROVE  \A h \in Homes : at'[h] \notin {"idle", "named"} => signer'[h] = keyFile'[h]
    BY <2>3 DEF Begin, Goto, KeysInv, ClientTypeOK
  <2>4. ASSUME NEW f \in Homes, NEW g, SubmitUserRegistration(f, g) \/ ExchangeSSHCertificate(f, g)
        PROVE  \A h \in Homes : at'[h] \notin {"idle", "named"} => signer'[h] = keyFile'[h]
    BY <2>4 DEF SubmitUserRegistration, ExchangeSSHCertificate, Goto, KeysInv, ClientTypeOK
  <2>5. ASSUME NEW f \in Homes, SaveProfile(f) \/ GiveUp(f)
        PROVE  \A h \in Homes : at'[h] \notin {"idle", "named"} => signer'[h] = keyFile'[h]
    BY <2>5 DEF SaveProfile, GiveUp, Goto, KeysInv, ClientTypeOK
  <2>6. ASSUME NEW g \in Handlers, NEW k, ServerAnswers(g) \/ ServerIssues(g, k)
        PROVE  \A h \in Homes : at'[h] \notin {"idle", "named"} => signer'[h] = keyFile'[h]
    <3>1. \A h \in Homes : server[h] = g => at[h] \in {"sent", "exchanging"}
      BY LoginMarkerAssumption DEF ProgressInv, WorksFor
    <3>2. QED
      BY <2>6, <3>1 DEF ServerAnswers, ServerIssues, KeysInv, ClientTypeOK
  <2>7. CASE UNCHANGED <<at, signer, keyFile>>
    BY <2>7 DEF KeysInv
  <2>8. QED
    BY <2>1, <2>2, <2>3, <2>4, <2>5, <2>6, <2>7
    DEF LoginNext, ClientStep, ServerStep, LatePut, ServerRenames, ServerRestarts, loginVars, clientVars
<1>3. \A q \in late' : OnDisk({Named(q.request.name, q.key)})'
  <2>1. ASSUME NEW q \in late
        PROVE  OnDisk({Named(q.request.name, q.key)})'
    BY DisksKeep DEF KeysInv
  <2>2. ASSUME NEW h \in Homes, at[h] = "submitting",
               NEW q, q = [request |-> request[h], key |-> signer[h]]
        PROVE  OnDisk({Named(q.request.name, q.key)})'
    <3>1. OnDisk({Named(q.request.name, q.key)})
      BY <1>1, <2>2 DEF OnDisk
    <3>2. QED
      BY <3>1, DisksKeep
  <2>3. ASSUME NEW h \in Homes, GiveUp(h)
        PROVE  \A q \in late' : OnDisk({Named(q.request.name, q.key)})'
    BY <2>1, <2>2, <2>3 DEF GiveUp
  <2>4. CASE late' \subseteq late
    BY <2>1, <2>4
  <2>5. QED
    BY <2>3, <2>4
    DEF LoginNext, ClientStep, ServerStep, Begin, LoadPrivateKey, CreatePrivateKey, SubmitUserRegistration,
        ExchangeSSHCertificate, SaveProfile, LatePut, ServerRenames, ServerAnswers, ServerIssues,
        ServerRestarts, loginVars, clientVars
<1> DEFINE S == {spec \in Specs : OnDisk(spec)}
<1>4. /\ \A f \in Handlers : pc[f] # "idle" => reg[f].spec \in S
      /\ \A j \in Places : file[j] # NoFile => file[j].spec \in S
  BY DEF KeysInv, RegistrationTypeOK, Registrations
<1>5. /\ \A f \in Handlers : pc'[f] # "idle" => reg'[f].spec \in S
      /\ \A j \in Places : file'[j] # NoFile => file'[j].spec \in S
  <2>1. ASSUME NEW g \in Handlers, NEW r \in Requests, NEW k \in Keys, PutFor(g, r, k),
               {Named(r.name, k)} \in S
        PROVE  <1>5!1 /\ <1>5!2
    <3>1. r.place \in Places
      BY DEF Requests
    <3>2. QED
      BY <1>4, <2>1, <3>1, PutKeepsSpecs DEF PutFor, Principal
  <2>2. ASSUME NEW h \in Homes, NEW g \in Handlers, SubmitUserRegistration(h, g)
        PROVE  <1>5!1 /\ <1>5!2
    <3>1. request[h] \in Requests /\ signer[h] \in Keys /\ request[h].name \in Names
      BY DEF ClientTypeOK, Requests
    <3>2. OnDisk({Named(request[h].name, signer[h])})
      BY <1>1, <2>2 DEF SubmitUserRegistration, OnDisk
    <3>3. QED
      BY <2>1, <2>2, <3>1, <3>2, SubmittedType DEF SubmitUserRegistration
  <2>3. ASSUME NEW g \in Handlers, NEW q \in late, LatePut(q, g)
        PROVE  <1>5!1 /\ <1>5!2
    <3>1. q.request \in Requests /\ q.key \in Keys
      BY DEF ClientTypeOK
    <3>2. q.request.name \in Names
      BY <3>1 DEF Requests
    <3>3. QED
      BY <2>1, <2>3, <3>1, <3>2, SubmittedType DEF LatePut, KeysInv
  <2>4. QED
    BY <1>4, <2>2, <2>3, StepKinds, OthersKeepSpecs
<1>6. \A spec \in S : OnDisk(spec)'
  BY DisksKeep
<1>7. QED
  BY <1>2, <1>3, <1>5, <1>6 DEF KeysInv

-----------------------------------------------------------------------------
(* What is stored stays, so what a login has achieved stays as well.         *)
LEMMA AchievementsStay ==
  ASSUME RegistrationInv, [Next]_vars, NEW p \in Places
  PROVE  /\ file[p] # NoFile => file'[p] # NoFile /\ file'[p].spec = file[p].spec
         /\ \A s : Readable(p, s) => Readable(p, s)'
<1>1. Preserved(file[p], file'[p])
  BY FilesPreserved
<1>2. QED
  BY <1>1, SubjectAssumption DEF Preserved, Readable, registrationOwnedBy

(* So an identity that has keys to log in with keeps them.                   *)
LEMMA LoginsStay ==
  ASSUME RegistrationInv, [Next]_vars, NEW i \in Identities
  PROVE  /\ \A k : Authenticates(i, k) => Authenticates(i, k)'
         /\ \A s : Readable(Authenticating(i), s) => Readable(Authenticating(i), s)'
<1>1. Authenticating(i) \in Places
  BY AuthenticatingPlace
<1>2. PICK p \in Places : p = Authenticating(i)
  BY <1>1
<1>3. /\ file[p] # NoFile => file'[p] # NoFile /\ file'[p].spec = file[p].spec
      /\ \A s : Readable(p, s) => Readable(p, s)'
  BY AchievementsStay
<1>4. QED
  BY <1>2, <1>3 DEF Authenticates, Readable

(* A PUT occupies one idle handler with the spec it was sent, or answers.    *)
LEMMA PutOccupies ==
  ASSUME RegistrationTypeOK, NEW g \in Handlers, NEW p \in Places, NEW spec, NEW s,
         Put(g, p, spec, s)
  PROVE  /\ pc[g] = "idle"
         /\ \A f \in Handlers \ {g} : pc'[f] = pc[f] /\ place'[f] = place[f] /\ reg'[f] = reg[f]
         /\ pc'[g] = "idle" => file'[p] # NoFile /\ file'[p].spec = spec
         /\ pc'[g] # "idle" => pc'[g] = "writing" /\ place'[g] = p /\ reg'[g].spec = spec
<1> USE DEF RegistrationTypeOK
<1>1. ASSUME NEW r, r.spec = spec, Write(g, p, r), pc[g] = "idle"
      PROVE  /\ \A f \in Handlers \ {g} : pc'[f] = pc[f] /\ place'[f] = place[f] /\ reg'[f] = reg[f]
             /\ pc'[g] = "writing" /\ place'[g] = p /\ reg'[g].spec = spec
  BY <1>1 DEF Write
<1>2. CASE MustCreate(p) /\ Write(g, p, [spec |-> spec, owner |-> s])
  BY <1>1, <1>2 DEF Put
<1>3. CASE MustAdopt(p, spec) /\ Write(g, p, [file[p] EXCEPT !.owner = s])
  <2>1. file[p] \in Registrations /\ file[p].spec = spec
    BY <1>3 DEF MustAdopt, SameSpec
  <2>2. [file[p] EXCEPT !.owner = s].spec = spec
    BY <2>1 DEF Registrations
  <2>3. QED
    BY <1>1, <1>3, <2>2 DEF Put
<1>4. CASE IsRetry(p, spec, s) /\ UNCHANGED <<mu, pc, place, reg>>
  BY <1>4 DEF Put, IsRetry, SameSpec
<1>5. QED
  BY <1>2, <1>3, <1>4 DEF Put

(* A login that is past its submission has what it claims, and its handler   *)
(* works on its request and on no other.                                     *)
LEMMA ProgressStep ==
  ASSUME RegistrationInv, ClientTypeOK, ProgressInv, [LoginNext]_loginVars
  PROVE  ProgressInv'
<1> DEFINE Stored(h) == at[h] = "accepted" =>
                          file[request[h].place] # NoFile /\ file[request[h].place].spec = Submitted(h)
           Proved(h) == at[h] = "verified" => Verified(h)
           Good(h) == (server[h] # NoHandler => WorksFor(h, server[h])) /\ Stored(h) /\ Proved(h)
<1>0. [Next]_vars
  BY StepRefines
<1>1. ClientTypeOK'
  BY ClientTypeStep
<1>2. RegistrationTypeOK /\ HandlerInv
  BY DEF RegistrationInv
<1>3. SUFFICES ASSUME NEW h \in Homes
               PROVE  Good(h)'
  BY DEF ProgressInv
<1>4. /\ Good(h) /\ request[h] \in Requests
      /\ request[h].place \in Places /\ request[h].place.id \in Identities
  BY DEF ProgressInv, ClientTypeOK, Requests, Places
(* A login that does not move keeps what it has achieved.                    *)
<1>5. ASSUME at'[h] = at[h] \/ at'[h] \in {"idle", "named", "submitting"},
             request'[h] = request[h], signer'[h] = signer[h]
      PROVE  Stored(h)' /\ Proved(h)'
  <2>1. Stored(h)'
    BY <1>0, <1>4, <1>5, AchievementsStay DEF Submitted
  <2>2. Verified(h) => Verified(h)'
    BY <1>0, <1>4, <1>5, LoginsStay DEF Verified
  <2>3. Proved(h)'
    BY <1>4, <1>5, <2>2
  <2>4. QED
    BY <2>1, <2>3
<1>6. ASSUME NEW g \in Handlers, NEW r \in Requests, NEW k, PutFor(g, r, k),
             server'[h] = server[h], at'[h] = at[h],
             request'[h] = request[h], signer'[h] = signer[h]
      PROVE  Good(h)'
  <2>1. r.place \in Places
    BY DEF Requests
  <2>2. server[h] # NoHandler => server[h] \in Handlers \ {g}
    BY <1>2, <1>4, <1>6, <2>1, PutOccupies DEF ClientTypeOK, WorksFor, PutFor, Principal
  <2>3. server[h] # NoHandler => WorksFor(h, server[h])'
    BY <1>2, <1>4, <1>6, <2>1, <2>2, PutOccupies DEF WorksFor, Submitted, PutFor, Principal
  <2>4. QED
    BY <1>5, <1>6, <2>3
(* Steps of the client alone.                                                *)
<1>7. ASSUME NEW f \in Homes,
             \/ \E m, p, s, n : Begin(f, m, p, s, n)
             \/ LoadPrivateKey(f)
             \/ \E k : CreatePrivateKey(f, k)
             \/ SaveProfile(f)
             \/ GiveUp(f)
      PROVE  Good(h)'
  <2> USE DEF Begin, LoadPrivateKey, CreatePrivateKey, SaveProfile, GiveUp, Goto, ClientTypeOK
  <2>1. UNCHANGED vars
    BY <1>7
  <2>2. CASE f = h
    <3>1. at'[h] \in {"idle", "named", "submitting"}
      BY <1>7, <2>2
    <3>2. server'[h] = NoHandler
      BY <1>4, <1>7, <2>2 DEF WorksFor
    <3>3. QED
      BY <3>1, <3>2
  <2>3. CASE f # h
    <3>1. at'[h] = at[h] /\ request'[h] = request[h] /\ signer'[h] = signer[h] /\ server'[h] = server[h]
      BY <1>7, <2>3
    <3>2. server[h] # NoHandler => WorksFor(h, server[h])'
      BY <1>4, <2>1, <3>1 DEF WorksFor, Submitted, vars
    <3>3. QED
      BY <1>5, <3>1, <3>2
  <2>4. QED
    BY <2>2, <2>3
<1>8. ASSUME NEW f \in Homes, NEW g \in Handlers, SubmitUserRegistration(f, g)
      PROVE  Good(h)'
  <2>1. CASE f # h
    <3>1. request[f] \in Requests
      BY DEF ClientTypeOK
    <3>2. QED
      BY <1>6, <1>8, <2>1, <3>1 DEF SubmitUserRegistration, Goto, ClientTypeOK
  <2>2. CASE f = h
    <3>1. request'[h] = request[h] /\ signer'[h] = signer[h] /\ at[h] = "submitting"
      BY <1>8, <2>2 DEF SubmitUserRegistration
    <3>2. Put(g, request[h].place, Submitted(h), IF mode = "oidc" THEN request[h].subject ELSE NoOwner)
      BY <1>8, <2>2 DEF SubmitUserRegistration, PutFor, Principal, Submitted
    <3>3. server[h] = NoHandler
      BY <1>4, <3>1 DEF WorksFor
    <3>4. CASE pc'[g] = "idle"
      <4>1. at'[h] = "accepted" /\ server'[h] = NoHandler
        BY <1>8, <2>2, <3>3, <3>4 DEF SubmitUserRegistration, Goto, ClientTypeOK
      <4>2. file'[request[h].place] # NoFile /\ file'[request[h].place].spec = Submitted(h)
        BY <1>2, <1>4, <3>2, <3>4, PutOccupies
      <4>3. QED
        BY <3>1, <4>1, <4>2 DEF Submitted
    <3>5. CASE pc'[g] # "idle"
      <4>1. at'[h] = "sent" /\ server'[h] = g
        BY <1>8, <2>2, <3>5 DEF SubmitUserRegistration, Goto, ClientTypeOK
      <4>2. pc'[g] = "writing" /\ place'[g] = request[h].place /\ reg'[g].spec = Submitted(h)
        BY <1>2, <1>4, <3>2, <3>5, PutOccupies
      <4>3. QED
        BY <3>1, <4>1, <4>2 DEF Submitted, WorksFor
    <3>6. QED
      BY <3>4, <3>5
  <2>3. QED
    BY <2>1, <2>2
<1>9. ASSUME NEW f \in Homes, NEW g \in Handlers, ExchangeSSHCertificate(f, g)
      PROVE  Good(h)'
  <2>1. /\ request' = request /\ signer' = signer /\ file' = file
        /\ pc[g] = "idle" /\ pc' = [pc EXCEPT ![g] = "issuing"]
        /\ place'[g] = Authenticating(request[f].place.id)
        /\ reg'[g] = [file[Authenticating(request[f].place.id)] EXCEPT !.owner = request[f].subject]
        /\ \A e \in Handlers \ {g} : place'[e] = place[e] /\ reg'[e] = reg[e]
    BY <1>2, <1>9 DEF ExchangeSSHCertificate, Exchange, RegistrationTypeOK
  <2>2. CASE f # h
    <3>1. at'[h] = at[h] /\ server'[h] = server[h]
      BY <1>9, <2>2 DEF ExchangeSSHCertificate, Goto, ClientTypeOK
    <3>2. server[h] # NoHandler => server[h] \in Handlers \ {g}
      BY <1>4, <2>1 DEF WorksFor, ClientTypeOK
    <3>3. server[h] # NoHandler => WorksFor(h, server[h])'
      BY <1>2, <1>4, <2>1, <3>1, <3>2 DEF WorksFor, Submitted, RegistrationTypeOK
    <3>4. QED
      BY <1>5, <2>1, <3>1, <3>3
  <2>3. CASE f = h
    <3>1. at[h] = "accepted" /\ at'[h] = "exchanging" /\ server'[h] = g /\ pc'[g] = "issuing"
      BY <1>2, <1>9, <2>1, <2>3 DEF ExchangeSSHCertificate, Goto, ClientTypeOK, RegistrationTypeOK
    <3>2. Authenticating(request[h].place.id) \in Places
      BY <1>4, AuthenticatingPlace
    <3>3. Readable(Authenticating(request[h].place.id), request[h].subject)
      BY <1>9, <2>3 DEF ExchangeSSHCertificate, Exchange
    <3>4. file[Authenticating(request[h].place.id)] \in Registrations
      BY <1>2, <3>2, <3>3 DEF Readable, RegistrationTypeOK
    <3>5. reg'[g].owner = request[h].subject
      BY <2>1, <2>3, <3>4 DEF Registrations
    <3>6. QED
      BY <2>1, <2>3, <3>1, <3>5 DEF WorksFor, Authenticating
  <2>4. QED
    BY <2>2, <2>3
<1>10. ASSUME NEW g \in Handlers, NEW q \in late, LatePut(q, g)
       PROVE  Good(h)'
  <2>1. q.request \in Requests
    BY DEF ClientTypeOK
  <2>2. QED
    BY <1>6, <1>10, <2>1 DEF LatePut
(* Steps of the server.                                                      *)
<1>11. ASSUME NEW g \in Handlers, ServerRenames(g)
       PROVE  Good(h)'
  <2>1. /\ UNCHANGED <<at, request, signer, place, reg>>
        /\ pc[g] = "writing"
        /\ \E step \in {"renamed", "idle"} : pc' = [pc EXCEPT ![g] = step]
    BY <1>11 DEF ServerRenames, Rename
  <2>2. server'[h] # NoHandler => server'[h] = server[h] /\ pc'[server[h]] # "idle"
    BY <1>11 DEF ServerRenames, Released
  <2>3. (server[h] # NoHandler => WorksFor(h, server[h]))'
    BY <1>2, <1>4, <2>1, <2>2 DEF WorksFor, Submitted, RegistrationTypeOK, ClientTypeOK
  <2>4. QED
    BY <1>5, <2>1, <2>3
<1>12. ASSUME NEW g \in Handlers, NEW k, ServerAnswers(g) \/ ServerIssues(g, k), server[h] # g
       PROVE  Good(h)'
  <2>1. /\ UNCHANGED <<request, signer, place, reg>>
        /\ at'[h] = at[h]
        /\ pc' = [pc EXCEPT ![g] = "idle"]
        /\ server' = Released
    BY <1>12 DEF ServerAnswers, Answer, ServerIssues, Issue
  <2>2. server'[h] # NoHandler => server'[h] = server[h]
    BY <2>1 DEF Released
  <2>3. (server[h] # NoHandler => WorksFor(h, server[h]))'
    BY <1>2, <1>4, <1>12, <2>1, <2>2 DEF WorksFor, Submitted, RegistrationTypeOK, ClientTypeOK
  <2>4. QED
    BY <1>5, <2>1, <2>3
<1>13. ASSUME NEW g \in Handlers, ServerAnswers(g), server[h] = g
       PROVE  Good(h)'
  <2>1. /\ UNCHANGED <<request, signer, file>>
        /\ at'[h] = "accepted"
        /\ pc[g] = "renamed" /\ pc' = [pc EXCEPT ![g] = "idle"]
        /\ server' = Released
    BY <1>13 DEF ServerAnswers, Answer
  <2>2. server'[h] = NoHandler
    BY <1>2, <1>13, <2>1 DEF Released, RegistrationTypeOK
  <2>3. place[g] = request[h].place /\ reg[g].spec = Submitted(h) /\ reg[g] \in Registrations
    BY <1>2, <1>4, <1>13, <2>1, LoginMarkerAssumption DEF WorksFor, RegistrationTypeOK
  <2>4. file[request[h].place] = reg[g]
    BY <1>2, <2>1, <2>3 DEF HandlerInv
  <2>5. QED
    BY <2>1, <2>2, <2>3, <2>4, FileAssumption DEF Submitted
<1>14. ASSUME NEW g \in Handlers, NEW k, ServerIssues(g, k), server[h] = g
       PROVE  Good(h)'
  <2>1. /\ UNCHANGED <<request, signer, file>>
        /\ at'[h] \in {at[h], "verified"}
        /\ pc[g] = "issuing" /\ pc' = [pc EXCEPT ![g] = "idle"]
        /\ server' = Released
    BY <1>14 DEF ServerIssues, Issue
  <2>2. server'[h] = NoHandler
    BY <1>2, <1>14, <2>1 DEF Released, RegistrationTypeOK
  <2> DEFINE i == request[h].place.id
  <2>3. /\ at[h] = "exchanging"
        /\ place[g] = Authenticating(i) /\ reg[g].owner = request[h].subject
    BY <1>4, <1>14, <2>1, LoginMarkerAssumption DEF WorksFor
  <2>4. file[Authenticating(i)] = reg[g] /\ reg[g] # NoFile /\ reg[g].owner \in Subjects
    BY <1>2, <2>1, <2>3, FileAssumption DEF HandlerInv, RegistrationTypeOK
  <2>5. ASSUME at'[h] = "verified"
        PROVE  Verified(h)
    <3>1. k = Named(request[h].name, signer[h]) /\ k \in reg[g].spec
      BY <1>14, <2>3, <2>5 DEF ServerIssues, Issue, Matches
    <3>2. QED
      BY <2>3, <2>4, <3>1 DEF Verified, Readable, registrationOwnedBy, Authenticates
  <2>6. Verified(h) => Verified(h)'
    BY <2>1 DEF Verified, Readable, Authenticates
  <2>7. QED
    BY <2>1, <2>2, <2>3, <2>5, <2>6
<1>15. ASSUME NEW m, ServerRestarts(m)
       PROVE  Good(h)'
  BY <1>5, <1>15 DEF ServerRestarts
<1>16. CASE UNCHANGED loginVars
  <2>1. UNCHANGED <<at, request, signer, server, pc, place, reg, file>>
    BY <1>16 DEF loginVars, clientVars, vars
  <2>2. QED
    BY <1>4, <1>5, <2>1 DEF WorksFor, Submitted
<1>17. QED
  BY <1>7, <1>8, <1>9, <1>10, <1>11, <1>12, <1>13, <1>14, <1>15, <1>16
  DEF LoginNext, ClientStep, ServerStep

-----------------------------------------------------------------------------
(* A profile is saved only when it works, and then goes on working.          *)
LEMMA ProfileStep ==
  ASSUME RegistrationInv, LoginInv, [LoginNext]_loginVars
  PROVE  ProfileLogsIn'
<1> USE DEF LoginInv
<1>0. [Next]_vars
  BY StepRefines
<1>1. SUFFICES ASSUME NEW h \in Homes, Promised(h)'
               PROVE  CanConnect(h)'
  BY DEF ProfileLogsIn
<1>2. CASE SaveProfile(h)
  <2> DEFINE r == request[h]
             i == r.place.id
  <2>1. /\ profile'[h] = r
        /\ UNCHANGED <<file, keyFile>>
        /\ at[h] = IF r.mode = "oidc" THEN "verified" ELSE "accepted"
    BY <1>2 DEF SaveProfile, ClientTypeOK, vars
  <2>2. /\ signer[h] = keyFile[h] /\ signer[h] \in Keys /\ r.name \in Names
        /\ r \in Requests /\ r.place \in Places /\ r.mode \in {"open", "oidc"}
    BY <2>1 DEF KeysInv, ClientTypeOK, Requests
  <2>3. CASE r.mode = "oidc"
    <3>1. Verified(h)
      BY <2>1, <2>3 DEF ProgressInv
    <3>2. QED
      BY <2>1, <2>2, <2>3, <3>1, KeyAssumption DEF Verified, CanConnect, Readable, Authenticates, Named
  <2>4. CASE r.mode # "oidc"
    <3>1. r.place.namespace = AuthenticationNamespace
      BY <1>1, <2>1, <2>2, <2>4 DEF Promised
    <3>2. Authenticating(i) = r.place
      BY <2>2, <3>1 DEF Authenticating, Places
    <3>3. file[r.place] # NoFile /\ file[r.place].spec = {Named(r.name, keyFile[h])}
      BY <2>1, <2>2, <2>4 DEF ProgressInv, Submitted
    <3>4. Authenticates(i, Named(r.name, keyFile[h]))
      BY <3>2, <3>3 DEF Authenticates
    <3>5. QED
      BY <2>1, <2>2, <2>4, <3>4, KeyAssumption DEF CanConnect, Authenticates, Named
  <2>5. QED
    BY <2>3, <2>4
<1>3. CASE ~SaveProfile(h)
  <2>1. profile'[h] = profile[h]
    BY <1>3 DEF LoginNext, ClientStep, ServerStep, Begin, LoadPrivateKey, CreatePrivateKey,
       SubmitUserRegistration, ExchangeSSHCertificate, SaveProfile, GiveUp, LatePut, ServerRenames,
       ServerAnswers, ServerIssues, ServerRestarts, loginVars, clientVars, ClientTypeOK
  <2>2. Promised(h)
    BY <1>1, <2>1 DEF Promised
  <2>3. CanConnect(h) /\ profile[h].place.id \in Identities
    BY <2>2 DEF ProfileLogsIn, Promised, ClientTypeOK, Profiles, Requests, Places
  <2>4. keyFile'[h] = keyFile[h]
    BY <2>3, KeyFileStays DEF CanConnect
  <2>5. PICK i \in Identities : profile[h].place.id = i
    BY <2>3
  <2>6. /\ \A k : Authenticates(i, k) => Authenticates(i, k)'
        /\ \A s : Readable(Authenticating(i), s) => Readable(Authenticating(i), s)'
    BY <1>0, LoginsStay
  <2>7. CASE profile[h].mode = "oidc"
    <3>1. /\ Readable(Authenticating(i), profile[h].subject)
          /\ Authenticates(i, Named(profile[h].name, keyFile[h]))
      BY <2>3, <2>5, <2>7 DEF CanConnect
    <3>2. /\ Readable(Authenticating(i), profile[h].subject)'
          /\ Authenticates(i, Named(profile[h].name, keyFile[h]))'
      BY <2>1, <2>4, <2>6, <3>1 DEF Readable, Authenticates, Named
    <3>3. QED
      BY <2>1, <2>3, <2>4, <2>5, <2>7, <3>2 DEF CanConnect
  <2>8. CASE profile[h].mode # "oidc"
    <3>1. PICK n \in Names : Authenticates(i, Named(n, keyFile[h]))
      BY <2>3, <2>5, <2>8 DEF CanConnect
    <3>2. Authenticates(i, Named(n, keyFile[h]))'
      BY <2>4, <2>6, <3>1 DEF Authenticates, Named
    <3>3. QED
      BY <2>1, <2>3, <2>4, <2>5, <2>8, <3>2 DEF CanConnect
  <2>9. QED
    BY <2>7, <2>8
<1>4. QED
  BY <1>2, <1>3

(* The invariant of the API and that of the logins hold together.            *)
LEMMA LoginInvariant == LoginSpec => [](RegistrationInv /\ LoginInv)
<1>1. LoginInit => RegistrationInv /\ LoginInv
  BY InitRegistration, LoginInitInv DEF LoginInit
<1>2. RegistrationInv /\ LoginInv /\ [LoginNext]_loginVars => RegistrationInv' /\ LoginInv'
  <2> SUFFICES ASSUME RegistrationInv, LoginInv, [LoginNext]_loginVars
               PROVE  RegistrationInv' /\ LoginInv'
    OBVIOUS
  <2>1. [Next]_vars
    BY StepRefines DEF LoginInv
  <2>2. RegistrationInv'
    BY <2>1, NextRegistrationType, NextHandler, NextAnswered, NextCertificates DEF RegistrationInv
  <2>3. LoginInv'
    BY ClientTypeStep, KeysStep, ProgressStep, ProfileStep DEF LoginInv, RegistrationInv
  <2>4. QED
    BY <2>2, <2>3
<1>3. QED
  BY <1>1, <1>2, PTL DEF LoginSpec

(* The logins and their server are an instance of the registration API: its  *)
(* theorems hold of every request that tearenv login sends, in time or late. *)
THEOREM LoginRefinesRegistration == LoginSpec => Spec
<1>1. LoginInit => Init
  BY DEF LoginInit
<1>2. RegistrationInv /\ LoginInv /\ [LoginNext]_loginVars => [Next]_vars
  BY StepRefines DEF LoginInv
<1>3. QED
  BY <1>1, <1>2, LoginInvariant, PTL DEF LoginSpec, Spec

(* No crash, timeout, late request or restart leaves an identity registered  *)
(* with a key whose private half is nowhere.                                 *)
THEOREM KeysAreNeverLost == LoginSpec => []RegisteredKeyIsKept
<1>1. LoginInv => RegisteredKeyIsKept
  BY DEF LoginInv, KeysInv, OnDisk, RegisteredKeyIsKept
<1>2. QED
  BY <1>1, LoginInvariant, PTL

(* A saved profile always lets tearenv connect log in, in its mode: the      *)
(* subject of an OIDC login whatever its namespace, the key of another login *)
(* if its namespace is the one the server authenticates from.                *)
THEOREM ProfilesKeepWorking == LoginSpec => []ProfileLogsIn
<1>1. LoginInv => ProfileLogsIn
  BY DEF LoginInv
<1>2. QED
  BY <1>1, LoginInvariant, PTL

=============================================================================
