--------------------------------- MODULE Login ---------------------------------
(***************************************************************************)
(* `tearenv login` (cmd/tearenv/main.go, internal/client) against the       *)
(* registration API: every request of Registration is now sent by a login   *)
(* in somebody's home directory.                                            *)
(*                                                                          *)
(* A login discovers the authentication mode, learns its identity, loads or *)
(* creates the private key, submits the public key, in OIDC mode exchanges  *)
(* its token for a certificate, and saves a profile for `tearenv connect`.  *)
(* It may end at any point: an error, the HTTP timeout, the user's Ctrl-C,  *)
(* a crash.  A request it has sent may still be served afterwards, beside   *)
(* the requests of the next login in that home.                             *)
(*                                                                          *)
(* The user chooses the namespace of the registration (--namespace).  In    *)
(* OIDC mode the exchange, which reads the server's own namespace, verifies *)
(* the login; otherwise a profile is saved for whatever namespace was       *)
(* answered.  A home runs one login at a time.  The registration document   *)
(* the client keeps is not state here: nothing reads it.                    *)
(***************************************************************************)
EXTENDS Registration, Integers

CONSTANTS
  Homes,          (* users' configuration directories                      *)
  Names,          (* host names, which name the public keys                *)
  Keys,           (* key pairs                                              *)
  NoKey,          (* there is no private key file                           *)
  NoProfile,      (* there is no profile file                               *)
  NoHandler,      (* no handler is serving the login                        *)
  MaxLogins,      (* bound on the logins begun in all homes                 *)
  MaxLate         (* bound on the requests of ended logins on their way     *)

ASSUME KeyAssumption ==
  /\ PublicKeys = [name : Names, key : Keys]
  /\ NoKey \notin Keys
ASSUME LoginBoundAssumption == MaxLogins \in Nat
ASSUME LoginMarkerAssumption ==
  /\ NoHandler \notin Handlers
  /\ NoProfile \notin [mode : {"open", "oidc"}, place : Places,
                       subject : Subjects \cup {NoOwner}, name : Names]

VARIABLES
  keyFile,        (* a home's id_ed25519                                    *)
  profile,        (* a home's config.json                                   *)
  at,             (* the login of a home: "idle", "named" (identity known), *)
                  (* "submitting", "sent", "accepted", "exchanging" or      *)
                  (* "verified"                                             *)
  request,        (* its mode, namespace and identity, subject and key name *)
  signer,         (* the key it has loaded                                  *)
  server,         (* the handler that serves it                             *)
  late,           (* registrations on their way from ended logins           *)
  logins          (* how many logins were begun                             *)

clientVars == <<keyFile, profile, at, request, signer, server, late, logins>>
loginVars == <<vars, clientVars>>

Requests ==
  [mode : {"open", "oidc"}, place : Places, subject : Subjects \cup {NoOwner}, name : Names]

(* The subject is not in the file: it is kept here to say whose login it is. *)
Profiles == Requests

ClientTypeOK ==
  /\ keyFile \in [Homes -> Keys \cup {NoKey}]
  /\ profile \in [Homes -> Profiles \cup {NoProfile}]
  /\ at \in [Homes -> {"idle", "named", "submitting", "sent", "accepted", "exchanging", "verified"}]
  /\ request \in [Homes -> Requests]
  /\ signer \in [Homes -> Keys]
  /\ server \in [Homes -> Handlers \cup {NoHandler}]
  /\ late \subseteq [request : Requests, key : Keys]
  /\ logins \in Nat

(* The variables of a login mean nothing while there is none.                *)
ClientInit ==
  /\ keyFile = [h \in Homes |-> NoKey]
  /\ profile = [h \in Homes |-> NoProfile]
  /\ at = [h \in Homes |-> "idle"]
  /\ request = [h \in Homes |-> CHOOSE r \in Requests : TRUE]
  /\ signer = [h \in Homes |-> CHOOSE k \in Keys : TRUE]
  /\ server = [h \in Homes |-> NoHandler]
  /\ late = {}
  /\ logins = 0

LoginInit == Init /\ ClientInit

-----------------------------------------------------------------------------
Goto(h, step) == at' = [at EXCEPT ![h] = step]

(* What discovery tells: the server's mode, or nothing, and then the client  *)
(* goes on as with a server that predates discovery.                         *)
DiscoverAuthentication == {mode, "open"}

(* Whom OIDCLogin authenticates, in the browser or by a device code.  Its    *)
(* failures end the login (GiveUp).                                          *)
OIDCLogin(m) == IF m = "oidc" THEN Subjects ELSE {NoOwner}

(* The identity is a claim of the subject's token; otherwise it is an option *)
(* or typed in.  The namespace is an option.  The key is named after the     *)
(* host, which may have another name at every login.                         *)
Begin(h, m, p, s, n) ==
  /\ at[h] = "idle"
  /\ logins < MaxLogins
  /\ m \in DiscoverAuthentication
  /\ s \in OIDCLogin(m)
  /\ request' = [request EXCEPT ![h] = [mode |-> m, place |-> p, subject |-> s, name |-> n]]
  /\ Goto(h, "named")
  /\ logins' = logins + 1
  /\ UNCHANGED <<vars, keyFile, profile, signer, server, late>>

(* LoadOrCreatePrivateKey.  Keys nobody has any trace of are fresh.          *)
KnownKeys ==
  {keyFile[h] : h \in Homes} \cup {signer[h] : h \in {g \in Homes : at[g] \notin {"idle", "named"}}}
    \cup {q.key : q \in late}
    \cup UNION {{k.key : k \in file[p].spec} : p \in {q \in Places : file[q] # NoFile}}
    \cup UNION {{k.key : k \in reg[g].spec} : g \in {f \in Handlers : pc[f] # "idle"}}

LoadPrivateKey(h) ==
  /\ at[h] = "named"
  /\ keyFile[h] # NoKey
  /\ signer' = [signer EXCEPT ![h] = keyFile[h]]
  /\ Goto(h, "submitting")
  /\ UNCHANGED <<vars, keyFile, profile, request, server, late, logins>>

(* Mutant: the login goes on with a key that could not be stored.            *)
CreateKeyInMemory(h, k) ==
  /\ at[h] = "named"
  /\ keyFile[h] = NoKey
  /\ k \in Keys \ KnownKeys
  /\ keyFile' \in {keyFile, [keyFile EXCEPT ![h] = k]}
  /\ signer' = [signer EXCEPT ![h] = k]
  /\ Goto(h, "submitting")
  /\ UNCHANGED <<vars, profile, request, server, late, logins>>

CreatePrivateKey(h, k) ==
  /\ at[h] = "named"
  /\ keyFile[h] = NoKey
  /\ k \in Keys \ KnownKeys
  /\ keyFile' = [keyFile EXCEPT ![h] = k]
  /\ signer' = [signer EXCEPT ![h] = k]
  /\ Goto(h, "submitting")
  /\ UNCHANGED <<vars, profile, request, server, late, logins>>

-----------------------------------------------------------------------------
(* The PUT.                                                                  *)
Named(n, k) == [name |-> n, key |-> k]

(* The principal that the server's authenticator finds in the request.  A    *)
(* server that is not in OIDC mode records no owner.                         *)
Principal(r) == IF mode = "oidc" THEN r.subject ELSE NoOwner

PutFor(g, r, k) == Put(g, r.place, {Named(r.name, k)}, Principal(r))

(* A handler takes the request of h: it answers at once or begins to write.  *)
SubmitUserRegistration(h, g) ==
  /\ at[h] = "submitting"
  /\ PutFor(g, request[h], signer[h])
  /\ IF pc'[g] = "idle"
       THEN Goto(h, "accepted") /\ UNCHANGED server
       ELSE Goto(h, "sent") /\ server' = [server EXCEPT ![h] = g]
  /\ UNCHANGED <<keyFile, profile, request, signer, late, logins>>

(* A request whose login has ended meanwhile.                                *)
LatePut(q, g) ==
  /\ q \in late
  /\ PutFor(g, q.request, q.key)
  /\ late' = late \ {q}
  /\ UNCHANGED <<keyFile, profile, at, request, signer, server, logins>>

(* The server's steps.  A login that loses its handler waits until it ends.  *)
Released == [h \in Homes |-> IF server[h] # NoHandler /\ pc'[server[h]] = "idle"
                               THEN NoHandler ELSE server[h]]

ServerRenames(g) ==
  /\ Rename(g)
  /\ server' = Released
  /\ UNCHANGED <<keyFile, profile, at, request, signer, late, logins>>

ServerAnswers(g) ==
  /\ Answer(g)
  /\ at' = [h \in Homes |-> IF server[h] = g THEN "accepted" ELSE at[h]]
  /\ server' = Released
  /\ UNCHANGED <<keyFile, profile, request, signer, late, logins>>

ServerRestarts(m) ==
  /\ Restart(m)
  /\ server' = [h \in Homes |-> NoHandler]
  /\ UNCHANGED <<keyFile, profile, at, request, signer, late, logins>>

(* ExchangeSSHCertificate asks for the key by name and accepts only a        *)
(* certificate of the local key.                                             *)
ExchangeSSHCertificate(h, g) ==
  /\ at[h] = "accepted"
  /\ request[h].mode = "oidc"
  /\ Exchange(g, request[h].place.id, request[h].subject)
  /\ Goto(h, "exchanging")
  /\ server' = [server EXCEPT ![h] = g]
  /\ UNCHANGED <<keyFile, profile, request, signer, late, logins>>

Matches(h, k) == k = Named(request[h].name, signer[h])

ServerIssues(g, k) ==
  /\ Issue(g, k)
  /\ at' = [h \in Homes |-> IF server[h] = g /\ Matches(h, k) THEN "verified" ELSE at[h]]
  /\ server' = Released
  /\ UNCHANGED <<keyFile, profile, request, signer, late, logins>>

-----------------------------------------------------------------------------
(* Mutant: the profile is saved without the proof that the exchange works.   *)
SaveUnverified(h) ==
  /\ at[h] \in {"accepted", "verified"}
  /\ profile' = [profile EXCEPT ![h] = request[h]]
  /\ Goto(h, "idle")
  /\ UNCHANGED <<vars, keyFile, request, signer, server, late, logins>>

(* profile.Save, the last step: what was asked for.                          *)
SaveProfile(h) ==
  /\ at[h] = IF request[h].mode = "oidc" THEN "verified" ELSE "accepted"
  /\ profile' = [profile EXCEPT ![h] = request[h]]
  /\ Goto(h, "idle")
  /\ UNCHANGED <<vars, keyFile, request, signer, server, late, logins>>

(* The login ends early: one of its steps fails, its request is refused or   *)
(* times out, the process is killed.  A request may be on its way.           *)
GiveUp(h) ==
  /\ at[h] # "idle"
  /\ Goto(h, "idle")
  /\ server' = [server EXCEPT ![h] = NoHandler]
  /\ late' \in {late} \cup
       (IF at[h] = "submitting" /\ Cardinality(late) < MaxLate THEN {late \cup {[request |-> request[h], key |-> signer[h]]}} ELSE {})
  /\ UNCHANGED <<vars, keyFile, profile, request, signer, logins>>

-----------------------------------------------------------------------------
ClientStep(h) ==
  \/ \E m \in {"open", "oidc"}, p \in Places, s \in Subjects \cup {NoOwner}, n \in Names :
       Begin(h, m, p, s, n)
  \/ LoadPrivateKey(h)
  \/ \E k \in Keys : CreatePrivateKey(h, k)
  \/ \E g \in Handlers : SubmitUserRegistration(h, g) \/ ExchangeSSHCertificate(h, g)
  \/ SaveProfile(h)
  \/ GiveUp(h)

ServerStep(g) ==
  \/ \E q \in late : LatePut(q, g)
  \/ ServerRenames(g)
  \/ ServerAnswers(g)
  \/ \E k \in PublicKeys : ServerIssues(g, k)

LoginNext ==
  \/ \E h \in Homes : ClientStep(h)
  \/ \E g \in Handlers : ServerStep(g)
  \/ \E m \in {"open", "oidc"} : ServerRestarts(m)

LoginSpec == LoginInit /\ [][LoginNext]_loginVars

-----------------------------------------------------------------------------
(* "Running the same login command again is safe": whatever crashed or got   *)
(* lost, and however late a request is served, the private half of every     *)
(* registered key, in whatever namespace, is on the disk of a home, so that  *)
(* the identity, whose registration is immutable, is not lost to everybody.  *)
RegisteredKeyIsKept ==
  \A p \in Places : file[p] # NoFile =>
    \E h \in Homes, n \in Names : file[p].spec = {Named(n, keyFile[h])}

(* serviceClientConfig and the server's check: with its profile, h connects  *)
(* while the server is in the profile's mode, also after its host was        *)
(* renamed.  In OIDC mode that is for the subject that logged in.  Nothing   *)
(* here looks at the namespace of the profile.                               *)
CanConnect(h) ==
  LET i == profile[h].place.id IN
  /\ keyFile[h] # NoKey
  /\ IF profile[h].mode = "oidc"
       THEN /\ Readable(Authenticating(i), profile[h].subject)
            /\ Authenticates(i, Named(profile[h].name, keyFile[h]))
       ELSE \E n \in Names : Authenticates(i, Named(n, keyFile[h]))

(* Whether the login made sure of that: always in OIDC mode, because of the  *)
(* exchange; in the open mode only in the server's own namespace.            *)
Promised(h) ==
  /\ profile[h] # NoProfile
  /\ profile[h].mode = "open" => profile[h].place.namespace = AuthenticationNamespace

(* A saved profile works: a login writes it only when the connections it is  *)
(* for are possible, and no later login of this or another home, late        *)
(* request, restart or change of mode spoils it.  In OIDC mode that holds    *)
(* for a profile of any namespace; an open-mode profile of a namespace the   *)
(* server does not authenticate from is saved without a check.               *)
ProfileLogsIn == \A h \in Homes : Promised(h) => CanConnect(h)

(* The inductive invariant behind both: every key in use, in flight or being *)
(* written is on a disk, and a handler works on what its login asked for.    *)
OnDisk(spec) ==
  \E h \in Homes, n \in Names : keyFile[h] \in Keys /\ spec = {Named(n, keyFile[h])}

KeysInv ==
  /\ \A h \in Homes : at[h] \notin {"idle", "named"} => signer[h] = keyFile[h]
  /\ \A q \in late : OnDisk({Named(q.request.name, q.key)})
  /\ \A g \in Handlers : pc[g] # "idle" => OnDisk(reg[g].spec)
  /\ \A p \in Places : file[p] # NoFile => OnDisk(file[p].spec)

Submitted(h) == {Named(request[h].name, signer[h])}

WorksFor(h, g) ==
  \/ /\ at[h] = "sent"
     /\ pc[g] \in {"writing", "renamed"}
     /\ place[g] = request[h].place
     /\ reg[g].spec = Submitted(h)
  \/ /\ at[h] = "exchanging"
     /\ pc[g] = "issuing"
     /\ place[g] = Authenticating(request[h].place.id)
     /\ reg[g].owner = request[h].subject

(* The registration of a login in the OIDC mode, once its exchange succeeded. *)
Verified(h) ==
  LET i == request[h].place.id IN
  /\ Readable(Authenticating(i), request[h].subject)
  /\ Authenticates(i, Named(request[h].name, signer[h]))

ProgressInv ==
  \A h \in Homes :
    /\ server[h] # NoHandler => WorksFor(h, server[h])
    /\ at[h] = "accepted" =>
         file[request[h].place] # NoFile /\ file[request[h].place].spec = Submitted(h)
    /\ at[h] = "verified" => Verified(h)

LoginInv == ClientTypeOK /\ KeysInv /\ ProgressInv /\ ProfileLogsIn

=============================================================================
