# TLA+ models of tearenv

tearenv lets developers reach Kubernetes workloads over SSH. The gateway
`tearenvd` authenticates an SSH connection, creates the developer's environment
from a blueprint, and for each service connection scales the workload up, dials
it and copies bytes. When nobody uses a workload it is scaled to zero. The
client `tearenv` listens on local ports and opens one SSH channel per local
connection. A small HTTP API stores public-key registrations and exchanges OIDC
tokens for SSH certificates.

This directory holds models of that behaviour, their TLC configurations and
proofs checked by TLAPS. `PROJECT.json` maps each definition to the source lines
it models and lists the components, runs, mutants, findings, hazards and
theorems.

## 1. Inventory

| Component | State | Operations | Talks to |
|---|---|---|---|
| Lifecycle engine (`internal/server/lifecycle.go`) | a runtime per workload or static service: mutex, connection count, `scaled`, idle timer | `Open`, `trackedConnection.Close`, `release`, timer callback, `Shutdown` | scaler, service target, SSH handlers, gauges |
| Environment provisioning (`internal/environment`, `internal/kube/blueprint.go`) | published services per identity; objects in the cluster | `Provision`, `Reconcile`, `Services`, `ResolveService` | called by the SSH login; writes the cluster |
| SSH session (`internal/server/server.go`, `service.go`, `authentication_expiry.go`, `enrollment.go`) | expiry of the login, expiry timer, one goroutine per channel | authentication, request and channel handlers, expiry | authenticators, provisioner, lifecycle engine |
| Stream proxy (`internal/proxy`, `internal/client/services.go`) | two copy loops per `Join`, half-closed streams | `Join`, `proxyWithContext`, `connectService` | SSH channel, local and target sockets |
| Registration (`internal/registration`, `internal/sshcert`, `api/v1alpha1`) | one file per identity, a mutex | `PutAs`, `GetAs`, `PublicKey`, `Authenticate`, token exchange, `Issue` | HTTP clients, SSH login |
| Credential file (`internal/authorization/credentials.go`) | one file, a cached copy, a mutex | `Enroll`, `CreateInvite`, `GrantService`, `AuthenticateInvite`, `AuthenticateToken`, reload | SSH enrolment, administrators' processes, grant policy |
| Process supervision (`cmd/tearenvd/main.go`) | a context, one runner per server | `serveListeners`, `serveHTTP`, `Server.Serve` | lifecycle `Shutdown`, signals |
| Kubernetes scaler (`internal/kube/scaler.go`) | none of its own; the scale object with its version | `Scale`: get, update, retry on conflict | called by the engine; other writers of the object |
| Authorized-key Secret (`internal/kube/authorized_keys.go`, `internal/authorization/public_keys.go`) | one Secret with its version | `UpsertAuthorizedKeySecret`, `UpsertPublicKey` | developers' processes, each with its own credentials |
| Client login and profile (`cmd/tearenv/main.go`, `internal/client`, `internal/profile`) | private key file, profile file | `login`: discovery, OIDC, key, registration, exchange, profile | registration API |
| Client services (`internal/client/services.go`) | listeners, local connections, the context | `RunServices`, `acceptService`, `connectService` | SSH connection, applications |
| Blueprint rendering, metrics, API authentication, providers, host key | see section 8 | | |

What is hard here:

- *Concurrency.* Every channel, timer callback and HTTP request is a goroutine.
  The engine holds one mutex per workload across a scaler call and a dial. A
  timer that has fired cannot be stopped any more.
- *Failure.* A Kubernetes call can report an error after it took effect, or take
  effect after it was abandoned. The gateway can die between any two steps; the
  cluster and the files survive it. A login can end anywhere and leave a request
  behind that is served while the next login runs.
- *Names that coincide or differ.* Two identities can get one namespace, because
  slugs collide; a registration can be stored in a namespace that the server
  never authenticates from.
- *Two writers of one field.* The blueprint and the engine both set a workload's
  replicas. Both get-change-update loops meet other writers and give up after a
  few conflicts.
- *Two ends of one connection.* Client and gateway each have goroutines per
  channel, and neither tells the other when it gives up.
- *Time.* Certificates expire under open connections, idle periods and shutdown
  have deadlines.
- *Half-closed streams.* Four copy loops must neither cut data nor wait for
  ever.

What makes each component correct:

- Engine: the count is exact, nothing is stopped in use by an answered call,
  nothing idle is forgotten, the gauges do not drift, every `Open` and
  `Shutdown` end unless a call without a deadline hangs.
- Environment: services become visible only when all objects were applied.
- Session: no service runs past the certificate, nothing leaks when the
  transport closes.
- Proxy: no truncated stream, and the connection is released in the end.
- Registration: an answered registration is kept and not replaced, in the
  server's own namespace it logs in; certificates go to its owner.
- Credentials: an invite works once, an answered token works, no grant is lost.
- Process: one failure ends the process, after the engine was shut down.
- Scaler: an answered call stays in effect although updates of earlier calls
  arrive after it, and every call returns.
- Authorized-key Secret: no upsert undoes another.
- Login: the private half of a registered key is never lost, and a profile that
  worked when it was saved keeps working.
- Client services: the gateway opens nothing that no client waits for, and after
  an interruption or a lost link nothing stays open on either machine.

## 2. Modules

| Module | Models |
|---|---|
| `ScaleToZero` | the abstract promise of the engine: start on demand, connect only to a running workload, stop only an unused one, while draining, or by a stop that was abandoned when nobody used it |
| `Lifecycle` | the engine, its timers, `Shutdown`, the scaler's answers, the gauges |
| `Environment` | concurrent logins that apply an environment's objects and publish its services |
| `Gateway` | `Lifecycle` and `Environment` over one cluster, with crashes of the process |
| `ConflictRetry` | the number of attempts of `retry.DefaultRetry`, shared by the next two |
| `Scaler` | one workload's scale in the Kubernetes API and the engine's calls on it |
| `AuthorizedKeys` | the Secret of authorized keys and its concurrent upserts |
| `KubeWrites` | `Scaler` and `AuthorizedKeys` side by side, for TLC and the proofs |
| `Session` | one SSH connection with an expiring login and its channels |
| `Tunnel` | `Session` with `tearenv connect` as its client |
| `Proxy` | one proxied connection: application, client `Join`, SSH channel, gateway `Join`, service |
| `Registration` | the registration store, its HTTP handlers, the token exchange |
| `Login` | `Registration` with `tearenv login` as the source of its requests |
| `Credentials` | the credential file, the gateway's sessions and administrators' commands |
| `Process` | runners and watchers of the tearenvd process |
| `MC*` | values of constants, symmetry sets and views for TLC |
| `*Proofs` | theorems about the module they extend; `GatewayProofs` holds those about `Environment` too, `TunnelProofs` those about `Session`, `LoginProofs` those about `Registration` |

**Steps.** An action is a stretch of code that no other goroutine can observe in
part: from a lock operation, a blocking call or an `await` to the next one. So
`Open` is `OpenResolve` (policy and `runtime()`), `OpenLock` (the mutex, the
timer's cancellation and the early return without scaler), `OpenScaleUp`,
`OpenDial` or `OpenDialFails`, and `OpenUndo`. `release` blocks nowhere once it
has the mutex and is one action. Where code checks something before a wait and
uses it afterwards, the model has two actions.

**Lifecycle.** `mu[k]` is the holder of `runtime.mu`, `active`, `scaled` and
`idleTimer` are the fields of a runtime, `timer[t]` the state of an `AfterFunc`
timer, `pc[h]` the place of an SSH handler. `up[w]` is the cluster's scale, zero
or not. `lastScale` records how the last scaler call of a workload ended; the
properties that failed calls may break refer to it. `Close` is called by `Join`
and by the context goroutine, in any order.

A `Scale` call that fails was not applied, was applied, or leaves its update on
its way: `late[w]` holds the directions of such updates, and `LateUpdate`
applies one at any later time, under whoever uses the workload then. A write
that changes the scale outdates them, because an update carries the version it
was computed from. So a downscale that timed out in the callback, with `scaled`
still true, can stop the workload under the next connection, which sent no
update of its own. `InUseMeansUp` therefore excepts a workload whose last call
failed, and `ScaleToZero` has it as `Abandon` and `LateStop`: such a stop takes
effect at most once, and not after the workload was stopped or started.

**Environment and Gateway.** Object 0 is the namespace. A failed Patch may have
been applied, may be lost, or joins `stray`, from where it can arrive at any
time; so may the Patches and scaler updates under way at a crash. A Patch has no
version, so nothing outdates it. `NamespaceOf` is any map from identities to
namespaces: `slugIdentity` does not rule out that two identities share one, and
then a login of either resets the workloads of both. `Gateway` adds that
applying the object of a workload sets its replicas to zero: `validateScale`
requires it to declare 0 and the Patch is forced. `StartedMeansComplete` speaks
of workloads that only the blueprint grants (`OnlyByBlueprint`):
`Manager.ResolveService` lets a direct grant through at any time, also one that
names a workload of the blueprint. `OthersLoginsAreHarmless` lists everything
that can take a workload in use down: a Patch for its object in its own
namespace, in flight or stray, and the late update of a downscale that nobody
saw answered.

**Scaler.** `call` is the place of the one `Scale` call that holds `runtime.mu`:
before the get, before the update, or with the update sent. The API server
accepts an update only with the object's current version and never reuses a
version, so instead of numbers the model keeps whether a version that somebody
has read is still `current`. A call that ends with an error after sending may
have been applied, may be lost, or may join `late`, the updates that can still
arrive. `MustScale` is the order of calls of `lifecycle.go`: up only what is not
scaled, down only what is. `Lifecycle` has a `Scale` call as one step that ends
with an answer, or in doubt with its update possibly still on its way;
`AnsweredScaleHolds` is what it assumes of an answered one. `Scaler` is one life
of the gateway; what a dead process leaves on its way is in `Gateway`.

**AuthorizedKeys.** The same for the Secret, with one caller per key, each in a
process of its own. A Create that comes second fails with AlreadyExists, which
is not a conflict and is not retried.

**Session.** A clock, the transport, the expiry recorded by authentication, the
timer and its `sync.Once`, one program counter per channel. The gateway's `Open`
is a step of unknown outcome that may end after the transport has closed.

**Tunnel.** `run` is the place of `RunServices`, `listening` its open listeners,
`local[c]` the goroutine of a local connection, and channel `c` of `Session` is
the one it asks for. `Return` stands for the deferred closes. The client learns
of a dead transport only where it uses it: in a Dial or inside a Join. What a
Join copies is left to `Proxy`. The client's Join may see the end of the channel
while the gateway still copies the other way (half-close), and it may return
before the gateway's does: neither side learns when the other's ends. What the
client does wait for is its Dial, and `OpensAreAwaited` is about that: on a live
transport the gateway never opens a target for a client that has gone.

**Proxy.** Hop `i` holds a number of chunks per direction, an end-of-stream mark
and the set of nodes that have closed it. Closing with unread data resets the
connection, which may discard data.

**Registration.** A registration is a set of keys and an owner, stored at a
place: the namespace that the request names, and the identity. `PutAs` accepts
any namespace. `Authenticating(i)` is the one place that logs identity `i` in:
the SSH login and the token exchange read `AuthenticationNamespace` only. `Put`
is the part of `PutAs` under the mutex up to the write, then `Rename` and
`Answer`. A `Restart` may change the authentication mode, which
`configureAuthentication` chooses from the options.

**Login.** Per home directory: the key file, the profile, and the place of the
login that runs there, with the namespace it was given. In OIDC mode the
exchange verifies the login against the server's own namespace. In open mode the
profile is saved once the PUT was answered, also for a namespace the server does
not authenticate from; `ProfileLogsIn` promises nothing of such a profile
(`Promised`). `SubmitUserRegistration` and `ExchangeSSHCertificate` let a
handler of `Registration` take the request, `server[h]` remembers which.
`GiveUp` is any early end, at any place; a request that was sent may stay in
`late` and be served afterwards. Discovery yields the server's mode or nothing,
and then the client goes on without OIDC. A home runs one login at a time. In
open mode the request is anonymous or carries the static token; neither has an
owner.

**Credentials.** `doc[p]` is what a process read and changed, `file` is replaced
by rename. Tokens and invites are drawn from a counter, so that no two are
equal.

**Process.** `WatcherCloses` is the goroutine of `serveHTTP` or `Serve` that
waits for the context. An HTTP `Serve` returns when `Shutdown` is called, not
when it ends.

## 3. Runs

| Run | Checks | Result |
|---|---|---|
| `lifecycle` | types, exact count and gauges, up while in use unless the last scaler call failed, no lost wakeup, agreement of `scaled` with the cluster, refinement of `ScaleToZero` | holds |
| `lifecycle_live` | idle workloads are reclaimed; `Open` returns and `Shutdown` ends unless a scale-up or a static dial hangs | holds |
| `lifecycle_stale_timer` | no callback of an earlier idle period stops a workload in the current one | violated |
| `gateway` | environment: types, visible means complete, accepted means visible; composition: started means complete, a workload in use goes down only by a Patch for its own namespace or an unanswered downscale | holds |
| `gateway_in_use` | a workload in use is up, also while its owner logs in again | violated |
| `session` | gateway: service is covered by the timer, ends after expiry, closed transports drain, used connections are closed at expiry; client over it: no target is opened that nobody waits for, everything is released after a cancellation, no application hangs on a dead link | holds |
| `proxy` | ends of stream are complete, release after connection loss, and after the service's close unless the application never closes | holds |
| `proxy_app_close` | release after the application's close | violated |
| `registration` | answers are kept, certificates match owners, registrations are immutable; logins over it, with two namespaces: the private half of a registered key is kept, saved profiles log in | holds |
| `credentials` | invites work once, answered tokens work, grants are kept | holds |
| `process` | exit only after the engine's shutdown, the process ends | holds |
| `kube_writes` | answered scales hold, answered upserts are kept, every `Scale` call returns | holds |

For every property of a passing run `PROJECT.json` names a mutant: a definition
of the model replaced by one with a plausible bug, written just before it, for
which TLC finds the property violated.

### Where the code and its documentation disagree

1. *Stale timer* (`lifecycle.go:193`). The callback checks `active` and
   `scaled`, not whether it is still the runtime's timer. A callback that waits
   for the mutex while a short connection comes and goes stops the workload at
   the beginning of the new idle period. `docs/overview.md:58`: "A new
   connection cancels the timer."
2. *Login under load* (`kube/blueprint.go:152`). A second login of the same
   identity forces the replicas of its workloads to 0 under open connections;
   the engine does not notice. `docs/environment-blueprints.md:104`: "returns to
   zero after the last connection has been idle".
3. *Half-close* (`lifecycle.go:258`). `trackedConnection` has no `CloseWrite`,
   so an application's close does not reach a service that keeps its side open,
   and the connection stays counted. `docs/overview.md:58`: "When the last
   connection closes, the idle timer begins."

Three more were met and have no run of their own:

- *Unused connections* (`authentication_expiry.go:51`). The expiry timer is
  armed by the first request or channel, so a connection that is never used is
  not closed. `docs/authentication.md:66`: "closes existing SSH connections when
  the certificate expires". `UsedConnectionsExpire` is what does hold.
- *Shutdown budget.* `docs/operator-guide.md:146` allows "up to 30 seconds for
  each scaler call" at shutdown, while `Serve` (`server.go:164`) gives one 30 s
  context to all of them. The model has the shared budget (`ShutdownExpires`).
- *Renamed host* (`cmd/tearenv/main.go:85`). The key is named after the host and
  the server compares whole registrations, so after a rename a login with the
  same key is refused with 409. `docs/developer-guide.md:51`: "Repeating login
  with the same key is idempotent". `ProfileLogsIn` shows that a profile saved
  before keeps working.

## 4. Bounds

- Lifecycle: three handlers, two aliases of one workload and a static service,
  two timers. Three handlers are a user, a connection that fails, and one that
  crosses with a callback; two timers allow a current one beside a stale
  callback. A timer is armed only if one is free, so the set bounds the
  callbacks that overlap, not how many there are in a run. Late updates need no
  bound: per workload they are a set of directions. The liveness run has two
  handlers, one workload and one timer.
- Gateway and Environment: one handler, one timer, two logins, three identities:
  two share a namespace and its one workload, the third has a namespace of its
  own and a static service granted directly. An environment is a namespace and
  two resources, the first of them the workload. Two logins are of one identity,
  of two in one namespace or in two, at different objects of the environment.
  One stray Patch (`MaxStray`) suffices to arrive after everything else; several
  would be a sequence of such arrivals. Contention inside the engine is covered
  by `lifecycle`; here the question is login against login and engine against
  login.
- Tunnel: two local connections and channels, two listeners, expiry at 2, the
  clock up to 3: before, at and after expiry, with two channels racing for the
  `sync.Once`, and one connection inside a Dial while another is copied.
  Deadlock checking is off: after `RunServices` has returned nothing is left to
  do.
- Proxy: one chunk per direction (`MaxChunks`) suffices to see data in flight at
  each hop when a stream ends. Deadlock checking is off because a finished
  connection stops. `proxy_app_close` needs no data.
- Login: two handlers, two homes, names, keys, subjects and namespaces, one
  identity, three logins in all (`MaxLogins`) and at most one late request
  (`MaxLate`): a writer, a conflicting writer or a late request of an ended
  login overlap, with hosts renamed in between. One identity suffices because
  files of different identities share only the mutex; the theorems cover any
  number.
- KubeWrites: replica counts 1 and 2, two keys, two attempts (`Steps`): a first
  and a last one.
- Credentials: two sessions, one administrator, two identities, four secrets
  (`MaxSecrets`): two invites and their tokens.
- Process: the SSH server with both HTTP servers. Deadlock checking is off: the
  process exits.

Symmetry is used for handlers, timers, logins, identities, homes, names, keys
and subjects, which the specifications only compare for equality, and in no run
with a liveness property. The `CHOOSE`n initial values of `key`, `timerKey`,
`place`, `reg`, `request` and `signer` belong to idle handlers, timers and
logins and are overwritten before they are read. The views hide these variables
where nothing reads them. In the gateway runs they also hide the gauges and the
map of runtimes, which no step there reads, and updates and Patches on their way
that can change nothing any more; in the registration run, profiles of which
nothing is promised.

## 5. Fairness

- Taking `runtime.mu` is strongly fair: a Go mutex hands itself to a waiter that
  has starved for a millisecond. Weak fairness would not do, since others take
  and free the mutex in between.
- Downscales (of the callback, of an undone dial and of `Shutdown`) and the dial
  of a managed service are weakly fair: each has a context with a deadline. The
  scale-up of an `Open` and the dial of a static service have none but the SSH
  connection's context, and nothing obliges them to end. A handler inside one is
  in an `EndlessCall`; `OpenReturns` holds for a runtime on which no such call
  lasts for ever, and `ShutdownEnds` if none does anywhere. `Serve` closes the
  SSH server, and with it those contexts, before it calls `Shutdown`.
- A request of a `Scale` call is answered or its context ends
  (`ScalerFairness`); for a scale-up that assumes that the API server answers or
  the developer leaves. Other writers may conflict with every attempt. An update
  on its way may arrive or not.
- Timers fire, the clock ticks, goroutines that can run do run. The gateway's
  `Open` is assumed to return only once the SSH connection, its context, has
  ended (`TunnelFairness`); that it then gets the runtime's mutex is
  `OpenReturns`.
- Nothing is assumed of clients: they need not open, close, read requests or
  disconnect, and nobody need interrupt `tearenv connect`. In `Tunnel` an
  application closes a connection whose end it has read, once the channel is
  over. In `Proxy` the application owes nothing: `ServiceCloseReleases` says
  that the connection is released or the application holds on for ever
  (`AppHoldsOn`). The service reads what arrives and closes when it sees the end
  of a stream. That it closes otherwise is not assumed, which is what item 3 of
  section 3 is about.
- In `Process`, `gateway.Shutdown` ends: `ShutdownEnds` shows it on the engine.

## 6. Proofs

All theorems hold for every value of the constants that satisfies the named
assumptions: the sets of actors and the markers (`Unlocked`, `NoTimer`,
`NoOwner`...) are distinct, handlers are finite in number, every grant has a
workload or none.

**LifecycleProofs.** `TypeCorrect` is a plain induction. `InUseMeansUp` is not
inductive: a callback inside its scaler call is about to stop the workload, and
only the mutex keeps new connections out; and an update on its way could turn it
later. `IInv` therefore adds `MutexInv` (whoever is in a blocking call holds the
mutex of its runtime) and `HolderInv` (what it checked after locking still
holds: nobody is connected while a callback or an undo scales down, `scaled` is
false while `Open` scales up and true while it dials) and `LateInv` (an update
on its way cannot undo an answered call: the engine changes direction only after
an answered call, which outdates what was on its way in the old one).
`EngineInvariant` proves it, `NeverDownInUse` is a conjunct of it.
`ActiveIsExact` follows the two steps that change a count, `OpenDial` and
`Release`, with the cardinality lemmas of `FiniteSetTheorems`. `NoLostWakeup`
adds to `IInv` that an idle workload has a callback, also while `Shutdown` runs
and after it: a timer is stopped only with the mutex taken, and a callback gives
up only when the workload is in use or stopped. `FlagTracksCluster` rests on
`LateInv`: an answered call changes `scaled` and the cluster together, the mutex
excludes a second call, and a late update does not disagree. `GaugesNeverDrift`
compares each gauge with the cardinality of the set that it reports, step by
step. `Refinement` maps `Users` and `up` to the abstract variables, and the
workloads with a downscale on its way to `abandoned`; a stop needs `IInv`, for
the count, and `ActiveExact`, to turn a count of zero into an empty set of
users.

**GatewayProofs.** For `Environment`, `EnvInv` adds to the types that a login
has applied all objects before its next one. Objects are never removed, so what
another login has published stays complete. `GatewayRefinesEnvironment` carries
this over to the composition. The engine's side does not carry over as a
refinement: a login may take a workload down in use, which no step of
`Lifecycle` does, and so `InUseMeansUp` fails here (`gateway_in_use`). What
survives is `LockInv`, the part of `IInv` without the cluster: types, `MutexInv`
and `HolderInv`. `NextLocks` shows that it is inductive alone, and logins and
crashes keep it. `StartedInCompleteEnvironments` needs in addition that an
`Open` on its way was resolved in a complete environment
(`OpeningMeansComplete`), since between the resolution and the scale-up the
login that published may be gone. `OthersAreHarmless`: a call of the engine
takes a workload down only with the count at zero under the mutex, a late update
only as a downscale, and a Patch, of a login or stray, only the workload of its
own namespace and object. It needs no assumption on the map from identities to
namespaces. `ActiveIsExactInGateway` and `NoLostWakeupInGateway` repeat the
engine's results with logins and crashes beside it; both rest on `LockInv` only.

**TunnelProofs.** For `Session`, `TimerInv` says in which states of the
transport the timer can be; with it every path to a service goes through
`Enforce`, which arms the timer. `TunnelRefinesSession`: every step of the
client is a step of `Session` or leaves its variables alone, so `ExpiryIsArmed`
carries over. `OpensHaveClients` rests on the client's Dial, which on a live
link returns only after the gateway has accepted or given up the channel.

**KubeWritesProofs.** `AnsweredScaleHolds` is not inductive: an update on its
way could turn the workload. `DirectionInv` says that while the engine believes
a workload stopped, a stop still on its way would change nothing, because the
workload is down; and the same for starts. So the answered call that turns the
direction changes the object, and its new version outdates what was on its way.
`QuietInv` says that after an answer nothing on its way disagrees. For the
Secret, `WritesExtend` says that every write that can still be accepted keeps
the keys that are stored.

**LoginProofs.** For `Registration`, `HandlerInv` says what a handler in the
middle of a request relies on: the mutex, that its pending write preserves the
file, and that what it read for a certificate is still stored. The last needs
`RegistrationsAreImmutable`: an owned registration never changes, so signing
after the read lock is safe. All of it is per place; that the exchange works on
the server's own namespace is a part of `HandlerInv`. `LoginRefinesRegistration`
carries these theorems over to logins. `KeysInv` says that every key that is
registered, being written or in a late request is on some disk: the client
stores a key before it submits it. `ProgressInv` ties the progress of a login to
what the server has stored, and immutability keeps it true while the login goes
on: after the PUT that is the place it named, after the exchange (`Verified`)
the server's own namespace, whichever it named.

**CredentialsProofs.** The theorems have the hypothesis `SingleWriter`, the rule
of the operator guide; without it an administrator's rename can bring back a
redeemed invite or drop a grant. None of the three properties is inductive.
`CredentialsInv` adds the mutex and the single writer (`WriterInv`); that a
document about to be renamed differs from the file only by the writer's own
change (`DocInv`), which is what a rename of a stale document would break; that
the cached tokens are the file's, except an identity's whose enrolment is stored
and not answered (`CopyInv`); and that an invite whose removal was renamed into
place is `Dead`, in no document, and every live one belongs to one identity
(`InviteInv`). An invite dies at the rename and is redeemed at the answer, which
is why `Dead` counts the sessions in between.

**ProxyProofs.** `EndOfStreamIsComplete` looks at the last hop only. `Conserved`
counts the chunks of a direction over all hops: never more than were sent, and
exactly as many while nothing is broken. `Ordered` follows the end of a stream
through the two copies: a copy is done only behind the end of a drained source,
a destination ends only behind its copy, and a `Join` closes only behind both.
So an end of stream at the last hop means that the two hops before it are empty,
and the count gives the rest.

**ProcessProofs.** `ExitInv` relates the results that were collected to the
runners that have returned; the SSH runner returns only after the engine's
`Shutdown`, and the process exits only with all results.

## 7. Model-checked only

Every invariant and every action property of the passing runs is proved. What is
left to TLC:

- All liveness properties (`IdleIsReclaimed`, `OpenReturns`, `ShutdownEnds`,
  `ExpiryEndsService`, `ClosedTransportDrains`, `UsedConnectionsExpire`,
  `CancelReleases`, `LostLinkClosesLocals`, `ServiceCloseReleases`,
  `ConnectionLossReleases`, `ProcessEnds`, `ScaleReturns`): the prover handles
  neither fairness nor `ENABLED`.
- The three properties of section 3 that the code violates.

## 8. Not modelled, and assumptions

- The delays between retries of a conflict, and all other durations. Which of
  two pending timers fires first is open.
- A workload's target answers only while its scale is above zero. Pods that
  still answer while they terminate are left out, and so are changes of the
  scale by anybody but tearenvd.
- Blueprint rendering and validation, signatures and token comparison are string
  processing and cryptography: a request is accepted or refused. The choice
  between authentication providers keeps no state.
- OIDC: `OIDCLogin` is one step that yields a subject or fails. Its browser and
  device exchanges are HTTP with the provider.
- Counters and histograms of the metrics only grow and no code reads them.
- A rename is durable and files that the gateway wrote can be read; a power
  failure that undoes a rename is left out.
- The host key, flag parsing, output and the wire types are sequential I/O or
  data definitions. Two logins at once in one home directory are left out: the
  command is interactive.
- `UpsertAuthorizedKeySecret` is a library operation: no command calls it.
- Hazards that were met and are not listed in `PROJECT.json`, because no state
  of the models tells them apart: aliases of one workload with different idle
  timeouts, where the last `Open` decides (`lifecycle.go:122`); a grant revoked
  while its `Open` waits (`lifecycle.go:109`); a first start that dies while it
  writes the host key in place (`hostkey.go:42`); a stray request that reaches
  the OIDC callback before the browser's (`client/oidc.go:159`).
- `Credentials` holds under the documented single-writer rule
  (`docs/operator-guide.md:267`), the constant `SingleWriter`.
- `Process` assumes that closing the SSH server ends `Serve` even if the context
  is cancelled before `Serve` has registered its listener; the SSH library
  decides that.

## 9. Plan

Done, in this order: engine and its abstract specification, engine proofs,
environment, gateway, session, proxy, registration, credentials, process, then
the scaler and the Secret, the client's login over the registration API, the
client's services over the SSH session, their proofs, the proofs of the engine's
gauges and of its flag, and those of the composition of engine and logins, of
the credential file, of the proxy and of the process.

Next:

1. Session over Lifecycle: the channels of several SSH connections as the
   handlers of the engine, so that expiry and disconnects drive `release`.
2. Proofs: the safety half of what the liveness runs show, such as which step is
   always possible for a `Shutdown` or an `Open` that has not returned.
3. Two logins at once in one home directory, whose key files replace each other
   (`internal/client/private_key.go:37`).
