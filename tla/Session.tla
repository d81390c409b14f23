-------------------------------- MODULE Session --------------------------------
(***************************************************************************)
(* One SSH connection to tearenvd (internal/server/server.go, service.go,   *)
(* authentication_expiry.go, enrollment.go): login, the expiry of a         *)
(* certificate login, and the goroutines that serve its channels.           *)
(*                                                                          *)
(* Each channel has its own goroutine.  What it learned from the expiry     *)
(* check is used after gateway.Open, which can take minutes, so the         *)
(* transport may close at any point in between.  Closing the transport      *)
(* cancels the connection's context; goroutines notice that later, each in  *)
(* its own step.  The service gateway is abstracted to its answer: a target *)
(* connection that must be closed, or an error.                             *)
(***************************************************************************)
EXTENDS Integers

CONSTANTS
  Channels,       (* goroutines for direct-tcpip channels                   *)
  ValidBefore,    (* when the certificate of a certificate login expires    *)
  NoExpiry,       (* Result.ValidBefore is zero: a plain key or a token     *)
  MaxTime         (* bound on the clock                                     *)

ASSUME TimeAssumption ==
  /\ ValidBefore \in Nat /\ MaxTime \in Nat
  /\ ValidBefore <= MaxTime
  /\ NoExpiry \notin Nat

VARIABLES
  now,            (* the clock                                              *)
  link,           (* the SSH transport: "handshake", "provisioning",        *)
                  (* "open" or "closed"                                     *)
  kind,           (* "user" or "enrollment": the login name says which      *)
  attempt,        (* Result.ValidBefore of the attempt being provisioned    *)
  expiry,         (* authenticationExpiry.validBefore, or NoExpiry          *)
  timer,          (* the expiry timer: "none" (once not done), "pending",   *)
                  (* "fired" or "stopped"                                   *)
  chan            (* "idle", "checking", "opening" (inside gateway.Open),   *)
                  (* "accepting" (target dialled) or "proxying"             *)

vars == <<now, link, kind, attempt, expiry, timer, chan>>

(* Goroutines that hold a target connection, and those past the expiry check. *)
Holding == {c \in Channels : chan[c] \in {"accepting", "proxying"}}
Serving == {c \in Channels : chan[c] \in {"opening", "accepting", "proxying"}}

SessionTypeOK ==
  /\ now \in 0..MaxTime
  /\ link \in {"handshake", "provisioning", "open", "closed"}
  /\ kind \in {"user", "enrollment"}
  /\ attempt \in {ValidBefore, NoExpiry}
  /\ expiry \in {ValidBefore, NoExpiry}
  /\ timer \in {"none", "pending", "fired", "stopped"}
  /\ chan \in [Channels -> {"idle", "checking", "opening", "accepting", "proxying"}]

Init ==
  /\ now = 0
  /\ link = "handshake"
  /\ kind \in {"user", "enrollment"}
  /\ attempt = NoExpiry
  /\ expiry = NoExpiry
  /\ timer = "none"
  /\ chan = [c \in Channels |-> "idle"]

Tick ==
  /\ now < MaxTime
  /\ now' = now + 1
  /\ UNCHANGED <<link, kind, attempt, expiry, timer, chan>>

-----------------------------------------------------------------------------
(* Login.  A rejected attempt changes nothing.                               *)

(* Only a certificate has an expiry, and it is accepted only before that.    *)
Acceptable(e) == e # NoExpiry => kind = "user" /\ now < e

(* The provider accepted the credential, or AuthenticateInvite the invite;   *)
(* the environment is being provisioned.                                     *)
Authenticate(e) ==
  /\ link = "handshake"
  /\ Acceptable(e)
  /\ link' = "provisioning"
  /\ attempt' = e
  /\ UNCHANGED <<now, kind, expiry, timer, chan>>

(* Provisioning may outlast the certificate that was checked before it.  A   *)
(* public key is first offered without a signature: the handler has run and  *)
(* has set the expiry when the client goes on to another key, and a later    *)
(* success without an expiry does not clear it.                              *)
Provision ==
  /\ link = "provisioning"
  /\ \/ /\ link' \in {"open", "handshake"}
        /\ expiry' = IF attempt # NoExpiry THEN attempt ELSE expiry
     \/ link' = "handshake" /\ UNCHANGED expiry
  /\ attempt' = NoExpiry
  /\ UNCHANGED <<now, kind, timer, chan>>

-----------------------------------------------------------------------------
(* enforceAuthenticationExpiry: its verdict, and what it does to the          *)
(* transport and to the timer that the first valid call starts.              *)

Unexpired == expiry # NoExpiry => now < expiry

(* Mutant: the timer is not started.                                         *)
EnforceWithoutTimer ==
  /\ link' = IF Unexpired THEN link ELSE "closed"
  /\ UNCHANGED timer

Enforce ==
  /\ link' = IF Unexpired THEN link ELSE "closed"
  /\ timer' = IF expiry # NoExpiry /\ Unexpired /\ timer = "none" THEN "pending" ELSE timer

(* A catalog or an enrolment request: nothing but the check concerns us.     *)
Request ==
  /\ link = "open"
  /\ Enforce
  /\ UNCHANGED <<now, kind, attempt, expiry, chan>>

(* The client asks for a channel; its goroutine starts.                      *)
ChannelArrives(c) ==
  /\ link = "open"
  /\ chan[c] = "idle"
  /\ chan' = [chan EXCEPT ![c] = "checking"]
  /\ UNCHANGED <<now, link, kind, attempt, expiry, timer>>

(* expiringChannelHandler, then the refusal of enrolment connections.        *)
ChannelCheck(c) ==
  /\ chan[c] = "checking"
  /\ Enforce
  /\ chan' = [chan EXCEPT ![c] = IF Unexpired /\ kind = "user" THEN "opening" ELSE "idle"]
  /\ UNCHANGED <<now, kind, attempt, expiry>>

(* gateway.Open returns a target or an error.  A cancelled context does not  *)
(* keep it from returning a target.                                          *)
ChannelOpen(c) ==
  /\ chan[c] = "opening"
  /\ chan' \in {[chan EXCEPT ![c] = s] : s \in {"accepting", "idle"}}
  /\ UNCHANGED <<now, link, kind, attempt, expiry, timer>>

(* Mutant: a failed Accept returns without closing the target.               *)
ChannelAcceptLeaks(c) ==
  /\ chan[c] = "accepting"
  /\ chan' = [chan EXCEPT ![c] = IF link = "open" THEN "proxying" ELSE @]
  /\ UNCHANGED <<now, link, kind, attempt, expiry, timer>>

(* newChannel.Accept fails on a closed transport; the target is then closed. *)
ChannelAccept(c) ==
  /\ chan[c] = "accepting"
  /\ chan' = [chan EXCEPT ![c] = IF link = "open" THEN "proxying" ELSE "idle"]
  /\ UNCHANGED <<now, link, kind, attempt, expiry, timer>>

(* proxy.Join returns: both streams ended.                                   *)
JoinReturns(c) ==
  /\ chan[c] = "proxying"
  /\ chan' = [chan EXCEPT ![c] = "idle"]
  /\ UNCHANGED <<now, link, kind, attempt, expiry, timer>>

(* Mutant: the watcher closes the channel and not the target.                *)
ContextClosesChannelOnly(c) ==
  /\ chan[c] = "proxying"
  /\ link = "closed"
  /\ UNCHANGED vars

(* proxyWithContext's watcher closes channel and target when the context is  *)
(* cancelled, which ends both copies of Join.                                *)
ContextCloses(c) ==
  /\ chan[c] = "proxying"
  /\ link = "closed"
  /\ chan' = [chan EXCEPT ![c] = "idle"]
  /\ UNCHANGED <<now, link, kind, attempt, expiry, timer>>

-----------------------------------------------------------------------------
(* Mutant: the timer's function does not close the connection.               *)
TimerFiresInVain ==
  /\ timer = "pending"
  /\ now >= expiry
  /\ UNCHANGED vars

TimerFires ==
  /\ timer = "pending"
  /\ now >= expiry
  /\ timer' = "fired"
  /\ link' = "closed"
  /\ UNCHANGED <<now, kind, attempt, expiry, chan>>

(* The goroutine that waits for the context stops the timer.                 *)
TimerStops ==
  /\ timer = "pending"
  /\ link = "closed"
  /\ timer' = "stopped"
  /\ UNCHANGED <<now, link, kind, attempt, expiry, chan>>

(* The client leaves, the network fails, or Serve closes the SSH server.     *)
Disconnect ==
  /\ link # "closed"
  /\ link' = "closed"
  /\ UNCHANGED <<now, kind, attempt, expiry, timer, chan>>

ChannelStep(c) ==
  \/ ChannelArrives(c)
  \/ ChannelCheck(c)
  \/ ChannelOpen(c)
  \/ ChannelAccept(c)
  \/ JoinReturns(c)
  \/ ContextCloses(c)

Next ==
  \/ Tick
  \/ \E e \in {ValidBefore, NoExpiry} : Authenticate(e)
  \/ Provision
  \/ Request
  \/ \E c \in Channels : ChannelStep(c)
  \/ TimerFires
  \/ TimerStops
  \/ Disconnect

Spec == Init /\ [][Next]_vars

-----------------------------------------------------------------------------
(* On an open transport whose login expires, a goroutine that works for a    *)
(* service is covered by a pending expiry timer, whichever request or        *)
(* channel came first and however many raced for the sync.Once.              *)
ServiceIsCovered ==
  link = "open" /\ expiry # NoExpiry /\ Serving # {} => timer = "pending"

(* No service outlives the certificate: a target connection opened under an  *)
(* expiring login is closed in the end, even when gateway.Open returned      *)
(* after the expiry and the application never closes.                        *)
ExpiryEndsService ==
  \A c \in Channels : c \in Holding /\ expiry # NoExpiry ~> c \notin Holding

(* Nothing leaks: once the transport is closed every channel goroutine ends, *)
(* so every target connection is given back to the lifecycle engine.         *)
ClosedTransportDrains == link = "closed" ~> \A c \in Channels : chan[c] = "idle"

(* The inductive invariant behind ServiceIsCovered.                          *)
TimerInv ==
  /\ timer # "none" => expiry # NoExpiry /\ link \in {"open", "closed"}
  /\ timer \in {"fired", "stopped"} => link = "closed"
  /\ \A c \in Channels : chan[c] # "idle" => link \in {"open", "closed"}

SessionInv == SessionTypeOK /\ TimerInv /\ ServiceIsCovered

=============================================================================
