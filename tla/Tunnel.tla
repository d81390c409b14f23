--------------------------------- MODULE Tunnel ---------------------------------
(***************************************************************************)
(* `tearenv connect` (internal/client/services.go) over the SSH connection  *)
(* of Session: listeners, one accept loop each, a goroutine per local       *)
(* connection, and the two goroutines that end it all, RunServices itself   *)
(* and its watcher of the context.                                          *)
(*                                                                          *)
(* Every channel of the connection now belongs to a local connection.  The  *)
(* client notices a dead transport only where it uses it.  What a Join      *)
(* copies is the business of Proxy.  Here the client's Join and the         *)
(* gateway's Join of one channel end independently of each other, because   *)
(* each side of a connection can be closed before the other: either may be  *)
(* over while the other still copies.                                       *)
(***************************************************************************)
EXTENDS Session

CONSTANT Services     (* services asked for, each with a listener           *)

VARIABLES
  ctx,            (* the context of RunServices: "live" or "cancelled"      *)
  run,            (* RunServices: "dialing", "binding", "serving" or        *)
                  (* "returned"                                             *)
  listening,      (* services whose listener is open                        *)
  failed,         (* an accept loop has reported an error on errCh          *)
  local           (* connectService: "none", "accepted", "asked" (inside    *)
                  (* Dial), "joined", "ended" (end of stream from the       *)
                  (* channel) or "left" (end of stream from the application) *)

clientVars == <<ctx, run, listening, failed, local>>
tunnelVars == <<vars, clientVars>>

TunnelTypeOK ==
  /\ SessionTypeOK
  /\ ctx \in {"live", "cancelled"}
  /\ run \in {"dialing", "binding", "serving", "returned"}
  /\ listening \subseteq Services
  /\ failed \in BOOLEAN
  /\ local \in [Channels -> {"none", "accepted", "asked", "joined", "ended", "left"}]

(* RunServices logs in as a user, never with an enrolment name.              *)
TunnelInit ==
  /\ Init
  /\ kind = "user"
  /\ ctx = "live"
  /\ run = "dialing"
  /\ listening = {}
  /\ failed = FALSE
  /\ local = [c \in Channels |-> "none"]

-----------------------------------------------------------------------------
(* The process is interrupted.                                               *)
Cancel ==
  /\ ctx = "live"
  /\ ctx' = "cancelled"
  /\ UNCHANGED <<vars, run, listening, failed, local>>

(* connection.Close, also of a connection that is closed already.            *)
CloseConnection == IF link = "closed" THEN UNCHANGED vars ELSE Disconnect

(* RunServices returns; its deferred calls close what is open.               *)
Return ==
  /\ run' = "returned"
  /\ listening' = {}
  /\ CloseConnection
  /\ UNCHANGED <<ctx, failed, local>>

(* dialSSH: the handshake succeeds, or it fails, at the latest when the      *)
(* deadline that it sets on the transport passes.                            *)
Dialled ==
  /\ run = "dialing"
  /\ link = "open"
  /\ run' = "binding"
  /\ UNCHANGED <<vars, ctx, listening, failed, local>>

DialFails == run = "dialing" /\ link # "open" /\ Return

Listen(s) ==
  /\ run = "binding"
  /\ s \notin listening
  /\ listening' = listening \cup {s}
  /\ UNCHANGED <<vars, ctx, run, failed, local>>

(* An address is in use.                                                     *)
ListenFails == run = "binding" /\ listening # Services /\ Return

StartServing ==
  /\ run = "binding"
  /\ listening = Services
  /\ run' = "serving"
  /\ UNCHANGED <<vars, ctx, listening, failed, local>>

(* Mutant: the connection is not closed on return.                           *)
FinishByListeners ==
  /\ run = "serving"
  /\ ctx = "cancelled" \/ failed
  /\ run' = "returned"
  /\ listening' = {}
  /\ UNCHANGED <<vars, ctx, failed, local>>

(* The select at the end, and the watcher, which may come first.             *)
Finish == run = "serving" /\ (ctx = "cancelled" \/ failed) /\ Return

WatcherCloses ==
  /\ run = "serving"
  /\ ctx = "cancelled"
  /\ listening # {} \/ link # "closed"
  /\ listening' = {}
  /\ CloseConnection
  /\ UNCHANGED <<ctx, run, failed, local>>

-----------------------------------------------------------------------------
(* acceptService: an accept loop gets a connection or an error.  A new       *)
(* connection gets a channel of its own.                                     *)

Accept(c) ==
  /\ run = "serving"
  /\ listening # {}
  /\ local[c] = "none"
  /\ chan[c] = "idle"
  /\ local' = [local EXCEPT ![c] = "accepted"]
  /\ UNCHANGED <<vars, ctx, run, listening, failed>>

(* The error of a cancelled context is not reported.                         *)
AcceptFails ==
  /\ run = "serving"
  /\ listening # {}
  /\ ctx = "live"
  /\ ~failed
  /\ failed' = TRUE
  /\ UNCHANGED <<vars, ctx, run, listening, local>>

Becomes(c, state) ==
  /\ local' = [local EXCEPT ![c] = state]
  /\ UNCHANGED <<ctx, run, listening, failed>>

(* connectService: Dial asks for a channel.                                  *)
Ask(c) == local[c] = "accepted" /\ ChannelArrives(c) /\ Becomes(c, "asked")

(* Mutant: the local connection of a failed Dial is not closed.              *)
DialErrorLeaks(c) ==
  /\ \/ local[c] = "asked" /\ chan[c] = "idle"
     \/ local[c] \in {"accepted", "asked"} /\ link = "closed"
  /\ UNCHANGED tunnelVars

(* Mutant: the client does not wait for the server's answer.                 *)
DialErrorEarly(c) ==
  /\ local[c] \in {"accepted", "asked"}
  /\ Becomes(c, "none")
  /\ UNCHANGED vars

(* Dial fails: the server has refused the channel, or the transport is dead. *)
DialError(c) ==
  /\ \/ local[c] = "asked" /\ chan[c] = "idle"
     \/ local[c] \in {"accepted", "asked"} /\ link = "closed"
  /\ Becomes(c, "none")
  /\ UNCHANGED vars

(* The server's goroutine of the channel.  Its Accept completes the Dial.    *)
ServerAccepts(c) ==
  /\ ChannelAccept(c)
  /\ IF chan'[c] = "proxying" /\ local[c] = "asked"
       THEN Becomes(c, "joined")
       ELSE UNCHANGED clientVars

ServerStep(c) ==
  /\ ChannelCheck(c) \/ ChannelOpen(c) \/ JoinReturns(c) \/ ContextCloses(c)
  /\ UNCHANGED clientVars

(* connectService's Join.  The channel's end of stream is passed on to the   *)
(* application: the gateway's goroutine is gone, or only the service has     *)
(* closed and the gateway still copies the other way.                        *)
RemoteEnds(c) == local[c] = "joined" /\ Becomes(c, "ended") /\ UNCHANGED vars

AppLeaves(c) == local[c] = "joined" /\ Becomes(c, "left") /\ UNCHANGED vars

(* Join returns: the second stream ends too, or what the service still sends *)
(* cannot be written to an application that has gone.  Nobody asks whether   *)
(* the gateway's Join has returned.                                          *)
JoinEnds(c) ==
  /\ local[c] \in {"ended", "left"}
  /\ Becomes(c, "none")
  /\ UNCHANGED vars

(* The watcher of the local connection closes both sides.                    *)
CtxCloses(c) ==
  /\ ctx = "cancelled"
  /\ local[c] \in {"joined", "ended", "left"}
  /\ Becomes(c, "none")
  /\ UNCHANGED vars

-----------------------------------------------------------------------------
(* Steps of the server and of the network that do not concern one channel.   *)
SessionStep ==
  /\ \/ Tick
     \/ \E e \in {ValidBefore, NoExpiry} : Authenticate(e)
     \/ Provision
     \/ Request
     \/ TimerFires
     \/ TimerStops
     \/ Disconnect
  /\ UNCHANGED clientVars

RunStep ==
  \/ Dialled
  \/ DialFails
  \/ \E s \in Services : Listen(s)
  \/ ListenFails
  \/ StartServing
  \/ Finish
  \/ WatcherCloses

ConnectionStep(c) == DialError(c) \/ RemoteEnds(c) \/ JoinEnds(c) \/ CtxCloses(c)

TunnelNext ==
  \/ SessionStep
  \/ Cancel
  \/ RunStep
  \/ AcceptFails
  \/ \E c \in Channels :
       \/ Accept(c)
       \/ Ask(c)
       \/ ServerAccepts(c)
       \/ ServerStep(c)
       \/ AppLeaves(c)
       \/ ConnectionStep(c)

TunnelSpec == TunnelInit /\ [][TunnelNext]_tunnelVars

(* The channel is over for the client: nothing more comes out of it.         *)
ChannelEnded(c) == chan[c] = "idle" \/ link = "closed"

(* Time passes, timers fire, goroutines run, and an application closes a     *)
(* connection whose end it has read once the channel is over.  gateway.Open  *)
(* has no deadline of its own while it scales up or dials a static service;  *)
(* it is only assumed to return once its context, the SSH connection's, is   *)
(* cancelled.  Nobody need interrupt the client, neither applications nor    *)
(* services need close, and no Join need end while both do not.              *)
TunnelFairness ==
  /\ WF_tunnelVars(Tick /\ UNCHANGED clientVars)
  /\ WF_tunnelVars(TimerFires /\ UNCHANGED clientVars)
  /\ WF_tunnelVars(RunStep)
  /\ \A c \in Channels :
       /\ WF_tunnelVars(ServerAccepts(c))
       /\ WF_tunnelVars((ChannelCheck(c) \/ ContextCloses(c)) /\ UNCHANGED clientVars)
       /\ WF_tunnelVars(link = "closed" /\ ChannelOpen(c) /\ UNCHANGED clientVars)
       /\ WF_tunnelVars(\/ DialError(c)
                        \/ ChannelEnded(c) /\ (RemoteEnds(c) \/ JoinEnds(c))
                        \/ CtxCloses(c))

TunnelFairSpec == TunnelSpec /\ TunnelFairness

-----------------------------------------------------------------------------
(* The gateway starts no workload for a connection that is gone: as long as  *)
(* the transport lives, a channel that is being checked, opened or accepted  *)
(* has a connectService goroutine that waits for it, whatever else is        *)
(* cancelled, fails or ends meanwhile.  After that there is no such promise: *)
(* either Join may outlive the other.                                        *)
OpensAreAwaited ==
  \A c \in Channels :
    link = "open" /\ chan[c] \in {"checking", "opening", "accepting"} => local[c] = "asked"

(* "Ctrl+C or SIGTERM closes its SSH connection and all local listeners      *)
(* cleanly", whatever RunServices and its goroutines are doing: afterwards   *)
(* nothing listens, no local connection is open and the gateway holds no     *)
(* target for this client.                                                   *)
CancelReleases ==
  ctx = "cancelled" ~>
    [](/\ run = "returned" /\ listening = {}
       /\ \A c \in Channels : local[c] = "none" /\ chan[c] = "idle")

(* RunServices does not watch its SSH connection.  Still no application      *)
(* hangs on a dead one: its connection is closed, whether it was being       *)
(* dialled or copied when the transport died, or was accepted afterwards.    *)
LostLinkClosesLocals ==
  \A c \in Channels : link = "closed" /\ local[c] # "none" ~> local[c] = "none"

(* The gateway's timer reaches the developer's machine: a connection that    *)
(* has been used under an expiring certificate is closed.                    *)
UsedConnectionsExpire == timer = "pending" ~> link = "closed"

=============================================================================
