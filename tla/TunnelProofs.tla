------------------------------ MODULE TunnelProofs ------------------------------
(* Proofs about Session, for any number of channels and any expiry, and      *)
(* about Tunnel, for any number of local connections and services.           *)
EXTENDS Tunnel, TLAPS

(* The initial state satisfies the inductive invariant.                      *)
LEMMA InitSession == Init => SessionInv
  BY TimeAssumption DEF Init, SessionInv, SessionTypeOK, TimerInv, ServiceIsCovered, Serving

(* The expiry check leaves a served connection with its timer pending, or    *)
(* closed.                                                                   *)
LEMMA EnforceCovers ==
  ASSUME SessionInv, link \in {"open", "closed"}, Enforce, UNCHANGED expiry
  PROVE  /\ link' \in {"open", "closed"}
         /\ timer' \in {"none", "pending", "fired", "stopped"}
         /\ timer' # "none" => expiry # NoExpiry
         /\ timer' \in {"fired", "stopped"} => link' = "closed"
         /\ link' = "open" => link = "open" /\ Unexpired
         /\ link' = "open" /\ expiry # NoExpiry => timer' = "pending"
  BY DEF SessionInv, SessionTypeOK, TimerInv, Enforce, Unexpired

(* Every step preserves the invariant.                                       *)
LEMMA NextSession == SessionInv /\ [Next]_vars => SessionInv'
<1> SUFFICES ASSUME SessionInv, [Next]_vars
             PROVE  SessionInv'
  OBVIOUS
<1> USE TimeAssumption DEF SessionInv, SessionTypeOK, TimerInv, ServiceIsCovered, Serving
<1>1. CASE Tick
  BY <1>1 DEF Tick
<1>2. ASSUME NEW e \in {ValidBefore, NoExpiry}, Authenticate(e)
      PROVE  SessionInv'
  BY <1>2 DEF Authenticate
<1>3. CASE Provision
  BY <1>3 DEF Provision
<1>4. CASE Request
  BY <1>4, EnforceCovers DEF Request
<1>5. ASSUME NEW c \in Channels, ChannelStep(c)
      PROVE  SessionInv'
  <2>1. CASE ChannelArrives(c)
    BY <1>5, <2>1 DEF ChannelArrives
  <2>2. CASE ChannelCheck(c)
    <3>1. link \in {"open", "closed"}
      BY <2>2 DEF ChannelCheck
    <3>2. QED
      BY <1>5, <2>2, <3>1, EnforceCovers DEF ChannelCheck
  <2>3. CASE ChannelOpen(c)
    <3>1. PICK s \in {"accepting", "idle"} : chan' = [chan EXCEPT ![c] = s]
      BY <2>3 DEF ChannelOpen
    <3>2. QED
      BY <1>5, <2>3, <3>1 DEF ChannelOpen
  <2>4. CASE ChannelAccept(c) \/ JoinReturns(c) \/ ContextCloses(c)
    BY <1>5, <2>4 DEF ChannelAccept, JoinReturns, ContextCloses
  <2>5. QED
    BY <1>5, <2>1, <2>2, <2>3, <2>4 DEF ChannelStep
<1>6. CASE TimerFires \/ TimerStops \/ Disconnect
  BY <1>6 DEF TimerFires, TimerStops, Disconnect
<1>7. CASE UNCHANGED vars
  BY <1>7 DEF vars
<1>8. QED
  BY <1>1, <1>2, <1>3, <1>4, <1>5, <1>6, <1>7 DEF Next

(* Whatever the interleaving, work for a service on an open connection with  *)
(* an expiring login has its expiry timer pending.                           *)
THEOREM ExpiryIsArmed == Spec => []ServiceIsCovered
<1>1. SessionInv => ServiceIsCovered
  BY DEF SessionInv
<1>2. QED
  BY <1>1, InitSession, NextSession, PTL DEF Spec

-----------------------------------------------------------------------------
(* Closing the connection is a step of the session or no step.               *)
LEMMA CloseIsDisconnect == CloseConnection => Disconnect \/ UNCHANGED vars
  BY DEF CloseConnection

(* Every step of the composition is a step of the session or leaves it alone. *)
LEMMA TunnelStepRefines == [TunnelNext]_tunnelVars => [Next]_vars
<1> SUFFICES ASSUME [TunnelNext]_tunnelVars
             PROVE  [Next]_vars
  OBVIOUS
<1>1. CASE SessionStep
  BY <1>1 DEF SessionStep, Next
<1>2. CASE Cancel \/ AcceptFails
  BY <1>2 DEF Cancel, AcceptFails
<1>3. CASE RunStep
  <2>1. CloseConnection => [Next]_vars
    BY CloseIsDisconnect DEF Next
  <2>2. QED
    BY <1>3, <2>1 DEF RunStep, Dialled, DialFails, Listen, ListenFails, StartServing, Finish,
       WatcherCloses, Return
<1>4. ASSUME NEW c \in Channels,
             Accept(c) \/ Ask(c) \/ ServerAccepts(c) \/ ServerStep(c) \/ AppLeaves(c) \/ ConnectionStep(c)
      PROVE  [Next]_vars
  BY <1>4 DEF Accept, Ask, ServerAccepts, ServerStep, AppLeaves, ConnectionStep, DialError, RemoteEnds,
     JoinEnds, CtxCloses, Next, ChannelStep
<1>5. CASE UNCHANGED tunnelVars
  BY <1>5 DEF tunnelVars
<1>6. QED
  BY <1>1, <1>2, <1>3, <1>4, <1>5 DEF TunnelNext

-----------------------------------------------------------------------------
(* The inductive invariant: OpensAreAwaited with the session's invariant,    *)
(* which says that channels exist only after the login.                      *)
TunnelInv ==
  /\ SessionInv
  /\ local \in [Channels -> {"none", "accepted", "asked", "joined", "ended", "left"}]
  /\ OpensAreAwaited

(* It holds at first: there is no channel.                                   *)
LEMMA TunnelInitInv == TunnelInit => TunnelInv
  BY InitSession DEF TunnelInit, TunnelInv, OpensAreAwaited, Init

(* A transport opens only when no channel is in use.                         *)
LEMMA OpensEmpty ==
  ASSUME SessionInv, [Next]_vars, link' = "open", link # "open"
  PROVE  \A c \in Channels : chan[c] = "idle" /\ chan'[c] = "idle"
<1>1. Provision
  BY DEF Next, Tick, Authenticate, Request, Enforce, ChannelStep, ChannelArrives, ChannelCheck,
     ChannelOpen, ChannelAccept, JoinReturns, ContextCloses, TimerFires, TimerStops, Disconnect, vars
<1>2. QED
  BY <1>1 DEF Provision, SessionInv, TimerInv

(* Every step preserves it.                                                  *)
LEMMA TunnelStep == TunnelInv /\ [TunnelNext]_tunnelVars => TunnelInv'
<1> SUFFICES ASSUME TunnelInv, [TunnelNext]_tunnelVars
             PROVE  TunnelInv'
  OBVIOUS
<1> DEFINE LocalType == local \in [Channels -> {"none", "accepted", "asked", "joined", "ended", "left"}]
<1>1. [Next]_vars /\ SessionInv /\ LocalType /\ OpensAreAwaited
  BY TunnelStepRefines DEF TunnelInv
<1>2. SessionInv'
  BY <1>1, NextSession
<1>3. chan \in [Channels -> {"idle", "checking", "opening", "accepting", "proxying"}]
  BY <1>1 DEF SessionInv, SessionTypeOK
<1>4. ASSUME UNCHANGED <<local, chan>>
      PROVE  LocalType' /\ OpensAreAwaited'
  <2>1. CASE link' = "open" /\ link # "open"
    BY <1>1, <1>4, <2>1, OpensEmpty DEF OpensAreAwaited
  <2>2. CASE link' = "open" => link = "open"
    BY <1>1, <1>4, <2>2 DEF OpensAreAwaited
  <2>3. QED
    BY <2>1, <2>2
<1>5. CASE SessionStep \/ Cancel \/ AcceptFails \/ RunStep \/ UNCHANGED tunnelVars
  <2>1. CloseConnection => UNCHANGED chan
    BY DEF CloseConnection, Disconnect, vars
  <2>2. UNCHANGED <<local, chan>>
    BY <1>5, <2>1
    DEF SessionStep, Tick, Authenticate, Provision, Request, TimerFires, TimerStops, Disconnect, Cancel,
        AcceptFails, RunStep, Dialled, DialFails, Listen, ListenFails, StartServing, Finish, WatcherCloses,
        Return, clientVars, tunnelVars, vars
  <2>3. QED
    BY <1>2, <1>4, <2>2 DEF TunnelInv
<1>6. ASSUME NEW c \in Channels,
             Accept(c) \/ Ask(c) \/ ServerAccepts(c) \/ ServerStep(c) \/ AppLeaves(c) \/ ConnectionStep(c)
      PROVE  LocalType' /\ OpensAreAwaited'
  <2> USE DEF OpensAreAwaited, Becomes
  <2>1. CASE Accept(c)
    BY <1>1, <2>1 DEF Accept, vars
  <2>2. CASE Ask(c)
    BY <1>1, <1>3, <2>2 DEF Ask, ChannelArrives
  <2>3. CASE ServerAccepts(c)
    BY <1>1, <1>3, <2>3 DEF ServerAccepts, ChannelAccept, clientVars
  <2>4. CASE ServerStep(c)
    <3>1. /\ UNCHANGED local
          /\ chan'[c] \in {"checking", "opening", "accepting"} => chan[c] \in {"checking", "opening"}
          /\ \A d \in Channels \ {c} : chan'[d] = chan[d]
          /\ link' = "open" => link = "open"
      BY <1>3, <2>4 DEF ServerStep, ChannelCheck, Enforce, ChannelOpen, JoinReturns, ContextCloses, clientVars
    <3>2. QED
      BY <1>1, <3>1
  <2>5. CASE AppLeaves(c)
    BY <1>1, <2>5 DEF AppLeaves, vars
  <2>6. CASE DialError(c)
    BY <1>1, <2>6 DEF DialError, vars
  <2>7. CASE RemoteEnds(c)
    BY <1>1, <2>7 DEF RemoteEnds, vars
  <2>8. CASE JoinEnds(c)
    BY <1>1, <2>8 DEF JoinEnds, vars
  <2>9. CASE CtxCloses(c)
    BY <1>1, <2>9 DEF CtxCloses, vars
  <2>10. QED
    BY <1>6, <2>1, <2>2, <2>3, <2>4, <2>5, <2>6, <2>7, <2>8, <2>9 DEF ConnectionStep
<1>7. QED
  BY <1>2, <1>5, <1>6 DEF TunnelNext, TunnelInv

(* A client and its session are a session: what is proved of the gateway's   *)
(* side holds under tearenv connect.                                         *)
THEOREM TunnelRefinesSession == TunnelSpec => Spec
<1>1. TunnelInit => Init
  BY DEF TunnelInit
<1>2. QED
  BY <1>1, TunnelStepRefines, PTL DEF TunnelSpec, Spec

(* The gateway opens nothing for a client goroutine that is gone: until the  *)
(* channel is accepted, or the transport lost, somebody waits for it.        *)
THEOREM OpensHaveClients == TunnelSpec => []OpensAreAwaited
<1>1. TunnelInv => OpensAreAwaited
  BY DEF TunnelInv
<1>2. QED
  BY <1>1, TunnelInitInv, TunnelStep, PTL DEF TunnelSpec

=============================================================================
