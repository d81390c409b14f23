--------------------------------- MODULE Proxy ---------------------------------
(***************************************************************************)
(* One service connection end to end: the developer's application, the      *)
(* tearenv client, the gateway and the service, joined by three duplex      *)
(* hops (a local TCP connection, an SSH channel, a TCP connection).  Both   *)
(* the client (internal/client/services.go) and the gateway                 *)
(* (internal/server/service.go) run internal/proxy.Join: one copying        *)
(* goroutine per direction, half-closes, and Close once both have ended.    *)
(*                                                                          *)
(* Node n reads direction "up" from hop n and writes it to hop n + 1; for   *)
(* "down" it is the other way round.  Only the amount and the end of a      *)
(* stream matter, so a hop holds a number of chunks per direction.          *)
(***************************************************************************)
EXTENDS Integers

CONSTANT MaxChunks   (* chunks that the application and the service each send *)

ASSUME ChunkAssumption == MaxChunks \in Nat

App     == 0
Client  == 1
Gateway == 2
Service == 3
Hops    == 1..3
Joins   == {Client, Gateway}
Dirs    == {"up", "down"}

VARIABLES
  data,        (* data[i][d]: chunks in hop i, direction d                   *)
  fin,         (* fin[i][d]: the writer has ended direction d of hop i       *)
  shut,        (* shut[i]: nodes that have closed their end of hop i         *)
  copy,        (* copy[n][d]: "copying" or "done"                            *)
  join,        (* join[n]: "running" or "returned"                           *)
  cancelled,   (* nodes whose context is cancelled                           *)
  broken,      (* history: a context cancelled, a write refused or a reset   *)
  sent,        (* history: chunks sent by the two ends                       *)
  received     (* history: chunks delivered to the two ends                  *)

vars == <<data, fin, shut, copy, join, cancelled, broken, sent, received>>
hist == <<sent, received>>

ProxyTypeOK ==
  /\ data \in [Hops -> [Dirs -> 0..MaxChunks]]
  /\ fin \in [Hops -> [Dirs -> BOOLEAN]]
  /\ shut \in [Hops -> SUBSET (0..3)]
  /\ copy \in [Joins -> [Dirs -> {"copying", "done"}]]
  /\ join \in [Joins -> {"running", "returned"}]
  /\ cancelled \subseteq Joins
  /\ broken \in BOOLEAN
  /\ sent \in [Dirs -> 0..MaxChunks]
  /\ received \in [Dirs -> 0..MaxChunks]

Init ==
  /\ data = [i \in Hops |-> [d \in Dirs |-> 0]]
  /\ fin = [i \in Hops |-> [d \in Dirs |-> FALSE]]
  /\ shut = [i \in Hops |-> {}]
  /\ copy = [n \in Joins |-> [d \in Dirs |-> "copying"]]
  /\ join = [n \in Joins |-> "running"]
  /\ cancelled = {}
  /\ broken = FALSE
  /\ sent = [d \in Dirs |-> 0]
  /\ received = [d \in Dirs |-> 0]

In(n, d)  == IF d = "up" THEN n ELSE n + 1
Out(n, d) == IF d = "up" THEN n + 1 ELSE n

(* The direction that a node writes to a hop.                                *)
Written(n, i) == IF i = n + 1 THEN "up" ELSE "down"

-----------------------------------------------------------------------------
(* proxy.Join at node n.                                                     *)

(* io.Copy moves a chunk.  A write to a hop somebody has closed is refused,  *)
(* which ends the copy, or, on TCP, accepted by the kernel and dropped.      *)
(* CloseWrite on such a hop has no effect.                                   *)
CopyChunk(n, d) ==
  LET i == In(n, d)
      o == Out(n, d) IN
  /\ copy[n][d] = "copying"
  /\ n \notin shut[i]
  /\ data[i][d] > 0
  /\ \/ /\ shut[o] = {}
        /\ data' = [data EXCEPT ![i][d] = @ - 1, ![o][d] = @ + 1]
        /\ UNCHANGED <<copy, broken>>
     \/ /\ shut[o] # {}
        /\ data' = [data EXCEPT ![i][d] = @ - 1]
        /\ copy' \in {copy, [copy EXCEPT ![n][d] = "done"]}
        /\ broken' = TRUE
  /\ UNCHANGED <<fin, shut, join, cancelled, hist>>

(* The SSH channel and the TCP connection have CloseWrite.  The gateway's    *)
(* target is a trackedConnection, which embeds net.Conn and does not.        *)
HasCloseWrite(n, d) == ~(n = Gateway /\ d = "up")

(* io.Copy sees the end of its source (or its own closed end), and passes it *)
(* on with CloseWrite where the destination has one.                         *)
CopyEnds(n, d) ==
  LET i == In(n, d)
      o == Out(n, d) IN
  /\ copy[n][d] = "copying"
  /\ n \in shut[i] \/ (data[i][d] = 0 /\ fin[i][d])
  /\ copy' = [copy EXCEPT ![n][d] = "done"]
  /\ fin' = [fin EXCEPT ![o][d] = @ \/ HasCloseWrite(n, d)]
  /\ UNCHANGED <<data, shut, join, cancelled, broken, hist>>

(* Node n closes both of its streams: its ends are gone, the peers see EOF.  *)
CloseBoth(n) ==
  /\ shut' = [i \in Hops |-> IF i \in {n, n + 1} THEN shut[i] \cup {n} ELSE shut[i]]
  /\ fin' = [i \in Hops |->
               IF i \in {n, n + 1} THEN [fin[i] EXCEPT ![Written(n, i)] = TRUE] ELSE fin[i]]

(* Mutants: Join waits for one copy only; it closes only its left stream.    *)
JoinReturnsEarly(n) ==
  /\ join[n] = "running"
  /\ \E d \in Dirs : copy[n][d] = "done"
  /\ join' = [join EXCEPT ![n] = "returned"]
  /\ CloseBoth(n)
  /\ UNCHANGED <<data, copy, cancelled, broken, hist>>

JoinReturnsHalf(n) ==
  /\ join[n] = "running"
  /\ \A d \in Dirs : copy[n][d] = "done"
  /\ join' = [join EXCEPT ![n] = "returned"]
  /\ shut' = [shut EXCEPT ![n] = @ \cup {n}]
  /\ fin' = [fin EXCEPT ![n]["down"] = TRUE]
  /\ UNCHANGED <<data, copy, cancelled, broken, hist>>

JoinReturns(n) ==
  /\ join[n] = "running"
  /\ \A d \in Dirs : copy[n][d] = "done"
  /\ join' = [join EXCEPT ![n] = "returned"]
  /\ CloseBoth(n)
  /\ UNCHANGED <<data, copy, cancelled, broken, hist>>

(* Mutant: the watcher closes only the SSH channel.                          *)
ContextClosesChannel(n) ==
  /\ n \in cancelled
  /\ join[n] = "running"
  /\ n \notin shut[2]
  /\ shut' = [shut EXCEPT ![2] = @ \cup {n}]
  /\ fin' = [fin EXCEPT ![2][Written(n, 2)] = TRUE]
  /\ UNCHANGED <<data, copy, join, cancelled, broken, hist>>

(* The watcher goroutine of connectService and proxyWithContext.             *)
ContextCloses(n) ==
  /\ n \in cancelled
  /\ join[n] = "running"
  /\ n \notin shut[n] \cap shut[n + 1]
  /\ CloseBoth(n)
  /\ UNCHANGED <<data, copy, join, cancelled, broken, hist>>

-----------------------------------------------------------------------------
(* The environment.                                                          *)

(* Ctrl-C at the client cancels its context, upon which RunServices closes   *)
(* the SSH connection.  The end of the SSH connection takes the channel away *)
(* and cancels the gateway's context.                                        *)
ClientCancelled ==
  /\ Client \notin cancelled
  /\ cancelled' = cancelled \cup {Client}
  /\ broken' = TRUE
  /\ UNCHANGED <<data, fin, shut, copy, join, hist>>

ConnectionLost ==
  /\ Gateway \notin cancelled
  /\ cancelled' = cancelled \cup {Gateway}
  /\ shut' = [shut EXCEPT ![2] = @ \cup {Client, Gateway}]
  /\ fin' = [fin EXCEPT ![2] = [d \in Dirs |-> TRUE]]
  /\ broken' = TRUE
  /\ UNCHANGED <<data, copy, join, hist>>

(* An end sends to its hop, reads from it, half-closes it or closes it.      *)
HopOf(e) == IF e = App THEN 1 ELSE 3
DirOf(e) == IF e = App THEN "up" ELSE "down"
BackOf(e) == IF e = App THEN "down" ELSE "up"

EndSends(e) ==
  /\ sent[DirOf(e)] < MaxChunks
  /\ shut[HopOf(e)] = {} /\ ~fin[HopOf(e)][DirOf(e)]
  /\ data' = [data EXCEPT ![HopOf(e)][DirOf(e)] = @ + 1]
  /\ sent' = [sent EXCEPT ![DirOf(e)] = @ + 1]
  /\ UNCHANGED <<fin, shut, copy, join, cancelled, broken, received>>

EndReads(e) ==
  /\ e \notin shut[HopOf(e)]
  /\ data[HopOf(e)][BackOf(e)] > 0
  /\ data' = [data EXCEPT ![HopOf(e)][BackOf(e)] = @ - 1]
  /\ received' = [received EXCEPT ![BackOf(e)] = @ + 1]
  /\ UNCHANGED <<fin, shut, copy, join, cancelled, broken, sent>>

EndHalfCloses(e) ==
  /\ e \notin shut[HopOf(e)]
  /\ ~fin[HopOf(e)][DirOf(e)]
  /\ fin' = [fin EXCEPT ![HopOf(e)][DirOf(e)] = TRUE]
  /\ UNCHANGED <<data, shut, copy, join, cancelled, broken, hist>>

(* Closing with unread data resets the TCP connection, which may discard     *)
(* what is in it; Join takes a reset for the end of the stream.              *)
EndCloses(e) ==
  LET i == HopOf(e)
      reset == data[i][BackOf(e)] > 0 IN
  /\ e \notin shut[i]
  /\ shut' = [shut EXCEPT ![i] = @ \cup {e}]
  /\ fin' = [fin EXCEPT ![i][DirOf(e)] = TRUE]
  /\ \/ UNCHANGED data
     \/ reset /\ data' = [data EXCEPT ![i] = [d \in Dirs |-> 0]]
  /\ broken' = (broken \/ reset)
  /\ UNCHANGED <<copy, join, cancelled, hist>>

SeesEnd(e) ==
  /\ e \notin shut[HopOf(e)]
  /\ data[HopOf(e)][BackOf(e)] = 0
  /\ fin[HopOf(e)][BackOf(e)]

Ends == {App, Service}

JoinStep(n) ==
  \/ \E d \in Dirs : CopyChunk(n, d) \/ CopyEnds(n, d)
  \/ JoinReturns(n)
  \/ ContextCloses(n)

EndStep(e) == EndSends(e) \/ EndReads(e) \/ EndHalfCloses(e) \/ EndCloses(e)

Next ==
  \/ \E n \in Joins : JoinStep(n)
  \/ \E e \in Ends : EndStep(e)
  \/ ClientCancelled
  \/ ConnectionLost

Spec == Init /\ [][Next]_vars

(* The goroutines run.  The service reads what arrives and closes when it    *)
(* sees the end of the stream; it owes nothing else.  The application owes   *)
(* nothing at all.                                                           *)
Fairness ==
  /\ \A n \in Joins : WF_vars(JoinReturns(n) \/ ContextCloses(n))
  /\ \A n \in Joins, d \in Dirs : WF_vars(CopyChunk(n, d) \/ CopyEnds(n, d))
  /\ WF_vars(Client \in cancelled /\ ConnectionLost)
  /\ WF_vars(EndReads(Service)) /\ WF_vars(SeesEnd(Service) /\ EndCloses(Service))

FairSpec == Spec /\ Fairness

-----------------------------------------------------------------------------
(* An end of stream is never ahead of the data: unless a context was         *)
(* cancelled, a write refused or a connection reset, the application and the *)
(* service see the end of a stream only behind every chunk that was sent.    *)
(* A request that is half-closed still gets its whole response.              *)
EndOfStreamIsComplete ==
  ~broken =>
    \A e \in Ends :
      LET i == HopOf(e)
          d == BackOf(e) IN
      fin[i][d] => sent[d] = received[d] + data[i][d]

(* The inductive invariant behind it.  No chunk is counted twice, and none   *)
(* is lost while nothing is broken.                                          *)
Total(d) == received[d] + data[1][d] + data[2][d] + data[3][d]

Conserved ==
  \A d \in Dirs : Total(d) <= sent[d] /\ (~broken => Total(d) = sent[d])

(* While nothing is broken, a copy is done only behind the end of a drained  *)
(* stream, a stream ends only behind the copy that writes it, and Join       *)
(* closes only behind both of its copies.                                    *)
OrderedAt(n, d) ==
  /\ copy[n][d] = "done" => fin[In(n, d)][d] /\ data[In(n, d)][d] = 0
  /\ fin[Out(n, d)][d] => copy[n][d] = "done"
  /\ n \in shut[n] \cup shut[n + 1] => copy[n][d] = "done"

Ordered ==
  ~broken => cancelled = {} /\ \A n \in Joins, d \in Dirs : OrderedAt(n, d)

ProxyInv == ProxyTypeOK /\ Conserved /\ Ordered

Released == Gateway \in shut[3]

(* The application holds its connection open although data or the end of     *)
(* the stream waits for it to be read.                                       *)
AppHoldsOn ==
  App \notin shut[1] /\ (data[1]["down"] > 0 \/ fin[1]["down"])

(* When the service closes, with or without data in flight, the gateway      *)
(* gives its target back (trackedConnection.Close, which releases the        *)
(* runtime), and only the application can keep it from that: Join waits for  *)
(* the other direction, so either the target is released or the application, *)
(* which has been told, never closes.                                        *)
ServiceCloseReleases == Service \in shut[3] ~> (Released \/ []AppHoldsOn)

(* It also does when the SSH connection ends, although neither copy sees an  *)
(* end of stream on its own: the watcher of proxyWithContext closes both.    *)
ConnectionLossReleases == Gateway \in cancelled ~> Released

(* docs/overview.md: "When the last connection closes, the idle timer        *)
(* begins."  An application's close reaches trackedConnection.Close.         *)
AppCloseReleases == App \in shut[1] ~> Released

=============================================================================
