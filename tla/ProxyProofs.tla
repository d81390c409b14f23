------------------------------ MODULE ProxyProofs ------------------------------
(* Proofs about Proxy, for any number of chunks.                             *)
EXTENDS Proxy, TLAPS

(* A join reads one of its two hops and writes the other.                    *)
LEMMA HopsOfJoin ==
  ASSUME NEW n \in Joins, NEW d \in Dirs
  PROVE  /\ In(n, d) \in Hops /\ Out(n, d) \in Hops /\ In(n, d) # Out(n, d)
         /\ n \in Hops /\ n + 1 \in Hops
         /\ In(n, d) \in {n, n + 1} /\ Out(n, d) \in {n, n + 1}
  BY DEF Joins, Client, Gateway, Dirs, Hops, In, Out

(* The counters stay within the bound when no more is in flight than sent.   *)
LEMMA Bounded ==
  ASSUME NEW f \in [Hops -> [Dirs -> Nat]], NEW r \in [Dirs -> Nat],
         NEW s \in [Dirs -> 0..MaxChunks],
         \A d \in Dirs : r[d] + f[1][d] + f[2][d] + f[3][d] <= s[d]
  PROVE  f \in [Hops -> [Dirs -> 0..MaxChunks]] /\ r \in [Dirs -> 0..MaxChunks]
<1>1. ASSUME NEW d \in Dirs
      PROVE  /\ r[d] \in 0..MaxChunks /\ f[1][d] \in 0..MaxChunks
             /\ f[2][d] \in 0..MaxChunks /\ f[3][d] \in 0..MaxChunks
  <2>1. /\ r[d] \in Nat /\ f[1][d] \in Nat /\ f[2][d] \in Nat /\ f[3][d] \in Nat
        /\ s[d] \in 0..MaxChunks
    BY DEF Hops
  <2>2. QED
    BY <2>1, ChunkAssumption
<1>2. QED
  BY <1>1 DEF Hops

(* The initial state satisfies the inductive invariant.                      *)
LEMMA InitProxy == Init => ProxyInv
<1> SUFFICES ASSUME Init PROVE ProxyInv
  OBVIOUS
<1>1. ProxyTypeOK
  <2>1. fin \in [Hops -> [Dirs -> BOOLEAN]] /\ broken \in BOOLEAN
    BY Zenon DEF Init
  <2>2. QED
    BY <2>1, ChunkAssumption DEF Init, ProxyTypeOK
<1>2. Conserved
  BY DEF Init, Conserved, Total, Hops
<1>3. Ordered
  BY HopsOfJoin DEF Init, Ordered, OrderedAt
<1>4. QED
  BY <1>1, <1>2, <1>3 DEF ProxyInv

-----------------------------------------------------------------------------
(* Steps that move no data, and steps that break the connection and at most  *)
(* lose data, keep the count.                                                *)
LEMMA DataStays ==
  ASSUME Conserved, UNCHANGED <<data, sent, received>>, broken => broken'
  PROVE  Conserved'
  BY DEF Conserved, Total

(* A lost chunk is counted by nobody, and the connection is broken.          *)
LEMMA DataLost ==
  ASSUME ProxyInv, broken', UNCHANGED <<sent, received>>,
         data' \in [Hops -> [Dirs -> Nat]],
         \A j \in Hops, e \in Dirs : data'[j][e] <= data[j][e]
  PROVE  /\ Conserved' /\ Ordered'
         /\ data' \in [Hops -> [Dirs -> 0..MaxChunks]]
<1>1. Conserved'
  <2> SUFFICES ASSUME NEW e \in Dirs PROVE Total(e)' <= sent'[e]
    BY DEF Conserved
  <2>1. /\ data[1][e] \in Nat /\ data[2][e] \in Nat /\ data[3][e] \in Nat
        /\ data'[1][e] \in Nat /\ data'[2][e] \in Nat /\ data'[3][e] \in Nat
        /\ received[e] \in Nat /\ sent[e] \in Nat
    BY ChunkAssumption DEF ProxyInv, ProxyTypeOK, Hops
  <2>2. Total(e) <= sent[e]
    BY DEF ProxyInv, Conserved
  <2>3. data'[1][e] <= data[1][e] /\ data'[2][e] <= data[2][e] /\ data'[3][e] <= data[3][e]
    BY DEF Hops
  <2>4. QED
    BY <2>1, <2>2, <2>3 DEF Total
<1>2. Ordered'
  BY DEF Ordered
<1>3. received \in [Dirs -> Nat] /\ sent \in [Dirs -> 0..MaxChunks]
  BY ChunkAssumption DEF ProxyInv, ProxyTypeOK
<1>4. QED
  BY <1>1, <1>2, <1>3, Bounded DEF Conserved, Total

(* A chunk moves on, or is lost and the connection broken.                   *)
LEMMA CopyChunkStep ==
  ASSUME ProxyInv, NEW n \in Joins, NEW d \in Dirs, CopyChunk(n, d)
  PROVE  ProxyInv'
<1> DEFINE i == In(n, d)
           o == Out(n, d)
<1>1. i \in Hops /\ o \in Hops /\ i # o
  BY HopsOfJoin
<1>2. /\ data \in [Hops -> [Dirs -> Nat]] /\ received \in [Dirs -> Nat] /\ sent \in [Dirs -> 0..MaxChunks]
      /\ copy[n][d] = "copying" /\ data[i][d] > 0
      /\ UNCHANGED <<fin, shut, join, cancelled, sent, received>>
  BY ChunkAssumption DEF CopyChunk, hist, ProxyInv, ProxyTypeOK
<1>3. copy' \in [Joins -> [Dirs -> {"copying", "done"}]]
  <2>1. copy' = copy \/ copy' = [copy EXCEPT ![n][d] = "done"]
    BY DEF CopyChunk
  <2>2. copy \in [Joins -> [Dirs -> {"copying", "done"}]]
    BY DEF ProxyInv, ProxyTypeOK
  <2>3. QED
    BY <2>1, <2>2
<1>4. broken' \in BOOLEAN
  BY Zenon DEF CopyChunk, ProxyInv, ProxyTypeOK
<1> HIDE DEF i, o
<1>5. CASE shut[o] = {}
  <2>1. /\ data' = [data EXCEPT ![i][d] = @ - 1, ![o][d] = @ + 1]
        /\ copy' = copy /\ broken' = broken
    BY <1>5 DEF CopyChunk, i, o
  <2>2. /\ data'[i][d] = data[i][d] - 1 /\ data'[o][d] = data[o][d] + 1
        /\ \A j \in Hops, e \in Dirs : e # d \/ j \notin {i, o} => data'[j][e] = data[j][e]
    BY <1>1, <1>2, <2>1
  <2>3. data' \in [Hops -> [Dirs -> Nat]]
    <3> DEFINE f == [data EXCEPT ![i][d] = @ - 1]
    <3>1. f \in [Hops -> [Dirs -> Nat]]
      BY <1>1, <1>2
    <3>2. data' = [f EXCEPT ![o][d] = @ + 1]
      BY <1>1, <1>2, <2>1
    <3> HIDE DEF f
    <3>3. QED
      BY <1>1, <3>1, <3>2
  <2>4. Conserved'
    <3> SUFFICES ASSUME NEW e \in Dirs PROVE Total(e)' = Total(e)
      BY <1>2, <2>1 DEF ProxyInv, Conserved
    <3>1. data[1][e] \in Nat /\ data[2][e] \in Nat /\ data[3][e] \in Nat /\ received[e] \in Nat
      BY <1>2 DEF Hops
    <3>2. CASE e = d
      BY <1>1, <1>2, <2>2, <3>1, <3>2 DEF Total, Hops
    <3>3. CASE e # d
      BY <1>2, <2>2, <3>3 DEF Total, Hops
    <3>4. QED
      BY <3>2, <3>3
  <2>5. ProxyTypeOK'
    <3>1. data' \in [Hops -> [Dirs -> 0..MaxChunks]]
      BY <1>2, <2>3, <2>4, Bounded DEF Conserved, Total
    <3>2. QED
      BY <1>2, <1>3, <1>4, <3>1 DEF ProxyInv, ProxyTypeOK
  <2>6. ASSUME ~broken, NEW m \in Joins, NEW e \in Dirs
        PROVE  OrderedAt(m, e)'
    <3>1. OrderedAt(m, e) /\ In(m, e) \in Hops
      BY <2>6, HopsOfJoin DEF ProxyInv, Ordered
    <3>2. ~fin[o][d]
      BY <1>2, <2>6 DEF ProxyInv, Ordered, OrderedAt, o
    <3>3. copy[m][e] = "done" => data'[In(m, e)][e] = 0
      BY <1>2, <2>2, <3>1, <3>2 DEF OrderedAt
    <3>4. QED
      BY <1>2, <2>1, <3>1, <3>3 DEF OrderedAt
  <2>8. Ordered'
    BY <1>2, <2>1, <2>6 DEF ProxyInv, Ordered
  <2>7. QED
    BY <2>4, <2>5, <2>8 DEF ProxyInv
<1>6. CASE shut[o] # {}
  <2>1. data' = [data EXCEPT ![i][d] = @ - 1] /\ broken' = TRUE
    BY <1>6 DEF CopyChunk, i, o
  <2>2. data' \in [Hops -> [Dirs -> Nat]] /\ \A j \in Hops, e \in Dirs : data'[j][e] <= data[j][e]
    BY <1>1, <1>2, <2>1
  <2>3. Conserved' /\ Ordered' /\ data' \in [Hops -> [Dirs -> 0..MaxChunks]]
    BY <1>2, <2>1, <2>2, DataLost
  <2>4. ProxyTypeOK'
    BY <1>2, <1>3, <1>4, <2>3 DEF ProxyInv, ProxyTypeOK
  <2>5. QED
    BY <2>3, <2>4 DEF ProxyInv
<1>7. QED
  BY <1>5, <1>6

(* A copy ends behind the end of a drained stream, unless its own end of the *)
(* source was closed, which only happens when both copies are done or the    *)
(* connection is broken.                                                     *)
LEMMA CopyEndsStep ==
  ASSUME ProxyInv, NEW n \in Joins, NEW d \in Dirs, CopyEnds(n, d)
  PROVE  ProxyInv'
<1> DEFINE i == In(n, d)
           o == Out(n, d)
<1>1. /\ i \in Hops /\ o \in Hops /\ i # o /\ i \in {n, n + 1}
      /\ copy \in [Joins -> [Dirs -> {"copying", "done"}]] /\ fin \in [Hops -> [Dirs -> BOOLEAN]]
  BY HopsOfJoin DEF ProxyInv, ProxyTypeOK
<1>2. /\ copy[n][d] = "copying" /\ copy' = [copy EXCEPT ![n][d] = "done"]
      /\ UNCHANGED <<data, shut, join, cancelled, broken, sent, received>>
  BY DEF CopyEnds, hist
<1>3. fin' = [fin EXCEPT ![o][d] = @ \/ HasCloseWrite(n, d)]
  BY DEF CopyEnds
<1>4. n \in shut[i] \/ (data[i][d] = 0 /\ fin[i][d])
  BY DEF CopyEnds
<1> HIDE DEF i, o
<1>5. copy' \in [Joins -> [Dirs -> {"copying", "done"}]]
  BY <1>1, <1>2
<1>6. fin' \in [Hops -> [Dirs -> BOOLEAN]]
  BY <1>1, <1>3
<1>7. /\ \A j \in Hops, e \in Dirs : fin[j][e] => fin'[j][e]
      /\ \A j \in Hops, e \in Dirs : fin'[j][e] /\ (j # o \/ e # d) => fin[j][e]
  BY <1>1, <1>3
<1>8. ProxyTypeOK'
  BY <1>2, <1>5, <1>6 DEF ProxyInv, ProxyTypeOK
<1>9. Conserved'
  BY <1>2, DataStays DEF ProxyInv
<1>10. /\ copy'[n][d] = "done"
       /\ \A m \in Joins, e \in Dirs : m # n \/ e # d => copy'[m][e] = copy[m][e]
  BY <1>1, <1>2
<1>11. ASSUME ~broken, NEW m \in Joins, NEW e \in Dirs
       PROVE  OrderedAt(m, e)'
  <2>1. /\ OrderedAt(m, e) /\ OrderedAt(n, d)
        /\ In(m, e) \in Hops /\ Out(m, e) \in Hops
    BY <1>11, HopsOfJoin DEF ProxyInv, Ordered
  <2>2. data[i][d] = 0 /\ fin[i][d]
    BY <1>1, <1>2, <1>4, <2>1 DEF OrderedAt
  <2>3. copy'[m][e] = "done" => fin'[In(m, e)][e] /\ data'[In(m, e)][e] = 0
    <3>1. CASE m = n /\ e = d
      BY <1>1, <1>2, <1>7, <2>2, <3>1 DEF i
    <3>2. CASE m # n \/ e # d
      BY <1>2, <1>7, <1>10, <2>1, <3>2 DEF OrderedAt
    <3>3. QED
      BY <3>1, <3>2
  <2>4. fin'[Out(m, e)][e] => copy'[m][e] = "done"
    <3>1. CASE e = d /\ Out(m, e) = o
      <4>1. m = n
        BY <3>1 DEF o, Out, Joins, Client, Gateway
      <4>2. QED
        BY <1>10, <3>1, <4>1
    <3>2. CASE e # d \/ Out(m, e) # o
      BY <1>7, <1>10, <2>1, <3>2 DEF OrderedAt
    <3>3. QED
      BY <3>1, <3>2
  <2>5. QED
    BY <1>2, <1>10, <2>1, <2>3, <2>4 DEF OrderedAt
<1>12. Ordered'
  BY <1>2, <1>11 DEF ProxyInv, Ordered
<1>13. QED
  BY <1>8, <1>9, <1>12 DEF ProxyInv

(* Closing both streams ends what the node writes and nothing else.          *)
LEMMA CloseBothEffect ==
  ASSUME ProxyTypeOK, NEW n \in Joins, CloseBoth(n)
  PROVE  /\ shut' \in [Hops -> SUBSET (0..3)] /\ fin' \in [Hops -> [Dirs -> BOOLEAN]]
         /\ \A j \in Hops : shut'[j] \subseteq shut[j] \cup {n}
         /\ \A j \in Hops, e \in Dirs : fin[j][e] => fin'[j][e]
         /\ \A m \in Joins \ {n}, e \in Dirs : fin'[Out(m, e)][e] => fin[Out(m, e)][e]
<1>1. n \in 0..3 /\ n \in Hops /\ n + 1 \in Hops /\ n # n + 1
  BY DEF Joins, Client, Gateway, Hops
<1>2. /\ shut' = [i \in Hops |-> IF i \in {n, n + 1} THEN shut[i] \cup {n} ELSE shut[i]]
      /\ fin' = [i \in Hops |->
                   IF i \in {n, n + 1} THEN [fin[i] EXCEPT ![Written(n, i)] = TRUE] ELSE fin[i]]
  BY DEF CloseBoth
<1>3. shut' \in [Hops -> SUBSET (0..3)] /\ \A j \in Hops : shut'[j] \subseteq shut[j] \cup {n}
  BY <1>1, <1>2 DEF ProxyTypeOK
<1>4. fin \in [Hops -> [Dirs -> BOOLEAN]] /\ \A i \in Hops : Written(n, i) \in Dirs
  BY DEF ProxyTypeOK, Written, Dirs
<1>5. ASSUME NEW j \in Hops
      PROVE  /\ fin'[j] \in [Dirs -> BOOLEAN]
             /\ \A e \in Dirs : fin[j][e] => fin'[j][e]
             /\ \A e \in Dirs : fin'[j][e] /\ ~(j \in {n, n + 1} /\ e = Written(n, j)) => fin[j][e]
  BY <1>2, <1>4
<1>6. fin' \in [Hops -> [Dirs -> BOOLEAN]]
  BY <1>2, <1>5
<1>7. ASSUME NEW m \in Joins \ {n}, NEW e \in Dirs
      PROVE  Out(m, e) \in Hops /\ ~(Out(m, e) \in {n, n + 1} /\ e = Written(n, Out(m, e)))
  BY DEF Joins, Client, Gateway, Dirs, Hops, Out, Written
<1>8. QED
  BY <1>3, <1>5, <1>6, <1>7

(* Join returns behind both copies.                                          *)
LEMMA JoinReturnsStep ==
  ASSUME ProxyInv, NEW n \in Joins, JoinReturns(n)
  PROVE  ProxyInv'
<1>1. /\ CloseBoth(n) /\ \A d \in Dirs : copy[n][d] = "done"
      /\ UNCHANGED <<data, copy, cancelled, broken, sent, received>>
  BY DEF JoinReturns, hist
<1>2. /\ shut' \in [Hops -> SUBSET (0..3)] /\ fin' \in [Hops -> [Dirs -> BOOLEAN]]
      /\ \A j \in Hops : shut'[j] \subseteq shut[j] \cup {n}
      /\ \A j \in Hops, e \in Dirs : fin[j][e] => fin'[j][e]
      /\ \A m \in Joins \ {n}, e \in Dirs : fin'[Out(m, e)][e] => fin[Out(m, e)][e]
  BY <1>1, CloseBothEffect DEF ProxyInv
<1>3. join' \in [Joins -> {"running", "returned"}]
  BY DEF JoinReturns, ProxyInv, ProxyTypeOK
<1>4. ProxyTypeOK'
  BY <1>1, <1>2, <1>3 DEF ProxyInv, ProxyTypeOK
<1>5. Conserved'
  BY <1>1, DataStays DEF ProxyInv
<1>6. ASSUME ~broken, NEW m \in Joins, NEW e \in Dirs
      PROVE  OrderedAt(m, e)'
  <2>1. OrderedAt(m, e) /\ In(m, e) \in Hops /\ Out(m, e) \in Hops /\ m \in Hops /\ m + 1 \in Hops
    BY <1>6, HopsOfJoin DEF ProxyInv, Ordered
  <2>2. copy[m][e] = "done" => fin'[In(m, e)][e] /\ data[In(m, e)][e] = 0
    BY <1>2, <2>1 DEF OrderedAt
  <2>3. fin'[Out(m, e)][e] => copy[m][e] = "done"
    BY <1>1, <1>2, <2>1 DEF OrderedAt
  <2>4. m \in shut'[m] \cup shut'[m + 1] => copy[m][e] = "done"
    BY <1>1, <1>2, <2>1 DEF OrderedAt
  <2>5. QED
    BY <1>1, <2>2, <2>3, <2>4 DEF OrderedAt
<1>7. Ordered'
  BY <1>1, <1>6 DEF ProxyInv, Ordered
<1>8. QED
  BY <1>4, <1>5, <1>7 DEF ProxyInv

(* The watcher closes early, but only once a context is cancelled.           *)
LEMMA ContextClosesStep ==
  ASSUME ProxyInv, NEW n \in Joins, ContextCloses(n)
  PROVE  ProxyInv'
<1>1. /\ CloseBoth(n) /\ cancelled # {}
      /\ UNCHANGED <<data, copy, join, cancelled, broken, sent, received>>
  BY DEF ContextCloses, hist
<1>2. shut' \in [Hops -> SUBSET (0..3)] /\ fin' \in [Hops -> [Dirs -> BOOLEAN]]
  BY <1>1, CloseBothEffect DEF ProxyInv
<1>3. ProxyTypeOK'
  BY <1>1, <1>2 DEF ProxyInv, ProxyTypeOK
<1>4. Conserved'
  BY <1>1, DataStays DEF ProxyInv
<1>5. Ordered'
  BY <1>1 DEF ProxyInv, Ordered
<1>6. QED
  BY <1>3, <1>4, <1>5 DEF ProxyInv

(* A cancelled context or a lost connection counts as broken.                *)
LEMMA CancelSteps ==
  ASSUME ProxyInv, ClientCancelled \/ ConnectionLost
  PROVE  ProxyInv'
<1>1. broken' /\ UNCHANGED <<data, copy, join, sent, received>>
  BY DEF ClientCancelled, ConnectionLost, hist
<1>2. cancelled' \subseteq Joins
  BY DEF ClientCancelled, ConnectionLost, ProxyInv, ProxyTypeOK, Joins
<1>3. shut' \in [Hops -> SUBSET (0..3)]
  BY DEF ClientCancelled, ConnectionLost, ProxyInv, ProxyTypeOK, Hops, Client, Gateway
<1>4. fin' \in [Hops -> [Dirs -> BOOLEAN]]
  <2>1. fin \in [Hops -> [Dirs -> BOOLEAN]]
    BY DEF ProxyInv, ProxyTypeOK
  <2>2. [d \in Dirs |-> TRUE] \in [Dirs -> BOOLEAN]
    BY Zenon
  <2>3. fin' = fin \/ fin' = [fin EXCEPT ![2] = [d \in Dirs |-> TRUE]]
    BY DEF ClientCancelled, ConnectionLost
  <2>4. QED
    BY <2>1, <2>2, <2>3
<1>5. ProxyTypeOK'
  <2>1. broken' \in BOOLEAN
    BY Zenon DEF ClientCancelled, ConnectionLost
  <2>2. QED
    BY <1>1, <1>2, <1>3, <1>4, <2>1 DEF ProxyInv, ProxyTypeOK
<1>6. Conserved'
  BY <1>1, DataStays DEF ProxyInv
<1>7. Ordered'
  BY <1>1 DEF Ordered
<1>8. QED
  BY <1>5, <1>6, <1>7 DEF ProxyInv

-----------------------------------------------------------------------------
(* The two ends of the connection.                                           *)
LEMMA EndFacts ==
  ASSUME NEW e \in Ends
  PROVE  /\ HopOf(e) \in Hops /\ DirOf(e) \in Dirs /\ BackOf(e) \in Dirs /\ DirOf(e) # BackOf(e)
         /\ e \in 0..3 /\ e \notin Joins
         /\ \A m \in Joins, d \in Dirs : d = DirOf(e) => Out(m, d) # HopOf(e)
  BY DEF Ends, App, Service, Joins, Client, Gateway, Hops, Dirs, HopOf, DirOf, BackOf, Out

(* An end sends only into a stream it has not ended.                         *)
LEMMA EndSendsStep ==
  ASSUME ProxyInv, NEW e \in Ends, EndSends(e)
  PROVE  ProxyInv'
<1> DEFINE i == HopOf(e)
           d == DirOf(e)
<1>1. i \in Hops /\ d \in Dirs
  BY EndFacts
<1>2. /\ data' = [data EXCEPT ![i][d] = @ + 1] /\ sent' = [sent EXCEPT ![d] = @ + 1]
      /\ sent[d] < MaxChunks /\ ~fin[i][d]
      /\ UNCHANGED <<fin, shut, copy, join, cancelled, broken, received>>
  BY DEF EndSends
<1> HIDE DEF i, d
<1>3. /\ data \in [Hops -> [Dirs -> Nat]] /\ received \in [Dirs -> Nat] /\ sent \in [Dirs -> Nat]
      /\ sent' \in [Dirs -> 0..MaxChunks]
  BY <1>1, <1>2, ChunkAssumption DEF ProxyInv, ProxyTypeOK
<1>4. /\ data' \in [Hops -> [Dirs -> Nat]]
      /\ data'[i][d] = data[i][d] + 1 /\ sent'[d] = sent[d] + 1
      /\ \A j \in Hops, b \in Dirs : j # i \/ b # d => data'[j][b] = data[j][b]
      /\ \A b \in Dirs : b # d => sent'[b] = sent[b]
  BY <1>1, <1>2, <1>3
<1>5. ASSUME NEW b \in Dirs
      PROVE  Total(b)' - Total(b) = sent'[b] - sent[b] /\ Total(b) \in Nat /\ Total(b)' \in Nat
  <2>1. /\ data[1][b] \in Nat /\ data[2][b] \in Nat /\ data[3][b] \in Nat
        /\ received[b] \in Nat /\ sent[b] \in Nat
    BY <1>3 DEF Hops
  <2>2. CASE b = d
    BY <1>1, <1>2, <1>4, <2>1, <2>2 DEF Total, Hops
  <2>3. CASE b # d
    BY <1>2, <1>4, <2>1, <2>3 DEF Total, Hops
  <2>4. QED
    BY <2>2, <2>3
<1>6. Conserved'
  <2> SUFFICES ASSUME NEW b \in Dirs
               PROVE  Total(b)' <= sent'[b] /\ (~broken' => Total(b)' = sent'[b])
    BY DEF Conserved
  <2>1. Total(b) <= sent[b] /\ (~broken => Total(b) = sent[b])
    BY DEF ProxyInv, Conserved
  <2>2. sent[b] \in Nat /\ sent'[b] \in Nat
    BY <1>3
  <2>3. QED
    BY <1>2, <1>5, <2>1, <2>2
<1>7. data' \in [Hops -> [Dirs -> 0..MaxChunks]]
  <2>1. \A b \in Dirs : received[b] + data'[1][b] + data'[2][b] + data'[3][b] <= sent'[b]
    BY <1>2, <1>6 DEF Conserved, Total
  <2>2. QED
    BY <1>3, <1>4, <2>1, Bounded
<1>8. ProxyTypeOK'
  BY <1>2, <1>3, <1>7 DEF ProxyInv, ProxyTypeOK
<1>9. ASSUME ~broken, NEW m \in Joins, NEW b \in Dirs
      PROVE  OrderedAt(m, b)'
  <2>1. OrderedAt(m, b) /\ In(m, b) \in Hops
    BY <1>9, HopsOfJoin DEF ProxyInv, Ordered
  <2>2. copy[m][b] = "done" => data'[In(m, b)][b] = 0
    BY <1>2, <1>4, <2>1 DEF OrderedAt
  <2>3. QED
    BY <1>2, <2>1, <2>2 DEF OrderedAt
<1>10. Ordered'
  BY <1>2, <1>9 DEF ProxyInv, Ordered
<1>11. QED
  BY <1>6, <1>8, <1>10 DEF ProxyInv

(* A chunk that an end reads is counted as received.                         *)
LEMMA EndReadsStep ==
  ASSUME ProxyInv, NEW e \in Ends, EndReads(e)
  PROVE  ProxyInv'
<1> DEFINE i == HopOf(e)
           d == BackOf(e)
<1>1. i \in Hops /\ d \in Dirs
  BY EndFacts
<1>2. /\ data' = [data EXCEPT ![i][d] = @ - 1] /\ received' = [received EXCEPT ![d] = @ + 1]
      /\ data[i][d] > 0
      /\ UNCHANGED <<fin, shut, copy, join, cancelled, broken, sent>>
  BY DEF EndReads
<1> HIDE DEF i, d
<1>3. /\ data \in [Hops -> [Dirs -> Nat]] /\ received \in [Dirs -> Nat]
      /\ sent \in [Dirs -> 0..MaxChunks]
  BY ChunkAssumption DEF ProxyInv, ProxyTypeOK
<1>4. /\ data' \in [Hops -> [Dirs -> Nat]] /\ received' \in [Dirs -> Nat]
      /\ data'[i][d] = data[i][d] - 1 /\ received'[d] = received[d] + 1
      /\ \A j \in Hops, b \in Dirs : j # i \/ b # d => data'[j][b] = data[j][b]
      /\ \A b \in Dirs : b # d => received'[b] = received[b]
  BY <1>1, <1>2, <1>3
<1>5. ASSUME NEW b \in Dirs
      PROVE  Total(b)' = Total(b)
  <2>1. data[1][b] \in Nat /\ data[2][b] \in Nat /\ data[3][b] \in Nat /\ received[b] \in Nat
    BY <1>3 DEF Hops
  <2>2. CASE b = d
    BY <1>1, <1>4, <2>1, <2>2 DEF Total, Hops
  <2>3. CASE b # d
    BY <1>4, <2>1, <2>3 DEF Total, Hops
  <2>4. QED
    BY <2>2, <2>3
<1>6. Conserved'
  BY <1>2, <1>5 DEF ProxyInv, Conserved
<1>7. data' \in [Hops -> [Dirs -> 0..MaxChunks]] /\ received' \in [Dirs -> 0..MaxChunks]
  <2>1. \A b \in Dirs : received'[b] + data'[1][b] + data'[2][b] + data'[3][b] <= sent[b]
    BY <1>2, <1>6 DEF Conserved, Total
  <2>2. QED
    BY <1>3, <1>4, <2>1, Bounded
<1>8. ProxyTypeOK'
  BY <1>2, <1>7 DEF ProxyInv, ProxyTypeOK
<1>9. ASSUME ~broken, NEW m \in Joins, NEW b \in Dirs
      PROVE  OrderedAt(m, b)'
  <2>1. OrderedAt(m, b) /\ In(m, b) \in Hops
    BY <1>9, HopsOfJoin DEF ProxyInv, Ordered
  <2>2. copy[m][b] = "done" => data'[In(m, b)][b] = 0
    BY <1>2, <1>4, <2>1 DEF OrderedAt
  <2>3. QED
    BY <1>2, <2>1, <2>2 DEF OrderedAt
<1>10. Ordered'
  BY <1>2, <1>9 DEF ProxyInv, Ordered
<1>11. QED
  BY <1>6, <1>8, <1>10 DEF ProxyInv

(* An end that ends or closes its stream is not a join: no copy is concerned. *)
LEMMA EndClosesEffect ==
  ASSUME ProxyInv, NEW e \in Ends,
         fin' = [fin EXCEPT ![HopOf(e)][DirOf(e)] = TRUE],
         shut' = shut \/ shut' = [shut EXCEPT ![HopOf(e)] = @ \cup {e}],
         broken => broken', UNCHANGED <<data, copy, join, cancelled>>
  PROVE  /\ shut' \in [Hops -> SUBSET (0..3)] /\ fin' \in [Hops -> [Dirs -> BOOLEAN]]
         /\ Ordered'
<1>1. /\ HopOf(e) \in Hops /\ DirOf(e) \in Dirs /\ e \in 0..3 /\ e \notin Joins
      /\ \A m \in Joins, d \in Dirs : d = DirOf(e) => Out(m, d) # HopOf(e)
  BY EndFacts
<1>2. fin \in [Hops -> [Dirs -> BOOLEAN]] /\ shut \in [Hops -> SUBSET (0..3)]
  BY DEF ProxyInv, ProxyTypeOK
<1>3. fin' \in [Hops -> [Dirs -> BOOLEAN]]
  BY <1>1, <1>2
<1>4. /\ \A j \in Hops, d \in Dirs : fin[j][d] => fin'[j][d]
      /\ \A j \in Hops, d \in Dirs : fin'[j][d] /\ ~(j = HopOf(e) /\ d = DirOf(e)) => fin[j][d]
  BY <1>1, <1>2
<1>5. shut' \in [Hops -> SUBSET (0..3)] /\ \A j \in Hops : shut'[j] \subseteq shut[j] \cup {e}
  BY <1>1, <1>2
<1>6. ASSUME ~broken, NEW m \in Joins, NEW d \in Dirs
      PROVE  OrderedAt(m, d)'
  <2>1. OrderedAt(m, d) /\ In(m, d) \in Hops /\ Out(m, d) \in Hops /\ m \in Hops /\ m + 1 \in Hops
    BY <1>6, HopsOfJoin DEF ProxyInv, Ordered
  <2>2. copy[m][d] = "done" => fin'[In(m, d)][d] /\ data[In(m, d)][d] = 0
    BY <1>4, <2>1 DEF OrderedAt
  <2>3. fin'[Out(m, d)][d] => copy[m][d] = "done"
    BY <1>1, <1>4, <2>1 DEF OrderedAt
  <2>4. m \in shut'[m] \cup shut'[m + 1] => copy[m][d] = "done"
    BY <1>1, <1>5, <2>1 DEF OrderedAt
  <2>5. QED
    BY <2>2, <2>3, <2>4 DEF OrderedAt
<1>7. Ordered'
  BY <1>6 DEF ProxyInv, Ordered
<1>8. QED
  BY <1>3, <1>5, <1>7

(* A half-close ends a stream and closes nothing.                            *)
LEMMA EndHalfClosesStep ==
  ASSUME ProxyInv, NEW e \in Ends, EndHalfCloses(e)
  PROVE  ProxyInv'
<1>1. /\ fin' = [fin EXCEPT ![HopOf(e)][DirOf(e)] = TRUE]
      /\ UNCHANGED <<data, shut, copy, join, cancelled, broken, sent, received>>
  BY DEF EndHalfCloses, hist
<1>2. fin' \in [Hops -> [Dirs -> BOOLEAN]] /\ Ordered'
  BY <1>1, EndClosesEffect
<1>3. ProxyTypeOK'
  BY <1>1, <1>2 DEF ProxyInv, ProxyTypeOK
<1>4. Conserved'
  BY <1>1, DataStays DEF ProxyInv
<1>5. QED
  BY <1>2, <1>3, <1>4 DEF ProxyInv

(* A close with unread data may discard what is in the hop; it breaks the    *)
(* connection.                                                               *)
LEMMA EndClosesStep ==
  ASSUME ProxyInv, NEW e \in Ends, EndCloses(e)
  PROVE  ProxyInv'
<1>1. /\ fin' = [fin EXCEPT ![HopOf(e)][DirOf(e)] = TRUE]
      /\ shut' = [shut EXCEPT ![HopOf(e)] = @ \cup {e}]
      /\ broken => broken'
      /\ UNCHANGED <<copy, join, cancelled, sent, received>>
  BY DEF EndCloses, hist
<1>2. broken' \in BOOLEAN
  BY Zenon DEF EndCloses
<1>3. CASE data' = data
  <2>1. shut' \in [Hops -> SUBSET (0..3)] /\ fin' \in [Hops -> [Dirs -> BOOLEAN]] /\ Ordered'
    BY <1>1, <1>3, EndClosesEffect
  <2>2. ProxyTypeOK'
    BY <1>1, <1>2, <1>3, <2>1 DEF ProxyInv, ProxyTypeOK
  <2>3. Conserved'
    BY <1>1, <1>3, DataStays DEF ProxyInv
  <2>4. QED
    BY <2>1, <2>2, <2>3 DEF ProxyInv
<1>4. CASE data' # data
  <2>1. broken' /\ data' = [data EXCEPT ![HopOf(e)] = [d \in Dirs |-> 0]]
    BY <1>4 DEF EndCloses
  <2>2. data \in [Hops -> [Dirs -> Nat]] /\ HopOf(e) \in Hops /\ DirOf(e) \in Dirs /\ e \in 0..3
    BY EndFacts, ChunkAssumption DEF ProxyInv, ProxyTypeOK
  <2>3. data' \in [Hops -> [Dirs -> Nat]] /\ \A j \in Hops, d \in Dirs : data'[j][d] <= data[j][d]
    BY <2>1, <2>2
  <2>4. Conserved' /\ Ordered' /\ data' \in [Hops -> [Dirs -> 0..MaxChunks]]
    BY <1>1, <2>1, <2>3, DataLost
  <2>5. shut' \in [Hops -> SUBSET (0..3)]
    BY <1>1, <2>2 DEF ProxyInv, ProxyTypeOK
  <2>6. fin' \in [Hops -> [Dirs -> BOOLEAN]]
    BY <1>1, <2>2 DEF ProxyInv, ProxyTypeOK
  <2>7. ProxyTypeOK'
    BY <1>1, <1>2, <2>4, <2>5, <2>6 DEF ProxyInv, ProxyTypeOK
  <2>8. QED
    BY <2>4, <2>7 DEF ProxyInv
<1>5. QED
  BY <1>3, <1>4

-----------------------------------------------------------------------------
(* Every step preserves the inductive invariant.                             *)
LEMMA NextProxy == ProxyInv /\ [Next]_vars => ProxyInv'
<1> SUFFICES ASSUME ProxyInv, [Next]_vars
             PROVE  ProxyInv'
  OBVIOUS
<1>1. CASE UNCHANGED vars
  BY <1>1 DEF vars, ProxyInv, ProxyTypeOK, Conserved, Total, Ordered, OrderedAt
<1>2. ASSUME NEW n \in Joins, JoinStep(n)
      PROVE  ProxyInv'
  BY <1>2, CopyChunkStep, CopyEndsStep, JoinReturnsStep, ContextClosesStep DEF JoinStep
<1>3. ASSUME NEW e \in Ends, EndStep(e)
      PROVE  ProxyInv'
  BY <1>3, EndSendsStep, EndReadsStep, EndHalfClosesStep, EndClosesStep DEF EndStep
<1>4. QED
  BY <1>1, <1>2, <1>3, CancelSteps DEF Next

(* No chunk is duplicated or made up, and the streams are ordered: the       *)
(* inductive invariant of the joined connection.                             *)
THEOREM ProxyInvariant == Spec => []ProxyInv
  BY InitProxy, NextProxy, PTL DEF Spec

(* The end of a stream reached an end of the connection through both copies, *)
(* each behind the end of a drained stream: what was sent and not received   *)
(* is in the last hop.                                                       *)
LEMMA OrderedIsComplete == ProxyInv => EndOfStreamIsComplete
<1> SUFFICES ASSUME ProxyInv, ~broken, NEW e \in Ends, fin[HopOf(e)][BackOf(e)]
             PROVE  sent[BackOf(e)] = received[BackOf(e)] + data[HopOf(e)][BackOf(e)]
  BY DEF EndOfStreamIsComplete
<1>1. ASSUME NEW d \in Dirs
      PROVE  /\ OrderedAt(1, d) /\ OrderedAt(2, d) /\ Total(d) = sent[d]
             /\ data[1][d] \in Nat /\ data[2][d] \in Nat /\ data[3][d] \in Nat /\ received[d] \in Nat
  BY ChunkAssumption DEF ProxyInv, Ordered, Conserved, ProxyTypeOK, Joins, Client, Gateway, Hops
<1>2. CASE e = App
  <2>1. HopOf(e) = 1 /\ BackOf(e) = "down" /\ BackOf(e) \in Dirs
    BY <1>2 DEF HopOf, BackOf, Dirs
  <2>2. data[2]["down"] = 0 /\ data[3]["down"] = 0
    BY <1>1, <2>1 DEF OrderedAt, In, Out
  <2>3. QED
    BY <1>1, <2>1, <2>2 DEF Total
<1>3. CASE e = Service
  <2>1. HopOf(e) = 3 /\ BackOf(e) = "up" /\ BackOf(e) \in Dirs
    BY <1>3 DEF HopOf, BackOf, Dirs, App, Service
  <2>2. data[2]["up"] = 0 /\ data[1]["up"] = 0
    BY <1>1, <2>1 DEF OrderedAt, In, Out
  <2>3. QED
    BY <1>1, <2>1, <2>2 DEF Total
<1>4. QED
  BY <1>2, <1>3 DEF Ends

(* Unless a context was cancelled, a write refused or a connection reset,    *)
(* the application and the service see the end of a stream only behind every *)
(* chunk that was sent, for any number of chunks.                            *)
THEOREM EndOfStreamComplete == Spec => []EndOfStreamIsComplete
  BY OrderedIsComplete, ProxyInvariant, PTL

=============================================================================
