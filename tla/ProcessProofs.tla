----------------------------- MODULE ProcessProofs -----------------------------
(* Proofs about Process, for any finite set of HTTP servers beside the SSH   *)
(* gateway.                                                                  *)
EXTENDS Process, FiniteSetTheorems, TLAPS

(* The results in the channel can be counted, and all of them are there only *)
(* if every runner has sent one.                                             *)
LEMMA ResultsCount ==
  /\ IsFiniteSet(Runners) /\ Cardinality(Runners) \in Nat
  /\ \A R \in SUBSET Runners :
       /\ IsFiniteSet(R) /\ Cardinality(R) \in Nat
       /\ Cardinality(R) <= Cardinality(Runners)
       /\ Cardinality(R) = Cardinality(Runners) => R = Runners
       /\ \A r \in Runners : Cardinality(R) <= Cardinality(R \cup {r})
<1>1. IsFiniteSet(Runners) /\ Cardinality(Runners) \in Nat
  BY RunnerAssumption, FS_AddElement, FS_CardinalityType DEF Runners
<1>2. ASSUME NEW R \in SUBSET Runners
      PROVE  /\ IsFiniteSet(R) /\ Cardinality(R) \in Nat
             /\ Cardinality(R) <= Cardinality(Runners)
             /\ Cardinality(R) = Cardinality(Runners) => R = Runners
  BY <1>1, <1>2, FS_Subset, FS_CardinalityType
<1>3. ASSUME NEW R \in SUBSET Runners, NEW r \in Runners
      PROVE  Cardinality(R) <= Cardinality(R \cup {r})
  BY <1>2, FS_AddElement
<1>4. QED
  BY <1>1, <1>2, <1>3

(* The process starts with no results and nobody has exited.                 *)
LEMMA InitProcess == Init => ExitInv
  BY ResultsCount, FS_EmptySet DEF Init, ExitInv, ProcessTypeOK

(* Every step preserves the invariant: a result is added behind the work it  *)
(* reports, and main counts only what was added.                             *)
LEMMA NextProcess == ExitInv /\ [Next]_vars => ExitInv'
<1> SUFFICES ASSUME ExitInv, [Next]_vars
             PROVE  ExitInv'
  OBVIOUS
<1> USE ResultsCount DEF ExitInv, ProcessTypeOK
<1>1. CASE Signal
  BY <1>1 DEF Signal
<1>2. ASSUME NEW r \in Runners, ListenerFails(r) \/ WatcherCloses(r) \/ DrainEnds(r) \/ WatcherReleased(r)
      PROVE  ExitInv'
  BY <1>2 DEF ListenerFails, WatcherCloses, DrainEnds, WatcherReleased
<1>3. ASSUME NEW r \in Runners, ServeReturns(r)
      PROVE  ExitInv'
  <2>1. CASE r = "ssh"
    BY <1>3, <2>1 DEF ServeReturns
  <2>2. CASE r # "ssh"
    <3>1. /\ results' \in SUBSET Runners
          /\ "ssh" \in results' => "ssh" \in results
      BY <1>3, <2>2 DEF ServeReturns
    <3>2. Cardinality(results) <= Cardinality(results')
      BY <1>3, <2>2 DEF ServeReturns
    <3>3. collected' <= Cardinality(results')
      BY <1>3, <3>2 DEF ServeReturns
    <3>4. main' = "waiting"
      BY <1>3 DEF ServeReturns, Alive
    <3>5. QED
      BY <1>3, <2>2, <3>1, <3>3, <3>4 DEF ServeReturns
  <2>3. QED
    BY <2>1, <2>2
<1>4. CASE GatewayShutdownReturns
  <2>1. "ssh" \in Runners
    BY DEF Runners
  <2>2. Cardinality(results) <= Cardinality(results')
    BY <1>4, <2>1 DEF GatewayShutdownReturns
  <2>3. collected' <= Cardinality(results')
    BY <1>4, <2>1, <2>2 DEF GatewayShutdownReturns
  <2>4. QED
    BY <1>4, <2>1, <2>3 DEF GatewayShutdownReturns, Alive
<1>5. CASE Collect
  BY <1>5 DEF Collect, Alive
<1>6. CASE Exit
  BY <1>6 DEF Exit
<1>7. CASE UNCHANGED vars
  BY <1>7 DEF vars
<1>8. QED
  BY <1>1, <1>2, <1>3, <1>4, <1>5, <1>6, <1>7 DEF Next, RunnerStep

(* The process exits only after the lifecycle engine was shut down, with any *)
(* set of HTTP servers, whichever of them fails or is stopped first.         *)
THEOREM ExitsAfterShutdown == Spec => []ExitAfterShutdown
<1>1. ExitInv => ExitAfterShutdown
  BY DEF ExitInv, ExitAfterShutdown, Runners
<1>2. QED
  BY <1>1, InitProcess, NextProcess, PTL DEF Spec

=============================================================================
