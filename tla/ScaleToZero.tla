------------------------------ MODULE ScaleToZero ------------------------------
(***************************************************************************)
(* What the lifecycle engine promises the users of a workload, without      *)
(* mutexes, timers or runtimes: a workload is started on demand, a          *)
(* connection is made only to a running workload, and the workload is       *)
(* stopped only when nobody uses it.  There are two exceptions.  Once the   *)
(* gateway drains (Shutdown) it may stop a workload under its users.  And a *)
(* stop that was asked for when nobody used the workload, and abandoned     *)
(* without an answer, may take effect later, once, unless the workload has  *)
(* been stopped or started meanwhile.                                       *)
(***************************************************************************)
CONSTANTS Clients, Workloads

VARIABLES
  running,   (* workloads whose scale is above zero          *)
  users,     (* the clients connected to each workload       *)
  abandoned, (* workloads with a stop that may still happen  *)
  draining   (* the gateway is shutting down                 *)

vars == <<running, users, abandoned, draining>>

TypeOK ==
  /\ running \in [Workloads -> BOOLEAN]
  /\ users \in [Workloads -> SUBSET Clients]
  /\ abandoned \subseteq Workloads
  /\ draining \in BOOLEAN

Init ==
  /\ running \in [Workloads -> BOOLEAN]
  /\ users = [w \in Workloads |-> {}]
  /\ abandoned = {}
  /\ draining = FALSE

(* A change of state settles what was abandoned before.                      *)
Becomes(w, state) ==
  /\ running' = [running EXCEPT ![w] = state]
  /\ abandoned' = IF running[w] = state THEN abandoned ELSE abandoned \ {w}

Start(w) ==
  /\ Becomes(w, TRUE)
  /\ UNCHANGED <<users, draining>>

Connect(c, w) ==
  /\ running[w]
  /\ \A v \in Workloads : c \notin users[v]
  /\ users' = [users EXCEPT ![w] = @ \cup {c}]
  /\ UNCHANGED <<running, abandoned, draining>>

Disconnect(c, w) ==
  /\ c \in users[w]
  /\ users' = [users EXCEPT ![w] = @ \ {c}]
  /\ UNCHANGED <<running, abandoned, draining>>

Stop(w) ==
  /\ users[w] = {} \/ draining
  /\ Becomes(w, FALSE)
  /\ UNCHANGED <<users, draining>>

Abandon(w) ==
  /\ users[w] = {} \/ draining
  /\ abandoned' = abandoned \cup {w}
  /\ UNCHANGED <<running, users, draining>>

LateStop(w) ==
  /\ w \in abandoned
  /\ Becomes(w, FALSE)
  /\ UNCHANGED <<users, draining>>

Drain ==
  /\ draining' = TRUE
  /\ UNCHANGED <<running, users, abandoned>>

Next ==
  \/ \E w \in Workloads : Start(w) \/ Stop(w) \/ Abandon(w) \/ LateStop(w)
  \/ \E c \in Clients, w \in Workloads : Connect(c, w) \/ Disconnect(c, w)
  \/ Drain

Spec == Init /\ [][Next]_vars

=============================================================================
