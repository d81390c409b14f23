-------------------------------- MODULE Process --------------------------------
(***************************************************************************)
(* The tearenvd process (cmd/tearenvd/main.go: serve, serveListeners,       *)
(* serveHTTP; internal/server/server.go: Serve).  The SSH gateway and the   *)
(* optional HTTP servers run as goroutines under one context.  The first    *)
(* that returns, with or without an error, cancels the context, and the     *)
(* process ends when all have returned.                                     *)
(*                                                                          *)
(* Each runner has a watcher that closes its server when the context is     *)
(* cancelled.  The SSH runner then shuts the lifecycle engine down before   *)
(* it returns; gateway.Shutdown is abstracted to a call that takes time and *)
(* ends (Lifecycle, ShutdownEnds).  An HTTP Serve returns as soon as its    *)
(* Shutdown is called, not when the requests in flight are answered.        *)
(***************************************************************************)
EXTENDS FiniteSets, Integers

CONSTANT HttpRunners   (* the registration API and the metrics endpoint, if on *)

ASSUME RunnerAssumption == IsFiniteSet(HttpRunners) /\ "ssh" \notin HttpRunners

Runners == HttpRunners \cup {"ssh"}

VARIABLES
  ctx,          (* "live" or "cancelled"                                     *)
  listener,     (* "open", "closed" (by the watcher) or "failed"             *)
  runner,       (* "serving", "closing" (ssh: inside gateway.Shutdown) or    *)
                (* "ended"                                                   *)
  watcher,      (* "waiting", "shutdown" (http: requests drain) or "ended"   *)
  results,      (* runners whose result is in errorsChannel                  *)
  collected,    (* results main has received                                 *)
  main,         (* "waiting" or "exited"                                     *)
  engine        (* the lifecycle engine: "up" or "shut"                      *)

vars == <<ctx, listener, runner, watcher, results, collected, main, engine>>

ProcessTypeOK ==
  /\ ctx \in {"live", "cancelled"}
  /\ listener \in [Runners -> {"open", "closed", "failed"}]
  /\ runner \in [Runners -> {"serving", "closing", "ended"}]
  /\ watcher \in [Runners -> {"waiting", "shutdown", "ended"}]
  /\ results \subseteq Runners
  /\ collected \in 0 .. Cardinality(Runners)
  /\ main \in {"waiting", "exited"}
  /\ engine \in {"up", "shut"}

Init ==
  /\ ctx = "live"
  /\ listener = [r \in Runners |-> "open"]
  /\ runner = [r \in Runners |-> "serving"]
  /\ watcher = [r \in Runners |-> "waiting"]
  /\ results = {}
  /\ collected = 0
  /\ main = "waiting"
  /\ engine = "up"

Alive == main = "waiting"

(* SIGINT or SIGTERM.                                                        *)
Signal ==
  /\ Alive
  /\ ctx = "live"
  /\ ctx' = "cancelled"
  /\ UNCHANGED <<listener, runner, watcher, results, collected, main, engine>>

(* Accept fails for good.                                                    *)
ListenerFails(r) ==
  /\ Alive
  /\ listener[r] = "open"
  /\ listener' = [listener EXCEPT ![r] = "failed"]
  /\ UNCHANGED <<ctx, runner, watcher, results, collected, main, engine>>

(* The watcher sees the context and closes the server (ssh) or calls its     *)
(* Shutdown (http), which waits for requests for at most 5 s.                *)
WatcherCloses(r) ==
  /\ Alive
  /\ watcher[r] = "waiting"
  /\ ctx = "cancelled"
  /\ listener' = [listener EXCEPT ![r] = IF @ = "open" THEN "closed" ELSE @]
  /\ watcher' = [watcher EXCEPT ![r] = IF r = "ssh" THEN "ended" ELSE "shutdown"]
  /\ UNCHANGED <<ctx, runner, results, collected, main, engine>>

DrainEnds(r) ==
  /\ Alive
  /\ watcher[r] = "shutdown"
  /\ watcher' = [watcher EXCEPT ![r] = "ended"]
  /\ UNCHANGED <<ctx, listener, runner, results, collected, main, engine>>

(* The runner has returned: done is closed, and a watcher still waiting ends. *)
WatcherReleased(r) ==
  /\ Alive
  /\ watcher[r] = "waiting"
  /\ runner[r] = "ended"
  /\ watcher' = [watcher EXCEPT ![r] = "ended"]
  /\ UNCHANGED <<ctx, listener, runner, results, collected, main, engine>>

(* Serve returns.  An HTTP runner reports at once, the SSH runner after      *)
(* gateway.Shutdown, whether its listener was closed or failed.              *)
ServeReturns(r) ==
  /\ Alive
  /\ runner[r] = "serving"
  /\ listener[r] # "open"
  /\ IF r = "ssh"
     THEN /\ runner' = [runner EXCEPT ![r] = "closing"]
          /\ UNCHANGED results
     ELSE /\ runner' = [runner EXCEPT ![r] = "ended"]
          /\ results' = results \cup {r}
  /\ UNCHANGED <<ctx, listener, watcher, collected, main, engine>>

GatewayShutdownReturns ==
  /\ Alive
  /\ runner["ssh"] = "closing"
  /\ runner' = [runner EXCEPT !["ssh"] = "ended"]
  /\ results' = results \cup {"ssh"}
  /\ engine' = "shut"
  /\ UNCHANGED <<ctx, listener, watcher, collected, main>>

(* Mutant: the first result does not cancel the context.                     *)
CollectWithoutCancel ==
  /\ Alive
  /\ collected < Cardinality(results)
  /\ collected' = collected + 1
  /\ UNCHANGED <<ctx, listener, runner, watcher, results, main, engine>>

(* main receives a result; the first one cancels the context.                *)
Collect ==
  /\ Alive
  /\ collected < Cardinality(results)
  /\ collected' = collected + 1
  /\ ctx' = "cancelled"
  /\ UNCHANGED <<listener, runner, watcher, results, main, engine>>

(* Mutant: the process ends with the first result.                           *)
ExitOnFirst ==
  /\ Alive
  /\ collected > 0
  /\ main' = "exited"
  /\ UNCHANGED <<ctx, listener, runner, watcher, results, collected, engine>>

(* serveListeners has all results: serve and main return.                    *)
Exit ==
  /\ Alive
  /\ collected = Cardinality(Runners)
  /\ main' = "exited"
  /\ UNCHANGED <<ctx, listener, runner, watcher, results, collected, engine>>

RunnerStep(r) ==
  WatcherCloses(r) \/ DrainEnds(r) \/ WatcherReleased(r) \/ ServeReturns(r)

Next ==
  \/ Signal
  \/ \E r \in Runners : ListenerFails(r) \/ RunnerStep(r)
  \/ GatewayShutdownReturns
  \/ Collect
  \/ Exit

Spec == Init /\ [][Next]_vars

(* Goroutines run, and gateway.Shutdown ends.  Nothing owes a signal or a    *)
(* failure.                                                                  *)
Fairness ==
  /\ \A r \in Runners : WF_vars(RunnerStep(r))
  /\ WF_vars(GatewayShutdownReturns)
  /\ WF_vars(Collect)
  /\ WF_vars(Exit)

FairSpec == Spec /\ Fairness

(* The process never exits before the lifecycle engine has been shut down,   *)
(* whichever server failed first and whoever noticed the end of the context. *)
ExitAfterShutdown == main = "exited" => engine = "shut"

(* What makes it inductive: main has received no more results than were      *)
(* sent, and the SSH runner sends its result behind gateway.Shutdown.        *)
ExitInv ==
  /\ ProcessTypeOK
  /\ collected <= Cardinality(results)
  /\ "ssh" \in results => engine = "shut"
  /\ main = "exited" => results = Runners

(* Nothing half-alive: a signal, or the failure of one server, ends the      *)
(* whole process.                                                            *)
ProcessEnds ==
  (ctx = "cancelled" \/ \E r \in Runners : listener[r] = "failed") ~> main = "exited"

=============================================================================
