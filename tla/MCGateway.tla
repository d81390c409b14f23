------------------------------- MODULE MCGateway -------------------------------
(* Two identities whose slugs collide share a namespace with one workload;   *)
(* a third has a namespace of its own, and a static service granted directly. *)
EXTENDS Gateway, TLC

CONSTANTS alice, carol, bob, shared, bobs, aliceWeb, carolWeb, bobDirect, app

MCBlueprint == {aliceWeb, carolWeb}
MCGrants == MCBlueprint \cup {bobDirect}
MCWorkloadOf == (aliceWeb :> app) @@ (carolWeb :> app) @@ (bobDirect :> NoWorkload)
MCIdentities == {alice, carol, bob}
MCNamespaceOf == (alice :> shared) @@ (carol :> shared) @@ (bob :> bobs)
MCOwnerOf == (aliceWeb :> alice) @@ (carolWeb :> carol) @@ (bobDirect :> bob)
MCPlaceOf == (app :> shared)
MCObjectOf == (app :> 1)

(* Logins are interchangeable.                                               *)
Symmetry == Permutations(Logins)

(* What later steps and the properties can depend on.  That is neither the   *)
(* history variable nor the map of runtimes (only Shutdown reads it), neither *)
(* the runtime of an idle handler or timer nor the position of an idle login, *)
(* and of what is on its way only what can still change something: an update *)
(* that agrees with the workload's scale is outdated once the scale changes. *)
View ==
  <<backend, mu, active, scaled, idleTimer, timer, pc, closers, shut, todo, expired, up,
    [w \in Workloads |-> Direction(~up[w]) \in late[w]],
    {p \in stray : p[2] \notin objects[p[1]] \/ ForcedToZero(p[1], p[2]) # {}},
    login, identity, services, objects,
    [h \in Handlers |-> IF pc[h] = "idle" THEN NoTimer ELSE key[h]],
    [t \in Timers |-> IF timer[t] = "free" THEN NoTimer ELSE timerKey[t]],
    [l \in Logins |-> IF login[l] = "applying" THEN next[l] ELSE 0]>>
=============================================================================
