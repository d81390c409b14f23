------------------------------ MODULE Environment ------------------------------
(***************************************************************************)
(* Provisioning at login: internal/environment/manager.go on top of         *)
(* internal/kube/blueprint.go, called by the SSH authentication handlers of *)
(* internal/server/server.go before a login is accepted.                    *)
(*                                                                          *)
(* Reconcile applies the namespace (object 0) and then every resource of    *)
(* the rendered blueprint (objects 1..LastObject), stopping at the first    *)
(* error.  Logins of one identity run concurrently and nothing orders them. *)
(* A Patch that fails may have been applied, may be lost, or may arrive     *)
(* later; so may the one that was under way when the gateway crashed.  It   *)
(* carries no version, so nothing outdates it.  The cluster outlives a      *)
(* crash of the gateway, the published services do not.                     *)
(***************************************************************************)
EXTENDS Integers, FiniteSets

CONSTANTS
  Logins,      (* SSH connections being authenticated or authenticated *)
  Identities,
  Namespaces,
  NamespaceOf, (* the namespace rendered for an identity; slugIdentity *)
               (* does not rule out that two identities share one      *)
  LastObject,  (* number of spec.resources of the blueprint            *)
  MaxStray     (* a bound: Patches that are on their way at one time   *)

ASSUME ObjectAssumption == LastObject \in Nat

ASSUME NamespaceAssumption == NamespaceOf \in [Identities -> Namespaces]

VARIABLES
  login,       (* "new", "applying", "accepted" or "rejected"          *)
  identity,    (* the identity of a login                              *)
  next,        (* the object a login applies next                      *)
  services,    (* identities with an entry in Manager.services         *)
  objects,     (* the objects present in a namespace                   *)
  stray        (* Patches nobody waits for that may still arrive       *)

envVars == <<login, identity, next, services, objects, stray>>

Objects == 0 .. LastObject

EnvTypeOK ==
  /\ login \in [Logins -> {"new", "applying", "accepted", "rejected"}]
  /\ identity \in [Logins -> Identities]
  /\ next \in [Logins -> 0 .. LastObject + 1]
  /\ services \subseteq Identities
  /\ objects \in [Namespaces -> SUBSET Objects]
  /\ stray \subseteq Namespaces \X Objects

EnvInit ==
  /\ login = [l \in Logins |-> "new"]
  /\ identity \in [Logins -> Identities]
  /\ next = [l \in Logins |-> 0]
  /\ services = {}
  /\ objects = [ns \in Namespaces |-> {}]
  /\ stray = {}

(* The authenticator accepted the attempt and Provision starts reconciling;  *)
(* Instantiate and instanceServices only render and change nothing.          *)
Authenticate(l) ==
  /\ login[l] = "new"
  /\ login' = [login EXCEPT ![l] = "applying"]
  /\ next' = [next EXCEPT ![l] = 0]
  /\ UNCHANGED <<identity, services, objects, stray>>

(* A rejected credential, a blueprint that does not render for the identity  *)
(* or an object the REST mapper refuses.                                     *)
Reject(l) ==
  /\ login[l] = "new"
  /\ login' = [login EXCEPT ![l] = "rejected"]
  /\ UNCHANGED <<identity, next, services, objects, stray>>

(* The cluster creates or updates object n; a resource needs its namespace.  *)
Create(ns, n) ==
  /\ n > 0 => 0 \in objects[ns]
  /\ objects' = [objects EXCEPT ![ns] = @ \cup {n}]

(* The Patch a reconciling login has sent.                                   *)
Home(l) == NamespaceOf[identity[l]]

InFlight == {<<Home(l), next[l]>> : l \in {m \in Logins : login[m] = "applying" /\ next[m] \in Objects}}

(* Nobody waits for these Patches any more; some may be lost.                *)
Leave(patches) ==
  stray' \in {s \in SUBSET (stray \cup patches) : Cardinality(s) <= MaxStray}

(* Mutant: the loop over the operations runs once too often.                 *)
ApplyPastEnd(l) ==
  /\ login[l] = "applying"
  /\ next[l] <= LastObject + 1
  /\ Create(Home(l), next[l])
  /\ next' = [next EXCEPT ![l] = @ + 1]
  /\ UNCHANGED <<login, identity, services, stray>>

Apply(l) ==
  /\ login[l] = "applying"
  /\ next[l] <= LastObject
  /\ Create(Home(l), next[l])
  /\ next' = [next EXCEPT ![l] = @ + 1]
  /\ UNCHANGED <<login, identity, services, stray>>

(* Mutant: a failed reconciliation withdraws the services of the identity.   *)
ApplyFailsUnpublishes(l) ==
  /\ login[l] = "applying"
  /\ next[l] <= LastObject
  /\ login' = [login EXCEPT ![l] = "rejected"]
  /\ services' = services \ {identity[l]}
  /\ UNCHANGED <<identity, next, objects, stray>>

(* The first failed Patch ends Reconcile, and the login is rejected.  What   *)
(* was applied stays, and so do services published by an earlier login.      *)
ApplyFails(l) ==
  /\ login[l] = "applying"
  /\ next[l] <= LastObject
  /\ \/ Create(Home(l), next[l]) /\ UNCHANGED stray
     \/ UNCHANGED <<objects, stray>>
     \/ Leave({<<Home(l), next[l]>>}) /\ UNCHANGED objects
  /\ login' = [login EXCEPT ![l] = "rejected"]
  /\ UNCHANGED <<identity, next, services>>

(* A Patch of a failed login or of a dead process arrives.                   *)
LatePatch(ns, n) ==
  /\ <<ns, n>> \in stray
  /\ stray' = stray \ {<<ns, n>>}
  /\ Create(ns, n)
  /\ UNCHANGED <<login, identity, next, services>>

(* Mutant: the services are published when reconciliation starts its last    *)
(* object instead of after it.                                               *)
PublishEarly(l) ==
  /\ login[l] = "applying"
  /\ next[l] >= LastObject
  /\ services' = services \cup {identity[l]}
  /\ login' = [login EXCEPT ![l] = "accepted"]
  /\ UNCHANGED <<identity, next, objects, stray>>

(* manager.services[identity] = services; the login is accepted.             *)
Publish(l) ==
  /\ login[l] = "applying"
  /\ next[l] = LastObject + 1
  /\ services' = services \cup {identity[l]}
  /\ login' = [login EXCEPT ![l] = "accepted"]
  /\ UNCHANGED <<identity, next, objects, stray>>

(* The SSH connection ends; the slot serves another client.                  *)
Disconnect(l) ==
  /\ login[l] \in {"accepted", "rejected"}
  /\ login' = [login EXCEPT ![l] = "new"]
  /\ identity' \in {[identity EXCEPT ![l] = i] : i \in Identities}
  /\ UNCHANGED <<next, services, objects, stray>>

LoginStep(l) ==
  \/ Authenticate(l)
  \/ Reject(l)
  \/ Apply(l)
  \/ ApplyFails(l)
  \/ Publish(l)
  \/ Disconnect(l)

(* The gateway process dies and starts again: its memory is gone, and what   *)
(* it had sent may still arrive.                                             *)
Crash ==
  /\ login' = [l \in Logins |-> "new"]
  /\ services' = {}
  /\ Leave(InFlight)
  /\ UNCHANGED <<identity, next, objects>>

EnvNext ==
  \/ Crash
  \/ \E l \in Logins : LoginStep(l)
  \/ \E ns \in Namespaces, n \in Objects : LatePatch(ns, n)

EnvSpec == EnvInit /\ [][EnvNext]_envVars

(* ResolveService and Services find the blueprint services of i.             *)
Visible(i) == i \in services

(* manager.go: services are published "only after every Kubernetes object    *)
(* has been applied successfully", whatever concurrent logins of the same    *)
(* identity, or of another one in the same namespace, fail half way and      *)
(* wherever the gateway crashed before.                                      *)
VisibleMeansComplete ==
  \A i \in Identities : Visible(i) => objects[NamespaceOf[i]] = Objects

(* An accepted login sees its environment for as long as it is connected.    *)
AcceptedMeansVisible == \A l \in Logins : login[l] = "accepted" => Visible(identity[l])

(* What makes the properties inductive: a reconciliation has applied the     *)
(* objects before its next one.                                              *)
EnvInv ==
  /\ EnvTypeOK
  /\ VisibleMeansComplete
  /\ AcceptedMeansVisible
  /\ \A l \in Logins :
       login[l] = "applying" => \A n \in Objects : n < next[l] => n \in objects[Home(l)]
=============================================================================
