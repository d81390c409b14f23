-------------------------------- MODULE MCLogin --------------------------------
(* Instances of Login for TLC.                                               *)
EXTENDS Login, TLC

MCPublicKeys == [name : Names, key : Keys]

Symmetry ==
  Permutations(Handlers) \cup Permutations(Subjects) \cup Permutations(Identities)
    \cup Permutations(Homes) \cup Permutations(Names) \cup Permutations(Keys)

(* An idle handler has no request and an idle login no state; of a profile   *)
(* only what CanConnect looks at counts, and only if anything is promised.   *)
View ==
  <<mode, file, mu, pc, answered, certs,
    [h \in Handlers |-> IF pc[h] = "idle" THEN <<>> ELSE <<place[h], reg[h]>>],
    logins, keyFile, at, server, late,
    [h \in Homes |-> IF Promised(h)
       THEN <<profile[h].mode, profile[h].place.id, profile[h].subject,
              IF profile[h].mode = "oidc" THEN profile[h].name ELSE NoProfile>>
       ELSE <<>>],
    [h \in Homes |-> IF at[h] = "idle" THEN <<>> ELSE request[h]],
    [h \in Homes |-> IF at[h] \in {"idle", "named"} THEN NoKey ELSE signer[h]]>>

=============================================================================
