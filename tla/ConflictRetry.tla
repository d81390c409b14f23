----------------------------- MODULE ConflictRetry -----------------------------
(* retry.DefaultRetry of client-go, which every RetryOnConflict loop of       *)
(* internal/kube uses: the number of attempts.  Its delays are left out.      *)
EXTENDS Integers

CONSTANT Steps

ASSUME StepsAssumption == Steps \in Nat \ {0}

================================================================================
