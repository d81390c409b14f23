------------------------------ MODULE KubeWrites ------------------------------
(***************************************************************************)
(* Both users of RetryOnConflict at work on one API server: the scale of a   *)
(* workload (Scaler) and the Secret of authorized keys (AuthorizedKeys).     *)
(* They share the retry policy and nothing else.                             *)
(***************************************************************************)
EXTENDS Scaler, AuthorizedKeys

kubeVars == <<scalerVars, secretVars>>

KubeInit == ScalerInit /\ SecretInit

KubeNext ==
  \/ ScalerNext /\ UNCHANGED secretVars
  \/ SecretNext /\ UNCHANGED scalerVars

KubeSpec == KubeInit /\ [][KubeNext]_kubeVars /\ ScalerFairness

===============================================================================
