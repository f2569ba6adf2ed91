------------------------------- MODULE MCReads -------------------------------
(* Small instances of the cluster handlers with the kubeconfig cache. *)
EXTENDS KubeconfigCache

AllCreates == Types \X Id \X Name
AllDeletes == Types \X Id
=============================================================================
