-------------------------------- MODULE MCApi --------------------------------
(* Small instances of the API handlers: an id stands for one resource. *)
EXTENDS Handlers

CONSTANT VMId  \* the ids of VMs

OwnCreates == ({"vm"} \X VMId \X Name) \cup ({"cluster"} \X (Id \ VMId) \X Name)
=============================================================================
