----------------------------- MODULE Environment -----------------------------
(***************************************************************************)
(* What the provider talks to and what it leaves behind there: kweb (the    *)
(* kcli REST server, external), the status DCM was last told for an id (the *)
(* NATS subjects dcm.vm and dcm.cluster, external) and the Prometheus gauge *)
(* dcm_kcli_resources_managed.                                              *)
(*                                                                          *)
(* kweb answers the provider's HTTP calls atomically.  A call that the      *)
(* provider gives up on (request or client timeout, connection cut: the     *)
(* client reports ErrKwebUnreachable) may still be executing there: it      *)
(* stays in the set `late' and takes effect at some later step.             *)
(***************************************************************************)
EXTENDS StateStore, Integers

CONSTANTS VMStates,  \* status strings kweb gives a VM in this instance
          Faults,    \* which failures this instance allows
          MaxDrift   \* how far below zero the gauge is followed

ClusterStates == {"building", "bare", "nodes"}

KwebState == {"absent"} \cup VMStates \cup ClusterStates

EventStatus == Status \cup {"DELETED"}

ASSUME EnvironmentAssumption ==
    /\ VMStates \cap ({"absent"} \cup ClusterStates) = {}
    /\ Faults \subseteq {"store", "kweb", "timeout", "nats", "vanish", "crash"}
    /\ None \notin EventStatus
    /\ MaxDrift \in Nat

VARIABLES kweb,     \* type -> kcli name -> state at kweb
          late,     \* calls the provider gave up on, still executing at kweb
          told,     \* id -> status DCM learnt last (create reply or event)
          gauge     \* type -> resources_managed

envVars == <<kweb, late, told, gauge>>

Call == [op : {"create", "delete"}, type : Types, name : Name]

EnvTypeOK ==
    /\ kweb \in [Types -> [Name -> KwebState]]
    /\ late \subseteq Call
    /\ told \in [Id -> EventStatus \cup {None}]
    /\ gauge \in [Types -> Int]

EnvInit ==
    /\ kweb = [t \in Types |-> [n \in Name |-> "absent"]]
    /\ late = {}
    /\ told = [id \in Id |-> None]
    /\ gauge = [t \in Types |-> 0]

----------------------------------------------------------------------------
(* The effect of the calls the provider makes *)

Exists(t, n) == kweb[t][n] # "absent"

\* POST /vms returns when the VM is defined; POST /kubes returns at once and
\* the cluster is not listed until kweb has built it.
KwebCreate(t, n) ==
    /\ ~Exists(t, n)
    /\ \E s \in IF t = "vm" THEN VMStates ELSE {"building"} :
          kweb' = [kweb EXCEPT ![t][n] = s]

KwebDelete(t, n) == kweb' = [kweb EXCEPT ![t][n] = "absent"]

ListVMs == kweb["vm"]

\* A cluster under construction is not in the answer.
ListClusters == [n \in Name |-> IF kweb["cluster"][n] = "building" THEN "absent"
                                ELSE kweb["cluster"][n]]

\* The GET that a poll of type t makes; its failure is MonKwebList's.
KwebListed(t) == IF t = "vm" THEN ListVMs ELSE ListClusters

\* A status event for id: lost when NATS is not connected, and the caller
\* carries on either way.
Publish(id, status) ==
    \/ told' = [told EXCEPT ![id] = status]
    \/ "nats" \in Faults /\ UNCHANGED told

\* ResourcesManaged.Inc() and .Dec(): nothing stops the gauge from going
\* below zero, where it saturates at -MaxDrift.
Inc(t) == gauge' = [gauge EXCEPT ![t] = @ + 1]

Dec(t) == gauge' = [gauge EXCEPT ![t] = IF @ > -MaxDrift THEN @ - 1 ELSE @]

----------------------------------------------------------------------------
(* What kweb does by itself *)

KwebVMChange(n) ==
    /\ "vm" \in Types
    /\ Exists("vm", n)
    /\ \E s \in VMStates \ {kweb["vm"][n]} : kweb' = [kweb EXCEPT !["vm"][n] = s]

KwebClusterProgress(n) ==
    /\ "cluster" \in Types
    /\ \/ kweb["cluster"][n] = "building" /\ kweb' = [kweb EXCEPT !["cluster"][n] = "bare"]
       \/ kweb["cluster"][n] = "bare" /\ kweb' = [kweb EXCEPT !["cluster"][n] = "nodes"]

\* Removed outside DCM (kcli delete), or a cluster deployment that failed.
KwebVanish(t, n) ==
    /\ "vanish" \in Faults
    /\ Exists(t, n)
    /\ KwebDelete(t, n)

\* A call the provider no longer waits for takes effect.
KwebLate(c) ==
    /\ late' = late \ {c}
    /\ \/ c.op = "create" /\ KwebCreate(c.type, c.name)
       \/ c.op = "delete" /\ KwebDelete(c.type, c.name)
       \/ c.op = "create" /\ Exists(c.type, c.name) /\ UNCHANGED kweb

KwebNext ==
    /\ \/ /\ \/ \E n \in Name : KwebVMChange(n) \/ KwebClusterProgress(n)
             \/ \E t \in Types, n \in Name : KwebVanish(t, n)
          /\ UNCHANGED late
       \/ \E c \in late : KwebLate(c)
    /\ UNCHANGED <<told, gauge>>
=============================================================================
