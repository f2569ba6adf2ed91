------------------------------- MODULE Monitor -------------------------------
(***************************************************************************)
(* The status monitor (internal/monitor): one goroutine that polls; a poll  *)
(* runs pollVMs and pollClusters in parallel, waits for both, flushes the   *)
(* debounced events and looks for orphans.  pollVMs/pollClusters list kweb, *)
(* then the store, and then walk the store's list: every decision is taken  *)
(* on these two snapshots, every write goes to the store as it is by then.  *)
(* (refreshProfiles, the third goroutine of a poll, shares no state with    *)
(* the rest of it.)                                                         *)
(*                                                                          *)
(* Durations are ages that Tick advances and that saturate where the code   *)
(* no longer tells them apart.                                              *)
(***************************************************************************)
EXTENDS Environment

CONSTANTS ProvisioningThreshold, ClusterCreateTimeout, DebounceWindow

PendingEvent == [type : Types, status : EventStatus]
\* ev is the event publishWithDebounce is about to publish, None if it is
\* held back or out already.
Change == [id : Id, status : EventStatus, ev : EventStatus \cup {None}]

ASSUME MonitorAssumption ==
    /\ ProvisioningThreshold \in Nat /\ ProvisioningThreshold =< MaxAge
    /\ ClusterCreateTimeout \in Nat /\ ClusterCreateTimeout < MaxAge
    /\ DebounceWindow \in Nat
    /\ None \notin Nat
    /\ None \notin PendingEvent
    /\ None \notin Change

VARIABLES poll,          \* "idle", "polling" (wg.Wait) or "flushing"
          mpc,           \* type -> step of pollVMs / pollClusters
          seen,          \* type -> kweb's list (kwebMap)
          listed,        \* type -> the store's list
          left,          \* type -> ids of the list not visited yet
          work,          \* type -> the change being carried out, if any
          pending,       \* id -> event held back by the debounce window
          sincePublish,  \* id -> age of lastPublish[id]
          flushing,      \* id -> event flushPending has taken out of pending
          seenOrphans    \* VM names already reported as orphans

pollVars == <<poll, mpc, seen, listed, left, work>>
debounceVars == <<pending, sincePublish, flushing>>
monitorVars == <<poll, mpc, seen, listed, left, work,
                 pending, sincePublish, flushing, seenOrphans>>

MonitorTypeOK ==
    /\ poll \in {"idle", "polling", "flushing"}
    /\ mpc \in [Types -> {"kweb", "store", "each", "done"}]
    /\ seen \in [Types -> [Name -> KwebState] \cup {None}]
    /\ listed \in [Types -> [Id -> ResourceEntry \cup {None}]]
    /\ left \in [Types -> SUBSET Id]
    /\ work \in [Types -> Change \cup {None}]
    /\ pending \in [Id -> PendingEvent \cup {None}]
    /\ sincePublish \in [Id -> (0..DebounceWindow) \cup {None}]
    /\ flushing \in [Id -> PendingEvent \cup {None}]
    /\ seenOrphans \subseteq Name

Nothing == [id \in Id |-> None]

MonitorInit ==
    /\ poll = "idle"
    /\ mpc = [t \in Types |-> "done"]
    /\ seen = [t \in Types |-> None]
    /\ listed = [t \in Types |-> Nothing]
    /\ left = [t \in Types |-> {}]
    /\ work = [t \in Types |-> None]
    /\ pending = Nothing
    /\ sincePublish = Nothing
    /\ flushing = Nothing
    /\ seenOrphans = {}

----------------------------------------------------------------------------
(* status.go *)

\* Mutant: kweb's own status string is passed on.
MapVMStatusRaw(s, age) == s

MapVMStatus(s, age) ==
    CASE s \in {"up", "running"} -> "RUNNING"
      [] s \in {"down", "shutoff"} ->
            IF age < ProvisioningThreshold THEN "PROVISIONING" ELSE "STOPPED"
      [] s \in {"paused", "suspended"} -> "PAUSED"
      [] s \in {"shuttingdown", "stopping", "powering-off"} -> "STOPPING"
      [] OTHER -> "ERROR"

\* Mutant: a cluster without nodes is being created for ever.
MapClusterStatusPatient(hasNodes, age) == IF hasNodes THEN "ACTIVE" ELSE "CREATING"

MapClusterStatus(hasNodes, age) ==
    CASE hasNodes -> "ACTIVE"
      [] ~hasNodes /\ age > ClusterCreateTimeout -> "ERROR"
      [] OTHER -> "CREATING"

\* What pollVMs decides for a listed entry: the status to report, or None.
VMVerdict(e, s) ==
    IF s = "absent"
    THEN IF e.Status = "DELETING" THEN None ELSE "DELETED"
    ELSE IF MapVMStatus(s, e.Age) = e.Status THEN None ELSE MapVMStatus(s, e.Age)

\* ... and pollClusters.
ClusterVerdict(e, s) ==
    IF s = "absent"
    THEN IF e.Status = "CREATING"
         THEN IF e.Age > ClusterCreateTimeout THEN "ERROR" ELSE None
         ELSE IF e.Status = "DELETING" THEN None ELSE "DELETED"
    ELSE LET new == MapClusterStatus(s = "nodes", e.Age)
         IN  IF new = e.Status THEN None ELSE new

Verdict(t, e, s) == IF t = "vm" THEN VMVerdict(e, s) ELSE ClusterVerdict(e, s)

----------------------------------------------------------------------------
(* poll *)

PollStart ==
    /\ poll = "idle"
    /\ poll' = "polling"
    /\ mpc' = [t \in Types |-> "kweb"]
    /\ UNCHANGED <<storeVars, envVars, seen, listed, left, work, debounceVars, seenOrphans>>

MonKwebList(t) ==
    /\ mpc[t] = "kweb"
    /\ \/ mpc' = [mpc EXCEPT ![t] = "store"] /\ seen' = [seen EXCEPT ![t] = KwebListed(t)]
       \/ "kweb" \in Faults /\ mpc' = [mpc EXCEPT ![t] = "done"] /\ UNCHANGED seen
    /\ UNCHANGED <<storeVars, envVars, poll, listed, left, work, debounceVars, seenOrphans>>

MonStoreList(t) ==
    /\ mpc[t] = "store"
    /\ \/ /\ mpc' = [mpc EXCEPT ![t] = "each"]
          /\ listed' = [listed EXCEPT ![t] = List(t)]
          /\ left' = [left EXCEPT ![t] = {id \in Id : List(t)[id] # None}]
       \/ "store" \in Faults /\ mpc' = [mpc EXCEPT ![t] = "done"] /\ UNCHANGED <<listed, left>>
    /\ UNCHANGED <<storeVars, envVars, poll, seen, work, debounceVars, seenOrphans>>

Elapsed(id) == sincePublish[id] = None \/ sincePublish[id] = DebounceWindow

\* Mutant: an event inside the debounce window is dropped.
publishWithDebounceDrops(t, id, status) ==
    /\ sincePublish' = IF Elapsed(id) THEN [sincePublish EXCEPT ![id] = 0] ELSE sincePublish
    /\ pending' = IF Elapsed(id) THEN [pending EXCEPT ![id] = None] ELSE pending
    /\ work' = [work EXCEPT ![t] = [id |-> id, status |-> status,
                                    ev |-> IF Elapsed(id) THEN status ELSE None]]

\* The event replaces the one pending for id; outside the debounce window it
\* is extracted at once, to be published after the mutex is released.
publishWithDebounce(t, id, status) ==
    /\ pending' = [pending EXCEPT ![id] =
                      IF Elapsed(id) THEN None ELSE [type |-> t, status |-> status]]
    /\ sincePublish' = IF Elapsed(id) THEN [sincePublish EXCEPT ![id] = 0] ELSE sincePublish
    /\ work' = [work EXCEPT ![t] = [id |-> id, status |-> status,
                                    ev |-> IF Elapsed(id) THEN status ELSE None]]

\* One round of the loop over the list: no change, or a change to report.
MonVisit(t, id) ==
    LET v == Verdict(t, listed[t][id], seen[t][listed[t][id].KcliName])
    IN  /\ mpc[t] = "each"
        /\ work[t] = None
        /\ id \in left[t]
        /\ left' = [left EXCEPT ![t] = @ \ {id}]
        /\ \/ v = None /\ UNCHANGED <<pending, sincePublish, work>>
           \/ v # None /\ publishWithDebounce(t, id, v)
        /\ UNCHANGED <<storeVars, envVars, poll, mpc, seen, listed, flushing, seenOrphans>>

MonPublish(t) ==
    /\ work[t] # None
    /\ work[t].ev # None
    /\ Publish(work[t].id, work[t].ev)
    /\ work' = [work EXCEPT ![t].ev = None]
    /\ UNCHANGED <<storeVars, kweb, late, gauge, poll, mpc, seen, listed, left,
                   debounceVars, seenOrphans>>

\* Mutant: an entry in ERROR is dropped like one that is gone.
MonApplyDropsErrors(t) ==
    /\ work[t] # None
    /\ work[t].ev = None
    /\ work' = [work EXCEPT ![t] = None]
    /\ LET id == work[t].id
       IN  IF work[t].status \in {"DELETED", "ERROR"}
           THEN /\ Delete(id)
                /\ Dec(t)
                /\ pending' = [pending EXCEPT ![id] = None]
                /\ sincePublish' = [sincePublish EXCEPT ![id] = None]
           ELSE /\ UpdateStatus(id, work[t].status)
                /\ UNCHANGED <<gauge, pending, sincePublish>>
    /\ UNCHANGED <<kweb, late, told, poll, mpc, seen, listed, left,
                   flushing, seenOrphans>>

\* The store write that follows the report; its error is ignored.  For an
\* entry that is gone: the gauge and the debounce maps as well.
MonApply(t) ==
    /\ work[t] # None
    /\ work[t].ev = None
    /\ work' = [work EXCEPT ![t] = None]
    /\ LET id == work[t].id
       IN  IF work[t].status = "DELETED"
           THEN /\ \/ Delete(id)
                   \/ "store" \in Faults /\ UNCHANGED storeVars
                /\ Dec(t)
                /\ pending' = [pending EXCEPT ![id] = None]
                /\ sincePublish' = [sincePublish EXCEPT ![id] = None]
           ELSE /\ \/ UpdateStatus(id, work[t].status)
                   \/ "store" \in Faults /\ UNCHANGED storeVars
                /\ UNCHANGED <<gauge, pending, sincePublish>>
    /\ UNCHANGED <<kweb, late, told, poll, mpc, seen, listed, left,
                   flushing, seenOrphans>>

MonDone(t) ==
    /\ mpc[t] = "each"
    /\ work[t] = None
    /\ left[t] = {}
    /\ mpc' = [mpc EXCEPT ![t] = "done"]
    /\ UNCHANGED <<storeVars, envVars, poll, seen, listed, left, work, debounceVars, seenOrphans>>

\* Mutant: flushPending leaves ids that were published before alone.
FlushStartFirstOnly ==
    LET due == {id \in Id : pending[id] # None /\ sincePublish[id] = None}
    IN  /\ poll = "polling"
        /\ \A t \in Types : mpc[t] = "done"
        /\ poll' = "flushing"
        /\ flushing' = [id \in Id |-> IF id \in due THEN pending[id] ELSE None]
        /\ pending' = [id \in Id |-> IF id \in due THEN None ELSE pending[id]]
        /\ sincePublish' = [id \in Id |-> IF id \in due THEN 0 ELSE sincePublish[id]]
        /\ UNCHANGED <<storeVars, envVars, mpc, seen, listed, left, work, seenOrphans>>

\* flushPending, under the mutex: take out every event whose window is over.
FlushStart ==
    LET due == {id \in Id : pending[id] # None /\ Elapsed(id)}
    IN  /\ poll = "polling"
        /\ \A t \in Types : mpc[t] = "done"
        /\ poll' = "flushing"
        /\ flushing' = [id \in Id |-> IF id \in due THEN pending[id] ELSE None]
        /\ pending' = [id \in Id |-> IF id \in due THEN None ELSE pending[id]]
        /\ sincePublish' = [id \in Id |-> IF id \in due THEN 0 ELSE sincePublish[id]]
        /\ UNCHANGED <<storeVars, envVars, mpc, seen, listed, left, work, seenOrphans>>

FlushPublish(id) ==
    /\ flushing[id] # None
    /\ Publish(id, flushing[id].status)
    /\ flushing' = [flushing EXCEPT ![id] = None]
    /\ UNCHANGED <<storeVars, kweb, late, gauge, pollVars, pending, sincePublish,
                   seenOrphans>>

\* detectVMOrphans on the lists pollVMs returned (it returns none of either
\* when kweb's list failed, and no store list when that failed).
detectVMOrphans ==
    IF "vm" \in Types /\ seen["vm"] # None
    THEN {n \in Name : /\ seen["vm"][n] # "absent"
                       /\ \A id \in Id : listed["vm"][id] # None
                                         => listed["vm"][id].KcliName # n}
    ELSE seenOrphans

\* Mutant: the orphans are not remembered.
PollEndNoOrphans ==
    /\ poll = "flushing"
    /\ flushing = Nothing
    /\ poll' = "idle"
    /\ seen' = [t \in Types |-> None]
    /\ listed' = [t \in Types |-> Nothing]
    /\ UNCHANGED <<storeVars, envVars, mpc, left, work, debounceVars, seenOrphans>>

PollEnd ==
    /\ poll = "flushing"
    /\ flushing = Nothing
    /\ poll' = "idle"
    /\ seenOrphans' = detectVMOrphans
    /\ seen' = [t \in Types |-> None]
    /\ listed' = [t \in Types |-> Nothing]
    /\ UNCHANGED <<storeVars, envVars, mpc, left, work, debounceVars>>

\* The steps of a poll that talk to nobody outside the process and kweb ...
PollStep ==
    \/ \E t \in Types : MonKwebList(t) \/ MonStoreList(t) \/ MonDone(t)
    \/ FlushStart
    \/ PollEnd

\* ... and the ones that report a change and carry it out.
ReportStep ==
    \/ \E t \in Types : \/ \E id \in Id : MonVisit(t, id)
                        \/ MonPublish(t)
                        \/ MonApply(t)
    \/ \E id \in Id : FlushPublish(id)

MonitorStep == PollStep \/ ReportStep

----------------------------------------------------------------------------
(* Time *)

Older(e) == IF e # None /\ e.Age < MaxAge THEN [e EXCEPT !.Age = @ + 1] ELSE e

TickStore == resources' = [id \in Id |-> Older(resources[id])]

Tick ==
    /\ TickStore
    /\ listed' = [t \in Types |-> [id \in Id |-> Older(listed[t][id])]]
    /\ sincePublish' = [id \in Id |-> IF sincePublish[id] = None
                                         \/ sincePublish[id] = DebounceWindow
                                      THEN sincePublish[id] ELSE sincePublish[id] + 1]
    /\ UNCHANGED <<nameIndex, envVars, poll, mpc, seen, left, work, pending, flushing,
                   seenOrphans>>
=============================================================================
