--------------------------- MODULE StatusReporting ---------------------------
(***************************************************************************)
(* Status reporting: the monitor over a population of resources that        *)
(* nobody deletes through the API.  Resources appear at any time, under ids *)
(* that are not tracked (Track is a create handler run in one step), and    *)
(* change or vanish at kweb.  The question is whether DCM knows what the    *)
(* store knows.                                                             *)
(***************************************************************************)
EXTENDS Monitor

VARIABLE lost  \* ghost: ids whose last report or last store write failed

reportingVars == <<storeVars, envVars, monitorVars, lost>>

ReportingTypeOK == StoreTypeOK /\ EnvTypeOK /\ MonitorTypeOK /\ lost \subseteq Id

ReportingInit == StoreInit /\ EnvInit /\ MonitorInit /\ lost = {}

----------------------------------------------------------------------------
TrackedEntry(t, n) ==
    [KcliName |-> n, Type |-> t, Age |-> 0,
     Status |-> IF t = "vm" THEN "PROVISIONING" ELSE "CREATING"]

Track(t, id, n) ==
    /\ ~Tracked(id)
    /\ KwebCreate(t, n)
    /\ Put(id, TrackedEntry(t, n))
    /\ Inc(t)
    /\ told' = [told EXCEPT ![id] = TrackedEntry(t, n).Status]
    /\ UNCHANGED <<late, monitorVars, lost>>

\* A report starts: from here on DCM is told or the event is kept.
Visit(t, id) ==
    /\ MonVisit(t, id)
    /\ lost' = IF work'[t] = None THEN lost ELSE lost \ {id}

Report(t) ==
    /\ MonPublish(t)
    /\ lost' = IF told'[work[t].id] = work[t].ev THEN lost ELSE lost \cup {work[t].id}

Flush(id) ==
    /\ FlushPublish(id)
    /\ lost' = IF told'[id] = flushing[id].status THEN lost ELSE lost \cup {id}

Written(t) == LET e == resources'[work[t].id]
              IN  IF work[t].status = "DELETED" THEN e = None
                  ELSE e # None /\ e.Status = work[t].status

Apply(t) ==
    /\ MonApply(t)
    /\ lost' = IF Written(t) THEN lost ELSE lost \cup {work[t].id}

PollingStep ==
    \/ PollStep /\ UNCHANGED lost
    \/ \E t \in Types, id \in Id : Visit(t, id)
    \/ \E t \in Types : Report(t) \/ Apply(t)
    \/ \E id \in Id : Flush(id)

ReportingNext ==
    \/ \E t \in Types, id \in Id, n \in Name : Track(t, id, n)
    \/ PollStart /\ UNCHANGED lost
    \/ PollingStep
    \/ KwebNext /\ UNCHANGED <<storeVars, monitorVars, lost>>
    \/ Tick /\ UNCHANGED lost

ReportingSpec == ReportingInit /\ [][ReportingNext]_reportingVars

\* The ticker fires, the monitor goroutine runs, time passes.
ReportingFairness ==
    /\ WF_reportingVars(PollStart /\ UNCHANGED lost)
    /\ WF_reportingVars(PollingStep)
    /\ WF_reportingVars(Tick /\ UNCHANGED lost)

FairReportingSpec == ReportingSpec /\ ReportingFairness

----------------------------------------------------------------------------
\* The change the monitor is carrying out for id, if any.
WorkOn(id, t) == work[t] # None /\ work[t].id = id

\* The status the monitor has settled on: the one it is carrying out for a
\* resource, or the one in the store.
Settled ==
    [id \in Id |-> IF ~Tracked(id) THEN None
                   ELSE IF WorkOn(id, resources[id].Type)
                   THEN work[resources[id].Type].status
                   ELSE resources[id].Status]

Feed == INSTANCE StatusFeed WITH status <- Settled, Statuses <- EventStatus

\* The monitor with its snapshots, its two goroutines, its debounce map and
\* its flush implements the feed: DCM is never told a status older than the
\* one the monitor has settled on, an id at a time, and a resource is gone
\* only after DELETED was settled on.
ImplementsFeed == Feed!FeedSpec

\* The newest status of id on its way to DCM, or the one DCM has.
InFlight(id, s) ==
    \/ pending[id] # None /\ pending[id].status = s
    \/ flushing[id] # None /\ flushing[id].status = s
    \/ \E t \in Types : WorkOn(id, t) /\ work[t].ev = s
    \/ /\ pending[id] = None /\ flushing[id] = None
       /\ \A t \in Types : WorkOn(id, t) => work[t].ev = None
       /\ told[id] = s

\* The status of id in the store, or the one the monitor is about to write.
Heard(id) ==
    \/ \E t \in Types : WorkOn(id, t) /\ InFlight(id, work[t].status)
    \/ /\ \A t \in Types : ~WorkOn(id, t)
       /\ InFlight(id, resources[id].Status)

\* No status change is silent: the status the store has for a resource (or
\* is about to get, while the monitor is between report and write) is the
\* newest one DCM has been told or that waits in the debounce map, unless a
\* publish or a store write failed.  Neither the debounce, nor the flush, nor
\* two polls following each other make DCM miss or mis-order a change.
NoSilentStatus == \A id \in Id : Tracked(id) /\ id \notin lost => Heard(id)

\* A resource that is no longer tracked has been reported as DELETED.
RemovedMeansReported ==
    \A id \in Id : ~Tracked(id) /\ told[id] # None /\ id \notin lost
                   => told[id] = "DELETED"

\* Once a VM keeps its state at kweb, DCM ends up with the status that state
\* maps to: an event held back by the debounce window is flushed by a later
\* poll, and "down" becomes STOPPED when the provisioning time is over.
Converges ==
    \A id \in Id, n \in Name, s \in VMStates :
        <>[](/\ Tracked(id) /\ resources[id].Type = "vm" /\ resources[id].KcliName = n
             /\ kweb["vm"][n] = s)
        => <>[](told[id] = MapVMStatus(s, MaxAge))

\* No resource stays in CREATING: a cluster that kweb never lists, or lists
\* without nodes, runs into the creation timeout.
CreatingEnds ==
    \A id \in Id : ~ <>[](Tracked(id) /\ resources[id].Status = "CREATING")
=============================================================================
