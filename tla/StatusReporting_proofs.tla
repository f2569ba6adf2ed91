------------------------ MODULE StatusReporting_proofs ------------------------
(* No status change is silent, for any number of resources and polls.        *)
EXTENDS StatusReporting, Monitor_proofs

\* A goroutine of the monitor is at work only in its phase of the poll.
PollPhases ==
    /\ poll # "polling" => \A t \in Types : mpc[t] = "done"
    /\ poll # "flushing" => \A id \in Id : flushing[id] = None
    /\ \A t \in Types : mpc[t] # "each" => work[t] = None /\ left[t] = {}

\* The two goroutines never work on one id: what is left to visit and what is
\* being carried out are tracked resources of the goroutine's own type.
OwnIds ==
    \A t \in Types :
        /\ \A id \in left[t] : Tracked(id) /\ resources[id].Type = t
        /\ work[t] # None => /\ Tracked(work[t].id)
                             /\ resources[work[t].id].Type = t
                             /\ work[t].id \notin left[t]

\* At most one event of an id is on its way, and none of an id that is gone.
OneEvent ==
    /\ \A id \in Id : pending[id] # None => Tracked(id) /\ flushing[id] = None
    /\ \A id \in Id : flushing[id] # None => Tracked(id)
    /\ \A t \in Types : work[t] # None /\ work[t].ev # None
                        => work[t].ev = work[t].status /\ pending[work[t].id] = None

ReportingInv == ReportingTypeOK /\ PollPhases /\ OwnIds /\ OneEvent /\ NoSilentStatus

----------------------------------------------------------------------------
(* Types *)

\* A resource that appears is stored and counted like any other.
LEMMA TrackType ==
    ASSUME ReportingTypeOK, NEW t \in Types, NEW id \in Id, NEW n \in Name, Track(t, id, n)
    PROVE  ReportingTypeOK'
<1>1. TrackedEntry(t, n) \in ResourceEntry /\ TrackedEntry(t, n).Status \in EventStatus
  BY StoreAssumption DEF TrackedEntry, ResourceEntry, Status, EventStatus
<1>2. StoreTypeOK'
  BY <1>1, PutType DEF Track, ReportingTypeOK
<1>3. EnvTypeOK'
  <2>1. kweb' \in [Types -> [Name -> KwebState]]
    BY KwebCreateType DEF Track, ReportingTypeOK
  <2>2. gauge' \in [Types -> Int]
    BY DEF Track, Inc, ReportingTypeOK, EnvTypeOK
  <2>3. told' \in [Id -> EventStatus \cup {None}]
    BY <1>1 DEF Track, ReportingTypeOK, EnvTypeOK
  <2> QED BY <2>1, <2>2, <2>3 DEF Track, ReportingTypeOK, EnvTypeOK
<1>4. MonitorTypeOK' /\ lost' \subseteq Id
  BY DEF Track, ReportingTypeOK, monitorVars, MonitorTypeOK
<1> QED BY <1>2, <1>3, <1>4 DEF ReportingTypeOK

\* Every step of the monitor, of kweb and of time keeps the types.
LEMMA ReportingStepType ==
    ASSUME ReportingTypeOK, ReportingNext
    PROVE  ReportingTypeOK'
<1>0. MonTypeOK
  BY DEF ReportingTypeOK, MonTypeOK
<1>1. ASSUME NEW t \in Types, NEW id \in Id, NEW n \in Name, Track(t, id, n)
      PROVE  ReportingTypeOK'
  BY <1>1, TrackType
<1>2. CASE (PollStart \/ PollStep) /\ UNCHANGED lost
  BY <1>0, <1>2, PollStepType DEF MonTypeOK, ReportingTypeOK
<1>3. ASSUME NEW t \in Types, NEW id \in Id, Visit(t, id)
      PROVE  ReportingTypeOK'
  BY <1>0, <1>3, VisitType DEF Visit, MonTypeOK, ReportingTypeOK
<1>4. ASSUME NEW t \in Types, Report(t) \/ Apply(t)
      PROVE  ReportingTypeOK'
  <2>1. work[t] # None
    BY <1>4 DEF Report, Apply, MonPublish, MonApply
  <2>2. work[t].id \in Id
    BY <2>1 DEF ReportingTypeOK, MonitorTypeOK, Change
  <2>3. lost' \subseteq Id
    BY <1>4, <2>2 DEF Report, Apply, ReportingTypeOK
  <2> QED BY <1>0, <1>4, <2>3, MonPublishType, MonApplyType
             DEF Report, Apply, MonTypeOK, ReportingTypeOK
<1>5. ASSUME NEW id \in Id, Flush(id)
      PROVE  ReportingTypeOK'
  BY <1>0, <1>5, FlushPublishType DEF Flush, MonTypeOK, ReportingTypeOK
<1>6. CASE KwebNext /\ UNCHANGED <<storeVars, monitorVars, lost>>
  BY <1>6, KwebNextType
     DEF ReportingTypeOK, storeVars, monitorVars, StoreTypeOK, MonitorTypeOK
<1>7. CASE Tick /\ UNCHANGED lost
  BY <1>0, <1>7, TickType DEF MonTypeOK, ReportingTypeOK
<1> QED BY <1>1, <1>2, <1>3, <1>4, <1>5, <1>6, <1>7 DEF ReportingNext, PollingStep

----------------------------------------------------------------------------
(* The invariant, one lemma per kind of step *)

\* What DCM knows of an id changes only with what is recorded for that id.
LEMMA HeardFrame ==
    ASSUME NEW id \in Id, Heard(id),
           pending'[id] = pending[id], flushing'[id] = flushing[id], told'[id] = told[id],
           \A t \in Types : /\ WorkOn(id, t)' <=> WorkOn(id, t)
                            /\ WorkOn(id, t) => work'[t] = work[t],
           resources'[id].Status = resources[id].Status
    PROVE  Heard(id)'
  BY DEF Heard, InFlight, WorkOn

\* The records of a step that touches neither the store nor the events.
LEMMA ReportingFrame ==
    ASSUME ReportingInv, UNCHANGED <<told, pending, flushing, work, lost>>,
           \A id \in Id : /\ Tracked(id)' <=> Tracked(id)
                          /\ Tracked(id) => /\ resources'[id].Status = resources[id].Status
                                            /\ resources'[id].Type = resources[id].Type
    PROVE  /\ OneEvent'
           /\ NoSilentStatus'
           /\ UNCHANGED left => OwnIds'
<1>0. \A t \in Types : /\ left[t] \subseteq Id
                       /\ work[t] # None => work[t].id \in Id
  BY DEF ReportingInv, ReportingTypeOK, MonitorTypeOK, Change
<1>1. OneEvent'
  BY DEF ReportingInv, OneEvent
<1>2. NoSilentStatus'
  <2> SUFFICES ASSUME NEW id \in Id, Tracked(id)', id \notin lost'
               PROVE  Heard(id)'
    BY DEF NoSilentStatus
  <2>1. Heard(id)
    BY DEF ReportingInv, NoSilentStatus
  <2> QED BY <2>1, HeardFrame DEF WorkOn
<1>3. UNCHANGED left => OwnIds'
  <2> SUFFICES ASSUME UNCHANGED left, NEW t \in Types
               PROVE  /\ \A id \in left[t] : Tracked(id)' /\ resources'[id].Type = t
                      /\ work[t] # None => /\ resources'[work[t].id] # None
                                           /\ resources'[work[t].id].Type = t
                                           /\ work[t].id \notin left[t]
    BY DEF OwnIds, Tracked
  <2>1. \A id \in left[t] : Tracked(id)' /\ resources'[id].Type = t
    BY <1>0 DEF ReportingInv, OwnIds
  <2>2. work[t] # None => /\ resources'[work[t].id] # None
                          /\ resources'[work[t].id].Type = t
                          /\ work[t].id \notin left[t]
    BY <1>0 DEF ReportingInv, OwnIds, Tracked
  <2> QED BY <2>1, <2>2
<1> QED BY <1>1, <1>2, <1>3

\* A resource that appears is reported by the reply to its create.
LEMMA TrackStep ==
    ASSUME ReportingInv, NEW t \in Types, NEW id \in Id, NEW n \in Name, Track(t, id, n)
    PROVE  PollPhases' /\ OwnIds' /\ OneEvent' /\ NoSilentStatus'
<1> USE StoreAssumption
<1>0. \A u \in Types : /\ left[u] \subseteq Id
                       /\ work[u] # None => work[u].id \in Id
  BY DEF ReportingInv, ReportingTypeOK, MonitorTypeOK, Change
<1>1. UNCHANGED monitorVars /\ ~Tracked(id) /\ lost' = lost
  BY DEF Track
<1>2. \A j \in Id : /\ j # id => resources'[j] = resources[j] /\ told'[j] = told[j]
                    /\ Tracked(j)' <=> (Tracked(j) \/ j = id)
  <2>1. TrackedEntry(t, n) # None
    BY DEF TrackedEntry, ResourceEntry, Status
  <2> QED
    BY <2>1 DEF Track, Put, Tracked, ReportingInv, ReportingTypeOK, StoreTypeOK, EnvTypeOK
<1>3. told'[id] = resources'[id].Status
  BY DEF Track, Put, TrackedEntry, ReportingInv, ReportingTypeOK, StoreTypeOK, EnvTypeOK
<1>4. PollPhases'
  BY <1>1 DEF ReportingInv, PollPhases, monitorVars
<1>5. OwnIds'
  <2>1. UNCHANGED <<left, work>>
    BY <1>1 DEF monitorVars
  <2> SUFFICES ASSUME NEW u \in Types
               PROVE  /\ \A j \in left[u] : Tracked(j)' /\ resources'[j].Type = u
                      /\ work[u] # None => /\ resources'[work[u].id] # None
                                           /\ resources'[work[u].id].Type = u
                                           /\ work[u].id \notin left[u]
    BY <2>1 DEF OwnIds, Tracked
  <2>2. \A j \in left[u] : Tracked(j)' /\ resources'[j].Type = u
    BY <1>0, <1>1, <1>2 DEF ReportingInv, OwnIds
  <2>3. work[u] # None => /\ resources'[work[u].id] # None
                          /\ resources'[work[u].id].Type = u
                          /\ work[u].id \notin left[u]
    BY <1>0, <1>1, <1>2 DEF ReportingInv, OwnIds, Tracked
  <2> QED BY <2>2, <2>3
<1>6. OneEvent'
  BY <1>1, <1>2 DEF ReportingInv, OneEvent, monitorVars
<1>7. ASSUME NEW j \in Id, Tracked(j)', j \notin lost'
      PROVE  Heard(j)'
  <2>1. CASE j = id
    <3>1. pending[id] = None /\ flushing[id] = None /\ \A u \in Types : ~WorkOn(id, u)
      BY <1>1 DEF ReportingInv, OneEvent, OwnIds, WorkOn
    <3> QED BY <1>1, <1>3, <2>1, <3>1 DEF Heard, InFlight, WorkOn, monitorVars
  <2>2. CASE j # id
    <3>1. Heard(j)
      BY <1>1, <1>2, <1>7, <2>2 DEF ReportingInv, NoSilentStatus, Tracked
    <3>2. UNCHANGED <<pending, flushing, work>>
      BY <1>1 DEF monitorVars
    <3>3. resources'[j] = resources[j] /\ told'[j] = told[j]
      BY <1>2, <2>2
    <3>4. \A u \in Types : /\ WorkOn(j, u)' <=> WorkOn(j, u)
                           /\ WorkOn(j, u) => work'[u] = work[u]
      BY <3>2 DEF WorkOn
    <3> QED BY <3>1, <3>2, <3>3, <3>4, HeardFrame
  <2> QED BY <2>1, <2>2
<1> QED BY <1>4, <1>5, <1>6, <1>7 DEF NoSilentStatus

\* Listing, the flush's critical section and the end of a poll report nothing.
LEMMA PollStepStep ==
    ASSUME ReportingInv, PollStart \/ PollStep, UNCHANGED lost
    PROVE  PollPhases' /\ OwnIds' /\ OneEvent' /\ NoSilentStatus'
<1>a. UNCHANGED storeVars => \A id \in Id : /\ Tracked(id)' <=> Tracked(id)
                                            /\ resources'[id] = resources[id]
  BY DEF storeVars, Tracked
<1>1. CASE PollStart
  <2>1. PollPhases'
    BY <1>1 DEF PollStart, ReportingInv, PollPhases, debounceVars
  <2> QED BY <1>1, <1>a, <2>1, ReportingFrame DEF PollStart, debounceVars, envVars
<1>2. ASSUME NEW t \in Types, MonKwebList(t) \/ MonDone(t)
      PROVE  PollPhases' /\ OwnIds' /\ OneEvent' /\ NoSilentStatus'
  <2>1. PollPhases'
    BY <1>2 DEF MonKwebList, MonDone, ReportingInv, ReportingTypeOK, MonitorTypeOK,
                PollPhases, debounceVars
  <2> QED BY <1>2, <1>a, <2>1, ReportingFrame DEF MonKwebList, MonDone, debounceVars, envVars
<1>3. ASSUME NEW t \in Types, MonStoreList(t)
      PROVE  PollPhases' /\ OwnIds' /\ OneEvent' /\ NoSilentStatus'
  <2>1. PollPhases'
    BY <1>3 DEF MonStoreList, ReportingInv, ReportingTypeOK, MonitorTypeOK,
                PollPhases, debounceVars
  <2>2. OneEvent' /\ NoSilentStatus'
    BY <1>3, <1>a, ReportingFrame DEF MonStoreList, debounceVars, envVars
  <2>3. OwnIds'
    <3>1. work[t] = None /\ work' = work
      BY <1>3 DEF MonStoreList, ReportingInv, PollPhases
    <3>2. \A u \in Types : u # t => left'[u] = left[u]
      BY <1>3 DEF MonStoreList, ReportingInv, ReportingTypeOK, MonitorTypeOK
    <3>3. \A id \in left'[t] : id \in Id /\ (id \in left[t] \/ List(t)[id] # None)
      BY <1>3 DEF MonStoreList, ReportingInv, ReportingTypeOK, MonitorTypeOK
    <3>4. \A id \in left'[t] : id \in Id /\ Tracked(id) /\ resources[id].Type = t
      BY <3>3 DEF List, ReportingInv, OwnIds
    <3>5. \A u \in Types : work[u] # None => work[u].id \in Id
      BY DEF ReportingInv, ReportingTypeOK, MonitorTypeOK, Change
    <3>6. \A u \in Types : left[u] \subseteq Id
      BY DEF ReportingInv, ReportingTypeOK, MonitorTypeOK
    <3>7. resources' = resources
      BY <1>3 DEF MonStoreList, storeVars
    <3> QED BY <3>1, <3>2, <3>4, <3>5, <3>6, <3>7 DEF ReportingInv, OwnIds, Tracked
  <2> QED BY <2>1, <2>2, <2>3
<1>4. CASE FlushStart
  <2>0. resources' = resources /\ told' = told /\ work' = work /\ left' = left /\ mpc' = mpc
    BY <1>4 DEF FlushStart, storeVars, envVars
  <2>1. \A t \in Types : work[t] = None /\ left[t] = {}
    BY <1>4 DEF FlushStart, ReportingInv, PollPhases
  <2>2. PollPhases'
    BY <1>4, <2>0 DEF FlushStart, ReportingInv, PollPhases
  <2>3. OwnIds'
    BY <2>0, <2>1 DEF OwnIds
  <2>4. \A id \in Id : /\ flushing[id] = None
                       /\ \/ pending'[id] = pending[id] /\ flushing'[id] = None
                          \/ pending'[id] = None /\ flushing'[id] = pending[id]
    BY <1>4 DEF FlushStart, ReportingInv, PollPhases
  <2>5. OneEvent'
    BY <2>0, <2>1, <2>4 DEF ReportingInv, OneEvent, Tracked
  <2>6. ASSUME NEW id \in Id, Tracked(id)', id \notin lost'
        PROVE  Heard(id)'
    <3>1. Heard(id)
      BY <2>0, <2>6 DEF ReportingInv, NoSilentStatus, Tracked
    <3> QED BY <2>0, <2>1, <2>4, <3>1 DEF Heard, InFlight, WorkOn
  <2> QED BY <2>2, <2>3, <2>5, <2>6 DEF NoSilentStatus
<1>5. CASE PollEnd
  <2>1. PollPhases'
    BY <1>5 DEF PollEnd, Nothing, ReportingInv, PollPhases, debounceVars
  <2> QED BY <1>5, <1>a, <2>1, ReportingFrame DEF PollEnd, debounceVars, envVars
<1> QED BY <1>1, <1>2, <1>3, <1>4, <1>5 DEF PollStep

\* Visiting a resource starts a report, or finds nothing to report.
LEMMA VisitStep ==
    ASSUME ReportingInv, NEW t \in Types, NEW id \in Id, Visit(t, id)
    PROVE  PollPhases' /\ OwnIds' /\ OneEvent' /\ NoSilentStatus'
<1> DEFINE v == Verdict(t, listed[t][id], seen[t][listed[t][id].KcliName])
<1>0. /\ mpc[t] = "each" /\ work[t] = None /\ id \in left[t]
      /\ left' = [left EXCEPT ![t] = @ \ {id}]
      /\ resources' = resources /\ told' = told /\ flushing' = flushing
      /\ poll' = poll /\ mpc' = mpc
  BY DEF Visit, MonVisit, storeVars, envVars
<1>1. /\ Tracked(id) /\ resources[id].Type = t
      /\ \A j \in Id : flushing[j] = None
  BY <1>0 DEF ReportingInv, OwnIds, PollPhases
<1>2. left \in [Types -> SUBSET Id] /\ work \in [Types -> Change \cup {None}]
      /\ pending \in [Id -> PendingEvent \cup {None}]
  BY DEF ReportingInv, ReportingTypeOK, MonitorTypeOK
<1>3. \A u \in Types : left'[u] = IF u = t THEN left[t] \ {id} ELSE left[u]
  BY <1>0, <1>2
<1>4. CASE v = None
  <2>1. UNCHANGED <<pending, work>>
    BY <1>4 DEF Visit, MonVisit
  <2>2. lost' = lost
    BY <1>0, <2>1 DEF Visit
  <2>3. OneEvent' /\ NoSilentStatus'
    BY <1>0, <2>1, <2>2, ReportingFrame DEF Tracked
  <2>4. PollPhases'
    BY <1>0, <1>3, <2>1 DEF ReportingInv, PollPhases
  <2>5. OwnIds'
    BY <1>0, <1>3, <2>1 DEF ReportingInv, OwnIds, Tracked
  <2> QED BY <2>3, <2>4, <2>5
<1>5. CASE v # None
  <2>1. publishWithDebounce(t, id, v)
    BY <1>5 DEF Visit, MonVisit
  <2>2. v \in EventStatus
    BY <1>5, VerdictType
  <2>3. /\ \A u \in Types : u # t => work'[u] = work[u]
        /\ work'[t] # None /\ work'[t].id = id /\ work'[t].status = v
        /\ \/ work'[t].ev = v /\ pending'[id] = None
           \/ work'[t].ev = None /\ pending'[id] = [type |-> t, status |-> v]
        /\ \A j \in Id : j # id => pending'[j] = pending[j]
    <3>1. [id |-> id, status |-> v, ev |-> v] \in Change
          /\ [id |-> id, status |-> v, ev |-> None] \in Change
      BY <2>2 DEF Change
    <3> QED BY <1>2, <2>1, <3>1, MonitorAssumption DEF publishWithDebounce
  <2>4. PollPhases'
    BY <1>0, <1>3, <2>3 DEF ReportingInv, PollPhases
  <2>5. OwnIds'
    <3> SUFFICES ASSUME NEW u \in Types
                 PROVE  /\ \A j \in left'[u] : resources[j] # None /\ resources[j].Type = u
                        /\ work'[u] # None => /\ resources[work'[u].id] # None
                                              /\ resources[work'[u].id].Type = u
                                              /\ work'[u].id \notin left'[u]
      BY <1>0 DEF OwnIds, Tracked
    <3>1. CASE u = t
      BY <1>1, <1>3, <2>3, <3>1 DEF ReportingInv, OwnIds, Tracked
    <3>2. CASE u # t
      BY <1>3, <2>3, <3>2 DEF ReportingInv, OwnIds, Tracked
    <3> QED BY <3>1, <3>2
  <2>6. OneEvent'
    <3>1. \A j \in Id : pending'[j] # None => resources'[j] # None /\ flushing'[j] = None
      BY <1>0, <1>1, <2>3 DEF ReportingInv, OneEvent, Tracked
    <3>2. \A j \in Id : flushing'[j] # None => resources'[j] # None
      BY <1>0, <1>1
    <3>3. ASSUME NEW u \in Types, work'[u] # None, work'[u].ev # None
          PROVE  work'[u].ev = work'[u].status /\ pending'[work'[u].id] = None
      <4>1. CASE u = t
        BY <2>3, <3>3, <4>1
      <4>2. CASE u # t
        <5>1. work'[u] = work[u] /\ work[u] # None /\ work[u].id \in Id
          BY <1>2, <2>3, <3>3, <4>2 DEF Change
        <5>2. work[u].id # id
          BY <1>1, <4>2, <5>1 DEF ReportingInv, OwnIds
        <5> QED BY <2>3, <3>3, <5>1, <5>2 DEF ReportingInv, OneEvent
      <4> QED BY <4>1, <4>2
    <3> QED BY <3>1, <3>2, <3>3 DEF OneEvent, Tracked
  <2>7. ASSUME NEW j \in Id, Tracked(j)', j \notin lost'
        PROVE  Heard(j)'
    <3>1. CASE j = id
      <4>1. WorkOn(id, t)'
        BY <2>3 DEF WorkOn
      <4>2. CASE work'[t].ev = v
        BY <2>3, <3>1, <4>1, <4>2 DEF Heard, InFlight
      <4>3. CASE pending'[id] = [type |-> t, status |-> v]
        <5>1. [type |-> t, status |-> v] \in PendingEvent
          BY <2>2 DEF PendingEvent
        <5>2. pending'[id] # None /\ pending'[id].status = work'[t].status
          BY <2>3, <4>3, <5>1, MonitorAssumption
        <5> QED BY <3>1, <4>1, <5>2 DEF Heard, InFlight
      <4> QED BY <2>3, <4>2, <4>3
    <3>2. CASE j # id
      <4>1. j \notin lost /\ Tracked(j)
        BY <1>0, <2>7, <3>2 DEF Visit, Tracked
      <4>2. Heard(j)
        BY <4>1 DEF ReportingInv, NoSilentStatus
      <4>3. \A u \in Types : /\ WorkOn(j, u)' <=> WorkOn(j, u)
                             /\ WorkOn(j, u) => work'[u] = work[u]
        BY <1>0, <2>3, <3>2 DEF WorkOn
      <4> QED BY <1>0, <2>3, <3>2, <4>2, <4>3, HeardFrame
    <3> QED BY <3>1, <3>2
  <2> QED BY <2>4, <2>5, <2>6, <2>7 DEF NoSilentStatus
<1> QED BY <1>4, <1>5

\* Publishing tells DCM the status that the store is about to get.
LEMMA ReportStepStep ==
    ASSUME ReportingInv, NEW t \in Types, Report(t)
    PROVE  PollPhases' /\ OwnIds' /\ OneEvent' /\ NoSilentStatus'
<1> DEFINE i == work[t].id
<1>0. /\ work[t] # None /\ work[t].ev # None
      /\ resources' = resources /\ left' = left /\ pending' = pending
      /\ flushing' = flushing /\ poll' = poll /\ mpc' = mpc
      /\ work' = [work EXCEPT ![t].ev = None]
  BY DEF Report, MonPublish, storeVars, debounceVars
<1>1. /\ work \in [Types -> Change \cup {None}]
      /\ left \in [Types -> SUBSET Id]
      /\ told \in [Id -> EventStatus \cup {None}]
  BY DEF ReportingInv, ReportingTypeOK, MonitorTypeOK, EnvTypeOK
<1>2. work[t] \in Change /\ i \in Id
  BY <1>0, <1>1 DEF Change
<1>3. /\ \A u \in Types : u # t => work'[u] = work[u]
      /\ work'[t] # None /\ work'[t].id = i /\ work'[t].status = work[t].status
      /\ work'[t].ev = None
  <2>1. [work[t] EXCEPT !.ev = None] \in Change
    BY <1>2 DEF Change
  <2>2. /\ [work[t] EXCEPT !.ev = None].id = i
        /\ [work[t] EXCEPT !.ev = None].status = work[t].status
        /\ [work[t] EXCEPT !.ev = None].ev = None
    BY <1>2 DEF Change
  <2>3. work'[t] = [work[t] EXCEPT !.ev = None] /\ \A u \in Types : u # t => work'[u] = work[u]
    BY <1>0, <1>1
  <2> QED BY <2>1, <2>2, <2>3, MonitorAssumption
<1>4. mpc[t] = "each" /\ poll = "polling" /\ \A id \in Id : flushing[id] = None
  BY <1>0 DEF ReportingInv, PollPhases, ReportingTypeOK, MonitorTypeOK
<1>5. Tracked(i) /\ resources[i].Type = t /\ work[t].ev = work[t].status /\ pending[i] = None
  BY <1>0 DEF ReportingInv, OwnIds, OneEvent
<1>6. \A u \in Types : work[u] # None /\ work[u].id = i => u = t
  BY <1>5 DEF ReportingInv, OwnIds
<1>7. PollPhases'
  BY <1>0, <1>3, <1>4 DEF ReportingInv, PollPhases
<1>8. OwnIds'
  <2> SUFFICES ASSUME NEW u \in Types
               PROVE  /\ \A j \in left[u] : resources[j] # None /\ resources[j].Type = u
                      /\ work'[u] # None => /\ resources[work'[u].id] # None
                                            /\ resources[work'[u].id].Type = u
                                            /\ work'[u].id \notin left[u]
    BY <1>0 DEF OwnIds, Tracked
  <2>1. CASE u = t
    BY <1>0, <1>3, <2>1 DEF ReportingInv, OwnIds, Tracked
  <2>2. CASE u # t
    BY <1>3, <2>2 DEF ReportingInv, OwnIds, Tracked
  <2> QED BY <2>1, <2>2
<1>9. OneEvent'
  BY <1>0, <1>3 DEF ReportingInv, OneEvent, Tracked
<1>10. ASSUME NEW j \in Id, Tracked(j)', j \notin lost'
       PROVE  Heard(j)'
  <2>1. CASE j = i
    <3>1. told'[i] = work[t].status
      BY <1>2, <1>5, <1>10, <2>1 DEF Report
    <3>2. WorkOn(j, t)'
      BY <1>3, <2>1 DEF WorkOn
    <3>3. \A u \in Types : WorkOn(j, u)' => u = t
      BY <1>3, <1>6, <2>1 DEF WorkOn
    <3>4. pending'[i] = None /\ flushing'[i] = None
      BY <1>0, <1>2, <1>4, <1>5
    <3> QED BY <1>3, <2>1, <3>1, <3>2, <3>3, <3>4 DEF Heard, InFlight
  <2>2. CASE j # i
    <3>1. j \notin lost /\ Tracked(j)
      BY <1>0, <1>10, <2>2 DEF Report, Tracked
    <3>2. Heard(j)
      BY <3>1 DEF ReportingInv, NoSilentStatus
    <3>3. told'[j] = told[j]
      BY <1>1, <1>2, <2>2 DEF Report, MonPublish, Publish
    <3>4. \A u \in Types : /\ WorkOn(j, u)' <=> WorkOn(j, u)
                           /\ WorkOn(j, u) => work'[u] = work[u]
      BY <1>3, <2>2 DEF WorkOn
    <3> QED BY <1>0, <3>2, <3>3, <3>4, HeardFrame
  <2> QED BY <2>1, <2>2
<1> QED BY <1>7, <1>8, <1>9, <1>10 DEF NoSilentStatus

\* The store write makes the reported status the recorded one; when it fails,
\* the id is lost.
LEMMA ApplyStep ==
    ASSUME ReportingInv, NEW t \in Types, Apply(t)
    PROVE  PollPhases' /\ OwnIds' /\ OneEvent' /\ NoSilentStatus'
<1> DEFINE i == work[t].id
<1>0. /\ work[t] # None /\ work[t].ev = None
      /\ left' = left /\ told' = told /\ flushing' = flushing /\ poll' = poll /\ mpc' = mpc
      /\ work' = [work EXCEPT ![t] = None]
  BY DEF Apply, MonApply
<1>1. /\ work \in [Types -> Change \cup {None}]
      /\ left \in [Types -> SUBSET Id]
      /\ pending \in [Id -> PendingEvent \cup {None}]
      /\ resources \in [Id -> ResourceEntry \cup {None}]
  BY DEF ReportingInv, ReportingTypeOK, MonitorTypeOK, StoreTypeOK
<1>2. work[t] \in Change /\ i \in Id
  BY <1>0, <1>1 DEF Change
<1>3. work'[t] = None /\ \A u \in Types : u # t => work'[u] = work[u]
  BY <1>0, <1>1
<1>4. mpc[t] = "each" /\ poll = "polling" /\ \A id \in Id : flushing[id] = None
  BY <1>0 DEF ReportingInv, PollPhases, ReportingTypeOK, MonitorTypeOK
<1>5. Tracked(i) /\ resources[i].Type = t /\ i \notin left[t]
  BY <1>0 DEF ReportingInv, OwnIds
<1>6. \A u \in Types : /\ work[u] # None /\ work[u].id = i => u = t
                       /\ i \notin left[u]
  BY <1>5 DEF ReportingInv, OwnIds
<1>7. /\ \A j \in Id : j # i => resources'[j] = resources[j] /\ pending'[j] = pending[j]
      /\ work[t].status # "DELETED" => /\ pending' = pending
                                       /\ resources'[i] # None
      /\ work[t].status = "DELETED" => pending'[i] = None
  <2>1. CASE work[t].status = "DELETED"
    BY <1>1, <1>2, <2>1 DEF Apply, MonApply, Delete, storeVars
  <2>2. CASE work[t].status # "DELETED"
    <3>1. pending' = pending
      BY <2>2 DEF Apply, MonApply
    <3>2. CASE UNCHANGED storeVars
      BY <1>5, <2>2, <3>1, <3>2 DEF storeVars, Tracked
    <3>3. CASE UpdateStatus(i, work[t].status)
      <4>1. [resources[i] EXCEPT !.Status = work[t].status] \in ResourceEntry
        BY <1>1, <1>2, <1>5, <2>2 DEF ResourceEntry, Tracked, Change, EventStatus
      <4> QED BY <1>1, <1>2, <1>5, <2>2, <3>1, <3>3, <4>1, StoreAssumption DEF UpdateStatus, Tracked
    <3> QED BY <2>2, <3>2, <3>3 DEF Apply, MonApply
  <2> QED BY <2>1, <2>2
<1>8. PollPhases'
  BY <1>0, <1>3, <1>4 DEF ReportingInv, PollPhases
<1>9. OwnIds'
  <2> SUFFICES ASSUME NEW u \in Types
               PROVE  /\ \A j \in left[u] : resources'[j] # None /\ resources'[j].Type = u
                      /\ work'[u] # None => /\ resources'[work'[u].id] # None
                                            /\ resources'[work'[u].id].Type = u
                                            /\ work'[u].id \notin left[u]
    BY <1>0 DEF OwnIds, Tracked
  <2>1. \A j \in left[u] : resources'[j] # None /\ resources'[j].Type = u
    <3>1. \A j \in left[u] : j \in Id /\ j # i /\ resources'[j] = resources[j]
      BY <1>1, <1>6, <1>7
    <3> QED BY <3>1 DEF ReportingInv, OwnIds, Tracked
  <2>2. ASSUME work'[u] # None
        PROVE  /\ resources'[work'[u].id] # None
               /\ resources'[work'[u].id].Type = u
               /\ work'[u].id \notin left[u]
    <3>1. u # t /\ work'[u] = work[u]
      BY <1>3, <2>2
    <3>2. work[u].id \in Id /\ work[u].id # i
      BY <1>1, <1>6, <2>2, <3>1 DEF Change
    <3> QED BY <1>7, <2>2, <3>1, <3>2 DEF ReportingInv, OwnIds, Tracked
  <2> QED BY <2>1, <2>2
<1>10. OneEvent'
  <2>1. ASSUME NEW j \in Id, pending'[j] # None
        PROVE  resources'[j] # None /\ flushing'[j] = None
    <3>1. CASE j = i
      BY <1>0, <1>4, <1>7, <2>1, <3>1
    <3>2. CASE j # i
      BY <1>0, <1>4, <1>7, <2>1, <3>2 DEF ReportingInv, OneEvent, Tracked
    <3> QED BY <3>1, <3>2
  <2>2. \A j \in Id : flushing'[j] # None => resources'[j] # None
    BY <1>0, <1>4
  <2>3. ASSUME NEW u \in Types, work'[u] # None, work'[u].ev # None
        PROVE  work'[u].ev = work'[u].status /\ pending'[work'[u].id] = None
    <3>1. u # t /\ work'[u] = work[u]
      BY <1>3, <2>3
    <3>2. work[u].id \in Id /\ work[u].id # i
      BY <1>1, <1>6, <2>3, <3>1 DEF Change
    <3> QED BY <1>7, <2>3, <3>1, <3>2 DEF ReportingInv, OneEvent
  <2> QED BY <2>1, <2>2, <2>3 DEF OneEvent, Tracked
<1>11. ASSUME NEW j \in Id, Tracked(j)', j \notin lost'
       PROVE  Heard(j)'
  <2>1. CASE j = i
    <3>1. Written(t) /\ i \notin lost
      BY <1>11, <2>1 DEF Apply
    <3>2. work[t].status # "DELETED" /\ resources'[i].Status = work[t].status
      BY <1>11, <2>1, <3>1 DEF Written, Tracked
    <3>3. Heard(i)
      BY <1>2, <1>5, <3>1 DEF ReportingInv, NoSilentStatus
    <3>4. \A u \in Types : WorkOn(i, u) <=> u = t
      BY <1>0, <1>6 DEF WorkOn
    <3>5. InFlight(i, work[t].status)
      BY <3>3, <3>4 DEF Heard
    <3>6. \A u \in Types : ~WorkOn(j, u)'
      BY <1>3, <1>6, <2>1 DEF WorkOn
    <3>7. pending'[i] = pending[i]
      BY <1>7, <3>2
    <3>8. work[t].status # None
      BY <1>2, EnvironmentAssumption DEF Change
    <3> QED BY <1>0, <2>1, <3>2, <3>4, <3>5, <3>6, <3>7, <3>8 DEF Heard, InFlight
  <2>2. CASE j # i
    <3>1. j \notin lost /\ Tracked(j)
      BY <1>7, <1>11, <2>2 DEF Apply, Tracked
    <3>2. Heard(j)
      BY <3>1 DEF ReportingInv, NoSilentStatus
    <3>3. \A u \in Types : /\ WorkOn(j, u)' <=> WorkOn(j, u)
                           /\ WorkOn(j, u) => work'[u] = work[u]
      BY <1>3, <2>2 DEF WorkOn
    <3> QED BY <1>0, <1>7, <2>2, <3>2, <3>3, HeardFrame
  <2> QED BY <2>1, <2>2
<1> QED BY <1>8, <1>9, <1>10, <1>11 DEF NoSilentStatus

\* An event that leaves the debounce map at the end of a poll is published.
LEMMA FlushStep ==
    ASSUME ReportingInv, NEW id \in Id, Flush(id)
    PROVE  PollPhases' /\ OwnIds' /\ OneEvent' /\ NoSilentStatus'
<1>0. /\ flushing[id] # None
      /\ flushing' = [flushing EXCEPT ![id] = None]
      /\ resources' = resources /\ left' = left /\ work' = work /\ pending' = pending
      /\ poll' = poll /\ mpc' = mpc
  BY DEF Flush, FlushPublish, storeVars, pollVars
<1>1. /\ flushing \in [Id -> PendingEvent \cup {None}]
      /\ told \in [Id -> EventStatus \cup {None}]
  BY DEF ReportingInv, ReportingTypeOK, MonitorTypeOK, EnvTypeOK
<1>2. flushing'[id] = None /\ \A j \in Id : j # id => flushing'[j] = flushing[j]
  BY <1>0, <1>1
<1>3. poll = "flushing" /\ \A t \in Types : work[t] = None /\ left[t] = {}
  BY <1>0 DEF ReportingInv, PollPhases
<1>4. PollPhases'
  BY <1>0, <1>3 DEF ReportingInv, PollPhases
<1>5. OwnIds'
  BY <1>0, <1>3 DEF OwnIds
<1>6. OneEvent'
  BY <1>0, <1>2, <1>3 DEF ReportingInv, OneEvent, Tracked
<1>7. ASSUME NEW j \in Id, Tracked(j)', j \notin lost'
      PROVE  Heard(j)'
  <2>1. \A t \in Types : ~WorkOn(j, t) /\ ~WorkOn(j, t)'
    BY <1>0, <1>3 DEF WorkOn
  <2>2. j \notin lost /\ Tracked(j)
    BY <1>0, <1>7 DEF Flush, Tracked
  <2>3. Heard(j)
    BY <2>2 DEF ReportingInv, NoSilentStatus
  <2>4. CASE j = id
    <3>1. told'[id] = flushing[id].status
      BY <1>7, <2>4 DEF Flush
    <3>2. pending[id] = None
      BY <1>0 DEF ReportingInv, OneEvent
    <3>3. flushing[id].status = resources[id].Status
      BY <1>0, <2>1, <2>3, <2>4, <3>2 DEF Heard, InFlight
    <3> QED BY <1>0, <1>2, <2>1, <2>4, <3>1, <3>2, <3>3 DEF Heard, InFlight
  <2>5. CASE j # id
    <3>1. told'[j] = told[j]
      BY <1>1, <2>5 DEF Flush, FlushPublish, Publish
    <3> QED BY <1>0, <1>2, <2>1, <2>3, <2>5, <3>1, HeardFrame
  <2> QED BY <2>4, <2>5
<1> QED BY <1>4, <1>5, <1>6, <1>7 DEF NoSilentStatus

\* Time makes entries older and changes nothing that is reported.
LEMMA TickStep ==
    ASSUME ReportingInv, Tick, UNCHANGED lost
    PROVE  PollPhases' /\ OwnIds' /\ OneEvent' /\ NoSilentStatus'
<1>1. \A id \in Id : /\ Tracked(id)' <=> Tracked(id)
                     /\ Tracked(id) => /\ resources'[id].Status = resources[id].Status
                                       /\ resources'[id].Type = resources[id].Type
  <2>1. \A id \in Id : /\ resources[id] \in ResourceEntry \cup {None}
                       /\ resources'[id] = Older(resources[id])
    BY DEF Tick, TickStore, ReportingInv, ReportingTypeOK, StoreTypeOK
  <2> QED BY <2>1, OlderType DEF Tracked
<1>2. PollPhases'
  BY DEF Tick, ReportingInv, PollPhases
<1>3. UNCHANGED <<told, pending, flushing, work, lost, left>>
  BY DEF Tick, envVars
<1> QED BY <1>1, <1>2, <1>3, ReportingFrame

----------------------------------------------------------------------------
(* The theorems *)

\* Every step keeps the invariant.
LEMMA ReportingInvStep ==
    ASSUME ReportingInv, [ReportingNext]_reportingVars
    PROVE  ReportingInv'
<1>1. CASE ReportingNext
  <2>1. ReportingTypeOK'
    BY <1>1, ReportingStepType DEF ReportingInv
  <2>2. PollPhases' /\ OwnIds' /\ OneEvent' /\ NoSilentStatus'
    <3>1. CASE \E t \in Types, id \in Id, n \in Name : Track(t, id, n)
      BY <3>1, TrackStep
    <3>2. CASE (PollStart \/ PollStep) /\ UNCHANGED lost
      BY <3>2, PollStepStep
    <3>3. CASE \E t \in Types, id \in Id : Visit(t, id)
      BY <3>3, VisitStep
    <3>4. CASE \E t \in Types : Report(t) \/ Apply(t)
      BY <3>4, ReportStepStep, ApplyStep
    <3>5. CASE \E id \in Id : Flush(id)
      BY <3>5, FlushStep
    <3>6. CASE KwebNext /\ UNCHANGED <<storeVars, monitorVars, lost>>
      <4>1. UNCHANGED <<told, pending, flushing, work, lost, left, resources, poll, mpc>>
        BY <3>6 DEF KwebNext, storeVars, monitorVars
      <4>2. PollPhases'
        BY <4>1 DEF ReportingInv, PollPhases
      <4> QED BY <4>1, <4>2, ReportingFrame DEF Tracked
    <3>7. CASE Tick /\ UNCHANGED lost
      BY <3>7, TickStep
    <3> QED BY <1>1, <3>1, <3>2, <3>3, <3>4, <3>5, <3>6, <3>7 DEF ReportingNext, PollingStep
  <2> QED BY <2>1, <2>2 DEF ReportingInv
<1>2. CASE UNCHANGED reportingVars
  <2>1. ReportingTypeOK'
    BY <1>2 DEF reportingVars, storeVars, envVars, monitorVars, ReportingInv, ReportingTypeOK,
                StoreTypeOK, EnvTypeOK, MonitorTypeOK
  <2>2. UNCHANGED <<told, pending, flushing, work, lost, left, resources, poll, mpc>>
    BY <1>2 DEF reportingVars, storeVars, envVars, monitorVars
  <2>3. PollPhases'
    BY <2>2 DEF ReportingInv, PollPhases
  <2> QED BY <2>1, <2>2, <2>3, ReportingFrame DEF ReportingInv, Tracked
<1> QED BY <1>1, <1>2

\* It holds when the provider starts with an empty store.
LEMMA ReportingInitInv == ASSUME ReportingInit PROVE ReportingInv
<1>1. StoreTypeOK
  BY DEF ReportingInit, StoreInit, StoreTypeOK
<1>2. EnvTypeOK
  BY DEF ReportingInit, EnvInit, EnvTypeOK, KwebState
<1>3. MonitorTypeOK
  BY DEF ReportingInit, MonitorInit, MonitorTypeOK, Nothing
<1>4. PollPhases /\ OwnIds /\ OneEvent
  BY DEF ReportingInit, MonitorInit, PollPhases, OwnIds, OneEvent, Nothing
<1>5. NoSilentStatus
  BY DEF ReportingInit, StoreInit, NoSilentStatus, Tracked
<1> QED BY <1>1, <1>2, <1>3, <1>4, <1>5 DEF ReportingInv, ReportingTypeOK, ReportingInit

\* However polls, kweb's changes, creations and time interleave, the status
\* the store has of a resource is the newest one that DCM has been told or
\* that waits in the debounce map, unless a publish or a store write failed.
THEOREM NoSilentTheorem == ReportingSpec => []NoSilentStatus
<1>1. ReportingInit => ReportingInv
  BY ReportingInitInv
<1>2. ReportingInv /\ [ReportingNext]_reportingVars => ReportingInv'
  BY ReportingInvStep
<1>3. ReportingInv => NoSilentStatus
  BY DEF ReportingInv
<1> QED BY <1>1, <1>2, <1>3, PTL DEF ReportingSpec

\* The types of what the monitor reports, along the same invariant.
THEOREM ReportingTypeTheorem == ReportingSpec => []ReportingTypeOK
<1>1. ReportingInit => ReportingInv
  BY ReportingInitInv
<1>2. ReportingInv /\ [ReportingNext]_reportingVars => ReportingInv'
  BY ReportingInvStep
<1>3. ReportingInv => ReportingTypeOK
  BY DEF ReportingInv
<1> QED BY <1>1, <1>2, <1>3, PTL DEF ReportingSpec

----------------------------------------------------------------------------
(* The refinement: one lemma per kind of step *)

\* The settled status of every resource is a status.
LEMMA SettledType ==
    ASSUME ReportingTypeOK, NEW id \in Id
    PROVE  /\ Tracked(id) => Settled[id] \in EventStatus /\ Settled[id] # None
           /\ ~Tracked(id) => Settled[id] = None
           /\ Tracked(id) => resources[id] \in ResourceEntry /\ resources[id].Type \in Types
<1>1. Tracked(id) => /\ resources[id] \in ResourceEntry
                     /\ resources[id].Type \in Types
                     /\ resources[id].Status \in EventStatus
  BY DEF ReportingTypeOK, StoreTypeOK, Tracked, ResourceEntry, EventStatus
<1>2. \A t \in Types : work[t] # None => work[t].status \in EventStatus
  BY DEF ReportingTypeOK, MonitorTypeOK, Change
<1> QED BY <1>1, <1>2, EnvironmentAssumption DEF Settled, WorkOn

\* It depends on the entry and on the change being carried out for it.
LEMMA SettledFrame ==
    ASSUME NEW id \in Id,
           Tracked(id)' <=> Tracked(id),
           Tracked(id) => /\ resources'[id].Status = resources[id].Status
                          /\ resources'[id].Type = resources[id].Type
                          /\ WorkOn(id, resources[id].Type)' <=> WorkOn(id, resources[id].Type)
                          /\ WorkOn(id, resources[id].Type)
                             => work'[resources[id].Type].status = work[resources[id].Type].status
    PROVE  Settled'[id] = Settled[id]
  BY DEF Settled, WorkOn, Tracked

\* A step that leaves entries, changes and DCM alone is none of the feed's.
LEMMA FeedStutter ==
    ASSUME UNCHANGED <<resources, work, told, lost>>
    PROVE  UNCHANGED Feed!feedVars
  BY DEF Settled, WorkOn, Tracked, Feed!feedVars

\* The reply to a create.
LEMMA TrackFeed ==
    ASSUME ReportingInv, NEW t \in Types, NEW id \in Id, NEW n \in Name, Track(t, id, n)
    PROVE  Feed!FeedNext
<1> DEFINE s == TrackedEntry(t, n).Status
<1>1. ~Tracked(id) /\ work' = work /\ lost' = lost
  BY DEF Track, monitorVars
<1>2. TrackedEntry(t, n) # None /\ s \in EventStatus /\ TrackedEntry(t, n).Type = t
  BY StoreAssumption DEF TrackedEntry, ResourceEntry, Status, EventStatus
<1>3. /\ \A j \in Id : j # id => resources'[j] = resources[j]
      /\ resources'[id] = TrackedEntry(t, n)
  BY DEF Track, Put, ReportingInv, ReportingTypeOK, StoreTypeOK
<1>4. \A u \in Types : ~WorkOn(id, u)
  BY <1>1 DEF ReportingInv, OwnIds, WorkOn
<1>5. Settled[id] = None /\ Settled'[id] = s
  <2>1. ~WorkOn(id, t)'
    BY <1>1, <1>4 DEF WorkOn
  <2> QED BY <1>1, <1>2, <1>3, <2>1 DEF Settled, Tracked, WorkOn
<1>6. \A j \in Id : j # id => Settled'[j] = Settled[j]
  BY <1>1, <1>3 DEF Settled, Tracked, WorkOn
<1>7. Settled' = [Settled EXCEPT ![id] = s]
  BY <1>5, <1>6 DEF Settled
<1>8. told' = [told EXCEPT ![id] = s]
  BY DEF Track
<1>9. Feed!Appear(id, s)
  BY <1>1, <1>5, <1>7, <1>8 DEF Feed!Appear
<1> QED BY <1>2, <1>9 DEF Feed!FeedNext

\* A visit that finds a change settles on it.
LEMMA VisitFeed ==
    ASSUME ReportingInv, NEW t \in Types, NEW id \in Id, Visit(t, id)
    PROVE  Feed!FeedNext \/ UNCHANGED Feed!feedVars
<1> DEFINE v == Verdict(t, listed[t][id], seen[t][listed[t][id].KcliName])
<1>1. /\ work[t] = None /\ id \in left[t]
      /\ resources' = resources /\ told' = told
  BY DEF Visit, MonVisit, storeVars, envVars
<1>2. Tracked(id) /\ resources[id].Type = t
  BY <1>1 DEF ReportingInv, OwnIds
<1>3. CASE v = None
  <2>1. work' = work
    BY <1>3 DEF Visit, MonVisit
  <2>2. lost' = lost
    BY <1>1, <2>1 DEF Visit
  <2> QED BY <1>1, <2>1, <2>2, FeedStutter
<1>4. CASE v # None
  <2>1. v \in EventStatus
    BY <1>4, VerdictType
  <2>2. publishWithDebounce(t, id, v)
    BY <1>4 DEF Visit, MonVisit
  <2>3. /\ \A u \in Types : u # t => work'[u] = work[u]
        /\ work'[t] # None /\ work'[t].id = id /\ work'[t].status = v
    <3>1. [id |-> id, status |-> v, ev |-> v] \in Change
          /\ [id |-> id, status |-> v, ev |-> None] \in Change
      BY <2>1 DEF Change
    <3>2. work \in [Types -> Change \cup {None}]
      BY DEF ReportingInv, ReportingTypeOK, MonitorTypeOK
    <3> QED BY <2>2, <3>1, <3>2, MonitorAssumption DEF publishWithDebounce
  <2>4. lost' = lost \ {id}
    BY <2>3 DEF Visit
  <2>5. Settled'[id] = v
    BY <1>1, <1>2, <2>3 DEF Settled, WorkOn, Tracked
  <2>6. ASSUME NEW j \in Id, j # id
        PROVE  Settled'[j] = Settled[j]
    <3>1. Tracked(j) => resources[j].Type \in Types
      BY SettledType DEF ReportingInv
    <3>2. \A u \in Types : /\ WorkOn(j, u)' <=> WorkOn(j, u)
                           /\ WorkOn(j, u) => work'[u] = work[u]
      BY <1>1, <2>3, <2>6 DEF WorkOn
    <3> QED BY <1>1, <3>1, <3>2, SettledFrame DEF Tracked
  <2>7. Settled' = [Settled EXCEPT ![id] = v]
    BY <2>5, <2>6 DEF Settled
  <2>8. Settled[id] # None
    BY <1>2, SettledType DEF ReportingInv
  <2>9. Feed!Settle(id, v)
    BY <1>1, <2>4, <2>7, <2>8 DEF Feed!Settle
  <2> QED BY <2>1, <2>9 DEF Feed!FeedNext
<1> QED BY <1>3, <1>4

\* A publish for id of status s: told, told late, or lost.
LEMMA PublishFeed ==
    ASSUME ReportingInv, NEW id \in Id, NEW s \in EventStatus, Tracked(id),
           id \notin lost => s = Settled[id],
           Publish(id, s), UNCHANGED Settled,
           lost' = IF told'[id] = s THEN lost ELSE lost \cup {id}
    PROVE  Feed!FeedNext \/ UNCHANGED Feed!feedVars
<1>1. Settled[id] \in EventStatus /\ Settled[id] # None
  BY SettledType DEF ReportingInv
<1>2. told \in [Id -> EventStatus \cup {None}]
  BY DEF ReportingInv, ReportingTypeOK, EnvTypeOK
<1>3. CASE told' = [told EXCEPT ![id] = s]
  <2>1. lost' = lost
    BY <1>2, <1>3
  <2>2. CASE id \notin lost
    <3>1. Feed!Tell(id)
      BY <1>1, <1>3, <2>1, <2>2 DEF Feed!Tell
    <3> QED BY <3>1 DEF Feed!FeedNext
  <2>3. CASE id \in lost
    <3>1. Feed!TellLate(id, s)
      BY <1>3, <2>1, <2>3 DEF Feed!TellLate
    <3> QED BY <3>1 DEF Feed!FeedNext
  <2> QED BY <2>2, <2>3
<1>4. CASE told' = told
  <2>1. CASE told[id] = s
    BY <1>4, <2>1 DEF Feed!feedVars
  <2>2. CASE told[id] # s
    <3>1. Settled' = [Settled EXCEPT ![id] = Settled[id]]
      BY DEF Settled
    <3>2. Feed!Lose(id, Settled[id])
      BY <1>1, <1>4, <2>2, <3>1 DEF Feed!Lose
    <3> QED BY <1>1, <3>2 DEF Feed!FeedNext
  <2> QED BY <2>1, <2>2
<1> QED BY <1>3, <1>4 DEF Publish

\* What the monitor publishes is the status it has settled on.
LEMMA ReportFeed ==
    ASSUME ReportingInv, NEW t \in Types, Report(t)
    PROVE  Feed!FeedNext \/ UNCHANGED Feed!feedVars
<1> DEFINE i == work[t].id
<1>0. /\ work[t] # None /\ work[t].ev # None
      /\ resources' = resources
      /\ work' = [work EXCEPT ![t].ev = None]
  BY DEF Report, MonPublish, storeVars
<1>1. work \in [Types -> Change \cup {None}]
  BY DEF ReportingInv, ReportingTypeOK, MonitorTypeOK
<1>2. work[t] \in Change /\ i \in Id /\ work[t].status \in EventStatus
  BY <1>0, <1>1 DEF Change
<1>3. /\ \A u \in Types : u # t => work'[u] = work[u]
      /\ work'[t] # None /\ work'[t].id = i /\ work'[t].status = work[t].status
  <2>1. [work[t] EXCEPT !.ev = None] \in Change
    BY <1>2 DEF Change
  <2>2. /\ [work[t] EXCEPT !.ev = None].id = i
        /\ [work[t] EXCEPT !.ev = None].status = work[t].status
    BY <1>2 DEF Change
  <2>3. work'[t] = [work[t] EXCEPT !.ev = None] /\ \A u \in Types : u # t => work'[u] = work[u]
    BY <1>0, <1>1
  <2> QED BY <2>1, <2>2, <2>3, MonitorAssumption
<1>4. Tracked(i) /\ resources[i].Type = t /\ work[t].ev = work[t].status
  BY <1>0 DEF ReportingInv, OwnIds, OneEvent
<1>5. Settled[i] = work[t].status
  BY <1>0, <1>2, <1>4 DEF Settled, WorkOn
<1>6. Settled' = Settled
  <2>1. ASSUME NEW j \in Id PROVE Settled'[j] = Settled[j]
    <3>1. Tracked(j) => resources[j].Type \in Types
      BY SettledType DEF ReportingInv
    <3>2. \A u \in Types : /\ WorkOn(j, u)' <=> WorkOn(j, u)
                           /\ WorkOn(j, u) => work'[u].status = work[u].status
      BY <1>0, <1>3 DEF WorkOn
    <3> QED BY <1>0, <3>1, <3>2, SettledFrame DEF Tracked
  <2> QED BY <2>1 DEF Settled
<1>7. /\ Publish(i, work[t].status)
      /\ lost' = IF told'[i] = work[t].status THEN lost ELSE lost \cup {i}
  BY <1>4 DEF Report, MonPublish
<1> QED BY <1>2, <1>4, <1>5, <1>6, <1>7, PublishFeed

\* A write removes what is settled as DELETED, changes nothing that DCM could
\* see, or falls back.
LEMMA ApplyFeed ==
    ASSUME ReportingInv, NEW t \in Types, Apply(t), ReportingInv'
    PROVE  Feed!FeedNext \/ UNCHANGED Feed!feedVars
<1> DEFINE i == work[t].id
<1>0. /\ work[t] # None /\ told' = told
      /\ work' = [work EXCEPT ![t] = None]
  BY DEF Apply, MonApply
<1>1. /\ work \in [Types -> Change \cup {None}]
      /\ resources \in [Id -> ResourceEntry \cup {None}]
  BY DEF ReportingInv, ReportingTypeOK, MonitorTypeOK, StoreTypeOK
<1>2. work[t] \in Change /\ i \in Id /\ work[t].status \in EventStatus
  BY <1>0, <1>1 DEF Change
<1>3. work'[t] = None /\ \A u \in Types : u # t => work'[u] = work[u]
  BY <1>0, <1>1
<1>4. Tracked(i) /\ resources[i].Type = t
  BY <1>0 DEF ReportingInv, OwnIds
<1>5. Settled[i] = work[t].status
  BY <1>0, <1>2, <1>4 DEF Settled, WorkOn
<1>6. \A u \in Types : work'[u] = None \/ work'[u].id # i
  BY <1>3, <1>4 DEF ReportingInv, OwnIds
<1>7. \A j \in Id : j # i => resources'[j] = resources[j]
  BY <1>1, <1>2 DEF Apply, MonApply, Delete, UpdateStatus, storeVars
<1>8. ASSUME NEW j \in Id, j # i
      PROVE  Settled'[j] = Settled[j]
  <2>1. Tracked(j) => resources[j].Type \in Types
    BY SettledType DEF ReportingInv
  <2>2. \A u \in Types : /\ WorkOn(j, u)' <=> WorkOn(j, u)
                         /\ WorkOn(j, u) => work'[u] = work[u]
    BY <1>3, <1>8 DEF WorkOn
  <2> QED BY <1>7, <1>8, <2>1, <2>2, SettledFrame DEF Tracked
<1>9. resources'[i] # None => /\ resources'[i].Type \in Types
                              /\ resources'[i].Status \in EventStatus
                              /\ Settled'[i] = resources'[i].Status
  <2>1. resources'[i] # None => /\ resources'[i].Type \in Types
                                /\ resources'[i].Status \in EventStatus
    BY <1>2 DEF ReportingInv, ReportingTypeOK, StoreTypeOK, ResourceEntry, EventStatus
  <2> QED BY <1>2, <1>6, <2>1 DEF Settled, Tracked, WorkOn
<1>10. Settled' = [Settled EXCEPT ![i] = Settled'[i]]
  BY <1>2, <1>8 DEF Settled
<1>11. CASE Written(t) /\ work[t].status = "DELETED"
  <2>1. resources'[i] = None /\ lost' = lost
    BY <1>11 DEF Written, Apply
  <2>2. Settled'[i] = None
    BY <1>2, <2>1 DEF Settled, Tracked
  <2>3. Feed!Remove(i)
    BY <1>0, <1>5, <1>10, <1>11, <2>1, <2>2 DEF Feed!Remove
  <2> QED BY <1>2, <2>3 DEF Feed!FeedNext
<1>12. CASE Written(t) /\ work[t].status # "DELETED"
  <2>1. resources'[i] # None /\ resources'[i].Status = work[t].status /\ lost' = lost
    BY <1>12 DEF Written, Apply
  <2>2. Settled'[i] = Settled[i]
    BY <1>5, <1>9, <2>1
  <2>3. Settled' = Settled
    BY <1>8, <2>2 DEF Settled
  <2> QED BY <1>0, <2>1, <2>3 DEF Feed!feedVars
<1>13. CASE ~Written(t)
  <2>1. lost' = lost \cup {i}
    BY <1>13 DEF Apply
  <2>2. resources'[i] # None
    <3>1. CASE work[t].status = "DELETED"
      BY <1>13, <3>1 DEF Written
    <3>2. CASE work[t].status # "DELETED"
      <4>1. CASE UNCHANGED storeVars
        BY <1>4, <4>1 DEF storeVars, Tracked
      <4>2. CASE UpdateStatus(i, work[t].status)
        <5>1. [resources[i] EXCEPT !.Status = work[t].status] \in ResourceEntry
          BY <1>1, <1>2, <1>4, <3>2 DEF ResourceEntry, Tracked, Change, EventStatus
        <5> QED BY <1>1, <1>2, <1>4, <4>2, <5>1, StoreAssumption DEF UpdateStatus, Tracked
      <4> QED BY <3>2, <4>1, <4>2 DEF Apply, MonApply
    <3> QED BY <3>1, <3>2
  <2>3. Settled[i] # None
    BY <1>2, <1>4, SettledType DEF ReportingInv
  <2>4. Feed!Lose(i, Settled'[i])
    BY <1>0, <1>10, <2>1, <2>3 DEF Feed!Lose
  <2> QED BY <1>2, <1>9, <2>2, <2>4 DEF Feed!FeedNext
<1> QED BY <1>11, <1>12, <1>13

\* What leaves the debounce map is the status in the store.
LEMMA FlushFeed ==
    ASSUME ReportingInv, NEW id \in Id, Flush(id)
    PROVE  Feed!FeedNext \/ UNCHANGED Feed!feedVars
<1>0. /\ flushing[id] # None
      /\ resources' = resources /\ work' = work
  BY DEF Flush, FlushPublish, storeVars, pollVars
<1>1. flushing[id].status \in EventStatus
  BY <1>0 DEF ReportingInv, ReportingTypeOK, MonitorTypeOK, PendingEvent
<1>2. \A t \in Types : ~WorkOn(id, t)
  BY <1>0 DEF ReportingInv, PollPhases, WorkOn
<1>3. Tracked(id) /\ pending[id] = None
  BY <1>0 DEF ReportingInv, OneEvent
<1>4. Settled[id] = resources[id].Status
  <2>1. resources[id].Type \in Types
    BY <1>3, SettledType DEF ReportingInv
  <2> QED BY <1>2, <1>3, <2>1 DEF Settled
<1>5. id \notin lost => flushing[id].status = Settled[id]
  <2>1. id \notin lost => Heard(id)
    BY <1>3 DEF ReportingInv, NoSilentStatus
  <2> QED BY <1>0, <1>2, <1>3, <1>4, <2>1 DEF Heard, InFlight
<1>6. Settled' = Settled
  BY <1>0 DEF Settled, WorkOn, Tracked
<1>7. /\ Publish(id, flushing[id].status)
      /\ lost' = IF told'[id] = flushing[id].status THEN lost ELSE lost \cup {id}
  BY DEF Flush, FlushPublish
<1> QED BY <1>1, <1>3, <1>5, <1>6, <1>7, PublishFeed

\* Time ages entries, their status stays.
LEMMA TickFeed ==
    ASSUME ReportingInv, Tick, UNCHANGED lost
    PROVE  UNCHANGED Feed!feedVars
<1>1. told' = told /\ work' = work
  BY DEF Tick, envVars
<1>2. \A id \in Id : /\ Tracked(id)' <=> Tracked(id)
                     /\ Tracked(id) => /\ resources'[id].Status = resources[id].Status
                                       /\ resources'[id].Type = resources[id].Type
  <2>1. \A id \in Id : /\ resources[id] \in ResourceEntry \cup {None}
                       /\ resources'[id] = Older(resources[id])
    BY DEF Tick, TickStore, ReportingInv, ReportingTypeOK, StoreTypeOK
  <2> QED BY <2>1, OlderType DEF Tracked
<1>3. \A id \in Id : Settled'[id] = Settled[id]
  BY <1>1, <1>2, SettledFrame DEF WorkOn
<1>4. Settled' = Settled
  BY <1>3 DEF Settled
<1> QED BY <1>1, <1>4 DEF Feed!feedVars

\* Every step of the monitor and of its environment is a step of the feed,
\* or none.
LEMMA FeedStep ==
    ASSUME ReportingInv, [ReportingNext]_reportingVars
    PROVE  [Feed!FeedNext]_Feed!feedVars
<1>0. ReportingInv'
  BY ReportingInvStep
<1>1. CASE \E t \in Types, id \in Id, n \in Name : Track(t, id, n)
  BY <1>1, TrackFeed
<1>2. CASE (PollStart \/ PollStep) /\ UNCHANGED lost
  <2>1. UNCHANGED <<resources, work, told, lost>>
    BY <1>2 DEF PollStart, PollStep, MonKwebList, MonStoreList, MonDone, FlushStart, PollEnd,
                storeVars, envVars
  <2> QED BY <2>1, FeedStutter
<1>3. CASE \E t \in Types, id \in Id : Visit(t, id)
  BY <1>3, VisitFeed
<1>4. CASE \E t \in Types : Report(t) \/ Apply(t)
  BY <1>0, <1>4, ReportFeed, ApplyFeed
<1>5. CASE \E id \in Id : Flush(id)
  BY <1>5, FlushFeed
<1>6. CASE KwebNext /\ UNCHANGED <<storeVars, monitorVars, lost>>
  <2>1. UNCHANGED <<resources, work, told, lost>>
    BY <1>6 DEF KwebNext, storeVars, monitorVars
  <2> QED BY <2>1, FeedStutter
<1>7. CASE Tick /\ UNCHANGED lost
  BY <1>7, TickFeed
<1>8. CASE UNCHANGED reportingVars
  <2>1. UNCHANGED <<resources, work, told, lost>>
    BY <1>8 DEF reportingVars, storeVars, envVars, monitorVars
  <2> QED BY <2>1, FeedStutter
<1> QED BY <1>1, <1>2, <1>3, <1>4, <1>5, <1>6, <1>7, <1>8 DEF ReportingNext, PollingStep

\* Status reporting implements the feed: for any number of resources, DCM is
\* only ever told the status the monitor has settled on, until a publish or a
\* store write fails.
THEOREM FeedTheorem == ReportingSpec => ImplementsFeed
<1>1. ReportingInit => ReportingInv
  BY ReportingInitInv
<1>2. ReportingInit => Feed!FeedInit
  BY DEF ReportingInit, StoreInit, EnvInit, Settled, Tracked, Feed!FeedInit
<1>3. ReportingInv /\ [ReportingNext]_reportingVars => ReportingInv'
  BY ReportingInvStep
<1>4. ReportingInv /\ [ReportingNext]_reportingVars => [Feed!FeedNext]_Feed!feedVars
  BY FeedStep
<1> QED BY <1>1, <1>2, <1>3, <1>4, PTL DEF ReportingSpec, ImplementsFeed, Feed!FeedSpec
=============================================================================
