--------------------------- MODULE Monitor_proofs ---------------------------
(* What the store, kweb, the event bus, the monitor and time do keeps the    *)
(* types of their records.                                                   *)
EXTENDS Monitor, TLAPS

\* A fresh Put stores an entry under an id and both buckets keep their types.
LEMMA PutType ==
    ASSUME StoreTypeOK, NEW id \in Id, NEW e \in ResourceEntry, Put(id, e)
    PROVE  StoreTypeOK'
  BY DEF StoreTypeOK, Put, ResourceEntry

\* So does Delete ...
LEMMA DeleteType ==
    ASSUME StoreTypeOK, NEW id \in Id, Delete(id)
    PROVE  StoreTypeOK'
  BY DEF StoreTypeOK, Delete, Tracked, ResourceEntry

\* ... and UpdateStatus, which changes nothing but the status of an entry.
LEMMA UpdateStatusType ==
    ASSUME StoreTypeOK, NEW id \in Id, NEW s \in Status, UpdateStatus(id, s)
    PROVE  /\ StoreTypeOK'
           /\ \A i \in Id : /\ Tracked(i)' <=> Tracked(i)
                            /\ Tracked(i) => /\ resources'[i].KcliName = resources[i].KcliName
                                             /\ resources'[i].Type = resources[i].Type
                                             /\ i # id => resources'[i] = resources[i]
                            /\ i = id /\ Tracked(i) => resources'[i].Status = s
  BY StoreAssumption DEF StoreTypeOK, UpdateStatus, Tracked, ResourceEntry

----------------------------------------------------------------------------
(* kweb and the event bus *)

\* kweb's side of a create keeps its records well-formed, and so does that
LEMMA KwebCreateType ==
    ASSUME EnvTypeOK, NEW t \in Types, NEW n \in Name, KwebCreate(t, n)
    PROVE  kweb' \in [Types -> [Name -> KwebState]]
  BY StoreAssumption DEF EnvTypeOK, KwebCreate, KwebState, ClusterStates

\* ... of a delete, which also serves resources that vanish,
LEMMA KwebDeleteType ==
    ASSUME EnvTypeOK, NEW t \in Types, NEW n \in Name, KwebDelete(t, n)
    PROVE  kweb' \in [Types -> [Name -> KwebState]]
  BY DEF EnvTypeOK, KwebDelete, KwebState

\* ResourcesManaged.Dec() leaves the gauge an integer.
LEMMA DecType ==
    ASSUME EnvTypeOK, NEW t \in Types, Dec(t)
    PROVE  gauge' \in [Types -> Int]
  BY EnvironmentAssumption DEF EnvTypeOK, Dec

\* ... and everything kweb does by itself, abandoned calls included.
LEMMA KwebNextType == ASSUME EnvTypeOK, KwebNext PROVE EnvTypeOK'
<1>1. CASE \E n \in Name : (KwebVMChange(n) \/ KwebClusterProgress(n)) /\ UNCHANGED late
  <2> PICK n \in Name : KwebVMChange(n) \/ KwebClusterProgress(n)
    BY <1>1
  <2>1. kweb' \in [Types -> [Name -> KwebState]]
    <3>1. CASE KwebVMChange(n)
      <4> PICK s \in VMStates : kweb' = [kweb EXCEPT !["vm"][n] = s]
        BY <3>1 DEF KwebVMChange
      <4> QED BY <3>1 DEF KwebVMChange, EnvTypeOK, KwebState
    <3>2. CASE KwebClusterProgress(n)
      <4> PICK s \in ClusterStates : kweb' = [kweb EXCEPT !["cluster"][n] = s]
        BY <3>2 DEF KwebClusterProgress, ClusterStates
      <4> QED BY <3>2 DEF KwebClusterProgress, EnvTypeOK, KwebState
    <3> QED BY <3>1, <3>2
  <2> QED BY <1>1, <2>1 DEF KwebNext, KwebVMChange, KwebClusterProgress, EnvTypeOK
<1>2. CASE \E t \in Types, n \in Name : KwebVanish(t, n) /\ UNCHANGED late
  BY <1>2, KwebDeleteType DEF KwebNext, KwebVanish, EnvTypeOK
<1>3. CASE \E c \in late : KwebLate(c)
  <2> PICK c \in late : KwebLate(c)
    BY <1>3
  <2>1. c.type \in Types /\ c.name \in Name
    BY DEF EnvTypeOK, Call
  <2>2. kweb' \in [Types -> [Name -> KwebState]]
    BY <2>1, KwebCreateType, KwebDeleteType DEF KwebLate, EnvTypeOK
  <2> QED BY <2>2 DEF KwebNext, KwebLate, EnvTypeOK
<1> QED BY <1>1, <1>2, <1>3 DEF KwebNext

\* A status event reaches DCM or is lost.
LEMMA PublishType ==
    ASSUME EnvTypeOK, NEW id \in Id, NEW s \in EventStatus, Publish(id, s),
           UNCHANGED <<kweb, late, gauge>>
    PROVE  EnvTypeOK'
  BY DEF EnvTypeOK, Publish

----------------------------------------------------------------------------
(* The monitor *)

MonTypeOK == StoreTypeOK /\ EnvTypeOK /\ MonitorTypeOK

\* Whatever kweb says and however old the entry is, the verdict on it is a
\* DCM status, DELETED, or no change.  In particular it is never DELETING.
LEMMA VerdictType ==
    ASSUME NEW t \in Types, NEW e, NEW s
    PROVE  /\ Verdict(t, e, s) \in EventStatus \cup {None}
           /\ Verdict(t, e, s) # None => Verdict(t, e, s) # "DELETING"
<1>1. MapVMStatus(s, e.Age) \in Status \ {"DELETING"}
  BY DEF MapVMStatus, Status
<1>2. \A b \in BOOLEAN : MapClusterStatus(b, e.Age) \in Status \ {"DELETING"}
  BY DEF MapClusterStatus, Status
<1>3. VMVerdict(e, s) \in (EventStatus \ {"DELETING"}) \cup {None}
  BY <1>1 DEF VMVerdict, EventStatus
<1>4. ClusterVerdict(e, s) \in (EventStatus \ {"DELETING"}) \cup {None}
  BY <1>2 DEF ClusterVerdict, EventStatus, Status
<1> QED BY <1>3, <1>4 DEF Verdict

\* Ageing an entry changes its age and nothing else.
LEMMA OlderType ==
    ASSUME NEW e \in ResourceEntry \cup {None}
    PROVE  /\ Older(e) \in ResourceEntry \cup {None}
           /\ e = None <=> Older(e) = None
           /\ e # None => /\ Older(e).KcliName = e.KcliName
                          /\ Older(e).Type = e.Type
                          /\ Older(e).Status = e.Status
  BY StoreAssumption DEF Older, ResourceEntry

\* publishWithDebounce keeps the debounce maps and the change under way well-
\* formed, inside and outside the window.
LEMMA DebounceType ==
    ASSUME MonitorTypeOK, NEW t \in Types, NEW id \in Id, NEW s \in EventStatus,
           publishWithDebounce(t, id, s)
    PROVE  /\ pending' \in [Id -> PendingEvent \cup {None}]
           /\ sincePublish' \in [Id -> (0..DebounceWindow) \cup {None}]
           /\ work' \in [Types -> Change \cup {None}]
<1>1. [type |-> t, status |-> s] \in PendingEvent
  BY DEF PendingEvent
<1>2. \A x \in {s, None} : [id |-> id, status |-> s, ev |-> x] \in Change
  BY DEF Change
<1>3. 0 \in 0..DebounceWindow
  BY MonitorAssumption
<1> QED BY <1>1, <1>2, <1>3 DEF MonitorTypeOK, publishWithDebounce

----------------------------------------------------------------------------
\* The steps of a poll that list, flush and end.
LEMMA PollStepType ==
    ASSUME MonTypeOK, PollStart \/ PollStep
    PROVE  MonTypeOK'
<1> USE DEF MonTypeOK
<1>a. UNCHANGED <<storeVars, envVars>> => StoreTypeOK' /\ EnvTypeOK'
  BY DEF storeVars, envVars, StoreTypeOK, EnvTypeOK
<1>b. Nothing \in [Id -> ResourceEntry \cup {None}]
  BY DEF Nothing
<1>1. CASE PollStart
  BY <1>1, <1>a DEF PollStart, MonitorTypeOK, debounceVars
<1>2. ASSUME NEW t \in Types, MonKwebList(t) PROVE MonTypeOK'
  <2>1. KwebListed(t) \in [Name -> KwebState]
    BY StoreAssumption DEF KwebListed, ListVMs, ListClusters, EnvTypeOK, KwebState
  <2> QED BY <1>2, <1>a, <2>1 DEF MonKwebList, MonitorTypeOK, debounceVars
<1>3. ASSUME NEW t \in Types, MonStoreList(t) PROVE MonTypeOK'
  <2>1. List(t) \in [Id -> ResourceEntry \cup {None}]
    BY DEF List, StoreTypeOK
  <2>2. /\ listed' \in [Types -> [Id -> ResourceEntry \cup {None}]]
        /\ left' \in [Types -> SUBSET Id]
        /\ mpc' \in [Types -> {"kweb", "store", "each", "done"}]
    <3>1. {id \in Id : List(t)[id] # None} \in SUBSET Id
      OBVIOUS
    <3>2. listed' \in [Types -> [Id -> ResourceEntry \cup {None}]]
      BY <1>3, <2>1 DEF MonStoreList, MonitorTypeOK
    <3>3. left' \in [Types -> SUBSET Id]
      BY <1>3, <3>1 DEF MonStoreList, MonitorTypeOK
    <3>4. mpc' \in [Types -> {"kweb", "store", "each", "done"}]
      BY <1>3 DEF MonStoreList, MonitorTypeOK
    <3> QED BY <3>2, <3>3, <3>4
  <2> QED BY <1>3, <1>a, <2>2 DEF MonStoreList, MonitorTypeOK, debounceVars
<1>4. ASSUME NEW t \in Types, MonDone(t) PROVE MonTypeOK'
  BY <1>4, <1>a DEF MonDone, MonitorTypeOK, debounceVars
<1>5. CASE FlushStart
  <2>1. 0 \in 0..DebounceWindow
    BY MonitorAssumption
  <2> QED BY <1>5, <1>a, <2>1 DEF FlushStart, MonitorTypeOK
<1>6. CASE PollEnd
  <2>1. detectVMOrphans \subseteq Name
    BY DEF detectVMOrphans, MonitorTypeOK
  <2> QED BY <1>6, <1>a, <1>b, <2>1 DEF PollEnd, MonitorTypeOK, debounceVars
<1> QED BY <1>1, <1>2, <1>3, <1>4, <1>5, <1>6 DEF PollStep

\* Visiting an entry of the list.
LEMMA VisitType ==
    ASSUME MonTypeOK, NEW t \in Types, NEW id \in Id, MonVisit(t, id)
    PROVE  MonTypeOK'
<1> DEFINE v == Verdict(t, listed[t][id], seen[t][listed[t][id].KcliName])
<1>1. v \in EventStatus \cup {None}
  BY VerdictType
<1>2. /\ pending' \in [Id -> PendingEvent \cup {None}]
      /\ sincePublish' \in [Id -> (0..DebounceWindow) \cup {None}]
      /\ work' \in [Types -> Change \cup {None}]
  <2>1. CASE v = None
    BY <2>1 DEF MonVisit, MonTypeOK, MonitorTypeOK
  <2>2. CASE v # None
    BY <1>1, <2>2, DebounceType DEF MonVisit, MonTypeOK
  <2> QED BY <2>1, <2>2
<1>3. StoreTypeOK' /\ EnvTypeOK'
  BY DEF MonTypeOK, MonVisit, storeVars, envVars, StoreTypeOK, EnvTypeOK
<1> QED BY <1>2, <1>3 DEF MonVisit, MonTypeOK, MonitorTypeOK

\* publishEvent, delivered or lost.
LEMMA MonPublishType ==
    ASSUME MonTypeOK, NEW t \in Types, MonPublish(t)
    PROVE  MonTypeOK'
<1>1. work[t] \in Change /\ work[t].id \in Id /\ work[t].ev \in EventStatus
  BY DEF MonPublish, MonTypeOK, MonitorTypeOK, Change
<1>2. EnvTypeOK'
  BY <1>1, PublishType DEF MonTypeOK, MonPublish
<1>3. [work[t] EXCEPT !.ev = None] \in Change
  BY <1>1 DEF Change
<1>4. work' \in [Types -> Change \cup {None}]
  BY <1>3 DEF MonPublish, MonTypeOK, MonitorTypeOK
<1>5. StoreTypeOK'
  BY DEF MonTypeOK, MonPublish, storeVars, StoreTypeOK
<1> QED BY <1>2, <1>4, <1>5 DEF MonPublish, MonTypeOK, MonitorTypeOK, debounceVars

\* The store write that follows a report, done or failed.
LEMMA MonApplyType ==
    ASSUME MonTypeOK, NEW t \in Types, MonApply(t)
    PROVE  MonTypeOK'
<1>1. work[t] \in Change /\ work[t].id \in Id /\ work[t].status \in EventStatus
  BY DEF MonApply, MonTypeOK, MonitorTypeOK, Change
<1>2. work[t].status # "DELETED" => work[t].status \in Status
  BY <1>1 DEF EventStatus
<1>3. UNCHANGED storeVars => StoreTypeOK'
  BY DEF MonTypeOK, storeVars, StoreTypeOK
<1>4. StoreTypeOK'
  BY <1>1, <1>2, <1>3, DeleteType, UpdateStatusType DEF MonApply, MonTypeOK
<1>5. EnvTypeOK'
  <2>1. gauge' \in [Types -> Int]
    BY EnvironmentAssumption DEF MonApply, MonTypeOK, EnvTypeOK, Dec
  <2> QED BY <2>1 DEF MonApply, MonTypeOK, EnvTypeOK
<1>6. MonitorTypeOK'
  BY <1>1 DEF MonApply, MonTypeOK, MonitorTypeOK
<1> QED BY <1>4, <1>5, <1>6 DEF MonTypeOK

\* Publishing an event that flushPending has taken out.
LEMMA FlushPublishType ==
    ASSUME MonTypeOK, NEW id \in Id, FlushPublish(id)
    PROVE  MonTypeOK'
<1>1. flushing[id].status \in EventStatus
  BY DEF FlushPublish, MonTypeOK, MonitorTypeOK, PendingEvent
<1>2. EnvTypeOK'
  BY <1>1, PublishType DEF MonTypeOK, FlushPublish
<1>3. StoreTypeOK'
  BY DEF MonTypeOK, FlushPublish, storeVars, StoreTypeOK
<1> QED BY <1>2, <1>3 DEF FlushPublish, MonTypeOK, MonitorTypeOK, pollVars

\* Every step of the monitor keeps the types.
LEMMA MonitorStepType == ASSUME MonTypeOK, MonitorStep PROVE MonTypeOK'
  BY PollStepType, VisitType, MonPublishType, MonApplyType, FlushPublishType
     DEF MonitorStep, ReportStep

\* Time passing keeps the types: ages saturate at MaxAge and DebounceWindow.
LEMMA TickType == ASSUME MonTypeOK, Tick PROVE MonTypeOK'
<1>1. StoreTypeOK'
  BY OlderType DEF Tick, TickStore, MonTypeOK, StoreTypeOK
<1>2. EnvTypeOK'
  BY DEF Tick, MonTypeOK, envVars, EnvTypeOK
<1>3. listed' \in [Types -> [Id -> ResourceEntry \cup {None}]]
  <2>1. \A t \in Types, id \in Id : listed[t][id] \in ResourceEntry \cup {None}
    BY DEF MonTypeOK, MonitorTypeOK
  <2>2. \A t \in Types, id \in Id : Older(listed[t][id]) \in ResourceEntry \cup {None}
    BY <2>1, OlderType
  <2> QED BY <2>2 DEF Tick
<1>4. sincePublish' \in [Id -> (0..DebounceWindow) \cup {None}]
  <2>1. ASSUME NEW id \in Id, sincePublish[id] # None, sincePublish[id] # DebounceWindow
        PROVE  sincePublish[id] + 1 \in 0..DebounceWindow
    <3>1. sincePublish[id] \in 0..DebounceWindow /\ DebounceWindow \in Nat
      BY <2>1, MonitorAssumption DEF MonTypeOK, MonitorTypeOK
    <3> QED BY <2>1, <3>1, SMT
  <2>2. \A id \in Id : sincePublish[id] \in (0..DebounceWindow) \cup {None}
    BY DEF MonTypeOK, MonitorTypeOK
  <2> QED BY <2>1, <2>2 DEF Tick
<1> QED BY <1>1, <1>2, <1>3, <1>4 DEF Tick, MonTypeOK, MonitorTypeOK
=============================================================================
