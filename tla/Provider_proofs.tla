--------------------------- MODULE Provider_proofs ---------------------------
(***************************************************************************)
(* The running provider, for any number of requests, ids, names and         *)
(* crashes and for every set of faults: it is type correct; an entry is     *)
(* DELETING only while somebody deletes it or after a delete that was cut   *)
(* short; what is dropped stays dropped until a create makes it anew; and   *)
(* the store's reverse lookup stays sound while an id is used for one       *)
(* resource.                                                                *)
(***************************************************************************)
EXTENDS Provider, Handlers_proofs, Monitor_proofs, FiniteSetTheorems

\* The provider starts well-typed.
LEMMA InitType == Init => TypeOK
  BY StoreAssumption, EnvironmentAssumption, HandlersAssumption, MonitorAssumption,
     ProviderAssumption
     DEF Init, StoreInit, EnvInit, HandlersInit, MonitorInit, TypeOK, StoreTypeOK, EnvTypeOK,
         HandlersTypeOK, MonitorTypeOK, KwebState, CreatePC, DeletePC, Nothing

\* A crash and the restart (NewServer recounts the gauge) keep the types.
LEMMA CrashType == ASSUME TypeOK, CrashRestart PROVE TypeOK'
<1>1. StoreTypeOK'
  BY DEF TypeOK, CrashRestart, storeVars, StoreTypeOK
<1>2. EnvTypeOK'
  <2>1. ASSUME NEW h \in Handler PROVE CallOf(h) \in Call \cup {None}
    <3>1. CASE pc[h] \in {"create", "rollback"}
      <4>1. rq[h].type \in Types /\ rq[h].id \in Id /\ rq[h].name \in Name
        BY <3>1, RequestFields DEF TypeOK, ApiTypeOK, CreatePC
      <4> QED BY <3>1, <4>1 DEF CallOf, Call
    <3>2. CASE pc[h] = "delete"
      <4>1. rq[h].type \in Types /\ rq[h].id \in Id /\ saved[h].KcliName \in Name
        BY <3>2, RequestFields DEF TypeOK, ApiTypeOK, DeletePC, ResourceEntry
      <4> QED BY <3>2, <4>1 DEF CallOf, Call
    <3>3. CASE pc[h] \notin {"create", "rollback", "delete"}
      BY <3>3 DEF CallOf
    <3> QED BY <3>1, <3>2, <3>3
  <2>2. late' \subseteq Call
    BY <2>1 DEF TypeOK, EnvTypeOK, CrashRestart, CallsInFlight
  <2>3. \A t \in Types : initialGauge(t) \in Int
    BY ProviderAssumption, FS_Subset, FS_CardinalityType DEF initialGauge
  <2> QED BY <2>2, <2>3 DEF TypeOK, EnvTypeOK, CrashRestart
<1>3. HandlersTypeOK'
  <2>1. \A h \in Handler : pc[h] \in MarkedPC => rq[h].id \in Id
    BY RequestFields DEF TypeOK, ApiTypeOK, MarkedPC, DeletePC
  <2>2. stranded' \subseteq Id
    BY <2>1 DEF TypeOK, HandlersTypeOK, CrashRestart
  <2> QED BY <2>2 DEF TypeOK, HandlersTypeOK, CrashRestart, CreatePC, DeletePC
<1>4. MonitorTypeOK'
  BY DEF TypeOK, MonitorTypeOK, CrashRestart, Nothing
<1>5. crashes' \in 0..MaxCrashes
  BY ProviderAssumption DEF TypeOK, CrashRestart
<1> QED BY <1>1, <1>2, <1>3, <1>4, <1>5 DEF TypeOK

\* Every step of the composed provider keeps the types.
LEMMA NextType == TypeOK /\ [Next]_vars => TypeOK'
<1> SUFFICES ASSUME TypeOK, [Next]_vars PROVE TypeOK'
  OBVIOUS
<1>a. UNCHANGED <<monitorVars, crashes>> => MonitorTypeOK' /\ crashes' \in 0..MaxCrashes
  BY DEF TypeOK, monitorVars, MonitorTypeOK
<1>b. UNCHANGED <<handlerVars, crashes>> => HandlersTypeOK' /\ crashes' \in 0..MaxCrashes
  BY DEF TypeOK, handlerVars, HandlersTypeOK
<1>1. CASE HandlerNext /\ UNCHANGED <<monitorVars, crashes>>
  BY <1>1, <1>a, HandlerNextType DEF TypeOK, ApiTypeOK
<1>2. CASE StartPoll
  BY <1>2, <1>b, PollStepType DEF TypeOK, MonTypeOK, StartPoll
<1>3. CASE Poll
  BY <1>3, <1>b, MonitorStepType DEF TypeOK, MonTypeOK, Poll
<1>4. CASE KwebNext /\ UNCHANGED <<storeVars, handlerVars, monitorVars, crashes>>
  BY <1>4, <1>a, <1>b, KwebNextType DEF TypeOK, storeVars, StoreTypeOK
<1>5. CASE TimePasses
  BY <1>5, <1>b, TickType DEF TypeOK, MonTypeOK, TimePasses
<1>6. CASE CrashRestart
  BY <1>6, CrashType
<1>7. CASE UNCHANGED vars
  BY <1>7, <1>a, <1>b DEF vars, TypeOK, storeVars, envVars, StoreTypeOK, EnvTypeOK
<1> QED BY <1>1, <1>2, <1>3, <1>4, <1>5, <1>6, <1>7 DEF Next

\* The provider's state has the declared shape in every reachable state.
THEOREM TypeCorrect == Spec => []TypeOK
  BY InitType, NextType, PTL DEF Spec

----------------------------------------------------------------------------
(* DELETING *)

\* The status a delete handler would restore is not DELETING, and the monitor
\* never writes DELETING.
SavedLive == \A h \in Handler : pc[h] \in DeletePC => saved[h].Status # "DELETING"
WorkLive == \A t \in Types : work[t] # None => work[t].status # "DELETING"

DeletingInv == TypeOK /\ SavedLive /\ WorkLive /\ DeletingHasDeleter

\* A step that puts no entry into DELETING and ends no delete is harmless.
LEMMA NoNewDeleting ==
    ASSUME DeletingHasDeleter, stranded \subseteq stranded',
           \A id \in Id : (Tracked(id) /\ resources[id].Status = "DELETING")'
                          => Tracked(id) /\ resources[id].Status = "DELETING",
           \A h \in Handler, id \in Id : Deleting(h, id) => Deleting(h, id)'
    PROVE  DeletingHasDeleter'
  BY DEF DeletingHasDeleter

\* A request that arrives ends no delete, since its goroutine was idle, and the
\* copy it keeps of an entry is not of a DELETING one.
LEMMA ArriveDeleting ==
    ASSUME TypeOK, SavedLive, DeletingHasDeleter, NEW h \in Handler,
           NEW r, NEW label, NEW entry, NEW code,
           Arrive(h, r, label, entry, code),
           label \in DeletePC => entry.Status # "DELETING"
    PROVE  SavedLive' /\ DeletingHasDeleter'
<1>1. SavedLive'
  BY DEF Arrive, SavedLive, TypeOK, HandlersTypeOK
<1>2. \A g \in Handler, id \in Id : Deleting(g, id) => Deleting(g, id)'
  BY DEF Arrive, Deleting, MarkedPC, DeletePC, TypeOK, HandlersTypeOK
<1>3. DeletingHasDeleter'
  BY <1>2, NoNewDeleting DEF Arrive, storeVars, Tracked
<1> QED BY <1>1, <1>3

\* The steps after a create's first one: no delete is concerned, and the only
\* store write puts a fresh entry.
LEMMA CreateStepDeleting ==
    ASSUME TypeOK, SavedLive, DeletingHasDeleter, NEW h \in Handler,
           CreateLock(h) \/ CreateCall(h) \/ CreatePut(h) \/ CreateRollback(h)
    PROVE  SavedLive' /\ DeletingHasDeleter'
<1>0. /\ pc[h] \in CreatePC
      /\ \/ \E l \in {"create", "put", "rollback"} : Goto(h, l)
         \/ \E code : Reply(h, code)
      /\ stranded' = stranded
  BY DEF CreateLock, CreateCall, CreateOutcome, CreatePut, CreateRollback, DeleteOutcome, CreatePC
<1>1. SavedLive'
  BY <1>0 DEF Goto, Reply, SavedLive, CreatePC, DeletePC, TypeOK, HandlersTypeOK
<1>2. \A g \in Handler, id \in Id : Deleting(g, id) => Deleting(g, id)'
  BY <1>0 DEF Goto, Reply, Deleting, MarkedPC, DeletePC, CreatePC, TypeOK, HandlersTypeOK
<1>3. ASSUME NEW id \in Id, (Tracked(id) /\ resources[id].Status = "DELETING")'
      PROVE  Tracked(id) /\ resources[id].Status = "DELETING"
  <2>1. CASE UNCHANGED resources
    BY <1>3, <2>1 DEF Tracked
  <2>2. CASE CreatePut(h) /\ ~UNCHANGED resources
    <3> DEFINE e == [KcliName |-> rq[h].name, Type |-> rq[h].type,
                     Status |-> InitialStatus(rq[h].type), Age |-> 0]
    <3>1. Put(rq[h].id, e)
      BY <2>2 DEF CreatePut, storeVars
    <3>2. e.Status # "DELETING"
      BY DEF InitialStatus
    <3> HIDE DEF e
    <3> QED BY <1>3, <3>1, <3>2 DEF Put, Tracked, TypeOK, StoreTypeOK
  <2> QED BY <2>1, <2>2 DEF CreateLock, CreateCall, CreateRollback, storeVars
<1> QED BY <1>0, <1>1, <1>2, <1>3, NoNewDeleting

\* A delete past its mark stays the deleter of its id until it drops the entry,
\* restores a status that is not DELETING, or strands the id.
LEMMA DeleteStepDeleting ==
    ASSUME TypeOK, SavedLive, DeletingHasDeleter, NEW h \in Handler, DeleteSteps(h)
    PROVE  SavedLive' /\ DeletingHasDeleter'
<1>t. /\ pc \in [Handler -> {"idle"} \cup CreatePC \cup DeletePC]
      /\ DOMAIN saved = Handler
  BY DEF TypeOK, HandlersTypeOK
<1>0. /\ pc[h] \in DeletePC
      /\ \/ \E l \in MarkedPC : Goto(h, l)
         \/ \E code : Reply(h, code)
  BY DEF DeleteSteps, DeleteMark, DeleteCall, DeleteOutcome, DeleteRestore, DeletePublish,
         DeleteDrop, DeletePC, MarkedPC
<1>r. rq[h].id \in Id /\ saved[h] \in ResourceEntry
  BY <1>0, RequestFields DEF TypeOK, ApiTypeOK, DeletePC
<1>1. SavedLive'
  BY <1>0, <1>t DEF Goto, Reply, SavedLive, DeletePC
<1>2. \A g \in Handler \ {h}, id \in Id : Deleting(g, id) => Deleting(g, id)'
  BY <1>0, <1>t DEF Goto, Reply, Deleting
<1>3. \A id \in Id : id # rq[h].id /\ (Tracked(id) /\ resources[id].Status = "DELETING")'
                     => Tracked(id) /\ resources[id].Status = "DELETING"
  <2>1. resources' = [resources EXCEPT ![rq[h].id] = resources'[rq[h].id]]
    BY <1>r DEF DeleteSteps, DeleteMark, DeleteCall, DeleteRestore, DeletePublish, DeleteDrop,
           UpdateStatus, Delete, storeVars, TypeOK, StoreTypeOK
  <2> QED BY <2>1 DEF Tracked, TypeOK, StoreTypeOK
<1>4. stranded \subseteq stranded'
  BY DEF DeleteSteps, DeleteMark, DeleteCall, DeleteRestore, DeletePublish, DeleteDrop
<1>5. (Tracked(rq[h].id) /\ resources[rq[h].id].Status = "DELETING")'
      => rq[h].id \in stranded' \/ Deleting(h, rq[h].id)'
  <2>1. CASE DeleteMark(h) \/ DeleteCall(h) \/ DeletePublish(h)
    <3>1. pc'[h] \in MarkedPC /\ rq' = rq
      BY <2>1, <1>t DEF DeleteMark, DeleteCall, DeleteOutcome, DeletePublish, Goto, MarkedPC,
                        DeletePC
    <3> QED BY <3>1 DEF Deleting
  <2>2. CASE DeleteRestore(h)
    <3>1. CASE UpdateStatus(rq[h].id, saved[h].Status)
      <4>1. saved[h].Status # "DELETING" /\ saved[h].Status \in Status
        BY <1>0, <1>r DEF SavedLive, ResourceEntry
      <4>2. rq' = rq
        BY <2>2 DEF DeleteRestore, Reply
      <4> QED BY <1>r, <3>1, <4>1, <4>2, UpdateStatusType DEF TypeOK
    <3>2. CASE stranded' = stranded \cup {rq[h].id}
      BY <3>2
    <3> QED BY <2>2, <3>1, <3>2 DEF DeleteRestore
  <2>3. CASE DeleteDrop(h)
    <3>1. rq' = rq
      BY <2>3 DEF DeleteDrop, Reply
    <3> QED BY <1>r, <2>3, <3>1 DEF DeleteDrop, Delete, Tracked, TypeOK, StoreTypeOK
  <2> QED BY <2>1, <2>2, <2>3 DEF DeleteSteps
<1>6. rq' = rq
  BY <1>0 DEF Goto, Reply
<1>7. DeletingHasDeleter'
  <2> SUFFICES ASSUME NEW id \in Id, (Tracked(id) /\ resources[id].Status = "DELETING")'
               PROVE  id \in stranded' \/ \E g \in Handler : Deleting(g, id)'
    BY DEF DeletingHasDeleter
  <2>1. CASE id = rq[h].id
    BY <1>5, <1>6, <2>1
  <2>2. CASE id # rq[h].id
    <3>1. id \in stranded \/ \E g \in Handler : Deleting(g, id)
      BY <1>3, <2>2 DEF DeletingHasDeleter
    <3>2. ~Deleting(h, id)
      BY <2>2 DEF Deleting
    <3> QED BY <1>2, <1>4, <3>1, <3>2
  <2> QED BY <2>1, <2>2
<1> QED BY <1>1, <1>7

\* No request leaves an entry DELETING without a deleter.
LEMMA HandlerNextDeleting ==
    ASSUME TypeOK, SavedLive, DeletingHasDeleter, HandlerNext
    PROVE  SavedLive' /\ DeletingHasDeleter'
<1> PICK h \in Handler : \/ CreateVM(h) \/ CreateCluster(h) \/ DeleteVM(h) \/ DeleteCluster(h)
                         \/ RequestStep(h)
  BY DEF HandlerNext
<1>1. CASE CreateVM(h) \/ CreateCluster(h)
  <2>1. PICK r, l : CreateBegin(h, r, l) /\ l \in {"lock", "create"}
    BY <1>1 DEF CreateVM, CreateCluster
  <2>2. PICK label, code : Arrive(h, r, label, None, code) /\ label \in {"idle", "lock", "create"}
    BY <2>1 DEF CreateBegin
  <2> QED BY <2>2, ArriveDeleting DEF DeletePC
<1>2. CASE DeleteVM(h) \/ DeleteCluster(h)
  <2>1. PICK r : DeleteBegin(h, r)
    BY <1>2 DEF DeleteVM, DeleteCluster
  <2>2. PICK label, entry, code : /\ Arrive(h, r, label, entry, code)
                                  /\ label \in DeletePC => entry.Status # "DELETING"
    BY <2>1 DEF DeleteBegin, DeletePC
  <2> QED BY <2>2, ArriveDeleting
<1>3. CASE RequestStep(h)
  BY <1>3, CreateStepDeleting, DeleteStepDeleting
     DEF RequestStep, CreateVMStep, CreateClusterStep, DeleteVMStep, DeleteClusterStep
<1> QED BY <1>1, <1>2, <1>3

\* The monitor may write to an entry that is being deleted, on the strength of
\* an older list; it never leaves it DELETING without a deleter.
LEMMA MonitorDeleting ==
    ASSUME TypeOK, WorkLive, DeletingHasDeleter, PollStart \/ MonitorStep, UNCHANGED handlerVars
    PROVE  WorkLive' /\ DeletingHasDeleter'
<1>1. stranded' = stranded /\ pc' = pc /\ rq' = rq
  BY DEF handlerVars
<1>2. \A h \in Handler, id \in Id : Deleting(h, id) => Deleting(h, id)'
  BY <1>1 DEF Deleting
<1>3. ASSUME UNCHANGED resources PROVE DeletingHasDeleter'
  BY <1>1, <1>2, <1>3, NoNewDeleting DEF Tracked
<1>4. ASSUME NEW t \in Types, MonApply(t) PROVE WorkLive' /\ DeletingHasDeleter'
  <2>1. work[t].id \in Id /\ work[t].status \in EventStatus /\ work[t].status # "DELETING"
    BY <1>4 DEF MonApply, TypeOK, MonitorTypeOK, Change, WorkLive
  <2>2. WorkLive'
    BY <1>4 DEF MonApply, WorkLive, TypeOK, MonitorTypeOK
  <2>3. CASE UNCHANGED storeVars
    BY <1>3, <2>2, <2>3 DEF storeVars
  <2>4. CASE Delete(work[t].id)
    BY <1>1, <1>2, <2>1, <2>2, <2>4, NoNewDeleting DEF Delete, Tracked, TypeOK, StoreTypeOK
  <2>5. CASE work[t].status # "DELETED" /\ UpdateStatus(work[t].id, work[t].status)
    <3>1. work[t].status \in Status
      BY <2>1, <2>5 DEF EventStatus
    <3>2. \A id \in Id : (Tracked(id) /\ resources[id].Status = "DELETING")'
                         => Tracked(id) /\ resources[id].Status = "DELETING"
      BY <2>1, <2>5, <3>1, UpdateStatusType DEF TypeOK
    <3> QED BY <1>1, <1>2, <2>2, <3>2, NoNewDeleting
  <2> QED BY <1>4, <2>3, <2>4, <2>5 DEF MonApply
<1>5. ASSUME NEW t \in Types, NEW id \in Id, MonVisit(t, id)
      PROVE  WorkLive' /\ DeletingHasDeleter'
  <2> DEFINE v == Verdict(t, listed[t][id], seen[t][listed[t][id].KcliName])
  <2>1. v # None => v # "DELETING"
    BY VerdictType
  <2>2. CASE v = None
    BY <1>3, <1>5, <2>2 DEF MonVisit, WorkLive, storeVars
  <2>3. CASE v # None
    <3> HIDE DEF v
    <3>1. publishWithDebounce(t, id, v)
      BY <1>5, <2>3 DEF MonVisit, v
    <3>2. WorkLive'
      BY <2>1, <2>3, <3>1 DEF publishWithDebounce, WorkLive, TypeOK, MonitorTypeOK
    <3> QED BY <1>3, <1>5, <3>2 DEF MonVisit, storeVars
  <2> QED BY <2>2, <2>3
<1>6. ASSUME NEW t \in Types, MonPublish(t) PROVE WorkLive' /\ DeletingHasDeleter'
  <2>1. work[t] \in Change
    BY <1>6 DEF MonPublish, TypeOK, MonitorTypeOK
  <2>2. [work[t] EXCEPT !.ev = None].status = work[t].status
    BY <2>1 DEF Change
  <2>3. work' = [work EXCEPT ![t] = [work[t] EXCEPT !.ev = None]]
    BY <1>6 DEF MonPublish
  <2>4. WorkLive'
    BY <1>6, <2>2, <2>3 DEF WorkLive, MonPublish, TypeOK, MonitorTypeOK
  <2> QED BY <1>3, <1>6, <2>4 DEF MonPublish, storeVars
<1>7. CASE PollStart \/ PollStep \/ \E id \in Id : FlushPublish(id)
  <2>1. UNCHANGED <<resources, work>>
    BY <1>7 DEF PollStart, PollStep, MonKwebList, MonStoreList, MonDone, FlushStart, PollEnd,
               FlushPublish, storeVars, pollVars
  <2> QED BY <1>3, <2>1 DEF WorkLive
<1> QED BY <1>4, <1>5, <1>6, <1>7 DEF MonitorStep, ReportStep

\* Neither does any step of the provider, crashes included.
LEMMA DeletingStep == DeletingInv /\ [Next]_vars => DeletingInv'
<1> SUFFICES ASSUME DeletingInv, [Next]_vars PROVE DeletingInv'
  OBVIOUS
<1> USE DEF DeletingInv
<1>t. TypeOK'
  BY NextType
<1>a. UNCHANGED handlerVars => SavedLive'
  BY DEF handlerVars, SavedLive
<1>b. UNCHANGED monitorVars => WorkLive'
  BY DEF monitorVars, WorkLive
<1>c. UNCHANGED handlerVars => \A h \in Handler, id \in Id : Deleting(h, id) => Deleting(h, id)'
  BY DEF handlerVars, Deleting
<1>d. UNCHANGED <<resources, handlerVars>> => DeletingHasDeleter'
  BY <1>c, NoNewDeleting DEF Tracked, handlerVars
<1>1. CASE HandlerNext /\ UNCHANGED <<monitorVars, crashes>>
  BY <1>1, <1>t, <1>b, HandlerNextDeleting
<1>2. CASE StartPoll \/ Poll
  BY <1>2, <1>t, <1>a, MonitorDeleting DEF StartPoll, Poll
<1>3. CASE KwebNext /\ UNCHANGED <<storeVars, handlerVars, monitorVars, crashes>>
  BY <1>3, <1>t, <1>a, <1>b, <1>d DEF storeVars
<1>4. CASE TimePasses
  <2>1. WorkLive' /\ UNCHANGED handlerVars
    BY <1>4 DEF TimePasses, Tick, WorkLive
  <2>2. \A id \in Id : (Tracked(id) /\ resources[id].Status = "DELETING")'
                       => Tracked(id) /\ resources[id].Status = "DELETING"
    BY <1>4, OlderType DEF TimePasses, Tick, TickStore, Tracked, TypeOK, StoreTypeOK
  <2>3. DeletingHasDeleter'
    BY <1>c, <2>1, <2>2, NoNewDeleting DEF handlerVars
  <2> QED BY <1>t, <1>a, <2>1, <2>3
<1>5. CASE CrashRestart
  <2>1. SavedLive' /\ WorkLive'
    BY <1>5 DEF CrashRestart, SavedLive, WorkLive, DeletePC
  <2>2. \A id \in Id, h \in Handler : Deleting(h, id) => id \in stranded'
    BY <1>5 DEF CrashRestart, Deleting
  <2>3. DeletingHasDeleter'
    BY <1>5, <2>2 DEF CrashRestart, DeletingHasDeleter, Tracked, storeVars
  <2> QED BY <1>t, <2>1, <2>3
<1>6. CASE UNCHANGED vars
  BY <1>6, <1>t, <1>a, <1>b, <1>d DEF vars, storeVars
<1> QED BY <1>1, <1>2, <1>3, <1>4, <1>5, <1>6 DEF Next

\* An entry is DELETING only while a delete of it is under way, or after one
\* that a crash or a store error cut short, however requests, polls, failures
\* and restarts interleave.
THEOREM DeletingTheorem == Spec => []DeletingHasDeleter
<1>1. Init => DeletingInv
  BY InitType DEF Init, HandlersInit, MonitorInit, StoreInit, DeletingInv, SavedLive, WorkLive,
                  DeletingHasDeleter, Tracked, DeletePC
<1> QED BY <1>1, DeletingStep, PTL DEF Spec, DeletingInv

\* The mutex argument carries over to the running provider: polls and time do
\* not touch createMu, and a crash ends every request.
THEOREM ProviderSerialized == Spec => []ClusterCreatesSerialized
<1> DEFINE Inv == TypeOK /\ MutexHeld
<1>1. Init => Inv
  BY InitType, MutexHeldInit DEF Init
<1>2. Inv /\ [Next]_vars => Inv'
  <2> SUFFICES ASSUME Inv, [Next]_vars PROVE Inv'
    OBVIOUS
  <2>1. TypeOK'
    BY NextType
  <2>2. CASE HandlerNext
    BY <2>1, <2>2, MutexHeldStep DEF TypeOK, ApiTypeOK
  <2>3. CASE UNCHANGED handlerVars
    BY <2>1, <2>3 DEF handlerVars, MutexHeld
  <2>4. CASE CrashRestart
    BY <2>1, <2>4 DEF CrashRestart, MutexHeld
  <2> QED BY <2>2, <2>3, <2>4 DEF Next, StartPoll, Poll, TimePasses, vars
<1>3. Inv => ClusterCreatesSerialized
  BY DEF MutexHeld, ClusterCreatesSerialized
<1> QED BY <1>1, <1>2, <1>3, PTL DEF Spec

----------------------------------------------------------------------------
(* Late writes *)

\* The step makes no entry and changes the resource of none.
KeepsEntries == \A id \in Id : Tracked(id)' => SameResource(id)

\* The entry of id is made by a create whose call kweb has carried out.
Created(id) ==
    \E h \in Handler : /\ pc[h] = "put" /\ rq[h].id = id
                       /\ resources'[id].KcliName = rq[h].name
                       /\ resources'[id].Type = rq[h].type

\* The store's other writes than Put make no entry: UpdateStatus of an id
\* that is gone is ErrNotFound.
LEMMA WritesKeepEntries ==
    ASSUME StoreTypeOK, NEW i \in Id,
           \/ UNCHANGED resources
           \/ Delete(i)
           \/ \E s \in Status : UpdateStatus(i, s)
    PROVE  KeepsEntries
<1>1. CASE UNCHANGED resources
  BY <1>1 DEF KeepsEntries, SameResource, Tracked
<1>2. CASE Delete(i)
  BY <1>2 DEF Delete, KeepsEntries, SameResource, Tracked, StoreTypeOK
<1>3. CASE \E s \in Status : UpdateStatus(i, s)
  BY <1>3, UpdateStatusType DEF KeepsEntries, SameResource
<1> QED BY <1>1, <1>2, <1>3

\* A delete that marks, restores or drops an entry which may be gone.
LEMMA DeleteKeepsEntries ==
    ASSUME TypeOK, NEW h \in Handler, DeleteSteps(h)
    PROVE  KeepsEntries
<1>1. pc[h] \in DeletePC
  BY DEF DeleteSteps, DeleteMark, DeleteCall, DeleteRestore, DeletePublish, DeleteDrop, DeletePC
<1>2. rq[h].id \in Id /\ saved[h].Status \in Status
  BY <1>1, RequestFields DEF TypeOK, ApiTypeOK, DeletePC, ResourceEntry
<1>3. "DELETING" \in Status
  BY DEF Status
<1>4. \/ UNCHANGED resources
      \/ Delete(rq[h].id)
      \/ \E s \in Status : UpdateStatus(rq[h].id, s)
  BY <1>2, <1>3 DEF DeleteSteps, DeleteMark, DeleteCall, DeleteRestore, DeletePublish, DeleteDrop,
                    storeVars
<1> QED BY <1>2, <1>4, WritesKeepEntries DEF TypeOK

\* A create: its Put makes the entry of its own resource.
LEMMA CreateMakesOwn ==
    ASSUME TypeOK, NEW h \in Handler, NEW id \in Id,
           CreateLock(h) \/ CreateCall(h) \/ CreatePut(h) \/ CreateRollback(h), Tracked(id)'
    PROVE  SameResource(id) \/ Created(id)
<1>1. CASE UNCHANGED resources
  BY <1>1 DEF SameResource, Tracked
<1>2. CASE CreatePut(h) /\ ~UNCHANGED resources
  <2> DEFINE e == [KcliName |-> rq[h].name, Type |-> rq[h].type,
                   Status |-> InitialStatus(rq[h].type), Age |-> 0]
  <2>1. Put(rq[h].id, e) /\ pc[h] = "put"
    BY <1>2 DEF CreatePut, storeVars
  <2>2. e.KcliName = rq[h].name /\ e.Type = rq[h].type
    OBVIOUS
  <2> HIDE DEF e
  <2>3. resources' = [resources EXCEPT ![rq[h].id] = e]
    BY <2>1 DEF Put
  <2>4. CASE id = rq[h].id
    BY <2>1, <2>2, <2>3, <2>4 DEF Created, TypeOK, StoreTypeOK
  <2>5. CASE id # rq[h].id
    BY <2>3, <2>5 DEF SameResource, Tracked, TypeOK, StoreTypeOK
  <2> QED BY <2>4, <2>5
<1> QED BY <1>1, <1>2 DEF CreateLock, CreateCall, CreateRollback, storeVars

\* A poll that writes what it has seen some time ago.
LEMMA PollKeepsEntries ==
    ASSUME TypeOK, PollStart \/ MonitorStep
    PROVE  KeepsEntries
<1>1. ASSUME NEW t \in Types, MonApply(t) PROVE KeepsEntries
  <2>1. work[t].id \in Id /\ work[t].status \in EventStatus
    BY <1>1 DEF MonApply, TypeOK, MonitorTypeOK, Change
  <2>2. \/ UNCHANGED resources
        \/ Delete(work[t].id)
        \/ \E s \in Status : UpdateStatus(work[t].id, s)
    BY <1>1, <2>1 DEF MonApply, EventStatus, storeVars
  <2> QED BY <2>1, <2>2, WritesKeepEntries DEF TypeOK
<1>2. ASSUME UNCHANGED resources PROVE KeepsEntries
  BY <1>2 DEF KeepsEntries, SameResource, Tracked
<1>3. CASE \/ PollStart \/ PollStep
           \/ \E t \in Types : MonPublish(t)
           \/ \E t \in Types, id \in Id : MonVisit(t, id)
           \/ \E id \in Id : FlushPublish(id)
  <2>1. UNCHANGED resources
    BY <1>3 DEF PollStart, PollStep, MonKwebList, MonStoreList, MonDone, FlushStart, PollEnd,
                MonPublish, MonVisit, FlushPublish, storeVars
  <2> QED BY <1>2, <2>1
<1> QED BY <1>1, <1>3 DEF MonitorStep, ReportStep

\* A step of the provider that makes an entry, or another resource's, is the
\* Put of a create.
LEMMA RevivalStep ==
    ASSUME TypeOK, [Next]_vars, NEW id \in Id, Tracked(id)', ~SameResource(id)
    PROVE  Created(id)
<1>1. CASE HandlerNext
  <2>1. PICK h \in Handler : \/ CreateVM(h) \/ CreateCluster(h) \/ DeleteVM(h) \/ DeleteCluster(h)
                             \/ RequestStep(h)
    BY <1>1 DEF HandlerNext
  <2>2. CASE CreateVM(h) \/ CreateCluster(h) \/ DeleteVM(h) \/ DeleteCluster(h)
    <3>1. UNCHANGED resources
      BY <2>2 DEF CreateVM, CreateCluster, DeleteVM, DeleteCluster, CreateBegin, DeleteBegin,
                  Arrive, storeVars
    <3> QED BY <3>1 DEF SameResource, Tracked
  <2>3. CASE DeleteSteps(h)
    BY <2>3, DeleteKeepsEntries DEF KeepsEntries
  <2>4. CASE CreateLock(h) \/ CreateCall(h) \/ CreatePut(h) \/ CreateRollback(h)
    BY <2>4, CreateMakesOwn
  <2> QED BY <2>1, <2>2, <2>3, <2>4
          DEF RequestStep, CreateVMStep, CreateClusterStep, DeleteVMStep, DeleteClusterStep
<1>2. CASE StartPoll \/ Poll
  BY <1>2, PollKeepsEntries DEF StartPoll, Poll, KeepsEntries
<1>3. CASE UNCHANGED resources
  BY <1>3 DEF SameResource, Tracked
<1>4. CASE TimePasses
  <2>1. resources[id] \in ResourceEntry \cup {None} /\ resources'[id] = Older(resources[id])
    BY <1>4 DEF TimePasses, Tick, TickStore, TypeOK, StoreTypeOK
  <2> QED BY <2>1, OlderType DEF SameResource, Tracked
<1>5. CASE CrashRestart
  BY <1>3, <1>5 DEF CrashRestart, storeVars
<1> QED BY <1>1, <1>2, <1>3, <1>4, <1>5 DEF Next, vars, storeVars

\* In the running provider, whatever is dropped stays dropped until a create
\* that kweb has carried out makes the entry anew: no late write of a delete or
\* a poll, and no restart, brings an entry back or changes whose it is.
THEOREM NoRevivalTheorem == Spec => NoRevival
<1>1. TypeOK /\ [Next]_vars =>
        [\A id \in Id : Tracked(id)' /\ ~SameResource(id) =>
            \E h \in Handler :
                /\ pc[h] = "put" /\ rq[h].id = id
                /\ resources'[id].KcliName = rq[h].name /\ resources'[id].Type = rq[h].type]_vars
  BY RevivalStep DEF Created
<1> QED BY <1>1, TypeCorrect, PTL DEF Spec, NoRevival

----------------------------------------------------------------------------
(* The reverse lookup *)

\* What requests, polls, time and restarts do to the store.
StoreWrite ==
    \/ UNCHANGED storeVars
    \/ \E i \in Id, e \in ResourceEntry : Put(i, e)
    \/ \E i \in Id : Delete(i)
    \/ \E i \in Id, s \in Status : UpdateStatus(i, s)
    \/ TickStore /\ UNCHANGED nameIndex

\* A handler writes to the entry of its own id.
LEMMA HandlerWrites == ASSUME TypeOK, HandlerNext PROVE StoreWrite
<1> PICK h \in Handler : \/ CreateVM(h) \/ CreateCluster(h) \/ DeleteVM(h) \/ DeleteCluster(h)
                         \/ RequestStep(h)
  BY DEF HandlerNext
<1>1. CASE CreateVM(h) \/ CreateCluster(h) \/ DeleteVM(h) \/ DeleteCluster(h)
  BY <1>1 DEF CreateVM, CreateCluster, DeleteVM, DeleteCluster, CreateBegin, DeleteBegin, Arrive,
              StoreWrite
<1>2. CASE DeleteSteps(h)
  <2>1. pc[h] \in DeletePC
    BY <1>2 DEF DeleteSteps, DeleteMark, DeleteCall, DeleteRestore, DeletePublish, DeleteDrop,
                DeletePC
  <2>2. rq[h].id \in Id /\ saved[h].Status \in Status /\ "DELETING" \in Status
    BY <2>1, RequestFields DEF TypeOK, ApiTypeOK, DeletePC, ResourceEntry, Status
  <2>3. \/ UNCHANGED storeVars
        \/ Delete(rq[h].id)
        \/ \E s \in Status : UpdateStatus(rq[h].id, s)
    BY <1>2, <2>2 DEF DeleteSteps, DeleteMark, DeleteCall, DeleteRestore, DeletePublish, DeleteDrop
  <2> QED BY <2>2, <2>3 DEF StoreWrite
<1>3. CASE CreatePut(h)
  <2> DEFINE e == [KcliName |-> rq[h].name, Type |-> rq[h].type,
                   Status |-> InitialStatus(rq[h].type), Age |-> 0]
  <2>1. rq[h].id \in Id /\ rq[h].name \in Name /\ rq[h].type \in Types
    BY <1>3, RequestFields DEF CreatePut, TypeOK, ApiTypeOK, CreatePC
  <2>2. e \in ResourceEntry
    BY <2>1, StoreAssumption DEF ResourceEntry, InitialStatus, Status
  <2>3. Put(rq[h].id, e) \/ UNCHANGED storeVars
    BY <1>3 DEF CreatePut
  <2> HIDE DEF e
  <2> QED BY <2>1, <2>2, <2>3 DEF StoreWrite
<1>4. CASE CreateLock(h) \/ CreateCall(h) \/ CreateRollback(h)
  BY <1>4 DEF CreateLock, CreateCall, CreateRollback, StoreWrite
<1> QED BY <1>1, <1>2, <1>3, <1>4
        DEF RequestStep, CreateVMStep, CreateClusterStep, DeleteVMStep, DeleteClusterStep

\* A poll drops or updates entries.
LEMMA PollWrites == ASSUME TypeOK, PollStart \/ MonitorStep PROVE StoreWrite
<1>1. ASSUME NEW t \in Types, MonApply(t) PROVE StoreWrite
  <2>1. work[t].id \in Id /\ work[t].status \in EventStatus
    BY <1>1 DEF MonApply, TypeOK, MonitorTypeOK, Change
  <2>2. \/ UNCHANGED storeVars
        \/ Delete(work[t].id)
        \/ \E s \in Status : UpdateStatus(work[t].id, s)
    BY <1>1, <2>1 DEF MonApply, EventStatus
  <2> QED BY <2>1, <2>2 DEF StoreWrite
<1>2. CASE \/ PollStart \/ PollStep
           \/ \E t \in Types : MonPublish(t)
           \/ \E t \in Types, id \in Id : MonVisit(t, id)
           \/ \E id \in Id : FlushPublish(id)
  BY <1>2 DEF PollStart, PollStep, MonKwebList, MonStoreList, MonDone, FlushStart, PollEnd,
              MonPublish, MonVisit, FlushPublish, StoreWrite
<1> QED BY <1>1, <1>2 DEF MonitorStep, ReportStep

\* Nothing else touches it but time.
LEMMA ProviderWrites == ASSUME TypeOK, [Next]_vars PROVE StoreWrite
<1>1. CASE HandlerNext
  BY <1>1, HandlerWrites
<1>2. CASE StartPoll \/ Poll
  BY <1>2, PollWrites DEF StartPoll, Poll
<1>3. CASE TimePasses
  BY <1>3 DEF TimePasses, Tick, StoreWrite
<1>4. CASE UNCHANGED storeVars
  BY <1>4 DEF StoreWrite
<1>5. CASE CrashRestart
  BY <1>4, <1>5 DEF CrashRestart
<1> QED BY <1>1, <1>2, <1>3, <1>4, <1>5 DEF Next, vars

\* A write leaves the lookup of a name right, unless it renames the entry.
LEMMA LookupStep ==
    ASSUME StoreTypeOK, StoreWrite, NEW n \in Name, LookupSound(n), ~Renames(n)
    PROVE  LookupSound(n)'
<1> USE StoreAssumption
<1>1. ASSUME NEW i \in Id, NEW e \in ResourceEntry, Put(i, e)
      PROVE  LookupSound(n)'
  <2>1. /\ resources'[i] = e /\ e # None
        /\ \A j \in Id : j # i => resources'[j] = resources[j]
        /\ nameIndex'[n] = IF n = e.KcliName THEN i ELSE nameIndex[n]
        /\ nameIndex[n] \in Id \cup {None}
    BY <1>1 DEF Put, StoreTypeOK, ResourceEntry
  <2>2. CASE n = e.KcliName
    BY <2>1, <2>2 DEF LookupSound, FindByKcliName
  <2>3. CASE n # e.KcliName
    <3>1. nameIndex[n] # i
      BY <2>1, <2>3 DEF LookupSound, FindByKcliName, Renames, Tracked
    <3> QED BY <2>1, <2>3, <3>1 DEF LookupSound, FindByKcliName
  <2> QED BY <2>2, <2>3
<1>2. ASSUME NEW i \in Id, Delete(i)
      PROVE  LookupSound(n)'
  BY <1>2 DEF Delete, Tracked, LookupSound, FindByKcliName, StoreTypeOK, ResourceEntry
<1>3. ASSUME NEW i \in Id, NEW s \in Status, UpdateStatus(i, s)
      PROVE  LookupSound(n)'
  BY <1>3, UpdateStatusType DEF UpdateStatus, Tracked, LookupSound, FindByKcliName, StoreTypeOK
<1>4. CASE TickStore /\ UNCHANGED nameIndex
  <2>1. \A i \in Id : resources'[i] = Older(resources[i]) /\ resources[i] \in ResourceEntry \cup {None}
    BY <1>4 DEF TickStore, StoreTypeOK
  <2>2. nameIndex' = nameIndex /\ nameIndex[n] \in Id \cup {None}
    BY <1>4 DEF StoreTypeOK
  <2> QED BY <2>1, <2>2, OlderType DEF LookupSound, FindByKcliName
<1>5. CASE UNCHANGED storeVars
  BY <1>5 DEF storeVars, LookupSound, FindByKcliName
<1> QED BY <1>1, <1>2, <1>3, <1>4, <1>5 DEF StoreWrite

\* In the running provider, requests that overtake each other and restarts
\* included, FindByKcliName starts to dangle or to return an entry of another
\* name only where a create overwrites the entry that an earlier create of the
\* same id has put under another name.
THEOREM ProviderIndexSound == Spec => IndexSound
<1>1. TypeOK /\ [Next]_vars
      => [\A n \in Name : LookupSound(n) => LookupSound(n)' \/ Renames(n)]_storeVars
  BY ProviderWrites, LookupStep DEF TypeOK
<1> QED BY <1>1, TypeCorrect, PTL DEF Spec, IndexSound

\* A request on its way is one that clients make.
LEMMA AskedRequests ==
    ASSUME TypeOK, Asked, HandlerNext, NEW g \in Handler, pc'[g] \in CreatePC
    PROVE  <<rq'[g].type, rq'[g].id, rq'[g].name>> \in CreateRequests
<1>t. /\ pc \in [Handler -> {"idle"} \cup CreatePC \cup DeletePC]
      /\ DOMAIN rq = Handler
  BY DEF TypeOK, HandlersTypeOK
<1>0. pc[g] \in CreatePC => <<rq[g].type, rq[g].id, rq[g].name>> \in CreateRequests
  BY DEF Asked
<1> PICK h \in Handler : \/ CreateVM(h) \/ CreateCluster(h) \/ DeleteVM(h) \/ DeleteCluster(h)
                         \/ RequestStep(h)
  BY DEF HandlerNext
<1>1. CASE CreateVM(h) \/ CreateCluster(h)
  <2>1. PICK q \in CreateRequests, l \in {"idle", "lock", "create"}, c \in Code \cup {None} :
            Arrive(h, [type |-> q[1], id |-> q[2], name |-> q[3]], l, None, c)
    BY <1>1, CreateArrives
  <2>2. /\ g # h => pc'[g] = pc[g] /\ rq'[g] = rq[g]
        /\ g = h => rq'[g] = [type |-> q[1], id |-> q[2], name |-> q[3]]
    BY <2>1, <1>t DEF Arrive
  <2>3. q = <<q[1], q[2], q[3]>>
    BY HandlersAssumption
  <2> QED BY <1>0, <2>2, <2>3
<1>2. CASE DeleteVM(h) \/ DeleteCluster(h)
  <2>1. PICK r : DeleteBegin(h, r)
    BY <1>2 DEF DeleteVM, DeleteCluster
  <2>2. g # h /\ pc'[g] = pc[g] /\ rq'[g] = rq[g]
    BY <2>1, <1>t DEF DeleteBegin, Arrive, CreatePC
  <2> QED BY <1>0, <2>2
<1>3. CASE RequestStep(h)
  <2>1. rq' = rq /\ (pc'[g] \in CreatePC => pc[g] \in CreatePC)
    <3>1. CASE DeleteSteps(h)
      BY <3>1, <1>t DEF DeleteSteps, DeleteMark, DeleteCall, DeleteOutcome, DeleteRestore,
                        DeletePublish, DeleteDrop, Goto, Reply, CreatePC
    <3>2. CASE CreateLock(h) \/ CreateCall(h) \/ CreatePut(h) \/ CreateRollback(h)
      <4>1. /\ pc[h] \in CreatePC
            /\ \/ \E l : Goto(h, l)
               \/ \E code : Reply(h, code)
        BY <3>2 DEF CreateLock, CreateCall, CreateOutcome, CreatePut, CreateRollback,
                    DeleteOutcome, CreatePC
      <4> QED BY <4>1, <1>t DEF Goto, Reply
    <3> QED BY <1>3, <3>1, <3>2
            DEF RequestStep, CreateVMStep, CreateClusterStep, DeleteVMStep, DeleteClusterStep
  <2> QED BY <1>0, <2>1
<1> QED BY <1>1, <1>2, <1>3

\* So is every entry, since only a create makes one.
LEMMA AskedStep == ASSUME TypeOK, Asked, [Next]_vars PROVE Asked'
<1>1. ASSUME NEW h \in Handler, pc'[h] \in CreatePC
      PROVE  <<rq'[h].type, rq'[h].id, rq'[h].name>> \in CreateRequests
  <2>1. CASE HandlerNext
    BY <1>1, <2>1, AskedRequests
  <2>2. CASE UNCHANGED handlerVars
    BY <1>1, <2>2 DEF handlerVars, Asked
  <2>3. CASE CrashRestart
    BY <1>1, <2>3 DEF CrashRestart, CreatePC
  <2> QED BY <2>1, <2>2, <2>3 DEF Next, StartPoll, Poll, TimePasses, vars
<1>2. ASSUME NEW id \in Id, Tracked(id)'
      PROVE  <<resources'[id].Type, id, resources'[id].KcliName>> \in CreateRequests
  <2>1. CASE SameResource(id)
    BY <2>1 DEF SameResource, Asked
  <2>2. CASE ~SameResource(id)
    <3>1. PICK h \in Handler : /\ pc[h] = "put" /\ rq[h].id = id
                               /\ resources'[id].KcliName = rq[h].name
                               /\ resources'[id].Type = rq[h].type
      BY <1>2, <2>2, RevivalStep DEF Created
    <3> QED BY <3>1 DEF Asked, CreatePC
  <2> QED BY <2>1, <2>2
<1> QED BY <1>1, <1>2 DEF Asked

\* If clients use an id for one resource only, FindByKcliName never dangles
\* and never returns an entry of another name: whatever requests, polls,
\* failures and crashes interleave, and however many ids share a kcli name.
THEOREM LookupTheorem ==
    ASSUME OneResourcePerId PROVE Spec => []\A n \in Name : LookupSound(n)
<1> DEFINE Lookups == \A n \in Name : LookupSound(n)
           Inv == TypeOK /\ Asked /\ Lookups
<1>1. Init => Inv
  BY InitType DEF Init, StoreInit, HandlersInit, Asked, Tracked, LookupSound, CreatePC
<1>2. Inv /\ [Next]_vars => Inv'
  <2> SUFFICES ASSUME Inv, [Next]_vars PROVE Inv'
    OBVIOUS
  <2>1. TypeOK' /\ Asked' /\ StoreWrite
    BY NextType, AskedStep, ProviderWrites
  <2>2. ASSUME NEW n \in Name PROVE ~Renames(n)
    <3> SUFFICES ASSUME NEW id \in Id, Tracked(id), Tracked(id)'
                 PROVE  resources'[id].KcliName = resources[id].KcliName
      BY DEF Renames
    <3>1. /\ <<resources[id].Type, id, resources[id].KcliName>> \in CreateRequests
          /\ <<resources'[id].Type, id, resources'[id].KcliName>> \in CreateRequests
      BY <2>1 DEF Asked
    <3> QED BY <3>1, OneResourcePerId DEF OneResourcePerId
  <2>3. Lookups'
    BY <2>1, <2>2, LookupStep DEF TypeOK
  <2> QED BY <2>1, <2>3
<1>3. Inv => Lookups
  OBVIOUS
<1> QED BY <1>1, <1>2, <1>3, PTL DEF Spec
=============================================================================
