--------------------------- MODULE Handlers_proofs ---------------------------
(* Type correctness of the API handlers, mutual exclusion of createMu, and   *)
(* what creates that run side by side leave at kweb.                         *)
EXTENDS Handlers, Monitor_proofs

ApiTypeOK == StoreTypeOK /\ EnvTypeOK /\ HandlersTypeOK

\* What a request may be started with: an answer, or a place in the handler
\* together with what that place needs.
Startable(r, label, entry, code) ==
    /\ r \in Request
    /\ entry \in ResourceEntry \cup {None}
    /\ code \in Code \cup {None}
    /\ \/ label = "idle"
       \/ label \in {"lock", "create"} /\ r.name # None
       \/ label = "mark" /\ entry # None

\* Reading a request r into an idle goroutine keeps the types, whatever its
\* first answer or its next step.
LEMMA ArriveType ==
    ASSUME ApiTypeOK, NEW h \in Handler, NEW r, NEW label, NEW entry, NEW code,
           Startable(r, label, entry, code), Arrive(h, r, label, entry, code)
    PROVE  ApiTypeOK'
<1>1. StoreTypeOK' /\ EnvTypeOK'
  BY DEF ApiTypeOK, Arrive, StoreTypeOK, EnvTypeOK, storeVars, envVars
<1>2. HandlersTypeOK'
  BY HandlersAssumption
     DEF ApiTypeOK, Arrive, HandlersTypeOK, Startable, CreatePC, DeletePC
<1> QED BY <1>1, <1>2 DEF ApiTypeOK

\* Moving on keeps the request's record, which the new place may rely on.
LEMMA GotoType ==
    ASSUME HandlersTypeOK, NEW h \in Handler, pc[h] # "idle", NEW label,
           \/ pc[h] \in CreatePC /\ label \in CreatePC
           \/ pc[h] \in DeletePC /\ label \in DeletePC,
           Goto(h, label),
           createMu' \in Handler \cup {None}, stranded' \subseteq Id, sent' = sent
    PROVE  HandlersTypeOK'
  BY DEF HandlersTypeOK, Goto, CreatePC, DeletePC

\* Answering frees the goroutine and keeps the types of its records.
LEMMA ReplyType ==
    ASSUME HandlersTypeOK, NEW h \in Handler, NEW code \in Code, Reply(h, code),
           createMu' \in Handler \cup {None}, stranded' \subseteq Id, sent' = sent
    PROVE  HandlersTypeOK'
  BY DEF HandlersTypeOK, Reply, CreatePC, DeletePC

----------------------------------------------------------------------------
(* One lemma per handler: its first step and the steps after it. *)

\* The lookup and the validation of CreateVM and CreateCluster.
LEMMA CreateBeginType ==
    ASSUME ApiTypeOK, NEW h \in Handler, NEW r \in Request, r.name # None,
           NEW label \in {"lock", "create"}, CreateBegin(h, r, label)
    PROVE  ApiTypeOK'
<1>1. \A code \in Code : Startable(r, "idle", None, code)
  BY DEF Startable
<1>2. Startable(r, label, None, None)
  BY DEF Startable
<1>3. {201, 400, 409} \subseteq Code
  BY DEF Code
<1> QED BY <1>1, <1>2, <1>3, ArriveType DEF CreateBegin

\* The lookup of DeleteVM and DeleteCluster.
LEMMA DeleteBeginType ==
    ASSUME ApiTypeOK, NEW h \in Handler, NEW r \in Request, DeleteBegin(h, r)
    PROVE  ApiTypeOK'
<1>1. \A code \in Code : Startable(r, "idle", None, code)
  BY DEF Startable
<1>2. Tracked(r.id) => Startable(r, "mark", resources[r.id], None)
  BY DEF Startable, Tracked, ApiTypeOK, StoreTypeOK, Request
<1>3. {204, 404, 500} \subseteq Code
  BY DEF Code
<1> QED BY <1>1, <1>2, <1>3, ArriveType DEF DeleteBegin

\* The request of a handler that is at work.
LEMMA RequestFields ==
    ASSUME ApiTypeOK, NEW h \in Handler, pc[h] # "idle"
    PROVE  /\ rq[h] \in Request
           /\ rq[h].type \in Types /\ rq[h].id \in Id
           /\ pc[h] \in CreatePC => rq[h].name \in Name
           /\ pc[h] \in DeletePC => saved[h] \in ResourceEntry
  BY DEF ApiTypeOK, HandlersTypeOK, Request

\* The steps of a create after its lookup: mutex, kweb call, Put, rollback.
LEMMA CreateStepType ==
    ASSUME ApiTypeOK, NEW h \in Handler,
           CreateLock(h) \/ CreateCall(h) \/ CreatePut(h) \/ CreateRollback(h)
    PROVE  ApiTypeOK'
<1> USE DEF ApiTypeOK
<1> DEFINE c(op, n) == [op |-> op, type |-> rq[h].type, name |-> n]
<1>0. pc[h] \in CreatePC /\ pc[h] # "idle"
  BY DEF CreateLock, CreateCall, CreatePut, CreateRollback, CreatePC
<1>a. /\ rq[h].type \in Types /\ rq[h].id \in Id /\ rq[h].name \in Name
  BY <1>0, RequestFields
<1>b. {201, 409, 500, 502} \subseteq Code
  BY DEF Code
<1>c. late \cup {c("create", rq[h].name)} \subseteq Call /\ late \cup {c("delete", rq[h].name)} \subseteq Call
  BY <1>a DEF EnvTypeOK, Call
<1>d. createMu \in Handler \cup {None} /\ stranded \subseteq Id
  BY DEF HandlersTypeOK
<1>1. CASE CreateLock(h)
  <2>1. StoreTypeOK' /\ EnvTypeOK'
    BY <1>1 DEF CreateLock, storeVars, envVars, StoreTypeOK, EnvTypeOK
  <2>2. HandlersTypeOK'
    BY <1>0, <1>1, <1>d, GotoType DEF CreateLock, CreatePC
  <2> QED BY <2>1, <2>2
<1>2. CASE CreateCall(h)
  <2>1. StoreTypeOK' /\ stranded' = stranded /\ sent' = sent /\ createMu' \in Handler \cup {None}
    BY <1>2, <1>d DEF CreateCall, storeVars, StoreTypeOK
  <2>2. /\ kweb' \in [Types -> [Name -> KwebState]]
        /\ late' \subseteq Call
    BY <1>2, <1>a, <1>c, KwebCreateType DEF CreateCall, CreateOutcome, EnvTypeOK
  <2>3. EnvTypeOK'
    BY <1>2, <2>2 DEF CreateCall, EnvTypeOK
  <2>4. Goto(h, "put") \/ \E code \in Code : Reply(h, code)
    BY <1>2, <1>b DEF CreateCall, CreateOutcome
  <2>5. HandlersTypeOK'
    BY <1>0, <1>d, <2>1, <2>4, GotoType, ReplyType DEF CreatePC
  <2> QED BY <2>1, <2>3, <2>5
<1>3. CASE CreatePut(h)
  <2> DEFINE e == [KcliName |-> rq[h].name, Type |-> rq[h].type,
                   Status |-> InitialStatus(rq[h].type), Age |-> 0]
  <2>1. e \in ResourceEntry /\ e.Status \in EventStatus
    BY <1>a, StoreAssumption DEF ResourceEntry, InitialStatus, Status, EventStatus
  <2>2. StoreTypeOK'
    <3>1. CASE Put(rq[h].id, e)
      BY <3>1, <1>a, <2>1, PutType
    <3>2. CASE UNCHANGED storeVars
      BY <3>2 DEF storeVars, StoreTypeOK
    <3> QED BY <1>3, <3>1, <3>2 DEF CreatePut
  <2>3. EnvTypeOK'
    BY <1>3, <1>a, <2>1 DEF CreatePut, Inc, EnvTypeOK
  <2>4. Goto(h, "rollback") \/ \E code \in Code : Reply(h, code)
    BY <1>3, <1>b DEF CreatePut
  <2>5. HandlersTypeOK'
    BY <1>3, <1>0, <1>d, <2>4, GotoType, ReplyType DEF CreatePC, CreatePut
  <2> QED BY <2>2, <2>3, <2>5
<1>4. CASE CreateRollback(h)
  <2>1. StoreTypeOK' /\ stranded' = stranded /\ sent' = sent /\ createMu' = createMu
    BY <1>4 DEF CreateRollback, storeVars, StoreTypeOK
  <2>2. /\ kweb' \in [Types -> [Name -> KwebState]]
        /\ late' \subseteq Call
    BY <1>4, <1>a, <1>c, KwebDeleteType DEF CreateRollback, DeleteOutcome, EnvTypeOK
  <2>3. EnvTypeOK'
    BY <1>4, <2>2 DEF CreateRollback, EnvTypeOK
  <2>4. Reply(h, 500)
    BY <1>4 DEF CreateRollback, DeleteOutcome
  <2>5. HandlersTypeOK'
    BY <1>b, <1>d, <2>1, <2>4, ReplyType
  <2> QED BY <2>1, <2>3, <2>5
<1> QED BY <1>1, <1>2, <1>3, <1>4

\* The steps of a delete after its lookup: mark, kweb call, restore or publish
\* and drop.
LEMMA DeleteStepType ==
    ASSUME ApiTypeOK, NEW h \in Handler, DeleteSteps(h)
    PROVE  ApiTypeOK'
<1> USE DEF ApiTypeOK
<1>0. pc[h] \in DeletePC /\ pc[h] # "idle"
  BY DEF DeleteSteps, DeleteMark, DeleteCall, DeleteRestore, DeletePublish, DeleteDrop, DeletePC
<1>a. rq[h].type \in Types /\ rq[h].id \in Id /\ saved[h] \in ResourceEntry
  BY <1>0, RequestFields
<1>b. {204, 500, 502} \subseteq Code /\ "DELETED" \in EventStatus /\ "DELETING" \in Status
  BY DEF Code, EventStatus, Status
<1>c. saved[h].KcliName \in Name /\ saved[h].Status \in Status
  BY <1>a DEF ResourceEntry
<1>d. createMu \in Handler \cup {None} /\ stranded \subseteq Id
      /\ stranded \cup {rq[h].id} \subseteq Id
  BY <1>a DEF HandlersTypeOK
<1>e. UNCHANGED storeVars => StoreTypeOK'
  BY DEF storeVars, StoreTypeOK
<1>1. CASE DeleteMark(h)
  <2>1. StoreTypeOK'
    BY <1>1, <1>a, <1>b, <1>e, UpdateStatusType DEF DeleteMark
  <2>2. EnvTypeOK'
    BY <1>1 DEF DeleteMark, envVars, EnvTypeOK
  <2>3. HandlersTypeOK'
    BY <1>1, <1>0, <1>d, GotoType DEF DeleteMark, DeletePC
  <2> QED BY <2>1, <2>2, <2>3
<1>2. CASE DeleteCall(h)
  <2> DEFINE c == [op |-> "delete", type |-> rq[h].type, name |-> saved[h].KcliName]
  <2>1. late \cup {c} \subseteq Call
    BY <1>a, <1>c DEF EnvTypeOK, Call
  <2>2. /\ kweb' \in [Types -> [Name -> KwebState]]
        /\ late' \subseteq Call
    BY <1>2, <1>a, <1>c, <2>1, KwebDeleteType DEF DeleteCall, DeleteOutcome, EnvTypeOK
  <2>3. StoreTypeOK' /\ EnvTypeOK'
    BY <1>2, <1>e, <2>2 DEF DeleteCall, EnvTypeOK
  <2>4. Goto(h, "publish") \/ Goto(h, "restore")
    BY <1>2 DEF DeleteCall, DeleteOutcome
  <2>5. HandlersTypeOK'
    BY <1>2, <1>0, <1>d, <2>4, GotoType DEF DeleteCall, DeletePC
  <2> QED BY <2>3, <2>5
<1>3. CASE DeleteRestore(h)
  <2>1. StoreTypeOK'
    BY <1>3, <1>a, <1>c, <1>e, UpdateStatusType DEF DeleteRestore
  <2>2. EnvTypeOK'
    BY <1>3 DEF DeleteRestore, envVars, EnvTypeOK
  <2>3. HandlersTypeOK'
    BY <1>3, <1>b, <1>d, ReplyType DEF DeleteRestore
  <2> QED BY <2>1, <2>2, <2>3
<1>4. CASE DeletePublish(h)
  <2>1. StoreTypeOK' /\ EnvTypeOK'
    BY <1>4, <1>a, <1>b, <1>e DEF DeletePublish, Publish, EnvTypeOK
  <2>2. HandlersTypeOK'
    BY <1>4, <1>0, <1>d, GotoType DEF DeletePublish, DeletePC
  <2> QED BY <2>1, <2>2
<1>5. CASE DeleteDrop(h)
  <2>1. StoreTypeOK'
    BY <1>5, <1>a, <1>e, DeleteType DEF DeleteDrop
  <2>2. EnvTypeOK'
    BY <1>5, <1>a, DecType DEF DeleteDrop, EnvTypeOK
  <2>3. HandlersTypeOK'
    BY <1>5, <1>b, <1>d, ReplyType DEF DeleteDrop
  <2> QED BY <2>1, <2>2, <2>3
<1> QED BY <1>1, <1>2, <1>3, <1>4, <1>5 DEF DeleteSteps

\* Every step of every request keeps the types.
LEMMA HandlerNextType == ASSUME ApiTypeOK, HandlerNext PROVE ApiTypeOK'
<1> PICK h \in Handler : \/ CreateVM(h) \/ CreateCluster(h) \/ DeleteVM(h) \/ DeleteCluster(h)
                         \/ RequestStep(h)
  BY DEF HandlerNext
<1>1. CASE CreateVM(h)
  <2> PICK q \in CreateRequests :
          q[1] = "vm" /\ CreateBegin(h, [type |-> "vm", id |-> q[2], name |-> q[3]], "create")
    BY <1>1 DEF CreateVM
  <2>1. /\ [type |-> "vm", id |-> q[2], name |-> q[3]] \in Request
        /\ q[3] # None
    BY HandlersAssumption, StoreAssumption DEF Request
  <2> QED BY <2>1, CreateBeginType
<1>2. CASE CreateCluster(h)
  <2> PICK q \in CreateRequests :
          /\ q[1] = "cluster"
          /\ CreateBegin(h, [type |-> "cluster", id |-> q[2], name |-> q[3]], "lock")
    BY <1>2 DEF CreateCluster
  <2>1. /\ [type |-> "cluster", id |-> q[2], name |-> q[3]] \in Request
        /\ q[3] # None
    BY HandlersAssumption, StoreAssumption DEF Request
  <2> QED BY <2>1, CreateBeginType
<1>3. CASE DeleteVM(h)
  <2> PICK q \in DeleteRequests :
          q[1] = "vm" /\ DeleteBegin(h, [type |-> "vm", id |-> q[2], name |-> None])
    BY <1>3 DEF DeleteVM
  <2>1. [type |-> "vm", id |-> q[2], name |-> None] \in Request
    BY HandlersAssumption DEF Request
  <2> QED BY <2>1, DeleteBeginType
<1>4. CASE DeleteCluster(h)
  <2> PICK q \in DeleteRequests :
          q[1] = "cluster" /\ DeleteBegin(h, [type |-> "cluster", id |-> q[2], name |-> None])
    BY <1>4 DEF DeleteCluster
  <2>1. [type |-> "cluster", id |-> q[2], name |-> None] \in Request
    BY HandlersAssumption DEF Request
  <2> QED BY <2>1, DeleteBeginType
<1>5. CASE RequestStep(h)
  BY <1>5, CreateStepType, DeleteStepType
     DEF RequestStep, CreateVMStep, CreateClusterStep, DeleteVMStep, DeleteClusterStep
<1> QED BY <1>1, <1>2, <1>3, <1>4, <1>5

----------------------------------------------------------------------------
(* createMu *)

\* A request that has its POST /kubes open holds the mutex.
MutexHeld == \A h \in Handler : pc[h] = "create" /\ rq[h].type = "cluster" => createMu = h

\* Nobody is inside createMu at the start.
LEMMA MutexHeldInit == HandlersInit => MutexHeld
  BY DEF HandlersInit, MutexHeld

\* A request that arrives is not inside createMu yet.
LEMMA ArriveMutex ==
    ASSUME ApiTypeOK, MutexHeld, NEW h \in Handler, NEW r, NEW label, NEW entry, NEW code,
           Arrive(h, r, label, entry, code), label = "create" => r.type = "vm"
    PROVE  MutexHeld'
  BY DEF ApiTypeOK, HandlersTypeOK, Arrive, MutexHeld

\* A cluster create is at its kweb call only while it holds createMu: CreateLock
\* waits for the holder, and every outcome of the call releases it.
LEMMA MutexHeldStep == ASSUME ApiTypeOK, MutexHeld, HandlerNext PROVE MutexHeld'
<1> PICK h \in Handler : \/ CreateVM(h) \/ CreateCluster(h) \/ DeleteVM(h) \/ DeleteCluster(h)
                         \/ RequestStep(h)
  BY DEF HandlerNext
<1>t. pc \in [Handler -> {"idle"} \cup CreatePC \cup DeletePC] /\ DOMAIN rq = Handler
  BY DEF ApiTypeOK, HandlersTypeOK
<1>1. CASE CreateVM(h) \/ CreateCluster(h) \/ DeleteVM(h) \/ DeleteCluster(h)
  <2>1. CASE CreateVM(h)
    <3> PICK q \in CreateRequests :
            CreateBegin(h, [type |-> "vm", id |-> q[2], name |-> q[3]], "create")
      BY <2>1 DEF CreateVM
    <3> QED BY ArriveMutex DEF CreateBegin
  <2>2. CASE CreateCluster(h)
    <3> PICK q \in CreateRequests :
            CreateBegin(h, [type |-> "cluster", id |-> q[2], name |-> q[3]], "lock")
      BY <2>2 DEF CreateCluster
    <3> QED BY ArriveMutex DEF CreateBegin
  <2>3. CASE DeleteVM(h) \/ DeleteCluster(h)
    <3> PICK r : DeleteBegin(h, r)
      BY <2>3 DEF DeleteVM, DeleteCluster
    <3> QED BY ArriveMutex DEF DeleteBegin
  <2> QED BY <1>1, <2>1, <2>2, <2>3
<1>2. CASE CreateLock(h) /\ rq[h].type = "cluster"
  BY <1>2, <1>t, HandlersAssumption DEF CreateLock, Goto, MutexHeld
<1>3. CASE CreateCall(h)
  <2>1. Goto(h, "put") \/ \E code \in Code : Reply(h, code)
    BY <1>3 DEF CreateCall, CreateOutcome, Code
  <2>2. pc' = [pc EXCEPT ![h] = pc'[h]] /\ pc'[h] # "create" /\ rq' = rq
    BY <2>1, <1>t DEF Goto, Reply
  <2> QED BY <1>3, <1>t, <2>2 DEF CreateCall, MutexHeld
<1>4. CASE CreatePut(h) \/ CreateRollback(h) \/ DeleteSteps(h)
  <2>1. createMu' = createMu
    BY <1>4 DEF CreatePut, CreateRollback, DeleteSteps, DeleteMark, DeleteCall, DeleteRestore,
               DeletePublish, DeleteDrop
  <2>2. \E l \in {"rollback", "delete", "restore", "publish", "drop"} : Goto(h, l)
        \/ \E code : Reply(h, code)
    BY <1>4 DEF CreatePut, CreateRollback, DeleteSteps, DeleteMark, DeleteCall, DeleteRestore,
               DeletePublish, DeleteDrop, DeleteOutcome
  <2>3. pc' = [pc EXCEPT ![h] = pc'[h]] /\ pc'[h] # "create" /\ rq' = rq
    BY <2>2, <1>t DEF Goto, Reply
  <2> QED BY <1>t, <2>1, <2>3 DEF MutexHeld
<1> QED BY <1>1, <1>2, <1>3, <1>4
        DEF RequestStep, CreateVMStep, CreateClusterStep, DeleteVMStep, DeleteClusterStep

\* Cluster creates are serialized: for any number of requests, and whatever
\* fails, two of them never have a POST /kubes open at the same time.
THEOREM SerializedTheorem == ApiSpec => []ClusterCreatesSerialized
<1> DEFINE Inv == ApiTypeOK /\ MutexHeld
<1>1. ApiInit => Inv
  BY StoreAssumption, EnvironmentAssumption, HandlersAssumption, MutexHeldInit
     DEF ApiInit, StoreInit, EnvInit, HandlersInit, ApiTypeOK, StoreTypeOK, EnvTypeOK,
         HandlersTypeOK, KwebState, CreatePC, DeletePC
<1>2. Inv /\ [ApiNext]_apiVars => Inv'
  <2> SUFFICES ASSUME Inv, [ApiNext]_apiVars PROVE Inv'
    OBVIOUS
  <2>1. CASE HandlerNext
    BY <2>1, HandlerNextType, MutexHeldStep
  <2>2. CASE KwebNext /\ UNCHANGED <<storeVars, handlerVars>>
    BY <2>2, KwebNextType
       DEF storeVars, handlerVars, ApiTypeOK, StoreTypeOK, HandlersTypeOK, MutexHeld
  <2>3. CASE UNCHANGED apiVars
    BY <2>3 DEF apiVars, storeVars, envVars, handlerVars, ApiTypeOK, StoreTypeOK, EnvTypeOK,
               HandlersTypeOK, MutexHeld
  <2> QED BY <2>1, <2>2, <2>3 DEF ApiNext
<1>3. Inv => ClusterCreatesSerialized
  BY DEF MutexHeld, ClusterCreatesSerialized
<1> QED BY <1>1, <1>2, <1>3, PTL DEF ApiSpec

----------------------------------------------------------------------------
(* Creates of one name *)

\* The request has made its resource at kweb and not finished with it.
Holding(h) == pc[h] \in {"put", "rollback"}

\* What an entry names is at kweb: nobody takes it away while only creates run.
TrackedExists ==
    \A id \in Id, t \in Types, n \in Name : Tracks(id, t, n) => Exists(t, n)

OwnInv == ApiTypeOK /\ late = {} /\ TrackedExists /\ CreatorOwns

\* kweb ends what it is called for, and nobody else removes a resource.
NothingBehind == Faults \cap {"vanish", "timeout"} = {}

\* A create that arrives is one that clients may send.
LEMMA CreateArrives ==
    ASSUME NEW h \in Handler, CreateVM(h) \/ CreateCluster(h)
    PROVE  \E q \in CreateRequests, l \in {"idle", "lock", "create"}, code \in Code \cup {None} :
               Arrive(h, [type |-> q[1], id |-> q[2], name |-> q[3]], l, None, code)
<1>1. PICK q \in CreateRequests, l \in {"lock", "create"} :
          CreateBegin(h, [type |-> q[1], id |-> q[2], name |-> q[3]], l)
  BY DEF CreateVM, CreateCluster
<1> QED BY <1>1 DEF CreateBegin, Code

\* A step that gives no request a resource and makes no entry, and takes
\* nothing away at kweb.
LEMMA OwnUntouched ==
    ASSUME OwnInv, ApiTypeOK', late' = {},
           \A t \in Types, n \in Name : Exists(t, n) => Exists(t, n)',
           \A h \in Handler, t \in Types, n \in Name : Holds(h, t, n)' => Holds(h, t, n),
           \A id \in Id, t \in Types, n \in Name : Tracks(id, t, n)' => Tracks(id, t, n)
    PROVE  OwnInv'
<1>1. TrackedExists'
  BY DEF OwnInv, TrackedExists
<1>2. CreatorOwns'
  BY DEF OwnInv, CreatorOwns
<1> QED BY <1>1, <1>2 DEF OwnInv

\* The POST at kweb: only a name that kweb does not have gets a new resource.
LEMMA OwnCall ==
    ASSUME OwnInv, ApiTypeOK', NothingBehind, NEW h \in Handler, CreateCall(h)
    PROVE  OwnInv'
<1> DEFINE t == rq[h].type
           n == rq[h].name
<1>t. /\ t \in Types /\ n \in Name
      /\ pc \in [Handler -> {"idle"} \cup CreatePC \cup DeletePC]
      /\ kweb \in [Types -> [Name -> KwebState]]
  BY RequestFields DEF OwnInv, ApiTypeOK, HandlersTypeOK, EnvTypeOK, CreateCall, CreatePC
<1>0. \A id \in Id, u \in Types, m \in Name : Tracks(id, u, m)' = Tracks(id, u, m)
  BY DEF CreateCall, storeVars, Tracks, Tracked
<1>1. CASE KwebCreate(t, n) /\ Goto(h, "put") /\ UNCHANGED late
  <2>1. ~Exists(t, n) /\ Exists(t, n)'
    <3>1. PICK s \in VMStates \cup {"building"} : kweb' = [kweb EXCEPT ![t][n] = s]
      BY <1>1 DEF KwebCreate
    <3>2. s # "absent"
      BY EnvironmentAssumption
    <3>3. kweb'[t][n] = s
      BY <1>t, <3>1
    <3>4. ~Exists(t, n)
      BY <1>1 DEF KwebCreate
    <3> QED BY <1>1, <3>2, <3>3, <3>4 DEF Exists, Goto
  <2>2. \A u \in Types, m \in Name : Exists(u, m) => Exists(u, m)'
    BY <1>1, <1>t, <2>1 DEF KwebCreate, Exists
  <2>3. rq' = rq /\ \A g \in Handler : g # h => pc'[g] = pc[g]
    BY <1>1, <1>t DEF Goto
  <2>4. \A g \in Handler, u \in Types, m \in Name :
            Holds(g, u, m)' => Holds(g, u, m) \/ (g = h /\ u = t /\ m = n)
    BY <2>3 DEF Holds
  <2>5. /\ \A g \in Handler : ~Holds(g, t, n)
        /\ \A id \in Id : ~Tracks(id, t, n)
    BY <1>t, <2>1 DEF OwnInv, CreatorOwns, TrackedExists
  <2>6. TrackedExists'
    BY <1>0, <2>2 DEF OwnInv, TrackedExists
  <2>7. ASSUME NEW g \in Handler, NEW u \in Types, NEW m \in Name, Holds(g, u, m)'
        PROVE  /\ Exists(u, m)'
               /\ \A k \in Handler : Holds(k, u, m)' => k = g
               /\ \A id \in Id : ~Tracks(id, u, m)'
    <3>1. CASE u = t /\ m = n
      <4>1. \A k \in Handler : Holds(k, u, m)' => k = h
        BY <2>4, <2>5, <3>1
      <4>2. \A id \in Id : ~Tracks(id, u, m)'
        BY <1>0, <2>5, <3>1
      <4>3. Exists(u, m)'
        BY <1>1, <2>1, <3>1 DEF Exists, Goto
      <4> QED BY <2>7, <4>1, <4>2, <4>3
    <3>2. CASE ~(u = t /\ m = n)
      BY <1>0, <2>2, <2>4, <2>7, <3>2 DEF OwnInv, CreatorOwns
    <3> QED BY <3>1, <3>2
  <2>8. CreatorOwns'
    BY <2>7 DEF CreatorOwns
  <2> QED BY <1>1, <2>6, <2>8 DEF OwnInv
<1>2. CASE UNCHANGED <<kweb, late>> /\ \E code : Reply(h, code)
  <2>1. \A g \in Handler, u \in Types, m \in Name : Holds(g, u, m)' => Holds(g, u, m)
    BY <1>2, <1>t DEF Reply, Holds
  <2> QED BY <1>0, <1>2, <2>1, OwnUntouched DEF OwnInv, Exists
<1> QED BY <1>1, <1>2 DEF CreateCall, CreateOutcome, NothingBehind

\* The Put: the resource passes from the request to the entry.
LEMMA OwnPut ==
    ASSUME OwnInv, ApiTypeOK', NEW h \in Handler, CreatePut(h)
    PROVE  OwnInv'
<1> DEFINE t == rq[h].type
           n == rq[h].name
           e == [KcliName |-> n, Type |-> t, Status |-> InitialStatus(t), Age |-> 0]
<1>t. /\ t \in Types /\ n \in Name /\ rq[h].id \in Id
      /\ pc \in [Handler -> {"idle"} \cup CreatePC \cup DeletePC]
      /\ resources \in [Id -> ResourceEntry \cup {None}]
  BY RequestFields DEF OwnInv, ApiTypeOK, HandlersTypeOK, StoreTypeOK, CreatePut, CreatePC
<1>0. late' = {} /\ kweb' = kweb /\ rq' = rq /\ Holds(h, t, n)
      /\ \A g \in Handler : g # h => pc'[g] = pc[g]
  BY <1>t DEF CreatePut, Goto, Reply, OwnInv, Holds
<1>1. CASE Put(rq[h].id, e) /\ Reply(h, 201)
  <2>1. \A g \in Handler, u \in Types, m \in Name :
            Holds(g, u, m)' => Holds(g, u, m) /\ g # h
    BY <1>0, <1>1, <1>t DEF Reply, Holds
  <2>2. \A id \in Id, u \in Types, m \in Name :
            Tracks(id, u, m)' => Tracks(id, u, m) \/ (u = t /\ m = n)
    BY <1>1, <1>t DEF Put, Tracks, Tracked
  <2>3. TrackedExists'
    BY <1>0, <1>t, <2>2 DEF OwnInv, TrackedExists, CreatorOwns, Exists
  <2>4. CreatorOwns'
    BY <1>0, <1>t, <2>1, <2>2 DEF OwnInv, CreatorOwns, Exists
  <2> QED BY <1>0, <2>3, <2>4 DEF OwnInv
<1>2. CASE Goto(h, "rollback") /\ UNCHANGED storeVars
  <2>1. \A g \in Handler, u \in Types, m \in Name : Holds(g, u, m)' => Holds(g, u, m)
    BY <1>0, <1>2 DEF Holds
  <2>2. \A id \in Id, u \in Types, m \in Name : Tracks(id, u, m)' => Tracks(id, u, m)
    BY <1>2 DEF Tracks, Tracked, storeVars
  <2> QED BY <1>0, <2>1, <2>2, OwnUntouched DEF Exists
<1> QED BY <1>1, <1>2 DEF CreatePut

\* The rollback takes away what the request alone has.
LEMMA OwnRollback ==
    ASSUME OwnInv, ApiTypeOK', NothingBehind, NEW h \in Handler, CreateRollback(h)
    PROVE  OwnInv'
<1> DEFINE t == rq[h].type
           n == rq[h].name
<1>t. /\ t \in Types /\ n \in Name
      /\ pc \in [Handler -> {"idle"} \cup CreatePC \cup DeletePC]
      /\ kweb \in [Types -> [Name -> KwebState]]
  BY RequestFields DEF OwnInv, ApiTypeOK, HandlersTypeOK, EnvTypeOK, CreateRollback, CreatePC
<1>0. Reply(h, 500) /\ late' = late /\ Holds(h, t, n)
  BY DEF CreateRollback, DeleteOutcome, NothingBehind, Holds
<1>1. \A g \in Handler, u \in Types, m \in Name : Holds(g, u, m)' => Holds(g, u, m) /\ g # h
  BY <1>0, <1>t DEF Reply, Holds
<1>2. \A id \in Id, u \in Types, m \in Name : Tracks(id, u, m)' = Tracks(id, u, m)
  BY DEF CreateRollback, storeVars, Tracks, Tracked
<1>3. CASE KwebDelete(t, n)
  <2>1. \A u \in Types, m \in Name : ~(u = t /\ m = n) => Exists(u, m)' = Exists(u, m)
    BY <1>3, <1>t DEF KwebDelete, Exists
  <2>2. TrackedExists'
    BY <1>0, <1>t, <1>2, <2>1 DEF OwnInv, TrackedExists, CreatorOwns
  <2>3. CreatorOwns'
    BY <1>0, <1>t, <1>1, <1>2, <2>1 DEF OwnInv, CreatorOwns
  <2> QED BY <1>0, <2>2, <2>3 DEF OwnInv
<1>4. CASE UNCHANGED kweb
  BY <1>0, <1>1, <1>2, <1>4, OwnUntouched DEF OwnInv, Exists
<1> QED BY <1>3, <1>4 DEF CreateRollback, DeleteOutcome

\* Every step of a create keeps the ownership.
LEMMA OwnStep ==
    ASSUME OwnInv, NothingBehind, [CreatesNext]_apiVars
    PROVE  OwnInv'
<1>t. pc \in [Handler -> {"idle"} \cup CreatePC \cup DeletePC] /\ DOMAIN rq = Handler
  BY DEF OwnInv, ApiTypeOK, HandlersTypeOK
<1>s. UNCHANGED storeVars =>
          \A id \in Id, t \in Types, n \in Name : Tracks(id, t, n)' => Tracks(id, t, n)
  BY DEF storeVars, Tracks, Tracked
<1>e. UNCHANGED envVars =>
          late' = {} /\ \A t \in Types, n \in Name : Exists(t, n) => Exists(t, n)'
  BY DEF envVars, Exists, OwnInv
<1>1. CASE \E h \in Handler : CreateVM(h) \/ CreateCluster(h) \/ CreateStep(h)
  <2> PICK h \in Handler : CreateVM(h) \/ CreateCluster(h) \/ CreateStep(h)
    BY <1>1
  <2>0. ApiTypeOK'
    BY HandlerNextType DEF OwnInv, HandlerNext, RequestStep, CreateStep
  <2>1. CASE CreateVM(h) \/ CreateCluster(h)
    <3>1. PICK q \in CreateRequests, l \in {"idle", "lock", "create"}, c \in Code \cup {None} :
              Arrive(h, [type |-> q[1], id |-> q[2], name |-> q[3]], l, None, c)
      BY <2>1, CreateArrives
    <3>2. UNCHANGED <<storeVars, envVars>>
          /\ \A g \in Handler, t \in Types, n \in Name : Holds(g, t, n)' => Holds(g, t, n)
      BY <3>1, <1>t DEF Arrive, Holds
    <3> QED BY <1>s, <1>e, <2>0, <3>2, OwnUntouched
  <2>2. CASE CreateLock(h)
    <3>1. UNCHANGED <<storeVars, envVars>>
          /\ \A g \in Handler, t \in Types, n \in Name : Holds(g, t, n)' => Holds(g, t, n)
      BY <2>2, <1>t DEF CreateLock, Goto, Holds
    <3> QED BY <1>s, <1>e, <2>0, <3>1, OwnUntouched
  <2> QED BY <2>0, <2>1, <2>2, OwnCall, OwnPut, OwnRollback
          DEF CreateStep, CreateVMStep, CreateClusterStep
<1>2. CASE KwebNext /\ UNCHANGED <<storeVars, handlerVars>>
  <2>1. ApiTypeOK'
    BY <1>2, KwebNextType
       DEF OwnInv, storeVars, handlerVars, ApiTypeOK, StoreTypeOK, HandlersTypeOK
  <2>2. late' = {} /\ \E n \in Name : KwebVMChange(n) \/ KwebClusterProgress(n)
    BY <1>2 DEF KwebNext, KwebVanish, NothingBehind, OwnInv
  <2>3. \A t \in Types, n \in Name : Exists(t, n) => Exists(t, n)'
    <3>t. kweb \in [Types -> [Name -> KwebState]]
      BY DEF OwnInv, ApiTypeOK, EnvTypeOK
    <3> PICK m \in Name : KwebVMChange(m) \/ KwebClusterProgress(m)
      BY <2>2
    <3>1. CASE KwebVMChange(m)
      <4> PICK s \in VMStates : kweb' = [kweb EXCEPT !["vm"][m] = s]
        BY <3>1 DEF KwebVMChange
      <4>1. s # "absent"
        BY EnvironmentAssumption
      <4> QED BY <3>t, <4>1 DEF Exists
    <3>2. CASE KwebClusterProgress(m)
      BY <3>2, <3>t DEF KwebClusterProgress, Exists
    <3> QED BY <3>1, <3>2
  <2> QED BY <1>2, <1>s, <2>1, <2>2, <2>3, OwnUntouched DEF handlerVars, Holds
<1>3. CASE UNCHANGED apiVars
  <2>1. ApiTypeOK' /\ UNCHANGED <<storeVars, envVars, pc, rq>>
    BY <1>3 DEF apiVars, storeVars, envVars, handlerVars, OwnInv, ApiTypeOK, StoreTypeOK, EnvTypeOK,
               HandlersTypeOK
  <2> QED BY <1>s, <1>e, <2>1, OwnUntouched DEF Holds
<1> QED BY <1>1, <1>2, <1>3 DEF CreatesNext

\* Nothing is made, tracked or in hand at the start.
LEMMA OwnInit == ApiInit => OwnInv
  BY StoreAssumption, EnvironmentAssumption, HandlersAssumption
     DEF ApiInit, StoreInit, EnvInit, HandlersInit, OwnInv, ApiTypeOK, StoreTypeOK, EnvTypeOK,
         HandlersTypeOK, KwebState, CreatePC, DeletePC, TrackedExists, CreatorOwns, Holds, Tracks,
         Tracked

\* Of any number of concurrent creates of VMs and clusters, for any ids and
\* names, retries of one id included, and with any failures of the store and
\* refusals of kweb, one request at most comes to track a resource or to roll it
\* back, and none does so with a resource that the store tracks already.
THEOREM CreatorOwnsTheorem == ASSUME NothingBehind PROVE CreatesSpec => []CreatorOwns
<1>1. OwnInv /\ [CreatesNext]_apiVars => OwnInv'
  BY OwnStep
<1>2. OwnInv => CreatorOwns
  BY DEF OwnInv
<1> QED BY OwnInit, <1>1, <1>2, PTL DEF CreatesSpec

----------------------------------------------------------------------------
(* No resource is forgotten at kweb *)

\* An id stands for one resource, and kweb does not refuse a delete.
OneResourcePerId == \A q, r \in CreateRequests : q[2] = r[2] => q = r
KwebObeys == NothingBehind /\ "kweb" \notin Faults

\* Requests at work and entries are what clients asked for.
Asked ==
    /\ \A h \in Handler : pc[h] \in CreatePC =>
           <<rq[h].type, rq[h].id, rq[h].name>> \in CreateRequests
    /\ \A id \in Id : Tracked(id) =>
           <<resources[id].Type, id, resources[id].KcliName>> \in CreateRequests

LeakInv == OwnInv /\ Asked /\ NoLeak

\* A step that forgets neither an entry nor a request that holds a resource,
\* and makes no resource.
LEMMA LeakUntouched ==
    ASSUME LeakInv, OwnInv', Asked',
           \A t \in Types, n \in Name : Exists(t, n)' => Exists(t, n),
           \A t \in Types, n \in Name, id \in Id : Tracks(id, t, n) => Tracks(id, t, n)',
           \A h \in Handler : Holding(h) => Holding(h)' /\ rq'[h] = rq[h]
    PROVE  LeakInv'
<1>1. \A h \in Handler, t \in Types, n \in Name : Holds(h, t, n) => Holds(h, t, n)'
  BY DEF Holding, Holds
<1> QED BY <1>1 DEF LeakInv, NoLeak

\* The store is not touched, and no request is at work that was not: what was
\* asked for stays so.
LEMMA AskedUntouched ==
    ASSUME Asked, UNCHANGED storeVars, rq' = rq,
           \A h \in Handler : pc'[h] \in CreatePC => pc[h] \in CreatePC
    PROVE  Asked'
  BY DEF Asked, storeVars, Tracked

\* The store's Put: the entry it may replace is one of the same resource.
LEMMA LeakPut ==
    ASSUME LeakInv, OwnInv', OneResourcePerId, NEW h \in Handler, CreatePut(h)
    PROVE  LeakInv'
<1> DEFINE t == rq[h].type
           n == rq[h].name
           id == rq[h].id
           e == [KcliName |-> n, Type |-> t, Status |-> InitialStatus(t), Age |-> 0]
<1>t. /\ t \in Types /\ n \in Name /\ id \in Id
      /\ pc \in [Handler -> {"idle"} \cup CreatePC \cup DeletePC]
      /\ resources \in [Id -> ResourceEntry \cup {None}]
      /\ <<t, id, n>> \in CreateRequests
  BY RequestFields DEF LeakInv, OwnInv, ApiTypeOK, HandlersTypeOK, StoreTypeOK, CreatePut,
                       CreatePC, Asked
<1>1. rq' = rq /\ kweb' = kweb /\ \A g \in Handler : g # h => pc'[g] = pc[g]
  BY <1>t DEF CreatePut, Goto, Reply
<1>2. CASE Put(id, e) /\ Reply(h, 201)
  <2>1. e # None /\ resources' = [resources EXCEPT ![id] = e]
    BY <1>2, <1>t, StoreAssumption DEF Put, ResourceEntry, InitialStatus, Status
  <2>2. Tracks(id, t, n)'
    BY <1>1, <2>1, <1>t DEF Tracks, Tracked
  <2>3. \A i \in Id : i # id => resources'[i] = resources[i]
    BY <2>1, <1>t
  <2>4. Asked'
    <3>1. \A g \in Handler : pc'[g] \in CreatePC =>
              <<rq'[g].type, rq'[g].id, rq'[g].name>> \in CreateRequests
      BY <1>1, <1>2, <1>t DEF LeakInv, Asked, Reply, CreatePC
    <3>2. \A i \in Id : Tracked(i)' =>
              <<resources'[i].Type, i, resources'[i].KcliName>> \in CreateRequests
      BY <1>t, <2>1, <2>3 DEF LeakInv, Asked, Tracked
    <3> QED BY <3>1, <3>2 DEF Asked
  <2>5. ASSUME NEW u \in Types, NEW m \in Name, Exists(u, m)',
               \A i \in Id : ~Tracks(i, u, m)'
        PROVE  \E g \in Handler : Holds(g, u, m)'
    <3>1. <<u, m>> # <<t, n>>
      BY <1>t, <1>1, <2>2, <2>5
    <3>2. ASSUME NEW i \in Id, Tracks(i, u, m)
          PROVE  FALSE
      <4>1. CASE i = id
        <5>1. <<u, i, m>> \in CreateRequests
          BY <3>2 DEF Tracks, LeakInv, Asked
        <5>2. <<u, i, m>> = <<t, id, n>>
          BY <4>1, <5>1, <1>t DEF OneResourcePerId
        <5> QED BY <5>2, <3>1
      <4>2. CASE i # id
        BY <2>3, <2>5, <3>2, <4>2 DEF Tracks, Tracked
      <4> QED BY <4>1, <4>2
    <3>3. Exists(u, m)
      BY <2>5, <1>1 DEF Exists
    <3>4. PICK g \in Handler : Holds(g, u, m)
      BY <3>2, <3>3 DEF LeakInv, NoLeak
    <3>5. g # h
      BY <3>1, <3>4 DEF Holds
    <3> QED BY <1>1, <3>4, <3>5 DEF Holds, Holding
  <2>6. NoLeak'
    BY <2>5 DEF NoLeak, Tracks, Holds, Holding
  <2> QED BY <2>4, <2>6 DEF LeakInv
<1>3. CASE Goto(h, "rollback") /\ UNCHANGED storeVars
  <2>1. \A g \in Handler : pc'[g] \in CreatePC => pc[g] \in CreatePC
    BY <1>3, <1>t DEF Goto, CreatePC, CreatePut
  <2>2. Asked'
    BY <1>1, <1>3, <2>1, AskedUntouched DEF LeakInv
  <2>3. \A g \in Handler : Holding(g) => Holding(g)' /\ rq'[g] = rq[g]
    BY <1>1, <1>3, <1>t DEF Goto, Holding
  <2> QED BY <1>1, <1>3, <2>2, <2>3, LeakUntouched DEF Exists, Tracks, Tracked, storeVars
<1> QED BY <1>2, <1>3 DEF CreatePut

\* The POST at kweb: the request that makes a resource holds it from then on.
LEMMA LeakCall ==
    ASSUME LeakInv, OwnInv', NothingBehind, NEW h \in Handler, CreateCall(h)
    PROVE  LeakInv'
<1> DEFINE t == rq[h].type
           n == rq[h].name
<1>t. /\ t \in Types /\ n \in Name
      /\ pc \in [Handler -> {"idle"} \cup CreatePC \cup DeletePC]
      /\ kweb \in [Types -> [Name -> KwebState]]
  BY RequestFields DEF LeakInv, OwnInv, ApiTypeOK, HandlersTypeOK, EnvTypeOK, CreateCall, CreatePC
<1>0. pc[h] = "create" /\ UNCHANGED storeVars
  BY DEF CreateCall
<1>1. Goto(h, "put") \/ \E code : Reply(h, code)
  BY DEF CreateCall, CreateOutcome
<1>2. rq' = rq /\ \A g \in Handler : (Holding(g) => Holding(g)')
                                     /\ (pc'[g] \in CreatePC => pc[g] \in CreatePC)
  BY <1>0, <1>1, <1>t DEF Goto, Reply, Holding, CreatePC
<1>3. Asked'
  BY <1>0, <1>2, AskedUntouched DEF LeakInv
<1>4. \A u \in Types, m \in Name, id \in Id : Tracks(id, u, m) => Tracks(id, u, m)'
  BY <1>0 DEF Tracks, Tracked, storeVars
<1>5. CASE KwebCreate(t, n) /\ Goto(h, "put")
  <2>1. \A u \in Types, m \in Name : Exists(u, m)' => Exists(u, m) \/ (u = t /\ m = n)
    BY <1>5, <1>t DEF KwebCreate, Exists
  <2>2. Holds(h, t, n)'
    BY <1>5, <1>t, <1>2 DEF Goto, Holds, Holding
  <2>3. ASSUME NEW u \in Types, NEW m \in Name, Exists(u, m)',
               \A i \in Id : ~Tracks(i, u, m)'
        PROVE  \E g \in Handler : Holds(g, u, m)'
    <3>1. CASE u = t /\ m = n
      BY <1>2, <2>2, <3>1 DEF Holds
    <3>2. CASE Exists(u, m)
      <4>1. PICK g \in Handler : Holds(g, u, m)
        BY <1>4, <2>3, <3>2 DEF LeakInv, NoLeak
      <4> QED BY <1>2, <4>1 DEF Holds, Holding
    <3> QED BY <2>1, <2>3, <3>1, <3>2
  <2>4. NoLeak'
    BY <2>3 DEF NoLeak, Tracks, Holds, Holding
  <2> QED BY <1>3, <2>4 DEF LeakInv
<1>6. CASE UNCHANGED kweb
  BY <1>2, <1>3, <1>4, <1>6, LeakUntouched DEF Exists
<1> QED BY <1>5, <1>6 DEF CreateCall, CreateOutcome

\* The rollback: kweb has the resource and does delete it.
LEMMA LeakRollback ==
    ASSUME LeakInv, OwnInv', KwebObeys, NEW h \in Handler, CreateRollback(h)
    PROVE  LeakInv'
<1> DEFINE t == rq[h].type
           n == rq[h].name
<1>t. /\ t \in Types /\ n \in Name
      /\ pc \in [Handler -> {"idle"} \cup CreatePC \cup DeletePC]
      /\ kweb \in [Types -> [Name -> KwebState]]
  BY RequestFields DEF LeakInv, OwnInv, ApiTypeOK, HandlersTypeOK, EnvTypeOK, CreateRollback,
                       CreatePC
<1>0. pc[h] = "rollback" /\ UNCHANGED storeVars /\ Reply(h, 500) /\ Exists(t, n)
  BY <1>t DEF CreateRollback, DeleteOutcome, LeakInv, OwnInv, CreatorOwns, Holds
<1>1. KwebDelete(t, n)
  BY <1>0 DEF CreateRollback, DeleteOutcome, KwebObeys, NothingBehind
<1>2. rq' = rq /\ \A g \in Handler : (g # h => pc'[g] = pc[g])
                                     /\ (pc'[g] \in CreatePC => pc[g] \in CreatePC)
  BY <1>0, <1>t DEF Reply, CreatePC
<1>3. Asked'
  BY <1>0, <1>2, AskedUntouched DEF LeakInv
<1>4. \A u \in Types, m \in Name : Exists(u, m)' => Exists(u, m) /\ <<u, m>> # <<t, n>>
  BY <1>1, <1>t DEF KwebDelete, Exists
<1>5. ASSUME NEW u \in Types, NEW m \in Name, Exists(u, m)',
             \A i \in Id : ~Tracks(i, u, m)'
      PROVE  \E g \in Handler : Holds(g, u, m)'
  <2>1. \A i \in Id : ~Tracks(i, u, m)
    BY <1>0, <1>5 DEF Tracks, Tracked, storeVars
  <2>2. PICK g \in Handler : Holds(g, u, m)
    BY <1>4, <1>5, <2>1 DEF LeakInv, NoLeak
  <2>3. g # h
    BY <1>4, <1>5, <2>2 DEF Holds
  <2> QED BY <1>2, <2>2, <2>3 DEF Holds, Holding
<1>6. NoLeak'
  BY <1>5 DEF NoLeak, Tracks, Holds, Holding
<1> QED BY <1>3, <1>6 DEF LeakInv

\* Every step of a create, and of kweb, keeps the books.
LEMMA LeakStep ==
    ASSUME LeakInv, KwebObeys, OneResourcePerId, [CreatesNext]_apiVars
    PROVE  LeakInv'
<1>0. OwnInv' /\ NothingBehind
  BY OwnStep DEF LeakInv, KwebObeys
<1>t. pc \in [Handler -> {"idle"} \cup CreatePC \cup DeletePC] /\ DOMAIN rq = Handler
  BY DEF LeakInv, OwnInv, ApiTypeOK, HandlersTypeOK
<1>1. CASE \E h \in Handler : CreateVM(h) \/ CreateCluster(h) \/ CreateStep(h)
  <2> PICK h \in Handler : CreateVM(h) \/ CreateCluster(h) \/ CreateStep(h)
    BY <1>1
  <2>1. CASE CreateVM(h) \/ CreateCluster(h)
    <3> PICK q \in CreateRequests, l \in {"idle", "lock", "create"}, c \in Code \cup {None} :
            Arrive(h, [type |-> q[1], id |-> q[2], name |-> q[3]], l, None, c)
      BY <2>1, CreateArrives
    <3> DEFINE r == [type |-> q[1], id |-> q[2], name |-> q[3]]
    <3>1. rq'[h] = r /\ \A g \in Handler : g # h => pc'[g] = pc[g] /\ rq'[g] = rq[g]
      BY <1>t DEF Arrive
    <3>2. /\ UNCHANGED <<storeVars, envVars>>
          /\ \A g \in Handler : Holding(g) => Holding(g)' /\ rq'[g] = rq[g]
      BY <1>t DEF Arrive, Holding
    <3>3. <<r.type, r.id, r.name>> \in CreateRequests
      <4>1. q = <<q[1], q[2], q[3]>>
        BY HandlersAssumption
      <4> QED BY <4>1
    <3>4. \A g \in Handler : pc'[g] \in CreatePC =>
              <<rq'[g].type, rq'[g].id, rq'[g].name>> \in CreateRequests
      BY <3>1, <3>3 DEF LeakInv, Asked
    <3>5. Asked'
      BY <3>2, <3>4 DEF LeakInv, Asked, Tracked, storeVars
    <3> QED BY <1>0, <3>2, <3>5, LeakUntouched DEF envVars, storeVars, Exists, Tracks, Tracked
  <2>2. CASE CreateLock(h)
    <3>1. /\ UNCHANGED <<storeVars, envVars, rq>>
          /\ \A g \in Handler : /\ Holding(g) => Holding(g)'
                                /\ pc'[g] \in CreatePC => pc[g] \in CreatePC
      BY <2>2, <1>t DEF CreateLock, Goto, Holding, CreatePC
    <3>2. Asked'
      BY <3>1, AskedUntouched DEF LeakInv
    <3> QED BY <1>0, <3>1, <3>2, LeakUntouched DEF envVars, storeVars, Exists, Tracks, Tracked
  <2> QED BY <1>0, <2>1, <2>2, LeakCall, LeakPut, LeakRollback
          DEF CreateStep, CreateVMStep, CreateClusterStep
<1>2. CASE KwebNext /\ UNCHANGED <<storeVars, handlerVars>>
  <2>1. \E n \in Name : KwebVMChange(n) \/ KwebClusterProgress(n)
    BY <1>0, <1>2 DEF KwebNext, KwebVanish, NothingBehind, LeakInv, OwnInv
  <2>2. \A t \in Types, n \in Name : Exists(t, n)' => Exists(t, n)
    <3>t. kweb \in [Types -> [Name -> KwebState]]
      BY DEF LeakInv, OwnInv, ApiTypeOK, EnvTypeOK
    <3> PICK m \in Name : KwebVMChange(m) \/ KwebClusterProgress(m)
      BY <2>1
    <3>1. CASE KwebVMChange(m)
      BY <3>1, <3>t DEF KwebVMChange, Exists
    <3>2. CASE KwebClusterProgress(m)
      BY <3>2, <3>t DEF KwebClusterProgress, Exists
    <3> QED BY <3>1, <3>2
  <2>3. Asked'
    BY <1>2, AskedUntouched DEF LeakInv, handlerVars
  <2> QED BY <1>0, <1>2, <2>2, <2>3, LeakUntouched
          DEF handlerVars, storeVars, Holding, Tracks, Tracked
<1>3. CASE UNCHANGED apiVars
  <2>1. UNCHANGED <<storeVars, envVars, handlerVars>>
    BY <1>3 DEF apiVars
  <2>2. Asked'
    BY <2>1, AskedUntouched DEF LeakInv, handlerVars
  <2> QED BY <1>0, <2>1, <2>2, LeakUntouched
          DEF envVars, handlerVars, storeVars, Holding, Tracks, Tracked, Exists
<1> QED BY <1>1, <1>2, <1>3 DEF CreatesNext

\* Whatever the store does, for any number of ids, names and requests: a VM or
\* cluster at kweb is tracked or held by the request that will track it or
\* roll it back, as long as an id stands for one resource and kweb carries
\* out the deletes.
THEOREM NoLeakTheorem ==
    ASSUME KwebObeys, OneResourcePerId
    PROVE  CreatesSpec => []NoLeak
<1>1. ApiInit => LeakInv
  BY OwnInit DEF ApiInit, StoreInit, EnvInit, HandlersInit, LeakInv, Asked, NoLeak, Exists, Tracked,
                 CreatePC
<1>2. LeakInv /\ [CreatesNext]_apiVars => LeakInv'
  BY LeakStep
<1>3. LeakInv => NoLeak
  BY DEF LeakInv
<1> QED BY <1>1, <1>2, <1>3, PTL DEF CreatesSpec
=============================================================================
