------------------------ MODULE KubeconfigCache_proofs ------------------------
(* Type correctness of the reads and the kubeconfig cache, and that a cached *)
(* kubeconfig is one of an earlier cluster only in the windows the code has. *)
EXTENDS KubeconfigCache, Handlers_proofs

(* Types *)

\* An answered GET leaves its goroutine without a request.
LEMMA RespondType ==
    ASSUME KubeconfigTypeOK, NEW r \in Reader, NEW code \in {200, 404, 500}, NEW k \in Nat,
           Respond(r, code, k)
    PROVE  /\ rpc' \in [Reader -> {"idle", "load", "fetch", "keep"}]
           /\ reading' \in [Reader -> Reading \cup {None}]
           /\ \A q \in Reader : rpc'[q] # "idle" <=> reading'[q] # None
           /\ answer' \in [Reader -> [code : {200, 404, 500}, kubeconfig : Nat] \cup {None}]
  BY DEF KubeconfigTypeOK, Respond

\* The record of a GET that is under way.
LEMMA ReadingFields ==
    ASSUME KubeconfigTypeOK, NEW r \in Reader, rpc[r] # "idle"
    PROVE  /\ reading[r] \in Reading /\ reading[r] # None
           /\ reading[r].id \in Id /\ reading[r].entry \in ResourceEntry
           /\ reading[r].entry.KcliName \in Name /\ reading[r].raw \in Nat
  BY KubeconfigAssumption DEF KubeconfigTypeOK, Reading, ResourceEntry

\* Steps that change nothing of the store, kweb and the requests.
LEMMA ApiUntouchedType == ASSUME ApiTypeOK, UNCHANGED apiVars PROVE ApiTypeOK'
  BY DEF ApiTypeOK, apiVars, storeVars, envVars, handlerVars, StoreTypeOK, EnvTypeOK,
         HandlersTypeOK

\* Steps that change nothing of the cache and the GETs.
LEMMA CacheUntouchedType == ASSUME KubeconfigTypeOK, UNCHANGED kubeconfigVars PROVE KubeconfigTypeOK'
  BY DEF KubeconfigTypeOK, kubeconfigVars

\* The first step of a GET.
LEMMA ReadEntryType ==
    ASSUME ApiTypeOK, KubeconfigTypeOK, NEW r \in Reader, NEW id \in Id,
           GetVM(r, id) \/ GetCluster(r, id)
    PROVE  ApiTypeOK' /\ KubeconfigTypeOK'
<1>1. UNCHANGED <<apiVars, kcCache, evicting, made, excused>>
  BY DEF GetVM, GetCluster, ReadEntry
<1>2. CASE \E code \in {200, 404, 500} : Respond(r, code, 0)
  BY <1>1, <1>2, RespondType, ApiUntouchedType DEF KubeconfigTypeOK
<1>3. CASE /\ Tracked(id)
           /\ rpc' = [rpc EXCEPT ![r] = "load"]
           /\ reading' = [reading EXCEPT ![r] = [id |-> id, entry |-> resources[id], raw |-> 0]]
           /\ UNCHANGED answer
  <2>1. [id |-> id, entry |-> resources[id], raw |-> 0] \in Reading
    BY <1>3 DEF Reading, Tracked, ApiTypeOK, StoreTypeOK
  <2> QED BY <1>1, <1>3, <2>1, ApiUntouchedType, KubeconfigAssumption DEF KubeconfigTypeOK
<1> QED BY <1>2, <1>3 DEF GetVM, GetCluster, ReadEntry

\* Its later steps: the cache, kweb, the cache again.
LEMMA ReadStepType ==
    ASSUME ApiTypeOK, KubeconfigTypeOK, NEW r \in Reader, ReadStep(r)
    PROVE  ApiTypeOK' /\ KubeconfigTypeOK'
<1>0. rpc[r] # "idle" /\ UNCHANGED <<apiVars, evicting, made, excused>>
  BY DEF ReadStep, GetClusterLoad, GetClusterFetch, GetClusterKeep
<1>a. /\ reading[r] \in Reading /\ reading[r] # None /\ reading[r].id \in Id
      /\ reading[r].entry.KcliName \in Name /\ reading[r].raw \in Nat
  BY <1>0, ReadingFields
<1>b. ApiTypeOK'
  BY <1>0, ApiUntouchedType
<1>1. CASE GetClusterLoad(r)
  <2>1. CASE kcCache' = [kcCache EXCEPT ![reading[r].id] = None] /\ Respond(r, 200, 0)
    <3>1. kcCache' \in [Id -> CachedKubeconfig \cup {None}]
      BY <2>1 DEF KubeconfigTypeOK
    <3> QED BY <1>0, <1>b, <2>1, <3>1, RespondType DEF KubeconfigTypeOK
  <2>2. CASE /\ CacheHit(reading[r].id) /\ UNCHANGED kcCache
             /\ Respond(r, 200, kcCache[reading[r].id].kubeconfig)
    <3>1. kcCache[reading[r].id].kubeconfig \in Nat
      BY <1>a, <2>2 DEF CacheHit, KubeconfigTypeOK, CachedKubeconfig
    <3> QED BY <1>0, <1>b, <2>2, <3>1, RespondType DEF KubeconfigTypeOK
  <2>3. CASE rpc' = [rpc EXCEPT ![r] = "fetch"] /\ UNCHANGED <<kcCache, reading, answer>>
    BY <1>0, <1>a, <1>b, <2>3 DEF KubeconfigTypeOK
  <2> QED BY <1>1, <2>1, <2>2, <2>3 DEF GetClusterLoad
<1>2. CASE GetClusterFetch(r)
  <2> DEFINE n == reading[r].entry.KcliName
  <2>1. CASE /\ rpc' = [rpc EXCEPT ![r] = "keep"]
             /\ reading' = [reading EXCEPT ![r].raw = made[n]] /\ UNCHANGED answer
    <3>1. [reading[r] EXCEPT !.raw = made[n]] \in Reading
      BY <1>a DEF Reading, KubeconfigTypeOK
    <3>2. reading' = [reading EXCEPT ![r] = [reading[r] EXCEPT !.raw = made[n]]]
      BY <2>1
    <3> HIDE DEF n
    <3> QED BY <1>0, <1>2, <1>b, <2>1, <3>1, <3>2, KubeconfigAssumption
            DEF KubeconfigTypeOK, GetClusterFetch
  <2>2. CASE Respond(r, 200, 0)
    BY <1>0, <1>2, <1>b, <2>2, RespondType DEF KubeconfigTypeOK, GetClusterFetch
  <2> QED BY <1>2, <2>1, <2>2 DEF GetClusterFetch
<1>3. CASE GetClusterKeep(r)
  <2>1. [kubeconfig |-> reading[r].raw, age |-> 0] \in CachedKubeconfig
    BY <1>a, KubeconfigAssumption DEF CachedKubeconfig
  <2> QED BY <1>0, <1>3, <1>a, <1>b, <2>1, RespondType DEF KubeconfigTypeOK, GetClusterKeep
<1> QED BY <1>1, <1>2, <1>3 DEF ReadStep

\* The ghosts of a step of kweb.
LEMMA GhostsType ==
    ASSUME KubeconfigTypeOK, NEW I \in SUBSET Id, CountMade, excused' = excused \cup LeftCached(I)
    PROVE  made' \in [Name -> Nat] /\ excused' \subseteq Id \X Name \X Nat
<1>1. LeftCached(I) \subseteq Id \X Name \X Nat
  BY DEF LeftCached, Ending, KubeconfigTypeOK
<1> QED BY <1>1 DEF KubeconfigTypeOK, CountMade

\* The steps of a create or a delete of a cluster.
LEMMA WriteStepType ==
    ASSUME ApiTypeOK, KubeconfigTypeOK, NEW h \in Handler, WriteStep(h)
    PROVE  ApiTypeOK' /\ KubeconfigTypeOK'
<1>1. ApiTypeOK'
  BY HandlerNextType DEF WriteStep, HandlerNext, RequestStep
<1>2. pc[h] = "drop" => rq[h].id \in Id
  BY RequestFields
<1>3. evicting' \in [Handler -> Id \cup {None}]
  BY <1>2 DEF WriteStep, KubeconfigTypeOK
<1>4. made' \in [Name -> Nat] /\ excused' \subseteq Id \X Name \X Nat
  BY GhostsType DEF WriteStep
<1> QED BY <1>1, <1>3, <1>4 DEF WriteStep, KubeconfigTypeOK, readVars

\* The end of DeleteCluster.
LEMMA EvictType ==
    ASSUME ApiTypeOK, KubeconfigTypeOK, NEW h \in Handler, Evict(h)
    PROVE  ApiTypeOK' /\ KubeconfigTypeOK'
<1>1. evicting[h] \in Id
  BY DEF Evict, KubeconfigTypeOK
<1>2. \A r \in InFetch(evicting[h]) : /\ reading[r].entry.KcliName \in Name
                                      /\ reading[r].raw \in Nat
  BY ReadingFields DEF InFetch
<1>3. Fetched(evicting[h]) \subseteq Id \X Name \X Nat
  BY <1>1, <1>2 DEF Fetched
<1> QED BY <1>1, <1>3, ApiUntouchedType DEF Evict, KubeconfigTypeOK, readVars

\* What the monitor does to an entry.
LEMMA EntryStepType ==
    ASSUME ApiTypeOK, KubeconfigTypeOK, NEW id \in Id, Activate(id) \/ GiveUp(id) \/ Sweep(id)
    PROVE  ApiTypeOK' /\ KubeconfigTypeOK'
<1>1. UNCHANGED <<envVars, handlerVars, kubeconfigVars>>
  BY DEF Activate, GiveUp, Sweep
<1>2. Delete(id) \/ \E s \in Status : UpdateStatus(id, s)
  BY DEF Activate, GiveUp, Sweep, Status
<1>3. StoreTypeOK'
  BY <1>2, DeleteType, UpdateStatusType DEF ApiTypeOK
<1>4. EnvTypeOK' /\ HandlersTypeOK'
  BY <1>1 DEF ApiTypeOK, envVars, handlerVars, EnvTypeOK, HandlersTypeOK
<1> QED BY <1>1, <1>3, <1>4, CacheUntouchedType DEF ApiTypeOK

\* Every step of the specification keeps the types.
LEMMA ReadsStepType ==
    ASSUME ApiTypeOK, KubeconfigTypeOK, [ReadsNext]_readsVars
    PROVE  ApiTypeOK' /\ KubeconfigTypeOK'
<1>1. CASE KwebStep
  <2>1. EnvTypeOK' /\ StoreTypeOK' /\ HandlersTypeOK'
    BY <1>1, KwebNextType DEF KwebStep, ApiTypeOK, storeVars, handlerVars, StoreTypeOK, HandlersTypeOK
  <2>2. made' \in [Name -> Nat] /\ excused' \subseteq Id \X Name \X Nat
    BY <1>1, GhostsType DEF KwebStep
  <2> QED BY <1>1, <2>1, <2>2 DEF KwebStep, ApiTypeOK, KubeconfigTypeOK, readVars
<1>2. CASE Ages
  <2>1. \A id \in Id : kcCache[id] # None /\ kcCache[id].age < kubeconfigCacheTTL =>
            [kcCache[id] EXCEPT !.age = @ + 1] \in CachedKubeconfig
    BY KubeconfigAssumption DEF KubeconfigTypeOK, CachedKubeconfig
  <2>2. kcCache' \in [Id -> CachedKubeconfig \cup {None}]
    BY <1>2, <2>1 DEF Ages, KubeconfigTypeOK
  <2> QED BY <1>2, <2>2, ApiUntouchedType DEF Ages, KubeconfigTypeOK, readVars
<1>3. CASE UNCHANGED readsVars
  BY <1>3, ApiUntouchedType, CacheUntouchedType DEF readsVars
<1> QED BY <1>1, <1>2, <1>3, ReadEntryType, ReadStepType, WriteStepType, EvictType, EntryStepType
        DEF ReadsNext

\* The first states have the types.
LEMMA ReadsInitType == ReadsInit => ApiTypeOK /\ KubeconfigTypeOK
<1>1. ApiInit => ApiTypeOK
  BY StoreAssumption, EnvironmentAssumption, HandlersAssumption
     DEF ApiInit, StoreInit, EnvInit, HandlersInit, ApiTypeOK, StoreTypeOK, EnvTypeOK,
         HandlersTypeOK, KwebState, CreatePC, DeletePC
<1>2. ReadsInit => KubeconfigTypeOK
  BY DEF ReadsInit, KubeconfigTypeOK
<1> QED BY <1>1, <1>2 DEF ReadsInit

\* The store, kweb, the requests, the cache and the GETs keep their types: a
\* GET that is under way has its copy of an entry, and what it puts into the
\* cache is a kubeconfig.
THEOREM ReadsTypeTheorem == ReadsSpec => []ReadsTypeOK
<1> DEFINE Inv == ApiTypeOK /\ KubeconfigTypeOK
<1>1. ReadsInit => Inv
  BY ReadsInitType
<1>2. Inv /\ [ReadsNext]_readsVars => Inv'
  BY ReadsStepType
<1>3. Inv => ReadsTypeOK
  BY DEF ApiTypeOK, ReadsTypeOK
<1> QED BY <1>1, <1>2, <1>3, PTL DEF ReadsSpec

----------------------------------------------------------------------------
(* Where a kubeconfig comes from *)

\* The clients' name for id.
Named(id, n) == <<"cluster", id, n>> \in CreateRequests

\* Requests, entries and copies of entries carry the name their id was
\* created with.
NamesInv ==
    /\ \A h \in Handler : pc[h] \in CreatePC => rq[h].type = "cluster" /\ Named(rq[h].id, rq[h].name)
    /\ \A h \in Handler : pc[h] \in DeletePC =>
           rq[h].type = "cluster" /\ Named(rq[h].id, saved[h].KcliName)
    /\ \A id \in Id : Tracked(id) => Named(id, resources[id].KcliName)
    /\ \A r \in Reader : rpc[r] # "idle" => Named(reading[r].id, reading[r].entry.KcliName)

\* The kubeconfig k is cached for id, or about to be.
Carries(id, k) ==
    \/ kcCache[id] # None /\ kcCache[id].kubeconfig = k
    \/ \E r \in Reader : rpc[r] = "keep" /\ reading[r].id = id /\ reading[r].raw = k

\* It opens the cluster that kweb has now, or it is known that it need not.
Accounted(id, n, k) ==
    \/ k = made[n] /\ Exists("cluster", n)
    \/ <<id, n, k>> \in excused
    \/ \E h \in Handler : BeforeEvict(h, id)

CacheInv ==
    \A id \in Id, n \in Name, k \in Nat : Named(id, n) /\ Carries(id, k) => Accounted(id, n, k)

ReadsInv == ApiTypeOK /\ KubeconfigTypeOK /\ NamesInv /\ CacheInv

\* With one resource per id, an id has one name.
LEMMA OneName ==
    ASSUME OneResourcePerId, NEW id, NEW n, NEW m, Named(id, n), Named(id, m)
    PROVE  n = m
<1>1. <<"cluster", id, n>> = <<"cluster", id, m>>
  BY DEF OneResourcePerId, Named
<1> QED BY <1>1

\* Names of entries after a store call: a Put adds the one it is given,
\* UpdateStatus and Delete add none.
LEMMA StoreNames ==
    ASSUME StoreTypeOK, \A id \in Id : Tracked(id) => Named(id, resources[id].KcliName),
           \/ UNCHANGED storeVars
           \/ \E i \in Id : Delete(i)
           \/ \E i \in Id, s \in Status : UpdateStatus(i, s)
           \/ \E i \in Id, e \in ResourceEntry : Put(i, e) /\ Named(i, e.KcliName)
    PROVE  \A id \in Id : Tracked(id)' => Named(id, resources'[id].KcliName)
<1>1. CASE UNCHANGED storeVars
  BY <1>1 DEF storeVars, Tracked
<1>2. CASE \E i \in Id : Delete(i)
  BY <1>2 DEF Delete, Tracked, StoreTypeOK
<1>3. CASE \E i \in Id, s \in Status : UpdateStatus(i, s)
  BY <1>3, UpdateStatusType
<1>4. CASE \E i \in Id, e \in ResourceEntry : Put(i, e) /\ Named(i, e.KcliName)
  BY <1>4 DEF Put, Tracked, StoreTypeOK
<1> QED BY <1>1, <1>2, <1>3, <1>4

\* A request's step leaves the other requests alone.
LEMMA OthersStay ==
    ASSUME HandlersTypeOK, NEW h \in Handler,
           \/ \E l : Goto(h, l)
           \/ \E c : Reply(h, c)
           \/ \E r, l, e, c : Arrive(h, r, l, e, c)
    PROVE  \A g \in Handler \ {h} : pc'[g] = pc[g] /\ rq'[g] = rq[g] /\ saved'[g] = saved[g]
  BY DEF HandlersTypeOK, Goto, Reply, Arrive

\* The first step of a create of a cluster.
LEMMA CreateClusterNames ==
    ASSUME ApiTypeOK, NEW h \in Handler, CreateCluster(h)
    PROVE  /\ UNCHANGED <<storeVars, envVars>> /\ pc[h] = "idle"
           /\ \A g \in Handler \ {h} : pc'[g] = pc[g] /\ rq'[g] = rq[g] /\ saved'[g] = saved[g]
           /\ pc'[h] \in {"idle", "lock"} /\ rq'[h].type = "cluster"
           /\ Named(rq'[h].id, rq'[h].name)
<1> PICK q \in CreateRequests :
        /\ q[1] = "cluster"
        /\ CreateBegin(h, [type |-> "cluster", id |-> q[2], name |-> q[3]], "lock")
  BY DEF CreateCluster
<1> DEFINE r == [type |-> "cluster", id |-> q[2], name |-> q[3]]
<1>1. \E l \in {"idle", "lock"} : \E c : Arrive(h, r, l, None, c)
  BY DEF CreateBegin
<1>2. Named(q[2], q[3])
  <2>1. q = <<q[1], q[2], q[3]>>
    BY HandlersAssumption
  <2> QED BY <2>1 DEF Named
<1>3. /\ UNCHANGED <<storeVars, envVars>> /\ pc[h] = "idle"
      /\ pc'[h] \in {"idle", "lock"} /\ rq'[h] = r
  BY <1>1 DEF Arrive, ApiTypeOK, HandlersTypeOK
<1>4. \A g \in Handler \ {h} : pc'[g] = pc[g] /\ rq'[g] = rq[g] /\ saved'[g] = saved[g]
  BY <1>1, OthersStay DEF ApiTypeOK
<1> QED BY <1>2, <1>3, <1>4

\* The first step of a delete of a cluster: the entry it copies is the id's.
LEMMA DeleteClusterNames ==
    ASSUME ApiTypeOK, NEW h \in Handler, DeleteCluster(h)
    PROVE  /\ UNCHANGED <<storeVars, envVars>> /\ pc[h] = "idle"
           /\ \A g \in Handler \ {h} : pc'[g] = pc[g] /\ rq'[g] = rq[g] /\ saved'[g] = saved[g]
           /\ \/ pc'[h] = "idle"
              \/ /\ pc'[h] = "mark" /\ rq'[h].type = "cluster" /\ rq'[h].id \in Id
                 /\ Tracked(rq'[h].id) /\ saved'[h] = resources[rq'[h].id]
<1> PICK q \in DeleteRequests :
        q[1] = "cluster" /\ DeleteBegin(h, [type |-> "cluster", id |-> q[2], name |-> None])
  BY DEF DeleteCluster
<1> DEFINE r == [type |-> "cluster", id |-> q[2], name |-> None]
<1>0. r.id \in Id
  BY HandlersAssumption
<1>1. \/ \E c : Arrive(h, r, "idle", None, c)
      \/ Tracked(r.id) /\ Arrive(h, r, "mark", resources[r.id], None)
  BY DEF DeleteBegin
<1>2. /\ UNCHANGED <<storeVars, envVars>> /\ pc[h] = "idle"
      /\ \/ pc'[h] = "idle"
         \/ /\ pc'[h] = "mark" /\ rq'[h] = r
            /\ Tracked(r.id) /\ saved'[h] = resources[r.id]
  BY <1>1 DEF Arrive, ApiTypeOK, HandlersTypeOK
<1>4. \A g \in Handler \ {h} : pc'[g] = pc[g] /\ rq'[g] = rq[g] /\ saved'[g] = saved[g]
  BY <1>1, OthersStay DEF ApiTypeOK
<1> QED BY <1>0, <1>2, <1>4

\* Where the later steps of a create or a delete take its request, and what
\* they do to the store.
LEMMA ClusterStepMoves ==
    ASSUME ApiTypeOK, NEW h \in Handler, CreateClusterStep(h) \/ DeleteClusterStep(h)
    PROVE  /\ rq' = rq
           /\ \A g \in Handler \ {h} : pc'[g] = pc[g] /\ saved'[g] = saved[g]
           /\ \/ pc[h] \in CreatePC /\ pc'[h] \in CreatePC \cup {"idle"}
              \/ pc[h] \in DeletePC /\ pc'[h] \in DeletePC /\ saved'[h] = saved[h]
              \/ pc[h] \in DeletePC /\ pc'[h] = "idle"
           /\ \/ UNCHANGED storeVars
              \/ \E i \in Id : Delete(i)
              \/ \E i \in Id, s \in Status : UpdateStatus(i, s)
              \/ /\ pc[h] \in CreatePC
                 /\ \E e \in ResourceEntry : Put(rq[h].id, e) /\ e.KcliName = rq[h].name
<1>t. pc \in [Handler -> {"idle"} \cup CreatePC \cup DeletePC] /\ DOMAIN saved = Handler
  BY DEF ApiTypeOK, HandlersTypeOK
<1>1. CASE CreateClusterStep(h)
  <2>1. pc[h] \in CreatePC /\ pc[h] # "idle"
    BY <1>1 DEF CreateClusterStep, CreateLock, CreateCall, CreatePut, CreateRollback, CreatePC
  <2>2. (\E l \in CreatePC : Goto(h, l)) \/ \E c : Reply(h, c)
    BY <1>1 DEF CreateClusterStep, CreateLock, CreateCall, CreateOutcome, CreatePut,
                CreateRollback, DeleteOutcome, CreatePC
  <2>3. /\ rq' = rq /\ pc'[h] \in CreatePC \cup {"idle"}
        /\ \A g \in Handler \ {h} : pc'[g] = pc[g] /\ saved'[g] = saved[g]
    BY <2>2, <1>t DEF Goto, Reply
  <2>4. rq[h].type \in Types /\ rq[h].id \in Id /\ rq[h].name \in Name
    BY <2>1, RequestFields
  <2> DEFINE e == [KcliName |-> rq[h].name, Type |-> rq[h].type,
                   Status |-> InitialStatus(rq[h].type), Age |-> 0]
  <2>5. e \in ResourceEntry /\ e.KcliName = rq[h].name
    BY <2>4, StoreAssumption DEF ResourceEntry, InitialStatus, Status
  <2>6. UNCHANGED storeVars \/ Put(rq[h].id, e)
    BY <1>1 DEF CreateClusterStep, CreateLock, CreateCall, CreatePut, CreateRollback
  <2> HIDE DEF e
  <2> QED BY <2>1, <2>3, <2>4, <2>5, <2>6
<1>2. CASE DeleteClusterStep(h)
  <2>1. pc[h] \in DeletePC /\ pc[h] # "idle"
    BY <1>2 DEF DeleteClusterStep, DeleteSteps, DeleteMark, DeleteCall, DeleteRestore,
                DeletePublish, DeleteDrop, DeletePC
  <2>2. (\E l \in DeletePC : Goto(h, l)) \/ \E c : Reply(h, c)
    BY <1>2 DEF DeleteClusterStep, DeleteSteps, DeleteMark, DeleteCall, DeleteRestore,
                DeletePublish, DeleteDrop, DeleteOutcome, DeletePC
  <2>3. /\ rq' = rq
        /\ \/ pc'[h] \in DeletePC /\ saved'[h] = saved[h]
           \/ pc'[h] = "idle"
        /\ \A g \in Handler \ {h} : pc'[g] = pc[g] /\ saved'[g] = saved[g]
    BY <2>2, <1>t DEF Goto, Reply
  <2>4. rq[h].id \in Id /\ saved[h].Status \in Status /\ "DELETING" \in Status
    BY <2>1, RequestFields DEF ResourceEntry, Status
  <2>5. \/ UNCHANGED storeVars \/ Delete(rq[h].id)
        \/ UpdateStatus(rq[h].id, "DELETING") \/ UpdateStatus(rq[h].id, saved[h].Status)
    BY <1>2 DEF DeleteClusterStep, DeleteSteps, DeleteMark, DeleteCall, DeleteRestore,
                DeletePublish, DeleteDrop
  <2> QED BY <2>1, <2>3, <2>4, <2>5
<1> QED BY <1>1, <1>2

\* No step gives a request, an entry or a GET the name of another id.
LEMMA NamesStep ==
    ASSUME ApiTypeOK, KubeconfigTypeOK, NamesInv, [ReadsNext]_readsVars
    PROVE  NamesInv'
<1>s. StoreTypeOK
  BY DEF ApiTypeOK
<1>1. CASE \E r \in Reader, id \in Id : GetVM(r, id) \/ GetCluster(r, id)
  <2> PICK r \in Reader, id \in Id : GetVM(r, id) \/ GetCluster(r, id)
    BY <1>1
  <2>1. UNCHANGED apiVars
    BY DEF GetVM, GetCluster, ReadEntry
  <2>2. \/ \E c : Respond(r, c, 0)
        \/ /\ Tracked(id) /\ rpc' = [rpc EXCEPT ![r] = "load"]
           /\ reading' = [reading EXCEPT ![r] = [id |-> id, entry |-> resources[id], raw |-> 0]]
    BY DEF GetVM, GetCluster, ReadEntry
  <2>3. \A q \in Reader : rpc'[q] # "idle" => Named(reading'[q].id, reading'[q].entry.KcliName)
    BY <2>2 DEF NamesInv, Respond, KubeconfigTypeOK
  <2> QED BY <2>1, <2>3 DEF NamesInv, apiVars, storeVars, handlerVars, Tracked
<1>2. CASE \E r \in Reader : ReadStep(r)
  <2> PICK r \in Reader : ReadStep(r)
    BY <1>2
  <2>1. UNCHANGED apiVars /\ rpc[r] # "idle"
    BY DEF ReadStep, GetClusterLoad, GetClusterFetch, GetClusterKeep
  <2>a. reading[r] \in Reading
    BY <2>1, ReadingFields
  <2>2. \/ \E c, k : Respond(r, c, k)
        \/ rpc' = [rpc EXCEPT ![r] = "fetch"] /\ reading' = reading
        \/ /\ rpc' = [rpc EXCEPT ![r] = "keep"]
           /\ \E k : reading' = [reading EXCEPT ![r].raw = k]
    BY DEF ReadStep, GetClusterLoad, GetClusterFetch, GetClusterKeep
  <2>3. \A q \in Reader : rpc'[q] # "idle" =>
            /\ rpc[q] # "idle"
            /\ reading'[q].id = reading[q].id /\ reading'[q].entry = reading[q].entry
    BY <2>1, <2>2, <2>a DEF Respond, KubeconfigTypeOK, Reading
  <2> QED BY <2>1, <2>3 DEF NamesInv, apiVars, storeVars, handlerVars, Tracked
<1>3. CASE \E h \in Handler : WriteStep(h)
  <2> PICK h \in Handler : WriteStep(h)
    BY <1>3
  <2>1. UNCHANGED readVars
    BY DEF WriteStep
  <2>2. CASE CreateCluster(h)
    BY <2>1, <2>2, CreateClusterNames
       DEF NamesInv, readVars, storeVars, Tracked, CreatePC, DeletePC
  <2>3. CASE DeleteCluster(h)
    BY <2>1, <2>3, DeleteClusterNames
       DEF NamesInv, readVars, storeVars, Tracked, CreatePC, DeletePC
  <2>4. CASE CreateClusterStep(h) \/ DeleteClusterStep(h)
    <3>1. pc[h] \in CreatePC => rq[h].id \in Id /\ Named(rq[h].id, rq[h].name)
      BY RequestFields DEF NamesInv, CreatePC
    <3>2. \A id \in Id : Tracked(id)' => Named(id, resources'[id].KcliName)
      <4>1. \/ UNCHANGED storeVars
            \/ \E i \in Id : Delete(i)
            \/ \E i \in Id, s \in Status : UpdateStatus(i, s)
            \/ \E i \in Id, e \in ResourceEntry : Put(i, e) /\ Named(i, e.KcliName)
        BY <2>4, <3>1, ClusterStepMoves
      <4> QED BY <1>s, <4>1, StoreNames DEF NamesInv
    <3>3. /\ rq' = rq
          /\ \A g \in Handler \ {h} : pc'[g] = pc[g] /\ saved'[g] = saved[g]
          /\ \/ pc[h] \in CreatePC /\ pc'[h] \in CreatePC \cup {"idle"}
             \/ pc[h] \in DeletePC /\ pc'[h] \in DeletePC /\ saved'[h] = saved[h]
             \/ pc[h] \in DeletePC /\ pc'[h] = "idle"
      BY <2>4, ClusterStepMoves
    <3> QED BY <2>1, <3>2, <3>3 DEF NamesInv, readVars, CreatePC, DeletePC
  <2> QED BY <2>2, <2>3, <2>4 DEF WriteStep
<1>4. CASE \E id \in Id : Activate(id) \/ GiveUp(id) \/ Sweep(id)
  <2> PICK id \in Id : Activate(id) \/ GiveUp(id) \/ Sweep(id)
    BY <1>4
  <2>1. UNCHANGED <<handlerVars, kubeconfigVars>>
    BY DEF Activate, GiveUp, Sweep
  <2>2. Delete(id) \/ \E s \in Status : UpdateStatus(id, s)
    BY DEF Activate, GiveUp, Sweep, Status
  <2>3. \A i \in Id : Tracked(i)' => Named(i, resources'[i].KcliName)
    BY <1>s, <2>2, StoreNames DEF NamesInv
  <2> QED BY <2>1, <2>3 DEF NamesInv, handlerVars, kubeconfigVars
<1>5. CASE UNCHANGED <<storeVars, handlerVars, readVars>>
  BY <1>5 DEF NamesInv, storeVars, handlerVars, readVars, Tracked
<1>6. ASSUME (\E h \in Handler : Evict(h)) \/ KwebStep \/ Ages \/ UNCHANGED readsVars
      PROVE  UNCHANGED <<storeVars, handlerVars, readVars>>
  BY <1>6 DEF Evict, KwebStep, Ages, readsVars, apiVars, kubeconfigVars, readVars
<1> QED BY <1>1, <1>2, <1>3, <1>4, <1>5, <1>6 DEF ReadsNext

----------------------------------------------------------------------------
\* Nothing new is held, and what was accounted for still is.
LEMMA CacheUntouched ==
    ASSUME CacheInv,
           \A id \in Id, k \in Nat : Carries(id, k)' => Carries(id, k),
           \A id \in Id, n \in Name, k \in Nat : Accounted(id, n, k) => Accounted(id, n, k)'
    PROVE  CacheInv'
  BY DEF CacheInv

\* A step that touches neither kweb nor the deletes changes no account.
LEMMA AccountsUntouched ==
    ASSUME UNCHANGED <<kweb, made, excused, pc, rq, evicting>>
    PROVE  \A id \in Id, n \in Name, k \in Nat : Accounted(id, n, k) => Accounted(id, n, k)'
  BY DEF Accounted, Exists, BeforeEvict

\* A cluster that kweb had before the step is the same after it, or has ended.
LEMMA StaysOrEnds ==
    ASSUME KubeconfigTypeOK, NEW n \in Name, Exists("cluster", n), CountMade
    PROVE  made'[n] = made[n] /\ (Exists("cluster", n)' \/ n \in Ending)
  BY DEF CountMade, Exists, Ending, KubeconfigTypeOK

\* A GET holds what it was given while the cluster exists, and stores what it
\* holds.
LEMMA ReadStepCache ==
    ASSUME ReadsInv, OneResourcePerId, NEW r \in Reader, ReadStep(r)
    PROVE  CacheInv'
<1> USE DEF ReadsInv
<1>0. rpc[r] # "idle" /\ UNCHANGED <<kweb, made, excused, pc, rq, evicting>>
  BY DEF ReadStep, GetClusterLoad, GetClusterFetch, GetClusterKeep, apiVars, envVars, handlerVars
<1>a. /\ reading[r] \in Reading /\ reading[r].id \in Id
      /\ reading[r].entry.KcliName \in Name /\ reading[r].raw \in Nat
  BY <1>0, ReadingFields
<1>b. \A id \in Id, n \in Name, k \in Nat : Accounted(id, n, k) => Accounted(id, n, k)'
  BY <1>0, AccountsUntouched
<1>1. CASE GetClusterLoad(r)
  <2>1. \A q \in Reader : rpc'[q] = "keep" => rpc[q] = "keep" /\ reading'[q] = reading[q]
    BY <1>1 DEF GetClusterLoad, Respond, KubeconfigTypeOK
  <2>2. \A id \in Id : kcCache'[id] # None => kcCache'[id] = kcCache[id]
    BY <1>1 DEF GetClusterLoad, KubeconfigTypeOK
  <2>3. \A id \in Id, k \in Nat : Carries(id, k)' => Carries(id, k)
    BY <2>1, <2>2 DEF Carries
  <2> QED BY <1>b, <2>3, CacheUntouched
<1>2. CASE GetClusterFetch(r)
  <2> DEFINE n == reading[r].entry.KcliName
  <2>0. UNCHANGED kcCache
    BY <1>2 DEF GetClusterFetch
  <2>1. CASE /\ kweb["cluster"][n] \in {"bare", "nodes"}
             /\ rpc' = [rpc EXCEPT ![r] = "keep"]
             /\ reading' = [reading EXCEPT ![r].raw = made[n]]
    <3>1. reading'[r].id = reading[r].id /\ reading'[r].raw = made[n]
      BY <1>a, <2>1 DEF KubeconfigTypeOK, Reading
    <3>2. \A q \in Reader \ {r} : rpc'[q] = rpc[q] /\ reading'[q] = reading[q]
      BY <2>1 DEF KubeconfigTypeOK
    <3>3. \A id \in Id, k \in Nat :
              Carries(id, k)' => Carries(id, k) \/ (id = reading[r].id /\ k = made[n])
      BY <2>0, <3>1, <3>2 DEF Carries
    <3>4. Named(reading[r].id, n)
      BY <1>0 DEF NamesInv
    <3>5. kweb'["cluster"][n] # "absent"
      BY <1>0, <2>1
    <3>6. ASSUME NEW id \in Id, NEW m \in Name, NEW k \in Nat, Named(id, m), Carries(id, k)'
          PROVE  Accounted(id, m, k)'
      <4>1. CASE Carries(id, k)
        BY <1>b, <3>6, <4>1 DEF CacheInv
      <4>2. CASE id = reading[r].id /\ k = made[n]
        <5>1. m = n
          BY <3>4, <3>6, <4>2, OneName
        <5> QED BY <1>0, <3>5, <4>2, <5>1 DEF Accounted, Exists
      <4> QED BY <3>3, <3>6, <4>1, <4>2
    <3> QED BY <3>6 DEF CacheInv
  <2>2. CASE Respond(r, 200, 0)
    <3>1. \A q \in Reader : rpc'[q] = "keep" => rpc[q] = "keep" /\ reading'[q] = reading[q]
      BY <2>2 DEF Respond, KubeconfigTypeOK
    <3>2. \A id \in Id, k \in Nat : Carries(id, k)' => Carries(id, k)
      BY <2>0, <3>1 DEF Carries
    <3> QED BY <1>b, <3>2, CacheUntouched
  <2> QED BY <1>2, <2>1, <2>2 DEF GetClusterFetch
<1>3. CASE GetClusterKeep(r)
  <2>1. \A q \in Reader : rpc'[q] = "keep" => rpc[q] = "keep" /\ reading'[q] = reading[q]
    BY <1>3 DEF GetClusterKeep, Respond, KubeconfigTypeOK
  <2>2. \A id \in Id : kcCache'[id] = kcCache[id]
            \/ (id = reading[r].id /\ kcCache'[id].kubeconfig = reading[r].raw)
    BY <1>3, <1>a DEF GetClusterKeep, KubeconfigTypeOK
  <2>3. \A id \in Id, k \in Nat : Carries(id, k)' => Carries(id, k)
    BY <1>3, <2>1, <2>2 DEF Carries, GetClusterKeep
  <2> QED BY <1>b, <2>3, CacheUntouched
<1> QED BY <1>1, <1>2, <1>3 DEF ReadStep

\* DeleteCluster clears the cache, and what is fetched but not stored yet is
\* excused.
LEMMA EvictCache ==
    ASSUME ReadsInv, OneResourcePerId, NEW h \in Handler, Evict(h)
    PROVE  CacheInv'
<1> USE DEF ReadsInv
<1>0. /\ evicting[h] \in Id
      /\ UNCHANGED <<kweb, pc, rq, rpc, reading, made>>
  BY DEF Evict, apiVars, envVars, handlerVars, readVars, KubeconfigTypeOK
<1>1. kcCache'[evicting[h]] = None /\ \A id \in Id \ {evicting[h]} : kcCache'[id] = kcCache[id]
  BY <1>0 DEF Evict, KubeconfigTypeOK
<1>2. \A id \in Id, k \in Nat : Carries(id, k)' => Carries(id, k)
  BY <1>0, <1>1 DEF Carries
<1>3. evicting'[h] = None /\ \A g \in Handler \ {h} : evicting'[g] = evicting[g]
  BY DEF Evict, KubeconfigTypeOK
<1>4. ASSUME NEW id \in Id, NEW n \in Name, NEW k \in Nat, Named(id, n), Carries(id, k)'
      PROVE  Accounted(id, n, k)'
  <2>1. CASE id # evicting[h]
    <3>1. Accounted(id, n, k)
      BY <1>2, <1>4 DEF CacheInv
    <3>2. \A g \in Handler : BeforeEvict(g, id) => BeforeEvict(g, id)'
      BY <1>0, <1>3, <2>1 DEF BeforeEvict
    <3> QED BY <1>0, <3>1, <3>2 DEF Accounted, Exists, Evict
  <2>2. CASE id = evicting[h]
    <3>1. PICK r \in Reader : rpc[r] = "keep" /\ reading[r].id = id /\ reading[r].raw = k
      BY <1>0, <1>1, <1>4, <2>2 DEF Carries
    <3>2. reading[r].entry.KcliName = n
      BY <1>4, <3>1, OneName DEF NamesInv
    <3>3. <<id, n, k>> \in Fetched(id)
      BY <3>1, <3>2 DEF Fetched, InFetch
    <3> QED BY <2>2, <3>3 DEF Evict, Accounted
  <2> QED BY <2>1, <2>2
<1> QED BY <1>4 DEF CacheInv

\* A create or a delete: what ends is excused for every id but the one of the
\* DeleteCluster that ended it, and that one has its cache still to clear.
LEMMA WriteStepCache ==
    ASSUME ReadsInv, NEW h \in Handler, WriteStep(h)
    PROVE  CacheInv'
<1> USE DEF ReadsInv
<1>t. /\ pc \in [Handler -> {"idle"} \cup CreatePC \cup DeletePC]
      /\ evicting \in [Handler -> Id \cup {None}]
  BY DEF ApiTypeOK, HandlersTypeOK, KubeconfigTypeOK
<1>0. /\ UNCHANGED <<kcCache, rpc, reading>> /\ CountMade /\ evicting[h] = None
      /\ excused \subseteq excused'
  BY DEF WriteStep, readVars
<1>1. \A id \in Id, k \in Nat : Carries(id, k)' => Carries(id, k)
  BY <1>0 DEF Carries
<1>2. /\ \A g \in Handler \ {h} : pc'[g] = pc[g] /\ rq'[g] = rq[g]
      /\ pc[h] # "idle" => rq' = rq
  BY CreateClusterNames, DeleteClusterNames, ClusterStepMoves DEF WriteStep
<1>3. \A g \in Handler \ {h} : evicting'[g] = evicting[g]
  BY <1>t DEF WriteStep
<1>4. \A id \in Id, g \in Handler : BeforeEvict(g, id) => BeforeEvict(g, id)'
  <2>1. ASSUME NEW id \in Id, BeforeEvict(h, id) PROVE BeforeEvict(h, id)'
    <3>1. pc[h] \in {"publish", "drop"} /\ rq[h].id = id /\ rq[h].type = "cluster"
      BY <1>0, <2>1, StoreAssumption DEF BeforeEvict, NamesInv, DeletePC
    <3>2. CASE pc[h] = "publish"
      <4>1. Goto(h, "drop")
        BY <3>2, CreateClusterNames, DeleteClusterNames
           DEF WriteStep, CreateClusterStep, CreateLock, CreateCall, CreatePut, CreateRollback,
               DeleteClusterStep, DeleteSteps, DeleteMark, DeleteCall, DeleteRestore,
               DeletePublish, DeleteDrop
      <4> QED BY <1>t, <3>1, <4>1 DEF Goto, BeforeEvict
    <3>3. CASE pc[h] = "drop"
      BY <1>t, <3>1, <3>3 DEF WriteStep, BeforeEvict
    <3> QED BY <3>1, <3>2, <3>3
  <2>2. ASSUME NEW id \in Id, NEW g \in Handler \ {h}, BeforeEvict(g, id)
        PROVE  BeforeEvict(g, id)'
    BY <1>2, <1>3, <2>2 DEF BeforeEvict
  <2> QED BY <2>1, <2>2
<1>5. ASSUME NEW id \in Id, NEW n \in Ending
      PROVE  <<id, n, made[n]>> \in excused' \/ BeforeEvict(h, id)'
  <2> DEFINE I == IF pc[h] = "delete" THEN Id \ {rq[h].id} ELSE Id
  <2>1. CASE id \in I
    <3>1. <<id, n, made[n]>> \in LeftCached(I)
      BY <2>1 DEF LeftCached
    <3>2. excused' = excused \cup LeftCached(I)
      BY DEF WriteStep
    <3> QED BY <3>1, <3>2
  <2>2. CASE id \notin I
    <3>1. pc[h] = "delete" /\ rq[h].id = id
      BY <2>2
    <3>2. DeleteCall(h)
      BY <3>1, CreateClusterNames, DeleteClusterNames
         DEF WriteStep, CreateClusterStep, CreateLock, CreateCall, CreatePut, CreateRollback,
             DeleteClusterStep, DeleteSteps, DeleteMark, DeleteRestore, DeletePublish, DeleteDrop
    <3>3. kweb' # kweb
      BY <1>5 DEF Ending, Exists
    <3>4. Goto(h, "publish")
      BY <3>2, <3>3 DEF DeleteCall, DeleteOutcome
    <3> QED BY <1>t, <3>1, <3>4 DEF Goto, BeforeEvict
  <2> QED BY <2>1, <2>2
<1>6. ASSUME NEW id \in Id, NEW n \in Name, NEW k \in Nat, Accounted(id, n, k)
      PROVE  Accounted(id, n, k)'
  <2>1. CASE k = made[n] /\ Exists("cluster", n)
    BY <1>0, <1>5, <2>1, StaysOrEnds DEF Accounted
  <2>2. CASE <<id, n, k>> \in excused
    BY <1>0, <2>2 DEF Accounted
  <2>3. CASE \E g \in Handler : BeforeEvict(g, id)
    BY <1>4, <2>3 DEF Accounted
  <2> QED BY <1>6, <2>1, <2>2, <2>3 DEF Accounted
<1> QED BY <1>1, <1>6, CacheUntouched

\* kweb by itself: what ends is excused for every id.
LEMMA KwebStepCache == ASSUME ReadsInv, KwebStep PROVE CacheInv'
<1> USE DEF ReadsInv
<1>0. /\ UNCHANGED <<kcCache, rpc, reading, pc, rq, evicting>> /\ CountMade
      /\ excused' = excused \cup LeftCached(Id)
  BY DEF KwebStep, readVars, handlerVars
<1>1. \A id \in Id, k \in Nat : Carries(id, k)' => Carries(id, k)
  BY <1>0 DEF Carries
<1>2. ASSUME NEW id \in Id, NEW n \in Name, NEW k \in Nat, Accounted(id, n, k)
      PROVE  Accounted(id, n, k)'
  <2>1. CASE k = made[n] /\ Exists("cluster", n)
    <3>1. n \in Ending => <<id, n, made[n]>> \in excused'
      BY <1>0 DEF LeftCached
    <3> QED BY <1>0, <2>1, <3>1, StaysOrEnds DEF Accounted
  <2>2. CASE <<id, n, k>> \in excused \/ \E g \in Handler : BeforeEvict(g, id)
    BY <1>0, <2>2 DEF Accounted, BeforeEvict
  <2> QED BY <1>2, <2>1, <2>2 DEF Accounted
<1> QED BY <1>1, <1>2, CacheUntouched

\* Every step of the specification keeps the account of the cache.
LEMMA CacheStep ==
    ASSUME ReadsInv, OneResourcePerId, [ReadsNext]_readsVars
    PROVE  CacheInv'
<1> USE DEF ReadsInv
<1>1. CASE \E r \in Reader, id \in Id : GetVM(r, id) \/ GetCluster(r, id)
  <2> PICK r \in Reader, id \in Id : GetVM(r, id) \/ GetCluster(r, id)
    BY <1>1
  <2>1. UNCHANGED <<apiVars, kcCache, evicting, made, excused>>
    BY DEF GetVM, GetCluster, ReadEntry
  <2>2. \/ \E c : Respond(r, c, 0)
        \/ /\ rpc' = [rpc EXCEPT ![r] = "load"]
           /\ \E x : reading' = [reading EXCEPT ![r] = x]
    BY DEF GetVM, GetCluster, ReadEntry
  <2>3. \A q \in Reader : rpc'[q] = "keep" => rpc[q] = "keep" /\ reading'[q] = reading[q]
    BY <2>2 DEF Respond, KubeconfigTypeOK
  <2>4. \A i \in Id, k \in Nat : Carries(i, k)' => Carries(i, k)
    BY <2>1, <2>3 DEF Carries
  <2>5. UNCHANGED <<kweb, made, excused, pc, rq, evicting>>
    BY <2>1 DEF apiVars, envVars, handlerVars
  <2> QED BY <2>4, <2>5, AccountsUntouched, CacheUntouched
<1>2. CASE Ages
  <2>1. \A id \in Id : kcCache'[id] # None =>
            kcCache[id] # None /\ kcCache'[id].kubeconfig = kcCache[id].kubeconfig
    BY <1>2 DEF Ages, KubeconfigTypeOK, CachedKubeconfig
  <2>2. UNCHANGED <<kweb, made, excused, pc, rq, evicting, rpc, reading>>
    BY <1>2 DEF Ages, apiVars, envVars, handlerVars, readVars
  <2>3. \A i \in Id, k \in Nat : Carries(i, k)' => Carries(i, k)
    BY <2>1, <2>2 DEF Carries
  <2> QED BY <2>2, <2>3, AccountsUntouched, CacheUntouched
<1>3. CASE UNCHANGED <<envVars, handlerVars, kubeconfigVars>>
  <2>1. UNCHANGED <<kweb, made, excused, pc, rq, evicting, rpc, reading, kcCache>>
    BY <1>3 DEF envVars, handlerVars, kubeconfigVars
  <2>2. \A i \in Id, k \in Nat : Carries(i, k)' => Carries(i, k)
    BY <2>1 DEF Carries
  <2> QED BY <2>1, <2>2, AccountsUntouched, CacheUntouched
<1>4. ASSUME (\E id \in Id : Activate(id) \/ GiveUp(id) \/ Sweep(id)) \/ UNCHANGED readsVars
      PROVE  UNCHANGED <<envVars, handlerVars, kubeconfigVars>>
  BY <1>4 DEF Activate, GiveUp, Sweep, readsVars, apiVars
<1> QED BY <1>1, <1>2, <1>3, <1>4, ReadStepCache, EvictCache, WriteStepCache, KwebStepCache
        DEF ReadsNext

\* For any number of ids, names, requests and GETs, and with any failures of
\* the store and of kweb: as long as an id stands for one resource, a cluster
\* is answered with the kubeconfig of an earlier one only in the windows that
\* StaleExplained lists.
THEOREM StaleExplainedTheorem ==
    ASSUME OneResourcePerId
    PROVE  ReadsSpec => []StaleExplained
<1>1. ReadsInit => ReadsInv
  <2>1. ReadsInit => NamesInv /\ CacheInv
    BY DEF ReadsInit, ApiInit, StoreInit, HandlersInit, NamesInv, CacheInv, Carries, Tracked,
           CreatePC, DeletePC
  <2> QED BY <2>1, ReadsInitType DEF ReadsInv
<1>2. ReadsInv /\ [ReadsNext]_readsVars => ReadsInv'
  BY ReadsStepType, NamesStep, CacheStep DEF ReadsInv
<1>3. ReadsInv => StaleExplained
  <2> SUFFICES ASSUME ReadsInv, NEW id \in Id, Stale(id)
               PROVE  \/ <<id, resources[id].KcliName, kcCache[id].kubeconfig>> \in excused
                      \/ \E h \in Handler : BeforeEvict(h, id)
    BY DEF StaleExplained
  <2>1. resources[id].KcliName \in Name /\ Named(id, resources[id].KcliName)
    BY DEF Stale, Tracked, ReadsInv, ApiTypeOK, StoreTypeOK, ResourceEntry, NamesInv
  <2>2. kcCache[id].kubeconfig \in Nat /\ Carries(id, kcCache[id].kubeconfig)
    BY DEF Stale, CacheHit, ReadsInv, KubeconfigTypeOK, CachedKubeconfig, Carries
  <2>3. Accounted(id, resources[id].KcliName, kcCache[id].kubeconfig)
    BY <2>1, <2>2 DEF ReadsInv, CacheInv
  <2> QED BY <2>3 DEF Accounted, Stale
<1> QED BY <1>1, <1>2, <1>3, PTL DEF ReadsSpec
=============================================================================
