--------------------------- MODULE KubeconfigCache ---------------------------
(***************************************************************************)
(* GET /clusters/{id}, GET /vms/{id} and the cache of kubeconfigs that      *)
(* GetCluster fills (cluster_handlers.go, impl.go), next to the create and  *)
(* delete handlers.  A kubeconfig is known by the cluster it opens: the     *)
(* how-manieth cluster kweb has made under its name.                        *)
(*                                                                          *)
(* Of the monitor only what it does to an entry is here, as if a poll took  *)
(* one moment and a cluster could be past its time to be created at any.    *)
(***************************************************************************)
EXTENDS Handlers

CONSTANTS Reader,             \* goroutines of GET requests
          kubeconfigCacheTTL  \* in ticks

CachedKubeconfig == [kubeconfig : Nat, age : 0..kubeconfigCacheTTL]

Reading == [id : Id, entry : ResourceEntry, raw : Nat]

ASSUME KubeconfigAssumption ==
    /\ kubeconfigCacheTTL \in Nat
    /\ None \notin Nat
    /\ None \notin CachedKubeconfig
    /\ None \notin Reading

VARIABLES kcCache,   \* id -> cached kubeconfig and its age
          evicting,  \* DeleteCluster's request -> id, between store and cache
          rpc,       \* where each GET stands
          reading,   \* its id, its copy of the entry, what kweb gave it
          answer,    \* its last answer: HTTP status and kubeconfig (0: none)
          made,      \* ghost: kcli name -> clusters kweb has made under it
          excused    \* ghost: <<id, name, k>>, the k-th cluster of the name
                     \* may stay cached under id after its end

readVars == <<rpc, reading, answer>>
kubeconfigVars == <<kcCache, evicting, rpc, reading, answer, made, excused>>
readsVars == <<apiVars, kubeconfigVars>>

KubeconfigTypeOK ==
    /\ kcCache \in [Id -> CachedKubeconfig \cup {None}]
    /\ evicting \in [Handler -> Id \cup {None}]
    /\ rpc \in [Reader -> {"idle", "load", "fetch", "keep"}]
    /\ reading \in [Reader -> Reading \cup {None}]
    /\ \A r \in Reader : rpc[r] # "idle" <=> reading[r] # None
    /\ answer \in [Reader -> [code : {200, 404, 500}, kubeconfig : Nat] \cup {None}]
    /\ made \in [Name -> Nat]
    /\ excused \subseteq Id \X Name \X Nat

ReadsTypeOK == StoreTypeOK /\ EnvTypeOK /\ HandlersTypeOK /\ KubeconfigTypeOK

ReadsInit ==
    /\ ApiInit
    /\ kcCache = [id \in Id |-> None]
    /\ evicting = [h \in Handler |-> None]
    /\ rpc = [r \in Reader |-> "idle"]
    /\ reading = [r \in Reader |-> None]
    /\ answer = [r \in Reader |-> None]
    /\ made = [n \in Name |-> 0]
    /\ excused = {}

----------------------------------------------------------------------------
(* The requests *)

Respond(r, code, kubeconfig) ==
    /\ rpc' = [rpc EXCEPT ![r] = "idle"]
    /\ reading' = [reading EXCEPT ![r] = None]
    /\ answer' = [answer EXCEPT ![r] = [code |-> code, kubeconfig |-> kubeconfig]]

\* store.Get, common to GetVM and GetCluster: 404, 500, or the entry, whose
\* type is not compared with the route's.
ReadEntry(r, id, found) ==
    /\ rpc[r] = "idle"
    /\ \/ ~Tracked(id) /\ Respond(r, 404, 0)
       \/ "store" \in Faults /\ Respond(r, 500, 0)
       \/ Tracked(id) /\ found
    /\ UNCHANGED <<apiVars, kcCache, evicting, made, excused>>

\* kweb's part of the answer is left out when kweb fails: 200 either way.
GetVM(r, id) == ReadEntry(r, id, Respond(r, 200, 0))

GetCluster(r, id) ==
    ReadEntry(r, id,
              /\ rpc' = [rpc EXCEPT ![r] = "load"]
              /\ reading' = [reading EXCEPT ![r] =
                                [id |-> id, entry |-> resources[id], raw |-> 0]]
              /\ UNCHANGED answer)

\* Mutant: the time of the fetch is not looked at.
CacheHitForever(id) == kcCache[id] # None

CacheHit(id) == kcCache[id] # None /\ kcCache[id].age < kubeconfigCacheTTL

\* After the entry has been read: a cluster that is not ACTIVE loses its
\* cached kubeconfig, an ACTIVE one is answered from the cache or goes to kweb.
GetClusterLoad(r) ==
    LET id == reading[r].id
    IN  /\ rpc[r] = "load"
        /\ \/ /\ reading[r].entry.Status # "ACTIVE"
              /\ kcCache' = [kcCache EXCEPT ![id] = None]
              /\ Respond(r, 200, 0)
           \/ /\ reading[r].entry.Status = "ACTIVE" /\ CacheHit(id)
              /\ Respond(r, 200, kcCache[id].kubeconfig)
              /\ UNCHANGED kcCache
           \/ /\ reading[r].entry.Status = "ACTIVE" /\ ~CacheHit(id)
              /\ rpc' = [rpc EXCEPT ![r] = "fetch"]
              /\ UNCHANGED <<kcCache, reading, answer>>
        /\ UNCHANGED <<apiVars, evicting, made, excused>>

\* GetClusterKubeconfig: by name, what kweb has under it now.  An error or an
\* empty text leaves the kubeconfig out.
GetClusterFetch(r) ==
    LET n == reading[r].entry.KcliName
    IN  /\ rpc[r] = "fetch"
        /\ \/ /\ kweb["cluster"][n] \in {"bare", "nodes"}
              /\ rpc' = [rpc EXCEPT ![r] = "keep"]
              /\ reading' = [reading EXCEPT ![r].raw = made[n]]
              /\ UNCHANGED answer
           \/ /\ "kweb" \in Faults \/ kweb["cluster"][n] # "nodes"
              /\ Respond(r, 200, 0)
        /\ UNCHANGED <<apiVars, kcCache, evicting, made, excused>>

GetClusterKeep(r) ==
    /\ rpc[r] = "keep"
    /\ kcCache' = [kcCache EXCEPT ![reading[r].id] =
                       [kubeconfig |-> reading[r].raw, age |-> 0]]
    /\ Respond(r, 200, reading[r].raw)
    /\ UNCHANGED <<apiVars, evicting, made, excused>>

ReadStep(r) == GetClusterLoad(r) \/ GetClusterFetch(r) \/ GetClusterKeep(r)

----------------------------------------------------------------------------
(* The writers *)

\* Ghost: kweb has made one more cluster under a name.
CountMade == made' = [n \in Name |-> IF kweb["cluster"][n] = "absent" /\ kweb'["cluster"][n] # "absent"
                                     THEN made[n] + 1 ELSE made[n]]

\* Fetches of id that are about to be put into the cache.
InFetch(id) == {r \in Reader : rpc[r] = "keep" /\ reading[r].id = id}

Fetched(id) == {<<id, reading[r].entry.KcliName, reading[r].raw>> : r \in InFetch(id)}

\* Ghost: the names whose cluster goes in this step, and what the ids in I,
\* whose cache nobody clears for that, may still hold of them.
Ending == {n \in Name : Exists("cluster", n) /\ kweb'["cluster"][n] = "absent"}

LeftCached(I) == {<<id, n, made[n]>> : id \in I, n \in Ending}

\* kweb by itself: clusters are built, or are removed outside DCM.
KwebStep ==
    /\ KwebNext
    /\ CountMade
    /\ excused' = excused \cup LeftCached(Id)
    /\ UNCHANGED <<storeVars, handlerVars, kcCache, evicting, readVars>>

\* A step of a request other than the end of DeleteCluster.  Of the ids under
\* which a cluster was created, only the one DeleteCluster is called with
\* loses its cached kubeconfig; a rollback clears none.
WriteStep(h) ==
    /\ evicting[h] = None
    /\ CreateCluster(h) \/ CreateClusterStep(h) \/ DeleteCluster(h) \/ DeleteClusterStep(h)
    /\ evicting' = IF pc[h] = "drop" /\ rq[h].type = "cluster"
                   THEN [evicting EXCEPT ![h] = rq[h].id] ELSE evicting
    /\ CountMade
    /\ excused' = excused \cup LeftCached(IF pc[h] = "delete" THEN Id \ {rq[h].id} ELSE Id)
    /\ UNCHANGED <<kcCache, readVars>>

\* Mutant: DeleteCluster leaves the kubeconfig in the cache.
EvictNothing(h) ==
    /\ evicting[h] # None
    /\ evicting' = [evicting EXCEPT ![h] = None]
    /\ excused' = excused \cup Fetched(evicting[h])
    /\ UNCHANGED <<apiVars, kcCache, readVars, made>>

\* kcCache.Delete(clusterID), after store.Delete and before the 204 is sent.
Evict(h) ==
    /\ evicting[h] # None
    /\ kcCache' = [kcCache EXCEPT ![evicting[h]] = None]
    /\ evicting' = [evicting EXCEPT ![h] = None]
    /\ excused' = excused \cup Fetched(evicting[h])
    /\ UNCHANGED <<apiVars, readVars, made>>

\* The monitor finds the cluster in kweb's list, with nodes or without.
Activate(id) ==
    LET shown == ListClusters[resources[id].KcliName]
    IN  /\ Tracked(id) /\ shown # "absent"
        /\ \E new \in IF shown = "nodes" THEN {"ACTIVE"} ELSE {"CREATING", "ERROR"} :
               new # resources[id].Status /\ UpdateStatus(id, new)
        /\ UNCHANGED <<envVars, handlerVars, kubeconfigVars>>

\* ... does not find it, but it is still to be created ...
GiveUp(id) ==
    /\ Tracked(id) /\ resources[id].Status = "CREATING"
    /\ ListClusters[resources[id].KcliName] = "absent"
    /\ UpdateStatus(id, "ERROR")
    /\ UNCHANGED <<envVars, handlerVars, kubeconfigVars>>

\* ... or does not find it any more, and drops the entry.  It knows nothing of
\* the cache.
Sweep(id) ==
    /\ Tracked(id) /\ resources[id].Status \notin {"CREATING", "DELETING"}
    /\ ListClusters[resources[id].KcliName] = "absent"
    /\ Delete(id)
    /\ UNCHANGED <<envVars, handlerVars, kubeconfigVars>>

Ages ==
    /\ \E id \in Id : kcCache[id] # None /\ kcCache[id].age < kubeconfigCacheTTL
    /\ kcCache' = [id \in Id |-> IF kcCache[id] # None /\ kcCache[id].age < kubeconfigCacheTTL
                                 THEN [kcCache[id] EXCEPT !.age = @ + 1] ELSE kcCache[id]]
    /\ UNCHANGED <<apiVars, evicting, readVars, made, excused>>

ReadsNext ==
    \/ \E r \in Reader, id \in Id : GetVM(r, id) \/ GetCluster(r, id)
    \/ \E r \in Reader : ReadStep(r)
    \/ \E h \in Handler : WriteStep(h) \/ Evict(h)
    \/ \E id \in Id : Activate(id) \/ GiveUp(id) \/ Sweep(id)
    \/ KwebStep
    \/ Ages

\* Goroutines run and time passes.
ReadsFairness ==
    /\ \A r \in Reader : WF_readsVars(ReadStep(r))
    /\ \A h \in Handler : WF_readsVars(Evict(h))
    /\ WF_readsVars(Ages)

ReadsSpec == ReadsInit /\ [][ReadsNext]_readsVars /\ ReadsFairness

----------------------------------------------------------------------------
\* The next GET of id would be answered with the kubeconfig of an earlier
\* cluster of that name.
Stale(id) ==
    /\ Tracked(id) /\ resources[id].Status = "ACTIVE"
    /\ CacheHit(id)
    /\ kcCache[id].kubeconfig # made[resources[id].KcliName]

\* The delete of the predecessor has not been answered yet.
BeforeEvict(h, id) == evicting[h] = id \/ (pc[h] \in {"publish", "drop"} /\ rq[h].id = id)

\* A cluster re-created under an id is not answered with its predecessor's
\* kubeconfig, except in the windows the code has: the predecessor's was
\* fetched before DeleteCluster cleared the cache and stored after it; or the
\* predecessor went otherwise than by DeleteCluster of this id: removed outside
\* DCM, rolled back, or deleted through another id of the same name.
StaleExplained ==
    \A id \in Id : Stale(id) =>
        \/ <<id, resources[id].KcliName, kcCache[id].kubeconfig>> \in excused
        \/ \E h \in Handler : BeforeEvict(h, id)

\* ... and then only for a while: once the cluster under an id stays the
\* same, the time limit of the cache sees to it that its kubeconfig is served.
StaleEnds ==
    \A id \in Id, n \in Name :
        <>[](Tracked(id) /\ resources[id].KcliName = n /\ resources[id].Status = "ACTIVE"
             /\ kweb["cluster"][n] # "absent")
        => <>[]~Stale(id)
=============================================================================
