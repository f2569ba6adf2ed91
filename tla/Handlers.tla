------------------------------- MODULE Handlers -------------------------------
(***************************************************************************)
(* The create and delete handlers of the REST API (vm_handlers.go,          *)
(* cluster_handlers.go).  net/http runs one goroutine per request: each is  *)
(* a process h whose program counter stops before every call that another   *)
(* goroutine can observe (a store transaction, a kweb call, a publish, the  *)
(* mutex createMu).  The VM and the cluster handlers have the same shape;   *)
(* the steps they share are written once, with the type taken from the      *)
(* route, and CreateVM .. DeleteClusterStep say which handler takes which.  *)
(*                                                                          *)
(* The two goroutine-local effects that nothing else reads, the gauge       *)
(* update and the unlocking of createMu, are part of the step before them.  *)
(***************************************************************************)
EXTENDS Environment

CONSTANTS Handler,         \* request goroutines that may run at once
          CreateRequests,  \* <<type, id, kcli name>> that clients may POST
          DeleteRequests,  \* <<type, id>> that clients may DELETE
          MaxRequests      \* bound on the requests of a behaviour

\* A DELETE carries no name.
Request == [type : Types, id : Id, name : Name \cup {None}]

ASSUME HandlersAssumption ==
    /\ None \notin Handler
    /\ None \notin Request
    /\ CreateRequests \subseteq Types \X Id \X Name
    /\ DeleteRequests \subseteq Types \X Id
    /\ MaxRequests \in Nat

VARIABLES pc,        \* where each request stands
          rq,        \* the request, kept until the goroutine takes another
          saved,     \* the delete handler's copy of the entry
          reply,     \* HTTP status of the last answer
          createMu,  \* holder of StrictServerImpl.createMu
          stranded,  \* ghost: ids whose delete was cut short (crash, store error)
          sent       \* requests so far

requestVars == <<pc, rq, saved, reply>>
handlerVars == <<pc, rq, saved, reply, createMu, stranded, sent>>

CreatePC == {"lock", "create", "put", "rollback"}
DeletePC == {"mark", "delete", "restore", "publish", "drop"}
\* The delete handler is past its UpdateStatus(id, "DELETING").
MarkedPC == DeletePC \ {"mark"}

Code == {201, 204, 400, 404, 409, 500, 502}

HandlersTypeOK ==
    /\ pc \in [Handler -> {"idle"} \cup CreatePC \cup DeletePC]
    /\ rq \in [Handler -> Request \cup {None}]
    /\ saved \in [Handler -> ResourceEntry \cup {None}]
    /\ reply \in [Handler -> Code \cup {None}]
    /\ createMu \in Handler \cup {None}
    /\ stranded \subseteq Id
    /\ sent \in 0..MaxRequests
    /\ \A h \in Handler :
          /\ pc[h] # "idle" => rq[h] # None
          /\ pc[h] \in CreatePC => rq[h].name # None
          /\ pc[h] \in DeletePC => saved[h] # None

HandlersInit ==
    /\ pc = [h \in Handler |-> "idle"]
    /\ rq = [h \in Handler |-> None]
    /\ saved = [h \in Handler |-> None]
    /\ reply = [h \in Handler |-> None]
    /\ createMu = None
    /\ stranded = {}
    /\ sent = 0

----------------------------------------------------------------------------
Goto(h, label) ==
    /\ pc' = [pc EXCEPT ![h] = label]
    /\ UNCHANGED <<rq, saved, reply>>

Reply(h, code) ==
    /\ pc' = [pc EXCEPT ![h] = "idle"]
    /\ saved' = [saved EXCEPT ![h] = None]
    /\ reply' = [reply EXCEPT ![h] = code]
    /\ UNCHANGED rq

\* A new request r is read by an idle goroutine, which runs to label, or to
\* its answer when code is given.
Arrive(h, r, label, entry, code) ==
    /\ pc[h] = "idle"
    /\ sent < MaxRequests
    /\ sent' = sent + 1
    /\ pc' = [pc EXCEPT ![h] = label]
    /\ rq' = [rq EXCEPT ![h] = r]
    /\ saved' = [saved EXCEPT ![h] = entry]
    /\ reply' = [reply EXCEPT ![h] = code]
    /\ UNCHANGED <<storeVars, envVars, createMu, stranded>>

----------------------------------------------------------------------------
(* Create *)

\* Mutant: the entry is put with the kweb call's empty status.
InitialStatusUnset(t) == "unset"

InitialStatus(t) == IF t = "vm" THEN "PROVISIONING" ELSE "CREATING"

\* The create handlers take any error of store.Get for "not there".
LookupMisses(id) == ~Tracked(id) \/ "store" \in Faults

\* Look the id up in the store; validate the spec (the profile against the
\* monitor's list, the cluster type).
\* A request without ?id= gets a generated one: it is one whose id is unused.
CreateBegin(h, r, label) ==
    \/ Tracked(r.id) /\ resources[r.id].Type # r.type /\ Arrive(h, r, "idle", None, 409)
    \/ Tracked(r.id) /\ resources[r.id].Type = r.type /\ Arrive(h, r, "idle", None, 201)
    \/ LookupMisses(r.id) /\ Arrive(h, r, "idle", None, 400)
    \/ LookupMisses(r.id) /\ Arrive(h, r, label, None, None)

\* Mutant: the mutex is not waited for.
CreateLockFree(h) ==
    /\ pc[h] = "lock"
    /\ createMu' = h
    /\ Goto(h, "create")
    /\ UNCHANGED <<storeVars, envVars, stranded, sent>>

CreateLock(h) ==
    /\ pc[h] = "lock"
    /\ createMu = None
    /\ createMu' = h
    /\ Goto(h, "create")
    /\ UNCHANGED <<storeVars, envVars, stranded, sent>>

\* Mutant: ErrConflict is taken for "created before, carry on".
CreateOutcomeAdopts(h) ==
    LET t == rq[h].type
        n == rq[h].name
    IN  /\ \/ KwebCreate(t, n)
           \/ Exists(t, n) /\ UNCHANGED kweb
        /\ Goto(h, "put")
        /\ UNCHANGED late

\* The outcomes of kweb.CreateVM and kweb.CreateCluster: done; ErrConflict;
\* refused or unreachable; given up on while kweb goes on with it.
CreateOutcome(h) ==
    LET t == rq[h].type
        n == rq[h].name
        c == [op |-> "create", type |-> t, name |-> n]
    IN  \/ KwebCreate(t, n) /\ Goto(h, "put") /\ UNCHANGED late
        \/ Exists(t, n) /\ Reply(h, 409) /\ UNCHANGED <<kweb, late>>
        \/ /\ "kweb" \in Faults
           /\ \E code \in {500, 502} : Reply(h, code)
           /\ UNCHANGED <<kweb, late>>
        \/ /\ "timeout" \in Faults
           /\ Reply(h, 502)
           /\ late' = late \cup {c}
           /\ UNCHANGED kweb

\* Mutant: createMu is not released when kweb answers with an error.
CreateCallKeepsLock(h) ==
    /\ pc[h] = "create"
    /\ CreateOutcome(h)
    /\ createMu' = IF createMu = h /\ pc'[h] = "put" THEN None ELSE createMu
    /\ UNCHANGED <<storeVars, told, gauge, stranded, sent>>

CreateCall(h) ==
    /\ pc[h] = "create"
    /\ CreateOutcome(h)
    /\ createMu' = IF rq[h].type = "cluster" THEN None ELSE createMu
    /\ UNCHANGED <<storeVars, told, gauge, stranded, sent>>

\* Mutant: a failed Put is answered without undoing the kweb call.
CreatePutNoRollback(h) ==
    LET t == rq[h].type
        e == [KcliName |-> rq[h].name, Type |-> t, Status |-> InitialStatus(t), Age |-> 0]
    IN  /\ pc[h] = "put"
        /\ \/ /\ Put(rq[h].id, e)
              /\ Inc(t)
              /\ told' = [told EXCEPT ![rq[h].id] = e.Status]
              /\ Reply(h, 201)
           \/ /\ "store" \in Faults
              /\ Reply(h, 500)
              /\ UNCHANGED <<storeVars, gauge, told>>
        /\ UNCHANGED <<kweb, late, createMu, stranded, sent>>

CreatePut(h) ==
    LET t == rq[h].type
        e == [KcliName |-> rq[h].name, Type |-> t, Status |-> InitialStatus(t), Age |-> 0]
    IN  /\ pc[h] = "put"
        /\ \/ /\ Put(rq[h].id, e)
              /\ Inc(t)
              /\ told' = [told EXCEPT ![rq[h].id] = e.Status]
              /\ Reply(h, 201)
           \/ /\ "store" \in Faults
              /\ Goto(h, "rollback")
              /\ UNCHANGED <<storeVars, gauge, told>>
        /\ UNCHANGED <<kweb, late, createMu, stranded, sent>>

\* kweb's answer to DELETE: an unknown VM is an HTTP 500, an unknown cluster
\* either way.  next is what the handler does with done and with an error.
DeleteOutcome(h, n, done, failed) ==
    LET t == rq[h].type
        c == [op |-> "delete", type |-> t, name |-> n]
    IN  \/ Exists(t, n) /\ KwebDelete(t, n) /\ done /\ UNCHANGED late
        \/ ~Exists(t, n) /\ t = "cluster" /\ done /\ UNCHANGED <<kweb, late>>
        \/ ~Exists(t, n) /\ failed /\ UNCHANGED <<kweb, late>>
        \/ "kweb" \in Faults /\ failed /\ UNCHANGED <<kweb, late>>
        \/ "timeout" \in Faults /\ failed /\ late' = late \cup {c} /\ UNCHANGED kweb

\* Undo the kweb create; its failure is only logged.
CreateRollback(h) ==
    /\ pc[h] = "rollback"
    /\ DeleteOutcome(h, rq[h].name, Reply(h, 500), Reply(h, 500))
    /\ UNCHANGED <<storeVars, told, gauge, createMu, stranded, sent>>

----------------------------------------------------------------------------
(* Delete *)

\* The entry's type is not compared with the route's.
DeleteBegin(h, r) ==
    \/ ~Tracked(r.id) /\ Arrive(h, r, "idle", None, 404)
    \/ "store" \in Faults /\ Arrive(h, r, "idle", None, 500)
    \/ /\ Tracked(r.id)
       /\ \/ resources[r.id].Status = "DELETING" /\ Arrive(h, r, "idle", None, 204)
          \/ /\ resources[r.id].Status # "DELETING"
             /\ Arrive(h, r, "mark", resources[r.id], None)

\* A failed UpdateStatus is ignored.
DeleteMark(h) ==
    /\ pc[h] = "mark"
    /\ \/ UpdateStatus(rq[h].id, "DELETING")
       \/ "store" \in Faults /\ UNCHANGED storeVars
    /\ Goto(h, "delete")
    /\ UNCHANGED <<envVars, createMu, stranded, sent>>

DeleteCall(h) ==
    /\ pc[h] = "delete"
    /\ DeleteOutcome(h, saved[h].KcliName, Goto(h, "publish"), Goto(h, "restore"))
    /\ UNCHANGED <<storeVars, told, gauge, createMu, stranded, sent>>

\* Mutant: the error path answers without putting the old status back.
DeleteRestoreNothing(h) ==
    /\ pc[h] = "restore"
    /\ \E code \in {500, 502} : Reply(h, code)
    /\ UNCHANGED <<storeVars, envVars, createMu, stranded, sent>>

\* Mutant: the error path puts the entry back as it was read.
DeleteRestorePuts(h) ==
    /\ pc[h] = "restore"
    /\ Put(rq[h].id, saved[h])
    /\ \E code \in {500, 502} : Reply(h, code)
    /\ UNCHANGED <<envVars, createMu, stranded, sent>>

\* The code (502 for ErrKwebUnreachable, else 500) is not told apart.
DeleteRestore(h) ==
    /\ pc[h] = "restore"
    /\ \/ UpdateStatus(rq[h].id, saved[h].Status) /\ UNCHANGED stranded
       \/ /\ "store" \in Faults
          /\ UNCHANGED storeVars
          /\ stranded' = stranded \cup {rq[h].id}
    /\ \E code \in {500, 502} : Reply(h, code)
    /\ UNCHANGED <<envVars, createMu, sent>>

DeletePublish(h) ==
    /\ pc[h] = "publish"
    /\ Publish(rq[h].id, "DELETED")
    /\ Goto(h, "drop")
    /\ UNCHANGED <<storeVars, kweb, late, gauge, createMu, stranded, sent>>

\* Mutant: the reply is sent and the entry is left in the store.
DeleteDropForgets(h) ==
    /\ pc[h] = "drop"
    /\ Dec(rq[h].type)
    /\ Reply(h, 204)
    /\ UNCHANGED <<storeVars, kweb, late, told, createMu, stranded, sent>>

\* (DeleteCluster also drops the id from the kubeconfig cache: KubeconfigCache
\* adds it.)
DeleteDrop(h) ==
    /\ pc[h] = "drop"
    /\ \/ Delete(rq[h].id) /\ UNCHANGED stranded
       \/ /\ "store" \in Faults
          /\ UNCHANGED storeVars
          /\ stranded' = stranded \cup {rq[h].id}
    /\ Dec(rq[h].type)
    /\ Reply(h, 204)
    /\ UNCHANGED <<kweb, late, told, createMu, sent>>

----------------------------------------------------------------------------
(* The four handlers *)

CreateVM(h) ==
    \E q \in CreateRequests :
        q[1] = "vm" /\ CreateBegin(h, [type |-> "vm", id |-> q[2], name |-> q[3]], "create")

CreateCluster(h) ==
    \E q \in CreateRequests :
        q[1] = "cluster"
        /\ CreateBegin(h, [type |-> "cluster", id |-> q[2], name |-> q[3]], "lock")

CreateVMStep(h) ==
    /\ pc[h] # "idle" /\ rq[h].type = "vm"
    /\ CreateCall(h) \/ CreatePut(h) \/ CreateRollback(h)

CreateClusterStep(h) ==
    /\ pc[h] # "idle" /\ rq[h].type = "cluster"
    /\ CreateLock(h) \/ CreateCall(h) \/ CreatePut(h) \/ CreateRollback(h)

DeleteVM(h) ==
    \E q \in DeleteRequests :
        q[1] = "vm" /\ DeleteBegin(h, [type |-> "vm", id |-> q[2], name |-> None])

DeleteCluster(h) ==
    \E q \in DeleteRequests :
        q[1] = "cluster" /\ DeleteBegin(h, [type |-> "cluster", id |-> q[2], name |-> None])

DeleteSteps(h) ==
    DeleteMark(h) \/ DeleteCall(h) \/ DeleteRestore(h) \/ DeletePublish(h) \/ DeleteDrop(h)

DeleteVMStep(h) == pc[h] # "idle" /\ rq[h].type = "vm" /\ DeleteSteps(h)

DeleteClusterStep(h) == pc[h] # "idle" /\ rq[h].type = "cluster" /\ DeleteSteps(h)

RequestStep(h) == CreateVMStep(h) \/ CreateClusterStep(h) \/ DeleteVMStep(h) \/ DeleteClusterStep(h)

HandlerNext ==
    \E h \in Handler : \/ CreateVM(h) \/ CreateCluster(h)
                       \/ DeleteVM(h) \/ DeleteCluster(h)
                       \/ RequestStep(h)

----------------------------------------------------------------------------
(* The API on its own: requests and kweb, no monitor, no crash. *)

apiVars == <<storeVars, envVars, handlerVars>>

ApiInit == StoreInit /\ EnvInit /\ HandlersInit

ApiNext == HandlerNext \/ (KwebNext /\ UNCHANGED <<storeVars, handlerVars>>)

ApiSpec == ApiInit /\ [][ApiNext]_apiVars

\* Creates alone: no delete, no monitor.  Those of clusters contend for createMu.
CreateStep(h) == CreateVMStep(h) \/ CreateClusterStep(h)

CreatesNext ==
    \/ \E h \in Handler : CreateVM(h) \/ CreateCluster(h) \/ CreateStep(h)
    \/ KwebNext /\ UNCHANGED <<storeVars, handlerVars>>

\* Every kweb call returns (the client has a timeout) and a goroutine that is
\* ready runs.  A goroutine waiting for createMu gets it in the end: Go's
\* sync.Mutex hands over to a waiter that has been starved for 1ms.
CreatesFairness ==
    \A h \in Handler : WF_apiVars(CreateStep(h)) /\ SF_apiVars(CreateLock(h))

CreatesSpec == ApiInit /\ [][CreatesNext]_apiVars /\ CreatesFairness

\* Two requests never have a POST /kubes of theirs open at the same time
\* (createMu around kweb.CreateCluster), whichever of them fail.
ClusterCreatesSerialized ==
    \A g, h \in Handler :
        /\ pc[g] = "create" /\ rq[g].type = "cluster"
        /\ pc[h] = "create" /\ rq[h].type = "cluster"
        => g = h

\* Request h has a resource in hand: kweb has answered its POST with success,
\* and the Put, or the rollback, is still to come.
Holds(h, t, n) == pc[h] \in {"put", "rollback"} /\ rq[h].type = t /\ rq[h].name = n

\* The entry of id is of that resource.
Tracks(id, t, n) == Tracked(id) /\ resources[id].Type = t /\ resources[id].KcliName = n

\* Whatever a failing store does to a create, the resource kweb made for it is
\* either tracked or still being rolled back: none is forgotten at kweb.
NoLeak ==
    \A t \in Types, n \in Name : Exists(t, n) =>
        \/ \E id \in Id : Tracks(id, t, n)
        \/ \E h \in Handler : Holds(h, t, n)

\* The resource that a create is about to track, or to roll back, is there and
\* its alone: of several creates of one name, retries of one id among them,
\* one request at most gets that far, and none while an entry has the resource
\* already, so that no rollback takes away what another request was given or
\* the store tracks.  (Of creates alone: after a delete of the name the promise
\* is off.)
CreatorOwns ==
    \A h \in Handler, t \in Types, n \in Name : Holds(h, t, n) =>
        /\ Exists(t, n)
        /\ \A g \in Handler : Holds(g, t, n) => g = h
        /\ \A id \in Id : ~Tracks(id, t, n)

\* Every create is answered, those of clusters queued on createMu included.
RequestsAnswered == \A h \in Handler : pc[h] # "idle" ~> pc[h] = "idle"
=============================================================================
