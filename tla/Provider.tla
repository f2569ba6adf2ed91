------------------------------- MODULE Provider -------------------------------
(***************************************************************************)
(* The running provider (cmd/dcm-kcli-provider/server.go): the API's        *)
(* request goroutines and the monitor over one store and one kweb, time,    *)
(* and the process being killed and started again.                          *)
(***************************************************************************)
EXTENDS Handlers, Monitor

CONSTANT MaxCrashes  \* bound on the crashes of a behaviour

ASSUME ProviderAssumption ==
    /\ MaxCrashes \in Nat
    /\ IsFiniteSet(Id)  \* the store is a finite file

VARIABLE crashes

vars == <<storeVars, envVars, handlerVars, monitorVars, crashes>>

TypeOK ==
    /\ StoreTypeOK
    /\ EnvTypeOK
    /\ HandlersTypeOK
    /\ MonitorTypeOK
    /\ crashes \in 0..MaxCrashes

Init ==
    /\ StoreInit
    /\ EnvInit
    /\ HandlersInit
    /\ MonitorInit
    /\ crashes = 0

----------------------------------------------------------------------------
\* NewServer sets resources_managed from the store it opens.
initialGauge(t) == Cardinality({id \in Id : Tracked(id) /\ resources[id].Type = t})

\* The kweb call a request is making, None if it is not making one.
CallOf(h) ==
    CASE pc[h] = "create" -> [op |-> "create", type |-> rq[h].type,
                              name |-> rq[h].name]
      [] pc[h] = "rollback" -> [op |-> "delete", type |-> rq[h].type,
                                name |-> rq[h].name]
      [] pc[h] = "delete" -> [op |-> "delete", type |-> rq[h].type,
                              name |-> saved[h].KcliName]
      [] OTHER -> None

CallsInFlight == {CallOf(h) : h \in Handler} \ {None}

\* The process dies and is started again: the store and kweb survive, every
\* goroutine and all of the monitor's memory are gone, and a kweb call that
\* was open may or may not be carried out.
CrashRestart ==
    /\ "crash" \in Faults
    /\ crashes < MaxCrashes
    /\ crashes' = crashes + 1
    /\ \E reached \in SUBSET CallsInFlight : late' = late \cup reached
    /\ stranded' = stranded \cup {rq[h].id : h \in {g \in Handler : pc[g] \in MarkedPC}}
    /\ pc' = [h \in Handler |-> "idle"]
    /\ rq' = [h \in Handler |-> None]
    /\ saved' = [h \in Handler |-> None]
    /\ reply' = [h \in Handler |-> None]
    /\ createMu' = None
    /\ gauge' = [t \in Types |-> initialGauge(t)]
    /\ poll' = "idle"
    /\ mpc' = [t \in Types |-> "done"]
    /\ seen' = [t \in Types |-> None]
    /\ listed' = [t \in Types |-> Nothing]
    /\ left' = [t \in Types |-> {}]
    /\ work' = [t \in Types |-> None]
    /\ pending' = Nothing
    /\ sincePublish' = Nothing
    /\ flushing' = Nothing
    /\ seenOrphans' = {}
    /\ UNCHANGED <<storeVars, kweb, told, sent>>

Serve(h) == RequestStep(h) /\ UNCHANGED <<monitorVars, crashes>>
Lock(h) == CreateLock(h) /\ UNCHANGED <<monitorVars, crashes>>
StartPoll == PollStart /\ UNCHANGED <<handlerVars, crashes>>
Poll == MonitorStep /\ UNCHANGED <<handlerVars, crashes>>
TimePasses == Tick /\ UNCHANGED <<handlerVars, crashes>>

Next ==
    \/ HandlerNext /\ UNCHANGED <<monitorVars, crashes>>
    \/ StartPoll
    \/ Poll
    \/ KwebNext /\ UNCHANGED <<storeVars, handlerVars, monitorVars, crashes>>
    \/ TimePasses
    \/ CrashRestart

Spec == Init /\ [][Next]_vars

\* Goroutines run, the poll ticker fires and time passes.
Fairness ==
    /\ \A h \in Handler : WF_vars(Serve(h)) /\ SF_vars(Lock(h))
    /\ WF_vars(StartPoll)
    /\ WF_vars(Poll)
    /\ WF_vars(TimePasses)

FairSpec == Spec /\ Fairness

----------------------------------------------------------------------------
Deleting(h, id) == pc[h] \in MarkedPC /\ rq[h].id = id

\* An entry is DELETING only while a delete request of it is under way, or
\* after one that a crash or a failing store cut short: neither the monitor's
\* late writes nor overlapping deletes of one id leave an entry in the state
\* that DELETE answers with 204 and the monitor never touches again.
DeletingHasDeleter ==
    \A id \in Id : Tracked(id) /\ resources[id].Status = "DELETING" =>
        id \in stranded \/ \E h \in Handler : Deleting(h, id)

\* ... and such a delete ends: the entry goes, or gets its old status back.
DeletingEnds ==
    \A id \in Id : (Tracked(id) /\ resources[id].Status = "DELETING")
                   ~> (~Tracked(id) \/ resources[id].Status # "DELETING" \/ id \in stranded)

\* The entry of id stays that of the same resource.
SameResource(id) ==
    /\ Tracked(id)
    /\ resources'[id].KcliName = resources[id].KcliName
    /\ resources'[id].Type = resources[id].Type

\* The writes that come late, a delete that restores the status it has read
\* and a poll that writes what it has seen, do not bring back an entry that
\* others have dropped meanwhile, nor turn one into another resource's: only a
\* create that kweb has carried out makes an entry, of its own resource.
NoRevival ==
    [][\A id \in Id : Tracked(id)' /\ ~SameResource(id) =>
          \E h \in Handler :
              /\ pc[h] = "put" /\ rq[h].id = id
              /\ resources'[id].KcliName = rq[h].name /\ resources'[id].Type = rq[h].type]_vars

\* The monitor reports DELETED only for a resource that kweb does not have.
\* (The step that decides it, with kweb as it is at that moment.)
DeletedOnlyIfGone ==
    [][\A t \in Types : (work[t] = None /\ work'[t] # None /\ work'[t].status = "DELETED")
          => ~Exists(t, listed[t][work'[t].id].KcliName)]_vars

\* A resource that stays in the store and stays out of kweb is reconciled:
\* removed from the store (and reported) by some poll.
GoneIsReconciled ==
    \A id \in Id, n \in Name :
        ~ <>[](/\ Tracked(id) /\ resources[id].KcliName = n /\ resources[id].Type = "vm"
               /\ ~Exists("vm", n))

\* A VM left behind at kweb (a crash between kweb's create and the Put) is
\* noticed: it cannot stay there untracked without the monitor holding it for
\* an orphan.
OrphansFound ==
    \A n \in Name :
        <>[](Exists("vm", n) /\ ~NameInUse(n)) => <>[](n \in seenOrphans)
=============================================================================
