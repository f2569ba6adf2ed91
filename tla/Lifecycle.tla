------------------------------ MODULE Lifecycle ------------------------------
(***************************************************************************)
(* The life of the process (cmd/dcm-kcli-provider/server.go): start-up with *)
(* the self-probe, the health and readiness endpoints while it runs, and    *)
(* the shutdown that a signal starts.  It composes the kweb health check    *)
(* and the registrars with the HTTP server and the monitor, of which only   *)
(* the goroutines count here: is a request open, is a poll under way.       *)
(***************************************************************************)
EXTENDS HealthCache, Registrar

CONSTANTS Self,        \* the caller behind the self-probe's GET /health
          MaxProbes,   \* tries of the self-probe (30 in the code)
          MaxRequests  \* bound on the requests open at the same time

ASSUME LifecycleAssumption ==
    /\ Self \in Caller
    /\ MaxProbes \in Nat \ {0}
    /\ MaxRequests \in Nat

VARIABLES phase,         \* where Start, or shutdown, stands
          probes,        \* failed tries of the self-probe under way
          requests,      \* API requests being handled
          expired,       \* shutCtx: SHUTDOWN_TIMEOUT is over
          monitor,       \* the goroutine of monitor.Run
          monCancelled,  \* monCancel has been called
          pollComplete,  \* the channel is closed: the first poll is over
          deregistered,  \* provider -> outcome of Deregister
          open           \* of the store and the publisher, what is open

monitorVars == <<monitor, monCancelled, pollComplete>>
shutdownVars == <<expired, deregistered, open>>
serverVars == <<phase, probes, requests, monitorVars, shutdownVars>>
componentVars == <<healthVars, registrarVars>>
lifecycleVars == <<healthVars, registrarVars, phase, probes, requests, monitor, monCancelled,
                   pollComplete, expired, deregistered, open>>

Client == Caller \ {Self}

Serving == {"probe", "profiles", "starting", "running"}
ShuttingDown == {"draining", "waiting", "stopping", "deregistering", "closing"}
Over == {"exited", "failed", "killed"}

LifecycleTypeOK ==
    /\ HealthTypeOK
    /\ RegistrarTypeOK
    /\ phase \in {"boot"} \cup Serving \cup ShuttingDown \cup Over
    /\ probes \in 0..(MaxProbes - 1)
    /\ requests \in 0..MaxRequests
    /\ monitor \in {"off", "polling", "waiting", "stopped"}
    /\ {expired, monCancelled, pollComplete} \subseteq BOOLEAN
    /\ deregistered \in [Provider -> {"no", "ok", "failed"}]
    /\ open \subseteq {"store", "publisher"}
    /\ phase \in {"boot", "probe", "profiles"} =>
          monitor = "off" /\ \A p \in Provider : registrar[p] = "off"

LifecycleInit ==
    /\ HealthInit
    /\ RegistrarInit
    /\ phase = "boot"
    /\ probes = 0
    /\ requests = 0
    /\ expired = FALSE
    /\ monitor = "off" /\ monCancelled = FALSE
    /\ pollComplete = FALSE
    /\ deregistered = [p \in Provider |-> "no"]
    /\ open = {}

----------------------------------------------------------------------------
(* Start-up *)

\* config.Load, NewServer, net.Listen and go Serve: requests are accepted
\* from here on.
Boot ==
    /\ phase = "boot"
    /\ phase' = "probe"
    /\ open' = {"store", "publisher"}
    /\ UNCHANGED <<componentVars, probes, requests, expired, monitorVars, deregistered>>

\* A bad configuration; a store that does not open; a later error of
\* NewServer, which closes the store; an address that cannot be listened on.
BootFails ==
    /\ phase = "boot"
    /\ phase' = "failed"
    /\ UNCHANGED <<componentVars, probes, requests, shutdownVars, monitorVars>>

SelfProbe ==
    /\ phase = "probe"
    /\ CheckHealth(Self)
    /\ UNCHANGED <<registrarVars, serverVars>>

\* /health answers the self-probe.
SelfProbed ==
    /\ phase = "probe"
    /\ Leave(Self)
    /\ \/ result[Self] /\ phase' = "profiles" /\ probes' = 0
       \/ ~result[Self] /\ probes + 1 < MaxProbes /\ probes' = probes + 1 /\ UNCHANGED phase
       \/ ~result[Self] /\ probes + 1 = MaxProbes /\ phase' = "failed" /\ probes' = 0
    /\ UNCHANGED <<registrarVars, requests, shutdownVars, monitorVars>>

\* ListProfiles, for the log, and then the goroutines.
Launch ==
    /\ phase = "profiles"
    /\ phase' = "starting"
    /\ monitor' = "polling"
    /\ StartBackground
    /\ UNCHANGED <<healthVars, probes, requests, shutdownVars, monCancelled, pollComplete>>

\* signal.NotifyContext: signals are caught from here on.
CatchSignals ==
    /\ phase = "starting"
    /\ phase' = "running"
    /\ UNCHANGED <<componentVars, probes, requests, shutdownVars, monitorVars>>

\* SIGTERM or SIGINT: before that, it ends the process.
Signal ==
    /\ phase \in Serving
    /\ phase' = IF phase = "running" THEN "draining" ELSE "killed"
    /\ UNCHANGED <<componentVars, probes, requests, shutdownVars, monitorVars>>

----------------------------------------------------------------------------
(* Goroutines *)

Alive == phase \notin {"boot"} \cup Over

Accept ==
    /\ phase \in Serving
    /\ requests < MaxRequests
    /\ requests' = requests + 1
    /\ UNCHANGED <<componentVars, phase, probes, shutdownVars, monitorVars>>

Finish ==
    /\ Alive
    /\ requests > 0
    /\ requests' = requests - 1
    /\ UNCHANGED <<componentVars, phase, probes, shutdownVars, monitorVars>>

\* The end of a poll.  The first one makes a goroutine of the server close
\* pollComplete.
MonitorPolled ==
    /\ Alive
    /\ monitor = "polling"
    /\ monitor' = "waiting"
    /\ pollComplete' = TRUE
    /\ UNCHANGED <<componentVars, phase, probes, requests, shutdownVars, monCancelled>>

MonitorTicks ==
    /\ Alive
    /\ monitor = "waiting"
    /\ monitor' = "polling"
    /\ UNCHANGED <<componentVars, phase, probes, requests, shutdownVars, monCancelled, pollComplete>>

MonitorReturns ==
    /\ Alive
    /\ monitor = "waiting" /\ monCancelled
    /\ monitor' = "stopped"
    /\ UNCHANGED <<componentVars, phase, probes, requests, shutdownVars, monCancelled, pollComplete>>

Registering(p) ==
    /\ Alive
    /\ RegisterSucceeds(p) \/ RegisterRefused(p) \/ RegisterFails(p) \/ Retry(p) \/ RegistrarReturns(p)
    /\ UNCHANGED <<healthVars, serverVars>>

\* SPM outlives the process.
SPMLate(p) == LateRegister(p) /\ UNCHANGED <<healthVars, serverVars>>

----------------------------------------------------------------------------
(* The endpoints: /health, the three GET .../health of the API, /ready *)

Ask(c) ==
    /\ phase \in Serving
    /\ CheckHealth(c)
    /\ UNCHANGED <<registrarVars, serverVars>>

HealthStep ==
    /\ Alive
    /\ ProbeHost \/ ProbeCancelled \/ Land \/ \E c \in Caller : Join(c) \/ Keep(c)
    /\ UNCHANGED <<registrarVars, serverVars>>

\* The handler answers.  /health and the API's health endpoints: 200 or 503,
\* as CheckHealth said.
Answer(c) ==
    /\ Alive
    /\ Leave(c)
    /\ UNCHANGED <<registrarVars, serverVars>>

\* ... and /ready: what it answers with 200.
readinessHandler(c) ==
    /\ asking[c] = "answered" /\ result[c]
    /\ succeeded = Provider
    /\ pollComplete

\* kweb and the age of the cache are followed as long as somebody may ask.
KwebChanges == phase \in Serving /\ HostChanges /\ UNCHANGED <<registrarVars, serverVars>>

TimePasses == phase \in Serving /\ HealthAges /\ UNCHANGED <<registrarVars, serverVars>>

----------------------------------------------------------------------------
(* Shutdown *)

ShutExpires ==
    /\ phase \in {"draining", "waiting"}
    /\ ~expired
    /\ expired' = TRUE
    /\ UNCHANGED <<componentVars, phase, probes, requests, monitorVars, deregistered, open>>

Drained == requests = 0 /\ \A c \in Caller : asking[c] = "idle"

\* Mutant: the server is shut down without a deadline.
DrainPatient ==
    /\ phase = "draining"
    /\ Drained
    /\ phase' = "waiting"
    /\ monCancelled' = TRUE
    /\ UNCHANGED <<componentVars, probes, requests, shutdownVars, monitor, pollComplete>>

\* httpServer.Shutdown returns: no request is open, or the time is up; the
\* monitor is cancelled either way.
Drain ==
    /\ phase = "draining"
    /\ Drained \/ expired
    /\ phase' = "waiting"
    /\ monCancelled' = TRUE
    /\ UNCHANGED <<componentVars, probes, requests, shutdownVars, monitor, pollComplete>>

\* Mutant: the monitor is cancelled and not waited for.
WaitNot ==
    /\ phase = "waiting"
    /\ phase' = "stopping"
    /\ UNCHANGED <<componentVars, probes, requests, shutdownVars, monitorVars>>

\* wg.Wait, or the same deadline.
Wait ==
    /\ phase = "waiting"
    /\ monitor = "stopped" \/ expired
    /\ phase' = "stopping"
    /\ UNCHANGED <<componentVars, probes, requests, shutdownVars, monitorVars>>

StopRegistrar(p) ==
    /\ phase = "stopping"
    /\ p \notin cancelled
    /\ Cancel(p)
    /\ UNCHANGED <<healthVars, serverVars>>

\* Mutant: the registrars are not stopped.
StoppedNot ==
    /\ phase = "stopping"
    /\ phase' = "deregistering"
    /\ UNCHANGED <<componentVars, probes, requests, shutdownVars, monitorVars>>

\* Every Stop has returned: the goroutines have ended.  (The code stops one
\* after the other.)
Stopped ==
    /\ phase = "stopping"
    /\ cancelled = Provider /\ \A p \in Provider : registrar[p] = "done"
    /\ phase' = "deregistering"
    /\ UNCHANGED <<componentVars, probes, requests, shutdownVars, monitorVars>>

Deregister(p) ==
    /\ phase = "deregistering"
    /\ deregistered[p] = "no"
    /\ \/ DeregisterOK(p) /\ deregistered' = [deregistered EXCEPT ![p] = "ok"]
       \/ DeregisterFails(p) /\ deregistered' = [deregistered EXCEPT ![p] = "failed"]
    /\ UNCHANGED <<healthVars, phase, probes, requests, expired, monitorVars, open>>

ClosePublisher ==
    /\ phase = "deregistering"
    /\ \A p \in Provider : deregistered[p] # "no"
    /\ phase' = "closing"
    /\ open' = open \ {"publisher"}
    /\ UNCHANGED <<componentVars, probes, requests, expired, monitorVars, deregistered>>

CloseStore ==
    /\ phase = "closing" /\ "store" \in open
    /\ open' = {}
    /\ UNCHANGED <<componentVars, phase, probes, requests, expired, monitorVars, deregistered>>

Exit ==
    /\ phase = "closing" /\ open = {}
    /\ phase' = "exited"
    /\ UNCHANGED <<componentVars, probes, requests, shutdownVars, monitorVars>>

ShutdownStep ==
    \/ Drain \/ Wait \/ \E p \in Provider : StopRegistrar(p)
    \/ Stopped \/ \E p \in Provider : Deregister(p)
    \/ ClosePublisher \/ CloseStore \/ Exit

----------------------------------------------------------------------------
LifecycleNext ==
    \/ Boot \/ BootFails \/ SelfProbe \/ SelfProbed \/ Launch \/ CatchSignals \/ Signal
    \/ Accept \/ Finish
    \/ MonitorPolled \/ MonitorTicks \/ MonitorReturns
    \/ \E p \in Provider : Registering(p) \/ SPMLate(p)
    \/ \E c \in Client : Ask(c) \/ Answer(c)
    \/ HealthStep \/ KwebChanges \/ TimePasses
    \/ ShutExpires \/ ShutdownStep

\* Goroutines run, clocks and tickers advance, every call to SPM returns (its
\* client has a timeout), probes of /ready keep coming.  Handlers of API
\* requests may take for ever.  SPM, called again and again, accepts in the
\* end unless it refuses, and so does kweb answer GET /host.
LifecycleFairness ==
    /\ WF_lifecycleVars(MonitorPolled)
    /\ \A p \in Provider : /\ WF_lifecycleVars(Registering(p))
                           /\ SF_lifecycleVars(RegisterSucceeds(p) /\ Alive /\ UNCHANGED <<healthVars, serverVars>>)
    /\ \A c \in Client : WF_lifecycleVars(Ask(c) \/ Answer(c))
    /\ WF_lifecycleVars(HealthStep)
    /\ SF_lifecycleVars(ProbeHost /\ Alive /\ UNCHANGED <<registrarVars, serverVars>>)
    /\ WF_lifecycleVars(TimePasses)
    /\ WF_lifecycleVars(ShutExpires \/ ShutdownStep)

LifecycleSpec == LifecycleInit /\ [][LifecycleNext]_lifecycleVars /\ LifecycleFairness

----------------------------------------------------------------------------
\* When the store or the publisher is closed nobody is left who would use
\* them, unless the shutdown ran out of time.
ClosedQuiet ==
    phase \in {"closing", "exited"} /\ ~expired => requests = 0 /\ monitor = "stopped"

\* A provider that has been deregistered stays so: no registrar is left that
\* registers it again, and the gauge does not say it is registered.  Only a
\* POST that was given up on before can bring it back at SPM.
DeregistrationFinal ==
    \A p \in Provider : deregistered[p] = "ok" =>
        RegistrationStatus[p] = 0 /\ (p \in spm => p \in byLate)

\* Once kweb stays down, the health endpoints stop saying "healthy": neither
\* the cache nor a late writer of an old answer keeps it alive.
DownIsNoticed ==
    <>[](phase = "running" /\ ~host) => <>[](healthCache # None /\ ~healthCache.ok)

\* A provider that keeps running with kweb up, and that SPM does not refuse,
\* becomes ready.
BecomesReady ==
    <>[](phase = "running" /\ host) =>
        \/ \E c \in Client : <>readinessHandler(c)
        \/ <>(refused # {})

\* A shutdown ends, whatever the requests, the monitor, SPM and the
\* registrars are doing.
ShutdownEnds == phase = "draining" ~> phase = "exited"
=============================================================================
