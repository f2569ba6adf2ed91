--------------------------- MODULE Lifecycle_proofs ---------------------------
(* What the order of the shutdown is for, whatever the number of providers,  *)
(* of probes and of requests: nobody is left to use what is closed, and      *)
(* nobody to register again what has been deregistered.                      *)
EXTENDS Lifecycle, TLAPS

\* The phases after httpServer.Shutdown, after wg.Wait, and after the Stops.
AfterDrain == {"waiting", "stopping", "deregistering", "closing", "exited"}
AfterWait == {"stopping", "deregistering", "closing", "exited"}
AfterStop == {"deregistering", "closing", "exited"}

\* What the shutdown has waited for does not come back.
Quiet ==
    /\ phase \in AfterDrain /\ ~expired => requests = 0
    /\ phase \in AfterWait /\ ~expired => monitor = "stopped"

\* Registrars have ended before the first Deregister.
StoppedFirst ==
    /\ phase \in AfterStop => \A p \in Provider : registrar[p] = "done"
    /\ \A p \in Provider : deregistered[p] # "no" => phase \in AfterStop

ShutdownTypes ==
    /\ registrar \in [Provider -> {"off", "register", "backoff", "done"}]
    /\ RegistrationStatus \in [Provider -> 0..1]
    /\ deregistered \in [Provider -> {"no", "ok", "failed"}]

ShutdownInv == ShutdownTypes /\ StoppedFirst /\ DeregistrationFinal

----------------------------------------------------------------------------
(* Nobody uses what is closed *)

\* Every step keeps what the shutdown has waited for.
LEMMA QuietStep ==
    ASSUME Quiet, [LifecycleNext]_lifecycleVars
    PROVE  Quiet'
<1> USE DEF Quiet, AfterDrain, AfterWait
<1>1. CASE Boot \/ BootFails
  BY <1>1 DEF Boot, BootFails, shutdownVars, monitorVars
<1>2. CASE SelfProbe \/ SelfProbed
  BY <1>2 DEF SelfProbe, SelfProbed, serverVars, shutdownVars, monitorVars
<1>3. CASE Launch \/ CatchSignals \/ Signal
  BY <1>3 DEF Launch, CatchSignals, Signal, shutdownVars, monitorVars, Serving
<1>4. CASE Accept \/ Finish
  BY <1>4 DEF Accept, Finish, shutdownVars, monitorVars, Serving
<1>5. CASE MonitorPolled \/ MonitorTicks \/ MonitorReturns
  BY <1>5 DEF MonitorPolled, MonitorTicks, MonitorReturns, shutdownVars
<1>6. CASE UNCHANGED serverVars
  BY <1>6 DEF serverVars, shutdownVars, monitorVars
<1>7. CASE ShutExpires
  BY <1>7 DEF ShutExpires, monitorVars
<1>8. CASE Drain \/ Wait \/ Stopped
  <2>1. CASE Drain
    BY <2>1 DEF Drain, Drained, shutdownVars
  <2>2. CASE Wait
    BY <2>2 DEF Wait, shutdownVars, monitorVars
  <2>3. CASE Stopped
    BY <2>3 DEF Stopped, shutdownVars, monitorVars
  <2> QED BY <1>8, <2>1, <2>2, <2>3
<1>9. CASE \E p \in Provider : Deregister(p)
  BY <1>9 DEF Deregister, monitorVars
<1>10. CASE ClosePublisher \/ CloseStore \/ Exit
  BY <1>10 DEF ClosePublisher, CloseStore, Exit, shutdownVars, monitorVars
<1>11. (\E p \in Provider : Registering(p) \/ SPMLate(p) \/ StopRegistrar(p))
       \/ (\E c \in Client : Ask(c) \/ Answer(c)) \/ HealthStep \/ KwebChanges \/ TimePasses
       \/ UNCHANGED lifecycleVars
       => UNCHANGED serverVars
  BY DEF Registering, SPMLate, StopRegistrar, Ask, Answer, HealthStep, KwebChanges, TimePasses,
         lifecycleVars, serverVars, shutdownVars, monitorVars
<1> QED
  BY <1>1, <1>2, <1>3, <1>4, <1>5, <1>6, <1>7, <1>8, <1>9, <1>10, <1>11
     DEF LifecycleNext, ShutdownStep

\* When the publisher and the store are closed no request and no poll is
\* under way, unless SHUTDOWN_TIMEOUT has run out: the order of shutdown() is
\* enough for it, whatever the goroutines do.
THEOREM ClosedQuietTheorem == LifecycleSpec => []ClosedQuiet
<1>1. LifecycleInit => Quiet
  BY DEF LifecycleInit, Quiet, AfterDrain, AfterWait
<1>2. Quiet /\ [LifecycleNext]_lifecycleVars => Quiet'
  BY QuietStep
<1>3. Quiet => ClosedQuiet
  BY DEF Quiet, ClosedQuiet, AfterDrain, AfterWait
<1> QED BY <1>1, <1>2, <1>3, PTL DEF LifecycleSpec

----------------------------------------------------------------------------
(* Nobody registers again *)

\* Once the shutdown has stopped them the registrars do nothing more, and
\* nothing of before touches a provider that has been deregistered.
LEMMA RegisteringStep ==
    ASSUME ShutdownInv, NEW p \in Provider, Registering(p)
    PROVE  ShutdownInv'
<1>0. UNCHANGED <<phase, deregistered>>
  BY DEF Registering, serverVars, shutdownVars
<1>1. registrar[p] \in {"register", "backoff"}
  BY DEF Registering, RegisterSucceeds, RegisterRefused, RegisterFails, Retry, RegistrarReturns
<1>2. phase \notin AfterStop /\ \A q \in Provider : deregistered[q] = "no"
  BY <1>1 DEF ShutdownInv, StoppedFirst
<1>3. ShutdownTypes'
  BY <1>0 DEF ShutdownInv, ShutdownTypes, Registering, RegisterSucceeds, RegisterRefused,
              RegisterFails, Retry, RegistrarReturns
<1>4. StoppedFirst' /\ DeregistrationFinal'
  BY <1>0, <1>2 DEF StoppedFirst, DeregistrationFinal
<1> QED BY <1>3, <1>4 DEF ShutdownInv

\* A POST that comes late is one of those excepted.
LEMMA SPMLateStep ==
    ASSUME ShutdownInv, NEW p \in Provider, SPMLate(p)
    PROVE  ShutdownInv'
<1>0. UNCHANGED <<phase, deregistered, registrar, RegistrationStatus>>
      /\ spm' = spm \cup {p} /\ byLate' = (IF p \in spm THEN byLate ELSE byLate \cup {p})
  BY DEF SPMLate, LateRegister, serverVars, shutdownVars
<1> QED BY <1>0 DEF ShutdownInv, ShutdownTypes, StoppedFirst, DeregistrationFinal

\* Deregister takes the provider away, or says that it could not.
LEMMA DeregisterStep ==
    ASSUME ShutdownInv, NEW p \in Provider, Deregister(p)
    PROVE  ShutdownInv'
<1>0. phase = "deregistering" /\ UNCHANGED <<phase, registrar>> /\ deregistered[p] = "no"
  BY DEF Deregister, DeregisterOK, DeregisterFails
<1>1. CASE DeregisterOK(p) /\ deregistered' = [deregistered EXCEPT ![p] = "ok"]
  BY <1>0, <1>1 DEF DeregisterOK, ShutdownInv, ShutdownTypes, StoppedFirst, DeregistrationFinal,
                    AfterStop
<1>2. CASE DeregisterFails(p) /\ deregistered' = [deregistered EXCEPT ![p] = "failed"]
  BY <1>0, <1>2 DEF DeregisterFails, ShutdownInv, ShutdownTypes, StoppedFirst,
                    DeregistrationFinal, AfterStop
<1> QED BY <1>1, <1>2 DEF Deregister

\* Every other step leaves SPM and the gauge alone.
LEMMA ShutdownFrame ==
    ASSUME ShutdownInv, UNCHANGED <<registrar, RegistrationStatus, spm, byLate, deregistered>>,
           phase \in AfterStop => phase' \in AfterStop,
           phase' \in AfterStop => phase \in AfterStop \/ \A p \in Provider : registrar[p] = "done"
    PROVE  ShutdownInv'
BY DEF ShutdownInv, ShutdownTypes, StoppedFirst, DeregistrationFinal

\* Every step keeps it.
LEMMA ShutdownInvStep ==
    ASSUME ShutdownInv, [LifecycleNext]_lifecycleVars
    PROVE  ShutdownInv'
<1> DEFINE Same == UNCHANGED <<registrar, RegistrationStatus, spm, byLate, deregistered>>
<1>1. CASE Boot \/ BootFails \/ SelfProbe \/ SelfProbed \/ CatchSignals \/ Signal
  <2>1. Same /\ phase \notin AfterStop /\ phase' \notin AfterStop
    BY <1>1 DEF Boot, BootFails, SelfProbe, SelfProbed, CatchSignals, Signal, componentVars,
                registrarVars, serverVars, shutdownVars, Serving, AfterStop
  <2> QED BY <2>1, ShutdownFrame
<1>2. CASE Launch
  <2>1. phase = "profiles" /\ phase' = "starting" /\ UNCHANGED deregistered
        /\ registrar' = [p \in Provider |-> "register"]
        /\ UNCHANGED <<RegistrationStatus, spm, byLate>>
    BY <1>2 DEF Launch, StartBackground, shutdownVars
  <2> QED BY <2>1 DEF ShutdownInv, ShutdownTypes, StoppedFirst, DeregistrationFinal, AfterStop
<1>3. CASE Accept \/ Finish \/ MonitorPolled \/ MonitorTicks \/ MonitorReturns \/ ShutExpires
  <2>1. Same /\ phase' = phase
    BY <1>3 DEF Accept, Finish, MonitorPolled, MonitorTicks, MonitorReturns, ShutExpires,
                componentVars, registrarVars, shutdownVars
  <2> QED BY <2>1, ShutdownFrame
<1>4. CASE \E p \in Provider : Registering(p) \/ SPMLate(p)
  BY <1>4, RegisteringStep, SPMLateStep
<1>5. CASE (\E c \in Client : Ask(c) \/ Answer(c)) \/ HealthStep \/ KwebChanges \/ TimePasses
           \/ (\E p \in Provider : StopRegistrar(p)) \/ UNCHANGED lifecycleVars
  <2>1. Same /\ phase' = phase
    BY <1>5 DEF Ask, Answer, HealthStep, KwebChanges, TimePasses, StopRegistrar, Cancel,
                lifecycleVars, registrarVars, serverVars, shutdownVars
  <2> QED BY <2>1, ShutdownFrame
<1>6. CASE Drain \/ Wait
  <2>1. Same /\ phase \notin AfterStop /\ phase' \notin AfterStop
    BY <1>6 DEF Drain, Wait, componentVars, registrarVars, shutdownVars, AfterStop
  <2> QED BY <2>1, ShutdownFrame
<1>7. CASE Stopped
  <2>1. Same /\ phase \notin AfterStop /\ \A p \in Provider : registrar[p] = "done"
    BY <1>7 DEF Stopped, componentVars, registrarVars, shutdownVars, AfterStop
  <2> QED BY <2>1, ShutdownFrame
<1>8. CASE \E p \in Provider : Deregister(p)
  BY <1>8, DeregisterStep
<1>9. CASE ClosePublisher \/ CloseStore \/ Exit
  <2>1. Same /\ phase \in AfterStop /\ phase' \in AfterStop
    BY <1>9 DEF ClosePublisher, CloseStore, Exit, componentVars, registrarVars, shutdownVars,
                AfterStop
  <2> QED BY <2>1, ShutdownFrame
<1> QED
  BY <1>1, <1>2, <1>3, <1>4, <1>5, <1>6, <1>7, <1>8, <1>9 DEF LifecycleNext, ShutdownStep

\* A provider that shutdown() has deregistered stays deregistered: every
\* registrar has ended before, and only a POST that its registrar had given
\* up on can bring it back at SPM.
THEOREM DeregistrationTheorem == LifecycleSpec => []DeregistrationFinal
<1>1. LifecycleInit => ShutdownInv
  BY DEF LifecycleInit, RegistrarInit, ShutdownInv, ShutdownTypes, StoppedFirst,
         DeregistrationFinal, AfterStop
<1>2. ShutdownInv /\ [LifecycleNext]_lifecycleVars => ShutdownInv'
  BY ShutdownInvStep
<1>3. ShutdownInv => DeregistrationFinal
  BY DEF ShutdownInv
<1> QED BY <1>1, <1>2, <1>3, PTL DEF LifecycleSpec

----------------------------------------------------------------------------
(* Types, and what they say of the singleflight and of the start-up *)

\* Whoever has been answered has an answer.
Answered == \A c \in Caller : asking[c] \in {"storing", "answered"} => result[c] # None

HealthInv == HealthTypeOK /\ Answered

\* The goroutines are not there before Launch.
NotLaunched ==
    phase \in {"boot", "probe", "profiles"} =>
        monitor = "off" /\ \A p \in Provider : registrar[p] = "off"

ServerTypeOK ==
    /\ phase \in {"boot"} \cup Serving \cup ShuttingDown \cup Over
    /\ probes \in 0..(MaxProbes - 1)
    /\ requests \in 0..MaxRequests
    /\ monitor \in {"off", "polling", "waiting", "stopped"}
    /\ {expired, monCancelled, pollComplete} \subseteq BOOLEAN
    /\ deregistered \in [Provider -> {"no", "ok", "failed"}]
    /\ open \subseteq {"store", "publisher"}

LifecycleInv == HealthInv /\ RegistrarTypeOK /\ ServerTypeOK /\ NotLaunched

\* A caller of CheckHealth is answered from the cache or finds none fresh,
LEMMA CheckHealthType ==
    ASSUME HealthInv, NEW c \in Caller, CheckHealth(c)
    PROVE  HealthInv'
<1> USE DEF HealthInv, HealthTypeOK, Answered
<1>1. CASE /\ Fresh
           /\ asking' = [asking EXCEPT ![c] = "answered"]
           /\ result' = [result EXCEPT ![c] = healthCache.ok]
  <2>1. healthCache.ok \in BOOLEAN /\ healthCache.ok # None
    BY <1>1, HealthAssumption DEF Fresh, CachedHealth
  <2>2. result' \in [Caller -> BOOLEAN \cup {None}] /\ Answered'
    BY <1>1, <2>1
  <2>3. /\ asking' \in [Caller -> {"idle", "missed", "waiting", "storing", "answered"}]
        /\ flight'.by = {d \in Caller : asking'[d] = "waiting"}
    BY <1>1 DEF CheckHealth
  <2> QED BY <1>1, <2>2, <2>3 DEF CheckHealth
<1>2. CASE asking' = [asking EXCEPT ![c] = "missed"] /\ UNCHANGED result
  BY <1>2 DEF CheckHealth
<1> QED BY <1>1, <1>2 DEF CheckHealth

\* ... and joins the flight.
LEMMA JoinType == ASSUME HealthInv, NEW c \in Caller, Join(c) PROVE HealthInv'
<1> USE DEF HealthInv, HealthTypeOK, Answered
<1>1. /\ flight' \in [by : SUBSET Caller, result : BOOLEAN \cup {None}]
      /\ flight'.by = flight.by \cup {c}
  BY DEF Join
<1>2. /\ asking' \in [Caller -> {"idle", "missed", "waiting", "storing", "answered"}]
      /\ flight'.by = {d \in Caller : asking'[d] = "waiting"}
  BY <1>1 DEF Join
<1>3. Answered'
  BY DEF Join
<1> QED BY <1>1, <1>2, <1>3 DEF Join

\* The GET under way gets its result.
LEMMA ProbeType == ASSUME HealthInv, ProbeHost \/ ProbeCancelled PROVE HealthInv'
<1> USE DEF HealthInv, HealthTypeOK, Answered
<1>1. /\ \E b \in BOOLEAN : flight' = [flight EXCEPT !.result = b]
      /\ UNCHANGED <<host, healthCache, asking, result>>
  BY DEF ProbeHost, ProbeCancelled
<1>2. flight' \in [by : SUBSET Caller, result : BOOLEAN \cup {None}] /\ flight'.by = flight.by
  BY <1>1
<1> QED BY <1>1, <1>2

\* It returns to all who share it, and to nobody else.
LEMMA LandType == ASSUME HealthInv, Land PROVE HealthInv'
<1> USE DEF HealthInv, HealthTypeOK, Answered
<1>1. flight.result \in BOOLEAN /\ flight.result # None /\ flight.by \subseteq Caller
  BY DEF Land
<1>2. /\ result' \in [Caller -> BOOLEAN \cup {None}]
      /\ asking' \in [Caller -> {"idle", "missed", "waiting", "storing", "answered"}]
  BY <1>1 DEF Land
<1>3. \A c \in Caller : asking'[c] # "waiting"
  BY DEF Land
<1>4. /\ flight' \in [by : SUBSET Caller, result : BOOLEAN \cup {None}]
      /\ flight'.by = {c \in Caller : asking'[c] = "waiting"}
  BY <1>3 DEF Land, NoFlight
<1>5. Answered'
  BY <1>1 DEF Land
<1> QED BY <1>2, <1>4, <1>5 DEF Land

\* A caller writes the answer it has into the cache.
LEMMA KeepType == ASSUME HealthInv, NEW c \in Caller, Keep(c) PROVE HealthInv'
<1> USE DEF HealthInv, HealthTypeOK, Answered
<1>1. result[c] \in BOOLEAN
  BY DEF Keep
<1>2. healthCache' \in CachedHealth
  BY <1>1, HealthAssumption DEF Keep, CachedHealth
<1>3. /\ asking' \in [Caller -> {"idle", "missed", "waiting", "storing", "answered"}]
      /\ flight'.by = {d \in Caller : asking'[d] = "waiting"}
  BY DEF Keep
<1>4. Answered'
  BY DEF Keep
<1> QED BY <1>2, <1>3, <1>4 DEF Keep

\* Its handler is done with it.
LEMMA LeaveType == ASSUME HealthInv, NEW c \in Caller, Leave(c) PROVE HealthInv'
<1> USE DEF HealthInv, HealthTypeOK, Answered
<1>1. /\ asking' \in [Caller -> {"idle", "missed", "waiting", "storing", "answered"}]
      /\ flight'.by = {d \in Caller : asking'[d] = "waiting"}
  BY DEF Leave
<1>2. result' \in [Caller -> BOOLEAN \cup {None}] /\ Answered'
  BY DEF Leave
<1> QED BY <1>1, <1>2 DEF Leave

\* kweb changes, and the cached answer ages.
LEMMA HostType == ASSUME HealthInv, HostChanges \/ HealthAges PROVE HealthInv'
<1> USE DEF HealthInv, HealthTypeOK, Answered
<1>1. CASE HostChanges
  BY <1>1 DEF HostChanges
<1>2. CASE HealthAges
  <2>1. healthCache' \in CachedHealth
    BY <1>2, HealthAssumption DEF HealthAges, CachedHealth
  <2> QED BY <1>2, <2>1 DEF HealthAges
<1> QED BY <1>1, <1>2

\* The steps of a registrar, and of SPM for it.
LEMMA RegistrarType ==
    ASSUME RegistrarTypeOK, NEW p \in Provider,
           \/ RegisterSucceeds(p) \/ RegisterRefused(p) \/ RegisterFails(p) \/ Retry(p)
           \/ RegistrarReturns(p) \/ Cancel(p) \/ DeregisterOK(p) \/ DeregisterFails(p)
           \/ LateRegister(p)
    PROVE  RegistrarTypeOK'
<1> USE DEF RegistrarTypeOK
<1>1. CASE RegisterSucceeds(p)
  BY <1>1 DEF RegisterSucceeds
<1>2. CASE RegisterRefused(p) \/ RegisterFails(p)
  BY <1>2 DEF RegisterRefused, RegisterFails
<1>3. CASE Retry(p) \/ RegistrarReturns(p) \/ Cancel(p)
  BY <1>3 DEF Retry, RegistrarReturns, Cancel
<1>4. CASE DeregisterOK(p) \/ DeregisterFails(p)
  BY <1>4 DEF DeregisterOK, DeregisterFails
<1>5. CASE LateRegister(p)
  BY <1>5 DEF LateRegister
<1> QED BY <1>1, <1>2, <1>3, <1>4, <1>5

\* Parts that a step leaves alone keep their types.
LEMMA ComponentsUntouched ==
    /\ HealthInv /\ UNCHANGED healthVars => HealthInv'
    /\ RegistrarTypeOK /\ UNCHANGED registrarVars => RegistrarTypeOK'
    /\ ServerTypeOK /\ NotLaunched /\ UNCHANGED <<serverVars, registrar>> => ServerTypeOK' /\ NotLaunched'
<1>1. HealthInv /\ UNCHANGED healthVars => HealthInv'
  BY DEF HealthInv, HealthTypeOK, Answered, healthVars
<1>2. RegistrarTypeOK /\ UNCHANGED registrarVars => RegistrarTypeOK'
  BY DEF RegistrarTypeOK, registrarVars
<1>3. ServerTypeOK /\ NotLaunched /\ UNCHANGED <<serverVars, registrar>> => ServerTypeOK' /\ NotLaunched'
  BY DEF ServerTypeOK, NotLaunched, serverVars, shutdownVars, monitorVars
<1> QED BY <1>1, <1>2, <1>3

\* Every step keeps the types.
LEMMA LifecycleInvStep ==
    ASSUME LifecycleInv, [LifecycleNext]_lifecycleVars
    PROVE  LifecycleInv'
<1> USE DEF LifecycleInv
<1> DEFINE SameComponents == UNCHANGED <<healthVars, registrarVars>>
<1>0. SameComponents /\ ServerTypeOK' /\ NotLaunched' => LifecycleInv'
  BY ComponentsUntouched
<1>a. UNCHANGED registrarVars => UNCHANGED registrar
  BY DEF registrarVars
<1>1. CASE Boot \/ BootFails \/ CatchSignals \/ Signal
  <2>1. SameComponents
    BY <1>1 DEF Boot, BootFails, CatchSignals, Signal, componentVars
  <2>2. ServerTypeOK' /\ NotLaunched'
    BY <1>1, <1>a, <2>1
       DEF Boot, BootFails, CatchSignals, Signal, ServerTypeOK, NotLaunched, monitorVars,
           shutdownVars, Serving, ShuttingDown, Over
  <2> QED BY <1>0, <2>1, <2>2
<1>2. CASE SelfProbe \/ (\E c \in Client : Ask(c) \/ Answer(c)) \/ HealthStep \/ KwebChanges
           \/ TimePasses
  <2>1. UNCHANGED <<registrarVars, serverVars>>
    BY <1>2 DEF SelfProbe, Ask, Answer, HealthStep, KwebChanges, TimePasses
  <2>2. \/ \E c \in Caller : CheckHealth(c) \/ Join(c) \/ Keep(c) \/ Leave(c)
        \/ ProbeHost \/ ProbeCancelled \/ Land \/ HostChanges \/ HealthAges
    BY <1>2, LifecycleAssumption
       DEF SelfProbe, Ask, Answer, HealthStep, KwebChanges, TimePasses, Client
  <2>3. HealthInv'
    BY <2>2, CheckHealthType, JoinType, KeepType, LeaveType, ProbeType, LandType, HostType
  <2> QED BY <1>a, <2>1, <2>3, ComponentsUntouched
<1>3. CASE SelfProbed
  <2>1. HealthInv'
    BY <1>3, LeaveType, LifecycleAssumption DEF SelfProbed
  <2>2. UNCHANGED registrarVars
    BY <1>3 DEF SelfProbed
  <2>3. probes' \in 0..(MaxProbes - 1)
    BY <1>3, LifecycleAssumption DEF SelfProbed, ServerTypeOK
  <2>4. phase = "probe" /\ phase' \in {"probe", "profiles", "failed"}
    BY <1>3 DEF SelfProbed
  <2>5. ServerTypeOK' /\ NotLaunched'
    BY <1>3, <1>a, <2>2, <2>3, <2>4
       DEF SelfProbed, ServerTypeOK, NotLaunched, monitorVars, shutdownVars, Serving, Over
  <2> QED BY <2>1, <2>2, <2>5, ComponentsUntouched
<1>4. CASE Launch
  <2>1. UNCHANGED healthVars
    BY <1>4 DEF Launch
  <2>2. RegistrarTypeOK'
    BY <1>4 DEF Launch, StartBackground, RegistrarTypeOK
  <2>3. ServerTypeOK' /\ NotLaunched'
    BY <1>4 DEF Launch, ServerTypeOK, NotLaunched, shutdownVars, Serving
  <2> QED BY <2>1, <2>2, <2>3, ComponentsUntouched
<1>5. CASE Accept \/ Finish \/ MonitorPolled \/ MonitorTicks \/ MonitorReturns
  <2>1. SameComponents
    BY <1>5 DEF Accept, Finish, MonitorPolled, MonitorTicks, MonitorReturns, componentVars
  <2>2. CASE Accept \/ Finish
    <3>1. requests' \in 0..MaxRequests
      BY <2>2, LifecycleAssumption DEF Accept, Finish, ServerTypeOK
    <3>2. ServerTypeOK' /\ NotLaunched'
      BY <2>2, <1>a, <2>1, <3>1
         DEF Accept, Finish, ServerTypeOK, NotLaunched, monitorVars, shutdownVars
    <3> QED BY <1>0, <2>1, <3>2
  <2>3. CASE MonitorPolled \/ MonitorTicks \/ MonitorReturns
    <3>1. ServerTypeOK' /\ NotLaunched'
      BY <2>3, <1>a, <2>1 DEF MonitorPolled, MonitorTicks, MonitorReturns, ServerTypeOK,
                              NotLaunched, shutdownVars
    <3> QED BY <1>0, <2>1, <3>1
  <2> QED BY <1>5, <2>2, <2>3
<1>6. CASE \E p \in Provider : Registering(p)
  <2> PICK p \in Provider : Registering(p)
    BY <1>6
  <2>1. UNCHANGED <<healthVars, serverVars>>
    BY DEF Registering
  <2>2. RegistrarTypeOK' /\ registrar[p] # "off"
    BY RegistrarType DEF Registering, RegisterSucceeds, RegisterRefused, RegisterFails, Retry,
                         RegistrarReturns
  <2>3. ServerTypeOK' /\ NotLaunched'
    BY <2>1, <2>2 DEF ServerTypeOK, NotLaunched, serverVars, shutdownVars, monitorVars
  <2> QED BY <2>1, <2>2, <2>3, ComponentsUntouched
<1>7. CASE \E p \in Provider : SPMLate(p) \/ StopRegistrar(p)
  <2>1. UNCHANGED <<healthVars, serverVars, registrar>>
    BY <1>7 DEF SPMLate, StopRegistrar, Cancel, LateRegister
  <2>2. RegistrarTypeOK'
    BY <1>7, RegistrarType DEF SPMLate, StopRegistrar
  <2> QED BY <2>1, <2>2, ComponentsUntouched
<1>8. CASE ShutExpires \/ Drain \/ Wait \/ Stopped \/ ClosePublisher \/ CloseStore \/ Exit
  <2>1. SameComponents
    BY <1>8 DEF ShutExpires, Drain, Wait, Stopped, ClosePublisher, CloseStore, Exit, componentVars
  <2>2. ServerTypeOK' /\ NotLaunched'
    BY <1>8, <1>a, <2>1
       DEF ShutExpires, Drain, Wait, Stopped, ClosePublisher, CloseStore, Exit, ServerTypeOK,
           NotLaunched, monitorVars, shutdownVars, ShuttingDown, Over
  <2> QED BY <1>0, <2>1, <2>2
<1>9. CASE \E p \in Provider : Deregister(p)
  <2>1. UNCHANGED healthVars /\ RegistrarTypeOK'
    BY <1>9, RegistrarType DEF Deregister
  <2>2. ServerTypeOK' /\ NotLaunched'
    <3>1. /\ phase = "deregistering"
          /\ UNCHANGED <<phase, probes, requests, expired, monitorVars, open>>
      BY <1>9 DEF Deregister
    <3>2. deregistered' \in [Provider -> {"no", "ok", "failed"}]
      BY <1>9 DEF Deregister, ServerTypeOK
    <3> QED BY <3>1, <3>2 DEF ServerTypeOK, NotLaunched, monitorVars
  <2> QED BY <2>1, <2>2, ComponentsUntouched
<1>10. CASE UNCHANGED lifecycleVars
  BY <1>10, ComponentsUntouched
     DEF lifecycleVars, serverVars, shutdownVars, monitorVars, registrarVars
<1> QED
  BY <1>1, <1>2, <1>3, <1>4, <1>5, <1>6, <1>7, <1>8, <1>9, <1>10 DEF LifecycleNext, ShutdownStep

\* The records of the health check, the registrars and the server keep their
\* types; the callers that wait are exactly those whom the one GET /host under
\* way will return to; and neither the monitor nor a registrar runs before
\* the self-probe has succeeded.
THEOREM LifecycleTypeTheorem == LifecycleSpec => []LifecycleTypeOK
<1>1. LifecycleInit => LifecycleInv
  <2>1. LifecycleInit => HealthInv
    BY DEF LifecycleInit, HealthInit, HealthInv, HealthTypeOK, Answered, NoFlight
  <2>2. LifecycleInit => RegistrarTypeOK
    BY DEF LifecycleInit, RegistrarInit, RegistrarTypeOK
  <2>3. LifecycleInit => ServerTypeOK /\ NotLaunched
    <3>1. 0 \in 0..(MaxProbes - 1) /\ 0 \in 0..MaxRequests
      BY LifecycleAssumption
    <3>2. LifecycleInit => NotLaunched
      BY DEF LifecycleInit, RegistrarInit, NotLaunched
    <3>3. LifecycleInit => ServerTypeOK
      BY <3>1 DEF LifecycleInit, ServerTypeOK
    <3> QED BY <3>2, <3>3
  <2> QED BY <2>1, <2>2, <2>3 DEF LifecycleInv
<1>2. LifecycleInv /\ [LifecycleNext]_lifecycleVars => LifecycleInv'
  BY LifecycleInvStep
<1>3. LifecycleInv => LifecycleTypeOK
  BY DEF LifecycleInv, HealthInv, ServerTypeOK, NotLaunched, LifecycleTypeOK
<1> QED BY <1>1, <1>2, <1>3, PTL DEF LifecycleSpec
=============================================================================
