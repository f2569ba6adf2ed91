------------------------------ MODULE Registrar ------------------------------
(***************************************************************************)
(* Registration with the service provider manager                           *)
(* (internal/registration/registrar.go): per provider one goroutine that    *)
(* tries until it succeeds, is refused, or is stopped; and the best-effort  *)
(* Deregister of the shutdown.  SPM is external: a set of providers.  A     *)
(* call the registrar gave up on may still reach it.                        *)
(***************************************************************************)
EXTENDS Naturals

CONSTANT Provider  \* one for VMs, one for clusters

VARIABLES registrar,           \* where each goroutine stands
          cancelled,           \* providers whose registrar's context is cancelled
          succeeded,           \* Registered()
          refused,             \* ghost: providers whose registration was refused
          RegistrationStatus,  \* the gauge
          spm,                 \* providers SPM holds
          lateRegistrations,   \* POSTs given up on, still on their way
          byLate               \* ghost: providers SPM holds through one of these

registrarVars == <<registrar, cancelled, succeeded, refused, RegistrationStatus, spm,
                   lateRegistrations, byLate>>

RegistrarTypeOK ==
    /\ registrar \in [Provider -> {"off", "register", "backoff", "done"}]
    /\ cancelled \subseteq Provider
    /\ succeeded \subseteq Provider /\ refused \subseteq Provider
    /\ RegistrationStatus \in [Provider -> 0..1]
    /\ spm \subseteq Provider
    /\ lateRegistrations \subseteq Provider
    /\ byLate \subseteq spm

RegistrarInit ==
    /\ registrar = [p \in Provider |-> "off"]
    /\ cancelled = {}
    /\ succeeded = {} /\ refused = {}
    /\ RegistrationStatus = [p \in Provider |-> 0]
    /\ spm = {}
    /\ lateRegistrations = {}
    /\ byLate = {}

----------------------------------------------------------------------------
\* StartBackground: of all the registrars, in the same loop.
StartBackground ==
    /\ registrar' = [p \in Provider |-> "register"]
    /\ UNCHANGED <<cancelled, succeeded, refused, RegistrationStatus, spm, lateRegistrations, byLate>>

\* 200 or 201.
RegisterSucceeds(p) ==
    /\ registrar[p] = "register"
    /\ registrar' = [registrar EXCEPT ![p] = "done"]
    /\ succeeded' = succeeded \cup {p}
    /\ RegistrationStatus' = [RegistrationStatus EXCEPT ![p] = 1]
    /\ spm' = spm \cup {p}
    /\ byLate' = byLate \ {p}
    /\ UNCHANGED <<cancelled, refused, lateRegistrations>>

\* Any 4xx, or a provider id that is no UUID: errNonRetryable, for good.
RegisterRefused(p) ==
    /\ registrar[p] = "register"
    /\ registrar' = [registrar EXCEPT ![p] = "done"]
    /\ refused' = refused \cup {p}
    /\ UNCHANGED <<cancelled, succeeded, RegistrationStatus, spm, lateRegistrations, byLate>>

\* Mutant: a failed attempt is the last one.
RegisterFailsOnce(p) ==
    /\ registrar[p] = "register"
    /\ registrar' = [registrar EXCEPT ![p] = "done"]
    /\ UNCHANGED <<cancelled, succeeded, refused, RegistrationStatus, spm, lateRegistrations, byLate>>

\* 5xx, or no answer: SPM may have done it, may do it later, or never.
RegisterFails(p) ==
    /\ registrar[p] = "register"
    /\ registrar' = [registrar EXCEPT ![p] = "backoff"]
    /\ \/ UNCHANGED <<spm, lateRegistrations, byLate>>
       \/ spm' = spm \cup {p} /\ byLate' = byLate \ {p} /\ UNCHANGED lateRegistrations
       \/ lateRegistrations' = lateRegistrations \cup {p} /\ UNCHANGED <<spm, byLate>>
    /\ UNCHANGED <<cancelled, succeeded, refused, RegistrationStatus>>

\* The backoff timer.  (When the select prefers it to a cancelled context the
\* attempt fails before it is sent, and the goroutine is back here.)
Retry(p) ==
    /\ registrar[p] = "backoff" /\ p \notin cancelled
    /\ registrar' = [registrar EXCEPT ![p] = "register"]
    /\ UNCHANGED <<cancelled, succeeded, refused, RegistrationStatus, spm, lateRegistrations, byLate>>

RegistrarReturns(p) ==
    /\ registrar[p] = "backoff" /\ p \in cancelled
    /\ registrar' = [registrar EXCEPT ![p] = "done"]
    /\ UNCHANGED <<cancelled, succeeded, refused, RegistrationStatus, spm, lateRegistrations, byLate>>

\* Stop, up to the wait for the goroutine.
Cancel(p) ==
    /\ cancelled' = cancelled \cup {p}
    /\ UNCHANGED <<registrar, succeeded, refused, RegistrationStatus, spm, lateRegistrations, byLate>>

\* Deregister with a 2xx answer ...
DeregisterOK(p) ==
    /\ spm' = spm \ {p}
    /\ byLate' = byLate \ {p}
    /\ RegistrationStatus' = [RegistrationStatus EXCEPT ![p] = 0]
    /\ UNCHANGED <<registrar, cancelled, succeeded, refused, lateRegistrations>>

\* ... and without: a warning, whether or not SPM has done it.
DeregisterFails(p) ==
    /\ \/ UNCHANGED <<spm, byLate>>
       \/ spm' = spm \ {p} /\ byLate' = byLate \ {p}
    /\ UNCHANGED <<registrar, cancelled, succeeded, refused, RegistrationStatus, lateRegistrations>>

\* SPM carries out a POST that nobody waits for.
LateRegister(p) ==
    /\ p \in lateRegistrations
    /\ lateRegistrations' = lateRegistrations \ {p}
    /\ spm' = spm \cup {p}
    /\ byLate' = IF p \in spm THEN byLate ELSE byLate \cup {p}
    /\ UNCHANGED <<registrar, cancelled, succeeded, refused, RegistrationStatus>>
=============================================================================
