----------------------------- MODULE HealthCache -----------------------------
(***************************************************************************)
(* CheckHealth of the kweb client (internal/kweb/client.go): one answer of  *)
(* kweb is kept for healthCacheTTL, and callers that find none fresh share  *)
(* one GET /host (singleflight).  Every caller then writes the answer it    *)
(* got into the cache by itself, and stamps it with the time of writing.    *)
(***************************************************************************)
EXTENDS Naturals

CONSTANTS Caller,          \* goroutines that call CheckHealth
          healthCacheTTL,  \* in ticks
          None

CachedHealth == [ok : BOOLEAN, age : 0..healthCacheTTL]

ASSUME HealthAssumption ==
    /\ healthCacheTTL \in Nat
    /\ None \notin CachedHealth \cup BOOLEAN

VARIABLES host,         \* external: does kweb answer GET /host with 200?
          healthCache,  \* the last answer, and how old it is
          flight,       \* callers that share the GET under way, and its result
          asking,       \* where each caller stands
          result        \* the answer it has been given

healthVars == <<host, healthCache, flight, asking, result>>

HealthTypeOK ==
    /\ host \in BOOLEAN
    /\ healthCache \in CachedHealth \cup {None}
    /\ flight \in [by : SUBSET Caller, result : BOOLEAN \cup {None}]
    /\ asking \in [Caller -> {"idle", "missed", "waiting", "storing", "answered"}]
    /\ result \in [Caller -> BOOLEAN \cup {None}]
    /\ flight.by = {c \in Caller : asking[c] = "waiting"}

NoFlight == [by |-> {}, result |-> None]

HealthInit ==
    /\ host \in BOOLEAN
    /\ healthCache = None
    /\ flight = NoFlight
    /\ asking = [c \in Caller |-> "idle"]
    /\ result = [c \in Caller |-> None]

----------------------------------------------------------------------------
\* Mutant: a cached answer is good for ever.
FreshForever == healthCache # None

Fresh == healthCache # None /\ healthCache.age < healthCacheTTL

\* The cache, read under healthMu.
CheckHealth(c) ==
    /\ asking[c] = "idle"
    /\ \/ /\ Fresh
          /\ asking' = [asking EXCEPT ![c] = "answered"]
          /\ result' = [result EXCEPT ![c] = healthCache.ok]
       \/ /\ ~Fresh
          /\ asking' = [asking EXCEPT ![c] = "missed"]
          /\ UNCHANGED result
    /\ UNCHANGED <<host, healthCache, flight>>

\* healthSF.Do: the GET that is under way, or a new one.  The cache is not
\* looked at again.
Join(c) ==
    /\ asking[c] = "missed"
    /\ asking' = [asking EXCEPT ![c] = "waiting"]
    /\ flight' = [flight EXCEPT !.by = @ \cup {c}]
    /\ UNCHANGED <<host, healthCache, result>>

\* checkHealthUncached: kweb's answer.
ProbeHost ==
    /\ flight.by # {} /\ flight.result = None
    /\ flight' = [flight EXCEPT !.result = host]
    /\ UNCHANGED <<host, healthCache, asking, result>>

\* ... or none: the rate limiter, the timeout, or the caller whose GET it is
\* has gone away and took its context with it.
ProbeCancelled ==
    /\ flight.by # {} /\ flight.result = None
    /\ flight' = [flight EXCEPT !.result = FALSE]
    /\ UNCHANGED <<host, healthCache, asking, result>>

\* Mutant: the finished call stays under its key.
LandKeepsKey ==
    /\ flight.result # None
    /\ asking' = [c \in Caller |-> IF c \in flight.by THEN "storing" ELSE asking[c]]
    /\ result' = [c \in Caller |-> IF c \in flight.by THEN flight.result ELSE result[c]]
    /\ UNCHANGED <<host, healthCache, flight>>

\* The singleflight call returns to all who share it.
Land ==
    /\ flight.result # None
    /\ asking' = [c \in Caller |-> IF c \in flight.by THEN "storing" ELSE asking[c]]
    /\ result' = [c \in Caller |-> IF c \in flight.by THEN flight.result ELSE result[c]]
    /\ flight' = NoFlight
    /\ UNCHANGED <<host, healthCache>>

Keep(c) ==
    /\ asking[c] = "storing"
    /\ healthCache' = [ok |-> result[c], age |-> 0]
    /\ asking' = [asking EXCEPT ![c] = "answered"]
    /\ UNCHANGED <<host, flight, result>>

\* The handler has used the answer and its goroutine ends.
Leave(c) ==
    /\ asking[c] = "answered"
    /\ asking' = [asking EXCEPT ![c] = "idle"]
    /\ result' = [result EXCEPT ![c] = None]
    /\ UNCHANGED <<host, healthCache, flight>>

\* kweb goes down, or comes back.
HostChanges ==
    /\ host' = ~host
    /\ UNCHANGED <<healthCache, flight, asking, result>>

HealthAges ==
    /\ healthCache # None /\ healthCache.age < healthCacheTTL
    /\ healthCache' = [healthCache EXCEPT !.age = @ + 1]
    /\ UNCHANGED <<host, flight, asking, result>>
=============================================================================
