------------------------------ MODULE StatusFeed ------------------------------
(***************************************************************************)
(* What status reporting promises to DCM: a resource has one status at a    *)
(* time, and what DCM is told of a resource is that status and never an     *)
(* older one, until a publish or a store write fails.  How the provider     *)
(* polls, debounces and flushes is of no concern here; StatusReporting      *)
(* implements this specification.                                           *)
(***************************************************************************)
CONSTANTS Id, Statuses, None

VARIABLES status,  \* id -> the status the provider has settled on, or None
          told,    \* id -> the last status DCM was told, or None
          lost     \* ids whose last report or write failed

feedVars == <<status, told, lost>>

FeedInit ==
    /\ status = [id \in Id |-> None]
    /\ told = [id \in Id |-> None]
    /\ lost = {}

\* The reply to a create is DCM's first word of a resource.
Appear(id, s) ==
    /\ status[id] = None
    /\ status' = [status EXCEPT ![id] = s]
    /\ told' = [told EXCEPT ![id] = s]
    /\ UNCHANGED lost

Settle(id, s) ==
    /\ status[id] # None
    /\ status' = [status EXCEPT ![id] = s]
    /\ lost' = lost \ {id}
    /\ UNCHANGED told

Tell(id) ==
    /\ id \notin lost
    /\ status[id] # None
    /\ told' = [told EXCEPT ![id] = status[id]]
    /\ UNCHANGED <<status, lost>>

\* Once a write has failed, an event of the status that was not written may
\* still be on its way.
TellLate(id, s) ==
    /\ id \in lost
    /\ told' = [told EXCEPT ![id] = s]
    /\ UNCHANGED <<status, lost>>

\* A failed write falls back to the status that was stored.
Lose(id, s) ==
    /\ status[id] # None
    /\ status' = [status EXCEPT ![id] = s]
    /\ lost' = lost \cup {id}
    /\ UNCHANGED told

Remove(id) ==
    /\ status[id] = "DELETED"
    /\ status' = [status EXCEPT ![id] = None]
    /\ UNCHANGED <<told, lost>>

FeedNext ==
    \E id \in Id :
        \/ Tell(id) \/ Remove(id)
        \/ \E s \in Statuses : Appear(id, s) \/ Settle(id, s) \/ TellLate(id, s) \/ Lose(id, s)

FeedSpec == FeedInit /\ [][FeedNext]_feedVars
=============================================================================
