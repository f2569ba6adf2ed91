------------------------------- MODULE Listing -------------------------------
(***************************************************************************)
(* GET /vms and GET /clusters (vm_handlers.go, cluster_handlers.go) and a    *)
(* client that reads a whole list page by page while resources come and go. *)
(* A page token is an offset into the list, sorted newest first, as it is   *)
(* when the page is asked for.                                              *)
(*                                                                          *)
(* Time stands still: an entry's Age only says where it stands in the       *)
(* order.  The creation time is taken before the Put, so that a new entry   *)
(* need not be the newest.  Ids are numbers, compared where the code        *)
(* compares strings.                                                        *)
(***************************************************************************)
EXTENDS StateStore

CONSTANTS MaxPageSize,  \* what the client asks for, or the default of 50
          Statuses      \* statuses of this instance

ASSUME ListingAssumption ==
    /\ Id \subseteq Nat /\ IsFiniteSet(Id)
    /\ None \notin {"vm", "cluster"} \cup Nat
    /\ MaxPageSize \in Nat \ {0}
    /\ Statuses \subseteq Status

VARIABLES walking,   \* the type whose list the client is reading, or None
          token,     \* page token of the next request, None after the last page
          got,       \* ids received
          code,      \* HTTP status of the last answer
          stay,      \* ghost: ids listed ever since the walk began
          removed,   \* ghost: an entry before the token has been removed
          added,     \* ghost: an entry has been put before the token
          repeated   \* ghost: an id has been received twice

walkVars == <<walking, token, got, code, stay, removed, added, repeated>>
listingVars == <<resources, nameIndex, walking, token, got, code, stay, removed, added, repeated>>

ListingTypeOK ==
    /\ StoreTypeOK
    /\ walking \in Types \cup {None}
    /\ token \in Nat \cup {None}
    /\ got \subseteq Id
    /\ code \in {200, 400, 500, 502, None}
    /\ stay \subseteq Id
    /\ removed \in BOOLEAN /\ added \in BOOLEAN /\ repeated \in BOOLEAN

ListingInit ==
    /\ StoreInit
    /\ walking = None
    /\ token = None
    /\ got = {}
    /\ code = None
    /\ stay = {}
    /\ removed = FALSE /\ added = FALSE /\ repeated = FALSE

----------------------------------------------------------------------------
(* The list *)

Listed(t) == {id \in Id : Tracked(id) /\ resources[id].Type = t}

\* The sort: newest first, by id among entries of the same moment.
Before(j, age, id) == resources[j].Age < age \/ (resources[j].Age = age /\ j < id)

\* Where an entry stands in the sorted list.
Rank(t, id) == Cardinality({j \in Listed(t) : Before(j, resources[id].Age, id)})

Length(t) == Cardinality(Listed(t))

\* Mutant: the slice is cut one entry too early.
PageShort(t, start) == {id \in Listed(t) : Rank(t, id) >= start /\ Rank(t, id) + 1 < start + MaxPageSize}

\* results[startIdx:], cut to maxPageSize.  (A start beyond the end is moved
\* to the end: no entries either way.)
Page(t, start) == {id \in Listed(t) : Rank(t, id) >= start /\ Rank(t, id) < start + MaxPageSize}

\* Mutant: the token counts pages from zero.
NextTokenOverlaps(t, start) == IF start + MaxPageSize < Length(t) THEN start + MaxPageSize - 1 ELSE None

NextToken(t, start) == IF start + MaxPageSize < Length(t) THEN start + MaxPageSize ELSE None

----------------------------------------------------------------------------
(* The client *)

\* A new walk: the first request carries no token.
Begin(t) ==
    /\ walking = None
    /\ walking' = t
    /\ token' = 0
    /\ got' = {}
    /\ stay' = Listed(t)
    /\ removed' = FALSE /\ added' = FALSE /\ repeated' = FALSE
    /\ UNCHANGED <<resources, nameIndex, code>>

\* 200 with the page: the list is taken from the store in one transaction.
\* (kweb only adds detail to the entries; a kweb answer other than
\* "unreachable" is ignored.)
ListOK(t) ==
    /\ walking = t /\ token # None
    /\ code' = 200
    /\ got' = got \cup Page(t, token)
    /\ repeated' = (repeated \/ got \cap Page(t, token) # {})
    /\ token' = NextToken(t, token)
    /\ UNCHANGED <<resources, nameIndex, walking, stay, removed, added>>

\* 500 (store) and 502 (kweb unreachable): the client asks again.
ListFails ==
    /\ walking # None /\ token # None
    /\ code' \in {500, 502}
    /\ UNCHANGED <<resources, nameIndex, walking, token, got, stay, removed, added, repeated>>

\* A token that is not a number, or a negative one.
ListBadToken ==
    /\ code' = 400
    /\ UNCHANGED <<resources, nameIndex, walking, token, got, stay, removed, added, repeated>>

\* The client has the last page.
End ==
    /\ walking # None /\ token = None
    /\ walking' = None
    /\ UNCHANGED <<resources, nameIndex, token, got, code, stay, removed, added, repeated>>

ListVMs == ListOK("vm")

ListClusters == ListOK("cluster")

----------------------------------------------------------------------------
(* The writers: create, delete, the monitor *)

\* The client is past the page that id is on.
Passed(id) == token # None /\ id \in Listed(walking) /\ Rank(walking, id) < token

\* An entry of that age is put before the token.  (One that it overwrites no
\* longer counts.)
PutBefore(id, t, age) ==
    /\ token # None /\ walking = t
    /\ Cardinality({j \in Listed(t) \ {id} : Before(j, age, id)}) < token

\* Put, of an id that may be tracked: two creates of one id can both have
\* found it free.  The first one's entry goes and another takes its place,
\* which is no longer the resource that the client may have received.
Create(id, n, t, age) ==
    /\ \E s \in Statuses : Put(id, [KcliName |-> n, Type |-> t, Status |-> s, Age |-> age])
    /\ removed' = (removed \/ Passed(id))
    /\ added' = (added \/ PutBefore(id, t, age))
    /\ stay' = stay \ {id}
    /\ got' = got \ {id}
    /\ UNCHANGED <<walking, token, code, repeated>>

Remove(id) ==
    /\ Delete(id)
    /\ removed' = (removed \/ Passed(id))
    /\ stay' = stay \ {id}
    /\ UNCHANGED <<walking, token, got, code, added, repeated>>

SetStatus(id, s) ==
    /\ UpdateStatus(id, s)
    /\ UNCHANGED walkVars

ListingNext ==
    \/ \E t \in Types : Begin(t)
    \/ ListVMs \/ ListClusters
    \/ ListFails \/ ListBadToken \/ End
    \/ \E id \in Id : \/ \E n \in Name, t \in Types, age \in 0..MaxAge : Create(id, n, t, age)
                      \/ Remove(id)
                      \/ \E s \in Statuses : SetStatus(id, s)

ListingSpec == ListingInit /\ [][ListingNext]_listingVars

----------------------------------------------------------------------------
\* A client that reads the list to its end receives every resource that was
\* there all the time, whatever was created, updated, or removed from the
\* pages still to come meanwhile.  Only the removal of a resource that the
\* client is already past can make it miss one.
WalkComplete ==
    walking # None /\ token = None /\ ~removed => stay \subseteq got

\* It receives no resource twice, unless one was created that sorts before
\* what it has already read.
NoRepeat == repeated => added
=============================================================================
