------------------------------ MODULE StateStore ------------------------------
(***************************************************************************)
(* The provider's persistent state (internal/store/store.go): a bbolt file  *)
(* with a bucket of resource entries keyed by DCM instance id and a bucket  *)
(* that maps a kcli name back to an id.  Every method is one bbolt          *)
(* transaction, hence one atomic step.  An entry's creation time is kept as *)
(* its age: the code only ever compares time.Since(CreatedAt) with a        *)
(* threshold, so ages saturate at MaxAge.                                   *)
(***************************************************************************)
EXTENDS Naturals, FiniteSets

CONSTANTS Id,      \* DCM instance ids
          Name,    \* kcli names (the "dcm-" prefix included)
          Types,   \* resource types of this instance
          None,    \* no entry, no id, no value
          MaxAge   \* ages at or beyond MaxAge are not told apart

Status == {"PROVISIONING", "RUNNING", "STOPPED", "PAUSED", "ERROR", "STOPPING",
           "CREATING", "ACTIVE", "DELETING"}

ResourceEntry == [KcliName : Name, Type : Types, Status : Status, Age : 0..MaxAge]

ASSUME StoreAssumption ==
    /\ Types \subseteq {"vm", "cluster"}
    /\ MaxAge \in Nat
    /\ None \notin Id \cup Name
    /\ None \notin ResourceEntry

VARIABLES resources,   \* bucket "resources":  id -> entry
          nameIndex    \* bucket "name_index": kcli name -> id

storeVars == <<resources, nameIndex>>

StoreTypeOK ==
    /\ resources \in [Id -> ResourceEntry \cup {None}]
    /\ nameIndex \in [Name -> Id \cup {None}]

StoreInit ==
    /\ resources = [id \in Id |-> None]
    /\ nameIndex = [n \in Name |-> None]

Tracked(id) == resources[id] # None

----------------------------------------------------------------------------
(* Read transactions *)

List(t) == [id \in Id |-> IF Tracked(id) /\ resources[id].Type = t
                          THEN resources[id] ELSE None]

FindByKcliName(n) == IF nameIndex[n] = None THEN None ELSE resources[nameIndex[n]]

(* Write transactions *)

\* Mutant: the index maps the name to the name.
PutNameTwice(id, entry) ==
    /\ resources' = [resources EXCEPT ![id] = entry]
    /\ nameIndex' = [nameIndex EXCEPT ![entry.KcliName] = entry.KcliName]

Put(id, entry) ==
    /\ resources' = [resources EXCEPT ![id] = entry]
    /\ nameIndex' = [nameIndex EXCEPT ![entry.KcliName] = id]

\* Mutant: the index of the deleted entry's name is left behind.
DeleteKeepsIndex(id) ==
    /\ resources' = [resources EXCEPT ![id] = None]
    /\ UNCHANGED nameIndex

Delete(id) ==
    /\ nameIndex' = IF Tracked(id)
                    THEN [nameIndex EXCEPT ![resources[id].KcliName] = None]
                    ELSE nameIndex
    /\ resources' = [resources EXCEPT ![id] = None]

\* ErrNotFound for an untracked id: every caller ignores it.
UpdateStatus(id, newStatus) ==
    /\ resources' = IF Tracked(id)
                    THEN [resources EXCEPT ![id].Status = newStatus]
                    ELSE resources
    /\ UNCHANGED nameIndex

----------------------------------------------------------------------------
(* The store on its own, its methods called in any order and with any      *)
(* arguments.  Nothing in it compares names, and Put overwrites what is     *)
(* there: the create handlers look the id up first, but two creates of one  *)
(* id may both get past that.                                               *)

NameInUse(n) == \E id \in Id : Tracked(id) /\ resources[id].KcliName = n

NamesUnique ==
    \A i, j \in Id : /\ Tracked(i) /\ Tracked(j)
                     /\ resources[i].KcliName = resources[j].KcliName
                     => i = j

StoreNext ==
    \E id \in Id : \/ \E e \in ResourceEntry : Put(id, e)
                   \/ Delete(id)
                   \/ \E s \in Status : UpdateStatus(id, s)

StoreSpec == StoreInit /\ [][StoreNext]_storeVars

----------------------------------------------------------------------------
(* The reverse lookup *)

\* A name in the index leads to an entry, and to one of that name.
LookupSound(n) ==
    nameIndex[n] # None => /\ FindByKcliName(n) # None
                           /\ FindByKcliName(n).KcliName = n

\* An entry named n is given another name without having been deleted.  The
\* code has one way to do this: a second create of the same id that got past
\* the lookup before the first one's Put.
Renames(n) ==
    \E id \in Id : /\ Tracked(id) /\ resources[id].KcliName = n
                   /\ Tracked(id)' /\ resources'[id].KcliName # n

\* The reverse lookup never comes to answer with an entry of another name, or
\* to follow the index to an id that is gone, names that are shared by several
\* entries included: Put and Delete keep the two buckets in step.  Only an
\* entry that is put again under another name leaves its old name behind.
IndexSound == [][\A n \in Name : LookupSound(n) => LookupSound(n)' \/ Renames(n)]_storeVars

\* The two buckets are inverses of each other: the reverse lookup finds every
\* tracked entry, and no two entries share a name.
IndexExact ==
    \A n \in Name, id \in Id :
        nameIndex[n] = id <=> Tracked(id) /\ resources[id].KcliName = n

\* They stop being so only by a Put that makes two entries share a kcli name
\* (Delete of one then hides the other) or that renames an entry.
IndexStaysExact ==
    [][IndexExact /\ NamesUnique' /\ (\A n \in Name : ~Renames(n)) => IndexExact']_storeVars
=============================================================================
