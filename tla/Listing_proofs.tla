---------------------------- MODULE Listing_proofs ----------------------------
(* The store keeps its two buckets in step; reading a list page by page is   *)
(* complete and free of repetitions, for any number of resources, any page   *)
(* size and any interleaving of writers.                                     *)
EXTENDS Listing, FiniteSetTheorems, TLAPS

\* A fresh Put stores an entry under an id and both buckets keep their types.
LEMMA PutType ==
    ASSUME StoreTypeOK, NEW id \in Id, NEW e \in ResourceEntry, Put(id, e)
    PROVE  StoreTypeOK'
  BY DEF StoreTypeOK, Put, ResourceEntry

\* So does Delete ...
LEMMA DeleteType ==
    ASSUME StoreTypeOK, NEW id \in Id, Delete(id)
    PROVE  StoreTypeOK'
  BY DEF StoreTypeOK, Delete, Tracked, ResourceEntry

\* ... and UpdateStatus, which changes nothing but the status of an entry.
LEMMA UpdateStatusType ==
    ASSUME StoreTypeOK, NEW id \in Id, NEW s \in Status, UpdateStatus(id, s)
    PROVE  /\ StoreTypeOK'
           /\ \A i \in Id : /\ Tracked(i)' <=> Tracked(i)
                            /\ Tracked(i) => /\ resources'[i].KcliName = resources[i].KcliName
                                             /\ resources'[i].Type = resources[i].Type
                                             /\ i # id => resources'[i] = resources[i]
                            /\ i = id /\ Tracked(i) => resources'[i].Status = s
  BY StoreAssumption DEF StoreTypeOK, UpdateStatus, Tracked, ResourceEntry

----------------------------------------------------------------------------
\* Every store call keeps the types of both buckets.
LEMMA StoreTypeStep == StoreTypeOK /\ [StoreNext]_storeVars => StoreTypeOK'
<1> SUFFICES ASSUME StoreTypeOK, [StoreNext]_storeVars
             PROVE  StoreTypeOK'
  OBVIOUS
<1>1. CASE UNCHANGED storeVars
  BY <1>1 DEF storeVars, StoreTypeOK
<1> QED BY <1>1, PutType, DeleteType, UpdateStatusType DEF StoreNext

\* The store starts empty.
LEMMA StoreTypes == StoreSpec => []StoreTypeOK
<1>1. StoreInit => StoreTypeOK
  BY DEF StoreInit, StoreTypeOK
<1> QED BY <1>1, StoreTypeStep, PTL DEF StoreSpec

\* Put, Delete and UpdateStatus keep the two buckets in step, but for a Put
\* that renames an entry.
LEMMA IndexSoundStep ==
    ASSUME StoreTypeOK, [StoreNext]_storeVars, NEW n \in Name, LookupSound(n), ~Renames(n)
    PROVE  LookupSound(n)'
<1> USE StoreAssumption
<1>1. ASSUME NEW id \in Id, NEW e \in ResourceEntry, Put(id, e)
      PROVE  LookupSound(n)'
  <2>1. /\ resources'[id] = e /\ e # None
        /\ \A i \in Id : i # id => resources'[i] = resources[i]
        /\ nameIndex'[n] = IF n = e.KcliName THEN id ELSE nameIndex[n]
        /\ nameIndex[n] \in Id \cup {None}
    BY <1>1 DEF Put, StoreTypeOK, ResourceEntry
  <2>2. CASE n = e.KcliName
    BY <2>1, <2>2 DEF LookupSound, FindByKcliName
  <2>3. CASE n # e.KcliName
    <3>1. nameIndex[n] # id
      BY <2>1, <2>3 DEF LookupSound, FindByKcliName, Renames, Tracked
    <3> QED BY <2>1, <2>3, <3>1 DEF LookupSound, FindByKcliName
  <2> QED BY <2>2, <2>3
<1>2. ASSUME NEW id \in Id, Delete(id)
      PROVE  LookupSound(n)'
  BY <1>2 DEF Delete, Tracked, LookupSound, FindByKcliName, StoreTypeOK, ResourceEntry
<1>3. ASSUME NEW id \in Id, NEW s \in Status, UpdateStatus(id, s)
      PROVE  LookupSound(n)'
  BY <1>3, UpdateStatusType DEF UpdateStatus, Tracked, LookupSound, FindByKcliName, StoreTypeOK
<1>4. CASE UNCHANGED storeVars
  BY <1>4 DEF storeVars, LookupSound, FindByKcliName
<1> QED BY <1>1, <1>2, <1>3, <1>4 DEF StoreNext

\* Whatever the order and the arguments of Put, Delete and UpdateStatus,
\* FindByKcliName comes to follow a dangling id, or to return an entry of
\* another name, only through a Put that gives a tracked entry another name.
THEOREM IndexSoundTheorem == StoreSpec => IndexSound
<1>1. StoreTypeOK /\ [StoreNext]_storeVars
      => [\A n \in Name : LookupSound(n) => LookupSound(n)' \/ Renames(n)]_storeVars
  BY IndexSoundStep
<1> QED BY <1>1, StoreTypes, PTL DEF StoreSpec, IndexSound

----------------------------------------------------------------------------
\* One store call that neither renames an entry nor makes two share a name.
LEMMA IndexExactStep ==
    ASSUME StoreTypeOK, IndexExact, NamesUnique', \A n \in Name : ~Renames(n),
           [StoreNext]_storeVars
    PROVE  IndexExact'
<1> USE StoreAssumption
<1>1. ASSUME NEW id \in Id, NEW e \in ResourceEntry, Put(id, e)
      PROVE  IndexExact'
  <2>1. /\ resources'[id] = e /\ e # None /\ e.KcliName \in Name
        /\ \A i \in Id : i # id => resources'[i] = resources[i]
        /\ \A n \in Name : nameIndex'[n] = IF n = e.KcliName THEN id ELSE nameIndex[n]
    BY <1>1 DEF Put, StoreTypeOK, ResourceEntry
  <2>2. \A i \in Id : Tracked(i) /\ resources[i].KcliName = e.KcliName => i = id
    BY <2>1 DEF NamesUnique, Tracked
  <2>3. Tracked(id) => resources[id].KcliName = e.KcliName
    <3>1. Tracked(id) => resources[id].KcliName \in Name
      BY DEF Tracked, StoreTypeOK, ResourceEntry
    <3> QED BY <2>1, <3>1 DEF Renames, Tracked
  <2>4. ASSUME NEW n \in Name, NEW i \in Id
        PROVE  nameIndex'[n] = i <=> resources'[i] # None /\ resources'[i].KcliName = n
    <3>1. nameIndex[n] = i <=> Tracked(i) /\ resources[i].KcliName = n
      BY DEF IndexExact
    <3> QED BY <2>1, <2>2, <2>3, <3>1 DEF Tracked
  <2> QED BY <2>4 DEF IndexExact, Tracked
<1>2. ASSUME NEW id \in Id, Delete(id)
      PROVE  IndexExact'
  BY <1>2 DEF Delete, Tracked, IndexExact, StoreTypeOK, ResourceEntry
<1>3. ASSUME NEW id \in Id, NEW s \in Status, UpdateStatus(id, s)
      PROVE  IndexExact'
  BY <1>3, UpdateStatusType DEF UpdateStatus, Tracked, IndexExact
<1>4. CASE UNCHANGED storeVars
  BY <1>4 DEF storeVars, IndexExact, Tracked
<1> QED BY <1>1, <1>2, <1>3, <1>4 DEF StoreNext

\* No store call loses an entry from name_index, whatever its arguments, but a
\* Put that makes two entries share a kcli name or renames one.
THEOREM IndexStaysExactTheorem == StoreSpec => IndexStaysExact
<1>1. StoreTypeOK /\ [StoreNext]_storeVars
      => [IndexExact /\ NamesUnique' /\ (\A n \in Name : ~Renames(n)) => IndexExact']_storeVars
  BY IndexExactStep
<1> QED BY <1>1, StoreTypes, PTL DEF StoreSpec, IndexStaysExact

\* Hence, as long as kcli names never collide and no entry is renamed,
\* name_index is the exact inverse of the resources bucket: FindByKcliName
\* finds every tracked entry.
THEOREM IndexExactTheorem ==
    StoreSpec /\ []NamesUnique /\ [][\A n \in Name : ~Renames(n)]_storeVars => []IndexExact
<1>1. StoreInit => IndexExact
  BY StoreAssumption DEF StoreInit, IndexExact, Tracked
<1>2. StoreTypeOK /\ IndexExact /\ NamesUnique' /\ [StoreNext]_storeVars
      /\ [\A n \in Name : ~Renames(n)]_storeVars
      => IndexExact'
  <2> SUFFICES ASSUME StoreTypeOK, IndexExact, NamesUnique', [StoreNext]_storeVars,
                      [\A n \in Name : ~Renames(n)]_storeVars
               PROVE  IndexExact'
    OBVIOUS
  <2>1. CASE \A n \in Name : ~Renames(n)
    BY <2>1, IndexExactStep
  <2>2. CASE UNCHANGED storeVars
    BY <2>2 DEF storeVars, IndexExact, Tracked
  <2> QED BY <2>1, <2>2
<1> QED BY <1>1, <1>2, StoreTypes, PTL DEF StoreSpec

----------------------------------------------------------------------------
(* The walk *)

\* The entries that sort before one of that age and id.
Earlier(t, age, id) == {j \in Listed(t) : Before(j, age, id)}

\* What was there from the start is still there.
StayListed == walking # None => stay \subseteq Listed(walking)

\* Whatever stayed and has not been received is on a page still to come.
Ahead ==
    walking # None /\ token # None /\ ~removed =>
        \A id \in stay : id \in got \/ Rank(walking, id) >= token

\* Whatever has been received is on a page the client has passed.
Behind ==
    walking # None /\ token # None /\ ~added =>
        \A id \in got \cap Listed(walking) : Rank(walking, id) < token

WalkInv == ListingTypeOK /\ StayListed /\ Ahead /\ Behind /\ WalkComplete /\ NoRepeat

----------------------------------------------------------------------------
(* The order *)

\* Listed entries have an age, and what sorts before one is a finite set.
LEMMA RankType ==
    ASSUME StoreTypeOK, NEW t \in Types, NEW age \in Nat, NEW id \in Id
    PROVE  /\ IsFiniteSet(Listed(t)) /\ IsFiniteSet(Earlier(t, age, id))
           /\ Cardinality(Earlier(t, age, id)) \in Nat
           /\ \A j \in Listed(t) : j \in Nat /\ resources[j] \in ResourceEntry
                                   /\ resources[j].Age \in Nat
<1>1. Listed(t) \subseteq Id /\ Earlier(t, age, id) \subseteq Id
  BY DEF Listed, Earlier
<1>2. IsFiniteSet(Listed(t)) /\ IsFiniteSet(Earlier(t, age, id))
  BY <1>1, ListingAssumption, FS_Subset
<1>3. Cardinality(Earlier(t, age, id)) \in Nat
  BY <1>2, FS_CardinalityType
<1>4. ASSUME NEW j \in Listed(t)
      PROVE  j \in Nat /\ resources[j] \in ResourceEntry /\ resources[j].Age \in Nat
  <2>1. j \in Id /\ resources[j] # None
    BY DEF Listed, Tracked
  <2>2. j \in Nat /\ resources[j] \in ResourceEntry
    BY <2>1, ListingAssumption DEF StoreTypeOK
  <2>3. resources[j].Age \in 0..MaxAge
    BY <2>2 DEF ResourceEntry
  <2> QED BY <2>2, <2>3, StoreAssumption
<1> QED BY <1>2, <1>3, <1>4

\* A listed entry does not sort before itself: its rank is below the length.
LEMMA RankBelowLength ==
    ASSUME StoreTypeOK, NEW t \in Types, NEW id \in Listed(t)
    PROVE  Rank(t, id) < Length(t) /\ Rank(t, id) \in Nat /\ Length(t) \in Nat
<1> DEFINE E == Earlier(t, resources[id].Age, id)
<1>1. id \in Id /\ resources[id].Age \in Nat /\ id \in Nat
  <2>1. id \in Id
    BY DEF Listed
  <2> QED BY <2>1, RankType, StoreAssumption
<1>2. IsFiniteSet(Listed(t)) /\ Rank(t, id) = Cardinality(E) /\ Rank(t, id) \in Nat
  BY <1>1, RankType DEF Rank, Earlier
<1>3. E \subseteq Listed(t) /\ id \notin E
  BY <1>1 DEF Earlier, Before
<1>4. Cardinality(E) <= Cardinality(Listed(t)) /\ Cardinality(E) # Cardinality(Listed(t))
  BY <1>2, <1>3, FS_Subset
<1>5. Cardinality(Listed(t)) \in Nat
  BY <1>2, FS_CardinalityType
<1> QED BY <1>2, <1>4, <1>5 DEF Length

\* More entries before, a higher rank.
LEMMA CardMono ==
    ASSUME NEW A \in SUBSET Id, NEW B \in SUBSET A
    PROVE  Cardinality(A) \in Nat /\ Cardinality(B) \in Nat /\ Cardinality(B) <= Cardinality(A)
<1>1. IsFiniteSet(A) /\ IsFiniteSet(B)
  BY ListingAssumption, FS_Subset
<1> QED BY <1>1, FS_Subset, FS_CardinalityType

----------------------------------------------------------------------------
(* The client *)

\* A new walk starts before everything.
LEMMA BeginStep ==
    ASSUME WalkInv, NEW t \in Types, Begin(t)
    PROVE  WalkInv'
<1>0. UNCHANGED <<resources, nameIndex>> /\ walking' = t /\ token' = 0 /\ got' = {}
      /\ stay' = Listed(t) /\ removed' = FALSE /\ added' = FALSE /\ repeated' = FALSE
      /\ code' = code
  BY DEF Begin
<1>1. Listed(t)' = Listed(t) /\ Listed(t) \subseteq Id
  BY <1>0 DEF Listed, Tracked
<1>2. ListingTypeOK'
  BY <1>0, <1>1 DEF WalkInv, ListingTypeOK, StoreTypeOK
<1>3. \A id \in Listed(t) : Rank(t, id)' >= 0
  <2> SUFFICES ASSUME NEW id \in Listed(t) PROVE Rank(t, id)' >= 0
    OBVIOUS
  <2>1. Rank(t, id) \in Nat
    BY RankBelowLength DEF WalkInv, ListingTypeOK
  <2>2. Rank(t, id)' = Rank(t, id)
    BY <1>0 DEF Rank, Listed, Before, Tracked
  <2> QED BY <2>1, <2>2
<1>4. StayListed' /\ Ahead' /\ Behind'
  BY <1>0, <1>1, <1>3 DEF StayListed, Ahead, Behind
<1>5. WalkComplete' /\ NoRepeat'
  BY <1>0, ListingAssumption DEF WalkComplete, NoRepeat
<1> QED BY <1>2, <1>4, <1>5 DEF WalkInv

\* A page moves the client on by what it has received.
LEMMA ListOKStep ==
    ASSUME WalkInv, NEW t \in Types, ListOK(t)
    PROVE  WalkInv'
<1>0. UNCHANGED <<resources, nameIndex, walking, stay, removed, added>>
      /\ walking = t /\ token # None /\ code' = 200 /\ token' = NextToken(t, token)
      /\ got' = got \cup Page(t, token)
      /\ repeated' = (repeated \/ got \cap Page(t, token) # {})
  BY DEF ListOK
<1>1. walking # None /\ token \in Nat /\ MaxPageSize \in Nat \ {0} /\ stay \subseteq Listed(t)
  BY <1>0, StoreAssumption, ListingAssumption DEF WalkInv, ListingTypeOK, StayListed
<1>2. \A id \in Listed(t) : /\ Rank(t, id) \in Nat /\ Length(t) \in Nat
                            /\ Rank(t, id) < Length(t) /\ id \in Id
  BY RankBelowLength DEF WalkInv, ListingTypeOK, Listed
<1>3. Listed(t)' = Listed(t) /\ \A id \in Id : Rank(t, id)' = Rank(t, id)
  BY <1>0 DEF Rank, Listed, Before, Tracked
<1>4. Page(t, token) \subseteq Listed(t)
  BY DEF Page
<1>5. Length(t) \in Nat
  <2>1. Listed(t) \in SUBSET Id
    BY DEF Listed
  <2> QED BY <2>1, CardMono DEF Length
<1>6. token' \in Nat \cup {None}
  BY <1>0, <1>1 DEF NextToken
<1>7. ListingTypeOK'
  <2>1. got' \subseteq Id /\ repeated' \in BOOLEAN
    BY <1>0, <1>2, <1>4 DEF WalkInv, ListingTypeOK
  <2> QED BY <1>0, <1>6, <2>1 DEF WalkInv, ListingTypeOK, StoreTypeOK
<1>8. StayListed'
  BY <1>0, <1>1, <1>3 DEF StayListed
<1>9. Ahead'
  <2> SUFFICES ASSUME token' # None, ~removed, NEW id \in stay, id \notin got'
               PROVE  Rank(t, id)' >= token'
    BY <1>0 DEF Ahead
  <2>1. token' = token + MaxPageSize
    BY <1>0 DEF NextToken
  <2>2. id \in Listed(t) /\ id \notin got /\ id \notin Page(t, token)
    BY <1>0, <1>1
  <2>3. Rank(t, id) >= token
    BY <1>0, <1>1, <2>2 DEF WalkInv, Ahead
  <2> QED BY <1>1, <1>2, <1>3, <2>1, <2>2, <2>3 DEF Page
<1>10. Behind'
  <2> SUFFICES ASSUME token' # None, ~added, NEW id \in got', id \in Listed(t)
               PROVE  Rank(t, id)' < token'
    BY <1>0, <1>3 DEF Behind
  <2>1. token' = token + MaxPageSize
    BY <1>0 DEF NextToken
  <2>2. CASE id \in got
    BY <1>0, <1>1, <1>2, <1>3, <2>1, <2>2 DEF WalkInv, Behind
  <2>3. CASE id \in Page(t, token)
    BY <1>1, <1>2, <1>3, <2>1, <2>3 DEF Page
  <2> QED BY <1>0, <2>2, <2>3
<1>11. WalkComplete'
  <2> SUFFICES ASSUME token' = None, ~removed, NEW id \in stay, id \notin got
               PROVE  id \in Page(t, token)
    BY <1>0 DEF WalkComplete
  <2>1. Length(t) <= token + MaxPageSize
    BY <1>0, <1>1, <1>5, ListingAssumption DEF NextToken
  <2>2. id \in Listed(t) /\ Rank(t, id) >= token
    BY <1>0, <1>1 DEF WalkInv, Ahead
  <2> QED BY <1>1, <1>2, <1>5, <2>1, <2>2 DEF Page
<1>12. NoRepeat'
  <2> SUFFICES ASSUME ~added, NEW id \in got, id \in Page(t, token)
               PROVE  FALSE
    BY <1>0 DEF WalkInv, NoRepeat
  <2>1. id \in Listed(t) /\ Rank(t, id) >= token
    BY DEF Page
  <2>2. Rank(t, id) < token
    BY <1>0, <1>1, <2>1 DEF WalkInv, Behind
  <2> QED BY <1>1, <1>2, <2>1, <2>2
<1> QED BY <1>7, <1>8, <1>9, <1>10, <1>11, <1>12 DEF WalkInv

\* Failed requests, a bad token and the end of a walk change none of it.
LEMMA ClientFrame ==
    ASSUME WalkInv, ListFails \/ ListBadToken \/ End \/ UNCHANGED listingVars
    PROVE  WalkInv'
<1>0. UNCHANGED <<resources, nameIndex, token, got, stay, removed, added, repeated>>
  BY DEF ListFails, ListBadToken, End, listingVars
<1>1. walking' = walking \/ walking' = None
  BY DEF ListFails, ListBadToken, End, listingVars
<1>2. ListingTypeOK'
  BY <1>0, <1>1 DEF ListFails, ListBadToken, End, listingVars, WalkInv, ListingTypeOK, StoreTypeOK
<1>3. \A t : Listed(t)' = Listed(t) /\ \A id : Rank(t, id)' = Rank(t, id)
  BY <1>0 DEF Rank, Listed, Before, Tracked
<1>4. CASE walking' = walking
  BY <1>0, <1>2, <1>3, <1>4 DEF WalkInv, StayListed, Ahead, Behind, WalkComplete, NoRepeat
<1>5. CASE walking' = None
  BY <1>0, <1>2, <1>5 DEF WalkInv, StayListed, Ahead, Behind, WalkComplete, NoRepeat
<1> QED BY <1>1, <1>4, <1>5

----------------------------------------------------------------------------
(* The writers *)

\* A rank is the number of entries before.
LEMMA RankCount ==
    ASSUME NEW t, NEW id
    PROVE  /\ Rank(t, id) = Cardinality(Earlier(t, resources[id].Age, id))
           /\ Rank(t, id)' = Cardinality(Earlier(t, resources[id].Age, id)')
  BY DEF Rank, Earlier

\* The other entries stay as they are when one is put or removed.
Others(id) ==
    /\ \A j \in Id : j # id => resources'[j] = resources[j]
    /\ UNCHANGED <<walking, token, code, repeated>>
    /\ stay' = stay \ {id}
    /\ removed' = (removed \/ Passed(id))

\* The lists do, too.
LEMMA OthersListed ==
    ASSUME NEW id, Others(id), NEW t
    PROVE  /\ Listed(t) \subseteq Id /\ Listed(t)' \subseteq Id
           /\ Listed(t) \ {id} = Listed(t)' \ {id}
           /\ \A j \in Listed(t) \ {id} : resources'[j] = resources[j]
           /\ \A j \in Listed(t)' \ {id} : resources'[j] = resources[j]
  BY DEF Others, Listed, Tracked

\* An entry that goes moves others forward; it is seen to by removed when it
\* is one that the client has read.
LEMMA AheadStep ==
    ASSUME WalkInv, NEW id \in Id, Others(id), StoreTypeOK', got \ {id} \subseteq got'
    PROVE  StayListed' /\ Ahead'
<1>0. UNCHANGED <<walking, token>> /\ stay' = stay \ {id} /\ removed' = (removed \/ Passed(id))
  BY DEF Others
<1>1. StoreTypeOK
  BY DEF WalkInv, ListingTypeOK
<1>2. \A t \in Types :
          /\ Listed(t) \subseteq Id /\ Listed(t)' \subseteq Id
          /\ Listed(t) \ {id} = Listed(t)' \ {id}
          /\ \A j \in Listed(t) \ {id} : resources'[j] = resources[j]
  BY OthersListed
<1>3. StayListed'
  BY <1>0, <1>2 DEF WalkInv, StayListed, ListingTypeOK
<1>4. Ahead'
  <2> SUFFICES ASSUME NEW t \in Types, walking = t, token # None, ~removed',
                      NEW j \in stay', j \notin got'
               PROVE  Rank(t, j)' >= token
    BY <1>0 DEF Ahead, WalkInv, ListingTypeOK
  <2>1. /\ walking # None /\ token \in Nat /\ j \in Listed(t) /\ j # id
        /\ ~removed /\ ~Passed(id) /\ j \notin got
    BY <1>0, StoreAssumption, ListingAssumption DEF WalkInv, ListingTypeOK, StayListed
  <2>2. j \in Id /\ resources'[j] = resources[j] /\ j \in Listed(t)'
    BY <1>2, <2>1
  <2>3. Rank(t, j) >= token
    BY <1>0, <2>1 DEF WalkInv, Ahead
  <2>4. \A k \in Listed(t) : k \in Nat /\ resources[k].Age \in Nat /\ k \in Id
    <3>1. \A k \in Listed(t) : k \in Nat /\ resources[k].Age \in Nat
      BY <1>1, <2>1, RankType
    <3> QED BY <1>2, <3>1
  <2>5. Earlier(t, resources[j].Age, j)' \subseteq Id
    BY <1>2 DEF Earlier
  <2>6. CASE id \in Listed(t) /\ Before(id, resources[j].Age, j)
    <3>1. Earlier(t, resources[id].Age, id) \subseteq Earlier(t, resources[j].Age, j)'
      <4> SUFFICES ASSUME NEW k \in Listed(t), Before(k, resources[id].Age, id)
                   PROVE  k \in Listed(t)' /\ Before(k, resources[j].Age, j)'
        BY DEF Earlier
      <4>1. k # id
        BY <2>4 DEF Before
      <4>2. k \in Listed(t)' /\ resources'[k] = resources[k]
        BY <1>2, <4>1
      <4>3. Before(k, resources[j].Age, j)
        BY <2>1, <2>4, <2>6 DEF Before
      <4> QED BY <2>2, <4>2, <4>3 DEF Before
    <3>2. Rank(t, id) <= Rank(t, j)' /\ Rank(t, id) \in Nat /\ Rank(t, j)' \in Nat
      BY <2>5, <3>1, CardMono, RankCount
    <3>3. Rank(t, id) >= token
      BY <2>1, <2>6, <3>2 DEF Passed
    <3> QED BY <2>1, <3>2, <3>3
  <2>7. CASE ~(id \in Listed(t) /\ Before(id, resources[j].Age, j))
    <3>1. Earlier(t, resources[j].Age, j) \subseteq Earlier(t, resources[j].Age, j)'
      <4> SUFFICES ASSUME NEW k \in Listed(t), Before(k, resources[j].Age, j)
                   PROVE  k \in Listed(t)' /\ Before(k, resources[j].Age, j)'
        BY DEF Earlier
      <4>1. k \in Listed(t)' /\ resources'[k] = resources[k]
        BY <1>2, <2>7
      <4> QED BY <2>2, <4>1 DEF Before
    <3>2. Rank(t, j) <= Rank(t, j)' /\ Rank(t, j) \in Nat /\ Rank(t, j)' \in Nat
      BY <2>5, <3>1, CardMono, RankCount
    <3> QED BY <2>1, <2>3, <3>2
  <2> QED BY <2>6, <2>7
<1> QED BY <1>3, <1>4

\* An entry that is put moves others back; it is seen to by added when it goes
\* before what the client has read.  In the place of a tracked one it is a
\* removal as well.
LEMMA CreateStep ==
    ASSUME WalkInv, NEW id \in Id, NEW n \in Name, NEW u \in Types, NEW age \in 0..MaxAge,
           Create(id, n, u, age)
    PROVE  WalkInv'
<1>0. /\ UNCHANGED <<walking, token, code, repeated>> /\ got' = got \ {id} /\ stay' = stay \ {id}
      /\ removed' = (removed \/ Passed(id)) /\ added' = (added \/ PutBefore(id, u, age))
  BY DEF Create
<1>1. PICK e \in ResourceEntry : e.Type = u /\ e.Age = age /\ Put(id, e)
  <2>1. PICK s \in Statuses : Put(id, [KcliName |-> n, Type |-> u, Status |-> s, Age |-> age])
    BY DEF Create
  <2>2. [KcliName |-> n, Type |-> u, Status |-> s, Age |-> age] \in ResourceEntry
    BY ListingAssumption DEF ResourceEntry
  <2> QED BY <2>1, <2>2
<1>2. StoreTypeOK /\ StoreTypeOK'
  BY <1>1, PutType DEF WalkInv, ListingTypeOK
<1>3. /\ resources'[id] = e /\ e # None
      /\ \A j \in Id : j # id => resources'[j] = resources[j]
  BY <1>1, <1>2, StoreAssumption DEF Put, StoreTypeOK
<1>4. ListingTypeOK'
  <2>1. removed' \in BOOLEAN /\ added' \in BOOLEAN
    BY <1>0 DEF WalkInv, ListingTypeOK, Passed, PutBefore
  <2> QED BY <1>0, <1>2, <2>1 DEF WalkInv, ListingTypeOK
<1>5. Others(id)
  BY <1>0, <1>3 DEF Others
<1>6. StayListed' /\ Ahead'
  BY <1>0, <1>2, <1>5, AheadStep
<1>7. Behind'
  <2> SUFFICES ASSUME NEW t \in Types, walking = t, token # None, ~added',
                      NEW j \in got', j \in Listed(t)'
               PROVE  Rank(t, j)' < token
    BY <1>0 DEF Behind, WalkInv, ListingTypeOK
  <2>1. walking # None /\ token \in Nat /\ j # id /\ j \in got /\ ~added /\ ~PutBefore(id, u, age)
    BY <1>0, StoreAssumption, ListingAssumption DEF WalkInv, ListingTypeOK
  <2>2. j \in Listed(t) /\ j \in Id /\ resources'[j] = resources[j]
    BY <1>5, <2>1, OthersListed
  <2>3. Rank(t, j) < token
    BY <2>1, <2>2 DEF WalkInv, Behind
  <2>4. /\ id \in Nat /\ age \in Nat /\ resources'[id].Age = age
        /\ \A k \in Listed(t) : k \in Nat /\ resources[k].Age \in Nat /\ k \in Id
    <3>1. id \in Nat /\ age \in Nat
      BY ListingAssumption, StoreAssumption
    <3>2. \A k \in Listed(t) : k \in Nat /\ resources[k].Age \in Nat
      BY <1>2, <3>1, RankType
    <3> QED BY <1>1, <1>3, <3>1, <3>2 DEF Listed
  <2>5. Earlier(t, resources[j].Age, j) \subseteq Id
    BY <2>4 DEF Earlier
  <2>6. CASE t = u /\ Before(id, resources[j].Age, j)'
    <3> DEFINE P == {k \in Listed(u) \ {id} : Before(k, age, id)}
    <3>1. P \subseteq Earlier(t, resources[j].Age, j)
      <4> SUFFICES ASSUME NEW k \in Listed(t) \ {id}, Before(k, age, id)
                   PROVE  Before(k, resources[j].Age, j)
        BY <2>6 DEF Earlier
      <4> QED BY <2>2, <2>4, <2>6 DEF Before
    <3>2. Cardinality(P) <= Rank(t, j) /\ Cardinality(P) \in Nat /\ Rank(t, j) \in Nat
      BY <2>5, <3>1, CardMono, RankCount
    <3>3. Cardinality(P) < token
      BY <2>1, <2>3, <3>2
    <3> QED BY <2>1, <2>6, <3>3 DEF PutBefore
  <2>7. CASE ~(t = u /\ Before(id, resources[j].Age, j)')
    <3>1. Earlier(t, resources[j].Age, j)' \subseteq Earlier(t, resources[j].Age, j)
      <4> SUFFICES ASSUME NEW k \in Listed(t)', Before(k, resources[j].Age, j)'
                   PROVE  k \in Listed(t) /\ Before(k, resources[j].Age, j)
        BY DEF Earlier
      <4>1. k # id
        BY <1>1, <1>3, <2>7 DEF Listed
      <4>2. k \in Listed(t) /\ resources'[k] = resources[k]
        BY <1>5, <4>1, OthersListed
      <4> QED BY <2>2, <4>2 DEF Before
    <3>2. Rank(t, j)' <= Rank(t, j) /\ Rank(t, j)' \in Nat /\ Rank(t, j) \in Nat
      BY <2>5, <3>1, CardMono, RankCount
    <3> QED BY <2>1, <2>3, <3>2
  <2> QED BY <2>6, <2>7
<1>8. WalkComplete' /\ NoRepeat'
  BY <1>0 DEF WalkInv, WalkComplete, NoRepeat
<1> QED BY <1>4, <1>6, <1>7, <1>8 DEF WalkInv

\* A removal changes nothing behind the client but to bring it closer.
LEMMA RemoveStep ==
    ASSUME WalkInv, NEW id \in Id, Remove(id)
    PROVE  WalkInv'
<1>0. UNCHANGED <<walking, token, got, code, added, repeated>> /\ stay' = stay \ {id}
      /\ removed' = (removed \/ Passed(id)) /\ Delete(id)
  BY DEF Remove
<1>1. StoreTypeOK /\ StoreTypeOK'
  BY <1>0, DeleteType DEF WalkInv, ListingTypeOK
<1>2. resources'[id] = None /\ \A j \in Id : j # id => resources'[j] = resources[j]
  BY <1>0, <1>1 DEF Delete, StoreTypeOK
<1>3. ListingTypeOK'
  <2>1. removed' \in BOOLEAN
    BY <1>0 DEF WalkInv, ListingTypeOK, Passed
  <2> QED BY <1>0, <1>1, <2>1 DEF WalkInv, ListingTypeOK
<1>4. Others(id)
  BY <1>0, <1>2 DEF Others
<1>5. StayListed' /\ Ahead'
  BY <1>0, <1>1, <1>4, AheadStep
<1>6. Behind'
  <2> SUFFICES ASSUME NEW t \in Types, walking = t, token # None, ~added,
                      NEW j \in got, j \in Listed(t)'
               PROVE  Rank(t, j)' < token
    BY <1>0 DEF Behind, WalkInv, ListingTypeOK
  <2>1. walking # None /\ token \in Nat /\ id \notin Listed(t)' /\ j # id
    BY <1>2, StoreAssumption, ListingAssumption DEF WalkInv, ListingTypeOK, Listed, Tracked
  <2>2. /\ j \in Listed(t) /\ resources'[j] = resources[j] /\ Listed(t) \subseteq Id
        /\ \A k \in Listed(t)' : k \in Listed(t) /\ resources'[k] = resources[k]
    BY <1>4, <2>1, OthersListed
  <2>3. Rank(t, j) < token
    BY <2>1, <2>2 DEF WalkInv, Behind
  <2>4. Earlier(t, resources[j].Age, j)' \subseteq Earlier(t, resources[j].Age, j)
    BY <2>2 DEF Earlier, Before
  <2>5. Earlier(t, resources[j].Age, j) \subseteq Id
    BY <2>2 DEF Earlier
  <2>6. Rank(t, j)' <= Rank(t, j) /\ Rank(t, j)' \in Nat /\ Rank(t, j) \in Nat
    BY <2>4, <2>5, CardMono, RankCount
  <2> QED BY <2>1, <2>3, <2>6
<1>7. WalkComplete' /\ NoRepeat'
  BY <1>0 DEF WalkInv, WalkComplete, NoRepeat
<1> QED BY <1>3, <1>5, <1>6, <1>7 DEF WalkInv

\* A new status leaves the order as it is.
LEMMA SetStatusStep ==
    ASSUME WalkInv, NEW id \in Id, NEW s \in Statuses, SetStatus(id, s)
    PROVE  WalkInv'
<1>0. UNCHANGED <<walking, token, got, code, stay, removed, added, repeated>>
      /\ UpdateStatus(id, s) /\ s \in Status
  BY ListingAssumption DEF SetStatus, walkVars
<1>1. StoreTypeOK /\ StoreTypeOK'
  BY <1>0, UpdateStatusType DEF WalkInv, ListingTypeOK
<1>2. \A j \in Id : /\ Tracked(j)' <=> Tracked(j)
                    /\ Tracked(j) => /\ resources'[j].Type = resources[j].Type
                                      /\ resources'[j].Age = resources[j].Age
  <2>1. \A j \in Id : Tracked(j) => resources[j] \in ResourceEntry
    BY <1>1 DEF StoreTypeOK, Tracked
  <2> QED BY <1>0, <1>1, <2>1, StoreAssumption DEF UpdateStatus, Tracked, StoreTypeOK, ResourceEntry
<1>3. ListingTypeOK'
  BY <1>0, <1>1 DEF WalkInv, ListingTypeOK
<1>4. \A t \in Types : Listed(t)' = Listed(t) /\ \A j \in Listed(t) : j \in Id /\ Tracked(j)
  BY <1>2 DEF Listed
<1>5. ASSUME NEW t \in Types, NEW j \in Listed(t)
      PROVE  Rank(t, j)' = Rank(t, j)
  <2>1. resources'[j].Age = resources[j].Age
    BY <1>2, <1>4, <1>5
  <2>2. \A k \in Listed(t) : resources'[k].Age = resources[k].Age
    BY <1>2, <1>4
  <2>3. Earlier(t, resources[j].Age, j)' = Earlier(t, resources[j].Age, j)
    BY <1>4, <2>1, <2>2 DEF Earlier, Before
  <2> QED BY <2>3, RankCount
<1>6. walking # None => walking \in Types
  BY DEF WalkInv, ListingTypeOK
<1>7. StayListed'
  BY <1>0, <1>4, <1>6 DEF WalkInv, StayListed
<1>8. Ahead'
  BY <1>0, <1>5, <1>6 DEF WalkInv, Ahead, StayListed
<1>9. Behind'
  BY <1>0, <1>4, <1>5, <1>6 DEF WalkInv, Behind
<1>10. WalkComplete' /\ NoRepeat'
  BY <1>0 DEF WalkInv, WalkComplete, NoRepeat
<1> QED BY <1>3, <1>7, <1>8, <1>9, <1>10 DEF WalkInv

----------------------------------------------------------------------------
(* The theorems *)

\* Every step keeps the invariant.
LEMMA WalkInvStep ==
    ASSUME WalkInv, [ListingNext]_listingVars
    PROVE  WalkInv'
<1>1. CASE \E t \in Types : Begin(t)
  BY <1>1, BeginStep
<1>2. CASE ListVMs \/ ListClusters
  <2>1. PICK t \in {"vm", "cluster"} : ListOK(t)
    BY <1>2 DEF ListVMs, ListClusters
  <2>2. t \in Types
    BY <2>1, ListingAssumption DEF ListOK, WalkInv, ListingTypeOK
  <2> QED BY <2>1, <2>2, ListOKStep
<1>3. CASE ListFails \/ ListBadToken \/ End \/ UNCHANGED listingVars
  BY <1>3, ClientFrame
<1>4. ASSUME NEW id \in Id, NEW n \in Name, NEW t \in Types, NEW age \in 0..MaxAge,
             Create(id, n, t, age)
      PROVE  WalkInv'
  BY <1>4, CreateStep
<1>5. ASSUME NEW id \in Id, Remove(id)
      PROVE  WalkInv'
  BY <1>5, RemoveStep
<1>6. ASSUME NEW id \in Id, NEW s \in Statuses, SetStatus(id, s)
      PROVE  WalkInv'
  BY <1>6, SetStatusStep
<1> QED BY <1>1, <1>2, <1>3, <1>4, <1>5, <1>6 DEF ListingNext

\* It holds before the first walk.
LEMMA WalkInvInit == ASSUME ListingInit PROVE WalkInv
  BY DEF ListingInit, StoreInit, WalkInv, ListingTypeOK, StoreTypeOK, StayListed, Ahead, Behind,
         WalkComplete, NoRepeat

\* A client that reads a list to its end has received every resource that was
\* there all the time, unless one it was already past was removed: for every
\* number of resources, every page size and every interleaving.
THEOREM WalkCompleteTheorem == ListingSpec => []WalkComplete
<1>1. WalkInv /\ [ListingNext]_listingVars => WalkInv'
  BY WalkInvStep
<1>2. ListingInit => WalkInv
  BY WalkInvInit
<1>3. WalkInv => WalkComplete
  BY DEF WalkInv
<1> QED BY <1>1, <1>2, <1>3, PTL DEF ListingSpec

\* It receives none twice, unless one was created before what it has read.
THEOREM NoRepeatTheorem == ListingSpec => []NoRepeat
<1>1. WalkInv /\ [ListingNext]_listingVars => WalkInv'
  BY WalkInvStep
<1>2. ListingInit => WalkInv
  BY WalkInvInit
<1>3. WalkInv => NoRepeat
  BY DEF WalkInv
<1> QED BY <1>1, <1>2, <1>3, PTL DEF ListingSpec

\* The store and the client's bookkeeping keep their types.
THEOREM ListingTypeTheorem == ListingSpec => []ListingTypeOK
<1>1. WalkInv /\ [ListingNext]_listingVars => WalkInv'
  BY WalkInvStep
<1>2. ListingInit => WalkInv
  BY WalkInvInit
<1>3. WalkInv => ListingTypeOK
  BY DEF WalkInv
<1> QED BY <1>1, <1>2, <1>3, PTL DEF ListingSpec

----------------------------------------------------------------------------
(* The store under the lists *)

\* The store sees of the list handlers and the writers only its own calls.
LEMMA ListingStoreStep ==
    ASSUME ListingTypeOK, [ListingNext]_listingVars
    PROVE  [StoreNext]_storeVars
<1>1. CASE \/ \E t \in Types : Begin(t)
           \/ ListVMs \/ ListClusters \/ ListFails \/ ListBadToken \/ End
           \/ UNCHANGED listingVars
  BY <1>1 DEF Begin, ListVMs, ListClusters, ListOK, ListFails, ListBadToken, End, listingVars,
              storeVars
<1>2. ASSUME NEW id \in Id, NEW n \in Name, NEW t \in Types, NEW age \in 0..MaxAge,
             Create(id, n, t, age)
      PROVE  StoreNext
  <2>1. PICK s \in Statuses :
            Put(id, [KcliName |-> n, Type |-> t, Status |-> s, Age |-> age])
    BY <1>2 DEF Create
  <2>2. [KcliName |-> n, Type |-> t, Status |-> s, Age |-> age] \in ResourceEntry
    BY ListingAssumption DEF ResourceEntry
  <2> QED BY <2>1, <2>2 DEF StoreNext
<1>3. ASSUME NEW id \in Id, Remove(id)
      PROVE  StoreNext
  BY <1>3 DEF Remove, StoreNext
<1>4. ASSUME NEW id \in Id, NEW s \in Statuses, SetStatus(id, s)
      PROVE  StoreNext
  BY <1>4, ListingAssumption DEF SetStatus, StoreNext
<1> QED BY <1>1, <1>2, <1>3, <1>4 DEF ListingNext

\* The instance that the listing run checks is one of the store's behaviours.
LEMMA ListingUsesStore == ListingSpec => StoreSpec
<1>1. ListingInit => StoreInit
  BY DEF ListingInit
<1>2. ListingTypeOK /\ [ListingNext]_listingVars => [StoreNext]_storeVars
  BY ListingStoreStep
<1> QED BY <1>1, <1>2, ListingTypeTheorem, PTL DEF ListingSpec, StoreSpec

\* Hence what is proved of the store's methods in any order holds of it.
COROLLARY ListingIndex == ListingSpec => IndexSound /\ IndexStaysExact
  BY ListingUsesStore, IndexSoundTheorem, IndexStaysExactTheorem, PTL
=============================================================================
