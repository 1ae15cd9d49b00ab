----------------------- MODULE ServiceDiscoveryProofs -----------------------
(***************************************************************************)
(* Proofs about ServiceDiscovery, for any services, names and lookups.     *)
(*                                                                         *)
(* The argument: as long as a name has not been given up, whoever was read *)
(* under it has it still.  Hence every change of a service comes with an   *)
(* invalidation that covers each of its entries, but for those under a     *)
(* name or an id given up; and an entry that is not true any more is       *)
(* covered by an invalidation still to come, unless a lookup put it there  *)
(* that had read before the change.                                        *)
(***************************************************************************)
EXTENDS ServiceDiscovery, TLAPS

KeysOf(d) == {d.id, d.name}

(* Whoever was read under a name that was not given up has it still. *)
HasName(d) == d.name \notin past.gone => record[d.id] # None /\ record[d.id].name = d.name

NameInv ==
    /\ \A k \in Keys : cache[k] # None => HasName(cache[k])
    /\ \A x \in Lookups : lookup[x].at = "read" => HasName(lookup[x].dto)

(* What a lookup has read under a key is true until a change is noted. *)
ReadInv ==
    \A x \in Lookups :
        lookup[x].at = "read" =>
            /\ lookup[x].key \in KeysOf(lookup[x].dto)
            /\ lookup[x].key \notin past.raced => record[lookup[x].dto.id] = lookup[x].dto

(* An entry is true, or an invalidation that covers it is still to come. *)
CoveredInv ==
    \A k \in Keys \ (past.gone \cup past.raced) :
        cache[k] # None =>
            \/ record[cache[k].id] = cache[k]
            \/ \E c \in changed : c.id = cache[k].id /\ k \in KeysOf(c)

DiscoveryInv == TypeOK /\ NameInv /\ ReadInv /\ CoveredInv

-----------------------------------------------------------------------------
(* Types.                                                                   *)

LEMMA NoneIsNoDto == None \notin Dtos
<1> SUFFICES ASSUME None \in Dtos PROVE FALSE
  OBVIOUS
<1>1. DOMAIN None = {"id"}
  BY DEF None
<1>2. DOMAIN None = {"id", "name", "address"}
  BY DEF Dtos
<1> QED
  BY <1>1, <1>2

(* A lookup is at one of three places, and what it carries goes with it. *)
LEMMA LookupTypes ==
  ASSUME TypeOK, NEW x \in Lookups
  PROVE  /\ lookup[x].at = "read" => /\ lookup[x].key \in Keys /\ lookup[x].dto \in Dtos
                                     /\ lookup[x] # Idle
         /\ lookup[x].at = "found" => lookup[x].dto \in Dtos
<1>1. \/ lookup[x] = Idle
      \/ lookup[x] \in [at : {"found"}, dto : Dtos]
      \/ lookup[x] \in [at : {"read"}, key : Keys, dto : Dtos, why : {"route", "deactivated"}]
  BY DEF TypeOK
<1>2. CASE lookup[x] = Idle
  BY <1>2 DEF Idle
<1>3. CASE lookup[x] \in [at : {"found"}, dto : Dtos]
  BY <1>3
<1>4. CASE lookup[x] \in [at : {"read"}, key : Keys, dto : Dtos, why : {"route", "deactivated"}]
  BY <1>4 DEF Idle
<1> QED
  BY <1>1, <1>2, <1>3, <1>4

LEMMA FoundIsRecord ==
  ASSUME TypeOK, NEW k, NEW d \in Found(k)
  PROVE  d \in Dtos /\ d.id \in Ids /\ record[d.id] = d /\ k \in KeysOf(d) /\ d # None
<1>1. PICK s \in Ids : record[s] # None /\ k \in {s, record[s].name} /\ d = record[s]
  BY DEF Found
<1>2. d \in Dtos /\ d.id = s
  BY <1>1 DEF TypeOK
<1> QED
  BY <1>1, <1>2 DEF KeysOf

LEMMA DiscoveryInit == ASSUME DiscoveryAssumption PROVE Init => DiscoveryInv
<1> SUFFICES ASSUME Init PROVE DiscoveryInv
  OBVIOUS
<1>1. PICK n \in [Ids -> Names] : /\ \A s, t \in Ids : s # t => n[s] # n[t]
                                  /\ record = [s \in Ids |-> Dto(s, n[s], 0)]
  BY DEF Init
<1>2. /\ record \in [Ids -> Dtos]
      /\ \A s \in Ids : record[s].id = s /\ record[s].name = n[s]
  BY <1>1, DiscoveryAssumption DEF Dto, Dtos, DiscoveryAssumption
<1>3. /\ cache = [k \in Keys |-> None] /\ lookup = [x \in Lookups |-> Idle]
      /\ changed = {} /\ changes = 0 /\ past = [gone |-> {}, raced |-> {}]
  BY DEF Init
<1>4. TypeOK
  BY <1>1, <1>2, <1>3, DiscoveryAssumption DEF TypeOK, DiscoveryAssumption
<1>5. NameInv /\ ReadInv /\ CoveredInv
  BY <1>3 DEF NameInv, ReadInv, CoveredInv, Idle
<1> QED
  BY <1>4, <1>5 DEF DiscoveryInv

-----------------------------------------------------------------------------
(* Steps of the cache.                                                      *)

CacheStep ==
    \/ \E x \in Lookups :
        \/ \E k \in Keys : FindServiceByIDOrName(x, k, "route")
        \/ \E s \in Ids : FindServiceByIDOrName(x, s, "deactivated")
        \/ Fills(x) \/ Deactivated(x)
    \/ \E d \in changed : InvalidateServiceCache(d)
    \/ \E k \in Keys : Expires(k)

(* Entries only go, and no invalidation is forgotten that an entry needs. *)
LEMMA EntriesGo ==
  ASSUME DiscoveryInv, UNCHANGED <<record, past>>,
         \A k \in Keys : cache'[k] # None => cache'[k] = cache[k],
         \A x \in Lookups : lookup'[x].at = "read" => lookup'[x] = lookup[x],
         \A k \in Keys : cache'[k] # None =>
            \A c \in changed : c \in changed' \/ k \notin KeysOf(c)
  PROVE  NameInv' /\ ReadInv' /\ CoveredInv'
<1>1. NameInv'
  BY DEF DiscoveryInv, NameInv, HasName
<1>2. ReadInv'
  BY DEF DiscoveryInv, ReadInv, KeysOf
<1>3. CoveredInv'
  BY DEF DiscoveryInv, CoveredInv, KeysOf
<1> QED
  BY <1>1, <1>2, <1>3

LEMMA ReadStep ==
  ASSUME DiscoveryInv, NEW x \in Lookups, NEW k \in Keys, NEW why \in {"route", "deactivated"},
         FindServiceByIDOrName(x, k, why)
  PROVE  DiscoveryInv'
<1> USE DEF DiscoveryInv
<1>1. UNCHANGED <<record, cache, changed, changes, past>>
  BY DEF FindServiceByIDOrName
<1>2. CASE cache[k] # None
  <2>1. lookup' = [lookup EXCEPT ![x] = [at |-> "found", dto |-> cache[k]]]
    BY <1>2 DEF FindServiceByIDOrName
  <2>2. cache[k] \in Dtos
    BY <1>2 DEF TypeOK
  <2>3. TypeOK'
    BY <1>1, <2>1, <2>2 DEF TypeOK
  <2>4. \A y \in Lookups : lookup'[y].at = "read" => lookup'[y] = lookup[y]
    BY <2>1 DEF TypeOK
  <2> QED
    BY <1>1, <2>3, <2>4, EntriesGo
<1>3. CASE cache[k] = None
  <2>1. PICK d \in Found(k) :
          lookup' = [lookup EXCEPT ![x] = [at |-> "read", key |-> k, dto |-> d, why |-> why]]
    BY <1>3 DEF FindServiceByIDOrName
  <2>2. d \in Dtos /\ d.id \in Ids /\ record[d.id] = d /\ k \in KeysOf(d) /\ d # None
    BY FoundIsRecord
  <2>3. TypeOK'
    BY <1>1, <2>1, <2>2 DEF TypeOK
  <2>4. \A y \in Lookups : lookup'[y] = IF y = x THEN [at |-> "read", key |-> k, dto |-> d, why |-> why]
                                        ELSE lookup[y]
    BY <2>1 DEF TypeOK
  <2>5. NameInv'
    BY <1>1, <2>2, <2>4 DEF NameInv, HasName
  <2>6. ReadInv'
    BY <1>1, <2>2, <2>4 DEF ReadInv, KeysOf
  <2>7. CoveredInv'
    BY <1>1 DEF CoveredInv, KeysOf
  <2> QED
    BY <2>3, <2>5, <2>6, <2>7
<1> QED
  BY <1>2, <1>3

LEMMA FillStep ==
  ASSUME DiscoveryInv, NEW x \in Lookups, Fills(x)
  PROVE  DiscoveryInv'
<1> USE DEF DiscoveryInv
<1> DEFINE key == lookup[x].key
           dto == lookup[x].dto
<1>1. lookup[x].at = "read" /\ key \in Keys /\ dto \in Dtos /\ dto # None
  BY LookupTypes, NoneIsNoDto DEF Fills
<1>2. /\ \A k \in Keys : cache'[k] = IF k = key THEN dto ELSE cache[k]
      /\ UNCHANGED <<record, changed, changes, past>>
  BY <1>1 DEF Fills, TypeOK
<1>3. \A y \in Lookups : lookup'[y].at = "read" => lookup'[y] = lookup[y]
  BY DEF Fills, TypeOK, Idle
<1>4. key \in KeysOf(dto) /\ (key \notin past.raced => record[dto.id] = dto)
  BY <1>1 DEF ReadInv
<1>5. TypeOK'
  <2>1. cache' \in [Keys -> Dtos \cup {None}]
    BY <1>1 DEF Fills, TypeOK
  <2>2. \A k \in Keys : cache'[k] # None => k \in {cache'[k].id, cache'[k].name}
    BY <1>2, <1>4 DEF TypeOK, KeysOf
  <2>3. lookup' \in [Lookups -> {Idle} \cup [at : {"found"}, dto : Dtos]
                    \cup [at : {"read"}, key : Keys, dto : Dtos, why : {"route", "deactivated"}]]
    BY <1>1 DEF Fills, TypeOK
  <2> QED
    BY <1>2, <2>1, <2>2, <2>3 DEF TypeOK
<1>6. NameInv'
  <2>1. HasName(dto)
    BY <1>1 DEF NameInv
  <2> QED
    BY <1>2, <1>3, <2>1 DEF NameInv, HasName
<1>7. ReadInv'
  BY <1>2, <1>3 DEF ReadInv, KeysOf
<1>8. CoveredInv'
  BY <1>2, <1>4 DEF CoveredInv, KeysOf
<1> QED
  BY <1>5, <1>6, <1>7, <1>8

LEMMA CacheSteps ==
  ASSUME DiscoveryInv, CacheStep
  PROVE  DiscoveryInv'
<1> USE DEF DiscoveryInv
<1>1. ASSUME NEW x \in Lookups, Deactivated(x) PROVE DiscoveryInv'
  <2>1. TypeOK'
    BY <1>1 DEF Deactivated, Without, TypeOK
  <2>2. \A k \in Keys : cache'[k] # None => cache'[k] = cache[k]
    BY <1>1 DEF Deactivated, Without
  <2>3. \A y \in Lookups : lookup'[y].at = "read" => lookup'[y] = lookup[y]
    BY <1>1 DEF Deactivated, TypeOK, Idle
  <2>4. UNCHANGED <<record, past, changed>>
    BY <1>1 DEF Deactivated
  <2> QED
    BY <2>1, <2>2, <2>3, <2>4, EntriesGo
<1>2. ASSUME NEW d \in changed, InvalidateServiceCache(d) PROVE DiscoveryInv'
  <2>1. TypeOK'
    BY <1>2 DEF InvalidateServiceCache, Without, TypeOK
  <2>2. \A k \in Keys : cache'[k] # None => cache'[k] = cache[k] /\ k \notin KeysOf(d)
    BY <1>2 DEF InvalidateServiceCache, Without, KeysOf
  <2>3. UNCHANGED <<record, past, lookup>> /\ changed' = changed \ {d}
    BY <1>2 DEF InvalidateServiceCache
  <2> QED
    BY <2>1, <2>2, <2>3, EntriesGo
<1>3. ASSUME NEW k \in Keys, Expires(k) PROVE DiscoveryInv'
  <2>1. TypeOK'
    BY <1>3 DEF Expires, TypeOK
  <2>2. \A j \in Keys : cache'[j] # None => cache'[j] = cache[j]
    BY <1>3 DEF Expires, TypeOK
  <2>3. UNCHANGED <<record, past, lookup, changed>>
    BY <1>3 DEF Expires
  <2> QED
    BY <2>1, <2>2, <2>3, EntriesGo
<1> QED
  BY <1>1, <1>2, <1>3, ReadStep, FillStep DEF CacheStep, Keys

-----------------------------------------------------------------------------
(* Steps of the records.                                                    *)

(* A service changes, its change is noted, and a name given up is listed;   *)
(* or the service goes, and what it was found under is listed.              *)
LEMMA ChangeKeeps ==
  ASSUME DiscoveryInv, NEW s \in Ids, record[s] # None, UNCHANGED <<cache, lookup>>,
         \A t \in Ids \ {s} : record'[t] = record[t],
         past.gone \subseteq past'.gone, past.raced \subseteq past'.raced,
         \A x \in Lookups :
            lookup[x].at = "read" /\ lookup[x].dto.id = s => lookup[x].key \in past'.raced,
         \/ /\ record'[s] \in Dtos /\ record'[s].id = s
            /\ record'[s].name = record[s].name \/ record[s].name \in past'.gone
            /\ changed' = changed \cup {record'[s]}
         \/ /\ record'[s] = None /\ changed' = changed
            /\ {s, record[s].name} \subseteq past'.gone
  PROVE  NameInv' /\ ReadInv' /\ CoveredInv'
<1> USE DEF DiscoveryInv
(* What was said of an entry's or a lookup's name before is true after. *)
<1>1. ASSUME NEW d \in Dtos, HasName(d), d.name \notin past'.gone
      PROVE  /\ record'[d.id] # None /\ record'[d.id].name = d.name
             /\ d.id = s => record'[s] # None /\ record[s].name = d.name
  <2>1. record[d.id] # None /\ record[d.id].name = d.name /\ d.id \in Ids
    BY <1>1 DEF HasName, Dtos
  <2>2. CASE d.id = s
    BY <1>1, <2>1, <2>2, NoneIsNoDto
  <2> QED
    BY <2>1, <2>2
<1>2. NameInv'
  <2>1. ASSUME NEW k \in Keys, cache'[k] # None
        PROVE  cache'[k].name \notin past'.gone =>
                 record'[cache'[k].id] # None /\ record'[cache'[k].id].name = cache'[k].name
    <3>1. cache[k] \in Dtos /\ HasName(cache[k]) /\ cache'[k] = cache[k]
      BY <2>1 DEF TypeOK, NameInv
    <3> QED
      BY <1>1, <3>1
  <2>2. ASSUME NEW x \in Lookups, lookup'[x].at = "read"
        PROVE  lookup'[x].dto.name \notin past'.gone =>
                 record'[lookup'[x].dto.id] # None
                   /\ record'[lookup'[x].dto.id].name = lookup'[x].dto.name
    <3>1. lookup'[x] = lookup[x] /\ lookup[x].dto \in Dtos /\ HasName(lookup[x].dto)
      BY <2>2, LookupTypes DEF NameInv
    <3> QED
      BY <1>1, <3>1
  <2> QED
    BY <2>1, <2>2 DEF NameInv, HasName
<1>3. ReadInv'
  <2> SUFFICES ASSUME NEW x \in Lookups, lookup[x].at = "read"
               PROVE  /\ lookup[x].key \in KeysOf(lookup[x].dto)
                      /\ lookup[x].key \notin past'.raced
                            => record'[lookup[x].dto.id] = lookup[x].dto
    BY DEF ReadInv, KeysOf
  <2>1. lookup[x].dto.id \in Ids
    BY LookupTypes DEF Dtos
  <2> QED
    BY <2>1 DEF ReadInv
<1>4. CoveredInv'
  <2> SUFFICES ASSUME NEW k \in Keys, k \notin past'.gone, k \notin past'.raced, cache[k] # None
               PROVE  \/ record'[cache[k].id] = cache[k]
                      \/ \E c \in changed' : c.id = cache[k].id /\ k \in KeysOf(c)
    BY DEF CoveredInv, KeysOf
  <2>1. cache[k] \in Dtos /\ cache[k].id \in Ids /\ k \in KeysOf(cache[k]) /\ HasName(cache[k])
    BY DEF TypeOK, NameInv, Dtos, KeysOf
  <2>2. \/ record[cache[k].id] = cache[k]
        \/ \E c \in changed : c.id = cache[k].id /\ k \in KeysOf(c)
    BY DEF CoveredInv
  <2>3. changed \subseteq changed'
    OBVIOUS
  <2>4. CASE cache[k].id # s
    BY <2>1, <2>2, <2>3, <2>4
  <2>5. CASE cache[k].id = s /\ k = s
    BY <2>5 DEF KeysOf
  <2>6. CASE cache[k].id = s /\ k = cache[k].name
    <3>1. record'[s] # None /\ record[s].name = k
      BY <1>1, <2>1, <2>6
    <3> QED
      BY <2>6, <3>1 DEF KeysOf
  <2> QED
    BY <2>1, <2>4, <2>5, <2>6 DEF KeysOf
<1> QED
  BY <1>2, <1>3, <1>4

(* What the three changes of a record have in common. *)
LEMMA ChangesTypes ==
  ASSUME DiscoveryInv, DiscoveryAssumption, NEW s \in Ids, NEW e \in {"start", "rename", "delete"},
         Changes(e, s)
  PROVE  /\ record[s] \in Dtos /\ record[s].id = s /\ record[s].name \in Names
         /\ changes' = changes + 1 /\ changes' \in 0..MaxChanges
         /\ past' \in [gone : SUBSET Keys, raced : SUBSET Keys]
         /\ past.gone \subseteq past'.gone /\ past.raced \subseteq past'.raced
         /\ e = "rename" => record[s].name \in past'.gone
         /\ e = "delete" => {s, record[s].name} \subseteq past'.gone
         /\ \A x \in Lookups :
                lookup[x].at = "read" /\ lookup[x].dto.id = s => lookup[x].key \in past'.raced
         /\ record[s] # None /\ UNCHANGED <<cache, lookup>>
<1> USE DEF DiscoveryInv
<1>1. record[s] \in Dtos /\ record[s].id = s /\ record[s].name \in Names /\ record[s] # None
  BY DEF Changes, TypeOK, Dtos
<1>2. changes' = changes + 1 /\ changes' \in 0..MaxChanges /\ UNCHANGED <<cache, lookup>>
  BY DEF Changes, TypeOK, DiscoveryAssumption
<1> DEFINE given == CASE e = "start" -> {}
                      [] e = "rename" -> {record[s].name}
                      [] e = "delete" -> {s, record[s].name}
           missed == {lookup[x].key : x \in {y \in Lookups :
                                lookup[y].at = "read" /\ lookup[y].dto.id = s}}
<1>3. past' = [gone |-> past.gone \cup given, raced |-> past.raced \cup missed]
  BY DEF Changes
<1>4. missed \subseteq Keys
  BY LookupTypes
<1>5. /\ given \subseteq Keys
      /\ e = "rename" => record[s].name \in given
      /\ e = "delete" => {s, record[s].name} \subseteq given
  BY <1>1 DEF Keys
<1>6. past.gone \subseteq Keys /\ past.raced \subseteq Keys
  BY DEF TypeOK
<1> HIDE DEF given
<1>7. past'.gone = past.gone \cup given /\ past'.raced = past.raced \cup missed
  BY <1>3
<1> QED
  BY <1>1, <1>2, <1>3, <1>4, <1>5, <1>6, <1>7

(* A new record under a free name or under the old one. *)
LEMMA SaveTypes ==
  ASSUME TypeOK, NEW s \in Ids, NEW d \in Dtos, d.id = s, UNCHANGED <<cache, lookup>>,
         changes' \in 0..MaxChanges, past' \in [gone : SUBSET Keys, raced : SUBSET Keys],
         record' = [record EXCEPT ![s] = d], changed' \subseteq changed \cup {d},
         \A t \in Ids \ {s} : record[t] # None => record[t].name # d.name
  PROVE  TypeOK'
<1>1. record' \in [Ids -> Dtos \cup {None}] /\ \A t \in Ids : record'[t] = IF t = s THEN d ELSE record[t]
  BY DEF TypeOK
<1>2. \A t \in Ids : record'[t] # None => record'[t].id = t
  BY <1>1 DEF TypeOK
<1>3. \A t, u \in Ids : record'[t] # None /\ record'[u] # None /\ t # u
                            => record'[t].name # record'[u].name
  <2> TAKE t, u \in Ids
  <2>1. CASE t = s
    BY <1>1, <2>1
  <2>2. CASE u = s
    BY <1>1, <2>2
  <2>3. CASE t # s /\ u # s
    BY <1>1, <2>3 DEF TypeOK
  <2> QED
    BY <2>1, <2>2, <2>3
<1>4. changed' \subseteq Dtos
  BY DEF TypeOK
<1> QED
  BY <1>1, <1>2, <1>3, <1>4 DEF TypeOK

LEMMA SaveSteps ==
  ASSUME DiscoveryInv, DiscoveryAssumption, NEW s \in Ids,
         MarkService(s) \/ \E n \in Names : Rename(s, n)
  PROVE  DiscoveryInv'
<1>1. ASSUME NEW e \in {"start", "rename"}, NEW d \in Dtos, d.id = s, Changes(e, s), Save(s, d),
             e = "start" => d.name = record[s].name,
             \A t \in Ids \ {s} : record[t] # None => record[t].name # d.name
      PROVE  DiscoveryInv'
  <2>1. /\ record[s] # None /\ UNCHANGED <<cache, lookup>>
        /\ changes' \in 0..MaxChanges /\ past' \in [gone : SUBSET Keys, raced : SUBSET Keys]
        /\ past.gone \subseteq past'.gone /\ past.raced \subseteq past'.raced
        /\ e = "rename" => record[s].name \in past'.gone
        /\ \A x \in Lookups :
              lookup[x].at = "read" /\ lookup[x].dto.id = s => lookup[x].key \in past'.raced
    BY <1>1, ChangesTypes
  <2>2. record' = [record EXCEPT ![s] = d] /\ changed' = changed \cup {d}
    BY <1>1 DEF Save
  <2>3. record'[s] = d /\ \A t \in Ids \ {s} : record'[t] = record[t]
    BY <2>2 DEF DiscoveryInv, TypeOK
  <2>4. TypeOK'
    BY <1>1, <2>1, <2>2, SaveTypes DEF DiscoveryInv
  <2>5. d.name = record[s].name \/ record[s].name \in past'.gone
    BY <1>1, <2>1
  <2>6. NameInv' /\ ReadInv' /\ CoveredInv'
    BY <1>1, <2>1, <2>2, <2>3, <2>5, ChangeKeeps
  <2> QED
    BY <2>4, <2>6 DEF DiscoveryInv
<1>2. CASE MarkService(s)
  <2> DEFINE d == [record[s] EXCEPT !.address = changes + 1]
  <2>1. Changes("start", s) /\ Save(s, d)
    BY <1>2 DEF MarkService
  <2>2. /\ record[s] \in Dtos /\ record[s].id = s /\ record[s] # None
        /\ changes' = changes + 1 /\ changes' \in 0..MaxChanges
    BY <2>1, ChangesTypes
  <2>3. d \in Dtos /\ d.id = s /\ d.name = record[s].name
    BY <2>2 DEF Dtos
  <2>4. \A t \in Ids \ {s} : record[t] # None => record[t].name # d.name
    BY <2>2, <2>3 DEF DiscoveryInv, TypeOK
  <2> QED
    BY <1>1, <2>1, <2>3, <2>4
<1>3. ASSUME NEW n \in Names, Rename(s, n) PROVE DiscoveryInv'
  <2> DEFINE d == [record[s] EXCEPT !.name = n]
  <2>1. Changes("rename", s) /\ Save(s, d) /\ n \notin Taken
    BY <1>3 DEF Rename
  <2>2. record[s] \in Dtos /\ record[s].id = s
    BY <2>1, ChangesTypes
  <2>3. d \in Dtos /\ d.id = s /\ d.name = n
    BY <2>2 DEF Dtos
  <2>4. \A t \in Ids \ {s} : record[t] # None => record[t].name # d.name
    BY <2>1, <2>3 DEF Taken
  <2> QED
    BY <1>1, <2>1, <2>3, <2>4
<1> QED
  BY <1>2, <1>3

LEMMA DeleteStep ==
  ASSUME DiscoveryInv, DiscoveryAssumption, NEW s \in Ids, Delete(s)
  PROVE  DiscoveryInv'
<1>1. /\ record[s] # None /\ UNCHANGED <<cache, lookup>>
      /\ changes' \in 0..MaxChanges /\ past' \in [gone : SUBSET Keys, raced : SUBSET Keys]
      /\ past.gone \subseteq past'.gone /\ past.raced \subseteq past'.raced
      /\ {s, record[s].name} \subseteq past'.gone
      /\ \A x \in Lookups :
            lookup[x].at = "read" /\ lookup[x].dto.id = s => lookup[x].key \in past'.raced
  BY ChangesTypes DEF Delete
<1>2. record' = [record EXCEPT ![s] = None] /\ changed' = changed
  BY DEF Delete
<1>3. /\ record' \in [Ids -> Dtos \cup {None}]
      /\ \A t \in Ids : record'[t] = IF t = s THEN None ELSE record[t]
  BY <1>2 DEF DiscoveryInv, TypeOK
<1>4. TypeOK'
  BY <1>1, <1>2, <1>3 DEF DiscoveryInv, TypeOK
<1>5. NameInv' /\ ReadInv' /\ CoveredInv'
  BY <1>1, <1>2, <1>3, ChangeKeeps
<1> QED
  BY <1>4, <1>5 DEF DiscoveryInv

(* A new service: nothing is cached under its id, no lookup is under way,   *)
(* and what is cached under a name of one that had its id was given up.     *)
LEMMA CreateStep ==
  ASSUME DiscoveryInv, DiscoveryAssumption, NEW s \in Ids, NEW n \in Names, Create(s, n)
  PROVE  DiscoveryInv'
<1> USE DEF DiscoveryInv
<1> DEFINE d == Dto(s, n, changes)
<1>1. /\ record[s] = None /\ n \notin Taken /\ cache[s] = None
      /\ \A x \in Lookups : lookup[x] = Idle
      /\ record' = [record EXCEPT ![s] = d]
      /\ past' = [past EXCEPT !.gone = @ \ {s}]
      /\ UNCHANGED <<cache, lookup, changed, changes>>
  BY DEF Create
<1>2. d \in Dtos /\ d.id = s /\ d.name = n
  BY DEF Dto, Dtos, TypeOK
<1>3. /\ past' \in [gone : SUBSET Keys, raced : SUBSET Keys]
      /\ past'.gone = past.gone \ {s} /\ past'.raced = past.raced
  BY <1>1 DEF TypeOK
<1>4. \A t \in Ids : record'[t] = IF t = s THEN d ELSE record[t]
  BY <1>1 DEF TypeOK
<1>5. \A t \in Ids \ {s} : record[t] # None => record[t].name # d.name
  BY <1>1, <1>2 DEF Taken
<1>6. changes' \in 0..MaxChanges /\ changed' \subseteq changed \cup {d}
  BY <1>1 DEF TypeOK
<1>7. TypeOK'
  BY <1>1, <1>2, <1>3, <1>5, <1>6, SaveTypes
<1>8. ASSUME NEW k \in Keys, cache[k] # None
      PROVE  /\ cache[k] \in Dtos /\ k \in KeysOf(cache[k]) /\ HasName(cache[k])
             /\ cache[k].name # s /\ cache[k].id \in Ids /\ k # s
  BY <1>1, <1>8, DiscoveryAssumption DEF TypeOK, NameInv, Dtos, KeysOf, DiscoveryAssumption
(* Whoever has the id without being the new service had its name given up. *)
<1>9. ASSUME NEW k \in Keys, cache[k] # None, cache[k].id = s PROVE k \in past'.gone
  BY <1>1, <1>3, <1>8, <1>9 DEF HasName, KeysOf
<1>10. NameInv'
  <2>1. ASSUME NEW k \in Keys, cache'[k] # None
        PROVE  cache'[k].name \notin past'.gone =>
                 record'[cache'[k].id] # None /\ record'[cache'[k].id].name = cache'[k].name
    <3>1. cache'[k] = cache[k] /\ cache[k] # None
      BY <1>1, <2>1
    <3>2. cache[k].name \notin past'.gone => cache[k].name \notin past.gone
      BY <1>3, <1>8, <3>1
    <3> QED
      BY <1>1, <1>4, <1>8, <3>1, <3>2 DEF HasName
  <2>2. \A x \in Lookups : lookup'[x].at # "read"
    BY <1>1 DEF Idle
  <2> QED
    BY <2>1, <2>2 DEF NameInv, HasName
<1>11. ReadInv'
  BY <1>1 DEF ReadInv, Idle
<1>12. CoveredInv'
  <2> SUFFICES ASSUME NEW k \in Keys, k \notin past'.gone, k \notin past'.raced, cache[k] # None
               PROVE  \/ record'[cache[k].id] = cache[k]
                      \/ \E c \in changed : c.id = cache[k].id /\ k \in KeysOf(c)
    BY <1>1 DEF CoveredInv, KeysOf
  <2>1. k # s /\ cache[k].id # s /\ cache[k].id \in Ids
    BY <1>8, <1>9
  <2>2. k \notin past.gone /\ k \notin past.raced
    BY <1>3, <2>1
  <2> QED
    BY <1>4, <2>1, <2>2 DEF CoveredInv
<1> QED
  BY <1>7, <1>10, <1>11, <1>12

-----------------------------------------------------------------------------
(* The theorems.                                                            *)

LEMMA DiscoveryStep ==
  ASSUME DiscoveryAssumption, DiscoveryInv, [Next]_vars
  PROVE  DiscoveryInv'
<1>1. CASE UNCHANGED vars
  <2>1. TypeOK'
    BY <1>1 DEF vars, DiscoveryInv, TypeOK
  <2> QED
    BY <1>1, <2>1, EntriesGo DEF vars, DiscoveryInv
<1>2. CASE Next
  BY <1>2, CacheSteps, SaveSteps, DeleteStep, CreateStep DEF Next, CacheStep
<1> QED
  BY <1>1, <1>2

LEMMA DiscoveryInvariant == ASSUME DiscoveryAssumption PROVE Spec => []DiscoveryInv
<1>1. Init => DiscoveryInv
  BY DiscoveryInit
<1>2. DiscoveryInv /\ [Next]_vars => DiscoveryInv'
  BY DiscoveryStep
<1> QED
  BY <1>1, <1>2, PTL DEF Spec

(* The state has its types; no two services share a name, and what is cached *)
(* under a key has it as its id or its name.                                 *)
THEOREM TypeCorrect == ASSUME DiscoveryAssumption PROVE Spec => []TypeOK
<1>1. DiscoveryInv => TypeOK
  BY DEF DiscoveryInv
<1> QED
  BY <1>1, DiscoveryInvariant, PTL

LEMMA DiscoveryInvIsTrue == DiscoveryInv => CachedIsTrue
<1> SUFFICES ASSUME DiscoveryInv,
                    NEW k \in Keys \ (past.gone \cup past.raced), cache[k] # None,
                    \A d \in changed : d.id # cache[k].id
             PROVE  cache[k] \in Found(k)
  BY DEF CachedIsTrue
<1>1. record[cache[k].id] = cache[k]
  BY DEF DiscoveryInv, CoveredInv
<1>2. cache[k].id \in Ids /\ k \in {cache[k].id, cache[k].name}
  BY DEF DiscoveryInv, TypeOK, Dtos
<1> QED
  BY <1>1, <1>2 DEF Found

(* What FindServiceByIDOrName answers from the cache is what the database   *)
(* would answer, once the invalidations of the changes have run: but for    *)
(* the ids of deleted services, the names given up, and what a lookup       *)
(* cached that had read before a change.                                    *)
THEOREM CacheIsTrue == ASSUME DiscoveryAssumption PROVE Spec => []CachedIsTrue
  BY DiscoveryInvIsTrue, DiscoveryInvariant, PTL
=============================================================================
