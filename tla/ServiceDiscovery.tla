---------------------------- MODULE ServiceDiscovery ----------------------------
(***************************************************************************)
(* The proxy's cache of service records, by id and by name.  A lookup that *)
(* misses reads the record in one step and fills the cache in a later one; *)
(* a change of a record and the invalidation that follows it are two steps *)
(* as well.  When a service is deactivated, a goroutine looks it up, which *)
(* may fill the cache, and invalidates what it has found.                  *)
(*                                                                         *)
(* Entries expire at any time (bigcache, external).  The address stands    *)
(* for all fields but the name.                                            *)
(***************************************************************************)
EXTENDS Naturals

CONSTANTS
    Ids,        \* services
    Names,      \* names, which differ from ids
    Lookups,    \* requests and goroutines that look a service up
    Events,     \* what may happen to records: "rename", "delete", "start"
    MaxChanges  \* bound: changes of records

DiscoveryAssumption == Ids \cap Names = {} /\ MaxChanges \in Nat

Keys == Ids \cup Names
None == [id |-> "none"]

VARIABLES
    record,     \* record[s]: the record as a lookup answers it, or None
    cache,      \* cache[k]: what is cached for an id or a name, or None
    lookup,     \* lookup[x]: what a lookup has read and not yet cached
    changed,    \* records whose change has not been followed by the invalidation
    changes,
    past        \* history: keys given up, and keys a change may have missed

vars == <<record, cache, lookup, changed, changes, past>>

Dto(s, n, a) == [id |-> s, name |-> n, address |-> a]
Idle == [at |-> "idle"]

Taken == {record[s].name : s \in {t \in Ids : record[t] # None}}

\* What the query "id = k || name = k" finds.
Found(k) == {record[s] : s \in {t \in Ids : record[t] # None /\ k \in {t, record[t].name}}}

Dtos == [id : Ids, name : Names, address : 0..MaxChanges]

TypeOK ==
    /\ record \in [Ids -> Dtos \cup {None}]
    /\ \A s \in Ids : record[s] # None => record[s].id = s
    /\ \A s, t \in Ids : record[s] # None /\ record[t] # None /\ s # t
                            => record[s].name # record[t].name
    /\ cache \in [Keys -> Dtos \cup {None}]
    /\ \A k \in Keys : cache[k] # None => k \in {cache[k].id, cache[k].name}
    /\ lookup \in [Lookups -> {Idle} \cup [at : {"found"}, dto : Dtos]
                    \cup [at : {"read"}, key : Keys, dto : Dtos, why : {"route", "deactivated"}]]
    /\ changed \subseteq Dtos
    /\ changes \in 0..MaxChanges
    /\ past \in [gone : SUBSET Keys, raced : SUBSET Keys]

Init ==
    /\ \E n \in [Ids -> Names] :
        /\ \A s, t \in Ids : s # t => n[s] # n[t]
        /\ record = [s \in Ids |-> Dto(s, n[s], 0)]
    /\ cache = [k \in Keys |-> None]
    /\ lookup = [x \in Lookups |-> Idle]
    /\ changed = {} /\ changes = 0
    /\ past = [gone |-> {}, raced |-> {}]

-----------------------------------------------------------------------------
(***************************************************************************)
(* Lookups.  why: "route" for a request, "deactivated" for the goroutine.  *)
(***************************************************************************)
FindServiceByIDOrName(x, k, why) ==
    /\ lookup[x] = Idle
    /\ IF cache[k] # None
       THEN /\ why = "deactivated"      \* a request is routed, and that is all
            /\ lookup' = [lookup EXCEPT ![x] = [at |-> "found", dto |-> cache[k]]]
       ELSE \E d \in Found(k) :
                lookup' = [lookup EXCEPT
                            ![x] = [at |-> "read", key |-> k, dto |-> d, why |-> why]]
    /\ UNCHANGED <<record, cache, changed, changes, past>>

\* Mutant of Fills: the entry is stored under any key.
FillsAny(x) ==
    /\ lookup[x].at = "read"
    /\ \E k \in Keys : cache' = [cache EXCEPT ![k] = lookup[x].dto]
    /\ lookup' = [lookup EXCEPT ![x] = IF @.why = "route" THEN Idle
                                       ELSE [at |-> "found", dto |-> @.dto]]
    /\ UNCHANGED <<record, changed, changes, past>>

Fills(x) ==
    /\ lookup[x].at = "read"
    /\ cache' = [cache EXCEPT ![lookup[x].key] = lookup[x].dto]
    /\ lookup' = [lookup EXCEPT ![x] = IF @.why = "route" THEN Idle
                                       ELSE [at |-> "found", dto |-> @.dto]]
    /\ UNCHANGED <<record, changed, changes, past>>

Without(s, n) == [k \in Keys |-> IF k \in {s, n} THEN None ELSE cache[k]]

\* The callback of notifyDeactivated.  If it does not find the service it removes
\* the entry of the id, as Expires may.
Deactivated(x) ==
    /\ lookup[x].at = "found"
    /\ cache' = Without(lookup[x].dto.id, lookup[x].dto.name)
    /\ lookup' = [lookup EXCEPT ![x] = Idle]
    /\ UNCHANGED <<record, changed, changes, past>>

\* Mutant of InvalidateServiceCache: the entry under the name stays.
InvalidateServiceCacheById(d) ==
    /\ d \in changed
    /\ cache' = [cache EXCEPT ![d.id] = None]
    /\ changed' = changed \ {d}
    /\ UNCHANGED <<record, lookup, changes, past>>

\* The hook after an update, or the proxy after a wake-up.
InvalidateServiceCache(d) ==
    /\ d \in changed
    /\ cache' = Without(d.id, d.name)
    /\ changed' = changed \ {d}
    /\ UNCHANGED <<record, lookup, changes, past>>

Expires(k) ==
    /\ cache[k] # None
    /\ cache' = [cache EXCEPT ![k] = None]
    /\ UNCHANGED <<record, lookup, changed, changes, past>>

-----------------------------------------------------------------------------
(***************************************************************************)
(* Records                                                                 *)
(***************************************************************************)
\* A lookup that has read the record may cache it after the invalidation.
Changes(e, s) ==
    /\ e \in Events
    /\ changes < MaxChanges /\ changes' = changes + 1
    /\ record[s] # None
    /\ past' = [gone |-> past.gone \cup
                    CASE e = "start" -> {}
                      [] e = "rename" -> {record[s].name}
                      [] e = "delete" -> {s, record[s].name},
                raced |-> past.raced \cup
                    {lookup[x].key : x \in {y \in Lookups :
                                lookup[y].at = "read" /\ lookup[y].dto.id = s}}]
    /\ UNCHANGED <<cache, lookup>>

Save(s, d) ==
    /\ record' = [record EXCEPT ![s] = d]
    /\ changed' = changed \cup {d}

\* A new address, port or status.
MarkService(s) == Changes("start", s) /\ Save(s, [record[s] EXCEPT !.address = changes + 1])

Rename(s, n) == n \notin Taken /\ Changes("rename", s) /\ Save(s, [record[s] EXCEPT !.name = n])

\* Nothing is invalidated.
Delete(s) ==
    /\ Changes("delete", s)
    /\ record' = [record EXCEPT ![s] = None]
    /\ UNCHANGED changed

\* Nor when a service takes a name that has been given up.
Create(s, n) ==
    /\ record[s] = None /\ "delete" \in Events
    /\ n \notin Taken
    /\ cache[s] = None /\ \A x \in Lookups : lookup[x] = Idle   \* s stands for a new id
    /\ record' = [record EXCEPT ![s] = Dto(s, n, changes)]
    /\ past' = [past EXCEPT !.gone = @ \ {s}]
    /\ UNCHANGED <<cache, lookup, changed, changes>>

-----------------------------------------------------------------------------
Next ==
    \/ \E x \in Lookups :
        \/ \E k \in Keys : FindServiceByIDOrName(x, k, "route")
        \/ \E s \in Ids : FindServiceByIDOrName(x, s, "deactivated")
        \/ Fills(x) \/ Deactivated(x)
    \/ \E d \in changed : InvalidateServiceCache(d)
    \/ \E k \in Keys : Expires(k)
    \/ \E s \in Ids :
        \/ MarkService(s) \/ Delete(s)
        \/ \E n \in Names : Rename(s, n) \/ Create(s, n)

Spec == Init /\ [][Next]_vars

-----------------------------------------------------------------------------
\* What is cached is true once every change has been followed by its
\* invalidation, but for names and ids given up and for lookups that had read before.
CachedIsTrue ==
    \A k \in Keys \ (past.gone \cup past.raced) :
        cache[k] # None /\ (\A d \in changed : d.id # cache[k].id) => cache[k] \in Found(k)
===============================================================================
