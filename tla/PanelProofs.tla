------------------------------ MODULE PanelProofs ------------------------------
(***************************************************************************)
(* Proofs about the views of the panel, for any values of the constants.   *)
(***************************************************************************)
EXTENDS Panel, WellFoundedInduction, TLAPS

-----------------------------------------------------------------------------
(***************************************************************************)
(* The domains.  Whatever the list does not show yet, a fetch or an answer *)
(* is to bring, unless a request failed.                                   *)
(***************************************************************************)
DomainsInv ==
    /\ net = [m \in Domains!Requests |-> net[m]]
    /\ cache = [list |-> cache.list, fetching |-> cache.fetching]
    /\ past = [failed |-> past.failed]
    /\ Domains!DomainListIsTrue

LEMMA DomainsInit == Domains!Init => DomainsInv
<1> SUFFICES ASSUME Domains!Init PROVE DomainsInv
  OBVIOUS
<1>1. \A n \in DomainNames : Domains!cardOf(n) = Domains!Absent
  BY DEF Domains!Init, Domains!cardOf, Domains!Absent
<1>2. Domains!DomainListIsTrue
  BY <1>1 DEF Domains!Init, Domains!DomainListIsTrue
<1> QED
  BY <1>2 DEF Domains!Init, DomainsInv

LEMMA DomainsStep == DomainsInv /\ [Domains!Next]_(Domains!vars) => DomainsInv'
<1> SUFFICES ASSUME DomainsInv, [Domains!Next]_(Domains!vars) PROVE DomainsInv'
  OBVIOUS
<1> DEFINE Quiet == \A m \in Domains!Requests : net[m] = Domains!Idle
           Cards == [n \in DomainNames |-> Domains!cardOf(n)]
<1>1. /\ net = [m \in Domains!Requests |-> net[m]]
      /\ Quiet /\ ~cache.fetching /\ ~past.failed => cache.list = Cards
      /\ cache = [list |-> cache.list, fetching |-> cache.fetching]
      /\ past = [failed |-> past.failed]
  BY DEF DomainsInv, Domains!DomainListIsTrue
<1>2. ASSUME NEW m \in Domains!Requests, NEW c, c.at # "idle", net' = [net EXCEPT ![m] = c],
             UNCHANGED <<cache, past>>
      PROVE  DomainsInv'
  <2>1. net' = [k \in Domains!Requests |-> net'[k]] /\ net'[m] = c /\ c # Domains!Idle
    BY <1>1, <1>2 DEF Domains!Idle
  <2> QED
    BY <1>1, <1>2, <2>1 DEF DomainsInv, Domains!DomainListIsTrue
<1>3. ASSUME NEW m \in Domains!Requests, net' = [net EXCEPT ![m] = Domains!Idle],
             \/ cache' = [cache EXCEPT !.fetching = TRUE] /\ past' = past
             \/ past' = [past EXCEPT !.failed = TRUE] /\ cache' = cache
      PROVE  DomainsInv'
  BY <1>1, <1>3 DEF DomainsInv, Domains!DomainListIsTrue
<1>4. ASSUME net' = net, UNCHANGED <<db, past>>,
             \/ cache' = cache \/ cache' = [cache EXCEPT !.fetching = TRUE]
             \/ cache' = [list |-> Cards, fetching |-> FALSE]
      PROVE  DomainsInv'
  <2>1. \A n \in DomainNames : Domains!cardOf(n)' = Domains!cardOf(n)
    BY <1>4 DEF Domains!cardOf
  <2>2. Cards' = Cards
    BY <2>1
  <2>3. cache' = [list |-> cache'.list, fetching |-> cache'.fetching]
    BY <1>1, <1>4
  <2>4. ~cache'.fetching => cache'.list = Cards \/ (cache'.list = cache.list /\ ~cache.fetching)
    BY <1>1, <1>4
  <2> HIDE DEF Cards
  <2> QED
    BY <1>1, <1>4, <2>2, <2>3, <2>4 DEF DomainsInv, Domains!DomainListIsTrue, Cards
<1>5. CASE Domains!createDomain \/ Domains!updateDomain \/ Domains!deleteDomain
  <2>1. /\ \E m \in {"create", "update", "delete"} : net' = [net EXCEPT ![m] = [at |-> "ok"]]
        /\ UNCHANGED <<cache, past>>
    BY <1>5 DEF Domains!createDomain, Domains!updateDomain, Domains!deleteDomain, Domains!Saved,
                Domains!Goto
  <2> QED
    BY <1>2, <2>1 DEF Domains!Requests
<1>6. ASSUME NEW m \in Domains!Requests, Domains!Fails(m) PROVE DomainsInv'
  BY <1>2, <1>6 DEF Domains!Fails, Domains!Goto
<1>7. CASE Domains!domainsQuery \/ Domains!Invalidated \/ Domains!closeModal \/ UNCHANGED Domains!vars
  <2>1. CASE Domains!domainsQuery
    BY <1>4, <2>1 DEF Domains!domainsQuery
  <2>2. CASE Domains!Invalidated
    BY <1>1, <1>4, <2>2 DEF Domains!Invalidated
  <2> QED
    BY <1>4, <1>7, <2>1, <2>2 DEF Domains!closeModal, Domains!vars
<1>8. ASSUME NEW kind, NEW n, Domains!openModal(kind, n) PROVE DomainsInv'
  BY <1>4, <1>8 DEF Domains!openModal
<1>9. ASSUME NEW n, Domains!handleDelete(n) PROVE DomainsInv'
  BY <1>4, <1>9 DEF Domains!handleDelete
<1>10. ASSUME NEW n, NEW h, Domains!handleFormSubmit(n, h) PROVE DomainsInv'
  <2> DEFINE c == [at |-> "sent", https |-> h,
                   name |-> IF ui.modal.name = None THEN n ELSE ui.modal.name]
  <2>1. c.at # "idle" /\ net' = [net EXCEPT ![ui.modal.at] = c]
    BY <1>10 DEF Domains!handleFormSubmit, Domains!Goto
  <2> HIDE DEF c
  <2>2. CASE ui.modal.at \in Domains!Requests
    BY <1>2, <1>10, <2>1, <2>2 DEF Domains!handleFormSubmit
  <2>3. CASE ui.modal.at \notin Domains!Requests
    <3>1. net' = net
      BY <1>1, <2>1, <2>3
    <3> QED
      BY <1>4, <1>10, <3>1 DEF Domains!handleFormSubmit
  <2> QED
    BY <2>2, <2>3
<1>11. ASSUME NEW ok, Domains!confirm(ok) PROVE DomainsInv'
  <2> DEFINE c == [at |-> "sent", name |-> ui.dialog]
  <2>1. CASE net' = [net EXCEPT !["delete"] = c]
    <3>1. c.at # "idle" /\ UNCHANGED <<cache, past>>
      BY <1>11 DEF Domains!confirm
    <3> HIDE DEF c
    <3> QED
      BY <1>2, <2>1, <3>1 DEF Domains!Requests
  <2>2. CASE net' = net
    BY <1>4, <1>11, <2>2 DEF Domains!confirm
  <2> QED
    BY <1>11, <2>1, <2>2 DEF Domains!confirm, Domains!Goto
<1>12. ASSUME NEW m \in Domains!Requests, Domains!saveSucceeds(m) \/ Domains!MutationFails(m)
       PROVE  DomainsInv'
  <2>1. net' = [net EXCEPT ![m] = Domains!Idle]
    BY <1>12 DEF Domains!saveSucceeds, Domains!MutationFails, Domains!Goto
  <2>2. \/ cache' = [cache EXCEPT !.fetching = TRUE] /\ past' = past
        \/ past' = [past EXCEPT !.failed = TRUE] /\ cache' = cache
    BY <1>12 DEF Domains!saveSucceeds, Domains!MutationFails, Domains!handleSuccess
  <2> QED
    BY <1>3, <2>1, <2>2
<1>13. CASE Domains!deleteSucceeds
  BY <1>3, <1>13 DEF Domains!deleteSucceeds, Domains!Goto, Domains!handleSuccess, Domains!Requests
<1> QED
  BY <1>5, <1>6, <1>7, <1>8, <1>9, <1>10, <1>11, <1>12, <1>13 DEF Domains!Next

-----------------------------------------------------------------------------
(***************************************************************************)
(* The snapshots.                                                          *)
(***************************************************************************)
Shape ==
    /\ db = [status |-> db.status, orders |-> db.orders, data |-> db.data, edits |-> db.edits,
             head |-> db.head, late |-> db.late, saved |-> db.saved]
    /\ db.saved \in [Ids -> [type : {"none", "manual", "pre-restore"}, data : Nat]]
    /\ db.head \in Ids \cup {None} /\ db.late \in BOOLEAN
    /\ db.data \in Nat /\ db.edits \in Nat
    /\ cache = [status |-> cache.status, list |-> cache.list, fetching |-> cache.fetching]
    /\ past = [disturbed |-> past.disturbed, failed |-> past.failed]
    /\ net = [m \in Snapshots!Requests |-> net[m]]
    /\ past.disturbed \in BOOLEAN
    /\ ui = [modal |-> ui.modal, dialog |-> ui.dialog, clicks |-> ui.clicks]

(* A request is confirmed while there is none of its kind.                  *)
DialogInv ==
    \/ ui.dialog.kind = "none"
    \/ ui.dialog.kind \in {"restore", "delete"} /\ net[ui.dialog.kind].at = "idle"

(* What a request is to do next, once it has made its snapshot.             *)
Then(m, step) == net[m].then.at = step

RequestsInv ==
    /\ \A m \in {"create", "restore"} :
        /\ net[m].at \in {"zip", "record"} => net[m].type \in {"manual", "pre-restore"}
        /\ net[m].at \in {"zip", "record", "head"} => Then(m, "ok") \/ Then(m, "remove")
        /\ net[m].at = "head" => net[m].made \in Ids
        /\ net[m].at = "record" => net[m].data \in Nat \ {Snapshots!Gone}
    /\ net["create"].at \in {"idle", "sent", "zip", "record", "head", "ok", "error"}
    /\ net["create"].at \in {"zip", "record", "head"} => Then("create", "ok")
    /\ net["restore"].at = "copy" =>
        db.data = Snapshots!Gone /\ net["restore"].id \in Ids /\ net["restore"].data \in Nat
    /\ \A i \in Snapshots!Stored : db.saved[i].type # "none"

(* The data are those of the current snapshot.                              *)
HeadTrue ==
    ~past.disturbed /\ ~Snapshots!isDirty /\ db.data # Snapshots!Gone =>
        \/ net["restore"].at = "head" /\ Then("restore", "ok")
        \/ net["delete"].at = "clear" /\ net["delete"].id = db.head
        \/ db.head \in Snapshots!Stored /\ db.saved[db.head].data = db.data

(* The data are in a snapshot, or are about to be.                          *)
RestoreInv ==
    ~past.disturbed /\ db.data # Snapshots!Gone =>
        /\ net["restore"].at = "record" /\ Then("restore", "remove") =>
            net["restore"].data = db.data \/ Snapshots!IsSaved(db.data)
        /\ net["restore"].at = "head" /\ Then("restore", "remove") => Snapshots!IsSaved(db.data)
        /\ net["restore"].at = "remove" =>
            \/ Snapshots!IsSaved(db.data)
            \/ db.saved[net["restore"].id].type = "pre-restore"

SnapshotListInv ==
    (\A m \in {"create", "restore", "delete"} : net[m].at = "idle") /\ ~cache.fetching /\ ~past.failed
        => cache.list = Snapshots!Stored

SnapshotsInv == Shape /\ DialogInv /\ RequestsInv /\ HeadTrue /\ RestoreInv /\ SnapshotListInv

LEMMA SnapshotsInit == Snapshots!Init => SnapshotsInv
<1> SUFFICES ASSUME Snapshots!Init PROVE SnapshotsInv
  OBVIOUS
<1>1. PICK i \in Ids \cup {None} :
        /\ db = [status |-> "stopped", orders |-> <<>>, data |-> 1, edits |-> 0,
                 head |-> i, late |-> FALSE,
                 saved |-> [j \in Ids |-> IF j = i THEN [type |-> "manual", data |-> 1]
                                         ELSE Snapshots!NoSnapshot]]
        /\ cache = [status |-> "stopped", list |-> {i} \ {None}, fetching |-> FALSE]
        /\ net = [m \in Snapshots!Requests |-> [at |-> "idle"]]
        /\ past = [disturbed |-> FALSE, failed |-> FALSE]
        /\ ui = [modal |-> "none", dialog |-> [kind |-> "none"], clicks |-> 0]
  BY DEF Snapshots!Init, Snapshots!Idle
<1>2. Snapshots!NoSnapshot = [type |-> "none", data |-> 0] /\ Snapshots!Gone = 0
  BY DEF Snapshots!NoSnapshot, Snapshots!Gone
<1>3. /\ db.saved \in [Ids -> [type : {"none", "manual", "pre-restore"}, data : Nat]]
      /\ Snapshots!Stored = {i} \ {None}
  BY <1>1, <1>2, PanelAssumption DEF Snapshots!Stored, Snapshots!SnapshotsAssumption
<1>4. Shape
  BY <1>1, <1>3 DEF Shape
<1>5. \A m \in {"create", "restore", "delete"} : net[m].at = "idle"
  BY <1>1 DEF Snapshots!Requests
<1>6. RequestsInv /\ DialogInv
  BY <1>1, <1>2, <1>3, <1>5 DEF RequestsInv, DialogInv
<1>7. HeadTrue
  BY <1>1, <1>3 DEF HeadTrue, Snapshots!isDirty
<1>8. RestoreInv /\ SnapshotListInv
  BY <1>1, <1>3, <1>5 DEF RestoreInv, SnapshotListInv
<1> QED
  BY <1>4, <1>6, <1>7, <1>8 DEF SnapshotsInv

(* What the steps of a request leave alone.                                 *)
LEMMA NetOfSnapshots ==
  ASSUME Shape, NEW m \in Snapshots!Requests, NEW c, net' = [net EXCEPT ![m] = c]
  PROVE  /\ net' = [k \in Snapshots!Requests |-> net'[k]]
         /\ net'[m] = c
         /\ \A k \in Snapshots!Requests : k # m => net'[k] = net[k]
BY DEF Shape

(* A snapshot is stored or there is nothing in its place.                   *)
LEMMA StoredOrNot ==
  ASSUME Shape, NEW i \in Ids
  PROVE  i \in Snapshots!Stored <=> db.saved[i] # [type |-> "none", data |-> 0]
BY DEF Snapshots!Stored, Snapshots!NoSnapshot, Snapshots!Gone

(* The steps that order nothing and change no data.                         *)
LEMMA LooksKeep ==
  ASSUME SnapshotsInv, net' = net,
         db'.data = db.data, db'.saved = db.saved, db'.head = db.head, db'.late = db.late,
         db' = [status |-> db'.status, orders |-> db'.orders, data |-> db.data,
                edits |-> db.edits, head |-> db.head, late |-> db.late, saved |-> db.saved],
         cache' = [status |-> cache'.status, list |-> cache'.list, fetching |-> cache'.fetching],
         past' = [disturbed |-> past'.disturbed, failed |-> past.failed],
         past'.disturbed \in BOOLEAN, past.disturbed => past'.disturbed,
         ui' = [modal |-> ui'.modal, dialog |-> ui'.dialog, clicks |-> ui'.clicks],
         DialogInv',
         \/ cache'.list = cache.list /\ cache'.fetching = cache.fetching
         \/ cache'.list = Snapshots!Stored
  PROVE  SnapshotsInv'
<1>1. Shape'
  BY DEF SnapshotsInv, Shape
<1>2. Snapshots!Stored' = Snapshots!Stored
  BY DEF Snapshots!Stored
<1>3. RequestsInv'
  BY <1>2 DEF SnapshotsInv, RequestsInv, Then
<1>4. HeadTrue'
  BY <1>2 DEF SnapshotsInv, HeadTrue, Then, Snapshots!isDirty
<1>5. RestoreInv'
  BY <1>2 DEF SnapshotsInv, RestoreInv, Then, Snapshots!IsSaved
<1>6. SnapshotListInv'
  BY <1>2 DEF SnapshotsInv, SnapshotListInv
<1> QED
  BY <1>1, <1>3, <1>4, <1>5, <1>6 DEF SnapshotsInv

(* The steps that change the data.                                          *)
LEMMA ChangesKeep ==
  ASSUME SnapshotsInv, net' = net, cache' = cache, ui' = ui, NEW how,
         Snapshots!MayChange(how),
         db'.data \in Nat, db'.edits \in Nat, db'.saved = db.saved,
         db'.head \in {db.head, None}, db'.late \in BOOLEAN,
         db' = [status |-> db.status, orders |-> db.orders, data |-> db'.data,
                edits |-> db'.edits, head |-> db'.head, late |-> db'.late, saved |-> db.saved],
         past' = [disturbed |-> past'.disturbed, failed |-> past.failed],
         past'.disturbed \in BOOLEAN,
         ~past'.disturbed =>
            /\ net["restore"].at = "idle"
            /\ db'.head = None \/ db'.late
  PROVE  SnapshotsInv'
<1>1. Shape'
  BY DEF SnapshotsInv, Shape
<1>2. Snapshots!Stored' = Snapshots!Stored
  BY DEF Snapshots!Stored
<1>3. RequestsInv' /\ DialogInv'
  BY <1>2 DEF SnapshotsInv, RequestsInv, DialogInv, Then, Snapshots!MayChange
<1>4. HeadTrue'
  BY DEF HeadTrue, Snapshots!isDirty
<1>5. RestoreInv'
  BY DEF RestoreInv
<1>6. SnapshotListInv'
  BY <1>2 DEF SnapshotsInv, SnapshotListInv
<1> QED
  BY <1>1, <1>3, <1>4, <1>5, <1>6 DEF SnapshotsInv

(* The steps of a request that leave what the launcher has as it is.        *)
LEMMA AnswersKeep ==
  ASSUME SnapshotsInv, NEW m \in Snapshots!Requests, NEW c, net' = [net EXCEPT ![m] = c],
         db' = db \/ db' = [db EXCEPT !.orders = db'.orders],
         cache' = [status |-> cache.status, list |-> cache.list, fetching |-> cache'.fetching],
         past' = [disturbed |-> past.disturbed, failed |-> past'.failed],
         ui' = [modal |-> ui'.modal, dialog |-> ui'.dialog, clicks |-> ui'.clicks],
         ui'.dialog.kind = "none" \/ (ui'.dialog = ui.dialog /\ (ui.dialog.kind # m \/ c.at = "idle")),
         c.at \in {"idle", "sent", "ok", "error"},
         net[m].at \notin {"head", "clear"},
         cache.fetching => cache'.fetching, past.failed => past'.failed,
         m # "command" => c.at # "idle" \/ cache'.fetching \/ past'.failed
  PROVE  SnapshotsInv'
<1> USE DEF Snapshots!Requests
<1>1. /\ net' = [k \in Snapshots!Requests |-> net'[k]]
      /\ net'[m] = c
      /\ \A k \in Snapshots!Requests : k # m => net'[k] = net[k]
  BY NetOfSnapshots DEF SnapshotsInv
<1>2. /\ db'.data = db.data /\ db'.saved = db.saved /\ db'.head = db.head /\ db'.late = db.late
      /\ db' = [status |-> db'.status, orders |-> db'.orders, data |-> db.data,
                edits |-> db.edits, head |-> db.head, late |-> db.late, saved |-> db.saved]
  BY DEF SnapshotsInv, Shape
<1>3. Shape'
  BY <1>1, <1>2 DEF SnapshotsInv, Shape
<1>4. Snapshots!Stored' = Snapshots!Stored
  BY <1>2 DEF Snapshots!Stored
<1>5. RequestsInv'
  BY <1>1, <1>2, <1>4 DEF SnapshotsInv, RequestsInv, Then
<1>6. DialogInv'
  BY <1>1 DEF SnapshotsInv, DialogInv
<1>7. HeadTrue'
  BY <1>1, <1>2, <1>4 DEF SnapshotsInv, HeadTrue, Then, Snapshots!isDirty
<1>8. RestoreInv'
  BY <1>1, <1>2, <1>4 DEF SnapshotsInv, RestoreInv, Then, Snapshots!IsSaved
<1>9. SnapshotListInv'
  BY <1>1, <1>4 DEF SnapshotsInv, SnapshotListInv
<1> QED
  BY <1>3, <1>5, <1>6, <1>7, <1>8, <1>9 DEF SnapshotsInv

LEMMA BeginsKeep ==
  ASSUME SnapshotsInv, NEW m \in {"create", "restore"}, NEW c,
         net' = [net EXCEPT ![m] = c], net[m].at = "sent",
         UNCHANGED <<db, cache, ui>>,
         past' = [past EXCEPT !.disturbed = past'.disturbed],
         past'.disturbed \in BOOLEAN, past.disturbed => past'.disturbed,
         \/ c.at = "zip" /\ c.type \in {"manual", "pre-restore"}
            /\ c.then.at = (IF m = "create" THEN "ok" ELSE "remove")
         \/ /\ m = "restore" /\ c.at = "remove" /\ c.id \in Snapshots!Stored
            /\ past'.disturbed \/ net["delete"].at = "idle"
            /\ db.saved[c.id].type = "manual" => ~Snapshots!isDirty
  PROVE  SnapshotsInv'
<1> USE DEF Snapshots!Requests, Snapshots!Gone
<1>1. /\ net' = [k \in Snapshots!Requests |-> net'[k]]
      /\ net'[m] = c
      /\ \A k \in Snapshots!Requests : k # m => net'[k] = net[k]
  <2>1. m \in Snapshots!Requests /\ Shape
    BY DEF SnapshotsInv
  <2> QED
    BY <2>1, NetOfSnapshots
<1>2. Shape'
  BY <1>1 DEF SnapshotsInv, Shape
<1>3. Snapshots!Stored' = Snapshots!Stored
  BY DEF Snapshots!Stored
<1>4. RequestsInv' /\ DialogInv'
  BY <1>1, <1>3 DEF SnapshotsInv, RequestsInv, DialogInv, Then
<1>5. HeadTrue'
  BY <1>1, <1>3 DEF SnapshotsInv, Shape, HeadTrue, Then, Snapshots!isDirty
<1>6. RestoreInv'
  <2>1. ASSUME ~past'.disturbed, db.data # 0, c.at = "remove"
        PROVE  Snapshots!IsSaved(db.data) \/ db.saved[c.id].type = "pre-restore"
    <3>1. db.saved[c.id].type \in {"manual", "pre-restore"}
      BY <2>1 DEF SnapshotsInv, Shape, RequestsInv, Snapshots!Stored
    <3>2. net["delete"].at = "idle" /\ net["restore"].at = "sent" /\ ~past.disturbed
      BY <2>1
    <3>3. CASE db.saved[c.id].type = "manual"
      <4>1. ~Snapshots!isDirty
        BY <2>1, <3>3
      <4>2. db.head \in Snapshots!Stored /\ db.saved[db.head].data = db.data
        BY <2>1, <3>2, <4>1 DEF SnapshotsInv, HeadTrue
      <4> QED
        BY <4>2 DEF Snapshots!IsSaved
    <3> QED
      BY <3>1, <3>3
  <2> QED
    BY <1>1, <1>3, <2>1 DEF SnapshotsInv, RestoreInv, Then, Snapshots!IsSaved
<1>7. SnapshotListInv'
  BY <1>1, <1>3 DEF SnapshotsInv, SnapshotListInv
<1> QED
  BY <1>2, <1>4, <1>5, <1>6, <1>7 DEF SnapshotsInv

LEMMA ZipKeeps ==
  ASSUME SnapshotsInv, NEW m \in {"create", "restore"}, Snapshots!Zip(m)
  PROVE  SnapshotsInv'
<1> USE DEF Snapshots!Requests, Snapshots!At, Snapshots!Goto
<1> DEFINE c == [at |-> "record", type |-> net[m].type, then |-> net[m].then, data |-> db.data]
<1>1. /\ net' = [net EXCEPT ![m] = c] /\ net[m].at = "zip" /\ db.data # 0
      /\ UNCHANGED <<db, cache, ui, past>>
  BY DEF Snapshots!Zip, Snapshots!Gone
<1>2. /\ net' = [k \in Snapshots!Requests |-> net'[k]]
      /\ net'[m] = c
      /\ \A k \in Snapshots!Requests : k # m => net'[k] = net[k]
  <2>1. m \in Snapshots!Requests /\ Shape
    BY DEF SnapshotsInv
  <2> HIDE DEF c
  <2> QED
    BY <1>1, <2>1, NetOfSnapshots
<1>3. Shape'
  BY <1>1, <1>2 DEF SnapshotsInv, Shape
<1>4. Snapshots!Stored' = Snapshots!Stored
  BY <1>1 DEF Snapshots!Stored
<1>5. RequestsInv' /\ DialogInv'
  BY <1>1, <1>2, <1>4 DEF SnapshotsInv, Shape, RequestsInv, DialogInv, Then, Snapshots!Gone
<1>6. HeadTrue'
  BY <1>1, <1>2, <1>4 DEF SnapshotsInv, HeadTrue, Then, Snapshots!isDirty
<1>7. RestoreInv'
  BY <1>1, <1>2, <1>4 DEF SnapshotsInv, RestoreInv, Then, Snapshots!IsSaved
<1>8. SnapshotListInv'
  BY <1>1, <1>2, <1>4 DEF SnapshotsInv, SnapshotListInv
<1> QED
  BY <1>3, <1>5, <1>6, <1>7, <1>8 DEF SnapshotsInv

LEMMA RecordKeeps ==
  ASSUME SnapshotsInv, NEW m \in {"create", "restore"}, NEW i \in Ids, Snapshots!SaveRecord(m, i)
  PROVE  SnapshotsInv'
<1> USE DEF Snapshots!Requests, Snapshots!At, Snapshots!Goto
<1> DEFINE c == [at |-> "head", made |-> i, then |-> net[m].then]
           r == [type |-> net[m].type, data |-> net[m].data]
<1>1. /\ net' = [net EXCEPT ![m] = c] /\ net[m].at = "record"
      /\ db' = [db EXCEPT !.saved[i] = r]
      /\ i \notin Snapshots!Stored
      /\ UNCHANGED <<cache, ui, past>>
  BY DEF Snapshots!SaveRecord
<1>2. /\ net' = [k \in Snapshots!Requests |-> net'[k]]
      /\ net'[m] = c
      /\ \A k \in Snapshots!Requests : k # m => net'[k] = net[k]
  <2>1. m \in Snapshots!Requests /\ Shape
    BY DEF SnapshotsInv
  <2> HIDE DEF c
  <2> QED
    BY <1>1, <2>1, NetOfSnapshots
<1>3. /\ r \in [type : {"manual", "pre-restore"}, data : Nat]
      /\ db'.saved = [db.saved EXCEPT ![i] = r]
      /\ db'.data = db.data /\ db'.head = db.head /\ db'.late = db.late
      /\ db' = [status |-> db.status, orders |-> db.orders, data |-> db.data, edits |-> db.edits,
                head |-> db.head, late |-> db.late, saved |-> db'.saved]
  BY <1>1 DEF SnapshotsInv, Shape, RequestsInv
<1>4. db'.saved \in [Ids -> [type : {"none", "manual", "pre-restore"}, data : Nat]]
  BY <1>3 DEF SnapshotsInv, Shape
<1>5. Shape'
  BY <1>1, <1>2, <1>3, <1>4 DEF SnapshotsInv, Shape
<1>6. /\ \A j \in Ids : db'.saved[j] = IF j = i THEN r ELSE db.saved[j]
      /\ Snapshots!Stored' = Snapshots!Stored \cup {i}
  BY <1>3 DEF SnapshotsInv, Shape, Snapshots!Stored, Snapshots!NoSnapshot
<1>7. RequestsInv' /\ DialogInv'
  BY <1>1, <1>2, <1>3, <1>6 DEF SnapshotsInv, RequestsInv, DialogInv, Then, Snapshots!Stored
<1>8. \A d : Snapshots!IsSaved(d) => \E j \in Ids : j \in Snapshots!Stored' /\ db'.saved[j].data = d
  BY <1>1, <1>6 DEF Snapshots!IsSaved, Snapshots!Stored
<1>9. \E j \in Ids : j \in Snapshots!Stored' /\ db'.saved[j].data = net[m].data
  BY <1>6
<1>10. HeadTrue'
  BY <1>1, <1>2, <1>3, <1>6 DEF SnapshotsInv, HeadTrue, Then, Snapshots!isDirty, Snapshots!Stored
<1>11. RestoreInv'
  <2>1. ASSUME ~past.disturbed, db.data # 0
        PROVE  /\ net'["restore"].at = "record" /\ net'["restore"].then.at = "remove" =>
                    net'["restore"].data = db.data \/ Snapshots!IsSaved(db.data)
               /\ net'["restore"].at = "head" /\ net'["restore"].then.at = "remove" =>
                    Snapshots!IsSaved(db.data) \/ (m = "restore" /\ net[m].data = db.data)
               /\ net'["restore"].at = "remove" =>
                    \/ Snapshots!IsSaved(db.data)
                    \/ db.saved[net'["restore"].id].type = "pre-restore"
    BY <1>1, <1>2, <2>1 DEF SnapshotsInv, RestoreInv, Then, Snapshots!Gone
  <2>2. net'["restore"].at = "remove" /\ db.saved[net'["restore"].id].type = "pre-restore" =>
            \/ db'.saved[net'["restore"].id].type = "pre-restore"
            \/ net'["restore"].id = i
    BY <1>3 DEF SnapshotsInv, Shape
  <2>3. db.saved[i].type = "none"
    BY <1>1, StoredOrNot DEF SnapshotsInv
  <2> QED
    BY <1>1, <1>3, <1>8, <1>9, <2>1, <2>2, <2>3
    DEF RestoreInv, Then, Snapshots!IsSaved, Snapshots!Gone
<1>12. SnapshotListInv'
  BY <1>1, <1>2 DEF SnapshotsInv, SnapshotListInv
<1> QED
  BY <1>5, <1>7, <1>10, <1>11, <1>12 DEF SnapshotsInv

(* The mark of what is now the current snapshot, set or not.                *)
LEMMA MarkKeeps ==
  ASSUME SnapshotsInv, NEW m \in {"create", "restore"}, Snapshots!MarkCurrent(m)
  PROVE  SnapshotsInv'
<1> USE DEF Snapshots!Requests, Snapshots!At, Snapshots!Goto, Snapshots!Gone
<1> DEFINE i == net[m].made
<1>1. /\ net' = [net EXCEPT ![m] = net[m].then] /\ net[m].at = "head"
      /\ i \in Snapshots!Stored
      /\ UNCHANGED <<cache, ui>>
      /\ Snapshots!setCurrentSnapshotID(i)
  BY DEF Snapshots!MarkCurrent
<1>2. /\ net' = [k \in Snapshots!Requests |-> net'[k]]
      /\ net'[m] = net[m].then
      /\ \A k \in Snapshots!Requests : k # m => net'[k] = net[k]
  <2>1. m \in Snapshots!Requests /\ Shape
    BY DEF SnapshotsInv
  <2> QED
    BY <1>1, <2>1, NetOfSnapshots
<1>3. /\ net'[m].at \in {"ok", "remove"}
      /\ m = "create" => net'[m].at = "ok"
  BY <1>1, <1>2 DEF SnapshotsInv, RequestsInv, Then
<1>4. /\ i \in Ids
      /\ \/ /\ db' = [db EXCEPT !.head = i, !.late = FALSE]
            /\ past' = [past EXCEPT !.disturbed = (db.data # db.saved[i].data)]
         \/ /\ db' = db
            /\ past' = [past EXCEPT !.disturbed =
                    @ \/ (~Snapshots!isDirty /\ db.data # db.saved[db.head].data)]
  BY <1>1 DEF Snapshots!Stored, Snapshots!setCurrentSnapshotID
<1>5. /\ db'.data = db.data /\ db'.saved = db.saved
      /\ past'.disturbed \in BOOLEAN /\ past'.failed = past.failed
      /\ past' = [disturbed |-> past'.disturbed, failed |-> past.failed]
      /\ db'.head \in Ids \cup {None} /\ db'.late \in BOOLEAN
      /\ db' = [status |-> db.status, orders |-> db.orders, data |-> db.data, edits |-> db.edits,
                head |-> db'.head, late |-> db'.late, saved |-> db.saved]
  BY <1>4 DEF SnapshotsInv, Shape
<1>6. \/ /\ db'.head = i /\ db'.late = FALSE
         /\ past'.disturbed <=> db.data # db.saved[i].data
      \/ /\ db'.head = db.head /\ db'.late = db.late
         /\ past'.disturbed <=>
                past.disturbed \/ (~Snapshots!isDirty /\ db.data # db.saved[db.head].data)
  BY <1>4 DEF SnapshotsInv, Shape
<1>7. Shape'
  BY <1>1, <1>2, <1>5 DEF SnapshotsInv, Shape
<1>8. Snapshots!Stored' = Snapshots!Stored
  BY <1>5 DEF Snapshots!Stored
<1>9. RequestsInv' /\ DialogInv'
  BY <1>1, <1>2, <1>3, <1>5, <1>8 DEF SnapshotsInv, RequestsInv, DialogInv, Then
<1>10. ASSUME ~Snapshots!isDirty', ~past'.disturbed, db.data # 0
       PROVE  db'.head \in Snapshots!Stored /\ db.saved[db'.head].data = db.data
  <2>1. db'.head # None
    BY <1>10 DEF Snapshots!isDirty
  <2>2. db'.head \in Ids /\ db.saved[db'.head].data = db.data
    BY <1>5, <1>6, <1>10, <2>1 DEF Snapshots!isDirty
  <2>3. db.saved[db'.head] # [type |-> "none", data |-> 0]
    BY <1>10, <2>2
  <2> QED
    BY <2>2, <2>3, StoredOrNot DEF SnapshotsInv
<1>11. HeadTrue'
  BY <1>5, <1>8, <1>10 DEF HeadTrue
<1>12. RestoreInv'
  <2>1. ASSUME ~past'.disturbed, db.data # 0
        PROVE  ~past.disturbed \/ Snapshots!IsSaved(db.data)
    BY <1>1, <1>6, <2>1 DEF Snapshots!IsSaved
  <2>2. ASSUME ~past'.disturbed, db.data # 0, net'["restore"].at = "remove"
        PROVE  \/ Snapshots!IsSaved(db.data)
               \/ db.saved[net'["restore"].id].type = "pre-restore"
    BY <1>1, <1>2, <1>3, <2>1, <2>2 DEF SnapshotsInv, RestoreInv, Then
  <2>3. ASSUME ~past'.disturbed, db.data # 0, net'["restore"].at \in {"record", "head"},
               net'["restore"].then.at = "remove"
        PROVE  \/ Snapshots!IsSaved(db.data)
               \/ net'["restore"].at = "record" /\ net'["restore"].data = db.data
    BY <1>1, <1>2, <1>3, <2>1, <2>3 DEF SnapshotsInv, RestoreInv, Then
  <2> QED
    BY <1>5, <1>8, <2>2, <2>3 DEF RestoreInv, Then, Snapshots!IsSaved
<1>13. SnapshotListInv'
  BY <1>1, <1>2, <1>3 DEF SnapshotsInv, SnapshotListInv
<1> QED
  BY <1>7, <1>9, <1>11, <1>12, <1>13 DEF SnapshotsInv

LEMMA MarkDeletedKeeps ==
  ASSUME SnapshotsInv, NEW m \in {"create", "restore"}, Snapshots!MarkDeleted(m)
  PROVE  SnapshotsInv'
<1> USE DEF Snapshots!Requests, Snapshots!At, Snapshots!Goto
<1>1. /\ net' = [net EXCEPT ![m] = net[m].then] /\ net[m].at = "head"
      /\ db' = [db EXCEPT !.head = net[m].made, !.late = FALSE]
      /\ past' = [past EXCEPT !.disturbed = TRUE]
      /\ UNCHANGED <<cache, ui>>
  BY DEF Snapshots!MarkDeleted
<1>2. /\ net' = [k \in Snapshots!Requests |-> net'[k]]
      /\ net'[m] = net[m].then
      /\ \A k \in Snapshots!Requests : k # m => net'[k] = net[k]
  <2>1. m \in Snapshots!Requests /\ Shape
    BY DEF SnapshotsInv
  <2> QED
    BY <1>1, <2>1, NetOfSnapshots
<1>3. /\ net'[m].at \in {"ok", "remove"}
      /\ m = "create" => net'[m].at = "ok"
      /\ net[m].made \in Ids
  BY <1>1, <1>2 DEF SnapshotsInv, RequestsInv, Then
<1>4. /\ db'.data = db.data /\ db'.saved = db.saved
      /\ past' = [disturbed |-> TRUE, failed |-> past.failed]
      /\ db' = [status |-> db.status, orders |-> db.orders, data |-> db.data, edits |-> db.edits,
                head |-> net[m].made, late |-> FALSE, saved |-> db.saved]
  BY <1>1 DEF SnapshotsInv, Shape
<1>5. Shape'
  BY <1>1, <1>2, <1>3, <1>4 DEF SnapshotsInv, Shape
<1>6. Snapshots!Stored' = Snapshots!Stored
  BY <1>4 DEF Snapshots!Stored
<1>7. RequestsInv' /\ DialogInv'
  BY <1>1, <1>2, <1>3, <1>4, <1>6 DEF SnapshotsInv, RequestsInv, DialogInv, Then
<1>8. HeadTrue' /\ RestoreInv'
  BY <1>4 DEF HeadTrue, RestoreInv
<1>9. SnapshotListInv'
  BY <1>1, <1>2, <1>3 DEF SnapshotsInv, SnapshotListInv
<1> QED
  BY <1>5, <1>7, <1>8, <1>9 DEF SnapshotsInv

(* The directory is removed and comes back with what the snapshot holds.    *)
LEMMA ReplacesKeep ==
  ASSUME SnapshotsInv, Snapshots!RemoveData \/ Snapshots!CopyData
  PROVE  SnapshotsInv'
<1> USE DEF Snapshots!Requests, Snapshots!At, Snapshots!Goto, Snapshots!Gone
<1> DEFINE r == net["restore"]
           copy == [at |-> "copy", id |-> r.id, data |-> db.saved[r.id].data]
           head == [at |-> "head", made |-> r.id, then |-> [at |-> "ok"]]
<1>1. /\ UNCHANGED <<cache, ui, past>>
      /\ \/ /\ r.at = "remove" /\ r.id \in Ids
            /\ db' = [db EXCEPT !.data = 0] /\ net' = [net EXCEPT !["restore"] = copy]
         \/ /\ r.at = "copy"
            /\ db' = [db EXCEPT !.data = r.data] /\ net' = [net EXCEPT !["restore"] = head]
  BY DEF Snapshots!RemoveData, Snapshots!CopyData, Snapshots!Stored
<1>2. /\ net' = [k \in Snapshots!Requests |-> net'[k]]
      /\ \A k \in Snapshots!Requests : k # "restore" => net'[k] = net[k]
      /\ \/ r.at = "remove" /\ net'["restore"] = copy /\ db'.data = 0
         \/ r.at = "copy" /\ net'["restore"] = head /\ db'.data = r.data
  BY <1>1 DEF SnapshotsInv, Shape
<1>3. /\ db'.data \in Nat /\ db'.saved = db.saved /\ db'.head = db.head /\ db'.late = db.late
      /\ db' = [status |-> db.status, orders |-> db.orders, data |-> db'.data, edits |-> db.edits,
                head |-> db.head, late |-> db.late, saved |-> db.saved]
      /\ r.id \in Ids /\ copy.data \in Nat
  BY <1>1 DEF SnapshotsInv, Shape, RequestsInv
<1>4. Shape'
  BY <1>1, <1>2, <1>3 DEF SnapshotsInv, Shape
<1>5. Snapshots!Stored' = Snapshots!Stored
  BY <1>3 DEF Snapshots!Stored
<1>6. RequestsInv' /\ DialogInv'
  BY <1>1, <1>2, <1>3, <1>5 DEF SnapshotsInv, RequestsInv, DialogInv, Then
<1>7. HeadTrue'
  BY <1>2 DEF HeadTrue, Then
<1>8. RestoreInv'
  BY <1>2 DEF RestoreInv, Then
<1>9. SnapshotListInv'
  BY <1>1, <1>2, <1>5 DEF SnapshotsInv, SnapshotListInv
<1> QED
  BY <1>4, <1>6, <1>7, <1>8, <1>9 DEF SnapshotsInv

LEMMA DeleteKeeps ==
  ASSUME SnapshotsInv, Snapshots!DeleteSnapshot
  PROVE  SnapshotsInv'
<1> USE DEF Snapshots!Requests, Snapshots!At, Snapshots!Goto, Snapshots!Gone
<1> DEFINE id == net["delete"].id
           none == [type |-> "none", data |-> 0]
<1>1. /\ net["delete"].at = "sent" /\ id \in Snapshots!Stored /\ id \in Ids
      /\ net' = [net EXCEPT !["delete"] = [at |-> "clear", id |-> id]]
      /\ db' = [db EXCEPT !.saved[id] = none]
      /\ past' = [past EXCEPT !.disturbed =
                @ \/ net["create"].at # "idle" \/ net["restore"].at # "idle"]
      /\ UNCHANGED <<cache, ui>>
  BY DEF Snapshots!DeleteSnapshot, Snapshots!Stored, Snapshots!NoSnapshot, Snapshots!Disturbance,
         Snapshots!Busy
<1>2. /\ net' = [k \in Snapshots!Requests |-> net'[k]]
      /\ net'["delete"].at = "clear" /\ net'["delete"].id = id
      /\ \A k \in Snapshots!Requests : k # "delete" => net'[k] = net[k]
  BY <1>1 DEF SnapshotsInv, Shape
<1>3. /\ db'.data = db.data /\ db'.head = db.head /\ db'.late = db.late
      /\ db'.saved = [db.saved EXCEPT ![id] = none]
      /\ db' = [status |-> db.status, orders |-> db.orders, data |-> db.data, edits |-> db.edits,
                head |-> db.head, late |-> db.late, saved |-> db'.saved]
      /\ past' = [disturbed |-> past'.disturbed, failed |-> past.failed]
      /\ past'.disturbed \in BOOLEAN
      /\ ~past'.disturbed => ~past.disturbed /\ net["restore"].at = "idle"
  BY <1>1 DEF SnapshotsInv, Shape
<1>4. /\ db'.saved \in [Ids -> [type : {"none", "manual", "pre-restore"}, data : Nat]]
      /\ \A j \in Ids : db'.saved[j] = IF j = id THEN none ELSE db.saved[j]
  BY <1>1, <1>3 DEF SnapshotsInv, Shape
<1>5. Shape'
  BY <1>1, <1>2, <1>3, <1>4 DEF SnapshotsInv, Shape
<1>6. Snapshots!Stored' = Snapshots!Stored \ {id}
  BY <1>4 DEF Snapshots!Stored, Snapshots!NoSnapshot
<1>7. RequestsInv' /\ DialogInv'
  BY <1>1, <1>2, <1>3, <1>4, <1>6
  DEF SnapshotsInv, RequestsInv, DialogInv, Then, Snapshots!Stored
<1>8. HeadTrue'
  <2>1. ASSUME ~past'.disturbed, ~Snapshots!isDirty, db.data # 0, db.head # id
        PROVE  db.head \in Snapshots!Stored /\ db.saved[db.head].data = db.data
    BY <1>1, <1>3, <2>1 DEF SnapshotsInv, HeadTrue
  <2>2. Snapshots!isDirty' = Snapshots!isDirty
    BY <1>3 DEF Snapshots!isDirty
  <2>3. db.head \in Snapshots!Stored => db.head \in Ids
    BY DEF Snapshots!Stored
  <2> QED
    BY <1>2, <1>3, <1>4, <1>6, <2>1, <2>2, <2>3 DEF HeadTrue
<1>9. RestoreInv'
  BY <1>2, <1>3 DEF RestoreInv, Then
<1>10. SnapshotListInv'
  BY <1>2 DEF SnapshotListInv
<1> QED
  BY <1>5, <1>7, <1>8, <1>9, <1>10 DEF SnapshotsInv

LEMMA ClearKeeps ==
  ASSUME SnapshotsInv, Snapshots!ClearCurrent
  PROVE  SnapshotsInv'
<1> USE DEF Snapshots!Requests, Snapshots!At, Snapshots!Goto, Snapshots!Gone
<1> DEFINE id == net["delete"].id
<1>1. /\ net["delete"].at = "clear"
      /\ net' = [net EXCEPT !["delete"] = [at |-> "ok"]]
      /\ UNCHANGED <<cache, ui>>
      /\ \/ db' = [db EXCEPT !.head = IF @ = id THEN None ELSE @] /\ past' = past
         \/ db' = db /\ past' = [past EXCEPT !.disturbed = TRUE]
  BY DEF Snapshots!ClearCurrent
<1>2. /\ net' = [k \in Snapshots!Requests |-> net'[k]]
      /\ net'["delete"].at = "ok"
      /\ \A k \in Snapshots!Requests : k # "delete" => net'[k] = net[k]
  BY <1>1 DEF SnapshotsInv, Shape
<1>3. /\ db'.data = db.data /\ db'.saved = db.saved /\ db'.late = db.late
      /\ db'.head \in {db.head, None}
      /\ db' = [status |-> db.status, orders |-> db.orders, data |-> db.data, edits |-> db.edits,
                head |-> db'.head, late |-> db.late, saved |-> db.saved]
      /\ past' = [disturbed |-> past'.disturbed, failed |-> past.failed]
      /\ past'.disturbed \in BOOLEAN
      /\ ~past'.disturbed => ~past.disturbed /\ (db'.head = None \/ (db'.head = db.head /\ db.head # id))
  BY <1>1 DEF SnapshotsInv, Shape
<1>4. Shape'
  BY <1>1, <1>2, <1>3 DEF SnapshotsInv, Shape
<1>5. Snapshots!Stored' = Snapshots!Stored
  BY <1>3 DEF Snapshots!Stored
<1>6. RequestsInv' /\ DialogInv'
  BY <1>1, <1>2, <1>3, <1>5 DEF SnapshotsInv, RequestsInv, DialogInv, Then
<1>7. HeadTrue'
  BY <1>2, <1>3, <1>5 DEF SnapshotsInv, HeadTrue, Then, Snapshots!isDirty
<1>8. RestoreInv'
  BY <1>2, <1>3, <1>5 DEF SnapshotsInv, RestoreInv, Then, Snapshots!IsSaved
<1>9. SnapshotListInv'
  BY <1>2 DEF SnapshotListInv
<1> QED
  BY <1>4, <1>6, <1>7, <1>8, <1>9 DEF SnapshotsInv

LEMMA SnapshotsStep == SnapshotsInv /\ [Snapshots!Next]_(Snapshots!vars) => SnapshotsInv'
<1> SUFFICES ASSUME SnapshotsInv, [Snapshots!Next]_(Snapshots!vars) PROVE SnapshotsInv'
  OBVIOUS
<1> USE DEF Snapshots!Requests
<1>1. Shape /\ DialogInv /\ RequestsInv
  BY DEF SnapshotsInv
<1>2. CASE Snapshots!SaveFile \/ Snapshots!RenameFile \/ Snapshots!WriteDatabase
  <2>1. PICK how, h, l, d :
            /\ Snapshots!MayChange(how)
            /\ h \in {db.head, None} /\ l \in BOOLEAN /\ d \in BOOLEAN
            /\ db' = [status |-> db.status, orders |-> db.orders, data |-> db.edits + 2,
                      edits |-> db.edits + 1, head |-> h, late |-> l, saved |-> db.saved]
            /\ past' = [disturbed |-> d, failed |-> past.failed]
            /\ d \/ (net["restore"].at = "idle" /\ (h = None \/ l))
            /\ UNCHANGED <<net, cache, ui>>
    <3>1. CASE Snapshots!SaveFile
      BY <1>1, <3>1 DEF Shape, Snapshots!SaveFile, Snapshots!Changed, Snapshots!Disturbance,
                        Snapshots!Busy
    <3>2. CASE Snapshots!RenameFile
      BY <1>1, <3>2 DEF Shape, Snapshots!RenameFile, Snapshots!Changed
    <3>3. CASE Snapshots!WriteDatabase
      BY <1>1, <3>3 DEF Shape, Snapshots!WriteDatabase, Snapshots!Changed, Snapshots!Disturbance,
                        Snapshots!Busy
    <3> QED
      BY <1>2, <3>1, <3>2, <3>3
  <2>2. db.edits + 2 \in Nat /\ db.edits + 1 \in Nat
    BY <1>1 DEF Shape
  <2> QED
    BY <2>1, <2>2, ChangesKeep
<1>3. CASE Snapshots!Obey
  <2>1. /\ db' = [status |-> db'.status, orders |-> db'.orders, data |-> db.data, edits |-> db.edits,
                  head |-> db.head, late |-> db.late, saved |-> db.saved]
        /\ past' = [disturbed |-> past'.disturbed, failed |-> past.failed]
        /\ past'.disturbed \in BOOLEAN /\ (past.disturbed => past'.disturbed)
        /\ UNCHANGED <<net, cache, ui>>
    BY <1>1, <1>3 DEF Shape, Snapshots!Obey, Snapshots!Disturbance, Snapshots!Busy
  <2>2. DialogInv'
    BY <1>1, <2>1 DEF DialogInv
  <2>3. /\ cache' = [status |-> cache'.status, list |-> cache'.list, fetching |-> cache'.fetching]
        /\ ui' = [modal |-> ui'.modal, dialog |-> ui'.dialog, clicks |-> ui'.clicks]
    BY <1>1, <2>1 DEF Shape
  <2> QED
    BY <2>1, <2>2, <2>3, LooksKeep
<1>4. ASSUME UNCHANGED <<db, net, past>>,
             \/ ui' = ui
             \/ /\ ui' = [modal |-> ui'.modal, dialog |-> ui'.dialog, clicks |-> ui'.clicks]
                /\ \/ ui'.dialog = ui.dialog
                   \/ ui'.dialog.kind = "none"
                   \/ ui'.dialog.kind \in {"restore", "delete"} /\ net[ui'.dialog.kind].at = "idle",
             \/ cache' = cache
             \/ cache' = [status |-> cache'.status, list |-> cache.list,
                          fetching |-> cache.fetching]
             \/ cache' = [status |-> cache.status, list |-> Snapshots!Stored, fetching |-> FALSE]
      PROVE  SnapshotsInv'
  <2>1. DialogInv'
    BY <1>1, <1>4 DEF DialogInv
  <2>2. /\ cache' = [status |-> cache'.status, list |-> cache'.list, fetching |-> cache'.fetching]
        /\ ui' = [modal |-> ui'.modal, dialog |-> ui'.dialog, clicks |-> ui'.clicks]
        /\ db' = [status |-> db'.status, orders |-> db'.orders, data |-> db.data,
                edits |-> db.edits, head |-> db.head, late |-> db.late, saved |-> db.saved]
        /\ past' = [disturbed |-> past'.disturbed, failed |-> past.failed]
        /\ past'.disturbed \in BOOLEAN
    BY <1>1, <1>4 DEF Shape
  <2>3. \/ cache'.list = cache.list /\ cache'.fetching = cache.fetching
        \/ cache'.list = Snapshots!Stored
    BY <1>4
  <2> QED
    BY <1>4, <2>1, <2>2, <2>3, LooksKeep
<1>5. CASE Snapshots!serviceQuery \/ Snapshots!snapshotsQuery
  <2>1. CASE Snapshots!serviceQuery
    BY <1>1, <1>4, <2>1 DEF Shape, Snapshots!serviceQuery
  <2>2. CASE Snapshots!snapshotsQuery
    BY <1>1, <1>4, <2>2 DEF Shape, Snapshots!snapshotsQuery
  <2> QED
    BY <1>5, <2>1, <2>2
<1>6. CASE Snapshots!createSnapshot \/ Snapshots!closeModal \/ UNCHANGED Snapshots!vars
  <2>1. CASE Snapshots!createSnapshot
    BY <1>1, <1>4, <2>1 DEF Shape, Snapshots!createSnapshot, Snapshots!Clicked
  <2>2. CASE Snapshots!closeModal
    BY <1>1, <1>4, <2>2 DEF Shape, Snapshots!closeModal
  <2>3. CASE UNCHANGED Snapshots!vars
    BY <1>4, <2>3 DEF Snapshots!vars
  <2> QED
    BY <1>6, <2>1, <2>2, <2>3
<1>7. ASSUME NEW i \in Ids, Snapshots!restoreSnapshot(i) \/ Snapshots!deleteSnapshot(i)
      PROVE  SnapshotsInv'
  <2>1. \E k \in {"restore", "delete"} :
            /\ ui' = [modal |-> ui.modal, dialog |-> [kind |-> k, id |-> i],
                      clicks |-> ui.clicks + 1]
            /\ net[k].at = "idle"
            /\ UNCHANGED <<db, net, cache, past>>
    BY <1>1, <1>7 DEF Shape, Snapshots!restoreSnapshot, Snapshots!deleteSnapshot,
                      Snapshots!Clicked, Snapshots!CanRestore, Snapshots!CanDelete, Snapshots!Busy
  <2> QED
    BY <1>4, <2>1
<1>8. ASSUME NEW m \in Snapshots!Requests, NEW c, net' = [net EXCEPT ![m] = c],
             db' = db \/ db' = [db EXCEPT !.orders = db'.orders],
             cache' = cache \/ cache' = [cache EXCEPT !.fetching = TRUE],
             past' = past \/ past' = [past EXCEPT !.failed = TRUE],
             ui' = [modal |-> ui'.modal, dialog |-> ui'.dialog, clicks |-> ui'.clicks],
             ui'.dialog.kind = "none" \/ (ui'.dialog = ui.dialog /\ (ui.dialog.kind # m \/ c.at = "idle")),
             c.at \in {"idle", "sent", "ok", "error"},
             net[m].at \notin {"head", "clear"},
             m # "command" => c.at # "idle" \/ cache'.fetching \/ past'.failed
      PROVE  SnapshotsInv'
  <2>1. /\ cache' = [status |-> cache.status, list |-> cache.list, fetching |-> cache'.fetching]
        /\ past' = [disturbed |-> past.disturbed, failed |-> past'.failed]
        /\ cache.fetching => cache'.fetching
        /\ past.failed => past'.failed
    BY <1>1, <1>8 DEF Shape
  <2> QED
    BY <1>8, <2>1, AnswersKeep
<1>9. CASE Snapshots!executeServiceCommand
  <2>1. /\ net' = [net EXCEPT !["command"] = [at |-> "ok"]]
        /\ net["command"].at = "sent"
        /\ db' = [db EXCEPT !.orders = db'.orders]
        /\ UNCHANGED <<cache, ui, past>>
    BY <1>1, <1>9 DEF Shape, Snapshots!executeServiceCommand, Snapshots!Goto, Snapshots!At
  <2>2. ui.dialog.kind # "command" /\ ui' = [modal |-> ui'.modal, dialog |-> ui'.dialog, clicks |-> ui'.clicks]
    BY <1>1, <2>1 DEF DialogInv, Shape
  <2> QED
    BY <1>8, <2>1, <2>2
<1>10. ASSUME NEW action, Snapshots!handleCommand(action) PROVE SnapshotsInv'
  <2> DEFINE c == [at |-> "sent", action |-> action]
  <2>1. /\ net' = [net EXCEPT !["command"] = c] /\ c.at = "sent"
        /\ net["command"].at = "idle"
        /\ ui' = [modal |-> ui.modal, dialog |-> ui.dialog, clicks |-> ui'.clicks]
        /\ ui.dialog.kind = "none"
        /\ UNCHANGED <<db, cache, past>>
    BY <1>1, <1>10 DEF Shape, Snapshots!handleCommand, Snapshots!Goto, Snapshots!Click,
                       Snapshots!Clicked, Snapshots!CanCommand, Snapshots!Busy
  <2> HIDE DEF c
  <2>2. /\ ui' = [modal |-> ui'.modal, dialog |-> ui'.dialog, clicks |-> ui'.clicks]
        /\ ui'.dialog.kind = "none"
    BY <2>1
  <2> QED
    BY <1>8, <2>1, <2>2
<1>11. CASE Snapshots!handleSubmit
  <2>1. /\ net' = [net EXCEPT !["create"] = [at |-> "sent"]]
        /\ net["create"].at = "idle"
        /\ UNCHANGED <<db, cache, ui, past>>
    BY <1>11 DEF Snapshots!handleSubmit, Snapshots!Goto, Snapshots!Busy
  <2>2. ui.dialog.kind # "create" /\ ui' = [modal |-> ui'.modal, dialog |-> ui'.dialog, clicks |-> ui'.clicks]
    BY <1>1, <2>1 DEF DialogInv, Shape
  <2> QED
    BY <1>8, <2>1, <2>2
<1>12. ASSUME NEW ok, Snapshots!confirm(ok) PROVE SnapshotsInv'
  <2> DEFINE c == [at |-> "sent", id |-> ui.dialog.id]
             k == ui.dialog.kind
  <2>1. /\ c.at = "sent"
        /\ net' = [net EXCEPT ![k] = c] \/ net' = net
        /\ k \in {"restore", "delete"} /\ net[k].at = "idle"
        /\ ui' = [modal |-> ui.modal, dialog |-> [kind |-> "none"], clicks |-> ui.clicks]
        /\ UNCHANGED <<db, cache, past>>
    BY <1>1, <1>12 DEF Shape, DialogInv, Snapshots!confirm, Snapshots!Goto
  <2> HIDE DEF c
  <2>2. CASE net' = net
    BY <1>4, <2>1, <2>2
  <2>3. CASE net' = [net EXCEPT ![k] = c]
    <3>1. ui' = [modal |-> ui'.modal, dialog |-> ui'.dialog, clicks |-> ui'.clicks]
          /\ ui'.dialog.kind = "none"
      BY <2>1
    <3> QED
      BY <1>8, <2>1, <2>3, <3>1
  <2> QED
    BY <2>1, <2>2, <2>3
<1>13. CASE \/ Snapshots!createSucceeds \/ Snapshots!restoreSucceeds
            \/ Snapshots!deleteSucceeds \/ Snapshots!commandSucceeds
  <2>1. PICK m \in Snapshots!Requests :
            /\ net' = [net EXCEPT ![m] = [at |-> "idle"]] /\ net[m].at = "ok"
            /\ m # "command" => cache' = [cache EXCEPT !.fetching = TRUE]
            /\ m = "command" => cache' = cache
            /\ ui' = [modal |-> ui'.modal, dialog |-> ui.dialog, clicks |-> ui.clicks]
            /\ UNCHANGED <<db, past>>
    BY <1>1, <1>13 DEF Shape, Snapshots!createSucceeds, Snapshots!restoreSucceeds,
        Snapshots!deleteSucceeds, Snapshots!commandSucceeds, Snapshots!Goto, Snapshots!At,
        Snapshots!refetch, Snapshots!Idle
  <2>2. /\ ui' = [modal |-> ui'.modal, dialog |-> ui'.dialog, clicks |-> ui'.clicks]
        /\ ui'.dialog = ui.dialog
    BY <2>1
  <2>3. cache' = [cache EXCEPT !.fetching = TRUE] => cache'.fetching
    BY <1>1 DEF Shape
  <2> QED
    BY <1>8, <2>1, <2>2, <2>3
<1>14. ASSUME NEW m \in Snapshots!Requests, Snapshots!MutationFails(m) PROVE SnapshotsInv'
  <2>1. /\ net' = [net EXCEPT ![m] = [at |-> "idle"]] /\ net[m].at = "error"
        /\ past' = [past EXCEPT !.failed = TRUE] /\ past'.failed
        /\ ui' = [modal |-> ui'.modal, dialog |-> ui.dialog, clicks |-> ui.clicks]
        /\ ui'.dialog = ui.dialog
        /\ UNCHANGED <<db, cache>>
    BY <1>1, <1>14 DEF Shape, Snapshots!MutationFails, Snapshots!Goto, Snapshots!At, Snapshots!Idle
  <2> QED
    BY <1>8, <2>1
<1>15. ASSUME NEW m \in Snapshots!Requests, Snapshots!Fails(m) PROVE SnapshotsInv'
  <2>1. /\ net' = [net EXCEPT ![m] = [at |-> "error"]]
        /\ net[m].at \in {"sent", "zip", "record", "remove", "copy"}
        /\ UNCHANGED <<db, cache, past, ui>>
    BY <1>15 DEF Snapshots!Fails, Snapshots!Goto
  <2>2. ui.dialog.kind # m /\ ui' = [modal |-> ui'.modal, dialog |-> ui'.dialog, clicks |-> ui'.clicks]
    BY <1>1, <2>1 DEF DialogInv, Shape
  <2> QED
    BY <1>8, <2>1, <2>2
<1>16. CASE Snapshots!CreateBegins \/ Snapshots!RestoreBegins
  <2> USE DEF Snapshots!At, Snapshots!Goto, Snapshots!Busy
  <2>1. CASE Snapshots!CreateBegins
    <3> DEFINE c == [at |-> "zip", type |-> "manual", then |-> [at |-> "ok"]]
    <3>1. /\ net' = [net EXCEPT !["create"] = c] /\ net["create"].at = "sent"
          /\ UNCHANGED <<db, cache, ui>>
          /\ past' = [past EXCEPT !.disturbed = past'.disturbed]
          /\ past'.disturbed \in BOOLEAN /\ (past.disturbed => past'.disturbed)
          /\ c.at = "zip" /\ c.type = "manual" /\ c.then.at = "ok"
      BY <1>1, <2>1 DEF Shape, Snapshots!CreateBegins
    <3> HIDE DEF c
    <3> QED
      BY <3>1, BeginsKeep
  <2>2. CASE Snapshots!RestoreBegins
    <3> DEFINE next == [at |-> "remove", id |-> net["restore"].id]
               zip == [at |-> "zip", type |-> "pre-restore", then |-> next]
               manual == db.saved[net["restore"].id].type = "manual"
    <3>1. /\ net["restore"].at = "sent"
          /\ UNCHANGED <<db, cache, ui>>
          /\ past' = [past EXCEPT !.disturbed = past'.disturbed]
          /\ past'.disturbed \in BOOLEAN /\ (past.disturbed => past'.disturbed)
          /\ past'.disturbed \/ net["delete"].at = "idle"
          /\ zip.at = "zip" /\ zip.type = "pre-restore" /\ zip.then.at = "remove"
          /\ next.at = "remove" /\ next.id \in Snapshots!Stored
          /\ \/ net' = [net EXCEPT !["restore"] = zip]
             \/ /\ net' = [net EXCEPT !["restore"] = next]
                /\ db.saved[next.id].type = "manual" => ~Snapshots!isDirty
      BY <1>1, <2>2 DEF Shape, Snapshots!RestoreBegins
    <3> HIDE DEF next, zip
    <3> QED
      BY <3>1, BeginsKeep
  <2> QED
    BY <1>16, <2>1, <2>2
<1> QED
  BY <1>2, <1>3, <1>5, <1>6, <1>7, <1>9, <1>10, <1>11, <1>12, <1>13, <1>14, <1>15, <1>16,
     ZipKeeps, RecordKeeps, MarkKeeps, MarkDeletedKeeps, ReplacesKeep, DeleteKeeps, ClearKeeps
  DEF Snapshots!Next, Snapshots!Manager, Snapshots!Panel

(* A restore that removes data has them saved.                              *)
LEMMA RemovesOnlySaved ==
  SnapshotsInv /\ [Snapshots!Next]_(Snapshots!vars) => Snapshots!RemovesSaved \/ past.disturbed
<1> SUFFICES ASSUME SnapshotsInv, [Snapshots!Next]_(Snapshots!vars), ~past.disturbed,
                    db.data # 0, db'.data = 0,
                    db.saved[net["restore"].id].type = "manual"
             PROVE  Snapshots!IsSaved(db.data)
  BY DEF Snapshots!RemovesSaved, Snapshots!Removes, Snapshots!OfManual, Snapshots!Gone
<1>1. Shape /\ RequestsInv
  BY DEF SnapshotsInv
<1>2. CASE Snapshots!SaveFile \/ Snapshots!RenameFile \/ Snapshots!WriteDatabase
  <2>1. db'.data = db.edits + 2 /\ db.edits \in Nat
    BY <1>1, <1>2 DEF Shape, Snapshots!SaveFile, Snapshots!RenameFile, Snapshots!WriteDatabase,
                      Snapshots!Changed
  <2> QED
    BY <2>1
<1>3. CASE Snapshots!CopyData
  BY <1>1, <1>3 DEF RequestsInv, Snapshots!CopyData, Snapshots!At, Snapshots!Gone
<1>4. CASE Snapshots!RemoveData
  BY <1>4 DEF SnapshotsInv, RestoreInv, Snapshots!RemoveData, Snapshots!At, Snapshots!Gone
<1>5. CASE Snapshots!CreateBegins \/ Snapshots!RestoreBegins \/ Snapshots!DeleteSnapshot
           \/ Snapshots!ClearCurrent \/ Snapshots!Obey \/ Snapshots!executeServiceCommand
  BY <1>1, <1>5 DEF Shape, Snapshots!CreateBegins, Snapshots!RestoreBegins,
      Snapshots!DeleteSnapshot, Snapshots!ClearCurrent, Snapshots!Obey,
      Snapshots!executeServiceCommand
<1>6. ASSUME NEW m, \/ Snapshots!Zip(m) \/ Snapshots!MarkCurrent(m) \/ Snapshots!MarkDeleted(m)
                    \/ Snapshots!Fails(m) \/ \E i \in Ids : Snapshots!SaveRecord(m, i)
      PROVE  FALSE
  BY <1>1, <1>6 DEF Shape, Snapshots!Zip, Snapshots!MarkCurrent, Snapshots!MarkDeleted,
      Snapshots!Fails, Snapshots!SaveRecord, Snapshots!setCurrentSnapshotID
<1>7. CASE Snapshots!Panel \/ UNCHANGED Snapshots!vars
  <2>1. db' = db
    BY <1>7 DEF Snapshots!Panel, Snapshots!vars, Snapshots!serviceQuery, Snapshots!snapshotsQuery,
      Snapshots!handleCommand, Snapshots!createSnapshot, Snapshots!handleSubmit,
      Snapshots!closeModal, Snapshots!restoreSnapshot, Snapshots!deleteSnapshot,
      Snapshots!confirm, Snapshots!createSucceeds, Snapshots!restoreSucceeds,
      Snapshots!deleteSucceeds, Snapshots!commandSucceeds, Snapshots!MutationFails
  <2> QED
    BY <2>1
<1> QED
  BY <1>2, <1>3, <1>4, <1>5, <1>6, <1>7 DEF Snapshots!Next, Snapshots!Manager

-----------------------------------------------------------------------------
(***************************************************************************)
(* The logs.  Arguments over the length of a sequence are by the least     *)
(* counterexample.                                                         *)
(***************************************************************************)
NatLess == {p \in Nat \X Nat : p[1] < p[2]}

LEMMA LeastNumber ==
  ASSUME NEW T, T \subseteq Nat, T # {}
  PROVE  \E n \in T : \A m \in T : n <= m
<1>1. IsWellFoundedOn(NatLess, Nat)
  BY NatLessThanWellFounded DEF OpToRel, NatLess
<1>2. PICK n \in T : \A m \in T : <<m, n>> \notin NatLess
  BY <1>1, WFMin
<1>3. \A m \in T : m \in Nat /\ n \in Nat /\ ~(m < n)
  BY <1>2 DEF NatLess
<1> QED
  BY <1>3

Shown(q, line) == \E i \in 1..Len(q) : q[i] = line

(* A step of mergeLogsUnique, and the lines it adds.                        *)
Filter(current, incoming, f, n) ==
    IF n = 0 THEN <<>>
    ELSE IF ~Shown(current, incoming[n]) THEN Append(f[n - 1], incoming[n])
    ELSE f[n - 1]

LEMMA FilterExists ==
  ASSUME NEW current, NEW incoming, NEW N \in Nat
  PROVE  \E f : f = [n \in 0..N |-> Filter(current, incoming, f, n)]
<1> DEFINE Upto(k) == \E f : f = [n \in 0..k |-> Filter(current, incoming, f, n)]
           Bad == {k \in Nat : ~Upto(k)}
<1>1. SUFFICES ASSUME Bad # {} PROVE FALSE
  OBVIOUS
<1>2. PICK k \in Bad : \A m \in Bad : k <= m
  BY <1>1, LeastNumber
<1>3. CASE k = 0
  <2> DEFINE f == [n \in 0..0 |-> <<>>]
  <2>1. f = [n \in 0..0 |-> Filter(current, incoming, f, n)]
    BY DEF Filter
  <2> QED
    BY <1>2, <1>3, <2>1
<1>4. CASE k # 0
  <2>1. k - 1 \in Nat /\ k - 1 \notin Bad
    BY <1>2, <1>4
  <2>2. PICK f : f = [n \in 0..(k - 1) |-> Filter(current, incoming, f, n)]
    BY <2>1
  <2> DEFINE g == [n \in 0..k |-> IF n < k THEN f[n] ELSE Filter(current, incoming, f, k)]
  <2>3. \A n \in 0..k : g[n] = Filter(current, incoming, g, n)
    <3> SUFFICES ASSUME NEW n \in 0..k PROVE g[n] = Filter(current, incoming, g, n)
      OBVIOUS
    <3>1. n # 0 => n - 1 \in 0..k /\ n - 1 < k
      BY <1>2
    <3>2. n # 0 => g[n - 1] = f[n - 1]
      BY <3>1
    <3>3. Filter(current, incoming, g, n) = Filter(current, incoming, f, n)
      BY <3>2 DEF Filter
    <3>4. n < k => f[n] = Filter(current, incoming, f, n)
      BY <2>1, <2>2
    <3> QED
      BY <1>2, <3>3, <3>4
  <2>4. g = [n \in 0..k |-> Filter(current, incoming, g, n)]
    BY <2>3
  <2> QED
    BY <1>2, <2>4
<1> QED
  BY <1>2, <1>3, <1>4

LEMMA MergeAdds ==
  ASSUME NEW current, NEW incoming \in Seq(Nat)
  PROVE  \E f : /\ f = [n \in 0..Len(incoming) |-> Filter(current, incoming, f, n)]
                /\ Logs!mergeLogsUnique(current, incoming) = current \o f[Len(incoming)]
<1> DEFINE f == CHOOSE f : f = [n \in 0..Len(incoming) |-> Filter(current, incoming, f, n)]
<1>1. Len(incoming) \in Nat
  OBVIOUS
<1>2. f = [n \in 0..Len(incoming) |-> Filter(current, incoming, f, n)]
  BY <1>1, FilterExists
<1>3. Logs!mergeLogsUnique(current, incoming) = current \o f[Len(incoming)]
  BY DEF Logs!mergeLogsUnique, Filter, Shown
<1> QED
  BY <1>2, <1>3

(* A list whose lines go up.                                                *)
GoesUp(q) == \A i, j \in 1..Len(q) : i < j => q[i] < q[j]

(* What the filter has let through after k lines: the new ones, in order.   *)
LetThrough(current, incoming, g, k) ==
    /\ g \in Seq(Nat)
    /\ GoesUp(g)
    /\ \A i \in 1..Len(g) : \E j \in 1..k : g[i] = incoming[j] /\ ~Shown(current, incoming[j])
    /\ \A j \in 1..k : ~Shown(current, incoming[j]) => Shown(g, incoming[j])

LEMMA FilterStep ==
  ASSUME NEW current, NEW incoming \in Seq(Nat), GoesUp(incoming),
         NEW k \in 1..Len(incoming), NEW g, LetThrough(current, incoming, g, k - 1),
         ~Shown(current, incoming[k])
  PROVE  LetThrough(current, incoming, Append(g, incoming[k]), k)
<1> DEFINE h == Append(g, incoming[k])
<1>1. g \in Seq(Nat) /\ incoming[k] \in Nat /\ Len(g) \in Nat /\ k \in Nat /\ Len(incoming) \in Nat
  BY DEF LetThrough
<1>2. /\ h \in Seq(Nat) /\ Len(h) = Len(g) + 1 /\ h[Len(g) + 1] = incoming[k]
      /\ \A i \in 1..Len(g) : h[i] = g[i]
  BY <1>1
<1>3. ASSUME NEW i \in 1..Len(g)
      PROVE  g[i] < incoming[k]
  <2>1. PICK j \in 1..(k - 1) : g[i] = incoming[j]
    BY DEF LetThrough
  <2>2. j \in 1..Len(incoming) /\ j < k
    BY <1>1
  <2> QED
    BY <2>1, <2>2 DEF GoesUp
<1> HIDE DEF h
<1>4. GoesUp(h)
  <2> SUFFICES ASSUME NEW i \in 1..Len(h), NEW j \in 1..Len(h), i < j PROVE h[i] < h[j]
    BY DEF GoesUp
  <2>1. i \in 1..Len(g) /\ h[i] = g[i]
    <3>1. i \in Int /\ j \in Int /\ 1 <= i /\ j <= Len(g) + 1 /\ i < j
      BY <1>2
    <3>2. i \in 1..Len(g)
      BY <1>1, <3>1
    <3> QED
      BY <1>2, <3>2
  <2>2. CASE j = Len(g) + 1
    BY <1>2, <1>3, <2>1, <2>2
  <2>3. CASE j # Len(g) + 1
    <3>1. j \in 1..(Len(g) + 1)
      BY <1>2
    <3>2. j \in 1..Len(g)
      <4>1. Len(g) \in Nat
        BY <1>1
      <4> QED
        BY <2>3, <3>1, <4>1
    <3>3. h[j] = g[j]
      BY <1>2, <3>2
    <3> QED
      BY <2>1, <3>2, <3>3 DEF LetThrough, GoesUp
  <2> QED
    BY <2>2, <2>3
<1>5. \A i \in 1..Len(h) : \E j \in 1..k : h[i] = incoming[j] /\ ~Shown(current, incoming[j])
  <2> SUFFICES ASSUME NEW i \in 1..Len(h)
               PROVE  \E j \in 1..k : h[i] = incoming[j] /\ ~Shown(current, incoming[j])
    OBVIOUS
  <2>1. CASE i = Len(g) + 1
    BY <1>1, <1>2, <2>1
  <2>2. CASE i # Len(g) + 1
    <3>0. i \in 1..(Len(g) + 1)
      BY <1>2
    <3>1. i \in 1..Len(g) /\ h[i] = g[i]
      <4>1. i \in 1..Len(g)
        BY <1>1, <2>2, <3>0
      <4> QED
        BY <1>2, <4>1
    <3>2. PICK j \in 1..(k - 1) : g[i] = incoming[j] /\ ~Shown(current, incoming[j])
      BY <3>1 DEF LetThrough
    <3>3. j \in 1..k
      BY <1>1
    <3> QED
      BY <3>1, <3>2, <3>3
  <2> QED
    BY <2>1, <2>2
<1>6. \A j \in 1..k : ~Shown(current, incoming[j]) => Shown(h, incoming[j])
  <2> SUFFICES ASSUME NEW j \in 1..k, ~Shown(current, incoming[j]) PROVE Shown(h, incoming[j])
    OBVIOUS
  <2>1. CASE j = k
    <3>1. Len(g) + 1 \in 1..Len(h) /\ h[Len(g) + 1] = incoming[j]
      BY <1>2, <2>1
    <3> QED
      BY <3>1 DEF Shown
  <2>2. CASE j # k
    <3>1. j \in 1..(k - 1)
      BY <1>1, <2>2
    <3>2. PICK i \in 1..Len(g) : g[i] = incoming[j]
      BY <3>1 DEF LetThrough, Shown
    <3>3. i \in 1..Len(h) /\ h[i] = incoming[j]
      BY <1>1, <1>2, <3>2
    <3> QED
      BY <3>3 DEF Shown
  <2> QED
    BY <2>1, <2>2
<1>7. LetThrough(current, incoming, h, k)
  BY <1>2, <1>4, <1>5, <1>6 DEF LetThrough
<1> QED
  BY <1>7 DEF h

LEMMA FilterLetsThrough ==
  ASSUME NEW current, NEW incoming \in Seq(Nat), GoesUp(incoming),
         NEW f, f = [n \in 0..Len(incoming) |-> Filter(current, incoming, f, n)]
  PROVE  LetThrough(current, incoming, f[Len(incoming)], Len(incoming))
<1> DEFINE Bad == {k \in 0..Len(incoming) : ~LetThrough(current, incoming, f[k], k)}
<1>1. SUFFICES ASSUME Bad # {} PROVE FALSE
  OBVIOUS
<1>2. Len(incoming) \in Nat /\ Bad \subseteq Nat
  OBVIOUS
<1>3. PICK k \in Bad : \A m \in Bad : k <= m
  BY <1>1, <1>2, LeastNumber
<1>4. \A n \in 0..Len(incoming) : f[n] = Filter(current, incoming, f, n)
  OBVIOUS
<1>5. CASE k = 0
  <2>1. f[0] = <<>>
    BY <1>2, <1>4 DEF Filter
  <2>2. LetThrough(current, incoming, <<>>, 0)
    BY DEF LetThrough, GoesUp
  <2> QED
    BY <1>3, <1>5, <2>1, <2>2
<1>6. CASE k # 0
  <2>1. k \in 1..Len(incoming) /\ k - 1 \in 0..Len(incoming) /\ k \in Nat
    BY <1>2, <1>3, <1>6
  <2>2. k - 1 \notin Bad
    BY <1>3, <2>1
  <2>3. LetThrough(current, incoming, f[k - 1], k - 1)
    BY <2>1, <2>2
  <2>4. CASE ~Shown(current, incoming[k])
    <3>1. f[k] = Append(f[k - 1], incoming[k])
      BY <1>4, <1>6, <2>1, <2>4 DEF Filter
    <3>2. LetThrough(current, incoming, f[k], k)
      BY <2>1, <2>3, <2>4, <3>1, FilterStep
    <3> QED
      BY <1>3, <3>2
  <2>5. CASE Shown(current, incoming[k])
    <3>1. f[k] = f[k - 1]
      BY <1>4, <1>6, <2>1, <2>5 DEF Filter
    <3>2. \A j \in 1..k : j \in 1..(k - 1) \/ j = k
      BY <2>1
    <3>3. 1..(k - 1) \subseteq 1..k
      BY <2>1
    <3>4. LetThrough(current, incoming, f[k - 1], k)
      BY <2>3, <2>5, <3>2, <3>3 DEF LetThrough
    <3> QED
      BY <1>3, <3>1, <3>4
  <2> QED
    BY <2>4, <2>5
<1> QED
  BY <1>5, <1>6

(* No line of the answer is older than the last one shown unless it is      *)
(* shown itself.                                                            *)
Follows(q, p) ==
    q # <<>> => \A i \in 1..Len(p) : p[i] <= q[Len(q)] => Shown(q, p[i])

LEMMA ShownIsNotLater ==
  ASSUME NEW q \in Seq(Nat), GoesUp(q), NEW x \in Nat, Shown(q, x)
  PROVE  q # <<>> /\ x <= q[Len(q)]
<1>1. PICK i \in 1..Len(q) : q[i] = x
  BY DEF Shown
<1>2. Len(q) \in Nat /\ Len(q) >= i /\ Len(q) \in 1..Len(q)
  BY <1>1
<1>3. i < Len(q) => q[i] < q[Len(q)]
  BY <1>2 DEF GoesUp
<1>4. q[Len(q)] \in Nat
  BY <1>2
<1> QED
  BY <1>1, <1>2, <1>3, <1>4

LEMMA MergeShows ==
  ASSUME NEW q \in Seq(Nat), NEW p \in Seq(Nat), GoesUp(p)
  PROVE  LET r == Logs!mergeLogsUnique(q, p)
         IN  /\ r \in Seq(Nat)
             /\ \A i \in 1..Len(r) : Shown(q, r[i]) \/ Shown(p, r[i])
<1>1. PICK f : /\ f = [n \in 0..Len(p) |-> Filter(q, p, f, n)]
               /\ Logs!mergeLogsUnique(q, p) = q \o f[Len(p)]
  BY MergeAdds
<1> DEFINE g == f[Len(p)]
           r == q \o g
<1>2. LetThrough(q, p, g, Len(p))
  BY <1>1, FilterLetsThrough
<1> HIDE DEF g
<1>3. g \in Seq(Nat) /\ Len(g) \in Nat /\ Len(q) \in Nat
  BY <1>2 DEF LetThrough
<1>4. /\ r \in Seq(Nat) /\ Len(r) = Len(q) + Len(g)
      /\ \A i \in 1..Len(q) : r[i] = q[i]
      /\ \A i \in 1..Len(g) : r[Len(q) + i] = g[i]
  BY <1>3
<1> HIDE DEF r
<1>5. ASSUME NEW i \in 1..Len(r)
      PROVE  Shown(q, r[i]) \/ Shown(p, r[i])
  <2>1. CASE i \in 1..Len(q)
    BY <1>4, <2>1 DEF Shown
  <2>2. CASE ~(i \in 1..Len(q))
    <3>1. i - Len(q) \in 1..Len(g) /\ Len(q) + (i - Len(q)) = i
      BY <1>3, <1>4, <2>2
    <3>2. r[i] = g[i - Len(q)]
      BY <1>4, <3>1
    <3>3. PICK j \in 1..Len(p) : r[i] = p[j]
      BY <1>2, <3>1, <3>2 DEF LetThrough
    <3> QED
      BY <3>3 DEF Shown
  <2> QED
    BY <2>1, <2>2
<1> QED
  BY <1>1, <1>4, <1>5 DEF r, g

LEMMA MergeKeepsOrder ==
  ASSUME NEW q \in Seq(Nat), GoesUp(q), NEW p \in Seq(Nat), GoesUp(p), Follows(q, p)
  PROVE  LET r == Logs!mergeLogsUnique(q, p)
         IN  /\ r \in Seq(Nat)
             /\ GoesUp(r)
             /\ \A line : Shown(r, line) <=> Shown(q, line) \/ Shown(p, line)
             /\ r = q \/ (p # <<>> /\ r # <<>> /\ r[Len(r)] = p[Len(p)])
<1>1. PICK f : /\ f = [n \in 0..Len(p) |-> Filter(q, p, f, n)]
               /\ Logs!mergeLogsUnique(q, p) = q \o f[Len(p)]
  BY MergeAdds
<1> DEFINE g == f[Len(p)]
           r == q \o g
           N == Len(p)
<1>2. LetThrough(q, p, g, N)
  BY <1>1, FilterLetsThrough
<1> HIDE DEF g
<1>3. g \in Seq(Nat) /\ GoesUp(g) /\ N \in Nat /\ Len(g) \in Nat /\ Len(q) \in Nat
  BY <1>2 DEF LetThrough
<1>4. /\ r \in Seq(Nat) /\ Len(r) = Len(q) + Len(g)
      /\ \A i \in 1..Len(q) : r[i] = q[i]
      /\ \A i \in 1..Len(g) : r[Len(q) + i] = g[i]
  BY <1>3
<1>5. ASSUME NEW i \in 1..Len(r), ~(i \in 1..Len(q))
      PROVE  i - Len(q) \in 1..Len(g) /\ r[i] = g[i - Len(q)]
  <2>1. i - Len(q) \in 1..Len(g) /\ Len(q) + (i - Len(q)) = i
    BY <1>3, <1>4, <1>5
  <2> QED
    BY <1>4, <2>1
<1> HIDE DEF r
<1>6. ASSUME NEW i \in 1..Len(g), NEW k \in 1..Len(q)
      PROVE  q[k] < g[i]
  <2>1. PICK j \in 1..N : g[i] = p[j] /\ ~Shown(q, p[j])
    BY <1>2 DEF LetThrough
  <2>2. p[j] \in Nat /\ q # <<>> /\ q[Len(q)] \in Nat /\ q[k] \in Nat
    <3>1. Len(q) \in Nat /\ q # <<>>
      BY <1>3
    <3>2. Len(q) \in 1..Len(q)
      BY <3>1
    <3>3. q[Len(q)] \in Nat /\ q[k] \in Nat
      BY <3>2
    <3>4. p[j] \in Nat
      OBVIOUS
    <3> QED
      BY <3>1, <3>3, <3>4
  <2>3. ~(p[j] <= q[Len(q)])
    BY <2>1, <2>2 DEF Follows
  <2>4. Shown(q, q[k])
    BY DEF Shown
  <2>5. q[k] <= q[Len(q)]
    BY <2>2, <2>4, ShownIsNotLater
  <2> QED
    BY <2>1, <2>2, <2>3, <2>5
<1>7. GoesUp(r)
  <2> SUFFICES ASSUME NEW i \in 1..Len(r), NEW j \in 1..Len(r), i < j PROVE r[i] < r[j]
    BY DEF GoesUp
  <2>1. CASE j \in 1..Len(q)
    <3>1. i \in 1..Len(q)
      BY <1>3, <2>1
    <3> QED
      BY <1>4, <2>1, <3>1 DEF GoesUp
  <2>2. CASE ~(j \in 1..Len(q)) /\ i \in 1..Len(q)
    BY <1>4, <1>5, <1>6, <2>2
  <2>3. CASE ~(j \in 1..Len(q)) /\ ~(i \in 1..Len(q))
    <3>1. /\ i - Len(q) \in 1..Len(g) /\ r[i] = g[i - Len(q)]
          /\ j - Len(q) \in 1..Len(g) /\ r[j] = g[j - Len(q)]
      BY <1>5, <2>3
    <3>2. i - Len(q) < j - Len(q)
      BY <1>3, <1>4
    <3> QED
      BY <1>3, <3>1, <3>2 DEF GoesUp
  <2> QED
    BY <2>1, <2>2, <2>3
<1>8. ASSUME NEW line, Shown(r, line)
      PROVE  Shown(q, line) \/ Shown(p, line)
  <2>1. PICK i \in 1..Len(r) : r[i] = line
    BY <1>8 DEF Shown
  <2>2. CASE i \in 1..Len(q)
    BY <1>4, <2>1, <2>2 DEF Shown
  <2>3. CASE ~(i \in 1..Len(q))
    <3>1. i - Len(q) \in 1..Len(g) /\ line = g[i - Len(q)]
      BY <1>5, <2>1, <2>3
    <3>2. PICK j \in 1..N : line = p[j]
      BY <1>2, <3>1 DEF LetThrough
    <3> QED
      BY <3>2 DEF Shown
  <2> QED
    BY <2>2, <2>3
<1>9. ASSUME NEW line, Shown(q, line)
      PROVE  Shown(r, line)
  <2>1. PICK i \in 1..Len(q) : q[i] = line
    BY <1>9 DEF Shown
  <2>2. i \in 1..Len(r) /\ r[i] = line
    BY <1>3, <1>4, <2>1
  <2> QED
    BY <2>2 DEF Shown
<1>10. ASSUME NEW line, Shown(g, line)
       PROVE  Shown(r, line)
  <2>1. PICK i \in 1..Len(g) : g[i] = line
    BY <1>10 DEF Shown
  <2>2. Len(q) + i \in 1..Len(r) /\ r[Len(q) + i] = line
    BY <1>3, <1>4, <2>1
  <2> QED
    BY <2>2 DEF Shown
<1>11. ASSUME NEW line, Shown(p, line)
       PROVE  Shown(r, line)
  <2>1. PICK j \in 1..N : p[j] = line
    BY <1>11 DEF Shown
  <2>2. Shown(q, line) \/ Shown(g, line)
    BY <1>2, <2>1 DEF LetThrough
  <2> QED
    BY <1>9, <1>10, <2>2
<1>12. CASE g = <<>>
  <2>1. r = q
    BY <1>12 DEF r
  <2> QED
    BY <1>1, <1>4, <1>7, <1>8, <1>9, <1>11, <2>1 DEF r, g
<1>13. CASE g # <<>>
  <2>1. Len(g) \in 1..Len(g) /\ r[Len(r)] = g[Len(g)] /\ g[Len(g)] \in Nat
    BY <1>3, <1>4, <1>13
  <2>2. PICK j \in 1..N : g[Len(g)] = p[j]
    BY <1>2, <2>1 DEF LetThrough
  <2>3. p # <<>> /\ N \in 1..N /\ p[N] \in Nat /\ j <= N /\ p[j] \in Nat
    BY <1>3
  <2>4. p[j] <= p[N]
    BY <2>3 DEF GoesUp
  <2>5. ~Shown(q, p[N])
    <3> SUFFICES ASSUME Shown(q, p[N]) PROVE FALSE
      OBVIOUS
    <3>1. PICK k \in 1..Len(q) : q[k] = p[N]
      BY DEF Shown
    <3>2. q[k] < g[Len(g)]
      BY <1>6, <2>1
    <3> QED
      BY <2>2, <2>3, <2>4, <3>1, <3>2
  <2>6. Shown(g, p[N])
    BY <1>2, <2>3, <2>5 DEF LetThrough
  <2>7. p[N] <= g[Len(g)]
    BY <1>3, <2>3, <2>6, ShownIsNotLater
  <2>8. r[Len(r)] = p[N]
    BY <2>1, <2>2, <2>3, <2>4, <2>7
  <2>9. r # <<>>
    BY <1>3, <1>4, <2>1
  <2> QED
    BY <1>1, <1>4, <1>7, <1>8, <1>9, <1>11, <2>3, <2>8, <2>9 DEF r, g
<1> QED
  BY <1>12, <1>13

-----------------------------------------------------------------------------
(***************************************************************************)
(* The invariant of the logs.  Of the last lines the store had when the    *)
(* last one shown was read, none is missing, and a poll under way brings   *)
(* no line older than the last one shown unless it is shown itself: what   *)
(* a merge appends is newer than all it is appended to.  The initial load  *)
(* reaches back to all of a poll's lines as long as the poll is not        *)
(* outrun.                                                                 *)
(***************************************************************************)
LogsShape ==
    /\ db \in [lines : 0..MaxLines, status : {"stopped", "running"},
               orders : Seq({"start", "stop", "restart"})]
    /\ net = [init |-> net.init, poll |-> net.poll, command |-> net.command]
    /\ cache = [logs |-> cache.logs, connected |-> cache.connected, status |-> cache.status]
    /\ ui = [mounted |-> ui.mounted, question |-> ui.question, clicks |-> ui.clicks]
    /\ ui.mounted \in BOOLEAN /\ ui.question \in {"none", "stop", "restart"}
    /\ past \in [faults : 0..MaxFaults, outrun : BOOLEAN]
    /\ net.command.at = "sent" => net.command.action \in {"start", "stop", "restart"}

Stored(q) == q \in Seq(Nat) /\ \A i \in 1..Len(q) : q[i] \in 1..db.lines

\* Of the k lines up to the last one none is missing.
NoneMissing(q, k) ==
    q # <<>> => \A line \in Nat \ {0} : line <= q[Len(q)] /\ q[Len(q)] < line + k => Shown(q, line)

Lines(q) == Stored(q) /\ GoesUp(q) /\ NoneMissing(q, Recent)

\* The answer of a poll, and one whose lines the initial load still reaches.
Polled(p) == Lines(p) /\ \A i \in 1..Len(p) : p[Len(p)] < p[i] + Recent
Reached(p) == p # <<>> => db.lines - p[Len(p)] <= Full - Recent

ShownInOrder ==
    /\ GoesUp(cache.logs) /\ NoneMissing(cache.logs, Recent)
    /\ net.poll.at = "read" => Follows(cache.logs, net.poll.logs) /\ Reached(net.poll.logs)

LogsInv ==
    /\ LogsShape
    /\ Stored(cache.logs)
    /\ net.init.at = "read" => Lines(net.init.logs) /\ NoneMissing(net.init.logs, Full)
    /\ net.poll.at = "read" => Polled(net.poll.logs)
    /\ ~past.outrun => ShownInOrder

LEMMA LogsBounds ==
  LogsShape => /\ {Recent, Full, MaxLines, MaxFaults} \subseteq Nat /\ Recent <= Full
               /\ db.lines \in 0..MaxLines /\ db.lines \in Nat /\ past.faults \in 0..MaxFaults
  BY PanelAssumption DEF LogsShape, Logs!LogsAssumption

LEMMA LogsInit == Logs!Init => LogsInv
<1> SUFFICES ASSUME Logs!Init PROVE LogsInv
  OBVIOUS
<1>1. LogsShape
  BY PanelAssumption DEF Logs!Init, LogsShape, Logs!LogsAssumption, Logs!NoQuestion, Logs!Idle
<1>2. Stored(<<>>) /\ GoesUp(<<>>) /\ NoneMissing(<<>>, Recent)
  BY DEF Stored, GoesUp, NoneMissing
<1> QED
  BY <1>1, <1>2 DEF Logs!Init, LogsInv, ShownInOrder

(* What the store answers.                                                  *)
LEMMA LastLines ==
  ASSUME LogsShape, NEW k \in Nat
  PROVE  LET q == Logs!GetLogsByService(k)
         IN  /\ Stored(q) /\ GoesUp(q) /\ NoneMissing(q, k)
             /\ \A i \in 1..Len(q) : db.lines < q[i] + k
             /\ q # <<>> => q[Len(q)] = db.lines
<1>1. db.lines \in Nat
  BY LogsBounds
<1> DEFINE n == IF k < db.lines THEN k ELSE db.lines
           q == [i \in 1..n |-> db.lines - n + i]
<1>2. n \in Nat /\ n <= db.lines /\ n <= k
  BY <1>1
<1>3. n = k \/ n = db.lines
  OBVIOUS
<1>4. Logs!GetLogsByService(k) = q
  BY DEF Logs!GetLogsByService
<1> HIDE DEF n
<1>5. q \in Seq(Nat) /\ Len(q) = n /\ \A i \in 1..n : q[i] = db.lines - n + i
  <2>1. \A i \in 1..n : db.lines - n + i \in Nat
    BY <1>1, <1>2
  <2> QED
    BY <1>2, <2>1
<1> HIDE DEF q
<1>6. GoesUp(q)
  BY <1>1, <1>2, <1>5 DEF GoesUp
<1>7. \A i \in 1..n : q[i] \in 1..db.lines /\ db.lines < q[i] + k
  BY <1>1, <1>2, <1>5
<1>8. q # <<>> => n \in 1..n /\ q[n] = db.lines
  BY <1>1, <1>2, <1>5
<1>9. NoneMissing(q, k)
  <2> SUFFICES ASSUME q # <<>>, NEW line \in Nat \ {0}, line <= q[n], q[n] < line + k
               PROVE  Shown(q, line)
    BY <1>5 DEF NoneMissing
  <2>1. line \in Int /\ line >= 1 /\ line <= db.lines /\ db.lines < line + k
    BY <1>8
  <2>2. line - (db.lines - n) \in 1..n
    BY <1>1, <1>2, <1>3, <2>1
  <2>3. q[line - (db.lines - n)] = line
    BY <1>1, <1>2, <1>5, <2>1, <2>2
  <2> QED
    BY <1>5, <2>2, <2>3 DEF Shown
<1> QED
  BY <1>4, <1>5, <1>6, <1>7, <1>8, <1>9 DEF Stored

LEMMA NoneMissingOfFewer ==
  ASSUME NEW q \in Seq(Nat), NEW k \in Nat, NEW m \in Nat, m <= k, NoneMissing(q, k)
  PROVE  NoneMissing(q, m)
<1> SUFFICES ASSUME q # <<>>, NEW line \in Nat \ {0}, line <= q[Len(q)], q[Len(q)] < line + m
             PROVE  Shown(q, line)
  BY DEF NoneMissing
<1>1. q[Len(q)] \in Nat
  <2>1. Len(q) \in 1..Len(q)
    OBVIOUS
  <2> QED
    BY <2>1
<1>2. q[Len(q)] < line + k
  BY <1>1
<1> QED
  BY <1>2 DEF NoneMissing

(* A poll brings nothing older than the last line shown, if it reaches back *)
(* to within k lines of it and none of these is missing.                    *)
LEMMA PollFollows ==
  ASSUME NEW q, Stored(q), NEW k \in Nat, NoneMissing(q, k), NEW p, Stored(p), db.lines \in Nat,
         q # <<>> => \A i \in 1..Len(p) : q[Len(q)] < p[i] + k
  PROVE  Follows(q, p)
<1> SUFFICES ASSUME q # <<>>, NEW i \in 1..Len(p), p[i] <= q[Len(q)]
             PROVE  Shown(q, p[i])
  BY DEF Follows
<1>1. p[i] \in 1..db.lines
  BY DEF Stored
<1>2. p[i] \in Nat \ {0}
  BY <1>1
<1> QED
  BY <1>2 DEF NoneMissing

LEMMA MoreLines ==
  ASSUME db.lines \in Nat, db'.lines \in Nat, db.lines <= db'.lines, NEW q, Stored(q)
  PROVE  q \in Seq(Nat) /\ \A i \in 1..Len(q) : q[i] \in 1..db'.lines
BY DEF Stored

(* An answer of the poll is merged.                                         *)
LEMMA MergeKeeps ==
  ASSUME LogsInv, Logs!PollAnswer
  PROVE  LogsInv'
<1> DEFINE q == cache.logs
           p == net.poll.logs
           r == Logs!mergeLogsUnique(q, p)
<1>1. LogsShape /\ Stored(q) /\ Lines(p) /\ (~past.outrun => ShownInOrder)
  BY DEF LogsInv, Polled, Logs!PollAnswer
<1>2. q \in Seq(Nat) /\ p \in Seq(Nat) /\ GoesUp(p)
  BY <1>1 DEF Lines, Stored
<1>3. /\ cache' = [logs |-> r, connected |-> TRUE, status |-> cache.status]
      /\ net' = [init |-> net.init, poll |-> [at |-> "timer"], command |-> net.command]
      /\ UNCHANGED <<db, ui, past>>
  BY <1>1 DEF LogsShape, Logs!PollAnswer
<1>4. ~past.outrun => GoesUp(q) /\ NoneMissing(q, Recent) /\ Follows(q, p)
  BY <1>1 DEF ShownInOrder, Logs!PollAnswer
<1>5. NoneMissing(p, Recent)
  BY <1>1 DEF Lines
<1>6. Stored(r)
  <2>1. r \in Seq(Nat) /\ \A i \in 1..Len(r) : Shown(q, r[i]) \/ Shown(p, r[i])
    <3> HIDE DEF q, p
    <3> QED
      BY <1>2, MergeShows
  <2> HIDE DEF r
  <2>2. ASSUME NEW i \in 1..Len(r) PROVE r[i] \in 1..db.lines
    <3>1. Shown(q, r[i]) \/ Shown(p, r[i])
      BY <2>1
    <3> QED
      BY <1>1, <3>1 DEF Lines, Stored, Shown
  <2> QED
    BY <2>1, <2>2 DEF Stored
<1>7. ~past.outrun => GoesUp(r) /\ NoneMissing(r, Recent)
  <2> SUFFICES ASSUME ~past.outrun PROVE GoesUp(r) /\ NoneMissing(r, Recent)
    OBVIOUS
  <2>1. GoesUp(q) /\ NoneMissing(q, Recent) /\ Follows(q, p)
    BY <1>4
  <2>2. /\ GoesUp(r)
        /\ \A line : Shown(r, line) <=> Shown(q, line) \/ Shown(p, line)
        /\ r = q \/ (p # <<>> /\ r # <<>> /\ r[Len(r)] = p[Len(p)])
    <3> HIDE DEF q, p
    <3> QED
      BY <1>2, <2>1, MergeKeepsOrder
  <2> HIDE DEF q, p, r
  <2> QED
    BY <1>5, <2>1, <2>2 DEF NoneMissing
<1> HIDE DEF r
<1>8. LogsShape'
  BY <1>1, <1>3 DEF LogsShape
<1>9. Stored(cache.logs)'
  BY <1>3, <1>6 DEF Stored
<1>10. net'.poll.at # "read" /\ past'.outrun = past.outrun
  BY <1>3
<1>11. (~past.outrun => ShownInOrder)'
  BY <1>3, <1>7, <1>10 DEF ShownInOrder, NoneMissing
<1>12. (net.init.at = "read" => Lines(net.init.logs) /\ NoneMissing(net.init.logs, Full))'
  BY <1>3 DEF LogsInv, Lines, Stored, NoneMissing
<1> QED
  BY <1>8, <1>9, <1>10, <1>11, <1>12 DEF LogsInv

(* What has been read stays what it is.                                     *)
LEMMA ReadStays ==
  ASSUME LogsInv, LogsShape', db.lines <= db'.lines,
         cache'.logs = cache.logs \/ (cache'.logs = <<>> /\ net'.poll.at # "read"),
         net'.init = net.init \/ net'.init.at # "read",
         net'.poll = net.poll \/ net'.poll.at # "read"
  PROVE  /\ Stored(cache.logs)'
         /\ (net.init.at = "read" => Lines(net.init.logs) /\ NoneMissing(net.init.logs, Full))'
         /\ (net.poll.at = "read" => Polled(net.poll.logs))'
<1>1. db.lines \in Nat /\ db'.lines \in Nat
  <2>1. MaxLines \in Nat /\ db.lines \in 0..MaxLines /\ db'.lines \in 0..MaxLines
    BY PanelAssumption DEF LogsInv, LogsShape, Logs!LogsAssumption
  <2> QED
    BY <2>1
<1>2. Stored(cache.logs)'
  <2>1. CASE cache'.logs = cache.logs
    <3>1. Stored(cache.logs)
      BY DEF LogsInv
    <3> QED
      BY <1>1, <2>1, <3>1, MoreLines DEF Stored
  <2>2. CASE cache'.logs = <<>>
    BY <2>2 DEF Stored
  <2> QED
    BY <2>1, <2>2
<1>3. (net.init.at = "read" => Lines(net.init.logs) /\ NoneMissing(net.init.logs, Full))'
  <2> SUFFICES ASSUME net'.init.at = "read"
               PROVE  (Lines(net.init.logs) /\ NoneMissing(net.init.logs, Full))'
    OBVIOUS
  <2>1. net'.init = net.init
    OBVIOUS
  <2>2. Lines(net.init.logs) /\ NoneMissing(net.init.logs, Full)
    BY <2>1 DEF LogsInv
  <2>3. net.init.logs \in Seq(Nat) /\ \A i \in 1..Len(net.init.logs) : net.init.logs[i] \in 1..db'.lines
    BY <1>1, <2>2, MoreLines DEF Lines
  <2> QED
    BY <2>1, <2>2, <2>3 DEF Lines, Stored, NoneMissing
<1>4. (net.poll.at = "read" => Polled(net.poll.logs))'
  <2> SUFFICES ASSUME net'.poll.at = "read" PROVE Polled(net.poll.logs)'
    OBVIOUS
  <2>1. net'.poll = net.poll
    OBVIOUS
  <2>2. Polled(net.poll.logs)
    BY <2>1 DEF LogsInv
  <2>3. net.poll.logs \in Seq(Nat) /\ \A i \in 1..Len(net.poll.logs) : net.poll.logs[i] \in 1..db'.lines
    BY <1>1, <2>2, MoreLines DEF Polled, Lines
  <2> QED
    BY <2>1, <2>2, <2>3 DEF Polled, Lines, Stored, NoneMissing
<1> QED
  BY <1>2, <1>3, <1>4

(* Any step that neither writes nor reads a line, and shows all or none of  *)
(* what was.                                                                *)
LEMMA RestKeeps ==
  ASSUME LogsInv, LogsShape', db'.lines = db.lines, past'.outrun = past.outrun,
         cache'.logs = cache.logs \/ (cache'.logs = <<>> /\ net'.poll.at # "read"),
         net'.init = net.init \/ net'.init.at # "read",
         net'.poll = net.poll \/ net'.poll.at # "read"
  PROVE  LogsInv'
<1>1. db.lines <= db'.lines
  <2>1. db.lines \in Nat
    BY LogsBounds DEF LogsInv
  <2> QED
    BY <2>1
<1>2. /\ Stored(cache.logs)'
      /\ (net.init.at = "read" => Lines(net.init.logs) /\ NoneMissing(net.init.logs, Full))'
      /\ (net.poll.at = "read" => Polled(net.poll.logs))'
  BY <1>1, ReadStays
<1>3. (~past.outrun => ShownInOrder)'
  <2> SUFFICES ASSUME ~past.outrun PROVE ShownInOrder'
    OBVIOUS
  <2>1. ShownInOrder
    BY DEF LogsInv
  <2>2. CASE cache'.logs = cache.logs
    BY <2>1, <2>2 DEF ShownInOrder, NoneMissing, Follows, Reached
  <2>3. CASE cache'.logs = <<>> /\ net'.poll.at # "read"
    BY <2>3 DEF ShownInOrder, GoesUp, NoneMissing
  <2> QED
    BY <2>2, <2>3
<1> QED
  BY <1>2, <1>3 DEF LogsInv

LEMMA WriteKeeps ==
  ASSUME LogsInv, LogsShape', db'.lines = db.lines + 1, UNCHANGED <<net, cache>>,
         past' = [faults |-> past.faults, outrun |-> (past.outrun \/ Logs!Outruns)]
  PROVE  LogsInv'
<1>1. db.lines \in Nat /\ db.lines <= db'.lines /\ Recent \in Nat /\ Full \in Nat
  <2>1. db.lines \in Nat /\ Recent \in Nat /\ Full \in Nat
    BY LogsBounds DEF LogsInv
  <2> QED
    BY <2>1
<1>2. /\ Stored(cache.logs)'
      /\ (net.init.at = "read" => Lines(net.init.logs) /\ NoneMissing(net.init.logs, Full))'
      /\ (net.poll.at = "read" => Polled(net.poll.logs))'
  BY <1>1, ReadStays
<1>3. (~past.outrun => ShownInOrder)'
  <2> SUFFICES ASSUME ~past'.outrun PROVE ShownInOrder'
    OBVIOUS
  <2>1. ~past.outrun /\ ~Logs!Outruns
    OBVIOUS
  <2>2. ShownInOrder
    BY <2>1 DEF LogsInv
  <2> DEFINE p == net.poll.logs
  <2>3. ASSUME net.poll.at = "read", p # <<>>
        PROVE  db'.lines - p[Len(p)] <= Full - Recent
    <3>1. ~(db.lines - p[Len(p)] >= Full - Recent)
      BY <2>1, <2>3 DEF Logs!Outruns
    <3>2. p \in Seq(Nat)
      BY <2>3 DEF LogsInv, Polled, Lines, Stored
    <3>3. p[Len(p)] \in Nat
      <4> HIDE DEF p
      <4>1. Len(p) \in 1..Len(p)
        BY <2>3, <3>2
      <4> QED
        BY <3>2, <4>1
    <3> QED
      BY <1>1, <3>1, <3>3
  <2>4. net.poll.at = "read" => Reached(p)'
    BY <2>3 DEF Reached
  <2> QED
    BY <2>2, <2>4 DEF ShownInOrder, NoneMissing, Follows
<1> QED
  BY <1>2, <1>3 DEF LogsInv

LEMMA InitAnswerKeeps ==
  ASSUME LogsInv, Logs!InitAnswer
  PROVE  LogsInv'
<1> DEFINE q == net.init.logs
           p == net.poll.logs
<1>1. LogsShape /\ Lines(q) /\ NoneMissing(q, Full)
  BY DEF LogsInv, Logs!InitAnswer
<1>2. /\ cache' = [logs |-> q, connected |-> cache.connected, status |-> cache.status]
      /\ net' = [init |-> [at |-> "idle"], poll |-> net.poll, command |-> net.command]
      /\ UNCHANGED <<db, ui, past>>
  BY <1>1 DEF LogsShape, Logs!InitAnswer, Logs!Idle
<1>3. LogsShape'
  BY <1>1, <1>2 DEF LogsShape
<1>4. db.lines \in Nat /\ Recent \in Nat /\ Full \in Nat
  BY <1>1, LogsBounds
<1>5. net.poll.at = "read" => Polled(p)
  BY DEF LogsInv
<1>6. ASSUME ~past.outrun, net.poll.at = "read"
      PROVE  Follows(q, p) /\ Reached(p)
  <2>1. Reached(p) /\ Polled(p) /\ Stored(p)
    BY <1>5, <1>6 DEF LogsInv, ShownInOrder, Polled, Lines
  <2> HIDE DEF q, p
  <2>2. Stored(q) /\ NoneMissing(q, Full)
    BY <1>1 DEF Lines
  <2>3. ASSUME q # <<>>, NEW i \in 1..Len(p)
        PROVE  q[Len(q)] < p[i] + Full
    <3>1. p # <<>> /\ Len(p) \in 1..Len(p) /\ p[Len(p)] < p[i] + Recent
      BY <2>1, <2>3 DEF Polled, Stored
    <3>2. db.lines - p[Len(p)] <= Full - Recent
      BY <2>1, <3>1 DEF Reached
    <3>3. Len(q) \in 1..Len(q)
      BY <2>2, <2>3 DEF Stored
    <3>4. q[Len(q)] \in 1..db.lines /\ p[i] \in 1..db.lines /\ p[Len(p)] \in 1..db.lines
      BY <2>1, <2>2, <2>3, <3>1, <3>3 DEF Stored
    <3> QED
      BY <1>4, <3>1, <3>2, <3>4
  <2>4. Follows(q, p)
    BY <1>4, <2>1, <2>2, <2>3, PollFollows
  <2> QED
    BY <2>1, <2>4
<1>7. GoesUp(q) /\ NoneMissing(q, Recent) /\ Stored(q)
  BY <1>1 DEF Lines
<1> HIDE DEF q, p
<1>8. Stored(cache.logs)'
  BY <1>2, <1>7 DEF Stored
<1>9. net'.init.at # "read" /\ net'.poll = net.poll /\ cache'.logs = q /\ past' = past /\ db' = db
  BY <1>2
<1>10. (~past.outrun => ShownInOrder)'
  <2> SUFFICES ASSUME ~past.outrun PROVE ShownInOrder'
    BY <1>9
  <2>1. net.poll.at = "read" => Follows(q, net.poll.logs) /\ Reached(net.poll.logs)
    BY <1>6 DEF p
  <2> QED
    BY <1>7, <1>9, <2>1 DEF ShownInOrder, NoneMissing, Follows, Reached
<1>11. (net.poll.at = "read" => Polled(net.poll.logs))'
  BY <1>5, <1>9 DEF p, Polled, Lines, Stored, NoneMissing
<1> QED
  BY <1>3, <1>8, <1>9, <1>10, <1>11 DEF LogsInv

LEMMA ReadKeeps ==
  ASSUME LogsInv, NEW l \in Logs!Loads, Logs!handleGetServiceLogs(l)
  PROVE  LogsInv'
<1>1. LogsShape /\ Stored(cache.logs) /\ UNCHANGED <<db, cache, ui, past>>
  BY DEF LogsInv, Logs!handleGetServiceLogs
<1>2. db.lines \in Nat /\ Recent \in Nat /\ Full \in Nat /\ Recent <= Full
  BY <1>1, LogsBounds
<1>3. Stored(cache.logs)'
  BY <1>1 DEF Stored
<1>4. CASE l = "init"
  <2> DEFINE q == Logs!GetLogsByService(Full)
  <2>1. net' = [init |-> [at |-> "read", logs |-> q], poll |-> net.poll, command |-> net.command]
    BY <1>1, <1>4 DEF LogsShape, Logs!handleGetServiceLogs
  <2>2. Stored(q) /\ GoesUp(q) /\ NoneMissing(q, Full)
    BY <1>1, <1>2, LastLines
  <2> HIDE DEF q
  <2>3. Lines(q)
    BY <1>2, <2>2, NoneMissingOfFewer DEF Lines, Stored
  <2>4. LogsShape'
    BY <1>1, <2>1 DEF LogsShape
  <2>5. net'.init.logs = q /\ net'.poll = net.poll
    BY <2>1
  <2>6. (Lines(net.init.logs) /\ NoneMissing(net.init.logs, Full))'
    BY <1>1, <2>2, <2>3, <2>5 DEF Lines, Stored, NoneMissing
  <2>7. (net.poll.at = "read" => Polled(net.poll.logs))'
    BY <1>1, <2>5 DEF LogsInv, Polled, Lines, Stored, NoneMissing
  <2>8. (~past.outrun => ShownInOrder)'
    BY <1>1, <2>5 DEF LogsInv, ShownInOrder, NoneMissing, Follows, Reached
  <2> QED
    BY <1>3, <2>4, <2>6, <2>7, <2>8 DEF LogsInv
<1>5. CASE l = "poll"
  <2> DEFINE p == Logs!GetLogsByService(Recent)
             q == cache.logs
  <2>1. net' = [init |-> net.init, command |-> net.command, poll |-> [at |-> "read", logs |-> p]]
    BY <1>1, <1>5 DEF LogsShape, Logs!handleGetServiceLogs
  <2>2. /\ Stored(p) /\ GoesUp(p) /\ NoneMissing(p, Recent)
        /\ \A i \in 1..Len(p) : db.lines < p[i] + Recent
        /\ p # <<>> => p[Len(p)] = db.lines
    BY <1>1, <1>2, LastLines
  <2> HIDE DEF p
  <2>3. Polled(p)
    <3>1. \A i \in 1..Len(p) : p # <<>>
      BY <2>2 DEF Stored
    <3> QED
      BY <2>2, <3>1 DEF Polled, Lines
  <2>4. Reached(p)
    BY <1>2, <2>2 DEF Reached
  <2>5. ~past.outrun => Follows(q, p)
    <3> SUFFICES ASSUME ~past.outrun PROVE Follows(q, p)
      OBVIOUS
    <3>1. NoneMissing(q, Recent) /\ Stored(q)
      BY <1>1 DEF LogsInv, ShownInOrder
    <3> HIDE DEF q
    <3>2. ASSUME q # <<>>, NEW i \in 1..Len(p)
          PROVE  q[Len(q)] < p[i] + Recent
      <4>1. Len(q) \in 1..Len(q)
        BY <3>1, <3>2 DEF Stored
      <4>2. q[Len(q)] \in 1..db.lines /\ p[i] \in 1..db.lines /\ db.lines < p[i] + Recent
        BY <2>2, <3>1, <4>1 DEF Stored
      <4> QED
        BY <1>2, <4>2
    <3> QED
      BY <1>2, <2>2, <3>1, <3>2, PollFollows
  <2>6. LogsShape'
    BY <1>1, <2>1 DEF LogsShape
  <2>7. net'.poll.logs = p /\ net'.init = net.init
    BY <2>1
  <2>8. (net.init.at = "read" => Lines(net.init.logs) /\ NoneMissing(net.init.logs, Full))'
    BY <1>1, <2>7 DEF LogsInv, Lines, Stored, NoneMissing
  <2>9. Polled(net.poll.logs)'
    BY <1>1, <2>3, <2>7 DEF Polled, Lines, Stored, NoneMissing
  <2>10. (~past.outrun => ShownInOrder)'
    BY <1>1, <2>4, <2>5, <2>7 DEF LogsInv, ShownInOrder, NoneMissing, Follows, Reached
  <2> QED
    BY <1>3, <2>6, <2>8, <2>9, <2>10 DEF LogsInv
<1> QED
  BY <1>4, <1>5 DEF Logs!Loads

LEMMA LogsStep == LogsInv /\ [Logs!Next]_(Logs!vars) => LogsInv'
<1> SUFFICES ASSUME LogsInv, [Logs!Next]_(Logs!vars) PROVE LogsInv'
  OBVIOUS
<1>1. LogsShape
  BY DEF LogsInv
<1>2. MaxLines \in Nat /\ MaxFaults \in Nat /\ db.lines \in 0..MaxLines /\ past.faults \in 0..MaxFaults
  BY <1>1, PanelAssumption DEF LogsShape, Logs!LogsAssumption
<1>3. CASE Logs!Write
  <2>1. /\ db' = [db EXCEPT !.lines = db.lines + 1] /\ db.lines < MaxLines
        /\ past' = [past EXCEPT !.outrun = past.outrun \/ Logs!Outruns]
        /\ UNCHANGED <<net, cache, ui>>
    BY <1>3 DEF Logs!Write
  <2>2. db.lines + 1 \in 0..MaxLines
    BY <1>2, <2>1
  <2>3. past' = [faults |-> past.faults, outrun |-> (past.outrun \/ Logs!Outruns)]
    BY <1>1, <2>1 DEF LogsShape
  <2>4. past' \in [faults : 0..MaxFaults, outrun : BOOLEAN]
    BY <1>1, <2>3 DEF LogsShape
  <2>5. db'.lines = db.lines + 1 /\ LogsShape'
    BY <1>1, <2>1, <2>2, <2>4 DEF LogsShape
  <2> QED
    BY <2>1, <2>3, <2>5, WriteKeeps
<1>4. CASE Logs!Obey
  <2>1. /\ db.orders # <<>> /\ UNCHANGED <<net, cache, ui, past>>
        /\ db' = [db EXCEPT !.orders = Tail(db.orders), !.status = db'.status]
        /\ db'.status \in {"stopped", "running"}
    BY <1>1, <1>4 DEF LogsShape, Logs!Obey
  <2>2. Tail(db.orders) \in Seq({"start", "stop", "restart"})
    BY <1>1, <2>1 DEF LogsShape
  <2>3. db'.lines = db.lines /\ LogsShape'
    BY <1>1, <2>1, <2>2 DEF LogsShape
  <2> QED
    BY <2>1, <2>3, RestKeeps
<1>5. CASE Logs!fetchLoop
  <2>1. /\ net' = [init |-> net.init, poll |-> [at |-> "sent"], command |-> net.command]
        /\ UNCHANGED <<db, cache, ui, past>>
    BY <1>1, <1>5 DEF LogsShape, Logs!fetchLoop
  <2>2. LogsShape'
    BY <1>1, <2>1 DEF LogsShape
  <2> QED
    BY <2>1, <2>2, RestKeeps
<1>6. CASE Logs!InitFails \/ Logs!PollFails
  <2>1. past' = [past EXCEPT !.faults = @ + 1] /\ past.faults < MaxFaults /\ UNCHANGED <<db, ui>>
    BY <1>6 DEF Logs!InitFails, Logs!PollFails, Logs!Fault
  <2>2. past' \in [faults : 0..MaxFaults, outrun : BOOLEAN] /\ past'.outrun = past.outrun
    <3>1. past.faults + 1 \in 0..MaxFaults
      BY <1>2, <2>1
    <3> QED
      BY <1>1, <2>1, <3>1 DEF LogsShape
  <2>3. CASE Logs!InitFails
    <3>1. /\ net' = [init |-> [at |-> "idle"], poll |-> net.poll, command |-> net.command]
          /\ cache' = cache
      BY <1>1, <2>3 DEF LogsShape, Logs!InitFails, Logs!Idle
    <3>2. LogsShape'
      BY <1>1, <2>1, <2>2, <3>1 DEF LogsShape
    <3> QED
      BY <2>1, <2>2, <3>1, <3>2, RestKeeps
  <2>4. CASE Logs!PollFails
    <3>1. /\ net' = [init |-> net.init, poll |-> [at |-> "timer"], command |-> net.command]
          /\ cache' = [logs |-> cache.logs, connected |-> FALSE, status |-> cache.status]
      BY <1>1, <2>4 DEF LogsShape, Logs!PollFails
    <3>2. LogsShape'
      BY <1>1, <2>1, <2>2, <3>1 DEF LogsShape
    <3> QED
      BY <2>1, <2>2, <3>1, <3>2, RestKeeps
  <2> QED
    BY <1>6, <2>3, <2>4
<1>7. CASE Logs!Unmount
  <2>1. /\ net' = [init |-> [at |-> "idle"], poll |-> [at |-> "idle"], command |-> net.command]
        /\ cache' = [logs |-> <<>>, connected |-> TRUE, status |-> cache.status]
        /\ ui' = [mounted |-> FALSE, question |-> ui.question, clicks |-> ui.clicks + 1]
        /\ UNCHANGED <<db, past>>
    BY <1>1, <1>7 DEF LogsShape, Logs!Unmount, Logs!Idle
  <2>2. LogsShape'
    BY <1>1, <2>1 DEF LogsShape
  <2> QED
    BY <2>1, <2>2, RestKeeps
<1>8. CASE Logs!Mount
  <2>1. /\ net' = [init |-> [at |-> "sent"], poll |-> [at |-> "timer"], command |-> net.command]
        /\ ui' = [mounted |-> TRUE, question |-> ui.question, clicks |-> ui.clicks]
        /\ UNCHANGED <<db, cache, past>>
    BY <1>1, <1>8 DEF LogsShape, Logs!Mount
  <2>2. LogsShape'
    BY <1>1, <2>1 DEF LogsShape
  <2> QED
    BY <2>1, <2>2, RestKeeps
<1>9. CASE Logs!serviceQuery
  <2>1. LogsShape' /\ cache'.logs = cache.logs /\ UNCHANGED <<db, net, past>>
    BY <1>1, <1>9 DEF LogsShape, Logs!serviceQuery
  <2> QED
    BY <2>1, RestKeeps
<1>10. CASE Logs!executeServiceCommand
  <2>1. net.command.action \in {"start", "stop", "restart"}
    BY <1>1, <1>10 DEF LogsShape, Logs!executeServiceCommand
  <2>2. /\ net' = [init |-> net.init, poll |-> net.poll, command |-> [at |-> "idle"]]
        /\ UNCHANGED <<ui, past>>
        /\ \/ /\ db' = [db EXCEPT !.orders = Append(@, net.command.action)]
              /\ cache' = [cache EXCEPT !.status = "pending"]
           \/ UNCHANGED <<db, cache>>
    BY <1>1, <1>10 DEF LogsShape, Logs!executeServiceCommand, Logs!Idle
  <2>3. Append(db.orders, net.command.action) \in Seq({"start", "stop", "restart"})
    BY <1>1, <2>1 DEF LogsShape
  <2>4. db' \in [lines : 0..MaxLines, status : {"stopped", "running"},
                 orders : Seq({"start", "stop", "restart"})]
    BY <1>1, <2>2, <2>3 DEF LogsShape
  <2>5. LogsShape' /\ db'.lines = db.lines /\ cache'.logs = cache.logs
    BY <1>1, <2>2, <2>4 DEF LogsShape
  <2> QED
    BY <2>2, <2>5, RestKeeps
<1>11. ASSUME NEW action \in {"start", "stop", "restart"}, Logs!executeCommand(action)
       PROVE  LogsInv'
  <2>1. /\ UNCHANGED <<db, cache, past>>
        /\ ui' = [mounted |-> ui.mounted, question |-> ui'.question, clicks |-> ui.clicks + 1]
        /\ ui'.question \in {"none", "stop", "restart"}
        /\ \/ net' = net
           \/ net' = [init |-> net.init, poll |-> net.poll,
                      command |-> [at |-> "sent", action |-> action]]
    BY <1>1, <1>11 DEF LogsShape, Logs!executeCommand, Logs!Send
  <2>2. LogsShape' /\ net'.init = net.init /\ net'.poll = net.poll
    BY <1>1, <2>1 DEF LogsShape
  <2> QED
    BY <2>1, <2>2, RestKeeps
<1>12. ASSUME NEW ok \in BOOLEAN, Logs!confirm(ok)
       PROVE  LogsInv'
  <2>1. /\ UNCHANGED <<db, cache, past>> /\ ui.question \in {"stop", "restart"}
        /\ ui' = [mounted |-> ui.mounted, question |-> "none", clicks |-> ui.clicks]
        /\ \/ net' = net
           \/ net' = [init |-> net.init, poll |-> net.poll,
                      command |-> [at |-> "sent", action |-> ui.question]]
    BY <1>1, <1>12 DEF LogsShape, Logs!confirm, Logs!Send, Logs!NoQuestion
  <2>2. LogsShape' /\ net'.init = net.init /\ net'.poll = net.poll
    BY <1>1, <2>1 DEF LogsShape
  <2> QED
    BY <2>1, <2>2, RestKeeps
<1>13. CASE UNCHANGED Logs!vars
  <2>1. LogsShape' /\ UNCHANGED <<db, net, cache, past>>
    BY <1>1, <1>13 DEF LogsShape, Logs!vars
  <2> QED
    BY <2>1, RestKeeps
<1>14. "init" \in Logs!Loads /\ "poll" \in Logs!Loads
  BY DEF Logs!Loads
<1> QED
  BY <1>3, <1>4, <1>5, <1>6, <1>7, <1>8, <1>9, <1>10, <1>11, <1>12, <1>13, <1>14,
     ReadKeeps, InitAnswerKeeps, MergeKeeps
  DEF Logs!Next, Logs!Loop

-----------------------------------------------------------------------------
(***************************************************************************)
(* The services.  A request carries the name or the action it is to store, *)
(* and its hook looks whether the name is free when it stores it.          *)
(***************************************************************************)
Actions == {"start", "stop", "restart"}

\* What a request of a kind carries.
Carries(m, c) ==
    /\ m = "command" /\ c.at = "sent" => c.action \in Actions
    /\ m \in {"save", "create", "clone"} /\ c.at = "sent" => c.name \in Names
    /\ m = "save" /\ c.at = "sent" =>
        c = [at |-> c.at, service |-> c.service, name |-> c.name, seen |-> c.seen]
    /\ m = "save" /\ c.at = "ok" => c.name \in Names

ServicesDb(d) ==
    /\ d = [name |-> d.name, status |-> d.status, orders |-> d.orders]
    /\ d.name \in [Records -> Names \cup {None}]
    /\ d.status \in [Records -> Services!Statuses]
    /\ \A s, t \in Records : d.name[s] # None /\ d.name[s] = d.name[t] => s = t

ServicesCache ==
    /\ cache = [list |-> cache.list, detail |-> cache.detail, fetch |-> cache.fetch]
    /\ cache.list \in [Records -> Services!Statuses \cup {"pending", "absent"}]
    /\ cache.fetch.at = "rows" =>
        cache.fetch.rows \in [Records -> Services!Statuses \cup {"absent"}]

ServicesUi ==
    /\ ui = [page |-> ui.page, dialog |-> ui.dialog, modal |-> ui.modal, clicks |-> ui.clicks]
    /\ ui.page \in Names \cup {"/"}
    /\ ui.dialog.kind \in {"none", "command", "delete"}
    /\ ui.dialog.kind = "command" => ui.dialog.action \in Actions
    /\ ui.modal.kind \in {"none", "create", "clone"}

ServicesNet ==
    /\ net = [m \in Services!Requests |-> net[m]]
    /\ \A m \in Services!Requests : Carries(m, net[m])

ServicesInv == ServicesDb(db) /\ ServicesCache /\ ServicesUi /\ ServicesNet

LEMMA ServicesInit == Services!Init => ServicesInv
<1> SUFFICES ASSUME Services!Init PROVE ServicesInv
  OBVIOUS
<1> DEFINE s == CHOOSE t \in Records : TRUE
           n == CHOOSE m \in Names : TRUE
<1>1. s \in Records /\ n \in Names
  BY PanelAssumption DEF Services!ServicesAssumption
<1>2. PICK st \in {"stopped", "sleeping"} :
        /\ db = [name |-> [t \in Records |-> IF t = s THEN n ELSE None],
                 status |-> [t \in Records |-> IF t = s THEN st ELSE "idle"],
                 orders |-> [t \in Records |-> <<>>]]
        /\ cache = [list |-> [t \in Records |-> IF t = s THEN st ELSE "absent"],
                    detail |-> [m \in Names |-> [service |-> None]],
                    fetch |-> [at |-> "idle"]]
  BY DEF Services!Init, Services!Idle, Services!Absent
<1> HIDE DEF s, n
<1>3. ServicesDb(db)
  BY <1>1, <1>2 DEF ServicesDb, Services!Statuses
<1>4. ServicesCache
  BY <1>2 DEF ServicesCache, Services!Statuses
<1>5. ServicesNet
  BY DEF Services!Init, ServicesNet, Carries, Services!Idle, Services!Requests
<1>6. ServicesUi
  <2>1. ui \in [page : {"/", n}, dialog : {[kind |-> "none"]}, modal : {[kind |-> "none"]}, clicks : {0}]
    BY DEF Services!Init, n
  <2> QED
    BY <1>1, <2>1 DEF ServicesUi
<1> QED
  BY <1>3, <1>4, <1>5, <1>6 DEF ServicesInv

LEMMA ServicesGoto ==
  ASSUME ServicesNet, NEW m, NEW c, net' = [net EXCEPT ![m] = c], Carries(m, c)
  PROVE  ServicesNet'
<1>1. net' = [k \in Services!Requests |-> IF k = m THEN c ELSE net[k]]
  BY DEF ServicesNet
<1>2. \A k \in Services!Requests : Carries(k, net'[k])
  BY <1>1 DEF ServicesNet
<1> QED
  BY <1>1, <1>2 DEF ServicesNet, Carries

\* A name that is free, or none, is given to a service.
LEMMA Renamed ==
  ASSUME ServicesDb(db), NEW s, NEW n \in Names \cup {None},
         s \in Records /\ n # None => \A t \in Records \ {s} : db.name[t] # n,
         NEW st \in [Records -> Services!Statuses], NEW orders
  PROVE  ServicesDb([name |-> [db.name EXCEPT ![s] = n], status |-> st, orders |-> orders])
<1> DEFINE name == [db.name EXCEPT ![s] = n]
<1>1. name = [t \in Records |-> IF t = s THEN n ELSE db.name[t]]
  BY DEF ServicesDb
<1>2. name \in [Records -> Names \cup {None}]
  BY <1>1 DEF ServicesDb
<1>3. ASSUME NEW t \in Records, NEW u \in Records, name[t] # None, name[t] = name[u]
      PROVE  t = u
  BY <1>1, <1>3 DEF ServicesDb
<1> HIDE DEF name
<1> QED
  BY <1>2, <1>3 DEF ServicesDb

LEMMA ServicesLauncher ==
  ASSUME ServicesInv, Services!Launcher \/ \E s \in Records : Services!Obey(s)
  PROVE  ServicesInv'
<1> USE DEF Services!At, Services!Goto
<1> DEFINE Fine(m, c) == net' = [net EXCEPT ![m] = c] /\ Carries(m, c)
<1>1. ServicesDb(db) /\ ServicesCache /\ ServicesUi /\ ServicesNet
  BY DEF ServicesInv
<1>2. /\ db = [name |-> db.name, status |-> db.status, orders |-> db.orders]
      /\ db.name \in [Records -> Names \cup {None}]
      /\ db.status \in [Records -> Services!Statuses]
  BY <1>1 DEF ServicesDb
<1>3. ASSUME UNCHANGED <<cache, ui>>, ServicesDb(db'), ServicesNet'
      PROVE  ServicesInv'
  BY <1>1, <1>3 DEF ServicesInv, ServicesDb, ServicesCache, ServicesUi
<1>4. ASSUME UNCHANGED <<cache, ui>>, ServicesDb(db'), NEW m, NEW c, Fine(m, c)
      PROVE  ServicesInv'
  BY <1>1, <1>3, <1>4, ServicesGoto
<1>5. \A s, v : v \in Services!Statuses => [db.status EXCEPT ![s] = v] \in [Records -> Services!Statuses]
  BY <1>2
<1>6. ASSUME NEW st \in [Records -> Services!Statuses], NEW orders
      PROVE  ServicesDb([name |-> db.name, status |-> st, orders |-> orders])
  BY <1>1 DEF ServicesDb
<1>8. ASSUME NEW s \in Records, Services!Obey(s) PROVE ServicesInv'
  <2> DEFINE orders == [db.orders EXCEPT ![s] = Tail(db.orders[s])]
             d == [db EXCEPT !.orders = orders]
  <2>1. PICK st \in {"stopped", "running", "failure"} : db' = [d EXCEPT !.status[s] = st]
    BY <1>8 DEF Services!Obey
  <2> HIDE DEF orders
  <2>2. d = [name |-> db.name, status |-> db.status, orders |-> orders]
    BY <1>2
  <2>3. db' = [name |-> db.name, status |-> [db.status EXCEPT ![s] = st],
               orders |-> orders]
    BY <2>1, <2>2
  <2>4. ServicesDb(db')
    BY <1>5, <1>6, <2>3 DEF Services!Statuses
  <2>5. UNCHANGED <<net, cache, ui>>
    BY <1>8 DEF Services!Obey
  <2>6. ServicesNet'
    BY <1>1, <2>5 DEF ServicesNet, Carries
  <2> QED
    BY <1>3, <2>4, <2>5, <2>6
<1>9. CASE Services!executeServiceCommand
  <2> DEFINE c == net["command"]
  <2>1. c.action \in Actions
    BY <1>1, <1>9 DEF ServicesNet, Carries, Services!Requests, Services!executeServiceCommand
  <2>2. db' = [name |-> db.name, status |-> db.status,
               orders |-> [db.orders EXCEPT ![c.service] = Append(@, c.action)]]
    BY <1>2, <1>9 DEF Services!executeServiceCommand
  <2>3. ServicesDb(db')
    BY <1>2, <1>6, <2>1, <2>2
  <2>4. Fine("command", [at |-> "ok"]) /\ UNCHANGED <<cache, ui>>
    BY <1>9 DEF Services!executeServiceCommand, Carries
  <2> QED
    BY <1>4, <2>3, <2>4
<1>10. ASSUME NEW s
       PROVE  ServicesDb(Services!Deleted(s))
  <2> DEFINE d == [db EXCEPT !.name[s] = None]
             e == [d EXCEPT !.status[s] = "idle"]
             status == [db.status EXCEPT ![s] = "idle"]
             orders == [db.orders EXCEPT ![s] = <<>>]
  <2>1. d = [name |-> [db.name EXCEPT ![s] = None], status |-> db.status, orders |-> db.orders]
    BY <1>2
  <2>3. Services!Deleted(s) = [e EXCEPT !.orders[s] = <<>>]
    BY <1>2 DEF Services!Deleted
  <2> HIDE DEF d
  <2>2. e = [name |-> [db.name EXCEPT ![s] = None], status |-> status, orders |-> db.orders]
    BY <2>1
  <2> HIDE DEF e
  <2>4. Services!Deleted(s) = [name |-> [db.name EXCEPT ![s] = None], status |-> status, orders |-> orders]
    BY <2>2, <2>3
  <2>5. status \in [Records -> Services!Statuses]
    BY <1>5 DEF Services!Statuses
  <2> HIDE DEF status, orders
  <2>6. None \in Names \cup {None}
    OBVIOUS
  <2>7. s \in Records /\ None # None => \A t \in Records \ {s} : db.name[t] # None
    OBVIOUS
  <2>8. ServicesDb([name |-> [db.name EXCEPT ![s] = None], status |-> status, orders |-> orders])
    BY <1>1, <2>5, <2>6, <2>7, Renamed
  <2> QED
    BY <2>4, <2>8
<1>11. CASE Services!deleteServiceInstance
  <2>1. ServicesDb(db') /\ UNCHANGED <<cache, ui>>
    BY <1>10, <1>11 DEF Services!deleteServiceInstance
  <2>2. Fine("delete", [at |-> "ok"]) \/ Fine("delete", [at |-> "error"])
    BY <1>11 DEF Services!deleteServiceInstance, Carries
  <2> QED
    BY <1>4, <2>1, <2>2
<1>12. CASE Services!updateServiceInstance
  <2> DEFINE c == net["save"]
  <2>1. /\ c = [at |-> c.at, service |-> c.service, name |-> c.name, seen |-> c.seen]
        /\ c.name \in Names
    BY <1>1, <1>12 DEF ServicesNet, Carries, Services!Requests, Services!updateServiceInstance
  <2>2. /\ db' = [name |-> [db.name EXCEPT ![c.service] = c.name],
                  status |-> db.status, orders |-> db.orders]
        /\ Services!Free(c.name) \/ db.name[c.service] = c.name
        /\ Services!Exists(c.service)
        /\ UNCHANGED <<cache, ui>>
    BY <1>2, <1>12 DEF Services!updateServiceInstance
  <2>3. c.service \in Records /\ c.name # None =>
            \A t \in Records \ {c.service} : db.name[t] # c.name
    BY <1>1, <2>2 DEF ServicesDb, Services!Free
  <2>4. ServicesDb(db')
    BY <1>1, <1>2, <2>1, <2>2, <2>3, Renamed
  <2>5. Fine("save", [c EXCEPT !.at = "ok"]) \/ Fine("save", [at |-> "error"])
    BY <1>12, <2>1 DEF Services!updateServiceInstance, Carries
  <2> QED
    BY <1>4, <2>2, <2>4, <2>5
<1>13. ASSUME NEW s \in Records, Services!createServiceInstance(s) PROVE ServicesInv'
  <2> DEFINE n == net["create"].name
  <2>1. n \in Names /\ \A t \in Records : db.name[t] # n
    BY <1>1, <1>13 DEF ServicesNet, Carries, Services!Requests, Services!createServiceInstance,
      Services!Free
  <2>2. db' = [name |-> [db.name EXCEPT ![s] = n], status |-> db.status,
               orders |-> [db.orders EXCEPT ![s] = <<"start">>]]
    BY <1>2, <1>13 DEF Services!createServiceInstance
  <2>3. ServicesDb(db')
    BY <1>1, <1>2, <2>1, <2>2, Renamed
  <2>4. Fine("create", [at |-> "password"]) /\ UNCHANGED <<cache, ui>>
    BY <1>13 DEF Services!createServiceInstance, Carries
  <2> QED
    BY <1>4, <2>3, <2>4
<1>14. ASSUME NEW s \in Records, Services!CopyBegins(s) PROVE ServicesInv'
  <2> DEFINE n == net["clone"].name
  <2>1. n \in Names /\ \A t \in Records : db.name[t] # n
    BY <1>1, <1>14 DEF ServicesNet, Carries, Services!Requests, Services!CopyBegins,
      Services!Free
  <2>2. db' = [name |-> [db.name EXCEPT ![s] = n], orders |-> db.orders,
               status |-> [db.status EXCEPT ![s] = "restoring"]]
    BY <1>2, <1>14 DEF Services!CopyBegins
  <2>3. ServicesDb(db')
    BY <1>1, <1>2, <1>5, <2>1, <2>2, Renamed DEF Services!Statuses
  <2>4. Fine("clone", [at |-> "copy", service |-> s]) /\ UNCHANGED <<cache, ui>>
    BY <1>14 DEF Services!CopyBegins, Carries
  <2> QED
    BY <1>4, <2>3, <2>4
<1>15. CASE Services!upsertSuperuser
  <2>1. Fine("create", [at |-> "ok"]) /\ UNCHANGED <<db, cache, ui>>
    BY <1>15 DEF Services!upsertSuperuser, Carries
  <2> QED
    BY <1>1, <1>4, <2>1 DEF ServicesDb
<1>16. CASE Services!CopyEnds
  <2> DEFINE s == net["clone"].service
             stopped == [db.status EXCEPT ![s] = "stopped"]
  <2>1. \/ db' = [name |-> db.name, status |-> stopped,
                 orders |-> [db.orders EXCEPT ![s] = Append(@, "start")]]
        \/ db' = Services!Deleted(s)
        \/ db' = [name |-> db.name, status |-> db.status, orders |-> db.orders]
        \/ db' = [name |-> db.name, status |-> stopped, orders |-> db.orders]
    BY <1>2, <1>16 DEF Services!CopyEnds
  <2>2. ServicesDb(db')
    BY <1>2, <1>5, <1>6, <1>10, <2>1 DEF Services!Statuses
  <2>3. Fine("clone", [at |-> "ok"]) \/ Fine("clone", [at |-> "error"])
    BY <1>16 DEF Services!CopyEnds, Carries
  <2>4. UNCHANGED <<cache, ui>>
    BY <1>16 DEF Services!CopyEnds
  <2> QED
    BY <1>4, <2>2, <2>3, <2>4
<1>17. ASSUME NEW m \in Services!Requests, Services!Fails(m) PROVE ServicesInv'
  <2>1. Fine(m, [at |-> "error"]) /\ UNCHANGED <<db, cache, ui>>
    BY <1>17 DEF Services!Fails, Carries
  <2> QED
    BY <1>1, <1>4, <2>1 DEF ServicesDb
<1> QED
  BY <1>8, <1>9, <1>11, <1>12, <1>13, <1>14, <1>15, <1>16, <1>17
  DEF Services!Launcher, Services!cloneService, Services!restoreBackup

LEMMA ServicesPolling ==
  ASSUME ServicesInv, Services!Polling
  PROVE  ServicesInv'
<1>1. ServicesDb(db) /\ ServicesCache /\ ServicesUi /\ ServicesNet /\ UNCHANGED <<db, net, ui>>
  BY DEF ServicesInv, Services!Polling, Services!FetchBegins, Services!fetchAllServices,
    Services!DetailBegins, Services!fetchServiceByName
<1>2. ASSUME ServicesCache'
      PROVE  ServicesInv'
  BY <1>1, <1>2 DEF ServicesInv, ServicesDb, ServicesUi, ServicesNet, Carries
<1>3. Services!Rows \in [Records -> Services!Statuses \cup {"absent"}]
  BY <1>1 DEF Services!Rows, ServicesDb, Services!Absent
<1>4. \A rows, commands :
        rows \in [Records -> Services!Statuses \cup {"absent"}] =>
            Services!Merged(rows, commands) \in [Records -> Services!Statuses \cup {"pending", "absent"}]
  BY DEF Services!Merged
<1>5. ASSUME NEW f, cache' = [cache EXCEPT !.fetch = f],
             f.at = "rows" => f.rows \in [Records -> Services!Statuses \cup {"absent"}]
      PROVE  ServicesCache'
  BY <1>1, <1>5 DEF ServicesCache
<1>6. CASE Services!FetchBegins
  <2>1. \/ cache' = [cache EXCEPT !.fetch = [at |-> "rows", rows |-> Services!Rows]]
        \/ cache' = [cache EXCEPT !.fetch = [at |-> "commands", commands |-> Services!PendingCommands]]
    BY <1>6 DEF Services!FetchBegins
  <2> QED
    BY <1>2, <1>3, <1>5, <2>1
<1>7. CASE Services!DetailBegins
  <2>1. cache' = [cache EXCEPT !.fetch = [at |-> "detail", name |-> ui.page,
                                          service |-> Services!Named(ui.page),
                                          rows |-> Services!Rows]]
    BY <1>7 DEF Services!DetailBegins
  <2> QED
    BY <1>2, <1>5, <2>1
<1>8. CASE Services!fetchAllServices
  <2> DEFINE list == IF cache.fetch.at = "rows"
                     THEN Services!Merged(cache.fetch.rows, Services!PendingCommands)
                     ELSE Services!Merged(Services!Rows, cache.fetch.commands)
  <2>1. list \in [Records -> Services!Statuses \cup {"pending", "absent"}]
    BY <1>1, <1>3, <1>4 DEF ServicesCache
  <2>2. cache' = [list |-> list, detail |-> cache.detail, fetch |-> [at |-> "idle"]]
    BY <1>1, <1>8 DEF ServicesCache, Services!fetchAllServices, Services!Idle
  <2> HIDE DEF list
  <2> QED
    BY <1>2, <2>1, <2>2 DEF ServicesCache
<1>9. CASE Services!fetchServiceByName
  <2>1. /\ cache' = [list |-> cache.list, detail |-> cache'.detail, fetch |-> [at |-> "idle"]]
    BY <1>1, <1>9 DEF ServicesCache, Services!fetchServiceByName, Services!Idle
  <2>2. ServicesCache'
    <3>1. cache'.list = cache.list /\ cache'.fetch.at = "idle"
      BY <2>1
    <3> QED
      BY <1>1, <2>1, <3>1 DEF ServicesCache
  <2> QED
    BY <1>2, <2>2
<1> QED
  BY <1>6, <1>7, <1>8, <1>9 DEF Services!Polling

LEMMA ServicesUser ==
  ASSUME ServicesInv, Services!User \/ Services!Completion \/ UNCHANGED Services!vars
  PROVE  ServicesInv'
<1> USE DEF Services!At, Services!Goto
<1>1. ServicesDb(db) /\ ServicesCache /\ ServicesUi /\ ServicesNet
  BY DEF ServicesInv
<1>2. /\ ui = [page |-> ui.page, dialog |-> ui.dialog, modal |-> ui.modal, clicks |-> ui.clicks]
      /\ ui.page \in Names \cup {"/"}
  BY <1>1 DEF ServicesUi
<1>3. ASSUME UNCHANGED <<db, cache>>, ServicesUi', ServicesNet'
      PROVE  ServicesInv'
  BY <1>1, <1>3 DEF ServicesInv, ServicesDb, ServicesCache
<1>4. net' = net => ServicesNet'
  BY <1>1 DEF ServicesNet, Carries
<1>5. ASSUME NEW m, NEW c, net' = [net EXCEPT ![m] = c], Carries(m, c) PROVE ServicesNet'
  BY <1>1, <1>5, ServicesGoto
<1>6. ASSUME NEW p \in Names \cup {"/"}, NEW clicks,
             ui' = [page |-> p, dialog |-> ui.dialog, modal |-> ui.modal, clicks |-> clicks]
      PROVE  ServicesUi'
  BY <1>1, <1>6 DEF ServicesUi
<1>7. ui' = ui => ServicesUi'
  BY <1>1 DEF ServicesUi
<1>8. ASSUME NEW d, NEW clicks, d.kind \in {"none", "command", "delete"},
             d.kind = "command" => d.action \in Actions,
             ui' = [page |-> ui.page, dialog |-> d, modal |-> ui.modal, clicks |-> clicks]
      PROVE  ServicesUi'
  BY <1>1, <1>8 DEF ServicesUi
<1>9. ASSUME NEW d, NEW clicks, d.kind \in {"none", "create", "clone"},
             ui' = [page |-> ui.page, dialog |-> ui.dialog, modal |-> d, clicks |-> clicks]
      PROVE  ServicesUi'
  BY <1>1, <1>9 DEF ServicesUi
<1>10. ASSUME NEW m, net' = [net EXCEPT ![m] = [at |-> "idle"]] PROVE ServicesNet'
  BY <1>5, <1>10 DEF Carries
<1>11. CASE Services!Completion
  <2>1. UNCHANGED <<db, cache>> /\ \E m : net' = [net EXCEPT ![m] = [at |-> "idle"]]
    BY <1>11 DEF Services!Completion, Services!commandSucceeds, Services!deleteSucceeds,
      Services!saveSucceeds, Services!createSucceeds, Services!MutationFails, Services!Idle
  <2>2. CASE \E p \in Names \cup {"/"} : ui' = [ui EXCEPT !.page = p]
    <3>1. PICK p \in Names \cup {"/"} : ui' = [ui EXCEPT !.page = p]
      BY <2>2
    <3>2. ui' = [page |-> p, dialog |-> ui.dialog, modal |-> ui.modal, clicks |-> ui.clicks]
      BY <1>2, <3>1
    <3> QED
      BY <1>3, <1>6, <1>10, <2>1, <3>2
  <2>3. CASE ui' = [ui EXCEPT !.modal = [kind |-> "none"]]
    <3>1. ui' = [page |-> ui.page, dialog |-> ui.dialog, modal |-> [kind |-> "none"],
                 clicks |-> ui.clicks]
      BY <1>2, <2>3
    <3>2. ServicesUi'
      BY <1>1, <3>1 DEF ServicesUi
    <3> QED
      BY <1>3, <1>10, <2>1, <3>2
  <2>4. CASE ui' = ui
    BY <1>3, <1>7, <1>10, <2>1, <2>4
  <2>5. Services!At("save", "ok") => net["save"].name \in Names
    BY <1>1 DEF ServicesNet, Carries, Services!Requests
  <2>6. Services!deleteSucceeds \/ Services!saveSucceeds =>
            ui' = ui \/ \E p \in Names \cup {"/"} : ui' = [ui EXCEPT !.page = p]
    BY <2>5 DEF Services!deleteSucceeds, Services!saveSucceeds
  <2>7. ASSUME NEW m, Services!createSucceeds(m) \/ Services!MutationFails(m) \/ Services!commandSucceeds
        PROVE  ui' = ui \/ ui' = [ui EXCEPT !.modal = [kind |-> "none"]]
    BY <2>7 DEF Services!createSucceeds, Services!MutationFails, Services!commandSucceeds
  <2> QED
    BY <1>11, <2>2, <2>3, <2>4, <2>6, <2>7 DEF Services!Completion
<1>12. ASSUME NEW p \in Names \cup {"/"}, Services!navigate(p) PROVE ServicesInv'
  <2>1. /\ ui' = [page |-> p, dialog |-> ui.dialog, modal |-> ui.modal, clicks |-> ui.clicks + 1]
        /\ UNCHANGED <<db, net, cache>>
    BY <1>2, <1>12 DEF Services!navigate, Services!Clicked
  <2> QED
    BY <1>3, <1>4, <1>6, <2>1
<1>13. ASSUME NEW s \in Records, Services!handleStart(s) PROVE ServicesInv'
  <2>1. /\ ui' = [page |-> ui.page, dialog |-> ui.dialog, modal |-> ui.modal,
                  clicks |-> ui.clicks + 1]
        /\ net' = [net EXCEPT !["command"] = [at |-> "sent", service |-> s, action |-> "start"]]
        /\ UNCHANGED <<db, cache>>
    BY <1>2, <1>13 DEF Services!handleStart, Services!Clicked
  <2>2. Carries("command", [at |-> "sent", service |-> s, action |-> "start"])
    BY DEF Carries, Actions
  <2> QED
    BY <1>2, <1>3, <1>5, <1>6, <2>1, <2>2
<1>14. ASSUME NEW s \in Records,
              Services!handleStop(s) \/ Services!handleRestart(s) \/ Services!handleDelete(s)
       PROVE  ServicesInv'
  <2>1. PICK kind \in {"command", "delete"}, action \in Actions \cup {"none"} :
            /\ kind = "command" => action \in Actions
            /\ ui' = [Services!Clicked EXCEPT
                        !.dialog = [kind |-> kind, service |-> s, action |-> action]]
            /\ UNCHANGED <<db, net, cache>>
    BY <1>14 DEF Services!handleStop, Services!handleRestart, Services!handleDelete, Actions
  <2> DEFINE d == [kind |-> kind, service |-> s, action |-> action]
  <2>2. ui' = [page |-> ui.page, dialog |-> d, modal |-> ui.modal, clicks |-> ui.clicks + 1]
    BY <1>2, <2>1 DEF Services!Clicked
  <2>3. d.kind \in {"none", "command", "delete"} /\ (d.kind = "command" => d.action \in Actions)
    BY <2>1
  <2> HIDE DEF d
  <2>4. ServicesUi'
    BY <1>8, <2>2, <2>3
  <2> QED
    BY <1>3, <1>4, <2>1, <2>4
<1>15. ASSUME NEW s \in Records, NEW n \in Names, Services!handleFormSubmit(s, n)
       PROVE  ServicesInv'
  <2> DEFINE c == [at |-> "sent", service |-> s, name |-> n, seen |-> ui.page]
  <2>1. /\ ui' = [page |-> ui.page, dialog |-> ui.dialog, modal |-> ui.modal,
                  clicks |-> ui.clicks + 1]
        /\ net' = [net EXCEPT !["save"] = c]
        /\ UNCHANGED <<db, cache>>
    BY <1>2, <1>15 DEF Services!handleFormSubmit, Services!Clicked
  <2>2. Carries("save", c)
    BY DEF Carries
  <2> QED
    BY <1>2, <1>3, <1>5, <1>6, <2>1, <2>2
<1>16. ASSUME NEW kind \in {"create", "clone"}, NEW s, Services!openModal(kind, s)
       PROVE  ServicesInv'
  <2>1. /\ ui' = [page |-> ui.page, dialog |-> ui.dialog,
                  modal |-> [kind |-> kind, source |-> s], clicks |-> ui.clicks + 1]
        /\ UNCHANGED <<db, net, cache>>
    BY <1>2, <1>16 DEF Services!openModal, Services!Clicked
  <2> QED
    BY <1>3, <1>4, <1>9, <2>1
<1>17. ASSUME NEW n \in Names, Services!handleSubmit(n) PROVE ServicesInv'
  <2> DEFINE c == [at |-> "sent", name |-> n, source |-> ui.modal.source]
  <2>1. net' = [net EXCEPT ![ui.modal.kind] = c] /\ UNCHANGED <<db, cache, ui>>
    BY <1>17 DEF Services!handleSubmit
  <2>2. Carries(ui.modal.kind, c)
    BY <1>1 DEF ServicesUi, Carries
  <2> QED
    BY <1>3, <1>5, <1>7, <2>1, <2>2
<1>18. CASE Services!handleConfirm
  <2> DEFINE c == [at |-> "sent", service |-> ui.dialog.service, action |-> ui.dialog.action]
  <2>1. /\ net' = [net EXCEPT ![ui.dialog.kind] = c] /\ UNCHANGED <<db, cache>>
        /\ ui' = [page |-> ui.page, dialog |-> [kind |-> "none"], modal |-> ui.modal,
                  clicks |-> ui.clicks]
    BY <1>2, <1>18 DEF Services!handleConfirm
  <2>2. Carries(ui.dialog.kind, c)
    BY <1>1 DEF ServicesUi, Carries
  <2>3. ServicesUi'
    BY <1>1, <2>1 DEF ServicesUi
  <2> QED
    BY <1>3, <1>5, <2>1, <2>2, <2>3
<1>19. CASE Services!handleCancel
  <2>1. /\ UNCHANGED <<db, net, cache>>
        /\ ui' = [page |-> ui.page, dialog |-> [kind |-> "none"], modal |-> ui.modal,
                  clicks |-> ui.clicks]
    BY <1>2, <1>19 DEF Services!handleCancel
  <2> QED
    BY <1>3, <1>4, <1>8, <2>1
<1>20. CASE Services!closeModal
  <2>1. /\ UNCHANGED <<db, net, cache>>
        /\ ui' = [page |-> ui.page, dialog |-> ui.dialog, modal |-> [kind |-> "none"],
                  clicks |-> ui.clicks]
    BY <1>2, <1>20 DEF Services!closeModal
  <2> QED
    BY <1>3, <1>4, <1>9, <2>1
<1>21. CASE UNCHANGED Services!vars
  BY <1>3, <1>4, <1>7, <1>21 DEF Services!vars
<1> QED
  BY <1>11, <1>12, <1>13, <1>14, <1>15, <1>16, <1>17, <1>18, <1>19, <1>20, <1>21
  DEF Services!User, Services!SubmitCreate, Services!SubmitClone, Services!SubmitImport

LEMMA ServicesStep == ServicesInv /\ [Services!Next]_(Services!vars) => ServicesInv'
BY ServicesLauncher, ServicesPolling, ServicesUser DEF Services!Next

-----------------------------------------------------------------------------
(***************************************************************************)
(* Types of the domains and of the snapshots, and what their requests      *)
(* carry.                                                                  *)
(***************************************************************************)
DomainsTypes ==
    /\ Domains!TypeOK
    /\ ui = [modal |-> ui.modal, dialog |-> ui.dialog, clicks |-> ui.clicks]
    /\ ui.modal.at \in {"idle", "create", "update"}
    /\ \A m \in {"create", "update"} : net[m].at = "sent" => net[m].https \in {"yes", "no"}

LEMMA DomainsTypesInit == Domains!Init => DomainsTypes
BY DEF Domains!Init, DomainsTypes, Domains!TypeOK, Domains!Idle, Domains!Absent,
       Domains!Requests, Domains!Shown

LEMMA DomainsTypesStep ==
  DomainsInv /\ DomainsTypes /\ [Domains!Next]_(Domains!vars) => DomainsTypes'
<1> SUFFICES ASSUME DomainsInv, DomainsTypes, [Domains!Next]_(Domains!vars) PROVE DomainsTypes'
  OBVIOUS
<1> USE DEF Domains!At, Domains!Goto
<1> DEFINE Https == \A m \in {"create", "update"} : net[m].at = "sent" => net[m].https \in {"yes", "no"}
           UiTypes == /\ ui = [modal |-> ui.modal, dialog |-> ui.dialog, clicks |-> ui.clicks]
                      /\ ui.modal.at \in {"idle", "create", "update"}
                      /\ ui.dialog \in DomainNames \cup {None}
           DbTypes == db \in [DomainNames -> {"yes", "no", "absent"}]
           ListTypes == cache.list \in [DomainNames -> {"http", "pending", "absent"}]
<1>1. /\ net = [m \in Domains!Requests |-> net[m]]
      /\ cache = [list |-> cache.list, fetching |-> cache.fetching]
      /\ Https /\ UiTypes /\ DbTypes /\ ListTypes
  BY DEF DomainsInv, DomainsTypes, Domains!TypeOK, Domains!Absent, Domains!Shown
<1>2. ASSUME Https', UiTypes', DbTypes', ListTypes' PROVE DomainsTypes'
  BY <1>2 DEF DomainsTypes, Domains!TypeOK, Domains!Absent, Domains!Shown
<1>3. ASSUME NEW m, NEW c, net' = [net EXCEPT ![m] = c],
             c.at = "sent" /\ m # "delete" => c.https \in {"yes", "no"}
      PROVE  Https'
  BY <1>1, <1>3 DEF Domains!Requests
<1>4. UNCHANGED net => Https'
  BY <1>1
<1>5. UNCHANGED ui => UiTypes'
  BY <1>1
<1>6. UNCHANGED db => DbTypes'
  BY <1>1
<1>7. cache'.list = cache.list => ListTypes'
  BY <1>1
<1>8. \A f : cache' = [cache EXCEPT !.fetching = f] => cache'.list = cache.list
  BY <1>1
<1>9. ASSUME NEW n, NEW https \in {"yes", "no", "absent"}, db' = [db EXCEPT ![n] = https]
      PROVE  DbTypes'
  BY <1>1, <1>9
<1>10. ASSUME NEW m, NEW modal, NEW dialog \in DomainNames \cup {None}, NEW clicks,
              modal.at \in {"idle", "create", "update"},
              ui' = [modal |-> modal, dialog |-> dialog, clicks |-> clicks]
       PROVE  UiTypes'
  BY <1>10
<1> HIDE DEF Https, UiTypes, DbTypes, ListTypes
<1>11. CASE Domains!createDomain
  <2>1. net["create"].https \in {"yes", "no"}
    BY <1>1, <1>11 DEF Https, Domains!createDomain
  <2>2. /\ db' = [db EXCEPT ![net["create"].name] = net["create"].https]
        /\ net' = [net EXCEPT !["create"] = [at |-> "ok"]]
        /\ UNCHANGED <<cache, ui>>
    BY <1>11 DEF Domains!createDomain, Domains!Saved
  <2> QED
    BY <1>2, <1>3, <1>5, <1>7, <1>9, <2>1, <2>2
<1>12. CASE Domains!updateDomain
  <2>1. net["update"].https \in {"yes", "no"}
    BY <1>1, <1>12 DEF Https, Domains!updateDomain
  <2>2. /\ db' = [db EXCEPT ![net["update"].name] = net["update"].https]
        /\ net' = [net EXCEPT !["update"] = [at |-> "ok"]]
        /\ UNCHANGED <<cache, ui>>
    BY <1>12 DEF Domains!updateDomain, Domains!Saved
  <2> QED
    BY <1>2, <1>3, <1>5, <1>7, <1>9, <2>1, <2>2
<1>13. CASE Domains!deleteDomain
  <2>1. /\ db' = [db EXCEPT ![net["delete"].name] = "absent"]
        /\ net' = [net EXCEPT !["delete"] = [at |-> "ok"]]
        /\ UNCHANGED <<cache, ui>>
    BY <1>13 DEF Domains!deleteDomain, Domains!Saved, Domains!Absent
  <2> QED
    BY <1>2, <1>3, <1>5, <1>7, <1>9, <2>1
<1>14. CASE Domains!domainsQuery
  <2>1. \A n \in DomainNames : Domains!cardOf(n) \in {"http", "pending", "absent"}
    BY <1>1 DEF DbTypes, Domains!cardOf, Domains!Absent
  <2>2. cache'.list = [n \in DomainNames |-> Domains!cardOf(n)] /\ UNCHANGED <<db, net, ui>>
    BY <1>14 DEF Domains!domainsQuery
  <2>3. ListTypes'
    BY <2>1, <2>2 DEF ListTypes
  <2> QED
    BY <1>2, <1>4, <1>5, <1>6, <2>2, <2>3
<1>15. CASE Domains!Invalidated
  BY <1>2, <1>4, <1>5, <1>6, <1>7, <1>8, <1>15 DEF Domains!Invalidated
<1>16. ASSUME NEW kind \in {"create", "update"}, NEW n \in DomainNames \cup {None},
              Domains!openModal(kind, n)
       PROVE  DomainsTypes'
  <2>1. /\ ui' = [modal |-> [at |-> kind, name |-> n], dialog |-> ui.dialog,
                  clicks |-> ui.clicks + 1]
        /\ UNCHANGED <<db, net, cache>>
    BY <1>1, <1>16 DEF UiTypes, Domains!openModal, Domains!Clicked
  <2>2. UiTypes'
    BY <1>1, <2>1 DEF UiTypes
  <2> QED
    BY <1>2, <1>4, <1>6, <1>7, <2>1, <2>2
<1>17. ASSUME NEW n \in DomainNames, Domains!handleDelete(n)
       PROVE  DomainsTypes'
  <2>1. /\ ui' = [modal |-> ui.modal, dialog |-> n, clicks |-> ui.clicks + 1]
        /\ UNCHANGED <<db, net, cache>>
    BY <1>1, <1>17 DEF UiTypes, Domains!handleDelete, Domains!Clicked
  <2>2. UiTypes'
    BY <1>1, <2>1 DEF UiTypes
  <2> QED
    BY <1>2, <1>4, <1>6, <1>7, <2>1, <2>2
<1>18. ASSUME NEW n \in DomainNames, NEW https \in {"yes", "no"},
              Domains!handleFormSubmit(n, https)
       PROVE  DomainsTypes'
  <2> DEFINE c == [at |-> "sent", https |-> https,
                   name |-> IF ui.modal.name = None THEN n ELSE ui.modal.name]
  <2>1. net' = [net EXCEPT ![ui.modal.at] = c] /\ UNCHANGED <<db, cache, ui>>
    BY <1>18 DEF Domains!handleFormSubmit
  <2>2. c.https \in {"yes", "no"}
    OBVIOUS
  <2> HIDE DEF c
  <2>3. Https'
    BY <1>3, <2>1, <2>2
  <2> QED
    BY <1>2, <1>5, <1>6, <1>7, <2>1, <2>3
<1>19. CASE Domains!closeModal
  <2>1. /\ ui' = [modal |-> [at |-> "idle"], dialog |-> ui.dialog, clicks |-> ui.clicks]
        /\ UNCHANGED <<db, net, cache>>
    BY <1>1, <1>19 DEF UiTypes, Domains!closeModal, Domains!Idle
  <2>2. UiTypes'
    BY <1>1, <2>1 DEF UiTypes
  <2> QED
    BY <1>2, <1>4, <1>6, <1>7, <2>1, <2>2
<1>20. ASSUME NEW ok \in BOOLEAN, Domains!confirm(ok)
       PROVE  DomainsTypes'
  <2>1. /\ ui' = [modal |-> ui.modal, dialog |-> None, clicks |-> ui.clicks]
        /\ net' = net \/ net' = [net EXCEPT !["delete"] = [at |-> "sent", name |-> ui.dialog]]
        /\ UNCHANGED <<db, cache>>
    BY <1>1, <1>20 DEF UiTypes, Domains!confirm
  <2>2. UiTypes'
    BY <1>1, <2>1 DEF UiTypes
  <2>3. Https'
    BY <1>3, <1>4, <2>1
  <2> QED
    BY <1>2, <1>6, <1>7, <2>1, <2>2, <2>3
<1>21. ASSUME NEW m, Domains!saveSucceeds(m)
       PROVE  DomainsTypes'
  <2>1. /\ ui' = [modal |-> [at |-> "idle"], dialog |-> ui.dialog, clicks |-> ui.clicks]
        /\ net' = [net EXCEPT ![m] = [at |-> "idle"]]
        /\ cache' = [cache EXCEPT !.fetching = TRUE]
        /\ UNCHANGED db
    BY <1>1, <1>21 DEF UiTypes, Domains!saveSucceeds, Domains!Idle, Domains!handleSuccess
  <2>2. UiTypes'
    BY <1>1, <2>1 DEF UiTypes
  <2>3. Https'
    BY <1>3, <2>1
  <2> QED
    BY <1>2, <1>6, <1>7, <1>8, <2>1, <2>2, <2>3
<1>22. CASE Domains!deleteSucceeds
  <2>1. /\ net' = [net EXCEPT !["delete"] = [at |-> "idle"]]
        /\ cache' = [cache EXCEPT !.fetching = TRUE]
        /\ UNCHANGED <<db, ui>>
    BY <1>22 DEF Domains!deleteSucceeds, Domains!Idle, Domains!handleSuccess
  <2> QED
    BY <1>2, <1>3, <1>5, <1>6, <1>7, <1>8, <2>1
<1>23. ASSUME NEW m, Domains!Fails(m) \/ Domains!MutationFails(m)
       PROVE  DomainsTypes'
  <2>1. /\ \/ net' = [net EXCEPT ![m] = [at |-> "idle"]]
           \/ net' = [net EXCEPT ![m] = [at |-> "error"]]
        /\ UNCHANGED <<db, cache, ui>>
    BY <1>23 DEF Domains!Fails, Domains!MutationFails, Domains!Idle
  <2>2. Https'
    BY <1>3, <2>1
  <2> QED
    BY <1>2, <1>5, <1>6, <1>7, <2>1, <2>2
<1>24. CASE UNCHANGED Domains!vars
  BY <1>2, <1>4, <1>5, <1>6, <1>7, <1>24 DEF Domains!vars
<1> QED
  BY <1>11, <1>12, <1>13, <1>14, <1>15, <1>16, <1>17, <1>18, <1>19, <1>20, <1>21, <1>22, <1>23,
     <1>24
  DEF Domains!Next

Most == 0..(MaxEdits + 1)

Orders == {"start", "stop", "restart"}

SnapshotsTypes ==
    /\ db.status \in {"stopped", "running"} /\ db.orders \in Seq(Orders)
    /\ db.data \in Most /\ db.edits \in 0..MaxEdits
    /\ \A i \in Ids : db.saved[i].data \in Most
    /\ cache.list \subseteq Ids
    /\ net["command"].at = "sent" => net["command"].action \in Orders
    /\ \A m \in {"create", "restore"} : net[m].at \in {"record", "copy"} => net[m].data \in Most

LEMMA SnapshotsTypesInit == Snapshots!Init => SnapshotsTypes
<1> SUFFICES ASSUME Snapshots!Init PROVE SnapshotsTypes
  OBVIOUS
<1>1. 0 \in Most /\ 1 \in Most /\ 0 \in 0..MaxEdits
  BY PanelAssumption DEF Snapshots!SnapshotsAssumption, Most
<1> QED
  BY <1>1 DEF Snapshots!Init, SnapshotsTypes, Snapshots!NoSnapshot, Snapshots!Gone,
    Snapshots!Idle, Snapshots!Requests, Orders

LEMMA SnapshotsTypesStep ==
  SnapshotsInv /\ SnapshotsTypes /\ [Snapshots!Next]_(Snapshots!vars) => SnapshotsTypes'
<1> SUFFICES ASSUME SnapshotsInv, SnapshotsTypes, [Snapshots!Next]_(Snapshots!vars)
             PROVE  SnapshotsTypes'
  OBVIOUS
<1> USE DEF Snapshots!At, Snapshots!Goto
<1> DEFINE DataTypes == db.data \in Most /\ db.edits \in 0..MaxEdits
           SavedTypes == \A i \in Ids : db.saved[i].data \in Most
           StatusTypes == db.status \in {"stopped", "running"} /\ db.orders \in Seq(Orders)
           ListTypes == cache.list \subseteq Ids
           NetTypes == /\ net["command"].at = "sent" => net["command"].action \in Orders
                       /\ \A m \in {"create", "restore"} :
                            net[m].at \in {"record", "copy"} => net[m].data \in Most
<1>1. Shape /\ DialogInv /\ RequestsInv /\ DataTypes /\ SavedTypes /\ StatusTypes /\ ListTypes /\ NetTypes
  BY DEF SnapshotsInv, SnapshotsTypes
<1>2. ASSUME DataTypes', SavedTypes', StatusTypes', ListTypes', NetTypes' PROVE SnapshotsTypes'
  BY <1>2 DEF SnapshotsTypes
<1>3. /\ db = [status |-> db.status, orders |-> db.orders, data |-> db.data, edits |-> db.edits,
               head |-> db.head, late |-> db.late, saved |-> db.saved]
      /\ db.saved = [i \in Ids |-> db.saved[i]]
      /\ cache = [status |-> cache.status, list |-> cache.list, fetching |-> cache.fetching]
      /\ net = [m \in Snapshots!Requests |-> net[m]]
  BY <1>1 DEF Shape
<1>4. UNCHANGED net => NetTypes'
  BY <1>1
<1>5. ASSUME NEW m, NEW c, net' = [net EXCEPT ![m] = c],
             m = "command" /\ c.at = "sent" => c.action \in Orders,
             c.at \in {"record", "copy"} => c.data \in Most
      PROVE  NetTypes'
  BY <1>1, <1>3, <1>5 DEF Snapshots!Requests
<1>6. ASSUME NEW m, NEW step, step \notin {"sent", "record", "copy"},
             NEW c, net' = [net EXCEPT ![m] = c], c.at = step
      PROVE  NetTypes'
  BY <1>5, <1>6
<1>7. MaxEdits \in Nat /\ 0 \in Most
  BY PanelAssumption DEF Snapshots!SnapshotsAssumption, Most
<1>8. UNCHANGED db => DataTypes' /\ SavedTypes' /\ StatusTypes'
  BY <1>1
<1>9. cache'.list = cache.list => ListTypes'
  BY <1>1
<1>10. Snapshots!Stored \subseteq Ids
  BY DEF Snapshots!Stored
<1> HIDE DEF DataTypes, SavedTypes, StatusTypes, ListTypes, NetTypes
<1>11. CASE Snapshots!SaveFile \/ Snapshots!RenameFile \/ Snapshots!WriteDatabase
  <2>1. /\ \/ db' = Snapshots!Changed
           \/ db' = [Snapshots!Changed EXCEPT !.head = None]
           \/ db' = [Snapshots!Changed EXCEPT !.late = TRUE]
        /\ db.edits < MaxEdits
        /\ UNCHANGED <<net, cache>>
    BY <1>11 DEF Snapshots!SaveFile, Snapshots!RenameFile, Snapshots!WriteDatabase,
      Snapshots!MayChange
  <2>2. /\ db'.data = db.edits + 2 /\ db'.edits = db.edits + 1
        /\ db'.saved = db.saved /\ db'.status = db.status /\ db'.orders = db.orders
    BY <1>3, <2>1 DEF Snapshots!Changed
  <2>3. db.edits + 2 \in Most /\ db.edits + 1 \in 0..MaxEdits
    BY <1>1, <1>7, <2>1 DEF DataTypes, Most
  <2>4. DataTypes' /\ SavedTypes' /\ StatusTypes'
    BY <1>1, <2>2, <2>3 DEF DataTypes, SavedTypes, StatusTypes, Most
  <2> QED
    BY <1>2, <1>4, <1>9, <2>1, <2>4
<1>12. CASE Snapshots!Obey
  <2>1. /\ db'.data = db.data /\ db'.edits = db.edits /\ db'.saved = db.saved
        /\ db.orders # <<>> /\ db'.orders = Tail(db.orders) /\ db'.status \in {"stopped", "running"}
        /\ UNCHANGED <<net, cache>>
    BY <1>3, <1>12 DEF Snapshots!Obey
  <2>2. DataTypes' /\ SavedTypes' /\ StatusTypes'
    BY <1>1, <2>1 DEF DataTypes, SavedTypes, StatusTypes, Most
  <2> QED
    BY <1>2, <1>4, <1>9, <2>1, <2>2
<1>13. CASE Snapshots!executeServiceCommand
  <2>1. net["command"].action \in Orders
    BY <1>1, <1>13 DEF NetTypes, Snapshots!executeServiceCommand
  <2>2. /\ db'.data = db.data /\ db'.edits = db.edits /\ db'.saved = db.saved
        /\ db'.orders = Append(db.orders, net["command"].action) /\ db'.status = db.status
        /\ net' = [net EXCEPT !["command"] = [at |-> "ok"]]
        /\ UNCHANGED cache
    BY <1>3, <1>13 DEF Snapshots!executeServiceCommand
  <2>3. DataTypes' /\ SavedTypes' /\ StatusTypes'
    BY <1>1, <2>1, <2>2 DEF DataTypes, SavedTypes, StatusTypes, Most
  <2> QED
    BY <1>2, <1>6, <1>9, <2>2, <2>3
<1>14. CASE Snapshots!CreateBegins \/ Snapshots!RestoreBegins
  <2> DEFINE next == [at |-> "remove", id |-> net["restore"].id]
             zip == [at |-> "zip", type |-> "pre-restore", then |-> next]
             create == [at |-> "zip", type |-> "manual", then |-> [at |-> "ok"]]
  <2>1. /\ \/ net' = [net EXCEPT !["create"] = create]
           \/ net' = [net EXCEPT !["restore"] = next]
           \/ net' = [net EXCEPT !["restore"] = zip]
        /\ create.at = "zip" /\ next.at = "remove" /\ zip.at = "zip"
    BY <1>14 DEF Snapshots!CreateBegins, Snapshots!RestoreBegins
  <2> HIDE DEF next, zip, create
  <2>2. UNCHANGED <<db, cache>>
    BY <1>14 DEF Snapshots!CreateBegins, Snapshots!RestoreBegins
  <2>3. NetTypes'
    BY <1>6, <2>1
  <2> QED
    BY <1>2, <1>8, <1>9, <2>2, <2>3
<1>15. ASSUME NEW m \in {"create", "restore"}, Snapshots!Zip(m) PROVE SnapshotsTypes'
  <2> DEFINE c == [at |-> "record", type |-> net[m].type, then |-> net[m].then, data |-> db.data]
  <2>1. net' = [net EXCEPT ![m] = c] /\ UNCHANGED <<db, cache>>
    BY <1>15 DEF Snapshots!Zip
  <2>2. c.data \in Most
    BY <1>1 DEF DataTypes
  <2>3. NetTypes'
    BY <1>5, <2>1, <2>2
  <2> QED
    BY <1>2, <1>8, <1>9, <2>1, <2>3
<1>16. ASSUME NEW m \in {"create", "restore"}, NEW i \in Ids, Snapshots!SaveRecord(m, i)
       PROVE  SnapshotsTypes'
  <2> DEFINE r == [type |-> net[m].type, data |-> net[m].data]
  <2>1. net[m].data \in Most
    BY <1>1, <1>16 DEF NetTypes, Snapshots!SaveRecord
  <2>2. /\ db' = [db EXCEPT !.saved[i] = r]
        /\ net' = [net EXCEPT ![m] = [at |-> "head", made |-> i, then |-> net[m].then]]
        /\ UNCHANGED cache
    BY <1>16 DEF Snapshots!SaveRecord
  <2>3. r.data \in Most
    BY <2>1
  <2> HIDE DEF r
  <2>4. /\ db'.data = db.data /\ db'.edits = db.edits /\ db'.saved = [db.saved EXCEPT ![i] = r]
        /\ db'.orders = db.orders /\ db'.status = db.status
    BY <1>3, <2>2
  <2>5. \A j \in Ids : db'.saved[j] = r \/ db'.saved[j] = db.saved[j]
    BY <1>3, <2>4
  <2>6. DataTypes' /\ SavedTypes' /\ StatusTypes'
    BY <1>1, <2>3, <2>4, <2>5 DEF DataTypes, SavedTypes, StatusTypes, Most
  <2>7. NetTypes'
    BY <1>6, <2>2
  <2> QED
    BY <1>2, <1>9, <2>2, <2>6, <2>7
<1>17. ASSUME NEW m \in {"create", "restore"},
              Snapshots!MarkCurrent(m) \/ Snapshots!MarkDeleted(m)
       PROVE  SnapshotsTypes'
  <2>1. /\ net[m].then.at \in {"ok", "remove"}
        /\ net' = [net EXCEPT ![m] = net[m].then]
        /\ UNCHANGED cache
    BY <1>1, <1>17 DEF RequestsInv, Then, Snapshots!MarkCurrent, Snapshots!MarkDeleted
  <2>2. db' = db \/ \E h : db' = [db EXCEPT !.head = h, !.late = FALSE]
    BY <1>17 DEF Snapshots!MarkCurrent, Snapshots!MarkDeleted, Snapshots!setCurrentSnapshotID
  <2>3. /\ db'.data = db.data /\ db'.edits = db.edits /\ db'.saved = db.saved
        /\ db'.orders = db.orders /\ db'.status = db.status
    BY <1>3, <2>2
  <2>4. DataTypes' /\ SavedTypes' /\ StatusTypes'
    BY <1>1, <2>3 DEF DataTypes, SavedTypes, StatusTypes, Most
  <2>5. NetTypes'
    BY <1>6, <2>1
  <2> QED
    BY <1>2, <1>9, <2>1, <2>4, <2>5
<1>18. CASE Snapshots!RemoveData
  <2> DEFINE c == [at |-> "copy", id |-> net["restore"].id, data |-> db.saved[net["restore"].id].data]
  <2>1. c.data \in Most
    BY <1>1, <1>10, <1>18 DEF SavedTypes, Snapshots!RemoveData
  <2>2. /\ db'.data = 0 /\ db'.edits = db.edits /\ db'.saved = db.saved
        /\ db'.orders = db.orders /\ db'.status = db.status
        /\ net' = [net EXCEPT !["restore"] = c]
        /\ UNCHANGED cache
    BY <1>3, <1>18 DEF Snapshots!RemoveData, Snapshots!Gone
  <2>3. DataTypes' /\ SavedTypes' /\ StatusTypes'
    BY <1>1, <1>7, <2>2 DEF DataTypes, SavedTypes, StatusTypes, Most
  <2>4. NetTypes'
    BY <1>5, <2>1, <2>2
  <2> QED
    BY <1>2, <1>9, <2>2, <2>3, <2>4
<1>19. CASE Snapshots!CopyData
  <2>1. net["restore"].data \in Most
    BY <1>1, <1>19 DEF NetTypes, Snapshots!CopyData
  <2>2. /\ db'.data = net["restore"].data /\ db'.edits = db.edits /\ db'.saved = db.saved
        /\ db'.orders = db.orders /\ db'.status = db.status
        /\ net' = [net EXCEPT !["restore"] =
                    [at |-> "head", made |-> net["restore"].id, then |-> [at |-> "ok"]]]
        /\ UNCHANGED cache
    BY <1>3, <1>19 DEF Snapshots!CopyData
  <2>3. DataTypes' /\ SavedTypes' /\ StatusTypes'
    BY <1>1, <2>1, <2>2 DEF DataTypes, SavedTypes, StatusTypes, Most
  <2>4. NetTypes'
    BY <1>6, <2>2
  <2> QED
    BY <1>2, <1>9, <2>2, <2>3, <2>4
<1>20. CASE Snapshots!DeleteSnapshot
  <2> DEFINE i == net["delete"].id
  <2>1. /\ db' = [db EXCEPT !.saved[i] = Snapshots!NoSnapshot]
        /\ net' = [net EXCEPT !["delete"] = [at |-> "clear", id |-> i]]
        /\ UNCHANGED cache
    BY <1>20 DEF Snapshots!DeleteSnapshot
  <2>2. /\ db'.data = db.data /\ db'.edits = db.edits
        /\ db'.saved = [db.saved EXCEPT ![i] = Snapshots!NoSnapshot]
        /\ db'.orders = db.orders /\ db'.status = db.status
    BY <1>3, <2>1
  <2>3. \A j \in Ids : db'.saved[j] = Snapshots!NoSnapshot \/ db'.saved[j] = db.saved[j]
    BY <1>3, <2>2
  <2>4. Snapshots!NoSnapshot.data \in Most
    BY <1>7 DEF Snapshots!NoSnapshot, Snapshots!Gone
  <2>5. DataTypes' /\ SavedTypes' /\ StatusTypes'
    BY <1>1, <2>2, <2>3, <2>4 DEF DataTypes, SavedTypes, StatusTypes, Most
  <2>6. NetTypes'
    BY <1>6, <2>1
  <2> QED
    BY <1>2, <1>9, <2>1, <2>5, <2>6
<1>21. CASE Snapshots!ClearCurrent
  <2>1. /\ db' = db \/ \E h : db' = [db EXCEPT !.head = h]
        /\ net' = [net EXCEPT !["delete"] = [at |-> "ok"]]
        /\ UNCHANGED cache
    BY <1>21 DEF Snapshots!ClearCurrent
  <2>2. /\ db'.data = db.data /\ db'.edits = db.edits /\ db'.saved = db.saved
        /\ db'.orders = db.orders /\ db'.status = db.status
    BY <1>3, <2>1
  <2>3. DataTypes' /\ SavedTypes' /\ StatusTypes'
    BY <1>1, <2>2 DEF DataTypes, SavedTypes, StatusTypes, Most
  <2>4. NetTypes'
    BY <1>6, <2>1
  <2> QED
    BY <1>2, <1>9, <2>1, <2>3, <2>4
<1>22. ASSUME NEW m, Snapshots!Fails(m) \/ Snapshots!MutationFails(m)
       PROVE  SnapshotsTypes'
  <2>1. /\ \/ net' = [net EXCEPT ![m] = [at |-> "idle"]]
           \/ net' = [net EXCEPT ![m] = [at |-> "error"]]
        /\ UNCHANGED <<db, cache>>
    BY <1>22 DEF Snapshots!Fails, Snapshots!MutationFails, Snapshots!Idle
  <2>2. NetTypes'
    BY <1>6, <2>1
  <2> QED
    BY <1>2, <1>8, <1>9, <2>1, <2>2
<1>23. CASE \/ Snapshots!createSucceeds \/ Snapshots!restoreSucceeds \/ Snapshots!deleteSucceeds
            \/ Snapshots!commandSucceeds
  <2>1. /\ \E m : net' = [net EXCEPT ![m] = [at |-> "idle"]]
        /\ cache' = cache \/ cache' = [cache EXCEPT !.fetching = TRUE]
        /\ UNCHANGED db
    BY <1>23 DEF Snapshots!createSucceeds, Snapshots!restoreSucceeds, Snapshots!deleteSucceeds,
      Snapshots!commandSucceeds, Snapshots!refetch, Snapshots!Idle
  <2>2. NetTypes'
    BY <1>6, <2>1
  <2>3. cache'.list = cache.list
    BY <1>3, <2>1
  <2> QED
    BY <1>2, <1>8, <1>9, <2>1, <2>2, <2>3
<1>24. CASE Snapshots!serviceQuery \/ Snapshots!snapshotsQuery
  <2>1. /\ cache'.list = cache.list \/ cache'.list = Snapshots!Stored
        /\ UNCHANGED <<db, net>>
    BY <1>3, <1>24 DEF Snapshots!serviceQuery, Snapshots!snapshotsQuery
  <2>2. ListTypes'
    BY <1>1, <1>10, <2>1 DEF ListTypes
  <2> QED
    BY <1>2, <1>4, <1>8, <2>1, <2>2
<1>25. ASSUME NEW action \in {"start", "stop", "restart"}, Snapshots!handleCommand(action)
       PROVE  SnapshotsTypes'
  <2>1. /\ net' = [net EXCEPT !["command"] = [at |-> "sent", action |-> action]]
        /\ UNCHANGED <<db, cache>>
    BY <1>25 DEF Snapshots!handleCommand
  <2>2. NetTypes'
    BY <1>5, <2>1 DEF Orders
  <2> QED
    BY <1>2, <1>8, <1>9, <2>1, <2>2
<1>26. CASE Snapshots!handleSubmit
  <2>1. /\ net' = [net EXCEPT !["create"] = [at |-> "sent"]]
        /\ UNCHANGED <<db, cache>>
    BY <1>26 DEF Snapshots!handleSubmit
  <2>2. NetTypes'
    BY <1>5, <2>1
  <2> QED
    BY <1>2, <1>8, <1>9, <2>1, <2>2
<1>27. ASSUME NEW ok \in BOOLEAN, Snapshots!confirm(ok)
       PROVE  SnapshotsTypes'
  <2>1. /\ net' = net \/ net' = [net EXCEPT ![ui.dialog.kind] = [at |-> "sent", id |-> ui.dialog.id]]
        /\ ui.dialog.kind # "command"
        /\ UNCHANGED <<db, cache>>
    BY <1>1, <1>27 DEF DialogInv, Snapshots!confirm
  <2>2. NetTypes'
    BY <1>4, <1>5, <2>1
  <2> QED
    BY <1>2, <1>8, <1>9, <2>1, <2>2
<1>28. ASSUME NEW i, \/ Snapshots!restoreSnapshot(i) \/ Snapshots!deleteSnapshot(i)
                     \/ Snapshots!createSnapshot \/ Snapshots!closeModal
                     \/ UNCHANGED Snapshots!vars
       PROVE  SnapshotsTypes'
  <2>1. UNCHANGED <<db, net, cache>>
    BY <1>28 DEF Snapshots!restoreSnapshot, Snapshots!deleteSnapshot, Snapshots!createSnapshot,
      Snapshots!closeModal, Snapshots!vars
  <2> QED
    BY <1>2, <1>4, <1>8, <1>9, <2>1
<1> QED
  BY <1>11, <1>12, <1>13, <1>14, <1>15, <1>16, <1>17, <1>18, <1>19, <1>20, <1>21, <1>22, <1>23,
     <1>24, <1>25, <1>26, <1>27, <1>28
  DEF Snapshots!Next, Snapshots!Manager, Snapshots!Panel

-----------------------------------------------------------------------------
(***************************************************************************)
(* The panel.  The view that is open keeps its invariant.                  *)
(***************************************************************************)
PanelInv ==
    /\ view \in {"services", "snapshots", "logs", "domains"}
    /\ view = "services" => ServicesInv
    /\ view = "domains" => DomainsInv /\ DomainsTypes
    /\ view = "snapshots" => SnapshotsInv /\ SnapshotsTypes
    /\ view = "logs" => LogsInv

LEMMA PanelInit == Init => PanelInv
BY ServicesInit, DomainsInit, DomainsTypesInit, SnapshotsInit, SnapshotsTypesInit, LogsInit
   DEF Init, PanelInv

LEMMA PanelStep == PanelInv /\ [Next]_vars => PanelInv'
<1> SUFFICES ASSUME PanelInv, [Next]_vars PROVE PanelInv'
  OBVIOUS
<1>1. /\ view' = view
      /\ view = "services" => [Services!Next]_(Services!vars)
      /\ view = "domains" => [Domains!Next]_(Domains!vars)
      /\ view = "snapshots" => [Snapshots!Next]_(Snapshots!vars)
      /\ view = "logs" => [Logs!Next]_(Logs!vars)
  BY DEF Next, vars, Services!vars, Domains!vars, Snapshots!vars, Logs!vars
<1> QED
  BY <1>1, ServicesStep, DomainsStep, DomainsTypesStep, SnapshotsStep, SnapshotsTypesStep,
     LogsStep
  DEF PanelInv

LEMMA PanelInvariant == Spec => []PanelInv
BY PanelInit, PanelStep, PTL DEF Spec

(* What each view keeps has its type, and no two services have one name     *)
(* (createServiceInstance, cloneService, updateServiceInstance).            *)
THEOREM TypeCorrect == Spec => []TypeOK
<1>1. ServicesInv => Services!TypeOK
  BY DEF ServicesInv, ServicesDb, ServicesCache, ServicesUi, Services!TypeOK, Services!Exists,
         Services!Absent
<1>2. DomainsTypes => Domains!TypeOK
  BY DEF DomainsTypes
<1>3. SnapshotsInv /\ SnapshotsTypes => Snapshots!TypeOK
  BY DEF SnapshotsInv, Shape, SnapshotsTypes, Orders, Most, Snapshots!TypeOK
<1>4. LogsInv => Logs!TypeOK
  BY DEF LogsInv, LogsShape, Stored, Logs!TypeOK
<1>5. PanelInv => TypeOK
  BY <1>1, <1>2, <1>3, <1>4 DEF PanelInv, TypeOK
<1> QED
  BY <1>5, PanelInvariant, PTL

(* The data that a restore of a manual snapshot removes are in a snapshot,  *)
(* unless something disturbed the service or its current mark               *)
(* (RestoreSnapshotInPlace), whatever is clicked and in whatever order.     *)
THEOREM RestoresKeepData == Spec => KeptUnlessDisturbed
<1>1. PanelInv /\ [Next]_vars => (view = "snapshots" => Snapshots!RemovesSaved \/ past.disturbed)
  BY RemovesOnlySaved DEF PanelInv, Next, vars, Snapshots!vars
<1> QED
  BY <1>1, PanelInvariant, PTL DEF Spec, KeptUnlessDisturbed

(* A list of snapshots or of domains that nothing is about to change shows  *)
(* what the launcher has (snapshotsQuery, domainsQuery).                    *)
THEOREM ListsShowWhatThereIs == Spec => []ListsAreTrue
<1>1. SnapshotsInv => Snapshots!SnapshotListIsTrue
  BY DEF SnapshotsInv, SnapshotListInv, Snapshots!SnapshotListIsTrue, Snapshots!Busy,
         Snapshots!Requests
<1>2. PanelInv => ListsAreTrue
  BY <1>1 DEF PanelInv, ListsAreTrue, DomainsInv
<1> QED
  BY <1>2, PanelInvariant, PTL

(* Lines of the log are shown once and in the order they were written, in   *)
(* whatever order the two loads read, answer and fail, unless the loop was  *)
(* outrun while an answer was on its way (mergeLogsUnique).                 *)
THEOREM LinesAreInOrder == Spec => []LogsInOrder
<1>1. LogsInv => Logs!LogsInOrder
  BY DEF LogsInv, ShownInOrder, GoesUp, Logs!LogsInOrder
<1>2. PanelInv => LogsInOrder
  BY <1>1 DEF PanelInv, LogsInOrder
<1> QED
  BY <1>2, PanelInvariant, PTL
===============================================================================
