--------------------------------- MODULE Domains ---------------------------------
(***************************************************************************)
(* The domains of one service: the collection with its hooks, and the      *)
(* section of the panel that keeps it.                                     *)
(*                                                                         *)
(* Certificates are left out: PendingByDomain and LastByDomain order by a  *)
(* column `updated` that services_domains does not have, so that the hooks *)
(* and the planner that would ask for one end with an error in their first *)
(* query, and the list shows every domain with https as pending.           *)
(*                                                                         *)
(* The section is not polled: it is fetched when it opens, after its own   *)
(* changes, and whenever another page invalidates the services.            *)
(***************************************************************************)
EXTENDS Naturals

CONSTANTS
    Names,      \* names of domains
    None,       \* no domain
    MaxClicks   \* bound: what the user does

VARIABLES db, net, cache, ui, past

vars == <<db, net, cache, ui, past>>

Absent == "absent"
Idle == [at |-> "idle"]
Requests == {"create", "update", "delete"}
Shown == {"http", "pending", Absent}

TypeOK ==
    /\ db \in [Names -> {"yes", "no", Absent}]
    /\ cache.list \in [Names -> Shown]
    /\ ui.dialog \in Names \cup {None}

\* LastByDomain fails, so that the list hook adds nothing to the record, and a
\* domain with https and without a status is shown as pending.
cardOf(n) ==
    CASE db[n] = Absent -> Absent
      [] db[n] = "no" -> "http"
      [] db[n] = "yes" -> "pending"

Init ==
    /\ db = [n \in Names |-> Absent]
    /\ net = [m \in Requests |-> Idle]
    /\ cache = [list |-> [n \in Names |-> Absent], fetching |-> FALSE]
    /\ ui = [modal |-> Idle, dialog |-> None, clicks |-> 0]
    /\ past = [failed |-> FALSE]

At(m, step) == net[m].at = step
Goto(m, c) == net' = [net EXCEPT ![m] = c]

-----------------------------------------------------------------------------
(***************************************************************************)
(* The collection                                                          *)
(***************************************************************************)
Saved(m, n, https) ==
    /\ db' = [db EXCEPT ![n] = https]
    /\ Goto(m, [at |-> "ok"])

createDomain ==
    /\ At("create", "sent")
    /\ LET c == net["create"] IN
        /\ db[c.name] = Absent
        /\ Saved("create", c.name, c.https)
    /\ UNCHANGED <<cache, ui, past>>

\* The name in the form is not sent.
updateDomain ==
    /\ At("update", "sent")
    /\ LET c == net["update"] IN
        /\ db[c.name] # Absent
        /\ Saved("update", c.name, c.https)
    /\ UNCHANGED <<cache, ui, past>>

deleteDomain ==
    /\ At("delete", "sent")
    /\ LET n == net["delete"].name IN
        /\ db[n] # Absent
        /\ Saved("delete", n, Absent)
    /\ UNCHANGED <<cache, ui, past>>

Fails(m) ==
    /\ At(m, "sent")
    /\ Goto(m, [at |-> "error"])
    /\ UNCHANGED <<db, cache, ui, past>>

-----------------------------------------------------------------------------
(***************************************************************************)
(* DomainsSection.  While the list is fetched nothing else is there.       *)
(***************************************************************************)
domainsQuery ==
    /\ cache.fetching
    /\ cache' = [list |-> [n \in Names |-> cardOf(n)], fetching |-> FALSE]
    /\ UNCHANGED <<db, net, ui, past>>

\* Another page, or a poll, invalidates.
Invalidated ==
    /\ ~cache.fetching
    /\ cache' = [cache EXCEPT !.fetching = TRUE]
    /\ UNCHANGED <<db, net, ui, past>>

Click ==
    /\ ~cache.fetching /\ ui.dialog = None /\ ui.modal = Idle
    /\ ui.clicks < MaxClicks

Clicked == [ui EXCEPT !.clicks = @ + 1]

\* The card of a domain and its two buttons.
CanChange(n) == cache.list[n] # Absent

\* The dialog is told what the list showed of a domain, or nothing.
openModal(kind, n) ==
    /\ Click
    /\ net[kind] = Idle
    /\ (kind = "update") <=> (n # None)
    /\ n # None => CanChange(n)
    /\ ui' = [Clicked EXCEPT !.modal = [at |-> kind, name |-> n]]
    /\ UNCHANGED <<db, net, cache, past>>

\* Save is not closed while a request is under way: with two of a kind the second
\* to answer is the one that counts.  Bound: one at a time.
handleFormSubmit(n, https) ==
    /\ ui.modal # Idle /\ net[ui.modal.at] = Idle
    /\ Goto(ui.modal.at, [at |-> "sent", https |-> https,
                          name |-> IF ui.modal.name = None THEN n ELSE ui.modal.name])
    /\ UNCHANGED <<db, cache, ui, past>>

closeModal ==
    /\ ui.modal # Idle
    /\ ui' = [ui EXCEPT !.modal = Idle]
    /\ UNCHANGED <<db, net, cache, past>>

handleDelete(n) ==
    /\ Click /\ net["delete"] = Idle
    /\ CanChange(n)
    /\ ui' = [Clicked EXCEPT !.dialog = n]
    /\ UNCHANGED <<db, net, cache, past>>

confirm(ok) ==
    /\ ui.dialog # None
    /\ ui' = [ui EXCEPT !.dialog = None]
    /\ IF ok THEN Goto("delete", [at |-> "sent", name |-> ui.dialog]) ELSE UNCHANGED net
    /\ UNCHANGED <<db, cache, past>>

handleSuccess == cache' = [cache EXCEPT !.fetching = TRUE]

\* A form's success closes the dialog on top.
saveSucceeds(m) ==
    /\ m \in {"create", "update"} /\ At(m, "ok")
    /\ Goto(m, Idle)
    /\ ui' = [ui EXCEPT !.modal = Idle]
    /\ handleSuccess
    /\ UNCHANGED <<db, past>>

deleteSucceeds ==
    /\ At("delete", "ok")
    /\ Goto("delete", Idle)
    /\ handleSuccess
    /\ UNCHANGED <<db, ui, past>>

MutationFails(m) ==
    /\ At(m, "error")
    /\ Goto(m, Idle)
    /\ past' = [past EXCEPT !.failed = TRUE]
    /\ UNCHANGED <<db, cache, ui>>

Next ==
    \/ createDomain \/ updateDomain \/ deleteDomain
    \/ domainsQuery \/ Invalidated
    \/ \E kind \in {"create", "update"}, n \in Names \cup {None} : openModal(kind, n)
    \/ \E n \in Names : handleDelete(n) \/ \E h \in {"yes", "no"} : handleFormSubmit(n, h)
    \/ closeModal \/ deleteSucceeds
    \/ \E ok \in BOOLEAN : confirm(ok)
    \/ \E m \in Requests : Fails(m) \/ saveSucceeds(m) \/ MutationFails(m)

Spec == Init /\ [][Next]_vars

-----------------------------------------------------------------------------
(***************************************************************************)
(* Properties                                                              *)
(***************************************************************************)
\* Nothing under way and nothing failed: the list shows the domains there are,
\* and which of them have https.
DomainListIsTrue ==
    (\A m \in Requests : net[m] = Idle) /\ ~cache.fetching /\ ~past.failed
        => cache.list = [n \in Names |-> cardOf(n)]
===============================================================================
