--------------------------------- MODULE Panel ---------------------------------
(***************************************************************************)
(* The views of the panel that share no state with each other, one of them *)
(* open: the services, or one section of a service's page.                 *)
(***************************************************************************)
EXTENDS Naturals, Sequences

CONSTANTS
    Records, Names, None, PanelClicks,              \* ServicePanel
    Ids, Edits, MaxEdits, SnapshotClicks,           \* Snapshots
    Recent, Full, MaxLines, MaxFaults, LogClicks,   \* LogsView
    DomainNames, DomainClicks                       \* Domains

VARIABLES view, db, net, cache, ui, past

vars == <<view, db, net, cache, ui, past>>

Services == INSTANCE ServicePanel WITH Services <- Records, MaxClicks <- PanelClicks
Snapshots == INSTANCE Snapshots WITH MaxClicks <- SnapshotClicks
Logs == INSTANCE LogsView WITH MaxClicks <- LogClicks
Domains == INSTANCE Domains WITH Names <- DomainNames, MaxClicks <- DomainClicks

ASSUME PanelAssumption ==
    Services!ServicesAssumption /\ Snapshots!SnapshotsAssumption /\ Logs!LogsAssumption

Init ==
    \/ view = "services" /\ Services!Init
    \/ view = "snapshots" /\ Snapshots!Init
    \/ view = "logs" /\ Logs!Init
    \/ view = "domains" /\ Domains!Init

Next ==
    /\ UNCHANGED view
    /\ \/ view = "services" /\ Services!Next
       \/ view = "snapshots" /\ Snapshots!Next
       \/ view = "logs" /\ Logs!Next
       \/ view = "domains" /\ Domains!Next

\* Pages poll, answers are handled, the launcher answers and obeys.
Fairness ==
    /\ WF_vars(/\ UNCHANGED view
               /\ \/ view = "services" /\ Services!Polling
                  \/ view = "logs" /\ Logs!Loop)
    /\ WF_vars(UNCHANGED view /\ view = "services" /\ Services!Launcher)
    /\ WF_vars(UNCHANGED view /\ view = "services" /\ \E s \in Records : Services!Obey(s))
    /\ \A m \in Services!Requests :
        WF_vars(UNCHANGED view /\ view = "services" /\ Services!Completed(m))

Spec == Init /\ [][Next]_vars /\ Fairness

\* Type correctness of each view.
TypeOK ==
    CASE view = "services" -> Services!TypeOK
      [] view = "snapshots" -> Snapshots!TypeOK
      [] view = "logs" -> Logs!TypeOK
      [] view = "domains" -> Domains!TypeOK


\* A restore saves the data it removes (RestoreSnapshotInPlace), unless disturbed.
KeptUnlessDisturbed ==
    [][view = "snapshots" => Snapshots!RemovesSaved \/ past.disturbed]_vars

\* A list of snapshots or domains that nothing is about to change is true
\* (snapshotsQuery, domainsQuery).
ListsAreTrue ==
    /\ view = "snapshots" => Snapshots!SnapshotListIsTrue
    /\ view = "domains" => Domains!DomainListIsTrue

\* Lines of the log are shown once and in order (mergeLogsUnique).
LogsInOrder == view = "logs" => Logs!LogsInOrder

\* The last line of the log is shown in the end (fetchLoop).
LogsCatchUp == []<>(view = "logs" => Logs!CaughtUp)
===============================================================================
