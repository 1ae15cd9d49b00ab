-------------------------------- MODULE Vacuum --------------------------------
(***************************************************************************)
(* The nightly sweep that compacts the databases of services that do not   *)
(* run, beside wake-ups, which wait for it, and other starts, which do     *)
(* not.  The launcher's lock makes a start and a look at processList one   *)
(* step each; what else the launcher does is in Launcher.                  *)
(***************************************************************************)
EXTENDS Naturals, Sequences, FiniteSets, SequencesExt

CONSTANTS
    Services,
    Requested,  \* those that requests ask for
    Events,     \* what may happen: "timeout", "command", "stop"
    MaxDates    \* bound: services compacted

BoundsAssumption ==
    IsFiniteSet(Services) /\ Requested \subseteq Services /\ MaxDates \in Nat

VARIABLES
    last_vacuum_at, \* the date in a service's record, 0 for none
    running,        \* services whose process runs
    vacuumingSet,   \* the mark that wake-ups look at
    enVentanaActiva,
    sweep,          \* the sweep: where it is, and the services before it
    wakeup,         \* wakeup[s]: where a wake-up of s is
    passedOver,     \* history: passedOver[s], the services done since s was looked at
    late            \* history: a start that the mark came too late for, or does not hold up

vars ==
    <<last_vacuum_at, running, vacuumingSet, enVentanaActiva, sweep, wakeup, passedOver, late>>

Dates == {last_vacuum_at[s] : s \in Services}
Now == 1 + CHOOSE d \in Dates : \A e \in Dates : e <= d

NoSweep == [at |-> "none", services |-> <<>>]
Current == Head(sweep.services)

TypeOK ==
    /\ last_vacuum_at \in [Services -> 0..MaxDates]
    /\ running \subseteq Services /\ vacuumingSet \subseteq Services
    /\ enVentanaActiva \in BOOLEAN
    /\ sweep.at \in {"none", "next", "jitter", "vacuum", "mark"}
    /\ Range(sweep.services) \subseteq Services
    /\ wakeup \in [Services -> {"idle", "waits", "passed"}]

Init ==
    /\ last_vacuum_at = [s \in Services |-> 0]
    /\ running \in SUBSET Services
    /\ vacuumingSet = {} /\ enVentanaActiva = FALSE
    /\ sweep = NoSweep
    /\ wakeup = [s \in Services |-> "idle"]
    /\ passedOver = [s \in Services |-> {}] /\ late = FALSE

-----------------------------------------------------------------------------
(***************************************************************************)
(* The sweep                                                               *)
(***************************************************************************)
\* Mutant of Insert: the records stay in the order in which they are read.
InsertLast(sorted, s) == Append(sorted, s)

\* One step of the insertion sort: from the end of the sorted services, s moves
\* before those that were compacted later.
Insert(sorted, s) ==
    LET Later(t) == last_vacuum_at[t] > last_vacuum_at[s]
        k == CHOOSE i \in 0..Len(sorted) :
                /\ i # 0 => ~Later(sorted[i])
                /\ \A j \in (i + 1)..Len(sorted) : Later(sorted[j])
    IN InsertAt(sorted, k + 1, s)

sortByLastVacuum(records) ==
    LET sorted[n \in 0..Len(records)] ==
            IF n = 0 THEN <<>> ELSE Insert(sorted[n - 1], records[n])
    IN sorted[Len(records)]

Clock ==
    /\ enVentanaActiva' = ~enVentanaActiva
    /\ UNCHANGED <<last_vacuum_at, running, vacuumingSet, sweep, wakeup, passedOver, late>>

\* The order in which the records are read never changes.
RunVacuumSweep ==
    /\ enVentanaActiva
    /\ sweep.at = "none"
    /\ sweep' = [at |-> "next", services |-> sortByLastVacuum(SetToSeq(Services))]
    /\ UNCHANGED <<last_vacuum_at, running, vacuumingSet, enVentanaActiva, wakeup, passedOver, late>>

GoOn == [at |-> "next", services |-> Tail(sweep.services)]

\* The service has been looked at; nothing done before counts against it.
LookedAt(s) == passedOver' = [passedOver EXCEPT ![s] = {}]

SweepEnds ==
    /\ sweep.at = "next"
    /\ sweep.services = <<>> \/ ~enVentanaActiva
    /\ sweep' = NoSweep
    /\ UNCHANGED <<last_vacuum_at, running, vacuumingSet, enVentanaActiva, wakeup, passedOver, late>>

\* The first look; the second is after a pause, the mark after that.
Looks ==
    /\ sweep.at = "next"
    /\ sweep.services # <<>> /\ enVentanaActiva
    /\ IF Current \in running
       THEN sweep' = GoOn /\ LookedAt(Current)
       ELSE sweep' = [sweep EXCEPT !.at = "jitter"] /\ UNCHANGED passedOver
    /\ UNCHANGED <<last_vacuum_at, running, vacuumingSet, enVentanaActiva, wakeup, late>>

LooksAgain ==
    /\ sweep.at = "jitter"
    /\ IF Current \in running
       THEN sweep' = GoOn /\ LookedAt(Current)
       ELSE sweep' = [sweep EXCEPT !.at = "mark"] /\ UNCHANGED passedOver
    /\ UNCHANGED <<last_vacuum_at, running, vacuumingSet, enVentanaActiva, wakeup, late>>

\* A start that has passed its wait before the mark is put does not wait again.
PassedBefore == Current \in running \/ wakeup[Current] = "passed"

\* Mutant of LockVacuum: the service that was done before is marked.
LockVacuumBefore ==
    /\ sweep.at = "mark"
    /\ \E s \in Services :
        /\ \A t \in Services : last_vacuum_at[t] <= last_vacuum_at[s]
        /\ vacuumingSet' = vacuumingSet \cup {s}
    /\ sweep' = [sweep EXCEPT !.at = "vacuum"]
    /\ late' = PassedBefore
    /\ UNCHANGED <<last_vacuum_at, running, enVentanaActiva, wakeup, passedOver>>

LockVacuum ==
    /\ sweep.at = "mark"
    /\ vacuumingSet' = vacuumingSet \cup {Current}
    /\ sweep' = [sweep EXCEPT !.at = "vacuum"]
    /\ late' = PassedBefore
    /\ UNCHANGED <<last_vacuum_at, running, enVentanaActiva, wakeup, passedOver>>

UnlockVacuum ==
    /\ sweep.at = "vacuum"
    /\ vacuumingSet' = vacuumingSet \ {Current}
    /\ sweep' = GoOn
    /\ late' = FALSE

\* The databases are compacted and the date is written, which only the next
\* sweep reads.
markVacuumDone ==
    /\ UnlockVacuum
    /\ Now <= MaxDates
    /\ last_vacuum_at' = [last_vacuum_at EXCEPT ![Current] = Now]
    /\ passedOver' = [s \in Services |->
                        IF s = Current THEN {} ELSE passedOver[s] \cup {Current}]
    /\ UNCHANGED <<running, enVentanaActiva, wakeup>>

\* A database could not be compacted, or the date not be written.
VacuumFails ==
    /\ UnlockVacuum
    /\ LookedAt(Current)
    /\ UNCHANGED <<last_vacuum_at, running, enVentanaActiva, wakeup>>

-----------------------------------------------------------------------------
(***************************************************************************)
(* The launcher                                                            *)
(***************************************************************************)
WakeupService(s) ==
    /\ wakeup[s] = "idle" /\ s \notin running
    /\ wakeup' = [wakeup EXCEPT ![s] = "waits"]
    /\ UNCHANGED <<last_vacuum_at, running, vacuumingSet, enVentanaActiva, sweep, passedOver, late>>

\* It waits while the mark is there, for 30 s at most.
StopsWaiting(s) ==
    /\ wakeup[s] = "waits"
    /\ \/ s \notin vacuumingSet /\ UNCHANGED late
       \/ s \in vacuumingSet /\ "timeout" \in Events /\ late' = TRUE
    /\ wakeup' = [wakeup EXCEPT ![s] = "passed"]
    /\ UNCHANGED <<last_vacuum_at, running, vacuumingSet, enVentanaActiva, sweep, passedOver>>

\* Or it does not: the service is stopped, or the start fails.
WakeupStarts(s) ==
    /\ wakeup[s] = "passed"
    /\ wakeup' = [wakeup EXCEPT ![s] = "idle"]
    /\ running' \in {running, running \cup {s}}
    /\ UNCHANGED <<last_vacuum_at, vacuumingSet, enVentanaActiva, sweep, passedOver, late>>

\* A command or recovery starts it, without a look at the mark.
CommandStarts(s) ==
    /\ "command" \in Events
    /\ s \notin running
    /\ running' = running \cup {s}
    /\ late' = (late \/ s \in vacuumingSet)
    /\ UNCHANGED <<last_vacuum_at, vacuumingSet, enVentanaActiva, sweep, wakeup, passedOver>>

\* It is stopped or suspended, or exits.
Stops(s) ==
    /\ "stop" \in Events
    /\ s \in running
    /\ running' = running \ {s}
    /\ UNCHANGED <<last_vacuum_at, vacuumingSet, enVentanaActiva, sweep, wakeup, passedOver, late>>

-----------------------------------------------------------------------------
Next ==
    \/ Clock
    \/ RunVacuumSweep \/ SweepEnds \/ Looks \/ LooksAgain \/ LockVacuum
    \/ markVacuumDone \/ VacuumFails
    \/ \E s \in Requested : WakeupService(s) \/ StopsWaiting(s) \/ WakeupStarts(s)
    \/ \E s \in Services : CommandStarts(s) \/ Stops(s)

Spec == Init /\ [][Next]_vars

-----------------------------------------------------------------------------
\* The window may close in the middle of any sweep, and yet no service is
\* compacted twice before every other has been, was found running, or failed.
InOrder ==
    \A s \in Services : last_vacuum_at'[s] # last_vacuum_at[s] =>
        \A t \in Services : s \notin passedOver[t]

NoneTwiceBeforeAll == [][InOrder]_vars

\* Databases are compacted while no process works on them, unless a wake-up had
\* waited before the mark was put or for too long, or a command or recovery
\* started the service, which look at no mark.
AloneUnlessLate == sweep.at = "vacuum" /\ ~late => Current \notin running
===============================================================================
