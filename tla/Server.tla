--------------------------------- MODULE Server ---------------------------------
(***************************************************************************)
(* The parts of PBLauncher beside the manager's threads that share no      *)
(* state with each other, one of them at work: the proxy's two caches, the *)
(* hooks of a service's record, cloning, the vacuum and the release sync.  *)
(* The variables of the others are Off.                                    *)
(***************************************************************************)
EXTENDS Naturals, Sequences, FiniteSets

CONSTANTS
    Events,                                                 \* of any part
    Requests, Saver, Inodes, Texts, NoText, MaxEdits,       \* GzipCache
    Ids, Names, Lookups, MaxChanges,                        \* ServiceDiscovery
    Directories, Starters, MaxHooks,                        \* ServiceHooks
    MaxWrites, MaxClones,                                   \* Clone
    Services, Requested, MaxDates,                          \* Vacuum
    Versions, Sync, Ensurers, Files, Retention, MaxEnsures, MaxFaults   \* Releases

Off == "off"

VARIABLES
    part,
    file, gz, tmp, inode, job, edits, spoilt,
    cached, cache, lookup, changed, changes, past,
    record, dir, process, start, hook, hooks, disturbed,
    source, data, copy, clone, command, clones,
    last_vacuum_at, running, vacuumingSet, enVentanaActiva, sweep, wakeup, passedOver, late,
    releases, downloads, content, work, ensures, faults, cut

Gzip == INSTANCE GzipCache WITH None <- NoText
Discovery == INSTANCE ServiceDiscovery WITH record <- cached
Hooks == INSTANCE ServiceHooks WITH Names <- Directories, Starts <- Starters
Clone == INSTANCE Clone
Vacuum == INSTANCE Vacuum
Releases == INSTANCE Releases WITH dir <- downloads

ASSUME ServerAssumption ==
    /\ Gzip!GzipAssumption /\ Discovery!DiscoveryAssumption /\ Hooks!HooksAssumption
    /\ Clone!BoundsAssumption /\ Vacuum!BoundsAssumption /\ Releases!ReleasesAssumption

-----------------------------------------------------------------------------
gzipVars == <<file, gz, tmp, inode, job, edits, spoilt>>
discoveryVars == <<cached, cache, lookup, changed, changes, past>>
recordVars == <<record, dir, process, start, disturbed>>
hooksVars == <<hook, hooks>>
cloneVars == <<source, data, copy, clone, command, clones>>
vacuumVars == <<last_vacuum_at, running, vacuumingSet, enVentanaActiva, sweep, wakeup, passedOver,
                late>>
releasesVars == <<releases, downloads, content, work, ensures, faults, cut>>

vars == <<part, gzipVars, discoveryVars, recordVars, hooksVars, cloneVars, vacuumVars,
          releasesVars>>

GzipOff ==
    /\ file = Off /\ gz = Off /\ tmp = Off /\ inode = Off /\ job = Off /\ edits = Off
    /\ spoilt = Off
DiscoveryOff ==
    /\ cached = Off /\ cache = Off /\ lookup = Off /\ changed = Off /\ changes = Off
    /\ past = Off
RecordOff ==
    /\ record = Off /\ dir = Off /\ process = Off /\ start = Off /\ disturbed = Off
HooksOff == hook = Off /\ hooks = Off
CloneOff ==
    /\ source = Off /\ data = Off /\ copy = Off /\ clone = Off /\ command = Off
    /\ clones = Off
VacuumOff ==
    /\ last_vacuum_at = Off /\ running = Off /\ vacuumingSet = Off /\ enVentanaActiva = Off
    /\ sweep = Off /\ wakeup = Off /\ passedOver = Off /\ late = Off
ReleasesOff ==
    /\ releases = Off /\ downloads = Off /\ content = Off /\ work = Off /\ ensures = Off /\ faults = Off /\ cut = Off

Init ==
    /\ part \in {"gzip", "discovery", "hooks", "clone", "vacuum", "releases"}
    /\ IF part = "gzip" THEN Gzip!Init ELSE GzipOff
    /\ IF part = "discovery" THEN Discovery!Init ELSE DiscoveryOff
    /\ IF part = "hooks" THEN Hooks!Init ELSE HooksOff
    /\ IF part = "clone" THEN Clone!Init ELSE CloneOff
    /\ IF part \in {"hooks", "clone"} THEN TRUE ELSE RecordOff
    /\ IF part = "vacuum" THEN Vacuum!Init ELSE VacuumOff
    /\ IF part = "releases" THEN Releases!Init ELSE ReleasesOff

\* A step of one part leaves the variables of the others alone.
Next ==
    /\ UNCHANGED part
    /\ \/ /\ part = "gzip" /\ Gzip!Next
          /\ UNCHANGED <<discoveryVars, recordVars, hooksVars, cloneVars, vacuumVars, releasesVars>>
       \/ /\ part = "discovery" /\ Discovery!Next
          /\ UNCHANGED <<gzipVars, recordVars, hooksVars, cloneVars, vacuumVars, releasesVars>>
       \/ /\ part = "hooks" /\ Hooks!Next
          /\ UNCHANGED <<gzipVars, discoveryVars, cloneVars, vacuumVars, releasesVars>>
       \/ /\ part = "clone" /\ Clone!Next
          /\ UNCHANGED <<gzipVars, discoveryVars, hooksVars, vacuumVars, releasesVars>>
       \/ /\ part = "vacuum" /\ Vacuum!Next
          /\ UNCHANGED <<gzipVars, discoveryVars, recordVars, hooksVars, cloneVars, releasesVars>>
       \/ /\ part = "releases" /\ Releases!Next
          /\ UNCHANGED <<gzipVars, discoveryVars, recordVars, hooksVars, cloneVars, vacuumVars>>

\* The sync task is run again and again, and no step of a download takes for ever.
Downloading(A) == part = "releases" /\ A /\ UNCHANGED <<part, gzipVars, discoveryVars,
                                        recordVars, hooksVars, cloneVars, vacuumVars>>

Fairness ==
    /\ WF_vars(Downloading(Releases!Run)) /\ WF_vars(Downloading(Releases!SaveReleases))
    /\ \A w \in Ensurers \cup {Sync} : WF_vars(Downloading(Releases!Step(w)))

Spec == Init /\ [][Next]_vars /\ Fairness

-----------------------------------------------------------------------------
\* Type correctness of each part.
TypeOK ==
    CASE part = "gzip" -> Gzip!TypeOK
      [] part = "discovery" -> Discovery!TypeOK
      [] part = "hooks" -> Hooks!TypeOK
      [] part = "clone" -> Clone!TypeOK
      [] part = "vacuum" -> Vacuum!TypeOK
      [] part = "releases" -> Releases!TypeOK

\* What would be served is the whole file, unless spoilt (the proxy's and the
\* file manager's way through <file>.gz.tmp).
CopyIsTrueUnlessSpoilt == part = "gzip" => Gzip!CopyIsTrueUnlessSpoilt

\* What is cached is true but where a change is known to slip by (ServiceDiscovery).
CachedIsTrue == part = "discovery" => Discovery!CachedIsTrue

\* Renames and deletions that nothing disturbs leave nothing behind.
TidyUnlessDisturbed == part = "hooks" => Hooks!TidyUnlessDisturbed

\* A clone is there as a whole or not at all, unless disturbed (CloneService).
WholeOrNothing == part = "clone" => Clone!WholeOrNothing

\* Debts of compaction are paid in order (runVacuumSweep, sortByLastVacuum).
NoneTwiceBeforeAll ==
    [][part = "vacuum" => Vacuum!InOrder]_vars

\* The vacuum works alone but for starts that its mark does not hold up
\* (LockVacuum, IsVacuuming in WakeupService).
AloneUnlessLate == part = "vacuum" => Vacuum!AloneUnlessLate

\* A version that counts as downloaded is complete, unless cut (downloads of
\* the sync and of starts beside each other).
CompleteUnlessCut == part = "releases" => Releases!CompleteUnlessCut

\* Every recorded release is downloaded some day, unless cut.
ReleasesArrive ==
    \A v \in Versions :
        (part = "releases" /\ v \in releases)
            ~> (part = "releases" /\ (Releases!Complete(v) \/ v \in cut))
===============================================================================
