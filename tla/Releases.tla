------------------------------- MODULE Releases -------------------------------
(***************************************************************************)
(* The PocketBase releases that PBLauncher knows and the files it has      *)
(* downloaded of them.  The sync task records what GitHub offers and       *)
(* downloads what is missing; a start, a clone or an import makes sure of  *)
(* one release beside it, without the sync's mutex.  Both write into the   *)
(* directory of the version, which counts as downloaded once it is there.  *)
(*                                                                         *)
(* A file is written in two pieces, the binary is made executable after    *)
(* them.  GitHub is external: what it offers and whether a download        *)
(* succeeds is open.                                                       *)
(***************************************************************************)
EXTENDS Naturals, FiniteSets

CONSTANTS
    Versions,
    Sync,       \* the sync task
    Ensurers,   \* starts, clones and imports that may be under way at a time
    Files,      \* number of files in an archive; the last one is the binary
    Retention,  \* releases that GitHub is asked for
    MaxEnsures, \* bound: starts, clones and imports
    MaxFaults   \* bound: steps that fail, and ends of PBLauncher

Workers == Ensurers \cup {Sync}

NoVersion == "none"

ReleasesAssumption ==
    /\ Files \in Nat \ {0} /\ {MaxEnsures, MaxFaults} \subseteq Nat
    /\ Sync \notin Ensurers /\ NoVersion \notin Versions

VARIABLES
    releases,   \* versions recorded in the collection
    dir,        \* versions that have a directory
    content,    \* content[v][f]: "there" once a file is, its pieces, "x" once it is executable
    work,       \* work[w]: what a worker is at
    ensures, faults,
    cut         \* history: versions of which a download was broken off between files

vars == <<releases, dir, content, work, ensures, faults, cut>>

Idle == [at |-> "idle", todo |-> {}, version |-> NoVersion, file |-> 0]
Quiet == \A w \in Workers : work[w] = Idle

NoFile == [f \in 1..Files |-> {}]
Whole(f) == {"there", "head", "tail"} \cup IF f = Files THEN {"x"} ELSE {}
IsEmpty(v) == content[v] = NoFile
Complete(v) == v \in dir /\ \A f \in 1..Files : content[v][f] = Whole(f)

Points == {"idle", "record", "clean", "list", "next", "mkdir", "create", "head", "tail", "chmod"}

TypeOK ==
    /\ releases \subseteq Versions /\ dir \subseteq Versions /\ cut \subseteq Versions
    /\ content \in [Versions -> [1..Files -> SUBSET {"there", "head", "tail", "x"}]]
    /\ \A v \in Versions, f \in 1..Files : content[v][f] \subseteq Whole(f)
    /\ \A v \in Versions \ dir : IsEmpty(v)
    /\ work \in [Workers -> [at : Points, todo : SUBSET Versions,
                             version : Versions \cup {NoVersion}, file : 0..Files]]
    /\ \A w \in Workers : work[w].at \in {"mkdir", "create", "head", "tail", "chmod"} =>
                work[w].version \in releases /\ work[w].file \in 1..Files
    /\ ensures \in 0..MaxEnsures /\ faults \in 0..MaxFaults

Init ==
    /\ releases = {} /\ dir = {}
    /\ content = [v \in Versions |-> NoFile]
    /\ work = [w \in Workers |-> Idle]
    /\ ensures = 0 /\ faults = 0
    /\ cut = {}

-----------------------------------------------------------------------------
(***************************************************************************)
(* What is missing                                                         *)
(***************************************************************************)
DiffReleases(available) == available \ releases

\* One sync at a time: the task is one, and it holds the mutex.
Run ==
    /\ work[Sync] = Idle
    /\ \E available \in SUBSET Versions :
        /\ Cardinality(available) <= Retention
        /\ work' = [work EXCEPT ![Sync].at = "record",
                                ![Sync].todo = DiffReleases(available)]
    /\ UNCHANGED <<releases, dir, content, ensures, faults, cut>>

SaveReleases ==
    /\ work[Sync].at = "record"
    /\ IF work[Sync].todo = {}
       THEN /\ work' = [work EXCEPT ![Sync].at = "clean"]
            /\ UNCHANGED releases
       ELSE \E v \in work[Sync].todo :
            /\ releases' = releases \cup {v}
            /\ work' = [work EXCEPT ![Sync].todo = @ \ {v}]
    /\ UNCHANGED <<dir, content, ensures, faults, cut>>

\* Of a start only if it has not found the binary.
EnsureReleaseDownloaded(e, v) ==
    /\ work[e] = Idle
    /\ v \in releases
    /\ ensures < MaxEnsures /\ ensures' = ensures + 1
    /\ work' = [work EXCEPT ![e].at = "clean", ![e].version = v]
    /\ UNCHANGED <<releases, dir, content, faults, cut>>

\* Versions: empty directories are removed, then the directories are listed.
cleanEmptyDirs(w) ==
    /\ work[w].at = "clean"
    /\ dir' = {v \in dir : ~IsEmpty(v)}
    /\ work' = [work EXCEPT ![w].at = "list"]
    /\ UNCHANGED <<releases, content, ensures, faults, cut>>

\* Mutant of Missing: only what was not recorded before is downloaded.
MissingNew(w) == IF w = Sync THEN work[w].todo ELSE {work[w].version} \ dir

Missing(w) == (IF w = Sync THEN releases ELSE {work[w].version}) \ dir

Lists(w) ==
    /\ work[w].at = "list"
    /\ work' = [work EXCEPT ![w].at = "next", ![w].todo = Missing(w)]
    /\ UNCHANGED <<releases, dir, content, ensures, faults, cut>>

-----------------------------------------------------------------------------
(***************************************************************************)
(* Downloads                                                               *)
(***************************************************************************)
\* The archive is downloaded and unpacked elsewhere.
processDownload(w) ==
    /\ work[w].at = "next"
    /\ \E v \in work[w].todo :
        work' = [work EXCEPT ![w] = [at |-> "mkdir", todo |-> @.todo \ {v},
                                     version |-> v, file |-> 1]]
    /\ UNCHANGED <<releases, dir, content, ensures, faults, cut>>

Ends(w) ==
    /\ work[w].at = "next" /\ work[w].todo = {}
    /\ work' = [work EXCEPT ![w] = Idle]
    /\ UNCHANGED <<releases, dir, content, ensures, faults, cut>>

\* Save: the directory is made, the file created or truncated, written, and
\* the binary made executable.
MkdirAll(w) ==
    /\ work[w].at = "mkdir"
    /\ dir' = dir \cup {work[w].version}
    /\ work' = [work EXCEPT ![w].at = "create"]
    /\ UNCHANGED <<releases, content, ensures, faults, cut>>

\* A file that is truncated keeps its mode.
Create(w) ==
    /\ work[w].at = "create" /\ work[w].version \in dir
    /\ content' = [content EXCEPT ![work[w].version][work[w].file] =
                                        {"there"} \cup (@ \cap {"x"})]
    /\ work' = [work EXCEPT ![w].at = "head"]
    /\ UNCHANGED <<releases, dir, ensures, faults, cut>>

\* Another worker has removed the directory, which was empty.
CreateFails(w) ==
    /\ work[w].at = "create" /\ work[w].version \notin dir
    /\ work' = [work EXCEPT ![w] = Idle]
    /\ UNCHANGED <<releases, dir, content, ensures, faults, cut>>

\* Mutant of NextFile: the last file is not saved.
NextFileButLast(w) ==
    IF work[w].file + 1 < Files
    THEN [work[w] EXCEPT !.at = "mkdir", !.file = @ + 1]
    ELSE [work[w] EXCEPT !.at = "next"]

NextFile(w) ==
    IF work[w].file < Files
    THEN [work[w] EXCEPT !.at = "mkdir", !.file = @ + 1]
    ELSE [work[w] EXCEPT !.at = "next"]

Puts(w, piece) ==
    content' = [content EXCEPT ![work[w].version][work[w].file] = @ \cup {piece}]

\* By how it begins, unless another worker has truncated it.
LooksExecutable(w) == "head" \in content[work[w].version][work[w].file]

Copies(w) ==
    /\ \/ /\ work[w].at = "head" /\ Puts(w, "head")
          /\ work' = [work EXCEPT ![w].at = "tail"]
       \/ /\ work[w].at = "tail" /\ Puts(w, "tail")
          /\ work' = [work EXCEPT ![w] = IF @.file = Files THEN [@ EXCEPT !.at = "chmod"]
                                         ELSE NextFile(w)]
       \/ /\ work[w].at = "chmod"
          /\ IF LooksExecutable(w) THEN Puts(w, "x") ELSE UNCHANGED content
          /\ work' = [work EXCEPT ![w] = NextFile(w)]
    /\ UNCHANGED <<releases, dir, ensures, faults, cut>>

-----------------------------------------------------------------------------
(***************************************************************************)
(* Failures                                                                *)
(***************************************************************************)
Fault == faults < MaxFaults /\ faults' = faults + 1

\* Something of the version has been saved and more was to come.
Cutting(w) ==
    IF work[w].at \in {"create", "head", "tail", "chmod"} \/ work[w].file > 1
    THEN {work[w].version} \cap Versions ELSE {}

\* A step fails; what has been saved stays, and the sync gives up the rest.
Fails(w) ==
    /\ Fault
    /\ work[w] # Idle
    /\ work' = [work EXCEPT ![w] = Idle]
    /\ cut' = cut \cup Cutting(w)
    /\ UNCHANGED <<releases, dir, content, ensures>>

\* PBLauncher ends and is started again.
Crash ==
    /\ Fault
    /\ ~Quiet
    /\ work' = [w \in Workers |-> Idle]
    /\ cut' = cut \cup UNION {Cutting(w) : w \in Workers}
    /\ UNCHANGED <<releases, dir, content, ensures>>

-----------------------------------------------------------------------------
Step(w) ==
    \/ cleanEmptyDirs(w) \/ Lists(w)
    \/ processDownload(w) \/ Ends(w)
    \/ MkdirAll(w) \/ Create(w) \/ CreateFails(w) \/ Copies(w)

Next ==
    \/ Run \/ SaveReleases
    \/ \E e \in Ensurers, v \in Versions : EnsureReleaseDownloaded(e, v)
    \/ \E w \in Workers : Step(w) \/ Fails(w)
    \/ Crash

Spec == Init /\ [][Next]_vars

\* The task is run again and again, and no step takes for ever.
FairSpec ==
    /\ Spec
    /\ WF_vars(Run) /\ WF_vars(SaveReleases)
    /\ \A w \in Workers : WF_vars(Step(w))

-----------------------------------------------------------------------------
\* Workers that write, truncate and clean up beside each other do no lasting
\* harm: once nobody is at work, a version that counts as downloaded is
\* complete, unless a download of it was broken off.
CompleteUnlessCut ==
    Quiet => \A v \in dir \ cut : Complete(v) \/ IsEmpty(v)

\* Every release that is recorded is downloaded some day, unless a download
\* was broken off: what failed before is tried again by the next sync.
ReleasesArrive == \A v \in Versions : v \in releases ~> (Complete(v) \/ v \in cut)
===============================================================================
