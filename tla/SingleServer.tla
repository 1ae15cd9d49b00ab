---------------------------- MODULE SingleServer ----------------------------
(***************************************************************************)
(* What a process handle promises its owner, with no goroutines, status or *)
(* channels: it runs one server at a time, never runs the same one twice,  *)
(* and publishes the end of a server as a crash at most once, only after   *)
(* the server is gone and only if nobody had told it to stop.              *)
(***************************************************************************)
CONSTANT Runs   \* the servers that may be started, one after the other

VARIABLES
    live,       \* the servers running now
    gone,       \* the servers that have ended
    told,       \* the servers that were told to stop
    reported    \* the servers whose end was published as a crash

vars == <<live, gone, told, reported>>

Init ==
    /\ live = {}
    /\ gone = {}
    /\ told = {}
    /\ reported = {}

Launch(r) ==
    /\ live = {}
    /\ r \notin gone
    /\ live' = {r}
    /\ UNCHANGED <<gone, told, reported>>

End(r) ==
    /\ r \in live
    /\ live' = live \ {r}
    /\ gone' = gone \union {r}
    /\ UNCHANGED <<told, reported>>

(* The word to stop may reach a server that has just ended, but not one    *)
(* whose crash is already published.                                       *)
Tell(r) ==
    /\ r \in live \union gone
    /\ r \notin reported
    /\ told' = told \union {r}
    /\ UNCHANGED <<live, gone, reported>>

ReportCrash(r) ==
    /\ r \in gone
    /\ r \notin told
    /\ r \notin reported
    /\ reported' = reported \union {r}
    /\ UNCHANGED <<live, gone, told>>

Next == \E r \in Runs : Launch(r) \/ End(r) \/ Tell(r) \/ ReportCrash(r)

Spec == Init /\ [][Next]_vars
=============================================================================
