-------------------------------- MODULE LogsView --------------------------------
(***************************************************************************)
(* The logs of one service in the panel, with the buttons above them.      *)
(*                                                                         *)
(* Two loads run side by side while the section is mounted: the initial    *)
(* one, of all there is, replaces what is shown when it answers, and a     *)
(* loop asks for the last few lines, merges them by id, and goes on after  *)
(* an error.  A line is its id.  The filter by stream and the export read  *)
(* the lines only and are left out.                                        *)
(***************************************************************************)
EXTENDS Naturals, Sequences

CONSTANTS
    Recent,     \* what the loop asks for (10)
    Full,       \* what the store answers at most (500)
    MaxLines,   \* bound: lines the service writes
    MaxFaults,  \* bound: loads that fail
    MaxClicks   \* bound: what the user does

LogsAssumption ==
    {Recent, Full, MaxLines, MaxFaults} \subseteq Nat /\ Recent <= Full

VARIABLES db, net, cache, ui, past

vars == <<db, net, cache, ui, past>>

Idle == [at |-> "idle"]
Loads == {"init", "poll"}
NoQuestion == "none"

TypeOK ==
    /\ db.lines \in 0..MaxLines /\ db.status \in {"stopped", "running"}
    /\ db.orders \in Seq({"start", "stop", "restart"})
    /\ \A i \in 1..Len(cache.logs) : cache.logs[i] \in 1..db.lines
    /\ ui.mounted \in BOOLEAN /\ past \in [faults : 0..MaxFaults, outrun : BOOLEAN]

Init ==
    /\ db = [lines |-> 0, status |-> "running", orders |-> <<>>]
    /\ net = [init |-> [at |-> "sent"], poll |-> [at |-> "timer"], command |-> Idle]
    /\ cache = [logs |-> <<>>, connected |-> TRUE, status |-> "running"]
    /\ ui = [mounted |-> TRUE, question |-> NoQuestion, clicks |-> 0]
    /\ past = [faults |-> 0, outrun |-> FALSE]

-----------------------------------------------------------------------------
(***************************************************************************)
(* The service writes while it runs, and the launcher obeys.               *)
(***************************************************************************)
\* An answer of the loop is on its way, and the first load, if it is read only
\* now, no longer reaches back to all of its lines.
Outruns ==
    /\ net.poll.at = "read" /\ net.poll.logs # <<>>
    /\ db.lines - net.poll.logs[Len(net.poll.logs)] >= Full - Recent

Write ==
    /\ db.status = "running" /\ db.lines < MaxLines
    /\ db' = [db EXCEPT !.lines = @ + 1]
    /\ past' = [past EXCEPT !.outrun = @ \/ Outruns]
    /\ UNCHANGED <<net, cache, ui>>

Obey ==
    /\ db.orders # <<>>
    /\ db' = [db EXCEPT !.orders = Tail(@),
                        !.status = IF Head(db.orders) = "stop" THEN "stopped" ELSE "running"]
    /\ UNCHANGED <<net, cache, ui, past>>

\* The last lines, the oldest first.
GetLogsByService(limit) ==
    LET n == IF limit < db.lines THEN limit ELSE db.lines
    IN [i \in 1..n |-> db.lines - n + i]

handleGetServiceLogs(l) ==
    /\ net[l].at = "sent"
    /\ net' = [net EXCEPT ![l] = [at |-> "read",
                                  logs |-> GetLogsByService(IF l = "init" THEN Full ELSE Recent)]]
    /\ UNCHANGED <<db, cache, ui, past>>

-----------------------------------------------------------------------------
(***************************************************************************)
(* LogsView                                                                *)
(***************************************************************************)
InitAnswer ==
    /\ net.init.at = "read"
    /\ cache' = [cache EXCEPT !.logs = net.init.logs]
    /\ net' = [net EXCEPT !.init = Idle]
    /\ UNCHANGED <<db, ui, past>>

fetchLoop ==
    /\ net.poll.at = "timer"
    /\ net' = [net EXCEPT !.poll = [at |-> "sent"]]
    /\ UNCHANGED <<db, cache, ui, past>>

\* Mutant of mergeLogsUnique: lines that are there already are added again.
mergeLogs(current, incoming) == current \o incoming

mergeLogsUnique(current, incoming) ==
    LET IsNew(line) == \A i \in 1..Len(current) : current[i] # line
        fresh[n \in 0..Len(incoming)] ==
            IF n = 0 THEN <<>>
            ELSE IF IsNew(incoming[n]) THEN Append(fresh[n - 1], incoming[n])
            ELSE fresh[n - 1]
    IN current \o fresh[Len(incoming)]

PollAnswer ==
    /\ net.poll.at = "read"
    /\ cache' = [cache EXCEPT !.logs = mergeLogsUnique(@, net.poll.logs), !.connected = TRUE]
    /\ net' = [net EXCEPT !.poll = [at |-> "timer"]]
    /\ UNCHANGED <<db, ui, past>>

Fault(l) ==
    /\ net[l].at \in {"sent", "read"} /\ past.faults < MaxFaults
    /\ past' = [past EXCEPT !.faults = @ + 1]

\* Nobody is told that the initial load failed, nor is it tried again.
InitFails ==
    /\ Fault("init")
    /\ net' = [net EXCEPT !.init = Idle]
    /\ UNCHANGED <<db, cache, ui>>

\* Mutant of PollFails: the timer is set after a success only.
PollFailsForGood ==
    /\ Fault("poll")
    /\ cache' = [cache EXCEPT !.connected = FALSE]
    /\ net' = [net EXCEPT !.poll = Idle]
    /\ UNCHANGED <<db, ui>>

PollFails ==
    /\ Fault("poll")
    /\ cache' = [cache EXCEPT !.connected = FALSE]
    /\ net' = [net EXCEPT !.poll = [at |-> "timer"]]
    /\ UNCHANGED <<db, ui>>

\* Another tab of the page, and back: the effect's cleanup, and the effect.
Unmount ==
    /\ ui.mounted /\ ui.question = NoQuestion /\ ui.clicks < MaxClicks
    /\ ui' = [ui EXCEPT !.mounted = FALSE, !.clicks = @ + 1]
    /\ net' = [net EXCEPT !.init = Idle, !.poll = Idle]
    /\ cache' = [cache EXCEPT !.logs = <<>>, !.connected = TRUE]
    /\ UNCHANGED <<db, past>>

Mount ==
    /\ ~ui.mounted
    /\ ui' = [ui EXCEPT !.mounted = TRUE]
    /\ net' = [net EXCEPT !.init = [at |-> "sent"], !.poll = [at |-> "timer"]]
    /\ UNCHANGED <<db, cache, past>>

-----------------------------------------------------------------------------
(***************************************************************************)
(* ServiceLogsSection                                                      *)
(***************************************************************************)
serviceQuery ==
    /\ cache' = [cache EXCEPT !.status = IF db.orders = <<>> THEN db.status ELSE "pending"]
    /\ cache' # cache
    /\ UNCHANGED <<db, net, ui, past>>

Send(action) == net' = [net EXCEPT !.command = [at |-> "sent", action |-> action]]

\* Start is sent at once, the others after a question.
executeCommand(action) ==
    /\ ui.mounted /\ ui.question = NoQuestion /\ ui.clicks < MaxClicks
    /\ net.command = Idle
    /\ IF action = "start" THEN cache.status \notin {"running", "pending"} ELSE cache.status = "running"
    /\ ui' = [ui EXCEPT !.question = IF action = "start" THEN @ ELSE action, !.clicks = @ + 1]
    /\ IF action = "start" THEN Send(action) ELSE UNCHANGED net
    /\ UNCHANGED <<db, cache, past>>

confirm(ok) ==
    /\ ui.question # NoQuestion
    /\ ui' = [ui EXCEPT !.question = NoQuestion]
    /\ IF ok THEN Send(ui.question) ELSE UNCHANGED net
    /\ UNCHANGED <<db, cache, past>>

\* Its success invalidates the polled services.
executeServiceCommand ==
    /\ net.command.at = "sent"
    /\ net' = [net EXCEPT !.command = Idle]
    /\ \/ /\ db' = [db EXCEPT !.orders = Append(@, net.command.action)]
          /\ cache' = [cache EXCEPT !.status = "pending"]
       \/ UNCHANGED <<db, cache>>
    /\ UNCHANGED <<ui, past>>

-----------------------------------------------------------------------------
Loop == fetchLoop \/ handleGetServiceLogs("poll") \/ PollAnswer

Next ==
    \/ Write \/ Obey
    \/ handleGetServiceLogs("init") \/ InitAnswer \/ InitFails
    \/ Loop \/ PollFails
    \/ Unmount \/ Mount
    \/ serviceQuery \/ executeServiceCommand
    \/ \E action \in {"start", "stop", "restart"} : executeCommand(action)
    \/ \E ok \in BOOLEAN : confirm(ok)

\* The timer fires, the server answers.
Fairness == WF_vars(Loop)

Spec == Init /\ [][Next]_vars /\ Fairness

-----------------------------------------------------------------------------
(***************************************************************************)
(* Properties                                                              *)
(***************************************************************************)
\* Lines are shown in the order they were written and once each, in whatever
\* order the two loads read and answer; unless the loop was outrun, whose lines
\* may then be added after later ones.
LogsInOrder ==
    ~past.outrun => \A i, j \in 1..Len(cache.logs) : i < j => cache.logs[i] < cache.logs[j]

ShowsLast == cache.logs # <<>> /\ cache.logs[Len(cache.logs)] = db.lines
CaughtUp == ~past.outrun /\ ui.mounted /\ db.lines > 0 => ShowsLast

\* The last line is shown in the end, whatever failed or answered late before.
LogsCatchUp == []<>CaughtUp
===============================================================================
