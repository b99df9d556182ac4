------------------------------ MODULE Service ------------------------------
(***************************************************************************)
(* The command line (cli.py) and the server processes it starts and stops: *)
(* the PID file, the startup of a process (main.py, database.py), the port *)
(* and the sessions of the runs that stream to whoever has the port.       *)
(*                                                                         *)
(* A command is a program of its own: each of its accesses to the file or  *)
(* to a process is one step.  uvicorn (handlers for SIGTERM, then startup, *)
(* then the port; on SIGTERM the port first, then what is open) and the    *)
(* operating system are external.  Process ids are not used again.         *)
(***************************************************************************)
EXTENDS Naturals, FiniteSets

CONSTANTS
    Callers,   \* shells in which commands are given
    Runs,      \* pytest runs
    Columns,   \* the columns that ensure_columns expects
    None,
    MaxPids    \* bound: processes ever started

ASSUME ServiceAssumption == MaxPids \in Nat /\ None \notin Nat

VARIABLES
    pid_file,   \* the process id in the file, Blank if it is empty, None without a file
    command,    \* the command of each caller and where it is
    procs,      \* the server processes alive
    spawned,    \* how many were ever started
    failed,     \* those that ended in their startup (history)
    columns,    \* the columns that the session table has
    session,    \* the session of each run, and the process that has its maps
    request,    \* the event each run posts next, and the process it is connected to
    disturbed,  \* commands overlapped, a start was interrupted before it wrote the file,
                \* or a server was started without one (history)
    hasty       \* start was called, or the time of restart was up, before a server told
                \* to end had ended (history)

vars == <<pid_file, command, procs, spawned, failed, columns, session, request,
          disturbed, hasty>>
os == <<procs, spawned, failed>>
database == <<columns, session>>
history == <<disturbed, hasty>>

Blank == 0
Pids == 1 .. MaxPids
Idle == [cmd |-> None, at |-> "idle", pid |-> None]

\* loading: no startup yet; migrating, marking: in it; binding: after it.
Process == [at : {"loading", "migrating", "marking", "binding", "serving", "draining"},
            todo : SUBSET Columns, stale : SUBSET Runs, told : BOOLEAN]

Init ==
    /\ pid_file = None /\ command = [c \in Callers |-> Idle]
    /\ procs = <<>> /\ spawned = 0 /\ failed = {}
    /\ columns = {}
    /\ session = [r \in Runs |-> [status |-> "none", holder |-> None]]
    /\ request = [r \in Runs |-> [event |-> "start", to |-> None]]
    /\ disturbed = FALSE /\ hasty = FALSE

-----------------------------------------------------------------------------
(* Processes *)

Alive(p) == p \in DOMAIN procs
Serving(p) == Alive(p) /\ procs[p].at = "serving"
Told(p) == Alive(p) /\ procs[p].told

Spawn ==
    /\ spawned < MaxPids
    /\ spawned' = spawned + 1
    /\ procs' = [p \in DOMAIN procs \cup {spawned'} |->
                    IF p = spawned' THEN [at |-> "loading", todo |-> {}, stale |-> {},
                                          told |-> FALSE]
                    ELSE procs[p]]
    /\ UNCHANGED failed

\* Process p ends; in a failed startup if bad.
End(p, bad) ==
    /\ procs' = [q \in DOMAIN procs \ {p} |-> procs[q]]
    /\ failed' = IF bad THEN failed \cup {p} ELSE failed
    /\ UNCHANGED spawned

Become(p, at) ==
    /\ procs' = [procs EXCEPT ![p].at = at]
    /\ UNCHANGED <<spawned, failed>>

\* SIGTERM: fatal until uvicorn has installed its handlers, then only noted.
Terminate(p) ==
    \/ /\ procs[p].at = "loading"
       /\ End(p, FALSE)
    \/ /\ procs' = [procs EXCEPT ![p].told = TRUE]
       /\ UNCHANGED <<spawned, failed>>

-----------------------------------------------------------------------------
(* The startup of a process *)

\* Faulty variant: every column is taken for missing.
ReadColumnsNone(p) ==
    /\ procs[p].at = "loading"
    /\ procs' = [procs EXCEPT ![p].at = "migrating", ![p].todo = Columns]
    /\ UNCHANGED <<spawned, failed, database>>

\* ensure_columns: which are missing ...
ReadColumns(p) ==
    /\ procs[p].at = "loading"
    /\ procs' = [procs EXCEPT ![p].at = "migrating", ![p].todo = Columns \ columns]
    /\ UNCHANGED <<spawned, failed, database>>

\* ... and one ALTER TABLE for each, which raises if another process was faster.
AddColumn(p) ==
    /\ procs[p].at = "migrating"
    /\ \E c \in procs[p].todo :
          \/ /\ c \in columns
             /\ End(p, TRUE)
             /\ UNCHANGED columns
          \/ /\ c \notin columns
             /\ columns' = columns \cup {c}
             /\ procs' = [procs EXCEPT ![p].todo = @ \ {c}]
             /\ UNCHANGED <<spawned, failed>>
    /\ UNCHANGED session

\* _mark_stale_sessions_interrupted: what is in progress ...
ReadStale(p) ==
    /\ procs[p].at = "migrating" /\ procs[p].todo = {}
    /\ procs' = [procs EXCEPT ![p].at = "marking",
                    ![p].stale = {r \in Runs : session[r].status = "in_progress"}]
    /\ UNCHANGED <<spawned, failed, database>>

\* ... is interrupted, whatever has become of it since.
MarkStale(p) ==
    /\ procs[p].at = "marking"
    /\ session' = [r \in Runs |-> IF r \in procs[p].stale
                                  THEN [session[r] EXCEPT !.status = "interrupted"]
                                  ELSE session[r]]
    /\ procs' = [procs EXCEPT ![p].at = "binding", ![p].stale = {}]
    /\ UNCHANGED <<spawned, failed, columns>>

\* The port comes last (uvicorn).
Bind(p) ==
    /\ procs[p].at = "binding"
    /\ IF \E q \in DOMAIN procs : Serving(q) THEN End(p, TRUE)
       ELSE IF Told(p) THEN End(p, FALSE)
       ELSE Become(p, "serving")
    /\ UNCHANGED database

StartupStep(p) ==
    /\ Alive(p)
    /\ ReadColumns(p) \/ AddColumn(p) \/ ReadStale(p) \/ MarkStale(p) \/ Bind(p)
    /\ UNCHANGED <<pid_file, command, request, history>>

\* A graceful shutdown (uvicorn): the port is given up first; the process ends
\* once its requests are answered and its streams are closed, which is never if
\* a tab stays open.
Drain(p) ==
    /\ Serving(p) /\ Told(p)
    /\ Become(p, "draining")
    /\ UNCHANGED <<pid_file, command, database, request, history>>
Exit(p) ==
    /\ Alive(p) /\ procs[p].at = "draining"
    /\ \A r \in Runs : request[r].to # p
    /\ End(p, FALSE)
    /\ UNCHANGED <<pid_file, command, database, request, history>>

Crash(p) ==
    /\ Alive(p)
    /\ End(p, FALSE)
    /\ UNCHANGED <<pid_file, command, database, request, history>>

-----------------------------------------------------------------------------
(* Runs: a SessionStart and a SessionFinish each *)

Advance(r) ==
    request' = [request EXCEPT ![r] = [event |-> IF @.event = "start" THEN "finish" ELSE "over",
                                       to |-> None]]

Connect(r) ==
    /\ request[r].event # "over" /\ request[r].to = None
    /\ \E p \in DOMAIN procs : Serving(p) /\ request' = [request EXCEPT ![r].to = p]
    /\ UNCHANGED <<pid_file, command, os, database, history>>

\* stream_event in the process connected to: it knows the run by its own maps.
StreamEvent(r) ==
    LET p == request[r].to
    IN  /\ p # None /\ Alive(p) /\ procs[p].at \in {"serving", "draining"}
        /\ \/ /\ request[r].event = "start"
              /\ session' = [session EXCEPT ![r] = [status |-> "in_progress", holder |-> p]]
           \/ /\ request[r].event = "finish" /\ session[r].holder = p
              /\ session' = [session EXCEPT ![r].status = "completed"]
           \/ /\ request[r].event = "finish" /\ session[r].holder # p
              /\ UNCHANGED session
        /\ Advance(r)
        /\ UNCHANGED <<pid_file, command, os, columns, history>>

\* Refused or reset: the run goes on without.
LoseEvent(r) ==
    /\ request[r].event # "over"
    /\ request[r].to = None \/ ~Alive(request[r].to)
    /\ Advance(r)
    /\ UNCHANGED <<pid_file, command, os, database, history>>

-----------------------------------------------------------------------------
(* Commands *)

\* The command of c goes on at at, and is about the process pid.
GotoWith(c, at, pid) ==
    command' = [command EXCEPT ![c] = [cmd |-> @.cmd, at |-> at, pid |-> pid]]

Goto(c, at) ==
    IF at = "idle" THEN command' = [command EXCEPT ![c] = Idle]
    ELSE GotoWith(c, at, IF at \in {"check", "read"} THEN None ELSE command[c].pid)

\* restart ends by calling start.
GotoStart(c) ==
    command' = [command EXCEPT ![c] = [cmd |-> "start", at |-> "cleanup", pid |-> None]]

Begin(c, cmd) ==
    /\ command[c] = Idle
    /\ command' = [command EXCEPT ![c] = [cmd |-> cmd, pid |-> None,
                       at |-> IF cmd = "status" THEN "read" ELSE "cleanup"]]
    /\ disturbed' = (disturbed \/ \E d \in Callers : command[d] # Idle)
    /\ hasty' = (hasty \/ (cmd \in {"start", "restart"} /\ \E p \in Pids : Told(p)))
    /\ UNCHANGED <<pid_file, os, database, request>>

\* Faulty variant: an empty file is not refused.
PidInFileUnparsed == pid_file

\* _get_pid_from_file: None also if the file is empty.
PidInFile == IF pid_file = Blank THEN None ELSE pid_file

\* Where a command goes on after _cleanup_stale_pid_file; status ends there.
AfterCleanup(c) ==
    CASE command[c].cmd = "start"             -> "check"
      [] command[c].cmd \in {"stop", "restart"} -> "read"
      [] command[c].cmd = "status"            -> "idle"

\* _cleanup_stale_pid_file: read the file, ...
Cleanup(c) ==
    /\ command[c].at = "cleanup"
    /\ IF PidInFile = None THEN Goto(c, AfterCleanup(c)) ELSE GotoWith(c, "probe", PidInFile)
    /\ UNCHANGED <<pid_file, os, history>>

\* Faulty variant: status takes no notice of the process.
ProbeNotStatus(c) ==
    /\ command[c].at = "probe"
    /\ Goto(c, IF Alive(command[c].pid) /\ command[c].cmd # "status"
               THEN AfterCleanup(c) ELSE "unlink")
    /\ UNCHANGED <<pid_file, os, history>>

\* ... ask for the process, ...
Probe(c) ==
    /\ command[c].at = "probe"
    /\ Goto(c, IF Alive(command[c].pid) THEN AfterCleanup(c) ELSE "unlink")
    /\ UNCHANGED <<pid_file, os, history>>

\* ... and remove the file if there is none.
Unlink(c) ==
    /\ command[c].at = "unlink"
    /\ pid_file' = None
    /\ Goto(c, AfterCleanup(c))
    /\ UNCHANGED <<os, history>>

\* stop, restart and status read the file.
Read(c) ==
    /\ command[c].at = "read"
    /\ \/ /\ PidInFile # None
          /\ GotoWith(c, IF command[c].cmd = "status" THEN "probe" ELSE "kill", PidInFile)
       \/ /\ PidInFile = None /\ command[c].cmd = "restart"
          /\ GotoStart(c)
       \/ /\ PidInFile = None /\ command[c].cmd # "restart"
          /\ Goto(c, "idle")
    /\ UNCHANGED <<pid_file, os, history>>

\* stop removes the file also if there is no process to kill; restart leaves it
\* to start then.
Kill(c) ==
    /\ command[c].at = "kill"
    /\ \/ /\ Alive(command[c].pid)
          /\ Terminate(command[c].pid)
          /\ Goto(c, "remove")
       \/ /\ ~Alive(command[c].pid)
          /\ IF command[c].cmd = "stop" THEN Goto(c, "remove") ELSE GotoStart(c)
          /\ UNCHANGED os
    /\ UNCHANGED <<pid_file, history>>

Remove(c) ==
    /\ command[c].at = "remove"
    /\ pid_file' = None
    /\ Goto(c, IF command[c].cmd = "stop" THEN "idle" ELSE "wait")
    /\ UNCHANGED <<os, history>>

\* _STOP_TIMEOUT goes by while the process still runs.
TenSeconds(c) ==
    /\ command[c].at = "wait" /\ Alive(command[c].pid)
    /\ Goto(c, "overdue")
    /\ hasty' = TRUE
    /\ UNCHANGED <<pid_file, os, disturbed>>

\* Faulty variant: the process is not waited for.
WaitForStopNot(c) ==
    /\ command[c].at \in {"wait", "overdue"}
    /\ GotoStart(c)
    /\ UNCHANGED <<pid_file, os, history>>

\* _wait_for_stop returns once the process has ended or the time is up; restart
\* goes on in both cases, in the second one with a warning.
WaitForStop(c) ==
    /\ \/ command[c].at = "wait" /\ ~Alive(command[c].pid)
       \/ command[c].at = "overdue"
    /\ GotoStart(c)
    /\ UNCHANGED <<pid_file, os, history>>

\* Faulty variant: the file is not looked at.
CheckNot(c) ==
    /\ command[c].at = "check"
    /\ Goto(c, "spawn")
    /\ UNCHANGED <<pid_file, os, history>>

\* start refuses if there is a file, ...
Check(c) ==
    /\ command[c].at = "check"
    /\ Goto(c, IF pid_file # None THEN "idle" ELSE "spawn")
    /\ UNCHANGED <<pid_file, os, history>>

\* ... starts a process, ...
Popen(c) ==
    /\ command[c].at = "spawn"
    /\ Spawn
    /\ GotoWith(c, "open", spawned')
    /\ UNCHANGED <<pid_file, history>>

\* ... and writes the file, which is empty before.
OpenFile(c) ==
    /\ command[c].at = "open"
    /\ pid_file' = Blank
    /\ Goto(c, "write")
    /\ UNCHANGED <<os, history>>
WriteFile(c) ==
    /\ command[c].at = "write"
    /\ pid_file' = command[c].pid
    /\ Goto(c, "idle")
    /\ UNCHANGED <<os, history>>

CommandStep(c) ==
    /\ \/ Cleanup(c) \/ Probe(c) \/ Unlink(c) \/ Read(c) \/ Kill(c) \/ Remove(c)
       \/ TenSeconds(c) \/ WaitForStop(c) \/ Check(c) \/ Popen(c) \/ OpenFile(c) \/ WriteFile(c)
    /\ UNCHANGED <<database, request>>

\* Ctrl-C, or the shell ends.  That matters only to a start whose server runs
\* and is not in the file yet.
Interrupt(c) ==
    /\ command[c] # Idle
    /\ Goto(c, "idle")
    /\ disturbed' = (disturbed \/ command[c].at \in {"open", "write"})
    /\ UNCHANGED <<pid_file, os, database, request, hasty>>

\* serve and dev: a server in the foreground, without a PID file.
Serve ==
    /\ Spawn
    /\ disturbed' = TRUE
    /\ UNCHANGED <<pid_file, command, database, request, hasty>>

Next ==
    \/ \E c \in Callers : \/ \E cmd \in {"start", "stop", "restart", "status"} : Begin(c, cmd)
                          \/ CommandStep(c) \/ Interrupt(c)
    \/ \E p \in Pids : StartupStep(p) \/ Drain(p) \/ Exit(p) \/ Crash(p)
    \/ \E r \in Runs : Connect(r) \/ StreamEvent(r) \/ LoseEvent(r)
    \/ Serve

Spec == Init /\ [][Next]_vars

\* A process gets on with its startup; nothing is assumed of users or runs.
LiveSpec == Spec /\ \A p \in Pids : WF_vars(StartupStep(p))

-----------------------------------------------------------------------------
(* Properties *)

TypeOK ==
    /\ pid_file \in Pids \cup {Blank, None}
    /\ command \in [Callers -> [cmd : {"start", "stop", "restart", "status", None},
                                at : {"idle", "cleanup", "probe", "unlink", "read", "kill",
                                      "remove", "wait", "overdue", "check", "spawn", "open",
                                      "write"},
                                pid : Pids \cup {None}]]
    /\ spawned \in 0 .. MaxPids
    /\ DOMAIN procs \subseteq 1 .. spawned
    /\ \A p \in DOMAIN procs : procs[p] \in Process
    /\ failed \subseteq 1 .. spawned
    /\ columns \subseteq Columns
    /\ session \in [Runs -> [status : {"none", "in_progress", "completed", "interrupted"},
                             holder : Pids \cup {None}]]
    /\ request \in [Runs -> [event : {"start", "finish", "over"}, to : Pids \cup {None}]]
    /\ disturbed \in BOOLEAN /\ hasty \in BOOLEAN

\* Between two commands the PID file is never half-written, and every server
\* that runs and was not told to end is the one it names: none is out of reach
\* of stop, whatever crashed or did not end in time before.
PidFileNamesTheServer ==
    ~disturbed /\ (\A c \in Callers : command[c] = Idle) =>
        /\ pid_file # Blank
        /\ \A p \in DOMAIN procs : Told(p) \/ pid_file = p

\* Ingest assumes one server process.  The command line keeps to that, restart
\* included, if commands do not overlap, servers are started by it alone, and one
\* is not wanted before the last one has ended.
OneServerAtATime ==
    ~disturbed /\ ~hasty => Cardinality(DOMAIN procs) <= 1

\* Under the same conditions a server in service can finish every session that is
\* shown as in progress, and none of its own sessions is shown as interrupted,
\* over any number of crashes, stops and restarts.
SessionsFollowTheServer ==
    ~disturbed /\ ~hasty =>
        \A p \in Pids, r \in Runs : Serving(p) =>
            /\ session[r].status = "in_progress" => session[r].holder = p
            /\ session[r].status = "interrupted" => session[r].holder # p

\* A server that was started serves in the end, unless it is told to end or
\* crashes: its startup does not fail, and it gets the port.
StartedServersServe ==
    \A p \in Pids :
        (Alive(p) /\ ~disturbed /\ ~hasty)
        ~> (Serving(p) \/ (~Alive(p) /\ p \notin failed) \/ Told(p) \/ disturbed \/ hasty)

-----------------------------------------------------------------------------
(* Statements of the repository that the code does not keep *)

\* "Marked %d stale session(s) as INTERRUPTED" (main.py): what is marked is
\* stale, also when a server is started twice, and the second one finds the port
\* taken only after it has marked the sessions of the first.
MarkedSessionsAreStale ==
    [][\A r \in Runs :
          session[r].status # "interrupted" /\ session'[r].status = "interrupted" =>
              ~Alive(session[r].holder) \/ Told(session[r].holder)]_vars

\* "Server stopped" (cli.py): when stop says so, the process has ended.
StoppedServersAreGone ==
    [][\A c \in Callers :
          command[c].cmd = "stop" /\ Remove(c) => ~Alive(command[c].pid)]_vars

\* "Server started" (cli.py): a server that start has announced serves.
AnnouncedServersServe ==
    ~disturbed => \A p \in failed : pid_file # p
=============================================================================
