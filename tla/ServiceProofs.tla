--------------------------- MODULE ServiceProofs ---------------------------
(***************************************************************************)
(* Theorems about Service, for any number of shells, runs, columns and     *)
(* processes.                                                              *)
(***************************************************************************)
EXTENDS Service, FiniteSetTheorems, TLAPS

-----------------------------------------------------------------------------
(* The inductive invariants *)

Locations == {"cleanup", "probe", "unlink", "read", "kill", "remove", "wait", "overdue",
              "check", "spawn", "open", "write"}

\* Where each command may be.
StepsOf(cmd) ==
    CASE cmd = "start"   -> {"cleanup", "probe", "unlink", "check", "spawn", "open", "write"}
      [] cmd = "stop"    -> {"cleanup", "probe", "unlink", "read", "kill", "remove"}
      [] cmd = "restart" -> {"cleanup", "probe", "unlink", "read", "kill", "remove", "wait",
                              "overdue"}
      [] cmd = "status"  -> {"read", "probe", "unlink"}

\* What a command may be when the processes 1 to n have been started: a command
\* that is about a process knows which.
Commands(n) ==
    {Idle} \cup
    {k \in [cmd : {"start", "stop", "restart", "status"}, at : Locations,
            pid : (1 .. n) \cup {None}] :
        /\ k.at \in StepsOf(k.cmd)
        /\ k.at \in {"probe", "unlink", "kill", "remove", "wait", "open", "write"}
              => k.pid # None}

\* The process ids known anywhere are those of processes that were started.
IdsInv ==
    /\ spawned \in 0 .. MaxPids /\ DOMAIN procs \subseteq 1 .. spawned
    /\ \A p \in DOMAIN procs : procs[p] \in Process
    /\ failed \subseteq 1 .. spawned
    /\ pid_file \in (1 .. spawned) \cup {Blank, None}
    /\ command \in [Callers -> Commands(spawned)]
    /\ columns \subseteq Columns
    /\ session \in [Runs -> [status : {"none", "in_progress", "completed", "interrupted"},
                             holder : (1 .. spawned) \cup {None}]]
    /\ request \in [Runs -> [event : {"start", "finish", "over"},
                             to : (1 .. spawned) \cup {None}]]
    /\ disturbed \in BOOLEAN /\ hasty \in BOOLEAN

\* What the file and the processes are while the only command is k, or while there is
\* none and k is Idle: what k has read of the file is still there, and no server is
\* out of sight of both the file and k.
FileOK(k) ==
    /\ pid_file = Blank <=> k.at = "write"
    /\ \A p \in DOMAIN procs :
          Told(p) \/ pid_file = p \/ (k.at \in {"open", "write"} /\ k.pid = p)
    /\ k.at \in {"probe", "unlink", "kill", "remove"} => pid_file = k.pid
    /\ k.at \in {"wait", "spawn", "open"} => pid_file = None
    /\ k.at = "unlink" => ~Alive(k.pid)
    /\ k.at = "remove" /\ Alive(k.pid) => Told(k.pid)

FileInv ==
    ~disturbed =>
        /\ \A c, d \in Callers : command[c] # Idle /\ command[d] # Idle => c = d
        /\ \A c \in Callers : command[c] # Idle => FileOK(command[c])
        /\ (\A c \in Callers : command[c] = Idle) => FileOK(Idle)

\* As long as nobody is hasty either, no start meets a server that was told to
\* end, and a restart only the one it is waiting for.
AloneOK(k) ==
    /\ \A p, q \in DOMAIN procs : p = q
    /\ \A p \in DOMAIN procs : k # Idle /\ Told(p) =>
          /\ k.cmd # "start"
          /\ k.cmd = "restart" => k.at \in {"remove", "wait"} /\ k.pid = p

\* A restart that has given up waiting has made somebody hasty.
HastyInv == \A c \in Callers : command[c].at = "overdue" => hasty

AloneInv ==
    ~disturbed /\ ~hasty =>
        /\ \A c \in Callers : AloneOK(command[c])
        /\ \A p, q \in DOMAIN procs : p = q

\* Then the one server has all the sessions in progress from the time it has marked
\* those it found, and it has marked none of its own.
HoldersInv ==
    ~disturbed /\ ~hasty =>
        \A p \in DOMAIN procs, r \in Runs :
            /\ procs[p].at \in {"loading", "migrating", "marking", "binding"}
                  => session[r].holder # p
            /\ procs[p].at = "marking" /\ session[r].status = "in_progress"
                  => r \in procs[p].stale
            /\ procs[p].at = "binding" => session[r].status # "in_progress"
            /\ procs[p].at \in {"serving", "draining"} =>
                  /\ session[r].status = "in_progress" => session[r].holder = p
                  /\ session[r].status = "interrupted" => session[r].holder # p

-----------------------------------------------------------------------------
(* Type correctness *)

LEMMA CommandsGrow ==
    ASSUME NEW n \in Nat, NEW m \in Nat, n <= m
    PROVE  Commands(n) \subseteq Commands(m)
<1>1. 1 .. n \subseteq 1 .. m
  OBVIOUS
<1> QED
  BY <1>1 DEF Commands

LEMMA IdsType == IdsInv => TypeOK
<1> SUFFICES ASSUME IdsInv PROVE TypeOK
  OBVIOUS
<1>1. 1 .. spawned \subseteq Pids
  BY ServiceAssumption DEF IdsInv, Pids
<1>2. Commands(spawned) \subseteq
        [cmd : {"start", "stop", "restart", "status", None},
         at : {"idle", "cleanup", "probe", "unlink", "read", "kill",
               "remove", "wait", "overdue", "check", "spawn", "open", "write"},
         pid : Pids \cup {None}]
  BY <1>1 DEF Commands, Idle, Locations
<1> QED
  BY <1>1, <1>2 DEF IdsInv, TypeOK

LEMMA IdsInit == Init => IdsInv
<1> SUFFICES ASSUME Init PROVE IdsInv
  OBVIOUS
<1>1. command \in [Callers -> Commands(spawned)]
  BY DEF Init, Commands
<1>2. DOMAIN procs = {}
  BY DEF Init
<1>3. session \in [Runs -> [status : {"none", "in_progress", "completed", "interrupted"},
                           holder : (1 .. spawned) \cup {None}]]
  BY DEF Init
<1>4. request \in [Runs -> [event : {"start", "finish", "over"},
                           to : (1 .. spawned) \cup {None}]]
  BY DEF Init
<1>5. /\ spawned \in 0 .. MaxPids /\ failed = {} /\ pid_file = None /\ columns = {}
      /\ disturbed = FALSE /\ hasty = FALSE
  BY ServiceAssumption DEF Init
<1> QED
  BY <1>1, <1>2, <1>3, <1>4, <1>5 DEF IdsInv

\* What the operations of the operating system keep.
OsOK == /\ spawned \in 0 .. MaxPids /\ DOMAIN procs \subseteq 1 .. spawned
        /\ \A p \in DOMAIN procs : procs[p] \in Process
        /\ failed \subseteq 1 .. spawned

LEMMA SpawnOs == OsOK /\ Spawn => OsOK' /\ spawned' = spawned + 1
BY ServiceAssumption DEF OsOK, Spawn, Process

LEMMA EndOs ==
    ASSUME OsOK, NEW p \in DOMAIN procs, NEW bad, End(p, bad)
    PROVE  OsOK' /\ spawned' = spawned
BY DEF OsOK, End

LEMMA BecomeOs ==
    ASSUME OsOK, NEW p \in DOMAIN procs, Become(p, "serving") \/ Become(p, "draining")
    PROVE  OsOK' /\ spawned' = spawned
BY DEF OsOK, Become, Process

LEMMA TerminateOs ==
    ASSUME OsOK, NEW p \in DOMAIN procs, Terminate(p)
    PROVE  OsOK' /\ spawned' = spawned
<1>1. CASE End(p, FALSE)
  BY <1>1, EndOs
<1>2. CASE procs' = [procs EXCEPT ![p].told = TRUE] /\ UNCHANGED <<spawned, failed>>
  <2>1. [procs[p] EXCEPT !.told = TRUE] \in Process
    BY DEF OsOK, Process
  <2> QED
    BY <1>2, <2>1 DEF OsOK
<1> QED
  BY <1>1, <1>2 DEF Terminate

-----------------------------------------------------------------------------
(* The steps of processes and runs *)

\* What a process does by itself: it may end, and is told nothing.
ProcessStep(p) == StartupStep(p) \/ Drain(p) \/ Exit(p) \/ Crash(p)

LEMMA ProcessFrame ==
    ASSUME OsOK, NEW p, ProcessStep(p)
    PROVE  /\ UNCHANGED <<pid_file, command, spawned, request, disturbed, hasty>>
           /\ DOMAIN procs' \subseteq DOMAIN procs
           /\ \A q \in DOMAIN procs' : procs'[q].told = procs[q].told
<1> USE DEF history, database
<1>1. Alive(p) /\ procs[p] \in Process
  BY DEF ProcessStep, StartupStep, Drain, Serving, Exit, Crash, Alive, OsOK
<1>2. CASE StartupStep(p)
  <2>1. CASE ReadColumns(p) \/ ReadStale(p) \/ MarkStale(p)
    BY <1>1, <1>2, <2>1 DEF StartupStep, ReadColumns, ReadStale, MarkStale, Process
  <2>2. CASE AddColumn(p)
    BY <1>1, <1>2, <2>2 DEF StartupStep, AddColumn, End, Process
  <2>3. CASE Bind(p)
    BY <1>1, <1>2, <2>3 DEF StartupStep, Bind, End, Become, Process
  <2> QED
    BY <1>2, <2>1, <2>2, <2>3 DEF StartupStep
<1>3. CASE Drain(p)
  BY <1>1, <1>3 DEF Drain, Become, Process
<1>4. CASE Exit(p) \/ Crash(p)
  BY <1>4 DEF Exit, Crash, End
<1> QED
  BY <1>2, <1>3, <1>4 DEF ProcessStep

LEMMA ProcessOs ==
    ASSUME OsOK, columns \subseteq Columns, NEW p, ProcessStep(p)
    PROVE  OsOK' /\ columns' \subseteq Columns
<1>1. Alive(p)
  BY DEF ProcessStep, StartupStep, Drain, Serving, Exit, Crash
<1>2. CASE ReadColumns(p)
  BY <1>1, <1>2 DEF ReadColumns, OsOK, Process, database, Alive
<1>3. CASE AddColumn(p)
  <2>1. PICK c \in procs[p].todo :
           \/ End(p, TRUE) /\ UNCHANGED columns
           \/ /\ columns' = columns \cup {c}
              /\ procs' = [procs EXCEPT ![p].todo = @ \ {c}]
              /\ UNCHANGED <<spawned, failed>>
    BY <1>3 DEF AddColumn
  <2>2. CASE End(p, TRUE) /\ UNCHANGED columns
    BY <1>1, <2>2, EndOs DEF Alive
  <2>3. CASE /\ columns' = columns \cup {c}
             /\ procs' = [procs EXCEPT ![p].todo = @ \ {c}]
             /\ UNCHANGED <<spawned, failed>>
    <3>1. procs[p].todo \subseteq Columns /\ procs[p] \in Process
      BY <1>1 DEF OsOK, Process, Alive
    <3>2. [procs[p] EXCEPT !.todo = @ \ {c}] \in Process
      BY <3>1 DEF Process
    <3> QED
      BY <1>1, <2>3, <3>1, <3>2 DEF OsOK, Alive
  <2> QED
    BY <2>1, <2>2, <2>3
<1>4. CASE ReadStale(p)
  <2> DEFINE stale == {r \in Runs : session[r].status = "in_progress"}
  <2>1. /\ procs' = [procs EXCEPT ![p].at = "marking", ![p].stale = stale]
        /\ UNCHANGED <<spawned, failed, columns>>
    BY <1>4 DEF ReadStale, database
  <2>2. stale \in SUBSET Runs /\ procs[p] \in Process
    BY <1>1 DEF OsOK, Alive
  <2> HIDE DEF stale
  <2>3. DOMAIN procs' = DOMAIN procs /\ procs'[p] \in Process
    BY <1>1, <2>1, <2>2 DEF Process, Alive
  <2>4. \A q \in DOMAIN procs : q # p => procs'[q] = procs[q]
    BY <2>1
  <2> QED
    BY <2>1, <2>3, <2>4 DEF OsOK
<1>5. CASE MarkStale(p)
  BY <1>1, <1>5 DEF MarkStale, OsOK, Process, Alive
<1>6. CASE Bind(p)
  BY <1>1, <1>6, EndOs, BecomeOs DEF Bind, database, Alive
<1>7. CASE Drain(p) \/ Exit(p) \/ Crash(p)
  BY <1>1, <1>7, EndOs, BecomeOs DEF Drain, Exit, Crash, database, Alive
<1> QED
  BY <1>2, <1>3, <1>4, <1>5, <1>6, <1>7 DEF ProcessStep, StartupStep

\* A step that starts no process, leaves the commands alone and is not about
\* the file keeps IdsInv if it keeps the types of what it changes.
LEMMA IdsProcess ==
    ASSUME IdsInv, NEW p, ProcessStep(p)
    PROVE  IdsInv'
<1>1. OsOK /\ columns \subseteq Columns
  BY DEF IdsInv, OsOK
<1>2. OsOK' /\ columns' \subseteq Columns
  BY <1>1, ProcessOs
<1>3. UNCHANGED <<pid_file, command, spawned, request, disturbed, hasty>>
  BY <1>1, ProcessFrame
<1>4. session' \in [Runs -> [status : {"none", "in_progress", "completed", "interrupted"},
                             holder : (1 .. spawned) \cup {None}]]
  <2>1. CASE MarkStale(p)
    BY <2>1 DEF MarkStale, IdsInv
  <2>2. CASE UNCHANGED session
    BY <2>2 DEF IdsInv
  <2> QED
    BY <2>1, <2>2
    DEF ProcessStep, StartupStep, ReadColumns, AddColumn, ReadStale, Bind, Drain, Exit,
        Crash, database
<1> QED
  BY <1>2, <1>3, <1>4 DEF IdsInv, OsOK

LEMMA IdsRun ==
    ASSUME IdsInv, NEW r \in Runs, Connect(r) \/ StreamEvent(r) \/ LoseEvent(r)
    PROVE  IdsInv'
<1>1. UNCHANGED <<pid_file, command, procs, spawned, failed, columns, disturbed, hasty>>
  BY DEF Connect, StreamEvent, LoseEvent, os, history, database
<1>2. Advance(r) => request' \in [Runs -> [event : {"start", "finish", "over"},
                                           to : (1 .. spawned) \cup {None}]]
  BY DEF Advance, IdsInv
<1>3. CASE Connect(r)
  <2>1. PICK p \in DOMAIN procs : request' = [request EXCEPT ![r].to = p]
    BY <1>3 DEF Connect
  <2>2. p \in 1 .. spawned
    BY DEF IdsInv
  <2> QED
    BY <1>1, <1>3, <2>1, <2>2 DEF Connect, IdsInv, database
<1>4. CASE StreamEvent(r)
  <2>1. request[r].to \in 1 .. spawned
    BY <1>4 DEF StreamEvent, IdsInv
  <2>2. session' \in [Runs -> [status : {"none", "in_progress", "completed", "interrupted"},
                               holder : (1 .. spawned) \cup {None}]]
    BY <1>4, <2>1 DEF StreamEvent, IdsInv
  <2>3. Advance(r)
    BY <1>4 DEF StreamEvent
  <2> QED
    BY <1>1, <1>2, <2>2, <2>3 DEF IdsInv
<1>5. CASE LoseEvent(r)
  BY <1>1, <1>2, <1>5 DEF LoseEvent, IdsInv, database
<1> QED
  BY <1>3, <1>4, <1>5

-----------------------------------------------------------------------------
(* The steps of commands *)

\* command[c] becomes k.
Moves(c, k) == command' = [command EXCEPT ![c] = k]

At(c, at, pid) == [cmd |-> command[c].cmd, at |-> at, pid |-> pid]

LEMMA GotoMoves ==
    ASSUME NEW c \in Callers, NEW at, Goto(c, at)
    PROVE  /\ at = "idle" => Moves(c, Idle)
           /\ at \in {"check", "read"} => Moves(c, At(c, at, None))
           /\ at \notin {"idle", "check", "read"} => Moves(c, At(c, at, command[c].pid))
BY DEF Goto, GotoWith, Moves, At

LEMMA MoveIds ==
    ASSUME IdsInv, OsOK', spawned <= spawned', NEW c \in Callers,
           NEW k \in Commands(spawned'), Moves(c, k),
           pid_file' \in (1 .. spawned') \cup {Blank, None},
           UNCHANGED <<database, request>>, disturbed' \in BOOLEAN, hasty' \in BOOLEAN
    PROVE  IdsInv'
<1>1. spawned \in Nat /\ spawned' \in Nat
  BY ServiceAssumption DEF IdsInv, OsOK
<1>2. 1 .. spawned \subseteq 1 .. spawned'
  BY <1>1
<1>3. command' \in [Callers -> Commands(spawned')]
  BY <1>1, CommandsGrow DEF IdsInv, Moves
<1>4. /\ session' \in [Runs -> [status : {"none", "in_progress", "completed", "interrupted"},
                                holder : (1 .. spawned') \cup {None}]]
      /\ request' \in [Runs -> [event : {"start", "finish", "over"},
                                to : (1 .. spawned') \cup {None}]]
  BY <1>2 DEF IdsInv, database
<1> QED
  BY <1>3, <1>4 DEF IdsInv, OsOK, database

LEMMA AtCommands ==
    ASSUME IdsInv, NEW c \in Callers, command[c] # Idle,
           NEW at \in StepsOf(command[c].cmd), NEW pid \in (1 .. spawned) \cup {None},
           at \in {"probe", "unlink", "kill", "remove", "wait", "open", "write"} => pid # None
    PROVE  At(c, at, pid) \in Commands(spawned)
<1>1. command[c].cmd \in {"start", "stop", "restart", "status"}
  BY DEF IdsInv, Commands
<1>2. at \in Locations
  BY <1>1 DEF StepsOf, Locations
<1> QED
  BY <1>1, <1>2 DEF Commands, At

LEMMA CommandIs ==
    ASSUME IdsInv, NEW c \in Callers, command[c] # Idle
    PROVE  /\ command[c].cmd \in {"start", "stop", "restart", "status"}
           /\ command[c].at \in StepsOf(command[c].cmd)
           /\ command[c].pid \in (1 .. spawned) \cup {None}
           /\ command[c].at \in {"probe", "unlink", "kill", "remove", "wait", "open", "write"}
                 => command[c].pid # None
BY DEF IdsInv, Commands

LEMMA WhoIsThere ==
    ASSUME IdsInv, NEW c \in Callers, command[c] # Idle
    PROVE  /\ command[c].at \in {"check", "spawn", "open", "write"}
                 => command[c].cmd = "start"
           /\ command[c].at \in {"kill", "remove"} => command[c].cmd \in {"stop", "restart"}
           /\ command[c].at \in {"wait", "overdue"} => command[c].cmd = "restart"
           /\ command[c].at = "cleanup" => command[c].cmd \in {"start", "stop", "restart"}
           /\ command[c].at = "read" => command[c].cmd \in {"stop", "restart", "status"}
BY CommandIs DEF StepsOf

\* After the file was cleaned up, status ends, start checks, the others read.
LEMMA AfterCleanupIs ==
    ASSUME IdsInv, NEW c \in Callers, command[c] # Idle
    PROVE  /\ command[c].cmd = "status" => AfterCleanup(c) = "idle"
           /\ command[c].cmd = "start" => AfterCleanup(c) = "check"
           /\ command[c].cmd \in {"stop", "restart"} => AfterCleanup(c) = "read"
BY CommandIs DEF AfterCleanup

LEMMA NotIdle ==
    ASSUME NEW c, CommandStep(c)
    PROVE  command[c] # Idle
BY DEF CommandStep, Cleanup, Probe, Unlink, Read, Kill, Remove, TenSeconds, WaitForStop, Check, Popen,
       OpenFile, WriteFile, Idle

LEMMA GotoNext ==
    ASSUME IdsInv, NEW c \in Callers, command[c] # Idle, NEW at, Goto(c, at),
           \/ at = "idle"
           \/ /\ at \in StepsOf(command[c].cmd)
              /\ at \notin {"probe", "unlink", "kill", "remove", "wait", "open", "write"}
           \/ at \in StepsOf(command[c].cmd) /\ command[c].pid # None
    PROVE  \E k \in Commands(spawned) : Moves(c, k)
<1>1. CASE at = "idle"
  BY <1>1, GotoMoves DEF Commands
<1>2. CASE at # "idle"
  <2> DEFINE pid == IF at \in {"check", "read"} THEN None ELSE command[c].pid
  <2>1. pid \in (1 .. spawned) \cup {None}
    BY CommandIs
  <2>2. At(c, at, pid) \in Commands(spawned)
    BY <1>2, <2>1, AtCommands
  <2>3. Moves(c, At(c, at, pid))
    BY <1>2, GotoMoves
  <2> QED
    BY <2>2, <2>3
<1> QED
  BY <1>1, <1>2

LEMMA GotoStartNext ==
    ASSUME NEW c, GotoStart(c)
    PROVE  \E k \in Commands(spawned) : Moves(c, k)
<1>1. [cmd |-> "start", at |-> "cleanup", pid |-> None] \in Commands(spawned)
  BY DEF Commands, StepsOf, Locations
<1> QED
  BY <1>1 DEF GotoStart, Moves

\* The steps of a command that concern only itself and the file.
LEMMA IdsFileStep ==
    ASSUME IdsInv, NEW c \in Callers, NEW k \in Commands(spawned), Moves(c, k),
           UNCHANGED <<os, database, request, disturbed>>,
           pid_file' \in (1 .. spawned) \cup {Blank, None}, hasty' \in BOOLEAN
    PROVE  IdsInv'
<1>1. OsOK' /\ spawned' = spawned /\ disturbed' \in BOOLEAN
  BY DEF IdsInv, OsOK, os
<1>2. spawned <= spawned'
  BY <1>1 DEF OsOK
<1> QED
  BY <1>1, <1>2, MoveIds

LEMMA IdsCommand ==
    ASSUME IdsInv, NEW c \in Callers, CommandStep(c)
    PROVE  IdsInv'
<1> USE DEF history
<1>1. command[c] # Idle
  BY NotIdle
<1>2. /\ pid_file \in (1 .. spawned) \cup {Blank, None}
      /\ hasty \in BOOLEAN /\ disturbed \in BOOLEAN
      /\ UNCHANGED <<database, request>>
  BY DEF IdsInv, CommandStep
<1>3. CASE Cleanup(c)
  <2>1. CASE PidInFile = None
    <3>1. Goto(c, AfterCleanup(c)) /\ command[c].at = "cleanup"
      BY <1>3, <2>1 DEF Cleanup
    <3>2. AfterCleanup(c) \in StepsOf(command[c].cmd) /\ AfterCleanup(c) \in {"check", "read"}
      BY <1>1, <3>1, WhoIsThere, AfterCleanupIs DEF StepsOf
    <3>3. PICK k \in Commands(spawned) : Moves(c, k)
      BY <1>1, <3>1, <3>2, GotoNext
    <3> QED
      BY <1>2, <1>3, <3>3, IdsFileStep DEF Cleanup
  <2>2. CASE PidInFile # None
    <3>1. GotoWith(c, "probe", PidInFile) /\ command[c].at = "cleanup"
      BY <1>3, <2>2 DEF Cleanup
    <3>2. PidInFile \in 1 .. spawned
      BY <1>2, <2>2 DEF PidInFile
    <3>3. At(c, "probe", PidInFile) \in Commands(spawned)
      BY <1>1, <2>2, <3>1, <3>2, WhoIsThere, AtCommands DEF StepsOf
    <3>4. Moves(c, At(c, "probe", PidInFile))
      BY <3>1 DEF GotoWith, Moves, At
    <3> QED
      BY <1>2, <1>3, <3>3, <3>4, IdsFileStep DEF Cleanup
  <2> QED
    BY <2>1, <2>2
<1>4. CASE Probe(c)
  <2>1. AfterCleanup(c) = "idle" \/ AfterCleanup(c) \in StepsOf(command[c].cmd) \cap {"check", "read"}
    BY <1>1, CommandIs, AfterCleanupIs DEF StepsOf
  <2>2. "unlink" \in StepsOf(command[c].cmd) /\ command[c].pid # None
    BY <1>1, <1>4, CommandIs DEF StepsOf, Probe
  <2>3. PICK k \in Commands(spawned) : Moves(c, k)
    BY <1>1, <1>4, <2>1, <2>2, GotoNext DEF Probe
  <2> QED
    BY <1>2, <1>4, <2>3, IdsFileStep DEF Probe
<1>5. CASE Unlink(c)
  <2>1. AfterCleanup(c) = "idle" \/ AfterCleanup(c) \in StepsOf(command[c].cmd) \cap {"check", "read"}
    BY <1>1, CommandIs, AfterCleanupIs DEF StepsOf
  <2>2. PICK k \in Commands(spawned) : Moves(c, k)
    BY <1>1, <1>5, <2>1, GotoNext DEF Unlink
  <2> QED
    BY <1>2, <1>5, <2>2, IdsFileStep DEF Unlink
<1>6. CASE Read(c)
  <2>1. command[c].at = "read"
    BY <1>6 DEF Read
  <2>2. CASE PidInFile # None
    <3> DEFINE at == IF command[c].cmd = "status" THEN "probe" ELSE "kill"
    <3>1. GotoWith(c, at, PidInFile)
      BY <1>6, <2>2 DEF Read
    <3>2. PidInFile \in 1 .. spawned
      BY <1>2, <2>2 DEF PidInFile
    <3>3. at \in StepsOf(command[c].cmd)
      BY <1>1, <2>1, WhoIsThere DEF StepsOf
    <3>4. At(c, at, PidInFile) \in Commands(spawned)
      BY <1>1, <2>2, <3>2, <3>3, AtCommands
    <3>5. Moves(c, At(c, at, PidInFile))
      BY <3>1 DEF GotoWith, Moves, At
    <3> QED
      BY <1>2, <1>6, <3>4, <3>5, IdsFileStep DEF Read
  <2>3. CASE PidInFile = None
    <3>1. GotoStart(c) \/ Goto(c, "idle")
      BY <1>6, <2>3 DEF Read
    <3>2. PICK k \in Commands(spawned) : Moves(c, k)
      BY <1>1, <3>1, GotoNext, GotoStartNext
    <3> QED
      BY <1>2, <1>6, <3>2, IdsFileStep DEF Read
  <2> QED
    BY <2>2, <2>3

<1>7. CASE Kill(c)
  <2>1. command[c].at = "kill" /\ command[c].pid # None /\ command[c].pid \in 1 .. spawned
    BY <1>1, <1>7, CommandIs DEF Kill
  <2>2. CASE Alive(command[c].pid) /\ Terminate(command[c].pid) /\ Goto(c, "remove")
    <3>1. OsOK' /\ spawned' = spawned
      BY <2>2, TerminateOs DEF IdsInv, OsOK, Alive
    <3>2. "remove" \in StepsOf(command[c].cmd)
      BY <1>1, <2>1, WhoIsThere DEF StepsOf
    <3>3. PICK k \in Commands(spawned) : Moves(c, k)
      BY <1>1, <2>1, <2>2, <3>2, GotoNext
    <3>4. spawned <= spawned'
      BY <3>1 DEF OsOK
    <3> QED
      BY <1>2, <1>7, <3>1, <3>3, <3>4, MoveIds DEF Kill
  <2>3. CASE UNCHANGED os /\ Goto(c, "remove") /\ command[c].cmd = "stop"
    <3>1. PICK k \in Commands(spawned) : Moves(c, k)
      BY <1>1, <2>1, <2>3, GotoNext DEF StepsOf
    <3> QED
      BY <1>2, <1>7, <2>3, <3>1, IdsFileStep DEF Kill
  <2>4. CASE UNCHANGED os /\ GotoStart(c)
    <3>1. PICK k \in Commands(spawned) : Moves(c, k)
      BY <2>4, GotoStartNext
    <3> QED
      BY <1>2, <1>7, <2>4, <3>1, IdsFileStep DEF Kill
  <2> QED
    BY <1>7, <2>2, <2>3, <2>4 DEF Kill
<1>8. CASE Remove(c)
  <2>1. command[c].at = "remove" /\ command[c].pid # None
    BY <1>1, <1>8, CommandIs DEF Remove
  <2>2. command[c].cmd # "stop" => "wait" \in StepsOf(command[c].cmd)
    BY <1>1, <2>1, WhoIsThere DEF StepsOf
  <2>3. PICK k \in Commands(spawned) : Moves(c, k)
    BY <1>1, <1>8, <2>1, <2>2, GotoNext DEF Remove
  <2> QED
    BY <1>2, <1>8, <2>3, IdsFileStep DEF Remove
<1>9. CASE WaitForStop(c)
  <2>1. PICK k \in Commands(spawned) : Moves(c, k)
    BY <1>9, GotoStartNext DEF WaitForStop
  <2> QED
    BY <1>2, <1>9, <2>1, IdsFileStep DEF WaitForStop
<1>14. CASE TenSeconds(c)
  <2>1. command[c].at = "wait" /\ hasty' \in BOOLEAN
    BY <1>14 DEF TenSeconds
  <2>2. "overdue" \in StepsOf(command[c].cmd)
    BY <1>1, <2>1, WhoIsThere DEF StepsOf
  <2>3. PICK k \in Commands(spawned) : Moves(c, k)
    BY <1>1, <1>14, <2>2, GotoNext DEF TenSeconds
  <2> QED
    BY <1>2, <1>14, <2>1, <2>3, IdsFileStep DEF TenSeconds
<1>10. CASE Check(c)
  <2>1. "spawn" \in StepsOf(command[c].cmd)
    BY <1>1, <1>10, WhoIsThere DEF StepsOf, Check
  <2>2. PICK k \in Commands(spawned) : Moves(c, k)
    BY <1>1, <1>10, <2>1, GotoNext DEF Check
  <2> QED
    BY <1>2, <1>10, <2>2, IdsFileStep DEF Check
<1>11. CASE Popen(c)
  <2>1. OsOK' /\ spawned' = spawned + 1 /\ spawned \in Nat
    BY <1>11, SpawnOs, ServiceAssumption DEF IdsInv, OsOK, Popen
  <2>2. command[c].cmd = "start"
    BY <1>1, <1>11, WhoIsThere DEF Popen
  <2>3. At(c, "open", spawned') \in Commands(spawned')
    <3>1. spawned' # None
      BY <2>1, ServiceAssumption
    <3> QED
      BY <2>1, <2>2, <3>1 DEF Commands, At, StepsOf, Locations
  <2>4. Moves(c, At(c, "open", spawned'))
    BY <1>11 DEF Popen, GotoWith, Moves, At
  <2>5. spawned <= spawned' /\ pid_file' \in (1 .. spawned') \cup {Blank, None}
    BY <1>2, <1>11, <2>1 DEF Popen
  <2> QED
    BY <1>2, <1>11, <2>1, <2>3, <2>4, <2>5, MoveIds DEF Popen
<1>12. CASE OpenFile(c)
  <2>1. "write" \in StepsOf(command[c].cmd) /\ command[c].pid # None
    BY <1>1, <1>12, CommandIs, WhoIsThere DEF StepsOf, OpenFile
  <2>2. PICK k \in Commands(spawned) : Moves(c, k)
    BY <1>1, <1>12, <2>1, GotoNext DEF OpenFile
  <2> QED
    BY <1>2, <1>12, <2>2, IdsFileStep DEF OpenFile
<1>13. CASE WriteFile(c)
  <2>1. command[c].pid \in (1 .. spawned) \cup {None}
    BY <1>1, CommandIs
  <2>2. PICK k \in Commands(spawned) : Moves(c, k)
    BY <1>1, <1>13, GotoNext DEF WriteFile
  <2> QED
    BY <1>2, <1>13, <2>1, <2>2, IdsFileStep DEF WriteFile
<1> QED
  BY <1>3, <1>4, <1>5, <1>6, <1>7, <1>8, <1>9, <1>10, <1>11, <1>12, <1>13, <1>14
  DEF CommandStep

LEMMA IdsBegin ==
    ASSUME IdsInv, NEW c \in Callers, NEW cmd \in {"start", "stop", "restart", "status"},
           Begin(c, cmd)
    PROVE  IdsInv'
<1> DEFINE k == [cmd |-> cmd, pid |-> None,
                 at |-> IF cmd = "status" THEN "read" ELSE "cleanup"]
<1>1. Moves(c, k) /\ UNCHANGED <<pid_file, os, database, request>>
  BY DEF Begin, Moves
<1>2. k \in Commands(spawned)
  BY DEF Commands, StepsOf, Locations
<1>3. disturbed' \in BOOLEAN /\ hasty' \in BOOLEAN
  BY DEF Begin
<1>4. OsOK' /\ spawned' = spawned /\ spawned <= spawned'
  BY <1>1 DEF IdsInv, OsOK, os
<1>5. pid_file' \in (1 .. spawned') \cup {Blank, None}
  BY <1>1, <1>4 DEF IdsInv
<1> HIDE DEF k
<1> QED
  BY <1>1, <1>2, <1>3, <1>4, <1>5, MoveIds

LEMMA IdsInterrupt ==
    ASSUME IdsInv, NEW c \in Callers, Interrupt(c)
    PROVE  IdsInv'
<1>1. Moves(c, Idle) /\ Idle \in Commands(spawned)
  BY GotoMoves DEF Interrupt, Commands
<1>2. OsOK' /\ spawned' = spawned /\ spawned <= spawned'
  BY DEF IdsInv, OsOK, os, Interrupt
<1>3. pid_file' \in (1 .. spawned') \cup {Blank, None} /\ hasty' \in BOOLEAN
  BY <1>2 DEF IdsInv, Interrupt
<1>4. disturbed' \in BOOLEAN
  BY DEF Interrupt
<1> QED
  BY <1>1, <1>2, <1>3, <1>4, MoveIds DEF Interrupt

LEMMA IdsServe == IdsInv /\ Serve => IdsInv'
<1> SUFFICES ASSUME IdsInv, Serve PROVE IdsInv'
  OBVIOUS
<1>1. OsOK' /\ spawned' = spawned + 1 /\ spawned \in Nat
  BY SpawnOs, ServiceAssumption DEF Serve, IdsInv, OsOK
<1>2. 1 .. spawned \subseteq 1 .. spawned'
  BY <1>1
<1>3. command' \in [Callers -> Commands(spawned')]
  BY <1>1, CommandsGrow DEF Serve, IdsInv
<1>4. /\ session' \in [Runs -> [status : {"none", "in_progress", "completed", "interrupted"},
                                holder : (1 .. spawned') \cup {None}]]
      /\ request' \in [Runs -> [event : {"start", "finish", "over"},
                                to : (1 .. spawned') \cup {None}]]
  BY <1>2 DEF IdsInv, Serve, database
<1> QED
  BY <1>1, <1>2, <1>3, <1>4 DEF IdsInv, OsOK, Serve, database

LEMMA IdsNext == IdsInv /\ [Next]_vars => IdsInv'
<1> SUFFICES ASSUME IdsInv, [Next]_vars PROVE IdsInv'
  OBVIOUS
<1>1. CASE Next
  BY <1>1, IdsBegin, IdsCommand, IdsInterrupt, IdsProcess, IdsRun, IdsServe
  DEF Next, ProcessStep
<1>2. CASE UNCHANGED vars
  BY <1>2 DEF vars, os, database, history, IdsInv
<1> QED
  BY <1>1, <1>2

\* The variables keep their types, and no process id is ever known, to the file, a
\* command, a session or a run, that no process was given.
THEOREM TypeCorrect == Spec => []TypeOK
<1> QED
  BY IdsInit, IdsNext, IdsType, PTL DEF Spec

-----------------------------------------------------------------------------
(* The PID file *)

LEMMA FileInit == Init => FileInv
<1> SUFFICES ASSUME Init PROVE FileInv
  OBVIOUS
<1>1. DOMAIN procs = {} /\ pid_file = None /\ Blank # None
  BY ServiceAssumption DEF Init, Blank
<1>2. FileOK(Idle)
  BY <1>1 DEF FileOK, Idle
<1>3. \A c \in Callers : command[c] = Idle
  BY DEF Init
<1> QED
  BY <1>2, <1>3 DEF FileInv

\* Processes that end, or do what nobody told them, are no concern of the file.
LEMMA FileFrame ==
    ASSUME FileInv, UNCHANGED <<pid_file, command, disturbed>>,
           DOMAIN procs' \subseteq DOMAIN procs,
           \A q \in DOMAIN procs' : procs'[q].told = procs[q].told
    PROVE  FileInv'
<1>1. ASSUME NEW k, FileOK(k) PROVE FileOK(k)'
  BY <1>1 DEF FileOK, Told, Alive
<1> QED
  BY <1>1 DEF FileInv

\* The command of c goes on to k while nobody else is there.
LEMMA FileMove ==
    ASSUME IdsInv, FileInv, NEW c \in Callers, command[c] # Idle, NEW k, Moves(c, k),
           ~disturbed' => ~disturbed /\ FileOK(k)'
    PROVE  FileInv'
<1> SUFFICES ASSUME ~disturbed' PROVE FileInv'
  BY DEF FileInv
<1>1. ~disturbed /\ FileOK(k)'
  OBVIOUS
<1>2. \A d \in Callers : d # c => command[d] = Idle
  BY <1>1 DEF FileInv
<1>3. command'[c] = k /\ \A d \in Callers : d # c => command'[d] = Idle
  BY <1>2 DEF Moves, IdsInv
<1>4. \A d \in Callers : command'[d] # Idle => d = c /\ command'[d] = k
  BY <1>3
<1>5. (\A d \in Callers : command'[d] = Idle) => k = Idle
  BY <1>3
<1> QED
  BY <1>1, <1>4, <1>5 DEF FileInv

LEMMA GotoAt ==
    ASSUME NEW c \in Callers, NEW at, Goto(c, at)
    PROVE  \E k : /\ Moves(c, k) /\ k.at = at
                  /\ at = "idle" => k = Idle
                  /\ at # "idle" => k.cmd = command[c].cmd
                  /\ at \notin {"idle", "check", "read"} => k.pid = command[c].pid
<1>1. CASE at = "idle"
  <2>1. Moves(c, Idle) /\ Idle.at = at
    BY <1>1, GotoMoves DEF Idle
  <2> QED
    BY <1>1, <2>1
<1>2. CASE at \in {"check", "read"}
  <2>1. Moves(c, At(c, at, None)) /\ At(c, at, None).at = at
        /\ At(c, at, None).cmd = command[c].cmd
    BY <1>2, GotoMoves DEF At
  <2> QED
    BY <1>2, <2>1
<1>3. CASE at \notin {"idle", "check", "read"}
  <2>1. /\ Moves(c, At(c, at, command[c].pid)) /\ At(c, at, command[c].pid).at = at
        /\ At(c, at, command[c].pid).pid = command[c].pid
        /\ At(c, at, command[c].pid).cmd = command[c].cmd
    BY <1>3, GotoMoves DEF At
  <2> QED
    BY <1>3, <2>1
<1> QED
  BY <1>1, <1>2, <1>3

LEMMA GotoWithAt ==
    ASSUME NEW c \in Callers, NEW at, NEW pid, GotoWith(c, at, pid)
    PROVE  \E k : Moves(c, k) /\ k.at = at /\ k.pid = pid /\ k.cmd = command[c].cmd
<1>1. /\ Moves(c, At(c, at, pid)) /\ At(c, at, pid).at = at
      /\ At(c, at, pid).pid = pid /\ At(c, at, pid).cmd = command[c].cmd
  BY DEF GotoWith, Moves, At
<1> QED
  BY <1>1

LEMMA GotoStartAt ==
    ASSUME NEW c \in Callers, GotoStart(c)
    PROVE  \E k : Moves(c, k) /\ k.at = "cleanup" /\ k.cmd = "start"
<1> DEFINE k == [cmd |-> "start", at |-> "cleanup", pid |-> None]
<1>1. Moves(c, k) /\ k.at = "cleanup" /\ k.cmd = "start"
  BY DEF GotoStart, Moves
<1> HIDE DEF k
<1> QED
  BY <1>1

LEMMA FileCommand ==
    ASSUME IdsInv, FileInv, NEW c \in Callers, CommandStep(c)
    PROVE  FileInv'
<1> USE DEF history, os
<1>1. command[c] # Idle
  BY NotIdle
<1>2. CASE disturbed
  BY <1>2 DEF CommandStep, Cleanup, Probe, Unlink, Read, Kill, Remove, TenSeconds, WaitForStop, Check,
              Popen, OpenFile, WriteFile, FileInv
<1> SUFFICES ASSUME ~disturbed PROVE FileInv'
  BY <1>2
<1>3. FileOK(command[c])
  BY <1>1 DEF FileInv
<1>4. None # Blank /\ OsOK /\ pid_file \in (1 .. spawned) \cup {Blank, None}
  BY ServiceAssumption DEF Blank, IdsInv, OsOK
<1>5. AfterCleanup(c) \in {"idle", "check", "read"}
  BY <1>1, CommandIs, AfterCleanupIs
<1>6. Idle.at = "idle"
  BY DEF Idle
<1>7. CASE Cleanup(c)
  <2>1. command[c].at = "cleanup" /\ UNCHANGED <<pid_file, os, disturbed>>
    BY <1>7 DEF Cleanup
  <2>2. pid_file # Blank /\ PidInFile = pid_file
    BY <1>3, <2>1 DEF FileOK, PidInFile
  <2>3. CASE PidInFile = None
    <3>1. PICK k : Moves(c, k) /\ k.at \in {"idle", "check", "read"}
      BY <1>5, <1>7, <2>3, GotoAt DEF Cleanup
    <3>2. FileOK(k)'
      BY <1>3, <2>1, <2>2, <3>1 DEF FileOK, Told, Alive
    <3> QED
      BY <1>1, <2>1, <3>1, <3>2, FileMove
  <2>4. CASE PidInFile # None
    <3>1. PICK k : Moves(c, k) /\ k.at = "probe" /\ k.pid = pid_file
      BY <1>7, <2>2, <2>4, GotoWithAt DEF Cleanup
    <3>2. FileOK(k)'
      BY <1>3, <2>1, <2>2, <3>1 DEF FileOK, Told, Alive
    <3> QED
      BY <1>1, <2>1, <3>1, <3>2, FileMove
  <2> QED
    BY <2>3, <2>4
<1>8. CASE Probe(c)
  <2>1. command[c].at = "probe" /\ UNCHANGED <<pid_file, os, disturbed>>
    BY <1>8 DEF Probe
  <2>2. PICK k : /\ Moves(c, k)
                 /\ \/ k.at \in {"idle", "check", "read"}
                    \/ k.at = "unlink" /\ k.pid = command[c].pid /\ ~Alive(k.pid)
    BY <1>5, <1>8, GotoAt DEF Probe
  <2>3. FileOK(k)'
    BY <1>3, <1>4, <2>1, <2>2 DEF FileOK, Told, Alive
  <2> QED
    BY <1>1, <2>1, <2>2, <2>3, FileMove
<1>9. CASE Unlink(c)
  <2>1. command[c].at = "unlink" /\ pid_file' = None /\ UNCHANGED <<os, disturbed>>
    BY <1>9 DEF Unlink
  <2>2. PICK k : Moves(c, k) /\ k.at \in {"idle", "check", "read"}
    BY <1>5, <1>9, GotoAt DEF Unlink
  <2>3. FileOK(k)'
    BY <1>3, <1>4, <2>1, <2>2 DEF FileOK, Told, Alive
  <2> QED
    BY <1>1, <2>1, <2>2, <2>3, FileMove
<1>10. CASE Read(c)
  <2>1. command[c].at = "read" /\ UNCHANGED <<pid_file, os, disturbed>>
    BY <1>10 DEF Read
  <2>2. pid_file # Blank /\ PidInFile = pid_file
    BY <1>3, <2>1 DEF FileOK, PidInFile
  <2>3. PICK k : /\ Moves(c, k)
                 /\ \/ k.at \in {"probe", "kill"} /\ k.pid = pid_file
                    \/ k.at \in {"idle", "cleanup"}
    BY <1>10, <2>2, GotoAt, GotoWithAt, GotoStartAt DEF Read
  <2>4. FileOK(k)'
    BY <1>3, <2>1, <2>2, <2>3 DEF FileOK, Told, Alive
  <2> QED
    BY <1>1, <2>1, <2>3, <2>4, FileMove
<1>11. CASE Kill(c)
  <2>1. command[c].at = "kill" /\ UNCHANGED <<pid_file, disturbed>>
    BY <1>11 DEF Kill
  <2>2. /\ pid_file = command[c].pid /\ pid_file # Blank
        /\ \A p \in DOMAIN procs : Told(p) \/ pid_file = p
    BY <1>3, <2>1 DEF FileOK
  <2>3. CASE Alive(command[c].pid)
    <3>1. PICK k : Moves(c, k) /\ k.at = "remove" /\ k.pid = command[c].pid
      BY <1>11, <2>3, GotoAt DEF Kill
    <3>2. /\ Terminate(pid_file) /\ pid_file \in DOMAIN procs /\ procs[pid_file] \in Process
      BY <1>4, <1>11, <2>2, <2>3 DEF Kill, Alive, OsOK
    <3>3. /\ DOMAIN procs' \subseteq DOMAIN procs
          /\ \A p \in DOMAIN procs' : p # pid_file => procs'[p] = procs[p]
          /\ pid_file \in DOMAIN procs' => procs'[pid_file].told
      BY <3>2 DEF Terminate, End, Process
    <3>4. FileOK(k)'
      BY <2>1, <2>2, <3>1, <3>3 DEF FileOK, Told, Alive
    <3> QED
      BY <1>1, <2>1, <3>1, <3>4, FileMove
  <2>4. CASE ~Alive(command[c].pid)
    <3>1. PICK k : /\ Moves(c, k)
                   /\ \/ k.at = "remove" /\ k.pid = command[c].pid
                      \/ k.at = "cleanup"
      BY <1>11, <2>4, GotoAt, GotoStartAt DEF Kill
    <3>2. UNCHANGED procs
      BY <1>11, <2>4 DEF Kill
    <3>3. FileOK(k)'
      BY <2>1, <2>2, <2>4, <3>1, <3>2 DEF FileOK, Told, Alive
    <3> QED
      BY <1>1, <2>1, <3>1, <3>3, FileMove
  <2> QED
    BY <2>3, <2>4
<1>12. CASE Remove(c)
  <2>1. command[c].at = "remove" /\ pid_file' = None /\ UNCHANGED <<os, disturbed>>
    BY <1>12 DEF Remove
  <2>2. PICK k : Moves(c, k) /\ k.at \in {"idle", "wait"}
    BY <1>12, GotoAt DEF Remove
  <2>3. FileOK(k)'
    BY <1>3, <1>4, <2>1, <2>2 DEF FileOK, Told, Alive
  <2> QED
    BY <1>1, <2>1, <2>2, <2>3, FileMove
<1>18. CASE TenSeconds(c)
  <2>1. command[c].at = "wait" /\ UNCHANGED <<pid_file, os, disturbed>>
    BY <1>18 DEF TenSeconds
  <2>2. PICK k : Moves(c, k) /\ k.at = "overdue"
    BY <1>18, GotoAt DEF TenSeconds
  <2>3. FileOK(k)'
    BY <1>3, <1>4, <2>1, <2>2 DEF FileOK, Told, Alive
  <2> QED
    BY <1>1, <2>1, <2>2, <2>3, FileMove
<1>13. CASE WaitForStop(c)
  <2>1. command[c].at \in {"wait", "overdue"} /\ UNCHANGED <<pid_file, os, disturbed>>
    BY <1>13 DEF WaitForStop
  <2>2. PICK k : Moves(c, k) /\ k.at = "cleanup"
    BY <1>13, GotoStartAt DEF WaitForStop
  <2>3. FileOK(k)'
    BY <1>3, <1>4, <2>1, <2>2 DEF FileOK, Told, Alive
  <2> QED
    BY <1>1, <2>1, <2>2, <2>3, FileMove
<1>14. CASE Check(c)
  <2>1. command[c].at = "check" /\ UNCHANGED <<pid_file, os, disturbed>>
    BY <1>14 DEF Check
  <2>2. PICK k : Moves(c, k) /\ (k.at = "idle" \/ (k.at = "spawn" /\ pid_file = None))
    BY <1>14, GotoAt DEF Check
  <2>3. FileOK(k)'
    BY <1>3, <1>4, <2>1, <2>2 DEF FileOK, Told, Alive
  <2> QED
    BY <1>1, <2>1, <2>2, <2>3, FileMove
<1>15. CASE Popen(c)
  <2>1. command[c].at = "spawn" /\ UNCHANGED <<pid_file, disturbed>>
    BY <1>15 DEF Popen
  <2>2. PICK k : Moves(c, k) /\ k.at = "open" /\ k.pid = spawned'
    BY <1>15, GotoWithAt DEF Popen
  <2>3. /\ DOMAIN procs' = DOMAIN procs \cup {spawned'} /\ spawned' \notin DOMAIN procs
        /\ \A p \in DOMAIN procs : procs'[p] = procs[p]
    BY <1>4, <1>15 DEF Popen, Spawn, OsOK
  <2>4. FileOK(k)'
    BY <1>3, <1>4, <2>1, <2>2, <2>3 DEF FileOK, Told, Alive
  <2> QED
    BY <1>1, <2>1, <2>2, <2>4, FileMove
<1>16. CASE OpenFile(c)
  <2>1. command[c].at = "open" /\ pid_file' = Blank /\ UNCHANGED <<os, disturbed>>
    BY <1>16 DEF OpenFile
  <2>2. PICK k : Moves(c, k) /\ k.at = "write" /\ k.pid = command[c].pid
    BY <1>16, GotoAt DEF OpenFile
  <2>3. \A p \in DOMAIN procs : Told(p) \/ command[c].pid = p
    <3>1. pid_file = None /\ \A p \in DOMAIN procs : p # None
      BY <1>3, <1>4, <2>1, ServiceAssumption DEF FileOK, OsOK
    <3> QED
      BY <1>3, <3>1 DEF FileOK
  <2>4. FileOK(k)'
    BY <2>1, <2>2, <2>3 DEF FileOK, Told, Alive
  <2> QED
    BY <1>1, <2>1, <2>2, <2>4, FileMove
<1>17. CASE WriteFile(c)
  <2>1. command[c].at = "write" /\ pid_file' = command[c].pid /\ UNCHANGED <<os, disturbed>>
    BY <1>17 DEF WriteFile
  <2>2. PICK k : Moves(c, k) /\ k.at = "idle"
    BY <1>17, GotoAt DEF WriteFile
  <2>3. command[c].pid \in 1 .. spawned /\ command[c].pid # Blank
    BY <1>1, <1>4, <2>1, CommandIs DEF Blank, OsOK
  <2>4. \A p \in DOMAIN procs : Told(p) \/ command[c].pid = p
    <3>1. pid_file = Blank /\ \A p \in DOMAIN procs : p # Blank
      BY <1>3, <1>4, <2>1 DEF FileOK, OsOK, Blank
    <3> QED
      BY <1>3, <3>1 DEF FileOK
  <2>5. FileOK(k)'
    BY <2>1, <2>2, <2>3, <2>4 DEF FileOK, Told, Alive
  <2> QED
    BY <1>1, <2>1, <2>2, <2>5, FileMove
<1> QED
  BY <1>7, <1>8, <1>9, <1>10, <1>11, <1>12, <1>13, <1>14, <1>15, <1>16, <1>17, <1>18
  DEF CommandStep

LEMMA FileBegin ==
    ASSUME IdsInv, FileInv, NEW c \in Callers,
           NEW cmd \in {"start", "stop", "restart", "status"}, Begin(c, cmd)
    PROVE  FileInv'
<1> SUFFICES ASSUME ~disturbed' PROVE FileInv'
  BY DEF FileInv
<1>1. ~disturbed /\ \A d \in Callers : command[d] = Idle
  BY DEF Begin
<1>2. FileOK(Idle)
  BY <1>1 DEF FileInv
<1> DEFINE k == [cmd |-> cmd, pid |-> None,
                 at |-> IF cmd = "status" THEN "read" ELSE "cleanup"]
<1>3. Moves(c, k) /\ k.at \in {"read", "cleanup"} /\ UNCHANGED <<pid_file, procs>>
  BY DEF Begin, Moves, os
<1> HIDE DEF k
<1>4. FileOK(k)'
  BY <1>2, <1>3 DEF FileOK, Idle, Told, Alive
<1>5. command'[c] = k /\ \A d \in Callers : d # c => command'[d] = Idle
  BY <1>1, <1>3 DEF Moves, IdsInv
<1>6. k # Idle
  BY <1>3 DEF Idle
<1>7. \A d \in Callers : command'[d] # Idle => d = c /\ command'[d] = k
  BY <1>5
<1>8. ~ \A d \in Callers : command'[d] = Idle
  BY <1>5, <1>6
<1> QED
  BY <1>4, <1>7, <1>8 DEF FileInv

LEMMA FileInterrupt ==
    ASSUME IdsInv, FileInv, NEW c \in Callers, Interrupt(c)
    PROVE  FileInv'
<1>1. Moves(c, Idle) /\ command[c] # Idle /\ UNCHANGED <<pid_file, procs>>
  BY GotoMoves DEF Interrupt, os
<1>2. ASSUME ~disturbed' PROVE ~disturbed /\ FileOK(Idle)'
  <2>1. ~disturbed /\ command[c].at \notin {"open", "write"}
    BY <1>2 DEF Interrupt
  <2>2. FileOK(command[c])
    BY <1>1, <2>1 DEF FileInv
  <2> QED
    BY <1>1, <2>1, <2>2 DEF FileOK, Idle, Told, Alive
<1> QED
  BY <1>1, <1>2, FileMove

LEMMA FileNext == IdsInv /\ FileInv /\ [Next]_vars => FileInv'
<1> SUFFICES ASSUME IdsInv, FileInv, [Next]_vars PROVE FileInv'
  OBVIOUS
<1>1. ASSUME NEW p, ProcessStep(p) PROVE FileInv'
  <2>1. OsOK
    BY DEF IdsInv, OsOK
  <2> QED
    BY <1>1, <2>1, ProcessFrame, FileFrame
<1>2. ASSUME NEW r \in Runs, Connect(r) \/ StreamEvent(r) \/ LoseEvent(r) PROVE FileInv'
  <2>1. UNCHANGED <<pid_file, command, disturbed, procs>>
    BY <1>2 DEF Connect, StreamEvent, LoseEvent, os, history
  <2> QED
    BY <2>1, FileFrame
<1>3. CASE Serve
  BY <1>3 DEF Serve, FileInv
<1>4. CASE UNCHANGED vars
  <2>1. UNCHANGED <<pid_file, command, disturbed, procs>>
    BY <1>4 DEF vars, os, history
  <2> QED
    BY <2>1, FileFrame
<1> QED
  BY <1>1, <1>2, <1>3, <1>4, FileBegin, FileCommand, FileInterrupt DEF Next, ProcessStep

\* Whatever crashes, ends late or fails to start, and in whatever order: as long as
\* commands do not overlap, no start is cut off before it has written the file, and
\* nobody serves without it, no server is out of the reach of stop.
THEOREM PidFileTheorem == Spec => []PidFileNamesTheServer
<1>1. FileInv => PidFileNamesTheServer
  BY DEF FileInv, FileOK, Idle, PidFileNamesTheServer
<1> QED
  BY <1>1, IdsInit, IdsNext, FileInit, FileNext, PTL DEF Spec

-----------------------------------------------------------------------------
(* One server *)

LEMMA AloneInit == Init => AloneInv
BY DEF Init, AloneInv, AloneOK, Idle

LEMMA AloneFrame ==
    ASSUME AloneInv, UNCHANGED <<command, disturbed, hasty>>,
           DOMAIN procs' \subseteq DOMAIN procs,
           \A q \in DOMAIN procs' : procs'[q].told = procs[q].told
    PROVE  AloneInv'
<1>1. ASSUME NEW k, AloneOK(k) PROVE AloneOK(k)'
  BY <1>1 DEF AloneOK, Told, Alive
<1> QED
  BY <1>1 DEF AloneInv

\* The command of c goes on to k while nobody else is there.
LEMMA AloneMove ==
    ASSUME IdsInv, FileInv, AloneInv, NEW c \in Callers, command[c] # Idle,
           NEW k, Moves(c, k),
           ~disturbed' /\ ~hasty' => ~disturbed /\ AloneOK(k)'
    PROVE  AloneInv'
<1> SUFFICES ASSUME ~disturbed', ~hasty' PROVE AloneInv'
  BY DEF AloneInv
<1>1. \A d \in Callers : d # c => command[d] = Idle
  BY DEF FileInv
<1>2. command'[c] = k /\ \A d \in Callers : d # c => command'[d] = Idle
  BY <1>1 DEF Moves, IdsInv
<1>3. (\A p, q \in DOMAIN procs : p = q)'
  BY DEF AloneOK
<1>4. AloneOK(Idle)'
  BY <1>3 DEF AloneOK
<1>5. \A d \in Callers : AloneOK(command[d])'
  <2> SUFFICES ASSUME NEW d \in Callers PROVE AloneOK(command[d])'
    OBVIOUS
  <2>1. CASE d = c
    BY <1>2, <2>1 DEF AloneOK
  <2>2. CASE d # c
    BY <1>2, <1>3, <2>2 DEF AloneOK
  <2> QED
    BY <2>1, <2>2
<1> QED
  BY <1>3, <1>5 DEF AloneInv

LEMMA HastyInit == Init => HastyInv
BY DEF Init, HastyInv, Idle

\* A command moves to where its step says.
LEMMA HastyMove ==
    ASSUME HastyInv, NEW c \in Callers, NEW k, Moves(c, k), hasty => hasty',
           k.at = "overdue" => hasty'
    PROVE  HastyInv'
BY DEF HastyInv, Moves

LEMMA HastyCommand ==
    ASSUME IdsInv, HastyInv, NEW c \in Callers, CommandStep(c)
    PROVE  HastyInv'
<1> USE DEF history
<1>1. hasty => hasty'
  BY DEF CommandStep, Cleanup, Probe, Unlink, Read, Kill, Remove, TenSeconds, WaitForStop,
         Check, Popen, OpenFile, WriteFile
<1>2. AfterCleanup(c) # "overdue"
  BY NotIdle, CommandIs, AfterCleanupIs
<1>3. ASSUME NEW at, Goto(c, at), at = "overdue" => hasty' PROVE HastyInv'
  BY <1>1, <1>3, GotoAt, HastyMove
<1>4. ASSUME NEW at, NEW pid, GotoWith(c, at, pid), at # "overdue" PROVE HastyInv'
  BY <1>1, <1>4, GotoWithAt, HastyMove
<1>5. ASSUME GotoStart(c) PROVE HastyInv'
  BY <1>1, <1>5, GotoStartAt, HastyMove
<1>6. CASE Cleanup(c) \/ Probe(c) \/ Unlink(c)
  BY <1>2, <1>3, <1>4, <1>6 DEF Cleanup, Probe, Unlink
<1>7. CASE Read(c) \/ Kill(c) \/ Remove(c)
  BY <1>3, <1>4, <1>5, <1>7 DEF Read, Kill, Remove
<1>8. CASE TenSeconds(c) \/ WaitForStop(c)
  BY <1>3, <1>5, <1>8 DEF TenSeconds, WaitForStop
<1>9. CASE Check(c) \/ Popen(c) \/ OpenFile(c) \/ WriteFile(c)
  BY <1>3, <1>4, <1>9 DEF Check, Popen, OpenFile, WriteFile
<1> QED
  BY <1>6, <1>7, <1>8, <1>9 DEF CommandStep

LEMMA HastyNext == IdsInv /\ HastyInv /\ [Next]_vars => HastyInv'
<1> SUFFICES ASSUME IdsInv, HastyInv, [Next]_vars PROVE HastyInv'
  OBVIOUS
<1>1. ASSUME NEW c \in Callers, NEW cmd, Begin(c, cmd) PROVE HastyInv'
  <2> DEFINE k == [cmd |-> cmd, pid |-> None,
                   at |-> IF cmd = "status" THEN "read" ELSE "cleanup"]
  <2>1. Moves(c, k) /\ k.at # "overdue"
    BY <1>1 DEF Begin, Moves
  <2> HIDE DEF k
  <2> QED
    BY <1>1, <2>1, HastyMove DEF Begin
<1>2. ASSUME NEW c \in Callers, Interrupt(c) PROVE HastyInv'
  BY <1>2, GotoAt, HastyMove DEF Interrupt
<1>3. ASSUME UNCHANGED <<command, hasty>> PROVE HastyInv'
  BY <1>3 DEF HastyInv
<1>4. ASSUME NEW p \in Pids, ProcessStep(p) PROVE HastyInv'
  BY <1>3, <1>4 DEF ProcessStep, StartupStep, Drain, Exit, Crash, history
<1>5. ASSUME NEW r \in Runs, Connect(r) \/ StreamEvent(r) \/ LoseEvent(r) PROVE HastyInv'
  BY <1>3, <1>5 DEF Connect, StreamEvent, LoseEvent, history
<1>6. CASE Serve \/ UNCHANGED vars
  BY <1>3, <1>6 DEF Serve, vars, history
<1> QED
  BY <1>1, <1>2, <1>4, <1>5, <1>6, HastyCommand DEF Next, ProcessStep

\* A start, or a restart that has not killed yet, meets no server that was told to
\* end, and nor does what it does next.
LEMMA AloneStay ==
    ASSUME AloneInv, ~disturbed, ~hasty, NEW c \in Callers, command[c] # Idle,
           command[c].at \notin {"remove", "wait"}, NEW k,
           k = Idle \/ (k.cmd \in {"start", "restart"}
                        => command[c].cmd \in {"start", "restart"}),
           UNCHANGED procs
    PROVE  AloneOK(k)'
<1>1. AloneOK(command[c])
  BY DEF AloneInv
<1>2. command[c].cmd \in {"start", "restart"} => \A p \in DOMAIN procs : ~Told(p)
  BY <1>1 DEF AloneOK
<1> QED
  BY <1>1, <1>2 DEF AloneOK, Told, Alive

LEMMA AloneCommand ==
    ASSUME IdsInv, FileInv, HastyInv, AloneInv, NEW c \in Callers, CommandStep(c)
    PROVE  AloneInv'
<1> USE DEF history, os
<1>1. command[c] # Idle
  BY NotIdle
<1>2. (disturbed' => disturbed) /\ (disturbed => disturbed') /\ (hasty => hasty')
  BY DEF CommandStep, Cleanup, Probe, Unlink, Read, Kill, Remove, TenSeconds, WaitForStop, Check,
         Popen, OpenFile, WriteFile, IdsInv
<1> SUFFICES ASSUME ~disturbed, ~hasty, ~disturbed', ~hasty' PROVE AloneInv'
  BY <1>2 DEF AloneInv
<1>3. FileOK(command[c]) /\ AloneOK(command[c]) /\ OsOK
  BY <1>1 DEF FileInv, AloneInv, IdsInv, OsOK
<1>4. CASE \/ Cleanup(c) \/ Probe(c) \/ Unlink(c) \/ Check(c) \/ OpenFile(c) \/ WriteFile(c)
  <2>1. UNCHANGED procs /\ command[c].at \notin {"remove", "wait"}
    BY <1>4 DEF Cleanup, Probe, Unlink, Check, OpenFile, WriteFile
  <2>2. (\E at : Goto(c, at)) \/ GotoWith(c, "probe", PidInFile)
    BY <1>4 DEF Cleanup, Probe, Unlink, Check, OpenFile, WriteFile
  <2>3. PICK k : Moves(c, k) /\ (k = Idle \/ k.cmd = command[c].cmd)
    BY <2>2, GotoAt, GotoWithAt
  <2>4. AloneOK(k)'
    BY <1>1, <2>1, <2>3, AloneStay
  <2> QED
    BY <1>1, <2>3, <2>4, AloneMove
<1>5. CASE Read(c)
  <2>1. UNCHANGED procs /\ command[c].at \notin {"remove", "wait"}
    BY <1>5 DEF Read
  <2>2. PICK k : /\ Moves(c, k)
                 /\ \/ k = Idle \/ k.cmd = command[c].cmd
                    \/ k.cmd = "start" /\ command[c].cmd = "restart"
    BY <1>5, GotoAt, GotoWithAt, GotoStartAt DEF Read
  <2>3. AloneOK(k)'
    BY <1>1, <2>1, <2>2, AloneStay
  <2> QED
    BY <1>1, <2>2, <2>3, AloneMove
<1>6. CASE Kill(c)
  <2>1. command[c].at = "kill" /\ pid_file = command[c].pid
    BY <1>3, <1>6 DEF Kill, FileOK
  <2>2. CASE Alive(command[c].pid)
    <3>1. PICK k : /\ Moves(c, k) /\ k.at = "remove" /\ k.pid = command[c].pid
                   /\ k.cmd = command[c].cmd
      BY <1>6, <2>2, GotoAt DEF Kill
    <3>2. Terminate(command[c].pid) /\ command[c].pid \in DOMAIN procs
      BY <1>6, <2>2 DEF Kill, Alive
    <3>3. /\ DOMAIN procs' \subseteq DOMAIN procs
          /\ \A p \in DOMAIN procs : p = command[c].pid
      BY <1>3, <3>2 DEF Terminate, End, AloneOK
    <3>4. command[c].cmd # "start"
      BY <1>1, <2>1, WhoIsThere
    <3>5. AloneOK(k)'
      BY <3>1, <3>3, <3>4 DEF AloneOK, Told, Alive
    <3> QED
      BY <1>1, <3>1, <3>5, AloneMove
  <2>3. CASE ~Alive(command[c].pid)
    <3>1. PICK k : /\ Moves(c, k)
                   /\ \/ k = Idle \/ k.cmd = command[c].cmd
                      \/ k.cmd = "start" /\ command[c].cmd # "stop"
      BY <1>6, <2>3, GotoAt, GotoStartAt DEF Kill
    <3>2. command[c].cmd \in {"stop", "restart"} /\ UNCHANGED procs
      BY <1>1, <1>6, <2>1, <2>3, WhoIsThere DEF Kill
    <3>3. AloneOK(k)'
      BY <1>1, <2>1, <3>1, <3>2, AloneStay
    <3> QED
      BY <1>1, <3>1, <3>3, AloneMove
  <2> QED
    BY <2>2, <2>3
<1>7. CASE Remove(c)
  <2>1. command[c].at = "remove" /\ UNCHANGED procs
    BY <1>7 DEF Remove
  <2>2. PICK k : /\ Moves(c, k)
                 /\ \/ k = Idle
                    \/ k.at = "wait" /\ k.cmd = command[c].cmd /\ k.pid = command[c].pid
    BY <1>7, GotoAt DEF Remove
  <2>3. AloneOK(k)'
    BY <1>1, <1>3, <2>1, <2>2 DEF AloneOK, Told, Alive
  <2> QED
    BY <1>1, <2>2, <2>3, AloneMove
<1>10. CASE TenSeconds(c)
  BY <1>10 DEF TenSeconds
<1>8. CASE WaitForStop(c)
  <2>1. command[c].at = "wait" /\ UNCHANGED procs /\ ~Alive(command[c].pid)
    BY <1>8 DEF WaitForStop, HastyInv
  <2>2. command[c].cmd = "restart"
    BY <1>1, <2>1, WhoIsThere
  <2>3. \A p \in DOMAIN procs : ~Told(p)
    BY <1>1, <1>3, <2>1, <2>2 DEF AloneOK, Alive
  <2>4. PICK k : Moves(c, k)
    BY <1>8, GotoStartAt DEF WaitForStop
  <2>5. AloneOK(k)'
    BY <1>3, <2>1, <2>3 DEF AloneOK, Told, Alive
  <2> QED
    BY <1>1, <2>4, <2>5, AloneMove
<1>9. CASE Popen(c)
  <2>1. command[c].at = "spawn" /\ command[c].cmd = "start"
    BY <1>1, <1>9, WhoIsThere DEF Popen
  <2>2. \A p \in DOMAIN procs : Told(p)
    <3>1. pid_file = None /\ \A p \in DOMAIN procs : p # None
      BY <1>3, <2>1, ServiceAssumption DEF FileOK, OsOK
    <3> QED
      BY <1>3, <2>1, <3>1 DEF FileOK
  <2>3. DOMAIN procs = {}
    BY <1>1, <1>3, <2>1, <2>2 DEF AloneOK
  <2>4. DOMAIN procs' = {spawned'} /\ ~procs'[spawned'].told
    BY <1>9, <2>3 DEF Popen, Spawn
  <2>5. PICK k : Moves(c, k)
    BY <1>9, GotoWithAt DEF Popen
  <2>6. AloneOK(k)'
    BY <2>4 DEF AloneOK, Told, Alive
  <2> QED
    BY <1>1, <2>5, <2>6, AloneMove
<1> QED
  BY <1>4, <1>5, <1>6, <1>7, <1>8, <1>9, <1>10 DEF CommandStep

LEMMA AloneBegin ==
    ASSUME IdsInv, FileInv, AloneInv, NEW c \in Callers,
           NEW cmd \in {"start", "stop", "restart", "status"}, Begin(c, cmd)
    PROVE  AloneInv'
<1> SUFFICES ASSUME ~disturbed', ~hasty' PROVE AloneInv'
  BY DEF AloneInv
<1>1. /\ ~disturbed /\ ~hasty /\ UNCHANGED procs
      /\ \A d \in Callers : command[d] = Idle
      /\ cmd \in {"start", "restart"} => \A p \in Pids : ~Told(p)
  BY DEF Begin, os
<1>2. DOMAIN procs \subseteq Pids
  BY ServiceAssumption DEF IdsInv, Pids
<1>3. (\A p, q \in DOMAIN procs : p = q)'
  BY <1>1 DEF AloneInv
<1> DEFINE k == [cmd |-> cmd, pid |-> None,
                 at |-> IF cmd = "status" THEN "read" ELSE "cleanup"]
<1>4. Moves(c, k) /\ k.cmd = cmd
  BY DEF Begin, Moves
<1> HIDE DEF k
<1>5. AloneOK(k)'
  BY <1>1, <1>2, <1>3, <1>4 DEF AloneOK, Told, Alive
<1>6. command'[c] = k /\ \A d \in Callers : d # c => command'[d] = Idle
  BY <1>1, <1>4 DEF Moves, IdsInv
<1>7. ASSUME NEW d \in Callers PROVE AloneOK(command[d])'
  <2>1. CASE d = c
    BY <1>5, <1>6, <2>1 DEF AloneOK
  <2>2. CASE d # c
    BY <1>3, <1>6, <2>2 DEF AloneOK
  <2> QED
    BY <2>1, <2>2
<1> QED
  BY <1>3, <1>7 DEF AloneInv

LEMMA AloneInterrupt ==
    ASSUME IdsInv, FileInv, AloneInv, NEW c \in Callers, Interrupt(c)
    PROVE  AloneInv'
<1>1. /\ Moves(c, Idle) /\ command[c] # Idle /\ UNCHANGED <<procs, hasty>>
      /\ ~disturbed' => ~disturbed
  BY GotoMoves DEF Interrupt, os
<1>2. ASSUME ~disturbed', ~hasty' PROVE AloneOK(Idle)'
  <2>1. \A p, q \in DOMAIN procs : p = q
    BY <1>1, <1>2 DEF AloneInv
  <2> QED
    BY <1>1, <2>1 DEF AloneOK
<1> QED
  BY <1>1, <1>2, AloneMove

LEMMA AloneNext == IdsInv /\ FileInv /\ HastyInv /\ AloneInv /\ [Next]_vars => AloneInv'
<1> SUFFICES ASSUME IdsInv, FileInv, HastyInv, AloneInv, [Next]_vars PROVE AloneInv'
  OBVIOUS
<1>1. ASSUME NEW p, ProcessStep(p) PROVE AloneInv'
  <2>1. OsOK
    BY DEF IdsInv, OsOK
  <2> QED
    BY <1>1, <2>1, ProcessFrame, AloneFrame
<1>2. ASSUME NEW r \in Runs, Connect(r) \/ StreamEvent(r) \/ LoseEvent(r) PROVE AloneInv'
  <2>1. UNCHANGED <<command, disturbed, hasty, procs>>
    BY <1>2 DEF Connect, StreamEvent, LoseEvent, os, history
  <2> QED
    BY <2>1, AloneFrame
<1>3. CASE Serve
  BY <1>3 DEF Serve, AloneInv
<1>4. CASE UNCHANGED vars
  <2>1. UNCHANGED <<command, disturbed, hasty, procs>>
    BY <1>4 DEF vars, os, history
  <2> QED
    BY <2>1, AloneFrame
<1> QED
  BY <1>1, <1>2, <1>3, <1>4, AloneBegin, AloneCommand, AloneInterrupt DEF Next, ProcessStep

\* Two servers never run at once, restarts and crashes included, if besides nobody
\* wants a server before the last one has ended.  (The refusal of start is not
\* enough: a server that was told to end has lost its file already.)
THEOREM OneServerTheorem == Spec => []OneServerAtATime
<1>1. AloneInv => OneServerAtATime
  <2> SUFFICES ASSUME AloneInv, ~disturbed, ~hasty PROVE Cardinality(DOMAIN procs) <= 1
    BY DEF OneServerAtATime
  <2>1. CASE DOMAIN procs = {}
    BY <2>1, FS_EmptySet
  <2>2. CASE DOMAIN procs # {}
    <3>1. PICK p \in DOMAIN procs : TRUE
      BY <2>2
    <3>2. DOMAIN procs = {p}
      BY <3>1 DEF AloneInv
    <3> QED
      BY <3>2, FS_Singleton
  <2> QED
    BY <2>1, <2>2
<1> QED
  BY <1>1, IdsInit, IdsNext, FileInit, FileNext, HastyInit, HastyNext, AloneInit,
     AloneNext, PTL DEF Spec

-----------------------------------------------------------------------------
(* The sessions and the server *)

LEMMA HoldersInit == Init => HoldersInv
BY DEF Init, HoldersInv

LEMMA HoldersFrame ==
    ASSUME HoldersInv, UNCHANGED session, disturbed => disturbed', hasty => hasty',
           DOMAIN procs' \subseteq DOMAIN procs,
           \A p \in DOMAIN procs' : /\ procs'[p].at = procs[p].at
                                    /\ procs'[p].stale = procs[p].stale
    PROVE  HoldersInv'
BY DEF HoldersInv

LEMMA HoldersProcess ==
    ASSUME IdsInv, AloneInv, HoldersInv, NEW p, ProcessStep(p)
    PROVE  HoldersInv'
<1>1. OsOK
  BY DEF IdsInv, OsOK
<1>2. UNCHANGED <<disturbed, hasty>> /\ DOMAIN procs' \subseteq DOMAIN procs
  BY <1>1, ProcessFrame
<1> SUFFICES ASSUME ~disturbed, ~hasty PROVE HoldersInv'
  BY <1>2 DEF HoldersInv
<1>3. p \in DOMAIN procs /\ procs[p] \in Process
  BY <1>1 DEF ProcessStep, StartupStep, Drain, Serving, Exit, Crash, Alive, OsOK
<1>4. \A q \in DOMAIN procs : q = p
  BY <1>3 DEF AloneInv
\* What has to hold of p if it goes on.
<1> DEFINE Holds(at, stale, ses, r) ==
              /\ at \in {"loading", "migrating", "marking", "binding"} => ses[r].holder # p
              /\ at = "marking" /\ ses[r].status = "in_progress" => r \in stale
              /\ at = "binding" => ses[r].status # "in_progress"
              /\ at \in {"serving", "draining"} =>
                    /\ ses[r].status = "in_progress" => ses[r].holder = p
                    /\ ses[r].status = "interrupted" => ses[r].holder # p
<1>5. \A r \in Runs : Holds(procs[p].at, procs[p].stale, session, r)
  BY <1>3 DEF HoldersInv
<1>6. ASSUME \A r \in Runs : Holds(procs'[p].at, procs'[p].stale, session', r) PROVE HoldersInv'
  BY <1>2, <1>4, <1>6 DEF HoldersInv
<1>7. CASE End(p, TRUE) \/ End(p, FALSE)
  <2>1. DOMAIN procs' = {}
    BY <1>4, <1>7 DEF End
  <2> QED
    BY <2>1 DEF HoldersInv
<1>8. CASE ReadColumns(p)
  <2>1. procs[p].at = "loading" /\ procs'[p].at = "migrating" /\ UNCHANGED session
    BY <1>3, <1>8 DEF ReadColumns, database, Process
  <2>2. \A r \in Runs : Holds(procs'[p].at, procs'[p].stale, session', r)
    BY <1>5, <2>1
  <2> QED
    BY <1>6, <2>2
<1>9. CASE AddColumn(p) /\ ~End(p, TRUE)
  <2>1. procs[p].at = "migrating" /\ UNCHANGED session
    BY <1>9 DEF AddColumn
  <2>2. PICK c : procs' = [procs EXCEPT ![p].todo = @ \ {c}]
    BY <1>9 DEF AddColumn
  <2>3. procs'[p].at = "migrating"
    BY <1>3, <2>1, <2>2 DEF Process
  <2>4. \A r \in Runs : Holds(procs'[p].at, procs'[p].stale, session', r)
    BY <1>5, <2>1, <2>3
  <2> QED
    BY <1>6, <2>4
<1>10. CASE ReadStale(p)
  <2>1. procs[p].at = "migrating" /\ UNCHANGED session
    BY <1>10 DEF ReadStale, database
  <2>2. /\ procs'[p].at = "marking"
        /\ procs'[p].stale = {r \in Runs : session[r].status = "in_progress"}
    BY <1>3, <1>10 DEF ReadStale, Process
  <2>3. \A r \in Runs : Holds(procs'[p].at, procs'[p].stale, session', r)
    BY <1>5, <2>1, <2>2
  <2> QED
    BY <1>6, <2>3
<1>11. CASE MarkStale(p)
  <2>1. procs[p].at = "marking" /\ procs'[p].at = "binding"
    BY <1>3, <1>11 DEF MarkStale, Process
  <2>2. ASSUME NEW r \in Runs
        PROVE  session'[r].holder = session[r].holder /\ session'[r].status # "in_progress"
    <3>1. CASE r \in procs[p].stale
      BY <1>11, <3>1 DEF MarkStale, IdsInv
    <3>2. CASE r \notin procs[p].stale
      BY <1>5, <1>11, <2>1, <3>2 DEF MarkStale
    <3> QED
      BY <3>1, <3>2
  <2>3. \A r \in Runs : Holds(procs'[p].at, procs'[p].stale, session', r)
    BY <1>5, <2>1, <2>2
  <2> QED
    BY <1>6, <2>3
<1>12. CASE Bind(p) /\ Become(p, "serving")
  <2>1. procs[p].at = "binding" /\ procs'[p].at = "serving" /\ UNCHANGED session
    BY <1>3, <1>12 DEF Bind, Become, database, Process
  <2>2. \A r \in Runs : Holds(procs'[p].at, procs'[p].stale, session', r)
    BY <1>5, <2>1
  <2> QED
    BY <1>6, <2>2
<1>13. CASE Drain(p)
  <2>1. procs[p].at = "serving" /\ procs'[p].at = "draining" /\ UNCHANGED session
    BY <1>3, <1>13 DEF Drain, Become, Serving, database, Process
  <2>2. \A r \in Runs : Holds(procs'[p].at, procs'[p].stale, session', r)
    BY <1>5, <2>1
  <2> QED
    BY <1>6, <2>2
<1>14. Exit(p) \/ Crash(p) => End(p, FALSE)
  BY DEF Exit, Crash
<1>15. Bind(p) => End(p, TRUE) \/ End(p, FALSE) \/ Become(p, "serving")
  BY DEF Bind
<1> QED
  BY <1>7, <1>8, <1>9, <1>10, <1>11, <1>12, <1>13, <1>14, <1>15
  DEF ProcessStep, StartupStep

LEMMA HoldersRun ==
    ASSUME IdsInv, AloneInv, HoldersInv, NEW r \in Runs,
           Connect(r) \/ StreamEvent(r) \/ LoseEvent(r)
    PROVE  HoldersInv'
<1>1. UNCHANGED <<disturbed, hasty, procs>>
  BY DEF Connect, StreamEvent, LoseEvent, os, history
<1>2. CASE UNCHANGED session
  BY <1>1, <1>2, HoldersFrame
<1>3. CASE StreamEvent(r)
  <2> DEFINE p == request[r].to
  <2>1. p \in DOMAIN procs /\ procs[p].at \in {"serving", "draining"}
    BY <1>3 DEF StreamEvent, Alive
  <2>2. CASE request[r].event = "start"
    <3>1. session' = [session EXCEPT ![r] = [status |-> "in_progress", holder |-> p]]
      BY <1>3, <2>2 DEF StreamEvent
    <3> QED
      BY <1>1, <2>1, <3>1 DEF HoldersInv, AloneInv, IdsInv
  <2>3. CASE session' = [session EXCEPT ![r].status = "completed"]
    <3>1. \A q \in Runs : session'[q].holder = session[q].holder
      BY <2>3 DEF IdsInv
    <3>2. /\ \A q \in Runs : q # r => session'[q].status = session[q].status
          /\ session'[r].status = "completed"
      BY <2>3 DEF IdsInv
    <3> QED
      BY <1>1, <3>1, <3>2 DEF HoldersInv
  <2> QED
    BY <1>2, <1>3, <2>2, <2>3 DEF StreamEvent
<1> QED
  BY <1>2, <1>3 DEF Connect, LoseEvent, database

LEMMA HoldersNext ==
    IdsInv /\ FileInv /\ HastyInv /\ AloneInv /\ HoldersInv /\ [Next]_vars => HoldersInv'
<1> SUFFICES ASSUME IdsInv, FileInv, HastyInv, AloneInv, HoldersInv, [Next]_vars
             PROVE  HoldersInv'
  OBVIOUS
<1>1. AloneInv' /\ OsOK
  BY AloneNext DEF IdsInv, OsOK
<1>2. ASSUME NEW c \in Callers, CommandStep(c) PROVE HoldersInv'
  <2>1. UNCHANGED session /\ (disturbed => disturbed') /\ (hasty => hasty')
    <3>1. UNCHANGED session
      BY <1>2 DEF CommandStep, database
    <3>2. CASE TenSeconds(c)
      BY <3>1, <3>2 DEF TenSeconds
    <3>3. CASE UNCHANGED history
      BY <3>1, <3>3 DEF history
    <3> QED
      BY <1>2, <3>2, <3>3 DEF CommandStep, Cleanup, Probe, Unlink, Read, Kill, Remove,
                              WaitForStop, Check, Popen, OpenFile, WriteFile
  <2>2. CASE UNCHANGED procs
    BY <2>1, <2>2, HoldersFrame
  <2>3. CASE Kill(c) /\ ~ UNCHANGED procs
    <3>1. PICK p \in DOMAIN procs : Terminate(p)
      BY <2>3 DEF Kill, os, Alive
    <3>2. procs[p] \in Process
      BY <1>1 DEF OsOK
    <3>3. /\ DOMAIN procs' \subseteq DOMAIN procs
          /\ \A q \in DOMAIN procs' : /\ procs'[q].at = procs[q].at
                                      /\ procs'[q].stale = procs[q].stale
      BY <3>1, <3>2 DEF Terminate, End, Process
    <3> QED
      BY <2>1, <3>3, HoldersFrame
  <2>4. CASE Popen(c)
    <3>1. /\ spawned' \in DOMAIN procs' /\ procs'[spawned'].at = "loading"
          /\ spawned' = spawned + 1 /\ spawned \in Nat
      BY <1>1, <2>4 DEF Popen, Spawn, OsOK
    <3>2. \A r \in Runs : session'[r].holder # spawned'
      BY <2>1, <3>1, ServiceAssumption DEF IdsInv
    <3> QED
      BY <1>1, <3>1, <3>2 DEF HoldersInv, AloneInv
  <2> QED
    BY <1>2, <2>2, <2>3, <2>4
    DEF CommandStep, Cleanup, Probe, Unlink, Read, Remove, TenSeconds, WaitForStop, Check,
        OpenFile, WriteFile, os
<1>3. ASSUME UNCHANGED <<procs, session>>, (disturbed => disturbed') /\ (hasty => hasty')
      PROVE  HoldersInv'
  BY <1>3, HoldersFrame
<1>4. ASSUME NEW c \in Callers, NEW cmd, Begin(c, cmd) \/ Interrupt(c) PROVE HoldersInv'
  BY <1>3, <1>4 DEF Begin, Interrupt, os, database
<1>5. CASE Serve
  BY <1>5 DEF Serve, HoldersInv
<1>6. CASE UNCHANGED vars
  BY <1>3, <1>6 DEF vars, os, database, history
<1> QED
  BY <1>2, <1>4, <1>5, <1>6, HoldersProcess, HoldersRun DEF Next, ProcessStep

\* A server in service has the maps of every session that is shown as in progress,
\* and has interrupted none of its own, however many servers crashed or were stopped
\* and started before: what the startup finds in progress is always another's.
THEOREM HoldersTheorem == Spec => []SessionsFollowTheServer
<1>1. IdsInv /\ HoldersInv => SessionsFollowTheServer
  BY DEF HoldersInv, SessionsFollowTheServer, Serving, Alive
<1> QED
  BY <1>1, IdsInit, IdsNext, FileInit, FileNext, HastyInit, HastyNext, AloneInit,
     AloneNext, HoldersInit,
     HoldersNext, PTL DEF Spec
=============================================================================
