------------------------------- MODULE Ingest -------------------------------
(***************************************************************************)
(* The server's ingestion of streamed events: routes/streaming.py and      *)
(* streaming.py, with the two process-local maps they keep beside the      *)
(* SQLite database, DELETE /api/sessions, the deletions of retention, and  *)
(* the loss of a server process and its next startup.                      *)
(*                                                                         *)
(* One event loop runs every async handler, and after the body of a        *)
(* request is read stream_event never suspends: an event is one step.      *)
(* Any client may send any event at any time, which covers late, repeated  *)
(* and reordered delivery.  A request refused with 400 or 500 before       *)
(* anything was changed is a stuttering step and has no action.            *)
(***************************************************************************)
EXTENDS Outcomes

CONSTANTS
    Uuids,          \* the X-Session-ID values of requests, None for no header
    Reports,        \* the TestReports the runs may send
    ClientIds,      \* session ids a JSON body may name, 0 for none
    CommitResults,  \* what db.commit() and db.refresh() may do
    Deletable,      \* the statuses of the sessions users delete
    MaxCreated,     \* bound: sessions ever inserted
    MaxReports      \* bound: reports stored per session

Status == {"in_progress", "completed", "interrupted"}
NoSession == 0

ASSUME IngestAssumption ==
    /\ Reports \subseteq Report
    /\ ClientIds \subseteq Nat
    /\ CommitResults \subseteq {"ok", "commit_fails", "refresh_fails"}
    /\ Deletable \subseteq Status
    /\ MaxCreated \in Nat /\ MaxReports \in Nat

VARIABLES
    up,                \* the server process is running
    sessions,          \* the session and testreport tables: id -> row
    active_sessions,   \* in memory: id -> outcomes and time bounds
    session_uuid_map,  \* in memory: uuid -> id
    created            \* number of sessions ever inserted, the clock of created_at

vars == <<up, sessions, active_sessions, session_uuid_map, created>>

\* A session row with its report rows.  owner is the uuid that opened it and
\* senders are the uuids its reports came from: both are history, the
\* database does not store them.
SessionRow == [owner : Uuids, created_at : Nat, status : Status,
               stats : SessionStats, duration : Int \cup {None},
               reports : Seq(Report), senders : SUBSET Uuids]

Tracking == [test_outcomes : TestOutcomes, min_start : Time, max_stop : Time]

Init == /\ up = TRUE
        /\ sessions = <<>>
        /\ active_sessions = <<>>
        /\ session_uuid_map = <<>>
        /\ created = 0

-----------------------------------------------------------------------------
(* Maps *)

\* m[k] = v, and del m[k] (or m.pop(k, None)).
Put(m, k, v) == [x \in DOMAIN m \cup {k} |-> IF x = k THEN v ELSE m[x]]
Drop(m, K)   == [x \in DOMAIN m \ K |-> m[x]]

\* The session an event is for: the one its uuid is mapped to, whatever id
\* the body names, else that id.
Resolve(uuid, id) ==
    IF uuid \in DOMAIN session_uuid_map THEN session_uuid_map[uuid] ELSE id

\* Faulty variant: the smallest unused id.
IsNextIdFillingGaps(id) ==
    /\ id \notin DOMAIN sessions
    /\ \A i \in 1 .. id - 1 : i \in DOMAIN sessions

\* SQLite gives a row of a table without AUTOINCREMENT the id after the
\* largest in use: the id of a deleted newest session is used again.
IsNextId(id) ==
    /\ \A s \in DOMAIN sessions : s < id
    /\ id = 1 \/ id - 1 \in DOMAIN sessions

FreshTracking == [test_outcomes |-> <<>>, min_start |-> None, max_stop |-> None]

NewSession(uuid) ==
    [owner |-> uuid, created_at |-> created, status |-> "in_progress",
     stats |-> CalculateSessionStats(<<>>), duration |-> None,
     reports |-> <<>>, senders |-> {}]

-----------------------------------------------------------------------------
(* SessionStart *)

\* The event names no known session: insert one and start tracking it.  The
\* row is committed before it is refreshed; a failing refresh leaves it there
\* with neither tracking nor mapping.
OpenSession(uuid, id, result) ==
    /\ Resolve(uuid, id) = NoSession
    /\ result # "commit_fails"
    /\ created < MaxCreated
    /\ created' = created + 1
    /\ \E new \in 1 .. created + 1 :
          /\ IsNextId(new)
          /\ sessions' = Put(sessions, new, NewSession(uuid))
          /\ IF result = "ok"
             THEN /\ active_sessions' = Put(active_sessions, new, FreshTracking)
                  /\ session_uuid_map' = IF uuid = None THEN session_uuid_map
                                         ELSE Put(session_uuid_map, uuid, new)
             ELSE UNCHANGED <<active_sessions, session_uuid_map>>
    /\ UNCHANGED up

\* The event names a session: only the mapping changes.
ReopenSession(uuid, id) ==
    /\ Resolve(uuid, id) \in DOMAIN sessions
    /\ uuid # None
    /\ session_uuid_map' = Put(session_uuid_map, uuid, Resolve(uuid, id))
    /\ UNCHANGED <<up, sessions, active_sessions, created>>

SessionStart(uuid, id, result) ==
    up /\ (OpenSession(uuid, id, result) \/ ReopenSession(uuid, id))

-----------------------------------------------------------------------------
(* TestReport *)

\* Faulty variant: the tracking begun afresh by every report.
TrackedAfresh(s, r) ==
    LET bounds == UpdateTimestampBounds(FreshTracking, r)
    IN  [test_outcomes |-> UpdateTestOutcome(<<>>, r),
         min_start |-> bounds.min_start, max_stop |-> bounds.max_stop]

\* active_sessions[s] once r has been applied, begun afresh if it is missing.
Tracked(s, r) ==
    LET old == IF s \in DOMAIN active_sessions THEN active_sessions[s]
               ELSE FreshTracking
        bounds == UpdateTimestampBounds(old, r)
    IN  [test_outcomes |-> UpdateTestOutcome(old.test_outcomes, r),
         min_start |-> bounds.min_start, max_stop |-> bounds.max_stop]

\* The session row with r and the counters of the tracking t.
Stored(row, uuid, r, t) ==
    [row EXCEPT !.reports = Append(@, r),
                !.senders = @ \cup {uuid},
                !.stats = CalculateSessionStats(t.test_outcomes),
                !.duration = IF t.min_start # None /\ t.max_stop # None
                             THEN t.max_stop - t.min_start ELSE @]

\* The tracking is updated before the commit and stays so if that fails.
TestReport(uuid, id, r, result) ==
    LET s == Resolve(uuid, id)
    IN  /\ up
        /\ s \in DOMAIN sessions
        /\ Len(sessions[s].reports) < MaxReports
        /\ active_sessions' = Put(active_sessions, s, Tracked(s, r))
        /\ sessions' = IF result = "commit_fails" THEN sessions
                       ELSE Put(sessions, s, Stored(sessions[s], uuid, r, Tracked(s, r)))
        /\ UNCHANGED <<up, session_uuid_map, created>>

-----------------------------------------------------------------------------
(* SessionFinish *)

\* Faulty variants: the mapping kept; the mapping emptied and not removed; the
\* tracking kept.
FinishKeepsMapping(uuid, id, result) ==
    LET s == Resolve(uuid, id)
    IN  /\ up
        /\ s \in DOMAIN sessions
        /\ active_sessions' = Drop(active_sessions, {s})
        /\ sessions' = [sessions EXCEPT ![s].status = "completed"]
        /\ UNCHANGED <<up, session_uuid_map, created>>
FinishEmptiesMapping(uuid, id, result) ==
    LET s == Resolve(uuid, id)
    IN  /\ up
        /\ s \in DOMAIN sessions
        /\ active_sessions' = Drop(active_sessions, {s})
        /\ sessions' = [sessions EXCEPT ![s].status = "completed"]
        /\ session_uuid_map' = Put(session_uuid_map, uuid, NoSession)
        /\ UNCHANGED <<up, created>>
FinishKeepsTracking(uuid, id, result) ==
    LET s == Resolve(uuid, id)
    IN  /\ up
        /\ s \in DOMAIN sessions
        /\ sessions' = [sessions EXCEPT ![s].status = "completed"]
        /\ session_uuid_map' = Drop(session_uuid_map, {uuid})
        /\ UNCHANGED <<up, active_sessions, created>>

\* The tracking is dropped before the commit; the mapping only once the
\* refresh that follows it succeeded.
SessionFinish(uuid, id, result) ==
    LET s == Resolve(uuid, id)
    IN  /\ up
        /\ s \in DOMAIN sessions
        /\ active_sessions' = Drop(active_sessions, {s})
        /\ sessions' = IF result = "commit_fails" THEN sessions
                       ELSE [sessions EXCEPT ![s].status = "completed"]
        /\ session_uuid_map' = IF result = "ok" THEN Drop(session_uuid_map, {uuid})
                               ELSE session_uuid_map
        /\ UNCHANGED <<up, created>>

-----------------------------------------------------------------------------
(* Deletion, loss of the process, startup *)

\* DELETE /api/sessions/{id}: the database only.
DeleteSession(s) ==
    /\ up
    /\ s \in DOMAIN sessions
    /\ sessions[s].status \in Deletable
    /\ sessions' = Drop(sessions, {s})
    /\ UNCHANGED <<up, active_sessions, session_uuid_map, created>>

Eligible == {s \in DOMAIN sessions : sessions[s].status # "in_progress"}

\* Retention deletes sessions that had ended when it looked, also from the command
\* line and without a server.  Which of them were newest is known to it as of an
\* earlier read than their status (Retention.tla): here any of them may go, as they
\* may by DELETE.
PruneSessions ==
    \E S \in SUBSET Eligible :
        /\ S # {}
        /\ sessions' = Drop(sessions, S)
        /\ UNCHANGED <<up, active_sessions, session_uuid_map, created>>

\* Faulty variant: the mapping survives the process.
StopKeepsMapping ==
    /\ up
    /\ up' = FALSE
    /\ active_sessions' = <<>>
    /\ UNCHANGED <<sessions, session_uuid_map, created>>

\* The process ends, for whatever reason; its memory is gone.
Stop ==
    /\ up
    /\ up' = FALSE
    /\ active_sessions' = <<>>
    /\ session_uuid_map' = <<>>
    /\ UNCHANGED <<sessions, created>>

\* Faulty variants: no session is marked; every session is.
StartupMarksNone ==
    /\ ~up
    /\ up' = TRUE
    /\ UNCHANGED <<sessions, active_sessions, session_uuid_map, created>>
StartupMarksAll ==
    /\ ~up
    /\ up' = TRUE
    /\ sessions' = [s \in DOMAIN sessions |->
                      [sessions[s] EXCEPT !.status = "interrupted"]]
    /\ UNCHANGED <<active_sessions, session_uuid_map, created>>

\* lifespan: _mark_stale_sessions_interrupted before the first request.
Startup ==
    /\ ~up
    /\ up' = TRUE
    /\ sessions' = [s \in DOMAIN sessions |->
                      IF sessions[s].status = "in_progress"
                      THEN [sessions[s] EXCEPT !.status = "interrupted"]
                      ELSE sessions[s]]
    /\ active_sessions' = <<>>
    /\ UNCHANGED <<session_uuid_map, created>>

Next ==
    \/ \E u \in Uuids, id \in ClientIds, res \in CommitResults :
          \/ SessionStart(u, id, res)
          \/ \E r \in Reports : TestReport(u, id, r, res)
          \/ SessionFinish(u, id, res)
    \/ \E s \in DOMAIN sessions : DeleteSession(s)
    \/ PruneSessions
    \/ Stop
    \/ Startup

Spec == Init /\ [][Next]_vars

-----------------------------------------------------------------------------
(* Properties *)

TypeOK ==
    /\ up \in BOOLEAN
    /\ DOMAIN sessions \subseteq Nat \ {0}
    /\ \A s \in DOMAIN sessions : sessions[s] \in SessionRow
    /\ DOMAIN active_sessions \subseteq Nat \ {0}
    /\ \A s \in DOMAIN active_sessions : active_sessions[s] \in Tracking
    /\ DOMAIN session_uuid_map \subseteq Uuids \ {None}
    /\ \A u \in DOMAIN session_uuid_map : session_uuid_map[u] \in Nat \ {0}
    /\ created \in Nat

InProgress(s) == s \in DOMAIN sessions /\ sessions[s].status = "in_progress"

\* A later session has a larger id, even though ids are used again: the
\* histories, which take the largest id of a test for its latest result, and
\* the lists, which sort by created_at, agree on what is latest.
IdOrderIsCreationOrder ==
    \A s, t \in DOMAIN sessions :
        s < t => sessions[s].created_at < sessions[t].created_at

\* The reports of a session all come from the run that opened it.
ReportsBelongToRun ==
    \A s \in DOMAIN sessions : sessions[s].senders \subseteq {sessions[s].owner}

\* A uuid stays mapped exactly as long as the session it opened is in the
\* database and in progress: later events of a run have nowhere else to go.
MappedSessionsAreLive ==
    \A u \in DOMAIN session_uuid_map :
        /\ InProgress(session_uuid_map[u])
        /\ sessions[session_uuid_map[u]].owner = u

\* While the server is up, every session shown as in progress can still be
\* finished by the run that opened it: none is stuck until the next startup.
LiveSessionsAreMapped ==
    up => \A s \in DOMAIN sessions :
             InProgress(s) => \E u \in DOMAIN session_uuid_map : session_uuid_map[u] = s

\* Nothing is tracked in memory but the sessions in progress, and those have
\* in memory the outcomes their stored reports define.
TrackingMatchesReports ==
    /\ \A s \in DOMAIN active_sessions : InProgress(s)
    /\ up => \A s \in DOMAIN sessions : InProgress(s) =>
                /\ s \in DOMAIN active_sessions
                /\ active_sessions[s].test_outcomes = OutcomesOf(sessions[s].reports)

DurationMatches(duration, rows) ==
    LET starts == {rows[i].start : i \in DOMAIN rows} \ {None}
        stops  == {rows[i].stop : i \in DOMAIN rows} \ {None}
    IN  IF starts = {} \/ stops = {} THEN duration = None
        ELSE \E a \in starts, b \in stops :
                /\ duration = b - a
                /\ \A x \in starts : a <= x
                /\ \A x \in stops : x <= b

\* The counters and the duration of every session, finished or not, are those
\* of its stored reports: none lost, none counted twice, none left over from
\* another session or another process.
CountersMatchReports ==
    \A s \in DOMAIN sessions :
        /\ sessions[s].stats = CalculateSessionStats(OutcomesOf(sessions[s].reports))
        /\ DurationMatches(sessions[s].duration, sessions[s].reports)

\* s is the same session before and after the step, not a new one whose id
\* was used before.
SameSession(s) ==
    /\ s \in DOMAIN sessions /\ s \in DOMAIN sessions'
    /\ sessions[s].created_at = sessions'[s].created_at

\* A session that has ended, completed or interrupted, never changes again:
\* no late event adds a report, moves a counter or changes its status.
EndedSessionsAreFrozen ==
    [][\A s \in DOMAIN sessions :
          SameSession(s) /\ ~InProgress(s) => sessions'[s] = sessions[s]]_vars

\* Whatever clients send, a completed session is never shown as running or
\* interrupted again, and no report of any session is ever dropped, replaced
\* or reordered except by deleting the session.
HistoryOnlyGrows ==
    [][\A s \in DOMAIN sessions : SameSession(s) =>
          /\ sessions[s].status = "completed" => sessions'[s].status = "completed"
          /\ sessions[s].status = "interrupted" => sessions'[s].status # "in_progress"
          /\ Len(sessions[s].reports) <= Len(sessions'[s].reports)
          /\ SubSeq(sessions'[s].reports, 1, Len(sessions[s].reports))
                = sessions[s].reports]_vars
=============================================================================
