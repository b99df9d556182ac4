----------------------------- MODULE Retention -----------------------------
(***************************************************************************)
(* services/retention.py: prune_database, run by POST /api/prune in a      *)
(* thread of its own for each request, or by the command line in another   *)
(* process, while the event loop goes on.                                  *)
(*                                                                         *)
(* Its first two queries are separate reads: sqlite3 opens a transaction   *)
(* at the first INSERT, UPDATE or DELETE only.  From there to its commit   *)
(* the database is locked for other writers, so each of the two phases is  *)
(* one step; runs start, report, finish and are deleted between them.      *)
(***************************************************************************)
EXTENDS Integers, FiniteSets

CONSTANTS Pruners,      \* calls of prune_database
          KeepRecent,   \* keep_recent
          None,
          MaxCreated,   \* bound: sessions ever inserted
          MaxReports    \* bound: reports per session

ASSUME RetentionAssumption ==
    KeepRecent \in Nat /\ MaxCreated \in Nat /\ MaxReports \in Nat

VARIABLES
    sessions,    \* the session table: id -> row, with its number of reports and how
                 \* many of them have logs, now and when they were stored; reused says that
                 \* a prune was running which had read another session of this id, a
                 \* flagged one (history)
    created,     \* sessions ever inserted, the clock of created_at
    pc,          \* where each pruner is
    protected,   \* protected_ids
    eligible,    \* eligible: the ids read and their created_at, by which they are sorted
    flagged,     \* those of them that were read with logs_pruned already set
    pinned,      \* the sessions protected when protected_ids was read (history)
    meddled      \* a user, or another pruner, has deleted sessions since then (history)

table == <<sessions, created>>
history == <<pinned, meddled>>
local == <<pc, protected, eligible, flagged>>
vars == <<table, local, history>>

Row == [created_at : Nat, in_progress : BOOLEAN, reports : Nat, logs : Nat,
        had_logs : Nat, logs_pruned : BOOLEAN, reused : BOOLEAN]

Init == /\ sessions = <<>>
        /\ created = 0
        /\ pc = [p \in Pruners |-> "idle"]
        /\ protected = [p \in Pruners |-> {}]
        /\ eligible = [p \in Pruners |-> <<>>]
        /\ flagged = [p \in Pruners |-> {}]
        /\ pinned = [p \in Pruners |-> {}]
        /\ meddled = [p \in Pruners |-> FALSE]

Put(m, k, v) == [x \in DOMAIN m \cup {k} |-> IF x = k THEN v ELSE m[x]]
Drop(m, K)   == [x \in DOMAIN m \ K |-> m[x]]

-----------------------------------------------------------------------------
(* What goes on meanwhile *)

\* SessionStart: the id after the largest in use, as SQLite gives it.
StartSession ==
    /\ created < MaxCreated
    /\ created' = created + 1
    /\ \E id \in 1 .. created + 1 :
          /\ \A s \in DOMAIN sessions : s < id
          /\ id = 1 \/ id - 1 \in DOMAIN sessions
          /\ sessions' = Put(sessions, id,
                             [created_at |-> created, in_progress |-> TRUE, reports |-> 0,
                              logs |-> 0, had_logs |-> 0, logs_pruned |-> FALSE,
                              reused |-> \E p \in Pruners : id \in flagged[p]])
    /\ UNCHANGED <<local, history>>

\* TestReport, with or without longrepr and sections.
StoreReport(s) ==
    /\ sessions[s].in_progress /\ sessions[s].reports < MaxReports
    /\ \E logs \in {0, 1} :
          sessions' = [sessions EXCEPT ![s].reports = @ + 1, ![s].logs = @ + logs,
                                       ![s].had_logs = @ + logs]
    /\ UNCHANGED <<created, local, history>>

\* SessionFinish, or a startup that finds the session in progress.
EndSession(s) ==
    /\ sessions[s].in_progress
    /\ sessions' = [sessions EXCEPT ![s].in_progress = FALSE]
    /\ UNCHANGED <<created, local, history>>

\* DELETE /api/sessions/{id}
DeleteSession(s) ==
    /\ sessions' = Drop(sessions, {s})
    /\ meddled' = [p \in Pruners |-> pc[p] # "idle"]
    /\ UNCHANGED <<created, local, pinned>>

-----------------------------------------------------------------------------
(* prune_database *)

NewerThan(s) == {t \in DOMAIN sessions : sessions[t].created_at > sessions[s].created_at}

Newest(k) == {s \in DOMAIN sessions : Cardinality(NewerThan(s)) < k}

Protect(p, S) ==
    /\ pc[p] = "idle"
    /\ pc' = [pc EXCEPT ![p] = "protected"]
    /\ protected' = [protected EXCEPT ![p] = S]
    /\ pinned' = [pinned EXCEPT ![p] = {sessions[s].created_at : s \in Newest(KeepRecent)}]
    /\ UNCHANGED <<table, eligible, flagged, meddled>>

\* Faulty variant: the oldest are protected.
ReadProtectedAscending(p) ==
    Protect(p, {s \in DOMAIN sessions :
                  Cardinality(DOMAIN sessions \ NewerThan(s)) <= KeepRecent})

\* The file exceeds the cap: the first query of _eligible_sessions ...
ReadProtected(p) == Protect(p, Newest(KeepRecent))

Unprotected(p) == DOMAIN sessions \ protected[p]

Select(p, S) ==
    /\ pc[p] = "protected"
    /\ pc' = [pc EXCEPT ![p] = "stripping"]
    /\ eligible' = [eligible EXCEPT ![p] = [s \in S |-> sessions[s].created_at]]
    /\ flagged' = [flagged EXCEPT ![p] = {s \in S : sessions[s].logs_pruned}]
    /\ UNCHANGED <<table, protected, history>>

\* Faulty variant: sessions in progress are taken too.
ReadEligibleAny(p) == Select(p, Unprotected(p))

\* ... and its second.
ReadEligible(p) == Select(p, {s \in Unprotected(p) : ~sessions[s].in_progress})

\* Faulty variant: the newest come first.
NewestOf(p, S) == {{s \in S : eligible[p][s] >= eligible[p][last]} : last \in S}

\* What a phase takes of S before it finds over <= 0: everything up to some session,
\* oldest first.  Which one depends on sizes.
OldestOf(p, S) == {{s \in S : eligible[p][s] <= eligible[p][last]} : last \in S}

\* The sessions that phase A does not pass, _strippable_bytes > 0: the sections of a
\* report, stripped or not, are the text "[]" at least.
Strippable(p) == {s \in DOMAIN eligible[p] \cap DOMAIN sessions : sessions[s].reports > 0}

\* Faulty variants: the flag is forgotten; the logs are lost but not set.
StrippedUnflagged(row, read) == [row EXCEPT !.logs = 0]
StrippedToNone(row, read) == [row EXCEPT !.logs = None, !.logs_pruned = ~read \/ @]

\* The UPDATE of the reports finds them by the id.  logs_pruned is assigned to the
\* object that ReadEligible loaded, and written only if that changes the object: read
\* says that it was loaded with the flag set.
Stripped(row, read) == [row EXCEPT !.logs = 0, !.logs_pruned = ~read \/ @]

\* Phase A and its commit.  over is positive: the first is stripped, whatever has
\* become of the size on disk.
StripLogs(p) ==
    /\ pc[p] = "stripping"
    /\ \/ Strippable(p) = {} /\ UNCHANGED sessions
       \/ \E S \in OldestOf(p, Strippable(p)) :
             sessions' = [s \in DOMAIN sessions |->
                             IF s \in S THEN Stripped(sessions[s], s \in flagged[p])
                                        ELSE sessions[s]]
    /\ pc' = [pc EXCEPT ![p] = "deleting"]
    /\ UNCHANGED <<created, protected, eligible, flagged, history>>

EndPrune(p) ==
    /\ pc' = [pc EXCEPT ![p] = "idle"]
    /\ protected' = [protected EXCEPT ![p] = {}] /\ eligible' = [eligible EXCEPT ![p] = <<>>]
    /\ flagged' = [flagged EXCEPT ![p] = {}] /\ pinned' = [pinned EXCEPT ![p] = {}]

\* Phase B, if the file still exceeds the cap, and its commit.  The commit of phase A
\* has expired the rows: one that is gone raises, and nothing is deleted.
DeleteOldest(p) ==
    /\ pc[p] = "deleting"
    /\ \E S \in {{}} \cup OldestOf(p, DOMAIN eligible[p]) :
          sessions' = IF S \subseteq DOMAIN sessions THEN Drop(sessions, S) ELSE sessions
    /\ EndPrune(p)
    /\ meddled' = [q \in Pruners |->
                      q # p /\ (meddled[q] \/ (pc[q] # "idle" /\ sessions' # sessions))]
    /\ UNCHANGED created

\* The prune ends between two transactions, or in one that is rolled back: the
\* process ends, the database is locked for too long, a row is gone.
Crash(p) ==
    /\ pc[p] # "idle"
    /\ EndPrune(p)
    /\ meddled' = [meddled EXCEPT ![p] = FALSE]
    /\ UNCHANGED table

Prune(p) == ReadProtected(p) \/ ReadEligible(p) \/ StripLogs(p) \/ DeleteOldest(p)

Next ==
    \/ StartSession
    \/ \E s \in DOMAIN sessions : StoreReport(s) \/ EndSession(s) \/ DeleteSession(s)
    \/ \E p \in Pruners : Prune(p) \/ Crash(p)

Spec == Init /\ [][Next]_vars

-----------------------------------------------------------------------------
(* Properties *)

TypeOK ==
    /\ DOMAIN sessions \subseteq Nat \ {0}
    /\ \A s \in DOMAIN sessions : sessions[s] \in Row
    /\ created \in Nat
    /\ pc \in [Pruners -> {"idle", "protected", "stripping", "deleting"}]
    /\ protected \in [Pruners -> SUBSET Nat] /\ pinned \in [Pruners -> SUBSET Nat]
    /\ meddled \in [Pruners -> BOOLEAN] /\ DOMAIN eligible = Pruners
    /\ \A p \in Pruners : eligible[p] \in [DOMAIN eligible[p] -> Nat]
    /\ flagged \in [Pruners -> SUBSET Nat]

\* A session whose logs are gone says so (logs_pruned, for which the pages show a
\* notice instead of an empty log), also when the prune crashed half-way, when two of
\* them strip the same session, and when one strips a session with the id of another
\* that it had read.  The exception is a session that got such an id while a prune
\* was running which had read the former session with the flag set.
StrippedAreFlagged ==
    \A s \in DOMAIN sessions :
        sessions[s].logs < sessions[s].had_logs /\ ~sessions[s].reused
            => sessions[s].logs_pruned

\* s is left alone by a step of retention.
Untouched(s) == s \in DOMAIN sessions' /\ sessions'[s] = sessions[s]

\* The newest keep_recent sessions as a prune found them keep their logs and
\* their rows in all that it does, whatever is created and deleted meanwhile.
PinnedUntouched ==
    [][\A p \in Pruners : pc'[p] # pc[p] =>
          \A s \in DOMAIN sessions :
              sessions[s].created_at \in pinned[p] => Untouched(s)]_vars

\* Unless sessions are deleted meanwhile, a prune never touches a session in
\* progress, however runs start, report and end between its queries and whatever
\* another prune strips.
RunningUntouched ==
    [][\A p \in Pruners : pc'[p] # pc[p] /\ ~meddled[p] =>
          \A s \in DOMAIN sessions : sessions[s].in_progress => Untouched(s)]_vars

\* Unless sessions are deleted meanwhile, a prune goes from the oldest session to
\* the newest in both phases: no logs are stripped as long as an older eligible
\* session has any, and none is deleted before an older eligible one.
OldestGoFirst ==
    [][\A p \in Pruners : pc'[p] # pc[p] /\ ~meddled[p] =>
          \A s, t \in DOMAIN eligible[p] \cap DOMAIN sessions :
              sessions[s].created_at > sessions[t].created_at =>
                  /\ s \notin DOMAIN sessions' => t \notin DOMAIN sessions'
                  /\ s \in DOMAIN sessions' /\ sessions'[s].logs < sessions[s].logs
                        => sessions'[t].logs = 0]_vars

-----------------------------------------------------------------------------
(* Statements of the repository that the code does not keep *)

\* "any in-progress session are never touched" (retention.py): also not when a
\* session that was found eligible is deleted, by a user or another prune, and
\* its id is used again.
NeverTouchesRunning ==
    [][\A p \in Pruners : pc'[p] # pc[p] =>
          \A s \in DOMAIN sessions : sessions[s].in_progress => Untouched(s)]_vars

\* logs_pruned is "True when this session's logs/tracebacks were stripped"
\* (models.py): also for a session that took the id of a flagged one between the
\* read and the UPDATE.
StrippedAlwaysFlagged ==
    \A s \in DOMAIN sessions :
        sessions[s].logs < sessions[s].had_logs => sessions[s].logs_pruned

\* "... were stripped to reclaim space" (models.py): never for a session that had
\* no logs.
FlaggedWereStripped ==
    \A s \in DOMAIN sessions :
        sessions[s].logs_pruned => sessions[s].logs < sessions[s].had_logs

\* Sessions are deleted "If that is still not enough" (retention.py), where that
\* is stripping: only once no eligible session has logs left.
DeletedAfterStripping ==
    [][\A p \in Pruners : pc[p] = "deleting" /\ pc'[p] = "idle" /\ sessions' # sessions =>
          \A s \in DOMAIN eligible[p] \cap DOMAIN sessions : sessions[s].logs = 0]_vars
=============================================================================
