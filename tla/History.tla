------------------------------ MODULE History ------------------------------
(***************************************************************************)
(* The two history pages (routes/history.py), as operators over the tables *)
(* of Ingest: the overview of all tests, aggregated by the database, and   *)
(* the history of one test, aggregated by the handler.  Durations, sorting *)
(* and facets are left out.                                                *)
(***************************************************************************)
EXTENDS Ingest

RowsOf(s) == sessions[s].reports

\* The sessions with a call report of n.
Calling(n) == {s \in DOMAIN sessions : ReportsOf(RowsOf(s), n, "call") # {}}

-----------------------------------------------------------------------------
(* The overview: one row for every test with a call report *)

\* Faulty variant: the latest session of any phase.
MaxSessionAnyPhase(n) ==
    CHOOSE s \in {t \in DOMAIN sessions : n \in NodesOf(RowsOf(t))} :
        \A t \in DOMAIN sessions : n \in NodesOf(RowsOf(t)) => t <= s

\* max_session_id
MaxSession(n) == CHOOSE s \in Calling(n) : \A t \in Calling(n) : t <= s

LatestResult(n) ==
    LET r == GroupedByPhase(RowsOf(MaxSession(n)), n, "call")
    IN  IF r = None THEN "unknown" ELSE DetermineTestOutcome(r.outcome, r.xfail, FALSE)

\* total_runs counts sessions, passed_runs reports.
Overview(n) ==
    [total_runs    |-> Cardinality(Calling(n)),
     passed_runs   |-> Cardinality(UNION {{s} \X {i \in ReportsOf(RowsOf(s), n, "call") :
                                              RowsOf(s)[i].outcome = "passed"} :
                                          s \in Calling(n)}),
     last_run      |-> CHOOSE c \in {sessions[s].created_at : s \in Calling(n)} :
                          \A s \in Calling(n) : sessions[s].created_at <= c,
     latest_result |-> LatestResult(n)]

-----------------------------------------------------------------------------
(* The history of one test: one entry for every session with a report of it *)

\* Faulty variant: the setup stands in for a missing call, as it does on the
\* page of the session.
HistoryOutcomeOfSetup(s, n) ==
    LET call  == GroupedByPhase(RowsOf(s), n, "call")
        setup == GroupedByPhase(RowsOf(s), n, "setup")
    IN  IF call # None THEN DetermineTestOutcome(call.outcome, call.xfail, FALSE)
        ELSE IF setup # None THEN DetermineTestOutcome(setup.outcome, setup.xfail, FALSE)
        ELSE "unknown"

HistoryOutcome(s, n) ==
    LET call == GroupedByPhase(RowsOf(s), n, "call")
    IN  IF call # None THEN DetermineTestOutcome(call.outcome, call.xfail, FALSE)
        ELSE "unknown"

\* has_error
HasError(s, n) ==
    \E phase \in {"setup", "teardown"} :
        LET r == GroupedByPhase(RowsOf(s), n, phase)
        IN  r # None /\ r.outcome = "failed"

History(n) ==
    [s \in {t \in DOMAIN sessions : n \in NodesOf(RowsOf(t))} |-> HistoryOutcome(s, n)]

\* The numbers above the entries: every entry is a run, also one without a call.
HistoryStats(n) ==
    [total_runs  |-> Cardinality(DOMAIN History(n)),
     passed_runs |-> Cardinality({s \in DOMAIN History(n) : History(n)[s] = "passed"})]

-----------------------------------------------------------------------------
(* Properties *)

\* The sessions with reports of n that did not get to its call, and those in which
\* it passed although marked xfail.
Uncalled(n) == {s \in DOMAIN sessions : n \in NodesOf(RowsOf(s)) /\ s \notin Calling(n)}
XPassed(n)  == {s \in DOMAIN History(n) : History(n)[s] = "xpassed"}

\* The overview, which the database aggregates, and the history of a test, which
\* the handler aggregates, show different numbers of runs and of passes, and so
\* different pass rates, by exactly this much: a session without a call of the
\* test is a run of the history only; an xpass is a pass of the overview only (if
\* no session has two calls of the test).  The latest result is that of the last
\* run with a call, although one is found by id and the other by time.
OverviewAgainstHistory ==
    \A n \in {m \in Nodes : Calling(m) # {}} :
        /\ HistoryStats(n).total_runs = Overview(n).total_runs + Cardinality(Uncalled(n))
        /\ (\A s \in Calling(n) : Cardinality(ReportsOf(RowsOf(s), n, "call")) = 1)
              => Overview(n).passed_runs = HistoryStats(n).passed_runs + Cardinality(XPassed(n))
        /\ \E s \in DOMAIN History(n) :
              /\ sessions[s].created_at = Overview(n).last_run
              /\ History(n)[s] = Overview(n).latest_result

\* No test of a session changed its xfail marker, and none reported a phase twice.
MarkersStay(s) ==
    \A i, j \in DOMAIN RowsOf(s) :
        RowsOf(s)[i].nodeid = RowsOf(s)[j].nodeid => RowsOf(s)[i].xfail = RowsOf(s)[j].xfail
PhasesOnce(s) ==
    \A n \in Nodes, phase \in Phase : Cardinality(ReportsOf(RowsOf(s), n, phase)) <= 1

\* The tests that passed, failed or xpassed in a session according to their
\* histories, which are computed from the stored reports, are as many as the
\* counters of the session say, which were computed in memory, unless a test
\* was marked xfail while it ran; and unless a test was run again, some history
\* shows an error mark for the session exactly if the session counts errors.
HistoryMatchesCounters ==
    \A s \in DOMAIN sessions :
        /\ MarkersStay(s) =>
              \A c \in {"passed", "failed", "xpassed"} :
                  sessions[s].stats[c] = Cardinality({n \in NodesOf(RowsOf(s)) :
                                                         HistoryOutcome(s, n) = c})
        /\ PhasesOnce(s) =>
              (sessions[s].stats.errors > 0 <=> \E n \in NodesOf(RowsOf(s)) : HasError(s, n))
=============================================================================
