----------------------------- MODULE Reporting -----------------------------
(***************************************************************************)
(* Every run pytest may report, streamed into the outcome tracking of      *)
(* Outcomes.  pytest itself is external: PytestReport and CanReport say    *)
(* which reports its runtestprotocol and skipping plugin produce, in which *)
(* order, for one test; reports of different tests interleave freely, as   *)
(* they do under pytest-xdist, whose workers may die, and the run may stop *)
(* anywhere.                                                               *)
(***************************************************************************)
EXTENDS Outcomes

VARIABLES rows,     \* the stored reports of the session, oldest first
          outcomes  \* active_sessions[id]["test_outcomes"]

vars == <<rows, outcomes>>

TypeOK == /\ rows \in Seq(Report)
          /\ outcomes \in TestOutcomes

Init == rows = <<>> /\ outcomes = <<>>

HasReported(n, phase) == ReportsOf(rows, n, phase) # {}
SetupPassed(n) == Reported(rows, n, "setup", "passed")

\* Setup; the call if setup passed; then teardown, whatever happened.
CanReport(n, phase) ==
    /\ ~HasReported(n, phase)
    /\ ~HasReported(n, "teardown") /\ ~HasReported(n, NoPhase)
    /\ CASE phase = "setup"    -> TRUE
         [] phase = "call"     -> SetupPassed(n)
         [] phase = "teardown" -> \/ HasReported(n, "call")
                                  \/ HasReported(n, "setup") /\ ~SetupPassed(n)

\* wasxfail: an exception under an active xfail marker, or pytest.xfail()
\* in any phase (reported skipped), or a call that passed under the marker.
\* A marker whose condition is false leaves the keyword and nothing else; a
\* marker may be added while the test runs and is never removed.
PytestReport(r) ==
    /\ r.wasxfail => \/ r.outcome = "skipped"
                     \/ r.outcome = "passed" /\ r.when = "call" /\ r.xfail
    /\ \A i \in DOMAIN rows :
          rows[i].nodeid = r.nodeid /\ rows[i].xfail => r.xfail
    /\ r.start = None /\ r.stop = None

RuntestLogreport(n, phase) ==
    /\ CanReport(n, phase)
    /\ \E o \in Outcome, x, w \in BOOLEAN :
          LET r == [nodeid |-> n, when |-> phase, outcome |-> o, xfail |-> x,
                    wasxfail |-> w, start |-> None, stop |-> None]
          IN  /\ PytestReport(r)
              /\ rows' = Append(rows, r)
              /\ outcomes' = UpdateTestOutcome(outcomes, r)

\* The worker that ran n has died: pytest-xdist reports that in its stead, and
\* goes on with other tests.
CrashReport(n) ==
    /\ ~HasReported(n, "teardown") /\ ~HasReported(n, NoPhase)
    /\ LET r == [nodeid |-> n, when |-> NoPhase, outcome |-> "failed", xfail |-> FALSE,
                 wasxfail |-> FALSE, start |-> None, stop |-> None]
       IN  /\ rows' = Append(rows, r)
           /\ outcomes' = UpdateTestOutcome(outcomes, r)

Next == \E n \in Nodes : CrashReport(n) \/ \E phase \in Phase : RuntestLogreport(n, phase)

Spec == Init /\ [][Next]_vars

-----------------------------------------------------------------------------
(* What pytest's own terminal summary counts (external) *)

TeststatusOf(r) ==
    CASE r.wasxfail /\ r.outcome = "skipped" -> "xfailed"
      [] r.wasxfail /\ r.outcome = "passed"  -> "xpassed"
      [] ~r.wasxfail /\ r.outcome = "skipped" -> "skipped"
      [] r.outcome = "failed" -> IF r.when \in {"setup", "teardown"} THEN "errors" ELSE "failed"
      [] OTHER -> IF r.when = "call" THEN "passed" ELSE None

PytestCount(c) == Cardinality({i \in DOMAIN rows : TeststatusOf(rows[i]) = c})

EntryCount(c) == Cardinality({e \in BuildTestEntries(rows) : e.outcome = c})

Stats == CalculateSessionStats(outcomes)

\* Every test that reported anything has reported its teardown.
Settled == \A n \in NodesOf(rows) : HasReported(n, "teardown")

\* A run in which every xfail marker is static and active, no test calls
\* pytest.xfail(), skips a marked test, or skips during teardown.
Ordinary ==
    \A i \in DOMAIN rows :
        /\ rows[i].wasxfail <=> /\ rows[i].xfail
                                /\ \/ rows[i].outcome = "skipped"
                                   \/ rows[i].when = "call" /\ rows[i].outcome = "passed"
        /\ rows[i].when = "teardown" => rows[i].outcome # "skipped"
        /\ \A j \in DOMAIN rows :
              rows[i].nodeid = rows[j].nodeid => rows[i].xfail = rows[j].xfail

-----------------------------------------------------------------------------
(* Properties *)

\* However the reports of several tests interleave, the outcomes tracked one
\* report at a time are those the stored reports define (update_test_outcome).
TrackingMatchesRows == outcomes = OutcomesOf(rows)

\* No failure that a test reports is hidden or invented: the failed and errors
\* counters are those of pytest's summary but for the workers that died, whatever
\* markers, skips and pytest.xfail() calls the tests use (calculate_session_stats,
\* "Count setup/teardown errors separately").
FailuresMatchPytest ==
    /\ Stats.failed = PytestCount("failed") - Cardinality({n \in Nodes : HasReported(n, NoPhase)})
    /\ Stats.errors = PytestCount("errors")

\* The session page lists as many failed and error entries as the counters in
\* its header announce, although one is built from the stored rows and the
\* other from the in-memory outcomes; and no test that has ended is listed as
\* passed unless its call passed.
EntriesHideNoFailure ==
    /\ EntryCount("failed") = Stats.failed
    /\ EntryCount("error") = Stats.errors
    /\ \A e \in BuildTestEntries(rows) :
          e.outcome = "passed" /\ HasReported(e.nodeid, "teardown") =>
              Reported(rows, e.nodeid, "call", "passed")

\* When the tests of an ordinary run have ended, the counters, pytest's summary
\* and the entries of the page are three ways to get the same five numbers.
OrdinaryRunsAgree ==
    Ordinary /\ Settled => \A c \in {"passed", "failed", "skipped", "xfailed", "xpassed"} :
                    Stats[c] = PytestCount(c) /\ Stats[c] = EntryCount(c)

-----------------------------------------------------------------------------
(* Statements of the repository that the code does not keep *)

\* determine_test_outcome returns the "Category for statistics" (utils.py:59):
\* once the tests have ended, the entries of a category are as many as the
\* statistics count in it.
EntriesMatchStatistics ==
    Settled => \A c \in {"passed", "failed", "skipped", "xfailed", "xpassed"} :
                  EntryCount(c) = Stats[c]

\* "Verify session statistics match pytest's output." (test_html_comparison.py:201):
\* every failure of pytest's summary is counted.  That of a worker that died is
\* not, and its test may be listed as passed.
SessionStatisticsMatchPytest == Stats.failed = PytestCount("failed")

\* "Verify xfail/xpass statistics match pytest output" (test_html_comparison.py):
\* they do for the runs that call pytest.xfail() or pytest.skip() only in
\* setups and calls.
XfailStatisticsMatchPytest ==
    Settled /\ (\A i \in DOMAIN rows : rows[i].when = "teardown" => rows[i].outcome # "skipped")
      => /\ Stats.xfailed = PytestCount("xfailed")
         /\ Stats.xpassed = PytestCount("xpassed")

\* A main entry without a call phase is for "xfail(run=False) or skipped in
\* setup" (entry_builder.py:122): no test is listed as passed, not even in a
\* run that died during its call, unless its call passed.
PassedEntriesRan ==
    \A e \in BuildTestEntries(rows) :
        e.outcome = "passed" =>
            Reported(rows, e.nodeid, "call", "passed")
=============================================================================
