-------------------------- MODULE ReportingProofs --------------------------
(***************************************************************************)
(* Theorems about Reporting, for any number of tests.                      *)
(***************************************************************************)
EXTENDS Reporting, OutcomeProofs

-----------------------------------------------------------------------------
(* The tracked outcomes *)

\* The tracked outcomes follow the rows; the rows are reports.
TrackingInv == rows \in Seq(Report) /\ TrackingMatchesRows

LEMMA TrackingInit == Init => TrackingInv
BY NoOutcomes DEF Init, TrackingInv, TrackingMatchesRows

\* The server's part of every step.
LEMMA ServerStep ==
    ASSUME TrackingInv, NEW r \in Report,
           rows' = Append(rows, r), outcomes' = UpdateTestOutcome(outcomes, r)
    PROVE  TrackingInv'
<1>1. rows \in Seq(Report) /\ outcomes = OutcomesOf(rows)
  BY DEF TrackingInv, TrackingMatchesRows
<1>2. rows' \in Seq(Report)
  BY <1>1
<1>3. outcomes' = OutcomesOf(rows')
  BY <1>1, IncrementalOutcomes
<1> QED
  BY <1>2, <1>3 DEF TrackingInv, TrackingMatchesRows

\* What every step reports: nothing twice, and nothing after the last report of a test.
Legal(r) ==
    /\ ~HasReported(r.nodeid, r.when)
    /\ ~HasReported(r.nodeid, "teardown") /\ ~HasReported(r.nodeid, NoPhase)
    /\ r.when = "call" => SetupPassed(r.nodeid)
    /\ r.when = "teardown" => \/ HasReported(r.nodeid, "call")
                              \/ HasReported(r.nodeid, "setup") /\ ~SetupPassed(r.nodeid)
    /\ r.wasxfail => \/ r.outcome = "skipped"
                     \/ r.outcome = "passed" /\ r.when = "call"
    /\ r.when = NoPhase => r.outcome = "failed"

Reports(r) ==
    r \in Report /\ Legal(r) /\ rows' = Append(rows, r) /\ outcomes' = UpdateTestOutcome(outcomes, r)

LEMMA PhaseStep ==
    ASSUME NEW n \in Nodes, NEW phase \in Phase, RuntestLogreport(n, phase)
    PROVE  \E r : Reports(r)
<1>1. PICK o \in Outcome, x \in BOOLEAN, w \in BOOLEAN :
        LET r == [nodeid |-> n, when |-> phase, outcome |-> o, xfail |-> x,
                  wasxfail |-> w, start |-> None, stop |-> None]
        IN  /\ PytestReport(r)
            /\ rows' = Append(rows, r)
            /\ outcomes' = UpdateTestOutcome(outcomes, r)
  BY DEF RuntestLogreport
<1> DEFINE r == [nodeid |-> n, when |-> phase, outcome |-> o, xfail |-> x,
                 wasxfail |-> w, start |-> None, stop |-> None]
<1>2. r \in Report /\ r.nodeid = n /\ r.when = phase
  BY DEF Report, Time
<1> HIDE DEF r
<1>3. PytestReport(r) /\ rows' = Append(rows, r) /\ outcomes' = UpdateTestOutcome(outcomes, r)
  BY <1>1 DEF r
<1>4. CanReport(n, phase)
  BY DEF RuntestLogreport
<1>5. /\ ~HasReported(n, phase) /\ ~HasReported(n, "teardown") /\ ~HasReported(n, NoPhase)
      /\ phase = "call" => SetupPassed(n)
      /\ phase = "teardown" => \/ HasReported(n, "call")
                               \/ HasReported(n, "setup") /\ ~SetupPassed(n)
  BY <1>4 DEF CanReport
<1>6. r.wasxfail => \/ r.outcome = "skipped"
                    \/ r.outcome = "passed" /\ r.when = "call"
  BY <1>3 DEF PytestReport
<1>7. phase # NoPhase
  BY DEF Phase, NoPhase
<1>8. Legal(r)
  BY <1>2, <1>5, <1>6, <1>7 DEF Legal
<1> QED
  BY <1>2, <1>3, <1>8 DEF Reports

LEMMA CrashStep ==
    ASSUME NEW n \in Nodes, CrashReport(n)
    PROVE  \E r : Reports(r)
<1> DEFINE r == [nodeid |-> n, when |-> NoPhase, outcome |-> "failed", xfail |-> FALSE,
                 wasxfail |-> FALSE, start |-> None, stop |-> None]
<1>1. /\ r \in Report /\ r.nodeid = n /\ r.when = NoPhase
      /\ r.outcome = "failed" /\ ~r.wasxfail
  BY DEF Report, Outcome, Time
<1>2. /\ ~HasReported(n, "teardown") /\ ~HasReported(n, NoPhase)
      /\ rows' = Append(rows, r) /\ outcomes' = UpdateTestOutcome(outcomes, r)
  BY DEF CrashReport
<1> HIDE DEF r
<1>3. NoPhase # "call" /\ NoPhase # "teardown"
  BY DEF NoPhase
<1>4. Legal(r)
  BY <1>1, <1>2, <1>3 DEF Legal
<1> QED
  BY <1>1, <1>2, <1>4 DEF Reports

LEMMA NextReports == Next => \E r : Reports(r)
BY PhaseStep, CrashStep DEF Next

LEMMA TrackingNext == TrackingInv /\ [Next]_vars => TrackingInv'
<1> SUFFICES ASSUME TrackingInv, [Next]_vars PROVE TrackingInv'
  OBVIOUS
<1>1. CASE Next
  BY <1>1, NextReports, ServerStep DEF Reports
<1>2. CASE UNCHANGED vars
  BY <1>2 DEF vars, TrackingInv, TrackingMatchesRows
<1> QED
  BY <1>1, <1>2

\* The tracked outcomes keep their type: a test is in them with its six fields, and
\* update_test_outcome never writes one that create_test_outcome_entry did not make.
THEOREM TypeCorrect == Spec => []TypeOK
<1> DEFINE Typed == rows \in Seq(Report) /\ outcomes \in TestOutcomes
<1>1. Init => Typed
  BY EmptyType DEF Init
<1>2. Typed /\ [Next]_vars => Typed'
  <2> SUFFICES ASSUME Typed, [Next]_vars PROVE Typed'
    OBVIOUS
  <2>1. CASE Next
    <3>1. PICK r \in Report : rows' = Append(rows, r) /\ outcomes' = UpdateTestOutcome(outcomes, r)
      BY <2>1, NextReports DEF Reports
    <3> QED
      BY <3>1, UpdateType
  <2>2. CASE UNCHANGED vars
    BY <2>2 DEF vars
  <2> QED
    BY <2>1, <2>2
<1>3. Typed => TypeOK
  BY DEF TypeOK
<1> QED
  BY <1>1, <1>2, <1>3, PTL DEF Spec

\* For any number of tests, and however their reports interleave, the outcomes
\* tracked in memory are those the stored reports define.
THEOREM TrackingFollowsRows == Spec => []TrackingMatchesRows
<1>1. TrackingInv => TrackingMatchesRows
  BY DEF TrackingInv
<1> QED
  BY TrackingInit, TrackingNext, <1>1, PTL DEF Spec

-----------------------------------------------------------------------------
(* What pytest reports *)

\* No test reports a phase twice.
ReportsOnce ==
    \A i, j \in DOMAIN rows :
        rows[i].nodeid = rows[j].nodeid /\ rows[i].when = rows[j].when => i = j

\* A call follows a setup that passed; a teardown, after which a worker has nothing
\* to die of, follows a call or a setup that did not pass.
PhasesInOrder ==
    \A n \in Nodes :
        /\ HasReported(n, "call") => SetupPassed(n)
        /\ HasReported(n, "teardown") =>
              /\ HasReported(n, "call") \/ (HasReported(n, "setup") /\ ~SetupPassed(n))
              /\ ~HasReported(n, NoPhase)

\* Which reports there are.
PytestReports ==
    \A i \in DOMAIN rows :
        /\ rows[i].wasxfail => \/ rows[i].outcome = "skipped"
                               \/ rows[i].outcome = "passed" /\ rows[i].when = "call"
        /\ rows[i].when = NoPhase => rows[i].outcome = "failed"

\* Every test that has reported has a first report.
FirstReports ==
    \A n \in NodesOf(rows) :
        \E i \in DOMAIN rows : rows[i].nodeid = n /\ \A j \in 1 .. i - 1 : rows[j].nodeid # n

RunInv == TrackingInv /\ ReportsOnce /\ PhasesInOrder /\ PytestReports /\ FirstReports

LEMMA HasAppend ==
    ASSUME rows \in Seq(Report), NEW r \in Report, rows' = Append(rows, r)
    PROVE  /\ \A n, phase : HasReported(n, phase)'
                 <=> HasReported(n, phase) \/ (r.nodeid = n /\ r.when = phase)
           /\ \A n : SetupPassed(n)'
                 <=> SetupPassed(n) \/ (r.nodeid = n /\ r.when = "setup" /\ r.outcome = "passed")
<1>1. ASSUME NEW n, NEW phase
      PROVE  HasReported(n, phase)'
                 <=> HasReported(n, phase) \/ (r.nodeid = n /\ r.when = phase)
  BY ReportsOfAppend DEF HasReported
<1>2. ASSUME NEW n
      PROVE  SetupPassed(n)'
                 <=> SetupPassed(n) \/ (r.nodeid = n /\ r.when = "setup" /\ r.outcome = "passed")
  BY ReportedAppend DEF SetupPassed
<1> QED
  BY <1>1, <1>2

LEMMA RunInit == Init => RunInv
<1> SUFFICES ASSUME Init PROVE RunInv
  OBVIOUS
<1>1. DOMAIN rows = {}
  BY DEF Init
<1>2. ReportsOnce /\ PytestReports
  BY <1>1 DEF ReportsOnce, PytestReports
<1>4. FirstReports
  BY <1>1 DEF FirstReports, NodesOf
<1>3. PhasesInOrder
  BY <1>1 DEF PhasesInOrder, HasReported, ReportsOf
<1> QED
  BY <1>2, <1>3, <1>4, TrackingInit DEF RunInv

LEMMA RunStep ==
    ASSUME RunInv, NEW r, Reports(r)
    PROVE  RunInv'
<1>1. rows \in Seq(Report) /\ r \in Report /\ rows' = Append(rows, r) /\ Legal(r)
  BY DEF RunInv, TrackingInv, Reports
<1>2. /\ Len(rows) \in Nat
      /\ DOMAIN rows = 1 .. Len(rows) /\ DOMAIN rows' = 1 .. Len(rows) + 1
      /\ \A i \in DOMAIN rows : rows'[i] = rows[i]
      /\ rows'[Len(rows) + 1] = r
  BY <1>1, AppendValues
<1>3. DOMAIN rows' = DOMAIN rows \cup {Len(rows) + 1}
  BY <1>2
<1>4. ReportsOnce'
  <2>1. \A i \in DOMAIN rows : ~(rows[i].nodeid = r.nodeid /\ rows[i].when = r.when)
    BY <1>1 DEF Legal, HasReported, ReportsOf
  <2> QED
    BY <1>2, <1>3, <2>1 DEF RunInv, ReportsOnce
<1>5. PhasesInOrder'
  <2> SUFFICES ASSUME NEW n \in Nodes
               PROVE  /\ HasReported(n, "call")' => SetupPassed(n)'
                      /\ HasReported(n, "teardown")' =>
                            /\ \/ HasReported(n, "call")'
                               \/ HasReported(n, "setup")' /\ ~SetupPassed(n)'
                            /\ ~HasReported(n, NoPhase)'
    BY DEF PhasesInOrder
  <2>1. /\ HasReported(n, "call") => SetupPassed(n)
        /\ HasReported(n, "teardown") =>
              /\ HasReported(n, "call") \/ (HasReported(n, "setup") /\ ~SetupPassed(n))
              /\ ~HasReported(n, NoPhase)
    BY DEF RunInv, PhasesInOrder
  <2>2. CASE r.nodeid = n
    BY <1>1, <2>1, <2>2, HasAppend DEF Legal, NoPhase
  <2>3. CASE r.nodeid # n
    BY <1>1, <2>1, <2>3, HasAppend
  <2> QED
    BY <2>2, <2>3
<1>6. PytestReports'
  BY <1>1, <1>2, <1>3 DEF RunInv, PytestReports, Legal
<1>7. TrackingInv'
  BY <1>1, ServerStep DEF RunInv, Reports
<1>8. FirstReports'
  <2> SUFFICES ASSUME NEW n \in NodesOf(rows')
               PROVE  \E i \in DOMAIN rows' :
                         rows'[i].nodeid = n /\ \A j \in 1 .. i - 1 : rows'[j].nodeid # n
    BY DEF FirstReports
  <2>1. CASE n \in NodesOf(rows)
    <3>1. PICK i \in DOMAIN rows : /\ rows[i].nodeid = n
                                   /\ \A j \in 1 .. i - 1 : rows[j].nodeid # n
      BY <2>1 DEF RunInv, FirstReports
    <3>2. \A j \in 1 .. i - 1 : j \in DOMAIN rows
      BY <1>2
    <3> QED
      BY <1>2, <1>3, <3>1, <3>2
  <2>2. CASE n \notin NodesOf(rows)
    <3>1. r.nodeid = n
      BY <1>1, <2>2, NodesOfAppend
    <3>2. \A j \in DOMAIN rows : rows[j].nodeid # n
      BY <2>2 DEF NodesOf
    <3>3. \A j \in 1 .. (Len(rows) + 1) - 1 : j \in DOMAIN rows
      BY <1>2
    <3> QED
      BY <1>2, <1>3, <3>1, <3>2, <3>3
  <2> QED
    BY <2>1, <2>2
<1> QED
  BY <1>4, <1>5, <1>6, <1>7, <1>8 DEF RunInv

LEMMA RunTheorem == Spec => []RunInv
<1>1. RunInv /\ [Next]_vars => RunInv'
  <2> SUFFICES ASSUME RunInv, [Next]_vars PROVE RunInv'
    OBVIOUS
  <2>1. CASE Next
    BY <2>1, NextReports, RunStep
  <2>2. CASE UNCHANGED vars
    BY <2>2 DEF vars, RunInv, TrackingInv, TrackingMatchesRows, ReportsOnce, PhasesInOrder,
                PytestReports, HasReported, SetupPassed, FirstReports
  <2> QED
    BY <2>1, <2>2
<1> QED
  BY RunInit, <1>1, PTL DEF Spec

-----------------------------------------------------------------------------
(* Counting reports, tests and entries *)

LEMMA RowFacts ==
    ASSUME RunInv
    PROVE  /\ rows \in Seq(Report) /\ IsFiniteSet(DOMAIN rows)
           /\ \A i \in DOMAIN rows : rows[i] \in Report /\ rows[i].nodeid \in Nodes
           /\ outcomes = OutcomesOf(rows) /\ DOMAIN outcomes = NodesOf(rows)
           /\ NodesOf(rows) \subseteq Nodes
<1>1. rows \in Seq(Report) /\ outcomes = OutcomesOf(rows)
  BY DEF RunInv, TrackingInv, TrackingMatchesRows
<1>2. DOMAIN rows = 1 .. Len(rows) /\ Len(rows) \in Nat
  BY <1>1
<1>3. IsFiniteSet(DOMAIN rows)
  BY <1>2, FS_Interval
<1>4. \A i \in DOMAIN rows : rows[i] \in Report /\ rows[i].nodeid \in Nodes
  <2>1. \A i \in DOMAIN rows : rows[i] \in Report
    BY <1>1
  <2> QED
    BY <2>1 DEF Report
<1>5. DOMAIN outcomes = NodesOf(rows)
  BY <1>1 DEF OutcomesOf
<1>6. NodesOf(rows) \subseteq Nodes
  BY <1>4 DEF NodesOf
<1> QED
  BY <1>1, <1>3, <1>4, <1>5, <1>6

\* The only report of a test in a phase is the latest and the one shown.
LEMMA Single ==
    ASSUME RunInv, NEW i \in DOMAIN rows, NEW n, n = rows[i].nodeid, NEW phase, phase = rows[i].when
    PROVE  /\ ReportsOf(rows, n, phase) = {i}
           /\ HasReported(n, phase)
           /\ GroupedByPhase(rows, n, phase) = rows[i]
           /\ \A o : Reported(rows, n, phase, o) <=> rows[i].outcome = o
           /\ phase = "call" => LatestCallOutcome(rows, n) = rows[i].outcome
<1>1. ReportsOf(rows, n, phase) = {i}
  BY DEF RunInv, ReportsOnce, ReportsOf
<1>2. i <= i
  BY RowFacts
<1>3. GroupedByPhase(rows, n, phase) = rows[i]
  <2>1. (CHOOSE j \in ReportsOf(rows, n, phase) :
            \A k \in ReportsOf(rows, n, phase) : k <= j) = i
    BY <1>1, <1>2
  <2> QED
    BY <1>1, <2>1 DEF GroupedByPhase
<1>4. \A o : Reported(rows, n, phase, o) <=> rows[i].outcome = o
  BY <1>1 DEF Reported
<1>5. phase = "call" => LatestCallOutcome(rows, n) = rows[i].outcome
  <2>1. LatestOutcomes(rows, n, phase) = {rows[i].outcome}
    BY <1>1, <1>2 DEF LatestOutcomes
  <2>2. AnyOf({rows[i].outcome}) = rows[i].outcome
    BY DEF AnyOf
  <2> QED
    BY <1>1, <2>1, <2>2 DEF LatestCallOutcome
<1> QED
  BY <1>1, <1>3, <1>4, <1>5 DEF HasReported

LEMMA NoneReported ==
    ASSUME NEW n, NEW phase, ~HasReported(n, phase)
    PROVE  /\ GroupedByPhase(rows, n, phase) = None
           /\ \A o : ~Reported(rows, n, phase, o)
           /\ phase = "call" => LatestCallOutcome(rows, n) = None
BY DEF HasReported, GroupedByPhase, Reported, LatestCallOutcome

\* Both cases of a phase of a test.
LEMMA OneOrNone ==
    ASSUME RunInv, NEW n, NEW phase
    PROVE  \/ ~HasReported(n, phase)
           \/ \E i \in DOMAIN rows : rows[i].nodeid = n /\ rows[i].when = phase
BY DEF HasReported, ReportsOf

\* The reports with an outcome in a phase.
Found(phase, o) == {i \in DOMAIN rows : rows[i].when = phase /\ rows[i].outcome = o}

LEMMA TestsFound ==
    ASSUME RunInv, NEW phase, NEW o
    PROVE  /\ IsFiniteSet(Found(phase, o))
           /\ Cardinality({n \in NodesOf(rows) : Reported(rows, n, phase, o)})
                = Cardinality(Found(phase, o))
<1> DEFINE S == Found(phase, o)
           T == {n \in NodesOf(rows) : Reported(rows, n, phase, o)}
           f == [i \in S |-> rows[i].nodeid]
<1>1. IsFiniteSet(S)
  BY RowFacts, FS_Subset DEF Found
<1>2. ASSUME NEW i \in S
      PROVE  rows[i].nodeid \in T
  <2>1. i \in DOMAIN rows /\ rows[i].when = phase /\ rows[i].outcome = o
    BY DEF Found
  <2>2. Reported(rows, rows[i].nodeid, phase, o)
    BY <2>1, Single
  <2>3. rows[i].nodeid \in NodesOf(rows)
    BY <2>1 DEF NodesOf
  <2> QED
    BY <2>2, <2>3
<1>3. f \in [S -> T]
  BY <1>2
<1>4. \A x, y \in S : f[x] = f[y] => x = y
  BY DEF Found, RunInv, ReportsOnce
<1>5. \A t \in T : \E x \in S : f[x] = t
  BY DEF Found, Reported, ReportsOf
<1> HIDE DEF S, T, f
<1>6. Cardinality(T) = Cardinality(S)
  BY <1>1, <1>3, <1>4, <1>5, SameCount
<1> QED
  BY <1>1, <1>6 DEF S, T

\* A test is counted as failed when its call failed, and only then.
LEMMA FailedCalls ==
    ASSUME RunInv
    PROVE  Stats.failed = Cardinality(Found("call", "failed"))
<1>1. ASSUME NEW n \in NodesOf(rows)
      PROVE  CountedAs(outcomes[n]) = "failed" <=> Reported(rows, n, "call", "failed")
  <2> DEFINE e == OutcomeOf(rows, n)
  <2>1. outcomes[n] = e
    BY RowFacts DEF OutcomesOf
  <2>2. e.call_outcome = "failed" <=> Reported(rows, n, "call", "failed")
    <3>1. e.call_outcome = LatestCallOutcome(rows, n)
      BY DEF OutcomeOf
    <3>2. CASE ~HasReported(n, "call")
      BY <3>1, <3>2, NoneReported, NoneIsNoOutcome
    <3>3. CASE \E i \in DOMAIN rows : rows[i].nodeid = n /\ rows[i].when = "call"
      BY <3>1, <3>3, Single
    <3> QED
      BY <3>2, <3>3, OneOrNone
  <2> HIDE DEF e
  <2>3. None # "failed"
    BY NoneIsNoOutcome
  <2>4. CountedAs(e) = "failed" <=> e.call_outcome = "failed"
    BY <2>3 DEF CountedAs
  <2> QED
    BY <2>1, <2>2, <2>4
<1>2. {n \in DOMAIN outcomes : CountedAs(outcomes[n]) = "failed"}
        = {n \in NodesOf(rows) : Reported(rows, n, "call", "failed")}
  BY <1>1, RowFacts
<1>3. Stats.failed = Counted(outcomes, "failed")
  BY DEF Stats, CalculateSessionStats
<1> QED
  BY <1>2, <1>3, TestsFound DEF Counted

LEMMA ErrorsFound ==
    ASSUME RunInv
    PROVE  Stats.errors = Cardinality(Found("setup", "failed"))
                        + Cardinality(Found("teardown", "failed"))
<1>1. ASSUME NEW n \in NodesOf(rows)
      PROVE  /\ outcomes[n].has_setup_error <=> Reported(rows, n, "setup", "failed")
             /\ outcomes[n].has_teardown_error <=> Reported(rows, n, "teardown", "failed")
  BY RowFacts DEF OutcomesOf, OutcomeOf
<1>2. /\ {n \in DOMAIN outcomes : outcomes[n].has_setup_error}
           = {n \in NodesOf(rows) : Reported(rows, n, "setup", "failed")}
      /\ {n \in DOMAIN outcomes : outcomes[n].has_teardown_error}
           = {n \in NodesOf(rows) : Reported(rows, n, "teardown", "failed")}
  BY <1>1, RowFacts
<1>3. Stats.errors = Errors(outcomes)
  BY DEF Stats, CalculateSessionStats
<1> QED
  BY <1>2, <1>3, TestsFound DEF Errors

\* The failures of pytest's summary are those of calls and of workers that died, its
\* errors those of setups and teardowns.
LEMMA FailuresCounted == RunInv => FailuresMatchPytest
<1> SUFFICES ASSUME RunInv PROVE FailuresMatchPytest
  OBVIOUS
<1> DEFINE calls == Found("call", "failed")
           deaths == Found(NoPhase, "failed")
           setups == Found("setup", "failed")
           teardowns == Found("teardown", "failed")
<1>1. ASSUME NEW i \in DOMAIN rows
      PROVE  /\ TeststatusOf(rows[i]) = "failed" <=> i \in calls \cup deaths
             /\ TeststatusOf(rows[i]) = "errors" <=> i \in setups \cup teardowns
  <2>1. /\ rows[i].when \in {"setup", "call", "teardown", "???"}
        /\ rows[i].outcome \in {"passed", "failed", "skipped"}
        /\ rows[i].wasxfail \in BOOLEAN
    BY RowFacts DEF Report, Phase, NoPhase, Outcome
  <2>2. None # "failed" /\ None # "errors"
    BY NoneIsNoOutcome
  <2>3. TeststatusOf(rows[i]) = "failed"
          <=> rows[i].outcome = "failed" /\ rows[i].when \in {"call", "???"}
    BY <2>1, <2>2 DEF TeststatusOf
  <2>4. TeststatusOf(rows[i]) = "errors"
          <=> rows[i].outcome = "failed" /\ rows[i].when \in {"setup", "teardown"}
    BY <2>1, <2>2 DEF TeststatusOf
  <2> QED
    BY <2>3, <2>4 DEF Found, NoPhase
<1>2. /\ {i \in DOMAIN rows : TeststatusOf(rows[i]) = "failed"} = calls \cup deaths
      /\ {i \in DOMAIN rows : TeststatusOf(rows[i]) = "errors"} = setups \cup teardowns
  BY <1>1 DEF Found
<1>3. {n \in Nodes : HasReported(n, NoPhase)} = {n \in NodesOf(rows) : Reported(rows, n, NoPhase, "failed")}
  BY RowFacts DEF HasReported, Reported, ReportsOf, NodesOf, RunInv, PytestReports
<1>4. calls \cap deaths = {} /\ setups \cap teardowns = {}
  BY DEF Found, NoPhase
<1>5. /\ IsFiniteSet(calls) /\ IsFiniteSet(deaths) /\ IsFiniteSet(setups) /\ IsFiniteSet(teardowns)
      /\ Cardinality({n \in NodesOf(rows) : Reported(rows, n, NoPhase, "failed")}) = Cardinality(deaths)
  BY TestsFound
<1>6. Stats.failed = Cardinality(calls) /\ Stats.errors = Cardinality(setups) + Cardinality(teardowns)
  BY FailedCalls, ErrorsFound
<1> HIDE DEF calls, deaths, setups, teardowns
<1>7. /\ Cardinality(calls) \in Nat /\ Cardinality(deaths) \in Nat
      /\ Cardinality(setups) \in Nat /\ Cardinality(teardowns) \in Nat
  BY <1>5, FS_CardinalityType
<1>8. /\ Cardinality(calls \cup deaths) = Cardinality(calls) + Cardinality(deaths)
      /\ Cardinality(setups \cup teardowns) = Cardinality(setups) + Cardinality(teardowns)
  BY <1>4, <1>5, DisjointUnion
<1>9. /\ PytestCount("failed") = Cardinality(calls) + Cardinality(deaths)
      /\ PytestCount("errors") = Cardinality(setups) + Cardinality(teardowns)
  BY <1>2, <1>8 DEF PytestCount
<1> QED
  BY <1>3, <1>5, <1>6, <1>7, <1>9 DEF FailuresMatchPytest

\* The number of entries that reports in a phase become.
LEMMA EntriesFound ==
    ASSUME RunInv, NEW phase, NEW o, NEW c
    PROVE  LET E == {Entry(rows[i].nodeid, phase, c) : i \in Found(phase, o)}
           IN  IsFiniteSet(E) /\ Cardinality(E) = Cardinality(Found(phase, o))
<1> DEFINE S == Found(phase, o)
           E == {Entry(rows[i].nodeid, phase, c) : i \in S}
           f == [i \in S |-> Entry(rows[i].nodeid, phase, c)]
<1>1. IsFiniteSet(S)
  BY TestsFound
<1>2. f \in [S -> E]
  OBVIOUS
<1>3. \A x, y \in S : f[x] = f[y] => x = y
  <2> SUFFICES ASSUME NEW x \in S, NEW y \in S, f[x] = f[y] PROVE x = y
    OBVIOUS
  <2>1. f[x].nodeid = rows[x].nodeid /\ f[y].nodeid = rows[y].nodeid
    BY DEF Entry
  <2> QED
    BY <2>1 DEF Found, RunInv, ReportsOnce
<1>4. \A t \in E : \E x \in S : f[x] = t
  OBVIOUS
<1> HIDE DEF S, E, f
<1>5. IsFiniteSet(E) /\ Cardinality(E) = Cardinality(S)
  BY <1>1, <1>2, <1>3, <1>4, SameCount
<1> QED
  BY <1>5 DEF S, E

\* The reports that become main entries, and the categories of these.
Main(i) ==
    \/ rows[i].when = "call"
    \/ /\ rows[i].when = "setup" /\ rows[i].outcome # "failed"
       /\ ~HasReported(rows[i].nodeid, "call")

CategoryOf(i) == DetermineTestOutcome(rows[i].outcome, rows[i].xfail, rows[i].wasxfail)

LEMMA PhaseErrors ==
    ASSUME RunInv, NEW n, NEW phase, NEW e
    PROVE  e \in PhaseErrorEntries(rows, n, phase)
             <=> \E i \in Found(phase, "failed") :
                    rows[i].nodeid = n /\ e = Entry(n, phase, "error")
<1>1. CASE ~HasReported(n, phase)
  <2>1. \A i \in Found(phase, "failed") : rows[i].nodeid # n
    BY <1>1 DEF Found, HasReported, ReportsOf
  <2> QED
    BY <1>1, <2>1, NoneReported DEF PhaseErrorEntries
<1>2. ASSUME NEW i \in DOMAIN rows, rows[i].nodeid = n, rows[i].when = phase
      PROVE  e \in PhaseErrorEntries(rows, n, phase)
               <=> \E k \in Found(phase, "failed") :
                      rows[k].nodeid = n /\ e = Entry(n, phase, "error")
  <2>1. GroupedByPhase(rows, n, phase) = rows[i] /\ rows[i] # None
    BY <1>2, Single, RowFacts, NoneAssumption
  <2>2. e \in PhaseErrorEntries(rows, n, phase)
          <=> rows[i].outcome = "failed" /\ e = Entry(n, phase, "error")
    BY <2>1 DEF PhaseErrorEntries
  <2>3. \A k \in Found(phase, "failed") : rows[k].nodeid = n => k = i
    BY <1>2 DEF Found, RunInv, ReportsOnce
  <2>4. i \in Found(phase, "failed") <=> rows[i].outcome = "failed"
    BY <1>2 DEF Found
  <2> QED
    BY <1>2, <2>2, <2>3, <2>4
<1> QED
  BY <1>1, <1>2, OneOrNone

LEMMA Mains ==
    ASSUME RunInv, NEW n, NEW e
    PROVE  e \in MainEntries(rows, n)
             <=> \E i \in DOMAIN rows :
                    /\ rows[i].nodeid = n /\ Main(i)
                    /\ e = Entry(n, rows[i].when, CategoryOf(i))
<1>1. ASSUME NEW i \in DOMAIN rows, rows[i].nodeid = n, rows[i].when = "call"
      PROVE  e \in MainEntries(rows, n)
               <=> \E k \in DOMAIN rows :
                      /\ rows[k].nodeid = n /\ Main(k)
                      /\ e = Entry(n, rows[k].when, CategoryOf(k))
  <2>1. GroupedByPhase(rows, n, "call") = rows[i] /\ rows[i] # None
    BY <1>1, Single, RowFacts, NoneAssumption
  <2>2. e \in MainEntries(rows, n) <=> e = Entry(n, rows[i].when, CategoryOf(i))
    BY <2>1 DEF MainEntries, CategoryOf
  <2>3. HasReported(n, "call")
    BY <1>1, Single
  <2>4. \A k \in DOMAIN rows : rows[k].nodeid = n => (Main(k) <=> k = i)
    BY <1>1, <2>3 DEF Main, RunInv, ReportsOnce
  <2> QED
    BY <1>1, <2>2, <2>4
<1>2. ASSUME ~HasReported(n, "call"),
             NEW i \in DOMAIN rows, rows[i].nodeid = n, rows[i].when = "setup"
      PROVE  e \in MainEntries(rows, n)
               <=> \E k \in DOMAIN rows :
                      /\ rows[k].nodeid = n /\ Main(k)
                      /\ e = Entry(n, rows[k].when, CategoryOf(k))
  <2>1. /\ GroupedByPhase(rows, n, "setup") = rows[i] /\ rows[i] # None
        /\ GroupedByPhase(rows, n, "call") = None
    BY <1>2, Single, RowFacts, NoneReported, NoneAssumption
  <2>2. e \in MainEntries(rows, n)
          <=> rows[i].outcome # "failed" /\ e = Entry(n, rows[i].when, CategoryOf(i))
    BY <2>1 DEF MainEntries, CategoryOf
  <2>3. \A k \in DOMAIN rows : rows[k].nodeid = n => rows[k].when # "call"
    BY <1>2 DEF HasReported, ReportsOf
  <2>4. \A k \in DOMAIN rows :
           rows[k].nodeid = n => (Main(k) <=> k = i /\ rows[i].outcome # "failed")
    BY <1>2, <2>3 DEF Main, RunInv, ReportsOnce
  <2> QED
    BY <1>2, <2>2, <2>4
<1>3. ASSUME ~HasReported(n, "call"), ~HasReported(n, "setup")
      PROVE  e \in MainEntries(rows, n)
               <=> \E k \in DOMAIN rows :
                      /\ rows[k].nodeid = n /\ Main(k)
                      /\ e = Entry(n, rows[k].when, CategoryOf(k))
  <2>1. GroupedByPhase(rows, n, "setup") = None /\ GroupedByPhase(rows, n, "call") = None
    BY <1>3, NoneReported
  <2>2. e \notin MainEntries(rows, n)
    BY <2>1 DEF MainEntries
  <2>3. \A k \in DOMAIN rows : rows[k].nodeid = n => ~Main(k)
    BY <1>3 DEF Main, HasReported, ReportsOf
  <2> QED
    BY <2>2, <2>3
<1> QED
  BY <1>1, <1>2, <1>3, OneOrNone

\* What build_test_entries makes of the reports.
LEMMA EntriesShape ==
    ASSUME RunInv, NEW e
    PROVE  e \in BuildTestEntries(rows)
             <=> \/ \E i \in Found("setup", "failed") : e = Entry(rows[i].nodeid, "setup", "error")
                 \/ \E i \in Found("teardown", "failed") :
                       e = Entry(rows[i].nodeid, "teardown", "error")
                 \/ \E i \in DOMAIN rows :
                       Main(i) /\ e = Entry(rows[i].nodeid, rows[i].when, CategoryOf(i))
<1>1. e \in BuildTestEntries(rows)
        <=> \E n \in NodesOf(rows) : \/ e \in PhaseErrorEntries(rows, n, "setup")
                                     \/ e \in MainEntries(rows, n)
                                     \/ e \in PhaseErrorEntries(rows, n, "teardown")
  BY DEF BuildTestEntries
<1>2. \A i \in DOMAIN rows : rows[i].nodeid \in NodesOf(rows)
  BY DEF NodesOf
<1>3. \A phase, o : Found(phase, o) \subseteq DOMAIN rows
  BY DEF Found
<1>4. ASSUME NEW phase
      PROVE  (\E n \in NodesOf(rows) : e \in PhaseErrorEntries(rows, n, phase))
                <=> \E i \in Found(phase, "failed") : e = Entry(rows[i].nodeid, phase, "error")
  BY <1>2, <1>3, PhaseErrors
<1>5. (\E n \in NodesOf(rows) : e \in MainEntries(rows, n))
         <=> \E i \in DOMAIN rows :
                Main(i) /\ e = Entry(rows[i].nodeid, rows[i].when, CategoryOf(i))
  BY <1>2, Mains
<1> QED
  BY <1>1, <1>4, <1>5

LEMMA Categories ==
    ASSUME RunInv, NEW i \in DOMAIN rows
    PROVE  /\ rows[i].outcome \in {"passed", "failed", "skipped"}
           /\ rows[i].xfail \in BOOLEAN /\ rows[i].wasxfail \in BOOLEAN
           /\ CategoryOf(i) = IF rows[i].xfail /\ rows[i].outcome = "skipped" THEN "xfailed"
                              ELSE IF rows[i].xfail /\ rows[i].outcome = "passed" THEN "xpassed"
                              ELSE rows[i].outcome
<1>1. /\ rows[i].outcome \in {"passed", "failed", "skipped"}
      /\ rows[i].xfail \in BOOLEAN /\ rows[i].wasxfail \in BOOLEAN
  BY RowFacts DEF Report, Outcome
<1>2. rows[i].outcome # None
  BY <1>1, NoneIsNoOutcome
<1> QED
  BY <1>1, <1>2 DEF CategoryOf, DetermineTestOutcome

LEMMA EntryFields ==
    \A n, phase, c : /\ Entry(n, phase, c).nodeid = n
                     /\ Entry(n, phase, c).phase = phase
                     /\ Entry(n, phase, c).outcome = c
BY DEF Entry

LEMMA FailuresListed == RunInv => EntriesHideNoFailure
<1> SUFFICES ASSUME RunInv PROVE EntriesHideNoFailure
  OBVIOUS
<1> DEFINE entries(phase, c) == {Entry(rows[i].nodeid, phase, c) : i \in Found(phase, "failed")}
           calls == entries("call", "failed")
           setups == entries("setup", "error")
           teardowns == entries("teardown", "error")
<1>1. {e \in BuildTestEntries(rows) : e.outcome = "failed"} = calls
  <2>1. ASSUME NEW e, e \in BuildTestEntries(rows), e.outcome = "failed"
        PROVE  e \in calls
    <3>1. PICK i \in DOMAIN rows :
             Main(i) /\ e = Entry(rows[i].nodeid, rows[i].when, CategoryOf(i))
      BY <2>1, EntriesShape, EntryFields
    <3>2. CategoryOf(i) = "failed"
      BY <2>1, <3>1, EntryFields
    <3>3. rows[i].outcome = "failed"
      BY <3>2, Categories
    <3>4. rows[i].when = "call"
      BY <3>1, <3>3 DEF Main
    <3>5. i \in Found("call", "failed") /\ e = Entry(rows[i].nodeid, "call", "failed")
      BY <3>1, <3>2, <3>3, <3>4 DEF Found
    <3> QED
      BY <3>5
  <2>2. ASSUME NEW i \in Found("call", "failed")
        PROVE  Entry(rows[i].nodeid, "call", "failed") \in BuildTestEntries(rows)
    <3>1. i \in DOMAIN rows /\ rows[i].when = "call" /\ rows[i].outcome = "failed"
      BY DEF Found
    <3>2. CategoryOf(i) = "failed" /\ Main(i)
      BY <3>1, Categories DEF Main
    <3> QED
      BY <3>1, <3>2, EntriesShape
  <2> QED
    BY <2>1, <2>2, EntryFields
<1>2. {e \in BuildTestEntries(rows) : e.outcome = "error"} = setups \cup teardowns
  <2>1. ASSUME NEW e, e \in BuildTestEntries(rows), e.outcome = "error"
        PROVE  e \in setups \cup teardowns
    <3>1. \A i \in DOMAIN rows : CategoryOf(i) # "error"
      BY Categories
    <3>2. ~\E i \in DOMAIN rows : e = Entry(rows[i].nodeid, rows[i].when, CategoryOf(i))
      BY <2>1, <3>1, EntryFields
    <3> QED
      BY <2>1, <3>2, EntriesShape
  <2>2. ASSUME NEW e, e \in setups \cup teardowns
        PROVE  e \in BuildTestEntries(rows) /\ e.outcome = "error"
    BY <2>2, EntriesShape, EntryFields
  <2> QED
    BY <2>1, <2>2
<1>3. setups \cap teardowns = {}
  BY EntryFields
<1>4. /\ Cardinality(calls) = Cardinality(Found("call", "failed"))
      /\ IsFiniteSet(setups) /\ Cardinality(setups) = Cardinality(Found("setup", "failed"))
      /\ IsFiniteSet(teardowns)
      /\ Cardinality(teardowns) = Cardinality(Found("teardown", "failed"))
  BY EntriesFound
<1>5. ASSUME NEW e \in BuildTestEntries(rows), e.outcome = "passed",
             HasReported(e.nodeid, "teardown")
      PROVE  Reported(rows, e.nodeid, "call", "passed")
  <2>1. PICK i \in DOMAIN rows :
           Main(i) /\ e = Entry(rows[i].nodeid, rows[i].when, CategoryOf(i))
    BY <1>5, EntriesShape, EntryFields
  <2>2. e.nodeid = rows[i].nodeid /\ rows[i].outcome = "passed"
    BY <1>5, <2>1, EntryFields, Categories
  <2>3. CASE rows[i].when = "call"
    BY <2>2, <2>3, Single
  <2>4. CASE rows[i].when = "setup" /\ ~HasReported(e.nodeid, "call")
    <3>1. SetupPassed(e.nodeid)
      BY <2>2, <2>4, Single DEF SetupPassed
    <3>2. e.nodeid \in Nodes
      BY <2>2, RowFacts
    <3> QED
      BY <1>5, <2>4, <3>1, <3>2 DEF RunInv, PhasesInOrder
  <2> QED
    BY <2>1, <2>2, <2>3, <2>4 DEF Main
<1> HIDE DEF calls, setups, teardowns
<1>6. EntryCount("failed") = Stats.failed
  BY <1>1, <1>4, FailedCalls DEF EntryCount
<1>7. EntryCount("error") = Stats.errors
  BY <1>2, <1>3, <1>4, DisjointUnion, ErrorsFound DEF EntryCount
<1> QED
  BY <1>5, <1>6, <1>7 DEF EntriesHideNoFailure

-----------------------------------------------------------------------------
(* Ordinary runs *)

Five == {"passed", "failed", "skipped", "xfailed", "xpassed"}

LEMMA MainOnce ==
    ASSUME RunInv, NEW i \in DOMAIN rows, NEW j \in DOMAIN rows,
           rows[i].nodeid = rows[j].nodeid, Main(i), Main(j)
    PROVE  i = j
<1>1. ASSUME NEW k \in DOMAIN rows, rows[k].when = "call"
      PROVE  HasReported(rows[k].nodeid, "call")
  BY <1>1, Single
<1> QED
  BY <1>1 DEF Main, RunInv, ReportsOnce

\* In an ordinary run every test has a call, or a setup that did not pass.
LEMMA OrdinaryPhases ==
    ASSUME RunInv, Settled, NEW n \in NodesOf(rows)
    PROVE  /\ ~HasReported(n, NoPhase)
           /\ HasReported(n, "call") => SetupPassed(n)
           /\ ~HasReported(n, "call") => HasReported(n, "setup") /\ ~SetupPassed(n)
BY RowFacts DEF Settled, RunInv, PhasesInOrder

LEMMA OrdinaryRow ==
    ASSUME RunInv, Ordinary, Settled, NEW i \in DOMAIN rows, NEW c \in Five
    PROVE  TeststatusOf(rows[i]) = c <=> Main(i) /\ CategoryOf(i) = c
<1> DEFINE n == rows[i].nodeid
<1>1. n \in NodesOf(rows)
  BY DEF NodesOf
<1>2. rows[i].wasxfail <=> /\ rows[i].xfail
                           /\ \/ rows[i].outcome = "skipped"
                              \/ rows[i].when = "call" /\ rows[i].outcome = "passed"
  BY DEF Ordinary
<1>3. /\ rows[i].when \in {"setup", "call", "teardown", "???"}
      /\ rows[i].outcome \in {"passed", "failed", "skipped"}
  BY RowFacts, Categories DEF Report, Phase, NoPhase
<1>4. None # c /\ "errors" # c
  BY NoneIsNoOutcome DEF Five
<1>5. CASE rows[i].when = "call"
  <2>1. Main(i)
    BY <1>5 DEF Main
  <2>2. TeststatusOf(rows[i]) = CategoryOf(i)
    BY <1>2, <1>3, <1>5, Categories DEF TeststatusOf
  <2> QED
    BY <2>1, <2>2
<1>6. CASE rows[i].when = "setup" /\ HasReported(n, "call")
  <2>1. rows[i].outcome = "passed"
    BY <1>1, <1>6, OrdinaryPhases, Single DEF SetupPassed
  <2>2. TeststatusOf(rows[i]) = None
    BY <1>2, <1>6, <2>1 DEF TeststatusOf
  <2>3. ~Main(i)
    BY <1>6 DEF Main
  <2> QED
    BY <1>4, <2>2, <2>3
<1>7. CASE rows[i].when = "setup" /\ ~HasReported(n, "call")
  <2>1. rows[i].outcome # "passed"
    BY <1>1, <1>7, OrdinaryPhases, Single DEF SetupPassed
  <2>2. CASE rows[i].outcome = "failed"
    <3>1. TeststatusOf(rows[i]) = "errors"
      BY <1>2, <1>7, <2>2 DEF TeststatusOf
    <3>2. ~Main(i)
      BY <1>7, <2>2 DEF Main
    <3> QED
      BY <1>4, <3>1, <3>2
  <2>3. CASE rows[i].outcome = "skipped"
    <3>1. Main(i)
      BY <1>7, <2>3 DEF Main
    <3>2. TeststatusOf(rows[i]) = CategoryOf(i)
      BY <1>2, <1>7, <2>3, Categories DEF TeststatusOf
    <3> QED
      BY <3>1, <3>2
  <2> QED
    BY <1>3, <2>1, <2>2, <2>3
<1>8. CASE rows[i].when = "teardown"
  <2>1. rows[i].outcome # "skipped"
    BY <1>8 DEF Ordinary
  <2>2. TeststatusOf(rows[i]) \in {"errors", None}
    BY <1>2, <1>3, <1>8, <2>1 DEF TeststatusOf
  <2>3. ~Main(i)
    BY <1>8 DEF Main
  <2> QED
    BY <1>4, <2>2, <2>3
<1>9. rows[i].when # "???"
  BY <1>1, OrdinaryPhases, Single DEF NoPhase
<1> QED
  BY <1>3, <1>5, <1>6, <1>7, <1>8, <1>9

LEMMA OrdinaryTest ==
    ASSUME RunInv, Ordinary, Settled, NEW n \in NodesOf(rows), NEW c \in Five
    PROVE  CountedAs(outcomes[n]) = c
             <=> \E i \in DOMAIN rows : rows[i].nodeid = n /\ Main(i) /\ CategoryOf(i) = c
<1> DEFINE e == OutcomeOf(rows, n)
<1>1. outcomes[n] = e
  BY RowFacts DEF OutcomesOf
<1>2. /\ e.call_outcome = LatestCallOutcome(rows, n)
      /\ e.has_wasxfail = SetupWasxfail(rows, n)
      /\ e.has_xfail_marker = MarkedAtFirst(rows, n)
      /\ e.setup_skipped = Reported(rows, n, "setup", "skipped")
  BY DEF OutcomeOf
<1>3. \A i \in DOMAIN rows : rows[i].nodeid = n => (MarkedAtFirst(rows, n) <=> rows[i].xfail)
  <2> SUFFICES ASSUME NEW i \in DOMAIN rows, rows[i].nodeid = n
               PROVE  MarkedAtFirst(rows, n) <=> rows[i].xfail
    OBVIOUS
  <2>1. \A j \in DOMAIN rows : rows[j].nodeid = n => rows[j].xfail = rows[i].xfail
    BY DEF Ordinary
  <2>2. PICK j \in DOMAIN rows : rows[j].nodeid = n /\ \A k \in 1 .. j - 1 : rows[k].nodeid # n
    BY DEF RunInv, FirstReports
  <2> QED
    BY <2>1, <2>2 DEF MarkedAtFirst
<1> HIDE DEF e
<1>4. None \notin {"passed", "failed", "skipped", "xfailed", "xpassed"} /\ None # c
  BY NoneIsNoOutcome DEF Five
<1>5. ASSUME NEW i \in DOMAIN rows, rows[i].nodeid = n, Main(i), CountedAs(e) = CategoryOf(i)
      PROVE  CountedAs(e) = c
               <=> \E j \in DOMAIN rows : rows[j].nodeid = n /\ Main(j) /\ CategoryOf(j) = c
  BY <1>5, MainOnce
<1>6. ASSUME NEW i \in DOMAIN rows, rows[i].nodeid = n, rows[i].when = "call"
      PROVE  Main(i) /\ CountedAs(e) = CategoryOf(i)
  <2>1. e.call_outcome = rows[i].outcome
    BY <1>2, <1>6, Single
  <2>2. e.has_xfail_marker <=> rows[i].xfail
    BY <1>2, <1>3, <1>6
  <2>3. CountedAs(e) = CategoryOf(i)
    BY <1>4, <2>1, <2>2, Categories DEF CountedAs
  <2> QED
    BY <1>6, <2>3 DEF Main
<1>7. ASSUME ~HasReported(n, "call")
      PROVE  CountedAs(e) = c
               <=> \E j \in DOMAIN rows : rows[j].nodeid = n /\ Main(j) /\ CategoryOf(j) = c
  <2>1. HasReported(n, "setup") /\ ~SetupPassed(n)
    BY <1>7, OrdinaryPhases
  <2>2. PICK i \in DOMAIN rows : rows[i].nodeid = n /\ rows[i].when = "setup"
    BY <2>1, OneOrNone
  <2>3. rows[i].outcome \in {"failed", "skipped"}
    BY <2>1, <2>2, Single, Categories DEF SetupPassed
  <2>4. e.call_outcome = None
    BY <1>2, <1>7, NoneReported
  <2>5. ReportsOf(rows, n, "setup") = {i}
    BY <2>2, Single
  <2>6. /\ e.has_xfail_marker <=> rows[i].xfail
        /\ e.has_wasxfail <=> rows[i].wasxfail
        /\ e.setup_skipped <=> rows[i].outcome = "skipped"
    BY <1>2, <1>3, <2>2, <2>5 DEF SetupWasxfail, Reported
  <2>7. rows[i].wasxfail <=> rows[i].xfail /\ rows[i].outcome = "skipped"
    BY <2>2, <2>3 DEF Ordinary
  <2>8. CASE rows[i].outcome = "skipped"
    <3>1. Main(i)
      BY <1>7, <2>2, <2>8 DEF Main
    <3>2. CountedAs(e) = CategoryOf(i)
      BY <1>4, <2>4, <2>6, <2>7, <2>8, Categories DEF CountedAs
    <3> QED
      BY <1>5, <2>2, <3>1, <3>2
  <2>9. CASE rows[i].outcome = "failed"
    <3>1. CountedAs(e) = None
      BY <1>4, <2>4, <2>6, <2>7, <2>9 DEF CountedAs
    <3>2. \A j \in DOMAIN rows : rows[j].nodeid = n => ~Main(j)
      BY <1>7, <2>2, <2>9 DEF Main, HasReported, ReportsOf, RunInv, ReportsOnce
    <3> QED
      BY <1>4, <3>1, <3>2
  <2> QED
    BY <2>3, <2>8, <2>9
<1> QED
  BY <1>1, <1>5, <1>6, <1>7, OneOrNone

LEMMA OrdinaryEntry ==
    ASSUME RunInv, NEW e, NEW c \in Five
    PROVE  e \in BuildTestEntries(rows) /\ e.outcome = c
             <=> \E i \in DOMAIN rows : /\ Main(i) /\ CategoryOf(i) = c
                                        /\ e = Entry(rows[i].nodeid, rows[i].when, c)
<1>1. "error" # c
  BY DEF Five
<1> QED
  BY <1>1, EntriesShape, EntryFields

\* The tests in a counter, the reports in pytest's and the entries of the category are
\* counted by the same reports.
LEMMA OrdinaryCounts == RunInv => OrdinaryRunsAgree
<1> SUFFICES ASSUME RunInv, Ordinary, Settled, NEW c \in Five
             PROVE  Stats[c] = PytestCount(c) /\ Stats[c] = EntryCount(c)
  BY DEF OrdinaryRunsAgree, Five
<1> DEFINE S == {i \in DOMAIN rows : Main(i) /\ CategoryOf(i) = c}
           T == {n \in DOMAIN outcomes : CountedAs(outcomes[n]) = c}
           E == {e \in BuildTestEntries(rows) : e.outcome = c}
           f == [i \in S |-> rows[i].nodeid]
           g == [i \in S |-> Entry(rows[i].nodeid, rows[i].when, c)]
<1>1. Stats[c] = Cardinality(T)
  BY DEF Stats, CalculateSessionStats, Counted, Five
<1>2. {i \in DOMAIN rows : TeststatusOf(rows[i]) = c} = S
  BY OrdinaryRow
<1>3. PytestCount(c) = Cardinality(S)
  BY <1>2 DEF PytestCount
<1>4. EntryCount(c) = Cardinality(E)
  BY DEF EntryCount
<1>5. IsFiniteSet(S)
  BY RowFacts, FS_Subset
<1>6. DOMAIN outcomes = NodesOf(rows) /\ \A i \in DOMAIN rows : rows[i].nodeid \in NodesOf(rows)
  BY RowFacts DEF NodesOf
<1>7. f \in [S -> T] /\ \A n \in T : \E i \in S : f[i] = n
  BY <1>6, OrdinaryTest
<1>8. g \in [S -> E] /\ \A e \in E : \E i \in S : g[i] = e
  BY OrdinaryEntry
<1>9. \A x, y \in S : f[x] = f[y] => x = y
  BY MainOnce
<1>10. \A x, y \in S : g[x] = g[y] => x = y
  BY MainOnce, EntryFields
<1> HIDE DEF S, T, E, f, g
<1>11. Cardinality(T) = Cardinality(S)
  BY <1>5, <1>7, <1>9, SameCount
<1>12. Cardinality(E) = Cardinality(S)
  BY <1>5, <1>8, <1>10, SameCount
<1> QED
  BY <1>1, <1>3, <1>4, <1>11, <1>12

-----------------------------------------------------------------------------
(* Theorems *)

\* For any number of tests, no failure is hidden or invented by calculate_session_stats:
\* of the failures in pytest's summary only those of workers that died are not counted.
THEOREM FailuresTheorem == Spec => []FailuresMatchPytest
BY RunTheorem, FailuresCounted, PTL

\* For any number of tests, the page lists the failures and errors that its header
\* announces, the former from the rows, the latter from memory; and a test that has
\* ended is listed as passed only if its call passed.
THEOREM EntriesTheorem == Spec => []EntriesHideNoFailure
BY RunTheorem, FailuresListed, PTL

\* For any number of tests: once the tests of a run without dynamic markers have ended,
\* calculate_session_stats, pytest's summary and build_test_entries agree on how many
\* tests passed, failed, were skipped, xfailed and xpassed.
THEOREM OrdinaryTheorem == Spec => []OrdinaryRunsAgree
BY RunTheorem, OrdinaryCounts, PTL
=============================================================================
