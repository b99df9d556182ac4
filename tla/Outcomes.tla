------------------------------ MODULE Outcomes ------------------------------
(***************************************************************************)
(* The pure core of the server: what one pytest report does to the         *)
(* in-memory outcome of its test, how outcomes become the counters of a    *)
(* session (utils.py), and how stored reports become the entries of the    *)
(* session page (services/entry_builder.py).                               *)
(*                                                                         *)
(* A report keeps what the properties tell apart: nodeid, phase, outcome,  *)
(* whether "xfail" is among its keywords, whether it carries "wasxfail",   *)
(* and its start and stop times.  longrepr, sections, location and the     *)
(* display strings are left out.                                           *)
(***************************************************************************)
EXTENDS Integers, FiniteSets, Sequences

CONSTANTS Nodes,    \* the nodeids of the tests
          None      \* Python's None

ASSUME NodesAssumption == IsFiniteSet(Nodes)

Phase   == {"setup", "call", "teardown"}
Outcome == {"passed", "failed", "skipped"}
Time    == Int \cup {None}

\* pytest-xdist reports a test whose worker died as failed in no phase; the
\* server stores any "when".
NoPhase == "???"

Report == [nodeid : Nodes, when : Phase \cup {NoPhase}, outcome : Outcome,
           xfail : BOOLEAN, wasxfail : BOOLEAN, start : Time, stop : Time]

ASSUME NoneAssumption ==
    /\ None \notin Int /\ None \notin Report
    /\ None \notin Outcome \cup {"xfailed", "xpassed", "errors"}

-----------------------------------------------------------------------------
(* The tracking entry of one test *)

TestOutcome == [call_outcome : Outcome \cup {None},
                has_setup_error : BOOLEAN, has_teardown_error : BOOLEAN,
                has_xfail_marker : BOOLEAN, has_wasxfail : BOOLEAN,
                setup_skipped : BOOLEAN]

\* What active_sessions[id]["test_outcomes"] may be.
TestOutcomes == UNION {[N -> TestOutcome] : N \in SUBSET Nodes}

CreateTestOutcomeEntry(r) ==
    [call_outcome |-> None,
     has_setup_error |-> FALSE, has_teardown_error |-> FALSE,
     has_xfail_marker |-> r.xfail, has_wasxfail |-> FALSE,
     setup_skipped |-> FALSE]

\* Faulty variants of the next definition, for the mutation runs: the outcome
\* of any phase taken for the call's; phase and outcome swapped.
AppliedAnyPhase(e, r) == [e EXCEPT !.call_outcome = r.outcome]
AppliedSwapped(e, r)  == [e EXCEPT !.call_outcome = r.when]

\* The entry e of r's test once r has been applied to it.
Applied(e, r) ==
    [e EXCEPT !.call_outcome = IF r.when = "call" THEN r.outcome ELSE @,
              !.has_setup_error = @ \/ (r.when = "setup" /\ r.outcome = "failed"),
              !.setup_skipped = @ \/ (r.when = "setup" /\ r.outcome = "skipped"),
              !.has_wasxfail = @ \/ (r.when = "setup" /\ r.wasxfail),
              !.has_teardown_error = @ \/ (r.when = "teardown" /\ r.outcome = "failed")]

UpdateTestOutcome(outcomes, r) ==
    [n \in DOMAIN outcomes \cup {r.nodeid} |->
        IF n # r.nodeid THEN outcomes[n]
        ELSE Applied(IF n \in DOMAIN outcomes THEN outcomes[n]
                     ELSE CreateTestOutcomeEntry(r), r)]

-----------------------------------------------------------------------------
(* The counters of a session *)

\* Faulty variants: a strict xpass forgiven; xfail(run=False) overlooked.
CountedAsLenient(e) ==
    IF e.has_xfail_marker /\ e.call_outcome = "failed" THEN "xfailed" ELSE e.call_outcome
CountedAsNoWasxfail(e) ==
    IF e.has_xfail_marker
    THEN CASE e.call_outcome = "skipped" -> "xfailed"
           [] e.call_outcome = "passed"  -> "xpassed"
           [] OTHER                      -> e.call_outcome
    ELSE IF e.call_outcome = None /\ e.setup_skipped THEN "skipped"
    ELSE e.call_outcome

\* The counter a test adds one to; None when it is in no counter but the total.
CountedAs(e) ==
    IF e.has_wasxfail /\ e.call_outcome = None THEN "xfailed"
    ELSE IF e.has_xfail_marker
    THEN CASE e.call_outcome = "skipped" -> "xfailed"
           [] e.call_outcome = "passed"  -> "xpassed"
           [] e.call_outcome = "failed"  -> "failed"
           [] OTHER                      -> None
    ELSE IF e.call_outcome = None /\ e.setup_skipped THEN "skipped"
    ELSE e.call_outcome

SessionStats == [total_tests : Nat, passed : Nat, failed : Nat, skipped : Nat,
                 xfailed : Nat, xpassed : Nat, errors : Nat]

Counted(outcomes, c) ==
    Cardinality({n \in DOMAIN outcomes : CountedAs(outcomes[n]) = c})

Errors(outcomes) ==
    Cardinality({n \in DOMAIN outcomes : outcomes[n].has_setup_error})
  + Cardinality({n \in DOMAIN outcomes : outcomes[n].has_teardown_error})

CalculateSessionStats(outcomes) ==
    [total_tests |-> Cardinality(DOMAIN outcomes),
     passed  |-> Counted(outcomes, "passed"),  failed  |-> Counted(outcomes, "failed"),
     skipped |-> Counted(outcomes, "skipped"), xfailed |-> Counted(outcomes, "xfailed"),
     xpassed |-> Counted(outcomes, "xpassed"), errors  |-> Errors(outcomes)]

UpdateTimestampBounds(b, r) ==
    [min_start |-> IF r.start # None /\ (b.min_start = None \/ r.start < b.min_start)
                   THEN r.start ELSE b.min_start,
     max_stop  |-> IF r.stop # None /\ (b.max_stop = None \/ r.stop > b.max_stop)
                   THEN r.stop ELSE b.max_stop]

-----------------------------------------------------------------------------
(* The same outcomes, defined from all the reports of a session at once:   *)
(* the reference the incremental UpdateTestOutcome is compared with.       *)

ReportsOf(rows, n, phase) ==
    {i \in DOMAIN rows : rows[i].nodeid = n /\ rows[i].when = phase}

NodesOf(rows) == {rows[i].nodeid : i \in DOMAIN rows}

\* The outcome of the latest report of n in phase: one element, or none.
LatestOutcomes(rows, n, phase) ==
    {rows[i].outcome : i \in {j \in ReportsOf(rows, n, phase) :
                                \A k \in ReportsOf(rows, n, phase) : k <= j}}

AnyOf(S) == CHOOSE x \in S : TRUE

LatestCallOutcome(rows, n) ==
    IF ReportsOf(rows, n, "call") = {} THEN None
    ELSE AnyOf(LatestOutcomes(rows, n, "call"))

Reported(rows, n, phase, outcome) ==
    \E i \in ReportsOf(rows, n, phase) : rows[i].outcome = outcome

\* The earliest report of n has the keyword.
MarkedAtFirst(rows, n) ==
    \E i \in DOMAIN rows : /\ rows[i].nodeid = n
                           /\ rows[i].xfail
                           /\ \A j \in 1 .. i - 1 : rows[j].nodeid # n

SetupWasxfail(rows, n) == \E i \in ReportsOf(rows, n, "setup") : rows[i].wasxfail

OutcomeOf(rows, n) ==
    [call_outcome |-> LatestCallOutcome(rows, n),
     has_setup_error |-> Reported(rows, n, "setup", "failed"),
     has_teardown_error |-> Reported(rows, n, "teardown", "failed"),
     has_xfail_marker |-> MarkedAtFirst(rows, n),
     has_wasxfail |-> SetupWasxfail(rows, n),
     setup_skipped |-> Reported(rows, n, "setup", "skipped")]

OutcomesOf(rows) == [n \in NodesOf(rows) |-> OutcomeOf(rows, n)]

-----------------------------------------------------------------------------
(* The entries of the session page *)

\* The label and category of a report.  A stored report always has an
\* outcome; the unknown outcomes the source also labels do not reach it.
DetermineTestOutcome(outcome, has_xfail, has_wasxfail) ==
    CASE has_xfail /\ outcome = "skipped" -> "xfailed"
      [] has_xfail /\ outcome = "passed"  -> "xpassed"
      [] has_xfail /\ outcome = None /\ has_wasxfail -> "xfailed"
      [] outcome = None /\ ~(has_xfail /\ has_wasxfail) -> "unknown"
      [] OTHER -> outcome

\* The report shown for a phase: a later one replaces an earlier one.
GroupedByPhase(rows, n, phase) ==
    IF ReportsOf(rows, n, phase) = {} THEN None
    ELSE rows[CHOOSE i \in ReportsOf(rows, n, phase) :
                \A k \in ReportsOf(rows, n, phase) : k <= i]

Entry(n, phase, category) == [nodeid |-> n, phase |-> phase, outcome |-> category]

\* At most one main entry per test, from its call phase, else from a setup
\* phase that did not fail.
MainEntries(rows, n) ==
    LET setup == GroupedByPhase(rows, n, "setup")
        call  == GroupedByPhase(rows, n, "call")
        EntryFor(r) == Entry(n, r.when,
                             DetermineTestOutcome(r.outcome, r.xfail, r.wasxfail))
    IN  IF call # None THEN {EntryFor(call)}
        ELSE IF setup # None /\ setup.outcome # "failed" THEN {EntryFor(setup)}
        ELSE {}

\* Faulty variant: an error entry for a phase that did not pass.
PhaseErrorEntriesNotPassed(rows, n, phase) ==
    LET r == GroupedByPhase(rows, n, phase)
    IN  IF r # None /\ r.outcome # "passed" THEN {Entry(n, phase, "error")} ELSE {}

PhaseErrorEntries(rows, n, phase) ==
    LET r == GroupedByPhase(rows, n, phase)
    IN  IF r # None /\ r.outcome = "failed" THEN {Entry(n, phase, "error")} ELSE {}

BuildTestEntries(rows) ==
    UNION {PhaseErrorEntries(rows, n, "setup") \cup MainEntries(rows, n)
             \cup PhaseErrorEntries(rows, n, "teardown") : n \in NodesOf(rows)}
=============================================================================
