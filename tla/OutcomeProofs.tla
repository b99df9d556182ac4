--------------------------- MODULE OutcomeProofs ---------------------------
(***************************************************************************)
(* The outcomes tracked one report at a time are those that all reports    *)
(* together define, for every sequence of reports.                         *)
(***************************************************************************)
EXTENDS Outcomes, FiniteSetTheorems, TLAPS

LEMMA AppendValues ==
    ASSUME NEW rows \in Seq(Report), NEW r \in Report
    PROVE  /\ Len(rows) \in Nat
           /\ DOMAIN rows = 1 .. Len(rows)
           /\ DOMAIN Append(rows, r) = 1 .. Len(rows) + 1
           /\ \A i \in 1 .. Len(rows) : Append(rows, r)[i] = rows[i]
           /\ Append(rows, r)[Len(rows) + 1] = r
           /\ \A i \in 1 .. Len(rows) : rows[i] \in Report
OBVIOUS

\* The new report joins the reports of its own test and phase.
LEMMA ReportsOfAppend ==
    ASSUME NEW rows \in Seq(Report), NEW r \in Report, NEW n, NEW phase
    PROVE  /\ ReportsOf(rows, n, phase) \subseteq 1 .. Len(rows)
           /\ ReportsOf(Append(rows, r), n, phase)
                = IF r.nodeid = n /\ r.when = phase
                  THEN ReportsOf(rows, n, phase) \cup {Len(rows) + 1}
                  ELSE ReportsOf(rows, n, phase)
BY AppendValues DEF ReportsOf

LEMMA NodesOfAppend ==
    ASSUME NEW rows \in Seq(Report), NEW r \in Report
    PROVE  NodesOf(Append(rows, r)) = NodesOf(rows) \cup {r.nodeid}
<1>1. ASSUME NEW n
      PROVE  n \in NodesOf(Append(rows, r)) <=> n \in NodesOf(rows) \/ n = r.nodeid
  BY AppendValues DEF NodesOf
<1> QED
  BY <1>1

LEMMA ReportedAppend ==
    ASSUME NEW rows \in Seq(Report), NEW r \in Report, NEW n, NEW phase, NEW o
    PROVE  Reported(Append(rows, r), n, phase, o)
             <=> \/ Reported(rows, n, phase, o)
                 \/ r.nodeid = n /\ r.when = phase /\ r.outcome = o
BY AppendValues, ReportsOfAppend DEF Reported

LEMMA WasxfailAppend ==
    ASSUME NEW rows \in Seq(Report), NEW r \in Report, NEW n
    PROVE  SetupWasxfail(Append(rows, r), n)
             <=> \/ SetupWasxfail(rows, n)
                 \/ r.nodeid = n /\ r.when = "setup" /\ r.wasxfail
BY AppendValues, ReportsOfAppend DEF SetupWasxfail

\* A later report never changes which report of a test is its first.
LEMMA MarkedAppend ==
    ASSUME NEW rows \in Seq(Report), NEW r \in Report, NEW n
    PROVE  /\ n \in NodesOf(rows)
                => (MarkedAtFirst(Append(rows, r), n) <=> MarkedAtFirst(rows, n))
           /\ n \notin NodesOf(rows) /\ r.nodeid = n
                => (MarkedAtFirst(Append(rows, r), n) <=> r.xfail)
BY AppendValues, SMTT(30) DEF MarkedAtFirst, NodesOf

\* The latest call outcome is the new report's if that is a call of the test.
LEMMA CallAppend ==
    ASSUME NEW rows \in Seq(Report), NEW r \in Report, NEW n
    PROVE  LatestCallOutcome(Append(rows, r), n)
             = IF r.nodeid = n /\ r.when = "call" THEN r.outcome
               ELSE LatestCallOutcome(rows, n)
<1> DEFINE new == Append(rows, r)
           last == Len(rows) + 1
<1>1. CASE r.nodeid = n /\ r.when = "call"
  <2>1. /\ ReportsOf(new, n, "call") = ReportsOf(rows, n, "call") \cup {last}
        /\ \A k \in ReportsOf(new, n, "call") : k <= last
        /\ \A k \in ReportsOf(rows, n, "call") : ~(last <= k)
    BY <1>1, AppendValues, ReportsOfAppend
  <2>2. {j \in ReportsOf(new, n, "call") :
            \A k \in ReportsOf(new, n, "call") : k <= j} = {last}
    BY <2>1
  <2>3. LatestOutcomes(new, n, "call") = {r.outcome}
    BY <2>2, AppendValues DEF LatestOutcomes
  <2>4. AnyOf({r.outcome}) = r.outcome
    BY DEF AnyOf
  <2> QED
    BY <1>1, <2>1, <2>3, <2>4 DEF LatestCallOutcome
<1>2. CASE ~(r.nodeid = n /\ r.when = "call")
  <2>1. ReportsOf(new, n, "call") = ReportsOf(rows, n, "call")
    BY <1>2, ReportsOfAppend
  <2>2. \A i \in ReportsOf(rows, n, "call") : new[i] = rows[i]
    BY AppendValues, ReportsOfAppend
  <2>3. LatestOutcomes(new, n, "call") = LatestOutcomes(rows, n, "call")
    BY <2>1, <2>2 DEF LatestOutcomes
  <2>4. LatestCallOutcome(new, n) = LatestCallOutcome(rows, n)
    BY <2>1, <2>3 DEF LatestCallOutcome
  <2> QED
    BY <1>2, <2>4
<1> QED
  BY <1>1, <1>2

LEMMA ReportedBoolean ==
    \A rows, n, phase, o : Reported(rows, n, phase, o) \in BOOLEAN
BY DEF Reported

LEMMA MarkedBoolean == \A rows, n : MarkedAtFirst(rows, n) \in BOOLEAN
BY DEF MarkedAtFirst

LEMMA WasxfailBoolean == \A rows, n : SetupWasxfail(rows, n) \in BOOLEAN
BY DEF SetupWasxfail

\* A report changes nothing for the other tests.
LEMMA OutcomeOfOther ==
    ASSUME NEW rows \in Seq(Report), NEW r \in Report, NEW n \in NodesOf(rows),
           r.nodeid # n
    PROVE  OutcomeOf(Append(rows, r), n) = OutcomeOf(rows, n)
<1> DEFINE new == Append(rows, r)
<1>1. LatestCallOutcome(new, n) = LatestCallOutcome(rows, n)
  BY CallAppend
<1>2. \A phase, o : Reported(new, n, phase, o) = Reported(rows, n, phase, o)
  <2>1. \A phase, o : Reported(new, n, phase, o) <=> Reported(rows, n, phase, o)
    BY ReportedAppend
  <2> QED
    BY <2>1, ReportedBoolean
<1>3. MarkedAtFirst(new, n) = MarkedAtFirst(rows, n)
  BY MarkedAppend, MarkedBoolean
<1>4. SetupWasxfail(new, n) = SetupWasxfail(rows, n)
  BY WasxfailAppend, WasxfailBoolean
<1> HIDE DEF new
<1>5. OutcomeOf(new, n) = OutcomeOf(rows, n)
  BY <1>1, <1>2, <1>3, <1>4, Zenon DEF OutcomeOf
<1> QED
  BY <1>5 DEF new

\* Entries whose call outcome is in C.
EntryCalled(C) == [call_outcome : C, has_setup_error : BOOLEAN,
                has_teardown_error : BOOLEAN, has_xfail_marker : BOOLEAN,
                has_wasxfail : BOOLEAN, setup_skipped : BOOLEAN]

LEMMA AppliedFields ==
    ASSUME NEW C, NEW e \in EntryCalled(C), NEW r \in Report, r.outcome \in C
    PROVE  /\ Applied(e, r) \in EntryCalled(C)
           /\ Applied(e, r).call_outcome
                 = IF r.when = "call" THEN r.outcome ELSE e.call_outcome
           /\ Applied(e, r).has_setup_error
                 = (e.has_setup_error \/ (r.when = "setup" /\ r.outcome = "failed"))
           /\ Applied(e, r).has_teardown_error
                 = (e.has_teardown_error \/ (r.when = "teardown" /\ r.outcome = "failed"))
           /\ Applied(e, r).has_xfail_marker = e.has_xfail_marker
           /\ Applied(e, r).has_wasxfail
                 = (e.has_wasxfail \/ (r.when = "setup" /\ r.wasxfail))
           /\ Applied(e, r).setup_skipped
                 = (e.setup_skipped \/ (r.when = "setup" /\ r.outcome = "skipped"))
BY ZenonT(60) DEF Applied, EntryCalled, Report

\* For its own test it does what Applied says.
LEMMA OutcomeOfOwn ==
    ASSUME NEW rows \in Seq(Report), NEW r \in Report
    PROVE  OutcomeOf(Append(rows, r), r.nodeid)
             = Applied(IF r.nodeid \in NodesOf(rows) THEN OutcomeOf(rows, r.nodeid)
                       ELSE CreateTestOutcomeEntry(r), r)
<1> DEFINE new == Append(rows, r)
           n == r.nodeid
           old == IF n \in NodesOf(rows) THEN OutcomeOf(rows, n)
                  ELSE CreateTestOutcomeEntry(r)
<1>1. n \notin NodesOf(rows)
        => /\ \A phase : ReportsOf(rows, n, phase) = {}
           /\ LatestCallOutcome(rows, n) = None
           /\ \A phase, o : Reported(rows, n, phase, o) = FALSE
           /\ SetupWasxfail(rows, n) = FALSE
  <2>1. n \notin NodesOf(rows) => \A phase : ReportsOf(rows, n, phase) = {}
    BY DEF NodesOf, ReportsOf
  <2> QED
    BY <2>1 DEF LatestCallOutcome, Reported, SetupWasxfail
<1>2. /\ old.call_outcome = LatestCallOutcome(rows, n)
      /\ old.has_setup_error = Reported(rows, n, "setup", "failed")
      /\ old.has_teardown_error = Reported(rows, n, "teardown", "failed")
      /\ old.has_wasxfail = SetupWasxfail(rows, n)
      /\ old.setup_skipped = Reported(rows, n, "setup", "skipped")
  BY <1>1 DEF OutcomeOf, CreateTestOutcomeEntry
<1>3. old.has_xfail_marker = MarkedAtFirst(new, n)
  <2>1. CASE n \in NodesOf(rows)
    <3>1. MarkedAtFirst(new, n) = MarkedAtFirst(rows, n)
      BY <2>1, MarkedAppend, MarkedBoolean
    <3> QED
      BY <2>1, <3>1 DEF OutcomeOf
  <2>2. CASE n \notin NodesOf(rows)
    <3>1. r.xfail \in BOOLEAN
      BY DEF Report
    <3>2. MarkedAtFirst(new, n) = r.xfail
      BY <2>2, <3>1, MarkedAppend, MarkedBoolean
    <3> QED
      BY <2>2, <3>2 DEF CreateTestOutcomeEntry
  <2> QED
    BY <2>1, <2>2
<1>4. LatestCallOutcome(new, n) = IF r.when = "call" THEN r.outcome ELSE old.call_outcome
  BY <1>2, CallAppend
<1>5. \A phase, o : Reported(new, n, phase, o)
                     = (Reported(rows, n, phase, o) \/ (r.when = phase /\ r.outcome = o))
  BY ReportedAppend, ReportedBoolean
<1>6. SetupWasxfail(new, n)
        = (SetupWasxfail(rows, n) \/ (r.when = "setup" /\ r.wasxfail))
  BY WasxfailAppend, WasxfailBoolean
<1>7. ASSUME NEW C, old.call_outcome \in C, r.outcome \in C
      PROVE  old \in EntryCalled(C)
  BY <1>2, <1>3, <1>7, ReportedBoolean, MarkedBoolean, WasxfailBoolean
     DEF OutcomeOf, CreateTestOutcomeEntry, EntryCalled
<1>8. OutcomeOf(new, n) \in EntryCalled({LatestCallOutcome(new, n)})
  BY ReportedBoolean, MarkedBoolean, WasxfailBoolean DEF OutcomeOf, EntryCalled
<1> HIDE DEF new, n, old
<1>9. OutcomeOf(new, n) = Applied(old, r)
  <2> DEFINE C == {old.call_outcome, r.outcome}
  <2>1. old \in EntryCalled(C)
    BY <1>7
  <2> HIDE DEF C
  <2>2. r \in Report /\ r.outcome \in C
    BY DEF C
  <2>3. /\ Applied(old, r) \in EntryCalled(C)
        /\ Applied(old, r).call_outcome
              = IF r.when = "call" THEN r.outcome ELSE old.call_outcome
        /\ Applied(old, r).has_setup_error
              = (old.has_setup_error \/ (r.when = "setup" /\ r.outcome = "failed"))
        /\ Applied(old, r).has_teardown_error
              = (old.has_teardown_error \/ (r.when = "teardown" /\ r.outcome = "failed"))
        /\ Applied(old, r).has_xfail_marker = old.has_xfail_marker
        /\ Applied(old, r).has_wasxfail
              = (old.has_wasxfail \/ (r.when = "setup" /\ r.wasxfail))
        /\ Applied(old, r).setup_skipped
              = (old.setup_skipped \/ (r.when = "setup" /\ r.outcome = "skipped"))
    BY <2>1, <2>2, AppliedFields
  <2> QED
    BY <1>2, <1>3, <1>4, <1>5, <1>6, <1>8, <2>3 DEF OutcomeOf, EntryCalled
<1> QED
  BY <1>9 DEF new, n, old

\* update_test_outcome keeps the outcomes of a session what all its reports
\* define them to be, in whatever order the reports of its tests come.
THEOREM IncrementalOutcomes ==
    ASSUME NEW rows \in Seq(Report), NEW r \in Report
    PROVE  UpdateTestOutcome(OutcomesOf(rows), r) = OutcomesOf(Append(rows, r))
<1> DEFINE N == NodesOf(rows) \cup {r.nodeid}
<1>1. DOMAIN OutcomesOf(rows) = NodesOf(rows)
  BY DEF OutcomesOf
<1>2. UpdateTestOutcome(OutcomesOf(rows), r)
        = [n \in N |-> IF n # r.nodeid THEN OutcomesOf(rows)[n]
                       ELSE Applied(IF n \in NodesOf(rows) THEN OutcomesOf(rows)[n]
                                    ELSE CreateTestOutcomeEntry(r), r)]
  BY <1>1 DEF UpdateTestOutcome
<1>3. OutcomesOf(Append(rows, r)) = [n \in N |-> OutcomeOf(Append(rows, r), n)]
  BY NodesOfAppend DEF OutcomesOf
<1>4. \A n \in NodesOf(rows) : OutcomesOf(rows)[n] = OutcomeOf(rows, n)
  BY DEF OutcomesOf
<1>5. ASSUME NEW n \in N
      PROVE  OutcomeOf(Append(rows, r), n)
               = IF n # r.nodeid THEN OutcomesOf(rows)[n]
                 ELSE Applied(IF n \in NodesOf(rows) THEN OutcomesOf(rows)[n]
                              ELSE CreateTestOutcomeEntry(r), r)
  BY <1>4, OutcomeOfOther, OutcomeOfOwn
<1> QED
  BY <1>2, <1>3, <1>5

\* A session without reports has no outcomes.
LEMMA NoOutcomes == OutcomesOf(<<>>) = <<>>
<1>1. NodesOf(<<>>) = {}
  BY DEF NodesOf
<1> QED
  BY <1>1 DEF OutcomesOf

-----------------------------------------------------------------------------
(* Types *)

LEMMA EmptyType == <<>> \in TestOutcomes
<1>1. <<>> \in [{} -> TestOutcome]
  OBVIOUS
<1> QED
  BY <1>1 DEF TestOutcomes

\* The counters of finitely many tests are numbers.
LEMMA StatsType ==
    ASSUME NEW outcomes, IsFiniteSet(DOMAIN outcomes)
    PROVE  CalculateSessionStats(outcomes) \in SessionStats
<1>1. ASSUME NEW N, N \subseteq DOMAIN outcomes
      PROVE  Cardinality(N) \in Nat
  BY <1>1, FS_Subset, FS_CardinalityType
<1>2. \A c : Counted(outcomes, c) \in Nat
  BY <1>1 DEF Counted
<1>3. Errors(outcomes) \in Nat
  <2>1. /\ Cardinality({n \in DOMAIN outcomes : outcomes[n].has_setup_error}) \in Nat
        /\ Cardinality({n \in DOMAIN outcomes : outcomes[n].has_teardown_error}) \in Nat
    BY <1>1
  <2> QED
    BY <2>1 DEF Errors
<1>4. Cardinality(DOMAIN outcomes) \in Nat
  BY <1>1
<1> QED
  BY <1>2, <1>3, <1>4 DEF CalculateSessionStats, SessionStats

\* Applying a report to outcomes of tests gives outcomes of tests.
LEMMA UpdateType ==
    ASSUME NEW outcomes \in TestOutcomes, NEW r \in Report
    PROVE  UpdateTestOutcome(outcomes, r) \in TestOutcomes
<1> DEFINE new == UpdateTestOutcome(outcomes, r)
<1>1. /\ DOMAIN outcomes \subseteq Nodes
      /\ \A n \in DOMAIN outcomes : outcomes[n] \in TestOutcome
  BY DEF TestOutcomes
<1>2. ASSUME NEW e \in TestOutcome PROVE Applied(e, r) \in TestOutcome
  BY <1>2, ZenonT(60) DEF Applied, TestOutcome, Report
<1>3. CreateTestOutcomeEntry(r) \in TestOutcome
  BY DEF CreateTestOutcomeEntry, TestOutcome, Report
<1>4. DOMAIN new = DOMAIN outcomes \cup {r.nodeid}
  BY DEF UpdateTestOutcome
<1>5. \A n \in DOMAIN new : new[n] \in TestOutcome
  BY <1>1, <1>2, <1>3 DEF UpdateTestOutcome
<1>6. r.nodeid \in Nodes
  BY DEF Report
<1>7. new \in [DOMAIN new -> TestOutcome]
  BY <1>4, <1>5 DEF UpdateTestOutcome
<1>8. DOMAIN new \in SUBSET Nodes
  BY <1>1, <1>4, <1>6
<1> HIDE DEF new
<1>9. \E N \in SUBSET Nodes : new \in [N -> TestOutcome]
  BY <1>7, <1>8
<1>10. new \in TestOutcomes
  BY <1>9 DEF TestOutcomes
<1> QED
  BY <1>10 DEF new

-----------------------------------------------------------------------------
(* Counting *)

LEMMA NoneIsNoOutcome ==
    \A c \in {"passed", "failed", "skipped", "xfailed", "xpassed", "errors"} : None # c
BY NoneAssumption DEF Outcome

LEMMA SameCount ==
    ASSUME NEW S, IsFiniteSet(S), NEW T, NEW f \in [S -> T],
           \A x, y \in S : f[x] = f[y] => x = y,
           \A t \in T : \E x \in S : f[x] = t
    PROVE  IsFiniteSet(T) /\ Cardinality(T) = Cardinality(S)
<1>1. f \in Bijection(S, T)
  BY DEF Bijection, Injection, Surjection, IsInjective
<1>2. ExistsBijection(S, T)
  BY <1>1 DEF ExistsBijection
<1> QED
  BY <1>2, FS_Bijection

LEMMA DisjointUnion ==
    ASSUME NEW S, NEW T, IsFiniteSet(S), IsFiniteSet(T), S \cap T = {}
    PROVE  IsFiniteSet(S \cup T) /\ Cardinality(S \cup T) = Cardinality(S) + Cardinality(T)
<1>1. /\ IsFiniteSet(S \cup T)
      /\ Cardinality(S \cup T) = Cardinality(S) + Cardinality(T) - Cardinality(S \cap T)
  BY FS_Union
<1>2. Cardinality(S \cap T) = 0
  BY FS_EmptySet
<1>3. Cardinality(S) \in Nat /\ Cardinality(T) \in Nat
  BY FS_CardinalityType
<1> QED
  BY <1>1, <1>2, <1>3

-----------------------------------------------------------------------------
(* The latest report of a phase, and the first of a test *)

LEMMA Largest ==
    ASSUME NEW T, IsFiniteSet(T), T \subseteq Int, T # {}
    PROVE  \E m \in T : \A x \in T : x <= m
<1> DEFINE Above(x) == {y \in T : y > x}
           F == {Above(x) : x \in T}
<1>1. IsWellFoundedOn(StrictSubsetOrdering(T), SUBSET T)
  BY FS_StrictSubsetOrderingWellFounded, FS_FiniteSubsetsOfFinite
<1>2. F \subseteq SUBSET T /\ F # {}
  OBVIOUS
<1> HIDE DEF F
<1>3. \E S \in F : \A U \in F : <<U, S>> \notin StrictSubsetOrdering(T)
  BY <1>1, <1>2, WFMin
<1>4. PICK m \in T : \A U \in F : <<U, Above(m)>> \notin StrictSubsetOrdering(T)
  BY <1>3 DEF F
<1>5. ASSUME NEW x \in T, x > m
      PROVE  <<Above(x), Above(m)>> \in StrictSubsetOrdering(T)
  <2>1. Above(x) \subseteq Above(m)
    <3>1. \A y \in T : y \in Int
      OBVIOUS
    <3>2. \A y \in T : y > x => y > m
      BY <1>5, <3>1
    <3> QED
      BY <3>2
  <2>2. x \in Above(m) /\ x \notin Above(x)
    BY <1>5
  <2> QED
    BY <2>1, <2>2 DEF StrictSubsetOrdering
<1>6. \A x \in T : Above(x) \in F
  BY DEF F
<1>7. \A x \in T : ~(x > m)
  BY <1>4, <1>5, <1>6
<1> QED
  BY <1>7

LEMMA Smallest ==
    ASSUME NEW T, IsFiniteSet(T), T \subseteq Int, T # {}
    PROVE  \E m \in T : \A x \in T : m <= x
<1> DEFINE S == {-x : x \in T}
<1>1. IsFiniteSet(S)
  <2> DEFINE f == [x \in T |-> -x]
  <2>1. f \in Surjection(T, S)
    BY DEF Surjection
  <2> QED
    BY <2>1, FS_Surjection
<1>2. S \subseteq Int /\ S # {}
  OBVIOUS
<1> HIDE DEF S
<1>3. PICK k \in S : \A y \in S : y <= k
  BY <1>1, <1>2, Largest
<1>4. PICK m \in T : k = -m
  BY DEF S
<1>5. \A x \in T : -x <= -m
  BY <1>3, <1>4 DEF S
<1> QED
  BY <1>4, <1>5

LEMMA Indices ==
    ASSUME NEW rows \in Seq(Report), NEW n, NEW phase
    PROVE  /\ IsFiniteSet(DOMAIN rows) /\ DOMAIN rows \subseteq Nat
           /\ \A i \in DOMAIN rows : rows[i] \in Report
           /\ IsFiniteSet(ReportsOf(rows, n, phase))
           /\ ReportsOf(rows, n, phase) \subseteq DOMAIN rows
<1>1. DOMAIN rows = 1 .. Len(rows) /\ Len(rows) \in Nat
  OBVIOUS
<1>2. IsFiniteSet(DOMAIN rows)
  BY <1>1, FS_Interval
<1>3. ReportsOf(rows, n, phase) \subseteq DOMAIN rows
  BY DEF ReportsOf
<1> QED
  BY <1>1, <1>2, <1>3, FS_Subset

\* If a test has reported a phase, the report that is shown is its latest, and so is
\* the one that is counted.
LEMMA LatestShown ==
    ASSUME NEW rows \in Seq(Report), NEW n, NEW phase, ReportsOf(rows, n, phase) # {}
    PROVE  \E i \in ReportsOf(rows, n, phase) :
              /\ \A k \in ReportsOf(rows, n, phase) : k <= i
              /\ GroupedByPhase(rows, n, phase) = rows[i]
              /\ rows[i] \in Report
              /\ phase = "call" => LatestCallOutcome(rows, n) = rows[i].outcome
<1> DEFINE R == ReportsOf(rows, n, phase)
<1>1. R \subseteq Int /\ IsFiniteSet(R) /\ \A i \in R : rows[i] \in Report
  BY Indices
<1>2. PICK i \in R : \A k \in R : k <= i
  BY <1>1, Largest
<1>3. \A j \in R : (\A k \in R : k <= j) => j = i
  BY <1>1, <1>2
<1>4. GroupedByPhase(rows, n, phase) = rows[i]
  <2>1. (CHOOSE j \in R : \A k \in R : k <= j) = i
    BY <1>2, <1>3
  <2> QED
    BY <2>1 DEF GroupedByPhase
<1>5. LatestOutcomes(rows, n, phase) = {rows[i].outcome}
  BY <1>2, <1>3 DEF LatestOutcomes
<1>6. AnyOf({rows[i].outcome}) = rows[i].outcome
  BY DEF AnyOf
<1>7. phase = "call" => LatestCallOutcome(rows, n) = rows[i].outcome
  BY <1>5, <1>6 DEF LatestCallOutcome
<1> QED
  BY <1>1, <1>2, <1>4, <1>7

\* If the reports of a test agree on its marker, its first one has that marker.
LEMMA MarkerOf ==
    ASSUME NEW rows \in Seq(Report), NEW i \in DOMAIN rows,
           \A j \in DOMAIN rows : rows[j].nodeid = rows[i].nodeid => rows[j].xfail = rows[i].xfail
    PROVE  MarkedAtFirst(rows, rows[i].nodeid) = rows[i].xfail
<1> DEFINE n == rows[i].nodeid
           T == {j \in DOMAIN rows : rows[j].nodeid = n}
<1>1. IsFiniteSet(T) /\ T \subseteq Int /\ T # {}
  BY Indices, FS_Subset
<1>2. PICK m \in T : \A j \in T : m <= j
  BY <1>1, Smallest
<1>3. \A j \in 1 .. m - 1 : j \in DOMAIN rows /\ rows[j].nodeid # n
  <2>1. DOMAIN rows = 1 .. Len(rows) /\ Len(rows) \in Nat /\ m \in 1 .. Len(rows)
    OBVIOUS
  <2>2. \A j \in 1 .. m - 1 : j \in DOMAIN rows /\ ~(m <= j)
    BY <2>1
  <2> QED
    BY <1>2, <2>2
<1>4. MarkedAtFirst(rows, n) <=> rows[i].xfail
  BY <1>2, <1>3 DEF MarkedAtFirst
<1>5. rows[i].xfail \in BOOLEAN
  BY Indices DEF Report
<1> QED
  BY <1>4, <1>5, MarkedBoolean
=============================================================================
