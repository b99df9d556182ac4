--------------------------- MODULE IngestCounting ---------------------------
(***************************************************************************)
(* Theorems about Ingest and its history pages: the counters of a session  *)
(* are those of its stored reports, and so are the two histories.          *)
(***************************************************************************)
EXTENDS IngestProofs, History

\* The setting of the plugin in which, besides, no commit fails.
ReliableSetting == PluginSetting /\ CommitResults \subseteq {"ok"}

Starts(rows) == {rows[i].start : i \in DOMAIN rows} \ {None}
Stops(rows)  == {rows[i].stop : i \in DOMAIN rows} \ {None}

\* The time bounds of a tracking are those of the stored reports.
BoundsMatch(t, rows) ==
    /\ IF Starts(rows) = {} THEN t.min_start = None
       ELSE t.min_start \in Starts(rows) /\ \A x \in Starts(rows) : t.min_start <= x
    /\ IF Stops(rows) = {} THEN t.max_stop = None
       ELSE t.max_stop \in Stops(rows) /\ \A x \in Stops(rows) : x <= t.max_stop

TrackingBoundsMatch ==
    up => \A s \in DOMAIN sessions :
             InProgress(s) => BoundsMatch(active_sessions[s], sessions[s].reports)

\* The inductive invariant: counters follow from the reports of every session,
\* and a running session has, besides, its outcomes and bounds in memory.
CountingInv ==
    /\ OwnershipInv
    /\ TrackingMatchesReports
    /\ TrackingBoundsMatch
    /\ CountersMatchReports

-----------------------------------------------------------------------------
(* Time bounds and duration *)

LEMMA TimesAppend ==
    ASSUME NEW rows \in Seq(Report), NEW r \in Report
    PROVE  /\ Starts(Append(rows, r)) = Starts(rows) \cup ({r.start} \ {None})
           /\ Stops(Append(rows, r)) = Stops(rows) \cup ({r.stop} \ {None})
           /\ Starts(rows) \subseteq Int /\ Stops(rows) \subseteq Int
<1>1. ASSUME NEW x
      PROVE  /\ x \in Starts(Append(rows, r)) <=> x \in Starts(rows) \cup ({r.start} \ {None})
             /\ x \in Stops(Append(rows, r)) <=> x \in Stops(rows) \cup ({r.stop} \ {None})
  BY AppendValues DEF Starts, Stops
<1>2. \A i \in DOMAIN rows : rows[i].start \in Time /\ rows[i].stop \in Time
  BY AppendValues DEF Report
<1>3. Starts(rows) \subseteq Int /\ Stops(rows) \subseteq Int
  BY <1>2 DEF Starts, Stops, Time
<1> QED
  BY <1>1, <1>3

LEMMA BoundsAppend ==
    ASSUME NEW rows \in Seq(Report), NEW r \in Report, NEW t, BoundsMatch(t, rows)
    PROVE  BoundsMatch(UpdateTimestampBounds(t, r), Append(rows, r))
<1>1. /\ r.start \in Int \cup {None}
      /\ r.stop \in Int \cup {None}
      /\ None \notin Int
  BY NoneAssumption DEF Report, Time
<1> QED
  BY <1>1, TimesAppend, SMTT(30) DEF BoundsMatch, UpdateTimestampBounds

LEMMA DurationFromBounds ==
    ASSUME NEW rows \in Seq(Report), NEW t, BoundsMatch(t, rows)
    PROVE  /\ t.min_start # None /\ t.max_stop # None
                => DurationMatches(t.max_stop - t.min_start, rows)
           /\ ~(t.min_start # None /\ t.max_stop # None)
                => Starts(rows) = {} \/ Stops(rows) = {}
BY TimesAppend, NoneAssumption DEF BoundsMatch, DurationMatches, Starts, Stops

-----------------------------------------------------------------------------
(* The steps *)

RowCounts(row) ==
    /\ row.stats = CalculateSessionStats(OutcomesOf(row.reports))
    /\ DurationMatches(row.duration, row.reports)

\* What CountingInv adds to OwnershipInv.
Counting ==
    /\ \A s \in DOMAIN active_sessions : InProgress(s)
    /\ up => \A s \in DOMAIN sessions : InProgress(s) =>
                /\ s \in DOMAIN active_sessions
                /\ active_sessions[s].test_outcomes = OutcomesOf(sessions[s].reports)
                /\ BoundsMatch(active_sessions[s], sessions[s].reports)
    /\ \A s \in DOMAIN sessions : RowCounts(sessions[s])

LEMMA CountingSplit == CountingInv <=> OwnershipInv /\ Counting
BY DEF CountingInv, Counting, TrackingMatchesReports, TrackingBoundsMatch,
       CountersMatchReports, RowCounts

LEMMA CountingOpen ==
    ASSUME ReliableSetting, OwnershipInv, Counting, NEW u \in Uuids,
           NEW id \in ClientIds, NEW res \in CommitResults, up, OpenSession(u, id, res)
    PROVE  Counting'
<1>1. PICK new \in 1 .. created + 1 :
         /\ IsNextId(new)
         /\ sessions' = Put(sessions, new, NewSession(u))
         /\ active_sessions' = Put(active_sessions, new, FreshTracking)
  BY DEF OpenSession, ReliableSetting
<1>2. new \notin DOMAIN sessions /\ new \notin DOMAIN active_sessions
  BY <1>1 DEF IsNextId, OwnershipInv, TypeOK, Counting, InProgress
<1>3. /\ DOMAIN sessions' = DOMAIN sessions \cup {new}
      /\ sessions'[new] = NewSession(u)
      /\ \A s \in DOMAIN sessions : sessions'[s] = sessions[s]
      /\ DOMAIN active_sessions' = DOMAIN active_sessions \cup {new}
      /\ active_sessions'[new] = FreshTracking
      /\ \A s \in DOMAIN active_sessions : active_sessions'[s] = active_sessions[s]
  BY <1>1, <1>2 DEF Put
<1>4. Starts(<<>>) = {} /\ Stops(<<>>) = {}
  BY DEF Starts, Stops
<1>5. RowCounts(NewSession(u))
  BY <1>4, NoOutcomes DEF RowCounts, NewSession, DurationMatches, Starts, Stops
<1>6. /\ NewSession(u).status = "in_progress"
      /\ FreshTracking.test_outcomes = OutcomesOf(NewSession(u).reports)
      /\ BoundsMatch(FreshTracking, NewSession(u).reports)
  BY <1>4, NoOutcomes DEF NewSession, FreshTracking, BoundsMatch
<1>7. up'
  BY DEF OpenSession
<1> QED
  BY <1>3, <1>5, <1>6, <1>7 DEF Counting, InProgress

LEMMA CountingReport ==
    ASSUME ReliableSetting, OwnershipInv, Counting, NEW u \in Uuids,
           NEW id \in ClientIds, NEW r \in Reports, NEW res \in CommitResults,
           TestReport(u, id, r, res)
    PROVE  Counting'
<1> DEFINE s == Resolve(u, id)
           t == Tracked(s, r)
           row == sessions[s]
           new == Stored(row, u, r, t)
<1>1. /\ up /\ up'
      /\ s \in DOMAIN sessions
      /\ active_sessions' = Put(active_sessions, s, t)
      /\ sessions' = Put(sessions, s, new)
  BY DEF TestReport, ReliableSetting
<1>2. InProgress(s)
  BY <1>1, ResolveOwn DEF ReliableSetting
<1>3. r \in Report /\ row \in SessionRow
  BY <1>1, IngestAssumption DEF OwnershipInv, TypeOK
<1>4. row.reports \in Seq(Report)
  BY <1>3 DEF SessionRow
<1>5. /\ s \in DOMAIN active_sessions
      /\ active_sessions[s].test_outcomes = OutcomesOf(row.reports)
      /\ BoundsMatch(active_sessions[s], row.reports)
      /\ RowCounts(row)
  BY <1>1, <1>2 DEF Counting
<1>6. /\ t.test_outcomes = OutcomesOf(Append(row.reports, r))
      /\ BoundsMatch(t, Append(row.reports, r))
  <2>1. /\ t.test_outcomes = UpdateTestOutcome(active_sessions[s].test_outcomes, r)
        /\ t.min_start = UpdateTimestampBounds(active_sessions[s], r).min_start
        /\ t.max_stop = UpdateTimestampBounds(active_sessions[s], r).max_stop
    BY <1>5 DEF Tracked
  <2>2. BoundsMatch(UpdateTimestampBounds(active_sessions[s], r), Append(row.reports, r))
    BY <1>3, <1>4, <1>5, BoundsAppend
  <2>3. t.test_outcomes = OutcomesOf(Append(row.reports, r))
    BY <1>3, <1>4, <1>5, <2>1, IncrementalOutcomes
  <2> QED
    BY <2>1, <2>2, <2>3 DEF BoundsMatch
<1>7. /\ new.reports = Append(row.reports, r)
      /\ new.status = row.status
      /\ new.stats = CalculateSessionStats(t.test_outcomes)
      /\ new.duration = IF t.min_start # None /\ t.max_stop # None
                        THEN t.max_stop - t.min_start ELSE row.duration
  BY <1>3 DEF Stored, SessionRow
<1> HIDE DEF s, t, row, new
<1>8. Append(row.reports, r) \in Seq(Report)
  BY <1>3, <1>4
<1>9. DurationMatches(new.duration, new.reports)
  <2>1. CASE t.min_start # None /\ t.max_stop # None
    BY <1>6, <1>7, <1>8, <2>1, DurationFromBounds
  <2>2. CASE ~(t.min_start # None /\ t.max_stop # None)
    <3>1. Starts(new.reports) = {} \/ Stops(new.reports) = {}
      BY <1>6, <1>7, <1>8, <2>2, DurationFromBounds
    <3>2. Starts(row.reports) = {} \/ Stops(row.reports) = {}
      BY <1>3, <1>4, <1>7, <3>1, TimesAppend
    <3>3. row.duration = None
      BY <1>5, <3>2 DEF RowCounts, DurationMatches, Starts, Stops
    <3> QED
      BY <1>7, <2>2, <3>1, <3>3 DEF DurationMatches, Starts, Stops
  <2> QED
    BY <2>1, <2>2
<1>10. RowCounts(new)
  BY <1>6, <1>7, <1>9 DEF RowCounts
<1>11. /\ DOMAIN sessions' = DOMAIN sessions
       /\ sessions'[s] = new
       /\ \A x \in DOMAIN sessions : x # s => sessions'[x] = sessions[x]
       /\ DOMAIN active_sessions' = DOMAIN active_sessions
       /\ active_sessions'[s] = t
       /\ \A x \in DOMAIN active_sessions :
             x # s => active_sessions'[x] = active_sessions[x]
  BY <1>1, <1>5 DEF Put
<1>12. row.status = sessions[s].status
  BY DEF row
<1> QED
  BY <1>1, <1>2, <1>6, <1>7, <1>10, <1>11, <1>12, ZenonT(60) DEF Counting, InProgress

LEMMA CountingFinish ==
    ASSUME ReliableSetting, OwnershipInv, Counting, NEW u \in Uuids,
           NEW id \in ClientIds, NEW res \in CommitResults, SessionFinish(u, id, res)
    PROVE  Counting'
<1> DEFINE s == Resolve(u, id)
<1>1. /\ up /\ up'
      /\ s \in DOMAIN sessions
      /\ active_sessions' = Drop(active_sessions, {s})
      /\ sessions' = [sessions EXCEPT ![s].status = "completed"]
  BY DEF SessionFinish, ReliableSetting
<1> HIDE DEF s
<1>2. /\ DOMAIN sessions' = DOMAIN sessions
      /\ sessions'[s].status = "completed"
      /\ \A x \in DOMAIN sessions :
            /\ sessions'[x].stats = sessions[x].stats
            /\ sessions'[x].duration = sessions[x].duration
            /\ sessions'[x].reports = sessions[x].reports
            /\ x # s => sessions'[x].status = sessions[x].status
  BY <1>1 DEF OwnershipInv, TypeOK, SessionRow
<1>3. /\ DOMAIN active_sessions' = DOMAIN active_sessions \ {s}
      /\ \A x \in DOMAIN active_sessions' : active_sessions'[x] = active_sessions[x]
  BY <1>1 DEF Drop
<1>4. \A x \in DOMAIN sessions' : RowCounts(sessions'[x])
  BY <1>2 DEF Counting, RowCounts
<1>5. \A x \in DOMAIN sessions' : sessions'[x].status = "in_progress" => x # s /\ InProgress(x)
  BY <1>2 DEF InProgress
<1>6. \A x \in DOMAIN active_sessions' : InProgress(x)'
  BY <1>2, <1>3 DEF Counting, InProgress
<1>7. \A x \in DOMAIN sessions' : InProgress(x)' =>
         /\ x \in DOMAIN active_sessions'
         /\ active_sessions'[x].test_outcomes = OutcomesOf(sessions'[x].reports)
         /\ BoundsMatch(active_sessions'[x], sessions'[x].reports)
  <2> SUFFICES ASSUME NEW x \in DOMAIN sessions', sessions'[x].status = "in_progress"
               PROVE  /\ x \in DOMAIN active_sessions'
                      /\ active_sessions'[x].test_outcomes = OutcomesOf(sessions'[x].reports)
                      /\ BoundsMatch(active_sessions'[x], sessions'[x].reports)
    BY DEF InProgress
  <2>1. x # s /\ InProgress(x) /\ x \in DOMAIN sessions
    BY <1>2, <1>5
  <2>2. /\ x \in DOMAIN active_sessions
        /\ active_sessions[x].test_outcomes = OutcomesOf(sessions[x].reports)
        /\ BoundsMatch(active_sessions[x], sessions[x].reports)
    BY <1>1, <2>1 DEF Counting
  <2> QED
    BY <1>2, <1>3, <2>1, <2>2
<1> QED
  BY <1>1, <1>4, <1>6, <1>7 DEF Counting

LEMMA CountingDrop ==
    ASSUME Counting, NEW S, \A s \in S \cap DOMAIN sessions : ~InProgress(s),
           sessions' = Drop(sessions, S), UNCHANGED <<up, active_sessions>>
    PROVE  Counting'
BY DEF Counting, InProgress, Drop

LEMMA CountingNext ==
    ASSUME ReliableSetting, OwnershipInv, Counting, [Next]_vars
    PROVE  Counting'
<1>1. PluginSetting
  BY DEF ReliableSetting
<1>2. CASE \E u \in Uuids, id \in ClientIds, res \in CommitResults :
              SessionStart(u, id, res)
  <2>1. PICK u \in Uuids, id \in ClientIds, res \in CommitResults :
               SessionStart(u, id, res)
    BY <1>2
  <2>2. CASE OpenSession(u, id, res)
    BY <2>1, <2>2, CountingOpen DEF SessionStart
  <2>3. CASE ReopenSession(u, id)
    BY <2>3 DEF ReopenSession, Counting, InProgress
  <2> QED
    BY <2>1, <2>2, <2>3 DEF SessionStart
<1>3. CASE \E u \in Uuids, id \in ClientIds, res \in CommitResults, r \in Reports :
              TestReport(u, id, r, res)
  BY <1>3, CountingReport
<1>4. CASE \E u \in Uuids, id \in ClientIds, res \in CommitResults :
              SessionFinish(u, id, res)
  BY <1>4, CountingFinish
<1>5. CASE \E s \in DOMAIN sessions : DeleteSession(s)
  <2>1. PICK s \in DOMAIN sessions : DeleteSession(s)
    BY <1>5
  <2>2. ~InProgress(s)
    BY <1>1, <2>1 DEF DeleteSession, PluginSetting, InProgress
  <2> QED
    BY <2>1, <2>2, CountingDrop DEF DeleteSession
<1>6. CASE PruneSessions
  <2>1. PICK S \in SUBSET Eligible : sessions' = Drop(sessions, S)
    BY <1>6 DEF PruneSessions
  <2>2. \A s \in S \cap DOMAIN sessions : ~InProgress(s)
    BY DEF Eligible, InProgress
  <2>3. UNCHANGED <<up, active_sessions>>
    BY <1>6 DEF PruneSessions
  <2> QED
    BY <2>1, <2>2, <2>3, CountingDrop
<1>7. CASE Stop
  <2>1. DOMAIN <<>> = {}
    OBVIOUS
  <2> QED
    BY <1>7, <2>1 DEF Stop, Counting
<1>8. CASE Startup
  <2>1. DOMAIN <<>> = {}
    OBVIOUS
  <2>2. /\ DOMAIN sessions' = DOMAIN sessions
        /\ \A s \in DOMAIN sessions :
              /\ sessions'[s].status # "in_progress"
              /\ sessions'[s].stats = sessions[s].stats
              /\ sessions'[s].duration = sessions[s].duration
              /\ sessions'[s].reports = sessions[s].reports
    BY <1>8 DEF Startup, OwnershipInv, TypeOK, SessionRow
  <2>3. DOMAIN active_sessions' = {}
    BY <1>8, <2>1 DEF Startup
  <2> QED
    BY <2>2, <2>3 DEF Counting, InProgress, RowCounts
<1>9. CASE UNCHANGED vars
  BY <1>9 DEF vars, Counting, InProgress
<1> QED
  BY <1>2, <1>3, <1>4, <1>5, <1>6, <1>7, <1>8, <1>9 DEF Next

LEMMA CountingInvInit == Init => CountingInv
<1>1. DOMAIN <<>> = {}
  OBVIOUS
<1> QED
  BY <1>1, OwnershipInit, CountingSplit DEF Init, Counting

LEMMA CountingInvNext ==
    ASSUME ReliableSetting, CountingInv, [Next]_vars
    PROVE  CountingInv'
<1>1. OwnershipInv' /\ Counting'
  BY CountingSplit, OwnershipNext, CountingNext DEF ReliableSetting
<1>2. CountingInv' <=> OwnershipInv' /\ Counting'
  BY CountingSplit, PTL
<1> QED
  BY <1>1, <1>2

\* The counters and the duration of every session are those of its stored
\* reports, whatever the interleaving of runs, deletions, pruning and restarts.
THEOREM CountersFollowReports ==
    ASSUME ReliableSetting
    PROVE  Spec => []CountersMatchReports
<1>1. CountingInv /\ [Next]_vars => CountingInv'
  BY CountingInvNext
<1>2. CountingInv => CountersMatchReports
  BY DEF CountingInv
<1> QED
  BY <1>1, <1>2, CountingInvInit, PTL DEF Spec

\* Memory holds exactly the running sessions, with the outcomes their stored
\* reports define: nothing is leaked and nothing is forgotten.
THEOREM TrackingFollowsReports ==
    ASSUME ReliableSetting
    PROVE  Spec => []TrackingMatchesReports
<1>1. CountingInv /\ [Next]_vars => CountingInv'
  BY CountingInvNext
<1>2. CountingInv => TrackingMatchesReports
  BY DEF CountingInv
<1> QED
  BY <1>1, <1>2, CountingInvInit, PTL DEF Spec

-----------------------------------------------------------------------------
(* The outcome of a test in the history of a session *)

\* A larger id is a later session, and there are finitely many.
TableInv == OrderInv /\ IsFiniteSet(DOMAIN sessions)

LEMMA Category ==
    ASSUME NEW o \in Outcome, NEW x \in BOOLEAN
    PROVE  DetermineTestOutcome(o, x, FALSE)
             = IF x /\ o = "skipped" THEN "xfailed"
               ELSE IF x /\ o = "passed" THEN "xpassed" ELSE o
<1>1. o # None
  BY NoneAssumption
<1> QED
  BY <1>1 DEF DetermineTestOutcome, Outcome

\* It is that of the latest call, if there is one.
LEMMA CallInHistory ==
    ASSUME TypeOK, NEW s \in DOMAIN sessions, NEW n
    PROVE  /\ ReportsOf(RowsOf(s), n, "call") = {} =>
                 HistoryOutcome(s, n) = "unknown" /\ LatestCallOutcome(RowsOf(s), n) = None
           /\ ReportsOf(RowsOf(s), n, "call") # {} =>
                 \E i \in ReportsOf(RowsOf(s), n, "call") :
                    /\ RowsOf(s)[i] \in Report
                    /\ GroupedByPhase(RowsOf(s), n, "call") = RowsOf(s)[i]
                    /\ LatestCallOutcome(RowsOf(s), n) = RowsOf(s)[i].outcome
                    /\ HistoryOutcome(s, n)
                         = DetermineTestOutcome(RowsOf(s)[i].outcome, RowsOf(s)[i].xfail, FALSE)
<1> DEFINE R == ReportsOf(RowsOf(s), n, "call")
<1>1. RowsOf(s) \in Seq(Report)
  BY DEF TypeOK, SessionRow, RowsOf
<1>2. CASE R = {}
  BY <1>2 DEF GroupedByPhase, HistoryOutcome, LatestCallOutcome
<1>3. CASE R # {}
  <2>1. PICK i \in R : /\ GroupedByPhase(RowsOf(s), n, "call") = RowsOf(s)[i]
                       /\ RowsOf(s)[i] \in Report
                       /\ LatestCallOutcome(RowsOf(s), n) = RowsOf(s)[i].outcome
    BY <1>1, <1>3, LatestShown
  <2>2. RowsOf(s)[i] # None
    BY <2>1, NoneAssumption
  <2> QED
    BY <1>3, <2>1, <2>2 DEF HistoryOutcome
<1> QED
  BY <1>2, <1>3

-----------------------------------------------------------------------------
(* Histories and counters *)

\* Where markers stay, a test is counted in the category its history shows, if that
\* is one of those that setups do not decide.
LEMMA SameCategory ==
    ASSUME TypeOK, NEW s \in DOMAIN sessions, MarkersStay(s), NEW n,
           NEW c \in {"passed", "failed", "xpassed"}
    PROVE  CountedAs(OutcomeOf(RowsOf(s), n)) = c <=> HistoryOutcome(s, n) = c
<1> DEFINE e == OutcomeOf(RowsOf(s), n)
<1>1. None \notin {"passed", "failed", "skipped", "xfailed", "xpassed"}
  BY NoneAssumption DEF Outcome
<1>2. e.call_outcome = LatestCallOutcome(RowsOf(s), n)
  BY DEF OutcomeOf
<1>3. CASE ReportsOf(RowsOf(s), n, "call") = {}
  <2>1. HistoryOutcome(s, n) = "unknown" /\ e.call_outcome = None
    BY <1>2, <1>3, CallInHistory
  <2> HIDE DEF e
  <2>2. CountedAs(e) \in {"xfailed", "skipped", None}
    BY <1>1, <2>1 DEF CountedAs
  <2>3. CountedAs(e) # c
    BY <1>1, <2>2
  <2> QED
    BY <2>1, <2>3 DEF e
<1>4. CASE ReportsOf(RowsOf(s), n, "call") # {}
  <2>1. PICK i \in ReportsOf(RowsOf(s), n, "call") :
               /\ RowsOf(s)[i] \in Report
               /\ LatestCallOutcome(RowsOf(s), n) = RowsOf(s)[i].outcome
               /\ HistoryOutcome(s, n)
                    = DetermineTestOutcome(RowsOf(s)[i].outcome, RowsOf(s)[i].xfail, FALSE)
    BY <1>4, CallInHistory
  <2> DEFINE o == RowsOf(s)[i].outcome
             x == RowsOf(s)[i].xfail
  <2>2. o \in Outcome /\ x \in BOOLEAN
    BY <2>1 DEF Report
  <2>3. i \in DOMAIN RowsOf(s) /\ RowsOf(s)[i].nodeid = n
    BY DEF ReportsOf
  <2>4. RowsOf(s) \in Seq(Report)
    BY DEF TypeOK, SessionRow, RowsOf
  <2>5. MarkedAtFirst(RowsOf(s), n) = x
    BY <2>3, <2>4, MarkerOf DEF MarkersStay
  <2>6. e.has_xfail_marker = x
    BY <2>5 DEF OutcomeOf
  <2>7. e.call_outcome = o
    BY <1>2, <2>1
  <2> HIDE DEF e, o, x
  <2>8. HistoryOutcome(s, n) = DetermineTestOutcome(o, x, FALSE)
    BY <2>1 DEF o, x
  <2>9. CountedAs(e) = IF x /\ o = "skipped" THEN "xfailed"
                       ELSE IF x /\ o = "passed" THEN "xpassed" ELSE o
    BY <1>1, <2>2, <2>6, <2>7 DEF CountedAs, Outcome
  <2>10. CountedAs(e) = HistoryOutcome(s, n)
    BY <2>2, <2>8, <2>9, Category
  <2> QED
    BY <2>10 DEF e
<1> QED
  BY <1>3, <1>4

\* Where no phase is reported twice, the report that is shown is the one that counts.
LEMMA SameError ==
    ASSUME TypeOK, NEW s \in DOMAIN sessions, PhasesOnce(s), NEW n \in Nodes, NEW phase \in Phase
    PROVE  Reported(RowsOf(s), n, phase, "failed")
             <=> LET r == GroupedByPhase(RowsOf(s), n, phase)
                 IN  r # None /\ r.outcome = "failed"
<1> DEFINE R == ReportsOf(RowsOf(s), n, phase)
<1>1. RowsOf(s) \in Seq(Report)
  BY DEF TypeOK, SessionRow, RowsOf
<1>2. CASE R = {}
  BY <1>2 DEF GroupedByPhase, Reported
<1>3. CASE R # {}
  <2>1. PICK i \in R : /\ GroupedByPhase(RowsOf(s), n, phase) = RowsOf(s)[i]
                       /\ RowsOf(s)[i] \in Report
    BY <1>1, <1>3, LatestShown
  <2>2. RowsOf(s)[i] # None
    BY <2>1, NoneAssumption
  <2>3. \A j \in R : j = i
    <3> SUFFICES ASSUME NEW j \in R, j # i PROVE FALSE
      OBVIOUS
    <3>1. IsFiniteSet(R) /\ {i, j} \subseteq R
      BY <1>1, Indices
    <3>2. Cardinality({i, j}) <= Cardinality(R) /\ Cardinality(R) \in Nat
      BY <3>1, FS_Subset, FS_CardinalityType
    <3>3. Cardinality({i, j}) = 2
      <4>1. IsFiniteSet({i}) /\ Cardinality({i}) = 1
        BY FS_Singleton
      <4>2. IsFiniteSet({j}) /\ Cardinality({j}) = 1
        BY FS_Singleton
      <4>3. {i} \cap {j} = {} /\ {i, j} = {i} \cup {j}
        OBVIOUS
      <4> HIDE DEF R
      <4> QED
        BY <4>1, <4>2, <4>3, DisjointUnion
    <3>4. Cardinality(R) <= 1
      BY DEF PhasesOnce
    <3> QED
      BY <3>2, <3>3, <3>4
  <2>4. Reported(RowsOf(s), n, phase, "failed") <=> RowsOf(s)[i].outcome = "failed"
    BY <2>3 DEF Reported
  <2> QED
    BY <2>1, <2>2, <2>4
<1> QED
  BY <1>2, <1>3

LEMMA NodesTyped ==
    ASSUME TypeOK, NEW s \in DOMAIN sessions
    PROVE  NodesOf(RowsOf(s)) \subseteq Nodes /\ IsFiniteSet(NodesOf(RowsOf(s)))
<1>1. RowsOf(s) \in Seq(Report)
  BY DEF TypeOK, SessionRow, RowsOf
<1>2. \A i \in DOMAIN RowsOf(s) : RowsOf(s)[i].nodeid \in Nodes
  <2>1. \A i \in DOMAIN RowsOf(s) : RowsOf(s)[i] \in Report
    BY <1>1
  <2> QED
    BY <2>1 DEF Report
<1>3. NodesOf(RowsOf(s)) \subseteq Nodes
  BY <1>2 DEF NodesOf
<1> QED
  BY <1>3, NodesAssumption, FS_Subset

\* A sum of two cardinalities is not zero if one of the sets has an element.
LEMMA SomeCounted ==
    ASSUME NEW S, NEW T, IsFiniteSet(S), IsFiniteSet(T)
    PROVE  Cardinality(S) + Cardinality(T) > 0 <=> S # {} \/ T # {}
<1>1. Cardinality(S) \in Nat /\ (Cardinality(S) = 0 <=> S = {})
  BY FS_CardinalityType, FS_EmptySet
<1>2. Cardinality(T) \in Nat /\ (Cardinality(T) = 0 <=> T = {})
  BY FS_CardinalityType, FS_EmptySet
<1> QED
  BY <1>1, <1>2

LEMMA HistoriesCount ==
    ASSUME TypeOK, CountersMatchReports
    PROVE  HistoryMatchesCounters
<1> SUFFICES ASSUME NEW s \in DOMAIN sessions
             PROVE  /\ MarkersStay(s) =>
                          \A c \in {"passed", "failed", "xpassed"} :
                             sessions[s].stats[c]
                               = Cardinality({n \in NodesOf(RowsOf(s)) : HistoryOutcome(s, n) = c})
                    /\ PhasesOnce(s) =>
                          (sessions[s].stats.errors > 0
                             <=> \E n \in NodesOf(RowsOf(s)) : HasError(s, n))
  BY DEF HistoryMatchesCounters
<1> DEFINE N == NodesOf(RowsOf(s))
           out == OutcomesOf(RowsOf(s))
<1>1. sessions[s].stats = CalculateSessionStats(out)
  BY DEF CountersMatchReports, RowsOf
<1>2. /\ DOMAIN out = N
      /\ \A n \in N : out[n] = OutcomeOf(RowsOf(s), n)
  BY DEF OutcomesOf
<1>3. ASSUME MarkersStay(s), NEW c \in {"passed", "failed", "xpassed"}
      PROVE  sessions[s].stats[c] = Cardinality({n \in N : HistoryOutcome(s, n) = c})
  <2>1. sessions[s].stats[c] = Counted(out, c)
    BY <1>1 DEF CalculateSessionStats
  <2>2. {n \in DOMAIN out : CountedAs(out[n]) = c} = {n \in N : HistoryOutcome(s, n) = c}
    BY <1>2, <1>3, SameCategory
  <2> QED
    BY <2>1, <2>2 DEF Counted
<1>4. ASSUME PhasesOnce(s)
      PROVE  sessions[s].stats.errors > 0 <=> \E n \in N : HasError(s, n)
  <2> DEFINE Setups == {n \in DOMAIN out : out[n].has_setup_error}
             Teardowns == {n \in DOMAIN out : out[n].has_teardown_error}
  <2>1. sessions[s].stats.errors = Cardinality(Setups) + Cardinality(Teardowns)
    BY <1>1 DEF CalculateSessionStats, Errors
  <2>2. IsFiniteSet(Setups) /\ IsFiniteSet(Teardowns)
    BY <1>2, NodesTyped, FS_Subset
  <2>3. /\ Setups = {n \in N : Reported(RowsOf(s), n, "setup", "failed")}
        /\ Teardowns = {n \in N : Reported(RowsOf(s), n, "teardown", "failed")}
    BY <1>2 DEF OutcomeOf
  <2>4. ASSUME NEW n \in N
        PROVE  HasError(s, n) <=> \/ Reported(RowsOf(s), n, "setup", "failed")
                                  \/ Reported(RowsOf(s), n, "teardown", "failed")
    <3>1. n \in Nodes
      BY NodesTyped
    <3> QED
      BY <1>4, <3>1, SameError DEF HasError, Phase
  <2> HIDE DEF Setups, Teardowns
  <2>5. sessions[s].stats.errors > 0 <=> Setups # {} \/ Teardowns # {}
    BY <2>1, <2>2, SomeCounted
  <2> QED
    BY <2>3, <2>4, <2>5
<1> QED
  BY <1>3, <1>4

\* The tests that passed, failed or xpassed in a session are as many by their histories,
\* from the stored reports, as by its counters, from memory, and the error marks agree
\* with the errors counted, after any number of runs, deletions and restarts.
THEOREM HistoriesTheorem ==
    ASSUME ReliableSetting
    PROVE  Spec => []HistoryMatchesCounters
<1>1. CountingInv /\ [Next]_vars => CountingInv'
  BY CountingInvNext
<1>2. CountingInv => HistoryMatchesCounters
  BY HistoriesCount DEF CountingInv, OwnershipInv
<1> QED
  BY <1>1, <1>2, CountingInvInit, PTL DEF Spec

-----------------------------------------------------------------------------
(* The two histories *)

LEMMA TableInit == Init => TableInv
<1> SUFFICES ASSUME Init PROVE TableInv
  OBVIOUS
<1>1. DOMAIN sessions = {}
  BY DEF Init
<1>2. IdOrderIsCreationOrder /\ IsFiniteSet(DOMAIN sessions)
  BY <1>1, FS_EmptySet DEF IdOrderIsCreationOrder
<1> QED
  BY <1>1, <1>2, TypeInit DEF TableInv, OrderInv

LEMMA TableNext == TableInv /\ [Next]_vars => TableInv'
<1> SUFFICES ASSUME TableInv, [Next]_vars PROVE TableInv'
  OBVIOUS
<1>1. OrderInv'
  BY OrderNext DEF TableInv
<1>2. IsFiniteSet(DOMAIN sessions')
  <2>1. CASE Inserts
    <3>1. PICK new \in Nat \ {0}, u \in Uuids : sessions' = Put(sessions, new, NewSession(u))
      BY <2>1 DEF Inserts
    <3>2. DOMAIN sessions' = DOMAIN sessions \cup {new}
      BY <3>1 DEF Put
    <3> QED
      BY <3>2, FS_AddElement DEF TableInv
  <2>2. CASE Keeps
    BY <2>2, FS_Subset DEF Keeps, TableInv
  <2> QED
    BY <2>1, <2>2, TableSteps DEF TableInv, OrderInv
<1> QED
  BY <1>1, <1>2 DEF TableInv

\* A session has a call of a test exactly if its history has an outcome for it.
LEMMA CallingHistory ==
    ASSUME TypeOK, NEW n
    PROVE  /\ DOMAIN History(n) = {t \in DOMAIN sessions : n \in NodesOf(RowsOf(t))}
           /\ \A s \in DOMAIN History(n) : History(n)[s] = HistoryOutcome(s, n)
           /\ Calling(n) \subseteq DOMAIN History(n)
           /\ \A s \in DOMAIN History(n) :
                 s \in Calling(n) <=> HistoryOutcome(s, n) \in Outcome \cup {"xfailed", "xpassed"}
<1>1. /\ DOMAIN History(n) = {t \in DOMAIN sessions : n \in NodesOf(RowsOf(t))}
      /\ \A s \in DOMAIN History(n) : History(n)[s] = HistoryOutcome(s, n)
  BY DEF History
<1>2. Calling(n) \subseteq DOMAIN History(n)
  BY <1>1 DEF Calling, ReportsOf, NodesOf
<1>3. ASSUME NEW s \in DOMAIN sessions
      PROVE  s \in Calling(n) <=> HistoryOutcome(s, n) \in Outcome \cup {"xfailed", "xpassed"}
  <2>1. CASE ReportsOf(RowsOf(s), n, "call") = {}
    <3>1. HistoryOutcome(s, n) = "unknown" /\ s \notin Calling(n)
      BY <2>1, CallInHistory DEF Calling
    <3> QED
      BY <3>1 DEF Outcome
  <2>2. CASE ReportsOf(RowsOf(s), n, "call") # {}
    <3>1. PICK i \in ReportsOf(RowsOf(s), n, "call") :
                 /\ RowsOf(s)[i] \in Report
                 /\ HistoryOutcome(s, n)
                      = DetermineTestOutcome(RowsOf(s)[i].outcome, RowsOf(s)[i].xfail, FALSE)
      BY <2>2, CallInHistory
    <3>2. HistoryOutcome(s, n) \in Outcome \cup {"xfailed", "xpassed"}
      BY <3>1, Category, ZenonT(60) DEF Report
    <3> QED
      BY <2>2, <3>2 DEF Calling
  <2> QED
    BY <2>1, <2>2
<1> QED
  BY <1>1, <1>2, <1>3

LEMMA Disjoint ==
    ASSUME NEW S, NEW T, IsFiniteSet(S), IsFiniteSet(T), S \cap T = {}
    PROVE  Cardinality(S \cup T) = Cardinality(S) + Cardinality(T)
<1>1. Cardinality(S \cup T) = Cardinality(S) + Cardinality(T) - Cardinality(S \cap T)
  BY FS_Union
<1>2. Cardinality({}) = 0
  BY FS_EmptySet
<1>3. Cardinality(S) \in Nat /\ Cardinality(T) \in Nat
  BY FS_CardinalityType
<1>4. Cardinality(S \cap T) = 0
  <2>1. S \cap T = {}
    OBVIOUS
  <2> QED
    BY <1>2, <2>1, Zenon
<1> QED
  BY <1>1, <1>3, <1>4

\* The sessions of the history are those with a call and those without.
LEMMA TotalRuns ==
    ASSUME TableInv, NEW n
    PROVE  HistoryStats(n).total_runs = Overview(n).total_runs + Cardinality(Uncalled(n))
<1> DEFINE H == DOMAIN History(n)
<1>1. TypeOK /\ IsFiniteSet(DOMAIN sessions)
  BY DEF TableInv, OrderInv
<1>2. H = Calling(n) \cup Uncalled(n) /\ Calling(n) \cap Uncalled(n) = {}
  BY <1>1, CallingHistory DEF Uncalled
<1>3. H \subseteq DOMAIN sessions
  BY <1>1, CallingHistory
<1> HIDE DEF H
<1>4. IsFiniteSet(Calling(n)) /\ IsFiniteSet(Uncalled(n))
  BY <1>1, <1>2, <1>3, FS_Subset
<1>5. Cardinality(H) = Cardinality(Calling(n)) + Cardinality(Uncalled(n))
  BY <1>2, <1>4, Disjoint
<1> QED
  BY <1>5 DEF H, HistoryStats, Overview

LEMMA PassedRuns ==
    ASSUME TableInv, NEW n,
           \A s \in Calling(n) : Cardinality(ReportsOf(RowsOf(s), n, "call")) = 1
    PROVE  Overview(n).passed_runs = HistoryStats(n).passed_runs + Cardinality(XPassed(n))
<1> DEFINE R(s) == ReportsOf(RowsOf(s), n, "call")
           P(s) == {i \in R(s) : RowsOf(s)[i].outcome = "passed"}
           S == UNION {{s} \X P(s) : s \in Calling(n)}
           T == {s \in DOMAIN History(n) : History(n)[s] \in {"passed", "xpassed"}}
           f == [s \in T |-> <<s, CHOOSE i \in R(s) : TRUE>>]
<1>1. TypeOK /\ IsFiniteSet(DOMAIN sessions)
  BY DEF TableInv, OrderInv
<1>2. ASSUME NEW s \in Calling(n)
      PROVE  /\ R(s) = {CHOOSE i \in R(s) : TRUE}
             /\ s \in T <=> P(s) # {}
  <2>1. s \in DOMAIN sessions /\ R(s) # {}
    BY DEF Calling
  <2>2. PICK i \in R(s) :
               /\ RowsOf(s)[i] \in Report
               /\ HistoryOutcome(s, n)
                    = DetermineTestOutcome(RowsOf(s)[i].outcome, RowsOf(s)[i].xfail, FALSE)
    BY <1>1, <2>1, CallInHistory
  <2>3. R(s) = {i}
    <3>1. Cardinality(R(s)) = 1
      OBVIOUS
    <3>2. RowsOf(s) \in Seq(Report)
      BY <1>1, <2>1 DEF TypeOK, SessionRow, RowsOf
    <3>3. IsFiniteSet(R(s))
      BY <3>2, Indices
    <3> HIDE DEF R
    <3>4. PICK j : R(s) = {j}
      BY <3>1, <3>3, FS_Singleton
    <3> QED
      BY <3>4
  <2>4. RowsOf(s)[i].outcome \in Outcome /\ RowsOf(s)[i].xfail \in BOOLEAN
    BY <2>2 DEF Report
  <2>5. HistoryOutcome(s, n) \in {"passed", "xpassed"} <=> RowsOf(s)[i].outcome = "passed"
    BY <2>2, <2>4, Category DEF Outcome
  <2>6. s \in T <=> HistoryOutcome(s, n) \in {"passed", "xpassed"}
    BY <1>1, CallingHistory
  <2>7. P(s) # {} <=> RowsOf(s)[i].outcome = "passed"
    BY <2>3
  <2> QED
    BY <2>3, <2>5, <2>6, <2>7
<1>3. T \subseteq Calling(n)
  BY <1>1, CallingHistory DEF Outcome
<1>4. IsFiniteSet(T)
  BY <1>1, CallingHistory, FS_Subset
<1>5. f \in [T -> S]
  <2> SUFFICES ASSUME NEW s \in T PROVE <<s, CHOOSE i \in R(s) : TRUE>> \in S
    OBVIOUS
  <2>1. s \in Calling(n)
    BY <1>3
  <2>2. P(s) = {CHOOSE i \in R(s) : TRUE}
    BY <1>2, <2>1
  <2> QED
    BY <2>1, <2>2
<1>6. \A x, y \in T : f[x] = f[y] => x = y
  OBVIOUS
<1>7. ASSUME NEW t \in S PROVE \E x \in T : f[x] = t
  <2>1. PICK s \in Calling(n) : t \in {s} \X P(s)
    OBVIOUS
  <2>2. s \in T /\ t = <<s, CHOOSE i \in R(s) : TRUE>>
    BY <1>2, <2>1
  <2> QED
    BY <2>2
<1> DEFINE T1 == {s \in DOMAIN History(n) : History(n)[s] = "passed"}
<1>9. T = T1 \cup XPassed(n) /\ T1 \cap XPassed(n) = {}
  BY DEF XPassed
<1> HIDE DEF S, T, T1, f
<1>8. Cardinality(S) = Cardinality(T)
  BY <1>4, <1>5, <1>6, <1>7, SameCount
<1>10. IsFiniteSet(T1) /\ IsFiniteSet(XPassed(n))
  BY <1>4, <1>9, FS_Subset
<1>11. Cardinality(T) = Cardinality(T1) + Cardinality(XPassed(n))
  BY <1>9, <1>10, Disjoint
<1> QED
  BY <1>8, <1>11 DEF S, T1, Overview, HistoryStats

\* The session with the largest id is the latest, and its outcome is the last.
LEMMA LatestRun ==
    ASSUME TableInv, NEW n, Calling(n) # {}
    PROVE  \E s \in DOMAIN History(n) : /\ sessions[s].created_at = Overview(n).last_run
                                        /\ History(n)[s] = Overview(n).latest_result
<1>1. TypeOK /\ IsFiniteSet(DOMAIN sessions) /\ IdOrderIsCreationOrder
  BY DEF TableInv, OrderInv
<1>2. DOMAIN sessions \subseteq Int /\ \A t \in DOMAIN sessions : sessions[t].created_at \in Nat
  BY <1>1 DEF TypeOK, SessionRow
<1>3. Calling(n) \subseteq DOMAIN sessions
  BY DEF Calling
<1>4. IsFiniteSet(Calling(n)) /\ Calling(n) \subseteq Int
  BY <1>1, <1>2, <1>3, FS_Subset
<1>5. PICK s \in Calling(n) : \A t \in Calling(n) : t <= s
  BY <1>4, Largest
<1>6. MaxSession(n) = s
  <2>1. \A x \in Calling(n) : (\A t \in Calling(n) : t <= x) => x = s
    BY <1>4, <1>5
  <2> QED
    BY <1>5, <2>1 DEF MaxSession
<1>7. \A t \in Calling(n) : sessions[t].created_at <= sessions[s].created_at
  <2> SUFFICES ASSUME NEW t \in Calling(n)
               PROVE  sessions[t].created_at <= sessions[s].created_at
    OBVIOUS
  <2>1. t = s \/ t < s
    BY <1>4, <1>5
  <2>2. t < s => sessions[t].created_at < sessions[s].created_at
    BY <1>1, <1>3 DEF IdOrderIsCreationOrder
  <2> QED
    BY <1>2, <1>3, <2>1, <2>2
<1>8. Overview(n).last_run = sessions[s].created_at
  <2> DEFINE C == {sessions[t].created_at : t \in Calling(n)}
             last == sessions[s].created_at
  <2>1. last \in C /\ \A t \in Calling(n) : sessions[t].created_at <= last
    BY <1>7
  <2>2. C \subseteq Nat
    BY <1>2, <1>3
  <2>3. \A c \in C : (\A t \in Calling(n) : sessions[t].created_at <= c) => c = last
    BY <1>2, <1>3, <2>1, <2>2
  <2>4. (CHOOSE c \in C : \A t \in Calling(n) : sessions[t].created_at <= c) = last
    BY <2>1, <2>3
  <2> QED
    BY <2>4 DEF Overview
<1>9. Overview(n).latest_result = HistoryOutcome(s, n)
  <2>1. Overview(n).latest_result = LatestResult(n)
    BY DEF Overview
  <2>2. PICK i \in ReportsOf(RowsOf(s), n, "call") :
               /\ RowsOf(s)[i] \in Report
               /\ GroupedByPhase(RowsOf(s), n, "call") = RowsOf(s)[i]
    BY <1>1, <1>3, CallInHistory DEF Calling
  <2>3. RowsOf(s)[i] # None
    BY <2>2, NoneAssumption
  <2> QED
    BY <1>6, <2>1, <2>2, <2>3 DEF LatestResult, HistoryOutcome
<1>10. s \in DOMAIN History(n) /\ History(n)[s] = HistoryOutcome(s, n)
  BY <1>1, CallingHistory
<1> QED
  BY <1>8, <1>9, <1>10

\* By how much the overview of all tests, which the database aggregates by id, and the
\* history of one, which the handler aggregates by time, differ in runs and passes, and
\* that they agree in the latest result: whatever clients do, and although ids are used
\* again.
THEOREM OverviewTheorem == Spec => []OverviewAgainstHistory
<1>1. TableInv => OverviewAgainstHistory
  BY TotalRuns, PassedRuns, LatestRun DEF OverviewAgainstHistory, TableInv, OrderInv
<1> QED
  BY <1>1, TableInit, TableNext, PTL DEF Spec
=============================================================================
