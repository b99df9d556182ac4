---------------------------- MODULE IngestProofs ----------------------------
(***************************************************************************)
(* Theorems about Ingest, for every set of uuids, reports and tests, and   *)
(* that it implements SessionLedger.                                       *)
(***************************************************************************)
EXTENDS IngestLedger, OutcomeProofs, FiniteSetTheorems, TLAPS

-----------------------------------------------------------------------------
(* Lemmas about the operators the handlers are built from *)

\* Maps from D to T stay so when a key is put or dropped.
LEMMA PutType ==
    ASSUME NEW D, NEW T, NEW m, DOMAIN m \subseteq D, \A x \in DOMAIN m : m[x] \in T,
           NEW k \in D, NEW v \in T
    PROVE  /\ DOMAIN Put(m, k, v) \subseteq D
           /\ \A x \in DOMAIN Put(m, k, v) : Put(m, k, v)[x] \in T
BY DEF Put

LEMMA DropType ==
    ASSUME NEW D, NEW T, NEW m, DOMAIN m \subseteq D, \A x \in DOMAIN m : m[x] \in T,
           NEW K
    PROVE  /\ DOMAIN Drop(m, K) \subseteq D
           /\ \A x \in DOMAIN Drop(m, K) : Drop(m, K)[x] \in T
BY DEF Drop

\* Applying a report to a tracking gives a tracking.
LEMMA TrackedType ==
    ASSUME TypeOK, NEW s, NEW r \in Report
    PROVE  Tracked(s, r) \in Tracking
<1> DEFINE old == IF s \in DOMAIN active_sessions THEN active_sessions[s]
                  ELSE FreshTracking
           bounds == UpdateTimestampBounds(old, r)
<1>2. FreshTracking \in Tracking
  BY EmptyType DEF FreshTracking, Tracking, Time
<1>3. old \in Tracking
  BY <1>2 DEF TypeOK
<1>4. bounds.min_start \in Time /\ bounds.max_stop \in Time
  BY <1>3 DEF UpdateTimestampBounds, Tracking, Report, Time
<1>5. UpdateTestOutcome(old.test_outcomes, r) \in TestOutcomes
  BY <1>3, UpdateType DEF Tracking
<1>6. Tracked(s, r) = [test_outcomes |-> UpdateTestOutcome(old.test_outcomes, r),
                       min_start |-> bounds.min_start, max_stop |-> bounds.max_stop]
  BY DEF Tracked
<1> HIDE DEF old, bounds
<1> QED
  BY <1>4, <1>5, <1>6 DEF Tracking

\* The outcomes of a tracking are those of finitely many tests.
LEMMA TrackingFinite ==
    ASSUME NEW t \in Tracking
    PROVE  CalculateSessionStats(t.test_outcomes) \in SessionStats
<1>1. DOMAIN t.test_outcomes \subseteq Nodes
  BY DEF Tracking, TestOutcomes
<1>2. IsFiniteSet(DOMAIN t.test_outcomes)
  BY <1>1, NodesAssumption, FS_Subset
<1> QED
  BY <1>2, StatsType

LEMMA NewSessionType ==
    ASSUME TypeOK, NEW u \in Uuids
    PROVE  NewSession(u) \in SessionRow
<1>1. CalculateSessionStats(<<>>) \in SessionStats
  <2>1. DOMAIN <<>> = {}
    OBVIOUS
  <2> QED
    BY <2>1, FS_EmptySet, StatsType
<1> QED
  BY <1>1 DEF NewSession, SessionRow, Status, TypeOK

LEMMA StoredType ==
    ASSUME NEW row \in SessionRow, NEW u \in Uuids, NEW r \in Report, NEW t \in Tracking
    PROVE  Stored(row, u, r, t) \in SessionRow
<1>1. CalculateSessionStats(t.test_outcomes) \in SessionStats
  BY TrackingFinite
<1>2. (IF t.min_start # None /\ t.max_stop # None THEN t.max_stop - t.min_start
       ELSE row.duration) \in Int \cup {None}
  BY DEF Tracking, Time, SessionRow
<1>3. Append(row.reports, r) \in Seq(Report)
  BY DEF SessionRow
<1> QED
  BY <1>1, <1>2, <1>3 DEF Stored, SessionRow

-----------------------------------------------------------------------------
(* Type correctness *)

LEMMA TypeInit == Init => TypeOK
BY DEF Init, TypeOK

LEMMA TypeOpen ==
    ASSUME TypeOK, NEW u \in Uuids, NEW id, NEW res, OpenSession(u, id, res)
    PROVE  TypeOK'
<1>1. PICK new \in 1 .. created + 1 :
         /\ sessions' = Put(sessions, new, NewSession(u))
         /\ \/ UNCHANGED <<active_sessions, session_uuid_map>>
            \/ /\ active_sessions' = Put(active_sessions, new, FreshTracking)
               /\ session_uuid_map' = IF u = None THEN session_uuid_map
                                      ELSE Put(session_uuid_map, u, new)
  BY DEF OpenSession
<1>2. new \in Nat \ {0}
  BY DEF TypeOK
<1>3. /\ DOMAIN sessions' \subseteq Nat \ {0}
      /\ \A s \in DOMAIN sessions' : sessions'[s] \in SessionRow
  BY <1>1, <1>2, NewSessionType, PutType DEF TypeOK
<1>4. FreshTracking \in Tracking
  <2>1. <<>> \in [{} -> TestOutcome]
    OBVIOUS
  <2>2. <<>> \in TestOutcomes
    BY <2>1 DEF TestOutcomes
  <2> QED
    BY <2>2 DEF FreshTracking, Tracking, Time
<1>5. /\ DOMAIN active_sessions' \subseteq Nat \ {0}
      /\ \A s \in DOMAIN active_sessions' : active_sessions'[s] \in Tracking
  <2>1. CASE active_sessions' = active_sessions
    BY <2>1 DEF TypeOK
  <2>2. CASE active_sessions' = Put(active_sessions, new, FreshTracking)
    BY <2>2, <1>2, <1>4, PutType DEF TypeOK
  <2> QED
    BY <1>1, <2>1, <2>2
<1>6. /\ DOMAIN session_uuid_map' \subseteq Uuids \ {None}
      /\ \A v \in DOMAIN session_uuid_map' : session_uuid_map'[v] \in Nat \ {0}
  <2>1. CASE session_uuid_map' = session_uuid_map
    BY <2>1 DEF TypeOK
  <2>2. CASE u # None /\ session_uuid_map' = Put(session_uuid_map, u, new)
    <3>1. u \in Uuids \ {None}
      BY <2>2
    <3> QED
      BY <2>2, <3>1, <1>2, PutType, ZenonT(60) DEF TypeOK
  <2> QED
    BY <1>1, <2>1, <2>2
<1>7. up' \in BOOLEAN /\ created' \in Nat
  BY DEF TypeOK, OpenSession
<1> QED
  BY <1>3, <1>5, <1>6, <1>7 DEF TypeOK

LEMMA TypeReopen ==
    ASSUME TypeOK, NEW u \in Uuids, NEW id, ReopenSession(u, id)
    PROVE  TypeOK'
<1>1. /\ DOMAIN session_uuid_map' \subseteq Uuids \ {None}
      /\ \A v \in DOMAIN session_uuid_map' : session_uuid_map'[v] \in Nat \ {0}
  BY PutType, ZenonT(60) DEF ReopenSession, TypeOK
<1> QED
  BY <1>1 DEF ReopenSession, TypeOK

LEMMA TypeReport ==
    ASSUME TypeOK, NEW u \in Uuids, NEW id, NEW r \in Reports, NEW res,
           TestReport(u, id, r, res)
    PROVE  TypeOK'
<1> DEFINE s == Resolve(u, id)
           t == Tracked(s, r)
<1>1. r \in Report
  BY IngestAssumption
<1>2. t \in Tracking
  BY <1>1, TrackedType
<1>3. /\ s \in DOMAIN sessions
      /\ active_sessions' = Put(active_sessions, s, t)
      /\ \/ sessions' = sessions
         \/ sessions' = Put(sessions, s, Stored(sessions[s], u, r, t))
      /\ UNCHANGED <<up, session_uuid_map, created>>
  BY DEF TestReport
<1>4. Stored(sessions[s], u, r, t) \in SessionRow
  BY <1>1, <1>2, <1>3, StoredType DEF TypeOK
<1> HIDE DEF s, t
<1>5. /\ DOMAIN sessions' \subseteq Nat \ {0}
      /\ \A x \in DOMAIN sessions' : sessions'[x] \in SessionRow
  BY <1>3, <1>4, PutType DEF TypeOK
<1>6. /\ DOMAIN active_sessions' \subseteq Nat \ {0}
      /\ \A x \in DOMAIN active_sessions' : active_sessions'[x] \in Tracking
  BY <1>2, <1>3, PutType DEF TypeOK
<1> QED
  BY <1>3, <1>5, <1>6 DEF TypeOK

LEMMA TypeFinish ==
    ASSUME TypeOK, NEW u \in Uuids, NEW id, NEW res, SessionFinish(u, id, res)
    PROVE  TypeOK'
<1> DEFINE s == Resolve(u, id)
<1>1. /\ s \in DOMAIN sessions
      /\ active_sessions' = Drop(active_sessions, {s})
      /\ \/ sessions' = sessions
         \/ sessions' = [sessions EXCEPT ![s].status = "completed"]
      /\ \/ session_uuid_map' = Drop(session_uuid_map, {u})
         \/ session_uuid_map' = session_uuid_map
      /\ UNCHANGED <<up, created>>
  BY DEF SessionFinish
<1> HIDE DEF s
<1>2. [sessions[s] EXCEPT !.status = "completed"] \in SessionRow
  BY <1>1 DEF TypeOK, SessionRow, Status
<1>3. \A x \in DOMAIN sessions' : sessions'[x] \in SessionRow
  BY <1>1, <1>2 DEF TypeOK
<1>4. DOMAIN sessions' = DOMAIN sessions
  BY <1>1
<1>5. /\ DOMAIN active_sessions' \subseteq Nat \ {0}
      /\ \A x \in DOMAIN active_sessions' : active_sessions'[x] \in Tracking
  BY <1>1, DropType DEF TypeOK
<1>6. /\ DOMAIN session_uuid_map' \subseteq Uuids \ {None}
      /\ \A v \in DOMAIN session_uuid_map' : session_uuid_map'[v] \in Nat \ {0}
  <2>1. CASE session_uuid_map' = session_uuid_map
    BY <2>1 DEF TypeOK
  <2>2. CASE session_uuid_map' = Drop(session_uuid_map, {u})
    BY <2>2, DropType DEF TypeOK
  <2> QED
    BY <1>1, <2>1, <2>2
<1> QED
  BY <1>1, <1>3, <1>4, <1>5, <1>6 DEF TypeOK

LEMMA TypeDrop ==
    ASSUME TypeOK, NEW S, sessions' = Drop(sessions, S),
           UNCHANGED <<up, active_sessions, session_uuid_map, created>>
    PROVE  TypeOK'
BY DropType DEF TypeOK

LEMMA TypeStartup ==
    ASSUME TypeOK, Startup
    PROVE  TypeOK'
<1>1. \A s \in DOMAIN sessions :
         [sessions[s] EXCEPT !.status = "interrupted"] \in SessionRow
  BY DEF TypeOK, SessionRow, Status
<1>2. DOMAIN sessions' = DOMAIN sessions
  BY DEF Startup
<1>3. \A s \in DOMAIN sessions' : sessions'[s] \in SessionRow
  BY <1>1 DEF Startup, TypeOK
<1> QED
  BY <1>2, <1>3 DEF Startup, TypeOK

LEMMA TypeNext == TypeOK /\ [Next]_vars => TypeOK'
<1> SUFFICES ASSUME TypeOK, [Next]_vars PROVE TypeOK'
  OBVIOUS
<1>1. CASE \E u \in Uuids, id \in ClientIds, res \in CommitResults :
              SessionStart(u, id, res)
  BY <1>1, TypeOpen, TypeReopen DEF SessionStart
<1>2. CASE \E u \in Uuids, id \in ClientIds, res \in CommitResults, r \in Reports :
              TestReport(u, id, r, res)
  BY <1>2, TypeReport
<1>3. CASE \E u \in Uuids, id \in ClientIds, res \in CommitResults :
              SessionFinish(u, id, res)
  BY <1>3, TypeFinish
<1>4. CASE \E s \in DOMAIN sessions : DeleteSession(s)
  BY <1>4, TypeDrop DEF DeleteSession
<1>5. CASE PruneSessions
  BY <1>5, TypeDrop DEF PruneSessions
<1>6. CASE Stop
  <2>1. DOMAIN <<>> = {}
    OBVIOUS
  <2> QED
    BY <1>6, <2>1 DEF Stop, TypeOK
<1>7. CASE Startup
  BY <1>7, TypeStartup
<1>8. CASE UNCHANGED vars
  BY <1>8 DEF vars, TypeOK
<1> QED
  BY <1>1, <1>2, <1>3, <1>4, <1>5, <1>6, <1>7, <1>8 DEF Next

\* The tables and the two maps keep their types in every reachable state: no
\* handler leaves a half-built row, a mapping to no id or a counter that is
\* not a number, whatever clients send and whichever commits fail.
THEOREM TypeCorrect == Spec => []TypeOK
<1>1. Init => TypeOK
  BY TypeInit
<1>2. TypeOK /\ [Next]_vars => TypeOK'
  BY TypeNext
<1> QED
  BY <1>1, <1>2, PTL DEF Spec

-----------------------------------------------------------------------------
(* What a step may do to the session table *)

\* Insert one row above all others.
Inserts ==
    /\ created' = created + 1
    /\ \E new \in Nat \ {0}, u \in Uuids :
          /\ \A s \in DOMAIN sessions : s < new
          /\ sessions' = Put(sessions, new, NewSession(u))

\* What a row may become: it takes reports and never loses one, and never starts again.
Grows(row, new) ==
    /\ row.status = "completed" => new.status = "completed"
    /\ row.status = "interrupted" => new.status # "in_progress"
    /\ \/ new.reports = row.reports
       \/ \E r \in Report : new.reports = Append(row.reports, r)

\* Or keep or remove rows, whose owner and time of creation stay.
Keeps ==
    /\ created' = created
    /\ DOMAIN sessions' \subseteq DOMAIN sessions
    /\ \A s \in DOMAIN sessions' : /\ sessions'[s].owner = sessions[s].owner
                                   /\ sessions'[s].created_at = sessions[s].created_at
                                   /\ Grows(sessions[s], sessions'[s])

LEMMA SameRowGrows == \A row : Grows(row, row)
BY DEF Grows

LEMMA ReportKeeps ==
    ASSUME TypeOK, NEW u \in Uuids, NEW id, NEW r \in Reports, NEW res,
           TestReport(u, id, r, res)
    PROVE  Keeps
<1> DEFINE s == Resolve(u, id)
           t == Tracked(s, r)
<1>1. /\ s \in DOMAIN sessions
      /\ \/ sessions' = sessions
         \/ sessions' = Put(sessions, s, Stored(sessions[s], u, r, t))
      /\ created' = created
  BY DEF TestReport
<1> HIDE DEF s, t
<1>2. /\ Stored(sessions[s], u, r, t).owner = sessions[s].owner
      /\ Stored(sessions[s], u, r, t).created_at = sessions[s].created_at
      /\ Stored(sessions[s], u, r, t).status = sessions[s].status
      /\ Stored(sessions[s], u, r, t).reports = Append(sessions[s].reports, r)
  BY <1>1 DEF Stored, TypeOK, SessionRow
<1>3. Grows(sessions[s], Stored(sessions[s], u, r, t))
  BY <1>2, IngestAssumption DEF Grows
<1> QED
  BY <1>1, <1>2, <1>3, SameRowGrows DEF Keeps, Put

LEMMA FinishKeeps ==
    ASSUME TypeOK, NEW u \in Uuids, NEW id, NEW res, SessionFinish(u, id, res)
    PROVE  Keeps
<1>1. /\ \/ sessions' = sessions
         \/ sessions' = [sessions EXCEPT ![Resolve(u, id)].status = "completed"]
      /\ Resolve(u, id) \in DOMAIN sessions
      /\ created' = created
  BY DEF SessionFinish
<1>2. ASSUME NEW s \in DOMAIN sessions, NEW row, row = [sessions[s] EXCEPT !.status = "completed"]
      PROVE  /\ row.owner = sessions[s].owner
             /\ row.created_at = sessions[s].created_at
             /\ Grows(sessions[s], row)
  BY <1>2 DEF TypeOK, SessionRow, Grows
<1>3. DOMAIN sessions' = DOMAIN sessions
  BY <1>1
<1>4. \A s \in DOMAIN sessions :
         \/ sessions'[s] = sessions[s]
         \/ sessions'[s] = [sessions[s] EXCEPT !.status = "completed"]
  BY <1>1
<1> QED
  BY <1>1, <1>2, <1>3, <1>4, SameRowGrows DEF Keeps

LEMMA TableSteps == TypeOK /\ [Next]_vars => Inserts \/ Keeps
<1> SUFFICES ASSUME TypeOK, [Next]_vars PROVE Inserts \/ Keeps
  OBVIOUS
<1>1. CASE \E u \in Uuids, id \in ClientIds, res \in CommitResults :
              SessionStart(u, id, res)
  <2>1. PICK u \in Uuids, id \in ClientIds, res \in CommitResults :
               SessionStart(u, id, res)
    BY <1>1
  <2>2. CASE OpenSession(u, id, res)
    <3>1. PICK new \in 1 .. created + 1 :
                 /\ \A s \in DOMAIN sessions : s < new
                 /\ sessions' = Put(sessions, new, NewSession(u))
      BY <2>2 DEF OpenSession, IsNextId
    <3>2. new \in Nat \ {0}
      BY DEF TypeOK
    <3> QED
      BY <2>2, <3>1, <3>2 DEF Inserts, OpenSession
  <2>3. CASE ReopenSession(u, id)
    BY <2>3, SameRowGrows DEF ReopenSession, Keeps
  <2> QED
    BY <2>1, <2>2, <2>3 DEF SessionStart
<1>2. CASE \E u \in Uuids, id \in ClientIds, res \in CommitResults, r \in Reports :
              TestReport(u, id, r, res)
  BY <1>2, ReportKeeps
<1>3. CASE \E u \in Uuids, id \in ClientIds, res \in CommitResults :
              SessionFinish(u, id, res)
  BY <1>3, FinishKeeps
<1>4. CASE \E s \in DOMAIN sessions : DeleteSession(s)
  BY <1>4, SameRowGrows DEF DeleteSession, Keeps, Drop
<1>5. CASE PruneSessions
  BY <1>5, SameRowGrows DEF PruneSessions, Keeps, Drop
<1>6. CASE Stop
  BY <1>6, SameRowGrows DEF Stop, Keeps
<1>7. CASE Startup
  BY <1>7 DEF Startup, Keeps, Grows, TypeOK, SessionRow
<1>8. CASE UNCHANGED vars
  BY <1>8, SameRowGrows DEF vars, Keeps
<1> QED
  BY <1>1, <1>2, <1>3, <1>4, <1>5, <1>6, <1>7, <1>8 DEF Next

-----------------------------------------------------------------------------
(* The order of ids *)

\* IdOrderIsCreationOrder is inductive once no row is from the future.
OrderInv ==
    /\ TypeOK
    /\ IdOrderIsCreationOrder
    /\ \A s \in DOMAIN sessions : sessions[s].created_at < created

LEMMA OrderNext == OrderInv /\ [Next]_vars => OrderInv'
<1> SUFFICES ASSUME OrderInv, [Next]_vars PROVE OrderInv'
  OBVIOUS
<1>1. TypeOK /\ TypeOK'
  BY TypeNext DEF OrderInv
<1>2. \A s \in DOMAIN sessions : sessions[s].created_at \in Nat /\ s \in Nat
  BY <1>1 DEF TypeOK, SessionRow
<1>3. CASE Inserts
  <2>1. PICK new \in Nat \ {0}, u \in Uuids :
               /\ \A s \in DOMAIN sessions : s < new
               /\ sessions' = Put(sessions, new, NewSession(u))
    BY <1>3 DEF Inserts
  <2>2. /\ DOMAIN sessions' = DOMAIN sessions \cup {new}
        /\ \A s \in DOMAIN sessions : sessions'[s] = sessions[s]
        /\ sessions'[new].created_at = created
    BY <1>2, <2>1 DEF Put, NewSession
  <2>3. created' = created + 1 /\ created \in Nat
    BY <1>1, <1>3 DEF Inserts, TypeOK
  <2>4. \A s \in DOMAIN sessions' : sessions'[s].created_at < created'
    BY <1>2, <2>2, <2>3 DEF OrderInv
  <2>5. \A s, t \in DOMAIN sessions' :
           s < t => sessions'[s].created_at < sessions'[t].created_at
    BY <1>2, <2>1, <2>2, <2>3 DEF OrderInv, IdOrderIsCreationOrder
  <2> QED
    BY <1>1, <2>4, <2>5 DEF OrderInv, IdOrderIsCreationOrder
<1>4. CASE Keeps
  BY <1>1, <1>4 DEF Keeps, OrderInv, IdOrderIsCreationOrder
<1> QED
  BY <1>1, <1>3, <1>4, TableSteps

\* Whatever clients send, delete or prune, whichever commits fail and however
\* often the server restarts: of two stored sessions the one with the larger
\* id was inserted later, so "largest id" is "latest" (history.py).
THEOREM IdsFollowCreation == Spec => []IdOrderIsCreationOrder
<1>1. Init => OrderInv
  BY TypeInit DEF Init, OrderInv, IdOrderIsCreationOrder
<1>2. OrderInv /\ [Next]_vars => OrderInv'
  BY OrderNext
<1>3. OrderInv => IdOrderIsCreationOrder
  BY DEF OrderInv
<1> QED
  BY <1>1, <1>2, <1>3, PTL DEF Spec

LEMMA AppendKeeps ==
    ASSUME NEW old \in Seq(Report), NEW new,
           new = old \/ \E r \in Report : new = Append(old, r)
    PROVE  Len(old) <= Len(new) /\ SubSeq(new, 1, Len(old)) = old
<1>1. /\ new \in Seq(Report) /\ Len(old) \in Nat
      /\ Len(new) \in {Len(old), Len(old) + 1}
      /\ \A i \in 1 .. Len(old) : new[i] = old[i]
  OBVIOUS
<1>2. Len(old) <= Len(new)
  BY <1>1
<1>3. SubSeq(new, 1, Len(old)) = old
  BY <1>1, <1>2
<1> QED
  BY <1>2, <1>3

\* Whatever clients send, whichever commits fail and however often the server restarts:
\* a completed session stays completed, one that has ended is never shown as running
\* again, and no handler drops, replaces or reorders a stored report.
THEOREM HistoryGrows == Spec => HistoryOnlyGrows
<1>1. TypeOK /\ [Next]_vars =>
         \A s \in DOMAIN sessions : SameSession(s) =>
            /\ sessions[s].status = "completed" => sessions'[s].status = "completed"
            /\ sessions[s].status = "interrupted" => sessions'[s].status # "in_progress"
            /\ Len(sessions[s].reports) <= Len(sessions'[s].reports)
            /\ SubSeq(sessions'[s].reports, 1, Len(sessions[s].reports)) = sessions[s].reports
  <2> SUFFICES ASSUME TypeOK, [Next]_vars, NEW s \in DOMAIN sessions, s \in DOMAIN sessions'
               PROVE  /\ sessions[s].status = "completed" => sessions'[s].status = "completed"
                      /\ sessions[s].status = "interrupted" => sessions'[s].status # "in_progress"
                      /\ Len(sessions[s].reports) <= Len(sessions'[s].reports)
                      /\ SubSeq(sessions'[s].reports, 1, Len(sessions[s].reports))
                            = sessions[s].reports
    BY DEF SameSession
  <2>1. Grows(sessions[s], sessions'[s])
    <3>1. CASE Inserts
      <4>1. PICK new \in Nat \ {0}, u \in Uuids :
                   /\ \A t \in DOMAIN sessions : t < new
                   /\ sessions' = Put(sessions, new, NewSession(u))
        BY <3>1 DEF Inserts
      <4>2. new # s
        BY <4>1 DEF TypeOK
      <4>3. sessions'[s] = sessions[s]
        BY <4>1, <4>2 DEF Put
      <4> QED
        BY <4>3, SameRowGrows
    <3>2. CASE Keeps
      BY <3>2 DEF Keeps
    <3> QED
      BY <3>1, <3>2, TableSteps
  <2>2. sessions[s].reports \in Seq(Report)
    BY DEF TypeOK, SessionRow
  <2>3. /\ Len(sessions[s].reports) <= Len(sessions'[s].reports)
        /\ SubSeq(sessions'[s].reports, 1, Len(sessions[s].reports)) = sessions[s].reports
    BY <2>1, <2>2, AppendKeeps DEF Grows
  <2> QED
    BY <2>1, <2>3 DEF Grows
<1> QED
  BY <1>1, TypeCorrect, PTL DEF Spec, HistoryOnlyGrows

-----------------------------------------------------------------------------
(* Runs and their sessions *)

\* The setting of the pytest plugin: events carry a uuid and no id, refreshes
\* succeed after their commit, and nobody deletes a session in progress.
PluginSetting ==
    /\ ClientIds \subseteq {NoSession}
    /\ CommitResults \subseteq {"ok", "commit_fails"}
    /\ Deletable \subseteq {"completed", "interrupted"}

\* The inductive invariant: a process that is down has no mapping, and the
\* mapping of one that is up leads every uuid to its own running session.
OwnershipInv ==
    /\ TypeOK
    /\ MappedSessionsAreLive
    /\ ~up => session_uuid_map = <<>>
    /\ ReportsBelongToRun

\* Under it, an event is for the running session its uuid opened, if any.
LEMMA ResolveOwn ==
    ASSUME PluginSetting, OwnershipInv, NEW u \in Uuids, NEW id \in ClientIds,
           Resolve(u, id) # NoSession \/ Resolve(u, id) \in DOMAIN sessions
    PROVE  /\ up
           /\ u \in DOMAIN session_uuid_map
           /\ Resolve(u, id) = session_uuid_map[u]
           /\ InProgress(Resolve(u, id))
           /\ sessions[Resolve(u, id)].owner = u
<1>1. id = NoSession
  BY DEF PluginSetting
<1>2. NoSession \notin DOMAIN sessions
  BY DEF OwnershipInv, TypeOK, NoSession
<1>3. u \in DOMAIN session_uuid_map /\ Resolve(u, id) = session_uuid_map[u]
  BY <1>1, <1>2 DEF Resolve
<1>4. up
  <2>1. DOMAIN <<>> = {}
    OBVIOUS
  <2> QED
    BY <1>3, <2>1 DEF OwnershipInv
<1> QED
  BY <1>3, <1>4 DEF OwnershipInv, MappedSessionsAreLive

LEMMA OwnershipOpen ==
    ASSUME PluginSetting, OwnershipInv, NEW u \in Uuids, NEW id \in ClientIds,
           NEW res \in CommitResults, up, OpenSession(u, id, res)
    PROVE  MappedSessionsAreLive' /\ ReportsBelongToRun'
<1>1. PICK new \in 1 .. created + 1 :
         /\ IsNextId(new)
         /\ sessions' = Put(sessions, new, NewSession(u))
         /\ \/ session_uuid_map' = session_uuid_map
            \/ session_uuid_map' = Put(session_uuid_map, u, new)
  BY DEF OpenSession, PluginSetting
<1>2. new \notin DOMAIN sessions
  BY <1>1 DEF IsNextId, OwnershipInv, TypeOK
<1>3. /\ NewSession(u).owner = u
      /\ NewSession(u).status = "in_progress"
      /\ NewSession(u).senders = {}
  BY DEF NewSession
<1>4. /\ DOMAIN sessions' = DOMAIN sessions \cup {new}
      /\ sessions'[new] = NewSession(u)
      /\ \A s \in DOMAIN sessions : sessions'[s] = sessions[s]
  BY <1>1, <1>2 DEF Put
<1>5. ReportsBelongToRun'
  BY <1>3, <1>4 DEF OwnershipInv, ReportsBelongToRun
<1>6. \A v \in DOMAIN session_uuid_map :
         /\ session_uuid_map[v] \in DOMAIN sessions'
         /\ sessions'[session_uuid_map[v]].status = "in_progress"
         /\ sessions'[session_uuid_map[v]].owner = v
  BY <1>4 DEF OwnershipInv, MappedSessionsAreLive, InProgress
<1>7. MappedSessionsAreLive'
  <2>1. CASE session_uuid_map' = session_uuid_map
    BY <1>6, <2>1 DEF MappedSessionsAreLive, InProgress
  <2>2. CASE session_uuid_map' = Put(session_uuid_map, u, new)
    <3>1. /\ DOMAIN session_uuid_map' = DOMAIN session_uuid_map \cup {u}
          /\ session_uuid_map'[u] = new
          /\ \A v \in DOMAIN session_uuid_map :
                v # u => session_uuid_map'[v] = session_uuid_map[v]
      BY <2>2 DEF Put
    <3> QED
      BY <1>3, <1>4, <1>6, <3>1 DEF MappedSessionsAreLive, InProgress
  <2> QED
    BY <1>1, <2>1, <2>2
<1> QED
  BY <1>5, <1>7

LEMMA OwnershipReopen ==
    ASSUME PluginSetting, OwnershipInv, NEW u \in Uuids, NEW id \in ClientIds,
           ReopenSession(u, id)
    PROVE  MappedSessionsAreLive' /\ ReportsBelongToRun'
<1>1. /\ InProgress(Resolve(u, id))
      /\ sessions[Resolve(u, id)].owner = u
      /\ session_uuid_map' = Put(session_uuid_map, u, Resolve(u, id))
      /\ sessions' = sessions
  BY ResolveOwn DEF ReopenSession
<1> QED
  BY <1>1 DEF OwnershipInv, MappedSessionsAreLive, ReportsBelongToRun, InProgress, Put

LEMMA OwnershipReport ==
    ASSUME PluginSetting, OwnershipInv, NEW u \in Uuids, NEW id \in ClientIds,
           NEW r \in Reports, NEW res, TestReport(u, id, r, res)
    PROVE  MappedSessionsAreLive' /\ ReportsBelongToRun'
<1> DEFINE s == Resolve(u, id)
           row == Stored(sessions[s], u, r, Tracked(s, r))
<1>1. /\ s \in DOMAIN sessions
      /\ session_uuid_map' = session_uuid_map
      /\ \/ sessions' = sessions
         \/ sessions' = Put(sessions, s, row)
  BY DEF TestReport
<1>2. sessions[s].owner = u
  BY <1>1, ResolveOwn
<1>3. /\ row.owner = sessions[s].owner
      /\ row.status = sessions[s].status
      /\ row.senders = sessions[s].senders \cup {u}
  BY <1>1 DEF Stored, OwnershipInv, TypeOK, SessionRow
<1> HIDE DEF s, row
<1> QED
  BY <1>1, <1>2, <1>3
     DEF OwnershipInv, MappedSessionsAreLive, ReportsBelongToRun, InProgress, Put

LEMMA OwnershipFinish ==
    ASSUME PluginSetting, OwnershipInv, NEW u \in Uuids, NEW id \in ClientIds,
           NEW res \in CommitResults, SessionFinish(u, id, res)
    PROVE  MappedSessionsAreLive' /\ ReportsBelongToRun'
<1> DEFINE s == Resolve(u, id)
<1>1. s \in DOMAIN sessions
  BY DEF SessionFinish
<1>2. sessions[s].owner = u
  BY <1>1, ResolveOwn
<1>3. CASE sessions' = sessions /\ session_uuid_map' = session_uuid_map
  BY <1>3 DEF OwnershipInv, MappedSessionsAreLive, ReportsBelongToRun, InProgress
<1>4. CASE /\ sessions' = [sessions EXCEPT ![s].status = "completed"]
           /\ session_uuid_map' = Drop(session_uuid_map, {u})
  <2> HIDE DEF s
  <2>1. /\ DOMAIN sessions' = DOMAIN sessions
        /\ \A x \in DOMAIN sessions : /\ sessions'[x].owner = sessions[x].owner
                                      /\ sessions'[x].senders = sessions[x].senders
                                      /\ x # s => sessions'[x] = sessions[x]
    BY <1>1, <1>4 DEF OwnershipInv, TypeOK, SessionRow
  <2>2. \A v \in DOMAIN session_uuid_map' : session_uuid_map'[v] # s
    BY <1>2, <1>4 DEF OwnershipInv, MappedSessionsAreLive, Drop
  <2>3. MappedSessionsAreLive'
    BY <1>4, <2>1, <2>2 DEF OwnershipInv, MappedSessionsAreLive, InProgress, Drop
  <2> QED
    BY <2>1, <2>3 DEF OwnershipInv, ReportsBelongToRun
<1> QED
  BY <1>3, <1>4 DEF SessionFinish, PluginSetting

LEMMA OwnershipDrop ==
    ASSUME OwnershipInv, NEW S, \A s \in S \cap DOMAIN sessions : ~InProgress(s),
           sessions' = Drop(sessions, S), session_uuid_map' = session_uuid_map
    PROVE  MappedSessionsAreLive' /\ ReportsBelongToRun'
BY DEF OwnershipInv, MappedSessionsAreLive, ReportsBelongToRun, InProgress, Drop

LEMMA OwnershipNext ==
    ASSUME PluginSetting, OwnershipInv, [Next]_vars
    PROVE  OwnershipInv'
<1>1. TypeOK'
  BY TypeNext DEF OwnershipInv
<1>2. CASE \E u \in Uuids, id \in ClientIds, res \in CommitResults :
              SessionStart(u, id, res)
  <2>1. MappedSessionsAreLive' /\ ReportsBelongToRun'
    BY <1>2, OwnershipOpen, OwnershipReopen DEF SessionStart
  <2>2. up'
    BY <1>2 DEF SessionStart, OpenSession, ReopenSession
  <2> QED
    BY <1>1, <2>1, <2>2 DEF OwnershipInv
<1>3. CASE \E u \in Uuids, id \in ClientIds, res \in CommitResults, r \in Reports :
              TestReport(u, id, r, res)
  <2>1. MappedSessionsAreLive' /\ ReportsBelongToRun'
    BY <1>3, OwnershipReport
  <2>2. up'
    BY <1>3 DEF TestReport
  <2> QED
    BY <1>1, <2>1, <2>2 DEF OwnershipInv
<1>4. CASE \E u \in Uuids, id \in ClientIds, res \in CommitResults :
              SessionFinish(u, id, res)
  <2>1. MappedSessionsAreLive' /\ ReportsBelongToRun'
    BY <1>4, OwnershipFinish
  <2>2. up'
    BY <1>4 DEF SessionFinish
  <2> QED
    BY <1>1, <2>1, <2>2 DEF OwnershipInv
<1>5. CASE \E s \in DOMAIN sessions : DeleteSession(s)
  <2>1. PICK s \in DOMAIN sessions : DeleteSession(s)
    BY <1>5
  <2>2. ~InProgress(s)
    BY <2>1 DEF DeleteSession, PluginSetting, InProgress
  <2>3. MappedSessionsAreLive' /\ ReportsBelongToRun'
    BY <2>1, <2>2, OwnershipDrop DEF DeleteSession
  <2> QED
    BY <1>1, <2>1, <2>3 DEF DeleteSession, OwnershipInv
<1>6. CASE PruneSessions
  <2>1. PICK S \in SUBSET Eligible : sessions' = Drop(sessions, S)
    BY <1>6 DEF PruneSessions
  <2>2. \A s \in S \cap DOMAIN sessions : ~InProgress(s)
    BY DEF Eligible, InProgress
  <2>3. UNCHANGED <<up, session_uuid_map>>
    BY <1>6 DEF PruneSessions
  <2>4. MappedSessionsAreLive' /\ ReportsBelongToRun'
    BY <2>1, <2>2, <2>3, OwnershipDrop
  <2> QED
    BY <1>1, <2>3, <2>4 DEF OwnershipInv
<1>7. CASE Stop
  <2>1. DOMAIN <<>> = {}
    OBVIOUS
  <2> QED
    BY <1>1, <1>7, <2>1
       DEF Stop, OwnershipInv, MappedSessionsAreLive, ReportsBelongToRun
<1>8. CASE Startup
  <2>1. DOMAIN <<>> = {}
    OBVIOUS
  <2>2. MappedSessionsAreLive'
    BY <1>8, <2>1 DEF Startup, OwnershipInv, MappedSessionsAreLive
  <2>3. ReportsBelongToRun'
    BY <1>8 DEF Startup, OwnershipInv, TypeOK, SessionRow, ReportsBelongToRun
  <2> QED
    BY <1>1, <1>8, <2>2, <2>3 DEF Startup, OwnershipInv
<1>9. CASE UNCHANGED vars
  BY <1>1, <1>9
     DEF vars, OwnershipInv, MappedSessionsAreLive, ReportsBelongToRun, InProgress
<1> QED
  BY <1>2, <1>3, <1>4, <1>5, <1>6, <1>7, <1>8, <1>9 DEF Next

LEMMA OwnershipInit == Init => OwnershipInv
<1>1. DOMAIN <<>> = {}
  OBVIOUS
<1> QED
  BY <1>1, TypeInit DEF Init, OwnershipInv, MappedSessionsAreLive, ReportsBelongToRun

\* The reports of a session all come from the run that opened it, although
\* ids are used again after deletions and pruning, events come late or twice,
\* commits fail and servers restart.
THEOREM ReportsAttributed ==
    ASSUME PluginSetting
    PROVE  Spec => []ReportsBelongToRun
<1>1. OwnershipInv /\ [Next]_vars => OwnershipInv'
  BY OwnershipNext
<1>2. OwnershipInv => ReportsBelongToRun
  BY DEF OwnershipInv
<1> QED
  BY <1>1, <1>2, OwnershipInit, PTL DEF Spec

\* A uuid is mapped to its own running session or not at all.
THEOREM MappingsLive ==
    ASSUME PluginSetting
    PROVE  Spec => []MappedSessionsAreLive
<1>1. OwnershipInv /\ [Next]_vars => OwnershipInv'
  BY OwnershipNext
<1>2. OwnershipInv => MappedSessionsAreLive
  BY DEF OwnershipInv
<1> QED
  BY <1>1, <1>2, OwnershipInit, PTL DEF Spec

\* No step of the handlers, late, repeated or failing, changes a session that
\* has ended, other than to delete it.
LEMMA FrozenNext ==
    ASSUME PluginSetting, OwnershipInv, [Next]_vars
    PROVE  \A s \in DOMAIN sessions :
              SameSession(s) /\ ~InProgress(s) => sessions'[s] = sessions[s]
<1> SUFFICES ASSUME NEW s \in DOMAIN sessions, s \in DOMAIN sessions', ~InProgress(s)
             PROVE  sessions'[s] = sessions[s]
  BY DEF SameSession
<1>1. ASSUME NEW u \in Uuids, NEW id \in ClientIds, NEW res \in CommitResults,
             SessionStart(u, id, res)
      PROVE  sessions'[s] = sessions[s]
  <2>1. CASE OpenSession(u, id, res)
    <3>1. PICK new \in 1 .. created + 1 :
                 IsNextId(new) /\ sessions' = Put(sessions, new, NewSession(u))
      BY <2>1 DEF OpenSession
    <3>2. new # s
      BY <3>1 DEF IsNextId, OwnershipInv, TypeOK
    <3> QED
      BY <3>1, <3>2 DEF Put
  <2>2. CASE ReopenSession(u, id)
    BY <2>2 DEF ReopenSession
  <2> QED
    BY <1>1, <2>1, <2>2 DEF SessionStart
<1>2. ASSUME NEW u \in Uuids, NEW id \in ClientIds, NEW r \in Reports,
             NEW res \in CommitResults, TestReport(u, id, r, res)
      PROVE  sessions'[s] = sessions[s]
  <2>1. Resolve(u, id) \in DOMAIN sessions
    BY <1>2 DEF TestReport
  <2>2. Resolve(u, id) # s
    BY <2>1, ResolveOwn
  <2> QED
    BY <1>2, <2>2 DEF TestReport, Put
<1>3. ASSUME NEW u \in Uuids, NEW id \in ClientIds, NEW res \in CommitResults,
             SessionFinish(u, id, res)
      PROVE  sessions'[s] = sessions[s]
  <2>1. Resolve(u, id) \in DOMAIN sessions
    BY <1>3 DEF SessionFinish
  <2>2. Resolve(u, id) # s
    BY <2>1, ResolveOwn
  <2> QED
    BY <1>3, <2>2 DEF SessionFinish
<1>4. CASE \E x \in DOMAIN sessions : DeleteSession(x)
  BY <1>4 DEF DeleteSession, Drop
<1>5. CASE PruneSessions
  BY <1>5 DEF PruneSessions, Drop
<1>6. CASE Stop
  BY <1>6 DEF Stop
<1>7. CASE Startup
  BY <1>7 DEF Startup, InProgress
<1>8. CASE UNCHANGED vars
  BY <1>8 DEF vars
<1> QED
  BY <1>1, <1>2, <1>3, <1>4, <1>5, <1>6, <1>7, <1>8 DEF Next

\* A session that has ended, completed or interrupted, never changes again.
THEOREM EndedFrozen ==
    ASSUME PluginSetting
    PROVE  Spec => EndedSessionsAreFrozen
<1>1. OwnershipInv /\ [Next]_vars => OwnershipInv'
  BY OwnershipNext
<1>2. OwnershipInv /\ [Next]_vars
        => [\A s \in DOMAIN sessions :
              SameSession(s) /\ ~InProgress(s) => sessions'[s] = sessions[s]]_vars
  BY FrozenNext
<1> QED
  BY <1>1, <1>2, OwnershipInit, PTL DEF Spec, EndedSessionsAreFrozen

-----------------------------------------------------------------------------
(* Every running session of a run with a header can be finished by it *)

LiveInv ==
    up => \A s \in DOMAIN sessions :
             InProgress(s) /\ sessions[s].owner # None =>
                /\ sessions[s].owner \in DOMAIN session_uuid_map
                /\ session_uuid_map[sessions[s].owner] = s

LEMMA LiveOpen ==
    ASSUME PluginSetting, OwnershipInv, LiveInv, NEW u \in Uuids, NEW id \in ClientIds,
           NEW res \in CommitResults, up, OpenSession(u, id, res)
    PROVE  LiveInv'
<1>1. PICK new \in 1 .. created + 1 :
         /\ IsNextId(new)
         /\ sessions' = Put(sessions, new, NewSession(u))
         /\ session_uuid_map' = IF u = None THEN session_uuid_map
                                ELSE Put(session_uuid_map, u, new)
  BY DEF OpenSession, PluginSetting
<1>2. new \notin DOMAIN sessions
  BY <1>1 DEF IsNextId, OwnershipInv, TypeOK
<1>3. /\ DOMAIN sessions' = DOMAIN sessions \cup {new}
      /\ sessions'[new].owner = u
      /\ \A s \in DOMAIN sessions : sessions'[s] = sessions[s]
  BY <1>1, <1>2 DEF Put, NewSession
<1>4. u \notin DOMAIN session_uuid_map
  <2> SUFFICES ASSUME u \in DOMAIN session_uuid_map PROVE FALSE
    OBVIOUS
  <2>1. session_uuid_map[u] = NoSession
    BY DEF OpenSession, Resolve
  <2> QED
    BY <2>1 DEF OwnershipInv, TypeOK, NoSession
<1>5. ASSUME NEW s \in DOMAIN sessions', sessions'[s].status = "in_progress",
             sessions'[s].owner # None
      PROVE  /\ sessions'[s].owner \in DOMAIN session_uuid_map'
             /\ session_uuid_map'[sessions'[s].owner] = s
  <2>1. CASE s = new
    BY <1>1, <1>3, <1>5, <2>1 DEF Put
  <2>2. CASE s \in DOMAIN sessions
    <3>1. /\ sessions[s].owner \in DOMAIN session_uuid_map
          /\ session_uuid_map[sessions[s].owner] = s
      BY <1>3, <1>5, <2>2 DEF LiveInv, InProgress
    <3> QED
      BY <1>1, <1>3, <1>4, <2>2, <3>1 DEF Put
  <2> QED
    BY <1>3, <2>1, <2>2
<1> QED
  BY <1>5 DEF LiveInv, InProgress

LEMMA LiveFinish ==
    ASSUME PluginSetting, OwnershipInv, LiveInv, NEW u \in Uuids, NEW id \in ClientIds,
           NEW res \in CommitResults, SessionFinish(u, id, res)
    PROVE  LiveInv'
<1> DEFINE s == Resolve(u, id)
<1>1. s \in DOMAIN sessions /\ up /\ up'
  BY DEF SessionFinish
<1>2. sessions[s].owner = u
  BY <1>1, ResolveOwn
<1>3. CASE sessions' = sessions /\ session_uuid_map' = session_uuid_map
  BY <1>1, <1>3 DEF LiveInv, InProgress
<1>4. CASE /\ sessions' = [sessions EXCEPT ![s].status = "completed"]
           /\ session_uuid_map' = Drop(session_uuid_map, {u})
  <2> HIDE DEF s
  <2> SUFFICES ASSUME NEW x \in DOMAIN sessions', sessions'[x].status = "in_progress",
                      sessions'[x].owner # None
               PROVE  /\ sessions'[x].owner \in DOMAIN session_uuid_map'
                      /\ session_uuid_map'[sessions'[x].owner] = x
    BY DEF LiveInv, InProgress
  <2>1. x # s /\ x \in DOMAIN sessions /\ sessions'[x] = sessions[x]
    BY <1>1, <1>4 DEF OwnershipInv, TypeOK, SessionRow
  <2>2. /\ sessions[x].owner \in DOMAIN session_uuid_map
        /\ session_uuid_map[sessions[x].owner] = x
    BY <1>1, <2>1 DEF LiveInv, InProgress
  <2>3. InProgress(s) /\ s = session_uuid_map[u]
    BY <1>1, ResolveOwn DEF s
  <2>4. sessions[x].owner # u
    BY <2>1, <2>2, <2>3
  <2> QED
    BY <1>4, <2>1, <2>2, <2>4 DEF Drop
<1> QED
  BY <1>3, <1>4 DEF SessionFinish, PluginSetting

LEMMA LiveNext ==
    ASSUME PluginSetting, OwnershipInv, LiveInv, [Next]_vars
    PROVE  LiveInv'
<1>1. CASE \E u \in Uuids, id \in ClientIds, res \in CommitResults :
              SessionStart(u, id, res)
  <2>1. PICK u \in Uuids, id \in ClientIds, res \in CommitResults :
               SessionStart(u, id, res)
    BY <1>1
  <2>2. CASE OpenSession(u, id, res)
    BY <2>1, <2>2, LiveOpen DEF SessionStart
  <2>3. CASE ReopenSession(u, id)
    <3>1. /\ u \in DOMAIN session_uuid_map
          /\ session_uuid_map' = Put(session_uuid_map, u, session_uuid_map[u])
      BY <2>3, ResolveOwn DEF ReopenSession
    <3> QED
      BY <2>3, <3>1 DEF ReopenSession, LiveInv, InProgress, Put
  <2> QED
    BY <2>1, <2>2, <2>3 DEF SessionStart
<1>2. CASE \E u \in Uuids, id \in ClientIds, res \in CommitResults, r \in Reports :
              TestReport(u, id, r, res)
  <2>1. PICK u \in Uuids, id \in ClientIds, res \in CommitResults, r \in Reports :
               TestReport(u, id, r, res)
    BY <1>2
  <2>2. Resolve(u, id) \in DOMAIN sessions
    BY <2>1 DEF TestReport
  <2>3. \A t : /\ Stored(sessions[Resolve(u, id)], u, r, t).owner
                    = sessions[Resolve(u, id)].owner
               /\ Stored(sessions[Resolve(u, id)], u, r, t).status
                    = sessions[Resolve(u, id)].status
    BY <2>2 DEF Stored, OwnershipInv, TypeOK, SessionRow
  <2>4. /\ DOMAIN sessions' = DOMAIN sessions
        /\ \A s \in DOMAIN sessions : /\ sessions'[s].owner = sessions[s].owner
                                      /\ sessions'[s].status = sessions[s].status
    BY <2>1, <2>2, <2>3 DEF TestReport, Put
  <2> QED
    BY <2>1, <2>4 DEF TestReport, LiveInv, InProgress
<1>3. CASE \E u \in Uuids, id \in ClientIds, res \in CommitResults :
              SessionFinish(u, id, res)
  BY <1>3, LiveFinish
<1>4. CASE \E s \in DOMAIN sessions : DeleteSession(s)
  BY <1>4 DEF DeleteSession, Drop, LiveInv, InProgress
<1>5. CASE PruneSessions
  BY <1>5 DEF PruneSessions, Drop, LiveInv, InProgress
<1>6. CASE Stop
  BY <1>6 DEF Stop, LiveInv
<1>7. CASE Startup
  <2>1. /\ DOMAIN sessions' = DOMAIN sessions
        /\ \A s \in DOMAIN sessions : sessions'[s].status # "in_progress"
    BY <1>7 DEF Startup, OwnershipInv, TypeOK, SessionRow
  <2> QED
    BY <2>1 DEF LiveInv, InProgress
<1>8. CASE UNCHANGED vars
  BY <1>8 DEF vars, LiveInv, InProgress
<1> QED
  BY <1>1, <1>2, <1>3, <1>4, <1>5, <1>6, <1>7, <1>8 DEF Next

LEMMA LiveInit == Init => LiveInv
<1>1. DOMAIN <<>> = {}
  OBVIOUS
<1> QED
  BY <1>1 DEF Init, LiveInv

\* When every client sends a header, a session that is shown as running while
\* the server is up can still be finished by its run: commits that fail, even
\* that of the finish itself, leave the way open.
THEOREM RunningSessionsMapped ==
    ASSUME PluginSetting, None \notin Uuids
    PROVE  Spec => []LiveSessionsAreMapped
<1>1. OwnershipInv /\ LiveInv /\ [Next]_vars => OwnershipInv' /\ LiveInv'
  BY OwnershipNext, LiveNext
<1>2. OwnershipInv /\ LiveInv => LiveSessionsAreMapped
  BY DEF OwnershipInv, TypeOK, SessionRow, LiveInv, LiveSessionsAreMapped
<1> QED
  BY <1>1, <1>2, OwnershipInit, LiveInit, PTL DEF Spec

-----------------------------------------------------------------------------
(* The refinement *)

TheLedger == {LedgerEntry(sessions[s]) : s \in DOMAIN sessions}

LedgerInv == OwnershipInv /\ OrderInv /\ LiveInv

\* Different rows are different entries.
LEMMA EntriesDiffer ==
    ASSUME OrderInv, NEW s \in DOMAIN sessions, NEW t \in DOMAIN sessions,
           LedgerEntry(sessions[s]) = LedgerEntry(sessions[t])
    PROVE  s = t
<1>1. sessions[s].created_at = sessions[t].created_at
  BY DEF LedgerEntry
<1>2. s \in Nat /\ t \in Nat /\ sessions[s].created_at \in Nat
  BY DEF OrderInv, TypeOK, SessionRow
<1> QED
  BY <1>1, <1>2 DEF OrderInv, IdOrderIsCreationOrder

\* Changing one row replaces one entry; dropping rows drops their entries.
LEMMA ReplaceEntry ==
    ASSUME OrderInv, NEW s \in DOMAIN sessions,
           DOMAIN sessions' = DOMAIN sessions,
           \A t \in DOMAIN sessions : t # s => sessions'[t] = sessions[t]
    PROVE  TheLedger' = (TheLedger \ {LedgerEntry(sessions[s])})
                          \cup {LedgerEntry(sessions'[s])}
<1>1. ASSUME NEW e
      PROVE  e \in TheLedger' <=> e \in (TheLedger \ {LedgerEntry(sessions[s])})
                                        \cup {LedgerEntry(sessions'[s])}
  BY EntriesDiffer DEF TheLedger
<1> QED
  BY <1>1

LEMMA DropEntries ==
    ASSUME OrderInv, NEW S \in SUBSET DOMAIN sessions, sessions' = Drop(sessions, S)
    PROVE  TheLedger' = TheLedger \ {LedgerEntry(sessions[s]) : s \in S}
<1>1. ASSUME NEW e
      PROVE  e \in TheLedger' <=> e \in TheLedger \ {LedgerEntry(sessions[s]) : s \in S}
  BY EntriesDiffer DEF TheLedger, Drop
<1> QED
  BY <1>1

LEMMA LedgerOpen ==
    ASSUME PluginSetting, LedgerInv, NEW u \in Uuids, NEW id \in ClientIds,
           NEW res \in CommitResults, up, OpenSession(u, id, res)
    PROVE  Ledger!Open(u)
<1>1. PICK new \in 1 .. created + 1 :
         IsNextId(new) /\ sessions' = Put(sessions, new, NewSession(u))
  BY DEF OpenSession
<1>2. new \notin DOMAIN sessions
  BY <1>1 DEF IsNextId, LedgerInv, OwnershipInv, TypeOK
<1>3. /\ DOMAIN sessions' = DOMAIN sessions \cup {new}
      /\ sessions'[new] = NewSession(u)
      /\ \A s \in DOMAIN sessions : sessions'[s] = sessions[s]
  BY <1>1, <1>2 DEF Put
<1>4. LedgerEntry(NewSession(u))
        = [key |-> created, owner |-> u, status |-> "in_progress",
           reports |-> <<>>, senders |-> {}]
  BY DEF LedgerEntry, NewSession
<1>5. TheLedger' = TheLedger \cup {LedgerEntry(NewSession(u))}
  <2>1. ASSUME NEW e
        PROVE  e \in TheLedger' <=> e \in TheLedger \cup {LedgerEntry(NewSession(u))}
    BY <1>3 DEF TheLedger
  <2> QED
    BY <2>1
<1>6. u \notin DOMAIN session_uuid_map
  <2> SUFFICES ASSUME u \in DOMAIN session_uuid_map PROVE FALSE
    OBVIOUS
  <2>1. session_uuid_map[u] = NoSession
    BY DEF OpenSession, Resolve
  <2> QED
    BY <2>1 DEF LedgerInv, OwnershipInv, TypeOK, NoSession
<1>7. ASSUME u # None, NEW s \in DOMAIN sessions, sessions[s].owner = u
      PROVE  sessions[s].status # "in_progress"
  BY <1>6, <1>7 DEF LedgerInv, LiveInv, InProgress
<1>8. u # None => \A e \in TheLedger : e.owner = u => e.status # "in_progress"
  BY <1>7 DEF TheLedger, LedgerEntry
<1>9. created' = created + 1
  BY DEF OpenSession
<1> QED
  BY <1>4, <1>5, <1>8, <1>9 DEF Ledger!Open, Ledger!Ongoing, TheLedger

\* An entry by its fields, and with two of them replaced at once.
EntryWith(k, o, st, reports, senders) ==
    [key |-> k, owner |-> o, status |-> st, reports |-> reports, senders |-> senders]

WithReports(e, reports, senders) == [e EXCEPT !.reports = reports, !.senders = senders]

LEMMA TwoFields ==
    ASSUME NEW k, NEW o, NEW st, NEW old, NEW sent, NEW reports, NEW senders
    PROVE  WithReports(EntryWith(k, o, st, old, sent), reports, senders)
             = EntryWith(k, o, st, reports, senders)
<1> DEFINE e == EntryWith(k, o, st, old, sent)
           e1 == EntryWith(k, o, st, reports, sent)
           e2 == EntryWith(k, o, st, reports, senders)
<1>1. e1 = [e EXCEPT !.reports = reports]
  BY DEF EntryWith
<1>2. e2 = [e1 EXCEPT !.senders = senders]
  BY DEF EntryWith
<1> HIDE DEF e1, e, e2
<1>3. [[e EXCEPT !.reports = reports] EXCEPT !.senders = senders]
        = [e EXCEPT !.reports = reports, !.senders = senders]
  OBVIOUS
<1>4. e2 = [e EXCEPT !.reports = reports, !.senders = senders]
  BY <1>1, <1>2, <1>3
<1> QED
  BY <1>4 DEF e2, e, WithReports

\* The entry of a row with one report more.
LEMMA EntryOfReport ==
    ASSUME NEW row, NEW new, NEW r,
           new.created_at = row.created_at, new.owner = row.owner,
           new.status = row.status, new.reports = Append(row.reports, r),
           new.senders = {row.owner}
    PROVE  LedgerEntry(new) = WithReports(LedgerEntry(row),
                                Append(LedgerEntry(row).reports, r),
                                {LedgerEntry(row).owner})
<1>1. LedgerEntry(row) = EntryWith(row.created_at, row.owner, row.status,
                                   row.reports, row.senders)
  BY DEF LedgerEntry, EntryWith
<1>2. LedgerEntry(new) = EntryWith(row.created_at, row.owner, row.status,
                                   Append(row.reports, r), {row.owner})
  BY DEF LedgerEntry, EntryWith
<1>3. LedgerEntry(row).reports = row.reports /\ LedgerEntry(row).owner = row.owner
  BY DEF LedgerEntry
<1> QED
  BY <1>1, <1>2, <1>3, TwoFields

LEMMA LedgerReport ==
    ASSUME PluginSetting, LedgerInv, NEW u \in Uuids, NEW id \in ClientIds,
           NEW r \in Reports, NEW res \in CommitResults, TestReport(u, id, r, res)
    PROVE  \/ \E e \in TheLedger : Ledger!Record(e, r)
           \/ UNCHANGED <<TheLedger, created>>
<1> DEFINE s == Resolve(u, id)
           row == sessions[s]
           new == Stored(row, u, r, Tracked(s, r))
<1>1. /\ s \in DOMAIN sessions
      /\ created' = created
      /\ sessions' = sessions \/ sessions' = Put(sessions, s, new)
  BY DEF TestReport
<1>2. row.status = "in_progress" /\ row.owner = u
  BY <1>1, ResolveOwn DEF LedgerInv, InProgress
<1>3. row.senders \subseteq {u} /\ row \in SessionRow
  BY <1>1, <1>2 DEF LedgerInv, OwnershipInv, ReportsBelongToRun, TypeOK
<1>4. LedgerEntry(new) = WithReports(LedgerEntry(row), Append(LedgerEntry(row).reports, r),
                                     {LedgerEntry(row).owner})
  <2>1. /\ new.created_at = row.created_at /\ new.owner = row.owner
        /\ new.status = row.status
        /\ new.reports = Append(row.reports, r)
        /\ new.senders = row.senders \cup {u}
    BY <1>3 DEF Stored, SessionRow
  <2>2. new.senders = {row.owner}
    BY <1>2, <1>3, <2>1
  <2> HIDE DEF new, row
  <2> QED
    BY <2>1, <2>2, EntryOfReport
<1>5. LedgerEntry(row) \in TheLedger /\ LedgerEntry(row).status = "in_progress"
  BY <1>1, <1>2 DEF TheLedger, LedgerEntry
<1>6. CASE sessions' = sessions
  BY <1>1, <1>6 DEF TheLedger
<1>7. CASE sessions' = Put(sessions, s, new)
  <2>1. /\ DOMAIN sessions' = DOMAIN sessions
        /\ sessions'[s] = new
        /\ \A t \in DOMAIN sessions : t # s => sessions'[t] = sessions[t]
    BY <1>1, <1>7 DEF Put
  <2>2. TheLedger' = (TheLedger \ {LedgerEntry(row)}) \cup {LedgerEntry(new)}
    BY <1>1, <2>1, ReplaceEntry DEF LedgerInv
  <2> HIDE DEF s, row, new
  <2>3. Ledger!Record(LedgerEntry(row), r)
    BY <1>1, <1>4, <1>5, <2>2 DEF Ledger!Record, Ledger!Ongoing, TheLedger, WithReports
  <2> QED
    BY <1>5, <2>3
<1> QED
  BY <1>1, <1>6, <1>7

LEMMA LedgerFinish ==
    ASSUME PluginSetting, LedgerInv, NEW u \in Uuids, NEW id \in ClientIds,
           NEW res \in CommitResults, SessionFinish(u, id, res)
    PROVE  \/ \E e \in TheLedger : Ledger!Complete(e)
           \/ UNCHANGED <<TheLedger, created>>
<1> DEFINE s == Resolve(u, id)
           row == sessions[s]
           new == [row EXCEPT !.status = "completed"]
<1>1. /\ s \in DOMAIN sessions
      /\ created' = created
      /\ \/ sessions' = sessions
         \/ sessions' = [sessions EXCEPT ![s].status = "completed"]
  BY DEF SessionFinish
<1>2. row.status = "in_progress" /\ row \in SessionRow
  BY <1>1, ResolveOwn DEF LedgerInv, InProgress, OwnershipInv, TypeOK
<1>3. LedgerEntry(new) = [LedgerEntry(row) EXCEPT !.status = "completed"]
  BY <1>2 DEF LedgerEntry, SessionRow
<1>4. LedgerEntry(row) \in TheLedger /\ LedgerEntry(row).status = "in_progress"
  BY <1>1, <1>2 DEF TheLedger, LedgerEntry
<1>5. CASE sessions' = sessions
  BY <1>1, <1>5 DEF TheLedger
<1>6. CASE sessions' = [sessions EXCEPT ![s].status = "completed"]
  <2>1. /\ DOMAIN sessions' = DOMAIN sessions
        /\ sessions'[s] = new
        /\ \A t \in DOMAIN sessions : t # s => sessions'[t] = sessions[t]
    BY <1>1, <1>6
  <2>2. TheLedger' = (TheLedger \ {LedgerEntry(row)}) \cup {LedgerEntry(new)}
    BY <1>1, <2>1, ReplaceEntry DEF LedgerInv
  <2> HIDE DEF s, row, new
  <2>3. Ledger!Complete(LedgerEntry(row))
    BY <1>1, <1>3, <1>4, <2>2 DEF Ledger!Complete, Ledger!Ongoing, TheLedger
  <2> QED
    BY <1>4, <2>3
<1> QED
  BY <1>1, <1>5, <1>6

LEMMA LedgerDrop ==
    ASSUME LedgerInv, NEW S \in SUBSET DOMAIN sessions, \A s \in S : ~InProgress(s),
           sessions' = Drop(sessions, S), created' = created
    PROVE  \E E \in SUBSET TheLedger : Ledger!Remove(E)
<1> DEFINE E == {LedgerEntry(sessions[s]) : s \in S}
<1>1. TheLedger' = TheLedger \ E
  BY DropEntries DEF LedgerInv
<1>2. E \in SUBSET TheLedger
  BY DEF TheLedger
<1>3. \A e \in E : e.status # "in_progress"
  BY DEF LedgerEntry, InProgress
<1> HIDE DEF E
<1>4. Ledger!Remove(E)
  BY <1>1, <1>3 DEF Ledger!Remove, Ledger!Ongoing, TheLedger
<1> QED
  BY <1>2, <1>4

LEMMA LedgerStartup ==
    ASSUME LedgerInv, Startup
    PROVE  Ledger!InterruptAll
<1>1. \A s \in DOMAIN sessions :
         LedgerEntry(sessions'[s])
           = IF LedgerEntry(sessions[s]).status = "in_progress"
             THEN [LedgerEntry(sessions[s]) EXCEPT !.status = "interrupted"]
             ELSE LedgerEntry(sessions[s])
  BY DEF Startup, LedgerEntry, LedgerInv, OwnershipInv, TypeOK, SessionRow
<1>2. DOMAIN sessions' = DOMAIN sessions /\ created' = created
  BY DEF Startup
<1>3. TheLedger' = {IF e.status = "in_progress" THEN [e EXCEPT !.status = "interrupted"]
                    ELSE e : e \in TheLedger}
  <2>1. ASSUME NEW x
        PROVE  x \in TheLedger'
                 <=> x \in {IF e.status = "in_progress"
                            THEN [e EXCEPT !.status = "interrupted"]
                            ELSE e : e \in TheLedger}
    BY <1>1, <1>2 DEF TheLedger
  <2> QED
    BY <2>1
<1> QED
  BY <1>2, <1>3 DEF Ledger!InterruptAll, Ledger!Ongoing, TheLedger

LEMMA LedgerNext ==
    ASSUME PluginSetting, LedgerInv, [Next]_vars
    PROVE  Ledger!Next \/ UNCHANGED <<TheLedger, created>>
<1>1. CASE \E u \in Uuids, id \in ClientIds, res \in CommitResults :
              SessionStart(u, id, res)
  <2>1. PICK u \in Uuids, id \in ClientIds, res \in CommitResults :
               SessionStart(u, id, res)
    BY <1>1
  <2>2. CASE OpenSession(u, id, res)
    BY <2>1, <2>2, LedgerOpen DEF SessionStart, Ledger!Next
  <2>3. CASE ReopenSession(u, id)
    BY <2>3 DEF ReopenSession, TheLedger
  <2> QED
    BY <2>1, <2>2, <2>3 DEF SessionStart
<1>2. CASE \E u \in Uuids, id \in ClientIds, res \in CommitResults, r \in Reports :
              TestReport(u, id, r, res)
  BY <1>2, LedgerReport DEF Ledger!Next, TheLedger
<1>3. CASE \E u \in Uuids, id \in ClientIds, res \in CommitResults :
              SessionFinish(u, id, res)
  BY <1>3, LedgerFinish DEF Ledger!Next, TheLedger
<1>4. CASE \E s \in DOMAIN sessions : DeleteSession(s)
  <2>1. PICK s \in DOMAIN sessions : DeleteSession(s)
    BY <1>4
  <2>2. ~InProgress(s)
    BY <2>1 DEF DeleteSession, PluginSetting, InProgress
  <2>3. \E E \in SUBSET TheLedger : Ledger!Remove(E)
    <3>1. {s} \in SUBSET DOMAIN sessions
      BY <2>1
    <3> QED
      BY <2>1, <2>2, <3>1, LedgerDrop DEF DeleteSession
  <2> QED
    BY <2>3 DEF Ledger!Next, TheLedger
<1>5. CASE PruneSessions
  <2>1. PICK S \in SUBSET Eligible : sessions' = Drop(sessions, S)
    BY <1>5 DEF PruneSessions
  <2>2. S \in SUBSET DOMAIN sessions /\ \A s \in S : ~InProgress(s)
    BY DEF Eligible, InProgress
  <2>3. created' = created
    BY <1>5 DEF PruneSessions
  <2>4. \E E \in SUBSET TheLedger : Ledger!Remove(E)
    BY <2>1, <2>2, <2>3, LedgerDrop
  <2> QED
    BY <2>4 DEF Ledger!Next, TheLedger
<1>6. CASE Stop
  BY <1>6 DEF Stop, TheLedger
<1>7. CASE Startup
  BY <1>7, LedgerStartup DEF Ledger!Next
<1>8. CASE UNCHANGED vars
  BY <1>8 DEF vars, TheLedger
<1> QED
  BY <1>1, <1>2, <1>3, <1>4, <1>5, <1>6, <1>7, <1>8 DEF Next

\* Ids used again, mappings lost, failing commits and restarts do not show:
\* the session table is a ledger of the runs, in which a run's reports go, in
\* order, to the one entry it has open, and ended entries never change.
THEOREM ImplementsSessionLedger ==
    ASSUME PluginSetting
    PROVE  Spec => ImplementsLedger
<1>1. Init => Ledger!Init
  <2>1. DOMAIN <<>> = {}
    OBVIOUS
  <2> QED
    BY <2>1 DEF Init, Ledger!Init
<1>2. Init => LedgerInv
  <2>1. Init => OrderInv
    BY TypeInit DEF Init, OrderInv, IdOrderIsCreationOrder
  <2> QED
    BY <2>1, OwnershipInit, LiveInit DEF LedgerInv
<1>3. LedgerInv /\ [Next]_vars => LedgerInv'
  BY OwnershipNext, OrderNext, LiveNext DEF LedgerInv
<1>4. LedgerInv /\ [Next]_vars => [Ledger!Next]_(Ledger!vars)
  BY LedgerNext DEF Ledger!vars, TheLedger
<1> QED
  BY <1>1, <1>2, <1>3, <1>4, PTL DEF Spec, ImplementsLedger, Ledger!Spec
=============================================================================
