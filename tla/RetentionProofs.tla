--------------------------- MODULE RetentionProofs ---------------------------
(***************************************************************************)
(* Retention's type invariant and its four safety properties, for every    *)
(* number of prunes, sessions and reports and every keep_recent.           *)
(***************************************************************************)
EXTENDS Retention, TLAPS

-----------------------------------------------------------------------------
(* The inductive invariant *)

\* A session is known by its created_at, also when its id is used again.
CreatedOnce ==
    /\ \A s \in DOMAIN sessions : sessions[s].created_at < created
    /\ \A s, t \in DOMAIN sessions :
          sessions[s].created_at = sessions[t].created_at => s = t

\* Only a report can have logs.
LogsAreInReports == \A s \in DOMAIN sessions : sessions[s].logs <= sessions[s].reports

\* What p protects: the ids that it read are still those of the pinned sessions,
\* and no session it will touch has one of them.
PinOK(p) ==
    /\ \A x \in pinned[p] : x < created
    /\ \A s \in DOMAIN sessions : sessions[s].created_at \in pinned[p] => s \in protected[p]
    /\ DOMAIN eligible[p] \cap protected[p] = {}

\* What p read of the eligible sessions is still so, unless some were deleted.
ReadOK(p) ==
    ~meddled[p] =>
        \A s \in DOMAIN eligible[p] :
            /\ s \in DOMAIN sessions
            /\ ~sessions[s].in_progress
            /\ eligible[p][s] = sessions[s].created_at

\* A prune that is not running has read nothing.
IdleOK(p) == pc[p] = "idle" => DOMAIN eligible[p] = {} /\ pinned[p] = {}

PruneInv ==
    /\ TypeOK
    /\ CreatedOnce
    /\ LogsAreInReports
    /\ \A p \in Pruners : PinOK(p) /\ ReadOK(p) /\ IdleOK(p)

-----------------------------------------------------------------------------
(* The steps keep it *)

LEMMA NothingRead == DOMAIN <<>> = {} /\ <<>> \in [DOMAIN <<>> -> Nat]
  OBVIOUS

LEMMA InitInv == Init => PruneInv
<1> SUFFICES ASSUME Init PROVE PruneInv
  OBVIOUS
<1> USE NothingRead DEF Init
<1>1. TypeOK
  BY DEF TypeOK
<1>2. CreatedOnce /\ LogsAreInReports
  BY DEF CreatedOnce, LogsAreInReports
<1>3. ASSUME NEW p \in Pruners PROVE PinOK(p) /\ ReadOK(p) /\ IdleOK(p)
  BY <1>3 DEF PinOK, ReadOK, IdleOK
<1> QED
  BY <1>1, <1>2, <1>3 DEF PruneInv

\* A new session has a new created_at, and an id that is free.
LEMMA StartInv == ASSUME PruneInv, StartSession PROVE PruneInv'
<1> DEFINE row(i) == [created_at |-> created, in_progress |-> TRUE, reports |-> 0,
                      logs |-> 0, had_logs |-> 0, logs_pruned |-> FALSE,
                      reused |-> \E p \in Pruners : i \in flagged[p]]
<1>t. TypeOK /\ CreatedOnce /\ LogsAreInReports
  BY DEF PruneInv
<1>1. PICK id \in Nat \ {0} : /\ id \notin DOMAIN sessions
                              /\ sessions' = Put(sessions, id, row(id))
  <2>1. PICK id \in 1 .. created + 1 : /\ \A s \in DOMAIN sessions : s < id
                                      /\ sessions' = Put(sessions, id, row(id))
    BY DEF StartSession
  <2>2. id \in Nat \ {0} /\ id \notin DOMAIN sessions
    BY <1>t, <2>1 DEF TypeOK
  <2> QED
    BY <2>1, <2>2
<1>2. created \in Nat /\ created' = created + 1 /\ UNCHANGED <<local, history>>
  BY <1>t DEF StartSession, TypeOK
<1>3. /\ DOMAIN sessions' = DOMAIN sessions \cup {id}
      /\ sessions'[id] = row(id)
      /\ \A s \in DOMAIN sessions : sessions'[s] = sessions[s]
  BY <1>1 DEF Put
<1>4. row(id) \in Row /\ row(id).created_at = created /\ row(id).logs <= row(id).reports
  BY <1>2 DEF Row
<1> HIDE DEF row
<1>5. TypeOK'
  BY <1>t, <1>1, <1>2, <1>3, <1>4 DEF TypeOK, local, history
<1>6. CreatedOnce'
  <2>1. \A s \in DOMAIN sessions : sessions[s].created_at \in Nat
    BY <1>t DEF TypeOK, Row
  <2>2. \A s \in DOMAIN sessions' : sessions'[s].created_at < created'
    BY <1>t, <1>2, <1>3, <1>4, <2>1 DEF CreatedOnce
  <2>3. \A s, t \in DOMAIN sessions' :
           sessions'[s].created_at = sessions'[t].created_at => s = t
    BY <1>t, <1>2, <1>3, <1>4, <2>1 DEF CreatedOnce
  <2> QED
    BY <2>2, <2>3 DEF CreatedOnce
<1>7. LogsAreInReports'
  BY <1>t, <1>3, <1>4 DEF LogsAreInReports
<1>8. ASSUME NEW p \in Pruners PROVE (PinOK(p) /\ ReadOK(p) /\ IdleOK(p))'
  <2>1. PinOK(p) /\ ReadOK(p) /\ IdleOK(p)
    BY DEF PruneInv
  <2>2. pinned[p] \subseteq Nat
    BY <1>t DEF TypeOK
  <2>3. \A y \in pinned[p] : y < created
    BY <2>1 DEF PinOK
  <2>4. created \notin pinned[p] /\ \A y \in pinned[p] : y < created + 1
    BY <1>2, <2>2, <2>3
  <2>5. PinOK(p)'
    BY <1>2, <1>3, <1>4, <2>1, <2>4 DEF PinOK, local, history
  <2>6. ReadOK(p)'
    BY <1>2, <1>3, <2>1 DEF ReadOK, local, history
  <2>7. IdleOK(p)'
    BY <1>2, <2>1 DEF IdleOK, local, history
  <2> QED
    BY <2>5, <2>6, <2>7
<1> QED
  BY <1>5, <1>6, <1>7, <1>8 DEF PruneInv

\* Rows may change, as long as none moves and no session starts again.
LEMMA InPlace ==
  ASSUME PruneInv,
         DOMAIN sessions' = DOMAIN sessions,
         \A s \in DOMAIN sessions :
            /\ sessions'[s] \in Row
            /\ sessions'[s].created_at = sessions[s].created_at
            /\ sessions'[s].in_progress => sessions[s].in_progress
            /\ sessions'[s].logs <= sessions'[s].reports,
         UNCHANGED <<created, protected, eligible, flagged, history>>,
         pc' \in [Pruners -> {"idle", "protected", "stripping", "deleting"}],
         \A p \in Pruners : pc'[p] = "idle" => pc[p] = "idle"
  PROVE  PruneInv'
<1>t. TypeOK /\ CreatedOnce /\ LogsAreInReports
  BY DEF PruneInv
<1>1. TypeOK'
  BY <1>t DEF TypeOK, history
<1>2. CreatedOnce' /\ LogsAreInReports'
  BY <1>t DEF CreatedOnce, LogsAreInReports
<1>3. ASSUME NEW p \in Pruners PROVE (PinOK(p) /\ ReadOK(p) /\ IdleOK(p))'
  <2>1. PinOK(p) /\ ReadOK(p) /\ IdleOK(p)
    BY DEF PruneInv
  <2>2. PinOK(p)'
    BY <2>1 DEF PinOK, history
  <2>3. ReadOK(p)'
    BY <2>1 DEF ReadOK, history
  <2>4. IdleOK(p)'
    BY <2>1 DEF IdleOK, history
  <2> QED
    BY <2>2, <2>3, <2>4
<1> QED
  BY <1>1, <1>2, <1>3 DEF PruneInv

\* Sessions may go, as long as the prunes that go on know that somebody meddled.
LEMMA Fewer ==
  ASSUME PruneInv,
         DOMAIN sessions' \subseteq DOMAIN sessions,
         \A s \in DOMAIN sessions' : sessions'[s] = sessions[s],
         UNCHANGED created,
         TypeOK',
         \A p \in Pruners :
            \/ /\ DOMAIN eligible'[p] = {} /\ pinned'[p] = {}
            \/ /\ pc'[p] = pc[p] /\ protected'[p] = protected[p]
               /\ eligible'[p] = eligible[p] /\ pinned'[p] = pinned[p]
               /\ ~meddled'[p] /\ DOMAIN eligible[p] # {} => UNCHANGED sessions /\ ~meddled[p]
  PROVE  PruneInv'
<1>t. CreatedOnce /\ LogsAreInReports
  BY DEF PruneInv
<1>1. CreatedOnce' /\ LogsAreInReports'
  BY <1>t DEF CreatedOnce, LogsAreInReports
<1>2. ASSUME NEW p \in Pruners PROVE (PinOK(p) /\ ReadOK(p) /\ IdleOK(p))'
  <2>1. PinOK(p) /\ ReadOK(p) /\ IdleOK(p)
    BY DEF PruneInv
  <2>2. CASE DOMAIN eligible'[p] = {} /\ pinned'[p] = {}
    BY <2>2 DEF PinOK, ReadOK, IdleOK
  <2>3. CASE /\ pc'[p] = pc[p] /\ protected'[p] = protected[p]
             /\ eligible'[p] = eligible[p] /\ pinned'[p] = pinned[p]
             /\ ~meddled'[p] /\ DOMAIN eligible[p] # {} => UNCHANGED sessions /\ ~meddled[p]
    <3>1. PinOK(p)'
      BY <2>1, <2>3 DEF PinOK
    <3>2. ReadOK(p)'
      BY <2>1, <2>3 DEF ReadOK
    <3>3. IdleOK(p)'
      BY <2>1, <2>3 DEF IdleOK
    <3> QED
      BY <3>1, <3>2, <3>3
  <2> QED
    BY <2>2, <2>3
<1> QED
  BY <1>1, <1>2 DEF PruneInv

LEMMA StoreInv ==
  ASSUME PruneInv, NEW s \in DOMAIN sessions, StoreReport(s)
  PROVE  PruneInv'
<1>t. TypeOK /\ LogsAreInReports
  BY DEF PruneInv
<1>1. PICK n \in {0, 1} :
         sessions' = [sessions EXCEPT ![s].reports = @ + 1, ![s].logs = @ + n,
                                      ![s].had_logs = @ + n]
  BY DEF StoreReport
<1>2. sessions[s] \in Row /\ sessions[s].logs <= sessions[s].reports
  BY <1>t DEF TypeOK, LogsAreInReports
<1>3. sessions'[s] = [sessions[s] EXCEPT !.reports = @ + 1, !.logs = @ + n, !.had_logs = @ + n]
  BY <1>1, <1>2 DEF Row
<1>4. /\ sessions'[s] \in Row
      /\ sessions'[s].created_at = sessions[s].created_at
      /\ sessions'[s].in_progress = sessions[s].in_progress
      /\ sessions'[s].logs <= sessions'[s].reports
  <2> DEFINE l == sessions[s].logs
             h == sessions[s].had_logs
             r == sessions[s].reports
  <2>1. /\ sessions'[s].logs = l + n /\ sessions'[s].had_logs = h + n
        /\ sessions'[s].reports = r + 1
        /\ sessions'[s].created_at = sessions[s].created_at
        /\ sessions'[s].in_progress = sessions[s].in_progress
        /\ sessions'[s].logs_pruned = sessions[s].logs_pruned
    BY <1>2, <1>3 DEF Row
  <2>2. l \in Nat /\ h \in Nat /\ r \in Nat /\ l <= r /\ n \in {0, 1}
    BY <1>2 DEF Row
  <2> HIDE DEF l, h, r
  <2>3. l + n \in Nat /\ h + n \in Nat /\ r + 1 \in Nat /\ l + n <= r + 1
    BY <2>2
  <2>4. sessions'[s] \in Row
    BY <1>2, <1>3, <2>1, <2>3 DEF Row
  <2> QED
    BY <2>1, <2>3, <2>4
<1>5. \A t \in DOMAIN sessions : t # s => sessions'[t] = sessions[t]
  BY <1>1
<1>6. \A t \in DOMAIN sessions :
         /\ sessions'[t] \in Row
         /\ sessions'[t].created_at = sessions[t].created_at
         /\ sessions'[t].in_progress => sessions[t].in_progress
         /\ sessions'[t].logs <= sessions'[t].reports
  BY <1>t, <1>4, <1>5 DEF TypeOK, LogsAreInReports
<1>7. DOMAIN sessions' = DOMAIN sessions /\ UNCHANGED <<created, local, history>>
  BY <1>1 DEF StoreReport
<1> QED
  BY <1>t, <1>6, <1>7, InPlace DEF TypeOK, local

LEMMA EndInv ==
  ASSUME PruneInv, NEW s \in DOMAIN sessions, EndSession(s)
  PROVE  PruneInv'
<1>t. TypeOK /\ LogsAreInReports
  BY DEF PruneInv
<1>1. sessions[s] \in Row /\ sessions[s].logs <= sessions[s].reports
  BY <1>t DEF TypeOK, LogsAreInReports
<1>2. sessions'[s] = [sessions[s] EXCEPT !.in_progress = FALSE]
  BY <1>1 DEF EndSession, Row
<1>3. /\ sessions'[s] \in Row
      /\ sessions'[s].created_at = sessions[s].created_at
      /\ ~sessions'[s].in_progress
      /\ sessions'[s].logs <= sessions'[s].reports
  BY <1>1, <1>2 DEF Row
<1>4. \A t \in DOMAIN sessions : t # s => sessions'[t] = sessions[t]
  BY DEF EndSession
<1>5. \A t \in DOMAIN sessions :
         /\ sessions'[t] \in Row
         /\ sessions'[t].created_at = sessions[t].created_at
         /\ sessions'[t].in_progress => sessions[t].in_progress
         /\ sessions'[t].logs <= sessions'[t].reports
  BY <1>t, <1>3, <1>4 DEF TypeOK, LogsAreInReports
<1>6. DOMAIN sessions' = DOMAIN sessions /\ UNCHANGED <<created, local, history>>
  BY DEF EndSession
<1> QED
  BY <1>t, <1>5, <1>6, InPlace DEF TypeOK, local

LEMMA DeleteInv ==
  ASSUME PruneInv, NEW s \in DOMAIN sessions, DeleteSession(s)
  PROVE  PruneInv'
<1>t. TypeOK
  BY DEF PruneInv
<1>1. /\ DOMAIN sessions' \subseteq DOMAIN sessions
      /\ \A t \in DOMAIN sessions' : sessions'[t] = sessions[t]
      /\ UNCHANGED <<created, local, pinned>>
  BY DEF DeleteSession, Drop
<1>2. meddled' = [p \in Pruners |-> pc[p] # "idle"]
  BY DEF DeleteSession
<1>3. TypeOK'
  BY <1>t, <1>1, <1>2 DEF TypeOK, local
<1>4. ASSUME NEW p \in Pruners, ~meddled'[p] PROVE DOMAIN eligible[p] = {}
  BY <1>2, <1>4 DEF PruneInv, IdleOK
<1> QED
  BY <1>1, <1>3, <1>4, Fewer DEF local

\* The ids read are those of the pinned sessions, whichever these are.
LEMMA ProtectInv ==
  ASSUME PruneInv, NEW p \in Pruners, ReadProtected(p)
  PROVE  PruneInv'
<1>t. TypeOK /\ CreatedOnce /\ LogsAreInReports
  BY DEF PruneInv
<1> DEFINE N == Newest(KeepRecent)
<1>1. /\ pc[p] = "idle" /\ pc' = [pc EXCEPT ![p] = "protected"]
      /\ protected' = [protected EXCEPT ![p] = N]
      /\ pinned' = [pinned EXCEPT ![p] = {sessions[s].created_at : s \in N}]
      /\ UNCHANGED <<sessions, created, eligible, flagged, meddled>>
  BY DEF ReadProtected, Protect, table
<1>2. N \subseteq DOMAIN sessions
  BY DEF Newest
<1> HIDE DEF N
<1>3. \A s \in DOMAIN sessions : sessions[s].created_at \in Nat /\ s \in Nat
  BY <1>t DEF TypeOK, Row
<1>4. N \in SUBSET Nat /\ {sessions[s].created_at : s \in N} \in SUBSET Nat
  BY <1>2, <1>3
<1>5. TypeOK'
  BY <1>t, <1>1, <1>4 DEF TypeOK
<1>6. CreatedOnce' /\ LogsAreInReports'
  BY <1>t, <1>1 DEF CreatedOnce, LogsAreInReports
<1>7. ASSUME NEW q \in Pruners PROVE (PinOK(q) /\ ReadOK(q) /\ IdleOK(q))'
  <2>1. PinOK(q) /\ ReadOK(q) /\ IdleOK(q)
    BY DEF PruneInv
  <2>2. CASE q # p
    <3>1. /\ pc'[q] = pc[q] /\ protected'[q] = protected[q]
          /\ pinned'[q] = pinned[q]
      BY <1>t, <1>1, <2>2 DEF TypeOK
    <3> QED
      BY <1>1, <2>1, <3>1 DEF PinOK, ReadOK, IdleOK
  <2>3. CASE q = p
    <3>1. /\ pc'[p] = "protected" /\ protected'[p] = N
          /\ pinned'[p] = {sessions[s].created_at : s \in N}
          /\ eligible'[p] = eligible[p] /\ DOMAIN eligible[p] = {}
      BY <1>t, <1>1, <2>1, <2>3 DEF TypeOK, IdleOK
    <3>2. \A x \in pinned'[p] : x < created
      BY <1>t, <1>2, <3>1 DEF CreatedOnce
    <3>3. ASSUME NEW s \in DOMAIN sessions, sessions[s].created_at \in pinned'[p]
          PROVE  s \in N
      BY <1>t, <1>2, <3>1, <3>3 DEF CreatedOnce
    <3>4. PinOK(p)'
      BY <1>1, <3>1, <3>2, <3>3 DEF PinOK
    <3>5. ReadOK(p)' /\ IdleOK(p)'
      BY <1>1, <3>1 DEF ReadOK, IdleOK
    <3> QED
      BY <2>3, <3>4, <3>5
  <2> QED
    BY <2>2, <2>3
<1> QED
  BY <1>5, <1>6, <1>7 DEF PruneInv

LEMMA EligibleInv ==
  ASSUME PruneInv, NEW p \in Pruners, ReadEligible(p)
  PROVE  PruneInv'
<1>t. TypeOK /\ CreatedOnce /\ LogsAreInReports
  BY DEF PruneInv
<1> DEFINE S == {s \in Unprotected(p) : ~sessions[s].in_progress}
           read == [s \in S |-> sessions[s].created_at]
           flags == {s \in S : sessions[s].logs_pruned}
<1>1. /\ pc[p] = "protected" /\ pc' = [pc EXCEPT ![p] = "stripping"]
      /\ eligible' = [eligible EXCEPT ![p] = read]
      /\ flagged' = [flagged EXCEPT ![p] = flags]
      /\ UNCHANGED <<sessions, created, protected, pinned, meddled>>
  BY DEF ReadEligible, Select, table, history
<1>2. \A s \in S : s \in DOMAIN sessions /\ s \notin protected[p] /\ ~sessions[s].in_progress
  BY DEF Unprotected
<1>3. /\ DOMAIN read = S /\ \A s \in S : read[s] = sessions[s].created_at
      /\ read \in [S -> Nat]
  BY <1>t, <1>2 DEF TypeOK, Row
<1>7. flags \in SUBSET Nat
  BY <1>t, <1>2 DEF TypeOK
<1> HIDE DEF S, read, flags
<1>4. TypeOK'
  BY <1>t, <1>1, <1>3, <1>7 DEF TypeOK
<1>5. CreatedOnce' /\ LogsAreInReports'
  BY <1>t, <1>1 DEF CreatedOnce, LogsAreInReports
<1>6. ASSUME NEW q \in Pruners PROVE (PinOK(q) /\ ReadOK(q) /\ IdleOK(q))'
  <2>1. PinOK(q) /\ ReadOK(q) /\ IdleOK(q)
    BY DEF PruneInv
  <2>2. CASE q # p
    <3>1. pc'[q] = pc[q] /\ eligible'[q] = eligible[q]
      BY <1>t, <1>1, <2>2 DEF TypeOK
    <3> QED
      BY <1>1, <2>1, <3>1 DEF PinOK, ReadOK, IdleOK
  <2>3. CASE q = p
    <3>1. pc'[p] = "stripping" /\ eligible'[p] = read
      BY <1>t, <1>1 DEF TypeOK
    <3>2. PinOK(p)'
      BY <1>1, <1>2, <1>3, <2>1, <2>3, <3>1 DEF PinOK
    <3>3. ReadOK(p)' /\ IdleOK(p)'
      BY <1>1, <1>2, <1>3, <3>1 DEF ReadOK, IdleOK
    <3> QED
      BY <2>3, <3>2, <3>3
  <2> QED
    BY <2>2, <2>3
<1> QED
  BY <1>4, <1>5, <1>6 DEF PruneInv

\* Phase A strips some sessions with reports that were read as eligible, and every
\* one of these that is older.
LEMMA StripShape ==
  ASSUME PruneInv, NEW p \in Pruners, StripLogs(p)
  PROVE  /\ DOMAIN sessions' = DOMAIN sessions
         /\ \E S \in SUBSET Strippable(p) :
               /\ \A s \in S, t \in Strippable(p) :
                     eligible[p][t] <= eligible[p][s] => t \in S
               /\ \A s \in DOMAIN sessions :
                     sessions'[s] = IF s \in S THEN Stripped(sessions[s], s \in flagged[p])
                                               ELSE sessions[s]
<1>1. CASE Strippable(p) = {} /\ UNCHANGED sessions
  BY <1>1
<1>2. CASE \E S \in OldestOf(p, Strippable(p)) :
              sessions' = [s \in DOMAIN sessions |->
                              IF s \in S THEN Stripped(sessions[s], s \in flagged[p])
                                         ELSE sessions[s]]
  <2> DEFINE T == Strippable(p)
  <2>1. PICK S \in OldestOf(p, T) :
           sessions' = [s \in DOMAIN sessions |->
                           IF s \in S THEN Stripped(sessions[s], s \in flagged[p])
                                      ELSE sessions[s]]
    BY <1>2
  <2>2. PICK last \in T : S = {s \in T : eligible[p][s] <= eligible[p][last]}
    BY DEF OldestOf
  <2>3. \A s \in T : eligible[p][s] \in Nat
    BY DEF PruneInv, TypeOK, Strippable
  <2> HIDE DEF T
  <2>4. \A s \in S, t \in T : eligible[p][t] <= eligible[p][s] => t \in S
    BY <2>2, <2>3
  <2>5. S \in SUBSET T
    BY <2>2
  <2> QED
    BY <2>1, <2>4, <2>5 DEF T
<1> QED
  BY <1>1, <1>2 DEF StripLogs

\* Phase B deletes some sessions that were read as eligible, and all those of them that
\* are older, or none at all.
LEMMA DeleteShape ==
  ASSUME PruneInv, NEW p \in Pruners, DeleteOldest(p)
  PROVE  \E S \in SUBSET DOMAIN eligible[p] :
            /\ \A s \in S, t \in DOMAIN eligible[p] :
                  eligible[p][t] <= eligible[p][s] => t \in S
            /\ DOMAIN sessions' = DOMAIN sessions \ S
            /\ \A s \in DOMAIN sessions' : sessions'[s] = sessions[s]
<1> DEFINE T == DOMAIN eligible[p]
<1>1. PICK S \in {{}} \cup OldestOf(p, T) :
         sessions' = IF S \subseteq DOMAIN sessions THEN Drop(sessions, S) ELSE sessions
  BY DEF DeleteOldest
<1>2. \A s \in T : eligible[p][s] \in Nat
  BY DEF PruneInv, TypeOK
<1>3. S \in SUBSET T /\ \A s \in S, t \in T : eligible[p][t] <= eligible[p][s] => t \in S
  <2>1. CASE S = {}
    BY <2>1
  <2>2. CASE S \in OldestOf(p, T)
    <3>1. PICK last \in T : S = {s \in T : eligible[p][s] <= eligible[p][last]}
      BY <2>2 DEF OldestOf
    <3> HIDE DEF T
    <3> QED
      BY <1>2, <3>1
  <2> QED
    BY <2>1, <2>2
<1>4. CASE S \subseteq DOMAIN sessions
  BY <1>1, <1>3, <1>4 DEF Drop
<1>5. CASE ~(S \subseteq DOMAIN sessions)
  <2>1. sessions' = sessions
    BY <1>1, <1>5
  <2>2. DOMAIN sessions' = DOMAIN sessions \ {} /\ {} \in SUBSET DOMAIN eligible[p]
    BY <2>1
  <2> WITNESS {} \in SUBSET DOMAIN eligible[p]
  <2> QED
    BY <2>1, <2>2
<1> QED
  BY <1>4, <1>5

LEMMA StrippedRow ==
  ASSUME NEW row \in Row, NEW read
  PROVE  /\ Stripped(row, read) \in Row
         /\ Stripped(row, read).created_at = row.created_at
         /\ Stripped(row, read).in_progress = row.in_progress
         /\ Stripped(row, read).reports = row.reports
         /\ Stripped(row, read).logs = 0
         /\ Stripped(row, read).logs_pruned <=> (read => row.logs_pruned)
         /\ Stripped(row, read).reused = row.reused
BY DEF Stripped, Row

LEMMA StripInv ==
  ASSUME PruneInv, NEW p \in Pruners, StripLogs(p)
  PROVE  PruneInv'
<1>t. TypeOK /\ LogsAreInReports
  BY DEF PruneInv
<1>1. DOMAIN sessions' = DOMAIN sessions
  BY StripShape
<1>2. ASSUME NEW s \in DOMAIN sessions
      PROVE  /\ sessions'[s] \in Row
             /\ sessions'[s].created_at = sessions[s].created_at
             /\ sessions'[s].in_progress => sessions[s].in_progress
             /\ sessions'[s].logs <= sessions'[s].reports
  <2>1. sessions[s] \in Row /\ sessions[s].logs <= sessions[s].reports
    BY <1>t DEF TypeOK, LogsAreInReports
  <2>2. sessions'[s] = sessions[s] \/ sessions'[s] = Stripped(sessions[s], s \in flagged[p])
    BY StripShape
  <2>3. sessions[s].reports \in Nat
    BY <2>1 DEF Row
  <2> QED
    BY <2>1, <2>2, <2>3, StrippedRow
<1>3. UNCHANGED <<created, protected, eligible, flagged, history>> /\ pc' = [pc EXCEPT ![p] = "deleting"]
  BY DEF StripLogs
<1>4. /\ pc' \in [Pruners -> {"idle", "protected", "stripping", "deleting"}]
      /\ \A q \in Pruners : pc'[q] = "idle" => pc[q] = "idle"
  BY <1>t, <1>3 DEF TypeOK
<1> QED
  BY <1>1, <1>2, <1>3, <1>4, InPlace

\* At its end a prune forgets what it read.
LEMMA EndShape ==
  ASSUME PruneInv, NEW p \in Pruners, EndPrune(p)
  PROVE  /\ pc' \in [Pruners -> {"idle", "protected", "stripping", "deleting"}]
         /\ protected' \in [Pruners -> SUBSET Nat] /\ pinned' \in [Pruners -> SUBSET Nat]
         /\ DOMAIN eligible' = Pruners /\ flagged' \in [Pruners -> SUBSET Nat]
         /\ \A q \in Pruners : eligible'[q] \in [DOMAIN eligible'[q] -> Nat]
         /\ DOMAIN eligible'[p] = {} /\ flagged'[p] = {} /\ pinned'[p] = {}
         /\ \A q \in Pruners \ {p} :
               /\ pc'[q] = pc[q] /\ protected'[q] = protected[q]
               /\ eligible'[q] = eligible[q] /\ pinned'[q] = pinned[q]
               /\ flagged'[q] = flagged[q]
<1>t. TypeOK
  BY DEF PruneInv
<1>1. eligible'[p] = <<>> /\ \A q \in Pruners \ {p} : eligible'[q] = eligible[q]
  BY <1>t DEF EndPrune, TypeOK
<1>2. \A q \in Pruners : eligible'[q] \in [DOMAIN eligible'[q] -> Nat]
  BY <1>t, <1>1, NothingRead DEF TypeOK
<1>3. DOMAIN eligible'[p] = {}
  BY <1>1, NothingRead
<1> QED
  BY <1>t, <1>1, <1>2, <1>3 DEF EndPrune, TypeOK

LEMMA DeleteOldestInv ==
  ASSUME PruneInv, NEW p \in Pruners, DeleteOldest(p)
  PROVE  PruneInv'
<1>t. TypeOK
  BY DEF PruneInv
<1>1. /\ DOMAIN sessions' \subseteq DOMAIN sessions
      /\ \A s \in DOMAIN sessions' : sessions'[s] = sessions[s]
  BY DeleteShape
<1>2. /\ meddled' = [q \in Pruners |->
                        q # p /\ (meddled[q] \/ (pc[q] # "idle" /\ sessions' # sessions))]
      /\ UNCHANGED created /\ EndPrune(p)
  BY DEF DeleteOldest
<1>3. TypeOK'
  BY <1>t, <1>1, <1>2, EndShape DEF TypeOK
<1>4. ASSUME NEW q \in Pruners \ {p}, ~meddled'[q], DOMAIN eligible[q] # {}
      PROVE  UNCHANGED sessions /\ ~meddled[q]
  BY <1>2, <1>4 DEF PruneInv, IdleOK
<1> QED
  BY <1>1, <1>2, <1>3, <1>4, EndShape, Fewer

LEMMA CrashInv ==
  ASSUME PruneInv, NEW p \in Pruners, Crash(p)
  PROVE  PruneInv'
<1>t. TypeOK
  BY DEF PruneInv
<1>1. EndPrune(p) /\ meddled' = [meddled EXCEPT ![p] = FALSE] /\ UNCHANGED <<sessions, created>>
  BY DEF Crash, table
<1>2. TypeOK'
  BY <1>t, <1>1, EndShape DEF TypeOK
<1>3. \A q \in Pruners \ {p} : meddled'[q] = meddled[q]
  BY <1>t, <1>1 DEF TypeOK
<1> QED
  BY <1>1, <1>2, <1>3, EndShape, Fewer

LEMMA StutterInv == ASSUME PruneInv, UNCHANGED vars PROVE PruneInv'
BY DEF PruneInv, TypeOK, CreatedOnce, LogsAreInReports, PinOK, ReadOK, IdleOK,
       vars, table, local, history

LEMMA NextInv == PruneInv /\ [Next]_vars => PruneInv'
<1> SUFFICES ASSUME PruneInv, [Next]_vars PROVE PruneInv'
  OBVIOUS
<1>1. CASE StartSession
  BY <1>1, StartInv
<1>2. ASSUME NEW s \in DOMAIN sessions, StoreReport(s) \/ EndSession(s) \/ DeleteSession(s)
      PROVE  PruneInv'
  BY <1>2, StoreInv, EndInv, DeleteInv
<1>3. ASSUME NEW p \in Pruners, Prune(p) \/ Crash(p)
      PROVE  PruneInv'
  BY <1>3, ProtectInv, EligibleInv, StripInv, DeleteOldestInv, CrashInv DEF Prune
<1>4. CASE UNCHANGED vars
  BY <1>4, StutterInv
<1> QED
  BY <1>1, <1>2, <1>3, <1>4 DEF Next

LEMMA InvTheorem == Spec => []PruneInv
<1>1. Init => PruneInv
  BY InitInv
<1>2. PruneInv /\ [Next]_vars => PruneInv'
  BY NextInv
<1> QED
  BY <1>1, <1>2, PTL DEF Spec

-----------------------------------------------------------------------------
(* Theorems *)

\* The tables and the variables of every prune have their types: in particular the
\* number of reports with logs is one also after prune_database has stripped them.
THEOREM TypeCorrect == Spec => []TypeOK
<1>1. PruneInv => TypeOK
  BY DEF PruneInv
<1> QED
  BY <1>1, InvTheorem, PTL

\* What p has read as flagged still is, or is a session that took over the id.
FlagsOK(p) ==
    \A s \in flagged[p] \cap DOMAIN sessions : sessions[s].logs_pruned \/ sessions[s].reused

FlagInv == StrippedAreFlagged /\ \A p \in Pruners : FlagsOK(p)

\* Sessions may go, and rows may lose logs with the flag set, as long as no flag that
\* somebody has read is taken back.
LEMMA FlagKept ==
  ASSUME FlagInv,
         DOMAIN sessions' \subseteq DOMAIN sessions,
         \A s \in DOMAIN sessions' :
            /\ sessions[s].logs_pruned => sessions'[s].logs_pruned
            /\ sessions'[s].reused = sessions[s].reused
            /\ sessions'[s].logs < sessions'[s].had_logs =>
                  \/ sessions[s].logs < sessions[s].had_logs
                  \/ sessions'[s].logs_pruned
                  \/ sessions[s].reused,
         \A p \in Pruners : flagged'[p] \subseteq flagged[p]
  PROVE  FlagInv'
<1>1. StrippedAreFlagged'
  BY DEF FlagInv, StrippedAreFlagged
<1>2. ASSUME NEW p \in Pruners PROVE FlagsOK(p)'
  BY DEF FlagInv, FlagsOK
<1> QED
  BY <1>1, <1>2 DEF FlagInv

LEMMA FlagStart == ASSUME PruneInv, FlagInv, StartSession PROVE FlagInv'
<1> DEFINE row(i) == [created_at |-> created, in_progress |-> TRUE, reports |-> 0,
                      logs |-> 0, had_logs |-> 0, logs_pruned |-> FALSE,
                      reused |-> \E p \in Pruners : i \in flagged[p]]
<1>1. PICK id \in 1 .. created + 1 : sessions' = Put(sessions, id, row(id))
  BY DEF StartSession
<1>2. /\ DOMAIN sessions' = DOMAIN sessions \cup {id}
      /\ sessions'[id] = row(id)
      /\ \A s \in DOMAIN sessions \ {id} : sessions'[s] = sessions[s]
  BY <1>1 DEF Put
<1>3. row(id).logs = 0 /\ row(id).had_logs = 0
  OBVIOUS
<1>4. row(id).reused <=> \E p \in Pruners : id \in flagged[p]
  OBVIOUS
<1> HIDE DEF row
<1>5. flagged' = flagged
  BY DEF StartSession, local
<1>6. StrippedAreFlagged'
  BY <1>2, <1>3 DEF FlagInv, StrippedAreFlagged
<1>7. ASSUME NEW p \in Pruners PROVE FlagsOK(p)'
  <2>1. ASSUME NEW s \in flagged'[p] \cap DOMAIN sessions'
        PROVE  sessions'[s].logs_pruned \/ sessions'[s].reused
    <3>1. CASE s = id
      BY <1>2, <1>4, <1>5, <2>1, <3>1
    <3>2. CASE s # id
      BY <1>2, <1>5, <2>1, <3>2 DEF FlagInv, FlagsOK
    <3> QED
      BY <3>1, <3>2
  <2> QED
    BY <2>1 DEF FlagsOK
<1> QED
  BY <1>6, <1>7 DEF FlagInv

LEMMA FlagStore ==
  ASSUME PruneInv, FlagInv, NEW s \in DOMAIN sessions, StoreReport(s)
  PROVE  FlagInv'
<1> DEFINE l == sessions[s].logs
           h == sessions[s].had_logs
<1>1. sessions[s] \in Row
  BY DEF PruneInv, TypeOK
<1>2. PICK n \in {0, 1} :
         sessions' = [sessions EXCEPT ![s].reports = @ + 1, ![s].logs = @ + n,
                                      ![s].had_logs = @ + n]
  BY DEF StoreReport
<1>3. /\ sessions'[s].logs = l + n /\ sessions'[s].had_logs = h + n
      /\ sessions'[s].logs_pruned = sessions[s].logs_pruned
      /\ sessions'[s].reused = sessions[s].reused
  BY <1>1, <1>2 DEF Row
<1>4. l \in Nat /\ h \in Nat
  BY <1>1 DEF Row
<1>5. DOMAIN sessions' = DOMAIN sessions /\ \A t \in DOMAIN sessions \ {s} : sessions'[t] = sessions[t]
  BY <1>2
<1> HIDE DEF l, h
<1>6. l + n < h + n => l < h
  BY <1>4
<1>7. sessions'[s].logs < sessions'[s].had_logs => sessions[s].logs < sessions[s].had_logs
  BY <1>3, <1>6 DEF l, h
<1>8. flagged' = flagged
  BY DEF StoreReport, local
<1> QED
  BY <1>3, <1>5, <1>7, <1>8, FlagKept

LEMMA FlagEnd ==
  ASSUME PruneInv, FlagInv, NEW s \in DOMAIN sessions, EndSession(s)
  PROVE  FlagInv'
<1>1. sessions[s] \in Row
  BY DEF PruneInv, TypeOK
<1>2. /\ DOMAIN sessions' = DOMAIN sessions
      /\ \A t \in DOMAIN sessions :
            /\ sessions'[t].logs = sessions[t].logs
            /\ sessions'[t].had_logs = sessions[t].had_logs
            /\ sessions'[t].logs_pruned = sessions[t].logs_pruned
            /\ sessions'[t].reused = sessions[t].reused
  BY <1>1 DEF EndSession, Row
<1>3. flagged' = flagged
  BY DEF EndSession, local
<1> QED
  BY <1>2, <1>3, FlagKept

LEMMA FlagRead ==
  ASSUME PruneInv, FlagInv, NEW p \in Pruners, ReadEligible(p)
  PROVE  FlagInv'
<1>1. UNCHANGED sessions
  BY DEF ReadEligible, Select, table
<1>2. /\ \A s \in flagged'[p] : sessions[s].logs_pruned
      /\ \A q \in Pruners \ {p} : flagged'[q] = flagged[q]
  BY DEF ReadEligible, Select, PruneInv, TypeOK
<1>3. ASSUME NEW q \in Pruners PROVE FlagsOK(q)'
  BY <1>1, <1>2 DEF FlagInv, FlagsOK
<1> QED
  BY <1>1, <1>3 DEF FlagInv, StrippedAreFlagged

\* Two cases: the flag was read as FALSE, and is set; or it was read as TRUE, and then
\* the row has it, or has the id of the one that had.
LEMMA FlagStrip ==
  ASSUME PruneInv, FlagInv, NEW p \in Pruners, StripLogs(p)
  PROVE  FlagInv'
<1>1. ASSUME NEW s \in DOMAIN sessions
      PROVE  /\ sessions[s].logs_pruned => sessions'[s].logs_pruned
             /\ sessions'[s].reused = sessions[s].reused
             /\ sessions'[s].logs < sessions'[s].had_logs =>
                   \/ sessions[s].logs < sessions[s].had_logs
                   \/ sessions'[s].logs_pruned
                   \/ sessions[s].reused
  <2>1. sessions[s] \in Row
    BY DEF PruneInv, TypeOK
  <2>2. CASE sessions'[s] = sessions[s]
    BY <2>2
  <2>3. CASE sessions'[s] = Stripped(sessions[s], s \in flagged[p])
    <3> DEFINE read == s \in flagged[p]
    <3>3. read \in BOOLEAN /\ (read <=> s \in flagged[p])
      OBVIOUS
    <3>4. sessions'[s] = Stripped(sessions[s], read)
      BY <2>3
    <3> HIDE DEF read
    <3>5. /\ Stripped(sessions[s], read).logs_pruned <=> (read => sessions[s].logs_pruned)
          /\ Stripped(sessions[s], read).reused = sessions[s].reused
      BY <2>1, StrippedRow
    <3>1. /\ sessions'[s].logs_pruned <=> (s \in flagged[p] => sessions[s].logs_pruned)
          /\ sessions'[s].reused = sessions[s].reused
      BY <3>3, <3>4, <3>5
    <3>2. s \in flagged[p] => sessions[s].logs_pruned \/ sessions[s].reused
      BY DEF FlagInv, FlagsOK
    <3> QED
      BY <3>1, <3>2
  <2> QED
    BY <2>2, <2>3, StripShape
<1>2. DOMAIN sessions' = DOMAIN sessions
  BY StripShape
<1>3. flagged' = flagged
  BY DEF StripLogs
<1> QED
  BY <1>1, <1>2, <1>3, FlagKept

LEMMA FlaggedNext == PruneInv /\ FlagInv /\ [Next]_vars => FlagInv'
<1> SUFFICES ASSUME PruneInv, FlagInv, [Next]_vars PROVE FlagInv'
  OBVIOUS
<1>1. CASE StartSession
  BY <1>1, FlagStart
<1>2. ASSUME NEW s \in DOMAIN sessions, DeleteSession(s) PROVE FlagInv'
  <2>1. /\ DOMAIN sessions' \subseteq DOMAIN sessions
        /\ \A t \in DOMAIN sessions' : sessions'[t] = sessions[t]
        /\ flagged' = flagged
    BY <1>2 DEF DeleteSession, Drop, local
  <2> QED
    BY <2>1, FlagKept
<1>3. ASSUME NEW p \in Pruners, DeleteOldest(p) \/ Crash(p) PROVE FlagInv'
  <2>1. /\ DOMAIN sessions' \subseteq DOMAIN sessions
        /\ \A t \in DOMAIN sessions' : sessions'[t] = sessions[t]
    BY <1>3, DeleteShape DEF Crash, table
  <2>2. \A q \in Pruners : flagged'[q] \subseteq flagged[q]
    BY <1>3, EndShape DEF DeleteOldest, Crash
  <2> QED
    BY <2>1, <2>2, FlagKept
<1>4. ASSUME NEW p \in Pruners, Prune(p) PROVE FlagInv'
  <2>1. CASE ReadProtected(p)
    BY <2>1, FlagKept DEF ReadProtected, Protect, table
  <2> QED
    BY <1>3, <1>4, <2>1, FlagRead, FlagStrip DEF Prune
<1>5. CASE UNCHANGED vars
  BY <1>5, FlagKept DEF vars, table, local
<1> QED
  BY <1>1, <1>2, <1>3, <1>4, <1>5, FlagStore, FlagEnd DEF Next

\* Phase A finds the reports by the id, and sets logs_pruned on the object that was read
\* before: a session is left without logs and without the flag only if it has the id of
\* one that the running prune had read with the flag.  No report, run or other prune
\* takes the flag back.
THEOREM FlagTheorem == Spec => []StrippedAreFlagged
<1>1. Init => FlagInv
  BY NothingRead DEF Init, FlagInv, FlagsOK, StrippedAreFlagged
<1>2. FlagInv => StrippedAreFlagged
  BY DEF FlagInv
<1> QED
  BY <1>1, <1>2, FlaggedNext, InvTheorem, PTL DEF Spec

\* A prune moves by its own steps only, and only two of them write.
LEMMA Moves ==
  ASSUME PruneInv, [Next]_vars, NEW p \in Pruners, pc'[p] # pc[p]
  PROVE  UNCHANGED sessions \/ StripLogs(p) \/ DeleteOldest(p)
<1>t. pc \in [Pruners -> {"idle", "protected", "stripping", "deleting"}]
  BY DEF PruneInv, TypeOK
<1>1. CASE StartSession
  BY <1>1 DEF StartSession, local
<1>2. ASSUME NEW s \in DOMAIN sessions, StoreReport(s) \/ EndSession(s) \/ DeleteSession(s)
      PROVE  FALSE
  BY <1>2 DEF StoreReport, EndSession, DeleteSession, local
<1>3. ASSUME NEW q \in Pruners, Prune(q) \/ Crash(q)
      PROVE  p = q
  BY <1>t, <1>3 DEF Prune, Crash, ReadProtected, Protect, ReadEligible, Select, StripLogs,
                    DeleteOldest, EndPrune
<1>4. ASSUME Prune(p) \/ Crash(p)
      PROVE  UNCHANGED sessions \/ StripLogs(p) \/ DeleteOldest(p)
  BY <1>4 DEF Prune, Crash, ReadProtected, Protect, ReadEligible, Select, table
<1>5. CASE UNCHANGED vars
  BY <1>5 DEF vars, local
<1> QED
  BY <1>1, <1>2, <1>3, <1>4, <1>5 DEF Next

\* A step of p writes to sessions that p has read as eligible, and to no others.
LEMMA OnlyEligible ==
  ASSUME PruneInv, [Next]_vars, NEW p \in Pruners, pc'[p] # pc[p],
         NEW s \in DOMAIN sessions, s \notin DOMAIN eligible[p]
  PROVE  Untouched(s)
<1>1. CASE UNCHANGED sessions
  BY <1>1 DEF Untouched
<1>2. CASE StripLogs(p)
  BY <1>2, StripShape DEF Strippable, Untouched
<1>3. CASE DeleteOldest(p)
  BY <1>3, DeleteShape DEF Untouched
<1> QED
  BY <1>1, <1>2, <1>3, Moves

\* The two reads of _eligible_sessions happen outside a transaction, and the ids may be
\* used again before the phases write: the newest keep_recent sessions of the first
\* read are left alone all the same.
THEOREM PinnedTheorem == Spec => PinnedUntouched
<1>1. PruneInv /\ [Next]_vars =>
         \A p \in Pruners : pc'[p] # pc[p] =>
            \A s \in DOMAIN sessions : sessions[s].created_at \in pinned[p] => Untouched(s)
  <2> SUFFICES ASSUME PruneInv, [Next]_vars, NEW p \in Pruners, pc'[p] # pc[p],
                      NEW s \in DOMAIN sessions, sessions[s].created_at \in pinned[p]
               PROVE  Untouched(s)
    OBVIOUS
  <2>1. s \notin DOMAIN eligible[p]
    BY DEF PruneInv, PinOK
  <2> QED
    BY <2>1, OnlyEligible
<1> QED
  BY <1>1, InvTheorem, PTL DEF Spec, PinnedUntouched

\* While nobody deletes sessions, what _eligible_sessions found not to be in progress
\* stays so until the phases write, whatever is started, reported and ended.
THEOREM RunningTheorem == Spec => RunningUntouched
<1>1. PruneInv /\ [Next]_vars =>
         \A p \in Pruners : pc'[p] # pc[p] /\ ~meddled[p] =>
            \A s \in DOMAIN sessions : sessions[s].in_progress => Untouched(s)
  <2> SUFFICES ASSUME PruneInv, [Next]_vars, NEW p \in Pruners, pc'[p] # pc[p], ~meddled[p],
                      NEW s \in DOMAIN sessions, sessions[s].in_progress
               PROVE  Untouched(s)
    OBVIOUS
  <2>1. s \notin DOMAIN eligible[p]
    BY DEF PruneInv, ReadOK
  <2> QED
    BY <2>1, OnlyEligible
<1> QED
  BY <1>1, InvTheorem, PTL DEF Spec, RunningUntouched

\* While nobody deletes sessions, both loops of prune_database go from the oldest
\* session to the newest: created_at as read orders the sessions as they are, and what
\* phase A passes has no logs.
THEOREM OrderTheorem == Spec => OldestGoFirst
<1>1. PruneInv /\ [Next]_vars =>
         \A p \in Pruners : pc'[p] # pc[p] /\ ~meddled[p] =>
            \A s, t \in DOMAIN eligible[p] \cap DOMAIN sessions :
               sessions[s].created_at > sessions[t].created_at =>
                  /\ s \notin DOMAIN sessions' => t \notin DOMAIN sessions'
                  /\ s \in DOMAIN sessions' /\ sessions'[s].logs < sessions[s].logs
                        => sessions'[t].logs = 0
  <2> SUFFICES ASSUME PruneInv, [Next]_vars, NEW p \in Pruners, pc'[p] # pc[p], ~meddled[p],
                      NEW s \in DOMAIN eligible[p] \cap DOMAIN sessions,
                      NEW t \in DOMAIN eligible[p] \cap DOMAIN sessions,
                      sessions[s].created_at > sessions[t].created_at
               PROVE  /\ s \notin DOMAIN sessions' => t \notin DOMAIN sessions'
                      /\ s \in DOMAIN sessions' /\ sessions'[s].logs < sessions[s].logs
                            => sessions'[t].logs = 0
    OBVIOUS
  <2>1. sessions[s] \in Row /\ sessions[t] \in Row
    BY DEF PruneInv, TypeOK
  <2>2. /\ sessions[s].logs \in Nat /\ sessions[t].logs \in Nat /\ sessions[t].reports \in Nat
        /\ sessions[s].created_at \in Nat /\ sessions[t].created_at \in Nat
    BY <2>1 DEF Row
  <2>3. sessions[t].logs <= sessions[t].reports
    BY DEF PruneInv, LogsAreInReports
  <2>4. eligible[p][t] <= eligible[p][s]
    BY <2>2 DEF PruneInv, ReadOK
  <2>5. CASE UNCHANGED sessions
    BY <2>2, <2>5
  <2>6. CASE StripLogs(p)
    <3>1. PICK S \in SUBSET Strippable(p) :
             /\ \A u \in S, v \in Strippable(p) :
                   eligible[p][v] <= eligible[p][u] => v \in S
             /\ \A u \in DOMAIN sessions :
                   sessions'[u] = IF u \in S THEN Stripped(sessions[u], u \in flagged[p])
                                             ELSE sessions[u]
      BY <2>6, StripShape
    <3>2. DOMAIN sessions' = DOMAIN sessions
      BY <2>6, StripShape
    <3>3. ASSUME sessions'[s].logs < sessions[s].logs
          PROVE  sessions'[t].logs = 0
      <4>1. s \in S
        BY <2>2, <3>1, <3>3
      <4>2. CASE t \in Strippable(p)
        BY <2>1, <2>4, <3>1, <4>1, <4>2, StrippedRow
      <4>3. CASE t \notin Strippable(p)
        <5>1. sessions[t].reports = 0
          BY <2>2, <4>3 DEF Strippable
        <5>2. sessions'[t] = sessions[t]
          BY <3>1, <4>3
        <5> QED
          BY <2>2, <2>3, <5>1, <5>2
      <4> QED
        BY <4>2, <4>3
    <3> QED
      BY <3>2, <3>3
  <2>7. CASE DeleteOldest(p)
    <3>1. PICK S \in SUBSET DOMAIN eligible[p] :
             /\ \A u \in S, v \in DOMAIN eligible[p] :
                   eligible[p][v] <= eligible[p][u] => v \in S
             /\ DOMAIN sessions' = DOMAIN sessions \ S
             /\ \A u \in DOMAIN sessions' : sessions'[u] = sessions[u]
      BY <2>7, DeleteShape
    <3>2. s \in DOMAIN sessions' => ~(sessions'[s].logs < sessions[s].logs)
      BY <2>2, <3>1
    <3>3. s \notin DOMAIN sessions' => t \notin DOMAIN sessions'
      BY <2>4, <3>1
    <3> QED
      BY <3>2, <3>3
  <2> QED
    BY <2>5, <2>6, <2>7, Moves
<1> QED
  BY <1>1, InvTheorem, PTL DEF Spec, OldestGoFirst
=============================================================================
