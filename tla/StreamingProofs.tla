--------------------------- MODULE StreamingProofs --------------------------
(***************************************************************************)
(* Streaming's type invariant and its three safety properties, for any     *)
(* number of runs, every script, every failure of the network, the server  *)
(* and its commits, and any number of restarts.                            *)
(***************************************************************************)
EXTENDS Streaming, IngestProofs

-----------------------------------------------------------------------------
(* The inductive invariant *)

\* Event k of u is over: posted, or skipped, and not on its way any more.
Posted(u, k) == k < next[u] \/ (k = next[u] /\ waiting[u])
Spent(u, k)  == Posted(u, k) /\ <<u, k>> \notin requests

\* A request is on its way only if it was posted, and it is gone once it is answered.
PostedOK(u) ==
    /\ waiting[u] => next[u] <= Last
    /\ \A k \in First .. Last : <<u, k>> \in requests => Posted(u, k)
    /\ \A k \in sent[u] : k < next[u]
    /\ waiting[u] /\ reply[u] # None => <<u, next[u]>> \notin requests

\* A uuid is mapped to the session it opened, which it does once.
MapOwn ==
    /\ ~up => DOMAIN session_uuid_map = {}
    /\ \A u \in DOMAIN session_uuid_map : session_uuid_map[u] \in SessionsOf(u)
OpenOK(u) ==
    /\ \A s, t \in SessionsOf(u) : s = t
    /\ ~Spent(u, First) => SessionsOf(u) = {}

\* The rows of a run are reports whose events are over, each of them once; those after
\* a report that was sent come later.
RowsOK(u, rows) ==
    /\ \A i \in DOMAIN rows : \E k \in 3 .. Last - 1 : rows[i] = Script[k - 2] /\ Spent(u, k)
    /\ \A i, j \in DOMAIN rows : rows[i] = rows[j] => i = j
    /\ \A j \in ReportsSent(u), k \in 3 .. Last - 1, i, l \in DOMAIN rows :
          j < k /\ rows[i] = Script[j - 2] /\ rows[l] = Script[k - 2] => i < l

\* What was sent, or has been answered with success, is stored.
StoredAt(u, k) ==
    \E s \in SessionsOf(u) : \E i \in DOMAIN sessions[s].reports :
        sessions[s].reports[i] = Script[k - 2]
StoredOK(u) ==
    /\ \A s \in SessionsOf(u) : RowsOK(u, sessions[s].reports)
    /\ \A k \in ReportsSent(u) : StoredAt(u, k)
    /\ waiting[u] /\ reply[u] = "ok" /\ IsReport(next[u]) => StoredAt(u, next[u])

\* The last event of u that has succeeded if none has failed, and how many reports
\* are stored then.
Done(u) == IF waiting[u] /\ reply[u] = "ok" THEN next[u] ELSE next[u] - 1
Count(d) == IF d < 3 THEN 0 ELSE IF d >= Last THEN Len(Script) ELSE d - 2

\* As long as no event of u has failed, its session has all that was posted, in
\* the table and, while it is mapped, in memory.
CleanRow(u, s) ==
    /\ Len(sessions[s].reports) = Count(Done(u))
    /\ \A i \in DOMAIN sessions[s].reports : sessions[s].reports[i] = Script[i]
    /\ sessions[s].stats = CalculateSessionStats(OutcomesOf(sessions[s].reports))
    /\ Done(u) >= Last => sessions[s].status = "completed"
    /\ u \in DOMAIN session_uuid_map =>
          /\ s \in DOMAIN active_sessions
          /\ active_sessions[s].test_outcomes = OutcomesOf(sessions[s].reports)
CleanOK(u) ==
    failed[u] = {} /\ ~(waiting[u] /\ reply[u] = "error") =>
        /\ \A k \in First .. Last : <<u, k>> \in requests => k = next[u] /\ waiting[u]
        /\ Done(u) >= First => SessionsOf(u) # {}
        /\ \A s \in SessionsOf(u) : CleanRow(u, s)

RunOK(u) == PostedOK(u) /\ OpenOK(u) /\ StoredOK(u) /\ CleanOK(u)

StreamingInv ==
    /\ StreamingTypeOK
    /\ MapOwn
    /\ \A u \in Uuids : RunOK(u)

-----------------------------------------------------------------------------
(* Lemmas *)

LEMMA ScriptFacts ==
    /\ Last \in Nat /\ Last >= 3 /\ Last = Len(Script) + 3 /\ First = 1
    /\ \A k : k \in 3 .. Last - 1 => k - 2 \in DOMAIN Script /\ Script[k - 2] \in Reports
    /\ \A j, k \in 3 .. Last - 1 : Script[j - 2] = Script[k - 2] => j = k
    /\ None \notin Uuids /\ None # "ok" /\ None # "error"
<1>1. /\ Script \in Seq(Reports) /\ Len(Script) \in Nat /\ DOMAIN Script = 1 .. Len(Script)
      /\ \A i \in DOMAIN Script : Script[i] \in Reports
      /\ \A i, j \in DOMAIN Script : Script[i] = Script[j] => i = j
  BY StreamingAssumption
<1>2. \A k \in 3 .. Last - 1 : k - 2 \in DOMAIN Script
  BY <1>1 DEF Last
<1>3. \A j, k \in 3 .. Last - 1 : Script[j - 2] = Script[k - 2] => j - 2 = k - 2
  BY <1>1, <1>2
<1>4. \A j, k \in 3 .. Last - 1 : j - 2 = k - 2 => j = k
  OBVIOUS
<1> QED
  BY <1>1, <1>2, <1>3, <1>4, StreamingAssumption DEF Last, First

\* The plugin of u has done nothing, though a request of it may be lost.
SamePlugin(u) ==
    /\ next'[u] = next[u] /\ waiting'[u] = waiting[u] /\ reply'[u] = reply[u]
    /\ sent'[u] = sent[u] /\ failed'[u] = failed[u]
    /\ \A k : <<u, k>> \in requests' => <<u, k>> \in requests

\* The session of u has what it had, though it may have ended, or lost its mapping.
Kept(u) ==
    /\ SessionsOf(u)' = SessionsOf(u)
    /\ \A s \in SessionsOf(u) :
          /\ sessions'[s].reports = sessions[s].reports
          /\ sessions'[s].stats = sessions[s].stats
          /\ sessions[s].status = "completed" => sessions'[s].status = "completed"
    /\ u \in DOMAIN session_uuid_map' =>
          /\ u \in DOMAIN session_uuid_map
          /\ \A s \in SessionsOf(u) : s \in DOMAIN active_sessions =>
                s \in DOMAIN active_sessions' /\ active_sessions'[s] = active_sessions[s]

LEMMA KeptUnchanged ==
    ASSUME UNCHANGED vars, NEW u
    PROVE  Kept(u)
BY DEF vars, Kept, SessionsOf

\* Rows stay in order while more events are over and no more are sent.
LEMMA RowsStay ==
    ASSUME NEW u, NEW rows, RowsOK(u, rows), sent'[u] = sent[u],
           \A k \in 3 .. Last - 1 : Spent(u, k) => Spent(u, k)'
    PROVE  RowsOK(u, rows)'
BY DEF RowsOK, ReportsSent, IsReport, Last

LEMMA Unaffected ==
    ASSUME StreamingTypeOK, NEW u \in Uuids, RunOK(u), SamePlugin(u), Kept(u)
    PROVE  RunOK(u)'
<1>1. /\ \A k : Posted(u, k)' <=> Posted(u, k)
      /\ \A k : Spent(u, k) => Spent(u, k)'
      /\ Done(u)' = Done(u)
      /\ ReportsSent(u)' = ReportsSent(u)
  BY DEF SamePlugin, Posted, Spent, Done, ReportsSent, IsReport, Last
<1>2. PostedOK(u)'
  BY <1>1 DEF RunOK, PostedOK, SamePlugin, First, Last
<1>3. OpenOK(u)'
  BY <1>1 DEF RunOK, OpenOK, Kept, First
<1>4. \A k : StoredAt(u, k) => StoredAt(u, k)'
  BY DEF StoredAt, Kept
<1>5. \A s \in SessionsOf(u)' : RowsOK(u, sessions[s].reports)'
  <2> SUFFICES ASSUME NEW s \in SessionsOf(u) PROVE RowsOK(u, sessions[s].reports)'
    BY DEF Kept
  <2>1. RowsOK(u, sessions[s].reports)
    BY DEF RunOK, StoredOK
  <2>2. sessions'[s].reports = sessions[s].reports
    BY DEF Kept
  <2>3. sent'[u] = sent[u]
    BY DEF SamePlugin
  <2> QED
    BY <1>1, <2>1, <2>2, <2>3 DEF RowsOK, IsReport, Last
<1>6. StoredOK(u)'
  BY <1>1, <1>4, <1>5 DEF RunOK, StoredOK, SamePlugin, IsReport, Last
<1>7. CleanOK(u)'
  <2> SUFFICES ASSUME failed'[u] = {}, ~(waiting'[u] /\ reply'[u] = "error")
               PROVE  /\ \A k \in First .. Last : <<u, k>> \in requests' =>
                            k = next'[u] /\ waiting'[u]
                      /\ Done(u)' >= First => SessionsOf(u)' # {}
                      /\ \A s \in SessionsOf(u)' : CleanRow(u, s)'
    BY DEF CleanOK, First, Last
  <2>1. /\ \A k \in First .. Last : <<u, k>> \in requests => k = next[u] /\ waiting[u]
        /\ Done(u) >= First => SessionsOf(u) # {}
        /\ \A s \in SessionsOf(u) : CleanRow(u, s)
    BY DEF RunOK, CleanOK, SamePlugin
  <2>2. ASSUME NEW s \in SessionsOf(u) PROVE CleanRow(u, s)'
    <3>1. CleanRow(u, s)
      BY <2>1
    <3>2. Count(Done(u))' = Count(Done(u))
      BY <1>1 DEF Count, Last
    <3>3. /\ sessions'[s].reports = sessions[s].reports
          /\ sessions'[s].stats = sessions[s].stats
          /\ sessions[s].status = "completed" => sessions'[s].status = "completed"
          /\ u \in DOMAIN session_uuid_map' =>
                /\ u \in DOMAIN session_uuid_map
                /\ s \in DOMAIN active_sessions =>
                      s \in DOMAIN active_sessions' /\ active_sessions'[s] = active_sessions[s]
      BY DEF Kept
    <3> QED
      BY <1>1, <3>1, <3>2, <3>3 DEF CleanRow, Last
  <2> QED
    BY <1>1, <2>1, <2>2 DEF SamePlugin, Kept, First
<1> QED
  BY <1>2, <1>3, <1>6, <1>7 DEF RunOK

-----------------------------------------------------------------------------
(* What the plugin does *)

LEMMA PluginTypes ==
    ASSUME StreamingTypeOK, NEW u \in Uuids
    PROVE  /\ next[u] \in Nat /\ next[u] >= First /\ next[u] <= Last + 1
           /\ waiting[u] \in BOOLEAN
           /\ requests \subseteq Uuids \X (First .. Last)
           /\ \A k \in sent[u] : k \in First .. Last
BY ScriptFacts DEF StreamingTypeOK

\* The rows of u say the same of the state after a step that changes none.
LEMMA SameRows ==
    ASSUME UNCHANGED vars, NEW u
    PROVE  /\ SessionsOf(u)' = SessionsOf(u)
           /\ \A k : StoredAt(u, k)' <=> StoredAt(u, k)
BY DEF vars, SessionsOf, StoredAt

LEMMA RunPost ==
    ASSUME StreamingTypeOK, NEW u \in Uuids, RunOK(u), Post(u)
    PROVE  RunOK(u)'
<1> DEFINE n == next[u]
<1>1. /\ n \in Nat /\ n <= Last /\ ~waiting[u]
      /\ next'[u] = n /\ waiting'[u] = TRUE /\ reply'[u] = None
      /\ sent'[u] = sent[u] /\ failed'[u] = failed[u]
      /\ requests' = requests \cup {<<u, n>>}
      /\ UNCHANGED vars
  BY PluginTypes DEF Post, StreamingTypeOK
<1>2. \A k \in First .. Last : /\ Posted(u, k) <=> k < n
                               /\ Posted(u, k)' <=> k < n \/ k = n
  BY <1>1 DEF Posted
<1>3. \A k \in First .. Last : Spent(u, k) <=> Spent(u, k)'
  BY <1>1, <1>2 DEF Spent
<1>4. First \in First .. Last /\ 3 .. Last - 1 \subseteq First .. Last
  BY ScriptFacts
<1>5. ReportsSent(u)' = ReportsSent(u) /\ Done(u)' = Done(u)
  BY <1>1, ScriptFacts DEF ReportsSent, IsReport, Done, Last
<1>6. PostedOK(u)'
  BY <1>1, <1>2, ScriptFacts DEF RunOK, PostedOK, First, Last
<1>7. OpenOK(u)'
  BY <1>1, <1>3, <1>4, SameRows DEF RunOK, OpenOK, First
<1>8. StoredOK(u)'
  <2>1. \A s \in SessionsOf(u) : RowsOK(u, sessions[s].reports)'
    <3> SUFFICES ASSUME NEW s \in SessionsOf(u) PROVE RowsOK(u, sessions[s].reports)'
      OBVIOUS
    <3>1. RowsOK(u, sessions[s].reports) /\ sessions' = sessions
      BY <1>1 DEF RunOK, StoredOK, vars
    <3> QED
      BY <1>3, <1>4, <1>5, <3>1 DEF RowsOK, Last
  <2>2. ~(waiting'[u] /\ reply'[u] = "ok")
    BY <1>1, ScriptFacts
  <2> QED
    BY <1>1, <1>5, <2>1, <2>2, SameRows DEF RunOK, StoredOK
<1>9. CleanOK(u)'
  <2> SUFFICES ASSUME failed[u] = {}
               PROVE  /\ \A k \in First .. Last : <<u, k>> \in requests' => k = n
                      /\ Done(u)' >= First => SessionsOf(u)' # {}
                      /\ \A s \in SessionsOf(u)' : CleanRow(u, s)'
    BY <1>1 DEF CleanOK, First, Last
  <2>1. /\ \A k \in First .. Last : <<u, k>> \notin requests
        /\ Done(u) >= First => SessionsOf(u) # {}
        /\ \A s \in SessionsOf(u) : CleanRow(u, s)
    BY <1>1 DEF RunOK, CleanOK
  <2>2. \A s \in SessionsOf(u) : CleanRow(u, s)'
    BY <1>1, <1>5, <2>1 DEF vars, CleanRow, Count, Last
  <2> QED
    BY <1>1, <1>5, <2>1, <2>2, SameRows DEF First
<1> QED
  BY <1>6, <1>7, <1>8, <1>9 DEF RunOK

LEMMA RunSucceed ==
    ASSUME StreamingTypeOK, NEW u \in Uuids, RunOK(u), waiting[u], reply[u] = "ok",
           Succeed(u), UNCHANGED <<vars, network>>
    PROVE  RunOK(u)'
<1> DEFINE n == next[u]
<1>1. /\ n \in Nat /\ n >= First /\ n <= Last
      /\ next'[u] = n + 1 /\ waiting'[u] = FALSE
      /\ sent'[u] = sent[u] \cup {n} /\ failed'[u] = failed[u]
      /\ requests' = requests /\ UNCHANGED vars
  BY PluginTypes DEF Succeed, StreamingTypeOK, network, RunOK, PostedOK
<1>2. \A k \in First .. Last : Posted(u, k)' <=> Posted(u, k)
  BY <1>1 DEF Posted
<1>3. \A k \in First .. Last : Spent(u, k) <=> Spent(u, k)'
  BY <1>1, <1>2 DEF Spent
<1>4. First \in First .. Last /\ 3 .. Last - 1 \subseteq First .. Last
  BY ScriptFacts
<1>5. /\ ReportsSent(u)' = ReportsSent(u) \cup (IF IsReport(n) THEN {n} ELSE {})
      /\ Done(u)' = Done(u)
  BY <1>1, ScriptFacts DEF ReportsSent, IsReport, Done, Last
<1>6. PostedOK(u)'
  <2>1. \A k \in sent[u] : k \in Nat /\ k < n
    BY PluginTypes, ScriptFacts DEF RunOK, PostedOK
  <2>2. \A k \in sent'[u] : k < next'[u]
    BY <1>1, <2>1
  <2> QED
    BY <1>1, <1>2, <2>2 DEF RunOK, PostedOK, First, Last
<1>7. OpenOK(u)'
  BY <1>1, <1>3, <1>4, SameRows DEF RunOK, OpenOK, First
<1>8. StoredOK(u)'
  <2>1. \A s \in SessionsOf(u) : RowsOK(u, sessions[s].reports)'
    <3> SUFFICES ASSUME NEW s \in SessionsOf(u) PROVE RowsOK(u, sessions[s].reports)'
      OBVIOUS
    <3> DEFINE rows == sessions[s].reports
    <3>1. RowsOK(u, rows) /\ sessions' = sessions
      BY <1>1 DEF RunOK, StoredOK, vars
    <3>2. ASSUME NEW j \in ReportsSent(u)', NEW k \in 3 .. Last - 1, NEW i \in DOMAIN rows,
                 NEW l \in DOMAIN rows,
                 j < k /\ rows[i] = Script[j - 2] /\ rows[l] = Script[k - 2]
          PROVE  i < l
      <4>1. CASE j \in ReportsSent(u)
        BY <3>1, <3>2, <4>1 DEF RowsOK
      <4>2. CASE j = n
        <5>1. PICK q \in 3 .. Last - 1 : rows[l] = Script[q - 2] /\ Spent(u, q)
          BY <3>1 DEF RowsOK
        <5>2. q = k
          BY <3>2, <5>1, ScriptFacts
        <5>3. k <= n
          BY <1>1, <5>1, <5>2 DEF Spent, Posted
        <5> QED
          BY <1>1, <3>2, <4>2, <5>3, ScriptFacts
      <4> QED
        BY <1>5, <4>1, <4>2
    <3> QED
      BY <1>3, <1>4, <3>1, <3>2 DEF RowsOK, Last
  <2>2. IsReport(n) => StoredAt(u, n)
    BY DEF RunOK, StoredOK
  <2> QED
    BY <1>1, <1>5, <2>1, <2>2, SameRows DEF RunOK, StoredOK
<1>9. CleanOK(u)'
  <2> SUFFICES ASSUME failed[u] = {}
               PROVE  /\ \A k \in First .. Last : <<u, k>> \notin requests'
                      /\ Done(u)' >= First => SessionsOf(u)' # {}
                      /\ \A s \in SessionsOf(u)' : CleanRow(u, s)'
    BY <1>1 DEF CleanOK, First, Last
  <2>1. /\ \A k \in First .. Last : <<u, k>> \in requests => k = n
        /\ <<u, n>> \notin requests
        /\ Done(u) >= First => SessionsOf(u) # {}
        /\ \A s \in SessionsOf(u) : CleanRow(u, s)
    BY ScriptFacts DEF RunOK, CleanOK, PostedOK
  <2>2. \A s \in SessionsOf(u) : CleanRow(u, s)'
    BY <1>1, <1>5, <2>1 DEF vars, CleanRow, Count, Last
  <2> QED
    BY <1>1, <1>5, <2>1, <2>2, SameRows DEF First
<1> QED
  BY <1>6, <1>7, <1>8, <1>9 DEF RunOK

LEMMA RunFail ==
    ASSUME StreamingTypeOK, NEW u \in Uuids, RunOK(u), waiting[u],
           Fail(u), UNCHANGED <<vars, network>>
    PROVE  RunOK(u)'
<1> DEFINE n == next[u]
<1>1. /\ n \in Nat /\ n >= First /\ n <= Last
      /\ next'[u] \in Nat /\ next'[u] > n /\ waiting'[u] = FALSE
      /\ sent'[u] = sent[u] /\ failed'[u] # {}
      /\ requests' = requests /\ UNCHANGED vars
  BY PluginTypes, ScriptFacts DEF Fail, StreamingTypeOK, network, RunOK, PostedOK
<1>2. \A k \in First .. Last : Posted(u, k) => Posted(u, k)'
  BY <1>1 DEF Posted
<1>3. \A k \in First .. Last : Spent(u, k) => Spent(u, k)'
  BY <1>1, <1>2 DEF Spent
<1>4. First \in First .. Last /\ 3 .. Last - 1 \subseteq First .. Last
  BY ScriptFacts
<1>5. ReportsSent(u)' = ReportsSent(u)
  BY <1>1 DEF ReportsSent, IsReport, Last
<1>6. PostedOK(u)'
  <2>1. \A k \in sent[u] : k \in Nat /\ k < n
    BY PluginTypes, ScriptFacts DEF RunOK, PostedOK
  <2>2. \A k \in sent[u] : k < next'[u]
    BY <1>1, <2>1
  <2> QED
    BY <1>1, <1>2, <2>2 DEF RunOK, PostedOK, First, Last
<1>7. OpenOK(u)'
  BY <1>1, <1>3, <1>4, SameRows DEF RunOK, OpenOK, First
<1>8. StoredOK(u)'
  <2>1. \A s \in SessionsOf(u) : RowsOK(u, sessions[s].reports)'
    <3> SUFFICES ASSUME NEW s \in SessionsOf(u) PROVE RowsOK(u, sessions[s].reports)'
      OBVIOUS
    <3>1. RowsOK(u, sessions[s].reports) /\ sessions' = sessions
      BY <1>1 DEF RunOK, StoredOK, vars
    <3> QED
      BY <1>3, <1>4, <1>5, <3>1 DEF RowsOK, Last
  <2> QED
    BY <1>1, <1>5, <2>1, SameRows DEF RunOK, StoredOK
<1>9. CleanOK(u)'
  BY <1>1 DEF CleanOK
<1> QED
  BY <1>6, <1>7, <1>8, <1>9 DEF RunOK

-----------------------------------------------------------------------------
(* What a response does *)

\* The conditions under which CleanOK promises anything.
Clean(u) == failed[u] = {} /\ ~(waiting[u] /\ reply[u] = "error")

\* The run is waiting for event k.
Current(u, k) == waiting[u] /\ next[u] = k

LEMMA RespondFacts ==
    ASSUME StreamingTypeOK, NEW u \in Uuids, RunOK(u), NEW k \in First .. Last,
           <<u, k>> \in requests, NEW r \in {"ok", "error"}, Respond(u, k, r)
    PROVE  /\ next' = next /\ waiting' = waiting /\ sent' = sent /\ failed' = failed
           /\ reply'[u] = IF Current(u, k) THEN r ELSE reply[u]
           /\ \A v \in Uuids \ {u} : SamePlugin(v)
           /\ ReportsSent(u)' = ReportsSent(u)
           /\ \A q \in First .. Last : Spent(u, q)' <=> Spent(u, q) \/ q = k
           /\ ~Spent(u, k)
           /\ PostedOK(u)'
           /\ Clean(u)' => /\ Clean(u) /\ Current(u, k) /\ r = "ok"
                           /\ Done(u) = k - 1 /\ Done(u)' = k
                           /\ \A q \in First .. Last : <<u, q>> \notin requests'
<1>1. /\ next' = next /\ waiting' = waiting /\ sent' = sent /\ failed' = failed
      /\ requests' = requests \ {<<u, k>>}
      /\ reply' = IF Current(u, k) THEN [reply EXCEPT ![u] = r] ELSE reply
      /\ reply \in [Uuids -> {"ok", "error", None}]
  BY DEF Respond, plugin, Current, StreamingTypeOK
<1>2. reply'[u] = IF Current(u, k) THEN r ELSE reply[u]
  BY <1>1
<1>3. \A v \in Uuids \ {u} : SamePlugin(v)
  BY <1>1 DEF SamePlugin
<1>4. ReportsSent(u)' = ReportsSent(u) /\ \A q : Posted(u, q)' <=> Posted(u, q)
  BY <1>1 DEF ReportsSent, Posted, IsReport, Last
<1>5. Posted(u, k)
  BY DEF RunOK, PostedOK
<1>6. /\ \A q \in First .. Last : Spent(u, q)' <=> Spent(u, q) \/ q = k
      /\ ~Spent(u, k)
  BY <1>1, <1>4, <1>5 DEF Spent
<1>7. PostedOK(u)'
  <2>1. waiting[u] /\ reply'[u] # None => <<u, next[u]>> \notin requests'
    <3>1. CASE Current(u, k)
      BY <1>1, <3>1 DEF Current
    <3>2. CASE ~Current(u, k)
      BY <1>1, <1>2, <3>2 DEF RunOK, PostedOK
    <3> QED
      BY <3>1, <3>2
  <2> QED
    BY <1>1, <1>4, <2>1 DEF RunOK, PostedOK, First, Last
<1>8. Current(u, k) => reply[u] = None
  BY DEF Current, RunOK, PostedOK
<1>9. ASSUME Clean(u)'
      PROVE  /\ Clean(u) /\ Current(u, k) /\ r = "ok"
             /\ Done(u) = k - 1 /\ Done(u)' = k
             /\ \A q \in First .. Last : <<u, q>> \notin requests'
  <2>1. failed[u] = {} /\ ~(waiting[u] /\ reply'[u] = "error")
    BY <1>1, <1>9 DEF Clean
  <2>2. Clean(u)
    BY <1>2, <1>8, <2>1, ScriptFacts DEF Clean
  <2>3. \A q \in First .. Last : <<u, q>> \in requests => q = next[u] /\ waiting[u]
    BY <2>2 DEF Clean, RunOK, CleanOK
  <2>4. Current(u, k)
    BY <2>3 DEF Current
  <2>5. r = "ok"
    BY <1>2, <2>1, <2>4 DEF Current
  <2>6. Done(u) = k - 1 /\ Done(u)' = k
    BY <1>1, <1>2, <1>8, <2>4, <2>5, ScriptFacts DEF Done, Current
  <2>7. \A q \in First .. Last : <<u, q>> \notin requests'
    BY <1>1, <2>3, <2>4 DEF Current
  <2> QED
    BY <2>2, <2>4, <2>5, <2>6, <2>7
<1> QED
  BY <1>1, <1>2, <1>3, <1>4, <1>6, <1>7, <1>9

\* A response after which the rows of the run are as before: to CollectReport or
\* SessionFinish, or to an event that was refused or not committed.
LEMMA RunAnswered ==
    ASSUME StreamingTypeOK, NEW u \in Uuids, RunOK(u), NEW k \in First .. Last,
           <<u, k>> \in requests, NEW r \in {"ok", "error"}, Respond(u, k, r),
           SessionsOf(u)' = SessionsOf(u),
           \A s \in SessionsOf(u) : sessions'[s].reports = sessions[s].reports,
           r = "ok" => /\ Kept(u) /\ k # First /\ ~IsReport(k)
                       /\ k = Last => \A s \in SessionsOf(u) : sessions'[s].status = "completed"
    PROVE  RunOK(u)'
<1>1. OpenOK(u)'
  BY RespondFacts, ScriptFacts DEF RunOK, OpenOK, First
<1>2. \A q : StoredAt(u, q)' <=> StoredAt(u, q)
  BY DEF StoredAt
<1>3. \A s \in SessionsOf(u) : RowsOK(u, sessions[s].reports)'
  <2> SUFFICES ASSUME NEW s \in SessionsOf(u) PROVE RowsOK(u, sessions[s].reports)'
    OBVIOUS
  <2>1. RowsOK(u, sessions[s].reports) /\ sessions'[s].reports = sessions[s].reports
    BY DEF RunOK, StoredOK
  <2>2. 3 .. Last - 1 \subseteq First .. Last
    BY ScriptFacts
  <2>3. /\ ReportsSent(u)' = ReportsSent(u)
        /\ \A q \in 3 .. Last - 1 : Spent(u, q) => Spent(u, q)'
    BY <2>2, RespondFacts
  <2> QED
    BY <2>1, <2>3 DEF RowsOK, Last
<1>4. waiting'[u] /\ reply'[u] = "ok" /\ IsReport(next'[u]) => StoredAt(u, next[u])'
  <2>1. CASE Current(u, k)
    BY <2>1, RespondFacts DEF Current
  <2>2. CASE ~Current(u, k)
    <3>1. next'[u] = next[u] /\ waiting'[u] = waiting[u] /\ reply'[u] = reply[u]
      BY <2>2, RespondFacts
    <3>2. waiting[u] /\ reply[u] = "ok" /\ IsReport(next[u]) => StoredAt(u, next[u])
      BY DEF RunOK, StoredOK
    <3>3. StoredAt(u, next[u])' <=> StoredAt(u, next[u])
      BY RespondFacts DEF StoredAt
    <3> QED
      BY <3>1, <3>2, <3>3
  <2> QED
    BY <2>1, <2>2
<1>5. StoredOK(u)'
  <2>1. \A q \in ReportsSent(u)' : StoredAt(u, q)'
    BY <1>2, RespondFacts DEF RunOK, StoredOK
  <2>2. \A s \in SessionsOf(u)' : RowsOK(u, sessions[s].reports)'
    BY <1>3
  <2> QED
    BY <1>4, <2>1, <2>2 DEF StoredOK, IsReport, Last
<1>6. CleanOK(u)'
  <2> SUFFICES ASSUME Clean(u)'
               PROVE  /\ \A q \in First .. Last : <<u, q>> \in requests' =>
                            q = next'[u] /\ waiting'[u]
                      /\ Done(u)' >= First => SessionsOf(u)' # {}
                      /\ \A s \in SessionsOf(u)' : CleanRow(u, s)'
    BY DEF Clean, CleanOK, First, Last
  <2>1. /\ Clean(u) /\ r = "ok" /\ Done(u) = k - 1 /\ Done(u)' = k
        /\ \A q \in First .. Last : <<u, q>> \notin requests'
    BY RespondFacts
  <2>2. k \in Nat /\ (k = 2 \/ k = Last) /\ k >= 2
    BY <2>1, ScriptFacts DEF IsReport
  <2>3. SessionsOf(u) # {} /\ \A s \in SessionsOf(u) : CleanRow(u, s)
    BY <2>1, <2>2, ScriptFacts DEF Clean, RunOK, CleanOK
  <2>4. Count(k) = Count(k - 1)
    BY <2>2, ScriptFacts DEF Count
  <2>5. ASSUME NEW s \in SessionsOf(u) PROVE CleanRow(u, s)'
    <3>1. CleanRow(u, s)
      BY <2>3
    <3>2. /\ sessions'[s].reports = sessions[s].reports
          /\ sessions'[s].stats = sessions[s].stats
          /\ u \in DOMAIN session_uuid_map' =>
                /\ u \in DOMAIN session_uuid_map
                /\ s \in DOMAIN active_sessions =>
                      s \in DOMAIN active_sessions' /\ active_sessions'[s] = active_sessions[s]
      BY <2>1 DEF Kept
    <3>3. k >= Last => sessions'[s].status = "completed"
      BY <2>1, <2>2, ScriptFacts
    <3>4. Count(Done(u))' = Count(Done(u))
      BY <2>1, <2>4 DEF Count, Last
    <3> QED
      BY <2>1, <3>1, <3>2, <3>3, <3>4 DEF CleanRow, Last
  <2> QED
    BY <2>1, <2>3, <2>5
<1> QED
  BY <1>1, <1>5, <1>6, RespondFacts DEF RunOK

-----------------------------------------------------------------------------
(* What the server does with an event *)

\* The answer to an event whose commit had result res.
AnswerTo(res) == IF res = "ok" THEN "ok" ELSE "error"

LEMMA NotMapped ==
    ASSUME StreamingTypeOK, MapOwn, NEW u \in Uuids, SessionsOf(u) = {}
    PROVE  u \notin DOMAIN session_uuid_map
BY DEF MapOwn

LEMMA RunOpen ==
    ASSUME StreamingTypeOK, MapOwn, NEW u \in Uuids, RunOK(u), <<u, First>> \in requests,
           NEW res, up, OpenSession(u, NoSession, res), Respond(u, First, AnswerTo(res))
    PROVE  /\ MapOwn'
           /\ \A v \in Uuids \ {u} : SamePlugin(v) /\ Kept(v)
           /\ RunOK(u)'
<1>1. First \in First .. Last /\ AnswerTo(res) \in {"ok", "error"}
  BY ScriptFacts DEF AnswerTo
<1>2. SessionsOf(u) = {}
  BY DEF RunOK, OpenOK, Spent
<1>3. PICK new \in 1 .. created + 1 :
         /\ IsNextId(new)
         /\ sessions' = Put(sessions, new, NewSession(u))
         /\ IF res = "ok"
            THEN /\ active_sessions' = Put(active_sessions, new, FreshTracking)
                 /\ session_uuid_map' = Put(session_uuid_map, u, new)
            ELSE UNCHANGED <<active_sessions, session_uuid_map>>
  BY ScriptFacts DEF OpenSession
<1>4. new \notin DOMAIN sessions /\ up' = up
  <2>1. new \in Int
    BY DEF StreamingTypeOK, TypeOK
  <2> QED
    BY <1>3, <2>1 DEF IsNextId, OpenSession
<1>5. /\ DOMAIN sessions' = DOMAIN sessions \cup {new}
      /\ sessions'[new] = NewSession(u)
      /\ \A s \in DOMAIN sessions : sessions'[s] = sessions[s]
  BY <1>3, <1>4 DEF Put
<1>6. SessionsOf(u)' = {new} /\ \A v \in Uuids \ {u} : SessionsOf(v)' = SessionsOf(v)
  BY <1>2, <1>4, <1>5 DEF SessionsOf, NewSession
<1>7. MapOwn'
  <2>1. \A v \in DOMAIN session_uuid_map : v \in Uuids /\ v # u
    BY <1>2, NotMapped DEF StreamingTypeOK, TypeOK
  <2>2. \A v \in DOMAIN session_uuid_map : session_uuid_map[v] \in SessionsOf(v)'
    BY <1>6, <2>1 DEF MapOwn
  <2>3. \A v \in DOMAIN session_uuid_map' :
            \/ v \in DOMAIN session_uuid_map /\ session_uuid_map'[v] = session_uuid_map[v]
            \/ v = u /\ session_uuid_map'[v] = new
    BY <1>3 DEF Put
  <2> QED
    BY <1>4, <1>6, <2>2, <2>3 DEF MapOwn
<1>8. \A v \in Uuids \ {u} : Kept(v)
  BY <1>3, <1>4, <1>5, <1>6 DEF Kept, Put, SessionsOf
<1>9. OpenOK(u)'
  BY <1>1, <1>6, RespondFacts DEF OpenOK, First
<1>10. /\ sessions'[new].reports = <<>>
       /\ sessions'[new].stats = CalculateSessionStats(<<>>)
       /\ res = "ok" => /\ new \in DOMAIN active_sessions'
                        /\ active_sessions'[new].test_outcomes = <<>>
  BY <1>3, <1>5 DEF NewSession, FreshTracking, Put
<1>11. StoredOK(u)'
  <2>1. ReportsSent(u)' = {}
    BY <1>1, <1>2, RespondFacts DEF RunOK, StoredOK, StoredAt
  <2>2. ~(waiting'[u] /\ reply'[u] = "ok" /\ IsReport(next'[u]))
    <3>1. ~(waiting[u] /\ reply[u] = "ok" /\ IsReport(next[u]))
      BY <1>2 DEF RunOK, StoredOK, StoredAt
    <3>2. CASE Current(u, First)
      BY <1>1, <3>2, RespondFacts, ScriptFacts DEF Current, IsReport
    <3>3. CASE ~Current(u, First)
      BY <1>1, <3>1, <3>3, RespondFacts DEF Current
    <3> QED
      BY <3>2, <3>3
  <2>3. \A s \in SessionsOf(u)' : RowsOK(u, sessions[s].reports)'
    BY <1>6, <1>10 DEF RowsOK, Last
  <2> QED
    BY <2>1, <2>2, <2>3 DEF StoredOK, IsReport, Last
<1>12. CleanOK(u)'
  <2> SUFFICES ASSUME Clean(u)'
               PROVE  /\ \A q \in First .. Last : <<u, q>> \in requests' =>
                            q = next'[u] /\ waiting'[u]
                      /\ Done(u)' >= First => SessionsOf(u)' # {}
                      /\ \A s \in SessionsOf(u)' : CleanRow(u, s)'
    BY DEF Clean, CleanOK, First, Last
  <2>1. /\ AnswerTo(res) = "ok" /\ Done(u)' = First
        /\ \A q \in First .. Last : <<u, q>> \notin requests'
    BY <1>1, RespondFacts
  <2>2. res = "ok"
    BY <2>1 DEF AnswerTo
  <2>3. Count(Done(u))' = 0
    BY <2>1, ScriptFacts DEF Count, Last
  <2>4. CleanRow(u, new)'
    BY <1>10, <2>1, <2>2, <2>3, NoOutcomes, ScriptFacts DEF CleanRow, Last
  <2> QED
    BY <1>6, <2>1, <2>4
<1> QED
  BY <1>1, <1>7, <1>8, <1>9, <1>11, <1>12, RespondFacts DEF RunOK

LEMMA NoReopen ==
    ASSUME StreamingTypeOK, MapOwn, NEW u \in Uuids, RunOK(u), <<u, First>> \in requests
    PROVE  ~ReopenSession(u, NoSession)
<1>1. SessionsOf(u) = {}
  BY DEF RunOK, OpenOK, Spent
<1>2. Resolve(u, NoSession) = 0
  BY <1>1, NotMapped DEF Resolve, NoSession
<1> QED
  BY <1>2 DEF ReopenSession, StreamingTypeOK, TypeOK

\* An event that finds a session finds the one its run opened.
LEMMA OwnSession ==
    ASSUME StreamingTypeOK, MapOwn, NEW u \in Uuids, RunOK(u),
           Resolve(u, NoSession) \in DOMAIN sessions
    PROVE  /\ u \in DOMAIN session_uuid_map
           /\ SessionsOf(u) = {Resolve(u, NoSession)}
<1>1. u \in DOMAIN session_uuid_map
  BY DEF StreamingTypeOK, TypeOK, Resolve, NoSession
<1>2. Resolve(u, NoSession) \in SessionsOf(u)
  BY <1>1 DEF MapOwn, Resolve
<1> QED
  BY <1>1, <1>2 DEF RunOK, OpenOK

\* The rows with the report of event k, which was not over before.
LEMMA RowsAppend ==
    ASSUME StreamingTypeOK, NEW u \in Uuids, NEW k \in 3 .. Last - 1,
           NEW rows \in Seq(Report), RowsOK(u, rows),
           ~Spent(u, k), Spent(u, k)',
           \A q \in 3 .. Last - 1 : Spent(u, q) => Spent(u, q)',
           ReportsSent(u)' = ReportsSent(u), k \notin ReportsSent(u)
    PROVE  RowsOK(u, Append(rows, Script[k - 2]))'
<1> DEFINE x == Script[k - 2]
           more == Append(rows, x)
           n == Len(rows)
<1>1. /\ DOMAIN more = DOMAIN rows \cup {n + 1}
      /\ \A i \in DOMAIN rows : more[i] = rows[i] /\ i \in Nat /\ i < n + 1
      /\ more[n + 1] = x
  BY AppendValues
<1>2. \A i \in DOMAIN rows : rows[i] # x
  <2> SUFFICES ASSUME NEW i \in DOMAIN rows, rows[i] = x PROVE FALSE
    OBVIOUS
  <2>1. PICK q \in 3 .. Last - 1 : rows[i] = Script[q - 2] /\ Spent(u, q)
    BY DEF RowsOK
  <2> QED
    BY <2>1, ScriptFacts
<1> HIDE DEF more, n
<1>3. \A i \in DOMAIN more : \E q \in 3 .. Last - 1 : more[i] = Script[q - 2] /\ Spent(u, q)'
  BY <1>1 DEF RowsOK
<1>4. \A i, j \in DOMAIN more : more[i] = more[j] => i = j
  BY <1>1, <1>2 DEF RowsOK
<1>5. ASSUME NEW j \in ReportsSent(u), NEW q \in 3 .. Last - 1, NEW i \in DOMAIN more,
             NEW l \in DOMAIN more,
             j < q /\ more[i] = Script[j - 2] /\ more[l] = Script[q - 2]
      PROVE  i < l
  <2>1. CASE i \in DOMAIN rows /\ l \in DOMAIN rows
    BY <1>1, <1>5, <2>1 DEF RowsOK
  <2>2. CASE i = n + 1
    <3>1. j \in 3 .. Last - 1 /\ Script[j - 2] = Script[k - 2]
      BY <1>1, <1>5, <2>2 DEF ReportsSent, IsReport
    <3> QED
      BY <3>1, ScriptFacts
  <2>3. CASE i \in DOMAIN rows /\ l = n + 1
    BY <1>1, <2>3
  <2> QED
    BY <1>1, <2>1, <2>2, <2>3
<1> QED
  BY <1>3, <1>4, <1>5 DEF RowsOK, Last, more

\* A report: its row is stored, or, where the commit fails, only tracked.
LEMMA RunReport ==
    ASSUME StreamingTypeOK, MapOwn, NEW u \in Uuids, RunOK(u),
           NEW k \in 3 .. Last - 1, <<u, k>> \in requests, NEW res,
           TestReport(u, NoSession, Script[k - 2], res), Respond(u, k, AnswerTo(res))
    PROVE  /\ MapOwn'
           /\ \A v \in Uuids \ {u} : SamePlugin(v) /\ Kept(v)
           /\ RunOK(u)'
<1> DEFINE x == Script[k - 2]
<1>0. PICK s, rows, t, more :
         /\ s = Resolve(u, NoSession) /\ rows = sessions[s].reports
         /\ t = Tracked(s, x) /\ more = Append(rows, x)
  OBVIOUS
<1>1. /\ k \in First .. Last /\ AnswerTo(res) \in {"ok", "error"}
      /\ x \in Reports /\ x \in Report
  BY ScriptFacts, IngestAssumption DEF AnswerTo
<1>2. /\ s \in DOMAIN sessions /\ SessionsOf(u) = {s} /\ u \in DOMAIN session_uuid_map
      /\ active_sessions' = Put(active_sessions, s, t)
      /\ sessions' = IF res = "commit_fails" THEN sessions
                     ELSE Put(sessions, s, Stored(sessions[s], u, x, t))
      /\ UNCHANGED <<up, session_uuid_map, created>>
  BY <1>0, OwnSession DEF TestReport
<1>3. /\ sessions[s].owner = u /\ sessions[s] \in SessionRow
      /\ rows \in Seq(Report)
  BY <1>0, <1>2 DEF SessionsOf, StreamingTypeOK, TypeOK, SessionRow
<1>4. t.test_outcomes = UpdateTestOutcome(
           IF s \in DOMAIN active_sessions THEN active_sessions[s].test_outcomes ELSE <<>>, x)
  BY <1>0 DEF Tracked, FreshTracking
<1>5. res # "commit_fails" =>
         /\ sessions'[s].owner = u
         /\ sessions'[s].reports = more
         /\ sessions'[s].stats = CalculateSessionStats(t.test_outcomes)
  BY <1>0, <1>2, <1>3 DEF Put, Stored, SessionRow
<1>6. DOMAIN sessions' = DOMAIN sessions /\ \A z \in DOMAIN sessions \ {s} : sessions'[z] = sessions[z]
  BY <1>2 DEF Put
<1>7. \A v : SessionsOf(v)' = SessionsOf(v)
  BY <1>2, <1>3, <1>5, <1>6 DEF SessionsOf
<1>8. MapOwn'
  BY <1>2, <1>7 DEF MapOwn
<1>9. \A v \in Uuids \ {u} : Kept(v)
  BY <1>2, <1>3, <1>6, <1>7 DEF Kept, SessionsOf, Put
<1>10. CASE res = "commit_fails"
  <2>1. AnswerTo(res) = "error" /\ sessions' = sessions
    BY <1>2, <1>10 DEF AnswerTo
  <2>2. RunOK(u)'
    BY <1>1, <1>7, <2>1, RunAnswered
  <2> QED
    BY <1>1, <1>8, <1>9, <2>2, RespondFacts
<1>11. CASE res # "commit_fails"
  <2>1. /\ ~Spent(u, k) /\ Spent(u, k)'
        /\ \A q \in First .. Last : Spent(u, q) => Spent(u, q)'
        /\ ReportsSent(u)' = ReportsSent(u)
        /\ PostedOK(u)'
    BY <1>1, RespondFacts
  <2>2. RowsOK(u, rows) /\ \A q \in ReportsSent(u) : StoredAt(u, q)
    BY <1>0, <1>2 DEF RunOK, StoredOK
  <2>3. ~StoredAt(u, k)
    <3> SUFFICES ASSUME NEW i \in DOMAIN rows, rows[i] = x PROVE FALSE
      BY <1>0, <1>2 DEF StoredAt
    <3>1. PICK q \in 3 .. Last - 1 : rows[i] = Script[q - 2] /\ Spent(u, q)
      BY <2>2 DEF RowsOK
    <3> QED
      BY <2>1, <3>1, ScriptFacts
  <2>4. 3 .. Last - 1 \subseteq First .. Last
    BY ScriptFacts
  <2>5. RowsOK(u, more)'
    BY <1>0, <1>3, <2>1, <2>2, <2>3, <2>4, RowsAppend
  <2>6. /\ DOMAIN more = 1 .. Len(rows) + 1 /\ Len(rows) \in Nat
        /\ DOMAIN rows = 1 .. Len(rows)
        /\ \A i \in DOMAIN rows : more[i] = rows[i]
        /\ more[Len(rows) + 1] = x
        /\ Len(more) = Len(rows) + 1
    BY <1>0, <1>1, <1>3
  <2>7. StoredAt(u, k)' /\ \A q : StoredAt(u, q) => StoredAt(u, q)'
    <3>1. SessionsOf(u)' = {s} /\ sessions'[s].reports = more
      BY <1>2, <1>5, <1>7, <1>11
    <3>2. StoredAt(u, k)'
      BY <2>6, <3>1 DEF StoredAt
    <3>3. ASSUME NEW q, StoredAt(u, q) PROVE StoredAt(u, q)'
      <4>1. PICK i \in DOMAIN rows : rows[i] = Script[q - 2]
        BY <1>0, <1>2, <3>3 DEF StoredAt
      <4>2. i \in DOMAIN more /\ more[i] = rows[i]
        BY <2>6
      <4> QED
        BY <3>1, <4>1, <4>2 DEF StoredAt
    <3> QED
      BY <3>2, <3>3
  <2>8. OpenOK(u)'
    <3>1. Spent(u, First)
      BY <1>2 DEF RunOK, OpenOK
    <3> QED
      BY <1>7, <2>1, <3>1, ScriptFacts DEF RunOK, OpenOK, First
  <2>9. StoredOK(u)'
    <3>1. waiting'[u] /\ reply'[u] = "ok" /\ IsReport(next[u]) => StoredAt(u, next[u])'
      BY <1>1, <2>7, RespondFacts DEF RunOK, StoredOK, Current
    <3>2. \A z \in SessionsOf(u)' : RowsOK(u, sessions[z].reports)'
      BY <1>2, <1>5, <1>7, <1>11, <2>5 DEF RowsOK
    <3>3. next' = next
      BY <1>1, RespondFacts
    <3> QED
      BY <2>1, <2>2, <2>7, <3>1, <3>2, <3>3 DEF StoredOK, IsReport, Last
  <2>10. CleanOK(u)'
    <3> SUFFICES ASSUME Clean(u)'
                 PROVE  /\ \A q \in First .. Last : <<u, q>> \in requests' =>
                              q = next'[u] /\ waiting'[u]
                        /\ Done(u)' >= First => SessionsOf(u)' # {}
                        /\ \A z \in SessionsOf(u)' : CleanRow(u, z)'
      BY DEF Clean, CleanOK, First, Last
    <3>1. /\ Clean(u) /\ Done(u) = k - 1 /\ Done(u)' = k
          /\ \A q \in First .. Last : <<u, q>> \notin requests'
      BY <1>1, RespondFacts
    <3>2. CleanRow(u, s)
      BY <1>2, <3>1 DEF Clean, RunOK, CleanOK
    <3>3. Len(rows) = k - 3 /\ Count(k) = k - 2
      BY <1>0, <3>1, <3>2, ScriptFacts DEF CleanRow, Count
    <3>4. Count(Done(u))' = k - 2
      BY <3>1, <3>3 DEF Count, Last
    <3>5. t.test_outcomes = OutcomesOf(more)
      BY <1>0, <1>1, <1>2, <1>3, <1>4, <3>2, IncrementalOutcomes DEF CleanRow
    <3>6. Len(more) = k - 2 /\ \A i \in DOMAIN more : more[i] = Script[i]
      BY <1>0, <2>6, <3>2, <3>3 DEF CleanRow
    <3>7. s \in DOMAIN active_sessions' /\ active_sessions'[s] = t
      BY <1>2 DEF Put
    <3>8. ~(Done(u)' >= Last)
      BY <3>1, ScriptFacts
    <3>9. /\ sessions'[s].reports = more
          /\ sessions'[s].stats = CalculateSessionStats(OutcomesOf(more))
          /\ active_sessions'[s].test_outcomes = OutcomesOf(more)
      BY <1>5, <1>11, <3>5, <3>7
    <3>10. CleanRow(u, s)'
      BY <3>4, <3>6, <3>7, <3>8, <3>9 DEF CleanRow, Last
    <3> QED
      BY <1>2, <1>7, <3>1, <3>10
  <2> QED
    BY <1>1, <1>8, <1>9, <2>1, <2>8, <2>9, <2>10, RespondFacts DEF RunOK
<1> QED
  BY <1>10, <1>11

LEMMA RunFinish ==
    ASSUME StreamingTypeOK, MapOwn, NEW u \in Uuids, RunOK(u),
           <<u, Last>> \in requests, NEW res,
           SessionFinish(u, NoSession, res), Respond(u, Last, AnswerTo(res))
    PROVE  /\ MapOwn'
           /\ \A v \in Uuids \ {u} : SamePlugin(v) /\ Kept(v)
           /\ RunOK(u)'
<1>0. PICK s : s = Resolve(u, NoSession)
  OBVIOUS
<1>1. Last \in First .. Last /\ AnswerTo(res) \in {"ok", "error"}
  BY ScriptFacts DEF AnswerTo
<1>2. /\ s \in DOMAIN sessions /\ SessionsOf(u) = {s} /\ u \in DOMAIN session_uuid_map
      /\ active_sessions' = Drop(active_sessions, {s})
      /\ sessions' = IF res = "commit_fails" THEN sessions
                     ELSE [sessions EXCEPT ![s].status = "completed"]
      /\ session_uuid_map' = IF res = "ok" THEN Drop(session_uuid_map, {u})
                             ELSE session_uuid_map
      /\ up' = up
  BY <1>0, OwnSession DEF SessionFinish
<1>3. sessions[s].owner = u /\ sessions[s] \in SessionRow
  BY <1>2 DEF SessionsOf, StreamingTypeOK, TypeOK
<1>4. /\ DOMAIN sessions' = DOMAIN sessions
      /\ \A z \in DOMAIN sessions \ {s} : sessions'[z] = sessions[z]
      /\ sessions'[s].owner = u
      /\ sessions'[s].reports = sessions[s].reports
      /\ sessions'[s].stats = sessions[s].stats
      /\ res # "commit_fails" => sessions'[s].status = "completed"
  BY <1>2, <1>3 DEF SessionRow
<1>5. \A v : SessionsOf(v)' = SessionsOf(v)
  BY <1>3, <1>4 DEF SessionsOf
<1>6. MapOwn'
  BY <1>2, <1>5 DEF MapOwn, Drop
<1>7. \A v \in Uuids \ {u} : Kept(v)
  BY <1>2, <1>3, <1>4, <1>5 DEF Kept, SessionsOf, Drop
<1>8. AnswerTo(res) = "ok" => res = "ok"
  BY DEF AnswerTo
<1>9. res = "ok" => Kept(u)
  BY <1>2, <1>4, <1>5 DEF Kept, Drop
<1>10. Last # First /\ ~IsReport(Last)
  BY ScriptFacts DEF IsReport
<1>11. RunOK(u)'
  BY <1>1, <1>2, <1>4, <1>5, <1>8, <1>9, <1>10, RunAnswered
<1> QED
  BY <1>1, <1>6, <1>7, <1>11, RespondFacts

\* A refusal, or CollectReport, which changes nothing.
LEMMA RunUnchanged ==
    ASSUME StreamingTypeOK, MapOwn, NEW u \in Uuids, RunOK(u), NEW k \in First .. Last,
           <<u, k>> \in requests, NEW r \in {"ok", "error"}, r = "ok" => k = 2,
           UNCHANGED vars, Respond(u, k, r)
    PROVE  /\ MapOwn'
           /\ \A v \in Uuids \ {u} : SamePlugin(v) /\ Kept(v)
           /\ RunOK(u)'
<1>1. MapOwn'
  BY SameRows DEF MapOwn, vars
<1>2. \A v : Kept(v)
  BY KeptUnchanged
<1>3. r = "ok" => k # First /\ ~IsReport(k) /\ k # Last
  BY ScriptFacts DEF IsReport
<1>4. SessionsOf(u)' = SessionsOf(u) /\ sessions' = sessions
  BY SameRows DEF vars
<1>5. RunOK(u)'
  BY <1>2, <1>3, <1>4, RunAnswered
<1> QED
  BY <1>1, <1>2, <1>5, RespondFacts

LEMMA RunServed ==
    ASSUME StreamingInv, NEW u \in Uuids, NEW k \in First .. Last, Serve(u, k)
    PROVE  /\ MapOwn'
           /\ \A v \in Uuids \ {u} : SamePlugin(v) /\ Kept(v)
           /\ RunOK(u)'
<1>1. StreamingTypeOK /\ MapOwn /\ RunOK(u) /\ up /\ <<u, k>> \in requests
  BY DEF StreamingInv, Serve
<1>2. ASSUME NEW res \in CommitResults, Accept(u, k, res), Respond(u, k, AnswerTo(res))
      PROVE  /\ MapOwn'
             /\ \A v \in Uuids \ {u} : SamePlugin(v) /\ Kept(v)
             /\ RunOK(u)'
  <2>1. CASE k = First
    <3>1. OpenSession(u, NoSession, res)
      BY <1>1, <1>2, <2>1, NoReopen DEF Accept, SessionStart
    <3> QED
      BY <1>1, <1>2, <2>1, <3>1, RunOpen
  <2>2. CASE k = Last
    <3>1. SessionFinish(u, NoSession, res)
      BY <1>2, <2>2, ScriptFacts DEF Accept
    <3> QED
      BY <1>1, <1>2, <2>2, <3>1, RunFinish
  <2>3. CASE k # First /\ k # Last
    <3>1. k \in 3 .. Last - 1 /\ TestReport(u, NoSession, Script[k - 2], res)
      BY <1>2, <2>3 DEF Accept, IsReport
    <3> QED
      BY <1>1, <1>2, <3>1, RunReport
  <2> QED
    BY <2>1, <2>2, <2>3
<1>3. ASSUME NEW r \in {"ok", "error"}, r = "ok" => k = 2, UNCHANGED vars, Respond(u, k, r)
      PROVE  /\ MapOwn'
             /\ \A v \in Uuids \ {u} : SamePlugin(v) /\ Kept(v)
             /\ RunOK(u)'
  BY <1>1, <1>3, RunUnchanged
<1> QED
  BY <1>2, <1>3 DEF Serve, AnswerTo

-----------------------------------------------------------------------------
(* The invariant is inductive *)

LEMMA InvInit == StreamingInit => StreamingInv
<1> SUFFICES ASSUME StreamingInit PROVE StreamingInv
  OBVIOUS
<1>1. /\ up = TRUE /\ sessions = <<>> /\ session_uuid_map = <<>> /\ requests = {}
      /\ \A u \in Uuids : SessionsOf(u) = {} /\ next[u] = First /\ ~waiting[u]
                          /\ sent[u] = {} /\ failed[u] = {}
  BY DEF StreamingInit, Init, SessionsOf
<1>2. StreamingTypeOK
  <2>1. First \in First .. Last + 1
    BY ScriptFacts
  <2> QED
    BY <2>1, TypeInit DEF StreamingInit, StreamingTypeOK
<1>3. MapOwn
  BY <1>1 DEF MapOwn
<1>4. ASSUME NEW u \in Uuids PROVE RunOK(u)
  <2>1. PostedOK(u) /\ OpenOK(u) /\ StoredOK(u)
    BY <1>1 DEF PostedOK, OpenOK, StoredOK, ReportsSent
  <2>2. Done(u) = 0
    BY <1>1, ScriptFacts DEF Done
  <2> QED
    BY <1>1, <2>1, <2>2, ScriptFacts DEF RunOK, CleanOK
<1> QED
  BY <1>2, <1>3, <1>4 DEF StreamingInv

LEMMA TypeServe ==
    ASSUME StreamingTypeOK, NEW u \in Uuids, NEW k \in First .. Last, Serve(u, k)
    PROVE  StreamingTypeOK'
<1>1. TypeOK
  BY DEF StreamingTypeOK
<1>2. ASSUME NEW res \in CommitResults, Accept(u, k, res) PROVE TypeOK'
  <2>1. CASE k = First
    BY <1>1, <1>2, <2>1, TypeOpen, TypeReopen DEF Accept, SessionStart
  <2>2. CASE k = Last
    BY <1>1, <1>2, <2>2, TypeFinish, ScriptFacts DEF Accept
  <2>3. CASE k # First /\ k # Last
    <3>1. Script[k - 2] \in Reports /\ TestReport(u, NoSession, Script[k - 2], res)
      BY <1>2, <2>3, ScriptFacts DEF Accept, IsReport
    <3> QED
      BY <1>1, <3>1, TypeReport
  <2> QED
    BY <2>1, <2>2, <2>3
<1>3. UNCHANGED vars => TypeOK'
  BY <1>1 DEF vars, TypeOK
<1>4. TypeOK'
  BY <1>2, <1>3 DEF Serve
<1>5. PICK r \in {"ok", "error"} : Respond(u, k, r)
  BY DEF Serve
<1>6. requests' \subseteq requests /\ reply' \in [Uuids -> {"ok", "error", None}] /\ UNCHANGED plugin
  BY <1>5 DEF Respond, StreamingTypeOK
<1> QED
  BY <1>4, <1>6 DEF StreamingTypeOK, plugin

\* The plugins and the network do what they did, with the server stopped or started.
LEMMA RunsRestart ==
    ASSUME StreamingInv, Stop \/ Startup, UNCHANGED <<plugin, network>>
    PROVE  MapOwn' /\ \A u \in Uuids : SamePlugin(u) /\ Kept(u)
<1>1. StreamingTypeOK /\ MapOwn
  BY DEF StreamingInv
<1>2. \A u \in Uuids : SamePlugin(u)
  BY DEF SamePlugin, plugin, network
<1>3. CASE Stop
  BY <1>2, <1>3 DEF Stop, MapOwn, Kept, SessionsOf
<1>4. CASE Startup
  <2>1. /\ DOMAIN sessions' = DOMAIN sessions
        /\ \A s \in DOMAIN sessions : /\ sessions'[s].owner = sessions[s].owner
                                      /\ sessions'[s].reports = sessions[s].reports
                                      /\ sessions'[s].stats = sessions[s].stats
                                      /\ sessions[s].status = "completed" =>
                                            sessions'[s].status = "completed"
    BY <1>1, <1>4 DEF Startup, StreamingTypeOK, TypeOK, SessionRow
  <2>2. DOMAIN session_uuid_map = {} /\ session_uuid_map' = session_uuid_map
    BY <1>1, <1>4 DEF Startup, MapOwn
  <2>3. \A u : SessionsOf(u)' = SessionsOf(u)
    BY <2>1 DEF SessionsOf
  <2>4. \A u : Kept(u)
    BY <2>1, <2>2, <2>3 DEF Kept, SessionsOf
  <2> QED
    BY <1>2, <2>2, <2>4 DEF MapOwn
<1> QED
  BY <1>3, <1>4

LEMMA TypeRestart ==
    ASSUME StreamingTypeOK, Stop \/ Startup, UNCHANGED <<plugin, network>>
    PROVE  StreamingTypeOK'
<1>1. Stop => TypeOK'
  <2> SUFFICES ASSUME Stop PROVE TypeOK'
    OBVIOUS
  <2>1. DOMAIN active_sessions' = {} /\ DOMAIN session_uuid_map' = {}
    BY DEF Stop
  <2> QED
    BY <2>1 DEF Stop, StreamingTypeOK, TypeOK
<1>2. Startup => TypeOK'
  BY TypeStartup DEF StreamingTypeOK
<1> QED
  BY <1>1, <1>2 DEF StreamingTypeOK, plugin, network

\* A step of the plugin of u leaves the other runs and the server alone.
LEMMA OthersSame ==
    ASSUME StreamingTypeOK, MapOwn, NEW u \in Uuids, RunOK(u),
           Post(u) \/ Answer(u) \/ GiveUp(u)
    PROVE  /\ StreamingTypeOK' /\ MapOwn'
           /\ \A v \in Uuids \ {u} : SamePlugin(v) /\ Kept(v)
<1>1. UNCHANGED vars
  BY DEF Post, Answer, GiveUp
<1>2. MapOwn' /\ \A v : Kept(v)
  BY <1>1, SameRows, KeptUnchanged DEF MapOwn, vars
<1>3. TypeOK'
  BY <1>1 DEF StreamingTypeOK, TypeOK, vars
<1>4. CASE Post(u)
  <2>1. next[u] \in First .. Last
    BY <1>4, PluginTypes DEF Post
  <2>2. <<u, next[u]>> \in Uuids \X (First .. Last)
    BY <2>1
  <2>3. StreamingTypeOK'
    BY <1>3, <1>4, <2>2 DEF StreamingTypeOK, Post
  <2>4. \A v \in Uuids \ {u} : SamePlugin(v)
    BY <1>4 DEF Post, SamePlugin, StreamingTypeOK
  <2> QED
    BY <1>2, <2>3, <2>4
<1>5. CASE UNCHANGED network /\ (Succeed(u) \/ Fail(u)) /\ next[u] <= Last
  <2>1. next[u] \in First .. Last /\ next[u] + 1 \in First .. Last + 1 /\ Last \in First .. Last + 1
    BY <1>5, PluginTypes, ScriptFacts
  <2>2. StreamingTypeOK'
    <3>1. CASE Succeed(u)
      BY <1>3, <1>5, <2>1, <3>1 DEF StreamingTypeOK, network, Succeed
    <3>2. CASE Fail(u)
      <4>1. PICK n \in First .. Last + 1 : next' = [next EXCEPT ![u] = n]
        BY <2>1, <3>2 DEF Fail
      <4>2. PICK b \in BOOLEAN : interrupted' = [interrupted EXCEPT ![u] = @ \/ b]
        BY <3>2 DEF Fail
      <4>3. interrupted' \in [Uuids -> BOOLEAN]
        BY <4>2 DEF StreamingTypeOK
      <4>4. failed' \in [Uuids -> SUBSET (First .. Last)]
        BY <2>1, <3>2 DEF StreamingTypeOK, Fail
      <4>5. waiting' \in [Uuids -> BOOLEAN] /\ next' \in [Uuids -> First .. Last + 1]
        BY <3>2, <4>1 DEF StreamingTypeOK, Fail
      <4>6. UNCHANGED <<strict, sent, requests, reply>>
        BY <1>5, <3>2 DEF network, Fail
      <4> QED
        BY <1>3, <4>3, <4>4, <4>5, <4>6 DEF StreamingTypeOK
    <3> QED
      BY <1>5, <3>1, <3>2
  <2>3. \A v \in Uuids \ {u} : SamePlugin(v)
    BY <1>5 DEF Succeed, Fail, network, SamePlugin, StreamingTypeOK
  <2> QED
    BY <1>2, <2>2, <2>3
<1>6. CASE Answer(u) \/ GiveUp(u)
  <2>1. next[u] <= Last
    BY <1>6 DEF Answer, GiveUp, RunOK, PostedOK
  <2>2. UNCHANGED network /\ (Succeed(u) \/ Fail(u))
    BY <1>6 DEF Answer, GiveUp, network
  <2> QED
    BY <1>5, <2>1, <2>2
<1> QED
  BY <1>4, <1>6

LEMMA InvNext == StreamingInv /\ [StreamingNext]_allVars => StreamingInv'
<1> SUFFICES ASSUME StreamingInv, [StreamingNext]_allVars PROVE StreamingInv'
  OBVIOUS
<1>1. StreamingTypeOK /\ MapOwn /\ \A u \in Uuids : RunOK(u)
  BY DEF StreamingInv
<1>2. ASSUME NEW u \in Uuids, Post(u) \/ Answer(u) \/ GiveUp(u) PROVE StreamingInv'
  <2>1. /\ StreamingTypeOK' /\ MapOwn'
        /\ \A v \in Uuids \ {u} : SamePlugin(v) /\ Kept(v)
    BY <1>1, <1>2, OthersSame
  <2>2. \A v \in Uuids \ {u} : RunOK(v)'
    BY <1>1, <2>1, Unaffected
  <2>3. RunOK(u)'
    <3>1. CASE Post(u)
      BY <1>1, <3>1, RunPost
    <3>2. CASE Answer(u)
      <4>1. CASE reply[u] = "ok"
        BY <1>1, <3>2, <4>1, RunSucceed DEF Answer
      <4>2. CASE reply[u] # "ok"
        BY <1>1, <3>2, <4>2, RunFail DEF Answer
      <4> QED
        BY <4>1, <4>2
    <3>3. CASE GiveUp(u)
      BY <1>1, <3>3, RunFail DEF GiveUp
    <3> QED
      BY <1>2, <3>1, <3>2, <3>3
  <2> QED
    BY <2>1, <2>2, <2>3 DEF StreamingInv
<1>3. ASSUME NEW u \in Uuids, NEW k \in First .. Last, Serve(u, k) PROVE StreamingInv'
  <2>1. StreamingTypeOK'
    BY <1>1, <1>3, TypeServe
  <2>2. /\ MapOwn' /\ RunOK(u)'
        /\ \A v \in Uuids \ {u} : SamePlugin(v) /\ Kept(v)
    BY <1>3, RunServed
  <2>3. \A v \in Uuids \ {u} : RunOK(v)'
    BY <1>1, <2>2, Unaffected
  <2> QED
    BY <2>1, <2>2, <2>3 DEF StreamingInv
<1>4. ASSUME NEW u \in Uuids, NEW k \in First .. Last, Lose(u, k) PROVE StreamingInv'
  <2>1. UNCHANGED vars /\ requests' \subseteq requests /\ UNCHANGED <<plugin, reply>>
    BY <1>4 DEF Lose
  <2>2. \A v : SamePlugin(v) /\ Kept(v)
    BY <2>1, KeptUnchanged DEF SamePlugin, plugin
  <2>3. \A v \in Uuids : RunOK(v)'
    BY <1>1, <2>2, Unaffected
  <2>4. StreamingTypeOK' /\ MapOwn'
    BY <1>1, <2>1, SameRows DEF StreamingTypeOK, TypeOK, MapOwn, vars, plugin
  <2> QED
    BY <2>3, <2>4 DEF StreamingInv
<1>5. CASE (Stop \/ Startup) /\ UNCHANGED <<plugin, network>>
  <2>1. StreamingTypeOK'
    BY <1>1, <1>5, TypeRestart
  <2>2. MapOwn' /\ \A u \in Uuids : SamePlugin(u) /\ Kept(u)
    BY <1>5, RunsRestart
  <2>3. \A u \in Uuids : RunOK(u)'
    BY <1>1, <2>2, Unaffected
  <2> QED
    BY <2>1, <2>2, <2>3 DEF StreamingInv
<1>6. CASE UNCHANGED allVars
  <2>1. UNCHANGED vars /\ UNCHANGED <<plugin, network>>
    BY <1>6 DEF allVars
  <2>2. \A v : SamePlugin(v) /\ Kept(v)
    BY <2>1, KeptUnchanged DEF SamePlugin, plugin, network
  <2>3. \A v \in Uuids : RunOK(v)'
    BY <1>1, <2>2, Unaffected
  <2>4. StreamingTypeOK' /\ MapOwn'
    BY <1>1, <2>1, SameRows DEF StreamingTypeOK, TypeOK, MapOwn, vars, plugin, network
  <2> QED
    BY <2>3, <2>4 DEF StreamingInv
<1> QED
  BY <1>2, <1>3, <1>4, <1>5, <1>6 DEF StreamingNext

THEOREM StreamingInvariant == StreamingSpec => []StreamingInv
BY InvInit, InvNext, PTL DEF StreamingSpec

-----------------------------------------------------------------------------
(* What the plugin promises *)

\* Plugin, network and server keep their types: no run skips past its end, and
\* nothing is on its way but the events of runs.
THEOREM StreamingTypeCorrect == StreamingSpec => []StreamingTypeOK
<1>1. StreamingInv => StreamingTypeOK
  BY DEF StreamingInv
<1> QED
  BY <1>1, StreamingInvariant, PTL

\* Every report a run counts as streamed (_sent, plugin.py) is in the database,
\* once and in the order of the run, whatever was lost, answered late, refused or
\* not committed around it, and however often the server restarted.
THEOREM SentReportsStored == StreamingSpec => []SentReportsAreStored
<1>1. StreamingInv => SentReportsAreStored
  <2> SUFFICES ASSUME StreamingInv, NEW u \in Uuids, ReportsSent(u) # {}
               PROVE  \E s \in SessionsOf(u) :
                        LET rows == sessions[s].reports
                        IN  /\ \A k \in ReportsSent(u) : \E i \in DOMAIN rows :
                                 \A j \in DOMAIN rows : rows[j] = Script[k - 2] <=> j = i
                            /\ \A j, k \in ReportsSent(u), i, l \in DOMAIN rows :
                                  j < k /\ rows[i] = Script[j - 2] /\ rows[l] = Script[k - 2]
                                    => i < l
    BY DEF SentReportsAreStored
  <2>1. OpenOK(u) /\ StoredOK(u)
    BY DEF StreamingInv, RunOK
  <2>2. PICK s \in SessionsOf(u) : TRUE
    BY <2>1 DEF StoredOK, StoredAt
  <2>3. PICK rows : rows = sessions[s].reports
    OBVIOUS
  <2>4. RowsOK(u, rows)
    BY <2>1, <2>3 DEF StoredOK
  <2>5. ASSUME NEW k \in ReportsSent(u)
        PROVE  \E i \in DOMAIN rows : \A j \in DOMAIN rows : rows[j] = Script[k - 2] <=> j = i
    <3>1. PICK i \in DOMAIN rows : rows[i] = Script[k - 2]
      BY <2>1, <2>3 DEF StoredOK, StoredAt, OpenOK
    <3> QED
      BY <2>4, <3>1 DEF RowsOK
  <2>6. \A j, k \in ReportsSent(u), i, l \in DOMAIN rows :
           j < k /\ rows[i] = Script[j - 2] /\ rows[l] = Script[k - 2] => i < l
    BY <2>4 DEF RowsOK, ReportsSent, IsReport
  <2> QED
    BY <2>3, <2>5, <2>6
<1> QED
  BY <1>1, StreamingInvariant, PTL

\* A run opens at most one session, though its SessionStart may be answered late or
\* not at all and the server may restart at any time.
THEOREM OneSession == StreamingSpec => []OneSessionPerRun
<1>1. StreamingInv => OneSessionPerRun
  <2> SUFFICES ASSUME StreamingInv, NEW u \in Uuids PROVE Cardinality(SessionsOf(u)) <= 1
    BY DEF OneSessionPerRun
  <2>1. \A s, t \in SessionsOf(u) : s = t
    BY DEF StreamingInv, RunOK, OpenOK
  <2>2. CASE SessionsOf(u) = {}
    BY <2>2, FS_EmptySet
  <2>3. CASE SessionsOf(u) # {}
    <3>1. PICK s : SessionsOf(u) = {s}
      BY <2>1, <2>3
    <3>2. Cardinality(SessionsOf(u)) = 1
      BY <3>1, FS_Singleton
    <3> QED
      BY <3>2
  <2> QED
    BY <2>2, <2>3
<1> QED
  BY <1>1, StreamingInvariant, PTL

\* A run that ends without a failed event is recorded completely: one completed
\* session with all its reports, and the counters of exactly those.
THEOREM CleanRunsRecorded == StreamingSpec => []CleanRunsAreRecorded
<1>1. StreamingInv => CleanRunsAreRecorded
  <2> SUFFICES ASSUME StreamingInv, NEW u \in Uuids, next[u] > Last, failed[u] = {}
               PROVE  \E s \in SessionsOf(u) :
                         /\ sessions[s].status = "completed"
                         /\ sessions[s].reports = Script
                         /\ sessions[s].stats = CalculateSessionStats(OutcomesOf(Script))
    BY DEF CleanRunsAreRecorded
  <2>1. StreamingTypeOK /\ PostedOK(u) /\ CleanOK(u) /\ next[u] \in Nat
    BY PluginTypes DEF StreamingInv, RunOK
  <2>2. ~waiting[u] /\ Done(u) >= Last /\ Done(u) >= 3
    BY <2>1, ScriptFacts DEF PostedOK, Done
  <2>3. PICK s \in SessionsOf(u) : CleanRow(u, s)
    <3>1. Done(u) \in Nat /\ Done(u) >= First
      BY <2>1, <2>2, ScriptFacts DEF Done
    <3>2. SessionsOf(u) # {} /\ \A s \in SessionsOf(u) : CleanRow(u, s)
      BY <2>1, <2>2, <3>1 DEF CleanOK
    <3> QED
      BY <3>2
  <2>4. Count(Done(u)) = Len(Script)
    BY <2>2, ScriptFacts, <2>1 DEF Count, Done
  <2>5. sessions[s].reports \in Seq(Report)
    BY <2>1 DEF StreamingTypeOK, TypeOK, SessionRow, SessionsOf
  <2>6. sessions[s].reports = Script
    <3>1. Len(sessions[s].reports) = Len(Script)
      BY <2>3, <2>4 DEF CleanRow
    <3>2. \A i \in 1 .. Len(Script) : sessions[s].reports[i] = Script[i]
      BY <2>3, <2>5, <3>1 DEF CleanRow
    <3> QED
      BY <2>5, <3>1, <3>2, StreamingAssumption
  <2> QED
    BY <2>2, <2>3, <2>6 DEF CleanRow
<1> QED
  BY <1>1, StreamingInvariant, PTL
=============================================================================
