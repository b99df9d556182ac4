----------------------------- MODULE Streaming -----------------------------
(***************************************************************************)
(* The plugin (plugin.py) streaming runs into the server of Ingest.        *)
(*                                                                         *)
(* A run posts its events one after the other, each in a request and on a  *)
(* connection of its own, and goes on when it has an answer or gives up.   *)
(* A request that was given up may still arrive, after later ones; no      *)
(* event is sent twice.  pytest (which hooks run, in which order) and      *)
(* urllib (when urlopen returns or raises) are external.                   *)
(***************************************************************************)
EXTENDS Ingest, Functions

CONSTANTS
    Script   \* the reports of every run, in order

ASSUME StreamingAssumption ==
    /\ Script \in Seq(Reports)
    /\ \A i, j \in DOMAIN Script : Script[i] = Script[j] => i = j
    /\ None \notin Uuids \cup {"ok", "error"}

\* The events of a run: SessionStart, CollectReport, the reports, SessionFinish.
First == 1
Last == Len(Script) + 3
IsReport(k) == k \in 3 .. Last - 1

VARIABLES
    strict,       \* the run turns warnings into errors (-W error, filterwarnings)
    next,         \* the event a run posts next, or is posting; Last + 1 at its end
    waiting,      \* the run is in urlopen
    requests,     \* requests on their way: pairs of a run and an event
    reply,        \* the response to the current request, None if there is none yet
    sent,         \* the events counted in _sent
    failed,       \* the events counted in _failed
    interrupted   \* an exception has left a hook

plugin == <<strict, next, waiting, sent, failed, interrupted>>
network == <<requests, reply>>
allVars == <<vars, plugin, network>>

StreamingInit ==
    /\ Init
    /\ strict \in [Uuids -> BOOLEAN]
    /\ next = [u \in Uuids |-> First]
    /\ waiting = [u \in Uuids |-> FALSE]
    /\ requests = {}
    /\ reply = [u \in Uuids |-> None]
    /\ sent = [u \in Uuids |-> {}]
    /\ failed = [u \in Uuids |-> {}]
    /\ interrupted = [u \in Uuids |-> FALSE]

-----------------------------------------------------------------------------
(* The run *)

Post(u) ==
    /\ next[u] <= Last /\ ~waiting[u]
    /\ waiting' = [waiting EXCEPT ![u] = TRUE]
    /\ requests' = requests \cup {<<u, next[u]>>}
    /\ reply' = [reply EXCEPT ![u] = None]
    /\ UNCHANGED <<vars, strict, next, sent, failed, interrupted>>

\* urlopen has returned.
Succeed(u) ==
    /\ sent' = [sent EXCEPT ![u] = @ \cup {next[u]}]
    /\ next' = [next EXCEPT ![u] = @ + 1]
    /\ waiting' = [waiting EXCEPT ![u] = FALSE]
    /\ UNCHANGED <<strict, failed, interrupted>>

\* Faulty variant: an event is skipped after a failure.
FailSkipping(u) ==
    /\ failed' = [failed EXCEPT ![u] = @ \cup {next[u]}]
    /\ next' = [next EXCEPT ![u] = @ + 2]
    /\ waiting' = [waiting EXCEPT ![u] = FALSE]
    /\ UNCHANGED <<strict, sent, interrupted>>

\* urlopen has raised.  The first failure warns; where pytest turns warnings
\* into errors, which is not around pytest_sessionstart, that leaves the hook:
\* an internal error, after which pytest calls pytest_sessionfinish.
Fail(u) ==
    LET raises == strict[u] /\ failed[u] = {} /\ next[u] # First
    IN  /\ failed' = [failed EXCEPT ![u] = @ \cup {next[u]}]
        /\ interrupted' = [interrupted EXCEPT ![u] = @ \/ raises]
        /\ next' = [next EXCEPT ![u] = IF raises /\ @ # Last THEN Last ELSE @ + 1]
        /\ waiting' = [waiting EXCEPT ![u] = FALSE]
        /\ UNCHANGED <<strict, sent>>

\* Faulty variant: any answer counts as success.
AnswerAny(u) ==
    /\ waiting[u] /\ reply[u] # None
    /\ Succeed(u)
    /\ UNCHANGED <<vars, network>>

\* A response: 200, or an HTTPError for 400 and 500.
Answer(u) ==
    /\ waiting[u] /\ reply[u] # None
    /\ IF reply[u] = "ok" THEN Succeed(u) ELSE Fail(u)
    /\ UNCHANGED <<vars, network>>

\* Faulty variants: only a request known to be lost is given up; one given up
\* is sent once more.
GiveUpLost(u) ==
    /\ waiting[u] /\ reply[u] = None /\ <<u, next[u]>> \notin requests /\ ~up
    /\ Fail(u)
    /\ UNCHANGED <<vars, network>>
GiveUpRetrying(u) ==
    /\ waiting[u]
    /\ requests' = requests \cup {<<u, next[u]>>}
    /\ reply' = [reply EXCEPT ![u] = None]
    /\ UNCHANGED <<vars, plugin>>

\* The timeout, or a connection refused or reset: possible whatever has become
\* of the request.
GiveUp(u) ==
    /\ waiting[u]
    /\ Fail(u)
    /\ UNCHANGED <<vars, network>>

-----------------------------------------------------------------------------
(* The server and the network *)

\* What Ingest does with event k of u; result is that of its commit.
Accept(u, k, result) ==
    IF k = First THEN SessionStart(u, NoSession, result)
    ELSE IF k = Last THEN SessionFinish(u, NoSession, result)
    ELSE /\ IsReport(k)
         /\ TestReport(u, NoSession, Script[k - 2], result)

\* CollectReport: success without a session, or with one that exists.
AcceptsCollect(u) ==
    LET s == Resolve(u, NoSession) IN s = NoSession \/ s \in DOMAIN sessions

\* ValueError: the event needs a session and has none.
Refuses(u, k) ==
    LET s == Resolve(u, NoSession)
    IN  CASE k = First -> s # NoSession /\ s \notin DOMAIN sessions
          [] k = 2     -> ~AcceptsCollect(u)
          [] OTHER     -> s \notin DOMAIN sessions

\* The response is for the request the run is waiting for, if it still is.
Respond(u, k, r) ==
    /\ requests' = requests \ {<<u, k>>}
    /\ reply' = IF waiting[u] /\ next[u] = k THEN [reply EXCEPT ![u] = r] ELSE reply
    /\ UNCHANGED plugin

\* stream_event
Serve(u, k) ==
    /\ up /\ <<u, k>> \in requests
    /\ \/ \E result \in CommitResults :
             /\ Accept(u, k, result)
             /\ Respond(u, k, IF result = "ok" THEN "ok" ELSE "error")
       \/ /\ k = 2 /\ AcceptsCollect(u)
          /\ Respond(u, k, "ok")
          /\ UNCHANGED vars
       \/ /\ Refuses(u, k)
          /\ Respond(u, k, "error")
          /\ UNCHANGED vars

\* A request is lost, as it is while the server is down.
Lose(u, k) ==
    /\ <<u, k>> \in requests
    /\ requests' = requests \ {<<u, k>>}
    /\ UNCHANGED <<vars, plugin, reply>>

StreamingNext ==
    \/ \E u \in Uuids : Post(u) \/ Answer(u) \/ GiveUp(u)
    \/ \E u \in Uuids, k \in First .. Last : Serve(u, k) \/ Lose(u, k)
    \/ (Stop \/ Startup) /\ UNCHANGED <<plugin, network>>

StreamingSpec == StreamingInit /\ [][StreamingNext]_allVars

\* pytest goes on, and urlopen ends at its timeout; nothing is assumed of the
\* server or the network.
FailSoftSpec ==
    /\ StreamingSpec
    /\ \A u \in Uuids : WF_allVars(Post(u)) /\ WF_allVars(GiveUp(u))

-----------------------------------------------------------------------------
(* Properties *)

StreamingTypeOK ==
    /\ TypeOK
    /\ strict \in [Uuids -> BOOLEAN]
    /\ next \in [Uuids -> First .. Last + 1]
    /\ waiting \in [Uuids -> BOOLEAN]
    /\ requests \subseteq Uuids \X (First .. Last)
    /\ reply \in [Uuids -> {"ok", "error", None}]
    /\ sent \in [Uuids -> SUBSET (First .. Last)]
    /\ failed \in [Uuids -> SUBSET (First .. Last)]
    /\ interrupted \in [Uuids -> BOOLEAN]

SessionsOf(u) == {s \in DOMAIN sessions : sessions[s].owner = u}

\* The report events of a run that its summary line counts as streamed.
ReportsSent(u) == {k \in sent[u] : IsReport(k)}

\* Every report the summary line counts as streamed is in the database, exactly
\* once and in the order of the run, whatever was lost, timed out or arrived
\* late around it, and over any number of restarts.
SentReportsAreStored ==
    \A u \in Uuids : ReportsSent(u) # {} =>
        \E s \in SessionsOf(u) :
            LET rows == sessions[s].reports
            IN  /\ \A k \in ReportsSent(u) :
                      \E i \in DOMAIN rows : \A j \in DOMAIN rows : rows[j] = Script[k - 2] <=> j = i
                /\ \A j, k \in ReportsSent(u), i, l \in DOMAIN rows :
                      j < k /\ rows[i] = Script[j - 2] /\ rows[l] = Script[k - 2] => i < l

\* A run never opens two sessions: no SessionStart is processed twice.
OneSessionPerRun == \A u \in Uuids : Cardinality(SessionsOf(u)) <= 1

\* A run that ends without a failed event is completely and correctly recorded:
\* one completed session with all its reports and their counters.
CleanRunsAreRecorded ==
    \A u \in Uuids :
        next[u] > Last /\ failed[u] = {} =>
            \E s \in SessionsOf(u) :
                /\ sessions[s].status = "completed"
                /\ sessions[s].reports = Script
                /\ sessions[s].stats = CalculateSessionStats(OutcomesOf(Script))

\* "the run is never interrupted" (plugin README) in that it always ends, even
\* if the viewer accepts every connection and never answers.
RunsEnd == \A u \in Uuids : <>(next[u] > Last)

-----------------------------------------------------------------------------
(* Statements of the repository that the code does not keep *)

\* "POST one event; never raise (fail-soft)" (plugin.py): no exception leaves a
\* hook because of the viewer.
NeverRaises == \A u \in Uuids : ~interrupted[u]

\* "failed to stream events ...; results will not be recorded" (plugin.py): a
\* report counted as failed is not in the database.
FailedAreNotRecorded ==
    \A u \in Uuids : \A k \in {e \in failed[u] : IsReport(e)}, s \in SessionsOf(u) :
        Script[k - 2] \notin Range(sessions[s].reports)
=============================================================================
