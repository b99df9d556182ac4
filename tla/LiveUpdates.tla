---------------------------- MODULE LiveUpdates ----------------------------
(***************************************************************************)
(* Live updates: services/broadcaster.py, the SSE endpoint of              *)
(* routes/streaming.py and the page that consumes it (session.html).       *)
(*                                                                         *)
(* A page is rendered by one request, subscribes by a second one and       *)
(* fetches the table of its entries by others; events are processed in     *)
(* between, commits fail, sessions are deleted and their ids used again.   *)
(* A session is reduced to what pages show of it: its status, the number   *)
(* of tests counted and the number of reports stored.  The 'initial'       *)
(* message, which pages ignore, is left out.                               *)
(***************************************************************************)
EXTENDS Naturals, Sequences, FiniteSets

CONSTANTS Pages,          \* browser tabs
          Sessions,       \* ids of sessions
          Running,        \* sessions that are in progress at first, with two reports
          CommitResults,  \* what becomes of a commit: "ok", "commit_fails", "refresh_fails"
          None,
          Deletable,      \* bound: sessions that are deleted
          MaxFaults,      \* bound: kinds of failure per session, a deletion is one
          MaxReports,     \* bound: reports stored per session; one more may be counted
          MaxMessages     \* bound: messages published per session

ASSUME LiveAssumption ==
    /\ Sessions \subseteq Nat /\ Running \subseteq Sessions /\ Deletable \subseteq Sessions
    /\ CommitResults \subseteq {"ok", "commit_fails", "refresh_fails"}
    /\ MaxFaults \in Nat /\ MaxReports \in Nat /\ MaxMessages \in Nat /\ None \notin Nat

VARIABLES
    session,    \* the rows of the sessions: status, total_tests, reports stored for it
    tracked,    \* active_sessions: the tests counted in memory, 0 if there are none
    runs,       \* session_uuid_map: how many uuids are mapped to each id
    faults,     \* what failed for each id: a report, a finish; or it was deleted (history)
    published,  \* the messages broadcast for each id since, oldest first (history)
    channels,   \* broadcaster.channels: session -> the pages whose queue is in it
    queue,      \* the asyncio.Queue of each page's stream
    generator,  \* event_generator of each page: none, requested, running, or left in a
                \* process that is shutting down
    wire,       \* messages sent to each page and not yet handled by it
    seen,       \* how many of the published messages precede the wire (history)
    page,       \* what each tab shows
    fetch       \* the htmx request for the test entries of each page

server == <<session, tracked, runs, faults, published>>
stream == <<channels, queue, generator>>
client == <<wire, seen, page, fetch>>
vars == <<server, stream, client>>

Row == [status : {"absent", "in_progress", "completed", "interrupted"},
        total : Nat, reports : Nat]

\* Pages handle every message but the finish alike.
Message == [type : {"update", "session_finish"}, total : Nat]

\* closed; live: shown as in progress and listening; cut: shown as in progress
\* without a stream; reloading: the finish arrived; final: shown as ended.
PageState == {"closed", "live", "cut", "reloading", "final"}
Page == [state : PageState, session : Sessions \cup {None}, total : Nat, entries : Nat]

\* htmx has one request in flight at most and remembers one more trigger.
NoFetch == [asked |-> FALSE, again |-> FALSE, reply |-> None]

NoPage == [state |-> "closed", session |-> None, total |-> 0, entries |-> 0]

NoRow == [status |-> "absent", total |-> 0, reports |-> 0]
NewRow == [status |-> "in_progress", total |-> 0, reports |-> 0]

Init ==
    /\ session = [s \in Sessions |-> IF s \in Running
                                     THEN [NewRow EXCEPT !.total = 2, !.reports = 2]
                                     ELSE NoRow]
    /\ tracked = [s \in Sessions |-> IF s \in Running THEN 2 ELSE 0]
    /\ runs = [s \in Sessions |-> IF s \in Running THEN 1 ELSE 0]
    /\ faults = [s \in Sessions |-> {}]
    /\ published = [s \in Sessions |-> <<>>]
    /\ channels = <<>>
    /\ queue = [p \in Pages |-> <<>>]
    /\ generator = [p \in Pages |-> "none"]
    /\ wire = [p \in Pages |-> <<>>]
    /\ seen = [p \in Pages |-> 0]
    /\ page = [p \in Pages |-> NoPage]
    /\ fetch = [p \in Pages |-> NoFetch]

-----------------------------------------------------------------------------
(* The broadcaster *)

Subscribers(s) == IF s \in DOMAIN channels THEN channels[s] ELSE {}

\* The channels once Q are the subscribers of s: a channel without any is removed.
WithSubscribers(s, Q) ==
    [x \in {y \in DOMAIN channels \cup {s} : y # s \/ Q # {}} |->
        IF x = s THEN Q ELSE channels[x]]

\* Faulty variant: the channel stays behind, empty.
UnsubscribeKeepingChannel(p) ==
    channels' = [s \in DOMAIN channels |->
                    IF s = page[p].session THEN channels[s] \ {p} ELSE channels[s]]

\* A generator that was left in an old process has nothing to do with channels.
Unsubscribe(p) ==
    channels' = IF generator[p] = "left" THEN channels
                ELSE WithSubscribers(page[p].session, Subscribers(page[p].session) \ {p})

\* Faulty variant: the newest message first.
BroadcastNewestFirst(s, m) ==
    /\ published' = [published EXCEPT ![s] = Append(@, m)]
    /\ queue' = [p \in Pages |-> IF p \in Subscribers(s) THEN <<m>> \o queue[p]
                                 ELSE queue[p]]

\* The queues are unbounded, put never waits and never fails: one step, and the
\* clean-up of dead queues is not reached.
Broadcast(s, m) ==
    /\ published' = [published EXCEPT ![s] = Append(@, m)]
    /\ queue' = [p \in Pages |-> IF p \in Subscribers(s) THEN Append(queue[p], m)
                                 ELSE queue[p]]

-----------------------------------------------------------------------------
(* Events of a run: process_event, and the broadcast if it did not fail *)

Present(s) == session[s].status # "absent"

\* A commit that fails leaves the row as it was; a refresh that fails comes after it.
Store(s, row, result) ==
    session' = IF result = "commit_fails" THEN session ELSE [session EXCEPT ![s] = row]

\* stream_event: after an exception, nothing is broadcast.
Tell(s, type, result) ==
    IF result = "ok"
    THEN /\ Len(published[s]) < MaxMessages
         /\ Broadcast(s, [type |-> type, total |-> session'[s].total])
    ELSE UNCHANGED <<published, queue>>

Blame(s, kind) ==
    /\ faults' = [faults EXCEPT ![s] = @ \cup {kind}]
    /\ Cardinality(faults'[s]) <= MaxFaults

BlameIfFailed(s, kind, result) ==
    IF result = "ok" THEN UNCHANGED faults ELSE Blame(s, kind)

\* SQLite gives the id after the largest in use.
NextId(s) ==
    /\ \A t \in Sessions : Present(t) => t < s
    /\ s = 1 \/ \E t \in Sessions : Present(t) /\ t + 1 = s

\* SessionStart of a new run.  Tracking and mapping come after the refresh.
SessionStart(s, result) ==
    /\ NextId(s)
    /\ Store(s, NewRow, result)
    /\ tracked' = IF result = "ok" THEN [tracked EXCEPT ![s] = 0] ELSE tracked
    /\ runs' = IF result = "ok" THEN [runs EXCEPT ![s] = @ + 1] ELSE runs
    /\ Tell(s, "update", result)
    /\ UNCHANGED <<faults, channels, generator, client>>

\* TestReport of a test not seen before: counted in memory, then stored.
TestReport(s, result) ==
    /\ runs[s] > 0 /\ Present(s)
    /\ tracked[s] <= MaxReports /\ session[s].reports < MaxReports
    /\ tracked' = [tracked EXCEPT ![s] = @ + 1]
    /\ Store(s, [session[s] EXCEPT !.total = tracked[s] + 1, !.reports = @ + 1], result)
    /\ Tell(s, "update", result) /\ BlameIfFailed(s, "report", result)
    /\ UNCHANGED <<runs, channels, generator, client>>

\* Faulty variant: the session's tracking is initialised again.
AnnounceUntracking(s) ==
    /\ runs[s] > 0 /\ Present(s)
    /\ tracked' = [tracked EXCEPT ![s] = 0]
    /\ UNCHANGED session
    /\ Tell(s, "update", "ok")
    /\ UNCHANGED <<runs, faults, channels, generator, client>>

\* CollectReport, or SessionStart of a run that has a session.
Announce(s) ==
    /\ runs[s] > 0 /\ Present(s)
    /\ UNCHANGED session
    /\ Tell(s, "update", "ok")
    /\ UNCHANGED <<tracked, runs, faults, channels, generator, client>>

\* SessionFinish.  The tracking is gone before the commit, the mapping after it.
SessionFinish(s, result) ==
    /\ runs[s] > 0 /\ Present(s)
    /\ tracked' = [tracked EXCEPT ![s] = 0]
    /\ Store(s, [session[s] EXCEPT !.status = "completed"], result)
    /\ runs' = IF result = "ok" THEN [runs EXCEPT ![s] = @ - 1] ELSE runs
    /\ Tell(s, "session_finish", result) /\ BlameIfFailed(s, "finish", result)
    /\ UNCHANGED <<channels, generator, client>>

\* delete_session, or a prune.  Tracking, mapping and streams stay.
DeleteSession(s) ==
    /\ s \in Deletable /\ Present(s)
    /\ session' = [session EXCEPT ![s] = NoRow]
    /\ Blame(s, "deleted")
    /\ UNCHANGED <<tracked, runs, published, stream, client>>

-----------------------------------------------------------------------------
(* The page and its stream *)

Shown(s, state) == [state |-> state, session |-> s, total |-> session[s].total,
                    entries |-> session[s].reports]

\* What a rendered session becomes in the browser.  The script of a page in progress
\* opens an EventSource, unless there are no entries yet: then the page has no
\* test-results-container, and the script ends with a TypeError before that.
Opened(p, s) ==
    \/ /\ session[s].status = "in_progress" /\ session[s].reports > 0
       /\ page' = [page EXCEPT ![p] = Shown(s, "live")]
       /\ generator' = [generator EXCEPT ![p] = "requested"]
    \/ /\ session[s].status = "in_progress" /\ session[s].reports = 0
       /\ page' = [page EXCEPT ![p] = Shown(s, "cut")]
       /\ UNCHANGED generator
    \/ /\ session[s].status \in {"completed", "interrupted"}
       /\ page' = [page EXCEPT ![p] = Shown(s, "final")]
       /\ UNCHANGED generator

\* view_session.
ViewSession(p, s) ==
    /\ page[p].state = "closed" /\ generator[p] = "none"
    /\ Opened(p, s)
    /\ UNCHANGED <<server, channels, queue, wire, seen, fetch>>

\* Faulty variant: the new subscriber replaces the others.
SubscribeAlone(p) ==
    /\ generator[p] = "requested"
    /\ generator' = [generator EXCEPT ![p] = "running"]
    /\ channels' = WithSubscribers(page[p].session, {p})
    /\ queue' = [queue EXCEPT ![p] = <<>>]
    /\ seen' = [seen EXCEPT ![p] = Len(published[page[p].session])]
    /\ UNCHANGED <<server, wire, page, fetch>>

\* event_generator starts.
Subscribe(p) ==
    LET s == page[p].session
    IN  /\ generator[p] = "requested"
        /\ generator' = [generator EXCEPT ![p] = "running"]
        /\ channels' = WithSubscribers(s, Subscribers(s) \cup {p})
        /\ queue' = [queue EXCEPT ![p] = <<>>]
        /\ seen' = [seen EXCEPT ![p] = Len(published[s])]
        /\ UNCHANGED <<server, wire, page, fetch>>

\* The generator sends one message, and ends after a finish, with its queue.
Send(p) ==
    LET m == Head(queue[p])
    IN  /\ generator[p] \in {"running", "left"} /\ page[p].state = "live" /\ queue[p] # <<>>
        /\ wire' = [wire EXCEPT ![p] = Append(@, m)]
        /\ IF m.type = "session_finish"
           THEN /\ generator' = [generator EXCEPT ![p] = "none"] /\ Unsubscribe(p)
                /\ queue' = [queue EXCEPT ![p] = <<>>]
           ELSE /\ UNCHANGED <<generator, channels>>
                /\ queue' = [queue EXCEPT ![p] = Tail(@)]
        /\ UNCHANGED <<server, seen, page, fetch>>

\* eventSource.onmessage.
Receive(p) ==
    LET m == Head(wire[p])
    IN  /\ page[p].state = "live" /\ wire[p] # <<>>
        /\ wire' = [wire EXCEPT ![p] = Tail(@)]
        /\ seen' = [seen EXCEPT ![p] = @ + 1]
        /\ IF m.type = "session_finish"
           THEN /\ page' = [page EXCEPT ![p].state = "reloading"]
                /\ UNCHANGED fetch
           ELSE /\ page' = [page EXCEPT ![p].total = m.total]
                /\ fetch' = [fetch EXCEPT ![p].asked = TRUE, ![p].again = fetch[p].asked]
        /\ UNCHANGED <<server, stream>>

\* window.location.reload(), a second after the finish.  The stream has ended; a
\* session that was deleted meanwhile is an error page.
Reload(p) ==
    LET s == page[p].session
    IN  /\ page[p].state = "reloading" /\ generator[p] = "none"
        /\ \/ Opened(p, s)
           \/ /\ ~Present(s)
              /\ page' = [page EXCEPT ![p] = NoPage]
              /\ UNCHANGED generator
        /\ wire' = [wire EXCEPT ![p] = <<>>] /\ seen' = [seen EXCEPT ![p] = 0]
        /\ fetch' = [fetch EXCEPT ![p] = NoFetch]
        /\ UNCHANGED <<server, channels, queue>>

\* htmx has an answer or an error: it asks again if it was triggered.
AskAgain(p) == [NoFetch EXCEPT !.asked = fetch[p].again]

\* get_test_entries_html reads the reports, if the session is there ...
ReadEntries(p) ==
    LET s == page[p].session
    IN  /\ fetch[p].asked /\ fetch[p].reply = None
        /\ fetch' = [fetch EXCEPT ![p] = IF Present(s)
                                         THEN [@ EXCEPT !.reply = session[s].reports]
                                         ELSE AskAgain(p)]
        /\ UNCHANGED <<server, stream, wire, seen, page>>

\* Faulty variants: the answer is not waited for; a trigger during a request
\* is forgotten.
SwapEntriesEarly(p) ==
    /\ fetch[p].asked
    /\ page' = [page EXCEPT ![p].entries = fetch[p].reply]
    /\ fetch' = [fetch EXCEPT ![p] = AskAgain(p)]
    /\ UNCHANGED <<server, stream, wire, seen>>
SwapEntriesOnce(p) ==
    /\ fetch[p].reply # None
    /\ page' = [page EXCEPT ![p].entries = fetch[p].reply]
    /\ fetch' = [fetch EXCEPT ![p] = NoFetch]
    /\ UNCHANGED <<server, stream, wire, seen>>

\* ... and htmx puts them into the page.
SwapEntries(p) ==
    /\ fetch[p].reply # None
    /\ page' = [page EXCEPT ![p].entries = fetch[p].reply]
    /\ fetch' = [fetch EXCEPT ![p] = AskAgain(p)]
    /\ UNCHANGED <<server, stream, wire, seen>>

\* The tab is closed.  The server notices later.
Leave(p) ==
    /\ page[p].state # "closed"
    /\ page' = [page EXCEPT ![p] = [NoPage EXCEPT !.session = page[p].session]]
    /\ wire' = [wire EXCEPT ![p] = <<>>] /\ seen' = [seen EXCEPT ![p] = 0]
    /\ fetch' = [fetch EXCEPT ![p] = NoFetch]
    /\ UNCHANGED <<server, stream>>

\* The stream of a page that is gone is cancelled: its finally clause.
Disconnect(p) ==
    /\ page[p].state = "closed" /\ generator[p] # "none"
    /\ generator' = [generator EXCEPT ![p] = "none"]
    /\ queue' = [queue EXCEPT ![p] = <<>>]
    /\ Unsubscribe(p)
    /\ UNCHANGED <<server, client>>

\* A new process starts: the sessions in progress are marked interrupted, and its
\* memory is empty.
Startup ==
    /\ session' = [s \in Sessions |->
                     IF session[s].status = "in_progress"
                     THEN [session[s] EXCEPT !.status = "interrupted"] ELSE session[s]]
    /\ tracked' = [s \in Sessions |-> 0] /\ runs' = [s \in Sessions |-> 0]
    /\ channels' = <<>>

\* The server has crashed: streams and requests break.
Restart ==
    /\ Startup
    /\ queue' = [p \in Pages |-> IF generator[p] = "left" THEN queue[p] ELSE <<>>]
    /\ generator' = [p \in Pages |-> IF generator[p] = "left" THEN "left" ELSE "none"]
    /\ fetch' = [p \in Pages |-> IF fetch[p].reply # None THEN fetch[p]
                                 ELSE AskAgain(p)]
    /\ UNCHANGED <<faults, published, wire, seen, page>>

\* The server was told to stop (uvicorn): it answers the requests it has, and
\* waits for its streams while the new process serves.  A stream requested is one
\* of them, subscribed to the old broadcaster, or comes too late and is refused.
GracefulRestart ==
    /\ Startup
    /\ \E refused \in SUBSET {p \in Pages : generator[p] = "requested"} :
          generator' = [p \in Pages |-> IF generator[p] = "none" \/ p \in refused
                                       THEN "none" ELSE "left"]
    /\ seen' = [p \in Pages |-> IF generator[p] = "requested"
                                 THEN Len(published[page[p].session]) ELSE seen[p]]
    /\ UNCHANGED <<faults, published, queue, wire, page, fetch>>

\* The old process is killed.
KillOld(p) ==
    /\ generator[p] = "left"
    /\ generator' = [generator EXCEPT ![p] = "none"]
    /\ queue' = [queue EXCEPT ![p] = <<>>]
    /\ UNCHANGED <<server, channels, client>>

\* eventSource.onerror, after what had arrived: no reconnection.
StreamError(p) ==
    /\ page[p].state = "live" /\ generator[p] = "none" /\ wire[p] = <<>>
    /\ page' = [page EXCEPT ![p].state = "cut"]
    /\ seen' = [seen EXCEPT ![p] = 0]
    /\ UNCHANGED <<server, stream, wire, fetch>>

PageStep(p) ==
    \/ \E s \in Sessions : ViewSession(p, s)
    \/ Subscribe(p) \/ Send(p) \/ Receive(p) \/ Reload(p)
    \/ ReadEntries(p) \/ SwapEntries(p)
    \/ Leave(p) \/ Disconnect(p) \/ StreamError(p) \/ KillOld(p)

ServerStep(s) ==
    \/ \E result \in CommitResults :
          SessionStart(s, result) \/ TestReport(s, result) \/ SessionFinish(s, result)
    \/ Announce(s) \/ DeleteSession(s)

Next ==
    \/ \E s \in Sessions : ServerStep(s)
    \/ \E p \in Pages : PageStep(p)
    \/ Restart \/ GracefulRestart

Spec == Init /\ [][Next]_vars

\* The event loop serves every request and resumes every generator that has a
\* message; browsers run their handlers.  Nothing makes a run send an event, a
\* user open or leave a page, or a server restart.
Fairness ==
    \A p \in Pages :
        /\ WF_vars(Subscribe(p)) /\ WF_vars(Send(p)) /\ WF_vars(Receive(p))
        /\ WF_vars(Reload(p)) /\ WF_vars(Disconnect(p))
        /\ WF_vars(ReadEntries(p)) /\ WF_vars(SwapEntries(p)) /\ WF_vars(StreamError(p))

LiveSpec == Spec /\ Fairness

-----------------------------------------------------------------------------
(* Properties *)

TypeOK ==
    /\ session \in [Sessions -> Row]
    /\ tracked \in [Sessions -> Nat] /\ runs \in [Sessions -> Nat]
    /\ faults \in [Sessions -> SUBSET {"report", "finish", "deleted"}]
    /\ published \in [Sessions -> Seq(Message)]
    /\ DOMAIN channels \subseteq Sessions
    /\ \A s \in DOMAIN channels : channels[s] \subseteq Pages
    /\ queue \in [Pages -> Seq(Message)]
    /\ generator \in [Pages -> {"none", "requested", "running", "left"}]
    /\ wire \in [Pages -> Seq(Message)]
    /\ seen \in [Pages -> Nat]
    /\ page \in [Pages -> Page]
    /\ fetch \in [Pages -> [asked : BOOLEAN, again : BOOLEAN, reply : Nat \cup {None}]]

\* The broadcaster holds the queues of the running generators and nothing else:
\* no queue outlives its stream, whichever way the stream ended, no stream is
\* dropped when another one ends, and no channel is left without a queue.
ChannelsAreStreams ==
    /\ \A s \in Sessions :
          Subscribers(s) = {p \in Pages : generator[p] = "running" /\ page[p].session = s}
    /\ \A s \in DOMAIN channels : channels[s] # {}

\* A page gets every message broadcast since it subscribed, once and in the
\* order of the events, whatever other pages come and go, also if the server is
\* shutting down meanwhile, unless the id passes to a run of the next process.
NothingLostOrReordered ==
    \A p \in Pages :
        /\ page[p].state = "live" /\ generator[p] \in {"running", "left"}
        /\ generator[p] = "left" => "deleted" \notin faults[page[p].session]
        =>
            wire[p] \o queue[p] = SubSeq(published[page[p].session], seen[p] + 1,
                                        Len(published[page[p].session]))

\* Nothing has made the counters of s start again.
Steady(s) == faults[s] \cap {"finish", "deleted"} = {}

\* As long as a tab shows the same session, neither its counters nor its table of
\* entries ever go back to an older state, also if reports could not be stored and if
\* the server restarts, as long as no finish has failed and the session is not deleted.
PagesNeverGoBack ==
    [][\A p \in Pages :
          (/\ page[p].state # "closed" /\ page'[p].state # "closed"
           /\ Steady(page[p].session))
          => /\ page[p].total <= page'[p].total
             /\ page[p].entries <= page'[p].entries]_vars

\* A page that was listening when its session finished shows the final counters
\* and entries in the end, unless it is closed, its stream breaks or the session is
\* deleted.
ListenersSeeTheFinish ==
    \A p \in Pages, s \in Sessions :
        (/\ page[p].state = "live" /\ generator[p] = "running" /\ page[p].session = s
         /\ \E i \in seen[p] + 1 .. Len(published[s]) :
                published[s][i].type = "session_finish")
        ~> (\/ page[p].state \in {"closed", "cut"} \/ "deleted" \in faults[s]
            \/ /\ page[p].state = "final"
               /\ page[p].total = session[s].total /\ page[p].entries = session[s].reports)

\* The table of a live page catches up with the counters above it, although
\* reports may arrive faster than the table is fetched, unless the page is left
\* behind in an old process, a report was counted and not stored, or the session is
\* deleted.
EntriesCatchUp ==
    \A p \in Pages :
        (page[p].state = "live" /\ page[p].entries < page[p].total)
        ~> (\/ page[p].entries >= page[p].total \/ page[p].state # "live"
            \/ generator[p] = "left"
            \/ faults[page[p].session] \cap {"report", "deleted"} # {})

-----------------------------------------------------------------------------
(* Statements of the repository that the code does not keep *)

\* "Session finished, reloading page" and "Reload page to show final results"
\* (session.html): a page that shows a finished session as live reloads, unless its
\* stream ends before.
LivePagesReload ==
    \A p \in Pages, s \in Sessions :
        (/\ page[p].state = "live" /\ generator[p] = "running" /\ page[p].session = s
         /\ session[s].status = "completed")
        ~> (page[p].state # "live" \/ generator[p] # "running")

\* "Update statistics in real-time" (session.html): the counters and entries of a tab
\* never go back, whatever fails and whatever is deleted.
PagesNeverGoBackAtAll ==
    [][\A p \in Pages :
          page[p].state # "closed" /\ page'[p].state # "closed"
          => /\ page[p].total <= page'[p].total
             /\ page[p].entries <= page'[p].entries]_vars

\* "Connect to SSE for live updates if session is in progress" (session.html):
\* a page that shows a running session is connected to it.
RunningPagesListen ==
    \A p \in Pages :
        page[p].state = "cut" => session[page[p].session].status # "in_progress"
=============================================================================
