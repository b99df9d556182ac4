# webreportlog in TLA+

webreportlog shows pytest runs while they happen. A pytest plugin posts every
report of a run to a server; the server stores it in SQLite, keeps the counters
of the run in memory, and tells the open browser pages about it. This directory
models that path, from the plugin's hooks to the table on the page, and the command
line that starts and stops the server. It checks the models with TLC on small
instances, and proves with TLAPS, for instances of any size, what the parts of the server,
its pages and its command line promise one another.

`S/` stands for `packages/server/src/webreportlog_server/`.

## 1. The system

| Component | State | Operations | Model |
|---|---|---|---|
| plugin, `packages/plugin/.../plugin.py` | `_sent`, `_failed`, `_warned`, one uuid per run | hooks, `_post` | `Streaming` |
| ingestion, `S/routes/streaming.py`, `S/streaming.py` | `session_uuid_map`, `active_sessions`, tables `session` and `testreport` | one handler for four kinds of event | `Ingest` |
| counters and entries, `S/utils.py`, `S/services/entry_builder.py` | none | pure functions | `Outcomes`, `Reporting` |
| startup, `S/main.py`, `S/database.py` | the columns of the table | adds missing columns, marks stale sessions interrupted | `Service` step by step; `Ingest`, `LiveUpdates` as one step |
| broadcaster and SSE, `S/services/broadcaster.py`, `S/routes/streaming.py` | `channels`, a queue and a generator per stream | subscribe, broadcast, send, disconnect | `LiveUpdates` |
| session page, `S/templates/session.html` | what the tab shows | EventSource, htmx fetch, reload | `LiveUpdates` |
| retention, `S/services/retention.py` | none of its own | strip logs, delete sessions | `Retention`, one step of `Ingest` |
| session routes, `S/routes/sessions.py` | none | page, entries, delete, prune; lists and statistics | the first four in the modules above |
| history, `S/routes/history.py` | none | two aggregations | `History` |
| command line, `S/cli.py` | PID file | start, stop, restart, status, serve; prune | `Service`; `Retention` |
| formatter, templates, facets, serialization in the plugin | none | conversions | not modelled |

How they interact:

* The plugin posts one event at a time, each in its own request, with its uuid in
  `X-Session-ID`. It waits for an answer or its timeout and never retries.
* `stream_event` looks the uuid up, lets `process_event` change memory and
  database, updates the map and broadcasts the new counters. There is one event
  loop, and after the body of a request is read the handler has no suspension
  point that takes effect (the only `await` is `put` on an unbounded queue).
  **One event is one atomic step** of every model.
* Memory and database are two copies of one truth. They part when a commit
  raises, when a process ends, and when a row is deleted, because neither
  `DELETE` nor retention tells the maps.
* A page is three kinds of request (the page, the stream, the table of entries),
  and events are processed between them.
* `prune_database` runs in a worker thread or in another process, several of them
  at once. Its reads are not in one transaction, its two write phases are one
  transaction each.
* The commands are processes of their own. They share the PID file with each other,
  signals with the server, and nothing else; servers share the database and the port.

What is hard, and where each of these is looked at, is listed under `hazards` in
`PROJECT.json`: 35 places, with the properties that cover them or the reason
why none does.

## 2. The modules

| Module | What it is |
|---|---|
| `Outcomes` | The pure core: `Applied`/`UpdateTestOutcome`, `CalculateSessionStats`, `UpdateTimestampBounds`, `DetermineTestOutcome`, `BuildTestEntries`, and `OutcomesOf`, a definition of the same outcomes from all the reports at once. |
| `Reporting` | Every sequence of reports pytest may produce, streamed into `Outcomes`; also what pytest's own summary counts. |
| `Ingest` | The server's ingestion, deletion, loss of the process and startup. |
| `SessionLedger` | What ingestion promises: a ledger with one entry per run, with no ids, maps or processes. |
| `IngestLedger` | The refinement mapping from `Ingest` to `SessionLedger`. |
| `History` | The two history pages, as operators over the tables of `Ingest`. |
| `Streaming` | The plugin, the network and `Ingest` composed. |
| `LiveUpdates` | Broadcaster, streams and pages. |
| `Retention` | `prune_database` against everything that goes on meanwhile. |
| `Service` | The command line, the processes it starts and stops, their startup and the port. |
| `MCReporting`, `MCIngest`, `MCStreaming` | Instances for TLC; `LiveUpdates`, `Retention` and `Service` need no definitions besides their `.cfg`. |
| `OutcomeProofs`, `ReportingProofs`, `IngestProofs` (with the ledger), `IngestCounting` (counters and histories), `StreamingProofs`, `LiveUpdatesProofs`, `RetentionProofs`, `ServiceProofs` | Theorems and proofs. |

### Correspondence

**Ingest.** `sessions` is the two tables: a function from id to a row with its
reports. `owner` and `senders` of a row are history: the uuid that opened the
session and the uuids its reports came from. `created_at` is a counter.
`active_sessions` and `session_uuid_map` are the dictionaries of the same names.
`SessionStart`, `TestReport` and `SessionFinish` take the uuid and the id of the
request and the outcome of its `db.commit()` and `db.refresh()`:

| `CommitResults` | Code |
|---|---|
| `"ok"` | both succeed |
| `"commit_fails"` | `commit` raises (a lock held too long, a full disk): rolled back, 500 |
| `"refresh_fails"` | the commit has happened, the `refresh` after it raises: 500 |

In each case the actions change exactly what the source has changed by then. A
request that is refused before it changed anything is a stuttering step. `id` is
what a JSON body may name (`ClientIds`); the plugin names none. SQLite gives a new
row the id after the largest in use (`IsNextId`), so the id of a deleted newest
session is used again.

`PruneSessions` lets any set of ended sessions go. Retention keeps the newest
ones, but as of an earlier read than the status of the others (`Retention`), so that
Ingest promises nothing of which ones are spared.

**Reporting.** `RuntestLogreport` appends the next report that pytest may make of one
test, the tests interleaved as under pytest-xdist. `CrashReport(n)` is what
pytest-xdist (external) reports for a test whose worker died: outcome failed and `"???"`
for its phase (`NoPhase`), after which no report of that test follows.

**History.** The pages keep no state, so the module adds operators and properties
to `Ingest` and no action. `Overview(n)` is a row of `/history`, aggregated by the
database; `History(n)` is the page of one test, aggregated by the handler, and
`HistoryStats(n)` the numbers above it. The two pages count differently:
`total_runs` is the number of sessions with a call of the test on the one and the number of
entries, with a call or without, on the other. A
session's reports are joined to it as in `sessions`. Both pages also carry the error
marks of the last sessions (`HasError`). Prune may delete between the
two reads of `/history`; then a test has no latest result, which the handler shows as
UNKNOWN. The model takes both reads from one state, where this cannot happen.

**Streaming.** A run is a script of events: `SessionStart`, a `CollectReport`, the
reports of `Script`, `SessionFinish`. `Post` puts a request on the network;
`Serve` lets the server process it and answers; `Lose` drops it; `Answer` and
`GiveUp` are the two ways `urlopen` ends. A request that was given up may still be
served, later and out of order. `sent` and `failed` are the sets of events that
`_sent` and `_failed` count.

**LiveUpdates.** A session is reduced to its row (`session`: status, `total_tests` and
the number of reports stored for it), the tests counted in memory (`tracked`) and the
number of uuids mapped to it (`runs`), all by id: `SessionStart`, `TestReport`,
`SessionFinish`, `Announce` (the events that change nothing, and are broadcast) and
`DeleteSession` are the handlers of `Ingest` at this grain, with the same outcomes of a
commit. `faults` is history: what failed for an id so far. An id that was given to a
second run is the same key of `tracked`, `runs` and `channels` as before, which is how pages
hear of another run. `queue` and `generator` are the server's side of each page's stream, `wire` is what
was sent and not handled yet, `fetch` is htmx's request for the entries: at most
one in flight and one trigger remembered, which is htmx's default. `published` and
`seen` are history. The server ends in two ways. A crash (`Restart`) closes every
stream. A graceful shutdown (`GracefulRestart`) gives up the port and waits for its
streams, so that the next process serves while those streams are still open and
silent: their generator is `"left"`, they drain what was queued, and hear nothing of
what the new process broadcasts, until the old process is killed (`KillOld`).

**Retention.** Bytes become units: one for the logs of a report that has any, one
for the `"[]"` that the `sections` of every report consist of at least, one more
for the row. By how much the file exceeds the cap is not modelled, nor are pages of
the file, indexes and VACUUM: each phase goes through the eligible sessions from the
oldest and may stop after any of them, which is what some excess makes it do. The rows read are
remembered by id, as the ORM does, with the `created_at` they are ordered by, and so is
whether they had `logs_pruned` set (`flagged`): phase A assigns `True` to the object it
loaded, and the ORM writes that only if it changes the object, so that `Stripped` sets the
flag of whichever row has the id now only then. `pinned`, `meddled` and the `reused` of a
row are history; a row that is gone passes phase A (its
`UPDATE` of reports matches nothing) and makes phase B raise. Two calls run at once.
`meddled` of one says that a user or the other call has deleted sessions since it
read the newest ones.

**Service.** A command is a program counter (`command[c].at`): every access to the PID
file and to a process is one step, named for the function or the line it stands for
(`Cleanup`, `Probe`, `Unlink` for `_cleanup_stale_pid_file`; `Read`, `Kill`, `Remove`
for `stop`; `WaitForStop`, which waits until the process has ended or `TenSeconds` have
gone by; `Check`, `Popen`, `OpenFile`, `WriteFile` for `start`;
`restart` is `stop` and `start`), and may be interrupted before any of them. A process
(`procs[p]`) goes through `ReadColumns`, `AddColumn` (`ensure_columns`),
`ReadStale`, `MarkStale` (`_mark_stale_sessions_interrupted`) and `Bind`, the port, which
uvicorn takes after the application's startup. uvicorn's signal handling and the
operating system are external. `session` and `request` are the runs that stream to
whichever process has the port. Two history variables carry the conditions of the
properties: `disturbed` says that commands overlapped, that a start was interrupted
before it wrote the file, or that a server was started without it; `hasty` that a
server was wanted before one told to end had ended, by a command that came too early or
by a restart whose ten seconds were over.

## 3. What is checked

Properties are stated, with the code behaviour they are about, at the end of each
module. Every property of a passing run is broken by at least one *faulty
variant*: a definition that differs from the modelled one as a plausible bug would,
and that stands directly before it.

### Passing runs

| Run | Bounds | What it shows |
|---|---|---|
| `Reporting` | 2 tests, 3 phases, every outcome, marker and `wasxfail` pytest may give them, all interleavings, workers that die anywhere | Incremental outcomes are those of the stored reports. Failures and errors that tests report are pytest's. No entry hides a failure. In ordinary runs entries, counters and summary agree on everything. |
| `Ingest` | 2 interchangeable runs, 5 reports to choose from, one test marked xfail from the start, after its setup or never, 2 sessions, 3 reports each, no failing commits | Memory and database agree; every running session can be finished. The two history pages differ by exactly the sessions without a call and the xpasses, and agree with the counters, error marks included. |
| `IngestFaults` | 2 runs, 3 sessions, failing commits | Reports go to their run, ended sessions are frozen, ingestion implements the ledger. |
| `IngestAnyClient` | a client with and one without a uuid, ids of their own, every failure, any deletion | Ids follow creation; history only grows. |
| `LiveUpdates` | 2 pages on 1 id, which runs use one after the other; every outcome of a commit and deletion at any moment, but one kind of fault per run of the model; 3 reports, of which 2 are there at first, 2 messages, crashes and graceful restarts at any moment | Queues are exactly those of the running streams; nothing that was broadcast is lost or reordered after the subscription, also in streams that a graceful shutdown leaves open; pages never go back unless a finish failed or the session was deleted; listeners end up final; entries catch up, unless their stream was left behind. |
| `Retention` | 2 prunes at once, 3 sessions, `keep_recent` 1, deletions and crashes at every point | What was stripped says so, unless its id was that of another session when it was read; the protected sessions are untouched. Unless sessions are deleted meanwhile, by a user or the other prune, running sessions are untouched and the oldest go first. |
| `Streaming` | 1 run with 5 events, 2 sessions, every failure, any number of restarts, warnings as errors or not | What was counted as streamed is stored once and in order; a run without failures is recorded completely; a run opens one session at most; every run ends. |
| `Service` | 1 caller with any number of commands, 2 processes, 2 runs, 1 column to add | Between commands the PID file names the server; one server runs at a time, and it can finish every session shown as in progress; a server that was started serves. Each under the conditions that the property names. |

Why these bounds are enough: the hazards need two actors and one more step than
the actors expect. Two runs are needed for the id of the first one's session to be
used again by the other's, and a third session for one to end, and go, between the
two of a run that goes on and one that starts anew; two reports with different outcomes and times for a counter or a
bound to be carried over wrongly; two pages on one session for its
channel to be shared or dropped, and one id, since the queues of another id are never
touched; a second run of that id, and two reports before the first step, for a counter to start again
below what a page shows; two messages behind a fetch for a trigger to be
remembered; in retention, one protected and two eligible sessions, of which one may be deleted
and its id used again by a running one; in `Service` an old and a new process, and
two runs so that a session of each may meet them. The properties of `Service` are
conditional on commands that do not overlap, and two callers whose commands do not
overlap are one caller; `Interrupt` and `Serve` still reach the disturbed states. `Service` was also checked
once with `MaxPids` 3 and one run (2.0 million states). `MaxCreated`, `MaxReports`,
`MaxMessages` and `MaxPids` bound counters that grow
without limit; each is a guard of the action that counts. `MaxFaults` bounds the kinds of
failure one run of `LiveUpdates` combines: each property that excludes a failure excludes
it by itself. The uuids of `Ingest.cfg` are symmetric: no definition tells them apart, and the
run checks no liveness. The theorems of section 4
hold for every value of them.

`Reporting` stops when every test has reported its teardown or its worker has died; it is the only
specification checked without deadlock.

### Disagreements with the repository's own words

Each of these runs checks one statement of a comment, document or test, and TLC
finds the behaviour that violates it. The quotes are in `findings`.

| Run | What the code does |
|---|---|
| `ReportingCrash` | The failure that pytest-xdist reports for a test whose worker died has no phase the counters know: it is in the total, in no counter, and its test may be listed as PASS. |
| `IngestDeleteLive` | Deleting a running session sends the rest of its run into the next session. |
| `LiveUpdatesLate` | A session that finishes after a page was rendered and before its stream has subscribed leaves the page live for good. |
| `ServiceSecond` | A second server marks the running sessions of the first one as interrupted before it finds the port taken. |

The modules state more such sentences of the repository, each under
"Statements of the repository that the code does not keep", and one property that
holds in its run only because commits do not fail there. No standing run checks
these; TLC refutes each one when it is added to the configuration named here.

| Statement | Configuration | What the code does |
|---|---|---|
| `EntriesMatchStatistics` | `Reporting.cfg` | A test may be listed in one category and counted in another: marked xfail and skipped in its setup (listed, not counted), or `pytest.xfail()` in a setup (counted xfailed, listed skipped). |
| `XfailStatisticsMatchPytest` | `Reporting.cfg` | Outside setups xfailed and xpassed go by the keyword: `pytest.xfail()` in a body is counted as skipped, a marker whose condition is false makes a passing test xpassed. |
| `PassedEntriesRan` | `Reporting.cfg` | Between its setup and its call, or for good if it dies there, a test is listed as PASS. |
| `CountersMatchReports` | `Ingest.cfg` with `"commit_fails"` in `CommitResults` | A report whose commit failed is counted from the next report on. |
| `PagesNeverGoBackAtAll` (an action property) | `LiveUpdates.cfg` | When the commit of a finish fails, the next report starts the counters again; when a running session is deleted, its open pages show the next run with its id. Both take a page back to a smaller total. |
| `RunningPagesListen` | `LiveUpdates.cfg` | A page opened before the first report throws a TypeError before it connects. |
| `NeverTouchesRunning` (an action property) | `Retention.cfg` | A running session with the id of a deleted one is stripped. |
| `StrippedAlwaysFlagged` | `Retention.cfg` | A session with the id of a deleted one that was flagged already is stripped, and not flagged: the assignment of `True` to the object read before is no change. |
| `FlaggedWereStripped` | `Retention.cfg` | Sessions without logs are flagged as stripped, because `"[]"` has length 2. |
| `DeletedAfterStripping` (an action property) | `Retention.cfg` | For the same reason stripping stops early, and sessions are deleted while others still have logs. |
| `NeverRaises` | `Streaming.cfg` | Where the run turns warnings into errors, the plugin's warning interrupts it. |
| `FailedAreNotRecorded` | `Streaming.cfg` | A report that timed out, and was announced as not recorded, may be recorded. |
| `StoppedServersAreGone` (an action property) | `Service.cfg` | `stop` says "Server stopped" when it has sent the signal; the server may still serve. |
| `AnnouncedServersServe` | `Service.cfg` | `start` announces a server that then fails in its startup or finds the port taken. |

### Fairness

* `LiveSpec` (the runs of `LiveUpdates`) assumes weak fairness of the steps of each page and its stream: the
  event loop resumes every generator whose queue has a message and serves every
  request, and a browser runs its handlers. It assumes nothing of runs, users or
  restarts: a session may never finish, and a page may be closed at any moment.
* `FailSoftSpec` (the run of `Streaming`) assumes that pytest goes on to its next hook and that `urlopen`
  ends, at the latest at its timeout. It assumes nothing of the server or the
  network, which may be silent for ever: that is the point of `RunsEnd`.
* `LiveSpec` (the run of `Service`) assumes that a process gets on with its startup.
  It assumes nothing of users, commands, runs or of a shutdown, which an open stream
  may hold up for ever.

The other runs assume no fairness.

## 4. What is proved

For every set of tests, runs, reports, scripts, tabs, prunes and callers, and every bound:

| Theorem | Module | Assumptions beyond those of the constants |
|---|---|---|
| `TypeCorrect`: `TypeOK` | `IngestProofs`, `ReportingProofs`, `LiveUpdatesProofs`, `RetentionProofs`, `ServiceProofs` | none |
| `IdsFollowCreation`: `IdOrderIsCreationOrder` | `IngestProofs` | none |
| `HistoryGrows`: `HistoryOnlyGrows` | `IngestProofs` | none |
| `ReportsAttributed`: `ReportsBelongToRun` | `IngestProofs` | `PluginSetting` |
| `MappingsLive`: `MappedSessionsAreLive` | `IngestProofs` | `PluginSetting` |
| `EndedFrozen`: `EndedSessionsAreFrozen` | `IngestProofs` | `PluginSetting` |
| `RunningSessionsMapped`: `LiveSessionsAreMapped` | `IngestProofs` | `PluginSetting`, every request has a uuid |
| `ImplementsSessionLedger`: `ImplementsLedger` | `IngestProofs` | `PluginSetting` |
| `TrackingFollowsReports`: `TrackingMatchesReports` | `IngestCounting` | `ReliableSetting` |
| `CountersFollowReports`: `CountersMatchReports` | `IngestCounting` | `ReliableSetting` |
| `HistoriesTheorem`: `HistoryMatchesCounters` | `IngestCounting` | `ReliableSetting` |
| `OverviewTheorem`: `OverviewAgainstHistory` | `IngestCounting` | none |
| `StreamingTypeCorrect`: `StreamingTypeOK` | `StreamingProofs` | none |
| `SentReportsStored`: `SentReportsAreStored` | `StreamingProofs` | none |
| `OneSession`: `OneSessionPerRun` | `StreamingProofs` | none |
| `CleanRunsRecorded`: `CleanRunsAreRecorded` | `StreamingProofs` | none |
| `IncrementalOutcomes` | `OutcomeProofs` | none |
| `TrackingFollowsRows`: `TrackingMatchesRows` | `ReportingProofs` | none |
| `FailuresTheorem`: `FailuresMatchPytest` | `ReportingProofs` | none |
| `EntriesTheorem`: `EntriesHideNoFailure` | `ReportingProofs` | none |
| `OrdinaryTheorem`: `OrdinaryRunsAgree` | `ReportingProofs` | none |
| `ChannelsTheorem`: `ChannelsAreStreams` | `LiveUpdatesProofs` | none |
| `DeliveryTheorem`: `NothingLostOrReordered` | `LiveUpdatesProofs` | none |
| `PagesTheorem`: `PagesNeverGoBack` | `LiveUpdatesProofs` | none |
| `FlagTheorem`: `StrippedAreFlagged` | `RetentionProofs` | none |
| `PinnedTheorem`: `PinnedUntouched` | `RetentionProofs` | none |
| `RunningTheorem`: `RunningUntouched` | `RetentionProofs` | none |
| `OrderTheorem`: `OldestGoFirst` | `RetentionProofs` | none |
| `PidFileTheorem`: `PidFileNamesTheServer` | `ServiceProofs` | none |
| `OneServerTheorem`: `OneServerAtATime` | `ServiceProofs` | none |
| `HoldersTheorem`: `SessionsFollowTheServer` | `ServiceProofs` | none |

The conditions that the properties of `Reporting`, `History`, `Streaming`, `Retention` and
`Service` name (ordinary runs, `MarkersStay` and `PhasesOnce`, no failed event, `Steady` and
the `faults`, `meddled`, `reused`, `disturbed`, `hasty`) are part of the properties, and the runs reach
states on both sides of each.

`PluginSetting` says that clients name no ids, that nobody deletes a session in
progress and that no refresh fails after its commit; commits may fail.
`ReliableSetting` adds that commits do not fail. They are not stronger than
needed: `IngestDeleteLive`, and `CountersMatchReports` in the table above, are what happens
without them.

Of the constants the proofs assume that the set of tests is finite, that bounds are
natural numbers, that `None` is none of the values it stands beside, and, of a script,
that it has no report twice, as no two reports of a run are the same.

### Ingest

Neither `ReportsBelongToRun` nor `MappedSessionsAreLive` is
inductive. A report is attributed by the mapping, so the mapping must lead each
uuid to its own session, and for that the session must be in progress, so that
neither a deletion nor a startup removes it under the mapping, and a process that
is down must have no mapping, so that the startup that interrupts sessions finds
none. That is `OwnershipInv`: `TypeOK`, the two properties, and `~up => no
mapping`. The lemma `ResolveOwn` says what every handler uses of it. Frozen
sessions follow at once: an event can reach only a running session.

`IdOrderIsCreationOrder` and `HistoryOnlyGrows` rest on one lemma, `TableSteps`: a step
either inserts one row above all others (`Inserts`), or keeps and removes rows, whose owner
and creation stay and which take one report at most (`Keeps`, `Grows`). That holds for
every client and every failure.

Counters need more (`CountingInv`): a running session must have in memory the
outcomes *and* the time bounds of its stored reports, since the stored counters are
computed from memory. The step is `IncrementalOutcomes`, which says that applying
one report to the outcomes of any sequence gives the outcomes of the longer
sequence; it is the same theorem that carries `TrackingFollowsRows`.

The refinement maps each row to a ledger entry keyed by `created_at`, which makes
different rows different entries although ids are used again; `LedgerOpen`,
`LedgerReport`, `LedgerFinish`, `LedgerDrop` and `LedgerStartup` map one action
each to a step of the ledger, and `LedgerNext` puts them together.

### History

`HistoryMatchesCounters` compares what is read from the rows with what memory counted, so
it stands on `CountingInv`: the counters are those of `OutcomesOf` the rows, and it
remains to show that the report the page picks of each phase and the reports that
`OutcomesOf` looks at give the test one category (`SameCategory`, `SameError`). Both pick
the latest one, which exists because the indices of finitely many rows have a largest
(`Largest`, from the well-foundedness of the natural numbers; `LatestShown`).

`OverviewAgainstHistory` holds of any table whose ids follow creation, whatever
clients and failures put into it. `TableInv` is `OrderInv` and that the table is finite;
then the latest session by id is the latest by time (`LatestRun`), the handler's runs are
the disjoint union of those with a call and those without (`TotalRuns`), and the sums of the
database are cardinalities of unions of pairs, which the bijection of `PassedRuns` brings
to the handler's passes and xpasses.

### Streaming

No property of `Streaming` mentions the requests on their way, and every one depends on
them: a report that is served late must not be one that is stored already, nor come
before one that was answered. `StreamingInv` says for every run when an event is over
(`Spent`: posted, and not on its way any more). A request that is under way is of an event
that was posted, and it is gone once it was answered (`PostedOK`). No session is there before
`SessionStart` is over, and one session at most afterwards; a mapping leads to it and is
gone with the process (`OpenOK`, `MapOwn`). Rows are reports that are over, each once, and
none stands before a report that was sent earlier (`RowsOK`). What was sent, or
has been answered with success and not counted yet, is stored (`StoredOK`). For a run
without failures `CleanOK` follows the one session through its memory, too: the rows are
the beginning of the script up to the last event answered, and what is tracked is their
outcomes, again by `IncrementalOutcomes`.

A step touches one run. The others keep their invariant by `Unaffected`, which asks only
that their session has the rows and counters it had: restarts, lost requests and the
events of other runs are all instances of it. Of the server's handlers only what they
do to the session of the sender is needed: `RunOpen`, `RunReport`, `RunFinish`, and
`RunAnswered` for every response after which the rows are the same.

### Reporting

The three counts (pytest's, the counters', the entries') are of different things:
reports, tests and entries. `RunInv` says what pytest's order of reports makes of the
rows: no test reports a phase twice (`ReportsOnce`), a call follows a setup that passed
and a teardown ends a test (`PhasesInOrder`), `wasxfail` goes with certain outcomes
(`PytestReports`), and every test has a first report (`FirstReports`), which stands for
its others in the entries. Each count is then a bijection between tests and
reports (`SameCount`) or a disjoint union of two such (`DisjointUnion`): errors, for
one, are the failed setups and the failed teardowns, and no test has both. None of
this is in the properties, whose conclusion is an equation of cardinalities that no step
could be shown to keep by itself.

### LiveUpdates

`NothingLostOrReordered` speaks of live pages with a running stream only, and says
nothing of what the server does with the stream of a tab that is gone. `LiveInv`
adds, for every tab, where its stream may be (`StreamOK`: no queue before the
subscription, none on the wire of a closed tab, and no run left of a session whose
streams are left in an old process, since the new one interrupts it first), and that
what is on the wire and in the queue is a window of what was published, from the first
message that the tab has not handled (`WireOK`, `QueueOK`).

Pages never go back because no message on the way is older than what is shown
(`WireOK`), and no answer to htmx's fetch older than the entries (`NotNewer`, in `PageOK`).
Both need that totals grow along `published` and end below the row's (`PublishedOK`), and that is
not so by itself: what is stored is what memory counted, and a finish drops the memory.
So a session without a failed finish and without a deletion (`Steady`) has one run at
most, whose count in memory is not below the one stored, also after a report whose commit failed
(`RowOK`). With a failed finish, a run that goes on has no count; after a deletion, the
row starts anew under a count that does not: the two exceptions are those that the
property names. What the steps of the server do to a tab is one of two lemmas, `MovedSilently`
and `MovedTold`.

### Retention

Ids are no names of sessions: a prune remembers ids, and another session may have one
of them by the time it acts. `PruneInv` names sessions by `created_at` (`CreatedOnce`) and
keeps, for each prune, what of its reads still holds. Of a pinned session, that its id
is among the protected ones for as long as it exists, and no protected id is eligible
(`PinOK`): this survives deletions and ids used again, so that `PinnedUntouched` needs no
condition. Of an eligible one, that it still exists, has ended and was created when the
prune read it, but only unless sessions were deleted meanwhile (`ReadOK`): therefore
the condition `meddled` of the other two. For `StrippedAreFlagged`, `FlagInv` says that
an id which a prune has read as flagged is that of a flagged session or of one that was
given the id since (`FlagsOK`), so that a row is stripped without an `UPDATE` of its flag
only if it has the flag or is `reused`.

### Service

The file is right between commands only because a command that is alone keeps it right at
each of its steps. `FileInv` says so for every program counter: what the command has read
of the file is still there, and a server that the file does not name is told to end, or
is the one that the command is about to write down. `AloneInv` adds that under `~hasty`
no start meets a process that was told to end, and a restart only the one it waits for,
since it goes on when that one has ended, or `hasty` is set (`HastyInv`).
`HoldersInv` follows one process through its startup: when it reads the stale sessions,
those in progress are all there are, and nobody can add one before it serves, since only
the one that has the port takes runs.

### Only model-checked

* Liveness, which is beyond the prover: `ListenersSeeTheFinish`, `EntriesCatchUp`, `RunsEnd`
  and `StartedServersServe`.
* The statements that the code does not keep: their counterexamples need no proof.

## 5. What is left out

* Text: titles, locations, tracebacks, captured output, escaping, colours; the
  formatter and the templates but for the script of the session page.
* Parsing of requests. An event that is not JSON or has no known type is refused
  before anything changes.
* In the plugin: options, the serialization of a report with its section filter, and
  the metadata of the environment. Each maps one value to another and keeps no state.
* Facets and sizes (`scalar_env_facets`, `build_facets`, `parse_size`,
  `format_size`), durations of phases, filters and sorting of the pages: the same.
* The supervisors that uvicorn runs for `dev --reload` and `serve --workers N`: the
  README of the server requires one worker, and they are code of uvicorn.
* Process ids that the operating system uses again: `start` would take a stranger for
  the server, and `stop` would end it. The model could only repeat that.
* Two processes that ingest at once. `Service` shows when that may happen, and `Ingest`
  has one process, as it is under the conditions of `OneServerAtATime`.
* Reruns of a test (several setup and call reports under one nodeid) in `Reporting`;
  `Outcomes` and its theorems allow them.
* Index, list, stats and get routes: single reads. `/history` is taken as one read
  although it is two.
* VACUUM and the size of the file in bytes: where each phase of `Retention` stops is a
  free choice.

## 6. Plan

Done: `Outcomes`, `Reporting` with workers that die, `Ingest` with its ledger,
`History` with its error marks, `LiveUpdates` with both kinds of restart, `Retention`
with two prunes, `Streaming`, `Service`; the theorems of section 4.

Every safety property that a run checks is a theorem. What is left:

1. `Streaming` with two runs and a user who deletes: 3.7 million states with the
   present scripts, so it needs a smaller one. The theorems hold for any number of
   runs, but without deletions.
