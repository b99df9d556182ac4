---------------------------- MODULE IngestLedger ----------------------------
(* Ingest implements SessionLedger: the ledger is the session table.       *)
EXTENDS Ingest

LedgerEntry(row) ==
    [key |-> row.created_at, owner |-> row.owner, status |-> row.status,
     reports |-> row.reports, senders |-> row.senders]

Ledger == INSTANCE SessionLedger
            WITH Owners <- Uuids, NoOwner <- None, Reports <- Reports,
                 ledger <- {LedgerEntry(sessions[s]) : s \in DOMAIN sessions},
                 opened <- created

\* Ids that are used again, maps that are lost, commits that fail and servers
\* that restart do not show: the session table is a ledger of the runs.
ImplementsLedger == Ledger!Spec
=============================================================================
