------------------------------ MODULE MCIngest ------------------------------
(***************************************************************************)
(* Ingest, its ledger and the history pages for TLC.  The first test       *)
(* fails in its setup or, perhaps when it is run again, passes or fails,   *)
(* with times that move both bounds of the duration; the second one is     *)
(* marked xfail, perhaps only after its setup (request.node.add_marker),   *)
(* and passes all the same.                                                *)
(***************************************************************************)
EXTENDS IngestLedger, History, TLC

CONSTANTS t1, t2

MCNodes == {t1, t2}

Rep(n, phase, outcome, start, stop) ==
    [nodeid |-> n, when |-> phase, outcome |-> outcome, xfail |-> FALSE,
     wasxfail |-> FALSE, start |-> start, stop |-> stop]

Xfail(r) == [r EXCEPT !.xfail = TRUE, !.wasxfail = TRUE]

MCReports == {Rep(t1, "setup", "failed", None, None),
              Rep(t1, "call", "failed", 3, 5),
              Rep(t1, "call", "passed", 2, 4),
              Rep(t2, "setup", "passed", 1, 2),
              Xfail(Rep(t2, "call", "passed", 2, 6))}

\* Runs are alike.
Symmetry == Permutations(Uuids)

TwoReports == {Rep(t1, "call", "failed", 3, 5), Rep(t2, "setup", "skipped", 1, 2)}

OneReport == {Rep(t1, "call", "failed", 3, 5)}
=============================================================================
