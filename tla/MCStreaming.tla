---------------------------- MODULE MCStreaming ----------------------------
(* Streaming for TLC: a failing test and one skipped in its setup. *)
EXTENDS Streaming, TLC

CONSTANTS t1, t2

MCNodes == {t1, t2}

Rep(n, phase, outcome) ==
    [nodeid |-> n, when |-> phase, outcome |-> outcome, xfail |-> FALSE,
     wasxfail |-> FALSE, start |-> None, stop |-> None]

MCScript == <<Rep(t1, "call", "failed"), Rep(t2, "setup", "skipped")>>
MCReports == {MCScript[i] : i \in DOMAIN MCScript}
=============================================================================
