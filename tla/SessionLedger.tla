--------------------------- MODULE SessionLedger ---------------------------
(***************************************************************************)
(* What ingestion promises, without ids, maps or processes: a ledger with  *)
(* one entry per run.  A run's reports go to the entry it opened, in the   *)
(* order they are accepted; an entry that has ended never changes, and     *)
(* only ended entries are removed.                                         *)
(***************************************************************************)
EXTENDS Naturals, Sequences

CONSTANTS Owners,     \* the runs
          NoOwner,    \* the owner of what clients without a header open
          Reports

VARIABLES ledger,     \* the set of entries
          opened      \* number of entries ever opened, the key of the next

vars == <<ledger, opened>>

Ongoing(e) == e.status = "in_progress"

Init == ledger = {} /\ opened = 0

Open(o) ==
    /\ o # NoOwner => \A e \in ledger : e.owner = o => ~Ongoing(e)
    /\ ledger' = ledger \cup {[key |-> opened, owner |-> o, status |-> "in_progress",
                               reports |-> <<>>, senders |-> {}]}
    /\ opened' = opened + 1

Record(e, r) ==
    /\ Ongoing(e)
    /\ ledger' = (ledger \ {e}) \cup
                   {[e EXCEPT !.reports = Append(@, r), !.senders = {e.owner}]}
    /\ UNCHANGED opened

Complete(e) ==
    /\ Ongoing(e)
    /\ ledger' = (ledger \ {e}) \cup {[e EXCEPT !.status = "completed"]}
    /\ UNCHANGED opened

InterruptAll ==
    /\ ledger' = {IF Ongoing(e) THEN [e EXCEPT !.status = "interrupted"] ELSE e :
                    e \in ledger}
    /\ UNCHANGED opened

Remove(E) ==
    /\ \A e \in E : ~Ongoing(e)
    /\ ledger' = ledger \ E
    /\ UNCHANGED opened

Next ==
    \/ \E o \in Owners : Open(o)
    \/ \E e \in ledger : (\E r \in Reports : Record(e, r)) \/ Complete(e)
    \/ InterruptAll
    \/ \E E \in SUBSET ledger : Remove(E)

Spec == Init /\ [][Next]_vars
=============================================================================
