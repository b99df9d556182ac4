------------------------- MODULE LiveUpdatesProofs -------------------------
(***************************************************************************)
(* Theorems about LiveUpdates, for any number of tabs, sessions and        *)
(* messages.                                                               *)
(***************************************************************************)
EXTENDS LiveUpdates, SequenceTheorems, TLAPS

-----------------------------------------------------------------------------
(* The inductive invariant *)

Deleted(s) == "deleted" \in faults[s]

\* A session that is not there has not started, unless it was deleted; a run that has
\* not finished is the only one, and what is tracked is as much as what is stored.
RowOK(s) ==
    /\ ~Deleted(s) /\ ~Present(s) => runs[s] = 0 /\ published[s] = <<>>
    /\ Steady(s) /\ runs[s] > 0 => runs[s] = 1 /\ session[s].total <= tracked[s]

\* Totals only grow, also along the messages; the finish is the last message, and no
\* run goes on then.
PublishedOK(s) ==
    Steady(s) =>
        /\ \A i, j \in 1 .. Len(published[s]) :
              i <= j => published[s][i].total <= published[s][j].total
        /\ \A i \in 1 .. Len(published[s]) :
              /\ published[s][i].total <= session[s].total
              /\ published[s][i].type = "session_finish" =>
                    i = Len(published[s]) /\ runs[s] = 0

\* What a tab shows is not newer than the session, nor is the answer on its way to it
\* older than what it shows.
NotNewer(p) ==
    LET s == page[p].session
    IN  /\ page[p].total <= session[s].total /\ page[p].entries <= session[s].reports
        /\ fetch[p].reply # None =>
              page[p].entries <= fetch[p].reply /\ fetch[p].reply <= session[s].reports

PageOK(p) ==
    LET s == page[p].session
    IN  /\ page[p].state # "closed" \/ generator[p] # "none" =>
              s \in Sessions /\ (Deleted(s) \/ Present(s))
        /\ fetch[p].asked \/ fetch[p].again \/ fetch[p].reply # None =>
              page[p].state # "closed"
        /\ page[p].state # "closed" /\ Steady(s) => NotNewer(p)

\* What is on the wire are the messages after those seen, none of which is older than
\* what the tab shows, and what is in the queue are all the others, unless the id has
\* passed to a run of the next process.
WireOK(p) ==
    LET sent == published[page[p].session]
    IN  /\ seen[p] + Len(wire[p]) + Len(queue[p]) <= Len(sent)
        /\ \A i \in 1 .. Len(wire[p]) : wire[p][i] = sent[seen[p] + i]
        /\ Steady(page[p].session) =>
              \A j \in seen[p] + 1 .. Len(sent) : page[p].total <= sent[j].total

QueueOK(p) ==
    LET sent == published[page[p].session]
    IN  /\ (generator[p] = "left" => ~Deleted(page[p].session)) =>
              seen[p] + Len(wire[p]) + Len(queue[p]) = Len(sent)
        /\ \A i \in 1 .. Len(queue[p]) : queue[p][i] = sent[seen[p] + Len(wire[p]) + i]

\* A process that is shutting down has no stream of a session that goes on.
StreamOK(p) ==
    /\ page[p].state = "closed" \/ generator[p] = "requested" => wire[p] = <<>>
    /\ generator[p] \in {"none", "requested"} => queue[p] = <<>>
    /\ generator[p] = "left" /\ ~Deleted(page[p].session) => runs[page[p].session] = 0
    /\ page[p].state = "live" /\ wire[p] # <<>> => WireOK(p)
    /\ page[p].state = "live" /\ generator[p] \in {"running", "left"} =>
          WireOK(p) /\ QueueOK(p)

LiveInv ==
    /\ TypeOK /\ ChannelsAreStreams
    /\ \A s \in Sessions : RowOK(s) /\ PublishedOK(s)
    /\ \A p \in Pages : PageOK(p) /\ StreamOK(p)

-----------------------------------------------------------------------------
(* Initially, and for the tabs that a step is not about *)

LEMMA LiveInit == Init => LiveInv
<1> SUFFICES ASSUME Init PROVE LiveInv
  OBVIOUS
<1>1. TypeOK
  <2>1. /\ session \in [Sessions -> Row]
        /\ tracked \in [Sessions -> Nat] /\ runs \in [Sessions -> Nat]
        /\ faults \in [Sessions -> SUBSET {"report", "finish", "deleted"}]
    <3>1. /\ NoRow \in Row /\ [NewRow EXCEPT !.total = 2, !.reports = 2] \in Row
      BY DEF Row, NoRow, NewRow
    <3> QED
      BY <3>1 DEF Init
  <2>2. page \in [Pages -> Page]
    BY DEF Init, Page, PageState, NoPage
  <2>3. fetch \in [Pages -> [asked : BOOLEAN, again : BOOLEAN, reply : Nat \cup {None}]]
    BY DEF Init, NoFetch
  <2> QED
    BY <2>1, <2>2, <2>3 DEF Init, TypeOK
<1>2. ChannelsAreStreams
  BY DEF Init, ChannelsAreStreams, Subscribers
<1>3. ASSUME NEW s \in Sessions PROVE RowOK(s) /\ PublishedOK(s)
  <2>1. published[s] = <<>> /\ (s \notin Running => runs[s] = 0)
    BY DEF Init
  <2>2. s \in Running => runs[s] = 1 /\ tracked[s] = 2
    BY DEF Init
  <2>3. s \in Running => session[s].total = 2 /\ session[s].status = "in_progress"
    BY DEF Init, NewRow
  <2> QED
    BY <2>1, <2>2, <2>3 DEF RowOK, PublishedOK, Present
<1>4. ASSUME NEW p \in Pages PROVE PageOK(p) /\ StreamOK(p)
  <2>1. /\ page[p].state = "closed" /\ generator[p] = "none" /\ wire[p] = <<>>
        /\ queue[p] = <<>> /\ fetch[p].asked = FALSE /\ fetch[p].again = FALSE
        /\ fetch[p].reply = None
    BY DEF Init, NoPage, NoFetch
  <2> QED
    BY <2>1 DEF PageOK, StreamOK
<1> QED
  BY <1>1, <1>2, <1>3, <1>4 DEF LiveInv

LEMMA OtherPages ==
    ASSUME LiveInv, UNCHANGED server, NEW q \in Pages,
           UNCHANGED <<generator[q], queue[q], wire[q], seen[q], page[q], fetch[q]>>
    PROVE  (PageOK(q) /\ StreamOK(q))'
BY DEF LiveInv, PageOK, NotNewer, StreamOK, WireOK, QueueOK, Deleted, Steady, Present, server

LEMMA SameRows ==
    ASSUME LiveInv, UNCHANGED server, NEW s \in Sessions
    PROVE  RowOK(s)' /\ PublishedOK(s)'
BY DEF LiveInv, RowOK, PublishedOK, Deleted, Steady, Present, server

\* The types of what concerns one tab or session.
LEMMA Types ==
    ASSUME LiveInv
    PROVE  /\ \A s \in Sessions :
                 /\ session[s] \in Row
                 /\ session[s].total \in Nat /\ session[s].reports \in Nat
                 /\ tracked[s] \in Nat /\ runs[s] \in Nat
                 /\ faults[s] \in SUBSET {"report", "finish", "deleted"}
                 /\ published[s] \in Seq(Message)
           /\ \A p \in Pages :
                 /\ page[p] \in Page /\ page[p].total \in Nat /\ page[p].entries \in Nat
                 /\ page[p].state \in PageState /\ page[p].session \in Sessions \cup {None}
                 /\ queue[p] \in Seq(Message) /\ wire[p] \in Seq(Message) /\ seen[p] \in Nat
                 /\ fetch[p].asked \in BOOLEAN /\ fetch[p].again \in BOOLEAN
                 /\ fetch[p].reply \in Nat \cup {None}
BY DEF LiveInv, TypeOK, Page, Row

-----------------------------------------------------------------------------
(* A step of the server on one session *)

\* What every such step on s does to the rows.
Moved(s) ==
    /\ session' \in [Sessions -> Row]
    /\ tracked' \in [Sessions -> Nat] /\ runs' \in [Sessions -> Nat]
    /\ faults' \in [Sessions -> SUBSET {"report", "finish", "deleted"}]
    /\ \A t \in Sessions \ {s} : UNCHANGED <<session[t], tracked[t], runs[t], faults[t]>>
    /\ faults[s] \subseteq faults'[s]
    /\ ~Deleted(s)' /\ Present(s) => Present(s)' /\ (runs[s] = 0 => runs'[s] = 0)
    /\ Steady(s)' /\ Present(s) => /\ session[s].total <= session'[s].total
                                   /\ session[s].reports <= session'[s].reports
    /\ RowOK(s)'
    /\ UNCHANGED <<channels, generator, wire, seen, page, fetch>>

LEMMA FaultsStay ==
    ASSUME NEW s \in Sessions, Moved(s)
    PROVE  (Steady(s)' => Steady(s)) /\ (~Deleted(s)' => ~Deleted(s))
           /\ (Steady(s)' => ~Deleted(s)')
BY DEF Moved, Steady, Deleted

LEMMA MovedOthers ==
    ASSUME LiveInv, NEW s \in Sessions, Moved(s), NEW t \in Sessions, t # s,
           published'[t] = published[t]
    PROVE  RowOK(t)' /\ PublishedOK(t)'
<1>1. /\ session'[t] = session[t] /\ tracked'[t] = tracked[t] /\ runs'[t] = runs[t]
      /\ faults'[t] = faults[t] /\ RowOK(t) /\ PublishedOK(t)
  BY DEF Moved, LiveInv
<1> QED
  BY <1>1 DEF RowOK, PublishedOK, Deleted, Steady, Present

LEMMA MovedPage ==
    ASSUME LiveInv, NEW s \in Sessions, Moved(s), NEW p \in Pages
    PROVE  PageOK(p)'
<1> DEFINE t == page[p].session
<1>1. /\ PageOK(p) /\ page[p].total \in Nat /\ page[p].entries \in Nat
      /\ fetch[p].reply \in Nat \cup {None}
      /\ generator' = generator /\ page' = page /\ fetch' = fetch
  BY Types DEF LiveInv, Moved
<1>2. CASE t # s
  <2>1. t \in Sessions => session'[t] = session[t] /\ faults'[t] = faults[t]
    BY <1>2 DEF Moved
  <2> QED
    BY <1>1, <2>1 DEF PageOK, NotNewer, Deleted, Steady, Present
<1>3. CASE t = s
  <2>1. Deleted(s) \/ Present(s) => Deleted(s)' \/ Present(s)'
    BY FaultsStay DEF Moved
  <2>2. ASSUME page[p].state # "closed", Steady(s)' PROVE NotNewer(p)'
    <3>1. /\ Present(s) /\ NotNewer(p)
      BY <1>1, <1>3, <2>2, FaultsStay DEF PageOK
    <3>2. /\ session[s].total \in Nat /\ session[s].reports \in Nat
          /\ session'[s].total \in Nat /\ session'[s].reports \in Nat
          /\ session[s].total <= session'[s].total
          /\ session[s].reports <= session'[s].reports
      BY <2>2, <3>1, Types DEF Moved, Row
    <3>3. /\ page[p].total <= session[s].total /\ page[p].entries <= session[s].reports
          /\ fetch[p].reply # None =>
                page[p].entries <= fetch[p].reply /\ fetch[p].reply <= session[s].reports
      BY <1>3, <3>1 DEF NotNewer
    <3>4. /\ page[p].total <= session'[s].total /\ page[p].entries <= session'[s].reports
      BY <1>1, <3>2, <3>3
    <3>5. fetch[p].reply # None => fetch[p].reply <= session'[s].reports
      BY <1>1, <3>2, <3>3
    <3> QED
      BY <1>1, <1>3, <3>3, <3>4, <3>5 DEF NotNewer
  <2> QED
    BY <1>1, <1>3, <2>1, <2>2 DEF PageOK
<1> QED
  BY <1>2, <1>3

LEMMA MovedAway ==
    ASSUME LiveInv, NEW s \in Sessions, Moved(s), NEW p \in Pages, page[p].session # s,
           queue'[p] = queue[p], \A t \in Sessions \ {s} : published'[t] = published[t]
    PROVE  StreamOK(p)'
<1> DEFINE t == page[p].session
<1>1. /\ PageOK(p) /\ StreamOK(p) /\ generator' = generator /\ page' = page
      /\ wire' = wire /\ seen' = seen
  BY DEF LiveInv, Moved
<1>2. page[p].state # "closed" \/ generator[p] # "none" =>
         /\ t \in Sessions /\ faults'[t] = faults[t] /\ runs'[t] = runs[t]
         /\ published'[t] = published[t]
  BY <1>1 DEF PageOK, Moved
<1>3. page[p].state # "closed" => (WireOK(p) => WireOK(p)') /\ (QueueOK(p) => QueueOK(p)')
  BY <1>1, <1>2 DEF WireOK, QueueOK, Deleted, Steady
<1> QED
  BY <1>1, <1>2, <1>3 DEF StreamOK, Deleted

\* Nothing is broadcast.
LEMMA MovedSilently ==
    ASSUME LiveInv, NEW s \in Sessions, Moved(s), UNCHANGED <<published, queue>>
    PROVE  LiveInv'
<1>1. /\ generator' = generator /\ page' = page /\ wire' = wire /\ seen' = seen
      /\ fetch' = fetch /\ channels' = channels
  BY DEF Moved
<1>2. TypeOK'
  BY <1>1 DEF LiveInv, TypeOK, Moved
<1>3. ChannelsAreStreams'
  BY <1>1 DEF LiveInv, ChannelsAreStreams, Subscribers
<1>4. PublishedOK(s)'
  <2>1. PublishedOK(s) /\ RowOK(s) /\ session[s].total \in Nat /\ session'[s].total \in Nat
        /\ published[s] \in Seq(Message)
    BY Types DEF LiveInv, Moved, Row
  <2>2. \A i \in 1 .. Len(published[s]) : published[s][i].total \in Nat
    <3>1. \A i \in 1 .. Len(published[s]) : published[s][i] \in Message
      BY <2>1
    <3> QED
      BY <3>1 DEF Message
  <2>3. CASE Present(s)
    <3> SUFFICES ASSUME Steady(s)'
                 PROVE  /\ \A i, j \in 1 .. Len(published[s]) :
                              i <= j => published[s][i].total <= published[s][j].total
                        /\ \A i \in 1 .. Len(published[s]) :
                              /\ published[s][i].total <= session'[s].total
                              /\ published[s][i].type = "session_finish" =>
                                    i = Len(published[s]) /\ runs'[s] = 0
      BY DEF PublishedOK
    <3>1. Steady(s) /\ session[s].total <= session'[s].total
          /\ (runs[s] = 0 => runs'[s] = 0)
      BY <2>3, FaultsStay DEF Moved
    <3> QED
      BY <2>1, <2>2, <3>1 DEF PublishedOK
  <2>4. CASE ~Present(s)
    <3>1. Steady(s)' => published[s] = <<>>
      BY <2>1, <2>4, FaultsStay DEF RowOK
    <3> QED
      BY <3>1 DEF PublishedOK
  <2> QED
    BY <2>3, <2>4
<1>5. ASSUME NEW t \in Sessions PROVE RowOK(t)' /\ PublishedOK(t)'
  BY <1>4, MovedOthers DEF Moved
<1>6. ASSUME NEW p \in Pages PROVE StreamOK(p)'
  <2>1. CASE page[p].session # s
    BY <2>1, MovedAway
  <2>2. CASE page[p].session = s
    <3>1. PageOK(p) /\ StreamOK(p)
      BY DEF LiveInv
    <3>2. (WireOK(p) => WireOK(p)') /\ (QueueOK(p) => QueueOK(p)')
      BY <1>1, <2>2, FaultsStay DEF WireOK, QueueOK
    <3>3. generator[p] = "left" /\ ~Deleted(s)' => runs'[s] = 0
      BY <2>2, <3>1, FaultsStay DEF Moved, PageOK, StreamOK
    <3> QED
      BY <1>1, <2>2, <3>1, <3>2, <3>3 DEF StreamOK
  <2> QED
    BY <2>1, <2>2
<1> QED
  BY <1>2, <1>3, <1>5, <1>6, MovedPage DEF LiveInv

\* A message is broadcast, by a run of s or with its start.
LEMMA MovedTold ==
    ASSUME LiveInv, NEW s \in Sessions, Moved(s), NEW m \in Message, Broadcast(s, m),
           m.total = session'[s].total,
           runs[s] > 0 \/ ~Present(s),
           m.type = "session_finish" /\ Steady(s)' => runs'[s] = 0
    PROVE  LiveInv'
<1> DEFINE n == Len(published[s])
<1>1. /\ generator' = generator /\ page' = page /\ wire' = wire /\ seen' = seen
      /\ fetch' = fetch /\ channels' = channels
      /\ published[s] \in Seq(Message) /\ n \in Nat /\ runs[s] \in Nat
      /\ session[s].total \in Nat /\ session'[s].total \in Nat
  BY Types DEF Moved, Row
<1>2. /\ published' = [published EXCEPT ![s] = Append(@, m)]
      /\ queue' = [p \in Pages |-> IF p \in Subscribers(s) THEN Append(queue[p], m)
                                   ELSE queue[p]]
  BY DEF Broadcast
<1>3. /\ published' \in [Sessions -> Seq(Message)]
      /\ queue' \in [Pages -> Seq(Message)]
  BY <1>2 DEF LiveInv, TypeOK
<1>4. TypeOK'
  BY <1>1, <1>3 DEF LiveInv, TypeOK, Moved
<1>5. ChannelsAreStreams'
  BY <1>1 DEF LiveInv, ChannelsAreStreams, Subscribers
<1>6. /\ published'[s] = Append(published[s], m) /\ Len(published'[s]) = n + 1
      /\ \A i \in 1 .. n : published'[s][i] = published[s][i]
      /\ published'[s][n + 1] = m
      /\ \A t \in Sessions \ {s} : published'[t] = published[t]
  BY <1>1, <1>2 DEF LiveInv, TypeOK
<1>7. \A i \in 1 .. n : published[s][i].total \in Nat
  <2>1. \A i \in 1 .. n : published[s][i] \in Message
    BY <1>1
  <2> QED
    BY <2>1 DEF Message
<1>8. ASSUME Steady(s)', NEW i \in 1 .. n
      PROVE  /\ Steady(s) /\ Present(s) /\ published[s][i].total <= session'[s].total
             /\ published[s][i].type # "session_finish"
  <2>1. RowOK(s) /\ PublishedOK(s) /\ Steady(s) /\ ~Deleted(s)
    BY <1>8, FaultsStay DEF LiveInv
  <2>2. Present(s)
    BY <1>8, <2>1 DEF RowOK
  <2>3. runs[s] # 0 /\ session[s].total <= session'[s].total
    BY <1>1, <1>8, <2>2 DEF Moved
  <2>4. published[s][i].total <= session[s].total
        /\ published[s][i].type # "session_finish"
    BY <2>1, <2>3 DEF PublishedOK
  <2> QED
    BY <1>1, <1>7, <2>1, <2>2, <2>3, <2>4
<1>9. PublishedOK(s)'
  <2> SUFFICES ASSUME Steady(s)'
               PROVE  /\ \A i, j \in 1 .. n + 1 :
                            i <= j => published'[s][i].total <= published'[s][j].total
                      /\ \A i \in 1 .. n + 1 :
                            /\ published'[s][i].total <= session'[s].total
                            /\ published'[s][i].type = "session_finish" =>
                                  i = n + 1 /\ runs'[s] = 0
    BY <1>6 DEF PublishedOK
  <2>1. ASSUME NEW i \in 1 .. n + 1
        PROVE  /\ published'[s][i].total <= session'[s].total
               /\ published'[s][i].type = "session_finish" => i = n + 1 /\ runs'[s] = 0
    <3>1. CASE i = n + 1
      BY <1>1, <1>6, <3>1
    <3>2. CASE i \in 1 .. n
      BY <1>6, <1>8, <3>2
    <3> QED
      BY <1>1, <3>1, <3>2
  <2>2. ASSUME NEW i \in 1 .. n + 1, NEW j \in 1 .. n + 1, i <= j
        PROVE  published'[s][i].total <= published'[s][j].total
    <3>1. CASE j = n + 1
      BY <1>6, <2>1, <3>1
    <3>2. CASE i \in 1 .. n /\ j \in 1 .. n
      <4>1. PublishedOK(s) /\ Steady(s)
        BY <1>8, <3>2 DEF LiveInv
      <4> QED
        BY <1>6, <2>2, <3>2, <4>1 DEF PublishedOK
    <3> QED
      BY <1>1, <2>2, <3>1, <3>2
  <2> QED
    BY <2>1, <2>2
<1>10. ASSUME NEW t \in Sessions PROVE RowOK(t)' /\ PublishedOK(t)'
  BY <1>6, <1>9, MovedOthers DEF Moved
<1>11. ASSUME NEW p \in Pages PROVE StreamOK(p)'
  <2>1. CASE page[p].session # s
    <3>1. queue'[p] = queue[p]
      BY <1>2, <2>1 DEF LiveInv, ChannelsAreStreams
    <3> QED
      BY <1>6, <2>1, <3>1, MovedAway
  <2>2. CASE page[p].session = s
    <3>1. /\ PageOK(p) /\ StreamOK(p) /\ page[p].total \in Nat
          /\ wire[p] \in Seq(Message) /\ queue[p] \in Seq(Message) /\ seen[p] \in Nat
          /\ Len(wire[p]) \in Nat /\ Len(queue[p]) \in Nat
      BY Types DEF LiveInv
    <3>2. p \in Subscribers(s) <=> generator[p] = "running"
      BY <2>2 DEF LiveInv, ChannelsAreStreams
    <3>3. generator[p] = "left" => Deleted(s)'
      BY <1>1, <2>2, <3>1, FaultsStay DEF PageOK, StreamOK
    <3>4. ASSUME page[p].state # "closed", Steady(s)' PROVE page[p].total <= m.total
      <4>1. Present(s) /\ NotNewer(p)
        BY <2>2, <3>1, <3>4, FaultsStay DEF PageOK
      <4> QED
        BY <1>1, <2>2, <3>1, <3>4, <4>1 DEF NotNewer, Moved
    <3> DEFINE a == seen[p]
               w == Len(wire[p])
               l == Len(queue[p])
    <3>5. ASSUME page[p].state = "live", WireOK(p),
                 Len(queue'[p]) = l \/ (QueueOK(p) /\ generator[p] = "running"
                                         /\ Len(queue'[p]) = l + 1)
          PROVE  WireOK(p)'
      <4>1. /\ a \in Nat /\ w \in Nat /\ l \in Nat /\ n \in Nat /\ a + w + l <= n
            /\ a + w + Len(queue'[p]) <= n + 1
        <5>1. /\ a \in Nat /\ w \in Nat /\ l \in Nat /\ n \in Nat /\ a + w + l <= n
          BY <1>1, <2>2, <3>1, <3>5 DEF WireOK
        <5>2. Len(queue'[p]) = l \/ Len(queue'[p]) = l + 1
          BY <3>5
        <5> HIDE DEF a, w, l, n
        <5> QED
          BY <5>1, <5>2
      <4>2. ASSUME NEW i \in 1 .. w PROVE wire[p][i] = published'[s][a + i]
        <5>1. a + i \in 1 .. n
          <6> HIDE DEF a, w, l, n
          <6> QED
            BY <4>1
        <5> QED
          BY <1>6, <2>2, <3>5, <5>1 DEF WireOK
      <4>3. ASSUME Steady(s)', NEW j \in a + 1 .. n + 1
            PROVE  page[p].total <= published'[s][j].total
        <5>1. CASE j = n + 1
          BY <1>6, <3>4, <3>5, <4>3, <5>1
        <5>2. CASE j # n + 1
          <6>1. j \in a + 1 .. n /\ j \in 1 .. n
            <7> HIDE DEF a, w, l, n
            <7> QED
              BY <4>1, <5>2
          <6>2. Steady(s)
            BY <4>3, FaultsStay
          <6> QED
            BY <1>6, <2>2, <3>5, <6>1, <6>2 DEF WireOK
        <5> QED
          BY <5>1, <5>2
      <4> QED
        BY <1>1, <1>6, <2>2, <4>1, <4>2, <4>3 DEF WireOK
    <3>6. CASE generator[p] = "running"
      <4>1. /\ queue'[p] = Append(queue[p], m) /\ Len(queue'[p]) = l + 1
            /\ \A i \in 1 .. l : queue'[p][i] = queue[p][i]
            /\ queue'[p][l + 1] = m
        BY <1>2, <3>1, <3>2, <3>6
      <4>2. ASSUME page[p].state = "live" PROVE WireOK(p)' /\ QueueOK(p)'
        <5>1. WireOK(p) /\ QueueOK(p)
          BY <3>1, <3>6, <4>2 DEF StreamOK
        <5>2. /\ a \in Nat /\ w \in Nat /\ l \in Nat /\ n \in Nat /\ a + w + l = n
          BY <1>1, <2>2, <3>1, <3>6, <5>1 DEF QueueOK
        <5>3. a + w + (l + 1) = n + 1
          <6> HIDE DEF a, w, l, n
          <6> QED
            BY <5>2
        <5>4. ASSUME NEW i \in 1 .. l + 1
              PROVE  queue'[p][i] = published'[s][a + w + i]
          <6>1. CASE i = l + 1
            <7>1. a + w + i = n + 1
              <8> HIDE DEF a, w, l, n
              <8> QED
                BY <5>2, <6>1
            <7> QED
              BY <1>6, <4>1, <6>1, <7>1
          <6>2. CASE i \in 1 .. l
            <7>1. a + w + i \in 1 .. n
              <8> HIDE DEF a, w, l, n
              <8> QED
                BY <5>2, <6>2
            <7> QED
              BY <1>6, <2>2, <4>1, <5>1, <6>2, <7>1 DEF QueueOK
          <6> QED
            BY <5>2, <6>1, <6>2
        <5>5. QueueOK(p)'
          BY <1>1, <1>6, <2>2, <4>1, <5>3, <5>4 DEF QueueOK
        <5> QED
          BY <3>5, <3>6, <4>1, <4>2, <5>1, <5>5
      <4> QED
        BY <1>1, <3>1, <3>6, <4>2 DEF StreamOK
    <3>7. CASE generator[p] # "running"
      <4>1. queue'[p] = queue[p]
        BY <1>2, <3>2, <3>7
      <4>2. page[p].state = "live" /\ WireOK(p) => WireOK(p)'
        BY <3>5, <4>1
      <4>3. ASSUME page[p].state = "live", generator[p] = "left", WireOK(p), QueueOK(p)
            PROVE  QueueOK(p)'
        <5>1. ASSUME NEW i \in 1 .. l
              PROVE  queue[p][i] = published'[s][a + w + i]
          <6>1. a \in Nat /\ w \in Nat /\ l \in Nat /\ n \in Nat /\ a + w + l <= n
            BY <1>1, <2>2, <3>1, <4>3 DEF WireOK
          <6>2. a + w + i \in 1 .. n
            <7> HIDE DEF a, w, l, n
            <7> QED
              BY <6>1
          <6> QED
            BY <1>6, <2>2, <4>3, <6>2 DEF QueueOK
        <5> QED
          BY <1>1, <2>2, <3>3, <4>1, <4>3, <5>1 DEF QueueOK
      <4>4. StreamOK(p)'
        BY <1>1, <2>2, <3>1, <3>3, <3>7, <4>1, <4>2, <4>3 DEF StreamOK
      <4> QED
        BY <4>4
    <3> QED
      BY <3>6, <3>7
  <2> QED
    BY <2>1, <2>2
<1> QED
  BY <1>4, <1>5, <1>10, <1>11, MovedPage DEF LiveInv

\* The row and the message of an event, whatever becomes of its commit.
LEMMA StoreIs ==
    ASSUME LiveInv, NEW s \in Sessions, NEW row \in Row, NEW result, Store(s, row, result)
    PROVE  /\ session' \in [Sessions -> Row]
           /\ \A t \in Sessions \ {s} : session'[t] = session[t]
           /\ session'[s] = IF result = "commit_fails" THEN session[s] ELSE row
BY DEF Store, LiveInv, TypeOK

LEMMA TellIs ==
    ASSUME LiveInv, NEW s \in Sessions, Moved(s), NEW type \in {"update", "session_finish"},
           NEW result, Tell(s, type, result), runs[s] > 0 \/ ~Present(s),
           result = "ok" /\ type = "session_finish" /\ Steady(s)' => runs'[s] = 0
    PROVE  LiveInv'
<1>1. CASE result = "ok"
  <2>1. PICK m : m = [type |-> type, total |-> session'[s].total]
    OBVIOUS
  <2>2. m \in Message /\ m.total = session'[s].total /\ m.type = type
    BY <2>1 DEF Message, Moved, Row
  <2>3. Broadcast(s, m)
    BY <1>1, <2>1 DEF Tell
  <2> QED
    BY <1>1, <2>2, <2>3, MovedTold
<1>2. CASE result # "ok"
  BY <1>2, MovedSilently DEF Tell
<1> QED
  BY <1>1, <1>2

\* A history entry is made, and none is lost.
LEMMA BlameIs ==
    ASSUME LiveInv, NEW s \in Sessions, NEW kind \in {"report", "finish", "deleted"},
           UNCHANGED faults \/ Blame(s, kind)
    PROVE  /\ faults' \in [Sessions -> SUBSET {"report", "finish", "deleted"}]
           /\ \A t \in Sessions \ {s} : faults'[t] = faults[t]
           /\ faults[s] \subseteq faults'[s]
           /\ Blame(s, kind) => kind \in faults'[s]
<1>1. faults \in [Sessions -> SUBSET {"report", "finish", "deleted"}]
  BY DEF LiveInv, TypeOK
<1>2. CASE UNCHANGED faults /\ ~Blame(s, kind)
  BY <1>1, <1>2
<1>3. CASE Blame(s, kind)
  <2>1. PICK new \in SUBSET {"report", "finish", "deleted"} :
           new = faults[s] \cup {kind} /\ faults' = [faults EXCEPT ![s] = new]
    BY <1>1, <1>3 DEF Blame
  <2> QED
    BY <1>1, <2>1
<1> QED
  BY <1>2, <1>3

LEMMA LiveStart ==
    ASSUME LiveInv, NEW s \in Sessions, NEW result, SessionStart(s, result)
    PROVE  LiveInv'
<1>1. /\ NextId(s) /\ Store(s, NewRow, result) /\ Tell(s, "update", result)
      /\ UNCHANGED <<faults, channels, generator, wire, seen, page, fetch>>
      /\ tracked' = IF result = "ok" THEN [tracked EXCEPT ![s] = 0] ELSE tracked
      /\ runs' = IF result = "ok" THEN [runs EXCEPT ![s] = @ + 1] ELSE runs
  BY DEF SessionStart, client
<1>2. ~Present(s)
  BY <1>1, LiveAssumption DEF NextId
<1>3. NewRow \in Row /\ NewRow.total = 0 /\ NewRow.status = "in_progress"
  BY DEF NewRow, Row
<1>4. /\ session' \in [Sessions -> Row]
      /\ \A t \in Sessions \ {s} : session'[t] = session[t]
      /\ session'[s] = IF result = "commit_fails" THEN session[s] ELSE NewRow
  BY <1>1, <1>3, StoreIs
<1>5. /\ tracked' \in [Sessions -> Nat] /\ runs' \in [Sessions -> Nat]
      /\ \A t \in Sessions \ {s} : tracked'[t] = tracked[t] /\ runs'[t] = runs[t]
      /\ result = "ok" => tracked'[s] = 0 /\ runs'[s] = runs[s] + 1
      /\ result # "ok" => runs'[s] = runs[s]
  BY <1>1 DEF LiveInv, TypeOK
<1>6. RowOK(s) /\ (Steady(s) => ~Deleted(s)) /\ runs[s] \in Nat
  BY Types DEF LiveInv, Steady, Deleted
<1>7. RowOK(s)'
  <2>1. CASE result = "ok"
    <3>1. Present(s)' /\ session'[s].total = 0 /\ tracked'[s] = 0 /\ runs'[s] = runs[s] + 1
      BY <1>3, <1>4, <1>5, <2>1 DEF Present
    <3>2. Steady(s)' => runs[s] = 0
      BY <1>1, <1>2, <1>6 DEF RowOK, Steady, Deleted
    <3> QED
      BY <3>1, <3>2 DEF RowOK
  <2>2. CASE result # "ok"
    <3>1. published' = published /\ runs'[s] = runs[s] /\ faults' = faults
      BY <1>1, <1>5, <2>2 DEF Tell
    <3> QED
      BY <1>2, <1>6, <3>1 DEF RowOK, Steady, Deleted
  <2> QED
    BY <2>1, <2>2
<1>8. Moved(s)
  BY <1>1, <1>2, <1>4, <1>5, <1>7 DEF Moved, LiveInv, TypeOK
<1> QED
  BY <1>1, <1>2, <1>8, TellIs

LEMMA LiveReport ==
    ASSUME LiveInv, NEW s \in Sessions, NEW result, TestReport(s, result)
    PROVE  LiveInv'
<1> DEFINE total == tracked[s] + 1
           reports == session[s].reports + 1
           row == [session[s] EXCEPT !.total = total, !.reports = reports]
<1>1. /\ runs[s] > 0 /\ Present(s) /\ Store(s, row, result) /\ Tell(s, "update", result)
      /\ tracked' = [tracked EXCEPT ![s] = @ + 1]
      /\ UNCHANGED faults \/ Blame(s, "report")
      /\ UNCHANGED <<runs, channels, generator, wire, seen, page, fetch>>
  BY DEF TestReport, BlameIfFailed, client
<1>2. /\ tracked[s] \in Nat /\ runs[s] \in Nat /\ session[s] \in Row
      /\ session[s].total \in Nat /\ session[s].reports \in Nat /\ RowOK(s)
  BY Types DEF LiveInv
<1>3. /\ row \in Row /\ row.total = tracked[s] + 1 /\ row.reports = session[s].reports + 1
      /\ row.status = session[s].status
  <2>1. total \in Nat /\ reports \in Nat
    BY <1>2
  <2> HIDE DEF total, reports
  <2>2. row \in Row /\ row.total = total /\ row.reports = reports
        /\ row.status = session[s].status
    BY <1>2, <2>1 DEF Row
  <2> QED
    BY <2>2 DEF total, reports
<1> HIDE DEF row
<1>4. /\ session' \in [Sessions -> Row]
      /\ \A t \in Sessions \ {s} : session'[t] = session[t]
      /\ session'[s] = IF result = "commit_fails" THEN session[s] ELSE row
  BY <1>1, <1>3, StoreIs
<1>5. /\ faults' \in [Sessions -> SUBSET {"report", "finish", "deleted"}]
      /\ \A t \in Sessions \ {s} : faults'[t] = faults[t]
      /\ faults[s] \subseteq faults'[s]
  BY <1>1, BlameIs
<1>6. /\ tracked' \in [Sessions -> Nat] /\ tracked'[s] = tracked[s] + 1
      /\ \A t \in Sessions \ {s} : tracked'[t] = tracked[t]
  BY <1>1, <1>2 DEF LiveInv, TypeOK
<1>7. Steady(s)' => Steady(s)
  BY <1>5 DEF Steady
<1>8. Steady(s) => runs[s] = 1 /\ session[s].total <= tracked[s]
  BY <1>1, <1>2 DEF RowOK
<1>9. Present(s)' /\ runs' = runs
  BY <1>1, <1>3, <1>4 DEF Present
<1>10. session'[s].total \in {session[s].total, tracked[s] + 1}
       /\ session'[s].reports \in {session[s].reports, session[s].reports + 1}
  BY <1>3, <1>4
<1>11. Steady(s)' => /\ session[s].total <= session'[s].total
                     /\ session[s].reports <= session'[s].reports
                     /\ session'[s].total <= tracked'[s]
  BY <1>2, <1>6, <1>7, <1>8, <1>10
<1>12. RowOK(s)'
  BY <1>7, <1>8, <1>9, <1>11 DEF RowOK
<1>13. Moved(s)
  BY <1>1, <1>4, <1>5, <1>6, <1>9, <1>11, <1>12 DEF Moved, LiveInv, TypeOK
<1> QED
  BY <1>1, <1>13, TellIs

LEMMA LiveAnnounce ==
    ASSUME LiveInv, NEW s \in Sessions, Announce(s)
    PROVE  LiveInv'
<1>1. /\ runs[s] > 0 /\ Present(s) /\ Tell(s, "update", "ok")
      /\ UNCHANGED <<session, tracked, runs, faults, channels, generator, wire, seen, page,
                     fetch>>
  BY DEF Announce, client
<1>2. RowOK(s)'
  BY <1>1 DEF LiveInv, RowOK, Present, Steady, Deleted
<1>3. Present(s)' /\ session[s].total \in Nat /\ session[s].reports \in Nat
  BY <1>1, Types DEF Present
<1>4. Moved(s)
  BY <1>1, <1>2, <1>3 DEF Moved, LiveInv, TypeOK
<1> QED
  BY <1>1, <1>4, TellIs

LEMMA LiveFinish ==
    ASSUME LiveInv, NEW s \in Sessions, NEW result, SessionFinish(s, result)
    PROVE  LiveInv'
<1> DEFINE row == [session[s] EXCEPT !.status = "completed"]
<1>1. /\ runs[s] > 0 /\ Present(s) /\ Store(s, row, result)
      /\ Tell(s, "session_finish", result)
      /\ tracked' = [tracked EXCEPT ![s] = 0]
      /\ runs' = IF result = "ok" THEN [runs EXCEPT ![s] = @ - 1] ELSE runs
      /\ IF result = "ok" THEN UNCHANGED faults ELSE Blame(s, "finish")
      /\ UNCHANGED <<channels, generator, wire, seen, page, fetch>>
  BY DEF SessionFinish, BlameIfFailed, client
<1>2. /\ runs[s] \in Nat /\ session[s] \in Row
      /\ session[s].total \in Nat /\ session[s].reports \in Nat /\ RowOK(s)
  BY Types DEF LiveInv
<1>3. /\ row \in Row /\ row.total = session[s].total /\ row.reports = session[s].reports
      /\ row.status = "completed"
  BY <1>2 DEF Row
<1> HIDE DEF row
<1>4. /\ session' \in [Sessions -> Row]
      /\ \A t \in Sessions \ {s} : session'[t] = session[t]
      /\ session'[s] = IF result = "commit_fails" THEN session[s] ELSE row
  BY <1>1, <1>3, StoreIs
<1>5. /\ faults' \in [Sessions -> SUBSET {"report", "finish", "deleted"}]
      /\ \A t \in Sessions \ {s} : faults'[t] = faults[t]
      /\ faults[s] \subseteq faults'[s]
      /\ result # "ok" => "finish" \in faults'[s]
  BY <1>1, BlameIs
<1>6. /\ tracked' \in [Sessions -> Nat]
      /\ runs' \in [Sessions -> Nat]
      /\ \A t \in Sessions \ {s} : tracked'[t] = tracked[t] /\ runs'[t] = runs[t]
      /\ result = "ok" => runs'[s] = runs[s] - 1
  BY <1>1, <1>2 DEF LiveInv, TypeOK
<1>7. Steady(s)' => result = "ok" /\ Steady(s)
  BY <1>5 DEF Steady
<1>8. Steady(s)' => runs'[s] = 0
  BY <1>1, <1>2, <1>6, <1>7 DEF RowOK
<1>9. Present(s)' /\ session'[s].total = session[s].total
      /\ session'[s].reports = session[s].reports
  BY <1>1, <1>3, <1>4 DEF Present
<1>10. RowOK(s)'
  BY <1>8, <1>9 DEF RowOK
<1>11. Moved(s)
  BY <1>1, <1>2, <1>4, <1>5, <1>6, <1>9, <1>10 DEF Moved
<1> QED
  BY <1>1, <1>8, <1>11, TellIs

LEMMA LiveDelete ==
    ASSUME LiveInv, NEW s \in Sessions, DeleteSession(s)
    PROVE  LiveInv'
<1>1. /\ session' = [session EXCEPT ![s] = NoRow] /\ Blame(s, "deleted")
      /\ UNCHANGED <<tracked, runs, published, channels, queue, generator, wire, seen, page,
                     fetch>>
  BY DEF DeleteSession, stream, client
<1>2. /\ faults' \in [Sessions -> SUBSET {"report", "finish", "deleted"}]
      /\ \A t \in Sessions \ {s} : faults'[t] = faults[t]
      /\ faults[s] \subseteq faults'[s] /\ "deleted" \in faults'[s]
  BY <1>1, BlameIs
<1>3. Deleted(s)' /\ ~Steady(s)'
  BY <1>2 DEF Deleted, Steady
<1>4. session' \in [Sessions -> Row] /\ \A t \in Sessions \ {s} : session'[t] = session[t]
  BY <1>1 DEF LiveInv, TypeOK, Row, NoRow
<1>5. Moved(s)
  BY <1>1, <1>2, <1>3, <1>4 DEF Moved, RowOK, LiveInv, TypeOK
<1> QED
  BY <1>1, <1>5, MovedSilently

-----------------------------------------------------------------------------
(* Steps of one tab *)

LEMMA PageStepInv ==
    ASSUME LiveInv, NEW p \in Pages, UNCHANGED server, TypeOK', ChannelsAreStreams',
           \A q \in Pages \ {p} :
              UNCHANGED <<generator[q], queue[q], wire[q], seen[q], page[q], fetch[q]>>,
           PageOK(p)', StreamOK(p)'
    PROVE  LiveInv'
<1>1. \A s \in Sessions : RowOK(s)' /\ PublishedOK(s)'
  BY SameRows
<1>2. \A q \in Pages : PageOK(q)' /\ StreamOK(q)'
  BY OtherPages
<1> QED
  BY <1>1, <1>2 DEF LiveInv

LEMMA SameChannels ==
    ASSUME LiveInv, UNCHANGED channels,
           \A q \in Pages : /\ generator'[q] = "running" <=> generator[q] = "running"
                            /\ generator[q] = "running" => UNCHANGED page[q].session
    PROVE  ChannelsAreStreams'
<1>1. \A s \in Sessions : Subscribers(s)' = Subscribers(s)
  BY DEF Subscribers
<1>2. \A s \in Sessions :
         {q \in Pages : generator'[q] = "running" /\ page'[q].session = s}
         = {q \in Pages : generator[q] = "running" /\ page[q].session = s}
  OBVIOUS
<1> QED
  BY <1>1, <1>2 DEF LiveInv, ChannelsAreStreams

\* The channels once one session has other subscribers.
LEMMA WithSubscribersIs ==
    ASSUME LiveInv, NEW s \in Sessions, NEW Q \in SUBSET Pages,
           channels' = WithSubscribers(s, Q)
    PROVE  /\ DOMAIN channels' \subseteq Sessions
           /\ \A t \in DOMAIN channels' : channels'[t] \subseteq Pages /\ channels'[t] # {}
           /\ Subscribers(s)' = Q
           /\ \A t \in Sessions : t # s => Subscribers(t)' = Subscribers(t)
BY DEF LiveInv, TypeOK, ChannelsAreStreams, WithSubscribers, Subscribers

\* A session that is rendered is there, and its page has what is stored.
LEMMA OpenedIs ==
    ASSUME LiveInv, NEW p \in Pages, NEW s \in Sessions, Opened(p, s), generator[p] = "none"
    PROVE  /\ Present(s)
           /\ \E state \in {"live", "cut", "final"} :
                 /\ page' = [page EXCEPT ![p] = Shown(s, state)]
                 /\ generator' = [generator EXCEPT ![p] = IF state = "live" THEN "requested"
                                                           ELSE "none"]
                 /\ Shown(s, state) \in Page /\ Shown(s, state).state = state
                 /\ Shown(s, state).session = s /\ Shown(s, state).total = session[s].total
                 /\ Shown(s, state).entries = session[s].reports
                 /\ page'[p] = Shown(s, state) /\ generator'[p] \in {"requested", "none"}
                 /\ \A q \in Pages \ {p} : UNCHANGED <<generator[q], page[q]>>
<1>1. session[s].total \in Nat /\ session[s].reports \in Nat
  BY Types
<1>2. Present(s)
  BY DEF Opened, Present
<1>3. PICK state \in {"live", "cut", "final"} :
         /\ page' = [page EXCEPT ![p] = Shown(s, state)]
         /\ generator' = [generator EXCEPT ![p] = IF state = "live" THEN "requested"
                                                   ELSE "none"]
  BY DEF Opened, LiveInv, TypeOK
<1>4. /\ Shown(s, state) \in Page /\ Shown(s, state).state = state
      /\ Shown(s, state).session = s /\ Shown(s, state).total = session[s].total
      /\ Shown(s, state).entries = session[s].reports
  BY <1>1 DEF Shown, Page, PageState
<1>5. /\ page'[p] = Shown(s, state) /\ generator'[p] \in {"requested", "none"}
      /\ \A q \in Pages \ {p} : UNCHANGED <<generator[q], page[q]>>
  BY <1>3 DEF LiveInv, TypeOK
<1> QED
  BY <1>2, <1>3, <1>4, <1>5

LEMMA LiveView ==
    ASSUME LiveInv, NEW p \in Pages, NEW s \in Sessions, ViewSession(p, s)
    PROVE  LiveInv'
<1>1. /\ page[p].state = "closed" /\ generator[p] = "none" /\ Opened(p, s)
      /\ UNCHANGED <<server, channels, queue, wire, seen, fetch>>
      /\ session[s].total \in Nat /\ session[s].reports \in Nat
  BY Types DEF ViewSession
<1>2. PICK state \in {"live", "cut", "final"} :
         /\ page' = [page EXCEPT ![p] = Shown(s, state)]
         /\ generator' = [generator EXCEPT ![p] = IF state = "live" THEN "requested"
                                                   ELSE "none"]
         /\ Shown(s, state) \in Page /\ Shown(s, state).state = state
         /\ Shown(s, state).session = s /\ Shown(s, state).total = session[s].total
         /\ Shown(s, state).entries = session[s].reports
         /\ page'[p] = Shown(s, state) /\ generator'[p] \in {"requested", "none"}
         /\ \A q \in Pages \ {p} : UNCHANGED <<generator[q], page[q]>>
  BY <1>1, OpenedIs
<1>3. TypeOK'
  BY <1>1, <1>2 DEF LiveInv, TypeOK, server
<1>4. ChannelsAreStreams'
  BY <1>1, <1>2, SameChannels
<1>5. /\ wire[p] = <<>> /\ queue[p] = <<>> /\ fetch[p].reply = None
      /\ ~fetch[p].asked /\ ~fetch[p].again
  BY <1>1 DEF LiveInv, PageOK, StreamOK
<1>6. PageOK(p)'
  <2>1. Present(s)'
    BY <1>1, OpenedIs DEF Present, server
  <2>2. /\ page'[p].session = s /\ page'[p].total = session'[s].total
        /\ page'[p].entries = session'[s].reports /\ fetch'[p].reply = None
        /\ session'[s].total \in Nat /\ session'[s].reports \in Nat
    BY <1>1, <1>2, <1>5 DEF server
  <2>3. NotNewer(p)'
    BY <2>2 DEF NotNewer
  <2> QED
    BY <1>1, <1>2, <1>5, <2>1, <2>3 DEF PageOK
<1>7. StreamOK(p)'
  BY <1>1, <1>2, <1>5 DEF StreamOK
<1> QED
  BY <1>1, <1>2, <1>3, <1>4, <1>6, <1>7, PageStepInv

LEMMA LiveSubscribe ==
    ASSUME LiveInv, NEW p \in Pages, Subscribe(p)
    PROVE  LiveInv'
<1>1. PICK s \in Sessions : s = page[p].session
  BY DEF Subscribe, LiveInv, PageOK
<1>2. /\ generator[p] = "requested" /\ generator' = [generator EXCEPT ![p] = "running"]
      /\ channels' = WithSubscribers(s, Subscribers(s) \cup {p})
      /\ queue' = [queue EXCEPT ![p] = <<>>]
      /\ seen' = [seen EXCEPT ![p] = Len(published[s])]
      /\ UNCHANGED <<server, wire, page, fetch>>
  BY <1>1 DEF Subscribe
<1>3. wire[p] = <<>> /\ PageOK(p)
  BY <1>2 DEF LiveInv, StreamOK
<1>4. Len(published[s]) \in Nat /\ Subscribers(s) \cup {p} \in SUBSET Pages
  BY Types DEF LiveInv, TypeOK, Subscribers
<1>5. /\ generator'[p] = "running" /\ queue'[p] = <<>> /\ seen'[p] = Len(published[s])
      /\ \A q \in Pages \ {p} : UNCHANGED <<generator[q], queue[q], seen[q]>>
  BY <1>2 DEF LiveInv, TypeOK
<1>6. /\ DOMAIN channels' \subseteq Sessions
      /\ \A t \in DOMAIN channels' : channels'[t] \subseteq Pages /\ channels'[t] # {}
      /\ Subscribers(s)' = Subscribers(s) \cup {p}
      /\ \A t \in Sessions : t # s => Subscribers(t)' = Subscribers(t)
  BY <1>2, <1>4, WithSubscribersIs
<1>7. TypeOK'
  <2>1. queue' \in [Pages -> Seq(Message)] /\ seen' \in [Pages -> Nat]
    BY <1>2, <1>4 DEF LiveInv, TypeOK
  <2>2. generator' \in [Pages -> {"none", "requested", "running", "left"}]
    BY <1>2 DEF LiveInv, TypeOK
  <2> QED
    BY <1>2, <1>6, <2>1, <2>2 DEF LiveInv, TypeOK, server
<1>8. ChannelsAreStreams'
  <2>1. \A t \in Sessions :
           Subscribers(t) = {q \in Pages : generator[q] = "running" /\ page[q].session = t}
    BY DEF LiveInv, ChannelsAreStreams
  <2>2. ASSUME NEW t \in Sessions
        PROVE  Subscribers(t)' = {q \in Pages : generator'[q] = "running"
                                               /\ page'[q].session = t}
    <3>1. CASE t = s
      BY <1>1, <1>2, <1>5, <1>6, <2>1, <3>1
    <3>2. CASE t # s
      BY <1>1, <1>2, <1>5, <1>6, <2>1, <3>2
    <3> QED
      BY <3>1, <3>2
  <2> QED
    BY <1>6, <2>2 DEF ChannelsAreStreams
<1>9. PageOK(p)'
  BY <1>1, <1>2, <1>3 DEF PageOK, NotNewer, Deleted, Steady, Present, server
<1>10. WireOK(p)' /\ QueueOK(p)'
  BY <1>1, <1>2, <1>3, <1>5, <1>4 DEF WireOK, QueueOK, Steady, server
<1>11. StreamOK(p)'
  BY <1>2, <1>3, <1>5, <1>10 DEF StreamOK
<1> QED
  BY <1>2, <1>5, <1>7, <1>8, <1>9, <1>11, PageStepInv

LEMMA UnsubscribeIs ==
    ASSUME LiveInv, NEW p \in Pages, page[p].session \in Sessions, Unsubscribe(p),
           generator' = [generator EXCEPT ![p] = "none"],
           \A q \in Pages : page'[q].session = page[q].session
    PROVE  /\ ChannelsAreStreams' /\ DOMAIN channels' \subseteq Sessions
           /\ \A t \in DOMAIN channels' : channels'[t] \subseteq Pages
<1>1. PICK s \in Sessions : s = page[p].session
  OBVIOUS
<1>2. generator'[p] = "none" /\ \A q \in Pages \ {p} : generator'[q] = generator[q]
  BY DEF LiveInv, TypeOK
<1>3. CASE generator[p] = "left"
  <2>1. UNCHANGED channels
    BY <1>3 DEF Unsubscribe
  <2>2. ChannelsAreStreams'
    BY <1>2, <1>3, <2>1, SameChannels
  <2> QED
    BY <2>1, <2>2 DEF LiveInv, TypeOK
<1>4. CASE generator[p] # "left"
  <2>1. Subscribers(s) \ {p} \in SUBSET Pages
    BY DEF Subscribers, LiveInv, TypeOK
  <2>2. channels' = WithSubscribers(s, Subscribers(s) \ {p})
    BY <1>1, <1>4 DEF Unsubscribe
  <2>3. /\ DOMAIN channels' \subseteq Sessions
        /\ \A t \in DOMAIN channels' : channels'[t] \subseteq Pages /\ channels'[t] # {}
        /\ Subscribers(s)' = Subscribers(s) \ {p}
        /\ \A t \in Sessions : t # s => Subscribers(t)' = Subscribers(t)
    BY <2>1, <2>2, WithSubscribersIs
  <2>4. \A t \in Sessions :
           Subscribers(t) = {q \in Pages : generator[q] = "running" /\ page[q].session = t}
    BY DEF LiveInv, ChannelsAreStreams
  <2>5. ASSUME NEW t \in Sessions
        PROVE  Subscribers(t)' = {q \in Pages : generator'[q] = "running"
                                               /\ page'[q].session = t}
    <3>1. CASE t = s
      BY <1>1, <1>2, <2>3, <2>4, <3>1
    <3>2. CASE t # s
      BY <1>1, <1>2, <2>3, <2>4, <3>2
    <3> QED
      BY <3>1, <3>2
  <2> QED
    BY <2>3, <2>5 DEF ChannelsAreStreams
<1> QED
  BY <1>3, <1>4

\* What SMT is to know of a message taken from a queue.
LEMMA Taken ==
    ASSUME NEW q \in Seq(Message), q # <<>>
    PROVE  /\ Head(q) \in Message /\ Head(q) = q[1] /\ Tail(q) \in Seq(Message)
           /\ Len(q) \in Nat \ {0} /\ Len(Tail(q)) = Len(q) - 1
           /\ \A i \in 1 .. Len(Tail(q)) : Tail(q)[i] = q[i + 1]
OBVIOUS

LEMMA LiveSend ==
    ASSUME LiveInv, NEW p \in Pages, Send(p)
    PROVE  LiveInv'
<1> DEFINE m == Head(queue[p])
<1>1. /\ generator[p] \in {"running", "left"} /\ page[p].state = "live" /\ queue[p] # <<>>
      /\ wire' = [wire EXCEPT ![p] = Append(@, m)]
      /\ queue' = [queue EXCEPT ![p] = IF m.type = "session_finish" THEN <<>> ELSE Tail(@)]
      /\ UNCHANGED <<server, seen, page, fetch>>
  BY DEF Send, LiveInv, TypeOK
<1>2. PICK s \in Sessions : s = page[p].session
  BY <1>1 DEF LiveInv, PageOK
<1>3. /\ queue[p] \in Seq(Message) /\ wire[p] \in Seq(Message) /\ seen[p] \in Nat
      /\ published[s] \in Seq(Message)
  BY Types
<1>4. /\ m \in Message /\ m = queue[p][1] /\ Tail(queue[p]) \in Seq(Message)
      /\ Len(queue[p]) \in Nat \ {0} /\ Len(Tail(queue[p])) = Len(queue[p]) - 1
      /\ \A i \in 1 .. Len(Tail(queue[p])) : Tail(queue[p])[i] = queue[p][i + 1]
  BY <1>1, <1>3, Taken
<1> HIDE DEF m
<1>5. /\ queue'[p] = IF m.type = "session_finish" THEN <<>> ELSE Tail(queue[p])
      /\ wire'[p] = Append(wire[p], m)
      /\ \A q \in Pages \ {p} : queue'[q] = queue[q] /\ wire'[q] = wire[q]
  BY <1>1 DEF LiveInv, TypeOK
<1>6. /\ Len(wire[p]) \in Nat /\ Len(wire'[p]) = Len(wire[p]) + 1
      /\ \A i \in 1 .. Len(wire[p]) : wire'[p][i] = wire[p][i]
      /\ wire'[p][Len(wire[p]) + 1] = m
  BY <1>3, <1>4, <1>5
<1>7. WireOK(p) /\ QueueOK(p)
  BY <1>1 DEF LiveInv, StreamOK
<1> DEFINE a == seen[p]
           w == Len(wire[p])
           l == Len(queue[p])
           n == Len(published[s])
           k == a + w
<1>8. /\ a \in Nat /\ w \in Nat /\ l \in Nat \ {0} /\ k \in Nat /\ n \in Nat
      /\ k + l <= n /\ Len(wire'[p]) = w + 1 /\ Len(queue'[p]) \in {0, l - 1}
      /\ m.type # "session_finish" => Len(queue'[p]) = l - 1
  <2>1. k + l <= n
    BY <1>2, <1>7 DEF WireOK
  <2> QED
    BY <1>3, <1>4, <1>5, <1>6, <2>1
<1>9. m = published[s][k + 1]
  BY <1>2, <1>4, <1>7 DEF QueueOK
<1>10. WireOK(p)'
  <2>1. seen'[p] = a /\ page'[p] = page[p] /\ published'[s] = published[s]
    BY <1>1 DEF server
  <2>2. ASSUME NEW i \in 1 .. w + 1 PROVE wire'[p][i] = published[s][a + i]
    <3>1. CASE i = w + 1
      <4> HIDE DEF a, w, n, l
      <4>1. k + 1 = a + i
        BY <1>8, <3>1
      <4> QED
        BY <1>6, <1>9, <3>1, <4>1 DEF w
    <3>2. CASE i \in 1 .. w
      BY <1>2, <1>6, <1>7, <3>2 DEF WireOK
    <3> QED
      BY <1>8, <3>1, <3>2
  <2>3. Steady(s)' => \A j \in a + 1 .. n : page[p].total <= published[s][j].total
    BY <1>1, <1>2, <1>7 DEF WireOK, Steady, server
  <2>4. a + (w + 1) + Len(queue'[p]) <= n
    <3>1. PICK rest \in {0, l - 1} : rest = Len(queue'[p])
      BY <1>8
    <3>2. a \in Nat /\ w \in Nat /\ l \in Nat \ {0} /\ n \in Nat /\ a + w + l <= n
      BY <1>8
    <3>3. a + (w + 1) + rest <= n
      <4> HIDE DEF a, w, n, l
      <4> QED
        BY <3>2
    <3> QED
      BY <3>1, <3>3
  <2> QED
    BY <1>2, <1>8, <2>1, <2>2, <2>3, <2>4 DEF WireOK
<1>11. ASSUME m.type # "session_finish", UNCHANGED generator PROVE QueueOK(p)'
  <2>1. seen'[p] = a /\ page'[p] = page[p] /\ published'[s] = published[s]
    BY <1>1 DEF server
  <2>2. (generator[p] = "left" => ~Deleted(s)) => a + (w + 1) + (l - 1) = n
    <3>1. (generator[p] = "left" => ~Deleted(s)) => a + w + l = n
      BY <1>2, <1>7 DEF QueueOK
    <3> HIDE DEF a, w, n, l
    <3> QED
      BY <1>8, <3>1
  <2>3. ASSUME NEW i \in 1 .. l - 1
        PROVE  queue'[p][i] = published[s][a + (w + 1) + i]
    <3>1. i + 1 \in 1 .. l /\ queue'[p][i] = queue[p][i + 1]
      BY <1>4, <1>5, <1>8, <1>11
    <3>2. queue[p][i + 1] = published[s][k + (i + 1)]
      BY <1>2, <1>7, <3>1 DEF QueueOK
    <3>3. k + (i + 1) = a + (w + 1) + i
      <4> HIDE DEF a, w, n, l
      <4> QED
        BY <1>8
    <3> QED
      BY <3>1, <3>2, <3>3
  <2> QED
    BY <1>1, <1>2, <1>8, <1>11, <2>1, <2>2, <2>3 DEF QueueOK, Deleted, server
<1>12. CASE m.type = "session_finish"
  <2>1. generator' = [generator EXCEPT ![p] = "none"] /\ Unsubscribe(p)
    BY <1>12 DEF Send, m
  <2>2. /\ ChannelsAreStreams' /\ DOMAIN channels' \subseteq Sessions
        /\ \A t \in DOMAIN channels' : channels'[t] \subseteq Pages
    BY <1>1, <1>2, <2>1, UnsubscribeIs
  <2>3. queue'[p] = <<>>
    BY <1>5, <1>12
  <2>4. TypeOK'
    BY <1>1, <1>3, <1>4, <2>1, <2>2 DEF LiveInv, TypeOK, server
  <2>5. generator'[p] = "none" /\ \A q \in Pages \ {p} : generator'[q] = generator[q]
    BY <2>1 DEF LiveInv, TypeOK
  <2>6. PageOK(p)'
    BY <1>1, <1>2, <2>5 DEF LiveInv, PageOK, NotNewer, Deleted, Steady, Present, server
  <2>7. StreamOK(p)'
    BY <1>1, <1>10, <2>3, <2>5 DEF StreamOK
  <2> QED
    BY <1>1, <1>5, <2>2, <2>4, <2>5, <2>6, <2>7, PageStepInv
<1>13. CASE m.type # "session_finish"
  <2>1. UNCHANGED <<generator, channels>>
    BY <1>13 DEF Send, m
  <2>2. ChannelsAreStreams'
    BY <1>1, <2>1, SameChannels
  <2>3. TypeOK'
    BY <1>1, <1>3, <1>4, <2>1 DEF LiveInv, TypeOK, server
  <2>4. PageOK(p)'
    BY <1>1, <2>1 DEF LiveInv, PageOK, NotNewer, Deleted, Steady, Present, server
  <2>5. StreamOK(p)'
    BY <1>1, <1>10, <1>11, <1>13, <2>1 DEF LiveInv, StreamOK, Deleted, server
  <2> QED
    BY <1>1, <1>5, <2>1, <2>2, <2>3, <2>4, <2>5, PageStepInv
<1> QED
  BY <1>12, <1>13

LEMMA LiveReceive ==
    ASSUME LiveInv, NEW p \in Pages, Receive(p)
    PROVE  LiveInv'
<1> DEFINE m == Head(wire[p])
<1>1. /\ page[p].state = "live" /\ wire[p] # <<>> /\ wire' = [wire EXCEPT ![p] = Tail(@)]
      /\ seen' = [seen EXCEPT ![p] = @ + 1]
      /\ UNCHANGED <<server, channels, queue, generator>>
  BY DEF Receive, stream
<1>2. PICK s \in Sessions : s = page[p].session
  BY <1>1 DEF LiveInv, PageOK
<1>3. /\ queue[p] \in Seq(Message) /\ wire[p] \in Seq(Message) /\ seen[p] \in Nat
      /\ published[s] \in Seq(Message) /\ page[p] \in Page /\ session[s].total \in Nat
      /\ page[p].entries \in Nat
  BY Types
<1>4. /\ m \in Message /\ m = wire[p][1] /\ Tail(wire[p]) \in Seq(Message)
      /\ Len(wire[p]) \in Nat \ {0} /\ Len(Tail(wire[p])) = Len(wire[p]) - 1
      /\ \A i \in 1 .. Len(Tail(wire[p])) : Tail(wire[p])[i] = wire[p][i + 1]
  BY <1>1, <1>3, Taken
<1> HIDE DEF m
<1>5. /\ wire'[p] = Tail(wire[p]) /\ seen'[p] = seen[p] + 1
      /\ \A q \in Pages \ {p} : wire'[q] = wire[q] /\ seen'[q] = seen[q]
  BY <1>1 DEF LiveInv, TypeOK
<1>6. /\ WireOK(p) /\ PageOK(p) /\ StreamOK(p) /\ generator[p] # "requested"
      /\ PublishedOK(s)
  BY <1>1 DEF LiveInv, StreamOK
<1> DEFINE a == seen[p]
           w == Len(wire[p])
           l == Len(queue[p])
           n == Len(published[s])
<1>7. /\ a \in Nat /\ w \in Nat \ {0} /\ l \in Nat /\ n \in Nat /\ a + w + l <= n
      /\ Len(wire'[p]) = w - 1 /\ seen'[p] = a + 1
  BY <1>2, <1>3, <1>4, <1>5, <1>6 DEF WireOK
<1>8. a + 1 \in 1 .. n /\ m = published[s][a + 1]
  <2>1. a + 1 \in 1 .. n
    <3> HIDE DEF a, w, l, n
    <3> QED
      BY <1>7
  <2> QED
    BY <1>2, <1>4, <1>6, <2>1 DEF WireOK
<1>9. /\ m.total \in Nat
      /\ Steady(s) => page[p].total <= m.total /\ m.total <= session[s].total
  <2>1. m.total \in Nat
    BY <1>4 DEF Message
  <2>2. a + 1 \in a + 1 .. n
    <3> HIDE DEF a, w, l, n
    <3> QED
      BY <1>7, <1>8
  <2> QED
    BY <1>2, <1>6, <1>8, <2>1, <2>2 DEF WireOK, PublishedOK
<1>10. CASE m.type = "session_finish"
  <2>1. page' = [page EXCEPT ![p].state = "reloading"] /\ UNCHANGED fetch
    BY <1>10 DEF Receive, m
  <2>2. /\ page'[p].state = "reloading" /\ page'[p].session = s
        /\ page'[p].total = page[p].total /\ page'[p].entries = page[p].entries
        /\ page'[p] \in Page /\ \A q \in Pages \ {p} : page'[q] = page[q]
    BY <1>2, <1>3, <2>1 DEF LiveInv, TypeOK, Page, PageState
  <2>3. TypeOK'
    <3>1. /\ wire' \in [Pages -> Seq(Message)] /\ seen' \in [Pages -> Nat]
          /\ page' \in [Pages -> Page]
      BY <1>1, <1>3, <1>4, <2>1, <2>2 DEF LiveInv, TypeOK
    <3> QED
      BY <1>1, <2>1, <3>1 DEF LiveInv, TypeOK, server
  <2>4. ChannelsAreStreams'
    BY <1>1, <1>2, <2>2, SameChannels
  <2>5. PageOK(p)'
    BY <1>1, <1>2, <1>6, <2>1, <2>2 DEF PageOK, NotNewer, Deleted, Steady, Present, server
  <2>6. StreamOK(p)'
    BY <1>1, <1>2, <1>6, <2>2 DEF StreamOK, Deleted, server
  <2> QED
    BY <1>1, <1>5, <2>1, <2>2, <2>3, <2>4, <2>5, <2>6, PageStepInv
<1>11. CASE m.type # "session_finish"
  <2>1. /\ page' = [page EXCEPT ![p].total = m.total]
        /\ fetch' = [fetch EXCEPT ![p].asked = TRUE, ![p].again = fetch[p].asked]
    BY <1>11 DEF Receive, m
  <2>2. /\ page'[p].state = "live" /\ page'[p].session = s
        /\ page'[p].total = m.total /\ page'[p].entries = page[p].entries
        /\ page'[p] \in Page /\ \A q \in Pages \ {p} : page'[q] = page[q]
    BY <1>1, <1>2, <1>3, <1>9, <2>1 DEF LiveInv, TypeOK, Page, PageState
  <2>3. /\ fetch' \in [Pages -> [asked : BOOLEAN, again : BOOLEAN, reply : Nat \cup {None}]]
        /\ fetch'[p].reply = fetch[p].reply /\ \A q \in Pages \ {p} : fetch'[q] = fetch[q]
    BY <2>1 DEF LiveInv, TypeOK
  <2>4. TypeOK'
    <3>1. /\ wire' \in [Pages -> Seq(Message)] /\ seen' \in [Pages -> Nat]
          /\ page' \in [Pages -> Page]
      BY <1>1, <1>3, <1>4, <2>1, <2>2 DEF LiveInv, TypeOK
    <3> QED
      BY <1>1, <2>3, <3>1 DEF LiveInv, TypeOK, server
  <2>5. ChannelsAreStreams'
    BY <1>1, <1>2, <2>2, SameChannels
  <2>6. PageOK(p)'
    BY <1>1, <1>2, <1>6, <1>9, <2>2, <2>3 DEF PageOK, NotNewer, Deleted, Steady, Present, server
  <2>7. WireOK(p)'
    <3>1. published'[s] = published[s] /\ queue'[p] = queue[p]
      BY <1>1 DEF server
    <3>2. (a + 1) + (w - 1) + l <= n
      <4> HIDE DEF a, w, l, n
      <4> QED
        BY <1>7
    <3>3. ASSUME NEW i \in 1 .. w - 1 PROVE wire'[p][i] = published[s][(a + 1) + i]
      <4>1. i + 1 \in 1 .. w /\ wire'[p][i] = wire[p][i + 1]
        BY <1>4, <1>5, <1>7
      <4>2. wire[p][i + 1] = published[s][a + (i + 1)]
        BY <1>2, <1>6, <4>1 DEF WireOK
      <4>3. a + (i + 1) = (a + 1) + i
        <5> HIDE DEF a, w, l, n
        <5> QED
          BY <1>7
      <4> QED
        BY <4>1, <4>2, <4>3
    <3>4. ASSUME Steady(s), NEW j \in (a + 1) + 1 .. n
          PROVE  m.total <= published[s][j].total
      <4>1. j \in 1 .. n /\ a + 1 <= j
        <5> HIDE DEF a, w, l, n
        <5> QED
          BY <1>7
      <4> QED
        BY <1>6, <1>8, <3>4, <4>1 DEF PublishedOK
    <3> QED
      BY <1>1, <1>2, <1>7, <2>2, <3>1, <3>2, <3>3, <3>4 DEF WireOK, Steady, server
  <2>8. ASSUME generator[p] \in {"running", "left"} PROVE QueueOK(p)'
    <3>1. published'[s] = published[s] /\ queue'[p] = queue[p]
      BY <1>1 DEF server
    <3>2. QueueOK(p)
      BY <1>1, <1>6, <2>8 DEF StreamOK
    <3>3. (generator[p] = "left" => ~Deleted(s)) => a + w + l = n
      BY <1>2, <3>2 DEF QueueOK
    <3>4. (generator[p] = "left" => ~Deleted(s)) => (a + 1) + (w - 1) + l = n
      <4> HIDE DEF a, w, l, n
      <4> QED
        BY <1>7, <3>3
    <3>5. (a + 1) + (w - 1) = a + w
      <4> HIDE DEF a, w, l, n
      <4> QED
        BY <1>7
    <3>6. \A i \in 1 .. l : queue[p][i] = published[s][(a + 1) + (w - 1) + i]
      BY <1>2, <3>2, <3>5 DEF QueueOK
    <3> QED
      BY <1>1, <1>2, <1>7, <2>2, <3>1, <3>4, <3>6 DEF QueueOK, Deleted, server
  <2>9. StreamOK(p)'
    BY <1>1, <1>2, <1>6, <2>2, <2>7, <2>8 DEF StreamOK, Deleted, server
  <2> QED
    BY <1>1, <1>5, <2>2, <2>3, <2>4, <2>5, <2>6, <2>9, PageStepInv
<1> QED
  BY <1>10, <1>11

LEMMA LiveReload ==
    ASSUME LiveInv, NEW p \in Pages, Reload(p)
    PROVE  LiveInv'
<1>1. /\ page[p].state = "reloading" /\ generator[p] = "none"
      /\ UNCHANGED <<server, channels, queue>>
      /\ wire' = [wire EXCEPT ![p] = <<>>] /\ seen' = [seen EXCEPT ![p] = 0]
      /\ fetch' = [fetch EXCEPT ![p] = NoFetch]
  BY DEF Reload
<1>2. PICK s \in Sessions : s = page[p].session
  BY <1>1 DEF LiveInv, PageOK
<1>3. /\ session[s].total \in Nat /\ session[s].reports \in Nat /\ queue[p] = <<>>
      /\ page[p] \in Page
  BY <1>1, Types DEF LiveInv, StreamOK
<1>4. /\ wire'[p] = <<>> /\ fetch'[p] = NoFetch
      /\ \A q \in Pages \ {p} : UNCHANGED <<wire[q], seen[q], fetch[q]>>
  BY <1>1 DEF LiveInv, TypeOK
<1>5. /\ wire' \in [Pages -> Seq(Message)] /\ seen' \in [Pages -> Nat]
      /\ fetch' \in [Pages -> [asked : BOOLEAN, again : BOOLEAN, reply : Nat \cup {None}]]
  BY <1>1 DEF LiveInv, TypeOK, NoFetch
<1>6. CASE Opened(p, s)
  <2>1. PICK state \in {"live", "cut", "final"} :
           /\ page' = [page EXCEPT ![p] = Shown(s, state)]
           /\ generator' = [generator EXCEPT ![p] = IF state = "live" THEN "requested"
                                                     ELSE "none"]
           /\ Shown(s, state) \in Page /\ Shown(s, state).state = state
           /\ Shown(s, state).session = s /\ Shown(s, state).total = session[s].total
           /\ Shown(s, state).entries = session[s].reports
           /\ page'[p] = Shown(s, state) /\ generator'[p] \in {"requested", "none"}
           /\ \A q \in Pages \ {p} : UNCHANGED <<generator[q], page[q]>>
    BY <1>1, <1>6, OpenedIs
  <2>2. TypeOK'
    BY <1>1, <1>5, <2>1 DEF LiveInv, TypeOK, server
  <2>3. ChannelsAreStreams'
    BY <1>1, <2>1, SameChannels
  <2>4. PageOK(p)'
    <3>1. Present(s)'
      BY <1>1, <1>6, OpenedIs DEF Present, server
    <3>2. /\ page'[p].session = s /\ page'[p].total = session'[s].total
          /\ page'[p].entries = session'[s].reports /\ fetch'[p].reply = None
          /\ session'[s].total \in Nat /\ session'[s].reports \in Nat
      BY <1>1, <1>3, <1>4, <2>1 DEF NoFetch, server
    <3>3. NotNewer(p)'
      BY <3>2 DEF NotNewer
    <3> QED
      BY <1>4, <2>1, <3>1, <3>3 DEF PageOK, NoFetch
  <2>5. StreamOK(p)'
    BY <1>1, <1>3, <1>4, <2>1 DEF StreamOK
  <2> QED
    BY <1>1, <1>4, <2>1, <2>2, <2>3, <2>4, <2>5, PageStepInv
<1>7. CASE page' = [page EXCEPT ![p] = NoPage] /\ UNCHANGED generator
  <2>1. /\ page'[p] = NoPage /\ NoPage \in Page
        /\ \A q \in Pages \ {p} : page'[q] = page[q]
    BY <1>7 DEF LiveInv, TypeOK, NoPage, Page, PageState
  <2>2. TypeOK'
    <3>1. page' \in [Pages -> Page]
      BY <1>7, <2>1 DEF LiveInv, TypeOK
    <3> QED
      BY <1>1, <1>5, <1>7, <3>1 DEF LiveInv, TypeOK, server
  <2>3. ChannelsAreStreams'
    BY <1>1, <1>7, <2>1, SameChannels
  <2>4. PageOK(p)' /\ StreamOK(p)'
    BY <1>1, <1>3, <1>4, <1>7, <2>1 DEF PageOK, StreamOK, NoPage, NoFetch
  <2> QED
    BY <1>1, <1>4, <1>7, <2>1, <2>2, <2>3, <2>4, PageStepInv
<1> QED
  BY <1>2, <1>6, <1>7 DEF Reload

LEMMA LiveReadEntries ==
    ASSUME LiveInv, NEW p \in Pages, ReadEntries(p)
    PROVE  LiveInv'
<1>1. /\ fetch[p].asked /\ fetch[p].reply = None
      /\ UNCHANGED <<server, stream, wire, seen, page>>
  BY DEF ReadEntries
<1>2. PICK s \in Sessions : s = page[p].session
  BY <1>1 DEF LiveInv, PageOK
<1>3. /\ session[s].reports \in Nat /\ PageOK(p) /\ StreamOK(p)
      /\ page[p].state # "closed" /\ fetch[p].again \in BOOLEAN
      /\ fetch[p] \in [asked : BOOLEAN, again : BOOLEAN, reply : Nat \cup {None}]
  BY <1>1, Types DEF LiveInv, PageOK, TypeOK
<1>4. PICK new : /\ fetch' = [fetch EXCEPT ![p] = new]
                 /\ new = IF Present(s) THEN [fetch[p] EXCEPT !.reply = session[s].reports]
                          ELSE AskAgain(p)
  BY <1>2 DEF ReadEntries
<1>5. /\ new \in [asked : BOOLEAN, again : BOOLEAN, reply : Nat \cup {None}]
      /\ new.reply = None \/ new.reply = session[s].reports
  BY <1>3, <1>4 DEF AskAgain, NoFetch
<1>6. fetch'[p] = new /\ \A q \in Pages \ {p} : fetch'[q] = fetch[q]
  BY <1>4 DEF LiveInv, TypeOK
<1>7. TypeOK'
  BY <1>1, <1>4, <1>5 DEF LiveInv, TypeOK, server, stream
<1>8. ChannelsAreStreams'
  BY <1>1, SameChannels DEF stream
<1>9. PageOK(p)'
  <2>1. Steady(s) => NotNewer(p)
    BY <1>2, <1>3 DEF PageOK
  <2>2. NotNewer(p) => NotNewer(p)'
    BY <1>1, <1>2, <1>3, <1>5, <1>6 DEF NotNewer, server
  <2> QED
    BY <1>1, <1>2, <1>3, <2>1, <2>2 DEF PageOK, Deleted, Steady, Present, server, stream
<1>10. StreamOK(p)'
  BY <1>1, <1>3 DEF StreamOK, WireOK, QueueOK, Deleted, Steady, server, stream
<1> QED
  BY <1>1, <1>6, <1>7, <1>8, <1>9, <1>10, PageStepInv DEF stream

LEMMA LiveSwapEntries ==
    ASSUME LiveInv, NEW p \in Pages, SwapEntries(p)
    PROVE  LiveInv'
<1>1. /\ fetch[p].reply # None /\ UNCHANGED <<server, stream, wire, seen>>
      /\ page' = [page EXCEPT ![p].entries = fetch[p].reply]
      /\ fetch' = [fetch EXCEPT ![p] = [NoFetch EXCEPT !.asked = fetch[p].again]]
  BY DEF SwapEntries, AskAgain
<1>2. PICK s \in Sessions : s = page[p].session
  BY <1>1 DEF LiveInv, PageOK
<1>3. /\ session[s].total \in Nat /\ fetch[p].reply \in Nat /\ PageOK(p) /\ StreamOK(p)
      /\ page[p] \in Page /\ fetch[p].again \in BOOLEAN
  BY <1>1, Types DEF LiveInv
<1>4. /\ page'[p].state = page[p].state /\ page'[p].session = s
      /\ page'[p].total = page[p].total /\ page'[p].entries = fetch[p].reply
      /\ page'[p] \in Page /\ \A q \in Pages \ {p} : page'[q] = page[q]
  BY <1>1, <1>2, <1>3 DEF LiveInv, TypeOK, Page
<1>5. /\ fetch'[p].reply = None /\ \A q \in Pages \ {p} : fetch'[q] = fetch[q]
      /\ fetch' \in [Pages -> [asked : BOOLEAN, again : BOOLEAN, reply : Nat \cup {None}]]
  BY <1>1, <1>3 DEF LiveInv, TypeOK, NoFetch
<1>6. TypeOK'
  <2>1. page' \in [Pages -> Page]
    BY <1>1, <1>4 DEF LiveInv, TypeOK
  <2> QED
    BY <1>1, <1>5, <2>1 DEF LiveInv, TypeOK, server, stream
<1>7. ChannelsAreStreams'
  BY <1>1, <1>2, <1>4, SameChannels DEF stream
<1>8. PageOK(p)'
  BY <1>1, <1>2, <1>3, <1>4, <1>5 DEF PageOK, NotNewer, Deleted, Steady, Present, server, stream
<1>9. StreamOK(p)'
  BY <1>1, <1>2, <1>3, <1>4 DEF StreamOK, WireOK, QueueOK, Deleted, Steady, server, stream
<1> QED
  BY <1>1, <1>4, <1>5, <1>6, <1>7, <1>8, <1>9, PageStepInv DEF stream

LEMMA LiveLeave ==
    ASSUME LiveInv, NEW p \in Pages, Leave(p)
    PROVE  LiveInv'
<1>1. /\ page[p].state # "closed" /\ UNCHANGED <<server, stream>>
      /\ page' = [page EXCEPT ![p] = [NoPage EXCEPT !.session = page[p].session]]
      /\ wire' = [wire EXCEPT ![p] = <<>>] /\ seen' = [seen EXCEPT ![p] = 0]
      /\ fetch' = [fetch EXCEPT ![p] = NoFetch]
  BY DEF Leave
<1>2. page[p] \in Page /\ PageOK(p) /\ StreamOK(p)
  BY Types DEF LiveInv
<1>3. /\ page'[p].state = "closed" /\ page'[p].session = page[p].session
      /\ page'[p] \in Page /\ wire'[p] = <<>> /\ fetch'[p] = NoFetch
      /\ \A q \in Pages \ {p} : UNCHANGED <<page[q], wire[q], seen[q], fetch[q]>>
  BY <1>1, <1>2 DEF LiveInv, TypeOK, Page, PageState, NoPage
<1>4. TypeOK'
  <2>1. /\ page' \in [Pages -> Page] /\ wire' \in [Pages -> Seq(Message)]
        /\ seen' \in [Pages -> Nat]
    BY <1>1, <1>3 DEF LiveInv, TypeOK
  <2>2. fetch' \in [Pages -> [asked : BOOLEAN, again : BOOLEAN, reply : Nat \cup {None}]]
    BY <1>1 DEF LiveInv, TypeOK, NoFetch
  <2> QED
    BY <1>1, <2>1, <2>2 DEF LiveInv, TypeOK, server, stream
<1>5. ChannelsAreStreams'
  BY <1>1, <1>3, SameChannels DEF stream
<1>6. PageOK(p)'
  BY <1>1, <1>2, <1>3 DEF PageOK, NotNewer, NoFetch, Deleted, Steady, Present, server, stream
<1>7. StreamOK(p)'
  BY <1>1, <1>2, <1>3 DEF StreamOK, Deleted, server, stream
<1> QED
  BY <1>1, <1>3, <1>4, <1>5, <1>6, <1>7, PageStepInv DEF stream

LEMMA LiveStreamError ==
    ASSUME LiveInv, NEW p \in Pages, StreamError(p)
    PROVE  LiveInv'
<1>1. /\ page[p].state = "live" /\ generator[p] = "none" /\ wire[p] = <<>>
      /\ page' = [page EXCEPT ![p].state = "cut"] /\ seen' = [seen EXCEPT ![p] = 0]
      /\ UNCHANGED <<server, stream, wire, fetch>>
  BY DEF StreamError
<1>2. page[p] \in Page /\ PageOK(p) /\ StreamOK(p)
  BY Types DEF LiveInv
<1>3. /\ page'[p].state = "cut" /\ page'[p].session = page[p].session
      /\ page'[p].total = page[p].total /\ page'[p].entries = page[p].entries
      /\ page'[p] \in Page /\ \A q \in Pages \ {p} : UNCHANGED <<page[q], seen[q]>>
  BY <1>1, <1>2 DEF LiveInv, TypeOK, Page, PageState
<1>4. TypeOK'
  <2>1. page' \in [Pages -> Page] /\ seen' \in [Pages -> Nat]
    BY <1>1, <1>3 DEF LiveInv, TypeOK
  <2> QED
    BY <1>1, <2>1 DEF LiveInv, TypeOK, server, stream
<1>5. ChannelsAreStreams'
  BY <1>1, <1>3, SameChannels DEF stream
<1>6. PageOK(p)'
  BY <1>1, <1>2, <1>3 DEF PageOK, NotNewer, Deleted, Steady, Present, server, stream
<1>7. StreamOK(p)'
  BY <1>1, <1>2, <1>3 DEF StreamOK, Deleted, server, stream
<1> QED
  BY <1>1, <1>3, <1>4, <1>5, <1>6, <1>7, PageStepInv DEF stream

LEMMA LiveDisconnect ==
    ASSUME LiveInv, NEW p \in Pages, Disconnect(p)
    PROVE  LiveInv'
<1>1. /\ page[p].state = "closed" /\ generator[p] # "none" /\ Unsubscribe(p)
      /\ generator' = [generator EXCEPT ![p] = "none"]
      /\ queue' = [queue EXCEPT ![p] = <<>>]
      /\ UNCHANGED <<server, wire, seen, page, fetch>>
  BY DEF Disconnect, client
<1>2. page[p].session \in Sessions /\ PageOK(p) /\ StreamOK(p)
  BY <1>1 DEF LiveInv, PageOK
<1>3. /\ generator'[p] = "none" /\ queue'[p] = <<>>
      /\ \A q \in Pages \ {p} : generator'[q] = generator[q] /\ queue'[q] = queue[q]
  BY <1>1 DEF LiveInv, TypeOK
<1>4. /\ ChannelsAreStreams' /\ DOMAIN channels' \subseteq Sessions
      /\ \A t \in DOMAIN channels' : channels'[t] \subseteq Pages
  BY <1>1, <1>2, UnsubscribeIs
<1>5. TypeOK'
  <2>1. /\ generator' \in [Pages -> {"none", "requested", "running", "left"}]
        /\ queue' \in [Pages -> Seq(Message)]
    BY <1>1 DEF LiveInv, TypeOK
  <2> QED
    BY <1>1, <1>4, <2>1 DEF LiveInv, TypeOK, server
<1>6. PageOK(p)'
  BY <1>1, <1>2, <1>3 DEF PageOK, NotNewer, Deleted, Steady, Present, server
<1>7. StreamOK(p)'
  BY <1>1, <1>2, <1>3 DEF StreamOK, Deleted, server
<1> QED
  BY <1>1, <1>3, <1>4, <1>5, <1>6, <1>7, PageStepInv

\* A stream that breaks leaves on the wire what was sent.
LEMMA WireStays ==
    ASSUME LiveInv, NEW p \in Pages, UNCHANGED <<faults, published, wire, seen, page>>,
           queue'[p] = <<>>, page[p].state = "live", wire[p] # <<>>
    PROVE  WireOK(p)'
<1>1. WireOK(p) /\ page[p].session \in Sessions
  BY DEF LiveInv, StreamOK, PageOK
<1>2. seen[p] \in Nat /\ Len(wire[p]) \in Nat /\ Len(queue[p]) \in Nat
  BY Types
<1>3. Len(published[page[p].session]) \in Nat
  BY <1>1, Types
<1>4. seen[p] + Len(wire[p]) + 0 <= Len(published[page[p].session])
  BY <1>1, <1>2, <1>3 DEF WireOK
<1>5. Len(queue'[p]) = 0
  OBVIOUS
<1> QED
  BY <1>1, <1>4, <1>5 DEF WireOK, Steady

LEMMA LiveKillOld ==
    ASSUME LiveInv, NEW p \in Pages, KillOld(p)
    PROVE  LiveInv'
<1>1. /\ generator[p] = "left" /\ generator' = [generator EXCEPT ![p] = "none"]
      /\ queue' = [queue EXCEPT ![p] = <<>>]
      /\ UNCHANGED <<server, channels, wire, seen, page, fetch>>
  BY DEF KillOld, client
<1>2. PageOK(p) /\ StreamOK(p)
  BY DEF LiveInv
<1>3. /\ generator'[p] = "none" /\ queue'[p] = <<>>
      /\ \A q \in Pages \ {p} : generator'[q] = generator[q] /\ queue'[q] = queue[q]
  BY <1>1 DEF LiveInv, TypeOK
<1>4. TypeOK'
  <2>1. /\ generator' \in [Pages -> {"none", "requested", "running", "left"}]
        /\ queue' \in [Pages -> Seq(Message)]
    BY <1>1 DEF LiveInv, TypeOK
  <2> QED
    BY <1>1, <2>1 DEF LiveInv, TypeOK, server
<1>5. ChannelsAreStreams'
  BY <1>1, <1>3, SameChannels
<1>6. PageOK(p)'
  BY <1>1, <1>2, <1>3 DEF PageOK, NotNewer, Deleted, Steady, Present, server
<1>7. StreamOK(p)'
  BY <1>1, <1>2, <1>3, WireStays DEF StreamOK, Deleted, server
<1> QED
  BY <1>1, <1>3, <1>4, <1>5, <1>6, <1>7, PageStepInv

-----------------------------------------------------------------------------
(* Steps of the server *)

LEMMA StartupIs ==
    ASSUME LiveInv, Startup, UNCHANGED <<faults, published>>
    PROVE  /\ session' \in [Sessions -> Row]
           /\ tracked' \in [Sessions -> Nat] /\ runs' \in [Sessions -> Nat]
           /\ \A s \in Sessions : /\ Present(s)' = Present(s) /\ runs'[s] = 0
                                  /\ session'[s].total = session[s].total
                                  /\ session'[s].reports = session[s].reports
                                  /\ RowOK(s)' /\ PublishedOK(s)'
           /\ DOMAIN channels' = {}
<1>1. ASSUME NEW s \in Sessions
      PROVE  /\ Present(s)' = Present(s)
             /\ session'[s].total = session[s].total
             /\ session'[s].reports = session[s].reports
             /\ session'[s] \in Row /\ tracked'[s] = 0 /\ runs'[s] = 0
  <2>1. session'[s] = IF session[s].status = "in_progress"
                      THEN [session[s] EXCEPT !.status = "interrupted"] ELSE session[s]
    BY DEF Startup
  <2>2. session[s] \in Row
    BY Types
  <2> QED
    BY <2>1, <2>2 DEF Startup, Row, Present
<1>2. /\ session' \in [Sessions -> Row]
      /\ tracked' \in [Sessions -> Nat] /\ runs' \in [Sessions -> Nat]
  BY <1>1 DEF Startup
<1>3. ASSUME NEW s \in Sessions PROVE RowOK(s)' /\ PublishedOK(s)'
  BY <1>1 DEF LiveInv, RowOK, PublishedOK, Deleted, Steady
<1>4. DOMAIN channels' = {}
  BY DEF Startup
<1> QED
  BY <1>1, <1>2, <1>3, <1>4

LEMMA NoChannels ==
    ASSUME DOMAIN channels' = {}, \A p \in Pages : generator'[p] # "running"
    PROVE  ChannelsAreStreams'
BY DEF ChannelsAreStreams, Subscribers

LEMMA LiveRestart == LiveInv /\ Restart => LiveInv'
<1> SUFFICES ASSUME LiveInv, Restart PROVE LiveInv'
  OBVIOUS
<1>1. /\ Startup /\ UNCHANGED <<faults, published, wire, seen, page>>
      /\ queue' = [p \in Pages |-> IF generator[p] = "left" THEN queue[p] ELSE <<>>]
      /\ generator' = [p \in Pages |-> IF generator[p] = "left" THEN "left" ELSE "none"]
      /\ fetch' = [p \in Pages |-> IF fetch[p].reply # None THEN fetch[p]
                                   ELSE AskAgain(p)]
  BY DEF Restart
<1>2. /\ session' \in [Sessions -> Row]
      /\ tracked' \in [Sessions -> Nat] /\ runs' \in [Sessions -> Nat]
      /\ \A s \in Sessions : /\ Present(s)' = Present(s) /\ runs'[s] = 0
                             /\ session'[s].total = session[s].total
                             /\ session'[s].reports = session[s].reports
                             /\ RowOK(s)' /\ PublishedOK(s)'
      /\ DOMAIN channels' = {}
  BY <1>1, StartupIs
<1>3. ChannelsAreStreams'
  BY <1>1, <1>2, NoChannels
<1>4. TypeOK'
  <2>1. /\ queue' \in [Pages -> Seq(Message)]
        /\ generator' \in [Pages -> {"none", "requested", "running", "left"}]
    BY <1>1 DEF LiveInv, TypeOK
  <2>2. fetch' \in [Pages -> [asked : BOOLEAN, again : BOOLEAN, reply : Nat \cup {None}]]
    BY <1>1 DEF LiveInv, TypeOK, AskAgain, NoFetch
  <2> QED
    BY <1>1, <1>2, <2>1, <2>2 DEF LiveInv, TypeOK
<1>5. ASSUME NEW p \in Pages PROVE PageOK(p)' /\ StreamOK(p)'
  <2>1. PageOK(p) /\ StreamOK(p) /\ fetch[p].again \in BOOLEAN
    BY Types DEF LiveInv
  <2>2. \/ fetch'[p] = fetch[p]
        \/ fetch'[p].reply = None /\ fetch'[p].asked = fetch[p].again
    BY <1>1 DEF AskAgain, NoFetch
  <2>3. PageOK(p)'
    BY <1>1, <1>2, <2>1, <2>2 DEF PageOK, NotNewer, Deleted, Steady, AskAgain, NoFetch
  <2>4. CASE generator[p] = "left"
    <3>1. generator'[p] = "left" /\ queue'[p] = queue[p] /\ page[p].session \in Sessions
      BY <1>1, <2>1, <2>4 DEF PageOK
    <3>2. (WireOK(p) => WireOK(p)') /\ (QueueOK(p) => QueueOK(p)')
      BY <1>1, <3>1 DEF WireOK, QueueOK, Deleted, Steady
    <3>3. StreamOK(p)'
      BY <1>1, <1>2, <2>1, <2>4, <3>1, <3>2 DEF StreamOK
    <3> QED
      BY <2>3, <3>3
  <2>5. CASE generator[p] # "left"
    <3>1. generator'[p] = "none" /\ queue'[p] = <<>>
      BY <1>1, <2>5
    <3>2. StreamOK(p)'
      BY <1>1, <2>1, <3>1, WireStays DEF StreamOK
    <3> QED
      BY <2>3, <3>2
  <2> QED
    BY <2>4, <2>5
<1> QED
  BY <1>2, <1>3, <1>4, <1>5 DEF LiveInv

LEMMA LiveGracefulRestart == LiveInv /\ GracefulRestart => LiveInv'
<1> SUFFICES ASSUME LiveInv, GracefulRestart PROVE LiveInv'
  OBVIOUS
<1>1. PICK refused \in SUBSET {p \in Pages : generator[p] = "requested"} :
         generator' = [p \in Pages |-> IF generator[p] = "none" \/ p \in refused
                                       THEN "none" ELSE "left"]
  BY DEF GracefulRestart
<1>2. /\ Startup /\ UNCHANGED <<faults, published, queue, wire, page, fetch>>
      /\ seen' = [p \in Pages |-> IF generator[p] = "requested"
                                  THEN Len(published[page[p].session]) ELSE seen[p]]
  BY DEF GracefulRestart
<1>3. /\ session' \in [Sessions -> Row]
      /\ tracked' \in [Sessions -> Nat] /\ runs' \in [Sessions -> Nat]
      /\ \A s \in Sessions : /\ Present(s)' = Present(s) /\ runs'[s] = 0
                             /\ session'[s].total = session[s].total
                             /\ session'[s].reports = session[s].reports
                             /\ RowOK(s)' /\ PublishedOK(s)'
      /\ DOMAIN channels' = {}
  BY <1>2, StartupIs
<1>4. ChannelsAreStreams'
  BY <1>1, <1>3, NoChannels
<1>5. ASSUME NEW p \in Pages
      PROVE  /\ PageOK(p) /\ StreamOK(p) /\ seen[p] \in Nat
             /\ generator[p] # "none" => page[p].session \in Sessions
             /\ page[p].session \in Sessions => Len(published[page[p].session]) \in Nat
  <2>1. PageOK(p) /\ StreamOK(p)
    BY DEF LiveInv
  <2> QED
    BY <2>1, Types DEF PageOK
<1>6. TypeOK'
  <2>1. generator' \in [Pages -> {"none", "requested", "running", "left"}]
    BY <1>1
  <2>2. seen' \in [Pages -> Nat]
    BY <1>2, <1>5
  <2> QED
    BY <1>2, <1>3, <2>1, <2>2 DEF LiveInv, TypeOK
<1>7. ASSUME NEW p \in Pages PROVE PageOK(p)' /\ StreamOK(p)'
  <2>1. PageOK(p)'
    BY <1>1, <1>2, <1>3, <1>5 DEF PageOK, NotNewer, Deleted, Steady
  <2>2. CASE generator[p] \in {"running", "left"}
    <3>1. generator'[p] = "left" /\ seen'[p] = seen[p]
      BY <1>1, <1>2, <2>2
    <3>2. (WireOK(p) => WireOK(p)') /\ (QueueOK(p) => QueueOK(p)')
      BY <1>2, <3>1 DEF WireOK, QueueOK, Deleted, Steady
    <3>3. StreamOK(p)'
      BY <1>2, <1>3, <1>5, <2>2, <3>1, <3>2 DEF StreamOK
    <3> QED
      BY <2>1, <3>3
  <2>3. CASE generator[p] = "requested"
    <3>1. /\ wire[p] = <<>> /\ queue[p] = <<>> /\ page[p].session \in Sessions
          /\ generator'[p] \in {"none", "left"}
          /\ seen'[p] = Len(published[page[p].session])
      BY <1>1, <1>2, <1>5, <2>3 DEF StreamOK
    <3>2. WireOK(p)' /\ QueueOK(p)'
      BY <1>2, <1>5, <3>1 DEF WireOK, QueueOK, Deleted, Steady
    <3>3. StreamOK(p)'
      BY <1>2, <1>3, <3>1, <3>2 DEF StreamOK
    <3> QED
      BY <2>1, <3>3
  <2>4. CASE generator[p] = "none"
    <3>1. generator'[p] = "none" /\ seen'[p] = seen[p]
      BY <1>1, <1>2, <2>4
    <3>2. WireOK(p) => WireOK(p)'
      BY <1>2, <3>1 DEF WireOK, Steady
    <3>3. StreamOK(p)'
      BY <1>2, <1>5, <2>4, <3>1, <3>2 DEF StreamOK
    <3> QED
      BY <2>1, <3>3
  <2> QED
    BY <2>2, <2>3, <2>4 DEF LiveInv, TypeOK
<1> QED
  BY <1>3, <1>4, <1>6, <1>7 DEF LiveInv

LEMMA LiveNext == LiveInv /\ [Next]_vars => LiveInv'
<1> SUFFICES ASSUME LiveInv, [Next]_vars PROVE LiveInv'
  OBVIOUS
<1>1. CASE UNCHANGED vars
  <2>1. UNCHANGED <<session, tracked, runs, faults, published, channels, queue, generator, wire, seen, page, fetch>>
    BY <1>1 DEF vars, server, stream, client
  <2>2. TypeOK' /\ ChannelsAreStreams'
    BY <2>1 DEF LiveInv, TypeOK, ChannelsAreStreams, Subscribers
  <2>3. \A s \in Sessions : RowOK(s)' /\ PublishedOK(s)'
    BY <2>1, SameRows DEF server
  <2>4. \A p \in Pages : PageOK(p)' /\ StreamOK(p)'
    BY <2>1, OtherPages DEF server
  <2> QED
    BY <2>2, <2>3, <2>4 DEF LiveInv
<1>2. ASSUME NEW p \in Pages, PageStep(p) PROVE LiveInv'
  BY <1>2, LiveView, LiveSubscribe, LiveSend, LiveReceive, LiveReload, LiveReadEntries,
     LiveSwapEntries, LiveLeave, LiveDisconnect, LiveStreamError, LiveKillOld DEF PageStep
<1>3. ASSUME NEW s \in Sessions, ServerStep(s) PROVE LiveInv'
  BY <1>3, LiveStart, LiveReport, LiveAnnounce, LiveFinish, LiveDelete DEF ServerStep
<1> QED
  BY <1>1, <1>2, <1>3, LiveRestart, LiveGracefulRestart DEF Next

-----------------------------------------------------------------------------
(* The theorems *)

\* Tabs, streams and queues keep their types, for any number of tabs and messages,
\* through every kind of restart and every order of the browser's requests.
THEOREM TypeCorrect == Spec => []TypeOK
<1>1. LiveInv => TypeOK
  BY DEF LiveInv
<1> QED
  BY <1>1, LiveInit, LiveNext, PTL DEF Spec

\* No queue outlives its stream and no stream loses its queue, however many tabs
\* open, close, are cut off and are left behind in processes that shut down.
THEOREM ChannelsTheorem == Spec => []ChannelsAreStreams
<1>1. LiveInv => ChannelsAreStreams
  BY DEF LiveInv
<1> QED
  BY <1>1, LiveInit, LiveNext, PTL DEF Spec

\* A stream delivers every message of its session from its subscription on, once
\* and in order.
THEOREM DeliveryTheorem == Spec => []NothingLostOrReordered
<1>1. LiveInv => NothingLostOrReordered
  <2> SUFFICES ASSUME LiveInv, NEW p \in Pages, page[p].state = "live",
                      generator[p] \in {"running", "left"},
                      generator[p] = "left" => ~Deleted(page[p].session)
               PROVE  wire[p] \o queue[p] =
                         SubSeq(published[page[p].session], seen[p] + 1,
                                Len(published[page[p].session]))
    BY DEF NothingLostOrReordered, Deleted
  <2>1. WireOK(p) /\ QueueOK(p) /\ page[p].session \in Sessions
    BY DEF LiveInv, StreamOK, PageOK
  <2>2. PICK sent \in Seq(Message) : sent = published[page[p].session]
    BY <2>1, Types
  <2>3. /\ wire[p] \in Seq(Message) /\ queue[p] \in Seq(Message) /\ seen[p] \in Nat
        /\ Len(wire[p]) \in Nat /\ Len(queue[p]) \in Nat /\ Len(sent) \in Nat
    BY Types
  <2> DEFINE a == seen[p]
             w == Len(wire[p])
             l == Len(queue[p])
             n == Len(sent)
             left == wire[p] \o queue[p]
             right == SubSeq(sent, a + 1, n)
  <2>4. a + w + l = n
    BY <2>1, <2>2 DEF QueueOK
  <2>5. /\ a \in Nat /\ w \in Nat /\ l \in Nat /\ n \in Nat
        /\ a + 1 \in Int /\ n \in Int /\ n - (a + 1) + 1 = w + l
        /\ IF a + 1 <= n THEN n - (a + 1) + 1 = w + l ELSE 0 = w + l
    <3>1. a \in Nat /\ w \in Nat /\ l \in Nat /\ n \in Nat
      BY <2>3
    <3> HIDE DEF a, w, l, n
    <3> QED
      BY <2>4, <3>1
  <2>6. /\ left \in Seq(Message) /\ Len(left) = w + l
        /\ \A i \in 1 .. w + l : left[i] = IF i <= w THEN wire[p][i] ELSE queue[p][i - w]
    BY <2>3, ConcatProperties
  <2>7. \A i \in a + 1 .. n : sent[i] \in Message
    <3>1. \A i \in 1 .. n : sent[i] \in Message
      BY <2>2
    <3>2. \A i \in a + 1 .. n : i \in 1 .. n
      <4> HIDE DEF a, w, l, n
      <4> QED
        BY <2>5
    <3> QED
      BY <3>1, <3>2
  <2>8. /\ right \in Seq(Message)
        /\ Len(right) = IF a + 1 <= n THEN n - (a + 1) + 1 ELSE 0
        /\ \A i \in 1 .. n - (a + 1) + 1 : right[i] = sent[a + 1 + i - 1]
    <3> DEFINE b == a + 1
    <3>1. b \in Int /\ n \in Int /\ \A i \in b .. n : sent[i] \in Message
      BY <2>5, <2>7
    <3> HIDE DEF b, n
    <3>2. /\ SubSeq(sent, b, n) \in Seq(Message)
          /\ Len(SubSeq(sent, b, n)) = IF b <= n THEN n - b + 1 ELSE 0
          /\ \A i \in 1 .. n - b + 1 : SubSeq(sent, b, n)[i] = sent[b + i - 1]
      BY <3>1, SubSeqProperties
    <3> QED
      BY <3>2 DEF b
  <2>9. Len(right) = w + l
    <3> HIDE DEF a, w, l, n, right
    <3> QED
      BY <2>5, <2>8
  <2>10. ASSUME NEW i \in 1 .. w + l PROVE left[i] = right[i]
    <3>1. a + 1 + i - 1 = a + i /\ i \in 1 .. n - (a + 1) + 1
      <4> HIDE DEF a, w, l, n
      <4> QED
        BY <2>5
    <3>2. right[i] = sent[a + i]
      <4> HIDE DEF a, w, l, n, right
      <4> QED
        BY <2>8, <3>1
    <3>3. CASE i <= w
      <4>1. i \in 1 .. w
        <5> HIDE DEF w, l
        <5> QED
          BY <2>5, <3>3
      <4> QED
        BY <2>1, <2>2, <2>6, <3>2, <3>3, <4>1 DEF WireOK
    <3>4. CASE ~(i <= w)
      <4>1. i - w \in 1 .. l /\ a + w + (i - w) = a + i
        <5> HIDE DEF a, w, l
        <5> QED
          BY <2>5, <3>4
      <4>2. queue[p][i - w] = sent[a + w + (i - w)]
        BY <2>1, <2>2, <4>1 DEF QueueOK
      <4>3. left[i] = queue[p][i - w]
        <5> HIDE DEF w, l, left
        <5> QED
          BY <2>6, <3>4
      <4> QED
        BY <3>2, <4>1, <4>2, <4>3
    <3> QED
      BY <3>3, <3>4
  <2>11. left = right
    <3> HIDE DEF w, l, left, right
    <3> QED
      BY <2>6, <2>8, <2>9, <2>10, SeqEqual
  <2> QED
    BY <2>2, <2>11
<1> QED
  BY <1>1, LiveInit, LiveNext, PTL DEF Spec

\* A tab that stays on a session never shows older counters or entries than before,
\* although counters come from memory, by way of the stream, and entries from the rows,
\* by requests of their own, and although commits of reports fail: as long as no finish
\* of the session has failed and it has not been deleted.
THEOREM PagesTheorem == Spec => PagesNeverGoBack
<1> DEFINE Forward(p) ==
              (/\ page[p].state # "closed" /\ page'[p].state # "closed"
               /\ Steady(page[p].session))
              => /\ page[p].total <= page'[p].total
                 /\ page[p].entries <= page'[p].entries
<1>1. ASSUME LiveInv, [Next]_vars PROVE \A p \in Pages : Forward(p)
  <2> SUFFICES ASSUME NEW p \in Pages PROVE Forward(p)
    OBVIOUS
  <2>1. PageOK(p) /\ page[p].total \in Nat /\ page[p].entries \in Nat
    BY <1>1, Types DEF LiveInv
  <2>2. CASE page'[p] = page[p]
    BY <2>1, <2>2
  <2>3. ASSUME Receive(p), Steady(page[p].session) PROVE Forward(p)
    <3>1. PICK s \in Sessions : s = page[p].session
      BY <1>1, <2>3 DEF Receive, LiveInv, PageOK
    <3>2. /\ WireOK(p) /\ wire[p] \in Seq(Message) /\ wire[p] # <<>>
          /\ queue[p] \in Seq(Message) /\ seen[p] \in Nat /\ published[s] \in Seq(Message)
      BY <1>1, <2>3, Types DEF Receive, LiveInv, StreamOK
    <3>3. /\ Head(wire[p]) = wire[p][1] /\ Len(wire[p]) \in Nat \ {0}
          /\ Len(queue[p]) \in Nat /\ Len(published[s]) \in Nat
      BY <3>2, Taken
    <3>4. seen[p] + 1 \in seen[p] + 1 .. Len(published[s])
      BY <3>1, <3>2, <3>3 DEF WireOK
    <3>5. page[p].total <= Head(wire[p]).total
      <4>1. wire[p][1] = published[s][seen[p] + 1]
        BY <3>1, <3>2, <3>3 DEF WireOK
      <4>2. page[p].total <= published[s][seen[p] + 1].total
        BY <2>3, <3>1, <3>2, <3>4 DEF WireOK
      <4> QED
        BY <3>3, <4>1, <4>2
    <3>6. CASE page' = [page EXCEPT ![p].state = "reloading"]
      BY <1>1, <2>1, <3>6 DEF LiveInv, TypeOK, Page
    <3>7. CASE page' = [page EXCEPT ![p].total = Head(wire[p]).total]
      BY <1>1, <2>1, <3>5, <3>7 DEF LiveInv, TypeOK, Page
    <3> QED
      BY <2>3, <3>6, <3>7 DEF Receive
  <2>4. CASE Reload(p)
    <3>1. PICK s \in Sessions : s = page[p].session
      BY <1>1, <2>4 DEF Reload, LiveInv, PageOK
    <3>2. CASE Opened(p, s)
      <4>1. page'[p].total = session[s].total /\ page'[p].entries = session[s].reports
        BY <1>1, <2>4, <3>2, OpenedIs DEF Reload
      <4> QED
        BY <2>1, <3>1, <4>1 DEF PageOK, NotNewer
    <3>3. CASE page' = [page EXCEPT ![p] = NoPage]
      BY <1>1, <3>3 DEF LiveInv, TypeOK, NoPage
    <3> QED
      BY <2>4, <3>1, <3>2, <3>3 DEF Reload
  <2>5. CASE SwapEntries(p)
    BY <1>1, <2>1, <2>5 DEF SwapEntries, PageOK, NotNewer, LiveInv, TypeOK, Page
  <2>6. CASE Leave(p) \/ StreamError(p)
    <3>1. CASE Leave(p)
      BY <1>1, <3>1 DEF Leave, NoPage, LiveInv, TypeOK
    <3>2. CASE StreamError(p)
      BY <1>1, <2>1, <3>2 DEF StreamError, LiveInv, TypeOK, Page
    <3> QED
      BY <2>6, <3>1, <3>2
  <2>7. ASSUME NEW s \in Sessions, ViewSession(p, s) PROVE Forward(p)
    BY <2>7 DEF ViewSession
  <2>8. CASE Subscribe(p) \/ Send(p) \/ ReadEntries(p) \/ Disconnect(p) \/ KillOld(p)
    BY <2>2, <2>8 DEF Subscribe, Send, ReadEntries, Disconnect, KillOld, client
  <2>9. ASSUME NEW q \in Pages, PageStep(q), q # p PROVE page'[p] = page[p]
    BY <1>1, <2>9
    DEF PageStep, ViewSession, Subscribe, Send, Receive, Reload, ReadEntries, SwapEntries,
        Leave, Disconnect, StreamError, KillOld, Opened, client, LiveInv, TypeOK
  <2>10. ASSUME NEW s \in Sessions, ServerStep(s) PROVE page'[p] = page[p]
    BY <2>10 DEF ServerStep, SessionStart, TestReport, Announce, SessionFinish, DeleteSession,
       client
  <2>11. Restart \/ GracefulRestart \/ UNCHANGED vars => page'[p] = page[p]
    BY DEF Restart, GracefulRestart, vars, client
  <2>12. CASE PageStep(p)
    BY <2>3, <2>4, <2>5, <2>6, <2>7, <2>8, <2>12 DEF PageStep
  <2>13. CASE \E q \in Pages : PageStep(q)
    BY <2>2, <2>9, <2>12, <2>13
  <2> QED
    BY <1>1, <2>2, <2>10, <2>11, <2>13 DEF Next
<1>2. LiveInv /\ [Next]_vars => [\A p \in Pages : Forward(p)]_vars
  BY <1>1
<1> QED
  BY <1>2, LiveInit, LiveNext, PTL DEF Spec, PagesNeverGoBack
=============================================================================
