-------------------------- MODULE EmailIngestProofs --------------------------
(***************************************************************************)
(* Theorems about e-mail ingestion, for any number of messages, ticks,     *)
(* operators, purchase orders and faults.                                  *)
(***************************************************************************)
EXTENDS EmailIngest, TLAPS

\* Every run starts in the invariant.
LEMMA InitInv == IngestConstants /\ Init => IInv
<1> SUFFICES ASSUME IngestConstants, Init PROVE IInv
  OBVIOUS
<1>1. TypeOK
  BY DEF Init, TypeOK, IngestConstants, IngestedEmail, NoRow, EmailIngestStatus, Work, Idle, Pcs
<1>2. \A h \in Handlers : work[h] = Idle
  BY DEF Init
<1>3. \A h \in Handlers : work[h].pc = "idle"
  BY <1>2 DEF Idle
<1>4. WorkInv /\ OverlapInv /\ AloneInv /\ OneTickPerMessage
  BY <1>3 DEF WorkInv, OnRow, OverlapInv, AloneInv, OneTickPerMessage, Working, Handlers
<1>5. \A m \in Messages : ~Replied(m) /\ row[m].status = "none"
  <2>1. \A m \in Messages, p \in Pos : ~(replies[<<m, p>>] > 0)
    BY DEF Init
  <2>2. \A m \in Messages : ~Replied(m)
    BY <2>1, Zenon DEF Replied
  <2>3. \A m \in Messages : row[m] = NoRow
    BY DEF Init
  <2> QED  BY <2>2, <2>3 DEF NoRow
<1>6. PromotionInv /\ PromotedOnce /\ SeenOnlyWhenStored
  BY DEF Init, PromotionInv, PromotedOnce, SeenOnlyWhenStored
<1>7. MatchedShowsOnTimeline /\ OneReplyUnlessOverlap
  BY <1>5 DEF MatchedShowsOnTimeline, OneReplyUnlessOverlap, Replied
<1> QED  BY <1>1, <1>4, <1>5, <1>6, <1>7 DEF IInv

-----------------------------------------------------------------------------
(* A step of one handler *)

\* Handler h goes on to state r, and nobody else does anything.
Moves(h, r) == r \in Work /\ work' = [work EXCEPT ![h] = r]

\* Of the tables, h touches only the row it works on, or one that is not stored yet.
TouchesOwnRow(h) ==
  \A m \in Messages :
    \/ Working(h, m)
    \/ /\ row'[m] = row[m] \/ ~Stored(m)
       /\ \A p \in Pos : replies'[<<m, p>>] = replies[<<m, p>>]
       /\ \A a \in Attachments : promoted'[<<m, a>>] = promoted[<<m, a>>]

Grows ==
  /\ overlapped \subseteq overlapped'
  /\ interrupted \subseteq interrupted'
  /\ \A m \in Messages : Stored(m) => Stored(m)'

\* What the invariant says of the handler h alone.
Holds(h) ==
  /\ work[h].pc \in OnRow \cup {"insert", "markSeen"} => work[h].msg \in Messages
  /\ work[h].pc \in OnRow \cup {"markSeen"} => Stored(work[h].msg)
  /\ work[h].pc \in {"findReply", "promote"} => work[h].po \in Pos
  /\ h \in Operators => work[h].pc \in {"idle", "findReply", "promote", "retryWrite", "dismissWrite"}
  /\ h \in Ticks => work[h].pc \notin {"retryWrite", "dismissWrite"}
  /\ \A m \in Messages : Working(h, m) /\ m \notin overlapped =>
       /\ work[h].pc \in {"match", "unmatched", "promote"} => ~Replied(m)
       /\ work[h].pc \in {"match", "unmatched", "findReply", "promote"} =>
            row[m].status \notin {"MATCHED", "DISMISSED"}
       /\ work[h].pc = "dismissWrite" => row[m].status # "MATCHED"

\* What it says of the message m.
MessageInv(m) ==
  /\ row[m].status = "MATCHED" => row[m].po \in Pos /\ replies[<<m, row[m].po>>] > 0
  /\ Replied(m) /\ row[m].status # "MATCHED" => row[m].retried \/ m \in overlapped
  /\ Replied(m) => Stored(m)
  /\ \A p, q \in Pos :
       replies[<<m, p>>] > 0 /\ replies[<<m, q>>] > 0 /\ m \notin overlapped
         => p = q /\ replies[<<m, p>>] = 1
  /\ \A a \in Attachments : promoted[<<m, a>>] > 1 => m \in overlapped \cup interrupted
  /\ m \notin overlapped \cup interrupted =>
       \A a \in Attachments : promoted[<<m, a>>] > 0 =>
         \/ Replied(m)
         \/ \E h \in Handlers : Working(h, m) /\ At(h, "promote") /\ a \notin work[h].todo

\* The invariant, read handler by handler and message by message.
LEMMA InvParts ==
  IInv <=> /\ TypeOK /\ OverlapInv /\ OneTickPerMessage /\ SeenOnlyWhenStored
           /\ \A h \in Handlers : Holds(h)
           /\ \A m \in Messages : MessageInv(m)
<1>1. (\A h \in Handlers : Holds(h)) <=> WorkInv /\ AloneInv
  BY DEF Holds, WorkInv, AloneInv
<1>2. (\A m \in Messages : MessageInv(m)) <=>
        /\ MatchedShowsOnTimeline /\ OneReplyUnlessOverlap /\ PromotedOnce /\ PromotionInv
        /\ \A m \in Messages : Replied(m) => Stored(m)
        /\ \A m \in Messages : row[m].status = "MATCHED" => row[m].po \in Pos
  BY DEF MessageInv, MatchedShowsOnTimeline, OneReplyUnlessOverlap, PromotedOnce, PromotionInv
<1> QED  BY <1>1, <1>2 DEF IInv

\* The others stay where they are, on the rows they are on.
LEMMA OthersStay ==
  ASSUME TypeOK, NEW h \in Handlers, NEW r, Moves(h, r)
  PROVE  /\ work' \in [Handlers -> Work]
         /\ work'[h] = r
         /\ \A g \in Handlers \ {h} :
              work'[g] = work[g] /\ \A m \in Messages : Working(g, m)' <=> Working(g, m)
  BY DEF TypeOK, Moves, Working

\* What the others hold stays true, unless h met them.
LEMMA OthersHold ==
  ASSUME IInv, NEW h \in Handlers, NEW r, Moves(h, r), TouchesOwnRow(h), Grows,
         NEW g \in Handlers \ {h}
  PROVE  Holds(g)'
<1>1. work'[g] = work[g] /\ \A m \in Messages : Working(g, m)' <=> Working(g, m)
  BY OthersStay DEF IInv
<1>2. Holds(g)
  BY InvParts
<1>3. ASSUME NEW m \in Messages, Working(g, m)', m \notin overlapped'
      PROVE  row'[m] = row[m] /\ (Replied(m)' <=> Replied(m)) /\ Working(g, m) /\ m \notin overlapped
  <2>1. Working(g, m) /\ m \notin overlapped
    BY <1>1, <1>3 DEF Grows
  <2>2. Stored(m)
    BY <1>2, <2>1 DEF Holds, Working, OnRow
  <2>3. ~Working(h, m)
    BY <2>1 DEF IInv, OverlapInv
  <2>4. row'[m] = row[m] /\ \A p \in Pos : replies'[<<m, p>>] = replies[<<m, p>>]
    BY <2>2, <2>3 DEF TouchesOwnRow
  <2> QED  BY <2>1, <2>4 DEF Replied
<1> QED  BY <1>1, <1>2, <1>3 DEF Holds, Grows

\* A message whose row h does not work on keeps what is said of it.
LEMMA OtherMessages ==
  ASSUME IInv, NEW h \in Handlers, NEW r, Moves(h, r), TouchesOwnRow(h), Grows,
         NEW m \in Messages, ~Working(h, m), row'[m] = row[m]
  PROVE  MessageInv(m)'
<1>1. /\ \A p \in Pos : replies'[<<m, p>>] = replies[<<m, p>>]
      /\ \A a \in Attachments : promoted'[<<m, a>>] = promoted[<<m, a>>]
  BY DEF TouchesOwnRow
<1>2. MessageInv(m)
  BY InvParts
<1>3. (Replied(m)' <=> Replied(m)) /\ (Stored(m)' <=> Stored(m))
  BY <1>1 DEF Replied, Stored
<1>4. \A g \in Handlers, a \in Attachments :
        Working(g, m) /\ At(g, "promote") /\ a \notin work[g].todo
          => (Working(g, m) /\ At(g, "promote") /\ a \notin work[g].todo)'
  BY OthersStay DEF IInv, At
<1> QED  BY <1>1, <1>2, <1>3, <1>4 DEF MessageInv, Grows

\* A step of h that keeps its own row, and the rows it touches, in the invariant.
LEMMA StepKeeps ==
  ASSUME IInv, TypeOK', SeenOnlyWhenStored', NEW h \in Handlers, NEW r, Moves(h, r),
         TouchesOwnRow(h), Grows, Holds(h)',
         \A m \in Messages : Working(h, m) \/ row'[m] # row[m] => MessageInv(m)',
         \A m \in Messages, g \in Handlers \ {h} :
           Working(h, m)' /\ ~Working(h, m) /\ Working(g, m) =>
             m \in overlapped' /\ ~(g \in Ticks /\ h \in Ticks)
  PROVE  IInv'
<1>1. \A g \in Handlers : Holds(g)'
  BY OthersHold
<1>2. \A m \in Messages : MessageInv(m)'
  BY OtherMessages
<1>3. ASSUME NEW g \in Handlers, NEW k \in Handlers, NEW m \in Messages,
             g # k, Working(g, m)', Working(k, m)'
      PROVE  m \in overlapped' /\ ~(g \in Ticks /\ k \in Ticks)
  <2>1. \A f \in Handlers \ {h} : Working(f, m)' => Working(f, m)
    BY OthersStay DEF IInv
  <2>2. ASSUME Working(g, m), Working(k, m)
        PROVE  m \in overlapped' /\ ~(g \in Ticks /\ k \in Ticks)
    BY <1>3, <2>2 DEF IInv, OverlapInv, OneTickPerMessage, Grows
  <2> QED  BY <1>3, <2>1, <2>2
<1>4. OverlapInv' /\ OneTickPerMessage'
  BY <1>3 DEF OverlapInv, OneTickPerMessage, Handlers
<1>5. WorkInv' /\ AloneInv'
  BY <1>1 DEF Holds, WorkInv, AloneInv
<1>6. /\ MatchedShowsOnTimeline' /\ OneReplyUnlessOverlap' /\ PromotedOnce' /\ PromotionInv'
      /\ (\A m \in Messages : Replied(m) => Stored(m))'
      /\ (\A m \in Messages : row[m].status = "MATCHED" => row[m].po \in Pos)'
  BY <1>2 DEF MessageInv, MatchedShowsOnTimeline, OneReplyUnlessOverlap, PromotedOnce, PromotionInv
<1> QED  BY <1>4, <1>5, <1>6 DEF IInv

\* h leaves the row, if it was at one, and the tables as they are; a materialization that
\* ends so is on record.
LEMMA StepLeaves ==
  ASSUME IInv, TypeOK', UNCHANGED <<tables, overlapped>>,
         \A m \in Messages : mailbox'[m] = "seen" => mailbox[m] = "seen" \/ Stored(m),
         NEW h \in Handlers, NEW r, Moves(h, r), r.pc \notin OnRow,
         h \in Operators => r.pc = "idle",
         r.pc \in {"insert", "markSeen"} => r.msg \in Messages,
         r.pc = "markSeen" => Stored(r.msg),
         interrupted \subseteq interrupted',
         At(h, "promote") => work[h].msg \in interrupted'
  PROVE  IInv'
<1>1. work'[h] = r /\ \A m \in Messages : ~Working(h, m)'
  BY OthersStay DEF IInv, Working, OnRow
<1>2. TouchesOwnRow(h) /\ Grows /\ SeenOnlyWhenStored'
  BY DEF TouchesOwnRow, Grows, tables, IInv, SeenOnlyWhenStored, Stored
<1>3. Holds(h)'
  BY <1>1 DEF Holds, OnRow, Stored, tables
<1>4. ASSUME NEW m \in Messages, Working(h, m) PROVE MessageInv(m)'
  <2>1. MessageInv(m)
    BY InvParts
  <2>2. \A g \in Handlers, a \in Attachments : m \notin interrupted' =>
          (Working(g, m) /\ At(g, "promote") /\ a \notin work[g].todo
             => (Working(g, m) /\ At(g, "promote") /\ a \notin work[g].todo)')
    BY <1>4, OthersStay DEF IInv, At, Working
  <2> QED  BY <2>1, <2>2 DEF MessageInv, tables, Replied, Stored
<1> QED  BY <1>1, <1>2, <1>3, <1>4, StepKeeps DEF tables
-----------------------------------------------------------------------------
(* The steps of a tick *)

\* The state a handler can be in, by field.
LEMMA WorkFields ==
  ASSUME TypeOK, NEW h \in Handlers
  PROVE  work[h] \in Work /\ Idle \in Work
  BY DEF TypeOK, Work, Idle, Pcs

LEMMA FaultBound ==
  ASSUME IngestConstants, TypeOK, Fault \/ faults' = faults
  PROVE  faults' \in 0..MaxFaults
<1>1. faults \in 0..MaxFaults /\ MaxFaults \in Nat
  BY DEF TypeOK, IngestConstants
<1> QED  BY <1>1 DEF Fault

LEMMA ClaimKeeps ==
  ASSUME IngestConstants, IInv, NEW t \in Ticks, TickClaim(t) PROVE IInv'
<1> DEFINE r == [work[t] EXCEPT !.pc = "fetch"]
<1>1. t \in Handlers /\ t \notin Operators
  BY DEF Handlers, IngestConstants
<1>2. r \in Work /\ r.pc = "fetch"
  <2>1. work[t] \in Work
    BY <1>1, WorkFields DEF IInv
  <2> QED  BY <2>1 DEF Work, Pcs
<1>3. Moves(t, r)
  BY <1>2 DEF TickClaim, Continue, Moves
<1>4. TypeOK'
  BY <1>1, <1>3, OthersStay DEF IInv, TypeOK, TickClaim, tables
<1> QED
  BY <1>1, <1>2, <1>3, <1>4, StepLeaves DEF TickClaim, OnRow, At

LEMMA FetchKeeps ==
  ASSUME IngestConstants, IInv, NEW t \in Ticks, TickFetch(t) PROVE IInv'
<1> DEFINE b == {m \in Unseen : Cardinality({k \in Unseen : k < m}) < MaxBatch}
           r == [work[t] EXCEPT !.pc = "loop", !.batch = b]
<1>1. t \in Handlers /\ t \notin Operators
  BY DEF Handlers, IngestConstants
<1>2. r \in Work /\ r.pc = "loop"
  <2>1. work[t] \in Work
    BY <1>1, WorkFields DEF IInv
  <2>2. b \subseteq Messages
    BY DEF Unseen
  <2> QED  BY <2>1, <2>2 DEF Work, Pcs
<1>3. Moves(t, r)
  BY <1>2 DEF TickFetch, Moves
<1>4. TypeOK'
  BY <1>1, <1>3, OthersStay DEF IInv, TypeOK, TickFetch, tables
<1> QED
  BY <1>1, <1>2, <1>3, <1>4, StepLeaves DEF TickFetch, OnRow, At

LEMMA NextKeeps ==
  ASSUME IngestConstants, IInv, NEW t \in Ticks, TickNext(t) \/ TickBudget(t) PROVE IInv'
<1>1. t \in Handlers /\ t \notin Operators
  BY DEF Handlers, IngestConstants
<1>2. PICK r : /\ Moves(t, r) /\ r.pc \in {"idle", "loop", "insert"}
               /\ r.pc = "insert" => r.msg \in Messages
  <2>1. CASE work' = [work EXCEPT ![t] = Idle]
    <3>1. Idle \in Work /\ Idle.pc = "idle"
      BY <1>1, WorkFields DEF IInv, Idle
    <3> QED  BY <2>1, <3>1 DEF Moves
  <2>2. ASSUME NEW m \in work[t].batch,
               work' = [work EXCEPT ![t] = [Idle EXCEPT
                 !.batch = work[t].batch \ {m},
                 !.pc = IF m \in Unparsable THEN "loop" ELSE "insert",
                 !.msg = IF m \in Unparsable THEN NoMessage ELSE m]]
        PROVE  \E r : /\ Moves(t, r) /\ r.pc \in {"idle", "loop", "insert"}
                      /\ r.pc = "insert" => r.msg \in Messages
    <3> DEFINE s == [Idle EXCEPT
                 !.batch = work[t].batch \ {m},
                 !.pc = IF m \in Unparsable THEN "loop" ELSE "insert",
                 !.msg = IF m \in Unparsable THEN NoMessage ELSE m]
    <3>1. work[t].batch \subseteq Messages
      BY <1>1, WorkFields DEF IInv, Work
    <3>2. s \in Work /\ s.pc \in {"loop", "insert"} /\ (s.pc = "insert" => s.msg \in Messages)
      BY <3>1, <2>2 DEF Work, Idle, Pcs
    <3> QED  BY <2>2, <3>2 DEF Moves
  <2> QED  BY <2>1, <2>2 DEF TickNext, TickBudget
<1>3. TypeOK'
  <2>1. work' \in [Handlers -> Work]
    BY <1>1, <1>2, OthersStay DEF IInv
  <2>2. faults' \in 0..MaxFaults
    BY FaultBound DEF IInv, TickNext, TickBudget
  <2> QED  BY <2>1, <2>2 DEF IInv, TypeOK, TickNext, TickBudget, tables
<1> QED
  BY <1>1, <1>2, <1>3, StepLeaves DEF TickNext, TickBudget, OnRow, At
\* An insert lets the tick in on a row nobody else can be at.
LEMMA InsertKeeps ==
  ASSUME IngestConstants, IInv, NEW t \in Ticks, InsertRow(t) PROVE IInv'
<1> DEFINE r == [work[t] EXCEPT !.pc = "match"]
           s == [work[t] EXCEPT !.pc = "markSeen"]
<1>1. t \in Handlers /\ t \notin Operators /\ work[t] \in Work /\ work[t].pc = "insert"
  BY WorkFields DEF Handlers, IngestConstants, InsertRow, At, IInv
<1>2. PICK m \in Messages : work[t].msg = m
  BY <1>1 DEF IInv, WorkInv, OnRow
<1>3. r \in Work /\ r.pc = "match" /\ r.msg = m /\ s \in Work /\ s.pc = "markSeen" /\ s.msg = m
  BY <1>1, <1>2 DEF Work, Pcs
<1>4. CASE NewMessage(m)
  <2>1. Moves(t, r) /\ row' = [row EXCEPT ![m] = [NoRow EXCEPT !.status = "PENDING"]]
    BY <1>2, <1>3, <1>4 DEF InsertRow, Continue, Moves
  <2>2. UNCHANGED <<mailbox, lease, promoted, replies, interrupted, faults>> /\ NoteOverlap(t, m)
    BY <1>2, <1>4 DEF InsertRow
  <2>3. ~Stored(m) /\ ~Replied(m) /\ \A g \in Handlers : ~Working(g, m)
    BY <1>2, <1>4 DEF NewMessage, IInv, WorkInv, Working, OnRow
  <2>4. overlapped' = overlapped
    BY <2>2, <2>3 DEF NoteOverlap
  <2>5. /\ row'[m] = [status |-> "PENDING", po |-> NoPo, retried |-> FALSE]
        /\ \A k \in Messages \ {m} : row'[k] = row[k]
    BY <1>2, <2>1 DEF NoRow, IInv, TypeOK
  <2>6. TypeOK'
    <3>1. [status |-> "PENDING", po |-> NoPo, retried |-> FALSE] \in IngestedEmail
      BY DEF IngestedEmail, EmailIngestStatus
    <3>2. work' \in [Handlers -> Work]
      BY <1>1, <2>1, OthersStay DEF IInv
    <3>3. row' \in [Messages -> IngestedEmail]
      BY <2>1, <3>1 DEF IInv, TypeOK, NoRow
    <3> QED  BY <2>2, <2>4, <3>2, <3>3 DEF IInv, TypeOK
  <2>7. TouchesOwnRow(t) /\ Grows /\ SeenOnlyWhenStored'
    BY <2>2, <2>3, <2>4, <2>5 DEF TouchesOwnRow, Grows, Stored, SeenOnlyWhenStored, IInv
  <2>8. work'[t] = r
    BY <1>1, <2>1, OthersStay DEF IInv
  <2>9. ~Replied(m)'
    BY <2>2, <2>3 DEF Replied
  <2>10. Holds(t)'
    BY <1>1, <1>2, <1>3, <2>5, <2>8, <2>9 DEF Holds, Stored, Working
  <2>11. MessageInv(m)'
    <3>1. MessageInv(m)
      BY <1>2, InvParts
    <3>2. \A a \in Attachments : promoted'[<<m, a>>] = promoted[<<m, a>>]
      BY <2>2
    <3> QED  BY <2>2, <2>3, <2>4, <2>5, <2>9, <3>1, <3>2 DEF MessageInv, Replied, Stored
  <2>12. \A k \in Messages : Working(t, k) \/ row'[k] # row[k] => k = m
    BY <1>1, <2>5 DEF Working
  <2>13. \A k \in Messages : Working(t, k)' => k = m
    BY <1>3, <2>8 DEF Working
  <2> QED
    BY <1>1, <2>1, <2>3, <2>6, <2>7, <2>10, <2>11, <2>12, <2>13, StepKeeps
<1>5. CASE ~NewMessage(m)
  <2>1. Moves(t, s) /\ UNCHANGED <<mailbox, lease, tables, overlapped, interrupted, faults>>
    BY <1>2, <1>3, <1>5 DEF InsertRow, Continue, Moves, tables
  <2>2. TypeOK'
    BY <1>1, <2>1, OthersStay DEF IInv, TypeOK, tables
  <2> QED
    BY <1>1, <1>2, <1>3, <1>5, <2>1, <2>2, StepLeaves DEF OnRow, At, NewMessage
<1> QED  BY <1>4, <1>5

\* As long as the tables stay, messages lose what is said of them only by the end of a
\* materialization.
LEMMA MessagesKeep ==
  ASSUME IInv, NEW h \in Handlers, NEW r, Moves(h, r), UNCHANGED tables,
         overlapped \subseteq overlapped', interrupted \subseteq interrupted', ~At(h, "promote")
  PROVE  \A m \in Messages : MessageInv(m)'
<1> SUFFICES ASSUME NEW m \in Messages PROVE MessageInv(m)'
  OBVIOUS
<1>1. MessageInv(m)
  BY InvParts
<1>2. \A g \in Handlers, a \in Attachments :
        Working(g, m) /\ At(g, "promote") /\ a \notin work[g].todo
          => (Working(g, m) /\ At(g, "promote") /\ a \notin work[g].todo)'
  BY OthersStay DEF IInv, At
<1> QED  BY <1>1, <1>2 DEF MessageInv, tables, Replied, Stored

\* h goes on with the row it is at; the tables stay.
LEMMA StepStays ==
  ASSUME IInv, TypeOK', UNCHANGED <<mailbox, tables, overlapped, interrupted>>,
         NEW h \in Handlers, NEW r, Moves(h, r), ~At(h, "promote"),
         Working(h, work[h].msg), r.msg = work[h].msg, Holds(h)'
  PROVE  IInv'
<1>1. work'[h] = r /\ \A m \in Messages : Working(h, m)' => Working(h, m)
  BY OthersStay DEF IInv, Working
<1>2. TouchesOwnRow(h) /\ Grows /\ SeenOnlyWhenStored'
  BY DEF TouchesOwnRow, Grows, tables, IInv, SeenOnlyWhenStored, Stored
<1>3. \A m \in Messages : MessageInv(m)'
  BY MessagesKeep
<1> QED  BY <1>1, <1>2, <1>3, StepKeeps

LEMMA MatchKeeps ==
  ASSUME IngestConstants, IInv, NEW t \in Ticks, NEW po \in Pos \cup {NoPo}, Match(t, po)
  PROVE  IInv'
<1> DEFINE r == [work[t] EXCEPT !.pc = IF po = NoPo THEN "unmatched" ELSE "findReply", !.po = po]
<1>1. t \in Handlers /\ t \notin Operators /\ work[t] \in Work /\ work[t].pc = "match"
  BY WorkFields DEF Handlers, IngestConstants, Match, At, IInv
<1>2. /\ r \in Work /\ r.pc \in {"unmatched", "findReply"} /\ r.msg = work[t].msg
      /\ r.pc = "findReply" => r.po \in Pos
  BY <1>1 DEF Work, Pcs
<1>3. Moves(t, r) /\ UNCHANGED <<mailbox, lease, tables, overlapped, interrupted, faults>>
  BY <1>2 DEF Match, Moves
<1>4. TypeOK'
  BY <1>1, <1>3, OthersStay DEF IInv, TypeOK, tables
<1>5. work'[t] = r /\ Working(t, work[t].msg) /\ Holds(t)
  BY <1>1, <1>3, OthersStay, InvParts DEF IInv, Working
<1>6. \A m \in Messages : Working(t, m)' => Working(t, m)
  BY <1>1, <1>2, <1>5 DEF Working
<1>7. Holds(t)'
  BY <1>1, <1>2, <1>3, <1>5, <1>6 DEF Holds, tables, Replied, Stored, OnRow
<1> QED  BY <1>1, <1>2, <1>3, <1>4, <1>5, <1>7, StepStays DEF At
LEMMA MarkSeenKeeps ==
  ASSUME IngestConstants, IInv, NEW t \in Ticks, MarkSeen(t) PROVE IInv'
<1> DEFINE r == [Idle EXCEPT !.pc = "loop", !.batch = work[t].batch]
<1>1. t \in Handlers /\ t \notin Operators /\ work[t] \in Work /\ work[t].pc = "markSeen"
  BY WorkFields DEF Handlers, IngestConstants, MarkSeen, MarkedNow, At, IInv
<1>2. PICK m \in Messages : work[t].msg = m /\ Stored(m)
  BY <1>1 DEF IInv, WorkInv, OnRow
<1>3. r \in Work /\ r.pc = "loop"
  BY <1>1 DEF Work, Idle, Pcs
<1>4. Moves(t, r) /\ UNCHANGED <<lease, tables, overlapped, interrupted, faults>>
  BY <1>3 DEF MarkSeen, Moves
<1>5. mailbox' = [mailbox EXCEPT ![m] = "seen"]
  BY <1>2 DEF MarkSeen
<1>6. TypeOK'
  <2>1. work' \in [Handlers -> Work]
    BY <1>1, <1>4, OthersStay DEF IInv
  <2>2. mailbox' \in [Messages -> {"absent", "unseen", "seen"}]
    BY <1>2, <1>5 DEF IInv, TypeOK
  <2> QED  BY <1>4, <2>1, <2>2 DEF IInv, TypeOK, tables
<1>7. \A k \in Messages : mailbox'[k] = "seen" => mailbox[k] = "seen" \/ Stored(k)
  BY <1>2, <1>5 DEF IInv, TypeOK
<1> QED  BY <1>1, <1>3, <1>4, <1>6, <1>7, StepLeaves DEF OnRow, At

\* h writes the row it is at and leaves it; what it writes is no lie about the timeline.
LEMMA StepWrites ==
  ASSUME IInv, TypeOK', UNCHANGED <<mailbox, promoted, replies, overlapped, interrupted>>,
         NEW h \in Handlers, NEW r, Moves(h, r), ~At(h, "promote"),
         NEW m \in Messages, Working(h, m), \A k \in Messages \ {m} : row'[k] = row[k],
         row'[m].status \in {"PENDING", "UNMATCHED", "DISMISSED"},
         Replied(m) => row'[m].retried \/ m \in overlapped,
         r.pc \in {"idle", "markSeen"}, r.pc = "markSeen" => r.msg = m /\ h \notin Operators
  PROVE  IInv'
<1>1. work'[h] = r /\ \A k \in Messages : ~Working(h, k)'
  BY OthersStay DEF IInv, Working
<1>2. \A k \in Messages : Working(h, k) => k = m
  BY DEF Working
<1>3. TouchesOwnRow(h) /\ Grows /\ SeenOnlyWhenStored'
  BY DEF TouchesOwnRow, Grows, IInv, SeenOnlyWhenStored, Stored
<1>4. Holds(h)'
  BY <1>1 DEF Holds, OnRow, Stored
<1>5. MessageInv(m)'
  <2>1. MessageInv(m)
    BY InvParts
  <2>2. \A g \in Handlers, a \in Attachments :
          Working(g, m) /\ At(g, "promote") /\ a \notin work[g].todo
            => (Working(g, m) /\ At(g, "promote") /\ a \notin work[g].todo)'
    BY OthersStay DEF IInv, At
  <2> QED  BY <2>1, <2>2 DEF MessageInv, Replied, Stored
<1> QED  BY <1>1, <1>2, <1>3, <1>4, <1>5, StepKeeps

LEMMA UnmatchedKeeps ==
  ASSUME IngestConstants, IInv, NEW t \in Ticks, RecordUnmatched(t) PROVE IInv'
<1> DEFINE r == [work[t] EXCEPT !.pc = "markSeen"]
<1>1. t \in Handlers /\ t \notin Operators /\ work[t] \in Work /\ work[t].pc = "unmatched"
  BY WorkFields DEF Handlers, IngestConstants, RecordUnmatched, At, IInv
<1>2. PICK m \in Messages : work[t].msg = m
  BY <1>1 DEF IInv, WorkInv, OnRow
<1>3. r \in Work /\ r.pc = "markSeen" /\ r.msg = m
  BY <1>1, <1>2 DEF Work, Pcs
<1>4. /\ Moves(t, r)
      /\ UNCHANGED <<mailbox, lease, promoted, replies, overlapped, interrupted, faults>>
      /\ row' = [row EXCEPT ![m].status = "UNMATCHED"]
  BY <1>2, <1>3 DEF RecordUnmatched, Continue, Moves
<1>5. Working(t, m) /\ (m \in overlapped \/ ~Replied(m))
  BY <1>1, <1>2 DEF Working, IInv, AloneInv
<1>6. row' \in [Messages -> IngestedEmail] /\ row'[m].status = "UNMATCHED"
  BY <1>4 DEF IInv, TypeOK, IngestedEmail, EmailIngestStatus
<1>7. \A k \in Messages \ {m} : row'[k] = row[k]
  BY <1>4 DEF IInv, TypeOK
<1>8. TypeOK'
  BY <1>1, <1>4, <1>6, OthersStay DEF IInv, TypeOK
<1> QED  BY <1>1, <1>3, <1>4, <1>5, <1>6, <1>7, <1>8, StepWrites DEF At
-----------------------------------------------------------------------------
(* Materialization *)

LEMMA FindReplyKeeps ==
  ASSUME IngestConstants, IInv, NEW h \in Handlers, FindReply(h) PROVE IInv'
<1> DEFINE s == IF h \in Ticks
                THEN [Idle EXCEPT !.pc = "markSeen", !.batch = work[h].batch, !.msg = work[h].msg]
                ELSE Idle
           r == [work[h] EXCEPT !.pc = "promote", !.todo = Attachments]
<1>1. work[h] \in Work /\ work[h].pc = "findReply" /\ (h \in Operators => h \notin Ticks)
  BY WorkFields DEF IngestConstants, FindReply, At, IInv
<1>2. PICK m \in Messages : work[h].msg = m /\ Stored(m)
  BY <1>1 DEF IInv, WorkInv, OnRow
<1>3. UNCHANGED <<mailbox, lease, tables, overlapped, interrupted, faults>>
  BY DEF FindReply
<1>4. CASE Replied(m)
  <2>1. /\ s \in Work /\ s.pc \in {"markSeen", "idle"} /\ (h \in Operators => s.pc = "idle")
        /\ s.pc = "markSeen" => s.msg = m
    BY <1>1, <1>2 DEF Work, Idle, Pcs, Handlers
  <2>2. Moves(h, s)
    BY <1>2, <1>4, <2>1 DEF FindReply, Return, Moves
  <2>3. TypeOK'
    BY <1>3, <2>2, OthersStay DEF IInv, TypeOK, tables
  <2> QED  BY <1>1, <1>2, <1>3, <2>1, <2>2, <2>3, StepLeaves DEF OnRow, At
<1>5. CASE ~Replied(m)
  <2>1. r \in Work /\ r.pc = "promote" /\ r.msg = m /\ r.po = work[h].po
    BY <1>1, <1>2 DEF Work, Pcs
  <2>2. Moves(h, r)
    BY <1>2, <1>5, <2>1 DEF FindReply, Moves
  <2>3. TypeOK'
    BY <1>3, <2>2, OthersStay DEF IInv, TypeOK, tables
  <2>4. work'[h] = r /\ Holds(h) /\ Working(h, m)
    BY <1>1, <1>2, <2>2, OthersStay, InvParts DEF IInv, Working
  <2>5. \A k \in Messages : Working(h, k)' => k = m
    BY <2>1, <2>4 DEF Working
  <2>6. Holds(h)'
    BY <1>1, <1>2, <1>3, <1>5, <2>1, <2>4, <2>5 DEF Holds, OnRow, tables, Replied, Stored
  <2> QED  BY <1>1, <1>2, <1>3, <2>1, <2>2, <2>3, <2>4, <2>6, StepStays DEF At
<1> QED  BY <1>4, <1>5

\* Undisturbed, the one that promotes an attachment is the first to come to it.
LEMMA PromoteKeeps ==
  ASSUME IngestConstants, IInv, NEW h \in Handlers, NEW a \in Attachments, PromoteAttachment(h, a)
  PROVE  IInv'
<1> DEFINE r == [work[h] EXCEPT !.todo = @ \ {a}]
<1>1. work[h] \in Work /\ work[h].pc = "promote" /\ a \in work[h].todo
  BY WorkFields DEF PromoteAttachment, At, IInv
<1>2. PICK m \in Messages : work[h].msg = m /\ Stored(m)
  BY <1>1 DEF IInv, WorkInv, OnRow
<1>3. /\ r \in Work /\ r.pc = "promote" /\ r.msg = m /\ r.po = work[h].po
      /\ r.todo = work[h].todo \ {a}
  BY <1>1, <1>2 DEF Work
<1>4. /\ Moves(h, r) /\ UNCHANGED <<mailbox, lease, row, replies, overlapped, interrupted, faults>>
      /\ promoted' = [promoted EXCEPT ![<<m, a>>] = @ + 1] \/ promoted' = promoted
  BY <1>2, <1>3 DEF PromoteAttachment, Moves
<1>5. /\ promoted' \in [Messages \X Attachments -> Nat]
      /\ promoted'[<<m, a>>] <= promoted[<<m, a>>] + 1
      /\ \A k \in Messages, b \in Attachments :
           k # m \/ b # a => promoted'[<<k, b>>] = promoted[<<k, b>>]
  <2>1. promoted \in [Messages \X Attachments -> Nat] /\ <<m, a>> \in Messages \X Attachments
    BY DEF IInv, TypeOK
  <2>2. CASE promoted' = promoted
    <3>1. promoted[<<m, a>>] \in Nat
      BY <2>1
    <3> QED  BY <2>1, <2>2, <3>1
  <2>3. CASE promoted' = [promoted EXCEPT ![<<m, a>>] = @ + 1]
    <3>1. promoted[<<m, a>>] \in Nat
      BY <2>1
    <3>2. \A k \in Messages, b \in Attachments :
            /\ <<k, b>> \in Messages \X Attachments
            /\ <<k, b>> = <<m, a>> <=> k = m /\ b = a
      OBVIOUS
    <3>3. promoted' \in [Messages \X Attachments -> Nat]
      BY <2>1, <2>3, <3>1
    <3>4. promoted'[<<m, a>>] = promoted[<<m, a>>] + 1
      BY <2>1, <2>3
    <3>5. \A k \in Messages, b \in Attachments :
            k # m \/ b # a => promoted'[<<k, b>>] = promoted[<<k, b>>]
      BY <2>1, <2>3, <3>2
    <3>6. promoted'[<<m, a>>] <= promoted[<<m, a>>] + 1
      BY <3>1, <3>4
    <3> QED  BY <3>3, <3>5, <3>6, Zenon
  <2> QED  BY <1>4, <2>2, <2>3
<1>6. TypeOK'
  BY <1>4, <1>5, OthersStay DEF IInv, TypeOK
<1>7. work'[h] = r /\ Working(h, m) /\ Holds(h) /\ MessageInv(m)
  BY <1>1, <1>2, <1>4, OthersStay, InvParts DEF IInv, Working
<1>8. \A k \in Messages : (Working(h, k)' <=> k = m) /\ (Working(h, k) <=> k = m)
  BY <1>1, <1>2, <1>3, <1>7 DEF Working
<1>9. TouchesOwnRow(h) /\ Grows /\ SeenOnlyWhenStored'
  BY <1>4, <1>5, <1>8 DEF TouchesOwnRow, Grows, IInv, SeenOnlyWhenStored, Stored
<1>10. Holds(h)'
  BY <1>1, <1>2, <1>3, <1>4, <1>7, <1>8 DEF Holds, Replied, Stored, OnRow
<1>11. ASSUME m \notin overlapped \cup interrupted
       PROVE  \A b \in Attachments : promoted[<<m, b>>] > 0 => b \notin work[h].todo
  <2>1. ~Replied(m)
    BY <1>1, <1>7, <1>11 DEF Holds
  <2>2. \A g \in Handlers : Working(g, m) => g = h
    BY <1>7, <1>11 DEF IInv, OverlapInv
  <2> QED  BY <1>7, <1>11, <2>1, <2>2 DEF MessageInv
<1>12. \A b \in Attachments : promoted'[<<m, b>>] > 1 => m \in overlapped \cup interrupted
  <2>1. promoted[<<m, a>>] \in Nat
    BY DEF IInv, TypeOK
  <2>2. CASE promoted[<<m, a>>] > 0
    BY <1>1, <1>5, <1>7, <1>11, <2>2 DEF MessageInv
  <2>3. CASE promoted[<<m, a>>] = 0
    BY <1>5, <1>7, <2>3 DEF MessageInv
  <2> QED  BY <2>1, <2>2, <2>3
<1>13. m \notin overlapped \cup interrupted =>
         \A b \in Attachments : promoted'[<<m, b>>] > 0 => b \notin work'[h].todo
  BY <1>3, <1>5, <1>7, <1>11
<1>14. MessageInv(m)'
  <2>1. (Replied(m)' <=> Replied(m)) /\ (Stored(m)' <=> Stored(m)) /\ At(h, "promote")'
    BY <1>3, <1>4, <1>7 DEF Replied, Stored, At
  <2> QED  BY <1>4, <1>7, <1>8, <1>12, <1>13, <2>1 DEF MessageInv
<1> QED  BY <1>4, <1>6, <1>8, <1>9, <1>10, <1>14, StepKeeps

LEMMA CommitKeeps ==
  ASSUME IngestConstants, IInv, NEW h \in Handlers, CommitReply(h) PROVE IInv'
<1> DEFINE s == IF h \in Ticks
                THEN [Idle EXCEPT !.pc = "markSeen", !.batch = work[h].batch, !.msg = work[h].msg]
                ELSE Idle
<1>1. work[h] \in Work /\ work[h].pc = "promote" /\ (h \in Operators => h \notin Ticks)
  BY WorkFields DEF IngestConstants, CommitReply, At, IInv
<1>2. PICK m \in Messages, p \in Pos : work[h].msg = m /\ work[h].po = p /\ Stored(m)
  BY <1>1 DEF IInv, WorkInv, OnRow
<1>3. /\ s \in Work /\ s.pc \in {"markSeen", "idle"} /\ (h \in Operators => s.pc = "idle")
      /\ s.pc = "markSeen" => s.msg = m
  BY <1>1, <1>2 DEF Work, Idle, Pcs, Handlers
<1>4. /\ Moves(h, s) /\ UNCHANGED <<mailbox, lease, promoted, overlapped, interrupted, faults>>
      /\ replies' = [replies EXCEPT ![<<m, p>>] = @ + 1]
      /\ row' = [row EXCEPT ![m].status = "MATCHED", ![m].po = p]
  BY <1>2, <1>3 DEF CommitReply, Return, Moves
<1>5. /\ row' \in [Messages -> IngestedEmail] /\ row'[m].status = "MATCHED" /\ row'[m].po = p
      /\ \A k \in Messages \ {m} : row'[k] = row[k]
  <2>1. row \in [Messages -> IngestedEmail] /\ row[m] \in IngestedEmail
    BY DEF IInv, TypeOK
  <2>2. row' = [row EXCEPT ![m] = [row[m] EXCEPT !.status = "MATCHED", !.po = p]]
    BY <1>4
  <2>3. /\ [row[m] EXCEPT !.status = "MATCHED", !.po = p] \in IngestedEmail
        /\ [row[m] EXCEPT !.status = "MATCHED", !.po = p].status = "MATCHED"
        /\ [row[m] EXCEPT !.status = "MATCHED", !.po = p].po = p
    BY <2>1 DEF IngestedEmail, EmailIngestStatus
  <2> QED  BY <2>1, <2>2, <2>3
<1>6. /\ replies' \in [Messages \X Pos -> Nat] /\ replies'[<<m, p>>] = replies[<<m, p>>] + 1
      /\ \A k \in Messages, q \in Pos :
           k # m \/ q # p => replies'[<<k, q>>] = replies[<<k, q>>]
  BY <1>4 DEF IInv, TypeOK
<1>7. TypeOK'
  BY <1>4, <1>5, <1>6, OthersStay DEF IInv, TypeOK
<1>8. /\ work'[h] = s /\ Working(h, m) /\ Holds(h) /\ MessageInv(m)
      /\ \A k \in Messages : ~Working(h, k)' /\ (Working(h, k) => k = m)
  BY <1>1, <1>2, <1>3, <1>4, OthersStay, InvParts DEF IInv, Working
<1>9. TouchesOwnRow(h) /\ Grows /\ SeenOnlyWhenStored'
  BY <1>4, <1>5, <1>6, <1>8 DEF TouchesOwnRow, Grows, IInv, SeenOnlyWhenStored, Stored
<1>10. Holds(h)'
  BY <1>3, <1>5, <1>8 DEF Holds, Stored, OnRow
<1>11. MessageInv(m)'
  <2>1. replies[<<m, p>>] \in Nat /\ replies'[<<m, p>>] > 0
    BY <1>6 DEF IInv, TypeOK
  <2>2. Replied(m)' /\ Stored(m)'
    BY <1>5, <2>1 DEF Replied, Stored
  <2>3. ASSUME m \notin overlapped
        PROVE  \A q, o \in Pos : replies'[<<m, q>>] > 0 /\ replies'[<<m, o>>] > 0
                 => q = o /\ replies'[<<m, q>>] = 1
    <3>1. ~Replied(m)
      BY <1>1, <1>8, <2>3 DEF Holds
    <3>2. \A q \in Pos : ~(replies[<<m, q>>] > 0)
      BY <3>1 DEF Replied
    <3>3. \A q \in Pos : replies'[<<m, q>>] > 0 => q = p
      BY <1>6, <3>2
    <3>4. replies'[<<m, p>>] = 1
      BY <1>6, <2>1, <3>2
    <3> QED  BY <3>3, <3>4
  <2> QED  BY <1>4, <1>5, <1>8, <2>1, <2>2, <2>3 DEF MessageInv
<1> QED  BY <1>4, <1>5, <1>7, <1>8, <1>9, <1>10, <1>11, StepKeeps
-----------------------------------------------------------------------------
(* The steps of an operator *)

\* An operator comes to the row; whoever is there is noticed.
LEMMA StartKeeps ==
  ASSUME IngestConstants, IInv, NEW o \in Operators, NEW m \in Messages, NEW po \in Pos \cup {NoPo},
         NEW pc \in {"findReply", "retryWrite", "dismissWrite"}, Start(o, m, pc, po),
         pc = "findReply" => po \in Pos /\ row[m].status \notin {"MATCHED", "DISMISSED"},
         pc = "dismissWrite" => row[m].status # "MATCHED"
  PROVE  IInv'
<1> DEFINE r == [Idle EXCEPT !.pc = pc, !.msg = m, !.po = po]
<1>1. o \in Handlers /\ o \notin Ticks /\ work[o].pc = "idle"
  BY DEF Handlers, IngestConstants, Start, At
<1>2. r \in Work /\ r.pc = pc /\ r.msg = m /\ r.po = po
  BY DEF Work, Idle, Pcs
<1>3. Moves(o, r) /\ UNCHANGED <<mailbox, lease, tables, interrupted, faults>> /\ NoteOverlap(o, m)
  BY <1>2 DEF Start, Moves
<1>4. overlapped \subseteq overlapped' /\ overlapped' \subseteq Messages
  BY <1>3 DEF NoteOverlap, IInv, TypeOK
<1>5. TypeOK'
  BY <1>1, <1>3, <1>4, OthersStay DEF IInv, TypeOK, tables
<1>6. work'[o] = r /\ \A k \in Messages : ~Working(o, k) /\ (Working(o, k)' => k = m)
  <2>1. work'[o] = r
    BY <1>1, <1>3, OthersStay DEF IInv
  <2> QED  BY <1>1, <1>2, <2>1 DEF Working
<1>7. TouchesOwnRow(o) /\ Grows /\ SeenOnlyWhenStored'
  BY <1>3, <1>4 DEF TouchesOwnRow, Grows, tables, IInv, SeenOnlyWhenStored, Stored
<1>8. Holds(o)'
  BY <1>1, <1>2, <1>3, <1>6 DEF Holds, OnRow, tables, Stored, Start
<1>9. \A k \in Messages : MessageInv(k)'
  BY <1>1, <1>3, <1>4, MessagesKeep DEF At
<1>10. \A g \in Handlers \ {o} : Working(g, m) => m \in overlapped'
  BY <1>3 DEF NoteOverlap
<1> QED  BY <1>1, <1>3, <1>5, <1>6, <1>7, <1>8, <1>9, <1>10, StepKeeps

LEMMA OperatorStartKeeps ==
  ASSUME IngestConstants, IInv, NEW o \in Operators, NEW m \in Messages,
         RetryRead(o, m) \/ DismissRead(o, m) \/ \E po \in Pos : LinkRead(o, m, po)
  PROVE  IInv'
<1>1. CASE RetryRead(o, m)
  BY <1>1, StartKeeps DEF RetryRead
<1>2. CASE DismissRead(o, m)
  BY <1>2, StartKeeps DEF DismissRead
<1>3. ASSUME NEW po \in Pos, LinkRead(o, m, po) PROVE IInv'
  BY <1>3, StartKeeps DEF LinkRead, Linkable
<1> QED  BY <1>1, <1>2, <1>3

LEMMA OperatorWriteKeeps ==
  ASSUME IngestConstants, IInv, NEW o \in Operators, RetryWrite(o) \/ DismissWrite(o)
  PROVE  IInv'
<1>1. /\ o \in Handlers /\ work[o] \in Work /\ Idle \in Work /\ Idle.pc = "idle"
      /\ work[o].pc \in {"retryWrite", "dismissWrite"}
  BY WorkFields DEF Handlers, RetryWrite, DismissWrite, At, IInv, Idle
<1>2. PICK m \in Messages : work[o].msg = m
  BY <1>1 DEF IInv, WorkInv, OnRow
<1>3. /\ Moves(o, Idle)
      /\ UNCHANGED <<mailbox, lease, promoted, replies, overlapped, interrupted, faults>>
  BY <1>1 DEF RetryWrite, DismissWrite, Moves
<1>4. Working(o, m) /\ MessageInv(m) /\ Holds(o)
  BY <1>1, <1>2, InvParts DEF Working
<1>5. row \in [Messages -> IngestedEmail] /\ row[m] \in IngestedEmail
  BY DEF IInv, TypeOK
<1>6. PICK e \in IngestedEmail :
        /\ row' = [row EXCEPT ![m] = e]
        /\ e.status \in {"PENDING", "DISMISSED"}
        /\ \/ e.retried = TRUE
           \/ work[o].pc = "dismissWrite" /\ e.retried = row[m].retried
  <2>1. CASE RetryWrite(o)
    <3> DEFINE d == [row[m] EXCEPT !.status = "PENDING", !.retried = TRUE]
    <3>1. d \in IngestedEmail /\ d.status = "PENDING" /\ d.retried = TRUE
      BY <1>5 DEF IngestedEmail, EmailIngestStatus
    <3>2. row' = [row EXCEPT ![m] = d]
      BY <1>2, <2>1 DEF RetryWrite
    <3> HIDE DEF d
    <3> QED  BY <3>1, <3>2
  <2>2. CASE DismissWrite(o)
    <3> DEFINE d == [row[m] EXCEPT !.status = "DISMISSED"]
    <3>1. d \in IngestedEmail /\ d.status = "DISMISSED" /\ d.retried = row[m].retried
      BY <1>5 DEF IngestedEmail, EmailIngestStatus
    <3>2. row' = [row EXCEPT ![m] = d] /\ work[o].pc = "dismissWrite"
      BY <1>2, <2>2 DEF DismissWrite, At
    <3> HIDE DEF d
    <3> QED  BY <3>1, <3>2
  <2> QED  BY <2>1, <2>2
<1>7. /\ row' \in [Messages -> IngestedEmail] /\ row'[m] = e
      /\ \A k \in Messages \ {m} : row'[k] = row[k]
  BY <1>5, <1>6
<1>8. TypeOK'
  BY <1>1, <1>3, <1>7, OthersStay DEF IInv, TypeOK
<1>9. Replied(m) => e.retried \/ m \in overlapped
  BY <1>4, <1>6 DEF Holds, MessageInv
<1> QED  BY <1>1, <1>3, <1>4, <1>6, <1>7, <1>8, <1>9, StepWrites DEF At

-----------------------------------------------------------------------------
(* Errors, restarts and the mailbox *)

LEMMA ThrowKeeps ==
  ASSUME IngestConstants, IInv, NEW h \in Handlers, HandlerThrows(h) PROVE IInv'
<1> DEFINE r == IF h \in Operators \/ At(h, "fetch") THEN Idle
                ELSE [Idle EXCEPT !.pc = "loop", !.batch = work[h].batch]
<1>1. /\ r \in Work /\ r.pc \in {"idle", "loop"} /\ (h \in Operators => r.pc = "idle")
  <2>1. work[h] \in Work /\ Idle \in Work
    BY WorkFields DEF IInv
  <2> QED  BY <2>1 DEF Work, Idle, Pcs
<1>2. Moves(h, r) /\ UNCHANGED <<mailbox, lease, tables, overlapped>> /\ CutOff({h}) /\ Fault
  BY <1>1 DEF HandlerThrows, Moves
<1>3. interrupted \subseteq interrupted' /\ (At(h, "promote") => work[h].msg \in interrupted')
  BY <1>2 DEF CutOff, Materializing
<1>4. interrupted' \subseteq Messages
  <2>1. At(h, "promote") => work[h].msg \in Messages
    BY DEF IInv, WorkInv, OnRow, At
  <2> QED  BY <1>2, <2>1 DEF CutOff, Materializing, IInv, TypeOK
<1>5. faults' \in 0..MaxFaults
  BY <1>2, FaultBound DEF IInv
<1>6. TypeOK'
  BY <1>2, <1>4, <1>5, OthersStay DEF IInv, TypeOK, tables
<1> QED  BY <1>1, <1>2, <1>3, <1>6, StepLeaves DEF OnRow

\* Nothing is left at work, and what was being materialized is on record.
LEMMA RestartKeeps ==
  ASSUME IngestConstants, IInv, Restart PROVE IInv'
<1>1. UNCHANGED <<mailbox, lease, tables, overlapped>> /\ CutOff(Handlers) /\ Fault
  BY DEF Restart
<1>2. \A h \in Handlers : work'[h] = Idle /\ work'[h].pc = "idle"
  BY DEF Restart, Idle
<1>3. /\ interrupted \subseteq interrupted'
      /\ \A h \in Handlers : At(h, "promote") => work[h].msg \in interrupted'
  BY <1>1 DEF CutOff, Materializing
<1>4. interrupted' \subseteq Messages
  <2>1. \A h \in Handlers : At(h, "promote") => work[h].msg \in Messages
    BY DEF IInv, WorkInv, OnRow, At
  <2> QED  BY <1>1, <2>1 DEF CutOff, Materializing, IInv, TypeOK
<1>5. TypeOK'
  <2>1. faults' \in 0..MaxFaults
    BY <1>1, FaultBound DEF IInv
  <2>2. Idle \in Work
    BY DEF Idle, Work, Pcs
  <2>3. work' \in [Handlers -> Work]
    BY <2>2 DEF Restart
  <2> QED  BY <1>1, <1>4, <2>1, <2>3 DEF IInv, TypeOK, tables
<1>6. \A h \in Handlers, m \in Messages : ~Working(h, m)'
  BY <1>2 DEF Working
<1>7. WorkInv' /\ OverlapInv' /\ AloneInv' /\ OneTickPerMessage'
  BY <1>2, <1>6 DEF WorkInv, OverlapInv, AloneInv, OneTickPerMessage, OnRow, Handlers
<1>8. PromotionInv'
  <2> SUFFICES ASSUME NEW m \in Messages \ (overlapped' \cup interrupted'), NEW a \in Attachments,
                      promoted'[<<m, a>>] > 0
               PROVE  Replied(m)'
    BY DEF PromotionInv
  <2>1. promoted[<<m, a>>] > 0 /\ m \in Messages \ (overlapped \cup interrupted)
    BY <1>1, <1>3 DEF tables
  <2>2. ~\E h \in Handlers : Working(h, m) /\ At(h, "promote")
    BY <1>3 DEF Working
  <2>3. Replied(m)
    BY <2>1, <2>2 DEF IInv, PromotionInv
  <2> QED  BY <1>1, <2>3 DEF Replied, tables
<1>9. PromotedOnce'
  BY <1>1, <1>3 DEF IInv, PromotedOnce, tables
<1>10. /\ SeenOnlyWhenStored' /\ MatchedShowsOnTimeline' /\ OneReplyUnlessOverlap'
       /\ (\A m \in Messages : Replied(m) => Stored(m))'
       /\ (\A m \in Messages : row[m].status = "MATCHED" => row[m].po \in Pos)'
  BY <1>1 DEF IInv, SeenOnlyWhenStored, MatchedShowsOnTimeline, OneReplyUnlessOverlap,
              tables, Replied, Stored
<1> QED  BY <1>5, <1>7, <1>8, <1>9, <1>10 DEF IInv

\* Steps that touch neither the rows nor the handlers.
LEMMA OutsideKeeps ==
  ASSUME IInv, UNCHANGED <<tables, work, overlapped, interrupted, faults>>,
         mailbox' \in [Messages -> {"absent", "unseen", "seen"}], lease' \in {"free", "held"},
         \A m \in Messages : mailbox'[m] = "seen" => mailbox[m] = "seen"
  PROVE  IInv'
<1>1. TypeOK'
  BY DEF IInv, TypeOK, tables
<1>2. SeenOnlyWhenStored'
  BY DEF IInv, SeenOnlyWhenStored, Stored, tables
<1>3. WorkInv' /\ AloneInv'
  BY DEF IInv, WorkInv, AloneInv, Replied, Stored, Working, tables
<1>4. OverlapInv' /\ OneTickPerMessage'
  BY DEF IInv, OverlapInv, OneTickPerMessage, Working, tables
<1>5. PromotionInv' /\ PromotedOnce'
  BY DEF IInv, PromotionInv, PromotedOnce, Replied, Working, At, tables
<1>6. MatchedShowsOnTimeline' /\ OneReplyUnlessOverlap'
  BY DEF IInv, MatchedShowsOnTimeline, OneReplyUnlessOverlap, Replied, tables
<1>7. /\ (\A m \in Messages : Replied(m) => Stored(m))'
      /\ (\A m \in Messages : row[m].status = "MATCHED" => row[m].po \in Pos)'
  BY DEF IInv, Replied, Stored, tables
<1> QED  BY <1>1, <1>2, <1>3, <1>4, <1>5, <1>6, <1>7 DEF IInv
-----------------------------------------------------------------------------
(* The theorems *)

LEMMA NextInv == IngestConstants /\ IInv /\ [Next]_vars => IInv'
<1> SUFFICES ASSUME IngestConstants, IInv, [Next]_vars PROVE IInv'
  OBVIOUS
<1>1. ASSUME NEW m \in Messages, Deliver(m) PROVE IInv'
  <2>1. /\ mailbox' \in [Messages -> {"absent", "unseen", "seen"}]
        /\ \A k \in Messages : mailbox'[k] = "seen" => mailbox[k] = "seen"
    BY <1>1 DEF Deliver, IInv, TypeOK
  <2> QED  BY <1>1, <2>1, OutsideKeeps DEF Deliver, IInv, TypeOK
<1>2. CASE LeaseRunsOut
  BY <1>2, OutsideKeeps DEF LeaseRunsOut, IInv, TypeOK
<1>3. ASSUME NEW h \in Handlers, Materialize(h) PROVE IInv'
  BY <1>3, FindReplyKeeps, PromoteKeeps, CommitKeeps DEF Materialize
<1>4. ASSUME NEW t \in Ticks, TickStep(t) \/ TickBudget(t) PROVE IInv'
  <2>1. CASE TickClaim(t)
    BY <2>1, ClaimKeeps
  <2>2. CASE TickFetch(t)
    BY <2>2, FetchKeeps
  <2>3. CASE TickNext(t) \/ TickBudget(t)
    BY <2>3, NextKeeps
  <2>4. CASE InsertRow(t)
    BY <2>4, InsertKeeps
  <2>5. CASE RecordUnmatched(t)
    BY <2>5, UnmatchedKeeps
  <2>6. CASE MarkSeen(t)
    BY <2>6, MarkSeenKeeps
  <2>7. CASE \E po \in Pos \cup {NoPo} : Match(t, po)
    BY <2>7, MatchKeeps
  <2>8. CASE Materialize(t)
    BY <2>8, <1>3 DEF Handlers
  <2> QED  BY <1>4, <2>1, <2>2, <2>3, <2>4, <2>5, <2>6, <2>7, <2>8 DEF TickStep
<1>5. ASSUME NEW o \in Operators, OperatorStep(o) PROVE IInv'
  <2>1. CASE RetryWrite(o) \/ DismissWrite(o)
    BY <2>1, OperatorWriteKeeps
  <2>2. CASE Materialize(o)
    BY <2>2, <1>3 DEF Handlers
  <2>3. ASSUME NEW m \in Messages,
               RetryRead(o, m) \/ DismissRead(o, m) \/ \E po \in Pos : LinkRead(o, m, po)
        PROVE  IInv'
    BY <2>3, OperatorStartKeeps
  <2>4. \/ RetryWrite(o) \/ DismissWrite(o) \/ Materialize(o)
        \/ \E m \in Messages :
             RetryRead(o, m) \/ DismissRead(o, m) \/ \E po \in Pos : LinkRead(o, m, po)
    BY <1>5 DEF OperatorStep
  <2> QED  BY <2>1, <2>2, <2>3, <2>4
<1>6. ASSUME NEW h \in Handlers, HandlerThrows(h) PROVE IInv'
  BY <1>6, ThrowKeeps
<1>7. CASE Restart
  BY <1>7, RestartKeeps
<1>8. CASE UNCHANGED vars
  <2>1. mailbox' \in [Messages -> {"absent", "unseen", "seen"}] /\ lease' \in {"free", "held"}
    BY <1>8 DEF vars, IInv, TypeOK
  <2> QED  BY <1>8, <2>1, OutsideKeeps DEF vars, tables
<1> QED  BY <1>1, <1>2, <1>4, <1>5, <1>6, <1>7, <1>8 DEF Next

\* The invariant holds in every state that ticks and operators can bring about.
THEOREM IngestInvariant == Spec => []IInv
<1>1. Init => IInv
  BY InitInv, IngestConstants
<1>2. IInv /\ [Next]_vars => IInv'
  BY NextInv, IngestConstants
<1> QED  BY <1>1, <1>2, PTL DEF Spec

\* Every variable keeps its type; the code writes no status but these.
THEOREM IngestTypeCorrect == Spec => []TypeOK
<1>1. IInv => TypeOK
  BY DEF IInv
<1> QED  BY <1>1, IngestInvariant, PTL

\* No message is marked \Seen before its row is stored.
THEOREM MailNotLost == Spec => []SeenOnlyWhenStored
<1>1. IInv => SeenOnlyWhenStored
  BY DEF IInv
<1> QED  BY <1>1, IngestInvariant, PTL

\* Ticks never work on the same row, whether or not the lease keeps them apart.
THEOREM TicksKeptApart == Spec => []OneTickPerMessage
<1>1. IInv => OneTickPerMessage
  BY DEF IInv
<1> QED  BY <1>1, IngestInvariant, PTL

\* Status and timeline agree.
THEOREM MatchedIsShown == Spec => []MatchedShowsOnTimeline
<1>1. IInv => MatchedShowsOnTimeline
  BY DEF IInv
<1> QED  BY <1>1, IngestInvariant, PTL

\* One timeline event for an e-mail that handlers did not meet on, whatever was retried or lost.
THEOREM OneTimelineEvent == Spec => []OneReplyUnlessOverlap
<1>1. IInv => OneReplyUnlessOverlap
  BY DEF IInv
<1> QED  BY <1>1, IngestInvariant, PTL

\* One POAttachment for an attachment that was neither met on nor cut off.
THEOREM OnePromotion == Spec => []PromotedOnce
<1>1. IInv => PromotedOnce
  BY DEF IInv
<1> QED  BY <1>1, IngestInvariant, PTL

\* A handler that has a decided row to itself does not change the decision, save a retry.
LEMMA StepKeepsDecision ==
  ASSUME IngestConstants, IInv, Next, NEW m \in Messages,
         row[m].status \in {"MATCHED", "DISMISSED"}, row'[m].status # row[m].status
  PROVE  m \in overlapped \/ \E o \in Operators : RetryWrite(o) /\ work[o].msg = m
<1>1. row' # row
  OBVIOUS
<1>2. row \in [Messages -> IngestedEmail]
  BY DEF IInv, TypeOK
<1>3. ASSUME NEW t \in Ticks, InsertRow(t) PROVE FALSE
  <2>1. row'[m] = row[m] \/ (work[t].msg = m /\ ~Stored(m))
    BY <1>2, <1>3 DEF InsertRow, NewMessage
  <2> QED  BY <2>1 DEF Stored
<1>4. ASSUME NEW t \in Ticks, RecordUnmatched(t) PROVE m \in overlapped
  <2>1. work[t].msg = m /\ work[t].pc = "unmatched" /\ t \in Handlers
    BY <1>2, <1>4 DEF RecordUnmatched, At, Handlers
  <2> QED  BY <2>1 DEF IInv, AloneInv, Working
<1>5. ASSUME NEW h \in Handlers, Materialize(h) PROVE m \in overlapped
  <2>1. CommitReply(h)
    BY <1>1, <1>5 DEF Materialize, FindReply, PromoteAttachment, tables
  <2>2. work[h].msg = m /\ work[h].pc = "promote"
    BY <1>2, <2>1 DEF CommitReply, At
  <2> QED  BY <2>2 DEF IInv, AloneInv, Working
<1>6. ASSUME NEW o \in Operators, DismissWrite(o) PROVE m \in overlapped
  <2>1. work[o].msg = m /\ work[o].pc = "dismissWrite" /\ o \in Handlers
    BY <1>2, <1>6 DEF DismissWrite, At, Handlers
  <2>2. row'[m].status = "DISMISSED"
    BY <1>2, <1>6, <2>1 DEF DismissWrite, IngestedEmail
  <2> QED  BY <2>1, <2>2 DEF IInv, AloneInv, Working
<1>7. ASSUME NEW o \in Operators, RetryWrite(o) PROVE work[o].msg = m
  BY <1>2, <1>7 DEF RetryWrite
<1>8. ASSUME NEW t \in Ticks, TickStep(t) \/ TickBudget(t) PROVE m \in overlapped
  <2>1. InsertRow(t) \/ RecordUnmatched(t) \/ Materialize(t)
    BY <1>1, <1>8 DEF TickStep, TickBudget, TickClaim, TickFetch, TickNext, MarkSeen, Match, tables
  <2> QED  BY <1>3, <1>4, <1>5, <2>1 DEF Handlers
<1>9. ASSUME NEW o \in Operators, OperatorStep(o)
      PROVE  m \in overlapped \/ (RetryWrite(o) /\ work[o].msg = m)
  <2>1. RetryWrite(o) \/ DismissWrite(o) \/ Materialize(o)
    BY <1>1, <1>9 DEF OperatorStep, RetryRead, DismissRead, LinkRead, Start, tables
  <2> QED  BY <1>5, <1>6, <1>7, <2>1 DEF Handlers
<1> QED  BY <1>1, <1>8, <1>9 DEF Next, Deliver, LeaseRunsOut, HandlerThrows, Restart, tables

\* A decision on an e-mail stands, unless an operator retries it or handlers met on its row.
THEOREM DecisionsStand == Spec => DecisionStands
<1>1. IInv /\ [Next]_vars =>
        [\A m \in Messages :
           row[m].status \in {"MATCHED", "DISMISSED"} /\ row'[m].status # row[m].status
             => \/ m \in overlapped
                \/ \E o \in Operators : RetryWrite(o) /\ work[o].msg = m]_vars
  BY StepKeepsDecision, IngestConstants
<1> QED  BY <1>1, IngestInvariant, PTL DEF Spec, DecisionStands
=============================================================================
