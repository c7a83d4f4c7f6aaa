------------------------- MODULE ReconciliationProofs -------------------------
(***************************************************************************)
(* Theorems about the reconciliation of a purchase order, for any number   *)
(* of requests, receipts, saves and snapshots, any line lists, receipts    *)
(* and thresholds.                                                         *)
(***************************************************************************)
EXTENDS Reconciliation, FiniteSetTheorems, TLAPS

\* The pair of a merge is kept under the id of a PO row that is there, and takes the receipt
\* of the row it deletes.
MergeReady(r) ==
  \E new \in Row, d \in OcrLines :
    /\ r.pair = {new} /\ r.gone = {<<NoLine, d>>}
    /\ new.rc = d /\ new.id[1] # NoLine /\ new.match \in PairedMatch
    /\ \E w \in rows[r.snap] : w.id = new.id

\* What a request holds while it is under way: an approval has the lines it passed on record
\* and reads them for its snapshot, one about to finish has its snapshot, a merge knows the
\* receipt row it deletes and the PO row it keeps, and a recomputed status is that of the rows
\* unless they merged on.
RequestOK(r) ==
  /\ r.pc \in {"record", "key", "readPo", "finish"} => r.op = "approve"
  /\ r.pc \in {"readReceipts", "tx", "commit"} => r.op \in {"approve", "refresh"}
  /\ IF r.op = "approve"
     THEN /\ r.doc \in Docs
          /\ r.pc # "finish" => r.included # {} /\ r.included \subseteq OfDocument(r.doc)
     ELSE r.included = {} /\ r.named = {}
  /\ \A c \in r.named : /\ c \in OcrLines
                        /\ pricedAt[c] > 0 \/ (r.pc = "record" /\ c \in r.todo)
  /\ r.pc = "tx" => \A c \in r.named : c \in r.read \/ doc[DocOf[c]] = "deleted"
  /\ r.pc = "finish" => Reconciled(r.doc) \/ po.deleted
  /\ r.pc = "commit" =>
       /\ r.snap \in SnapIds /\ snap[r.snap].state = "tx" /\ snap[r.snap].trigger = r.included
       /\ \A c \in r.named : c \in snap[r.snap].read \/ doc[DocOf[c]] = "deleted"
  /\ r.pc \in {"dismiss", "merge", "aggRead", "aggWrite"} => r.snap \in Committed
  /\ r.pc = "merge" => MergeReady(r)
  /\ r.pc = "aggWrite" => rough[r.snap] \/ r.status = DeriveAggregateStatus(rows[r.snap])
RequestsInv == \A q \in Staff : RequestOK(req[q])

\* Each request writes a snapshot of its own.
CommitsApart ==
  \A p, q \in Staff : req[p].pc = "commit" /\ req[q].pc = "commit" /\ req[p].snap = req[q].snap
                        => p = q

\* A snapshot under way has no rows or alerts and saw only committed ones; the one that an
\* approval triggers is the only one with its key.
SnapshotOK(n) ==
  /\ n \notin Committed => alerts[n] = {} /\ rows[n] = {}
  /\ snap[n].saw \subseteq Committed
  /\ n \in Begun /\ snap[n].trigger # {} =>
       \A m \in Begun : snap[m].trigger = snap[n].trigger => m = n
SnapshotsInv == \A n \in SnapIds : SnapshotOK(n)

\* A row that began without a PO line keeps its receipt for ever, and only such rows are
\* unpaired receipts; the unpaired PO lines began with one.
RowOK(w) ==
  /\ w.id[1] = NoLine => w.rc = w.id[2]
  /\ w.match \in MergeableReceipt => w.id[1] = NoLine
  /\ w.match \in MergeablePo => w.id[1] # NoLine
RowsInv == \A n \in SnapIds : \A w \in rows[n] : RowOK(w)

\* A confirmed document has its snapshot.
ConfirmedInv == \A d \in Docs : doc[d] = "confirmed" => Reconciled(d) \/ po.deleted

IInv == /\ TypeOK /\ RequestsInv /\ CommitsApart /\ SnapshotsInv /\ RowsInv /\ ConfirmedInv
        /\ OpenAlertsAreCurrent /\ StatusMatchesRows

-----------------------------------------------------------------------------
(* What a snapshot computes *)

\* The lines of a save are PO lines, and their ids are not that of no line.
LEMMA LinesTyped ==
  ASSUME ReconConstants
  PROVE  /\ \A g \in Gens, order \in Orders : LinesOf(g, order) \subseteq PoLines
         /\ \A l \in PoLines : l.id \in LineIds /\ l.id # NoLine
<1>1. \A g \in Gens, order \in Orders : LinesOf(g, order) \subseteq PoLines
  BY DEF PoLines
<1>2. ASSUME NEW l \in PoLines PROVE l.id \in LineIds /\ l.id # NoLine
  <2>1. PICK g \in Gens, order \in Orders : l \in LinesOf(g, order)
    BY DEF PoLines
  <2>2. PICK i \in DOMAIN order : l.id = <<g, i>>
    BY <2>1 DEF LinesOf
  <2>3. NoLine # <<g, i>>
    BY ReconConstants DEF ReconConstants, Gens
  <2> QED  BY <2>2, <2>3 DEF LineIds
<1> QED  BY <1>1, <1>2

\* The subtotal of lines of the PO is one of those enumerated.
LEMMA SubtotalTyped == \A lines \in SUBSET PoLines : SubtotalOf(lines) \in Subtotals
BY DEF Subtotals

\* The receipts that are read carry the id of their line.
LEMMA ReceiptsTyped ==
  ASSUME NEW read \in SUBSET OcrLines, NEW r \in Receipts(read) PROVE r.id \in OcrLines
BY DEF Receipts, Receipt

\* A pair has one of the four verdicts.
LEMMA ClassifyTyped == \A p, r : ClassifyPairedLine(p, r) \in PairedMatch
BY DEF ClassifyPairedLine, PairedMatch

\* The rows of a snapshot: pairs, lines of the PO alone, receipts alone.
LEMMA RowKinds ==
  ASSUME ReconConstants, NEW lines \in SUBSET PoLines, NEW read \in SUBSET OcrLines,
         NEW w \in SnapshotRows(lines, Receipts(read))
  PROVE  \/ /\ w.po \in LineIds \ {NoLine} /\ w.rc \in OcrLines
            /\ w.match \in PairedMatch /\ w.missing \in BOOLEAN
         \/ /\ w.po \in LineIds \ {NoLine} /\ w.rc = NoReceipt
            /\ w.match \in MergeablePo /\ w.missing = FALSE
         \/ /\ w.po = NoLine /\ w.rc \in OcrLines
            /\ w.match \in MergeableReceipt /\ w.missing = FALSE
<1> DEFINE receipts == Receipts(read)
<1>1. CASE \E pr \in Pairs(lines, receipts) : w = PairRow(pr[1], pr[2])
  <2>1. PICK pr \in Pairs(lines, receipts) : w = PairRow(pr[1], pr[2])
    BY <1>1
  <2>2. pr[1] \in PoLines /\ pr[2] \in receipts
    BY <2>1 DEF Pairs
  <2>3. pr[1].id \in LineIds \ {NoLine} /\ pr[2].id \in OcrLines
    BY <2>2, LinesTyped, ReceiptsTyped
  <2>4. (pr[2].qty = NoQty) \in BOOLEAN
    OBVIOUS
  <2>5. /\ w.po = pr[1].id /\ w.rc = pr[2].id /\ w.missing = (pr[2].qty = NoQty)
        /\ w.match = ClassifyPairedLine(pr[1], pr[2])
    BY <2>1 DEF PairRow
  <2>6. w.match \in PairedMatch
    BY <2>5, ClassifyTyped
  <2> QED  BY <2>3, <2>4, <2>5, <2>6
<1>2. CASE \E p \in lines : w = PoRow(p, receipts)
  BY <1>2, LinesTyped DEF PoRow, MergeablePo
<1>3. CASE \E r \in receipts : w = ReceiptRow(r, lines)
  BY <1>3, ReceiptsTyped DEF ReceiptRow, MergeableReceipt
<1> QED  BY <1>1, <1>2, <1>3 DEF SnapshotRows

\* A stored row is typed and keeps the sides it began with in its id.
LEMMA StoredRowTyped ==
  ASSUME ReconConstants, NEW lines \in SUBSET PoLines, NEW read \in SUBSET OcrLines,
         NEW w \in SnapshotRows(lines, Receipts(read))
  PROVE  StoredRow(w) \in Row /\ RowOK(StoredRow(w))
<1>1. /\ w.po \in LineIds /\ w.rc \in ReceiptIds /\ w.match \in POReconciliationLineMatch
      /\ w.missing \in BOOLEAN
      /\ w.po = NoLine <=> w.match \in MergeableReceipt
  BY RowKinds DEF LineIds, ReceiptIds, POReconciliationLineMatch, PairedMatch, MergeablePo,
                  MergeableReceipt
<1>2. StoredRow(w) \in Row
  BY <1>1 DEF StoredRow, Row, RowIds, Resolutions
<1>3. RowOK(StoredRow(w))
  BY <1>1 DEF StoredRow, RowOK, MergeablePo, MergeableReceipt
<1> QED  BY <1>2, <1>3

\* The alerts of a snapshot are about rows that exist.
LEMMA AlertsTyped ==
  ASSUME ReconConstants, NEW lines \in SUBSET PoLines, NEW read \in SUBSET OcrLines, NEW subtotal
  PROVE  AlertSubjects(lines, Receipts(read), subtotal) \subseteq Subject
<1> DEFINE receipts == Receipts(read)
<1>1. \A kind \in AlertKinds, p \in LineIds, r \in ReceiptIds : SpendAlertSubject(kind, p, r) \in Subject
  BY DEF SpendAlertSubject, Subject
<1>2. NoLine \in LineIds /\ NoReceipt \in ReceiptIds
  BY DEF LineIds, ReceiptIds
<1>3. PairAlerts(lines, receipts) \subseteq Subject
  <2>1. ASSUME NEW a \in PairAlerts(lines, receipts) PROVE a \in Subject
    <3>1. PICK pr \in Pairs(lines, receipts), kind \in AlertKinds :
            a = SpendAlertSubject(kind, pr[1].id, pr[2].id)
      BY <2>1 DEF PairAlerts, AlertKinds
    <3>2. pr[1] \in PoLines /\ pr[2] \in receipts
      BY <3>1 DEF Pairs
    <3>3. pr[1].id \in LineIds /\ pr[2].id \in ReceiptIds
      BY <3>2, LinesTyped, ReceiptsTyped DEF ReceiptIds
    <3> QED  BY <1>1, <3>1, <3>3
  <2> QED  BY <2>1
<1>4. \A w \in SnapshotRows(lines, receipts) : w.po \in LineIds /\ w.rc \in ReceiptIds
  BY RowKinds DEF LineIds, ReceiptIds
<1>5. LonelyAlerts(SnapshotRows(lines, receipts)) \subseteq Subject
  BY <1>1, <1>2, <1>4 DEF LonelyAlerts, AlertKinds
<1>6. \A kind \in AlertKinds : SpendAlertSubject(kind, NoLine, NoReceipt) \in Subject
  BY <1>1, <1>2
<1> QED  BY <1>3, <1>5, <1>6 DEF AlertSubjects, AlertKinds

\* The status of the whole is a status, and depends on the verdicts alone.
LEMMA DeriveTyped == \A set : DeriveAggregateStatus(set) \in Statuses \ {"RESOLVED"}
BY DEF DeriveAggregateStatus, Statuses

LEMMA DeriveSame ==
  ASSUME NEW A, NEW B,
         \A w \in A : \E v \in B : v.match = w.match /\ v.missing = w.missing,
         \A v \in B : \E w \in A : v.match = w.match /\ v.missing = w.missing
  PROVE  DeriveAggregateStatus(A) = DeriveAggregateStatus(B)
<1>1. \A M : (\E w \in A : w.match \in M) <=> (\E v \in B : v.match \in M)
  OBVIOUS
<1>2. (\E w \in A : w.missing) <=> (\E v \in B : v.missing)
  OBVIOUS
<1>3. A = {} <=> B = {}
  OBVIOUS
<1> QED  BY <1>1, <1>2, <1>3 DEF DeriveAggregateStatus


-----------------------------------------------------------------------------
(* Steps that leave the snapshots, their rows and their alerts alone *)

PurchaseOrder ==
  [deleted : BOOLEAN, marked : BOOLEAN, lines : SUBSET PoLines, subtotal : Subtotals, saves : Gens]

\* Nothing that was settled about the PO, the documents and the snapshots is taken back.
Grows ==
  /\ po.deleted => po'.deleted
  /\ \A c \in OcrLines : /\ doc[DocOf[c]] = "deleted" => doc'[DocOf[c]] = "deleted"
                         /\ pricedAt[c] > 0 => pricedAt'[c] > 0
  /\ \A n \in Committed : n \in Committed' /\ snap'[n].trigger = snap[n].trigger

\* A request at rest.
LEMMA IdleTyped == ReconConstants => Idle \in Request /\ Idle.op = "idle" /\ Idle.pc = "idle"
<1> SUFFICES ASSUME ReconConstants PROVE Idle \in Request /\ Idle.op = "idle" /\ Idle.pc = "idle"
  OBVIOUS
<1>1. SubtotalOf({}) \in Subtotals
  BY SubtotalTyped
<1> QED  BY <1>1 DEF Idle, Request, SnapIds, Statuses

\* So is one that is about to confirm its document.
LEMMA FinishingTyped ==
  ASSUME ReconConstants, NEW d \in Docs
  PROVE  /\ Finishing(d) \in Request
         /\ Finishing(d).op = "approve" /\ Finishing(d).pc = "finish" /\ Finishing(d).doc = d
         /\ Finishing(d).named = {}
BY IdleTyped DEF Finishing, Request, Idle

\* Rest claims nothing.
LEMMA IdleOK == ReconConstants => RequestOK(Idle) /\ RequestOK(Idle)'
BY DEF RequestOK, Idle, ReconConstants

\* The PO starts in its invariant.
LEMMA InitIInv == ReconConstants /\ Init => IInv
<1> SUFFICES ASSUME ReconConstants, Init PROVE IInv
  OBVIOUS
<1>1. PICK order \in Orders :
        po = [deleted |-> FALSE, marked |-> FALSE, lines |-> LinesOf(0, order),
              subtotal |-> SubtotalOf(LinesOf(0, order)), saves |-> 0]
  BY DEF Init
<1>2. 0 \in Gens
  BY DEF ReconConstants, Gens
<1>3. LinesOf(0, order) \in SUBSET PoLines
  BY <1>2, LinesTyped
<1>4. SubtotalOf(LinesOf(0, order)) \in Subtotals
  BY <1>3, SubtotalTyped
<1>5. NoSnap \in [state : {"none", "tx", "committed"}, trigger : SUBSET OcrLines,
                  status : Statuses, read : SUBSET OcrLines, saw : SUBSET SnapIds]
  BY DEF NoSnap, Statuses
<1>6. TypeOK
  <2>1. po \in [deleted : BOOLEAN, marked : BOOLEAN, lines : SUBSET PoLines,
                subtotal : Subtotals, saves : Gens]
    BY <1>1, <1>2, <1>3, <1>4
  <2>2. doc \in [Docs -> {"review", "confirmed", "deleted"}] /\ pricedAt \in [OcrLines -> Nat]
    BY DEF Init
  <2>3. snap \in [SnapIds -> [state : {"none", "tx", "committed"}, trigger : SUBSET OcrLines,
                              status : Statuses, read : SUBSET OcrLines, saw : SUBSET SnapIds]]
    BY <1>5 DEF Init
  <2>4. /\ rows \in [SnapIds -> SUBSET Row] /\ alerts \in [SnapIds -> SUBSET Alert]
        /\ rough \in [SnapIds -> BOOLEAN] /\ incidents \in 0..MaxIncidents
    BY DEF Init, ReconConstants
  <2>5. req \in [Staff -> Request]
    BY IdleTyped DEF Init
  <2> QED  BY <2>1, <2>2, <2>3, <2>4, <2>5 DEF TypeOK
<1>7. Committed = {} /\ Begun = {}
  BY DEF Init, Committed, Begun, NoSnap
<1>8. \A q \in Staff : req[q] = Idle
  BY DEF Init
<1>9. RequestsInv /\ CommitsApart
  BY <1>8, IdleOK, IdleTyped DEF RequestsInv, CommitsApart
<1>10. SnapshotsInv
  BY <1>7 DEF SnapshotsInv, SnapshotOK, Init, NoSnap
<1>11. RowsInv /\ ConfirmedInv /\ OpenAlertsAreCurrent /\ StatusMatchesRows
  BY <1>7 DEF RowsInv, ConfirmedInv, OpenAlertsAreCurrent, StatusMatchesRows, Init
<1> QED  BY <1>6, <1>9, <1>10, <1>11 DEF IInv

\* What a request holds survives the steps of others.
LEMMA RequestKept ==
  ASSUME NEW r, RequestOK(r), Grows,
         r.pc = "commit" => snap'[r.snap] = snap[r.snap],
         r.pc = "merge" => \A w \in rows[r.snap] :
                             w.id[1] # NoLine => \E v \in rows'[r.snap] : v.id = w.id,
         r.pc = "aggWrite" =>
           \/ rough'[r.snap]
           \/ /\ ~rough[r.snap]
              /\ DeriveAggregateStatus(rows'[r.snap]) = DeriveAggregateStatus(rows[r.snap])
  PROVE  RequestOK(r)'
<1>1. r.pc = "finish" => Reconciled(r.doc)' \/ po'.deleted
  BY DEF RequestOK, Reconciled, Grows
<1>2. r.pc \in {"dismiss", "merge", "aggRead", "aggWrite"} => r.snap \in Committed'
  BY DEF RequestOK, Grows
<1>3. r.pc = "merge" => MergeReady(r)'
  <2> SUFFICES ASSUME r.pc = "merge" PROVE MergeReady(r)'
    OBVIOUS
  <2>1. PICK new \in Row, d \in OcrLines :
          /\ r.pair = {new} /\ r.gone = {<<NoLine, d>>}
          /\ new.rc = d /\ new.id[1] # NoLine /\ new.match \in PairedMatch
          /\ \E w \in rows[r.snap] : w.id = new.id
    BY DEF RequestOK, MergeReady
  <2>2. \E w \in rows'[r.snap] : w.id = new.id
    BY <2>1
  <2> QED  BY <2>1, <2>2 DEF MergeReady
<1>4. r.pc = "aggWrite" => rough'[r.snap] \/ r.status = DeriveAggregateStatus(rows'[r.snap])
  BY DEF RequestOK
<1>5. \A c \in r.named : /\ c \in OcrLines
                         /\ pricedAt'[c] > 0 \/ (r.pc = "record" /\ c \in r.todo)
  BY DEF RequestOK, Grows
<1>6. r.pc = "tx" => \A c \in r.named : c \in r.read \/ doc'[DocOf[c]] = "deleted"
  BY DEF RequestOK, Grows
<1>7. r.pc = "commit" =>
        /\ r.snap \in SnapIds /\ snap'[r.snap].state = "tx" /\ snap'[r.snap].trigger = r.included
        /\ \A c \in r.named : c \in snap'[r.snap].read \/ doc'[DocOf[c]] = "deleted"
  BY DEF RequestOK, Grows
<1> QED  BY <1>1, <1>2, <1>3, <1>4, <1>5, <1>6, <1>7 DEF RequestOK

\* The requests after a step of one of them.
LEMMA RequestsKept ==
  ASSUME RequestsInv, NEW q \in Staff, NEW r, RequestOK(r)', Grows,
         req \in [Staff -> Request],
         req' = [req EXCEPT ![q] = r],
         \A p \in Staff \ {q} : req[p].pc = "commit" => snap'[req[p].snap] = snap[req[p].snap],
         \A p \in Staff \ {q} : req[p].pc = "merge" =>
           \A w \in rows[req[p].snap] :
             w.id[1] # NoLine => \E v \in rows'[req[p].snap] : v.id = w.id,
         \A p \in Staff \ {q} : req[p].pc = "aggWrite" =>
           \/ rough'[req[p].snap]
           \/ /\ ~rough[req[p].snap]
              /\ DeriveAggregateStatus(rows'[req[p].snap]) = DeriveAggregateStatus(rows[req[p].snap])
  PROVE  RequestsInv'
<1> SUFFICES ASSUME NEW p \in Staff PROVE RequestOK(req[p])'
  BY DEF RequestsInv
<1>1. CASE p = q
  <2>1. req'[p] = r
    BY <1>1
  <2> QED  BY <2>1 DEF RequestOK, MergeReady
<1>2. CASE p # q
  <2>1. PICK old : old = req[p]
    OBVIOUS
  <2>2. req'[p] = old
    BY <1>2, <2>1
  <2>3. RequestOK(old)
    BY <2>1 DEF RequestsInv
  <2>4. RequestOK(old)'
    BY <1>2, <2>1, <2>3, RequestKept
  <2> QED  BY <2>2, <2>4 DEF RequestOK, MergeReady
<1> QED  BY <1>1, <1>2

\* A step of nobody's request.
LEMMA NobodysStepKept ==
  ASSUME RequestsInv, Grows, req' = req,
         \A p \in Staff : req[p].pc = "commit" => snap'[req[p].snap] = snap[req[p].snap],
         \A p \in Staff : req[p].pc = "merge" =>
           \A w \in rows[req[p].snap] :
             w.id[1] # NoLine => \E v \in rows'[req[p].snap] : v.id = w.id,
         \A p \in Staff : req[p].pc = "aggWrite" =>
           \/ rough'[req[p].snap]
           \/ /\ ~rough[req[p].snap]
              /\ DeriveAggregateStatus(rows'[req[p].snap]) = DeriveAggregateStatus(rows[req[p].snap])
  PROVE  RequestsInv'
<1> SUFFICES ASSUME NEW p \in Staff PROVE RequestOK(req[p])'
  BY DEF RequestsInv
<1>1. PICK old : old = req[p]
  OBVIOUS
<1>2. RequestOK(old)'
  BY <1>1, RequestKept DEF RequestsInv
<1> QED  BY <1>1, <1>2 DEF RequestOK, MergeReady

\* A step of one request that leaves the snapshots, their rows and alerts alone.
LEMMA QuietStep ==
  ASSUME IInv, ReconConstants, NEW q \in Staff, NEW r \in Request,
         req' = [req EXCEPT ![q] = r],
         UNCHANGED <<snap, rows, alerts, rough>>,
         po' \in PurchaseOrder, po.deleted => po'.deleted,
         doc' \in [Docs -> {"review", "confirmed", "deleted"}],
         \A d \in Docs : doc[d] = "deleted" => doc'[d] = "deleted",
         \A d \in Docs : doc'[d] = "confirmed" =>
           doc[d] = "confirmed" \/ Reconciled(d) \/ po.deleted,
         pricedAt' \in [OcrLines -> Nat],
         \A c \in OcrLines : pricedAt[c] > 0 => pricedAt'[c] > 0,
         incidents' \in 0..MaxIncidents,
         RequestOK(r)', r.pc # "commit",
         req[q].pc \in {"aggRead", "aggWrite"} =>
           r.pc \in {"aggRead", "aggWrite"} /\ r.snap = req[q].snap
  PROVE  IInv'
<1> USE DEF IInv
<1>1. TypeOK'
  <2>1. req' \in [Staff -> Request]
    BY DEF TypeOK
  <2> QED  BY <2>1 DEF TypeOK, PurchaseOrder
<1>2. Committed' = Committed /\ Begun' = Begun
  BY DEF Committed, Begun
<1>3. Grows
  BY <1>2 DEF Grows, ReconConstants
<1>4. RequestsInv'
  BY <1>3, RequestsKept DEF TypeOK
<1>5. \A p \in Staff \ {q} : req'[p] = req[p]
  BY DEF TypeOK
<1>6. req'[q] = r
  BY DEF TypeOK
<1>7. CommitsApart'
  BY <1>5, <1>6 DEF CommitsApart
<1>8. SnapshotsInv'
  BY <1>2 DEF SnapshotsInv, SnapshotOK, TypeOK
<1>9. RowsInv' /\ OpenAlertsAreCurrent'
  BY <1>2 DEF RowsInv, OpenAlertsAreCurrent, RowOK
<1>10. ConfirmedInv'
  BY <1>2 DEF ConfirmedInv, Reconciled
<1>11. StatusMatchesRows'
  <2> SUFFICES ASSUME NEW n \in Committed
               PROVE  \/ rough[n]
                      \/ \E p \in Staff : req'[p].pc \in {"aggRead", "aggWrite"} /\ req'[p].snap = n
                      \/ snap[n].status \in {"RESOLVED", DeriveAggregateStatus(rows[n])}
    BY <1>2 DEF StatusMatchesRows
  <2>1. ASSUME NEW p \in Staff, req[p].pc \in {"aggRead", "aggWrite"}, req[p].snap = n
        PROVE  req'[p].pc \in {"aggRead", "aggWrite"} /\ req'[p].snap = n
    BY <2>1, <1>5, <1>6
  <2> QED  BY <2>1 DEF StatusMatchesRows
<1> QED  BY <1>1, <1>4, <1>7, <1>8, <1>9, <1>10, <1>11

\* One that changes nothing but the request.
LEMMA RequestMoves ==
  ASSUME IInv, ReconConstants, NEW q \in Staff, NEW r \in Request,
         req' = [req EXCEPT ![q] = r],
         UNCHANGED <<po, doc, pricedAt, snap, rows, alerts, rough>>,
         incidents' \in 0..MaxIncidents,
         RequestOK(r), r.pc # "commit",
         req[q].pc \in {"aggRead", "aggWrite"} =>
           r.pc \in {"aggRead", "aggWrite"} /\ r.snap = req[q].snap
  PROVE  IInv'
<1>1. RequestOK(r)'
  <2>1. Grows
    BY DEF Grows, Committed
  <2> QED  BY <2>1, RequestKept
<1>2. TypeOK
  BY DEF IInv
<1> QED  BY <1>1, <1>2, QuietStep DEF TypeOK, PurchaseOrder

-----------------------------------------------------------------------------
(* Saves and deletions *)

LEMMA IncidentTyped ==
  ReconConstants /\ incidents \in 0..MaxIncidents /\ Incident => incidents' \in 0..MaxIncidents
BY DEF Incident, ReconConstants

LEMMA SaveBeginIInv ==
  ASSUME IInv, ReconConstants, NEW q \in Staff, NEW order \in Orders, SaveBegin(q, order)
  PROVE  IInv'
<1>1. TypeOK
  BY DEF IInv
<1>2. po.saves + 1 \in Gens
  BY <1>1 DEF TypeOK, SaveBegin, Gens, ReconConstants
<1>3. PICK r : r = [Idle EXCEPT !.op = "save", !.pc = "save", !.lines = po.lines,
                                !.fresh = LinesOf(po.saves + 1, order)]
  OBVIOUS
<1>4. LinesOf(po.saves + 1, order) \in SUBSET PoLines
  BY <1>2, LinesTyped
<1>5. r \in Request
  BY <1>1, <1>3, <1>4, IdleTyped DEF TypeOK, Request, Idle
<1>6. RequestOK(r)'
  BY <1>3 DEF RequestOK, Idle
<1>7. r.pc = "save"
  BY <1>3 DEF Idle
<1>8. po' \in PurchaseOrder
  BY <1>1, <1>2 DEF TypeOK, PurchaseOrder, SaveBegin
<1>9. po'.deleted = po.deleted
  BY <1>1 DEF TypeOK, SaveBegin
<1>10. incidents' \in 0..MaxIncidents
  BY <1>1, IncidentTyped DEF TypeOK, SaveBegin
<1>11. req[q].pc = "idle"
  BY IdleTyped DEF SaveBegin
<1>12. /\ UNCHANGED <<doc, pricedAt, snap, rows, alerts, rough>> /\ req' = [req EXCEPT ![q] = r]
       /\ doc' \in [Docs -> {"review", "confirmed", "deleted"}] /\ pricedAt' \in [OcrLines -> Nat]
  BY <1>1, <1>3 DEF SaveBegin, TypeOK
<1> QED  BY <1>5, <1>6, <1>7, <1>8, <1>9, <1>10, <1>11, <1>12, QuietStep

\* Forgetting a PO line leaves each row its id, its receipt and its verdict.
LEMMA ForgetKeeps ==
  ASSUME TypeOK, NEW lines \in SUBSET PoLines, NEW n \in SnapIds
  PROVE  /\ ForgetLines(lines)[n] \subseteq Row
         /\ \A w \in rows[n] : \E v \in ForgetLines(lines)[n] :
              v.id = w.id /\ v.rc = w.rc /\ v.match = w.match /\ v.missing = w.missing
         /\ \A v \in ForgetLines(lines)[n] : \E w \in rows[n] :
              v.id = w.id /\ v.rc = w.rc /\ v.match = w.match /\ v.missing = w.missing
<1> DEFINE ids == {l.id : l \in lines}
           Forget(w) == IF w.po \in ids THEN [w EXCEPT !.po = NoLine] ELSE w
<1>1. ForgetLines(lines)[n] = {Forget(w) : w \in rows[n]}
  BY DEF ForgetLines
<1>2. ASSUME NEW w \in rows[n]
      PROVE  /\ Forget(w) \in Row /\ Forget(w).id = w.id /\ Forget(w).rc = w.rc
             /\ Forget(w).match = w.match /\ Forget(w).missing = w.missing
  <2>1. w \in Row
    BY DEF TypeOK
  <2>2. NoLine \in LineIds
    BY DEF LineIds
  <2> QED  BY <2>1, <2>2 DEF Row
<1> HIDE DEF Forget
<1>3. ForgetLines(lines)[n] \subseteq Row
  BY <1>1, <1>2
<1>4. ASSUME NEW w \in rows[n]
      PROVE  \E v \in ForgetLines(lines)[n] :
               v.id = w.id /\ v.rc = w.rc /\ v.match = w.match /\ v.missing = w.missing
  <2>1. Forget(w) \in ForgetLines(lines)[n]
    BY <1>1
  <2> QED  BY <1>2, <2>1
<1>5. ASSUME NEW v \in ForgetLines(lines)[n]
      PROVE  \E w \in rows[n] :
               v.id = w.id /\ v.rc = w.rc /\ v.match = w.match /\ v.missing = w.missing
  <2>1. PICK w \in rows[n] : v = Forget(w)
    BY <1>1
  <2> QED  BY <1>2, <2>1
<1> QED  BY <1>3, <1>4, <1>5

\* So the status the rows give does not change.
LEMMA ForgetDerives ==
  ASSUME TypeOK, NEW lines \in SUBSET PoLines, NEW n \in SnapIds
  PROVE  DeriveAggregateStatus(ForgetLines(lines)[n]) = DeriveAggregateStatus(rows[n])
BY ForgetKeeps, DeriveSame

\* Of the rows, only the PO lines they name or how they were resolved have changed.
Relabelled ==
  \A n \in SnapIds :
    /\ \A w \in rows[n] : \E v \in rows'[n] :
         v.id = w.id /\ v.rc = w.rc /\ v.match = w.match /\ v.missing = w.missing
    /\ \A v \in rows'[n] : \E w \in rows[n] :
         v.id = w.id /\ v.rc = w.rc /\ v.match = w.match /\ v.missing = w.missing

\* Then the rows give the same status, and none has lost its id.
LEMMA RelabelledRows ==
  ASSUME Relabelled, NEW n \in SnapIds
  PROVE  /\ DeriveAggregateStatus(rows'[n]) = DeriveAggregateStatus(rows[n])
         /\ \A w \in rows[n] : \E v \in rows'[n] : v.id = w.id
<1>1. /\ \A w \in rows[n] : \E v \in rows'[n] :
           v.id = w.id /\ v.rc = w.rc /\ v.match = w.match /\ v.missing = w.missing
      /\ \A v \in rows'[n] : \E w \in rows[n] :
           v.id = w.id /\ v.rc = w.rc /\ v.match = w.match /\ v.missing = w.missing
  BY DEF Relabelled
<1> QED  BY <1>1, DeriveSame

\* A save commits, or nobody's request goes on.
SaveEnds == req' = req \/ \E q \in Staff : req[q].pc = "save" /\ req' = [req EXCEPT ![q] = Idle]

\* A step that only relabels rows.
LEMMA RowsRelabelled ==
  ASSUME IInv, ReconConstants,
         rows' \in [SnapIds -> SUBSET Row], Relabelled, SaveEnds,
         UNCHANGED <<doc, pricedAt, snap, alerts, rough>>,
         po' \in PurchaseOrder, po'.deleted = po.deleted,
         incidents' \in 0..MaxIncidents
  PROVE  IInv'
<1>0. /\ TypeOK /\ RequestsInv /\ CommitsApart /\ SnapshotsInv /\ RowsInv /\ ConfirmedInv
      /\ OpenAlertsAreCurrent /\ StatusMatchesRows
  BY DEF IInv
<1>1. req' \in [Staff -> Request]
  BY <1>0, IdleTyped DEF TypeOK, SaveEnds
<1>2. TypeOK'
  BY <1>0, <1>1 DEF TypeOK, PurchaseOrder
<1>3. Committed' = Committed /\ Begun' = Begun
  BY DEF Committed, Begun
<1>4. Grows
  BY <1>3 DEF Grows
<1>5. \A p \in Staff : req[p].pc \in {"merge", "aggWrite"} => req[p].snap \in SnapIds
  BY <1>0 DEF RequestsInv, RequestOK, Committed
<1>6. \A p \in Staff : req[p].pc = "merge" =>
        \A w \in rows[req[p].snap] :
          w.id[1] # NoLine => \E v \in rows'[req[p].snap] : v.id = w.id
  BY <1>5, RelabelledRows
<1>7. \A p \in Staff : req[p].pc = "aggWrite" =>
        \/ rough'[req[p].snap]
        \/ /\ ~rough[req[p].snap]
           /\ DeriveAggregateStatus(rows'[req[p].snap]) = DeriveAggregateStatus(rows[req[p].snap])
  BY <1>5, RelabelledRows
<1>8. RequestsInv'
  <2>1. CASE req' = req
    BY <1>0, <1>4, <1>6, <1>7, <2>1, NobodysStepKept
  <2>2. ASSUME NEW q \in Staff, req' = [req EXCEPT ![q] = Idle] PROVE RequestsInv'
    <3>1. PICK idle : idle = Idle
      OBVIOUS
    <3>2. RequestOK(idle)'
      BY <3>1, IdleOK DEF RequestOK, MergeReady, Idle
    <3>3. req \in [Staff -> Request] /\ req' = [req EXCEPT ![q] = idle]
      BY <1>0, <2>2, <3>1 DEF TypeOK
    <3> QED  BY <1>0, <1>4, <1>6, <1>7, <3>2, <3>3, RequestsKept
  <2> QED  BY <2>1, <2>2 DEF SaveEnds
<1>9. ASSUME NEW p \in Staff PROVE req'[p] = req[p] \/ (req[p].pc = "save" /\ req'[p].pc = "idle")
  <2>1. CASE req' = req
    BY <2>1
  <2>2. ASSUME NEW q \in Staff, req[q].pc = "save", req' = [req EXCEPT ![q] = Idle]
        PROVE  req'[p] = req[p] \/ (req[p].pc = "save" /\ req'[p].pc = "idle")
    <3>1. req'[p] = IF p = q THEN Idle ELSE req[p]
      BY <1>0, <2>2 DEF TypeOK
    <3> QED  BY <2>2, <3>1, IdleTyped
  <2> QED  BY <2>1, <2>2 DEF SaveEnds
<1>10. CommitsApart'
  BY <1>0, <1>9 DEF CommitsApart
<1>11. SnapshotsInv'
  <2> SUFFICES ASSUME NEW n \in SnapIds PROVE SnapshotOK(n)'
    BY DEF SnapshotsInv
  <2>1. SnapshotOK(n)
    BY <1>0 DEF SnapshotsInv
  <2>2. rows[n] = {} => rows'[n] = {}
    BY DEF Relabelled
  <2> QED  BY <1>3, <2>1, <2>2 DEF SnapshotOK
<1>12. RowsInv'
  <2> SUFFICES ASSUME NEW n \in SnapIds, NEW v \in rows'[n] PROVE RowOK(v)
    BY DEF RowsInv, RowOK
  <2>1. PICK w \in rows[n] : v.id = w.id /\ v.rc = w.rc /\ v.match = w.match
    BY DEF Relabelled
  <2> QED  BY <1>0, <2>1 DEF RowsInv, RowOK
<1>13. OpenAlertsAreCurrent' /\ ConfirmedInv'
  BY <1>0, <1>3 DEF OpenAlertsAreCurrent, ConfirmedInv, Reconciled
<1>14. StatusMatchesRows'
  <2> SUFFICES ASSUME NEW n \in Committed
               PROVE  \/ rough[n]
                      \/ \E p \in Staff : req'[p].pc \in {"aggRead", "aggWrite"} /\ req'[p].snap = n
                      \/ snap[n].status \in {"RESOLVED", DeriveAggregateStatus(rows'[n])}
    BY <1>3 DEF StatusMatchesRows
  <2>1. DeriveAggregateStatus(rows'[n]) = DeriveAggregateStatus(rows[n])
    BY RelabelledRows DEF Committed
  <2>2. ASSUME NEW p \in Staff, req[p].pc \in {"aggRead", "aggWrite"}, req[p].snap = n
        PROVE  req'[p].pc \in {"aggRead", "aggWrite"} /\ req'[p].snap = n
    BY <2>2, <1>9
  <2> QED  BY <1>0, <2>1, <2>2 DEF StatusMatchesRows
<1> QED  BY <1>2, <1>8, <1>10, <1>11, <1>12, <1>13, <1>14 DEF IInv

\* The commit of a save.
LEMMA SaveCommitIInv ==
  ASSUME IInv, ReconConstants, NEW q \in Staff, SaveCommit(q) PROVE IInv'
<1>1. TypeOK
  BY DEF IInv
<1>2. req[q].lines \in SUBSET PoLines /\ req[q].fresh \in SUBSET PoLines
  BY <1>1 DEF TypeOK, Request
<1>3. rows' = ForgetLines(req[q].lines)
  BY DEF SaveCommit
<1>4. rows' \in [SnapIds -> SUBSET Row]
  <2>1. \A n \in SnapIds : ForgetLines(req[q].lines)[n] \subseteq Row
    BY <1>1, <1>2, ForgetKeeps
  <2> QED  BY <1>3, <2>1 DEF ForgetLines
<1>5. SubtotalOf(req[q].fresh) \in Subtotals
  BY <1>2, SubtotalTyped
<1>6. po' \in PurchaseOrder /\ po'.deleted = po.deleted
  BY <1>1, <1>2, <1>5 DEF TypeOK, PurchaseOrder, SaveCommit
<1>7. SaveEnds
  BY DEF SaveEnds, SaveCommit, Done
<1>8. incidents' \in 0..MaxIncidents /\ UNCHANGED <<doc, pricedAt, snap, alerts, rough>>
  BY <1>1 DEF TypeOK, SaveCommit
<1>9. Relabelled
  BY <1>1, <1>2, <1>3, ForgetKeeps DEF Relabelled
<1> QED  BY <1>4, <1>6, <1>7, <1>8, <1>9, RowsRelabelled

\* The resolution of a row.
LEMMA ResolveLineIInv ==
  ASSUME IInv, ReconConstants, NEW n \in SnapIds, NEW w, NEW resolution \in Verdicts,
         ResolveLine(n, w, resolution)
  PROVE  IInv'
<1>1. TypeOK
  BY DEF IInv
<1>2. PICK new : new = [w EXCEPT !.resolution = resolution]
  OBVIOUS
<1>3. w \in rows[n] /\ rows' = [rows EXCEPT ![n] = (rows[n] \ {w}) \cup {new}]
  BY <1>1, <1>2 DEF ResolveLine, TypeOK
<1>4. w \in Row
  BY <1>1, <1>3 DEF TypeOK
<1>5. resolution \in Resolutions
  BY DEF ReconConstants, Resolutions
<1>6. /\ new \in Row
      /\ new.id = w.id /\ new.rc = w.rc /\ new.match = w.match /\ new.missing = w.missing
  BY <1>2, <1>4, <1>5 DEF Row
<1>7. \A m \in SnapIds : rows'[m] = IF m = n THEN (rows[n] \ {w}) \cup {new} ELSE rows[m]
  BY <1>1, <1>3 DEF TypeOK
<1>8. rows' \in [SnapIds -> SUBSET Row]
  BY <1>1, <1>3, <1>6 DEF TypeOK
<1>9. Relabelled
  <2> SUFFICES ASSUME NEW m \in SnapIds
               PROVE  /\ \A u \in rows[m] : \E v \in rows'[m] :
                           /\ v.id = u.id /\ v.rc = u.rc
                           /\ v.match = u.match /\ v.missing = u.missing
                      /\ \A v \in rows'[m] : \E u \in rows[m] :
                           /\ v.id = u.id /\ v.rc = u.rc
                           /\ v.match = u.match /\ v.missing = u.missing
    BY DEF Relabelled
  <2> QED  BY <1>3, <1>6, <1>7
<1>10. incidents' \in 0..MaxIncidents
  BY <1>1, IncidentTyped DEF TypeOK, ResolveLine
<1>11. /\ UNCHANGED <<doc, pricedAt, snap, alerts, rough>> /\ SaveEnds
       /\ po' \in PurchaseOrder /\ po'.deleted = po.deleted
  BY <1>1 DEF TypeOK, PurchaseOrder, ResolveLine, SaveEnds
<1> QED  BY <1>8, <1>9, <1>10, <1>11, RowsRelabelled

\* The deletion of the PO and of an attachment take nothing back.
LEMMA DeletionIInv ==
  ASSUME IInv, ReconConstants, PoDeleted \/ \E d \in Docs : AttachmentDeleted(d) PROVE IInv'
<1> USE DEF IInv
<1>1. /\ UNCHANGED <<pricedAt, snap, rows, alerts, req, rough>> /\ Incident
      /\ po.deleted => po'.deleted
      /\ po' \in PurchaseOrder
      /\ doc' \in [Docs -> {"review", "confirmed", "deleted"}]
      /\ \A d \in Docs : doc'[d] = doc[d] \/ doc'[d] = "deleted"
  <2>1. CASE PoDeleted
    BY <2>1 DEF TypeOK, PurchaseOrder, PoDeleted
  <2>2. CASE \E d \in Docs : AttachmentDeleted(d)
    <3>1. PICK d \in Docs : AttachmentDeleted(d)
      BY <2>2
    <3>2. doc' = [doc EXCEPT ![d] = "deleted"]
      BY <3>1 DEF AttachmentDeleted
    <3> QED  BY <3>1, <3>2 DEF TypeOK, PurchaseOrder, AttachmentDeleted
  <2> QED  BY <2>1, <2>2
<1>2. TypeOK'
  BY <1>1, IncidentTyped DEF TypeOK, PurchaseOrder
<1>3. Committed' = Committed /\ Begun' = Begun
  BY <1>1 DEF Committed, Begun
<1>4. Grows
  BY <1>1, <1>3 DEF Grows, ReconConstants
<1>5. RequestsInv'
  BY <1>1, <1>4, NobodysStepKept
<1>6. CommitsApart' /\ RowsInv' /\ OpenAlertsAreCurrent' /\ StatusMatchesRows'
  BY <1>1, <1>3 DEF CommitsApart, RowsInv, RowOK, OpenAlertsAreCurrent, StatusMatchesRows
<1>7. SnapshotsInv'
  BY <1>1, <1>3 DEF SnapshotsInv, SnapshotOK
<1>8. ConfirmedInv'
  BY <1>1, <1>3 DEF ConfirmedInv, Reconciled
<1> QED  BY <1>2, <1>5, <1>6, <1>7, <1>8

-----------------------------------------------------------------------------
(* Approvals and refreshes, up to the transaction of the snapshot *)

LEMMA ApproveReadIInv ==
  ASSUME IInv, ReconConstants, NEW q \in Staff, NEW d \in Docs, NEW included \in Selections,
         ApproveRead(q, d, included)
  PROVE  IInv'
<1>1. TypeOK
  BY DEF IInv
<1>2. PICK r : r = [Idle EXCEPT !.op = "approve", !.pc = "record", !.doc = d,
                                !.included = included, !.todo = included, !.named = included]
  OBVIOUS
<1>3. /\ r \in Request /\ r.op = "approve" /\ r.pc = "record" /\ r.doc = d
      /\ r.included = included /\ r.todo = included /\ r.named = included
  BY <1>2, IdleTyped DEF Request, Idle, ReconConstants
<1>4. included # {} /\ included \subseteq OfDocument(d) /\ included \subseteq OcrLines
  BY DEF ApproveRead, OfDocument
<1>5. RequestOK(r)
  BY <1>3, <1>4 DEF RequestOK
<1>6. req[q].pc = "idle"
  BY IdleTyped DEF ApproveRead
<1>7. req' = [req EXCEPT ![q] = r] /\ incidents' \in 0..MaxIncidents
  BY <1>1, <1>2 DEF ApproveRead, TypeOK
<1> QED  BY <1>3, <1>5, <1>6, <1>7, RequestMoves DEF ApproveRead

\* The lines an approval holds stay with it.
SameApproval(r, s) ==
  r.doc = s.doc /\ r.included = s.included /\ r.todo = s.todo /\ r.named = s.named

\* A request that goes on keeps all but its place.
LEMMA GoesOn ==
  ASSUME TypeOK, NEW q \in Staff,
         NEW pc \in {"idle", "save", "record", "key", "readPo", "readReceipts", "tx", "commit",
                     "finish", "dismiss", "merge", "aggRead", "aggWrite"},
         Goes(q, pc), NEW r, r = [req[q] EXCEPT !.pc = pc]
  PROVE  /\ req' = [req EXCEPT ![q] = r]
         /\ r \in Request /\ r.pc = pc /\ r.op = req[q].op /\ SameApproval(r, req[q])
         /\ r.snap = req[q].snap /\ r.read = req[q].read
<1>1. req[q] \in Request
  BY DEF TypeOK
<1>2. r \in Request
  BY <1>1 DEF Request
<1> QED  BY <1>1, <1>2 DEF TypeOK, Goes, Request, SameApproval

\* A step after which the request is at rest and nothing else has changed.
LEMMA GivesUpIInv ==
  ASSUME IInv, ReconConstants, NEW q \in Staff, Done(q),
         UNCHANGED <<po, doc, pricedAt, snap, rows, alerts, rough>>,
         incidents' \in 0..MaxIncidents, req[q].pc \notin {"aggRead", "aggWrite"}
  PROVE  IInv'
<1>1. PICK r : r = Idle
  OBVIOUS
<1>2. r \in Request /\ r.pc = "idle" /\ req' = [req EXCEPT ![q] = r]
  BY <1>1, IdleTyped DEF Done
<1>3. RequestOK(r)
  BY <1>1, IdleOK
<1> QED  BY <1>2, <1>3, RequestMoves

LEMMA RecordPriceIInv ==
  ASSUME IInv, ReconConstants, NEW q \in Staff, NEW c \in OcrLines, RecordPrice(q, c) PROVE IInv'
<1> DEFINE pc == IF req[q].todo = {c} THEN "key" ELSE "record"
<1>1. /\ TypeOK /\ RequestOK(req[q]) /\ req[q] \in Request
      /\ req[q].pc = "record" /\ req[q].op = "approve" /\ c \in req[q].todo
  BY DEF IInv, RequestsInv, TypeOK, RequestOK, RecordPrice
<1>2. /\ UNCHANGED <<po, doc, snap, rows, alerts, rough>> /\ incidents' \in 0..MaxIncidents
      /\ po' \in PurchaseOrder /\ doc' \in [Docs -> {"review", "confirmed", "deleted"}]
  BY <1>1 DEF RecordPrice, TypeOK, PurchaseOrder
<1>3. CASE Done(q) /\ UNCHANGED pricedAt
  BY <1>1, <1>2, <1>3, GivesUpIInv
<1>4. PICK skipped : skipped = [req[q] EXCEPT !.todo = @ \ {c}, !.pc = pc, !.named = @ \ {c}]
  OBVIOUS
<1>5. PICK kept : kept = [req[q] EXCEPT !.todo = @ \ {c}, !.pc = pc]
  OBVIOUS
<1>6. pc \in {"key", "record"} /\ (pc = "key" <=> req[q].todo \ {c} = {})
  BY <1>1
<1>7. /\ skipped \in Request /\ skipped.op = "approve" /\ skipped.pc = pc
      /\ skipped.doc = req[q].doc /\ skipped.included = req[q].included
      /\ skipped.todo = req[q].todo \ {c} /\ skipped.named = req[q].named \ {c}
      /\ kept \in Request /\ kept.op = "approve" /\ kept.pc = pc
      /\ kept.doc = req[q].doc /\ kept.included = req[q].included
      /\ kept.todo = req[q].todo \ {c} /\ kept.named = req[q].named
  BY <1>1, <1>4, <1>5, <1>6 DEF Request
<1> HIDE DEF pc
<1>8. CASE req' = [req EXCEPT ![q] = skipped] /\ UNCHANGED pricedAt
  <2>1. \A e \in skipped.named : /\ e \in OcrLines
                                 /\ pricedAt[e] > 0 \/ (skipped.pc = "record" /\ e \in skipped.todo)
    BY <1>1, <1>6, <1>7 DEF RequestOK
  <2>2. RequestOK(skipped)
    BY <1>1, <1>6, <1>7, <2>1 DEF RequestOK
  <2> QED  BY <1>1, <1>2, <1>6, <1>7, <1>8, <2>2, RequestMoves
<1>9. CASE /\ req' = [req EXCEPT ![q] = kept]
           /\ \/ pricedAt[c] > 0 /\ UNCHANGED pricedAt
              \/ \E at \in 1..Cardinality(OcrLines) : pricedAt' = [pricedAt EXCEPT ![c] = at]
  <2>1. /\ pricedAt' \in [OcrLines -> Nat] /\ pricedAt'[c] > 0
        /\ \A e \in OcrLines : pricedAt[e] > 0 => pricedAt'[e] > 0
    <3>1. CASE pricedAt[c] > 0 /\ UNCHANGED pricedAt
      BY <1>1, <3>1 DEF TypeOK
    <3>2. CASE \E at \in 1..Cardinality(OcrLines) : pricedAt' = [pricedAt EXCEPT ![c] = at]
      <4>1. PICK at \in 1..Cardinality(OcrLines) : pricedAt' = [pricedAt EXCEPT ![c] = at]
        BY <3>2
      <4>2. at \in Nat /\ at > 0
        BY FS_CardinalityType DEF ReconConstants
      <4> QED  BY <1>1, <4>1, <4>2 DEF TypeOK
    <3> QED  BY <1>9, <3>1, <3>2
  <2>2. \A e \in kept.named : /\ e \in OcrLines
                              /\ pricedAt'[e] > 0 \/ (kept.pc = "record" /\ e \in kept.todo)
    BY <1>1, <1>6, <1>7, <2>1 DEF RequestOK
  <2>3. RequestOK(kept)'
    BY <1>1, <1>6, <1>7, <2>2 DEF RequestOK
  <2> QED  BY <1>1, <1>2, <1>6, <1>7, <1>9, <2>1, <2>3, QuietStep
<1>10. \/ req' = [req EXCEPT ![q] = skipped] /\ UNCHANGED pricedAt
       \/ /\ req' = [req EXCEPT ![q] = kept]
          /\ \/ pricedAt[c] > 0 /\ UNCHANGED pricedAt
             \/ \E at \in 1..Cardinality(OcrLines) : pricedAt' = [pricedAt EXCEPT ![c] = at]
       \/ Done(q) /\ UNCHANGED pricedAt
  BY <1>4, <1>5 DEF RecordPrice, pc
<1> QED  BY <1>3, <1>8, <1>9, <1>10

LEMMA RefreshManualIInv ==
  ASSUME IInv, ReconConstants, NEW q \in Staff, RefreshManual(q) PROVE IInv'
<1>1. TypeOK
  BY DEF IInv
<1>2. PICK r : r = [Idle EXCEPT !.op = "refresh", !.pc = "readReceipts",
                                !.lines = po.lines, !.subtotal = po.subtotal]
  OBVIOUS
<1>3. r \in Request /\ r.op = "refresh" /\ r.pc = "readReceipts" /\ r.included = {} /\ r.named = {}
  BY <1>1, <1>2, IdleTyped DEF TypeOK, Request, Idle
<1>4. RequestOK(r)
  BY <1>3 DEF RequestOK
<1>5. req[q].pc = "idle"
  BY IdleTyped DEF RefreshManual
<1>6. req' = [req EXCEPT ![q] = r] /\ incidents' \in 0..MaxIncidents
  BY <1>1, <1>2 DEF RefreshManual, TypeOK
<1> QED  BY <1>3, <1>4, <1>5, <1>6, RequestMoves DEF RefreshManual

\* The document is confirmed when it has its snapshot.
LEMMA ConfirmIInv ==
  ASSUME IInv, ReconConstants, NEW q \in Staff, Confirm(q) PROVE IInv'
<1>1. TypeOK /\ RequestOK(req[q])
  BY DEF IInv, RequestsInv
<1>2. PICK r : r = Idle
  OBVIOUS
<1>3. r \in Request /\ r.pc = "idle" /\ req' = [req EXCEPT ![q] = r]
  BY <1>2, IdleTyped DEF Confirm, Done
<1>4. RequestOK(r)'
  BY <1>2, IdleOK DEF RequestOK, MergeReady, Idle
<1>5. PICK d \in Docs : d = req[q].doc
  BY <1>1 DEF RequestOK, Confirm
<1>6. Reconciled(d) \/ po.deleted
  BY <1>1, <1>5 DEF RequestOK, Confirm
<1>7. doc' = IF doc[d] = "deleted" THEN doc ELSE [doc EXCEPT ![d] = "confirmed"]
  BY <1>5 DEF Confirm
<1>8. /\ doc' \in [Docs -> {"review", "confirmed", "deleted"}]
      /\ \A e \in Docs : doc[e] = "deleted" => doc'[e] = "deleted"
      /\ \A e \in Docs : doc'[e] = "confirmed" => doc[e] = "confirmed" \/ e = d
  BY <1>1, <1>7 DEF TypeOK
<1>9. /\ UNCHANGED <<po, pricedAt, snap, rows, alerts, rough>> /\ incidents' \in 0..MaxIncidents
      /\ po' \in PurchaseOrder /\ pricedAt' \in [OcrLines -> Nat] /\ req[q].pc = "finish"
  BY <1>1 DEF Confirm, TypeOK, PurchaseOrder
<1> QED  BY <1>3, <1>4, <1>6, <1>8, <1>9, QuietStep

\* The reads of a snapshot before its transaction.
LEMMA SnapshotReadsIInv ==
  ASSUME IInv, ReconConstants, NEW q \in Staff, CheckKey(q) \/ ReadPo(q) \/ ReadReceipts(q)
  PROVE  IInv'
<1>1. TypeOK /\ RequestOK(req[q]) /\ req[q] \in Request
  BY DEF IInv, RequestsInv, TypeOK
<1>2. /\ UNCHANGED <<po, doc, pricedAt, snap, rows, alerts, rough>>
      /\ incidents' \in 0..MaxIncidents
      /\ req[q].pc \in {"key", "readPo", "readReceipts"}
  BY <1>1 DEF CheckKey, ReadPo, ReadReceipts, TypeOK
<1>3. CASE (CheckKey(q) /\ HasSnapshot(req[q].included)) \/ (ReadPo(q) /\ po.deleted)
  <2>1. PICK r : r = [req[q] EXCEPT !.pc = "finish"]
    OBVIOUS
  <2>2. /\ req' = [req EXCEPT ![q] = r]
        /\ r \in Request /\ r.pc = "finish" /\ r.op = req[q].op /\ SameApproval(r, req[q])
    BY <1>1, <1>3, <2>1, GoesOn DEF CheckKey, ReadPo
  <2>3. Reconciled(r.doc) \/ po.deleted
    BY <1>1, <1>3, <2>2 DEF RequestOK, CheckKey, HasSnapshot, Reconciled, SameApproval
  <2>4. RequestOK(r)
    BY <1>1, <1>3, <2>2, <2>3 DEF RequestOK, CheckKey, ReadPo, SameApproval
  <2> QED  BY <1>2, <2>2, <2>4, RequestMoves
<1>4. CASE CheckKey(q) /\ ~HasSnapshot(req[q].included)
  <2>1. PICK r : r = [req[q] EXCEPT !.pc = "readPo"]
    OBVIOUS
  <2>2. /\ req' = [req EXCEPT ![q] = r]
        /\ r \in Request /\ r.pc = "readPo" /\ r.op = req[q].op /\ SameApproval(r, req[q])
    BY <1>1, <1>4, <2>1, GoesOn DEF CheckKey
  <2>3. RequestOK(r)
    BY <1>1, <1>4, <2>2 DEF RequestOK, CheckKey, SameApproval
  <2> QED  BY <1>2, <2>2, <2>3, RequestMoves
<1>5. CASE ReadPo(q) /\ ~po.deleted
  <2>1. PICK r : r = [req[q] EXCEPT !.pc = "readReceipts", !.lines = po.lines,
                                    !.subtotal = po.subtotal]
    OBVIOUS
  <2>2. req' = [req EXCEPT ![q] = r]
    BY <1>5, <2>1 DEF ReadPo
  <2>3. r \in Request /\ r.pc = "readReceipts" /\ r.op = req[q].op /\ SameApproval(r, req[q])
    BY <1>1, <2>1 DEF TypeOK, Request, SameApproval
  <2>4. RequestOK(r)
    BY <1>1, <1>5, <2>3 DEF RequestOK, ReadPo, SameApproval
  <2> QED  BY <1>2, <2>2, <2>3, <2>4, RequestMoves
<1>6. CASE ReadReceipts(q)
  <2>1. PICK r : r = [req[q] EXCEPT !.pc = "tx", !.read = OnThisPo]
    OBVIOUS
  <2>2. req' = [req EXCEPT ![q] = r]
    BY <1>6, <2>1 DEF ReadReceipts
  <2>3. OnThisPo \in SUBSET OcrLines
    BY DEF OnThisPo
  <2>4. r \in Request /\ r.pc = "tx" /\ r.op = req[q].op /\ SameApproval(r, req[q]) /\ r.read = OnThisPo
    BY <1>1, <2>1, <2>3 DEF Request, SameApproval
  <2>5. \A c \in r.named : c \in OnThisPo \/ doc[DocOf[c]] = "deleted"
    BY <1>1, <1>6, <2>4 DEF RequestOK, ReadReceipts, OnThisPo, SameApproval
  <2>6. RequestOK(r)
    BY <1>1, <1>6, <2>4, <2>5 DEF RequestOK, ReadReceipts, SameApproval
  <2> QED  BY <1>2, <2>2, <2>4, <2>6, RequestMoves
<1> QED  BY <1>3, <1>4, <1>5, <1>6

\* The key is taken: the approval has its snapshot, or fails.
LEMMA SnapshotEndsIInv ==
  ASSUME IInv, ReconConstants, NEW q \in Staff, SnapshotSkipped(q) \/ SnapshotThrows(q)
  PROVE  IInv'
<1>1. TypeOK /\ RequestOK(req[q])
  BY DEF IInv, RequestsInv
<1>2. /\ UNCHANGED <<po, doc, pricedAt, snap, rows, alerts, rough>>
      /\ incidents' \in 0..MaxIncidents
      /\ req[q].pc = "tx"
  BY <1>1 DEF SnapshotSkipped, SnapshotThrows, TypeOK
<1>3. CASE SnapshotSkipped(q)
  <2>1. PICK d \in Docs : d = req[q].doc
    BY <1>1, <1>3 DEF RequestOK, SnapshotSkipped
  <2>2. PICK r : r = Finishing(d)
    OBVIOUS
  <2>3. r \in Request /\ r.op = "approve" /\ r.pc = "finish" /\ r.doc = d /\ r.named = {}
    BY <2>2, FinishingTyped
  <2>4. Reconciled(d)
    BY <1>1, <1>3, <2>1 DEF RequestOK, SnapshotSkipped, HasSnapshot, Reconciled
  <2>6. RequestOK(r)
    BY <1>1, <1>3, <2>1, <2>3, <2>4 DEF RequestOK, SnapshotSkipped
  <2>5. req' = [req EXCEPT ![q] = r]
    BY <1>3, <2>1, <2>2 DEF SnapshotSkipped
  <2> QED  BY <1>2, <2>3, <2>5, <2>6, RequestMoves
<1>4. CASE SnapshotThrows(q)
  BY <1>2, <1>4, GivesUpIInv DEF SnapshotThrows
<1> QED  BY <1>3, <1>4

-----------------------------------------------------------------------------
(* Dismissals and merges *)

LEMMA DismissReadIInv ==
  ASSUME IInv, ReconConstants, NEW q \in Staff, NEW n \in Committed, NEW a, DismissRead(q, n, a)
  PROVE  IInv'
<1>1. TypeOK
  BY DEF IInv
<1>2. PICK r : r = [Idle EXCEPT !.op = "dismiss", !.pc = "dismiss", !.snap = n,
                                !.about = {a.about}]
  OBVIOUS
<1>3. n \in SnapIds
  BY DEF Committed
<1>4. a.about \in Subject
  BY <1>1, <1>3 DEF DismissRead, TypeOK, Alert
<1>5. /\ r \in Request /\ r.op = "dismiss" /\ r.pc = "dismiss" /\ r.snap = n
      /\ r.included = {} /\ r.named = {}
  BY <1>2, <1>3, <1>4, IdleTyped DEF Request, Idle
<1>6. RequestOK(r)
  BY <1>5 DEF RequestOK
<1>7. req[q].pc = "idle"
  BY IdleTyped DEF DismissRead
<1>8. req' = [req EXCEPT ![q] = r] /\ incidents' \in 0..MaxIncidents
  BY <1>1, <1>2, IncidentTyped DEF DismissRead, TypeOK
<1> QED  BY <1>5, <1>6, <1>7, <1>8, RequestMoves DEF DismissRead

\* The dismissal leaves no alert open that was not.
LEMMA DismissWriteIInv ==
  ASSUME IInv, ReconConstants, NEW q \in Staff, DismissWrite(q) PROVE IInv'
<1> DEFINE k == req[q].snap
           Dismiss(a) == IF a.about \in req[q].about THEN [a EXCEPT !.status = "DISMISSED"] ELSE a
<1>0. /\ TypeOK /\ RequestsInv /\ CommitsApart /\ SnapshotsInv /\ RowsInv /\ ConfirmedInv
      /\ OpenAlertsAreCurrent /\ StatusMatchesRows
  BY DEF IInv
<1>1. k \in Committed /\ k \in SnapIds
  BY <1>0 DEF RequestsInv, RequestOK, DismissWrite, Committed
<1>2. alerts' = [alerts EXCEPT ![k] = {Dismiss(a) : a \in alerts[k]}]
  BY <1>0, <1>1 DEF DismissWrite, TypeOK
<1>3. \A a \in Alert : Dismiss(a) \in Alert /\ (Dismiss(a).status = "OPEN" => Dismiss(a) = a)
  BY DEF Alert
<1>4. alerts' \in [SnapIds -> SUBSET Alert]
  BY <1>0, <1>1, <1>2, <1>3 DEF TypeOK
<1>5. PICK r : r = Idle
  OBVIOUS
<1>6. r \in Request /\ r.pc = "idle" /\ req' = [req EXCEPT ![q] = r]
  BY <1>5, IdleTyped DEF DismissWrite, Done
<1>7. RequestOK(r)'
  BY <1>5, IdleOK DEF RequestOK, MergeReady, Idle
<1>8. UNCHANGED <<po, doc, pricedAt, snap, rows, rough, incidents>> /\ req[q].pc = "dismiss"
  BY DEF DismissWrite
<1>9. TypeOK'
  BY <1>0, <1>4, <1>6, <1>8 DEF TypeOK
<1>10. Committed' = Committed /\ Begun' = Begun
  BY <1>8 DEF Committed, Begun
<1>11. Grows
  BY <1>8, <1>10 DEF Grows
<1>12. RequestsInv'
  BY <1>0, <1>6, <1>7, <1>8, <1>11, RequestsKept DEF TypeOK
<1>13. \A p \in Staff : req'[p] = req[p] \/ (p = q /\ req'[p].pc = "idle")
  BY <1>0, <1>6 DEF TypeOK
<1>14. CommitsApart'
  BY <1>0, <1>13 DEF CommitsApart
<1>15. \A n \in SnapIds : n # k => alerts'[n] = alerts[n]
  BY <1>0, <1>2 DEF TypeOK
<1>16. SnapshotsInv'
  BY <1>0, <1>1, <1>8, <1>10, <1>15 DEF SnapshotsInv, SnapshotOK
<1>17. RowsInv' /\ ConfirmedInv'
  BY <1>0, <1>8, <1>10 DEF RowsInv, RowOK, ConfirmedInv, Reconciled
<1>18. OpenAlertsAreCurrent'
  <2> SUFFICES ASSUME NEW n \in SnapIds, NEW a \in alerts'[n], a.status = "OPEN",
                      NEW m \in Committed
               PROVE  n \notin snap[m].saw
    BY <1>8, <1>10 DEF OpenAlertsAreCurrent
  <2>1. a \in alerts[n]
    <3>1. CASE n = k
      <4>1. PICK b \in alerts[k] : a = Dismiss(b)
        BY <1>0, <1>1, <1>2, <3>1 DEF TypeOK
      <4>2. b \in Alert
        BY <1>0, <1>1 DEF TypeOK
      <4> QED  BY <1>3, <3>1, <4>1, <4>2
    <3> QED  BY <1>15, <3>1
  <2> QED  BY <1>0, <2>1 DEF OpenAlertsAreCurrent
<1>19. StatusMatchesRows'
  BY <1>0, <1>8, <1>10, <1>13 DEF StatusMatchesRows
<1> QED  BY <1>9, <1>12, <1>14, <1>16, <1>17, <1>18, <1>19 DEF IInv

\* A merge reads an unpaired PO line and an unpaired receipt of the snapshot.
LEMMA MergeReadIInv ==
  ASSUME IInv, ReconConstants, NEW q \in Staff, NEW n \in Committed, NEW p, NEW c,
         MergeRead(q, n, p, c)
  PROVE  IInv'
<1>1. TypeOK /\ RowsInv
  BY DEF IInv
<1>2. n \in SnapIds /\ p \in rows[n] /\ c \in rows[n]
  BY DEF MergeRead, Committed
<1>3. p \in Row /\ c \in Row /\ RowOK(p) /\ RowOK(c)
  BY <1>1, <1>2 DEF TypeOK, RowsInv
<1>4. /\ p.id \in RowIds /\ p.id[1] # NoLine
      /\ c.rc \in OcrLines /\ c.id \in RowIds /\ c.id[1] = NoLine /\ c.id[2] = c.rc
  BY <1>3 DEF MergeRead, RowOK, Row, ReceiptIds
<1>5. c.id = <<NoLine, c.rc>>
  BY <1>4 DEF RowIds
<1>6. PICK l \in po.lines :
        req' = [req EXCEPT ![q] =
          [Idle EXCEPT !.op = "merge", !.pc = "merge", !.snap = n, !.gone = {c.id},
                       !.pair = {[id |-> p.id, po |-> l.id, rc |-> c.rc,
                                  match |-> ClassifyPairedLine(l, Receipt(c.rc)),
                                  missing |-> Observed[c.rc].qty = NoQty,
                                  resolution |-> "CONFIRMED_PAIR"]}]]
  BY DEF MergeRead
<1>7. PICK new : new = [id |-> p.id, po |-> l.id, rc |-> c.rc,
                        match |-> ClassifyPairedLine(l, Receipt(c.rc)),
                        missing |-> Observed[c.rc].qty = NoQty, resolution |-> "CONFIRMED_PAIR"]
  OBVIOUS
<1>8. new \in Row
  <2>1. l.id \in LineIds
    BY <1>1, LinesTyped DEF TypeOK
  <2>2. PICK verdict \in POReconciliationLineMatch : verdict = ClassifyPairedLine(l, Receipt(c.rc))
    BY ClassifyTyped DEF POReconciliationLineMatch
  <2>3. PICK missing \in BOOLEAN : missing = (Observed[c.rc].qty = NoQty)
    OBVIOUS
  <2>4. new = [id |-> p.id, po |-> l.id, rc |-> c.rc, match |-> verdict, missing |-> missing,
               resolution |-> "CONFIRMED_PAIR"]
    BY <1>7, <2>2, <2>3
  <2> QED  BY <1>4, <2>1, <2>4 DEF Row, ReceiptIds, Resolutions
<1>9. PICK r : r = [Idle EXCEPT !.op = "merge", !.pc = "merge", !.snap = n, !.gone = {c.id},
                                !.pair = {new}]
  OBVIOUS
<1>10. /\ r \in Request /\ r.op = "merge" /\ r.pc = "merge" /\ r.snap = n /\ r.included = {} /\ r.named = {}
       /\ r.pair = {new} /\ r.gone = {c.id}
  BY <1>2, <1>4, <1>8, <1>9, IdleTyped DEF Request, Idle
<1>11. MergeReady(r)
  <2>1. new.rc = c.rc /\ new.id = p.id /\ new.match \in PairedMatch
    BY <1>7, ClassifyTyped
  <2> QED  BY <1>2, <1>4, <1>5, <1>8, <1>10, <2>1 DEF MergeReady
<1>12. RequestOK(r)
  BY <1>10, <1>11 DEF RequestOK
<1>13. req[q].pc = "idle"
  BY IdleTyped DEF MergeRead
<1>14. req' = [req EXCEPT ![q] = r] /\ incidents' \in 0..MaxIncidents
  BY <1>1, <1>6, <1>7, <1>9 DEF MergeRead, TypeOK
<1> QED  BY <1>10, <1>12, <1>13, <1>14, RequestMoves DEF MergeRead

LEMMA MergeRejectedIInv ==
  ASSUME IInv, ReconConstants, NEW q \in Staff, MergeRejected(q) PROVE IInv'
<1>1. TypeOK
  BY DEF IInv
<1> QED  BY <1>1, GivesUpIInv DEF MergeRejected, TypeOK

LEMMA AggregateReadIInv ==
  ASSUME IInv, ReconConstants, NEW q \in Staff, AggregateRead(q) PROVE IInv'
<1>1. TypeOK /\ RequestOK(req[q]) /\ req[q] \in Request
  BY DEF IInv, RequestsInv, TypeOK
<1>2. PICK r : r = [req[q] EXCEPT !.pc = "aggWrite", !.status = AggregateOf(req[q].snap)]
  OBVIOUS
<1>3. AggregateOf(req[q].snap) \in Statuses
  BY DeriveTyped DEF AggregateOf
<1>4. /\ r \in Request /\ r.pc = "aggWrite" /\ r.op = req[q].op /\ SameApproval(r, req[q])
      /\ r.snap = req[q].snap /\ r.status = AggregateOf(r.snap)
  BY <1>1, <1>2, <1>3 DEF Request, SameApproval
<1>5. RequestOK(r)
  BY <1>1, <1>4 DEF RequestOK, AggregateRead, AggregateOf, SameApproval
<1>6. req' = [req EXCEPT ![q] = r] /\ incidents' \in 0..MaxIncidents
  BY <1>1, <1>2 DEF AggregateRead, TypeOK
<1> QED  BY <1>4, <1>5, <1>6, RequestMoves DEF AggregateRead

-----------------------------------------------------------------------------
(* The transaction of a snapshot *)

\* Its statements take the next number and see the committed snapshots.
LEMMA SnapshotTxIInv ==
  ASSUME IInv, ReconConstants, NEW q \in Staff, SnapshotTx(q) PROVE IInv'
<1>0. /\ TypeOK /\ RequestsInv /\ CommitsApart /\ SnapshotsInv /\ RowsInv /\ ConfirmedInv
      /\ OpenAlertsAreCurrent /\ StatusMatchesRows
  BY DEF IInv
<1>1. PICK n \in SnapIds :
        /\ \A m \in Begun : m < n
        /\ snap' = [snap EXCEPT ![n] =
             [NoSnap EXCEPT !.state = "tx", !.trigger = req[q].included, !.read = req[q].read,
                            !.saw = Committed]]
        /\ req' = [req EXCEPT ![q] = [req[q] EXCEPT !.pc = "commit", !.snap = n]]
  BY <1>0 DEF SnapshotTx, TypeOK
<1>2. UNCHANGED <<po, doc, pricedAt, rows, alerts, rough, incidents>>
  BY DEF SnapshotTx
<1>3. req[q] \in Request /\ RequestOK(req[q]) /\ req[q].pc = "tx"
  BY <1>0 DEF TypeOK, RequestsInv, SnapshotTx
<1>4. PICK s : s = [NoSnap EXCEPT !.state = "tx", !.trigger = req[q].included, !.read = req[q].read,
                                  !.saw = Committed]
  OBVIOUS
<1>5. /\ s.state = "tx" /\ s.trigger = req[q].included /\ s.read = req[q].read /\ s.saw = Committed
      /\ s \in [state : {"none", "tx", "committed"}, trigger : SUBSET OcrLines,
                status : Statuses, read : SUBSET OcrLines, saw : SUBSET SnapIds]
  <2>1. req[q].included \subseteq OcrLines /\ req[q].read \subseteq OcrLines /\ Committed \subseteq SnapIds
    BY <1>3 DEF Request, Committed
  <2> QED  BY <1>4, <2>1 DEF NoSnap, Statuses
<1>6. snap' = [snap EXCEPT ![n] = s]
  BY <1>1, <1>4
<1>7. \A m \in SnapIds : snap'[m] = IF m = n THEN s ELSE snap[m]
  BY <1>0, <1>6 DEF TypeOK
<1>8. n \notin Begun /\ n \notin Committed
  BY <1>1 DEF Begun, Committed, SnapIds
<1>9. Committed' = Committed /\ Begun' = Begun \cup {n}
  BY <1>5, <1>7, <1>8 DEF Committed, Begun
<1>10. PICK r : r = [req[q] EXCEPT !.pc = "commit", !.snap = n]
  OBVIOUS
<1>11. /\ r \in Request /\ r.pc = "commit" /\ r.op = req[q].op /\ SameApproval(r, req[q])
       /\ r.snap = n
  BY <1>3, <1>10 DEF Request, SameApproval
<1>12. req' = [req EXCEPT ![q] = r]
  BY <1>1, <1>10
<1>13. TypeOK'
  BY <1>0, <1>2, <1>5, <1>6, <1>11, <1>12 DEF TypeOK
<1>14. RequestOK(r)'
  BY <1>2, <1>3, <1>5, <1>7, <1>11 DEF RequestOK, SameApproval
<1>15. Grows
  BY <1>2, <1>7, <1>8, <1>9 DEF Grows, Committed
<1>16. \A p \in Staff : req[p].pc = "commit" =>
         req[p].snap \in SnapIds /\ req[p].snap # n /\ snap'[req[p].snap] = snap[req[p].snap]
  BY <1>0, <1>7, <1>8 DEF RequestsInv, RequestOK, Begun
<1>17. RequestsInv'
  BY <1>0, <1>2, <1>12, <1>14, <1>15, <1>16, RequestsKept DEF TypeOK
<1>18. req'[q] = r /\ \A p \in Staff \ {q} : req'[p] = req[p]
  BY <1>0, <1>12 DEF TypeOK
<1>19. CommitsApart'
  BY <1>0, <1>11, <1>16, <1>18 DEF CommitsApart
<1>20. \A m \in Begun : s.trigger # {} => snap[m].trigger # s.trigger
  <2> SUFFICES ASSUME NEW m \in Begun, s.trigger # {}, snap[m].trigger = s.trigger
               PROVE  FALSE
    OBVIOUS
  <2>1. req[q].op = "approve"
    BY <1>3, <1>5 DEF RequestOK
  <2>2. KeyFree(q) /\ ~HasSnapshot(req[q].included)
    BY <2>1 DEF SnapshotTx
  <2>3. snap[m].state \in {"tx", "committed"} /\ m \in SnapIds
    BY <1>0 DEF Begun, TypeOK
  <2> QED  BY <1>5, <2>1, <2>2, <2>3 DEF KeyFree, HasSnapshot, Committed
<1>21. SnapshotsInv'
  <2> SUFFICES ASSUME NEW m \in SnapIds PROVE SnapshotOK(m)'
    BY DEF SnapshotsInv
  <2>1. SnapshotOK(m) /\ SnapshotOK(n)
    BY <1>0 DEF SnapshotsInv
  <2>2. CASE m = n
    BY <1>2, <1>5, <1>7, <1>8, <1>9, <1>20, <2>1, <2>2 DEF SnapshotOK, Begun
  <2>3. CASE m # n
    <3>1. snap'[m] = snap[m]
      BY <1>7, <2>3
    <3>2. \A k \in Begun' : k = n \/ (k \in Begun /\ snap'[k] = snap[k])
      BY <1>7, <1>8, <1>9 DEF Begun
    <3>3. m \in Begun' => m \in Begun
      BY <1>9, <2>3
    <3> QED  BY <1>2, <1>7, <1>9, <1>20, <2>1, <3>1, <3>2, <3>3 DEF SnapshotOK
  <2> QED  BY <2>2, <2>3
<1>22. RowsInv' /\ ConfirmedInv'
  BY <1>0, <1>2, <1>7, <1>8, <1>9 DEF RowsInv, RowOK, ConfirmedInv, Reconciled, Committed
<1>23. OpenAlertsAreCurrent'
  BY <1>0, <1>2, <1>7, <1>8, <1>9 DEF OpenAlertsAreCurrent, Committed
<1>24. StatusMatchesRows'
  <2> SUFFICES ASSUME NEW m \in Committed
               PROVE  \/ rough[m]
                      \/ \E p \in Staff : req'[p].pc \in {"aggRead", "aggWrite"} /\ req'[p].snap = m
                      \/ snap'[m].status \in {"RESOLVED", DeriveAggregateStatus(rows[m])}
    BY <1>2, <1>9 DEF StatusMatchesRows
  <2>1. snap'[m] = snap[m]
    BY <1>7, <1>8 DEF Committed
  <2>2. ASSUME NEW p \in Staff, req[p].pc \in {"aggRead", "aggWrite"}, req[p].snap = m
        PROVE  req'[p].pc \in {"aggRead", "aggWrite"} /\ req'[p].snap = m
    BY <1>3, <1>18, <2>2
  <2> QED  BY <1>0, <2>1, <2>2 DEF StatusMatchesRows
<1> QED  BY <1>13, <1>17, <1>19, <1>21, <1>22, <1>23, <1>24 DEF IInv

\* Superseding closes the open alerts and leaves the others.
LEMMA SupersedeTyped ==
  ASSUME TypeOK, NEW n \in SnapIds
  PROVE  Supersede(n) \subseteq Alert /\ \A a \in Supersede(n) : a.status # "OPEN"
<1>1. \A a \in alerts[n] : a \in Alert
  BY DEF TypeOK
<1> QED  BY <1>1 DEF Supersede, Alert

\* The commit stores rows that give the status stored with them, and closes the alerts of
\* every snapshot that the transaction saw.
LEMMA SnapshotCommitIInv ==
  ASSUME IInv, ReconConstants, NEW q \in Staff, SnapshotCommit(q) PROVE IInv'
<1>0. /\ TypeOK /\ RequestsInv /\ CommitsApart /\ SnapshotsInv /\ RowsInv /\ ConfirmedInv
      /\ OpenAlertsAreCurrent /\ StatusMatchesRows
  BY DEF IInv
<1>1. PICK n : n = req[q].snap
  OBVIOUS
<1>2. PICK read : read = SnapshotRows(req[q].lines, Receipts(req[q].read))
  OBVIOUS
<1>3. /\ snap' = [snap EXCEPT ![n].state = "committed", ![n].status = DeriveAggregateStatus(read)]
      /\ rows' = [rows EXCEPT ![n] = {StoredRow(w) : w \in read}]
      /\ alerts' = [m \in SnapIds |-> IF m = n THEN NewAlerts(q)
                                      ELSE IF m \in snap[n].saw THEN Supersede(m)
                                      ELSE alerts[m]]
      /\ UNCHANGED <<po, doc, pricedAt, rough, incidents>>
      /\ req[q].pc = "commit"
  BY <1>1, <1>2 DEF SnapshotCommit
<1>4. /\ req[q] \in Request /\ RequestOK(req[q])
      /\ n \in SnapIds /\ snap[n].state = "tx" /\ snap[n].trigger = req[q].included
  BY <1>0, <1>1, <1>3 DEF TypeOK, RequestsInv, RequestOK
<1>5. PICK s : s = [snap[n] EXCEPT !.state = "committed", !.status = DeriveAggregateStatus(read)]
  OBVIOUS
<1>6. snap' = [snap EXCEPT ![n] = s]
  BY <1>0, <1>3, <1>4, <1>5 DEF TypeOK
<1>7. /\ s.state = "committed" /\ s.status = DeriveAggregateStatus(read)
      /\ s.trigger = snap[n].trigger /\ s.read = snap[n].read /\ s.saw = snap[n].saw
      /\ s \in [state : {"none", "tx", "committed"}, trigger : SUBSET OcrLines,
                status : Statuses, read : SUBSET OcrLines, saw : SUBSET SnapIds]
  <2>1. DeriveAggregateStatus(read) \in Statuses
    BY DeriveTyped
  <2>2. snap[n] \in [state : {"none", "tx", "committed"}, trigger : SUBSET OcrLines,
                     status : Statuses, read : SUBSET OcrLines, saw : SUBSET SnapIds]
    BY <1>0, <1>4 DEF TypeOK
  <2> QED  BY <1>5, <2>1, <2>2
<1>8. \A m \in SnapIds : snap'[m] = IF m = n THEN s ELSE snap[m]
  BY <1>0, <1>6 DEF TypeOK
<1>9. n \notin Committed /\ Committed' = Committed \cup {n} /\ Begun' = Begun /\ n \in Begun
  BY <1>4, <1>7, <1>8 DEF Committed, Begun
<1>10. PICK stored : stored = {StoredRow(w) : w \in read}
  OBVIOUS
<1>11. \A w \in stored : w \in Row /\ RowOK(w)
  <2>1. req[q].lines \in SUBSET PoLines /\ req[q].read \in SUBSET OcrLines
    BY <1>4 DEF Request
  <2>2. \A w \in read : StoredRow(w) \in Row /\ RowOK(StoredRow(w))
    BY <1>2, <2>1, StoredRowTyped
  <2> QED  BY <1>10, <2>2
<1>12. \A m \in SnapIds : rows'[m] = IF m = n THEN stored ELSE rows[m]
  BY <1>0, <1>3, <1>10 DEF TypeOK
<1>13. rows' \in [SnapIds -> SUBSET Row]
  <2>1. stored \subseteq Row
    BY <1>11
  <2> QED  BY <1>0, <1>3, <1>4, <1>10, <2>1 DEF TypeOK
<1>14. NewAlerts(q) \subseteq Alert
  <2>1. req[q].lines \in SUBSET PoLines /\ req[q].read \in SUBSET OcrLines
    BY <1>4 DEF Request
  <2>2. AlertSubjects(req[q].lines, Receipts(req[q].read), req[q].subtotal) \subseteq Subject
    BY <2>1, AlertsTyped
  <2> QED  BY <2>2 DEF NewAlerts, Alert
<1>15. \A m \in SnapIds : alerts'[m] = IF m = n THEN NewAlerts(q)
                                       ELSE IF m \in snap[n].saw THEN Supersede(m) ELSE alerts[m]
  BY <1>3
<1>16. alerts' \in [SnapIds -> SUBSET Alert]
  BY <1>0, <1>3, <1>14, SupersedeTyped DEF TypeOK
<1>17. PICK r \in Request :
         /\ req' = [req EXCEPT ![q] = r] /\ r.pc \in {"idle", "finish"}
         /\ r.pc = "finish" => /\ r.op = "approve" /\ r.doc = req[q].doc /\ r.named = {}
                              /\ req[q].op = "approve"
         /\ r.pc = "idle" => r = Idle
  <2>1. CASE req[q].op = "approve"
    <3>1. req[q].doc \in Docs
      BY <1>4, <2>1 DEF RequestOK
    <3> QED  BY <2>1, <3>1, FinishingTyped DEF SnapshotCommit
  <2>2. CASE req[q].op # "approve"
    BY <2>2, IdleTyped DEF SnapshotCommit, Done
  <2> QED  BY <2>1, <2>2
<1>18. TypeOK'
  <2>1. req' \in [Staff -> Request]
    BY <1>0, <1>17 DEF TypeOK
  <2>2. snap' \in [SnapIds -> [state : {"none", "tx", "committed"}, trigger : SUBSET OcrLines,
                               status : Statuses, read : SUBSET OcrLines, saw : SUBSET SnapIds]]
    BY <1>0, <1>6, <1>7 DEF TypeOK
  <2> QED  BY <1>0, <1>3, <1>13, <1>16, <2>1, <2>2 DEF TypeOK
<1>19. Grows
  BY <1>3, <1>7, <1>8, <1>9 DEF Grows, Committed
<1>20. RequestOK(r)'
  <2>1. CASE r.pc = "idle"
    BY <1>17, <2>1, IdleOK DEF RequestOK, MergeReady, Idle
  <2>2. CASE r.pc = "finish"
    <3>1. req[q].included # {} /\ req[q].included \subseteq OfDocument(r.doc) /\ r.doc \in Docs
      BY <1>3, <1>4, <1>17, <2>2 DEF RequestOK
    <3>2. Reconciled(r.doc)'
      BY <1>4, <1>7, <1>8, <1>9, <3>1 DEF Reconciled
    <3> QED  BY <1>17, <2>2, <3>1, <3>2 DEF RequestOK
  <2> QED  BY <1>17, <2>1, <2>2
<1>21. \A p \in Staff \ {q} : req[p].pc = "commit" => snap'[req[p].snap] = snap[req[p].snap]
  <2> SUFFICES ASSUME NEW p \in Staff \ {q}, req[p].pc = "commit"
               PROVE  snap'[req[p].snap] = snap[req[p].snap]
    OBVIOUS
  <2>1. req[p].snap \in SnapIds /\ req[p].snap # n
    BY <1>0, <1>1, <1>3 DEF RequestsInv, RequestOK, CommitsApart
  <2> QED  BY <1>8, <2>1
<1>22. \A p \in Staff : req[p].pc \in {"merge", "aggRead", "aggWrite"} =>
         /\ req[p].snap \in SnapIds /\ req[p].snap # n
         /\ rows'[req[p].snap] = rows[req[p].snap]
  BY <1>0, <1>9, <1>12 DEF RequestsInv, RequestOK, Committed
<1>23. RequestsInv'
  <2>1. \A p \in Staff \ {q} : req[p].pc = "merge" =>
          \A w \in rows[req[p].snap] :
            w.id[1] # NoLine => \E v \in rows'[req[p].snap] : v.id = w.id
    BY <1>22
  <2>2. \A p \in Staff \ {q} : req[p].pc = "aggWrite" =>
          \/ rough'[req[p].snap]
          \/ /\ ~rough[req[p].snap]
             /\ DeriveAggregateStatus(rows'[req[p].snap]) = DeriveAggregateStatus(rows[req[p].snap])
    BY <1>3, <1>22
  <2> QED  BY <1>0, <1>17, <1>19, <1>20, <1>21, <2>1, <2>2, RequestsKept DEF TypeOK
<1>24. req'[q] = r /\ \A p \in Staff \ {q} : req'[p] = req[p]
  BY <1>0, <1>17 DEF TypeOK
<1>25. CommitsApart'
  BY <1>0, <1>17, <1>24 DEF CommitsApart
<1>26. SnapshotsInv'
  <2> SUFFICES ASSUME NEW m \in SnapIds PROVE SnapshotOK(m)'
    BY DEF SnapshotsInv
  <2>1. SnapshotOK(m)
    BY <1>0 DEF SnapshotsInv
  <2>2. /\ snap'[m].trigger = snap[m].trigger /\ snap'[m].read = snap[m].read
        /\ snap'[m].saw = snap[m].saw
    BY <1>7, <1>8
  <2>3. \A k \in Begun : snap'[k].trigger = snap[k].trigger
    BY <1>7, <1>8 DEF Begun
  <2>4. m \notin Committed' => alerts'[m] = {} /\ rows'[m] = {}
    <3> SUFFICES ASSUME m \notin Committed' PROVE alerts'[m] = {} /\ rows'[m] = {}
      OBVIOUS
    <3>1. m # n /\ m \notin Committed /\ m \notin snap[n].saw
      BY <1>0, <1>4, <1>9 DEF SnapshotsInv, SnapshotOK
    <3> QED  BY <1>12, <1>15, <2>1, <3>1 DEF SnapshotOK
  <2> QED  BY <1>3, <1>9, <2>1, <2>2, <2>3, <2>4 DEF SnapshotOK
<1>27. RowsInv'
  BY <1>0, <1>11, <1>12 DEF RowsInv, RowOK
<1>28. ConfirmedInv'
  <2>1. \A d \in Docs : Reconciled(d) => Reconciled(d)'
    <3>1. \A k \in Committed : k \in Committed' /\ snap'[k] = snap[k]
      BY <1>8, <1>9 DEF Committed
    <3> QED  BY <3>1 DEF Reconciled
  <2>2. \A d \in Docs : Reconciled(d)' \/ ~Reconciled(d)
    BY <2>1
  <2> QED  BY <1>0, <1>3, <2>2 DEF ConfirmedInv
<1>29. OpenAlertsAreCurrent'
  <2> SUFFICES ASSUME NEW m \in SnapIds, NEW a \in alerts'[m], a.status = "OPEN",
                      NEW k \in Committed'
               PROVE  m \notin snap'[k].saw
    BY DEF OpenAlertsAreCurrent
  <2>1. k \in SnapIds /\ snap'[k].saw = snap[k].saw
    BY <1>7, <1>8, <1>9 DEF Committed
  <2>2. CASE m = n
    BY <1>0, <1>9, <2>1, <2>2 DEF SnapshotsInv, SnapshotOK
  <2>3. CASE m # n
    <3>1. m \notin snap[n].saw /\ a \in alerts[m]
      BY <1>0, <1>15, <2>3, SupersedeTyped
    <3> QED  BY <1>0, <1>9, <2>1, <3>1 DEF OpenAlertsAreCurrent
  <2> QED  BY <2>2, <2>3
<1>30. StatusMatchesRows'
  <2> SUFFICES ASSUME NEW m \in Committed'
               PROVE  \/ rough[m]
                      \/ \E p \in Staff : req'[p].pc \in {"aggRead", "aggWrite"} /\ req'[p].snap = m
                      \/ snap'[m].status \in {"RESOLVED", DeriveAggregateStatus(rows'[m])}
    BY <1>3 DEF StatusMatchesRows
  <2>1. CASE m = n
    <3>1. \A w \in read : StoredRow(w).match = w.match /\ StoredRow(w).missing = w.missing
      BY DEF StoredRow
    <3>2. DeriveAggregateStatus(stored) = DeriveAggregateStatus(read)
      <4>1. \A w \in stored : \E v \in read : v.match = w.match /\ v.missing = w.missing
        BY <1>10, <3>1
      <4>2. \A v \in read : \E w \in stored : v.match = w.match /\ v.missing = w.missing
        BY <1>10, <3>1
      <4> QED  BY <4>1, <4>2, DeriveSame
    <3> QED  BY <1>4, <1>7, <1>8, <1>12, <2>1, <3>2
  <2>2. CASE m # n
    <3>1. m \in Committed /\ m \in SnapIds /\ snap'[m] = snap[m] /\ rows'[m] = rows[m]
      BY <1>8, <1>9, <1>12, <2>2 DEF Committed
    <3>2. ASSUME NEW p \in Staff, req[p].pc \in {"aggRead", "aggWrite"}, req[p].snap = m
          PROVE  req'[p].pc \in {"aggRead", "aggWrite"} /\ req'[p].snap = m
      BY <1>3, <1>24, <3>2
    <3> QED  BY <1>0, <3>1, <3>2 DEF StatusMatchesRows
  <2> QED  BY <2>1, <2>2
<1> QED  BY <1>18, <1>23, <1>25, <1>26, <1>27, <1>28, <1>29, <1>30 DEF IInv

-----------------------------------------------------------------------------
(* Commits of merges, aggregates, the stamp and the death of a request *)

AfterMerge(n, new, d) ==
  {w \in rows[n] : w.id # <<NoLine, d>> /\ w.id # new.id}
  \cup {MergedRow(new, old) : old \in RowOf(n, new.id)}

\* A merge deletes the receipt row and keeps the PO rows of its pair, with the receipt.
LEMMA MergeShape ==
  ASSUME IInv, ReconConstants, NEW q \in Staff, MergeCommit(q),
         NEW n, n = req[q].snap
  PROVE  \E new \in Row, d \in OcrLines :
           /\ req[q].pair = {new} /\ req[q].gone = {<<NoLine, d>>}
           /\ new.rc = d /\ new.id[1] # NoLine /\ new.match \in PairedMatch
           /\ \E w \in rows[n] : w.id = new.id
           /\ rows' = [rows EXCEPT ![n] = AfterMerge(n, new, d)]
<1>1. TypeOK /\ RequestOK(req[q])
  BY DEF IInv, RequestsInv
<1>2. PICK new \in Row, d \in OcrLines :
        /\ req[q].pair = {new} /\ req[q].gone = {<<NoLine, d>>}
        /\ new.rc = d /\ new.id[1] # NoLine /\ new.match \in PairedMatch
        /\ \E w \in rows[n] : w.id = new.id
  BY <1>1 DEF RequestOK, MergeReady, MergeCommit
<1>3. rows' = [rows EXCEPT ![n] =
           {w \in rows[n] : w.id \notin req[q].gone /\ \A x \in req[q].pair : w.id # x.id}
           \cup UNION {{MergedRow(x, old) : old \in RowOf(n, x.id)} : x \in req[q].pair}]
  BY <1>1 DEF RequestOK, MergeCommit, TypeOK, Committed
<1>4. PICK kept : kept = {w \in rows[n] : w.id # <<NoLine, d>> /\ w.id # new.id}
  OBVIOUS
<1>5. PICK merged : merged = {MergedRow(new, old) : old \in RowOf(n, new.id)}
  OBVIOUS
<1>6. {w \in rows[n] : w.id \notin req[q].gone /\ \A x \in req[q].pair : w.id # x.id} = kept
  BY <1>2, <1>4
<1>7. UNION {{MergedRow(x, old) : old \in RowOf(n, x.id)} : x \in req[q].pair} = merged
  BY <1>2, <1>5
<1>8. rows' = [rows EXCEPT ![n] = kept \cup merged]
  BY <1>3, <1>6, <1>7
<1>9. AfterMerge(n, new, d) = kept \cup merged
  BY <1>4, <1>5 DEF AfterMerge
<1>10. rows' = [rows EXCEPT ![n] = AfterMerge(n, new, d)]
  BY <1>8, <1>9
<1> QED  BY <1>2, <1>10

\* The rows of a snapshot after a merge of it.
LEMMA MergedRows ==
  ASSUME IInv, ReconConstants, NEW q \in Staff, MergeCommit(q),
         NEW n, n = req[q].snap
  PROVE  /\ n \in Committed /\ n \in SnapIds
         /\ rows' \in [SnapIds -> SUBSET Row]
         /\ \A m \in SnapIds \ {n} : rows'[m] = rows[m]
         /\ \A v \in rows'[n] : RowOK(v)
         /\ \A w \in rows[n] : w.id[1] # NoLine => \E v \in rows'[n] : v.id = w.id
         /\ \A w \in rows[n] : \/ w \in rows'[n]
                               \/ \E v \in rows'[n] : v.rc = w.rc
                               \/ w.id \in {new.id : new \in req[q].pair}
<1>1. TypeOK /\ RowsInv /\ RequestOK(req[q])
  BY DEF IInv, RequestsInv
<1>2. n \in Committed /\ n \in SnapIds
  BY <1>1 DEF RequestOK, MergeCommit, Committed
<1>3. PICK new \in Row, d \in OcrLines :
        /\ req[q].pair = {new} /\ req[q].gone = {<<NoLine, d>>}
        /\ new.rc = d /\ new.id[1] # NoLine /\ new.match \in PairedMatch
        /\ \E w \in rows[n] : w.id = new.id
        /\ rows' = [rows EXCEPT ![n] = AfterMerge(n, new, d)]
  BY MergeShape
<1>4. PICK kept : kept = {w \in rows[n] : w.id # <<NoLine, d>> /\ w.id # new.id}
  OBVIOUS
<1>5. PICK merged : merged = {MergedRow(new, old) : old \in RowOf(n, new.id)}
  OBVIOUS
<1>6. rows' = [rows EXCEPT ![n] = kept \cup merged]
  BY <1>3, <1>4, <1>5 DEF AfterMerge
<1>7. \A m \in SnapIds : rows'[m] = IF m = n THEN kept \cup merged ELSE rows[m]
  BY <1>1, <1>6 DEF TypeOK
<1>8. ASSUME NEW v \in merged
      PROVE  v \in Row /\ v.id = new.id /\ v.rc = d /\ v.match = new.match
  <2>1. PICK old \in RowOf(n, new.id) : v = MergedRow(new, old)
    BY <1>5
  <2>2. old \in Row
    BY <1>1, <1>2, <2>1 DEF RowOf, TypeOK
  <2> QED  BY <1>3, <2>1, <2>2 DEF MergedRow, Row
<1>9. merged # {}
  BY <1>3, <1>5 DEF RowOf
<1>10. rows' \in [SnapIds -> SUBSET Row]
  <2>1. kept \cup merged \subseteq Row
    BY <1>1, <1>2, <1>4, <1>8 DEF TypeOK
  <2> QED  BY <1>1, <1>6, <2>1 DEF TypeOK
<1>11. \A v \in rows'[n] : RowOK(v)
  <2>1. \A v \in kept : RowOK(v)
    BY <1>1, <1>2, <1>4 DEF RowsInv
  <2>2. \A v \in merged : RowOK(v)
    BY <1>3, <1>8 DEF RowOK, PairedMatch, MergeablePo, MergeableReceipt
  <2> QED  BY <1>2, <1>7, <2>1, <2>2
<1>12. ASSUME NEW w \in rows[n], w.id[1] # NoLine PROVE \E v \in rows'[n] : v.id = w.id
  <2>1. w.id # <<NoLine, d>>
    BY <1>12
  <2>2. w \in kept \/ w.id = new.id
    BY <1>4, <2>1
  <2> QED  BY <1>2, <1>7, <1>8, <1>9, <2>2
<1>13. ASSUME NEW w \in rows[n], w \notin rows'[n], w.id \notin {x.id : x \in req[q].pair}
       PROVE  \E v \in rows'[n] : v.rc = w.rc
  <2>1. w \notin kept
    BY <1>2, <1>7, <1>13
  <2>2. w.id # new.id
    BY <1>3, <1>13
  <2>3. w.id = <<NoLine, d>>
    BY <1>4, <2>1, <2>2
  <2>4. w.rc = d
    BY <1>1, <1>2, <2>3 DEF RowsInv, RowOK
  <2> QED  BY <1>2, <1>7, <1>8, <1>9, <2>4
<1> QED  BY <1>2, <1>7, <1>10, <1>11, <1>12, <1>13

\* A merge leaves its snapshot to be aggregated, and notes the aggregates under way.
LEMMA MergeCommitIInv ==
  ASSUME IInv, ReconConstants, NEW q \in Staff, MergeCommit(q) PROVE IInv'
<1>0. /\ TypeOK /\ RequestsInv /\ CommitsApart /\ SnapshotsInv /\ RowsInv /\ ConfirmedInv
      /\ OpenAlertsAreCurrent /\ StatusMatchesRows
  BY DEF IInv
<1>1. PICK n : n = req[q].snap
  OBVIOUS
<1>2. /\ n \in Committed /\ n \in SnapIds
      /\ rows' \in [SnapIds -> SUBSET Row]
      /\ \A m \in SnapIds \ {n} : rows'[m] = rows[m]
      /\ \A v \in rows'[n] : RowOK(v)
      /\ \A w \in rows[n] : w.id[1] # NoLine => \E v \in rows'[n] : v.id = w.id
  BY <1>1, MergedRows
<1>3. PICK r : r = [req[q] EXCEPT !.pc = "aggRead"]
  OBVIOUS
<1>4. /\ req' = [req EXCEPT ![q] = r]
      /\ r \in Request /\ r.pc = "aggRead" /\ r.op = req[q].op /\ SameApproval(r, req[q])
      /\ r.snap = n
  BY <1>0, <1>1, <1>3, GoesOn DEF MergeCommit
<1>5. /\ UNCHANGED <<po, doc, pricedAt, snap, alerts, incidents>>
      /\ rough' = [rough EXCEPT ![n] = rough[n] \/ AggPending(n)]
      /\ req[q].pc = "merge"
  BY <1>0, <1>1, <1>2 DEF MergeCommit, TypeOK
<1>6. \A m \in SnapIds : rough'[m] = IF m = n THEN rough[n] \/ AggPending(n) ELSE rough[m]
  BY <1>0, <1>5 DEF TypeOK
<1>7. rough' \in [SnapIds -> BOOLEAN]
  <2>1. (rough[n] \/ AggPending(n)) \in BOOLEAN
    OBVIOUS
  <2> QED  BY <1>0, <1>5, <2>1 DEF TypeOK
<1>8. TypeOK'
  <2>1. req' \in [Staff -> Request]
    BY <1>0, <1>4 DEF TypeOK
  <2> QED  BY <1>0, <1>2, <1>5, <1>7, <2>1 DEF TypeOK
<1>9. Committed' = Committed /\ Begun' = Begun
  BY <1>5 DEF Committed, Begun
<1>10. Grows
  BY <1>5, <1>9 DEF Grows
<1>11. RequestOK(r)'
  <2>1. RequestOK(req[q])
    BY <1>0 DEF RequestsInv
  <2> QED  BY <1>2, <1>4, <1>5, <1>9, <2>1 DEF RequestOK, SameApproval
<1>12. \A p \in Staff : req[p].pc \in {"merge", "aggWrite"} => req[p].snap \in SnapIds
  BY <1>0 DEF RequestsInv, RequestOK, Committed
<1>13. \A p \in Staff \ {q} : req[p].pc = "merge" =>
         \A w \in rows[req[p].snap] :
           w.id[1] # NoLine => \E v \in rows'[req[p].snap] : v.id = w.id
  BY <1>2, <1>12
<1>14. \A p \in Staff \ {q} : req[p].pc = "aggWrite" =>
         \/ rough'[req[p].snap]
         \/ /\ ~rough[req[p].snap]
            /\ DeriveAggregateStatus(rows'[req[p].snap]) = DeriveAggregateStatus(rows[req[p].snap])
  <2> SUFFICES ASSUME NEW p \in Staff, req[p].pc = "aggWrite", ~rough'[req[p].snap]
               PROVE  ~rough[req[p].snap] /\ rows'[req[p].snap] = rows[req[p].snap]
    OBVIOUS
  <2>1. req[p].snap # n
    BY <1>6, <1>2 DEF AggPending
  <2> QED  BY <1>2, <1>6, <1>12, <2>1
<1>15. RequestsInv'
  BY <1>0, <1>4, <1>5, <1>10, <1>11, <1>13, <1>14, RequestsKept DEF TypeOK
<1>16. req'[q] = r /\ \A p \in Staff \ {q} : req'[p] = req[p]
  BY <1>0, <1>4 DEF TypeOK
<1>17. CommitsApart'
  BY <1>0, <1>4, <1>16 DEF CommitsApart
<1>18. SnapshotsInv'
  <2> SUFFICES ASSUME NEW m \in SnapIds PROVE SnapshotOK(m)'
    BY DEF SnapshotsInv
  <2>1. SnapshotOK(m)
    BY <1>0 DEF SnapshotsInv
  <2>2. m \notin Committed => rows'[m] = rows[m]
    BY <1>2
  <2> QED  BY <1>5, <1>9, <2>1, <2>2 DEF SnapshotOK
<1>19. RowsInv'
  BY <1>0, <1>2 DEF RowsInv, RowOK
<1>20. ConfirmedInv' /\ OpenAlertsAreCurrent'
  BY <1>0, <1>5, <1>9 DEF ConfirmedInv, Reconciled, OpenAlertsAreCurrent
<1>21. StatusMatchesRows'
  <2> SUFFICES ASSUME NEW m \in Committed
               PROVE  \/ rough'[m]
                      \/ \E p \in Staff : req'[p].pc \in {"aggRead", "aggWrite"} /\ req'[p].snap = m
                      \/ snap[m].status \in {"RESOLVED", DeriveAggregateStatus(rows'[m])}
    BY <1>5, <1>9 DEF StatusMatchesRows
  <2>1. CASE m = n
    BY <1>4, <1>16, <2>1
  <2>2. CASE m # n
    <3>1. rows'[m] = rows[m] /\ rough'[m] = rough[m]
      BY <1>2, <1>6, <2>2 DEF Committed
    <3>2. ASSUME NEW p \in Staff, req[p].pc \in {"aggRead", "aggWrite"}, req[p].snap = m
          PROVE  req'[p].pc \in {"aggRead", "aggWrite"} /\ req'[p].snap = m
      BY <1>5, <1>16, <3>2
    <3> QED  BY <1>0, <3>1, <3>2 DEF StatusMatchesRows
  <2> QED  BY <2>1, <2>2
<1> QED  BY <1>8, <1>15, <1>17, <1>18, <1>19, <1>20, <1>21 DEF IInv

\* A step that writes the status of committed snapshots and nothing else of them.
LEMMA StatusWrites ==
  ASSUME IInv, ReconConstants,
         snap' \in [SnapIds -> [state : {"none", "tx", "committed"}, trigger : SUBSET OcrLines,
                                status : Statuses, read : SUBSET OcrLines, saw : SUBSET SnapIds]],
         \A n \in SnapIds : /\ n \notin Committed => snap'[n] = snap[n]
                            /\ snap'[n].state = snap[n].state
                            /\ snap'[n].trigger = snap[n].trigger
                            /\ snap'[n].read = snap[n].read /\ snap'[n].saw = snap[n].saw,
         UNCHANGED <<doc, pricedAt, rows, alerts, rough>>,
         po' \in PurchaseOrder, po'.deleted = po.deleted, incidents' \in 0..MaxIncidents
  PROVE  /\ req' \in [Staff -> Request] => TypeOK'
         /\ Grows /\ Committed' = Committed
         /\ \A p \in Staff : req[p].pc = "commit" => snap'[req[p].snap] = snap[req[p].snap]
         /\ SnapshotsInv' /\ RowsInv' /\ ConfirmedInv' /\ OpenAlertsAreCurrent'
<1>0. /\ TypeOK /\ RequestsInv /\ CommitsApart /\ SnapshotsInv /\ RowsInv /\ ConfirmedInv
      /\ OpenAlertsAreCurrent /\ StatusMatchesRows
  BY DEF IInv
<1>1. req' \in [Staff -> Request] => TypeOK'
  BY <1>0 DEF TypeOK, PurchaseOrder
<1>2. Committed' = Committed /\ Begun' = Begun
  BY DEF Committed, Begun
<1>3. Grows
  BY <1>2 DEF Grows, Committed
<1>4. \A p \in Staff : req[p].pc = "commit" => snap'[req[p].snap] = snap[req[p].snap]
  BY <1>0 DEF RequestsInv, RequestOK, Committed
<1>5. SnapshotsInv'
  <2> SUFFICES ASSUME NEW m \in SnapIds PROVE SnapshotOK(m)'
    BY DEF SnapshotsInv
  <2>1. SnapshotOK(m)
    BY <1>0 DEF SnapshotsInv
  <2>2. \A k \in Begun : snap'[k].trigger = snap[k].trigger
    BY DEF Begun
  <2> QED  BY <1>2, <2>1, <2>2 DEF SnapshotOK
<1>6. RowsInv'
  BY <1>0 DEF RowsInv, RowOK
<1>7. ConfirmedInv'
  BY <1>0, <1>2 DEF ConfirmedInv, Reconciled, Committed
<1>8. OpenAlertsAreCurrent'
  BY <1>0, <1>2 DEF OpenAlertsAreCurrent, Committed
<1> QED  BY <1>1, <1>2, <1>3, <1>4, <1>5, <1>6, <1>7, <1>8

\* The aggregate is that of the rows, or the merges that overtook it are noted.
LEMMA AggregateWriteIInv ==
  ASSUME IInv, ReconConstants, NEW q \in Staff, AggregateWrite(q) PROVE IInv'
<1>0. TypeOK /\ RequestsInv /\ CommitsApart /\ StatusMatchesRows
  BY DEF IInv
<1>1. PICK n : n = req[q].snap
  OBVIOUS
<1>2. /\ n \in Committed /\ n \in SnapIds /\ req[q].pc = "aggWrite" /\ req[q].status \in Statuses
      /\ rough[n] \/ req[q].status = DeriveAggregateStatus(rows[n])
  BY <1>0, <1>1 DEF TypeOK, Request, RequestsInv, RequestOK, AggregateWrite, Committed
<1>3. snap' = [snap EXCEPT ![n].status = req[q].status]
  BY <1>1 DEF AggregateWrite
<1>4. PICK s : s = [snap[n] EXCEPT !.status = req[q].status]
  OBVIOUS
<1>5. snap[n] \in [state : {"none", "tx", "committed"}, trigger : SUBSET OcrLines,
                   status : Statuses, read : SUBSET OcrLines, saw : SUBSET SnapIds]
  BY <1>0, <1>2 DEF TypeOK
<1>6. /\ s \in [state : {"none", "tx", "committed"}, trigger : SUBSET OcrLines,
                status : Statuses, read : SUBSET OcrLines, saw : SUBSET SnapIds]
      /\ s.status = req[q].status /\ s.state = snap[n].state /\ s.trigger = snap[n].trigger
      /\ s.read = snap[n].read /\ s.saw = snap[n].saw
  BY <1>2, <1>4, <1>5
<1>7. snap' = [snap EXCEPT ![n] = s]
  BY <1>0, <1>2, <1>3, <1>4 DEF TypeOK
<1>8. \A m \in SnapIds : snap'[m] = IF m = n THEN s ELSE snap[m]
  BY <1>0, <1>7 DEF TypeOK
<1>9. snap' \in [SnapIds -> [state : {"none", "tx", "committed"}, trigger : SUBSET OcrLines,
                             status : Statuses, read : SUBSET OcrLines, saw : SUBSET SnapIds]]
  BY <1>0, <1>6, <1>7 DEF TypeOK
<1>10. \A m \in SnapIds : /\ m \notin Committed => snap'[m] = snap[m]
                          /\ snap'[m].state = snap[m].state
                          /\ snap'[m].trigger = snap[m].trigger
                          /\ snap'[m].read = snap[m].read /\ snap'[m].saw = snap[m].saw
  BY <1>2, <1>6, <1>8
<1>11. /\ UNCHANGED <<po, doc, pricedAt, rows, alerts, rough, incidents>>
       /\ po' \in PurchaseOrder /\ incidents' \in 0..MaxIncidents
  BY <1>0 DEF AggregateWrite, TypeOK, PurchaseOrder
<1>12. /\ req' \in [Staff -> Request] => TypeOK'
       /\ Grows /\ Committed' = Committed
       /\ \A p \in Staff : req[p].pc = "commit" => snap'[req[p].snap] = snap[req[p].snap]
       /\ SnapshotsInv' /\ RowsInv' /\ ConfirmedInv' /\ OpenAlertsAreCurrent'
  BY <1>9, <1>10, <1>11, StatusWrites
<1>13. PICK r : r = Idle
  OBVIOUS
<1>14. r \in Request /\ r.pc = "idle" /\ req' = [req EXCEPT ![q] = r]
  BY <1>13, IdleTyped DEF AggregateWrite, Done
<1>15. RequestOK(r)'
  BY <1>13, IdleOK DEF RequestOK, MergeReady, Idle
<1>16. RequestsInv'
  <2>1. req \in [Staff -> Request] /\ rows' = rows /\ rough' = rough
    BY <1>0, <1>11 DEF TypeOK
  <2>2. \A p \in Staff \ {q} : req[p].pc = "merge" =>
          \A w \in rows[req[p].snap] : \E v \in rows'[req[p].snap] : v.id = w.id
    BY <2>1
  <2>3. \A p \in Staff : req[p].pc = "aggWrite" =>
          \/ rough'[req[p].snap]
          \/ /\ ~rough[req[p].snap]
             /\ DeriveAggregateStatus(rows'[req[p].snap]) = DeriveAggregateStatus(rows[req[p].snap])
    BY <1>0, <2>1 DEF RequestsInv, RequestOK
  <2> QED  BY <1>0, <1>12, <1>14, <1>15, <2>1, <2>2, <2>3, RequestsKept
<1>17. req'[q] = r /\ \A p \in Staff \ {q} : req'[p] = req[p]
  BY <1>0, <1>14 DEF TypeOK
<1>18. CommitsApart'
  BY <1>0, <1>14, <1>17 DEF CommitsApart
<1>19. StatusMatchesRows'
  <2> SUFFICES ASSUME NEW m \in Committed
               PROVE  \/ rough[m]
                      \/ \E p \in Staff : req'[p].pc \in {"aggRead", "aggWrite"} /\ req'[p].snap = m
                      \/ snap'[m].status \in {"RESOLVED", DeriveAggregateStatus(rows[m])}
    BY <1>11, <1>12 DEF StatusMatchesRows
  <2>1. CASE m = n
    BY <1>2, <1>6, <1>8, <2>1
  <2>2. CASE m # n
    <3>1. snap'[m] = snap[m]
      BY <1>8, <2>2 DEF Committed
    <3>2. ASSUME NEW p \in Staff, req[p].pc \in {"aggRead", "aggWrite"}, req[p].snap = m
          PROVE  req'[p].pc \in {"aggRead", "aggWrite"} /\ req'[p].snap = m
      BY <1>1, <1>17, <2>2, <3>2
    <3> QED  BY <1>0, <3>1, <3>2 DEF StatusMatchesRows
  <2> QED  BY <2>1, <2>2
<1>20. req' \in [Staff -> Request]
  BY <1>0, <1>14 DEF TypeOK
<1> QED  BY <1>12, <1>16, <1>18, <1>19, <1>20 DEF IInv

\* The stamp closes the newest snapshot.
LEMMA MarkReconciledIInv ==
  ASSUME IInv, ReconConstants, MarkReconciled PROVE IInv'
<1>0. TypeOK /\ RequestsInv /\ CommitsApart /\ StatusMatchesRows
  BY DEF IInv
<1>1. /\ UNCHANGED <<doc, pricedAt, rows, alerts, req, rough>>
      /\ po' \in PurchaseOrder /\ po'.deleted = po.deleted /\ incidents' \in 0..MaxIncidents
  BY <1>0, IncidentTyped DEF MarkReconciled, TypeOK, PurchaseOrder
<1>2. \A n \in SnapIds : \/ snap'[n] = snap[n]
                         \/ n \in Committed /\ snap'[n] = [snap[n] EXCEPT !.status = "RESOLVED"]
  BY DEF MarkReconciled
<1>3. \A n \in SnapIds : snap[n] \in [state : {"none", "tx", "committed"}, trigger : SUBSET OcrLines,
                                      status : Statuses, read : SUBSET OcrLines, saw : SUBSET SnapIds]
  BY <1>0 DEF TypeOK
<1>4. ASSUME NEW n \in SnapIds
      PROVE  /\ n \notin Committed => snap'[n] = snap[n]
             /\ snap'[n].state = snap[n].state
             /\ snap'[n].trigger = snap[n].trigger
             /\ snap'[n].read = snap[n].read /\ snap'[n].saw = snap[n].saw
             /\ snap'[n].status \in {"RESOLVED", snap[n].status}
             /\ snap'[n] \in [state : {"none", "tx", "committed"}, trigger : SUBSET OcrLines,
                              status : Statuses, read : SUBSET OcrLines, saw : SUBSET SnapIds]
  <2>1. CASE snap'[n] = snap[n]
    BY <1>3, <2>1
  <2>2. CASE n \in Committed /\ snap'[n] = [snap[n] EXCEPT !.status = "RESOLVED"]
    <3>1. PICK s : s = snap[n]
      OBVIOUS
    <3>2. s \in [state : {"none", "tx", "committed"}, trigger : SUBSET OcrLines,
                 status : Statuses, read : SUBSET OcrLines, saw : SUBSET SnapIds]
      BY <1>3, <3>1
    <3>3. snap'[n] = [s EXCEPT !.status = "RESOLVED"]
      BY <2>2, <3>1
    <3>4. "RESOLVED" \in Statuses
      BY DEF Statuses
    <3> QED  BY <2>2, <3>1, <3>2, <3>3, <3>4
  <2> QED  BY <1>2, <2>1, <2>2
<1>5. snap' \in [SnapIds -> [state : {"none", "tx", "committed"}, trigger : SUBSET OcrLines,
                             status : Statuses, read : SUBSET OcrLines, saw : SUBSET SnapIds]]
  <2>1. \A n \in SnapIds : snap'[n] \in [state : {"none", "tx", "committed"}, trigger : SUBSET OcrLines,
                                         status : Statuses, read : SUBSET OcrLines, saw : SUBSET SnapIds]
    BY <1>4
  <2>2. snap' = [n \in SnapIds |-> snap'[n]]
    BY DEF MarkReconciled
  <2> QED  BY <2>1, <2>2
<1>6. /\ req' \in [Staff -> Request] => TypeOK'
      /\ Grows /\ Committed' = Committed
      /\ \A p \in Staff : req[p].pc = "commit" => snap'[req[p].snap] = snap[req[p].snap]
      /\ SnapshotsInv' /\ RowsInv' /\ ConfirmedInv' /\ OpenAlertsAreCurrent'
  BY <1>1, <1>4, <1>5, StatusWrites
<1>7. RequestsInv'
  BY <1>0, <1>1, <1>6, NobodysStepKept
<1>8. CommitsApart'
  BY <1>0, <1>1 DEF CommitsApart
<1>9. StatusMatchesRows'
  BY <1>0, <1>1, <1>4, <1>6 DEF StatusMatchesRows, Committed
<1> QED  BY <1>0, <1>1, <1>6, <1>7, <1>8, <1>9 DEF IInv, TypeOK

\* A request that dies leaves nothing of its transaction, and notes an aggregate cut short.
LEMMA RequestDiesIInv ==
  ASSUME IInv, ReconConstants, NEW q \in Staff, RequestDies(q) PROVE IInv'
<1>0. /\ TypeOK /\ RequestsInv /\ CommitsApart /\ SnapshotsInv /\ RowsInv /\ ConfirmedInv
      /\ OpenAlertsAreCurrent /\ StatusMatchesRows
  BY DEF IInv
<1>1. PICK n : n = req[q].snap
  OBVIOUS
<1>2. incidents' \in 0..MaxIncidents
  BY <1>0, IncidentTyped DEF RequestDies, TypeOK
<1>3. UNCHANGED <<po, doc, pricedAt, rows, alerts>> /\ Done(q)
  BY DEF RequestDies
<1>4. CASE req[q].pc \notin {"commit", "aggRead", "aggWrite"}
  BY <1>2, <1>3, <1>4, GivesUpIInv DEF RequestDies
<1>5. PICK r : r = Idle
  OBVIOUS
<1>6. r \in Request /\ r.pc = "idle" /\ req' = [req EXCEPT ![q] = r]
  BY <1>3, <1>5, IdleTyped DEF Done
<1>7. RequestOK(r)'
  BY <1>5, IdleOK DEF RequestOK, MergeReady, Idle
<1>8. req' \in [Staff -> Request]
  BY <1>0, <1>6 DEF TypeOK
<1>9. req'[q] = r /\ \A p \in Staff \ {q} : req'[p] = req[p]
  BY <1>0, <1>6 DEF TypeOK
<1>10. CommitsApart'
  BY <1>0, <1>6, <1>9 DEF CommitsApart
<1>11. CASE req[q].pc \in {"aggRead", "aggWrite"}
  <2>1. snap' = snap /\ rough' = [rough EXCEPT ![n] = TRUE]
    BY <1>1, <1>11 DEF RequestDies
  <2>2. n \in Committed /\ n \in SnapIds
    BY <1>0, <1>1, <1>11 DEF RequestsInv, RequestOK, Committed
  <2>3. \A m \in SnapIds : rough'[m] = (m = n \/ rough[m])
    BY <1>0, <2>1 DEF TypeOK
  <2>4. TypeOK'
    BY <1>0, <1>2, <1>3, <1>8, <2>1 DEF TypeOK
  <2>5. Committed' = Committed /\ Begun' = Begun
    BY <2>1 DEF Committed, Begun
  <2>6. Grows
    BY <1>3, <2>1, <2>5 DEF Grows
  <2>7. \A p \in Staff \ {q} : req[p].pc = "aggWrite" =>
          \/ rough'[req[p].snap]
          \/ /\ ~rough[req[p].snap]
             /\ DeriveAggregateStatus(rows'[req[p].snap]) = DeriveAggregateStatus(rows[req[p].snap])
    <3>1. \A p \in Staff : req[p].pc = "aggWrite" => req[p].snap \in SnapIds
      BY <1>0 DEF RequestsInv, RequestOK, Committed
    <3> QED  BY <1>3, <2>3, <3>1
  <2>8. RequestsInv'
    BY <1>0, <1>3, <1>6, <1>7, <2>1, <2>6, <2>7, RequestsKept DEF TypeOK
  <2>9. SnapshotsInv' /\ RowsInv' /\ ConfirmedInv' /\ OpenAlertsAreCurrent'
    BY <1>0, <1>3, <2>1, <2>5
       DEF SnapshotsInv, SnapshotOK, RowsInv, RowOK, ConfirmedInv, Reconciled, OpenAlertsAreCurrent
  <2>10. StatusMatchesRows'
    <3> SUFFICES ASSUME NEW m \in Committed, ~rough'[m]
                 PROVE  \/ \E p \in Staff : req'[p].pc \in {"aggRead", "aggWrite"} /\ req'[p].snap = m
                        \/ snap[m].status \in {"RESOLVED", DeriveAggregateStatus(rows[m])}
      BY <1>3, <2>1, <2>5 DEF StatusMatchesRows
    <3>1. ~rough[m] /\ m # n
      BY <2>3 DEF Committed
    <3>2. ASSUME NEW p \in Staff, req[p].pc \in {"aggRead", "aggWrite"}, req[p].snap = m
          PROVE  req'[p].pc \in {"aggRead", "aggWrite"} /\ req'[p].snap = m
      BY <1>1, <1>9, <3>1, <3>2
    <3> QED  BY <1>0, <3>1, <3>2 DEF StatusMatchesRows
  <2> QED  BY <1>10, <2>4, <2>8, <2>9, <2>10 DEF IInv
<1>12. CASE req[q].pc = "commit"
  <2>1. rough' = rough /\ snap' = [snap EXCEPT ![n] = NoSnap]
    BY <1>1, <1>12 DEF RequestDies
  <2>2. n \in SnapIds /\ snap[n].state = "tx"
    BY <1>0, <1>1, <1>12 DEF RequestsInv, RequestOK
  <2>3. NoSnap \in [state : {"none", "tx", "committed"}, trigger : SUBSET OcrLines,
                    status : Statuses, read : SUBSET OcrLines, saw : SUBSET SnapIds]
    BY DEF NoSnap, Statuses
  <2>4. TypeOK'
    <3>1. snap' \in [SnapIds -> [state : {"none", "tx", "committed"}, trigger : SUBSET OcrLines,
                                 status : Statuses, read : SUBSET OcrLines, saw : SUBSET SnapIds]]
      BY <1>0, <2>1, <2>3 DEF TypeOK
    <3> QED  BY <1>0, <1>2, <1>3, <1>8, <2>1, <3>1 DEF TypeOK
  <2>5. \A m \in SnapIds : snap'[m] = IF m = n THEN NoSnap ELSE snap[m]
    BY <1>0, <2>1 DEF TypeOK
  <2>6. /\ n \notin Committed /\ Committed' = Committed /\ Begun' = Begun \ {n}
        /\ \A m \in Committed : snap'[m] = snap[m]
    BY <2>2, <2>5 DEF Committed, Begun, NoSnap
  <2>7. Grows
    BY <1>3, <2>6 DEF Grows
  <2>8. \A p \in Staff \ {q} : req[p].pc = "commit" => snap'[req[p].snap] = snap[req[p].snap]
    <3> SUFFICES ASSUME NEW p \in Staff \ {q}, req[p].pc = "commit"
                 PROVE  snap'[req[p].snap] = snap[req[p].snap]
      OBVIOUS
    <3>1. req[p].snap \in SnapIds /\ req[p].snap # n
      BY <1>0, <1>1, <1>12 DEF RequestsInv, RequestOK, CommitsApart
    <3> QED  BY <2>5, <3>1
  <2>9. RequestsInv'
    BY <1>0, <1>3, <1>6, <1>7, <2>1, <2>7, <2>8, RequestsKept DEF TypeOK
  <2>10. SnapshotsInv'
    <3> SUFFICES ASSUME NEW m \in SnapIds PROVE SnapshotOK(m)'
      BY DEF SnapshotsInv
    <3>1. SnapshotOK(m)
      BY <1>0 DEF SnapshotsInv
    <3>2. CASE m = n
      BY <1>3, <2>5, <2>6, <3>1, <3>2 DEF SnapshotOK, NoSnap
    <3>3. CASE m # n
      <4>1. snap'[m] = snap[m]
        BY <2>5, <3>3
      <4>2. \A k \in Begun' : k \in Begun /\ snap'[k] = snap[k]
        BY <2>5, <2>6 DEF Begun
      <4> QED  BY <1>3, <2>6, <3>1, <3>3, <4>1, <4>2 DEF SnapshotOK
    <3> QED  BY <3>2, <3>3
  <2>11. RowsInv' /\ OpenAlertsAreCurrent' /\ ConfirmedInv'
    BY <1>0, <1>3, <2>6 DEF RowsInv, RowOK, OpenAlertsAreCurrent, ConfirmedInv, Reconciled
  <2>12. StatusMatchesRows'
    <3> SUFFICES ASSUME NEW m \in Committed
                 PROVE  \/ rough[m]
                        \/ \E p \in Staff : req'[p].pc \in {"aggRead", "aggWrite"} /\ req'[p].snap = m
                        \/ snap[m].status \in {"RESOLVED", DeriveAggregateStatus(rows[m])}
      BY <1>3, <2>1, <2>6 DEF StatusMatchesRows
    <3>1. ASSUME NEW p \in Staff, req[p].pc \in {"aggRead", "aggWrite"}, req[p].snap = m
          PROVE  req'[p].pc \in {"aggRead", "aggWrite"} /\ req'[p].snap = m
      BY <1>9, <1>12, <3>1
    <3> QED  BY <1>0, <3>1 DEF StatusMatchesRows
  <2> QED  BY <1>10, <2>4, <2>9, <2>10, <2>11, <2>12 DEF IInv
<1> QED  BY <1>4, <1>11, <1>12

-----------------------------------------------------------------------------
(* The invariant and the theorems *)

\* A stutter.
LEMMA StutterIInv == IInv /\ UNCHANGED vars => IInv'
<1> SUFFICES ASSUME IInv, UNCHANGED vars PROVE IInv'
  OBVIOUS
<1> USE DEF vars
<1>1. TypeOK' /\ CommitsApart'
  BY DEF IInv, TypeOK, CommitsApart
<1>2. Committed' = Committed /\ Begun' = Begun
  BY DEF Committed, Begun
<1>3. RequestsInv'
  BY <1>2, NobodysStepKept DEF IInv, Grows
<1>4. SnapshotsInv' /\ RowsInv'
  BY <1>2 DEF IInv, SnapshotsInv, SnapshotOK, RowsInv, RowOK
<1>5. ConfirmedInv' /\ OpenAlertsAreCurrent'
  BY <1>2 DEF IInv, ConfirmedInv, Reconciled, OpenAlertsAreCurrent
<1>6. StatusMatchesRows'
  BY <1>2 DEF IInv, StatusMatchesRows
<1> QED  BY <1>1, <1>3, <1>4, <1>5, <1>6 DEF IInv

\* Every step keeps the invariant.
LEMMA NextIInv == IInv /\ [Next]_vars => IInv'
<1> SUFFICES ASSUME IInv, [Next]_vars PROVE IInv'
  OBVIOUS
<1> USE ReconConstants
<1>1. ASSUME NEW q \in Staff, Snapshotting(q) PROVE IInv'
  BY <1>1, SnapshotReadsIInv, SnapshotEndsIInv, SnapshotTxIInv, SnapshotCommitIInv
     DEF Snapshotting
<1>2. ASSUME NEW q \in Staff, Merging(q) PROVE IInv'
  BY <1>2, MergeReadIInv, MergeCommitIInv, MergeRejectedIInv, AggregateReadIInv,
     AggregateWriteIInv DEF Merging
<1>3. ASSUME NEW n \in Committed, NEW w, NEW r \in Verdicts, ResolveLine(n, w, r) PROVE IInv'
  BY <1>3, ResolveLineIInv DEF Committed
<1>4. CASE Next
  BY <1>1, <1>2, <1>3, <1>4, SaveBeginIInv, SaveCommitIInv, ApproveReadIInv, RecordPriceIInv,
     ConfirmIInv, RefreshManualIInv, DismissReadIInv, DismissWriteIInv, RequestDiesIInv,
     DeletionIInv, MarkReconciledIInv DEF Next
<1>5. CASE UNCHANGED vars
  BY <1>5, StutterIInv
<1> QED  BY <1>4, <1>5

\* The inductive invariant of the reconciliation, for any number of requests, documents,
\* saves and snapshots, and whatever is deleted, resolved by hand or cut short.
THEOREM ReconciliationInvariant == Spec => []IInv
<1>1. Init => IInv
  BY InitIInv, ReconConstants
<1> QED  BY <1>1, NextIInv, PTL DEF Spec

\* Type correctness: every row of a snapshot names a line of some save and a line of a document,
\* has a verdict and the other fields of POReconciliationLine, and every alert is about such a row.
THEOREM ReconciliationTypeCorrect == Spec => []TypeOK
<1>1. IInv => TypeOK
  BY DEF IInv
<1> QED  BY <1>1, ReconciliationInvariant, PTL

\* An alert of a snapshot that a committed snapshot saw is not open, however snapshots,
\* saves and dismissals overlap (supersede-open-recon-alerts.ts).
THEOREM SupersededIsNotOpen == Spec => []OpenAlertsAreCurrent
<1>1. IInv => OpenAlertsAreCurrent
  BY DEF IInv
<1> QED  BY <1>1, ReconciliationInvariant, PTL

\* The status the finalize gates read is that of the rows, or the stamp, unless a merge is on
\* its way or merges overlapped or were cut short (aggregate.ts).
THEOREM StatusIsOfRows == Spec => []StatusMatchesRows
<1>1. IInv => StatusMatchesRows
  BY DEF IInv
<1> QED  BY <1>1, ReconciliationInvariant, PTL

\* A confirmed document has a snapshot under the key of an approval of it, no two snapshots
\* bear the same key of an approval, and each has read the lines that its approval had on
\* record (the idempotency key of run.ts and the order of the steps of an approval).
THEOREM ApprovedIsReconciled == Spec => []ConfirmedIsReconciled
<1>1. IInv => ConfirmedIsReconciled
  <2> SUFFICES ASSUME IInv PROVE ConfirmedIsReconciled
    OBVIOUS
  <2>1. \A d \in Docs : doc[d] = "confirmed" /\ ~po.deleted => Reconciled(d)
    BY DEF IInv, ConfirmedInv
  <2>2. ASSUME NEW m \in Committed, NEW n \in Committed, snap[m].trigger # {},
               snap[m].trigger = snap[n].trigger
        PROVE  m = n
    <3>1. m \in Begun /\ n \in Begun /\ m \in SnapIds
      BY DEF Committed, Begun
    <3> QED  BY <2>2, <3>1 DEF IInv, SnapshotsInv, SnapshotOK
  <2>3. ASSUME NEW q \in Staff, req[q].pc = "commit", NEW c \in req[q].named
        PROVE  c \in snap[req[q].snap].read \/ doc[DocOf[c]] = "deleted"
    BY <2>3 DEF IInv, RequestsInv, RequestOK
  <2> QED  BY <2>1, <2>2, <2>3 DEF ConfirmedIsReconciled
<1> QED  BY <1>1, ReconciliationInvariant, PTL

\* Which steps change the alerts and the rows.
LEMMA Writers ==
  ASSUME Next
  PROVE  /\ \/ UNCHANGED alerts
            \/ \E q \in Staff : SnapshotCommit(q) \/ DismissWrite(q)
         /\ \/ UNCHANGED rows
            \/ \E q \in Staff : SaveCommit(q) \/ SnapshotCommit(q) \/ MergeCommit(q)
            \/ \E n \in Committed, r \in Verdicts : \E w : ResolveLine(n, w, r)
<1>1. ASSUME NEW q \in Staff, Snapshotting(q)
      PROVE  UNCHANGED <<alerts, rows>> \/ SnapshotCommit(q)
  <2>1. CASE CheckKey(q) \/ ReadPo(q) \/ ReadReceipts(q)
    BY <2>1 DEF CheckKey, ReadPo, ReadReceipts
  <2>2. CASE SnapshotSkipped(q) \/ SnapshotThrows(q) \/ SnapshotTx(q)
    BY <2>2 DEF SnapshotSkipped, SnapshotThrows, SnapshotTx
  <2> QED  BY <1>1, <2>1, <2>2 DEF Snapshotting
<1>2. ASSUME NEW q \in Staff, Merging(q)
      PROVE  UNCHANGED alerts /\ (UNCHANGED rows \/ MergeCommit(q))
  BY <1>2 DEF Merging, MergeRead, MergeCommit, MergeRejected, AggregateRead, AggregateWrite
<1>3. \A q \in Staff : \/ \E c \in OcrLines : RecordPrice(q, c)
                       \/ Confirm(q) \/ RefreshManual(q) \/ RequestDies(q)
        => UNCHANGED <<alerts, rows>>
  BY DEF RecordPrice, Confirm, RefreshManual, RequestDies
<1>4. ASSUME NEW q \in Staff,
             \/ \E order \in Orders : SaveBegin(q, order)
             \/ \E d \in Docs, included \in Selections : ApproveRead(q, d, included)
             \/ \E n \in Committed, a \in UNION {alerts[m] : m \in Committed} :
                  DismissRead(q, n, a)
      PROVE  UNCHANGED <<alerts, rows>>
  BY <1>4 DEF SaveBegin, ApproveRead, DismissRead
<1>5. /\ \A q \in Staff : SaveCommit(q) => UNCHANGED alerts
      /\ \A q \in Staff : DismissWrite(q) => UNCHANGED rows
      /\ \A n, w, r : ResolveLine(n, w, r) => UNCHANGED alerts
  BY DEF SaveCommit, DismissWrite, ResolveLine
<1>6. PoDeleted \/ MarkReconciled \/ (\E d \in Docs : AttachmentDeleted(d))
      => UNCHANGED <<alerts, rows>>
  BY DEF PoDeleted, MarkReconciled, AttachmentDeleted
<1>7. \/ UNCHANGED <<alerts, rows>>
      \/ \E q \in Staff : SaveCommit(q) \/ DismissWrite(q) \/ Snapshotting(q) \/ Merging(q)
      \/ \E n \in Committed, r \in Verdicts : \E w : ResolveLine(n, w, r)
  BY <1>3, <1>4, <1>6 DEF Next
<1> QED  BY <1>1, <1>2, <1>5, <1>7

\* A step leaves a dismissed alert as it is.
LEMMA DismissedStep ==
  ASSUME IInv, Next, NEW n \in SnapIds, NEW a \in alerts[n], a.status = "DISMISSED"
  PROVE  a \in alerts'[n]
<1>0. TypeOK /\ SnapshotsInv /\ RequestsInv /\ a \in Alert
  BY DEF IInv, TypeOK
<1>1. CASE UNCHANGED alerts
  BY <1>1
<1>2. ASSUME NEW q \in Staff, SnapshotCommit(q) PROVE a \in alerts'[n]
  <2>1. req[q].snap # n
    <3>1. n \in Committed
      BY <1>0 DEF SnapshotsInv, SnapshotOK
    <3> QED  BY <1>0, <1>2, <3>1 DEF RequestsInv, RequestOK, SnapshotCommit, Committed
  <2>2. alerts'[n] \in {alerts[n], Supersede(n)}
    BY <1>2, <2>1 DEF SnapshotCommit
  <2>3. a \in Supersede(n)
    BY DEF Supersede
  <2> QED  BY <2>2, <2>3
<1>3. ASSUME NEW q \in Staff, DismissWrite(q) PROVE a \in alerts'[n]
  <2>1. [a EXCEPT !.status = "DISMISSED"] = a
    BY <1>0 DEF Alert
  <2>2. alerts'[n] = IF n = req[q].snap
                     THEN {IF b.about \in req[q].about THEN [b EXCEPT !.status = "DISMISSED"]
                           ELSE b : b \in alerts[n]}
                     ELSE alerts[n]
    BY <1>0, <1>3 DEF DismissWrite, TypeOK
  <2> QED  BY <2>1, <2>2
<1> QED  BY <1>1, <1>2, <1>3, Writers

\* Dismissed alerts stay dismissed (VENDOR_PRICE_ENGINE.md), whatever is being written.
THEOREM DismissalStands == Spec => DismissedStays
<1>1. IInv /\ [Next]_vars =>
        [\A n \in SnapIds : \A a \in alerts[n] : a.status = "DISMISSED" => a \in alerts'[n]]_vars
  BY DismissedStep
<1> QED  BY <1>1, ReconciliationInvariant, PTL DEF Spec, DismissedStays

\* Of the steps that change rows, only a merge takes a receipt off the rows of a snapshot,
\* and only off a row that it pairs anew.
LEMMA DroppedStep ==
  ASSUME IInv, Next, NEW n \in SnapIds, NEW d \in snap[n].read,
         snap[n].state = "committed", NEW w \in rows[n], w.rc = d,
         \A v \in rows'[n] : v.rc # d
  PROVE  \E q \in Staff : /\ MergeCommit(q) /\ req[q].snap = n
                          /\ \E v \in rows[n] : /\ v.rc = d
                                                /\ v.id \in {new.id : new \in req[q].pair}
<1>0. TypeOK /\ RequestsInv
  BY DEF IInv
<1>1. CASE UNCHANGED rows
  BY <1>1
<1>2. ASSUME NEW q \in Staff, SaveCommit(q) PROVE FALSE
  <2>1. req[q].lines \in SUBSET PoLines
    BY <1>0 DEF TypeOK, Request
  <2>2. PICK v \in ForgetLines(req[q].lines)[n] : v.rc = w.rc
    BY <1>0, <2>1, ForgetKeeps
  <2> QED  BY <1>2, <2>2 DEF SaveCommit
<1>3. ASSUME NEW q \in Staff, SnapshotCommit(q) PROVE FALSE
  <2>1. req[q].snap # n
    BY <1>0, <1>3 DEF RequestsInv, RequestOK, SnapshotCommit
  <2>2. rows'[n] = rows[n]
    BY <1>0, <1>3, <2>1 DEF SnapshotCommit, TypeOK
  <2> QED  BY <2>2
<1>4. ASSUME NEW k \in Committed, NEW u, NEW r \in Verdicts, ResolveLine(k, u, r) PROVE FALSE
  <2>1. CASE k = n /\ u = w
    <3>1. w \in Row
      BY <1>0 DEF TypeOK
    <3>2. [w EXCEPT !.resolution = r].rc = w.rc
      BY <3>1 DEF Row
    <3>3. [w EXCEPT !.resolution = r] \in rows'[n]
      BY <1>0, <1>4, <2>1 DEF ResolveLine, TypeOK
    <3> QED  BY <3>2, <3>3
  <2>2. CASE ~(k = n /\ u = w)
    <3>1. w \in rows'[n]
      BY <1>0, <1>4, <2>2 DEF ResolveLine, TypeOK
    <3> QED  BY <3>1
  <2> QED  BY <2>1, <2>2
<1>5. ASSUME NEW q \in Staff, MergeCommit(q)
      PROVE  req[q].snap = n /\ w.id \in {new.id : new \in req[q].pair}
  <2>1. PICK m : m = req[q].snap
    OBVIOUS
  <2>2. /\ \A k \in SnapIds \ {m} : rows'[k] = rows[k]
        /\ \A x \in rows[m] : \/ x \in rows'[m]
                              \/ \E v \in rows'[m] : v.rc = x.rc
                              \/ x.id \in {new.id : new \in req[q].pair}
    BY <1>5, <2>1, MergedRows, ReconConstants
  <2>3. m = n
    BY <2>2
  <2> QED  BY <2>1, <2>2, <2>3
<1> QED  BY <1>1, <1>2, <1>3, <1>4, <1>5, Writers

-----------------------------------------------------------------------------
(* Every line of a snapshot is on exactly one of its rows *)

\* In a finite set with a strict total order, where below[x] is what comes before x, each rank
\* is that of one element.
LEMMA RanksFill ==
  ASSUME NEW S, IsFiniteSet(S), NEW below \in [S -> SUBSET S],
         \A x, y \in S : x \in below[y] => below[x] \subseteq below[y],
         \A x \in S : x \notin below[x],
         \A x, y \in S : x = y \/ x \in below[y] \/ y \in below[x],
         NEW n, n = Cardinality(S)
  PROVE  /\ \A x \in S : Cardinality(below[x]) \in 0..(n - 1)
         /\ \A x, y \in S : Cardinality(below[x]) = Cardinality(below[y]) => x = y
         /\ \A k \in 0..(n - 1) : \E x \in S : Cardinality(below[x]) = k
<1>1. n \in Nat
  BY FS_CardinalityType
<1>2. ASSUME NEW x \in S
      PROVE  IsFiniteSet(S \ {x}) /\ Cardinality(S \ {x}) = n - 1
  BY <1>1, FS_RemoveElement
<1>3. ASSUME NEW x \in S
      PROVE  IsFiniteSet(below[x]) /\ Cardinality(below[x]) \in 0..(n - 1)
  <2>1. below[x] \in SUBSET (S \ {x})
    OBVIOUS
  <2>2. IsFiniteSet(S \ {x}) /\ Cardinality(S \ {x}) = n - 1
    BY <1>2
  <2>3. IsFiniteSet(below[x]) /\ Cardinality(below[x]) <= n - 1
    BY <2>1, <2>2, FS_Subset
  <2>4. Cardinality(below[x]) \in Nat
    BY <2>3, FS_CardinalityType
  <2> QED  BY <1>1, <2>3, <2>4
<1>4. PICK rank : rank = [x \in S |-> Cardinality(below[x])]
  OBVIOUS
<1>5. rank \in [S -> 0..(n - 1)] /\ \A x \in S : rank[x] = Cardinality(below[x])
  BY <1>3, <1>4
<1>6. ASSUME NEW x \in S, NEW y \in S, x \in below[y] PROVE rank[x] < rank[y]
  <2>1. below[x] \in SUBSET (below[y] \ {x})
    BY <1>6
  <2>2. IsFiniteSet(below[y]) /\ Cardinality(below[y]) \in Nat /\ Cardinality(below[x]) \in Nat
    BY <1>1, <1>3
  <2>3. /\ IsFiniteSet(below[y] \ {x})
        /\ Cardinality(below[y] \ {x}) = Cardinality(below[y]) - 1
    BY <1>6, <2>2, FS_RemoveElement
  <2>4. Cardinality(below[x]) <= Cardinality(below[y]) - 1
    BY <2>1, <2>3, FS_Subset
  <2> QED  BY <1>5, <2>2, <2>4
<1>7. \A x, y \in S : rank[x] = rank[y] => x = y
  BY <1>1, <1>5, <1>6
<1>8. ASSUME NEW k \in 0..(n - 1), \A x \in S : rank[x] # k PROVE FALSE
  <2>1. PICK T : T = (0..(n - 1)) \ {k}
    OBVIOUS
  <2>2. IsFiniteSet(0..(n - 1)) /\ Cardinality(0..(n - 1)) = n
    BY <1>1, FS_Interval
  <2>3. IsFiniteSet(T) /\ Cardinality(T) = n - 1
    BY <2>1, <2>2, FS_RemoveElement
  <2>4. rank \in [S -> T]
    BY <1>5, <1>8, <2>1
  <2>5. Cardinality(T) < Cardinality(S)
    BY <1>1, <2>3
  <2>6. \E x, y \in S : x # y /\ rank[x] = rank[y]
    BY <2>3, <2>4, <2>5, FS_PigeonHole
  <2> QED  BY <1>7, <2>6
<1> QED  BY <1>5, <1>7, <1>8

\* What the matcher is given: lines with ids of their own, receipts approved one after the other.
IdsApart(lines) == \A p, q \in lines : p.id = q.id => p = q
LinesIn(lines) == lines \subseteq PoLines /\ IsFiniteSet(lines) /\ IdsApart(lines)
ReceiptsIn(read) ==
  /\ read \subseteq OcrLines
  /\ \A d, e \in read : pricedAt[d] \in Nat /\ (pricedAt[d] = pricedAt[e] => d = e)

\* The id of a line is its save and its position.
LEMMA LineIdsOrdered ==
  ASSUME ReconConstants, NEW l \in PoLines
  PROVE  l.id = <<l.id[1], l.id[2]>> /\ l.id[1] \in Nat /\ l.id[2] \in Nat
<1>1. PICK g \in Gens, order \in Orders : l \in LinesOf(g, order)
  BY DEF PoLines
<1>2. PICK i \in DOMAIN order : l.id = <<g, i>>
  BY <1>1 DEF LinesOf
<1> QED  BY <1>2, ReconConstants DEF ReconConstants, Gens

\* The PO lines of a label have the ranks from 0 on, each once.
LEMMA PoRanks ==
  ASSUME ReconConstants, NEW lines, LinesIn(lines), NEW norm, NEW S, S = Labelled(lines, norm)
  PROVE  /\ \A p \in S : PoRank(p, lines) \in 0..(Cardinality(S) - 1)
         /\ \A p, q \in S : PoRank(p, lines) = PoRank(q, lines) => p = q
         /\ \A k \in 0..(Cardinality(S) - 1) : \E p \in S : PoRank(p, lines) = k
<1>1. IsFiniteSet(S)
  BY FS_Subset DEF LinesIn, Labelled
<1>2. \A p \in S : /\ p.id = <<p.id[1], p.id[2]>> /\ p.id[1] \in Nat /\ p.id[2] \in Nat
                   /\ p \in lines /\ p.norm = norm
  BY LineIdsOrdered DEF LinesIn, Labelled
<1>3. PICK below : below = [p \in S |-> {q \in S : Before(q, p)}]
  OBVIOUS
<1>4. /\ below \in [S -> SUBSET S]
      /\ \A p, q \in S : q \in below[p] <=> Before(q, p)
  BY <1>3
<1>5. \A p, q, r \in S : Before(p, q) /\ Before(q, r) => Before(p, r)
  BY <1>2 DEF Before
<1>6. \A p \in S : ~Before(p, p)
  BY <1>2 DEF Before
<1>7. ASSUME NEW p \in S, NEW q \in S PROVE p = q \/ Before(p, q) \/ Before(q, p)
  <2>1. p.id[1] = q.id[1] /\ p.id[2] = q.id[2] => p = q
    BY <1>2 DEF LinesIn, IdsApart
  <2> QED  BY <1>2, <2>1 DEF Before
<1>8. \A p \in S : PoRank(p, lines) = Cardinality(below[p])
  <2> SUFFICES ASSUME NEW p \in S PROVE PoRank(p, lines) = Cardinality(below[p])
    OBVIOUS
  <2>1. below[p] = {q \in Labelled(lines, p.norm) : Before(q, p)}
    BY <1>2, <1>3
  <2> QED  BY <2>1 DEF PoRank
<1>9. /\ \A p, q \in S : p \in below[q] => below[p] \subseteq below[q]
      /\ \A p \in S : p \notin below[p]
      /\ \A p, q \in S : p = q \/ p \in below[q] \/ q \in below[p]
  BY <1>4, <1>5, <1>6, <1>7
<1>10. /\ \A p \in S : Cardinality(below[p]) \in 0..(Cardinality(S) - 1)
       /\ \A p, q \in S : Cardinality(below[p]) = Cardinality(below[q]) => p = q
       /\ \A k \in 0..(Cardinality(S) - 1) : \E p \in S : Cardinality(below[p]) = k
  BY <1>1, <1>4, <1>9, RanksFill
<1> QED  BY <1>8, <1>10

\* Finitely many receipts are read.
LEMMA ReceiptsFinite ==
  ASSUME NEW read, IsFiniteSet(read) PROVE IsFiniteSet(Receipts(read))
<1> DEFINE f == [d \in read |-> Receipt(d)]
<1>1. f \in Surjection(read, Receipts(read))
  BY DEF Surjection, Receipts
<1> QED  BY <1>1, FS_Surjection

\* So do its receipts.
LEMMA ReceiptRanks ==
  ASSUME ReconConstants, TypeOK, NEW read, ReceiptsIn(read), NEW norm, NEW S,
         S = Labelled(Receipts(read), norm)
  PROVE  /\ \A r \in S : ReceiptRank(r, Receipts(read)) \in 0..(Cardinality(S) - 1)
         /\ \A r, s \in S :
              ReceiptRank(r, Receipts(read)) = ReceiptRank(s, Receipts(read)) => r = s
         /\ \A k \in 0..(Cardinality(S) - 1) :
              \E r \in S : ReceiptRank(r, Receipts(read)) = k
<1>1. PICK receipts : receipts = Receipts(read)
  OBVIOUS
<1>2. \A r \in receipts : /\ r.id \in read /\ r = Receipt(r.id)
                          /\ r.at = pricedAt[r.id] /\ r.at \in Nat
  BY <1>1 DEF Receipts, Receipt, ReceiptsIn
<1>3. IsFiniteSet(S)
  <2>1. IsFiniteSet(read)
    BY FS_Subset, ReconConstants DEF ReconConstants, ReceiptsIn
  <2> QED  BY <2>1, ReceiptsFinite, FS_Subset DEF Labelled
<1>4. \A r \in S : r \in receipts /\ r.norm = norm
  BY <1>1 DEF Labelled
<1>5. \A r, s \in S : r.at = s.at => r = s
  BY <1>2, <1>4 DEF ReceiptsIn
<1>6. PICK below : below = [r \in S |-> {s \in S : s.at < r.at}]
  OBVIOUS
<1>7. /\ below \in [S -> SUBSET S]
      /\ \A r, s \in S : s \in below[r] <=> s.at < r.at
  BY <1>6
<1>8. \A r \in S : ReceiptRank(r, receipts) = Cardinality(below[r])
  <2> SUFFICES ASSUME NEW r \in S PROVE ReceiptRank(r, receipts) = Cardinality(below[r])
    OBVIOUS
  <2>1. below[r] = {s \in Labelled(receipts, r.norm) : s.at < r.at}
    BY <1>1, <1>4, <1>6
  <2> QED  BY <2>1 DEF ReceiptRank
<1>9. /\ \A r, s \in S : r \in below[s] => below[r] \subseteq below[s]
      /\ \A r \in S : r \notin below[r]
      /\ \A r, s \in S : r = s \/ r \in below[s] \/ s \in below[r]
  BY <1>2, <1>4, <1>5, <1>7
<1>10. /\ \A r \in S : Cardinality(below[r]) \in 0..(Cardinality(S) - 1)
       /\ \A r, s \in S : Cardinality(below[r]) = Cardinality(below[s]) => r = s
       /\ \A k \in 0..(Cardinality(S) - 1) : \E r \in S : Cardinality(below[r]) = k
  BY <1>3, <1>7, <1>9, RanksFill
<1> QED  BY <1>1, <1>8, <1>10

\* In a balanced label each PO line is paired with one receipt, and each receipt with one line.
THEOREM PairsMatch ==
  ASSUME ReconConstants, TypeOK, NEW lines, LinesIn(lines), NEW read, ReceiptsIn(read),
         NEW receipts, receipts = Receipts(read)
  PROVE  /\ \A v, w \in Pairs(lines, receipts) : v[1] = w[1] <=> v[2] = w[2]
         /\ \A p \in lines : Balanced(lines, receipts, p.norm) =>
              \E r \in receipts : <<p, r>> \in Pairs(lines, receipts)
         /\ \A r \in receipts : Balanced(lines, receipts, r.norm) =>
              \E p \in lines : <<p, r>> \in Pairs(lines, receipts)
<1>1. ASSUME NEW norm, NEW p \in Labelled(lines, norm), NEW r \in Labelled(receipts, norm)
      PROVE  p \in lines /\ r \in receipts /\ p.norm = norm /\ r.norm = norm
  BY DEF Labelled
<1>2. ASSUME NEW v \in Pairs(lines, receipts), NEW w \in Pairs(lines, receipts)
      PROVE  v[1] = w[1] <=> v[2] = w[2]
  <2>1. \A x \in {v, w} :
          /\ x[1] \in Labelled(lines, x[1].norm) /\ x[2] \in Labelled(receipts, x[1].norm)
          /\ x[1].norm = x[2].norm /\ PoRank(x[1], lines) = ReceiptRank(x[2], receipts)
    BY DEF Pairs, Labelled
  <2>2. v[1] = w[1] => v[2] = w[2]
    BY <2>1, ReceiptRanks
  <2>3. v[2] = w[2] => v[1] = w[1]
    BY <2>1, PoRanks
  <2> QED  BY <2>2, <2>3
<1>3. ASSUME NEW p \in lines, Balanced(lines, receipts, p.norm)
      PROVE  \E r \in receipts : <<p, r>> \in Pairs(lines, receipts)
  <2>1. p \in Labelled(lines, p.norm)
    BY DEF Labelled
  <2>2. PoRank(p, lines) \in 0..(Cardinality(Labelled(receipts, p.norm)) - 1)
    BY <1>3, <2>1, PoRanks DEF Balanced
  <2>3. PICK r \in Labelled(receipts, p.norm) : ReceiptRank(r, receipts) = PoRank(p, lines)
    BY <2>2, ReceiptRanks
  <2> QED  BY <1>3, <2>3 DEF Pairs, Labelled
<1>4. ASSUME NEW r \in receipts, Balanced(lines, receipts, r.norm)
      PROVE  \E p \in lines : <<p, r>> \in Pairs(lines, receipts)
  <2>1. r \in Labelled(receipts, r.norm)
    BY DEF Labelled
  <2>2. ReceiptRank(r, receipts) \in 0..(Cardinality(Labelled(lines, r.norm)) - 1)
    BY <1>4, <2>1, ReceiptRanks DEF Balanced
  <2>3. PICK p \in Labelled(lines, r.norm) : ReceiptRank(r, receipts) = PoRank(p, lines)
    BY <2>2, PoRanks
  <2> QED  BY <1>4, <2>3 DEF Pairs, Labelled
<1> QED  BY <1>2, <1>3, <1>4

\* Hence each line and each receipt is on one row of the snapshot.
LEMMA RowsCover ==
  ASSUME ReconConstants, TypeOK, NEW lines, LinesIn(lines), NEW read, ReceiptsIn(read),
         NEW R, R = SnapshotRows(lines, Receipts(read))
  PROVE  /\ \A v, w \in R : /\ v.po = w.po /\ v.po # NoLine => v = w
                            /\ v.rc = w.rc /\ v.rc # NoReceipt => v = w
         /\ \A p \in lines : \E w \in R : w.po = p.id
         /\ \A d \in read : \E w \in R : w.rc = d
<1>1. PICK receipts : receipts = Receipts(read)
  OBVIOUS
<1>2. \A p \in lines : p.id # NoLine
  BY LinesTyped DEF LinesIn
<1>3. \A r \in receipts : r.id \in read /\ r.id # NoReceipt /\ r = Receipt(r.id)
  BY <1>1, ReconConstants DEF ReconConstants, Receipts, Receipt, ReceiptsIn
<1>4. \A p, q \in lines : p.id = q.id => p = q
  BY DEF LinesIn, IdsApart
<1>5. \A r, s \in receipts : r.id = s.id => r = s
  BY <1>3
<1>6. ASSUME NEW w \in R
      PROVE  \/ \E pr \in Pairs(lines, receipts) :
                  /\ w = PairRow(pr[1], pr[2]) /\ w.po = pr[1].id /\ w.rc = pr[2].id
                  /\ pr[1] \in lines /\ pr[2] \in receipts
                  /\ Balanced(lines, receipts, pr[1].norm) /\ Balanced(lines, receipts, pr[2].norm)
             \/ \E p \in lines :
                  /\ w = PoRow(p, receipts) /\ w.po = p.id /\ w.rc = NoReceipt
                  /\ ~Balanced(lines, receipts, p.norm)
             \/ \E r \in receipts :
                  /\ w = ReceiptRow(r, lines) /\ w.po = NoLine /\ w.rc = r.id
                  /\ ~Balanced(lines, receipts, r.norm)
  <2>1. \/ \E pr \in Pairs(lines, receipts) : w = PairRow(pr[1], pr[2])
        \/ \E p \in lines : w = PoRow(p, receipts) /\ ~Balanced(lines, receipts, p.norm)
        \/ \E r \in receipts : w = ReceiptRow(r, lines) /\ ~Balanced(lines, receipts, r.norm)
    BY <1>1 DEF SnapshotRows
  <2>2. \A pr \in Pairs(lines, receipts) :
          /\ pr[1] \in lines /\ pr[2] \in receipts
          /\ Balanced(lines, receipts, pr[1].norm) /\ Balanced(lines, receipts, pr[2].norm)
    BY DEF Pairs
  <2>3. /\ \A p, r : PairRow(p, r).po = p.id /\ PairRow(p, r).rc = r.id
        /\ \A p : PoRow(p, receipts).po = p.id /\ PoRow(p, receipts).rc = NoReceipt
        /\ \A r : ReceiptRow(r, lines).po = NoLine /\ ReceiptRow(r, lines).rc = r.id
    BY DEF PairRow, PoRow, ReceiptRow
  <2>4. CASE \E pr \in Pairs(lines, receipts) : w = PairRow(pr[1], pr[2])
    <3>1. PICK pr \in Pairs(lines, receipts) : w = PairRow(pr[1], pr[2])
      BY <2>4
    <3>2. w.po = pr[1].id /\ w.rc = pr[2].id
      BY <2>3, <3>1
    <3>3. \E x \in Pairs(lines, receipts) :
            /\ w = PairRow(x[1], x[2]) /\ w.po = x[1].id /\ w.rc = x[2].id
            /\ x[1] \in lines /\ x[2] \in receipts
            /\ Balanced(lines, receipts, x[1].norm) /\ Balanced(lines, receipts, x[2].norm)
      BY <2>2, <3>1, <3>2, Zenon
    <3> QED  BY <3>3
  <2>5. CASE \E p \in lines : w = PoRow(p, receipts) /\ ~Balanced(lines, receipts, p.norm)
    BY <2>3, <2>5
  <2>6. CASE \E r \in receipts : w = ReceiptRow(r, lines) /\ ~Balanced(lines, receipts, r.norm)
    BY <2>3, <2>6
  <2> QED  BY <2>1, <2>4, <2>5, <2>6
<1>7. \A v, w \in Pairs(lines, receipts) : v[1] = w[1] <=> v[2] = w[2]
  BY <1>1, PairsMatch
<1>8. ASSUME NEW v \in R, NEW w \in R, v.po = w.po, v.po # NoLine PROVE v = w
  BY <1>2, <1>4, <1>6, <1>7, <1>8
<1>9. ASSUME NEW v \in R, NEW w \in R, v.rc = w.rc, v.rc # NoReceipt PROVE v = w
  BY <1>3, <1>5, <1>6, <1>7, <1>9
<1>10. ASSUME NEW p \in lines PROVE \E w \in R : w.po = p.id
  <2>1. CASE ~Balanced(lines, receipts, p.norm)
    <3>1. PoRow(p, receipts) \in R
      BY <1>1, <2>1 DEF SnapshotRows
    <3> QED  BY <3>1 DEF PoRow
  <2>2. CASE Balanced(lines, receipts, p.norm)
    <3>1. PICK r \in receipts : <<p, r>> \in Pairs(lines, receipts)
      BY <1>1, <2>2, PairsMatch
    <3>2. PairRow(p, r) \in R
      <4>1. <<p, r>>[1] = p /\ <<p, r>>[2] = r
        OBVIOUS
      <4>2. \A pr \in Pairs(lines, receipts) : PairRow(pr[1], pr[2]) \in R
        BY <1>1 DEF SnapshotRows
      <4> QED  BY <3>1, <4>1, <4>2
    <3> QED  BY <3>2 DEF PairRow
  <2> QED  BY <2>1, <2>2
<1>11. ASSUME NEW d \in read PROVE \E w \in R : w.rc = d
  <2>1. PICK r \in receipts : r.id = d
    <3>1. Receipt(d) \in receipts
      BY <1>1 DEF Receipts
    <3> QED  BY <3>1 DEF Receipt
  <2>2. CASE ~Balanced(lines, receipts, r.norm)
    <3>1. ReceiptRow(r, lines) \in R
      <4>1. \A s \in receipts : ~Balanced(lines, receipts, s.norm) => ReceiptRow(s, lines) \in R
        BY <1>1 DEF SnapshotRows
      <4> QED  BY <2>2, <4>1
    <3> QED  BY <2>1, <3>1 DEF ReceiptRow
  <2>3. CASE Balanced(lines, receipts, r.norm)
    <3>1. PICK p \in lines : <<p, r>> \in Pairs(lines, receipts)
      BY <1>1, <2>3, PairsMatch
    <3>2. PairRow(p, r) \in R
      <4>1. <<p, r>>[1] = p /\ <<p, r>>[2] = r
        OBVIOUS
      <4>2. \A pr \in Pairs(lines, receipts) : PairRow(pr[1], pr[2]) \in R
        BY <1>1 DEF SnapshotRows
      <4> QED  BY <3>1, <4>1, <4>2
    <3> QED  BY <2>1, <3>2 DEF PairRow
  <2> QED  BY <2>2, <2>3
<1> QED  BY <1>8, <1>9, <1>10, <1>11

-----------------------------------------------------------------------------
(* The ids of lines, the receipts read and the rows stay apart *)

\* Lines that stand or are about to be written have ids of their own, and no later save than
\* the last has made them; what a request holds of them was read at one moment.
AllLines == po.lines \cup UNION {req[q].fresh : q \in Staff}
LinesInv ==
  /\ IdsApart(AllLines) /\ IsFiniteSet(po.lines)
  /\ \A l \in AllLines : l.id[1] <= po.saves
  /\ \A q \in Staff : /\ IsFiniteSet(req[q].fresh)
                      /\ IsFiniteSet(req[q].lines) /\ IdsApart(req[q].lines)

\* Approved receipts were recorded one after the other, requests hold only such, and a snapshot
\* under way read what its request holds.
ReceiptsInv ==
  /\ \A d, e \in OcrLines : pricedAt[d] > 0 /\ pricedAt[d] = pricedAt[e] => d = e
  /\ \A q \in Staff : /\ \A d \in req[q].read : pricedAt[d] > 0
                      /\ req[q].pc = "commit" => snap[req[q].snap].read = req[q].read

\* No id, no PO line and no receipt is on two rows of a snapshot.
Apart(R) ==
  \A v, w \in R : /\ v.id = w.id => v = w
                  /\ v.po = w.po /\ v.po # NoLine => v = w
                  /\ v.rc = w.rc /\ v.rc # NoReceipt => v = w
RowsApart == \A n \in SnapIds : Apart(rows[n])

MatchInv == LinesInv /\ ReceiptsInv /\ RowsApart

\* What a step does to the lines and the receipts a request holds, unless it reads them anew.
LinesKept(p) ==
  /\ req'[p].fresh \in {req[p].fresh, {}}
  /\ req'[p].lines \in {req[p].lines, {}, po.lines}
ReadKept(p) ==
  /\ req'[p].read \in {req[p].read, {}}
  /\ req'[p].pc = "commit" =>
       req[p].pc = "commit" /\ req'[p].snap = req[p].snap /\ req'[p].read = req[p].read

\* A step of one request.
LEMMA OneMoves ==
  ASSUME TypeOK, NEW q \in Staff, NEW r, req' = [req EXCEPT ![q] = r],
         r.fresh \in {req[q].fresh, {}}, r.lines \in {req[q].lines, {}, po.lines},
         r.read \in {req[q].read, {}},
         r.pc = "commit" => req[q].pc = "commit" /\ r.snap = req[q].snap /\ r.read = req[q].read,
         NEW p \in Staff
  PROVE  LinesKept(p) /\ ReadKept(p)
<1>1. CASE p = q
  <2>1. req'[p] = r
    BY <1>1 DEF TypeOK
  <2> QED  BY <1>1, <2>1 DEF LinesKept, ReadKept
<1>2. CASE p # q
  <2>1. req'[p] = req[p]
    BY <1>2 DEF TypeOK
  <2> QED  BY <2>1 DEF LinesKept, ReadKept
<1> QED  BY <1>1, <1>2

\* One that goes back to rest.
LEMMA OneRests ==
  ASSUME TypeOK, NEW q \in Staff, Done(q), NEW p \in Staff
  PROVE  LinesKept(p) /\ ReadKept(p)
<1>1. /\ Idle.fresh = {} /\ Idle.lines = {} /\ Idle.read = {} /\ Idle.pc = "idle"
  BY DEF Idle
<1>2. req' = [req EXCEPT ![q] = Idle]
  BY DEF Done
<1>3. \A r : r = Idle => (/\ r.fresh \in {req[q].fresh, {}} /\ r.lines \in {req[q].lines, {}, po.lines}
                          /\ r.read \in {req[q].read, {}} /\ r.pc # "commit")
  BY <1>1
<1> QED  BY <1>2, <1>3, OneMoves

\* One that goes on with what it holds, but not to write a snapshot.
LEMMA OneGoesOn ==
  ASSUME TypeOK, NEW q \in Staff, NEW pc, pc # "commit", Goes(q, pc), NEW p \in Staff
  PROVE  LinesKept(p) /\ ReadKept(p)
<1>1. PICK r : r = [req[q] EXCEPT !.pc = pc]
  OBVIOUS
<1>2. req' = [req EXCEPT ![q] = r]
  BY <1>1 DEF Goes, TypeOK
<1>3. req[q] \in Request
  BY DEF TypeOK
<1>4. r.fresh = req[q].fresh /\ r.lines = req[q].lines /\ r.read = req[q].read /\ r.pc = pc
  BY <1>1, <1>3 DEF Request
<1> QED  BY <1>2, <1>4, OneMoves

\* Requests that begin from rest hold at most the lines of the PO.
LEMMA OneBegins ==
  ASSUME TypeOK, NEW q \in Staff, NEW p \in Staff,
         \/ \E d \in Docs, included \in Selections : ApproveRead(q, d, included)
         \/ RefreshManual(q)
         \/ \E n \in Committed, a \in UNION {alerts[m] : m \in Committed} : DismissRead(q, n, a)
         \/ \E n \in Committed, x, c \in UNION {rows[m] : m \in Committed} : MergeRead(q, n, x, c)
  PROVE  LinesKept(p) /\ ReadKept(p)
<1>1. PICK r : /\ req' = [req EXCEPT ![q] = r]
               /\ r.fresh = {} /\ r.read = {} /\ r.lines \in {{}, po.lines} /\ r.pc # "commit"
  <2>1. CASE RefreshManual(q)
    <3>1. PICK r : r = [Idle EXCEPT !.op = "refresh", !.pc = "readReceipts",
                                    !.lines = po.lines, !.subtotal = po.subtotal]
      OBVIOUS
    <3>2. req' = [req EXCEPT ![q] = r]
      BY <2>1, <3>1 DEF RefreshManual
    <3>3. r.fresh = {} /\ r.read = {} /\ r.lines = po.lines /\ r.pc # "commit"
      BY <3>1 DEF Idle
    <3> QED  BY <3>2, <3>3
  <2>2. CASE \E d \in Docs, included \in Selections : ApproveRead(q, d, included)
    <3>1. PICK d \in Docs, included \in Selections : ApproveRead(q, d, included)
      BY <2>2
    <3>2. PICK r : r = [Idle EXCEPT !.op = "approve", !.pc = "record", !.doc = d,
                                    !.included = included, !.todo = included, !.named = included]
      OBVIOUS
    <3>3. req' = [req EXCEPT ![q] = r]
      BY <3>1, <3>2 DEF ApproveRead
    <3>4. r.fresh = {} /\ r.read = {} /\ r.lines = {} /\ r.pc # "commit"
      BY <3>2 DEF Idle
    <3> QED  BY <3>3, <3>4
  <2>3. CASE \E n \in Committed, a \in UNION {alerts[m] : m \in Committed} : DismissRead(q, n, a)
    <3>1. PICK n \in Committed, a \in UNION {alerts[m] : m \in Committed} : DismissRead(q, n, a)
      BY <2>3
    <3>2. PICK r : r = [Idle EXCEPT !.op = "dismiss", !.pc = "dismiss", !.snap = n,
                                    !.about = {a.about}]
      OBVIOUS
    <3>3. req' = [req EXCEPT ![q] = r]
      BY <3>1, <3>2 DEF DismissRead
    <3>4. r.fresh = {} /\ r.read = {} /\ r.lines = {} /\ r.pc # "commit"
      BY <3>2 DEF Idle
    <3> QED  BY <3>3, <3>4
  <2>4. CASE \E n \in Committed, x, c \in UNION {rows[m] : m \in Committed} : MergeRead(q, n, x, c)
    <3>1. PICK n \in Committed, x \in UNION {rows[m] : m \in Committed},
                c \in UNION {rows[m] : m \in Committed} : MergeRead(q, n, x, c)
      BY <2>4
    <3>2. PICK pair, gone :
            req' = [req EXCEPT ![q] = [Idle EXCEPT !.op = "merge", !.pc = "merge", !.snap = n,
                                                   !.gone = gone, !.pair = pair]]
      BY <3>1 DEF MergeRead
    <3>3. PICK r : r = [Idle EXCEPT !.op = "merge", !.pc = "merge", !.snap = n, !.gone = gone,
                                    !.pair = pair]
      OBVIOUS
    <3>4. req' = [req EXCEPT ![q] = r]
      BY <3>2, <3>3
    <3>5. r.fresh = {} /\ r.read = {} /\ r.lines = {} /\ r.pc # "commit"
      BY <3>3 DEF Idle
    <3> QED  BY <3>4, <3>5
  <2> QED  BY <2>1, <2>2, <2>3, <2>4
<1> QED  BY <1>1, OneMoves

\* Every step but the begin of a save and the three that read leaves what requests hold.
LEMMA HoldersKept ==
  ASSUME TypeOK, Next
  PROVE  /\ (\E q \in Staff, order \in Orders : SaveBegin(q, order)) \/ \A p \in Staff : LinesKept(p)
         /\ (\E q \in Staff : ReadReceipts(q) \/ SnapshotTx(q)) \/ \A p \in Staff : ReadKept(p)
<1> SUFFICES ASSUME NEW p \in Staff
             PROVE  /\ (\E q \in Staff, order \in Orders : SaveBegin(q, order)) \/ LinesKept(p)
                    /\ (\E q \in Staff : ReadReceipts(q) \/ SnapshotTx(q)) \/ ReadKept(p)
  OBVIOUS
<1>1. ASSUME NEW q \in Staff, Snapshotting(q)
      PROVE  LinesKept(p) /\ (ReadReceipts(q) \/ SnapshotTx(q) \/ ReadKept(p))
  <2>1. CASE CheckKey(q)
    <3>1. Goes(q, "finish") \/ Goes(q, "readPo")
      BY <2>1 DEF CheckKey
    <3> QED  BY <3>1, OneGoesOn
  <2>2. CASE ReadPo(q)
    <3>1. CASE Goes(q, "finish")
      BY <3>1, OneGoesOn
    <3>2. CASE ~Goes(q, "finish")
      <4>1. PICK r : r = [req[q] EXCEPT !.pc = "readReceipts", !.lines = po.lines,
                                        !.subtotal = po.subtotal]
        OBVIOUS
      <4>2. req' = [req EXCEPT ![q] = r]
        BY <2>2, <3>2, <4>1 DEF ReadPo, TypeOK
      <4>3. req[q] \in Request
        BY DEF TypeOK
      <4>4. /\ r.fresh = req[q].fresh /\ r.lines = po.lines /\ r.read = req[q].read
            /\ r.pc = "readReceipts"
        BY <4>1, <4>3 DEF Request
      <4> QED  BY <4>2, <4>4, OneMoves
    <3> QED  BY <3>1, <3>2
  <2>3. CASE SnapshotSkipped(q) \/ (SnapshotCommit(q) /\ ~Done(q))
    <3>1. PICK r : r = Finishing(req[q].doc)
      OBVIOUS
    <3>2. req' = [req EXCEPT ![q] = r]
      BY <2>3, <3>1 DEF SnapshotSkipped, SnapshotCommit
    <3>3. r.fresh = {} /\ r.read = {} /\ r.lines = {} /\ r.pc # "commit"
      BY <3>1 DEF Finishing, Idle
    <3> QED  BY <3>2, <3>3, OneMoves
  <2>4. CASE SnapshotThrows(q) \/ (SnapshotCommit(q) /\ Done(q))
    BY <2>4, OneRests DEF SnapshotThrows
  <2>5. CASE ReadReceipts(q)
    <3>1. /\ \A s \in Staff \ {q} : req'[s] = req[s]
          /\ req'[q].fresh = req[q].fresh /\ req'[q].lines = req[q].lines
      BY <2>5 DEF ReadReceipts, TypeOK, Request
    <3> QED  BY <2>5, <3>1 DEF LinesKept
  <2>6. CASE SnapshotTx(q)
    <3>1. /\ \A s \in Staff \ {q} : req'[s] = req[s]
          /\ req'[q].fresh = req[q].fresh /\ req'[q].lines = req[q].lines
      BY <2>6 DEF SnapshotTx, TypeOK, Request
    <3> QED  BY <2>6, <3>1 DEF LinesKept
  <2> QED  BY <1>1, <2>1, <2>2, <2>3, <2>4, <2>5, <2>6 DEF Snapshotting
<1>2. ASSUME NEW q \in Staff, MergeCommit(q) PROVE LinesKept(p) /\ ReadKept(p)
  BY <1>2, OneGoesOn DEF MergeCommit
<1>3. ASSUME NEW q \in Staff, AggregateRead(q) PROVE LinesKept(p) /\ ReadKept(p)
  <2>1. PICK r : r = [req[q] EXCEPT !.pc = "aggWrite", !.status = AggregateOf(req[q].snap)]
    OBVIOUS
  <2>2. req' = [req EXCEPT ![q] = r]
    BY <1>3, <2>1 DEF AggregateRead, TypeOK
  <2>3. req[q] \in Request
    BY DEF TypeOK
  <2>4. r.fresh = req[q].fresh /\ r.lines = req[q].lines /\ r.read = req[q].read /\ r.pc = "aggWrite"
    BY <2>1, <2>3 DEF Request
  <2> QED  BY <2>2, <2>4, OneMoves
<1>4. ASSUME NEW q \in Staff, NEW c \in OcrLines, RecordPrice(q, c)
      PROVE  LinesKept(p) /\ ReadKept(p)
  <2>1. CASE Done(q)
    BY <2>1, OneRests
  <2>2. CASE ~Done(q)
    <3>1. PICK pc : pc = IF req[q].todo = {c} THEN "key" ELSE "record"
      OBVIOUS
    <3>2. PICK kept : kept = [req[q] EXCEPT !.todo = @ \ {c}, !.pc = pc]
      OBVIOUS
    <3>3. PICK skipped : skipped = [kept EXCEPT !.named = @ \ {c}]
      OBVIOUS
    <3>4. req' = [req EXCEPT ![q] = kept] \/ req' = [req EXCEPT ![q] = skipped]
      BY <1>4, <2>2, <3>1, <3>2, <3>3 DEF RecordPrice
    <3>5. req[q] \in Request /\ pc # "commit"
      BY <3>1 DEF TypeOK
    <3>6. /\ kept.fresh = req[q].fresh /\ kept.lines = req[q].lines /\ kept.read = req[q].read
          /\ kept.pc # "commit"
      BY <3>2, <3>5 DEF Request
    <3>7. /\ skipped.fresh = req[q].fresh /\ skipped.lines = req[q].lines
          /\ skipped.read = req[q].read /\ skipped.pc # "commit"
      BY <3>2, <3>3, <3>5 DEF Request
    <3> QED  BY <3>4, <3>6, <3>7, OneMoves
  <2> QED  BY <2>1, <2>2
<1>5. ASSUME NEW q \in Staff,
             SaveCommit(q) \/ Confirm(q) \/ DismissWrite(q) \/ RequestDies(q)
             \/ MergeRejected(q) \/ AggregateWrite(q)
      PROVE  LinesKept(p) /\ ReadKept(p)
  <2>1. Done(q)
    BY <1>5 DEF SaveCommit, Confirm, DismissWrite, RequestDies, MergeRejected, AggregateWrite
  <2> QED  BY <2>1, OneRests
<1>6. ASSUME NEW q \in Staff, NEW order \in Orders, SaveBegin(q, order) PROVE ReadKept(p)
  <2>1. PICK r : r = [Idle EXCEPT !.op = "save", !.pc = "save", !.lines = po.lines,
                                  !.fresh = LinesOf(po.saves + 1, order)]
    OBVIOUS
  <2>2. req' = [req EXCEPT ![q] = r]
    BY <1>6, <2>1 DEF SaveBegin
  <2>3. r.read = {} /\ r.pc = "save"
    BY <2>1 DEF Idle
  <2>4. req'[p] = IF p = q THEN r ELSE req[p]
    BY <2>2 DEF TypeOK
  <2> QED  BY <2>3, <2>4 DEF ReadKept
<1>7. ASSUME req' = req PROVE LinesKept(p) /\ ReadKept(p)
  BY <1>7 DEF LinesKept, ReadKept
<1>8. \/ \E n \in Committed, w \in UNION {rows[m] : m \in Committed}, r \in Verdicts :
           ResolveLine(n, w, r)
      \/ \E d \in Docs : AttachmentDeleted(d)
      \/ PoDeleted \/ MarkReconciled
      => req' = req
  BY DEF ResolveLine, AttachmentDeleted, PoDeleted, MarkReconciled
<1>9. ASSUME NEW q \in Staff, Merging(q) PROVE LinesKept(p) /\ ReadKept(p)
  BY <1>9, <1>2, <1>3, <1>5, OneBegins DEF Merging
<1>10. ASSUME NEW q \in Staff,
              \/ \E o \in Orders : SaveBegin(q, o)
              \/ SaveCommit(q)
              \/ \E d \in Docs, included \in Selections : ApproveRead(q, d, included)
              \/ (\E c \in OcrLines : RecordPrice(q, c)) \/ Confirm(q) \/ RefreshManual(q)
              \/ Snapshotting(q) \/ Merging(q)
              \/ \E n \in Committed, a \in UNION {alerts[m] : m \in Committed} : DismissRead(q, n, a)
              \/ DismissWrite(q) \/ RequestDies(q)
       PROVE  /\ (\E s \in Staff, order \in Orders : SaveBegin(s, order)) \/ LinesKept(p)
              /\ (\E s \in Staff : ReadReceipts(s) \/ SnapshotTx(s)) \/ ReadKept(p)
  BY <1>1, <1>4, <1>5, <1>6, <1>9, <1>10, OneBegins
<1>11. CASE req' = req
  BY <1>7, <1>11
<1> QED  BY <1>8, <1>10, <1>11 DEF Next

\* Only saves write the lines of the PO.
LEMMA PoWriters ==
  ASSUME TypeOK, Next
  PROVE  \/ \E q \in Staff, order \in Orders : SaveBegin(q, order)
         \/ \E q \in Staff : SaveCommit(q)
         \/ po'.lines = po.lines /\ po'.saves = po.saves
<1>1. \A q \in Staff : Snapshotting(q) => po' = po
  BY DEF Snapshotting, CheckKey, ReadPo, ReadReceipts, SnapshotSkipped, SnapshotThrows, SnapshotTx,
         SnapshotCommit
<1>2. \A q \in Staff : Merging(q) => po' = po
  BY DEF Merging, MergeRead, MergeCommit, MergeRejected, AggregateRead, AggregateWrite
<1>3. ASSUME NEW q \in Staff,
             \/ \E d \in Docs, included \in Selections : ApproveRead(q, d, included)
             \/ (\E c \in OcrLines : RecordPrice(q, c)) \/ Confirm(q) \/ RefreshManual(q)
             \/ \E n \in Committed, a \in UNION {alerts[m] : m \in Committed} : DismissRead(q, n, a)
             \/ DismissWrite(q) \/ RequestDies(q)
      PROVE  po' = po
  BY <1>3 DEF ApproveRead, RecordPrice, Confirm, RefreshManual, DismissRead, DismissWrite,
              RequestDies
<1>4. \/ \E n \in Committed, w \in UNION {rows[m] : m \in Committed}, r \in Verdicts :
           ResolveLine(n, w, r)
      \/ \E d \in Docs : AttachmentDeleted(d)
      => po' = po
  BY DEF ResolveLine, AttachmentDeleted
<1>5. PoDeleted \/ MarkReconciled => po'.lines = po.lines /\ po'.saves = po.saves
  BY DEF PoDeleted, MarkReconciled, TypeOK
<1> QED  BY <1>1, <1>2, <1>3, <1>4, <1>5 DEF Next

\* What a snapshot under way read stays, and only its own commit publishes it.
LEMMA SnapsKept ==
  ASSUME IInv, Next
  PROVE  /\ \A p \in Staff : req[p].pc = "commit" /\ req'[p].pc = "commit" =>
              snap'[req[p].snap].read = snap[req[p].snap].read
         /\ \A n \in SnapIds : snap'[n].state = "committed" =>
              \/ snap[n].state = "committed"
              \/ \E q \in Staff : SnapshotCommit(q) /\ req[q].snap = n
<1>0. /\ TypeOK /\ CommitsApart
      /\ \A p \in Staff : req[p].pc = "commit" =>
           req[p].snap \in SnapIds /\ snap[req[p].snap].state = "tx"
  BY DEF IInv, RequestsInv, RequestOK
<1>1. CASE snap' = snap
  BY <1>1
<1>2. ASSUME NEW q \in Staff, SnapshotTx(q)
      PROVE  \E n \in SnapIds : /\ n \notin Begun /\ snap'[n].state = "tx"
                                /\ snap'[n].read = req[q].read
                                /\ req' = [req EXCEPT ![q] = [@ EXCEPT !.pc = "commit", !.snap = n]]
                                /\ \A m \in SnapIds \ {n} : snap'[m] = snap[m]
  <2>1. PICK n \in SnapIds :
          /\ \A m \in Begun : m < n
          /\ snap' = [snap EXCEPT ![n] =
               [NoSnap EXCEPT !.state = "tx", !.trigger = req[q].included, !.read = req[q].read,
                              !.saw = Committed]]
          /\ req' = [req EXCEPT ![q] = [@ EXCEPT !.pc = "commit", !.snap = n]]
    BY <1>2 DEF SnapshotTx
  <2>2. n \notin Begun
    BY <2>1 DEF SnapIds
  <2>3. \A m \in SnapIds \ {n} : snap'[m] = snap[m]
    BY <1>0, <2>1 DEF TypeOK
  <2>4. snap'[n] = [NoSnap EXCEPT !.state = "tx", !.trigger = req[q].included, !.read = req[q].read,
                                  !.saw = Committed]
    BY <1>0, <2>1 DEF TypeOK
  <2>5. snap'[n].state = "tx" /\ snap'[n].read = req[q].read
    BY <2>4 DEF NoSnap
  <2> QED  BY <2>1, <2>2, <2>3, <2>5
<1>3. CASE \E q \in Staff : SnapshotTx(q)
  BY <1>0, <1>2, <1>3 DEF Begun
<1>4. CASE \E q \in Staff : SnapshotCommit(q)
  <2>1. PICK q \in Staff : SnapshotCommit(q)
    BY <1>4
  <2>2. \A m \in SnapIds : /\ snap'[m].read = snap[m].read
                           /\ m # req[q].snap => snap'[m] = snap[m]
    BY <1>0, <2>1 DEF SnapshotCommit, TypeOK
  <2> QED  BY <1>0, <2>1, <2>2
<1>5. CASE \E q \in Staff : AggregateWrite(q)
  <2>1. PICK q \in Staff : AggregateWrite(q)
    BY <1>5
  <2>2. \A m \in SnapIds : snap'[m].read = snap[m].read /\ snap'[m].state = snap[m].state
    BY <1>0, <2>1 DEF AggregateWrite, TypeOK
  <2> QED  BY <1>0, <2>2
<1>6. CASE MarkReconciled
  <2>1. \A m \in SnapIds : snap'[m].read = snap[m].read /\ snap'[m].state = snap[m].state
    BY <1>0, <1>6 DEF MarkReconciled, TypeOK
  <2> QED  BY <1>0, <2>1
<1>7. CASE \E q \in Staff : RequestDies(q)
  <2>1. PICK q \in Staff : RequestDies(q)
    BY <1>7
  <2>2. req'[q].pc = "idle"
    BY <1>0, <2>1 DEF RequestDies, Done, Idle, TypeOK
  <2>3. NoSnap.state = "none"
    BY DEF NoSnap
  <2>4. \A m \in SnapIds : \/ snap'[m] = snap[m]
                           \/ /\ req[q].pc = "commit" /\ m = req[q].snap
                              /\ snap'[m].state = "none"
    BY <1>0, <2>1, <2>3 DEF RequestDies, TypeOK
  <2>5. \A p \in Staff : req[p].pc = "commit" /\ req'[p].pc = "commit" =>
           p # q /\ snap'[req[p].snap] = snap[req[p].snap]
    BY <1>0, <2>2, <2>4 DEF CommitsApart
  <2> QED  BY <2>4, <2>5
<1>8. ASSUME NEW q \in Staff, Snapshotting(q)
      PROVE  snap' = snap \/ SnapshotTx(q) \/ SnapshotCommit(q)
  BY <1>8 DEF Snapshotting, CheckKey, ReadPo, ReadReceipts, SnapshotSkipped, SnapshotThrows
<1>9. ASSUME NEW q \in Staff, Merging(q) PROVE snap' = snap \/ AggregateWrite(q)
  BY <1>9 DEF Merging, MergeRead, MergeCommit, MergeRejected, AggregateRead
<1>10. ASSUME NEW q \in Staff,
              \/ \E o \in Orders : SaveBegin(q, o)
              \/ SaveCommit(q)
              \/ \E d \in Docs, included \in Selections : ApproveRead(q, d, included)
              \/ (\E c \in OcrLines : RecordPrice(q, c)) \/ Confirm(q) \/ RefreshManual(q)
              \/ \E n \in Committed, a \in UNION {alerts[m] : m \in Committed} : DismissRead(q, n, a)
              \/ DismissWrite(q)
       PROVE  snap' = snap
  BY <1>10 DEF SaveBegin, SaveCommit, ApproveRead, RecordPrice, Confirm, RefreshManual,
               DismissRead, DismissWrite
<1>11. \/ \E n \in Committed, w \in UNION {rows[m] : m \in Committed}, r \in Verdicts :
            ResolveLine(n, w, r)
       \/ \E d \in Docs : AttachmentDeleted(d)
       \/ PoDeleted
       => snap' = snap
  BY DEF ResolveLine, AttachmentDeleted, PoDeleted
<1> QED  BY <1>1, <1>3, <1>4, <1>5, <1>6, <1>7, <1>8, <1>9, <1>10, <1>11 DEF Next

\* A save under way has finitely many lines, whose ids are new.
LEMMA FreshLines ==
  ASSUME ReconConstants, NEW gen \in Gens, NEW order \in Orders, NEW S, S = LinesOf(gen, order)
  PROVE  IsFiniteSet(S) /\ IdsApart(S) /\ \A l \in S : l.id[1] = gen
<1>1. IsFiniteSet(DOMAIN order)
  BY DEF ReconConstants
<1>2. PICK f : f = [i \in DOMAIN order |-> [id |-> <<gen, i>>, norm |-> order[i].norm,
                                            qty |-> order[i].qty, cost |-> order[i].cost]]
  OBVIOUS
<1>3. S = {f[i] : i \in DOMAIN order}
  BY <1>2 DEF LinesOf
<1>4. f \in Surjection(DOMAIN order, S)
  BY <1>2, <1>3 DEF Surjection
<1>5. IsFiniteSet(S)
  BY <1>1, <1>4, FS_Surjection
<1>6. \A i \in DOMAIN order : f[i].id = <<gen, i>>
  BY <1>2
<1>7. IdsApart(S)
  BY <1>3, <1>6 DEF IdsApart
<1> QED  BY <1>3, <1>5, <1>6, <1>7

\* The ids of lines stay apart.
LEMMA LinesStep ==
  ASSUME IInv, LinesInv, Next PROVE LinesInv'
<1>0. TypeOK /\ ReconConstants /\ po.saves \in Nat
  BY ReconConstants DEF IInv, TypeOK, Gens
<1>1. CASE \E q \in Staff, order \in Orders : SaveBegin(q, order)
  <2>1. PICK q \in Staff, order \in Orders : SaveBegin(q, order)
    BY <1>1
  <2>2. PICK new : new = LinesOf(po.saves + 1, order)
    OBVIOUS
  <2>3. po.saves + 1 \in Gens
    BY <1>0, <2>1 DEF SaveBegin, Gens, ReconConstants
  <2>4. IsFiniteSet(new) /\ IdsApart(new) /\ \A l \in new : l.id[1] = po.saves + 1
    BY <1>0, <2>2, <2>3, FreshLines
  <2>5. PICK r : r = [Idle EXCEPT !.op = "save", !.pc = "save", !.lines = po.lines,
                                  !.fresh = LinesOf(po.saves + 1, order)]
    OBVIOUS
  <2>6. r.lines = po.lines /\ r.fresh = new
    BY <2>2, <2>5 DEF Idle
  <2>7. req' = [req EXCEPT ![q] = r] /\ po' = [po EXCEPT !.saves = @ + 1]
    BY <2>1, <2>5 DEF SaveBegin
  <2>8. \A p \in Staff : req'[p] = IF p = q THEN r ELSE req[p]
    BY <1>0, <2>7 DEF TypeOK
  <2>9. po'.lines = po.lines /\ po'.saves = po.saves + 1
    BY <1>0, <2>7 DEF TypeOK
  <2>10. \A l \in AllLines' : l \in AllLines \/ l \in new
    BY <2>6, <2>8, <2>9 DEF AllLines
  <2>11. \A l \in AllLines : l.id[1] <= po.saves /\ l.id[1] \in Nat
    <3>1. AllLines \subseteq PoLines
      BY <1>0 DEF AllLines, TypeOK, Request
    <3> QED  BY <1>0, <3>1, LineIdsOrdered DEF LinesInv
  <2>12. IdsApart(AllLines')
    <3> SUFFICES ASSUME NEW l \in AllLines', NEW m \in AllLines', l.id = m.id PROVE l = m
      BY DEF IdsApart
    <3>1. CASE l \in AllLines /\ m \in AllLines
      BY <3>1 DEF LinesInv, IdsApart
    <3>2. CASE l \in new /\ m \in new
      BY <2>4, <3>2 DEF IdsApart
    <3>3. l.id[1] = m.id[1]
      OBVIOUS
    <3> QED  BY <1>0, <2>4, <2>10, <2>11, <3>1, <3>2, <3>3
  <2>13. \A l \in AllLines' : l.id[1] <= po'.saves
    BY <1>0, <2>4, <2>9, <2>10, <2>11
  <2>14. IdsApart(po.lines)
    BY DEF LinesInv, AllLines, IdsApart
  <2>15. \A p \in Staff : /\ IsFiniteSet(req'[p].fresh)
                          /\ IsFiniteSet(req'[p].lines) /\ IdsApart(req'[p].lines)
    BY <2>4, <2>6, <2>8, <2>14 DEF LinesInv
  <2> QED  BY <2>9, <2>12, <2>13, <2>15 DEF LinesInv, IdsApart
<1>2. CASE \A p \in Staff : LinesKept(p)
  <2>1. /\ po'.lines \subseteq AllLines /\ IsFiniteSet(po'.lines)
        /\ po'.saves \in Nat /\ po.saves <= po'.saves
    <3>1. CASE \E q \in Staff, order \in Orders : SaveBegin(q, order)
      <4>1. po'.lines = po.lines /\ po'.saves = po.saves + 1
        BY <1>0, <3>1 DEF SaveBegin, TypeOK
      <4> QED  BY <1>0, <4>1 DEF LinesInv, AllLines
    <3>2. CASE \E q \in Staff : SaveCommit(q)
      <4>1. PICK q \in Staff : SaveCommit(q)
        BY <3>2
      <4>2. po'.lines = (po.lines \ req[q].lines) \cup req[q].fresh /\ po'.saves = po.saves
        BY <1>0, <4>1 DEF SaveCommit, TypeOK
      <4>3. IsFiniteSet(po.lines \ req[q].lines) /\ IsFiniteSet(req[q].fresh)
        BY FS_Subset DEF LinesInv
      <4>4. IsFiniteSet(po'.lines)
        BY <4>2, <4>3, FS_Union
      <4> QED  BY <1>0, <4>2, <4>4 DEF AllLines
    <3>3. CASE po'.lines = po.lines /\ po'.saves = po.saves
      BY <1>0, <3>3 DEF LinesInv, AllLines
    <3> QED  BY <1>0, <3>1, <3>2, <3>3, PoWriters
  <2>2. AllLines' \subseteq AllLines
    BY <1>2, <2>1 DEF AllLines, LinesKept
  <2>3. IdsApart(AllLines')
    BY <2>2 DEF LinesInv, IdsApart
  <2>4. \A l \in AllLines' : l.id[1] <= po'.saves
    <3>1. \A l \in AllLines : l.id[1] <= po.saves /\ l.id[1] \in Nat
      <4>1. AllLines \subseteq PoLines
        BY <1>0 DEF AllLines, TypeOK, Request
      <4> QED  BY <1>0, <4>1, LineIdsOrdered DEF LinesInv
    <3> QED  BY <1>0, <2>1, <2>2, <3>1
  <2>5. IdsApart(po.lines)
    BY DEF LinesInv, AllLines, IdsApart
  <2>6. ASSUME NEW p \in Staff
        PROVE  /\ IsFiniteSet(req'[p].fresh)
               /\ IsFiniteSet(req'[p].lines) /\ IdsApart(req'[p].lines)
    <3>1. IsFiniteSet({}) /\ IdsApart({})
      BY FS_EmptySet DEF IdsApart
    <3>2. req'[p].fresh = req[p].fresh \/ req'[p].fresh = {}
      BY <1>2 DEF LinesKept
    <3>3. req'[p].lines = req[p].lines \/ req'[p].lines = {} \/ req'[p].lines = po.lines
      BY <1>2 DEF LinesKept
    <3> QED  BY <2>5, <3>1, <3>2, <3>3 DEF LinesInv
  <2> QED  BY <2>1, <2>3, <2>4, <2>6 DEF LinesInv, IdsApart
<1> QED  BY <1>0, <1>1, <1>2, HoldersKept

\* Only RecordPrice gives a receipt its place in the order of approval.
LEMMA PriceWriters ==
  ASSUME Next
  PROVE  pricedAt' = pricedAt \/ \E q \in Staff, c \in OcrLines : RecordPrice(q, c)
<1>1. \A q \in Staff : Snapshotting(q) => pricedAt' = pricedAt
  BY DEF Snapshotting, CheckKey, ReadPo, ReadReceipts, SnapshotSkipped, SnapshotThrows, SnapshotTx,
         SnapshotCommit
<1>2. \A q \in Staff : Merging(q) => pricedAt' = pricedAt
  BY DEF Merging, MergeRead, MergeCommit, MergeRejected, AggregateRead, AggregateWrite
<1>3. ASSUME NEW q \in Staff,
             \/ \E o \in Orders : SaveBegin(q, o)
             \/ SaveCommit(q)
             \/ \E d \in Docs, included \in Selections : ApproveRead(q, d, included)
             \/ Confirm(q) \/ RefreshManual(q)
             \/ \E n \in Committed, a \in UNION {alerts[m] : m \in Committed} : DismissRead(q, n, a)
             \/ DismissWrite(q) \/ RequestDies(q)
      PROVE  pricedAt' = pricedAt
  BY <1>3 DEF SaveBegin, SaveCommit, ApproveRead, Confirm, RefreshManual, DismissRead,
              DismissWrite, RequestDies
<1>4. \/ \E n \in Committed, w \in UNION {rows[m] : m \in Committed}, r \in Verdicts :
           ResolveLine(n, w, r)
      \/ \E d \in Docs : AttachmentDeleted(d)
      \/ PoDeleted \/ MarkReconciled
      => pricedAt' = pricedAt
  BY DEF ResolveLine, AttachmentDeleted, PoDeleted, MarkReconciled
<1> QED  BY <1>1, <1>2, <1>3, <1>4 DEF Next

\* The receipts that requests and snapshots read stay recorded ones.
LEMMA ReceiptsStep ==
  ASSUME IInv, ReceiptsInv, Next PROVE ReceiptsInv'
<1>0. TypeOK
  BY DEF IInv
<1>1. /\ \A d, e \in OcrLines : pricedAt'[d] > 0 /\ pricedAt'[d] = pricedAt'[e] => d = e
      /\ \A d \in OcrLines : pricedAt[d] > 0 => pricedAt'[d] > 0
  <2>1. CASE pricedAt' = pricedAt
    BY <2>1 DEF ReceiptsInv
  <2>2. CASE \E q \in Staff, c \in OcrLines : RecordPrice(q, c) /\ pricedAt' # pricedAt
    <3>1. PICK q \in Staff, c \in OcrLines : RecordPrice(q, c) /\ pricedAt' # pricedAt
      BY <2>2
    <3>2. PICK at \in 1..Cardinality(OcrLines) :
            /\ \A e \in OcrLines : pricedAt[e] < at
            /\ pricedAt' = [pricedAt EXCEPT ![c] = at]
      BY <3>1 DEF RecordPrice, NewestReceipt
    <3>3. at > 0
      OBVIOUS
    <3>4. \A d \in OcrLines : pricedAt'[d] = IF d = c THEN at ELSE pricedAt[d]
      BY <1>0, <3>2 DEF TypeOK
    <3> QED  BY <3>2, <3>3, <3>4 DEF ReceiptsInv
  <2> QED  BY <2>1, <2>2, PriceWriters
<1>2. ASSUME NEW p \in Staff
      PROVE  \A d \in req[p].read : d \in OcrLines /\ pricedAt[d] > 0
  BY <1>0 DEF ReceiptsInv, TypeOK, Request
<1>3. CASE \A p \in Staff : ReadKept(p)
  <2>1. ASSUME NEW p \in Staff PROVE \A d \in req'[p].read : pricedAt'[d] > 0
    BY <1>1, <1>2, <1>3 DEF ReadKept
  <2>2. ASSUME NEW p \in Staff, req'[p].pc = "commit"
        PROVE  snap'[req'[p].snap].read = req'[p].read
    BY <1>3, <2>2, SnapsKept DEF ReadKept, ReceiptsInv
  <2> QED  BY <1>1, <2>1, <2>2 DEF ReceiptsInv
<1>4. CASE \E q \in Staff : ReadReceipts(q)
  <2>1. PICK q \in Staff : ReadReceipts(q)
    BY <1>4
  <2>2. \A p \in Staff \ {q} : req'[p] = req[p]
    BY <1>0, <2>1 DEF ReadReceipts, TypeOK
  <2>3. req'[q].read = OnThisPo /\ req'[q].pc = "tx"
    BY <1>0, <2>1 DEF ReadReceipts, TypeOK, Request
  <2>4. \A d \in OnThisPo : d \in OcrLines /\ pricedAt[d] > 0
    BY DEF OnThisPo
  <2>5. snap' = snap
    BY <2>1 DEF ReadReceipts
  <2> QED  BY <1>1, <1>2, <2>2, <2>3, <2>4, <2>5 DEF ReceiptsInv
<1>5. CASE \E q \in Staff : SnapshotTx(q)
  <2>1. PICK q \in Staff : SnapshotTx(q)
    BY <1>5
  <2>2. PICK n \in SnapIds :
          /\ snap' = [snap EXCEPT ![n] =
               [NoSnap EXCEPT !.state = "tx", !.trigger = req[q].included, !.read = req[q].read,
                              !.saw = Committed]]
          /\ req' = [req EXCEPT ![q] = [@ EXCEPT !.pc = "commit", !.snap = n]]
    BY <2>1 DEF SnapshotTx
  <2>3. \A p \in Staff \ {q} : req'[p] = req[p]
    BY <1>0, <2>2 DEF TypeOK
  <2>4. req'[q].read = req[q].read /\ req'[q].snap = n
    BY <1>0, <2>2 DEF TypeOK, Request
  <2>5. snap'[n].read = req[q].read
    <3>1. snap'[n] = [NoSnap EXCEPT !.state = "tx", !.trigger = req[q].included, !.read = req[q].read,
                                    !.saw = Committed]
      BY <1>0, <2>2 DEF TypeOK
    <3> QED  BY <3>1 DEF NoSnap
  <2>6. \A p \in Staff \ {q} : req[p].pc = "commit" => snap'[req[p].snap].read = req[p].read
    BY <2>3, SnapsKept DEF ReceiptsInv
  <2> QED  BY <1>1, <1>2, <2>3, <2>4, <2>5, <2>6 DEF ReceiptsInv
<1> QED  BY <1>0, <1>3, <1>4, <1>5, HoldersKept

\* What the matcher is given at the commit of a snapshot.
LEMMA MatcherInput ==
  ASSUME IInv, MatchInv, NEW q \in Staff
  PROVE  LinesIn(req[q].lines) /\ ReceiptsIn(req[q].read)
<1>1. req[q] \in Request /\ pricedAt \in [OcrLines -> Nat]
  BY DEF IInv, TypeOK
<1>2. LinesIn(req[q].lines)
  BY <1>1 DEF LinesIn, MatchInv, LinesInv, Request
<1>3. ReceiptsIn(req[q].read)
  BY <1>1 DEF ReceiptsIn, MatchInv, ReceiptsInv, Request
<1> QED  BY <1>2, <1>3

\* The rows it stores: no two alike, one for each line and for each receipt.
LEMMA StoredRows ==
  ASSUME IInv, MatchInv, NEW q \in Staff, SnapshotCommit(q), NEW n, n = req[q].snap
  PROVE  /\ n \in SnapIds /\ \A m \in SnapIds \ {n} : rows'[m] = rows[m]
         /\ Apart(rows'[n])
         /\ \A l \in req[q].lines : l.id # NoLine /\ \E w \in rows'[n] : w.po = l.id
         /\ \A d \in req[q].read : d # NoReceipt /\ \E w \in rows'[n] : w.rc = d
<1>0. /\ TypeOK /\ ReconConstants /\ n \in SnapIds
      /\ req[q].lines \in SUBSET PoLines /\ req[q].read \in SUBSET OcrLines
  BY ReconConstants DEF IInv, TypeOK, RequestsInv, RequestOK, SnapshotCommit, Request
<1>1. PICK R : R = SnapshotRows(req[q].lines, Receipts(req[q].read))
  OBVIOUS
<1>2. rows' = [rows EXCEPT ![n] = {StoredRow(w) : w \in R}]
  BY <1>1 DEF SnapshotCommit
<1>3. rows'[n] = {StoredRow(w) : w \in R} /\ \A m \in SnapIds \ {n} : rows'[m] = rows[m]
  BY <1>0, <1>2 DEF TypeOK
<1>4. /\ \A v, w \in R : /\ v.po = w.po /\ v.po # NoLine => v = w
                         /\ v.rc = w.rc /\ v.rc # NoReceipt => v = w
      /\ \A p \in req[q].lines : \E w \in R : w.po = p.id
      /\ \A d \in req[q].read : \E w \in R : w.rc = d
  BY <1>0, <1>1, MatcherInput, RowsCover
<1>5. \A w \in R : w.po # NoLine \/ w.rc # NoReceipt
  <2> SUFFICES ASSUME NEW w \in R PROVE w.po # NoLine \/ w.rc # NoReceipt
    OBVIOUS
  <2>1. NoReceipt \notin OcrLines
    BY <1>0 DEF ReconConstants
  <2>2. w \in SnapshotRows(req[q].lines, Receipts(req[q].read))
    BY <1>1
  <2>3. w.po \in LineIds \ {NoLine} \/ w.rc \in OcrLines
    BY <1>0, <2>2, RowKinds
  <2> QED  BY <2>1, <2>3
<1>6. \A w : StoredRow(w).id = <<w.po, w.rc>> /\ StoredRow(w).po = w.po /\ StoredRow(w).rc = w.rc
  BY DEF StoredRow
<1>7. Apart(rows'[n])
  <2> SUFFICES ASSUME NEW v \in R, NEW w \in R
               PROVE  LET a == StoredRow(v) b == StoredRow(w)
                      IN  /\ a.id = b.id => a = b
                          /\ a.po = b.po /\ a.po # NoLine => a = b
                          /\ a.rc = b.rc /\ a.rc # NoReceipt => a = b
    BY <1>3 DEF Apart
  <2>1. StoredRow(v).id = StoredRow(w).id => v.po = w.po /\ v.rc = w.rc
    BY <1>6
  <2>2. v.po = w.po /\ v.rc = w.rc => v = w
    BY <1>4, <1>5
  <2> QED  BY <1>4, <1>6, <2>1, <2>2
<1>8. \A l \in req[q].lines : l.id # NoLine
  BY <1>0, LinesTyped
<1>9. \A d \in req[q].read : d # NoReceipt
  BY <1>0 DEF ReconConstants
<1>10. \A w \in R : \E v \in rows'[n] : v.po = w.po /\ v.rc = w.rc
  BY <1>3, <1>6
<1>11. \A l \in req[q].lines : \E w \in rows'[n] : w.po = l.id
  BY <1>4, <1>10
<1>12. \A d \in req[q].read : \E w \in rows'[n] : w.rc = d
  BY <1>4, <1>10
<1> QED  BY <1>0, <1>3, <1>7, <1>8, <1>9, <1>11, <1>12

\* A save takes the lines it deletes off the rows, and leaves the rest of each.
LEMMA ForgottenApart ==
  ASSUME TypeOK, NEW lines \in SUBSET PoLines, NEW n \in SnapIds, Apart(rows[n])
  PROVE  Apart(ForgetLines(lines)[n])
<1>1. PICK ids : ids = {l.id : l \in lines}
  OBVIOUS
<1>2. PICK f : f = [w \in rows[n] |-> IF w.po \in ids THEN [w EXCEPT !.po = NoLine] ELSE w]
  OBVIOUS
<1>3. ForgetLines(lines)[n] = {f[w] : w \in rows[n]}
  BY <1>1, <1>2 DEF ForgetLines
<1>4. ASSUME NEW w \in rows[n]
      PROVE  f[w].id = w.id /\ f[w].rc = w.rc /\ f[w].po \in {w.po, NoLine}
  <2>1. w \in Row
    BY DEF TypeOK
  <2> QED  BY <1>2, <2>1 DEF Row
<1> SUFFICES ASSUME NEW v \in rows[n], NEW w \in rows[n]
             PROVE  /\ f[v].id = f[w].id => f[v] = f[w]
                    /\ f[v].po = f[w].po /\ f[v].po # NoLine => f[v] = f[w]
                    /\ f[v].rc = f[w].rc /\ f[v].rc # NoReceipt => f[v] = f[w]
  BY <1>3 DEF Apart
<1>5. /\ v.id = w.id => v = w
      /\ v.po = w.po /\ v.po # NoLine => v = w
      /\ v.rc = w.rc /\ v.rc # NoReceipt => v = w
  BY DEF Apart
<1> QED  BY <1>4, <1>5

\* A decision by hand changes only how a row was resolved.
LEMMA ResolvedApart ==
  ASSUME TypeOK, NEW n \in SnapIds, NEW w \in rows[n], NEW r, NEW R,
         R = (rows[n] \ {w}) \cup {[w EXCEPT !.resolution = r]}, Apart(rows[n])
  PROVE  Apart(R)
<1>1. PICK u : u = [w EXCEPT !.resolution = r]
  OBVIOUS
<1>2. u.id = w.id /\ u.po = w.po /\ u.rc = w.rc
  <2>1. w \in Row
    BY DEF TypeOK
  <2> QED  BY <1>1, <2>1 DEF Row
<1>3. \A v \in R : v = u \/ (v \in rows[n] /\ v # w)
  BY <1>1
<1> QED  BY <1>2, <1>3 DEF Apart

\* A merge takes the receipt of the row it deletes.
LEMMA MergedApart ==
  ASSUME IInv, ReconConstants, RowsApart, NEW q \in Staff, MergeCommit(q),
         NEW n, n = req[q].snap
  PROVE  n \in SnapIds /\ Apart(rows'[n]) /\ \A m \in SnapIds \ {n} : rows'[m] = rows[m]
<1>0. TypeOK /\ n \in SnapIds /\ Apart(rows[n]) /\ \A w \in rows[n] : RowOK(w)
  BY DEF IInv, RowsInv, RequestsInv, RequestOK, MergeCommit, Committed, RowsApart
<1>1. PICK new \in Row, d \in OcrLines :
        /\ req[q].pair = {new} /\ req[q].gone = {<<NoLine, d>>}
        /\ new.rc = d /\ new.id[1] # NoLine /\ new.match \in PairedMatch
        /\ \E w \in rows[n] : w.id = new.id
        /\ rows' = [rows EXCEPT ![n] = AfterMerge(n, new, d)]
  BY MergeShape
<1>2. PICK kept : kept = {w \in rows[n] : w.id # <<NoLine, d>> /\ w.id # new.id}
  OBVIOUS
<1>3. PICK merged : merged = {MergedRow(new, old) : old \in RowOf(n, new.id)}
  OBVIOUS
<1>4. rows'[n] = kept \cup merged /\ \A m \in SnapIds \ {n} : rows'[m] = rows[m]
  BY <1>0, <1>1, <1>2, <1>3 DEF AfterMerge, TypeOK
<1>5. PICK gone \in rows[n] : gone.id = <<NoLine, d>>
  BY <1>1 DEF MergeCommit, ReceiptRowStands
<1>6. gone.rc = d /\ d # NoReceipt
  BY <1>0, <1>5 DEF RowOK, ReconConstants
<1>7. PICK old \in rows[n] : old.id = new.id
  BY <1>1
<1>8. merged = {MergedRow(new, old)}
  <2>1. \A w \in rows[n] : w.id = new.id <=> w = old
    BY <1>0, <1>7 DEF Apart
  <2>2. RowOf(n, new.id) = {old}
    BY <1>7, <2>1 DEF RowOf
  <2> QED  BY <1>3, <2>2
<1>9. PICK u : u = MergedRow(new, old)
  OBVIOUS
<1>10. u.id = old.id /\ u.po = old.po /\ u.rc = d
  <2>1. old \in Row
    BY <1>0, <1>7 DEF TypeOK
  <2> QED  BY <1>1, <1>7, <1>9, <2>1 DEF MergedRow, Row
<1>11. ASSUME NEW w \in kept
       PROVE  /\ w \in rows[n] /\ w.id # u.id
              /\ w.po = u.po => w.po = NoLine
              /\ w.rc # u.rc
  <2>1. w \in rows[n] /\ w # gone /\ w # old
    BY <1>2, <1>5, <1>7
  <2>2. w.id # old.id /\ w.rc # d
    BY <1>0, <1>5, <1>6, <1>7, <2>1 DEF Apart
  <2>3. w.po = old.po => w.po = NoLine
    BY <1>0, <1>7, <2>1 DEF Apart
  <2> QED  BY <1>10, <2>1, <2>2, <2>3
<1>12. \A v \in rows'[n] : v = u \/ v \in kept
  BY <1>4, <1>8, <1>9
<1>13. Apart(rows'[n])
  <2> SUFFICES ASSUME NEW v \in rows'[n], NEW w \in rows'[n]
               PROVE  /\ v.id = w.id => v = w
                      /\ v.po = w.po /\ v.po # NoLine => v = w
                      /\ v.rc = w.rc /\ v.rc # NoReceipt => v = w
    BY DEF Apart
  <2>1. CASE v \in kept /\ w \in kept
    BY <1>0, <1>11, <2>1 DEF Apart
  <2>2. CASE v = u \/ w = u
    BY <1>11, <1>12, <2>2
  <2> QED  BY <1>12, <2>1, <2>2
<1> QED  BY <1>0, <1>4, <1>13

\* The rows of each snapshot stay apart.
LEMMA RowsStep ==
  ASSUME IInv, MatchInv, Next PROVE RowsApart'
<1>0. TypeOK /\ RowsApart
  BY DEF IInv, MatchInv
<1> SUFFICES ASSUME NEW n \in SnapIds PROVE Apart(rows'[n])
  BY DEF RowsApart, Apart
<1>1. Apart(rows[n])
  BY <1>0 DEF RowsApart
<1>2. CASE UNCHANGED rows
  BY <1>1, <1>2
<1>3. ASSUME NEW q \in Staff, SaveCommit(q) PROVE Apart(rows'[n])
  <2>1. req[q].lines \in SUBSET PoLines
    BY <1>0 DEF TypeOK, Request
  <2> QED  BY <1>0, <1>1, <1>3, <2>1, ForgottenApart DEF SaveCommit
<1>4. ASSUME NEW q \in Staff, SnapshotCommit(q) PROVE Apart(rows'[n])
  <2>1. CASE n = req[q].snap
    BY <1>4, <2>1, StoredRows
  <2>2. CASE n # req[q].snap
    <3>1. rows'[n] = rows[n]
      BY <1>0, <1>4, <2>2 DEF SnapshotCommit, TypeOK
    <3> QED  BY <1>1, <3>1
  <2> QED  BY <2>1, <2>2
<1>5. ASSUME NEW k \in Committed, NEW u, NEW r \in Verdicts, ResolveLine(k, u, r)
      PROVE  Apart(rows'[n])
  <2>1. CASE n = k
    <3>1. u \in rows[n] /\ rows'[n] = (rows[n] \ {u}) \cup {[u EXCEPT !.resolution = r]}
      BY <1>0, <1>5, <2>1 DEF ResolveLine, TypeOK
    <3> QED  BY <1>0, <1>1, <3>1, ResolvedApart
  <2>2. CASE n # k
    <3>1. rows'[n] = rows[n]
      BY <1>0, <1>5, <2>2 DEF ResolveLine, TypeOK
    <3> QED  BY <1>1, <3>1
  <2> QED  BY <2>1, <2>2
<1>6. ASSUME NEW q \in Staff, MergeCommit(q) PROVE Apart(rows'[n])
  <2>1. PICK m : m = req[q].snap
    OBVIOUS
  <2>2. Apart(rows'[m]) /\ \A k \in SnapIds \ {m} : rows'[k] = rows[k]
    BY <1>0, <1>6, <2>1, MergedApart, ReconConstants
  <2> QED  BY <1>1, <2>2
<1> QED  BY <1>2, <1>3, <1>4, <1>5, <1>6, Writers

\* So does the whole.
LEMMA NextMatchInv == IInv /\ MatchInv /\ [Next]_vars => MatchInv'
<1> SUFFICES ASSUME IInv, MatchInv, [Next]_vars PROVE MatchInv'
  OBVIOUS
<1>1. CASE Next
  BY <1>1, LinesStep, ReceiptsStep, RowsStep DEF MatchInv
<1>2. CASE UNCHANGED vars
  <2>1. AllLines' = AllLines
    BY <1>2 DEF AllLines, vars
  <2> QED  BY <1>2, <2>1 DEF MatchInv, LinesInv, ReceiptsInv, RowsApart, Apart, IdsApart, vars
<1> QED  BY <1>1, <1>2

LEMMA InitMatchInv == Init => MatchInv
<1> SUFFICES ASSUME Init PROVE MatchInv
  OBVIOUS
<1>1. PICK order \in Orders :
        po = [deleted |-> FALSE, marked |-> FALSE, lines |-> LinesOf(0, order),
              subtotal |-> SubtotalOf(LinesOf(0, order)), saves |-> 0]
  BY DEF Init
<1>2. PICK lines : lines = LinesOf(0, order)
  OBVIOUS
<1>3. po.lines = lines /\ po.saves = 0
  BY <1>1, <1>2
<1>4. 0 \in Gens /\ ReconConstants
  BY ReconConstants DEF ReconConstants, Gens
<1>5. IsFiniteSet(lines) /\ IdsApart(lines) /\ \A l \in lines : l.id[1] = 0
  BY <1>2, <1>4, FreshLines
<1>6. \A q \in Staff : /\ req[q].lines = {} /\ req[q].fresh = {} /\ req[q].read = {}
                       /\ req[q].pc = "idle"
  BY DEF Init, Idle
<1>7. AllLines = lines
  BY <1>3, <1>6 DEF AllLines
<1>8. LinesInv
  <2>1. IsFiniteSet({}) /\ IdsApart({})
    BY FS_EmptySet DEF IdsApart
  <2>2. \A l \in lines : l.id[1] <= 0
    BY <1>5
  <2> QED  BY <1>3, <1>5, <1>6, <1>7, <2>1, <2>2 DEF LinesInv
<1>9. ReceiptsInv
  BY <1>6 DEF ReceiptsInv, Init
<1>10. RowsApart
  BY DEF RowsApart, Apart, Init
<1> QED  BY <1>8, <1>9, <1>10 DEF MatchInv

\* No PO line and no receipt is ever on two rows of a snapshot, whatever saves, merges,
\* decisions by hand and other snapshots overlap; the lines and the receipts that a request holds
\* are as the matcher needs them.
THEOREM RowsNeverShared == Spec => []MatchInv
<1>1. IInv /\ MatchInv /\ [Next]_vars => MatchInv'
  BY NextMatchInv
<1> QED  BY <1>1, InitMatchInv, ReconciliationInvariant, PTL DEF Spec

\* Each PO line and each receipt that a snapshot read is on exactly one of its rows when it is
\* published, for any lists of lines and receipts; a receipt stays so unless a merge replaces it on
\* a PO row that another merge had paired (match.ts, mergeUnmatchedReconciliationLinesAction).
THEOREM LinesStay == Spec => LinesAccountedFor
<1> DEFINE Published == \A q \in Staff, n \in SnapIds : SnapshotCommit(q) /\ req[q].snap = n =>
                          \A l \in req[q].lines : Single(RowsWithLine(n, l.id)')
           Kept == \A n \in SnapIds : \A d \in snap[n].read :
                     snap'[n].state = "committed" /\ ~Single(RowsWithReceipt(n, d)') =>
                       \/ snap[n].state = "committed" /\ ~Single(RowsWithReceipt(n, d))
                       \/ \E q \in Staff : ReplacesReceipt(q, n, d)
<1>1. ASSUME IInv, MatchInv, MatchInv', Next PROVE Published
  <2> SUFFICES ASSUME NEW q \in Staff, NEW n \in SnapIds, SnapshotCommit(q), req[q].snap = n,
                      NEW l \in req[q].lines
               PROVE  Single(RowsWithLine(n, l.id)')
    OBVIOUS
  <2>1. PICK w \in rows'[n] : w.po = l.id
    BY <1>1, StoredRows
  <2>2. l.id # NoLine /\ Apart(rows'[n])
    BY <1>1, StoredRows
  <2>3. RowsWithLine(n, l.id)' = {w}
    BY <2>1, <2>2 DEF RowsWithLine, Apart
  <2> QED  BY <2>3 DEF Single
<1>2. ASSUME IInv, MatchInv, MatchInv', Next PROVE Kept
  <2> SUFFICES ASSUME NEW n \in SnapIds, NEW d \in snap[n].read,
                      snap'[n].state = "committed", ~Single(RowsWithReceipt(n, d)'),
                      ~(snap[n].state = "committed" /\ ~Single(RowsWithReceipt(n, d)))
               PROVE  \E q \in Staff : ReplacesReceipt(q, n, d)
    OBVIOUS
  <2>1. d # NoReceipt
    <3>1. d \in OcrLines /\ NoReceipt \notin OcrLines
      BY <1>2, ReconConstants DEF IInv, TypeOK, ReconConstants
    <3> QED  BY <3>1
  <2>2. Apart(rows'[n])
    BY <1>2 DEF MatchInv, RowsApart, Apart
  <2>3. ASSUME NEW w \in rows'[n], w.rc = d PROVE FALSE
    <3>1. RowsWithReceipt(n, d)' = {w}
      BY <2>1, <2>2, <2>3 DEF RowsWithReceipt, Apart
    <3> QED  BY <3>1 DEF Single
  <2>4. snap[n].state = "committed"
    <3>1. ASSUME NEW q \in Staff, SnapshotCommit(q), req[q].snap = n PROVE FALSE
      <4>1. d \in req[q].read
        BY <1>2, <3>1 DEF MatchInv, ReceiptsInv, SnapshotCommit
      <4>2. \E w \in rows'[n] : w.rc = d
        BY <1>2, <3>1, <4>1, StoredRows
      <4> QED  BY <2>3, <4>2
    <3> QED  BY <1>2, <3>1, SnapsKept
  <2>5. PICK w \in rows[n] : w.rc = d
    BY <2>4 DEF Single, RowsWithReceipt
  <2>6. \E q \in Staff : /\ MergeCommit(q) /\ req[q].snap = n
                         /\ \E v \in rows[n] : /\ v.rc = d
                                               /\ v.id \in {new.id : new \in req[q].pair}
    BY <1>2, <2>3, <2>4, <2>5, DroppedStep
  <2> QED  BY <2>6 DEF ReplacesReceipt, RowsWithReceipt
<1>3. IInv /\ MatchInv /\ MatchInv' /\ [Next]_vars => [/\ Published
                                                   /\ Kept]_vars
  BY <1>1, <1>2
<1> QED  BY <1>3, ReconciliationInvariant, RowsNeverShared, PTL DEF Spec, LinesAccountedFor
-----------------------------------------------------------------------------
(* The alerts are the board of SpendAlertBoard *)

\* What the board shows of the snapshots.
PhaseAndSaw(n) == <<snap[n].state, snap[n].saw>>

\* A step that leaves the alerts, and of the snapshots what the board shows, leaves the board.
LEMMA BoardKept ==
  ASSUME UNCHANGED alerts, \A n \in SnapIds : UNCHANGED PhaseAndSaw(n)
  PROVE  UNCHANGED Board!boardVars
<1>1. \A n \in SnapIds : snap'[n].state = snap[n].state /\ snap'[n].saw = snap[n].saw
  BY DEF PhaseAndSaw
<1>2. /\ UNCHANGED [n \in SnapIds |-> snap[n].state]
      /\ UNCHANGED [n \in SnapIds |-> snap[n].saw]
  BY <1>1
<1>3. /\ UNCHANGED [n \in SnapIds |-> {a.about : a \in alerts[n]}]
      /\ UNCHANGED [n \in SnapIds |-> ConditionsIn(n, "OPEN")]
      /\ UNCHANGED [n \in SnapIds |-> ConditionsIn(n, "DISMISSED")]
  BY DEF ConditionsIn
<1> QED  BY <1>2, <1>3 DEF Board!boardVars

\* The runs that are published are the snapshots that are committed.
LEMMA PublishedRuns == Board!Published = Committed
BY DEF Board!Published, Committed

\* The statements of the transaction begin a run.
LEMMA TxBeginsRun ==
  ASSUME IInv, NEW q \in Staff, SnapshotTx(q)
  PROVE  Board!BoardNext
<1>0. TypeOK
  BY DEF IInv
<1>1. PICK n \in SnapIds :
        /\ \A m \in Begun : m < n
        /\ snap' = [snap EXCEPT ![n] =
             [NoSnap EXCEPT !.state = "tx", !.trigger = req[q].included, !.read = req[q].read,
                            !.saw = Committed]]
  BY DEF SnapshotTx
<1>2. snap[n].state = "none"
  BY <1>1 DEF Begun, SnapIds
<1>3. /\ snap'[n].state = "tx" /\ snap'[n].saw = Committed
      /\ \A m \in SnapIds \ {n} : snap'[m] = snap[m]
  BY <1>0, <1>1 DEF TypeOK, NoSnap
<1>4. [m \in SnapIds |-> snap[m].state]' = [[m \in SnapIds |-> snap[m].state] EXCEPT ![n] = "tx"]
  BY <1>3
<1>5. [m \in SnapIds |-> snap[m].saw]' = [[m \in SnapIds |-> snap[m].saw] EXCEPT ![n] = Committed]
  BY <1>3
<1>6. /\ UNCHANGED [m \in SnapIds |-> {a.about : a \in alerts[m]}]
      /\ UNCHANGED [m \in SnapIds |-> ConditionsIn(m, "OPEN")]
      /\ UNCHANGED [m \in SnapIds |-> ConditionsIn(m, "DISMISSED")]
  BY DEF SnapshotTx, ConditionsIn
<1>7. Board!BeginRun(n)
  BY <1>2, <1>4, <1>5, <1>6, PublishedRuns DEF Board!BeginRun
<1> QED  BY <1>7 DEF Board!BoardNext

\* A transaction that dies abandons its run.
LEMMA DeathAbandonsRun ==
  ASSUME IInv, NEW q \in Staff, RequestDies(q), req[q].pc = "commit"
  PROVE  Board!BoardNext
<1>0. TypeOK /\ RequestOK(req[q])
  BY DEF IInv, RequestsInv
<1>1. PICK n \in SnapIds : n = req[q].snap /\ snap[n].state = "tx"
  BY <1>0 DEF RequestOK
<1>2. snap' = [snap EXCEPT ![n] = NoSnap] /\ UNCHANGED alerts
  BY <1>1 DEF RequestDies
<1>3. /\ snap'[n].state = "none" /\ snap'[n].saw = {}
      /\ \A m \in SnapIds \ {n} : snap'[m] = snap[m]
  BY <1>0, <1>2 DEF TypeOK, NoSnap
<1>4. [m \in SnapIds |-> snap[m].state]' = [[m \in SnapIds |-> snap[m].state] EXCEPT ![n] = "none"]
  BY <1>3
<1>5. [m \in SnapIds |-> snap[m].saw]' = [[m \in SnapIds |-> snap[m].saw] EXCEPT ![n] = {}]
  BY <1>3
<1>6. /\ UNCHANGED [m \in SnapIds |-> {a.about : a \in alerts[m]}]
      /\ UNCHANGED [m \in SnapIds |-> ConditionsIn(m, "OPEN")]
      /\ UNCHANGED [m \in SnapIds |-> ConditionsIn(m, "DISMISSED")]
  BY <1>2 DEF ConditionsIn
<1>7. Board!AbandonRun(n)
  BY <1>1, <1>4, <1>5, <1>6 DEF Board!AbandonRun
<1> QED  BY <1>7 DEF Board!BoardNext

\* Superseding closes what is open and forgets nothing.
LEMMA SupersedeCloses ==
  ASSUME TypeOK, NEW n \in SnapIds
  PROVE  LET after == Supersede(n)
         IN  /\ {a.about : a \in after} = {a.about : a \in alerts[n]}
             /\ {a.about : a \in {b \in after : b.status = "OPEN"}} = {}
             /\ {a.about : a \in {b \in after : b.status = "DISMISSED"}} = ConditionsIn(n, "DISMISSED")
<1> DEFINE closed(a) == IF a.status = "OPEN" THEN [a EXCEPT !.status = "SUPERSEDED"] ELSE a
<1>1. \A a \in alerts[n] :
        /\ closed(a).about = a.about /\ closed(a).status # "OPEN"
        /\ closed(a).status = "DISMISSED" <=> a.status = "DISMISSED"
  BY DEF TypeOK, Alert
<1> HIDE DEF closed
<1>2. Supersede(n) = {closed(a) : a \in alerts[n]}
  BY DEF Supersede, closed
<1> QED  BY <1>1, <1>2 DEF ConditionsIn

\* The commit of a snapshot publishes its run.
LEMMA CommitPublishesRun ==
  ASSUME IInv, NEW q \in Staff, SnapshotCommit(q)
  PROVE  Board!BoardNext
<1>0. TypeOK /\ TypeOK' /\ RequestOK(req[q])
  BY NextIInv DEF IInv, RequestsInv, Next, Snapshotting
<1>1. PICK n \in SnapIds : n = req[q].snap /\ snap[n].state = "tx"
  BY <1>0 DEF RequestOK, SnapshotCommit
<1>2. alerts[n] = {} /\ n \notin snap[n].saw
  BY <1>1 DEF IInv, SnapshotsInv, SnapshotOK, Committed
<1>3. /\ alerts'[n] = NewAlerts(q)
      /\ \A m \in SnapIds \ {n} :
           alerts'[m] = IF m \in snap[n].saw THEN Supersede(m) ELSE alerts[m]
  BY <1>1 DEF SnapshotCommit
<1>4. /\ snap'[n].state = "committed" /\ snap'[n].saw = snap[n].saw
      /\ \A m \in SnapIds \ {n} : snap'[m] = snap[m]
  BY <1>0, <1>1 DEF SnapshotCommit, TypeOK
<1>5. [m \in SnapIds |-> snap[m].state]' = [[m \in SnapIds |-> snap[m].state] EXCEPT ![n] = "committed"]
  BY <1>4
<1>6. UNCHANGED [m \in SnapIds |-> snap[m].saw]
  BY <1>4
<1>7. [m \in SnapIds |-> {a.about : a \in alerts[m]}]' \in [SnapIds -> SUBSET Subject]
  BY <1>0 DEF TypeOK, Alert
<1>8. \A m \in SnapIds \ {n} :
        /\ {a.about : a \in alerts'[m]} = {a.about : a \in alerts[m]}
        /\ ConditionsIn(m, "OPEN")' = IF m \in snap[n].saw THEN {} ELSE ConditionsIn(m, "OPEN")
        /\ ConditionsIn(m, "DISMISSED")' = ConditionsIn(m, "DISMISSED")
  BY <1>0, <1>3, SupersedeCloses DEF ConditionsIn
<1>9. /\ ConditionsIn(n, "OPEN")' = {a.about : a \in alerts'[n]}
      /\ ConditionsIn(n, "DISMISSED")' = {} /\ ConditionsIn(n, "DISMISSED") = {}
  <2>1. \A a \in NewAlerts(q) : a.status = "OPEN"
    BY DEF NewAlerts
  <2> QED  BY <1>2, <1>3, <2>1 DEF ConditionsIn
<1>10. UNCHANGED [m \in SnapIds |-> ConditionsIn(m, "DISMISSED")]
  BY <1>8, <1>9
<1>11. [m \in SnapIds |-> ConditionsIn(m, "OPEN")]'
         = [m \in SnapIds |-> IF m = n THEN {a.about : a \in alerts'[n]}
                              ELSE IF m \in snap[n].saw THEN {} ELSE ConditionsIn(m, "OPEN")]
  BY <1>8, <1>9
<1>12. Board!PublishRun(n)
  BY <1>1, <1>5, <1>6, <1>7, <1>8, <1>10, <1>11 DEF Board!PublishRun
<1> QED  BY <1>12 DEF Board!BoardNext

\* An operator's dismissal dismisses what the alert it read is about.
LEMMA WriteDismisses ==
  ASSUME IInv, NEW q \in Staff, DismissWrite(q)
  PROVE  Board!BoardNext
<1>0. TypeOK /\ RequestOK(req[q])
  BY DEF IInv, RequestsInv
<1>1. PICK n \in Committed : n = req[q].snap
  BY <1>0 DEF RequestOK, DismissWrite
<1> DEFINE hit(a) == IF a.about \in req[q].about THEN [a EXCEPT !.status = "DISMISSED"] ELSE a
           about == {a.about : a \in alerts[n]} \cap req[q].about
<1>2. n \in SnapIds
  BY DEF Committed
<1>3. \A a \in alerts[n] :
        /\ hit(a).about = a.about
        /\ hit(a).status = "OPEN" <=> a.status = "OPEN" /\ a.about \notin req[q].about
        /\ hit(a).status = "DISMISSED" <=> a.status = "DISMISSED" \/ a.about \in req[q].about
  BY <1>0, <1>2 DEF TypeOK, Alert
<1>4. /\ alerts'[n] = {hit(a) : a \in alerts[n]}
      /\ \A m \in SnapIds \ {n} : alerts'[m] = alerts[m]
  BY <1>0, <1>1, <1>2 DEF DismissWrite, TypeOK
<1> HIDE DEF hit
<1>5. /\ {a.about : a \in alerts'[n]} = {a.about : a \in alerts[n]}
      /\ ConditionsIn(n, "OPEN")' = ConditionsIn(n, "OPEN") \ about
      /\ ConditionsIn(n, "DISMISSED")' = ConditionsIn(n, "DISMISSED") \cup about
  BY <1>3, <1>4 DEF ConditionsIn
<1>6. \A m \in SnapIds \ {n} :
        /\ {a.about : a \in alerts'[m]} = {a.about : a \in alerts[m]}
        /\ ConditionsIn(m, "OPEN")' = ConditionsIn(m, "OPEN")
        /\ ConditionsIn(m, "DISMISSED")' = ConditionsIn(m, "DISMISSED")
  BY <1>4 DEF ConditionsIn
<1> HIDE DEF about
<1>7. UNCHANGED [m \in SnapIds |-> {a.about : a \in alerts[m]}]
  BY <1>5, <1>6
<1>8. [m \in SnapIds |-> ConditionsIn(m, "OPEN")]'
        = [[m \in SnapIds |-> ConditionsIn(m, "OPEN")] EXCEPT ![n] = @ \ about]
  BY <1>2, <1>5, <1>6
<1>9. [m \in SnapIds |-> ConditionsIn(m, "DISMISSED")]'
        = [[m \in SnapIds |-> ConditionsIn(m, "DISMISSED")] EXCEPT ![n] = @ \cup about]
  BY <1>2, <1>5, <1>6
<1>10. /\ UNCHANGED [m \in SnapIds |-> snap[m].state]
       /\ UNCHANGED [m \in SnapIds |-> snap[m].saw]
  BY DEF DismissWrite
<1>11. Board!DismissConditions(n, about)
  BY <1>7, <1>8, <1>9, <1>10 DEF Board!DismissConditions
<1>12. about \in SUBSET [m \in SnapIds |-> {a.about : a \in alerts[m]}][n]
  BY <1>2 DEF about
<1> QED  BY <1>11, <1>12, PublishedRuns DEF Board!BoardNext

\* Which steps change what the board shows of the snapshots.
LEMMA BoardWriters ==
  ASSUME IInv, Next
  PROVE  \/ \A n \in SnapIds : UNCHANGED PhaseAndSaw(n)
         \/ \E q \in Staff : \/ SnapshotTx(q) \/ SnapshotCommit(q)
                             \/ RequestDies(q) /\ req[q].pc = "commit"
<1>0. TypeOK
  BY DEF IInv
<1>1. UNCHANGED snap => \A n \in SnapIds : UNCHANGED PhaseAndSaw(n)
  BY DEF PhaseAndSaw
<1>2. ASSUME NEW q \in Staff, Snapshotting(q)
      PROVE  UNCHANGED snap \/ SnapshotTx(q) \/ SnapshotCommit(q)
  BY <1>2 DEF Snapshotting, CheckKey, ReadPo, ReadReceipts, SnapshotSkipped, SnapshotThrows
<1>3. ASSUME NEW q \in Staff, Merging(q)
      PROVE  UNCHANGED snap \/ AggregateWrite(q)
  BY <1>3 DEF Merging, MergeRead, MergeCommit, MergeRejected, AggregateRead
<1>4. ASSUME NEW q \in Staff, AggregateWrite(q)
      PROVE  \A n \in SnapIds : UNCHANGED PhaseAndSaw(n)
  BY <1>0, <1>4 DEF AggregateWrite, TypeOK, PhaseAndSaw
<1>5. ASSUME MarkReconciled
      PROVE  \A n \in SnapIds : UNCHANGED PhaseAndSaw(n)
  BY <1>0, <1>5 DEF MarkReconciled, TypeOK, PhaseAndSaw
<1>6. \A q \in Staff :
        \/ \E c \in OcrLines : RecordPrice(q, c)
        \/ Confirm(q) \/ RefreshManual(q) \/ SaveCommit(q) \/ DismissWrite(q)
        \/ RequestDies(q) /\ req[q].pc # "commit"
        => UNCHANGED snap
  BY DEF RecordPrice, Confirm, RefreshManual, SaveCommit, DismissWrite, RequestDies
<1>7. ASSUME NEW q \in Staff,
             \/ \E order \in Orders : SaveBegin(q, order)
             \/ \E d \in Docs, included \in Selections : ApproveRead(q, d, included)
             \/ \E n \in Committed, a \in UNION {alerts[m] : m \in Committed} :
                  DismissRead(q, n, a)
      PROVE  UNCHANGED snap
  BY <1>7 DEF SaveBegin, ApproveRead, DismissRead
<1>8. /\ PoDeleted \/ (\E d \in Docs : AttachmentDeleted(d)) => UNCHANGED snap
      /\ \A n, w, r : ResolveLine(n, w, r) => UNCHANGED snap
  BY DEF PoDeleted, AttachmentDeleted, ResolveLine
<1>9. \/ UNCHANGED snap \/ MarkReconciled
      \/ \E q \in Staff : \/ Snapshotting(q) \/ Merging(q)
                          \/ RequestDies(q) /\ req[q].pc = "commit"
  BY <1>6, <1>7, <1>8 DEF Next
<1> QED  BY <1>1, <1>2, <1>3, <1>4, <1>5, <1>9

\* Every step of the reconciliation is a step of the board or leaves it alone.
LEMMA BoardStep ==
  ASSUME IInv, [Next]_vars
  PROVE  [Board!BoardNext]_(Board!boardVars)
<1>1. CASE UNCHANGED vars
  BY <1>1, BoardKept DEF vars, PhaseAndSaw
<1>2. CASE Next
  <2>1. CASE \E q \in Staff : \/ SnapshotTx(q) \/ SnapshotCommit(q) \/ DismissWrite(q)
                              \/ RequestDies(q) /\ req[q].pc = "commit"
    BY <2>1, TxBeginsRun, CommitPublishesRun, WriteDismisses, DeathAbandonsRun
  <2>2. CASE UNCHANGED alerts /\ \A n \in SnapIds : UNCHANGED PhaseAndSaw(n)
    BY <2>2, BoardKept
  <2> QED  BY <1>2, <2>1, <2>2, Writers, BoardWriters
<1> QED  BY <1>1, <1>2

\* The alerts of a PO keep the promises of SpendAlertBoard, for any number of snapshots, receipts
\* and requests: each is raised once, closed by a run that began after its own was published or by
\* the operator, and never reopened, lost or taken out of the operator's hands.
THEOREM SpendAlertBoardRefined == Spec => ImplementsSpendAlertBoard
<1>1. Init => Board!BoardInit
  BY DEF Init, Board!BoardInit, NoSnap, ConditionsIn
<1> QED  BY <1>1, BoardStep, ReconciliationInvariant, PTL
            DEF Spec, ImplementsSpendAlertBoard, Board!BoardSpec
=============================================================================
