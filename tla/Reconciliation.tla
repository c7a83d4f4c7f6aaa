--------------------------- MODULE Reconciliation ---------------------------
(***************************************************************************)
(* The reconciliation of one purchase order with its approved receipts     *)
(* (lib/reconciliation/run.ts, actions.ts, aggregate.ts), and what it       *)
(* reads while others change it: the editor's save, the approval of a      *)
(* receipt (admin/ocr-review/actions.ts), and deletions.                   *)
(*                                                                         *)
(* A member of Staff is one request in progress; each await on the         *)
(* database ends a step.  A transaction of several statements is two       *)
(* steps: what its statements see, and its commit; where the rows it holds *)
(* make another writer wait, the other's action is not enabled.            *)
(* A PO line is <<save, position>>: a save deletes the lines it sees and   *)
(* creates new ones.  A receipt is the price row of one line that the OCR   *)
(* read in a document.  What an approval includes is the key of the        *)
(* snapshot that follows it: approvals of one document that include        *)
(* different lines, or lines read anew, have different keys.               *)
(***************************************************************************)
EXTENDS ReconMatch, Sequences

CONSTANTS Staff,          \* requests in progress at once
          Docs,           \* OCR documents of the PO awaiting review
          OcrLines,       \* the lines read in them, those of later readings too
          DocOf,          \* the document of a line
          Selections,     \* the sets of lines an operator may submit together
          NoDoc,
          Observed,       \* Observed[c]: [norm, qty, price] of a line as approved
          Orders,         \* the line lists the editor may save, sequences of [norm, qty, cost]
          MaxSaves,       \* bound: saves of the PO
          MaxSnaps,       \* bound: snapshots
          MaxIncidents,   \* bound: saves, decisions by hand, stamps, deletions and deaths
          Verdicts,       \* the resolutions an operator picks for a row
          RequestsDie     \* TRUE: a request may end at any step

ASSUME ReconConstants ==
  /\ IsFiniteSet(OcrLines) /\ NoReceipt \notin OcrLines
  /\ DocOf \in [OcrLines -> Docs] /\ NoDoc \notin Docs
  /\ Selections \subseteq SUBSET OcrLines
  /\ \A order \in Orders : \A i \in DOMAIN order, save \in 0..MaxSaves : NoLine # <<save, i>>
  /\ \A order \in Orders : IsFiniteSet(DOMAIN order) /\ DOMAIN order \subseteq Nat
  /\ MaxSaves \in Nat /\ MaxSnaps \in Nat /\ MaxIncidents \in Nat
  /\ RequestsDie \in BOOLEAN
  /\ Verdicts \subseteq {"CONFIRMED_PAIR", "ACCEPTED_VARIANCE", "REJECTED_PAIR"}

VARIABLES po,         \* the PurchaseOrder row and its POLineItem rows
          doc,        \* the OcrDocument rows
          pricedAt,   \* VendorPriceHistory: the order of creation, 0 when there is no row
          snap,       \* the POReconciliation rows, numbered by createdAt
          rows,       \* the POReconciliationLine rows of each snapshot
          alerts,     \* the SpendAlert rows of each snapshot
          req,        \* requests in progress
          rough,      \* history: snapshots whose merges overlapped or were cut short
          incidents   \* how many of MaxIncidents have happened

vars == <<po, doc, pricedAt, snap, rows, alerts, req, rough, incidents>>

-----------------------------------------------------------------------------
SnapIds == 1..MaxSnaps
Gens == 0..MaxSaves

LinesOf(gen, order) ==
  {[id |-> <<gen, i>>, norm |-> order[i].norm, qty |-> order[i].qty, cost |-> order[i].cost] :
     i \in DOMAIN order}
LineCost(l) == (l.qty * l.cost + 500) \div 1000
SubtotalOf(lines) == MapThenSumSet(LineCost, lines)
PoLines == UNION {LinesOf(g, o) : g \in Gens, o \in Orders}
Subtotals == {SubtotalOf(lines) : lines \in SUBSET PoLines}
LineIds == {l.id : l \in PoLines} \cup {NoLine}
ReceiptIds == OcrLines \cup {NoReceipt}
OfDocument(d) == {c \in OcrLines : DocOf[c] = d}

Receipt(c) == [id |-> c, at |-> pricedAt[c], norm |-> Observed[c].norm, qty |-> Observed[c].qty,
               price |-> Observed[c].price]
Receipts(read) == {Receipt(c) : c \in read}

\* A refresh by hand has a key of its own and no trigger.
NoSnap == [state |-> "none", trigger |-> {}, status |-> "PENDING", read |-> {}, saw |-> {}]
Committed == {n \in SnapIds : snap[n].state = "committed"}
Begun == {n \in SnapIds : snap[n].state # "none"}

\* A stored row keeps its id when a merge or a deletion changes the sides it names.
StoredRow(w) == [id |-> <<w.po, w.rc>>, po |-> w.po, rc |-> w.rc, match |-> w.match,
                 missing |-> w.missing, resolution |-> "NONE"]

Resolutions == {"NONE", "CONFIRMED_PAIR", "ACCEPTED_VARIANCE", "REJECTED_PAIR"}
RowIds == LineIds \X ReceiptIds
Row == [id : RowIds, po : LineIds, rc : ReceiptIds, match : POReconciliationLineMatch,
        missing : BOOLEAN, resolution : Resolutions]
Statuses == {"PENDING", "PARTIAL", "MATCHED", "VARIANCE", "REVIEW_REQUIRED", "RESOLVED"}
AlertKinds == {"PRICE_OVER_PO_EXPECTED", "QTY_MISMATCH", "UNMATCHED_RECEIPT_LINE",
               "MISSING_PO_RECEIPT_LINE", "RECONCILIATION_AMBIGUOUS", "PO_TOTAL_OVER_EXPECTED"}
Subject == [kind : AlertKinds, po : LineIds, rc : ReceiptIds]
Alert == [about : Subject, status : {"OPEN", "DISMISSED", "SUPERSEDED"}]

\* Only the fields its op uses differ from Idle.
Idle == [op |-> "idle", pc |-> "idle", doc |-> NoDoc, included |-> {}, todo |-> {}, named |-> {},
         lines |-> {}, subtotal |-> SubtotalOf({}), read |-> {}, snap |-> 0, about |-> {},
         gone |-> {}, fresh |-> {}, pair |-> {}, status |-> "PENDING"]
Done(q) == req' = [req EXCEPT ![q] = Idle]
Finishing(d) == [Idle EXCEPT !.op = "approve", !.pc = "finish", !.doc = d]
Incident == incidents < MaxIncidents /\ incidents' = incidents + 1
Goes(q, pc) == req' = [req EXCEPT ![q].pc = pc]

Request ==
  [op : {"idle", "save", "approve", "refresh", "dismiss", "merge"},
   pc : {"idle", "save", "record", "key", "readPo", "readReceipts", "tx", "commit", "finish",
         "dismiss", "merge", "aggRead", "aggWrite"},
   doc : Docs \cup {NoDoc}, included : SUBSET OcrLines, todo : SUBSET OcrLines,
   named : SUBSET OcrLines, lines : SUBSET PoLines, subtotal : Subtotals, read : SUBSET OcrLines,
   snap : SnapIds \cup {0}, about : SUBSET Subject, gone : SUBSET RowIds,
   fresh : SUBSET PoLines, pair : SUBSET Row, status : Statuses]

TypeOK ==
  /\ po \in [deleted : BOOLEAN, marked : BOOLEAN, lines : SUBSET PoLines, subtotal : Subtotals,
             saves : Gens]
  /\ doc \in [Docs -> {"review", "confirmed", "deleted"}]
  /\ pricedAt \in [OcrLines -> Nat]
  /\ snap \in [SnapIds -> [state : {"none", "tx", "committed"}, trigger : SUBSET OcrLines,
                           status : Statuses, read : SUBSET OcrLines, saw : SUBSET SnapIds]]
  /\ rows \in [SnapIds -> SUBSET Row]
  /\ alerts \in [SnapIds -> SUBSET Alert]
  /\ req \in [Staff -> Request]
  /\ rough \in [SnapIds -> BOOLEAN]
  /\ incidents \in 0..MaxIncidents

Init ==
  /\ \E o \in Orders :
       po = [deleted |-> FALSE, marked |-> FALSE, lines |-> LinesOf(0, o),
             subtotal |-> SubtotalOf(LinesOf(0, o)), saves |-> 0]
  /\ doc = [d \in Docs |-> "review"]
  /\ pricedAt = [c \in OcrLines |-> 0]
  /\ snap = [n \in SnapIds |-> NoSnap]
  /\ rows = [n \in SnapIds |-> {}]
  /\ alerts = [n \in SnapIds |-> {}]
  /\ req = [q \in Staff |-> Idle]
  /\ rough = [n \in SnapIds |-> FALSE]
  /\ incidents = 0

-----------------------------------------------------------------------------
(* savePurchaseOrderAction, deletions *)

\* A snapshot being written holds a key lock on the PO lines its rows name.
LinesHeld(lines) == \E q \in Staff : req[q].pc = "commit" /\ req[q].lines \cap lines # {}
\* A save holds the lines it deletes.
LinesDying(lines) == \E q \in Staff : req[q].pc = "save" /\ req[q].lines \cap lines # {}

\* deleteMany sees the committed lines: two saves that overlap delete the same ones, and the
\* lines of both remain.
SaveBegin(q, order) ==
  /\ req[q] = Idle
  /\ ~po.deleted
  /\ po.saves < MaxSaves /\ Incident
  /\ ~LinesHeld(po.lines)
  /\ po' = [po EXCEPT !.saves = @ + 1]
  /\ req' = [req EXCEPT ![q] = [Idle EXCEPT !.op = "save", !.pc = "save", !.lines = po.lines,
                                            !.fresh = LinesOf(po.saves + 1, order)]]
  /\ UNCHANGED <<doc, pricedAt, snap, rows, alerts, rough>>

\* onDelete: SetNull on POReconciliationLine.poLineItem.
ForgetLines(lines) ==
  [n \in SnapIds |->
     {IF w.po \in {l.id : l \in lines} THEN [w EXCEPT !.po = NoLine] ELSE w : w \in rows[n]}]

SaveCommit(q) ==
  /\ req[q].pc = "save"
  /\ po' = [po EXCEPT !.lines = (@ \ req[q].lines) \cup req[q].fresh,
                      !.subtotal = SubtotalOf(req[q].fresh)]
  /\ rows' = ForgetLines(req[q].lines)
  /\ Done(q)
  /\ UNCHANGED <<doc, pricedAt, snap, alerts, rough, incidents>>

PoDeleted ==
  /\ Incident
  /\ ~po.deleted
  /\ po' = [po EXCEPT !.deleted = TRUE]
  /\ UNCHANGED <<doc, pricedAt, snap, rows, alerts, req, rough>>

\* deletePoAttachment: the document goes with it; the price row stays, but no longer names
\* an attachment of the PO.
AttachmentDeleted(d) ==
  /\ Incident
  /\ doc[d] # "deleted"
  /\ doc' = [doc EXCEPT ![d] = "deleted"]
  /\ UNCHANGED <<po, pricedAt, snap, rows, alerts, req, rough>>

-----------------------------------------------------------------------------
(* approveOcrDocumentAction around the snapshot, refreshPoReconciliationManualAction *)

\* The lines an operator includes are lines of the document.
ApproveRead(q, d, included) ==
  /\ req[q] = Idle
  /\ doc[d] = "review"
  /\ included # {} /\ included \subseteq OfDocument(d)
  /\ req' = [req EXCEPT ![q] = [Idle EXCEPT !.op = "approve", !.pc = "record", !.doc = d,
                                            !.included = included, !.todo = included,
                                            !.named = included]]
  /\ UNCHANGED <<po, doc, pricedAt, snap, rows, alerts, rough, incidents>>

NewestReceipt(at) ==
  /\ \A c \in OcrLines : pricedAt[c] < at
  /\ at > 1 => \E c \in OcrLines : pricedAt[c] = at - 1

\* persistApprovedOcrPriceLines, one line: it is skipped when the operator left it too short a
\* label, passed over when it is recorded, and breaks a foreign key when its document is gone.
RecordPrice(q, c) ==
  LET next == [req[q] EXCEPT !.todo = @ \ {c},
                             !.pc = IF req[q].todo = {c} THEN "key" ELSE "record"]
  IN /\ req[q].pc = "record" /\ c \in req[q].todo
     /\ \/ /\ req' = [req EXCEPT ![q] = [next EXCEPT !.named = @ \ {c}]]
           /\ UNCHANGED pricedAt
        \/ /\ pricedAt[c] > 0
           /\ req' = [req EXCEPT ![q] = next] /\ UNCHANGED pricedAt
        \/ /\ pricedAt[c] = 0 /\ doc[req[q].doc] # "deleted"
           /\ req' = [req EXCEPT ![q] = next]
           /\ \E at \in 1..Cardinality(OcrLines) :
                NewestReceipt(at) /\ pricedAt' = [pricedAt EXCEPT ![c] = at]
        \/ /\ doc[req[q].doc] = "deleted"
           /\ Done(q) /\ UNCHANGED pricedAt
     /\ UNCHANGED <<po, doc, snap, rows, alerts, rough, incidents>>

\* Bound: a refresh begins while there is a snapshot left for it.
Refreshing == {q \in Staff : req[q].op = "refresh" /\ req[q].pc # "commit"}

\* The key of a refresh is fresh, so that its first look at the database is the PO.
RefreshManual(q) ==
  /\ req[q] = Idle
  /\ ~po.deleted
  /\ Cardinality(Begun) + Cardinality(Refreshing) < MaxSnaps
  /\ req' = [req EXCEPT ![q] = [Idle EXCEPT !.op = "refresh", !.pc = "readReceipts",
                                            !.lines = po.lines, !.subtotal = po.subtotal]]
  /\ UNCHANGED <<po, doc, pricedAt, snap, rows, alerts, rough, incidents>>

\* The update of the document names it by id alone.
Confirm(q) ==
  /\ req[q].pc = "finish"
  /\ LET d == req[q].doc
     IN doc' = IF doc[d] = "deleted" THEN doc ELSE [doc EXCEPT ![d] = "confirmed"]
  /\ Done(q)
  /\ UNCHANGED <<po, pricedAt, snap, rows, alerts, rough, incidents>>

-----------------------------------------------------------------------------
(* runPoReconciliationSnapshot *)

\* The key: the document and the ids of the lines included, sorted.
HasSnapshot(included) == \E n \in Committed : snap[n].trigger = included

CheckKey(q) ==
  /\ req[q].pc = "key"
  /\ IF HasSnapshot(req[q].included) THEN Goes(q, "finish") ELSE Goes(q, "readPo")
  /\ UNCHANGED <<po, doc, pricedAt, snap, rows, alerts, rough, incidents>>

ReadPo(q) ==
  /\ req[q].pc = "readPo"
  /\ IF po.deleted THEN Goes(q, "finish")
     ELSE req' = [req EXCEPT ![q] = [@ EXCEPT !.pc = "readReceipts", !.lines = po.lines,
                                              !.subtotal = po.subtotal]]
  /\ UNCHANGED <<po, doc, pricedAt, snap, rows, alerts, rough, incidents>>

\* Mutant: the receipts of this PO are read by document status instead of by price row.
ReadConfirmed == {c \in OcrLines : doc[DocOf[c]] = "confirmed"}

OnThisPo == {c \in OcrLines : pricedAt[c] > 0 /\ doc[DocOf[c]] # "deleted"}

ReadReceipts(q) ==
  /\ req[q].pc = "readReceipts"
  /\ req' = [req EXCEPT ![q] = [@ EXCEPT !.pc = "tx", !.read = OnThisPo]]
  /\ UNCHANGED <<po, doc, pricedAt, snap, rows, alerts, rough, incidents>>

\* An insert of a key that another transaction holds waits for it.
KeyFree(q) ==
  req[q].op = "approve" =>
    ~\E n \in SnapIds : snap[n].state = "tx" /\ snap[n].trigger = req[q].included

SnapshotSkipped(q) ==
  /\ req[q].pc = "tx"
  /\ KeyFree(q)
  /\ req[q].op = "approve" /\ HasSnapshot(req[q].included)
  /\ req' = [req EXCEPT ![q] = Finishing(req[q].doc)]
  /\ UNCHANGED <<po, doc, pricedAt, snap, rows, alerts, rough, incidents>>

\* Two transactions inserted the key and the other commits, or a PO line that was read is
\* gone and breaks the foreign key.
SnapshotThrows(q) ==
  /\ req[q].pc = "tx"
  /\ ~KeyFree(q) \/ ~(req[q].lines \subseteq po.lines)
  /\ ~(req[q].op = "approve" /\ HasSnapshot(req[q].included))
  /\ Done(q)
  /\ UNCHANGED <<po, doc, pricedAt, snap, rows, alerts, rough, incidents>>

\* The statements of the transaction: updateMany sees the alerts committed so far.
SnapshotTx(q) ==
  /\ req[q].pc = "tx"
  /\ KeyFree(q) /\ ~(req[q].op = "approve" /\ HasSnapshot(req[q].included))
  /\ req[q].lines \subseteq po.lines /\ ~LinesDying(req[q].lines)
  /\ \E n \in SnapIds :
       /\ \A m \in Begun : m < n
       /\ n = 1 \/ n - 1 \in Begun
       /\ snap' = [snap EXCEPT ![n] =
            [NoSnap EXCEPT !.state = "tx", !.trigger = req[q].included, !.read = req[q].read,
                           !.saw = Committed]]
       /\ req' = [req EXCEPT ![q] = [@ EXCEPT !.pc = "commit", !.snap = n]]
  /\ UNCHANGED <<po, doc, pricedAt, rows, alerts, rough, incidents>>

\* Mutants: dismissed rows are superseded too; only the price alerts are superseded; the rows
\* are deleted.
SupersedeDelete(n) == {a \in alerts[n] : a.status # "OPEN"}
SupersedeAll(n) == {[a EXCEPT !.status = "SUPERSEDED"] : a \in alerts[n]}
SupersedePrices(n) ==
  {IF a.status = "OPEN" /\ a.about.kind = "PRICE_OVER_PO_EXPECTED"
   THEN [a EXCEPT !.status = "SUPERSEDED"] ELSE a : a \in alerts[n]}

\* spendAlertSupersedeWhereForNewPoReconciliationSnapshot, checked again on the locked row.
Supersede(n) ==
  {IF a.status = "OPEN" THEN [a EXCEPT !.status = "SUPERSEDED"] ELSE a : a \in alerts[n]}

NewAlerts(q) ==
  {[about |-> s, status |-> "OPEN"] :
     s \in AlertSubjects(req[q].lines, Receipts(req[q].read), req[q].subtotal)}

SnapshotCommit(q) ==
  /\ req[q].pc = "commit"
  /\ LET n == req[q].snap
         read == SnapshotRows(req[q].lines, Receipts(req[q].read))
     IN /\ snap' = [snap EXCEPT ![n].state = "committed",
                                ![n].status = DeriveAggregateStatus(read)]
        /\ rows' = [rows EXCEPT ![n] = {StoredRow(w) : w \in read}]
        /\ alerts' = [m \in SnapIds |-> IF m = n THEN NewAlerts(q)
                                        ELSE IF m \in snap[n].saw THEN Supersede(m)
                                        ELSE alerts[m]]
  /\ IF req[q].op = "approve" THEN req' = [req EXCEPT ![q] = Finishing(req[q].doc)] ELSE Done(q)
  /\ UNCHANGED <<po, doc, pricedAt, rough, incidents>>

-----------------------------------------------------------------------------
(* dismissSpendAlertAction, resolvePoReconciliationLineAction and its reject twin *)

DismissRead(q, n, a) ==
  /\ req[q] = Idle /\ Incident
  /\ n \in Committed /\ a \in alerts[n] /\ a.status = "OPEN"
  /\ req' = [req EXCEPT ![q] = [Idle EXCEPT !.op = "dismiss", !.pc = "dismiss", !.snap = n,
                                            !.about = {a.about}]]
  /\ UNCHANGED <<po, doc, pricedAt, snap, rows, alerts, rough>>

\* The update names the alert by id alone.
DismissWrite(q) ==
  /\ req[q].pc = "dismiss"
  /\ alerts' = [alerts EXCEPT ![req[q].snap] =
       {IF a.about \in req[q].about THEN [a EXCEPT !.status = "DISMISSED"] ELSE a : a \in @}]
  /\ Done(q)
  /\ UNCHANGED <<po, doc, pricedAt, snap, rows, rough, incidents>>

ResolveLine(n, w, resolution) ==
  /\ w \in rows[n]
  /\ Incident
  /\ rows' = [rows EXCEPT ![n] = (@ \ {w}) \cup {[w EXCEPT !.resolution = resolution]}]
  /\ UNCHANGED <<po, doc, pricedAt, snap, alerts, req, rough>>

-----------------------------------------------------------------------------
(* mergeUnmatchedReconciliationLinesAction, refreshPoReconciliationAggregate *)

RowOf(n, id) == {w \in rows[n] : w.id = id}

\* The PO side is compared as it stands now, the receipt side as it was approved.
MergeRead(q, n, p, c) ==
  /\ req[q] = Idle
  /\ p \in rows[n] /\ c \in rows[n]
  /\ p.match \in MergeablePo /\ c.match \in MergeableReceipt
  /\ c.rc # NoReceipt
  /\ \E l \in po.lines :
       /\ l.id = p.po
       /\ req' = [req EXCEPT ![q] =
            [Idle EXCEPT !.op = "merge", !.pc = "merge", !.snap = n, !.gone = {c.id},
                         !.pair = {[id |-> p.id, po |-> l.id, rc |-> c.rc,
                                     match |-> ClassifyPairedLine(l, Receipt(c.rc)),
                                     missing |-> Observed[c.rc].qty = NoQty,
                                     resolution |-> "CONFIRMED_PAIR"]}]]
  /\ UNCHANGED <<po, doc, pricedAt, snap, rows, alerts, rough, incidents>>

\* delete throws when the row is gone, and the transaction rolls back.
ReceiptRowStands(q) == \E w \in rows[req[q].snap] : w.id \in req[q].gone

\* The PO row is updated by id; poLineItemId keeps its value.
MergedRow(new, old) == [new EXCEPT !.po = old.po]

AggPending(n) == \E q \in Staff : req[q].pc = "aggWrite" /\ req[q].snap = n

MergeCommit(q) ==
  /\ req[q].pc = "merge"
  /\ ReceiptRowStands(q)
  /\ LET n == req[q].snap
     IN /\ rows' = [rows EXCEPT ![n] =
             {w \in @ : w.id \notin req[q].gone /\ \A new \in req[q].pair : w.id # new.id}
             \cup UNION {{MergedRow(new, old) : old \in RowOf(n, new.id)} : new \in req[q].pair}]
        /\ rough' = [rough EXCEPT ![n] = @ \/ AggPending(n)]
  /\ Goes(q, "aggRead")
  /\ UNCHANGED <<po, doc, pricedAt, snap, alerts, incidents>>

MergeRejected(q) ==
  /\ req[q].pc = "merge"
  /\ ~ReceiptRowStands(q)
  /\ Done(q)
  /\ UNCHANGED <<po, doc, pricedAt, snap, rows, alerts, rough, incidents>>

\* Mutant: the aggregate is recomputed from the summary of the run.
SummaryStatus(n) == snap[n].status

AggregateOf(n) == DeriveAggregateStatus(rows[n])

AggregateRead(q) ==
  /\ req[q].pc = "aggRead"
  /\ req' = [req EXCEPT ![q] = [@ EXCEPT !.pc = "aggWrite",
                                         !.status = AggregateOf(req[q].snap)]]
  /\ UNCHANGED <<po, doc, pricedAt, snap, rows, alerts, rough, incidents>>

AggregateWrite(q) ==
  /\ req[q].pc = "aggWrite"
  /\ snap' = [snap EXCEPT ![req[q].snap].status = req[q].status]
  /\ Done(q)
  /\ UNCHANGED <<po, doc, pricedAt, rows, alerts, rough, incidents>>

\* markPurchaseOrderReconciledByOperatorAction: the newest snapshot is closed with the stamp.
MarkReconciled ==
  /\ Incident
  /\ ~po.deleted
  /\ po' = [po EXCEPT !.marked = TRUE]
  /\ snap' = [n \in SnapIds |-> IF n \in Committed /\ \A m \in Committed : m <= n
                                THEN [snap[n] EXCEPT !.status = "RESOLVED"] ELSE snap[n]]
  /\ UNCHANGED <<doc, pricedAt, rows, alerts, req, rough>>

\* The process restarts or the database fails: an open transaction leaves nothing.
RequestDies(q) ==
  /\ RequestsDie /\ Incident
  /\ req[q] # Idle
  /\ snap' = IF req[q].pc = "commit" THEN [snap EXCEPT ![req[q].snap] = NoSnap] ELSE snap
  /\ rough' = IF req[q].pc \in {"aggRead", "aggWrite"}
              THEN [rough EXCEPT ![req[q].snap] = TRUE] ELSE rough
  /\ Done(q)
  /\ UNCHANGED <<po, doc, pricedAt, rows, alerts>>

-----------------------------------------------------------------------------
Snapshotting(q) ==
  \/ CheckKey(q) \/ ReadPo(q) \/ ReadReceipts(q)
  \/ SnapshotSkipped(q) \/ SnapshotThrows(q) \/ SnapshotTx(q) \/ SnapshotCommit(q)

Merging(q) ==
  \/ \E n \in Committed, p, c \in UNION {rows[m] : m \in Committed} : MergeRead(q, n, p, c)
  \/ MergeCommit(q) \/ MergeRejected(q) \/ AggregateRead(q) \/ AggregateWrite(q)

Next ==
  \/ \E q \in Staff :
       \/ \E o \in Orders : SaveBegin(q, o)
       \/ SaveCommit(q)
       \/ \E d \in Docs, included \in Selections : ApproveRead(q, d, included)
       \/ \E c \in OcrLines : RecordPrice(q, c)
       \/ Confirm(q) \/ RefreshManual(q)
       \/ Snapshotting(q) \/ Merging(q)
       \/ \E n \in Committed, a \in UNION {alerts[m] : m \in Committed} : DismissRead(q, n, a)
       \/ DismissWrite(q) \/ RequestDies(q)
  \/ \E n \in Committed, w \in UNION {rows[m] : m \in Committed}, r \in Verdicts :
       ResolveLine(n, w, r)
  \/ \E d \in Docs : AttachmentDeleted(d)
  \/ PoDeleted \/ MarkReconciled

Spec == Init /\ [][Next]_vars
-----------------------------------------------------------------------------
\* An alert is still open only if no snapshot that saw its snapshot was committed: whatever
\* runs, saves and dismissals overlap, what the dashboard counts is never a condition a later
\* run has replaced (run.ts, the updateMany before the new alerts).
OpenAlertsAreCurrent ==
  \A n \in SnapIds, a \in UNION {alerts[m] : m \in SnapIds} :
    a \in alerts[n] /\ a.status = "OPEN" => \A m \in Committed : n \notin snap[m].saw

\* VENDOR_PRICE_ENGINE.md: operator-dismissed rows stay DISMISSED, whatever snapshots were
\* being written when the operator dismissed them.
DismissedStays ==
  [][\A n \in SnapIds : \A a \in alerts[n] :
       a.status = "DISMISSED" => a \in alerts'[n]]_vars

\* The alert rows as the board that the dashboard counts on.
ConditionsIn(n, status) == {a.about : a \in {b \in alerts[n] : b.status = status}}

Board == INSTANCE SpendAlertBoard WITH
  Runs <- SnapIds, Conditions <- Subject,
  phase <- [n \in SnapIds |-> snap[n].state],
  saw <- [n \in SnapIds |-> snap[n].saw],
  raised <- [n \in SnapIds |-> {a.about : a \in alerts[n]}],
  open <- [n \in SnapIds |-> ConditionsIn(n, "OPEN")],
  dismissed <- [n \in SnapIds |-> ConditionsIn(n, "DISMISSED")]

\* The snapshots, dismissals and everything that runs beside them keep the promises of
\* SpendAlertBoard: an alert never reopens, is never lost, and is closed by a later run or by the
\* operator only (run.ts, dismissSpendAlertAction).
ImplementsSpendAlertBoard == Board!BoardSpec

\* Each PO line and each receipt that a snapshot read is on exactly one of its rows when it is
\* published, so that nothing is left out or counted twice (match.ts).  A receipt stays so,
\* except that a merge replaces the receipt of a PO row which another merge paired after it
\* read the row.
RowsWithLine(n, id) == {w \in rows[n] : w.po = id}
RowsWithReceipt(n, d) == {w \in rows[n] : w.rc = d}
Single(S) == \E w \in S : S = {w}

ReplacesReceipt(q, n, d) ==
  /\ MergeCommit(q) /\ req[q].snap = n
  /\ \E w \in RowsWithReceipt(n, d) : w.id \in {new.id : new \in req[q].pair}

LinesAccountedFor ==
  [][/\ \A q \in Staff, n \in SnapIds : SnapshotCommit(q) /\ req[q].snap = n =>
          \A l \in req[q].lines : Single(RowsWithLine(n, l.id)')
     /\ \A n \in SnapIds : \A d \in snap[n].read :
          snap'[n].state = "committed" /\ ~Single(RowsWithReceipt(n, d)') =>
            \/ snap[n].state = "committed" /\ ~Single(RowsWithReceipt(n, d))
            \/ \E q \in Staff : ReplacesReceipt(q, n, d)]_vars

\* The status the finalize gates read is the one the rows give, or the operator's stamp,
\* except while a merge is on its way and after merges that overlapped or were cut short.
StatusMatchesRows ==
  \A n \in Committed :
    \/ rough[n] \/ \E q \in Staff : req[q].pc \in {"aggRead", "aggWrite"} /\ req[q].snap = n
    \/ snap[n].status \in {"RESOLVED", DeriveAggregateStatus(rows[n])}

\* A confirmed document was reconciled: a snapshot bears the key of an approval of it.  No two
\* bear the same key, however many approvals overlapped, failed and were repeated, and the
\* snapshot of an approval has read every line that the approval had on record, whether it
\* recorded it or found it recorded, unless the document was deleted (run.ts, actions.ts of
\* ocr-review).
Reconciled(d) ==
  \E n \in Committed : snap[n].trigger # {} /\ snap[n].trigger \subseteq OfDocument(d)

ConfirmedIsReconciled ==
  /\ \A d \in Docs : doc[d] = "confirmed" /\ ~po.deleted => Reconciled(d)
  /\ \A m, n \in Committed : snap[m].trigger # {} /\ snap[m].trigger = snap[n].trigger => m = n
  /\ \A q \in Staff : req[q].pc = "commit" =>
       \A c \in req[q].named : c \in snap[req[q].snap].read \/ doc[DocOf[c]] = "deleted"

\* The reconciliation page: "New snapshots supersede older OPEN rows (SUPERSEDED)": the open
\* alerts of a PO are those of one snapshot.
OpenAlertsOfOneRun ==
  \A m, n \in SnapIds : \A a \in alerts[m], b \in alerts[n] :
    a.status = "OPEN" /\ b.status = "OPEN" => m = n

\* run.ts titles the alert "Unit price above PO expectation": the receipt's price is above
\* that of the PO line.
PriceOverMeansAbove ==
  \A q \in Staff : req[q].pc = "commit" =>
    \A a \in NewAlerts(q), l \in req[q].lines :
      a.about.kind = "PRICE_OVER_PO_EXPECTED" /\ a.about.po = l.id
        => Observed[a.about.rc].price > l.cost
=============================================================================
