-------------------------- MODULE WorkQueuesProofs --------------------------
(***************************************************************************)
(* What the work queues promise for every number of POs: the type          *)
(* invariant, which is inductive as it stands, and from it, as facts about *)
(* the tables alone, where an approved estimate and a ready PO are listed  *)
(* while the lists have room, that a job never falls between two queries,  *)
(* that the screens agree, that links lead somewhere, that a handler       *)
(* accepts what a page offers, and that each row of the queues is a task.  *)
(***************************************************************************)
EXTENDS WorkQueues, TLAPS

PoRow == [row : {"absent", "live", "deleted"}, linked : BOOLEAN, status : PoStatus,
          qbo : BOOLEAN, events : SUBSET PoEventKinds,
          doc : {"none", "REVIEW_REQUIRED", "CONFIRMED", "REJECTED"},
          recon : POReconciliationStatus \cup {"none"},
          alerts : BOOLEAN, stamped : BOOLEAN]

EstRow == [status : {"DRAFT", "SENT", "APPROVED", "REJECTED", "FINALIZED"},
           deleted : BOOLEAN, link : {"none", "open", "answered", "closed"}]

\* The type invariant in the terms of the proofs.
LEMMA TypeOKRows ==
  TypeOK <=> /\ est \in EstRow /\ inv \in {"none", "UNPAID", "PAID"} /\ po \in [Pos -> PoRow]
             /\ \A p \in Pos : po[p].row = "absent" => po[p] = NoRow
  BY DEF TypeOK, EstRow, PoRow

\* The row of an absent PO is a row.
LEMMA NoRowIsPoRow == NoRow \in PoRow
  BY DEF NoRow, PoRow, PoStatus

\* One PO gets a row of the right type, which is not that of an absent one.
LEMMA OnePoChanges ==
  ASSUME TypeOK, NEW p \in Pos, NEW new \in PoRow, new.row # "absent",
         po' = [po EXCEPT ![p] = new], UNCHANGED <<est, inv>>
  PROVE  TypeOK'
<1>1. est' \in EstRow /\ inv' \in {"none", "UNPAID", "PAID"}
  BY TypeOKRows
<1>2. po' \in [Pos -> PoRow]
  BY TypeOKRows
<1>3. \A r \in Pos : po'[r].row = "absent" => po'[r] = NoRow
  BY TypeOKRows
<1> QED
  BY <1>1, <1>2, <1>3 DEF TypeOK, EstRow, PoRow

\* The estimate or its invoice changes, the POs do not.
LEMMA EstimateChanges ==
  ASSUME TypeOK, est' \in EstRow, inv' \in {"none", "UNPAID", "PAID"}, UNCHANGED po
  PROVE  TypeOK'
  BY DEF TypeOK, EstRow

-----------------------------------------------------------------------------
(* Type correctness *)

LEMMA InitTypeOK == Init => TypeOK
  BY NoRowIsPoRow DEF Init, TypeOK, PoRow, NoRow

LEMMA EstimateStepTypeOK == TypeOK /\ EstimateStep => TypeOK'
<1> SUFFICES ASSUME TypeOK, EstimateStep PROVE TypeOK'
  OBVIOUS
<1>0. est \in EstRow /\ inv \in {"none", "UNPAID", "PAID"}
  BY TypeOKRows
<1>1. CASE \E new \in {"DRAFT", "SENT", "APPROVED", "REJECTED"} : UpdateEstimateStatus(new)
  BY <1>0, <1>1, EstimateChanges DEF UpdateEstimateStatus, SetEstimate, EstRow
<1>2. CASE IssueQuoteLink
  BY <1>0, <1>2, EstimateChanges DEF IssueQuoteLink, EstRow
<1>3. CASE SendEstimateEmail
  BY <1>0, <1>3, EstimateChanges DEF SendEstimateEmail, EstRow
<1>4. CASE QuoteLinkCloses
  BY <1>0, <1>4, EstimateChanges DEF QuoteLinkCloses, EstRow
<1>5. CASE \E answer \in {"APPROVED", "REJECTED"} : CustomerResponds(answer)
  BY <1>0, <1>5, EstimateChanges DEF CustomerResponds, EstRow
<1>6. CASE FinalizeEstimate \/ UnfinalizeEstimate
  BY <1>0, <1>6, EstimateChanges DEF FinalizeEstimate, UnfinalizeEstimate, SetEstimate, EstRow
<1>7. CASE DeleteEstimate
  BY <1>0, <1>7, EstimateChanges DEF DeleteEstimate, EstRow
<1>8. CASE CreateInvoiceFromEstimate \/ MarkInvoicePaid
  BY <1>0, <1>8, EstimateChanges DEF CreateInvoiceFromEstimate, MarkInvoicePaid
<1> QED
  BY <1>1, <1>2, <1>3, <1>4, <1>5, <1>6, <1>7, <1>8 DEF EstimateStep

\* SetPo keeps the type when it is given a row that is not absent.
LEMMA SetPoTypeOK ==
  ASSUME TypeOK, NEW p \in Pos, NEW new \in PoRow, new.row # "absent", SetPo(p, new)
  PROVE  TypeOK'
  BY OnePoChanges DEF SetPo

LEMMA NewPoTypeOK ==
  ASSUME TypeOK, NEW p \in Pos, NEW linked \in BOOLEAN, NewPo(p, linked)
  PROVE  TypeOK'
<1> DEFINE new == [po[p] EXCEPT !.row = "live", !.linked = linked]
<1>1. po[p] \in PoRow
  BY TypeOKRows
<1>2. new \in PoRow /\ new.row # "absent"
  BY <1>1 DEF PoRow
<1>3. po' = [po EXCEPT ![p] = new] /\ UNCHANGED <<est, inv>>
  BY TypeOKRows DEF NewPo
<1> QED
  BY <1>2, <1>3, OnePoChanges

LEMMA SnapshotTypeOK ==
  ASSUME TypeOK, NEW p \in Pos, NEW outcome \in ReconOutcomes, NEW alerts \in BOOLEAN,
         Snapshot(p, outcome, alerts)
  PROVE  TypeOK'
<1> DEFINE new == [po[p] EXCEPT !.recon = outcome, !.alerts = alerts]
<1>1. po[p] \in PoRow /\ outcome \in POReconciliationStatus
  BY TypeOKRows, SmallTables
<1>2. new \in PoRow /\ new.row = po[p].row
  BY <1>1 DEF PoRow
<1>3. SetPo(p, new) /\ po[p].row # "absent"
  BY DEF Snapshot, SetPo
<1> QED
  BY <1>2, <1>3, SetPoTypeOK

LEMMA QboTypeOK ==
  ASSUME TypeOK, NEW p \in Pos, SetQboNumber(p)
  PROVE  TypeOK'
<1> DEFINE new == [po[p] EXCEPT !.qbo = ~@]
<1>1. po[p] \in PoRow
  BY TypeOKRows
<1>2. new \in PoRow /\ new.row = po[p].row
  BY <1>1 DEF PoRow
<1>3. SetPo(p, new) /\ po[p].row # "absent"
  BY DEF SetQboNumber, SetPo
<1> QED
  BY <1>2, <1>3, SetPoTypeOK

LEMMA StatusTypeOK ==
  ASSUME TypeOK, NEW p \in Pos, NEW status \in StatusTargets, UpdatePoStatus(p, status)
  PROVE  TypeOK'
<1> DEFINE new == [po[p] EXCEPT !.status = status]
<1>1. po[p] \in PoRow /\ status \in PoStatus
  BY TypeOKRows, SmallTables
<1>2. new \in PoRow /\ new.row = po[p].row
  BY <1>1 DEF PoRow
<1>3. SetPo(p, new) /\ po[p].row # "absent"
  BY DEF UpdatePoStatus, SetPo
<1> QED
  BY <1>2, <1>3, SetPoTypeOK

LEMMA EventsTypeOK ==
  ASSUME TypeOK, NEW p \in Pos,
         ClearPoBlocked(p) \/ \E kind \in PoEventKinds : AppendEvent(p, kind)
  PROVE  TypeOK'
<1>1. PICK events \in SUBSET PoEventKinds : SetPo(p, [po[p] EXCEPT !.events = events])
  <2>1. po[p].events \in SUBSET PoEventKinds
    BY TypeOKRows DEF PoRow
  <2>2. CASE ClearPoBlocked(p)
    <3>1. po[p].events \ {"OPERATOR_BLOCKED"} \in SUBSET PoEventKinds
      BY <2>1
    <3> QED
      BY <2>2, <3>1 DEF ClearPoBlocked
  <2>3. CASE \E kind \in PoEventKinds : AppendEvent(p, kind)
    <3>1. PICK kind \in PoEventKinds : AppendEvent(p, kind)
      BY <2>3
    <3>2. po[p].events \cup {kind} \in SUBSET PoEventKinds
      BY <2>1
    <3> QED
      BY <3>1, <3>2 DEF AppendEvent
  <2> QED
    BY <2>2, <2>3
<1> DEFINE new == [po[p] EXCEPT !.events = events]
<1>2. po[p] \in PoRow
  BY TypeOKRows
<1>3. new \in PoRow /\ new.row = po[p].row
  BY <1>2 DEF PoRow
<1>4. SetPo(p, new) /\ po[p].row # "absent"
  BY <1>1 DEF SetPo
<1> QED
  BY <1>3, <1>4, SetPoTypeOK

LEMMA DeletePoTypeOK ==
  ASSUME TypeOK, NEW p \in Pos, DeletePo(p)
  PROVE  TypeOK'
<1> DEFINE new == [NoRow EXCEPT !.row = "deleted", !.linked = po[p].linked, !.doc = po[p].doc,
                                !.recon = po[p].recon, !.alerts = po[p].alerts]
<1>1. po[p] \in PoRow
  BY TypeOKRows
<1>2. new \in PoRow /\ new.row # "absent"
  BY <1>1, NoRowIsPoRow DEF PoRow
<1>3. SetPo(p, new)
  BY DEF DeletePo
<1> QED
  BY <1>2, <1>3, SetPoTypeOK

LEMMA ReceiptTypeOK ==
  ASSUME TypeOK, NEW p \in Pos,
         ReceiptExtracted(p) \/ RejectOcrDocument(p) \/ DeletePoAttachment(p)
  PROVE  TypeOK'
<1>1. PICK doc \in {"none", "REVIEW_REQUIRED", "REJECTED"} :
        /\ po[p].row # "absent"
        /\ po' = [po EXCEPT ![p] = [po[p] EXCEPT !.doc = doc]]
        /\ UNCHANGED <<est, inv>>
  BY TypeOKRows DEF ReceiptExtracted, RejectOcrDocument, DeletePoAttachment, SetReceipt, SetPo
<1> DEFINE new == [po[p] EXCEPT !.doc = doc]
<1>2. po[p] \in PoRow
  BY TypeOKRows
<1>3. new \in PoRow /\ new.row # "absent"
  BY <1>1, <1>2 DEF PoRow
<1> QED
  BY <1>1, <1>3, OnePoChanges

LEMMA ApproveTypeOK ==
  ASSUME TypeOK, NEW p \in Pos, NEW outcome \in ReconOutcomes, NEW alerts \in BOOLEAN,
         ApproveOcrDocument(p, outcome, alerts)
  PROVE  TypeOK'
<1>0. po[p] \in PoRow /\ outcome \in POReconciliationStatus /\ po[p].row # "absent"
  BY TypeOKRows, SmallTables DEF ApproveOcrDocument
<1>1. CASE po[p].row = "live"
  <2> DEFINE new == [po[p] EXCEPT !.doc = "CONFIRMED", !.recon = outcome, !.alerts = alerts]
  <2>1. new \in PoRow /\ new.row # "absent"
    BY <1>0 DEF PoRow
  <2>2. po' = [po EXCEPT ![p] = new] /\ UNCHANGED <<est, inv>>
    BY <1>1, TypeOKRows DEF ApproveOcrDocument
  <2> QED
    BY <2>1, <2>2, OnePoChanges
<1>2. CASE po[p].row # "live"
  <2> DEFINE new == [po[p] EXCEPT !.doc = "CONFIRMED"]
  <2>1. new \in PoRow /\ new.row # "absent"
    BY <1>0 DEF PoRow
  <2>2. po' = [po EXCEPT ![p] = new] /\ UNCHANGED <<est, inv>>
    BY <1>2, TypeOKRows DEF ApproveOcrDocument
  <2> QED
    BY <2>1, <2>2, OnePoChanges
<1> QED
  BY <1>1, <1>2

LEMMA ReconciliationTypeOK ==
  ASSUME TypeOK, NEW p \in Pos,
         \/ DismissAlerts(p) \/ MarkReconciled(p)
         \/ \E outcome \in ReconOutcomes : MergeLines(p, outcome)
  PROVE  TypeOK'
<1>0. po[p] \in PoRow /\ (po[p].row = "absent" => po[p] = NoRow)
  BY TypeOKRows
<1>1. CASE DismissAlerts(p)
  <2> DEFINE new == [po[p] EXCEPT !.alerts = FALSE]
  <2>a. po[p].row # "absent"
    <3>1. po[p].alerts
      BY <1>1 DEF DismissAlerts
    <3>2. ~NoRow.alerts
      BY DEF NoRow
    <3> QED
      BY <1>0, <3>1, <3>2, Zenon
  <2>1. new \in PoRow /\ new.row # "absent"
    BY <1>0, <2>a DEF PoRow
  <2>2. po' = [po EXCEPT ![p] = new] /\ UNCHANGED <<est, inv>>
    BY <1>1, TypeOKRows DEF DismissAlerts
  <2> QED
    BY <2>1, <2>2, OnePoChanges
<1>2. CASE MarkReconciled(p)
  <2> DEFINE new == [po[p] EXCEPT !.stamped = TRUE, !.recon = IF @ = "none" THEN @ ELSE "RESOLVED"]
  <2>1. new \in PoRow /\ new.row = po[p].row
    BY <1>0 DEF PoRow, POReconciliationStatus
  <2>2. SetPo(p, new) /\ po[p].row # "absent"
    BY <1>2 DEF MarkReconciled, SetPo
  <2> QED
    BY <2>1, <2>2, SetPoTypeOK
<1>3. CASE \E outcome \in ReconOutcomes : MergeLines(p, outcome)
  <2>1. PICK outcome \in ReconOutcomes : MergeLines(p, outcome)
    BY <1>3
  <2> DEFINE new == [po[p] EXCEPT !.recon = outcome]
  <2>2. outcome \in POReconciliationStatus
    BY SmallTables
  <2>3. new \in PoRow /\ new.row # "absent"
    BY <1>0, <2>1, <2>2 DEF PoRow, MergeLines, NoRow
  <2>4. po' = [po EXCEPT ![p] = new] /\ UNCHANGED <<est, inv>>
    BY <2>1, TypeOKRows DEF MergeLines
  <2> QED
    BY <2>3, <2>4, OnePoChanges
<1> QED
  BY <1>1, <1>2, <1>3

LEMMA NextTypeOK == TypeOK /\ [Next]_vars => TypeOK'
<1> SUFFICES ASSUME TypeOK, [Next]_vars PROVE TypeOK'
  OBVIOUS
<1>1. CASE UNCHANGED vars
  BY <1>1 DEF TypeOK, vars
<1>2. CASE EstimateStep
  BY <1>2, EstimateStepTypeOK
<1>3. CASE \/ \E p \in Pos : CreatePoFromEstimate(p) \/ CreateBlankPo(p, TRUE)
           \/ \E p \in Blank : CreateBlankPo(p, FALSE)
  <2>1. PICK p \in Pos, linked \in BOOLEAN : NewPo(p, linked)
    BY <1>3, SmallTables DEF CreatePoFromEstimate, CreateBlankPo
  <2> QED
    BY <2>1, NewPoTypeOK
<1>4. CASE \E p \in Followed : NumbersAndSnapshots(p)
  BY <1>4, QboTypeOK, SnapshotTypeOK DEF NumbersAndSnapshots, Followed
<1>5. CASE \E p \in Followed \ Quiet : Rest(p)
  <2>1. PICK p \in Pos : Rest(p)
    BY <1>5 DEF Followed
  <2> QED
    BY <2>1, DeletePoTypeOK, EventsTypeOK, StatusTypeOK, ReceiptTypeOK, ApproveTypeOK,
       ReconciliationTypeOK DEF Rest, Receipts, Events
<1> QED
  BY <1>1, <1>2, <1>3, <1>4, <1>5 DEF Next

\* The tables are well formed, and a PO that was never created has no receipt, snapshot or alert.
THEOREM TypeCorrect == Spec => []TypeOK
  BY InitTypeOK, NextTypeOK, PTL DEF Spec

-----------------------------------------------------------------------------
(* What the dashboard lists when no other job comes before *)

InvoiceDue(v) ==
  /\ InvoiceAttentionEstimates(v["invoice"]) /\ HasPo(v["invoice"])
  /\ ~ApprovedNoPo(v["noPo"])

EveryEstimateRow(v) ==
  EstRows("est-awaiting", AwaitingEstimates(v["awaiting"]))
  \cup EstRows("est-no-po", ApprovedNoPo(v["noPo"]))
  \cup ReadyRows(v["candidates"])
  \cup EstRows("est-invoice", InvoiceDue(v))
  \cup EstRows("inv-unpaid", UnpaidInvoices(v["unpaid"]))

EveryPoRow(v) ==
  PoRows("po-vendor", WaitingVendorPos(v["vendor"]))
  \cup PoRows("ocr", OcrReviewDocs(v["ocr"]))
  \cup PoRows("po-recon-snap", ReconSnapshotPos(v["snapshot"]))
  \cup PoRows("po-variance", ReconAttentionPos(v["attention"]) \ ReconSnapshotPos(v["snapshot"]))

EveryCompletedRow(v) ==
  EstRows("est-done", RecentlyFinalized(v["finalized"]))
  \cup PoRows("po-done", RecentlyReconciledPos(v["reconciled"]))
  \cup EstRows("inv-paid", RecentlyPaidInvoices(v["paid"]))

\* What makes a row of the estimate or of a PO appear.
LEMMA EstRowsHas == \A kind : EstRows(kind, TRUE) = {<<kind, "est">>} /\ EstRows(kind, FALSE) = {}
  BY DEF EstRows

LEMMA RoomForOne == \A list \in Lists : Limit[list] \in Nat /\ 0 < Limit[list]
  BY DEF Limit

LEMMA AloneShown == \A list \in Lists, s \in Subjects : Shown(Alone, list, s)
  BY RoomForOne DEF Shown, Alone

\* Without other jobs a query finds all its rows, and a bucket shows them.
LEMMA AloneWithin ==
  ASSUME NEW list \in Lists, NEW rows, \A row \in rows : row[2] \in Subjects
  PROVE  Within(Alone, list, rows) = rows
  BY AloneShown DEF Within

LEMMA BucketIsList == \A row : BucketForWorkflowState(row) \in Lists
  BY DEF BucketForWorkflowState, Lists, Buckets

LEMMA AloneSections ==
  ASSUME NEW rows, \A row \in rows : row[2] \in Subjects
  PROVE  Sections(Alone, rows) = rows
  BY AloneShown, BucketIsList DEF Sections

\* The subjects of the rows.
LEMMA RowSubjects ==
  ASSUME NEW v
  PROVE  \A row \in EveryEstimateRow(v) \cup EveryPoRow(v) \cup EveryCompletedRow(v) :
           row[2] \in Subjects
<1>1. \A kind, found : \A row \in EstRows(kind, found) : row[2] \in Subjects
  BY DEF EstRows, Subjects
<1>2. \A kind : \A found \in SUBSET Pos : \A row \in PoRows(kind, found) : row[2] \in Subjects
  BY DEF PoRows, Subjects
<1>3. \A t : /\ WaitingVendorPos(t) \in SUBSET Pos /\ OcrReviewDocs(t) \in SUBSET Pos
             /\ ReconSnapshotPos(t) \in SUBSET Pos /\ ReconAttentionPos(t) \in SUBSET Pos
             /\ RecentlyReconciledPos(t) \in SUBSET Pos
  BY DEF WaitingVendorPos, OcrReviewDocs, ReconSnapshotPos, ReconAttentionPos,
     RecentlyReconciledPos, Live
<1>4. \A row \in EveryEstimateRow(v) : row[2] \in Subjects
  BY <1>1 DEF EveryEstimateRow, ReadyRows
<1>5. \A row \in EveryPoRow(v) : row[2] \in Subjects
  <2>1. ReconAttentionPos(v["attention"]) \ ReconSnapshotPos(v["snapshot"]) \in SUBSET Pos
    BY <1>3
  <2> QED
    BY <1>2, <1>3, <2>1 DEF EveryPoRow
<1>6. \A row \in EveryCompletedRow(v) : row[2] \in Subjects
  BY <1>1, <1>2, <1>3 DEF EveryCompletedRow
<1> QED
  BY <1>4, <1>5, <1>6

LEMMA AloneEstimateRows ==
  ASSUME NEW v
  PROVE  EstimateRows(v, Alone) = EveryEstimateRow(v)
<1>1. \A row \in EveryEstimateRow(v) : row[2] \in Subjects
  BY RowSubjects
<1>2. {"awaiting", "noPo", "candidates", "invoice", "unpaid"} \subseteq Lists
  BY DEF Lists, Queries
<1>3. NoPoRows(v, Alone) = EstRows("est-no-po", ApprovedNoPo(v["noPo"]))
  BY <1>1, <1>2, AloneWithin DEF NoPoRows, EveryEstimateRow
<1>4. NoPoRows(v, Alone) = {} <=> ~ApprovedNoPo(v["noPo"])
  BY <1>3 DEF EstRows
<1>5. InvoiceRows(v, Alone) = EstRows("est-invoice", InvoiceDue(v))
  <2>1. InvoiceRows(v, Alone) = Within(Alone, "invoice", EstRows("est-invoice", InvoiceDue(v)))
    BY <1>4 DEF InvoiceRows, InvoiceDue, EstRows
  <2>2. \A row \in EstRows("est-invoice", InvoiceDue(v)) : row[2] \in Subjects
    BY <1>1 DEF EveryEstimateRow
  <2> QED
    BY <1>2, <2>1, <2>2, AloneWithin
<1>6. Within(Alone, "awaiting", EstRows("est-awaiting", AwaitingEstimates(v["awaiting"])))
        = EstRows("est-awaiting", AwaitingEstimates(v["awaiting"]))
  BY <1>1, <1>2, AloneWithin DEF EveryEstimateRow
<1>7. Within(Alone, "candidates", ReadyRows(v["candidates"])) = ReadyRows(v["candidates"])
  BY <1>1, <1>2, AloneWithin DEF EveryEstimateRow
<1>8. Within(Alone, "unpaid", EstRows("inv-unpaid", UnpaidInvoices(v["unpaid"])))
        = EstRows("inv-unpaid", UnpaidInvoices(v["unpaid"]))
  BY <1>1, <1>2, AloneWithin DEF EveryEstimateRow
<1> QED
  BY <1>3, <1>5, <1>6, <1>7, <1>8 DEF EstimateRows, EveryEstimateRow

LEMMA AlonePoRows ==
  ASSUME NEW v
  PROVE  PurchaseOrderRows(v, Alone) = EveryPoRow(v)
<1>1. \A row \in EveryPoRow(v) : row[2] \in Subjects
  BY RowSubjects
<1>2. {"vendor", "ocr", "snapshot", "attention"} \subseteq Lists
  BY DEF Lists, Queries
<1>3. SnapshotRows(v, Alone) = PoRows("po-recon-snap", ReconSnapshotPos(v["snapshot"]))
  BY <1>1, <1>2, AloneWithin DEF SnapshotRows, EveryPoRow
<1>4. VarianceRows(v, Alone) =
        PoRows("po-variance", ReconAttentionPos(v["attention"]) \ ReconSnapshotPos(v["snapshot"]))
  <2> DEFINE open == {p \in ReconAttentionPos(v["attention"]) :
                        <<"po-recon-snap", p>> \notin SnapshotRows(v, Alone)}
             rest == ReconAttentionPos(v["attention"]) \ ReconSnapshotPos(v["snapshot"])
  <2>1. \A p : <<"po-recon-snap", p>> \in PoRows("po-recon-snap", ReconSnapshotPos(v["snapshot"]))
                 <=> p \in ReconSnapshotPos(v["snapshot"])
    BY DEF PoRows
  <2>2. open = rest
    BY <1>3, <2>1
  <2>3. \A row \in PoRows("po-variance", rest) : row[2] \in Subjects
    BY <1>1 DEF EveryPoRow
  <2>4. VarianceRows(v, Alone) = Within(Alone, "attention", PoRows("po-variance", open))
    BY DEF VarianceRows
  <2> HIDE DEF open, rest
  <2>5. VarianceRows(v, Alone) = PoRows("po-variance", rest)
    BY <1>2, <2>2, <2>3, <2>4, AloneWithin
  <2> QED
    BY <2>5 DEF rest
<1>5. Within(Alone, "vendor", PoRows("po-vendor", WaitingVendorPos(v["vendor"])))
        = PoRows("po-vendor", WaitingVendorPos(v["vendor"]))
  BY <1>1, <1>2, AloneWithin DEF EveryPoRow
<1>6. Within(Alone, "ocr", PoRows("ocr", OcrReviewDocs(v["ocr"]))) = PoRows("ocr", OcrReviewDocs(v["ocr"]))
  BY <1>1, <1>2, AloneWithin DEF EveryPoRow
<1> QED
  BY <1>3, <1>4, <1>5, <1>6 DEF PurchaseOrderRows, EveryPoRow

LEMMA AloneQueues ==
  ASSUME NEW v
  PROVE  GetOperationalWorkflowQueues(v, Alone) = EveryEstimateRow(v) \cup EveryPoRow(v)
<1>1. \A row \in EveryEstimateRow(v) \cup EveryPoRow(v) : row[2] \in Subjects
  BY RowSubjects
<1> QED
  BY <1>1, AloneEstimateRows, AlonePoRows, AloneSections DEF GetOperationalWorkflowQueues

LEMMA AloneCompleted ==
  ASSUME NEW v
  PROVE  RecentlyCompleted(v, Alone) = EveryCompletedRow(v)
<1>1. \A row \in EveryCompletedRow(v) : row[2] \in Subjects
  BY RowSubjects
<1>2. {"finalized", "reconciled", "paid"} \subseteq Lists
  BY DEF Lists, Queries
<1>3. Within(Alone, "finalized", EstRows("est-done", RecentlyFinalized(v["finalized"])))
        = EstRows("est-done", RecentlyFinalized(v["finalized"]))
  BY <1>1, <1>2, AloneWithin DEF EveryCompletedRow
<1>4. Within(Alone, "reconciled", PoRows("po-done", RecentlyReconciledPos(v["reconciled"])))
        = PoRows("po-done", RecentlyReconciledPos(v["reconciled"]))
  BY <1>1, <1>2, AloneWithin DEF EveryCompletedRow
<1>5. Within(Alone, "paid", EstRows("inv-paid", RecentlyPaidInvoices(v["paid"])))
        = EstRows("inv-paid", RecentlyPaidInvoices(v["paid"]))
  BY <1>1, <1>2, AloneWithin DEF EveryCompletedRow
<1> QED
  BY <1>1, <1>3, <1>4, <1>5, AloneSections DEF RecentlyCompleted, EveryCompletedRow

-----------------------------------------------------------------------------
(* Facts about the tables alone *)

\* A PO in the lifecycle queue of what is ready belongs to an approved estimate that can be
\* finalized, was deleted, or waits for the reconciliation of a sibling.
LEMMA ReadyUnlessSibling == ReadyUnlessSiblingBlocks
<1> SUFFICES ASSUME NEW p \in Pos,
                    <<p, "ready_to_finalize">> \in GetPoLifecycleDashboardQueues(Tables, Alone)
             PROVE  CanFinalize(Tables) \/ est.deleted \/ ReconAttention(Tables) \ {p} # {}
  BY DEF ReadyUnlessSiblingBlocks
<1>1. p \in Live(Tables)
      /\ LifecycleBucketForState(GetPurchaseOrderLifecycleState(Tables, p)) = "ready_to_finalize"
  BY DEF GetPoLifecycleDashboardQueues
<1>2. GetPurchaseOrderLifecycleState(Tables, p) = "ready_to_finalize"
  BY <1>1, Zenon DEF LifecycleBucketForState
<1>3. DeriveReadyToFinalizeOverlay(Tables, p)
  BY <1>2 DEF GetPurchaseOrderLifecycleState
<1>4. p \in LinkedPos(Tables) /\ p \notin ReconAttention(Tables)
  BY <1>1, <1>3 DEF DeriveReadyToFinalizeOverlay, LinkedPos, ReconAttention
<1>5. MissingQbo(Tables) = {} /\ Tables.est.status = "APPROVED"
  BY <1>3 DEF DeriveReadyToFinalizeOverlay
<1>6. CASE ReconAttention(Tables) = {}
  BY <1>4, <1>5, <1>6 DEF CanFinalize, EvaluateEstimateFinalizeGates
<1>7. CASE ReconAttention(Tables) # {}
  BY <1>4, <1>7
<1> QED
  BY <1>6, <1>7

\* Whatever the number of POs, "PO and estimate prerequisites are met" is only said of a PO whose
\* estimate can be finalized, was deleted, or waits for another PO.
THEOREM ReadyListIsHonest == Spec => []ReadyUnlessSiblingBlocks
  BY ReadyUnlessSibling, PTL

\* A job with a PO and all the numbers is ready or waits for a reconciliation.
LEMMA ReadyHasRow ==
  ASSUME NEW t, Approved(t), HasPo(t), MissingQbo(t) = {}
  PROVE  \E kind \in {"est-finalize", "est-potentially-ready"} : <<kind, "est">> \in ReadyRows(t)
<1>1. /\ ReadyToFinalizeCandidates(t)
      /\ GetOperationalWorkflowState(t) = "ready_to_finalize"
  BY DEF HasPo, ReadyToFinalizeCandidates, GetOperationalWorkflowState
<1>2. EvaluateEstimateFinalizeGates(t) \in {"ready", "reconciliation_unresolved"}
  BY DEF EvaluateEstimateFinalizeGates, HasPo, Approved
<1>3. CASE CanFinalize(t)
  <2>1. EstRows("est-finalize", TRUE) \subseteq ReadyRows(t)
    BY <1>1, <1>3 DEF ReadyRows
  <2> QED
    BY <2>1, EstRowsHas
<1>4. CASE EvaluateEstimateFinalizeGates(t) = "reconciliation_unresolved"
  <2>1. EstRows("est-potentially-ready", TRUE) \subseteq ReadyRows(t)
    BY <1>1, <1>4 DEF ReadyRows
  <2> QED
    BY <2>1, EstRowsHas
<1> QED
  BY <1>2, <1>3, <1>4 DEF CanFinalize

\* An approved estimate has a row that names its next step, or lacks a number and is paid, or
\* there is no room in the list of that step.
LEMMA ApprovedHasRow == TypeOK => ApprovedIsListed
<1> DEFINE v == AllSee(Tables)
<1> SUFFICES ASSUME TypeOK, Approved(Tables), NEW ahead \in Crowds,
                    ~Crowded(ahead, StepLists, "est")
             PROVE  \/ NamesStep(v, ahead)
                    \/ HasPo(Tables) /\ MissingQbo(Tables) # {} /\ inv = "PAID"
  BY DEF ApprovedIsListed
<1>0. \A q \in Queries : v[q] = Tables
  BY DEF AllSee
<1>1. v["noPo"] = Tables /\ v["candidates"] = Tables /\ v["invoice"] = Tables /\ v["unpaid"] = Tables
  BY <1>0 DEF Queries
<1> HIDE DEF v
<1>a. ASSUME NEW kind \in StepKinds, <<kind, "est">> \in EstimateRows(v, ahead),
             Shown(ahead, BucketForWorkflowState(<<kind, "est">>), "est")
      PROVE  NamesStep(v, ahead)
  <2>1. <<kind, "est">>[1] = kind /\ <<kind, "est">>[2] = "est"
    OBVIOUS
  <2>2. <<kind, "est">> \in Sections(ahead, EstimateRows(v, ahead))
    BY <1>a, <2>1 DEF Sections
  <2> QED
    BY <2>1, <2>2 DEF NamesStep
<1>b. ASSUME NEW list, NEW rows, NEW kind, <<kind, "est">> \in rows, Shown(ahead, list, "est")
      PROVE  <<kind, "est">> \in Within(ahead, list, rows)
  BY <1>b DEF Within
<1>c. \A list \in StepLists : Shown(ahead, list, "est")
  BY DEF Crowded
<1>2. CASE ~HasPo(Tables)
  <2>1. ApprovedNoPo(Tables)
    BY <1>2 DEF ApprovedNoPo, HasPo
  <2>2. StepLists = {"noPo", "approved_waiting_po"}
    BY <1>2 DEF StepLists
  <2>3. <<"est-no-po", "est">> \in EstRows("est-no-po", ApprovedNoPo(v["noPo"]))
    BY <1>1, <2>1, EstRowsHas
  <2>4. <<"est-no-po", "est">> \in EstimateRows(v, ahead)
    BY <1>b, <1>c, <2>2, <2>3 DEF EstimateRows, NoPoRows
  <2>5. BucketForWorkflowState(<<"est-no-po", "est">>) = "approved_waiting_po"
    BY DEF BucketForWorkflowState
  <2> QED
    BY <1>a, <1>c, <2>2, <2>4, <2>5 DEF StepKinds
<1>3. CASE HasPo(Tables) /\ MissingQbo(Tables) = {}
  <2>1. PICK kind \in {"est-finalize", "est-potentially-ready"} : <<kind, "est">> \in ReadyRows(Tables)
    BY <1>3, ReadyHasRow
  <2>2. StepLists = {"candidates", "ready_to_finalize"}
    BY <1>3 DEF StepLists
  <2>3. <<kind, "est">> \in Within(ahead, "candidates", ReadyRows(v["candidates"]))
    BY <1>1, <1>b, <1>c, <2>1, <2>2
  <2>4. BucketForWorkflowState(<<kind, "est">>) = "ready_to_finalize"
    BY DEF BucketForWorkflowState
  <2> QED
    BY <1>a, <1>c, <2>2, <2>3, <2>4 DEF StepKinds, EstimateRows
<1>4. CASE HasPo(Tables) /\ MissingQbo(Tables) # {} /\ inv = "none"
  <2>1. /\ InvoiceAttentionEstimates(Tables) /\ HasPo(Tables) /\ ~ApprovedNoPo(Tables)
    BY <1>4 DEF InvoiceAttentionEstimates, ApprovedNoPo, HasPo, Tables
  <2>2. StepLists = {"invoice", "invoice_attention"}
    BY <1>4 DEF StepLists
  <2>3. NoPoRows(v, ahead) = {}
    BY <1>1, <2>1 DEF NoPoRows, Within, EstRows
  <2>4. <<"est-invoice", "est">> \in InvoiceRows(v, ahead)
    <3> DEFINE due == InvoiceAttentionEstimates(v["invoice"]) /\ HasPo(v["invoice"]) /\ NoPoRows(v, ahead) = {}
    <3>1. <<"est-invoice", "est">> \in EstRows("est-invoice", due)
      BY <1>1, <2>1, <2>3 DEF EstRows
    <3> QED
      BY <1>b, <1>c, <2>2, <3>1 DEF InvoiceRows
  <2>5. BucketForWorkflowState(<<"est-invoice", "est">>) = "invoice_attention"
    BY DEF BucketForWorkflowState
  <2> QED
    BY <1>a, <1>c, <2>2, <2>4, <2>5 DEF StepKinds, EstimateRows
<1>5. CASE HasPo(Tables) /\ MissingQbo(Tables) # {} /\ inv = "UNPAID"
  <2>1. UnpaidInvoices(Tables)
    BY <1>5 DEF UnpaidInvoices, Tables
  <2>2. StepLists = {"unpaid", "invoice_attention"}
    BY <1>5 DEF StepLists
  <2>3. <<"inv-unpaid", "est">> \in EstRows("inv-unpaid", UnpaidInvoices(v["unpaid"]))
    BY <1>1, <2>1, EstRowsHas
  <2>4. <<"inv-unpaid", "est">> \in EstimateRows(v, ahead)
    BY <1>b, <1>c, <2>2, <2>3 DEF EstimateRows
  <2>5. BucketForWorkflowState(<<"inv-unpaid", "est">>) = "invoice_attention"
    BY DEF BucketForWorkflowState
  <2> QED
    BY <1>a, <1>c, <2>2, <2>4, <2>5 DEF StepKinds
<1>6. inv \in {"none", "UNPAID", "PAID"}
  BY TypeOKRows
<1> QED
  BY <1>2, <1>3, <1>4, <1>5, <1>6

\* However many POs it has and whatever crowds the dashboard's lists, an approved estimate is
\* shown with its next step as long as the one list that asks for this step has room for it,
\* unless it is billed and paid and only lacks a QuickBooks number.
THEOREM ApprovedNeverLost == Spec => []ApprovedIsListed
  BY TypeCorrect, ApprovedHasRow, PTL

\* A PO whose reconciliation needs attention is listed where that is decided, if there is room.
LEMMA BlockedHasRow == TypeOK => BlockedCloseoutIsListed
<1> SUFFICES ASSUME TypeOK, NEW ahead \in Crowds, NEW p \in ReconAttention(Tables)
             PROVE  \/ /\ ~po[p].stamped
                       /\ \/ <<"po-variance", p>> \in GetOperationalWorkflowQueues(AllSee(Tables), ahead)
                          \/ Crowded(ahead, {"attention", "reconciliation_variance"}, p)
                    \/ /\ po[p].stamped /\ po[p].status # "CANCELED"
                       /\ \/ \E b \in {"variance_detected", "blocked_backordered"} :
                               <<p, b>> \in GetPoLifecycleDashboardQueues(Tables, ahead)
                          \/ Crowded(ahead, {"lifecycle", "lifecycleSection"}, p)
                    \/ po[p].stamped /\ po[p].status = "CANCELED"
  BY DEF BlockedCloseoutIsListed
<1>3. p \in Live(Tables) /\ ReconciliationNeedsAttention(po[p].recon) /\ Tables.po = po
  BY DEF ReconAttention, LinkedPos, Tables
<1>b. po[p].stamped \in BOOLEAN
  BY <1>3, TypeOKRows DEF Live, PoRow
<1>4. CASE ~po[p].stamped
  <2> SUFFICES ASSUME ~Crowded(ahead, {"attention", "reconciliation_variance"}, p)
               PROVE  <<"po-variance", p>> \in GetOperationalWorkflowQueues(AllSee(Tables), ahead)
    BY <1>4
  <2>0. Shown(ahead, "attention", p) /\ Shown(ahead, "reconciliation_variance", p)
    BY DEF Crowded
  <2>1. p \in ReconAttentionPos(Tables) /\ p \notin ReconSnapshotPos(Tables)
    BY <1>3, <1>4 DEF ReconAttentionPos, ReconSnapshotPos, ReconciliationNeedsAttention
  <2>2. AllSee(Tables)["attention"] = Tables /\ AllSee(Tables)["snapshot"] = Tables
    BY DEF AllSee, Queries
  <2>3. <<"po-recon-snap", p>> \notin SnapshotRows(AllSee(Tables), ahead)
    BY <2>1, <2>2 DEF SnapshotRows, Within, PoRows
  <2>4. <<"po-variance", p>> \in VarianceRows(AllSee(Tables), ahead)
    BY <2>0, <2>1, <2>2, <2>3 DEF VarianceRows, Within, PoRows
  <2>5. BucketForWorkflowState(<<"po-variance", p>>) = "reconciliation_variance"
    BY DEF BucketForWorkflowState
  <2>6. <<"po-variance", p>> \in PurchaseOrderRows(AllSee(Tables), ahead)
    BY <2>4 DEF PurchaseOrderRows
  <2>7. <<"po-variance", p>> \in Sections(ahead, PurchaseOrderRows(AllSee(Tables), ahead))
    BY <2>0, <2>5, <2>6 DEF Sections
  <2> QED
    BY <2>7 DEF GetOperationalWorkflowQueues
<1>5. CASE po[p].stamped /\ po[p].status # "CANCELED"
  <2> SUFFICES ASSUME ~Crowded(ahead, {"lifecycle", "lifecycleSection"}, p)
               PROVE  \E b \in {"variance_detected", "blocked_backordered"} :
                        <<p, b>> \in GetPoLifecycleDashboardQueues(Tables, ahead)
    BY <1>5
  <2>0. Shown(ahead, "lifecycle", p) /\ Shown(ahead, "lifecycleSection", p)
    BY DEF Crowded
  <2>1. HasVariance(po[p])
    BY <1>3 DEF HasVariance
  <2>2. GetPurchaseOrderLifecycleState(Tables, p) \in {"blocked_backordered", "variance_detected"}
    BY <2>1, <1>3, <1>5 DEF GetPurchaseOrderLifecycleState
  <2>3. LifecycleBucketForState(GetPurchaseOrderLifecycleState(Tables, p))
          \in {"blocked_backordered", "variance_detected"}
    BY <2>2 DEF LifecycleBucketForState
  <2>4. PICK b \in {"variance_detected", "blocked_backordered"} :
          b = LifecycleBucketForState(GetPurchaseOrderLifecycleState(Tables, p))
    BY <2>3
  <2>5. <<p, b>> \in GetPoLifecycleDashboardQueues(Tables, ahead)
    BY <2>0, <2>4, <1>3, <1>5 DEF GetPoLifecycleDashboardQueues
  <2> QED
    BY <2>5
<1> QED
  BY <1>b, <1>4, <1>5

\* However many POs an estimate has and whatever crowds the lists, each PO for whose
\* reconciliation its closeout is refused is listed where that is decided as long as there is
\* room for it; a canceled PO that was stamped reconciled excepted.
THEOREM BlockedCloseoutTraced == Spec => []BlockedCloseoutIsListed
  BY TypeCorrect, BlockedHasRow, PTL

\* The step an approved job is listed with, when the lists have room.
LEMMA StepsNamed ==
  ASSUME NEW v
  PROVE  NamesStep(v, Alone) <=> \/ ApprovedNoPo(v["noPo"])
                                 \/ \E kind \in {"est-finalize", "est-potentially-ready"} :
                                      <<kind, "est">> \in ReadyRows(v["candidates"])
                                 \/ InvoiceDue(v)
                                 \/ UnpaidInvoices(v["unpaid"])
<1>1. \A row \in EveryEstimateRow(v) : row[2] \in Subjects
  BY RowSubjects
<1>2. Sections(Alone, EstimateRows(v, Alone)) = EveryEstimateRow(v)
  BY <1>1, AloneEstimateRows, AloneSections
<1>3. \A kind, x : <<kind, x>>[1] = kind
  OBVIOUS
<1>4. \A kind, found, row : row \in EstRows(kind, found) <=> row = <<kind, "est">> /\ found
  BY DEF EstRows
<1>5. \A row \in ReadyRows(v["candidates"]) :
        row = <<"est-finalize", "est">> \/ row = <<"est-potentially-ready", "est">>
  BY DEF ReadyRows, EstRows
<1>6. ASSUME NEW row \in EveryEstimateRow(v), row[1] \in StepKinds
      PROVE  \/ ApprovedNoPo(v["noPo"])
             \/ \E kind \in {"est-finalize", "est-potentially-ready"} :
                  <<kind, "est">> \in ReadyRows(v["candidates"])
             \/ InvoiceDue(v)
             \/ UnpaidInvoices(v["unpaid"])
  <2>1. CASE row \in EstRows("est-awaiting", AwaitingEstimates(v["awaiting"]))
    BY <1>3, <1>4, <1>6, <2>1 DEF StepKinds
  <2>2. CASE row \in ReadyRows(v["candidates"])
    BY <1>5, <2>2
  <2> QED
    BY <1>4, <2>1, <2>2 DEF EveryEstimateRow
<1>7. ASSUME NEW kind \in StepKinds, <<kind, "est">> \in EveryEstimateRow(v)
      PROVE  NamesStep(v, Alone)
  BY <1>2, <1>3, <1>7 DEF NamesStep
<1>8. /\ ApprovedNoPo(v["noPo"]) => <<"est-no-po", "est">> \in EveryEstimateRow(v)
      /\ InvoiceDue(v) => <<"est-invoice", "est">> \in EveryEstimateRow(v)
      /\ UnpaidInvoices(v["unpaid"]) => <<"inv-unpaid", "est">> \in EveryEstimateRow(v)
      /\ ReadyRows(v["candidates"]) \subseteq EveryEstimateRow(v)
  BY <1>4 DEF EveryEstimateRow
<1>9. NamesStep(v, Alone) => \E row \in EveryEstimateRow(v) : row[1] \in StepKinds
  BY <1>2 DEF NamesStep
<1> QED
  BY <1>6, <1>7, <1>8, <1>9 DEF StepKinds

\* The row of a job that is ready does not depend on the invoice.
LEMMA ReadyWithoutInvoice ==
  ASSUME NEW t, NEW u, t.est = u.est, t.po = u.po
  PROVE  ReadyRows(t) = ReadyRows(u)
<1>1. LinkedPos(t) = LinkedPos(u)
  BY DEF LinkedPos, Live
<1>2. MissingQbo(t) = MissingQbo(u) /\ ReconAttention(t) = ReconAttention(u)
  BY <1>1 DEF MissingQbo, ReconAttention
<1>3. EvaluateEstimateFinalizeGates(t) = EvaluateEstimateFinalizeGates(u)
  BY <1>1, <1>2 DEF EvaluateEstimateFinalizeGates
<1>4. ReadyToFinalizeCandidates(t) <=> ReadyToFinalizeCandidates(u)
  BY <1>1 DEF ReadyToFinalizeCandidates, Approved
<1>5. GetOperationalWorkflowState(t) = GetOperationalWorkflowState(u)
  BY <1>1, <1>2 DEF GetOperationalWorkflowState
<1> QED
  BY <1>3, <1>4, <1>5 DEF ReadyRows, CanFinalize, EstRows

\* The invoice is created and paid by steps that change nothing else.
LEMMA InvoiceSteps ==
  ASSUME [Next]_vars
  PROVE  \/ inv' = inv
         \/ UNCHANGED <<est, po>> /\ inv = "none" /\ inv' = "UNPAID"
         \/ UNCHANGED <<est, po>> /\ inv = "UNPAID" /\ inv' = "PAID"
<1>1. CASE UNCHANGED vars
  BY <1>1 DEF vars
<1>2. CASE EstimateStep
  BY <1>2 DEF EstimateStep, UpdateEstimateStatus, IssueQuoteLink, SendEstimateEmail,
     QuoteLinkCloses, CustomerResponds, FinalizeEstimate, UnfinalizeEstimate, DeleteEstimate,
     CreateInvoiceFromEstimate, MarkInvoicePaid, SetEstimate
<1>3. CASE \/ \E p \in Pos : CreatePoFromEstimate(p) \/ CreateBlankPo(p, TRUE)
           \/ \E p \in Blank : CreateBlankPo(p, FALSE)
  BY <1>3 DEF CreatePoFromEstimate, CreateBlankPo, NewPo
<1>4. CASE \E p \in Followed : NumbersAndSnapshots(p)
  BY <1>4 DEF NumbersAndSnapshots, SetQboNumber, Snapshot, SetPo
<1>5. CASE \E p \in Followed \ Quiet : Rest(p)
  BY <1>5 DEF Rest, Receipts, Events, DeletePo, DismissAlerts, MarkReconciled, UpdatePoStatus,
     MergeLines, ReceiptExtracted, RejectOcrDocument, DeletePoAttachment, ApproveOcrDocument,
     ClearPoBlocked, AppendEvent, SetReceipt, SetPo
<1> QED
  BY <1>1, <1>2, <1>3, <1>4, <1>5 DEF Next

\* Whichever queries see the step, one of them finds the job.
LEMMA StraddledNames ==
  ASSUME TypeOK, TypeOK', [Next]_vars, Approved(Tables), Approved(Tables'),
         HasPo(Tables) = HasPo(Tables'),
         inv = inv' \/ inv' = "PAID" \/ MissingQbo(Tables) = {},
         NamesStep(AllSee(Tables), Alone), NamesStep(AllSee(Tables'), Alone),
         NEW late \in SUBSET {"noPo", "candidates", "invoice", "unpaid"}
  PROVE  NamesStep(Straddled(late), Alone)
<1> DEFINE t == Tables
           u == Tables'
           v == Straddled(late)
           Ready(x) == \E kind \in {"est-finalize", "est-potentially-ready"} :
                         <<kind, "est">> \in ReadyRows(x)
<1>0. /\ t.est = est /\ t.inv = inv /\ t.po = po
      /\ u.est = est' /\ u.inv = inv' /\ u.po = po'
      /\ inv \in {"none", "UNPAID", "PAID"} /\ inv' \in {"none", "UNPAID", "PAID"}
  BY DEF Tables, TypeOK
<1>1. \A q \in Queries : v[q] = t \/ v[q] = u
  BY DEF Straddled
<1>2. /\ v["noPo"] = t \/ v["noPo"] = u
      /\ v["candidates"] = t \/ v["candidates"] = u
      /\ v["invoice"] = t \/ v["invoice"] = u
      /\ v["unpaid"] = t \/ v["unpaid"] = u
  BY <1>1 DEF Queries
<1>3. \A x : /\ AllSee(x)["noPo"] = x /\ AllSee(x)["candidates"] = x
             /\ AllSee(x)["invoice"] = x /\ AllSee(x)["unpaid"] = x
  BY DEF AllSee, Queries
<1>4. SUFFICES \/ ApprovedNoPo(v["noPo"]) \/ Ready(v["candidates"])
               \/ InvoiceDue(v) \/ UnpaidInvoices(v["unpaid"])
  BY StepsNamed
<1>5. \A x : NamesStep(AllSee(x), Alone) =>
               \/ ApprovedNoPo(x) \/ Ready(x)
               \/ InvoiceAttentionEstimates(x) \/ UnpaidInvoices(x)
  BY <1>3, StepsNamed DEF InvoiceDue
<1>6. /\ ~HasPo(t) => ApprovedNoPo(t) /\ ApprovedNoPo(u)
      /\ HasPo(t) => HasPo(u) /\ ~ApprovedNoPo(t) /\ ~ApprovedNoPo(u)
  BY DEF ApprovedNoPo, HasPo
<1>7. CASE ~HasPo(t)
  BY <1>2, <1>6, <1>7
<1>8. CASE HasPo(t) /\ inv = "none" /\ inv' = "none"
  <2>1. InvoiceAttentionEstimates(t) /\ InvoiceAttentionEstimates(u)
    BY <1>0, <1>8 DEF InvoiceAttentionEstimates
  <2> QED
    BY <1>2, <1>6, <1>8, <2>1 DEF InvoiceDue
<1>9. CASE HasPo(t) /\ inv = "UNPAID" /\ inv' = "UNPAID"
  <2>1. UnpaidInvoices(t) /\ UnpaidInvoices(u)
    BY <1>0, <1>9 DEF UnpaidInvoices
  <2> QED
    BY <1>2, <2>1
<1>10. \A x \in {t, u} : x.inv = "PAID" /\ HasPo(x) => Ready(x)
  BY <1>5, <1>6 DEF InvoiceAttentionEstimates, UnpaidInvoices
<1>11. CASE HasPo(t) /\ inv = "PAID" /\ inv' = "PAID"
  BY <1>0, <1>2, <1>6, <1>10, <1>11
<1>12. CASE HasPo(t) /\ inv # inv'
  <2>1. UNCHANGED <<est, po>> /\ (inv' = "PAID" \/ MissingQbo(t) = {})
    BY <1>12, InvoiceSteps
  <2>2. ReadyRows(t) = ReadyRows(u)
    BY <1>0, <2>1, ReadyWithoutInvoice
  <2>3. Ready(t) \/ Ready(u)
    BY <1>0, <1>6, <1>10, <1>12, <2>1, ReadyHasRow
  <2> QED
    BY <1>2, <2>2, <2>3
<1> QED
  BY <1>0, <1>7, <1>8, <1>9, <1>11, <1>12

\* Whatever the number of POs, a job that is listed before and after a change is on the dashboard
\* whichever of its queries see the change, the hand-overs that JobStaysListed names excepted.
THEOREM JobNeverBetweenQueries == Spec => JobStaysListed
<1>1. TypeOK /\ TypeOK' /\ [Next]_vars =>
      [/\ Approved(Tables) /\ Approved(Tables')
       /\ HasPo(Tables) = HasPo(Tables')
       /\ inv = inv' \/ inv' = "PAID" \/ MissingQbo(Tables) = {}
       /\ NamesStep(AllSee(Tables), Alone) /\ NamesStep(AllSee(Tables'), Alone)
       => \A late \in SUBSET {"noPo", "candidates", "invoice", "unpaid"} :
            NamesStep(Straddled(late), Alone)]_vars
  BY StraddledNames
<1> QED
  BY <1>1, TypeCorrect, PTL DEF Spec, JobStaysListed

-----------------------------------------------------------------------------
(* The screens agree *)

\* The finalize gates open on the conditions that the checklist shows.
LEMMA GatesOpen ==
  ASSUME NEW t
  PROVE  CanFinalize(t) <=> /\ t.est.status = "APPROVED" /\ LinkedPos(t) # {}
                            /\ MissingQbo(t) = {} /\ ReconAttention(t) = {}
<1>1. CASE t.est.status = "APPROVED" /\ LinkedPos(t) # {} /\ MissingQbo(t) = {}
  BY <1>1, Zenon DEF CanFinalize, EvaluateEstimateFinalizeGates
<1>2. CASE ~(t.est.status = "APPROVED" /\ LinkedPos(t) # {} /\ MissingQbo(t) = {})
  <2>1. MissingQbo(t) # {} => LinkedPos(t) # {}
    BY DEF MissingQbo
  <2> QED  BY <1>2, <2>1 DEF CanFinalize, EvaluateEstimateFinalizeGates
<1> QED  BY <1>1, <1>2

\* The kinds of the rows of estimates and invoices, and what makes each appear.
LEMMA EstimateRowKinds ==
  ASSUME NEW t
  PROVE  LET queues == {r[1] : r \in EstimateRows(AllSee(t), Alone)}
         IN  /\ "est-awaiting" \in queues <=> AwaitingEstimates(t)
             /\ ~Approved(t) => queues \subseteq {"est-awaiting", "inv-unpaid"}
<1> DEFINE v == AllSee(t)
           queues == {r[1] : r \in EveryEstimateRow(v)}
<1>a. EstimateRows(v, Alone) = EveryEstimateRow(v)
  BY AloneEstimateRows
<1>0. /\ v["awaiting"] = t /\ v["noPo"] = t /\ v["candidates"] = t
      /\ v["invoice"] = t /\ v["unpaid"] = t
  BY DEF AllSee, Queries
<1> HIDE DEF v
<1>2. ASSUME NEW r \in EveryEstimateRow(v)
      PROVE  \/ r[1] = "est-awaiting" /\ AwaitingEstimates(t)
             \/ r[1] = "est-no-po" /\ ApprovedNoPo(t)
             \/ r[1] \in {"est-finalize", "est-potentially-ready"}
                  /\ ReadyToFinalizeCandidates(t)
             \/ r[1] = "est-invoice" /\ InvoiceAttentionEstimates(t)
             \/ r[1] = "inv-unpaid"
  <2>1. \A kind : \A found \in BOOLEAN : \A x \in EstRows(kind, found) : x[1] = kind /\ found
    BY DEF EstRows
  <2>2. CASE r \in EstRows("est-awaiting", AwaitingEstimates(t))
    BY <2>1, <2>2 DEF AwaitingEstimates
  <2>3. CASE r \in EstRows("est-no-po", ApprovedNoPo(t))
    BY <2>1, <2>3 DEF ApprovedNoPo
  <2>4. CASE r \in ReadyRows(t)
    BY <2>1, <2>4 DEF ReadyRows, ReadyToFinalizeCandidates, CanFinalize
  <2>5. CASE r \in EstRows("est-invoice", InvoiceDue(v))
    BY <1>0, <2>1, <2>5 DEF InvoiceDue, InvoiceAttentionEstimates
  <2>6. CASE r \in EstRows("inv-unpaid", UnpaidInvoices(t))
    BY <2>1, <2>6 DEF UnpaidInvoices
  <2> QED  BY <1>0, <2>2, <2>3, <2>4, <2>5, <2>6 DEF EveryEstimateRow
<1>3. AwaitingEstimates(t) => "est-awaiting" \in queues
  <2> SUFFICES ASSUME AwaitingEstimates(t) PROVE "est-awaiting" \in queues
    OBVIOUS
  <2>1. <<"est-awaiting", "est">> \in EveryEstimateRow(v)
    BY <1>0, EstRowsHas DEF EveryEstimateRow
  <2> QED  BY <2>1
<1>4. "est-awaiting" \in queues => AwaitingEstimates(t)
  BY <1>2
<1>5. ~Approved(t) => queues \subseteq {"est-awaiting", "inv-unpaid"}
  BY <1>2 DEF ApprovedNoPo, ReadyToFinalizeCandidates, InvoiceAttentionEstimates
<1> QED  BY <1>a, <1>3, <1>4, <1>5 DEF v

\* What the flow lists and the list of completed work show.
LEMMA FlowKinds ==
  ASSUME NEW t
  PROVE  LET flow == {r[1] : r \in GetDashboardEstimatePoFlow(t)
                               \cup GetDashboardEstimateInvoiceFlow(t)
                               \cup GetDashboardQuoteAttention(t)}
             done == {r[1] : r \in RecentlyCompleted(AllSee(t), Alone)}
         IN  /\ "acceptedAwaitingPo" \in flow <=> Approved(t) /\ LinkedPos(t) = {}
             /\ "awaitingCustomerResponse" \in flow <=>
                  t.est.status = "SENT" /\ ~t.est.deleted /\ t.est.link = "open"
             /\ "recentlyPaid" \in flow <=> t.inv = "PAID"
             /\ "inv-paid" \in done <=> t.inv = "PAID"
             /\ "est-done" \in done <=> t.est.status = "FINALIZED" /\ ~t.est.deleted
             /\ \A p : <<"po-done", p>> \in RecentlyCompleted(AllSee(t), Alone)
                         => p \in Live(t) /\ t.po[p].stamped
<1>0. AllSee(t)["finalized"] = t /\ AllSee(t)["reconciled"] = t /\ AllSee(t)["paid"] = t
  BY DEF AllSee, Queries
<1>2. \A kind, found : \A r \in PoRows(kind, found) : r[1] = kind /\ r[2] \in found
  BY DEF PoRows
<1>3. \A kind, found : found => <<kind, "est">> \in EstRows(kind, found)
  BY DEF EstRows
<1> DEFINE flow == GetDashboardEstimatePoFlow(t) \cup GetDashboardEstimateInvoiceFlow(t)
                     \cup GetDashboardQuoteAttention(t)
           done == RecentlyCompleted(AllSee(t), Alone)
<1>a. done = EveryCompletedRow(AllSee(t))
  BY AloneCompleted
<1>4. \A r \in flow :
        /\ r[1] = "acceptedAwaitingPo" => Approved(t) /\ LinkedPos(t) = {}
        /\ r[1] = "awaitingCustomerResponse" =>
             t.est.status = "SENT" /\ ~t.est.deleted /\ t.est.link = "open"
        /\ r[1] = "recentlyPaid" => t.inv = "PAID"
  BY <1>2 DEF GetDashboardEstimatePoFlow, GetDashboardEstimateInvoiceFlow,
     GetDashboardQuoteAttention, EstRows
<1>5. /\ Approved(t) /\ LinkedPos(t) = {} => <<"acceptedAwaitingPo", "est">> \in flow
      /\ t.est.status = "SENT" /\ ~t.est.deleted /\ t.est.link = "open" =>
           <<"awaitingCustomerResponse", "est">> \in flow
      /\ t.inv = "PAID" => <<"recentlyPaid", "est">> \in flow
  BY <1>3 DEF GetDashboardEstimatePoFlow, GetDashboardEstimateInvoiceFlow,
     GetDashboardQuoteAttention
<1>6. \A r \in done :
        /\ r[1] = "inv-paid" => t.inv = "PAID"
        /\ r[1] = "est-done" => t.est.status = "FINALIZED" /\ ~t.est.deleted
        /\ r[1] = "po-done" => r[2] \in Live(t) /\ t.po[r[2]].stamped
  BY <1>0, <1>2, <1>a DEF EveryCompletedRow, RecentlyPaidInvoices, RecentlyFinalized,
     RecentlyReconciledPos, EstRows
<1>7. /\ t.inv = "PAID" => <<"inv-paid", "est">> \in done
      /\ t.est.status = "FINALIZED" /\ ~t.est.deleted => <<"est-done", "est">> \in done
  BY <1>0, <1>3, <1>a DEF EveryCompletedRow, RecentlyPaidInvoices, RecentlyFinalized
<1> HIDE DEF flow, done
<1>8. \A kind, x : <<kind, x>>[1] = kind /\ <<kind, x>>[2] = x
  OBVIOUS
<1>9. /\ "acceptedAwaitingPo" \in {r[1] : r \in flow} <=> Approved(t) /\ LinkedPos(t) = {}
      /\ "awaitingCustomerResponse" \in {r[1] : r \in flow} <=>
           t.est.status = "SENT" /\ ~t.est.deleted /\ t.est.link = "open"
      /\ "recentlyPaid" \in {r[1] : r \in flow} <=> t.inv = "PAID"
  BY <1>4, <1>5, <1>8
<1>10. /\ "inv-paid" \in {r[1] : r \in done} <=> t.inv = "PAID"
       /\ "est-done" \in {r[1] : r \in done} <=> t.est.status = "FINALIZED" /\ ~t.est.deleted
       /\ \A p : <<"po-done", p>> \in done => p \in Live(t) /\ t.po[p].stamped
  BY <1>6, <1>7, <1>8
<1> QED  BY <1>9, <1>10 DEF flow, done

\* The list, its chips, the quick actions, the editor and the strip name the same next step.
LEMMA NextStepsAgree ==
  ASSUME NEW t
  PROVE  LET next == GetEstimateListNextAction(t)
         IN  /\ next = "po" <=> t.est.status = "APPROVED" /\ ~HasPo(t)
             /\ next = "invoice" <=> t.est.status = "APPROVED" /\ HasPo(t) /\ ~HasInvoice(t)
             /\ next \in {"po", "invoice", "open"}
             /\ (next = "po") = (GetEstimateEditorPrimaryAction(t) = "po")
             /\ (next = "invoice") = ("Bill customer" \in GetEstimateListWorkflowChips(t))
             /\ ("PO" \in QuickActions(t)) = (next = "po")
             /\ ("Invoice" \in QuickActions(t)) = (next = "invoice")
<1>1. HasPo(t) \in BOOLEAN /\ HasInvoice(t) \in BOOLEAN
  BY DEF HasPo, HasInvoice
<1>2. CASE t.est.status = "APPROVED"
  BY <1>1, <1>2 DEF GetEstimateListNextAction, GetEstimateEditorPrimaryAction,
     GetEstimateListWorkflowChips, QuickActions
<1>3. CASE t.est.status = "SENT"
  BY <1>1, <1>3 DEF GetEstimateListNextAction, GetEstimateEditorPrimaryAction,
     GetEstimateListWorkflowChips, QuickActions
<1>4. CASE t.est.status \notin {"SENT", "APPROVED"}
  BY <1>1, <1>4 DEF GetEstimateListNextAction, GetEstimateEditorPrimaryAction,
     GetEstimateListWorkflowChips, QuickActions
<1> QED  BY <1>2, <1>3, <1>4

\* The screens of one estimate agree in every state of the right type.
LEMMA EstimateAgrees == TypeOK => EstimateScreensAgree(Tables)
<1> SUFFICES ASSUME TypeOK PROVE EstimateScreensAgree(Tables)
  OBVIOUS
<1> DEFINE t == Tables
           flow == {r[1] : r \in GetDashboardEstimatePoFlow(t) \cup GetDashboardEstimateInvoiceFlow(t)
                                   \cup GetDashboardQuoteAttention(t)}
           done == {r[1] : r \in RecentlyCompleted(AllSee(t), Alone)}
           queues == {r[1] : r \in EstimateRows(AllSee(t), Alone)}
           steps == DeriveEstimateOperationalSteps(t)
           checklist == BuildEstimateFinalizeChecklist(t)
           next == GetEstimateListNextAction(t)
<1>0. /\ t.est = est /\ t.inv = inv /\ t.po = po
      /\ est.status \in {"DRAFT", "SENT", "APPROVED", "REJECTED", "FINALIZED"}
      /\ est.deleted \in BOOLEAN /\ est.link \in {"none", "open", "answered", "closed"}
  BY DEF Tables, TypeOK
<1>1. /\ (next = "po") = (GetEstimateEditorPrimaryAction(t) = "po")
      /\ (next = "invoice") = ("Bill customer" \in GetEstimateListWorkflowChips(t))
      /\ \A q \in {<<"PO", "po">>, <<"Invoice", "invoice">>} :
           (q[1] \in QuickActions(t)) = (next = q[2])
  <2> HIDE DEF next
  <2>1. /\ ("PO" \in QuickActions(t)) = (next = "po")
        /\ ("Invoice" \in QuickActions(t)) = (next = "invoice")
        /\ (next = "po") = (GetEstimateEditorPrimaryAction(t) = "po")
        /\ (next = "invoice") = ("Bill customer" \in GetEstimateListWorkflowChips(t))
    BY NextStepsAgree DEF next
  <2>2. \A q \in {<<"PO", "po">>, <<"Invoice", "invoice">>} :
           (q[1] \in QuickActions(t)) = (next = q[2])
    <3>1. /\ <<"PO", "po">>[1] = "PO" /\ <<"PO", "po">>[2] = "po"
          /\ <<"Invoice", "invoice">>[1] = "Invoice" /\ <<"Invoice", "invoice">>[2] = "invoice"
      OBVIOUS
    <3> QED  BY <2>1, <3>1, Zenon
  <2> QED  BY <2>1, <2>2
<1>2. ("acceptedAwaitingPo" \in flow)
        = (~est.deleted /\ <<"no_po", "est">> \in FulfillmentOperationalHints(t))
  <2>1. "acceptedAwaitingPo" \in flow <=> Approved(t) /\ LinkedPos(t) = {}
    BY FlowKinds
  <2>2. <<"no_po", "est">> \in FulfillmentOperationalHints(t)
          <=> est.status = "APPROVED" /\ ~HasPo(t)
    BY <1>0 DEF FulfillmentOperationalHints, EstRows, PoRows
  <2> QED  BY <1>0, <2>1, <2>2 DEF Approved, HasPo
<1>3. CanFinalize(t) = (est.status = "APPROVED" /\ {"po", "qbo", "recon"} \subseteq checklist)
  <2>1. {"po", "qbo", "recon"} \subseteq checklist <=>
          LinkedPos(t) # {} /\ MissingQbo(t) = {} /\ ReconAttention(t) = {}
    BY DEF BuildEstimateFinalizeChecklist
  <2>2. CanFinalize(t) <=> est.status = "APPROVED" /\ {"po", "qbo", "recon"} \subseteq checklist
    BY <1>0, <2>1, GatesOpen
  <2> QED  BY <2>2 DEF CanFinalize
<1>4. /\ ("awaitingCustomerResponse" \in flow) = ("est-awaiting" \in queues)
      /\ (IsAwaitingQuoteCustomerResponse(t) /\ ~est.deleted) = ("est-awaiting" \in queues)
  BY <1>0, FlowKinds, EstimateRowKinds DEF AwaitingEstimates, IsAwaitingQuoteCustomerResponse
<1>5. /\ ("invoice_paid" \in steps) = ("invoice" \in checklist)
      /\ ("inv-paid" \in done) = ("recentlyPaid" \in flow)
  <2>1. ("inv-paid" \in done) = ("recentlyPaid" \in flow)
    BY FlowKinds
  <2>2. ("invoice_paid" \in steps) = ("invoice" \in checklist)
    BY DEF DeriveEstimateOperationalSteps, BuildEstimateFinalizeChecklist
  <2> QED  BY <2>1, <2>2
<1>6. (CASE EstimateDailyWorkflowStrip(t) = "po" -> next = "po"
         [] EstimateDailyWorkflowStrip(t) = "invoice" ->
              next = "invoice" \/ est.status = "FINALIZED"
         [] OTHER -> next = "open")
  <2>1. HasPo(t) \in BOOLEAN /\ HasInvoice(t) \in BOOLEAN
    BY DEF HasPo, HasInvoice
  <2>2. /\ next = "po" <=> est.status = "APPROVED" /\ ~HasPo(t)
        /\ next = "invoice" <=> est.status = "APPROVED" /\ HasPo(t) /\ ~HasInvoice(t)
        /\ next \in {"po", "invoice", "open"}
    BY <1>0, NextStepsAgree
  <2> HIDE DEF next
  <2> QED  BY <1>0, <2>1, <2>2 DEF EstimateDailyWorkflowStrip
<1>7. DeriveQuoteLinkStaffPhase(t) = "awaiting_customer" =>
        PublicQuoteResponsePanel(t) # {} \/ est.status = "FINALIZED"
  <2>1. DeriveQuoteLinkStaffPhase(t) = "awaiting_customer" => est.link = "open"
    BY <1>0 DEF DeriveQuoteLinkStaffPhase
  <2>2. CanRespond(t) => <<"respond", "est", "APPROVED">> \in PublicQuoteResponsePanel(t)
    BY DEF PublicQuoteResponsePanel, Offer
  <2> QED  BY <1>0, <2>1, <2>2 DEF CanRespond
<1>8. Approved(t) => GetDashboardMetrics(t).openEstimates
  BY DEF Approved, GetDashboardMetrics
<1>9. "est-done" \in done => "fulfilled" \in steps /\ queues \subseteq {"inv-unpaid"}
  <2> SUFFICES ASSUME "est-done" \in done
               PROVE  "fulfilled" \in steps /\ queues \subseteq {"inv-unpaid"}
    OBVIOUS
  <2>1. est.status = "FINALIZED"
    BY <1>0, FlowKinds
  <2>2. queues \subseteq {"est-awaiting", "inv-unpaid"} /\ "est-awaiting" \notin queues
    BY <1>0, <2>1, EstimateRowKinds DEF Approved, AwaitingEstimates
  <2>3. "fulfilled" \in steps
    BY <1>0, <2>1 DEF DeriveEstimateOperationalSteps
  <2> QED  BY <2>2, <2>3
<1> HIDE DEF t, flow, done, queues, steps, checklist, next
<1>10. /\ ("awaitingCustomerResponse" \in flow) = ("est-awaiting" \in queues)
       /\ (IsAwaitingQuoteCustomerResponse(t) /\ ~est.deleted) = ("est-awaiting" \in queues)
  BY <1>4
<1> QED
  BY <1>1, <1>2, <1>3, <1>5, <1>6, <1>7, <1>8, <1>9, <1>10, Zenon
     DEF EstimateScreensAgree, t, flow, done, queues, steps, checklist, next

\* The rows of one PO, and what makes each appear.
LEMMA PoRowKinds ==
  ASSUME NEW t, NEW p
  PROVE  \A r \in PurchaseOrderRows(AllSee(t), Alone) :
           r[2] = p <=> \/ r = <<"po-vendor", p>> /\ p \in WaitingVendorPos(t)
                        \/ r = <<"ocr", p>> /\ p \in OcrReviewDocs(t)
                        \/ r = <<"po-recon-snap", p>> /\ p \in ReconSnapshotPos(t)
                        \/ /\ r = <<"po-variance", p>>
                           /\ p \in ReconAttentionPos(t) \ ReconSnapshotPos(t)
<1>0. \A q \in {"vendor", "ocr", "attention", "snapshot"} : AllSee(t)[q] = t
  BY DEF AllSee, Queries
<1>1. \A kind, found : \A r \in PoRows(kind, found) : r = <<kind, r[2]>> /\ r[2] \in found
  BY DEF PoRows
<1>2. PurchaseOrderRows(AllSee(t), Alone) = EveryPoRow(AllSee(t))
  BY AlonePoRows
<1>3. \A kind, x : <<kind, x>>[2] = x
  OBVIOUS
<1>4. ASSUME NEW r \in EveryPoRow(AllSee(t))
      PROVE  \/ r = <<"po-vendor", r[2]>> /\ r[2] \in WaitingVendorPos(t)
             \/ r = <<"ocr", r[2]>> /\ r[2] \in OcrReviewDocs(t)
             \/ r = <<"po-recon-snap", r[2]>> /\ r[2] \in ReconSnapshotPos(t)
             \/ r = <<"po-variance", r[2]>> /\ r[2] \in ReconAttentionPos(t) \ ReconSnapshotPos(t)
  BY <1>0, <1>1 DEF EveryPoRow
<1> QED  BY <1>2, <1>3, <1>4, Zenon

\* A receipt to review has its row.
LEMMA ReviewHasRow ==
  ASSUME NEW t, NEW p \in OcrReviewDocs(t)
  PROVE  <<"ocr", p>> \in PurchaseOrderRows(AllSee(t), Alone)
<1>0. AllSee(t)["ocr"] = t
  BY DEF AllSee, Queries
<1> QED  BY <1>0, AlonePoRows DEF EveryPoRow, PoRows

\* A live PO with an open reconciliation, or a confirmed receipt and none, is shown as blocked,
\* unless it was canceled.
LEMMA OpenReconciliationBlocks ==
  ASSUME NEW t, NEW p, t.po[p].status # "CANCELED",
         \/ ReconciliationNeedsAttention(t.po[p].recon)
         \/ t.po[p].doc = "CONFIRMED" /\ t.po[p].recon = "none"
  PROVE  IsPoLifecycleBlocked(t, p)
<1>1. CASE "OPERATOR_BLOCKED" \in t.po[p].events
  BY <1>1 DEF IsPoLifecycleBlocked, GetPurchaseOrderLifecycleState
<1>2. CASE "OPERATOR_BLOCKED" \notin t.po[p].events /\ HasVariance(t.po[p])
  BY <1>2 DEF IsPoLifecycleBlocked, GetPurchaseOrderLifecycleState
<1>3. CASE "OPERATOR_BLOCKED" \notin t.po[p].events /\ ~HasVariance(t.po[p])
  <2>1. t.po[p].doc = "CONFIRMED" /\ t.po[p].recon = "none"
    BY <1>3 DEF HasVariance
  <2> QED  BY <1>3, <2>1 DEF IsPoLifecycleBlocked, GetPurchaseOrderLifecycleState
<1> QED  BY <1>1, <1>2, <1>3

\* The screens of one PO agree in every state of the right type.
LEMMA PoAgrees ==
  ASSUME TypeOK, NEW p \in Live(Tables) PROVE PoScreensAgree(Tables, p)
<1> DEFINE t == Tables
           mine == {row \in PurchaseOrderRows(AllSee(t), Alone) : row[2] = p}
           rows == {row[1] : row \in mine}
           offered == BuildPoReceiptNextActions(t, p)
           metrics == GetDashboardMetrics(t)
           o == po[p]
<1>0. /\ t.po = po /\ p \in Pos /\ o.row = "live"
      /\ o.recon \in POReconciliationStatus \cup {"none"} /\ o.stamped \in BOOLEAN
      /\ o.doc \in {"none", "REVIEW_REQUIRED", "CONFIRMED", "REJECTED"}
  BY DEF Tables, TypeOK, Live
<1>1. \A r \in mine :
        \/ r[1] = "po-vendor" /\ p \in WaitingVendorPos(t)
        \/ r[1] = "ocr" /\ p \in OcrReviewDocs(t)
        \/ r[1] = "po-recon-snap" /\ p \in ReconSnapshotPos(t)
        \/ r[1] = "po-variance" /\ p \in ReconAttentionPos(t) \ ReconSnapshotPos(t)
  BY PoRowKinds
<1>2. /\ "po-vendor" \in rows => p \in WaitingVendorPos(t)
      /\ "ocr" \in rows => p \in OcrReviewDocs(t)
      /\ "po-recon-snap" \in rows => p \in ReconSnapshotPos(t)
      /\ "po-variance" \in rows => p \in ReconAttentionPos(t)
  BY <1>1
<1>3. p \in OcrReviewDocs(t) => "ocr" \in rows
  <2>1. p \in OcrReviewDocs(t) => <<"ocr", p>> \in mine
    BY ReviewHasRow
  <2> QED  BY <2>1
<1> HIDE DEF mine
<1>4. /\ p \in OcrReviewDocs(t) <=> o.doc = "REVIEW_REQUIRED"
      /\ p \in ReconSnapshotPos(t) <=> ~o.stamped /\ o.doc = "CONFIRMED" /\ o.recon = "none"
      /\ p \in ReconAttentionPos(t) <=> ~o.stamped /\ ReconciliationNeedsAttention(o.recon)
      /\ p \in WaitingVendorPos(t) => o.status \in OPEN_PO_STATUSES
  BY <1>0 DEF OcrReviewDocs, ReconSnapshotPos, ReconAttentionPos, WaitingVendorPos, Live
<1>5. /\ "Review OCR" \in offered <=> o.doc = "REVIEW_REQUIRED"
      /\ "Run reconciliation" \in offered <=> o.doc = "CONFIRMED" /\ o.recon = "none"
      /\ "Resolve variance" \in offered <=>
           o.doc # "REVIEW_REQUIRED" /\ ReconciliationNeedsAttention(o.recon)
      /\ "Mark PO reconciled" \in offered =>
           o.recon # "none" /\ ~o.stamped /\ ~ReconciliationNeedsAttention(o.recon)
  BY <1>0 DEF BuildPoReceiptNextActions
<1>6. /\ o.status \in OPEN_PO_STATUSES => p \in metrics.openPurchaseOrders
      /\ metrics.pendingOcrReviews = OcrReviewDocs(t)
      /\ p \in metrics.unreconciledPurchaseOrders <=>
           ~o.stamped /\ ReconciliationNeedsAttention(o.recon)
  BY <1>0 DEF GetDashboardMetrics, OPEN_PO_STATUSES, Live
<1> HIDE DEF offered, metrics
<1>7. /\ ("ocr" \in rows) = ("Review OCR" \in offered)
      /\ "po-recon-snap" \in rows => "Run reconciliation" \in offered
      /\ "po-variance" \in rows => {"Resolve variance", "Review OCR"} \cap offered # {}
      /\ "Mark PO reconciled" \in offered => {"po-variance", "po-recon-snap"} \cap rows = {}
  <2> HIDE DEF rows
  <2>1. ("ocr" \in rows) = ("Review OCR" \in offered)
    <3>1. "ocr" \in rows <=> p \in OcrReviewDocs(t)
      BY <1>2, <1>3
    <3>2. "Review OCR" \in offered <=> p \in OcrReviewDocs(t)
      BY <1>4, <1>5
    <3> QED  BY <3>1, <3>2 DEF rows, offered, BuildPoReceiptNextActions
  <2>2. "po-recon-snap" \in rows => "Run reconciliation" \in offered
    BY <1>2, <1>4, <1>5
  <2>3. "po-variance" \in rows => {"Resolve variance", "Review OCR"} \cap offered # {}
    <3>1. "po-variance" \in rows => "Resolve variance" \in offered \/ "Review OCR" \in offered
      BY <1>2, <1>4, <1>5
    <3> QED  BY <3>1, Zenon
  <2>4. "Mark PO reconciled" \in offered => {"po-variance", "po-recon-snap"} \cap rows = {}
    <3>1. "Mark PO reconciled" \in offered => {"po-variance", "po-recon-snap"} \cap rows \subseteq {}
      BY <1>2, <1>4, <1>5
    <3> QED  BY <3>1
  <2> QED  BY <2>1, <2>2, <2>3, <2>4
<1>8. \A row \in mine : IsOperationalBlocked(row)
  BY <1>1 DEF IsOperationalBlocked
<1>9. /\ "po-vendor" \in rows => p \in metrics.openPurchaseOrders
      /\ "ocr" \in rows => p \in metrics.pendingOcrReviews
  BY <1>2, <1>4, <1>6
<1>10. (\E row \in mine : BucketForWorkflowState(row) = "reconciliation_variance") =>
         p \in metrics.unreconciledPurchaseOrders \/ "Run reconciliation" \in offered
  <2> SUFFICES ASSUME NEW row \in mine, BucketForWorkflowState(row) = "reconciliation_variance"
               PROVE  p \in metrics.unreconciledPurchaseOrders \/ "Run reconciliation" \in offered
    OBVIOUS
  <2>1. row[1] \in {"po-recon-snap", "po-variance"}
    BY <1>1 DEF BucketForWorkflowState
  <2> QED  BY <1>1, <1>4, <1>5, <1>6, <2>1
<1>11. {"po-variance", "po-recon-snap"} \cap rows # {} /\ po[p].status # "CANCELED" =>
         IsPoLifecycleBlocked(t, p)
  <2> HIDE DEF rows
  <2> QED  BY <1>0, <1>2, <1>4, OpenReconciliationBlocks
<1>12. <<"po-done", p>> \in RecentlyCompleted(AllSee(t), Alone) => "Mark PO reconciled" \notin offered
  BY <1>0, <1>5, FlowKinds
<1> HIDE DEF t, rows
<1> QED
  BY <1>7, <1>8, <1>9, <1>10, <1>11, <1>12, Zenon
     DEF PoScreensAgree, t, mine, rows, offered, metrics

\* For any number of POs, the list, the editor, the checklist, the dashboard and the PO pages,
\* each of which derives what it shows by rules of its own, never contradict each other.
THEOREM ScreensNeverDisagree == Spec => []ScreensAgree
<1>1. TypeOK => ScreensAgree
  BY EstimateAgrees, PoAgrees DEF ScreensAgree
<1> QED  BY <1>1, TypeCorrect, PTL
-----------------------------------------------------------------------------
(* Every link leads somewhere *)

\* What a link of a page may lead to.
Leads(page, target) == Found(Tables, target) \/ StaleLink(page, target)

\* The pages that show an estimate whatever became of it.
LEMMA EstimateLeads ==
  ASSUME TypeOK, NEW page, page[1] \in {"po", "purchase-orders", "invoice", "invoices", "dashboard"},
         NEW target, target = <<"estimate", "est">>
  PROVE  Leads(page, target)
  BY TypeOKRows DEF Leads, Found, StaleLink, Tables, EstRow

\* The links to the estimate, its invoice and the lists.
LEMMA FixedLeads ==
  ASSUME NEW page, NEW target,
         \/ target \in {<<"estimate", "est">>, <<"preview", "est">>} /\ ~est.deleted
         \/ target = <<"invoice", "est">> /\ HasInvoice(Tables)
         \/ target \in {<<"ocr-review", "est">>, <<"reconciliation-inbox", "est">>}
  PROVE  Leads(page, target)
  BY DEF Leads, Found, Tables

\* A PO that is not deleted has its page and that of its reconciliation.
LEMMA LiveLeads ==
  ASSUME NEW page, NEW p \in Live(Tables), NEW target, target = <<"po", p>> \/ target = <<"recon", p>>
  PROVE  Leads(page, target)
  BY DEF Leads, Found

\* A receipt has its page.
LEMMA ReceiptLeads ==
  ASSUME NEW page, NEW p \in Pos, po[p].doc # "none", NEW target, target = <<"ocr", p>>
  PROVE  Leads(page, target)
  BY DEF Leads, Found, Tables

\* A PO with a receipt, a snapshot or an alert exists, or it was deleted and the page lists it still.
LEMMA TracedLeads ==
  ASSUME TypeOK, NEW page, page[1] \in {"ocr", "ocr-review", "reconciliation-inbox"},
         NEW p \in Pos, po[p].doc # "none" \/ po[p].recon # "none" \/ po[p].alerts,
         NEW target, target = <<"po", p>> \/ target = <<"recon", p>>
  PROVE  Leads(page, target)
<1>1. po[p] \in PoRow /\ po[p].row # "absent"
  BY TypeOKRows DEF NoRow
<1>2. po[p].row = "live" \/ po[p].row = "deleted"
  BY <1>1 DEF PoRow
<1>3. po[p].row = "live" => p \in Live(Tables)
  BY DEF Live, Tables
<1>4. target[1] \in {"po", "recon"} /\ target[2] = p
  OBVIOUS
<1> QED
  BY <1>2, <1>3, <1>4, LiveLeads DEF Leads, StaleLink

\* The links built from a set of POs, or shown under a condition.
LEMMA PagesOfKinds ==
  ASSUME NEW name, NEW pos, NEW page \in PagesOf(name, pos)
  PROVE  \E p \in pos : page = <<name, p>>
  BY DEF PagesOf

LEMMA EstPageKinds ==
  ASSUME NEW name, NEW shown \in BOOLEAN, NEW page \in EstPage(name, shown)
  PROVE  shown /\ page = <<name, "est">>
  BY DEF EstPage

LEMMA EstimateLinksLead ==
  ASSUME ~est.deleted, NEW page, NEW target \in EstimateLinks(Tables)
  PROVE  Leads(page, target)
<1>1. {LinkedPos(Tables), MissingQbo(Tables), ReconAttention(Tables)} \subseteq SUBSET Live(Tables)
  BY DEF LinkedPos, MissingQbo, ReconAttention
<1>2. ASSUME target \in EstPage("preview", TRUE) PROVE Leads(page, target)
  BY <1>2, EstPageKinds, FixedLeads
<1>3. ASSUME target \in EstPage("invoice", HasInvoice(Tables)) PROVE Leads(page, target)
  BY <1>3, EstPageKinds, FixedLeads DEF HasInvoice
<1>4. ASSUME NEW pos \in {LinkedPos(Tables), MissingQbo(Tables), ReconAttention(Tables)},
             target \in PagesOf("po", pos) \/ target \in PagesOf("recon", pos)
      PROVE  Leads(page, target)
<2>1. PICK p \in pos : target = <<"po", p>> \/ target = <<"recon", p>>
  BY <1>4 DEF PagesOf
<2>2. p \in Live(Tables)
  BY <1>1
<2> QED
  BY <2>1, <2>2, LiveLeads
<1>5. CASE target \in LinkedRows(Tables)
  BY <1>3, <1>4, <1>5 DEF LinkedRows
<1>6. CASE target \in ChecklistLinks(Tables)
<2>1. \/ target \in EstPage("preview", TRUE) \/ target \in EstPage("invoice", HasInvoice(Tables))
      \/ target \in PagesOf("po", MissingQbo(Tables))
      \/ target \in PagesOf("recon", ReconAttention(Tables))
      \/ target \in PagesOf("recon", LinkedPos(Tables))
  BY <1>6 DEF ChecklistLinks
<2> QED
  BY <1>2, <1>3, <1>4, <2>1
<1> QED
  BY <1>2, <1>5, <1>6 DEF EstimateLinks

LEMMA PoLinksLead ==
  ASSUME TypeOK, NEW page, page[1] = "po", NEW p \in Live(Tables),
         NEW target \in PoExecutionWorkspace(Tables, p) \cup PoEstimateOriginSection(Tables, p)
  PROVE  Leads(page, target)
<1>1. page[1] \in {"po", "purchase-orders", "invoice", "invoices", "dashboard"}
  OBVIOUS
<1>2. CASE target \in {<<"estimate", "est">>, <<"recon", p>>, <<"po", p>>, <<"ocr-review", "est">>}
  BY <1>1, <1>2, EstimateLeads, LiveLeads, FixedLeads
<1>3. GetPurchaseOrderLifecycleNextAction(Tables, p) \in {<<"estimate", "est">>, <<"recon", p>>, <<"po", p>>}
  BY DEF GetPurchaseOrderLifecycleNextAction
<1>4. PoEstimateOriginSection(Tables, p) \subseteq {<<"estimate", "est">>}
  BY DEF PoEstimateOriginSection, EstPage
<1> QED
  BY <1>2, <1>3, <1>4 DEF PoExecutionWorkspace, MergeExecutionActions

\* Of the pages about receipts and snapshots.
LEMMA ReceiptLinksLead ==
  ASSUME TypeOK, NEW page, page[1] \in {"ocr", "ocr-review", "reconciliation-inbox"},
         NEW target,
         \/ page[1] = "ocr" /\ page[2] \in Pos /\ po[page[2]].doc # "none"
            /\ target \in OcrReviewLinks(Tables, page[2])
         \/ target \in OcrQueueTable(Tables)
         \/ target \in ReconInboxLinks(Tables)
  PROVE  Leads(page, target)
<1>4. CASE page[1] = "ocr" /\ page[2] \in Pos /\ po[page[2]].doc # "none"
           /\ target \in OcrReviewLinks(Tables, page[2])
<2>1. target \in {<<"po", page[2]>>, <<"ocr-review", "est">>, <<"recon", page[2]>>}
  BY <1>4 DEF OcrReviewLinks
<2> QED
  BY <1>4, <2>1, TracedLeads, FixedLeads
<1>5. CASE target \in OcrQueueTable(Tables)
<2>1. PICK p \in OcrReviewListed(Tables) : target = <<"ocr", p>> \/ target = <<"po", p>>
  BY <1>5 DEF OcrQueueTable, PagesOf
<2>2. p \in Pos /\ po[p].doc # "none"
  BY DEF OcrReviewListed, Tables
<2> QED
  BY <2>1, <2>2, TracedLeads, ReceiptLeads
<1>6. CASE target \in ReconInboxLinks(Tables)
<2>1. PICK p \in Pos : target = <<"recon", p>> /\ (po[p].recon # "none" \/ po[p].alerts)
  BY <1>6 DEF ReconInboxLinks, PagesOf, Tables
<2> QED
  BY <2>1, TracedLeads
<1> QED
  BY <1>4, <1>5, <1>6

\* Of the lists.
LEMMA ListLinksLead ==
  ASSUME TypeOK, NEW page, NEW target,
         \/ target \in EstimatesPage(Tables)
         \/ page[1] = "purchase-orders" /\ target \in PurchaseOrdersPage(Tables)
         \/ page[1] = "invoices" /\ target \in InvoicesPage(Tables)
  PROVE  Leads(page, target)
<1>1. CASE target \in EstimatesPage(Tables)
<2>1. ~est.deleted /\ target = <<"estimate", "est">>
  BY <1>1 DEF EstimatesPage, EstPage, Tables
<2> QED
  BY <2>1, FixedLeads
<1>2. CASE page[1] = "purchase-orders" /\ target \in PurchaseOrdersPage(Tables)
<2>1. \/ target = <<"estimate", "est">>
      \/ \E p \in Live(Tables) : target = <<"po", p>>
  BY <1>2 DEF PurchaseOrdersPage, PagesOf, PoEstimateOriginSection, EstPage
<2> QED
  BY <1>2, <2>1, EstimateLeads, LiveLeads
<1>3. CASE page[1] = "invoices" /\ target \in InvoicesPage(Tables)
<2>1. HasInvoice(Tables) /\ target \in {<<"invoice", "est">>, <<"estimate", "est">>}
  BY <1>3 DEF InvoicesPage, EstPage
<2> QED
  BY <1>3, <2>1, EstimateLeads, FixedLeads
<1> QED
  BY <1>1, <1>2, <1>3

\* What the rows of the queues and of the completed work are about.
LEMMA QueueRowKinds ==
  ASSUME NEW t, NEW r \in GetOperationalWorkflowQueues(AllSee(t), Alone) \cup RecentlyCompleted(AllSee(t), Alone)
  PROVE  \/ r[1] \in {"est-awaiting", "est-no-po", "est-finalize", "est-potentially-ready",
                        "est-invoice", "inv-unpaid", "est-done"}
         \/ r[1] = "inv-paid" /\ HasInvoice(t)
         \/ r[1] \in {"po-vendor", "po-done", "po-recon-snap", "po-variance"} /\ r[2] \in Live(t)
         \/ r[1] = "ocr" /\ r[2] \in OcrReviewDocs(t)
<1>0. AllSee(t)["finalized"] = t /\ AllSee(t)["reconciled"] = t /\ AllSee(t)["paid"] = t
  BY DEF AllSee, Queries
<1>a. /\ GetOperationalWorkflowQueues(AllSee(t), Alone)
           = EveryEstimateRow(AllSee(t)) \cup PurchaseOrderRows(AllSee(t), Alone)
      /\ RecentlyCompleted(AllSee(t), Alone) = EveryCompletedRow(AllSee(t))
  BY AloneQueues, AlonePoRows, AloneCompleted
<1>1. \A kind, found : \A x \in EstRows(kind, found) : x[1] = kind
  BY DEF EstRows
<1>2. CASE r \in EveryEstimateRow(AllSee(t))
  BY <1>1, <1>2 DEF EveryEstimateRow, ReadyRows
<1>3. CASE r \in PurchaseOrderRows(AllSee(t), Alone)
<2>1. \A kind, x : <<kind, x>>[1] = kind
  OBVIOUS
<2>2. /\ WaitingVendorPos(t) \subseteq Live(t) /\ ReconSnapshotPos(t) \subseteq Live(t)
      /\ ReconAttentionPos(t) \subseteq Live(t)
  BY DEF WaitingVendorPos, ReconSnapshotPos, ReconAttentionPos
<2>3. \/ r[1] = "po-vendor" /\ r[2] \in WaitingVendorPos(t)
      \/ r[1] = "ocr" /\ r[2] \in OcrReviewDocs(t)
      \/ r[1] = "po-recon-snap" /\ r[2] \in ReconSnapshotPos(t)
      \/ r[1] = "po-variance" /\ r[2] \in ReconAttentionPos(t)
  BY <1>3, <2>1, PoRowKinds
<2> QED
  BY <2>2, <2>3
<1>4. CASE r \in EveryCompletedRow(AllSee(t))
<2>1. \A x \in EstRows("inv-paid", RecentlyPaidInvoices(t)) : x[1] = "inv-paid" /\ HasInvoice(t)
  BY DEF EstRows, RecentlyPaidInvoices, HasInvoice
<2>2. \A x \in PoRows("po-done", RecentlyReconciledPos(t)) : x[1] = "po-done" /\ x[2] \in Live(t)
  BY DEF PoRows, RecentlyReconciledPos
<2> QED
  BY <1>0, <1>1, <1>4, <2>1, <2>2 DEF EveryCompletedRow
<1> QED
  BY <1>a, <1>2, <1>3, <1>4

LEMMA DashboardLinksLead ==
  ASSUME TypeOK, NEW page, page[1] = "dashboard", NEW target \in DashboardPage(Tables)
  PROVE  Leads(page, target)
<1>1. page[1] \in {"po", "purchase-orders", "invoice", "invoices", "dashboard"}
  OBVIOUS
<1>2. CASE target \in OperationalQueueRowLinks(Tables)
<2>1. PICK row \in GetOperationalWorkflowQueues(AllSee(Tables), Alone) \cup RecentlyCompleted(AllSee(Tables), Alone) :
        target = GetOperationalNextAction(row)
  BY <1>2 DEF OperationalQueueRowLinks, AllSee
<2>2. CASE row[1] \in {"est-awaiting", "est-no-po", "est-finalize", "est-potentially-ready",
                        "est-invoice", "inv-unpaid", "est-done"}
<3>1. target = <<"estimate", "est">>
  BY <2>1, <2>2 DEF GetOperationalNextAction
<3> QED
  BY <1>1, <3>1, EstimateLeads
<2>3. CASE row[1] = "inv-paid" /\ HasInvoice(Tables)
<3>1. target = <<"invoice", "est">>
  BY <2>1, <2>3 DEF GetOperationalNextAction
<3> QED
  BY <2>3, <3>1, FixedLeads
<2>4. CASE row[1] \in {"po-vendor", "po-done", "po-recon-snap", "po-variance"} /\ row[2] \in Live(Tables)
<3>1. target = <<"po", row[2]>> \/ target = <<"recon", row[2]>>
  BY <2>1, <2>4 DEF GetOperationalNextAction
<3> QED
  BY <2>4, <3>1, LiveLeads
<2>5. CASE row[1] = "ocr" /\ row[2] \in OcrReviewDocs(Tables)
<3>1. target = <<"ocr", row[2]>>
  BY <2>1, <2>5 DEF GetOperationalNextAction
<3>2. row[2] \in Pos /\ po[row[2]].doc # "none"
  BY <2>5 DEF OcrReviewDocs, Tables
<3> QED
  BY <3>1, <3>2, ReceiptLeads
<2> QED
  BY <2>2, <2>3, <2>4, <2>5, QueueRowKinds
<1>3. CASE target \in PoLifecycleRowLinks(Tables)
<2>1. PICK row \in GetPoLifecycleDashboardQueues(Tables, Alone) :
        target = GetPurchaseOrderLifecycleNextAction(Tables, row[1])
  BY <1>3 DEF PoLifecycleRowLinks
<2>2. row[1] \in Live(Tables)
  BY DEF GetPoLifecycleDashboardQueues
<2>3. target = <<"estimate", "est">> \/ target = <<"recon", row[1]>> \/ target = <<"po", row[1]>>
  BY <2>1 DEF GetPurchaseOrderLifecycleNextAction
<2> QED
  BY <1>1, <2>2, <2>3, EstimateLeads, LiveLeads
<1>4. CASE target \in RecentLinks(Tables)
<2>1. \/ target = <<"estimate", "est">>
      \/ \E p \in Live(Tables) : target = <<"po", p>>
  BY <1>4 DEF RecentLinks, EstPage, PagesOf
<2> QED
  BY <1>1, <2>1, EstimateLeads, LiveLeads
<1> QED
  BY <1>2, <1>3, <1>4 DEF DashboardPage

LEMMA TypeOKLinks == TypeOK => LinksLeadSomewhere
<1> SUFFICES ASSUME TypeOK, NEW page \in Pages, Found(Tables, page),
                    NEW target \in Links(Tables, page)
             PROVE  Leads(page, target)
  BY DEF LinksLeadSomewhere, Leads
<1>1. \/ page[1] \in {"estimate", "preview", "quote", "invoice", "estimates", "purchase-orders",
                      "invoices", "dashboard", "ocr-review", "reconciliation-inbox"}
         /\ page = <<page[1], "est">>
      \/ page[1] \in {"po", "recon", "ocr"} /\ page[2] \in Pos /\ page = <<page[1], page[2]>>
  BY DEF Pages
<1>2. CASE page = <<"estimate", "est">>
<2>1. ~est.deleted /\ target \in EstimateLinks(Tables)
  BY <1>2 DEF Found, Links, Tables
<2> QED
  BY <1>2, <2>1, EstimateLinksLead
<1>3. CASE page = <<"invoice", "est">>
<2>1. target = <<"estimate", "est">> /\ page[1] = "invoice"
  BY <1>3 DEF Links, InvoiceEstimateOriginSection, EstPage
<2> QED
  BY <2>1, EstimateLeads
<1>4. CASE page[1] = "po" /\ page[2] \in Pos /\ page = <<page[1], page[2]>>
<2>1. /\ page[2] \in Live(Tables)
      /\ target \in PoExecutionWorkspace(Tables, page[2]) \cup PoEstimateOriginSection(Tables, page[2])
  BY <1>4 DEF Found, Links
<2> QED
  BY <1>4, <2>1, PoLinksLead
<1>5. CASE page[1] = "recon" /\ page[2] \in Pos
<2>1. page[2] \in Live(Tables) /\ target \in {<<"po", page[2]>>, <<"reconciliation-inbox", "est">>}
  BY <1>5 DEF Found, Links, ReconLinks
<2> QED
  BY <2>1, LiveLeads, FixedLeads
<1>6. CASE page[1] = "ocr" /\ page[2] \in Pos
<2>1. po[page[2]].doc # "none" /\ target \in OcrReviewLinks(Tables, page[2])
  BY <1>6 DEF Found, Links, Tables
<2> QED
  BY <1>6, <2>1, ReceiptLinksLead
<1>7. CASE page[1] \in {"ocr-review", "reconciliation-inbox"}
<2>1. target \in OcrQueueTable(Tables) \/ target \in ReconInboxLinks(Tables)
  BY <1>7 DEF Links
<2> QED
  BY <1>7, <2>1, ReceiptLinksLead
<1>8. CASE page[1] \in {"estimates", "purchase-orders", "invoices"}
<2>1. \/ target \in EstimatesPage(Tables)
      \/ page[1] = "purchase-orders" /\ target \in PurchaseOrdersPage(Tables)
      \/ page[1] = "invoices" /\ target \in InvoicesPage(Tables)
  BY <1>8 DEF Links
<2> QED
  BY <2>1, ListLinksLead
<1>9. CASE page[1] = "dashboard"
<2>1. target \in DashboardPage(Tables)
  BY <1>9 DEF Links
<2> QED
  BY <1>9, <2>1, DashboardLinksLead
<1>10. CASE page[1] \in {"preview", "quote"}
  BY <1>10 DEF Links
<1> QED
  BY <1>1, <1>2, <1>3, <1>4, <1>5, <1>6, <1>7, <1>8, <1>9, <1>10

\* No link of a page leads nowhere, except to a deleted estimate from what was made of it, and to a
\* deleted PO from its receipts and snapshots: whatever the estimate, its invoice and any number of
\* POs go through.
THEOREM LinksLead == Spec => []LinksLeadSomewhere
  BY TypeCorrect, TypeOKLinks, PTL

-----------------------------------------------------------------------------
(* What the pages offer is accepted.  ENABLED Take(c) says that some next tables make Take(c)      *)
(* true; here such tables are given as functions of the present ones, so that what is proved is    *)
(* a fact about steps, and that the given step exists is seen from Used, one value per variable.   *)

\* A PO that is still to be created, and what a snapshot may come out with.
AbsentPo == CHOOSE p \in Pos : po[p].row = "absent"
Outcome == CHOOSE outcome \in ReconOutcomes : TRUE

\* The tables after a control was used.
EstAfter(c) ==
  CASE c[1] = "issueLink" -> [est EXCEPT !.link = "open"]
    [] c[1] = "respond" -> [est EXCEPT !.link = "answered", !.status = c[3]]
    [] c[1] = "status" -> [est EXCEPT !.status = c[3]]
    [] c[1] = "sendEmail" -> [est EXCEPT !.link = "open", !.status = IF @ = "DRAFT" THEN "SENT" ELSE @]
    [] c[1] = "finalize" -> [est EXCEPT !.status = "FINALIZED"]
    [] c[1] = "unfinalize" -> [est EXCEPT !.status = "APPROVED"]
    [] c[1] = "delete" -> [est EXCEPT !.deleted = TRUE]
    [] OTHER -> est

InvAfter(c) ==
  CASE c[1] = "createInvoice" -> "UNPAID"
    [] c[1] = "markPaid" -> "PAID"
    [] OTHER -> inv

RowAfter(c, row) ==
  CASE c[1] = "poStatus" -> [row EXCEPT !.status = c[3]]
    [] c[1] = "qboNumber" -> [row EXCEPT !.qbo = ~@]
    [] c[1] = "deletePo" -> [NoRow EXCEPT !.row = "deleted", !.linked = row.linked, !.doc = row.doc,
                                          !.recon = row.recon, !.alerts = row.alerts]
    [] c[1] = "event" -> [row EXCEPT !.events = @ \cup {c[3]}]
    [] c[1] = "clearBlocked" -> [row EXCEPT !.events = @ \ {"OPERATOR_BLOCKED"}]
    [] c[1] = "removeReceipt" -> [row EXCEPT !.doc = "none"]
    [] c[1] = "recompute" -> [row EXCEPT !.recon = Outcome, !.alerts = (Outcome # "PENDING")]
    [] c[1] = "markReconciled" ->
         [row EXCEPT !.stamped = TRUE, !.recon = IF @ = "none" THEN @ ELSE "RESOLVED"]
    [] c[1] = "dismissAlert" -> [row EXCEPT !.alerts = FALSE]
    [] c[1] = "approve" ->
         IF row.row = "live"
         THEN [row EXCEPT !.doc = "CONFIRMED", !.recon = Outcome, !.alerts = (Outcome # "PENDING")]
         ELSE [row EXCEPT !.doc = "CONFIRMED"]
    [] c[1] = "reject" -> [row EXCEPT !.doc = "REJECTED"]

PoAfter(c) ==
  IF c[2] # "est" THEN [po EXCEPT ![c[2]] = RowAfter(c, po[c[2]])]
  ELSE IF c[1] = "createPo" THEN [po EXCEPT ![AbsentPo].row = "live", ![AbsentPo].linked = TRUE]
  ELSE po

\* The step that a control makes.
Used(c) == est' = EstAfter(c) /\ inv' = InvAfter(c) /\ po' = PoAfter(c)

LEMMA OutcomeComesOut == Outcome \in ReconOutcomes /\ MayComeOut(Outcome, Outcome # "PENDING")
<1>1. Outcome \in ReconOutcomes
  BY SmallTables DEF Outcome
<1> QED  BY <1>1 DEF MayComeOut

\* The controls of the estimate, its quote and its invoice.
LEMMA EstimateUsed ==
  ASSUME TypeOK, NEW page \in Pages, Found(Tables, page),
         page[1] \in {"estimate", "preview", "quote", "invoice"},
         NEW c \in Controls(Tables, page), c[1] # "revokeLink",
         c[1] = "createPo" => \E p \in Pos : po[p].row = "absent",
         Used(c)
  PROVE  Take(c)
<1>0. /\ Tables.est = est /\ Tables.inv = inv /\ Tables.po = po
      /\ est \in EstRow
  BY TypeOKRows DEF Tables
<1>1. \/ /\ page[1] \in {"estimate", "preview"} /\ ~est.deleted
         /\ c \in EstimateControls(Tables) \cup PreviewControls(Tables)
      \/ /\ page[1] = "quote" /\ ~est.deleted
         /\ c \in PublicQuoteResponsePanel(Tables)
      \/ page[1] = "invoice" /\ c \in InvoiceControls(Tables)
  BY <1>0 DEF Found, Controls
<1>2. /\ c[2] = "est"
      /\ \/ c[1] = "issueLink" /\ ~est.deleted
         \/ /\ c[1] = "respond" /\ c[3] \in {"APPROVED", "REJECTED"}
            /\ est.link = "open" /\ ~est.deleted /\ est.status # "FINALIZED"
         \/ /\ c[1] = "status" /\ c[3] \in {"DRAFT", "SENT", "APPROVED", "REJECTED"} \ {est.status}
            /\ ~est.deleted /\ est.status # "FINALIZED"
         \/ c[1] = "sendEmail" /\ ~est.deleted /\ est.status # "FINALIZED"
         \/ c[1] = "createPo" /\ ~est.deleted /\ est.status = "APPROVED"
         \/ c[1] = "finalize" /\ ~est.deleted /\ CanFinalize(Tables)
         \/ c[1] = "unfinalize" /\ ~est.deleted /\ est.status = "FINALIZED"
         \/ c[1] = "delete" /\ ~est.deleted
         \/ c[1] = "createInvoice" /\ Approved(Tables) /\ inv = "none"
         \/ c[1] = "markPaid" /\ inv = "UNPAID"
  <2>1. CASE c \in EstimateControls(Tables) \cup PreviewControls(Tables) /\ ~est.deleted
    <3>1. CASE c \in EstimateQuoteLinkPanel(Tables)
      BY <2>1, <3>1 DEF EstimateQuoteLinkPanel, Offer
    <3>2. CASE c \in TotalsPanel(Tables)
      BY <1>0, <2>1, <3>2 DEF TotalsPanel, Offer
    <3>3. CASE c \in EstimateFulfillmentPanel(Tables)
      BY <1>0, <2>1, <3>3 DEF EstimateFulfillmentPanel, Offer, HasInvoice, Approved
    <3>4. CASE c \in SendEstimateEmailForm(Tables)
      BY <1>0, <2>1, <3>4 DEF SendEstimateEmailForm, Offer
    <3> QED  BY <2>1, <3>1, <3>2, <3>3, <3>4 DEF EstimateControls, PreviewControls
  <2>2. CASE c \in PublicQuoteResponsePanel(Tables) /\ ~est.deleted
    BY <1>0, <2>2 DEF PublicQuoteResponsePanel, CanRespond, Offer
  <2>3. CASE c \in InvoiceControls(Tables)
    BY <1>0, <2>3 DEF InvoiceControls, Offer
  <2> QED  BY <1>1, <2>1, <2>2, <2>3
<1> USE DEF Used, Take, TakeOnEstimate, EstAfter, InvAfter, PoAfter
<1>3. CASE c[2] = "est" /\ c[1] = "issueLink" /\ ~est.deleted
  BY <1>3 DEF IssueQuoteLink
<1>4. CASE /\ c[2] = "est" /\ c[1] = "respond"
           /\ est.link = "open" /\ ~est.deleted /\ est.status # "FINALIZED"
  BY <1>4 DEF CustomerResponds
<1>5. CASE /\ c[2] = "est" /\ c[1] = "status" /\ c[3] # est.status
           /\ ~est.deleted /\ est.status # "FINALIZED"
  BY <1>5 DEF UpdateEstimateStatus, SetEstimate
<1>6. CASE c[2] = "est" /\ c[1] = "sendEmail" /\ ~est.deleted /\ est.status # "FINALIZED"
  BY <1>6 DEF SendEstimateEmail
<1>7. CASE c[2] = "est" /\ c[1] = "createPo" /\ ~est.deleted /\ est.status = "APPROVED"
  <2>1. AbsentPo \in Pos /\ po[AbsentPo].row = "absent"
    BY <1>7 DEF AbsentPo
  <2>2. CreatePoFromEstimate(AbsentPo)
    BY <1>7, <2>1 DEF CreatePoFromEstimate, NewPo
  <2> QED  BY <1>7, <2>1, <2>2
<1>8. CASE c[2] = "est" /\ c[1] = "finalize" /\ ~est.deleted /\ CanFinalize(Tables)
  BY <1>8 DEF FinalizeEstimate, SetEstimate
<1>9. CASE c[2] = "est" /\ c[1] = "unfinalize" /\ ~est.deleted /\ est.status = "FINALIZED"
  BY <1>9 DEF UnfinalizeEstimate, SetEstimate
<1>10. CASE c[2] = "est" /\ c[1] = "delete" /\ ~est.deleted
  BY <1>10 DEF DeleteEstimate
<1>11. CASE c[2] = "est" /\ c[1] = "createInvoice" /\ Approved(Tables) /\ inv = "none"
  BY <1>11 DEF CreateInvoiceFromEstimate
<1>12. CASE c[2] = "est" /\ c[1] = "markPaid" /\ inv = "UNPAID"
  BY <1>12 DEF MarkInvoicePaid
<1> QED  BY <1>2, <1>3, <1>4, <1>5, <1>6, <1>7, <1>8, <1>9, <1>10, <1>11, <1>12


\* Those of the POs, their receipts and their reconciliation.
LEMMA PoUsed ==
  ASSUME TypeOK, NEW page \in Pages, Found(Tables, page),
         page[1] \in {"po", "recon", "ocr", "reconciliation-inbox"},
         NEW c \in Controls(Tables, page), Used(c)
  PROVE  Take(c)
<1>0. Tables.po = po /\ po \in [Pos -> PoRow] /\ \A p \in Pos : po[p].row = "absent" => po[p] = NoRow
  BY TypeOKRows DEF Tables
<1>1. page[1] # "reconciliation-inbox" => page[2] \in Pos
  BY DEF Pages
<1>2. /\ c[2] \in Pos
      /\ \/ c[1] = "poStatus" /\ po[c[2]].row = "live" /\ c[3] # po[c[2]].status
         \/ /\ c[1] \in {"qboNumber", "deletePo", "event", "clearBlocked", "recompute", "markReconciled"}
            /\ po[c[2]].row = "live"
         \/ c[1] = "removeReceipt" /\ po[c[2]].row = "live" /\ po[c[2]].doc # "none"
         \/ c[1] = "dismissAlert" /\ po[c[2]].alerts
         \/ /\ c[1] \in {"approve", "reject"} /\ po[c[2]].doc = "REVIEW_REQUIRED"
            /\ po[c[2]].row # "absent"
  <2>1. CASE page[1] = "po"
    <3>1. PICK p \in Pos : p = page[2]
      BY <1>1, <2>1
    <3>2. c \in PoControls(Tables, p) /\ po[p].row = "live"
      BY <1>0, <2>1, <3>1 DEF Found, Controls, Live
    <3>3. CASE c \in PoMetaPanel(Tables, p)
      BY <1>0, <3>2, <3>3 DEF PoMetaPanel, OfferPo
    <3>4. CASE c \in PoLifecycleControls(Tables, p)
      BY <1>0, <3>2, <3>4 DEF PoLifecycleControls, OfferPo
    <3>5. CASE c \in PoAttachmentsPanel(Tables, p)
      BY <1>0, <3>2, <3>5 DEF PoAttachmentsPanel, OfferPo
    <3> QED  BY <3>2, <3>3, <3>4, <3>5 DEF PoControls
  <2>2. CASE page[1] = "recon"
    <3>1. PICK p \in Pos : p = page[2]
      BY <1>1, <2>2
    <3>2. c \in ReconciliationToolbar(Tables, p) /\ po[p].row = "live"
      BY <1>0, <2>2, <3>1 DEF Found, Controls, Live
    <3> QED  BY <3>2 DEF ReconciliationToolbar, OfferPo
  <2>3. CASE page[1] = "ocr"
    <3>1. PICK p \in Pos : p = page[2]
      BY <1>1, <2>3
    <3>2. c \in OcrDecisionRail(Tables, p)
      BY <2>3, <3>1 DEF Controls
    <3>3. c[2] = p /\ c[1] \in {"approve", "reject"} /\ po[p].doc = "REVIEW_REQUIRED"
      BY <1>0, <3>2 DEF OcrDecisionRail, OfferPo
    <3>4. po[p].row # "absent"
      <4>1. NoRow.doc = "none"
        BY DEF NoRow
      <4> QED  BY <1>0, <3>3, <4>1
    <3> QED  BY <3>3, <3>4
  <2>4. CASE page[1] = "reconciliation-inbox"
    <3>1. c \in ReconInboxControls(Tables)
      BY <2>4 DEF Controls
    <3>2. PICK p \in Pos : c \in SpendAlertRows(Tables, p)
      BY <3>1 DEF ReconInboxControls
    <3> QED  BY <1>0, <3>2 DEF SpendAlertRows, OfferPo
  <2> QED  BY <2>1, <2>2, <2>3, <2>4
<1>3. PICK p \in Pos : p = c[2] /\ p # "est"
  BY <1>2, SmallTables
<1>4. /\ est' = est /\ inv' = inv /\ po' = [po EXCEPT ![p] = RowAfter(c, po[p])]
  BY <1>2, <1>3 DEF Used, EstAfter, InvAfter, PoAfter
<1>5. TakeOnPo(c) => Take(c)
  BY <1>3 DEF Take
<1>6. Outcome \in ReconOutcomes /\ MayComeOut(Outcome, Outcome # "PENDING")
  BY OutcomeComesOut
<1>7. CASE c[1] = "poStatus" /\ po[p].row = "live" /\ c[3] # po[p].status
  BY <1>3, <1>4, <1>5, <1>7 DEF RowAfter, TakeOnPo, UpdatePoStatus, SetPo
<1>8. CASE c[1] = "qboNumber" /\ po[p].row = "live"
  BY <1>3, <1>4, <1>5, <1>8 DEF RowAfter, TakeOnPo, SetQboNumber, SetPo
<1>9. CASE c[1] = "deletePo" /\ po[p].row = "live"
  BY <1>3, <1>4, <1>5, <1>9 DEF RowAfter, TakeOnPo, DeletePo, SetPo
<1>10. CASE c[1] = "event" /\ po[p].row = "live"
  BY <1>3, <1>4, <1>5, <1>10 DEF RowAfter, TakeOnPo, AppendEvent, SetPo
<1>11. CASE c[1] = "clearBlocked" /\ po[p].row = "live"
  BY <1>3, <1>4, <1>5, <1>11 DEF RowAfter, TakeOnPo, ClearPoBlocked, SetPo
<1>12. CASE c[1] = "removeReceipt" /\ po[p].row = "live" /\ po[p].doc # "none"
  BY <1>3, <1>4, <1>5, <1>12 DEF RowAfter, TakeOnPo, DeletePoAttachment, SetPo
<1>13. CASE c[1] = "recompute" /\ po[p].row = "live"
  BY <1>3, <1>4, <1>5, <1>6, <1>13 DEF RowAfter, TakeOnPo, Snapshot, SetPo
<1>14. CASE c[1] = "markReconciled" /\ po[p].row = "live"
  BY <1>3, <1>4, <1>5, <1>14 DEF RowAfter, TakeOnPo, MarkReconciled, SetPo
<1>15. CASE c[1] = "dismissAlert" /\ po[p].alerts
  BY <1>0, <1>3, <1>4, <1>5, <1>15 DEF RowAfter, TakeOnPo, DismissAlerts
<1>16. CASE c[1] = "approve" /\ po[p].doc = "REVIEW_REQUIRED" /\ po[p].row # "absent"
  BY <1>0, <1>3, <1>4, <1>5, <1>6, <1>16 DEF RowAfter, TakeOnPo, ApproveOcrDocument
<1>17. CASE c[1] = "reject" /\ po[p].doc = "REVIEW_REQUIRED" /\ po[p].row # "absent"
  BY <1>0, <1>3, <1>4, <1>5, <1>17 DEF RowAfter, TakeOnPo, RejectOcrDocument, SetReceipt
<1> QED  BY <1>2, <1>3, <1>7, <1>8, <1>9, <1>10, <1>11, <1>12, <1>13, <1>14, <1>15, <1>16, <1>17

\* Every control that a page offers is accepted by its handler, for any number of POs: there is a
\* step that uses it (Used gives each variable one next value) and that step is one of the
\* handler's.  Excepted are, as for the property OffersAreAccepted, "Revoke" and a PO when all the
\* POs there are were created.
THEOREM OffersHaveAStep ==
  ASSUME TypeOK, NEW page \in Pages, Found(Tables, page),
         NEW c \in Controls(Tables, page), c[1] # "revokeLink",
         c[1] = "createPo" => \E p \in Pos : po[p].row = "absent",
         Used(c)
  PROVE  Take(c)
<1>1. page[1] \in {"estimate", "preview", "quote", "invoice", "po", "recon", "ocr",
                   "reconciliation-inbox"}
  BY DEF Controls
<1> QED  BY <1>1, EstimateUsed, PoUsed

-----------------------------------------------------------------------------
(* A row of the queues is a task somebody can do *)

\* The reconciliation to settle first, the page on which a row is worked off, and the control.
OpenRecon == CHOOSE p \in Pos : p \in ReconAttention(Tables)

TaskPage(row) ==
  CASE row[1] = "est-awaiting" -> <<"quote", "est">>
    [] row[1] = "est-potentially-ready" -> <<"recon", OpenRecon>>
    [] row[1] = "inv-unpaid" -> <<"invoice", "est">>
    [] OTHER -> GetOperationalNextAction(row)

TaskControl(row) ==
  CASE row[1] = "est-awaiting" -> <<"respond", "est", "APPROVED">>
    [] row[1] = "est-no-po" -> <<"createPo", "est", "">>
    [] row[1] = "est-finalize" -> <<"finalize", "est", "">>
    [] row[1] = "est-potentially-ready" -> <<"markReconciled", OpenRecon, "">>
    [] row[1] = "est-invoice" -> <<"createInvoice", "est", "">>
    [] row[1] = "inv-unpaid" -> <<"markPaid", "est", "">>
    [] row[1] = "po-vendor" -> <<"poStatus", row[2], "RECEIVED">>
    [] row[1] = "ocr" -> <<"reject", row[2], "">>
    [] row[1] \in {"po-recon-snap", "po-variance"} -> <<"markReconciled", row[2], "">>

\* What makes each row of the queues appear.
LEMMA RowsAppear ==
  ASSUME NEW t, NEW r \in GetOperationalWorkflowQueues(AllSee(t), Alone)
  PROVE  \/ r = <<"est-awaiting", "est">> /\ AwaitingEstimates(t)
         \/ r = <<"est-no-po", "est">> /\ ApprovedNoPo(t)
         \/ r = <<"est-finalize", "est">> /\ ReadyToFinalizeCandidates(t) /\ CanFinalize(t)
         \/ /\ r = <<"est-potentially-ready", "est">> /\ ReadyToFinalizeCandidates(t)
            /\ EvaluateEstimateFinalizeGates(t) = "reconciliation_unresolved"
         \/ r = <<"est-invoice", "est">> /\ InvoiceAttentionEstimates(t)
         \/ r = <<"inv-unpaid", "est">> /\ UnpaidInvoices(t)
         \/ r = <<"po-vendor", r[2]>> /\ r[2] \in WaitingVendorPos(t)
         \/ r = <<"ocr", r[2]>> /\ r[2] \in OcrReviewDocs(t)
         \/ r = <<"po-recon-snap", r[2]>> /\ r[2] \in ReconSnapshotPos(t)
         \/ r = <<"po-variance", r[2]>> /\ r[2] \in ReconAttentionPos(t)
<1>0. \A q \in Queries : AllSee(t)[q] = t
  BY DEF AllSee
<1>1. /\ AllSee(t)["awaiting"] = t /\ AllSee(t)["noPo"] = t /\ AllSee(t)["candidates"] = t
      /\ AllSee(t)["invoice"] = t /\ AllSee(t)["unpaid"] = t
  BY <1>0 DEF Queries
<1>2. \A kind : \A found \in BOOLEAN : \A x \in EstRows(kind, found) : x = <<kind, "est">> /\ found
  BY DEF EstRows
<1>3. CASE r \in EstRows("est-awaiting", AwaitingEstimates(t))
  BY <1>2, <1>3 DEF AwaitingEstimates
<1>4. CASE r \in EstRows("est-no-po", ApprovedNoPo(t))
  BY <1>2, <1>4 DEF ApprovedNoPo
<1>5. CASE r \in ReadyRows(t)
  BY <1>2, <1>5 DEF ReadyRows
<1>6. CASE r \in EstRows("est-invoice", InvoiceDue(AllSee(t)))
  BY <1>1, <1>2, <1>6 DEF InvoiceDue
<1>7. CASE r \in EstRows("inv-unpaid", UnpaidInvoices(t))
  BY <1>2, <1>7 DEF UnpaidInvoices
<1>8. CASE r \in PurchaseOrderRows(AllSee(t), Alone)
  BY <1>8, PoRowKinds
<1> QED
  BY <1>1, <1>3, <1>4, <1>5, <1>6, <1>7, <1>8, AloneQueues, AlonePoRows DEF EveryEstimateRow

\* A row is gone when what makes it appear is.
LEMMA RowsGo ==
  ASSUME NEW t, NEW r,
         \/ r = <<"est-awaiting", "est">> /\ ~AwaitingEstimates(t)
         \/ r = <<"est-no-po", "est">> /\ ~ApprovedNoPo(t)
         \/ r = <<"est-finalize", "est">> /\ ~ReadyToFinalizeCandidates(t)
         \/ r = <<"est-invoice", "est">> /\ ~InvoiceAttentionEstimates(t)
         \/ r = <<"inv-unpaid", "est">> /\ ~UnpaidInvoices(t)
         \/ r = <<"po-vendor", r[2]>> /\ r[2] \notin WaitingVendorPos(t)
         \/ r = <<"ocr", r[2]>> /\ r[2] \notin OcrReviewDocs(t)
         \/ r = <<"po-recon-snap", r[2]>> /\ r[2] \notin ReconSnapshotPos(t)
         \/ r = <<"po-variance", r[2]>> /\ r[2] \notin ReconAttentionPos(t)
  PROVE  r \notin GetOperationalWorkflowQueues(AllSee(t), Alone)
<1>1. \A kind, x : <<kind, x>>[1] = kind
  OBVIOUS
<1> QED  BY <1>1, RowsAppear

\* The rows whose control the estimate's pages offer.
LEMMA EstimateTask ==
  ASSUME TypeOK, NEW row \in Rows,
         row[1] \in {"est-awaiting", "est-no-po", "est-finalize", "est-invoice", "inv-unpaid"},
         ~(row[1] = "inv-unpaid" /\ est.deleted),
         row[1] = "est-no-po" => \E p \in Pos : po[p].row = "absent"
  PROVE  /\ Found(Tables, GetOperationalNextAction(row))
         /\ TaskPage(row) \in WithinReach(GetOperationalNextAction(row))
         /\ TaskControl(row) \in Controls(Tables, TaskPage(row))
         /\ Used(TaskControl(row)) => row \notin Rows'
<1>0. /\ Tables.est = est /\ Tables.inv = inv /\ Tables.po = po
      /\ est \in EstRow /\ po \in [Pos -> PoRow]
  BY TypeOKRows DEF Tables
<1>1. Tables'.est = est' /\ Tables'.inv = inv' /\ Tables'.po = po'
  BY DEF Tables
<1>2. Rows' = GetOperationalWorkflowQueues(AllSee(Tables'), Alone)
  BY DEF Rows
<1>3. row \in GetOperationalWorkflowQueues(AllSee(Tables), Alone)
  BY DEF Rows
<1>4. \/ row = <<"est-awaiting", "est">> /\ AwaitingEstimates(Tables)
      \/ row = <<"est-no-po", "est">> /\ ApprovedNoPo(Tables)
      \/ row = <<"est-finalize", "est">> /\ ReadyToFinalizeCandidates(Tables) /\ CanFinalize(Tables)
      \/ row = <<"est-invoice", "est">> /\ InvoiceAttentionEstimates(Tables)
      \/ row = <<"inv-unpaid", "est">> /\ UnpaidInvoices(Tables)
  <2>1. \A kind, x : <<kind, x>>[1] = kind
    OBVIOUS
  <2> QED  BY <1>3, <2>1, RowsAppear
<1>5. ~est.deleted
  BY <1>0, <1>4 DEF AwaitingEstimates, ApprovedNoPo, ReadyToFinalizeCandidates,
                    InvoiceAttentionEstimates, Approved
<1> DEFINE home == <<"estimate", "est">>
<1>6. GetOperationalNextAction(row) = home
  BY <1>4 DEF GetOperationalNextAction
<1>7. Found(Tables, home)
  BY <1>0, <1>5 DEF Found
<1>8. home \in WithinReach(home)
  BY <1>7 DEF WithinReach
<1>9. CASE row = <<"est-awaiting", "est">> /\ AwaitingEstimates(Tables)
  <2> DEFINE c == <<"respond", "est", "APPROVED">>
             quote == <<"quote", "est">>
  <2>1. TaskPage(row) = quote /\ TaskControl(row) = c
    BY <1>9 DEF TaskPage, TaskControl
  <2>2. quote \in WithinReach(home)
    BY <1>0, <1>9 DEF WithinReach, Found, AwaitingEstimates
  <2>3. c \in Controls(Tables, quote)
    BY <1>0, <1>9 DEF Controls, PublicQuoteResponsePanel, CanRespond, Offer, AwaitingEstimates
  <2>4. Used(c) => row \notin Rows'
    <3> SUFFICES ASSUME Used(c) PROVE ~AwaitingEstimates(Tables')
      BY <1>2, <1>9, RowsGo
    <3> QED  BY <1>0, <1>1 DEF Used, EstAfter, AwaitingEstimates, EstRow
  <2> QED  BY <1>6, <1>7, <2>1, <2>2, <2>3, <2>4
<1>10. CASE row = <<"est-no-po", "est">> /\ ApprovedNoPo(Tables)
  <2> DEFINE c == <<"createPo", "est", "">>
  <2>1. TaskPage(row) = home /\ TaskControl(row) = c
    BY <1>6, <1>10 DEF TaskPage, TaskControl
  <2>2. c \in Controls(Tables, home)
    BY <1>0, <1>10 DEF Controls, EstimateControls, TotalsPanel, Offer, ApprovedNoPo, Approved
  <2>3. Used(c) => row \notin Rows'
    <3> SUFFICES ASSUME Used(c) PROVE ~ApprovedNoPo(Tables')
      BY <1>2, <1>10, RowsGo
    <3>1. AbsentPo \in Pos /\ po[AbsentPo].row = "absent"
      BY <1>10 DEF AbsentPo
    <3>2. po'[AbsentPo].row = "live" /\ po'[AbsentPo].linked
      BY <1>0, <3>1 DEF Used, PoAfter, PoRow
    <3> QED  BY <1>1, <3>1, <3>2 DEF ApprovedNoPo, LinkedPos, Live
  <2> QED  BY <1>6, <1>7, <1>8, <2>1, <2>2, <2>3
<1>11. CASE row = <<"est-finalize", "est">> /\ ReadyToFinalizeCandidates(Tables) /\ CanFinalize(Tables)
  <2> DEFINE c == <<"finalize", "est", "">>
  <2>1. TaskPage(row) = home /\ TaskControl(row) = c
    BY <1>6, <1>11 DEF TaskPage, TaskControl
  <2>2. c \in Controls(Tables, home)
    BY <1>11 DEF Controls, EstimateControls, TotalsPanel, Offer
  <2>3. Used(c) => row \notin Rows'
    <3> SUFFICES ASSUME Used(c) PROVE ~ReadyToFinalizeCandidates(Tables')
      BY <1>2, <1>11, RowsGo
    <3> QED  BY <1>0, <1>1 DEF Used, EstAfter, ReadyToFinalizeCandidates, Approved, EstRow
  <2> QED  BY <1>6, <1>7, <1>8, <2>1, <2>2, <2>3
<1>12. CASE row = <<"est-invoice", "est">> /\ InvoiceAttentionEstimates(Tables)
  <2> DEFINE c == <<"createInvoice", "est", "">>
  <2>1. TaskPage(row) = home /\ TaskControl(row) = c
    BY <1>6, <1>12 DEF TaskPage, TaskControl
  <2>2. c \in Controls(Tables, home)
    BY <1>0, <1>12 DEF Controls, EstimateControls, EstimateFulfillmentPanel, Offer, HasInvoice,
                       InvoiceAttentionEstimates, Approved
  <2>3. Used(c) => row \notin Rows'
    <3> SUFFICES ASSUME Used(c) PROVE ~InvoiceAttentionEstimates(Tables')
      BY <1>2, <1>12, RowsGo
    <3> QED  BY <1>1 DEF Used, InvAfter, InvoiceAttentionEstimates
  <2> QED  BY <1>6, <1>7, <1>8, <2>1, <2>2, <2>3
<1>13. CASE row = <<"inv-unpaid", "est">> /\ UnpaidInvoices(Tables)
  <2> DEFINE c == <<"markPaid", "est", "">>
             bill == <<"invoice", "est">>
  <2>1. TaskPage(row) = bill /\ TaskControl(row) = c
    BY <1>13 DEF TaskPage, TaskControl
  <2>2. HasInvoice(Tables)
    BY <1>13 DEF HasInvoice, UnpaidInvoices
  <2>3. bill \in EstPage("invoice", HasInvoice(Tables))
    BY <2>2 DEF EstPage
  <2>4. bill \in Links(Tables, home)
    BY <2>3 DEF Links, EstimateLinks, LinkedRows
  <2>5. bill \in WithinReach(home)
    BY <2>2, <2>4 DEF WithinReach, Found
  <2>6. c \in Controls(Tables, bill)
    BY <1>13 DEF Controls, InvoiceControls, Offer, UnpaidInvoices
  <2>7. Used(c) => row \notin Rows'
    <3> SUFFICES ASSUME Used(c) PROVE ~UnpaidInvoices(Tables')
      BY <1>2, <1>13, RowsGo
    <3> QED  BY <1>1 DEF Used, InvAfter, UnpaidInvoices
  <2> QED  BY <1>6, <1>7, <2>1, <2>5, <2>6, <2>7
<1> QED  BY <1>4, <1>9, <1>10, <1>11, <1>12, <1>13

\* The closeout that waits for a reconciliation: the estimate leads to the first one.
LEMMA ReconciliationTask ==
  ASSUME TypeOK, NEW row \in Rows, row[1] = "est-potentially-ready"
  PROVE  /\ Found(Tables, GetOperationalNextAction(row))
         /\ TaskPage(row) \in WithinReach(GetOperationalNextAction(row))
         /\ TaskControl(row) \in Controls(Tables, TaskPage(row))
         /\ Used(TaskControl(row)) =>
              \E p \in ReconAttention(Tables) : p \notin ReconAttention(Tables)'
<1>0. /\ Tables.est = est /\ Tables.po = po /\ po \in [Pos -> PoRow]
  BY TypeOKRows DEF Tables
<1>1. /\ ReadyToFinalizeCandidates(Tables)
      /\ EvaluateEstimateFinalizeGates(Tables) = "reconciliation_unresolved"
  <2>1. \A kind, x : <<kind, x>>[1] = kind
    OBVIOUS
  <2> QED  BY <2>1, RowsAppear DEF Rows
<1>2. est.status = "APPROVED" /\ ~est.deleted
  BY <1>0, <1>1 DEF ReadyToFinalizeCandidates, Approved
<1>3. ReconAttention(Tables) # {}
  <2>1. CASE LinkedPos(Tables) # {} /\ MissingQbo(Tables) = {}
    BY <1>0, <1>1, <1>2, <2>1, Zenon DEF EvaluateEstimateFinalizeGates
  <2>2. CASE MissingQbo(Tables) # {}
    BY <1>0, <1>1, <1>2, <2>2 DEF EvaluateEstimateFinalizeGates
  <2>3. LinkedPos(Tables) # {}
    BY <1>1 DEF ReadyToFinalizeCandidates
  <2> QED  BY <2>1, <2>2, <2>3
<1>4. PICK p \in Pos : p = OpenRecon /\ p \in ReconAttention(Tables)
  BY <1>3 DEF OpenRecon, ReconAttention, LinkedPos, Live
<1>5. /\ po[p].row = "live" /\ ReconciliationNeedsAttention(po[p].recon) /\ p # "est"
      /\ p \in Live(Tables)
  BY <1>0, <1>4, SmallTables DEF ReconAttention, LinkedPos, Live
<1> DEFINE home == <<"estimate", "est">>
           recon == <<"recon", p>>
           c == <<"markReconciled", p, "">>
<1>6. /\ GetOperationalNextAction(row) = home
      /\ TaskPage(row) = recon /\ TaskControl(row) = c
  BY <1>4 DEF GetOperationalNextAction, TaskPage, TaskControl
<1>7. Found(Tables, home)
  BY <1>0, <1>2 DEF Found
<1>8. recon \in PagesOf("recon", ReconAttention(Tables))
  BY <1>4 DEF PagesOf
<1>9. recon \in Links(Tables, home)
  <2>1. recon \in ChecklistLinks(Tables)
    BY <1>3, <1>8 DEF ChecklistLinks
  <2> QED  BY <1>0, <1>2, <2>1 DEF Links, EstimateLinks
<1>10. recon \in WithinReach(home)
  BY <1>5, <1>9 DEF WithinReach, Found
<1>11. c \in Controls(Tables, recon)
  BY DEF Controls, ReconciliationToolbar, OfferPo
<1>12. ASSUME Used(c) PROVE p \notin ReconAttention(Tables)'
  <2>1. po'[p].recon = "RESOLVED"
    BY <1>0, <1>5, <1>12 DEF Used, PoAfter, RowAfter, PoRow, ReconciliationNeedsAttention
  <2> QED  BY <2>1 DEF ReconAttention, ReconciliationNeedsAttention, Tables
<1> QED  BY <1>4, <1>6, <1>7, <1>10, <1>11, <1>12

\* The rows of the POs and of their receipts.
LEMMA PoTask ==
  ASSUME TypeOK, NEW row \in Rows,
         row[1] \in {"po-vendor", "ocr", "po-recon-snap", "po-variance"}
  PROVE  /\ Found(Tables, GetOperationalNextAction(row))
         /\ TaskPage(row) \in WithinReach(GetOperationalNextAction(row))
         /\ TaskControl(row) \in Controls(Tables, TaskPage(row))
         /\ Used(TaskControl(row)) => row \notin Rows'
<1>0. Tables.po = po /\ po \in [Pos -> PoRow] /\ Tables'.po = po'
  BY TypeOKRows DEF Tables
<1>1. Rows' = GetOperationalWorkflowQueues(AllSee(Tables'), Alone)
  BY DEF Rows
<1>2. \/ row = <<"po-vendor", row[2]>> /\ row[2] \in WaitingVendorPos(Tables)
      \/ row = <<"ocr", row[2]>> /\ row[2] \in OcrReviewDocs(Tables)
      \/ row = <<"po-recon-snap", row[2]>> /\ row[2] \in ReconSnapshotPos(Tables)
      \/ row = <<"po-variance", row[2]>> /\ row[2] \in ReconAttentionPos(Tables)
  <2>1. \A kind, x : <<kind, x>>[1] = kind
    OBVIOUS
  <2> QED  BY <2>1, RowsAppear DEF Rows
<1>3. PICK p \in Pos : p = row[2] /\ p # "est"
  BY <1>2, SmallTables DEF WaitingVendorPos, OcrReviewDocs, ReconSnapshotPos, ReconAttentionPos, Live
<1>4. \A page : Found(Tables, page) => page \in WithinReach(page)
  BY DEF WithinReach
<1>5. TaskPage(row) = GetOperationalNextAction(row)
  BY <1>2 DEF TaskPage
<1>6. CASE row = <<"po-vendor", p>> /\ p \in WaitingVendorPos(Tables)
  <2> DEFINE c == <<"poStatus", p, "RECEIVED">>
             page == <<"po", p>>
  <2>1. GetOperationalNextAction(row) = page /\ TaskControl(row) = c
    BY <1>6 DEF GetOperationalNextAction, TaskControl
  <2>2. p \in Live(Tables) /\ po[p].status \in OPEN_PO_STATUSES
    BY <1>0, <1>6 DEF WaitingVendorPos
  <2>3. Found(Tables, page)
    BY <2>2 DEF Found
  <2>4. c \in Controls(Tables, page)
    BY <1>0, <2>2 DEF Controls, PoControls, PoMetaPanel, OfferPo, OPEN_PO_STATUSES, PoStatus
  <2>5. ASSUME Used(c) PROVE p \notin WaitingVendorPos(Tables')
    <3>1. po'[p].status = "RECEIVED"
      BY <1>0, <1>3, <2>5 DEF Used, PoAfter, RowAfter, PoRow
    <3> QED  BY <1>0, <3>1 DEF WaitingVendorPos, OPEN_PO_STATUSES
  <2>6. Used(c) => row \notin Rows'
    BY <1>1, <1>3, <1>6, <2>5, RowsGo
  <2> QED  BY <1>4, <1>5, <2>1, <2>3, <2>4, <2>6
<1>7. CASE row = <<"ocr", p>> /\ p \in OcrReviewDocs(Tables)
  <2> DEFINE c == <<"reject", p, "">>
             page == <<"ocr", p>>
  <2>1. GetOperationalNextAction(row) = page /\ TaskControl(row) = c
    BY <1>7 DEF GetOperationalNextAction, TaskControl
  <2>2. po[p].doc = "REVIEW_REQUIRED"
    BY <1>0, <1>7 DEF OcrReviewDocs
  <2>3. Found(Tables, page)
    BY <1>0, <2>2 DEF Found
  <2>4. c \in Controls(Tables, page)
    BY <1>0, <2>2 DEF Controls, OcrDecisionRail, OfferPo
  <2>5. ASSUME NEW d, d[1] = "reject", d[2] = p, Used(d) PROVE p \notin OcrReviewDocs(Tables')
    <3>1. po'[p].doc = "REJECTED"
      BY <1>0, <1>3, <2>5 DEF Used, PoAfter, RowAfter, PoRow
    <3> QED  BY <1>0, <3>1 DEF OcrReviewDocs
  <2>6. Used(c) => row \notin Rows'
    <3>1. c[1] = "reject" /\ c[2] = p
      OBVIOUS
    <3> HIDE DEF c
    <3> QED  BY <1>1, <1>3, <1>7, <2>5, <3>1, RowsGo
  <2> QED  BY <1>4, <1>5, <2>1, <2>3, <2>4, <2>6
<1>8. CASE \/ row = <<"po-recon-snap", p>> /\ p \in ReconSnapshotPos(Tables)
           \/ row = <<"po-variance", p>> /\ p \in ReconAttentionPos(Tables)
  <2> DEFINE c == <<"markReconciled", p, "">>
             page == <<"recon", p>>
  <2>1. GetOperationalNextAction(row) = page /\ TaskControl(row) = c
    <3>1. row[1] \in {"po-recon-snap", "po-variance"} /\ row[2] = p
      BY <1>8
    <3> HIDE DEF c, page
    <3>2. GetOperationalNextAction(row) = <<"recon", row[2]>>
      BY <3>1 DEF GetOperationalNextAction
    <3>3. TaskControl(row) = <<"markReconciled", row[2], "">>
      BY <3>1, Zenon DEF TaskControl
    <3> QED  BY <3>1, <3>2, <3>3 DEF c, page
  <2>2. p \in Live(Tables)
    BY <1>8 DEF ReconSnapshotPos, ReconAttentionPos
  <2>3. Found(Tables, page)
    BY <2>2 DEF Found
  <2>4. c \in Controls(Tables, page)
    BY DEF Controls, ReconciliationToolbar, OfferPo
  <2>5. ASSUME NEW d, d[1] = "markReconciled", d[2] = p, Used(d)
        PROVE  p \notin ReconSnapshotPos(Tables') \cup ReconAttentionPos(Tables')
    <3>1. po'[p].stamped
      BY <1>0, <1>3, <2>5 DEF Used, PoAfter, RowAfter, PoRow
    <3> QED  BY <1>0, <3>1 DEF ReconSnapshotPos, ReconAttentionPos
  <2>6. Used(c) => row \notin Rows'
    <3>1. c[1] = "markReconciled" /\ c[2] = p
      OBVIOUS
    <3> HIDE DEF c
    <3> QED  BY <1>1, <1>3, <1>8, <2>5, <3>1, RowsGo
  <2> QED  BY <1>4, <1>5, <2>1, <2>3, <2>4, <2>6
<1> QED  BY <1>2, <1>3, <1>6, <1>7, <1>8

\* The controls of the tasks are those that clear the rows, and their handlers accept them.
LEMMA TasksAccepted ==
  ASSUME TypeOK, NEW row \in Rows,
         row[1] = "est-no-po" => \E p \in Pos : po[p].row = "absent",
         Found(Tables, TaskPage(row)), TaskControl(row) \in Controls(Tables, TaskPage(row))
  PROVE  /\ TaskControl(row)[1] \in ClearedBy(row)
         /\ Used(TaskControl(row)) => Take(TaskControl(row))
<1>1. \/ row[1] \in {"est-awaiting", "est-no-po", "est-finalize", "est-potentially-ready",
                     "est-invoice", "inv-unpaid"}
      \/ /\ row[1] \in {"po-vendor", "po-recon-snap", "po-variance", "ocr"}
         /\ row[2] \in Pos
  <2>1. \A kind, x : <<kind, x>>[1] = kind
    OBVIOUS
  <2> QED  BY <2>1, RowsAppear DEF Rows, WaitingVendorPos, OcrReviewDocs, ReconSnapshotPos,
                                  ReconAttentionPos, Live
<1>2. TaskPage(row) \in Pages
  <2>1. row[1] = "est-potentially-ready" => OpenRecon \in Pos
    BY DEF TaskPage, Found, Live
  <2> QED  BY <1>1, <2>1 DEF TaskPage, GetOperationalNextAction, Pages
<1>3. /\ TaskControl(row)[1] \in ClearedBy(row) /\ TaskControl(row)[1] # "revokeLink"
      /\ TaskControl(row)[1] = "createPo" => row[1] = "est-no-po"
  BY <1>1 DEF TaskControl, ClearedBy
<1> QED  BY <1>2, <1>3, OffersHaveAStep

\* Every row of the queues is a task somebody can do, for any number of POs: the row leads to a page
\* that is found, there or one link further the control of the task is offered, and the step that
\* uses it is one of its handler's and takes the row off the list (or one of several open
\* reconciliations off the estimate).  The exceptions are those of the property RowsCanBeCleared.
THEOREM RowsHaveATask ==
  ASSUME TypeOK, NEW row \in Rows, ~(row[1] = "inv-unpaid" /\ est.deleted),
         row[1] = "est-no-po" => \E p \in Pos : po[p].row = "absent"
  PROVE  /\ Found(Tables, GetOperationalNextAction(row))
         /\ TaskPage(row) \in WithinReach(GetOperationalNextAction(row))
         /\ TaskControl(row) \in Controls(Tables, TaskPage(row))
         /\ TaskControl(row)[1] \in ClearedBy(row)
         /\ Used(TaskControl(row)) => Take(TaskControl(row)) /\ Served(row)
<1>1. row[1] \in {"est-awaiting", "est-no-po", "est-finalize", "est-invoice", "inv-unpaid",
                  "est-potentially-ready", "po-vendor", "ocr", "po-recon-snap", "po-variance"}
  <2>1. \A kind, x : <<kind, x>>[1] = kind
    OBVIOUS
  <2> QED  BY <2>1, RowsAppear DEF Rows
<1>2. /\ Found(Tables, GetOperationalNextAction(row))
      /\ TaskPage(row) \in WithinReach(GetOperationalNextAction(row))
      /\ TaskControl(row) \in Controls(Tables, TaskPage(row))
      /\ Used(TaskControl(row)) => Served(row)
  BY <1>1, EstimateTask, ReconciliationTask, PoTask DEF Served
<1>3. Found(Tables, TaskPage(row))
  BY <1>2 DEF WithinReach
<1> QED  BY <1>2, <1>3, TasksAccepted
=============================================================================
