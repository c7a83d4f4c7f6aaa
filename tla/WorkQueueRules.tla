--------------------------- MODULE WorkQueueRules ---------------------------
(***************************************************************************)
(* What the screens say of an estimate and its POs: the operational queues *)
(* and the PO lifecycle queues of the dashboard, the flow lists next to    *)
(* them, the finalize gates and checklist, and the "next step" the list    *)
(* and the editor show.  No state: every operator is a function of the     *)
(* stored rows, given as a record                                          *)
(*   t = [est |-> [status, deleted, link], inv |-> status, po |-> [Pos]]   *)
(* with one estimate, its invoice, and for each PO                         *)
(*   [row, linked, status, qbo, events, doc, recon, alerts, stamped]:      *)
(* doc the state of its receipt's OcrDocument, recon the status of its     *)
(* newest snapshot, events the kinds found on its timeline (an             *)
(* OPERATOR_BLOCKED that a later event clears is taken out), alerts        *)
(* whether a SpendAlert of it is OPEN, stamped operatorMarkedReconciledAt. *)
(* The queues of the dashboard take a limited number of rows, and other    *)
(* jobs compete for them; how many come before a row is an argument.  The  *)
(* limits of the flow lists, which no page shows, the dashboard's filters  *)
(* (mine, stale, blocked, unresolved) and staleness are left out.          *)
(***************************************************************************)
EXTENDS Integers

CONSTANT Pos

PoStatus == {"DRAFT", "SENT", "ORDERED", "PARTIALLY_RECEIVED", "RECEIVED", "CANCELED"}
POReconciliationStatus == {"PENDING", "PARTIAL", "MATCHED", "VARIANCE", "REVIEW_REQUIRED", "RESOLVED"}
OPEN_PO_STATUSES == {"SENT", "ORDERED", "PARTIALLY_RECEIVED"}

ReconciliationNeedsAttention(status) == status \notin {"none", "MATCHED", "RESOLVED"}

Live(t) == {p \in Pos : t.po[p].row = "live"}
LinkedPos(t) == {p \in Live(t) : t.po[p].linked}
Approved(t) == t.est.status = "APPROVED" /\ ~t.est.deleted

\* What a list shows is <<kind, subject>>: the estimate if it is found, or the POs found.
EstRows(kind, found) == {row \in {<<kind, "est">>} : found}
PoRows(kind, found) == {<<kind, p>> : p \in found}

-----------------------------------------------------------------------------
(* The limits (take, slice) of the dashboard's queries and of what it shows of their rows *)

Subjects == Pos \cup {"est"}

\* The queries of the operational queues, and the buckets their rows are shown in.
Queries == {"awaiting", "noPo", "candidates", "vendor", "ocr", "attention", "snapshot",
            "invoice", "unpaid", "finalized", "reconciled", "paid"}
Buckets == {"awaiting_customer", "approved_waiting_po", "ready_to_finalize",
            "waiting_vendor_reply", "ocr_review", "reconciliation_variance",
            "invoice_attention", "recently_completed"}
Lists == Queries \cup Buckets \cup {"lifecycle", "lifecycleSection"}

Limit ==
  [list \in Lists |->
     CASE list = "lifecycle" -> 60
       [] list = "candidates" -> 20
       [] list \in {"awaiting", "noPo", "vendor", "ocr", "attention"} -> 12
       [] list = "finalized" -> 6
       [] list \in {"reconciled", "paid"} -> 5
       [] OTHER -> 8]

\* ahead[list][s]: how many rows come before that of s in a list, of this job or of others, and
\* also those the page takes out only after the limit has been applied.
Shown(ahead, list, s) == ahead[list][s] < Limit[list]
Within(ahead, list, rows) == {row \in rows : Shown(ahead, list, row[2])}

\* No other job.
Alone == [list \in Lists |-> [s \in Subjects |-> 0]]

-----------------------------------------------------------------------------
(* The finalize gates and the checklist *)

MissingQbo(t) == {p \in LinkedPos(t) : ~t.po[p].qbo}
ReconAttention(t) == {p \in LinkedPos(t) : ReconciliationNeedsAttention(t.po[p].recon)}

EvaluateEstimateFinalizeGates(t) ==
  CASE t.est.status = "FINALIZED" -> "already_finalized"
    [] t.est.status \notin {"APPROVED", "FINALIZED"} -> "not_approved"
    [] t.est.status = "APPROVED" /\ LinkedPos(t) = {} -> "no_linked_po"
    [] t.est.status = "APPROVED" /\ MissingQbo(t) # {} -> "missing_qbo"
    [] t.est.status = "APPROVED" /\ LinkedPos(t) # {} /\ MissingQbo(t) = {} ->
         IF ReconAttention(t) # {} THEN "reconciliation_unresolved" ELSE "ready"

CanFinalize(t) == EvaluateEstimateFinalizeGates(t) = "ready"

\* The items of the checklist that are done.
BuildEstimateFinalizeChecklist(t) ==
  {item \in {"quote", "po", "qbo", "recon", "invoice"} :
     \/ item = "quote" /\ t.est.status \in {"APPROVED", "FINALIZED"}
     \/ item = "po" /\ LinkedPos(t) # {}
     \/ item = "qbo" /\ LinkedPos(t) # {} /\ MissingQbo(t) = {}
     \/ item = "recon" /\ LinkedPos(t) # {} /\ ReconAttention(t) = {}
     \/ item = "invoice" /\ t.inv = "PAID"}

-----------------------------------------------------------------------------
(* The next step of an estimate: list, chips, editor *)

HasPo(t) == LinkedPos(t) # {}
HasInvoice(t) == t.inv # "none"

\* Mutant: the list looks for the invoice first.
NextActionInvoiceFirst(t) ==
  CASE t.est.status = "APPROVED" /\ ~HasInvoice(t) -> "invoice"
    [] t.est.status = "APPROVED" /\ HasInvoice(t) /\ ~HasPo(t) -> "po"
    [] OTHER -> "open"

GetEstimateListNextAction(t) ==
  CASE t.est.status = "APPROVED" /\ ~HasPo(t) -> "po"
    [] t.est.status = "APPROVED" /\ HasPo(t) /\ ~HasInvoice(t) -> "invoice"
    [] OTHER -> "open"

GetEstimateListWorkflowChips(t) ==
  CASE t.est.status = "SENT" -> {"awaiting_customer"}
    [] t.est.status = "APPROVED" /\ ~HasPo(t) -> {"approved_waiting_po"}
    [] t.est.status = "APPROVED" /\ HasPo(t) /\ ~HasInvoice(t) -> {"PO linked", "Bill customer"}
    [] t.est.status = "APPROVED" /\ HasPo(t) /\ HasInvoice(t) -> {"PO + invoice", "Potentially ready"}
    [] OTHER -> {}

GetEstimateEditorPrimaryAction(t) ==
  CASE t.est.status = "SENT" -> "send"
    [] t.est.status = "APPROVED" /\ ~HasPo(t) -> "po"
    [] t.est.status = "APPROVED" /\ HasPo(t) /\ ~HasInvoice(t) -> "invoice"
    [] OTHER -> "preview"

\* The rail of the fulfillment panel: the steps shown as done.
DeriveEstimateOperationalSteps(t) ==
  {step \in {"quote_sent", "customer_approved", "po_created", "invoice_created",
             "invoice_paid", "fulfilled"} :
     \/ step = "quote_sent" /\ t.est.status # "DRAFT"
     \/ step = "customer_approved" /\ t.est.status \in {"APPROVED", "FINALIZED"}
     \/ step = "po_created" /\ HasPo(t)
     \/ step = "invoice_created" /\ HasInvoice(t)
     \/ step = "invoice_paid" /\ t.inv = "PAID"
     \/ step = "fulfilled" /\ t.est.status = "FINALIZED"}

\* The hints of the fulfillment panel that ask for something.
FulfillmentOperationalHints(t) ==
  EstRows("no_po", t.est.status = "APPROVED" /\ ~HasPo(t))
  \cup EstRows("unpaid", t.inv = "UNPAID")
  \cup EstRows("no_invoice", t.est.status \in {"APPROVED", "FINALIZED"} /\ ~HasInvoice(t))
  \cup PoRows("recon", ReconAttention(t))

-----------------------------------------------------------------------------
(* The lifecycle state of a PO *)

Acknowledged(o) == o.events \cap {"OPERATOR_VENDOR_ACKNOWLEDGED", "VENDOR_REPLY"} # {}
ReceivedComplete(o) == "OPERATOR_RECEIVED_COMPLETE" \in o.events
\* Mutant: the snapshot itself is not asked.
VarianceByAlerts(o) == o.alerts

HasVariance(o) == ReconciliationNeedsAttention(o.recon) \/ o.alerts

\* Mutant: the QuickBooks number of this PO alone is asked for.
ReadyByOwnQbo(t, p) ==
  /\ t.po[p].linked /\ t.est.status = "APPROVED"
  /\ t.po[p].qbo
  /\ ~ReconciliationNeedsAttention(t.po[p].recon)

\* Neither the signals nor this test look at the deletion of the estimate.
DeriveReadyToFinalizeOverlay(t, p) ==
  /\ t.po[p].linked /\ t.est.status = "APPROVED"
  /\ t.po[p].qbo
  /\ ~ReconciliationNeedsAttention(t.po[p].recon)
  /\ MissingQbo(t) = {}

GetPurchaseOrderLifecycleState(t, p) ==
  LET o == t.po[p]
      received == \/ ReceivedComplete(o) \/ o.status = "RECEIVED"
                  \/ o.stamped /\ o.recon = "MATCHED"
      finalized == o.linked /\ t.est.status = "FINALIZED"
  IN  IF o.status = "CANCELED" THEN "canceled"
      ELSE IF "OPERATOR_BLOCKED" \in o.events THEN "blocked_backordered"
      ELSE IF HasVariance(o) THEN "variance_detected"
      ELSE IF o.doc = "CONFIRMED" /\ o.recon = "none" THEN "reconciliation_needed"
      ELSE IF DeriveReadyToFinalizeOverlay(t, p) THEN "ready_to_finalize"
      ELSE IF received THEN (IF finalized \/ o.stamped THEN "completed" ELSE "received")
      ELSE IF o.status = "PARTIALLY_RECEIVED" \/ o.doc = "CONFIRMED" THEN "partially_received"
      ELSE IF Acknowledged(o) THEN "waiting_on_shipment"   \* nothing confirmed: see the line above
      ELSE IF o.status = "DRAFT" THEN "draft" ELSE "sent_to_vendor"

LifecycleBucketForState(state) ==
  CASE state = "sent_to_vendor" -> "waiting_vendor_ack"
    [] state \in {"waiting_on_shipment", "vendor_acknowledged"} -> "waiting_shipment_receipt"
    [] state = "partially_received" -> "partial_receipt"
    [] state \in {"variance_detected", "reconciliation_needed"} -> "variance_detected"
    [] state \in {"ready_to_finalize", "blocked_backordered"} -> state
    [] OTHER -> "none"

\* The 60 POs changed last are looked at, and 8 of each section are shown.
GetPoLifecycleDashboardQueues(t, ahead) ==
  {row \in Live(t) \X {"waiting_vendor_ack", "waiting_shipment_receipt", "partial_receipt",
                       "variance_detected", "ready_to_finalize", "blocked_backordered"} :
     /\ t.po[row[1]].status # "CANCELED"
     /\ row[2] = LifecycleBucketForState(GetPurchaseOrderLifecycleState(t, row[1]))
     /\ Shown(ahead, "lifecycle", row[1]) /\ Shown(ahead, "lifecycleSection", row[1])}

\* The receipt card of the PO page: the one call to action about receipts, and the stamp.
BuildPoReceiptNextActions(t, p) ==
  LET o == t.po[p]
      attention == ReconciliationNeedsAttention(o.recon)
  IN  {step \in {"Review OCR", "Run reconciliation", "Resolve variance", "Mark PO reconciled"} :
         \/ step = "Review OCR" /\ o.doc = "REVIEW_REQUIRED"
         \/ step = "Run reconciliation" /\ o.doc = "CONFIRMED" /\ o.recon = "none"
         \/ step = "Resolve variance" /\ o.doc # "REVIEW_REQUIRED" /\ attention
         \/ /\ step = "Mark PO reconciled"
            /\ o.recon # "none" /\ ~o.stamped /\ ~o.alerts /\ ~attention}

-----------------------------------------------------------------------------
(* The queries of the operational queues *)

AwaitingEstimates(t) == t.est.status = "SENT" /\ ~t.est.deleted /\ t.est.link = "open"
ApprovedNoPo(t) == Approved(t) /\ LinkedPos(t) = {}
ReadyToFinalizeCandidates(t) == Approved(t) /\ LinkedPos(t) # {}
WaitingVendorPos(t) ==
  {p \in Live(t) : t.po[p].status \in OPEN_PO_STATUSES /\ "VENDOR_REPLY" \notin t.po[p].events}
\* The PO of the attachment may be deleted.
OcrReviewDocs(t) == {p \in Pos : t.po[p].doc = "REVIEW_REQUIRED"}
ReconAttentionPos(t) ==
  {p \in Live(t) : ~t.po[p].stamped /\ ReconciliationNeedsAttention(t.po[p].recon)}
ReconSnapshotPos(t) ==
  {p \in Live(t) : ~t.po[p].stamped /\ t.po[p].doc = "CONFIRMED" /\ t.po[p].recon = "none"}
\* Mutant: a job with all its numbers is left to the list of those ready to finalize.
InvoiceAttentionUnready(t) == Approved(t) /\ t.inv = "none" /\ MissingQbo(t) # {}

InvoiceAttentionEstimates(t) == Approved(t) /\ t.inv = "none"
\* Whatever became of its estimate.
UnpaidInvoices(t) == t.inv = "UNPAID"
RecentlyFinalized(t) == t.est.status = "FINALIZED" /\ ~t.est.deleted
RecentlyReconciledPos(t) == {p \in Live(t) : t.po[p].stamped}
RecentlyPaidInvoices(t) == t.inv = "PAID"

-----------------------------------------------------------------------------
(* The page: the queries of one Promise.all, each of which may have seen other tables.   *)
(* v gives for each query the tables it saw.                                              *)

\* GetOperationalWorkflowState as the queue calls it: approved, all numbers recorded.
GetOperationalWorkflowState(t) ==
  IF LinkedPos(t) # {} /\ MissingQbo(t) = {} THEN "ready_to_finalize" ELSE "other"

\* Mutant: an open reconciliation takes the estimate off the list.
ReadyRowsWhenOpen(t) == EstRows("est-finalize", ReadyToFinalizeCandidates(t) /\ CanFinalize(t))

\* All POs have their number and the gates hold or wait for a reconciliation only.
ReadyRows(t) ==
  LET offered == /\ ReadyToFinalizeCandidates(t)
                 /\ GetOperationalWorkflowState(t) = "ready_to_finalize"
  IN  EstRows("est-finalize", offered /\ CanFinalize(t))
      \cup EstRows("est-potentially-ready",
                   offered /\ EvaluateEstimateFinalizeGates(t) = "reconciliation_unresolved")

NoPoRows(v, ahead) ==
  Within(ahead, "noPo", EstRows("est-no-po", ApprovedNoPo(v["noPo"])))

SnapshotRows(v, ahead) ==
  Within(ahead, "snapshot", PoRows("po-recon-snap", ReconSnapshotPos(v["snapshot"])))

\* seenKeys: what the rows before it have named already is not listed again.
VarianceRows(v, ahead) ==
  Within(ahead, "attention",
         PoRows("po-variance", {p \in ReconAttentionPos(v["attention"]) :
                                  <<"po-recon-snap", p>> \notin SnapshotRows(v, ahead)}))

InvoiceRows(v, ahead) ==
  Within(ahead, "invoice",
         EstRows("est-invoice", /\ InvoiceAttentionEstimates(v["invoice"]) /\ HasPo(v["invoice"])
                                /\ NoPoRows(v, ahead) = {}))

EstimateRows(v, ahead) ==
  Within(ahead, "awaiting", EstRows("est-awaiting", AwaitingEstimates(v["awaiting"])))
  \cup NoPoRows(v, ahead)
  \cup Within(ahead, "candidates", ReadyRows(v["candidates"]))
  \cup InvoiceRows(v, ahead)
  \cup Within(ahead, "unpaid", EstRows("inv-unpaid", UnpaidInvoices(v["unpaid"])))

PurchaseOrderRows(v, ahead) ==
  Within(ahead, "vendor", PoRows("po-vendor", WaitingVendorPos(v["vendor"])))
  \cup Within(ahead, "ocr", PoRows("ocr", OcrReviewDocs(v["ocr"])))
  \cup SnapshotRows(v, ahead) \cup VarianceRows(v, ahead)

BucketForWorkflowState(row) ==
  CASE row[1] \in {"po-recon-snap", "po-variance"} -> "reconciliation_variance"
    [] row[1] \in {"est-invoice", "inv-unpaid"} -> "invoice_attention"
    [] row[1] \in {"est-finalize", "est-potentially-ready"} -> "ready_to_finalize"
    [] row[1] = "ocr" -> "ocr_review"
    [] row[1] = "po-vendor" -> "waiting_vendor_reply"
    [] row[1] = "est-no-po" -> "approved_waiting_po"
    [] row[1] = "est-awaiting" -> "awaiting_customer"
    [] OTHER -> "recently_completed"

\* The rows of each bucket, newest first, as many as it shows.
Sections(ahead, items) == {row \in items : Shown(ahead, BucketForWorkflowState(row), row[2])}

\* The work to do, and below it what was completed lately.
GetOperationalWorkflowQueues(v, ahead) ==
  Sections(ahead, EstimateRows(v, ahead)) \cup Sections(ahead, PurchaseOrderRows(v, ahead))

RecentlyCompleted(v, ahead) ==
  Sections(ahead,
    Within(ahead, "finalized", EstRows("est-done", RecentlyFinalized(v["finalized"])))
    \cup Within(ahead, "reconciled", PoRows("po-done", RecentlyReconciledPos(v["reconciled"])))
    \cup Within(ahead, "paid", EstRows("inv-paid", RecentlyPaidInvoices(v["paid"]))))

-----------------------------------------------------------------------------
(* The flow lists that were to stand next to the queues; no page asks for them today *)

GetDashboardEstimatePoFlow(t) ==
  EstRows("acceptedAwaitingPo", Approved(t) /\ LinkedPos(t) = {})
  \cup EstRows("approvedWithLinkedPo", Approved(t) /\ LinkedPos(t) # {})
  \cup PoRows("reconciliationAttention", ReconAttention(t))

GetDashboardEstimateInvoiceFlow(t) ==
  EstRows("approvedAwaitingInvoice", Approved(t) /\ t.inv = "none")
  \cup EstRows("unpaidInvoices", Approved(t) /\ t.inv = "UNPAID")
  \cup EstRows("recentlyPaid", t.inv = "PAID")

GetDashboardQuoteAttention(t) ==
  EstRows("awaitingCustomerResponse",
          t.est.status = "SENT" /\ ~t.est.deleted /\ t.est.link = "open")
=============================================================================
