----------------------------- MODULE WorkQueues -----------------------------
(***************************************************************************)
(* One estimate, its invoice and POs as the staff, the customer, the       *)
(* vendor and the receipt pipeline move them, and what the screens of      *)
(* WorkQueueRules say, and the pages of WorkQueueOffers offer, in every    *)
(* state on the way.  Handlers are atomic here: their overlaps are the     *)
(* business of EstimateLifecycle, Reconciliation and OcrPipeline, and a    *)
(* screen shows committed rows only.                                       *)
(***************************************************************************)
EXTENDS WorkQueueOffers

CONSTANTS
  Quiet,            \* POs that only get numbers and snapshots with findings, a bound on the runs
  Blank,            \* POs that may be created without an estimate, a bound too
  StatusTargets,    \* statuses the staff give a PO
  ReconOutcomes,    \* statuses the snapshots come out with
  PoEventKinds,     \* kinds of events that are written to the timeline of a PO
  Crowds            \* how many rows of the dashboard's lists may come before those of this job

ASSUME SmallTables ==
  /\ "est" \notin Pos
  /\ Quiet \subseteq Pos /\ Blank \subseteq Pos
  /\ StatusTargets \subseteq PoStatus
  /\ ReconOutcomes \subseteq POReconciliationStatus \ {"RESOLVED"} /\ ReconOutcomes # {}
  /\ PoEventKinds \subseteq {"VENDOR_REPLY", "OPERATOR_VENDOR_ACKNOWLEDGED", "OPERATOR_BLOCKED",
                             "OPERATOR_RECEIVED_COMPLETE"}
  /\ Crowds \subseteq [Lists -> [Subjects -> Nat]]

VARIABLES est, inv, po
vars == <<est, inv, po>>

Tables == [est |-> est, inv |-> inv, po |-> po]

NoRow == [row |-> "absent", linked |-> FALSE, status |-> "DRAFT", qbo |-> FALSE, events |-> {},
          doc |-> "none", recon |-> "none", alerts |-> FALSE, stamped |-> FALSE]

TypeOK ==
  /\ est \in [status : {"DRAFT", "SENT", "APPROVED", "REJECTED", "FINALIZED"},
              deleted : BOOLEAN, link : {"none", "open", "answered", "closed"}]
  /\ inv \in {"none", "UNPAID", "PAID"}
  /\ po \in [Pos -> [row : {"absent", "live", "deleted"}, linked : BOOLEAN, status : PoStatus,
                     qbo : BOOLEAN, events : SUBSET PoEventKinds,
                     doc : {"none", "REVIEW_REQUIRED", "CONFIRMED", "REJECTED"},
                     recon : POReconciliationStatus \cup {"none"},
                     alerts : BOOLEAN, stamped : BOOLEAN]]
  /\ \A p \in Pos : po[p].row = "absent" => po[p] = NoRow

Init ==
  /\ est = [status |-> "DRAFT", deleted |-> FALSE, link |-> "none"]
  /\ inv = "none"
  /\ po = [p \in Pos |-> NoRow]

-----------------------------------------------------------------------------
(* The estimate and its invoice *)

SetEstimate(status) ==
  /\ est' = [est EXCEPT !.status = status]
  /\ UNCHANGED <<inv, po>>

UpdateEstimateStatus(new) ==
  /\ ~est.deleted /\ est.status \notin {"FINALIZED", new}
  /\ SetEstimate(new)

\* issueEstimateQuoteLinkAction: the links before it are revoked.
IssueQuoteLink ==
  /\ ~est.deleted
  /\ est' = [est EXCEPT !.link = "open"]
  /\ UNCHANGED <<inv, po>>

SendEstimateEmail ==
  /\ ~est.deleted /\ est.status # "FINALIZED"
  /\ est' = [est EXCEPT !.link = "open", !.status = IF @ = "DRAFT" THEN "SENT" ELSE @]
  /\ UNCHANGED <<inv, po>>

\* Revoked by the staff, or past expiresAt; a link that was answered stays answered.
QuoteLinkCloses ==
  /\ est.link = "open"
  /\ est' = [est EXCEPT !.link = "closed"]
  /\ UNCHANGED <<inv, po>>

CustomerResponds(answer) ==
  /\ est.link = "open" /\ ~est.deleted /\ est.status # "FINALIZED"
  /\ est' = [est EXCEPT !.link = "answered", !.status = answer]
  /\ UNCHANGED <<inv, po>>

FinalizeEstimate ==
  /\ ~est.deleted /\ CanFinalize(Tables)
  /\ SetEstimate("FINALIZED")

UnfinalizeEstimate ==
  /\ ~est.deleted /\ est.status = "FINALIZED"
  /\ SetEstimate("APPROVED")

DeleteEstimate ==
  /\ ~est.deleted
  /\ est' = [est EXCEPT !.deleted = TRUE]
  /\ UNCHANGED <<inv, po>>

CreateInvoiceFromEstimate ==
  /\ Approved(Tables) /\ inv = "none"
  /\ inv' = "UNPAID"
  /\ UNCHANGED <<est, po>>

MarkInvoicePaid ==
  /\ inv = "UNPAID"
  /\ inv' = "PAID"
  /\ UNCHANGED <<est, po>>

-----------------------------------------------------------------------------
(* The POs *)

SetPo(p, new) ==
  /\ po[p].row = "live"
  /\ po' = [po EXCEPT ![p] = new]
  /\ UNCHANGED <<est, inv>>

NewPo(p, linked) ==
  /\ po[p].row = "absent"
  /\ po' = [po EXCEPT ![p].row = "live", ![p].linked = linked]
  /\ UNCHANGED <<est, inv>>

CreatePoFromEstimate(p) ==
  /\ ~est.deleted /\ est.status = "APPROVED"
  /\ NewPo(p, TRUE)

\* A blank PO may be put under an estimate of any status.
CreateBlankPo(p, linked) == (linked => ~est.deleted) /\ NewPo(p, linked)

SetQboNumber(p) == SetPo(p, [po[p] EXCEPT !.qbo = ~@])

\* The row stays.  Of a deleted PO its receipts, snapshots and alerts are looked at again, and
\* the rest is forgotten here.
DeletePo(p) ==
  SetPo(p, [NoRow EXCEPT !.row = "deleted", !.linked = po[p].linked, !.doc = po[p].doc,
                         !.recon = po[p].recon, !.alerts = po[p].alerts])

UpdatePoStatus(p, new) ==
  /\ po[p].status # new
  /\ SetPo(p, [po[p] EXCEPT !.status = new])

\* appendLifecycleEvent, and the vendor's reply that an e-mail brings.
AppendEvent(p, kind) ==
  SetPo(p, [po[p] EXCEPT !.events = @ \cup {kind}])

ClearPoBlocked(p) == SetPo(p, [po[p] EXCEPT !.events = @ \ {"OPERATOR_BLOCKED"}])

-----------------------------------------------------------------------------
(* Receipts and reconciliation *)

\* The worker and the reviewer do not ask whether the PO was deleted.
SetReceipt(p, status) ==
  /\ po[p].row # "absent"
  /\ po' = [po EXCEPT ![p].doc = status]
  /\ UNCHANGED <<est, inv>>

ReceiptExtracted(p) == po[p].doc = "none" /\ SetReceipt(p, "REVIEW_REQUIRED")

RejectOcrDocument(p) == po[p].doc = "REVIEW_REQUIRED" /\ SetReceipt(p, "REJECTED")

\* The attachment is deleted, and its OcrDocument with it.
DeletePoAttachment(p) ==
  /\ po[p].doc # "none"
  /\ SetPo(p, [po[p] EXCEPT !.doc = "none"])

\* runPoReconciliationSnapshot: the open alerts are superseded and those of the new snapshot
\* opened.  Snapshots that found nothing amiss may still find the total too high.
MayComeOut(outcome, alerts) ==
  /\ alerts => outcome # "PENDING"
  /\ outcome \in {"PARTIAL", "VARIANCE", "REVIEW_REQUIRED"} => alerts

Snapshot(p, outcome, alerts) ==
  /\ MayComeOut(outcome, alerts)
  /\ SetPo(p, [po[p] EXCEPT !.recon = outcome, !.alerts = alerts])

\* approveOcrDocumentAction takes a snapshot first; of a deleted PO none is taken.
ApproveOcrDocument(p, outcome, alerts) ==
  /\ po[p].doc = "REVIEW_REQUIRED" /\ po[p].row # "absent"
  /\ MayComeOut(outcome, alerts)
  /\ po' = IF po[p].row = "live"
           THEN [po EXCEPT ![p].doc = "CONFIRMED", ![p].recon = outcome, ![p].alerts = alerts]
           ELSE [po EXCEPT ![p].doc = "CONFIRMED"]
  /\ UNCHANGED <<est, inv>>

\* The last open alert is dismissed.
DismissAlerts(p) ==
  /\ po[p].alerts
  /\ po' = [po EXCEPT ![p].alerts = FALSE]
  /\ UNCHANGED <<est, inv>>

\* A merge recomputes the status of its snapshot, a RESOLVED one included.
MergeLines(p, outcome) ==
  /\ po[p].recon \notin {"none", "MATCHED", "PENDING"}
  /\ po' = [po EXCEPT ![p].recon = outcome]
  /\ UNCHANGED <<est, inv>>

\* markPurchaseOrderReconciledByOperatorAction: alerts stay as they are.
MarkReconciled(p) ==
  SetPo(p, [po[p] EXCEPT !.stamped = TRUE, !.recon = IF @ = "none" THEN @ ELSE "RESOLVED"])

-----------------------------------------------------------------------------
\* Bound: with the estimate its link is gone, and only one still open makes a difference.
Deletable == est.link \in {"none", "open"}

EstimateStep ==
  \/ \E new \in {"DRAFT", "SENT", "APPROVED", "REJECTED"} : UpdateEstimateStatus(new)
  \/ IssueQuoteLink \/ SendEstimateEmail \/ QuoteLinkCloses
  \/ \E answer \in {"APPROVED", "REJECTED"} : CustomerResponds(answer)
  \/ FinalizeEstimate \/ UnfinalizeEstimate \/ (Deletable /\ DeleteEstimate)
  \/ CreateInvoiceFromEstimate \/ MarkInvoicePaid

\* Bounds: a PO without an estimate is followed no further.  A quiet PO gets its number before a
\* snapshot, and its snapshots find something (one that finds nothing leaves the estimate as if
\* there were none).
Followed == {p \in Pos : po[p].linked}
Numbered(p) == p \in Quiet => po[p].recon = "none"
Snapped(p, outcome, alerts) == p \in Quiet => po[p].qbo /\ alerts /\ outcome # "MATCHED"

NumbersAndSnapshots(p) ==
  \/ Numbered(p) /\ SetQboNumber(p)
  \/ \E outcome \in ReconOutcomes, alerts \in BOOLEAN :
       Snapped(p, outcome, alerts) /\ Snapshot(p, outcome, alerts)

\* Bound: a PO is blocked only while it has no receipt.
Receipts(p) ==
  \/ ReceiptExtracted(p) \/ RejectOcrDocument(p) \/ DeletePoAttachment(p)
  \/ \E outcome \in ReconOutcomes, alerts \in BOOLEAN : ApproveOcrDocument(p, outcome, alerts)
Events(p) == ClearPoBlocked(p) \/ \E kind \in PoEventKinds : AppendEvent(p, kind)

Rest(p) ==
  \/ DeletePo(p) \/ DismissAlerts(p) \/ MarkReconciled(p)
  \/ \E new \in StatusTargets : UpdatePoStatus(p, new)
  \/ \E outcome \in ReconOutcomes : MergeLines(p, outcome)
  \/ po[p].events = {} /\ Receipts(p)
  \/ po[p].doc = "none" /\ Events(p)

Next ==
  \/ EstimateStep
  \/ \E p \in Pos : CreatePoFromEstimate(p) \/ CreateBlankPo(p, TRUE)
  \/ \E p \in Blank : CreateBlankPo(p, FALSE)
  \/ \E p \in Followed : NumbersAndSnapshots(p)
  \/ \E p \in Followed \ Quiet : Rest(p)

Spec == Init /\ [][Next]_vars

-----------------------------------------------------------------------------
(* The handler behind each control of the pages *)

TakeOnEstimate(c) ==
  \/ c[1] = "issueLink" /\ IssueQuoteLink
  \/ c[1] = "respond" /\ CustomerResponds(c[3])
  \/ c[1] = "status" /\ UpdateEstimateStatus(c[3])
  \/ c[1] = "sendEmail" /\ SendEstimateEmail
  \/ c[1] = "createPo" /\ \E p \in Pos : CreatePoFromEstimate(p)
  \/ c[1] = "finalize" /\ FinalizeEstimate
  \/ c[1] = "unfinalize" /\ UnfinalizeEstimate
  \/ c[1] = "delete" /\ DeleteEstimate
  \/ c[1] = "createInvoice" /\ CreateInvoiceFromEstimate
  \/ c[1] = "markPaid" /\ MarkInvoicePaid

TakeOnPo(c) ==
  \/ c[1] = "poStatus" /\ UpdatePoStatus(c[2], c[3])
  \/ c[1] = "qboNumber" /\ SetQboNumber(c[2])
  \/ c[1] = "deletePo" /\ DeletePo(c[2])
  \/ c[1] = "event" /\ AppendEvent(c[2], c[3])
  \/ c[1] = "clearBlocked" /\ ClearPoBlocked(c[2])
  \/ c[1] = "removeReceipt" /\ DeletePoAttachment(c[2])
  \/ c[1] = "recompute" /\ \E outcome \in ReconOutcomes, alerts \in BOOLEAN : Snapshot(c[2], outcome, alerts)
  \/ c[1] = "markReconciled" /\ MarkReconciled(c[2])
  \/ c[1] = "dismissAlert" /\ DismissAlerts(c[2])
  \/ c[1] = "approve" /\ \E outcome \in ReconOutcomes, alerts \in BOOLEAN : ApproveOcrDocument(c[2], outcome, alerts)
  \/ c[1] = "reject" /\ RejectOcrDocument(c[2])

Take(c) == IF c[2] = "est" THEN TakeOnEstimate(c) ELSE TakeOnPo(c)

-----------------------------------------------------------------------------
(* Properties *)

AllSee(t) == [q \in Queries |-> t]

Rows == GetOperationalWorkflowQueues(AllSee(Tables), Alone)

\* The rows that show the next step of an approved estimate.
StepKinds == {"est-no-po", "est-finalize", "est-potentially-ready", "est-invoice", "inv-unpaid"}
NamesStep(v, ahead) == \E row \in Sections(ahead, EstimateRows(v, ahead)) : row[1] \in StepKinds

\* The query that must find the next step, and the bucket that must show it.
StepLists ==
  CASE ~HasPo(Tables) -> {"noPo", "approved_waiting_po"}
    [] HasPo(Tables) /\ MissingQbo(Tables) = {} -> {"candidates", "ready_to_finalize"}
    [] HasPo(Tables) /\ MissingQbo(Tables) # {} /\ inv = "none" -> {"invoice", "invoice_attention"}
    [] OTHER -> {"unpaid", "invoice_attention"}

Crowded(ahead, lists, s) == \E list \in lists : ~Shown(ahead, list, s)

\* operational-matrix.ts: an approved estimate is listed with its next step, until it is
\* finalized, and only newer rows of the one list that asks for this step can push it off the
\* dashboard.  One exception: a job that is billed and paid and only lacks a QuickBooks number
\* is in none of the lists.
ApprovedIsListed ==
  Approved(Tables) =>
    \A ahead \in Crowds :
      \/ Crowded(ahead, StepLists, "est")
      \/ NamesStep(AllSee(Tables), ahead)
      \/ HasPo(Tables) /\ MissingQbo(Tables) # {} /\ inv = "PAID"

\* A closeout that the gates refuse for a reconciliation can be traced to its POs: each PO it
\* waits for is in the variance queue or, once it was stamped reconciled, in a queue of the PO
\* lifecycle that asks for a decision, unless it is canceled then or newer rows of that queue
\* leave no room for it.
BlockedCloseoutIsListed ==
  ~est.deleted /\ EvaluateEstimateFinalizeGates(Tables) = "reconciliation_unresolved" =>
    \A ahead \in Crowds : \A p \in ReconAttention(Tables) :
      \/ /\ ~po[p].stamped
         /\ \/ <<"po-variance", p>> \in GetOperationalWorkflowQueues(AllSee(Tables), ahead)
            \/ Crowded(ahead, {"attention", "reconciliation_variance"}, p)
      \/ /\ po[p].stamped /\ po[p].status # "CANCELED"
         /\ \/ \E b \in {"variance_detected", "blocked_backordered"} :
                  <<p, b>> \in GetPoLifecycleDashboardQueues(Tables, ahead)
            \/ Crowded(ahead, {"lifecycle", "lifecycleSection"}, p)
      \/ po[p].stamped /\ po[p].status = "CANCELED"

\* A PO, an invoice and their lists keep showing a deleted estimate as their origin, and the unpaid
\* invoice's row leads to it; of a deleted PO the receipts, snapshots and alerts are still listed.
StaleLink(page, target) ==
  \/ /\ target = <<"estimate", "est">> /\ est.deleted
     /\ page[1] \in {"po", "purchase-orders", "invoice", "invoices", "dashboard"}
  \/ /\ target[1] \in {"po", "recon"} /\ po[target[2]].row = "deleted"
     /\ page[1] \in {"ocr", "ocr-review", "reconciliation-inbox"}

\* No link of a page leads to a page that is not found, the links of StaleLink excepted: each page
\* chooses its links by conditions of its own, and the page they lead to asks for others.
LinksLeadSomewhere ==
  \A page \in Pages : Found(Tables, page) =>
    \A target \in Links(Tables, page) : Found(Tables, target) \/ StaleLink(page, target)

\* No page offers what its handler refuses: each page decides what it shows with conditions of its
\* own, the handlers with theirs.  Excepted are "Revoke" when no link is open, which does nothing,
\* and a PO beyond the bound.
OffersAreAccepted ==
  \A page \in Pages : Found(Tables, page) =>
    \A c \in Controls(Tables, page) :
      \/ c[1] = "revokeLink"
      \/ c[1] = "createPo" /\ \A p \in Pos : po[p].row # "absent"
      \/ ENABLED Take(c)

\* What takes a row off the queues.
ClearedBy(row) ==
  CASE row[1] = "est-awaiting" -> {"respond"}
    [] row[1] = "est-no-po" -> {"createPo"}
    [] row[1] = "est-finalize" -> {"finalize"}
    [] row[1] = "est-potentially-ready" -> {"markReconciled"}
    [] row[1] = "est-invoice" -> {"createInvoice"}
    [] row[1] = "inv-unpaid" -> {"markPaid"}
    [] row[1] = "po-vendor" -> {"poStatus"}
    [] row[1] = "ocr" -> {"approve", "reject"}
    [] row[1] \in {"po-recon-snap", "po-variance"} -> {"recompute", "markReconciled"}

\* A page and those its links lead to, and the page of the customer.
WithinReach(page) ==
  {near \in {page, <<"quote", "est">>} \cup Links(Tables, page) : Found(Tables, near)}

\* The row is gone, or one of the reconciliations it waits for is.
Served(row) ==
  \/ row \notin Rows'
  \/ /\ row[1] = "est-potentially-ready"
     /\ \E p \in ReconAttention(Tables) : p \notin ReconAttention(Tables)'

\* A row of the queues is a task somebody can do: its link leads to a page on which, or one link
\* further, a control is offered that the handler accepts and that takes the row off the list (or
\* one of several open reconciliations off the estimate).
\* Excepted are the unpaid invoice of a deleted estimate, whose link leads nowhere, and a PO
\* beyond the bound.
RowsCanBeCleared ==
  \A row \in Rows :
    \/ row[1] = "inv-unpaid" /\ est.deleted
    \/ row[1] = "est-no-po" /\ \A p \in Pos : po[p].row # "absent"
    \/ /\ Found(Tables, GetOperationalNextAction(row))
       /\ \E page \in WithinReach(GetOperationalNextAction(row)) :
            \E c \in Controls(Tables, page) :
              c[1] \in ClearedBy(row) /\ ENABLED (Take(c) /\ Served(row))

\* A PO listed as ready to finalize ("PO and estimate prerequisites are met") belongs to an
\* estimate that can be finalized, unless it was deleted or a sibling's reconciliation is open.
ReadyUnlessSiblingBlocks ==
  \A p \in Pos : <<p, "ready_to_finalize">> \in GetPoLifecycleDashboardQueues(Tables, Alone) =>
    \/ CanFinalize(Tables) \/ est.deleted
    \/ ReconAttention(Tables) \ {p} # {}

EstimateScreensAgree(t) ==
  LET flow == {r[1] : r \in GetDashboardEstimatePoFlow(t) \cup GetDashboardEstimateInvoiceFlow(t)
                              \cup GetDashboardQuoteAttention(t)}
      done == {r[1] : r \in RecentlyCompleted(AllSee(t), Alone)}
      queues == {r[1] : r \in EstimateRows(AllSee(t), Alone)}
      steps == DeriveEstimateOperationalSteps(t)
      checklist == BuildEstimateFinalizeChecklist(t)
  IN  /\ (GetEstimateListNextAction(t) = "po") = (GetEstimateEditorPrimaryAction(t) = "po")
      /\ (GetEstimateListNextAction(t) = "invoice") = ("Bill customer" \in GetEstimateListWorkflowChips(t))
      /\ \A q \in {<<"PO", "po">>, <<"Invoice", "invoice">>} :
           (q[1] \in QuickActions(t)) = (GetEstimateListNextAction(t) = q[2])
      /\ ("acceptedAwaitingPo" \in flow) =
           (~est.deleted /\ <<"no_po", "est">> \in FulfillmentOperationalHints(t))
      /\ CanFinalize(t) = (est.status = "APPROVED" /\ {"po", "qbo", "recon"} \subseteq checklist)
      /\ ("awaitingCustomerResponse" \in flow) = ("est-awaiting" \in queues)
      /\ ("invoice_paid" \in steps) = ("invoice" \in checklist)
      /\ ("inv-paid" \in done) = ("recentlyPaid" \in flow)
      /\ CASE EstimateDailyWorkflowStrip(t) = "po" -> GetEstimateListNextAction(t) = "po"
           [] EstimateDailyWorkflowStrip(t) = "invoice" ->
                GetEstimateListNextAction(t) = "invoice" \/ est.status = "FINALIZED"
           [] OTHER -> GetEstimateListNextAction(t) = "open"
      /\ DeriveQuoteLinkStaffPhase(t) = "awaiting_customer" =>
           PublicQuoteResponsePanel(t) # {} \/ est.status = "FINALIZED"
      /\ (IsAwaitingQuoteCustomerResponse(t) /\ ~est.deleted) = ("est-awaiting" \in queues)
      /\ Approved(t) => GetDashboardMetrics(t).openEstimates
      /\ "est-done" \in done => "fulfilled" \in steps /\ queues \subseteq {"inv-unpaid"}

PoScreensAgree(t, p) ==
  LET mine == {row \in PurchaseOrderRows(AllSee(t), Alone) : row[2] = p}
      rows == {row[1] : row \in mine}
      offered == BuildPoReceiptNextActions(t, p)
      metrics == GetDashboardMetrics(t)
  IN  /\ ("ocr" \in rows) = ("Review OCR" \in offered)
      /\ "po-recon-snap" \in rows => "Run reconciliation" \in offered
      /\ "po-variance" \in rows => {"Resolve variance", "Review OCR"} \cap offered # {}
      /\ "Mark PO reconciled" \in offered => {"po-variance", "po-recon-snap"} \cap rows = {}
      /\ \A row \in mine : IsOperationalBlocked(row)
      /\ "po-vendor" \in rows => p \in metrics.openPurchaseOrders
      /\ "ocr" \in rows => p \in metrics.pendingOcrReviews
      /\ (\E row \in mine : BucketForWorkflowState(row) = "reconciliation_variance") =>
           p \in metrics.unreconciledPurchaseOrders \/ "Run reconciliation" \in offered
      /\ {"po-variance", "po-recon-snap"} \cap rows # {} /\ po[p].status # "CANCELED" =>
           IsPoLifecycleBlocked(t, p)
      /\ <<"po-done", p>> \in RecentlyCompleted(AllSee(t), Alone) => "Mark PO reconciled" \notin offered

\* The screens agree, although each derives what it shows by rules of its own: the list, its
\* chips, the editor and the dashboard send the staff to the same next step, the checklist is
\* complete exactly when the gates open, and a PO in a queue finds the action the queue asks for
\* on its page.
ScreensAgree ==
  /\ EstimateScreensAgree(Tables)
  /\ \A p \in Live(Tables) : PoScreensAgree(Tables, p)

\* The queries in late saw the tables after the step, the others those before it.
Straddled(late) == [q \in Queries |-> IF q \in late THEN Tables' ELSE Tables]

\* An approved job that is listed before a change and after it is listed by a page whose queries
\* run while the change is made, whichever of them see it: each query asks for one next step, and
\* none of them may wait for another to take the job over.  Excepted are the first PO and the
\* deletion of the last one, and an invoice created while a number is missing, where the job
\* passes from one query to another and may be missed by both.
JobStaysListed ==
  [][/\ Approved(Tables) /\ Approved(Tables')
     /\ HasPo(Tables) = HasPo(Tables')
     /\ inv = inv' \/ inv' = "PAID" \/ MissingQbo(Tables) = {}
     /\ NamesStep(AllSee(Tables), Alone) /\ NamesStep(AllSee(Tables'), Alone)
     => \A late \in SUBSET {"noPo", "candidates", "invoice", "unpaid"} :
          NamesStep(Straddled(late), Alone)]_vars
=============================================================================
