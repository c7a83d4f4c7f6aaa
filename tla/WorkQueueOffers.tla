-------------------------- MODULE WorkQueueOffers ---------------------------
(***************************************************************************)
(* The pages an administrator, or the customer, works with: of each page   *)
(* whether it is found, the controls it offers, and where its links lead,  *)
(* as functions of the stored rows t of WorkQueueRules.                    *)
(*                                                                         *)
(* A page is <<name, subject>>, the subject "est" or a PO; a control is    *)
(* <<operation, subject, argument>>, with "" for no argument.  Links to    *)
(* parts of the same page, to new forms and to the other modules of the    *)
(* application (items, vendors, clients, mail) are left out, and so are    *)
(* controls over what t does not keep (lines, uploads, names).             *)
(***************************************************************************)
EXTENDS WorkQueueRules

Pages == {<<name, "est">> : name \in {"estimate", "preview", "quote", "invoice", "estimates",
                                      "purchase-orders", "invoices", "dashboard", "ocr-review",
                                      "reconciliation-inbox"}}
         \cup ({"po", "recon", "ocr"} \X Pos)

PagesOf(name, pos) == {<<name, p>> : p \in pos}
EstPage(name, shown) == {page \in {<<name, "est">>} : shown}
Offer(operation, args, shown) == {c \in {operation} \X {"est"} \X args : shown}
OfferPo(operation, p, args, shown) == {c \in {operation} \X {p} \X args : shown}

-----------------------------------------------------------------------------
(* The quote link, for the staff and for the customer *)

DeriveQuoteLinkStaffPhase(t) ==
  CASE t.est.link = "none" -> "not_issued"
    [] t.est.link = "answered" -> "responded"
    [] t.est.link = "closed" -> "revoked or expired"
    [] OTHER -> "awaiting_customer"

\* The link the e-mail and the panel show, when it is neither revoked nor expired.
IsAwaitingQuoteCustomerResponse(t) == t.est.status = "SENT" /\ t.est.link = "open"

ShouldDisableQuoteLinkRegenerate(t) == t.est.link = "answered"

EstimateQuoteLinkPanel(t) ==
  Offer("issueLink", {""}, ~ShouldDisableQuoteLinkRegenerate(t))
  \cup Offer("revokeLink", {""}, t.est.link # "none")

\* resolvePublicQuoteByRawToken, which also says whether the link is found.
CanRespond(t) == t.est.link = "open" /\ t.est.status # "FINALIZED"

PublicQuoteResponsePanel(t) == Offer("respond", {"APPROVED", "REJECTED"}, CanRespond(t))

-----------------------------------------------------------------------------
(* The estimate *)

\* Mutant: the button is also shown while the customer has not answered.
TotalsPanelEarlyPo(t) ==
  LET finalized == t.est.status = "FINALIZED"
  IN  Offer("status", {"DRAFT", "SENT", "APPROVED", "REJECTED"} \ {t.est.status}, ~finalized)
      \cup Offer("createPo", {""}, t.est.status \in {"SENT", "APPROVED"})
      \cup Offer("finalize", {""}, CanFinalize(t))
      \cup Offer("unfinalize", {""}, finalized)
      \cup Offer("delete", {""}, TRUE)

TotalsPanel(t) ==
  LET finalized == t.est.status = "FINALIZED"
  IN  Offer("status", {"DRAFT", "SENT", "APPROVED", "REJECTED"} \ {t.est.status}, ~finalized)
      \cup Offer("createPo", {""}, t.est.status = "APPROVED")
      \cup Offer("finalize", {""}, CanFinalize(t))
      \cup Offer("unfinalize", {""}, finalized)
      \cup Offer("delete", {""}, TRUE)

EstimateFulfillmentPanel(t) ==
  Offer("createInvoice", {""}, t.est.status = "APPROVED" /\ ~HasInvoice(t))

\* Where the items of the checklist lead: to the first PO that lacks a number, and to the
\* reconciliation of the first PO that waits for one, or of the first PO.
ChecklistLinks(t) ==
  LET recon == IF ReconAttention(t) # {} THEN ReconAttention(t) ELSE LinkedPos(t)
  IN  EstPage("preview", TRUE) \cup PagesOf("po", MissingQbo(t)) \cup PagesOf("recon", recon)
      \cup EstPage("invoice", HasInvoice(t))

\* All POs and the invoice; the strip above the editor leads to the first of them.
LinkedRows(t) ==
  PagesOf("po", LinkedPos(t)) \cup EstPage("invoice", HasInvoice(t))

EstimateControls(t) ==
  EstimateQuoteLinkPanel(t) \cup TotalsPanel(t) \cup EstimateFulfillmentPanel(t)

\* The checklist is shown when the estimate is approved or finalized.
EstimateLinks(t) ==
  EstPage("preview", TRUE) \cup LinkedRows(t)
  \cup {page \in ChecklistLinks(t) : t.est.status \in {"APPROVED", "FINALIZED"}}

SendEstimateEmailForm(t) == Offer("sendEmail", {""}, t.est.status # "FINALIZED")

PreviewControls(t) == EstimateQuoteLinkPanel(t) \cup SendEstimateEmailForm(t)

\* Mutant: the list forgets that an estimate was deleted.
EstimatesPageAll(t) == EstPage("estimate", TRUE)

\* The list of the estimates.
EstimatesPage(t) == EstPage("estimate", ~t.est.deleted)

\* The step the strip above the editor shows as current; every status but DRAFT counts as sent.
EstimateDailyWorkflowStrip(t) ==
  CASE t.est.status = "REJECTED" -> "none"
    [] t.est.status \in {"DRAFT", "SENT"} -> t.est.status
    [] t.est.status = "APPROVED" /\ ~HasPo(t) -> "po"
    [] t.est.status = "APPROVED" /\ HasPo(t) /\ HasInvoice(t) -> "approved"
    [] OTHER -> "invoice"

\* Quick actions of a row of the list.
QuickActions(t) ==
  {q \in {"Edit", "Quote", "PO", "Invoice"} :
     \/ q = "Edit" /\ t.est.status \in {"DRAFT", "REJECTED"}
     \/ q = "Quote" /\ t.est.status # "FINALIZED"
     \/ q = "PO" /\ t.est.status = "APPROVED" /\ ~HasPo(t)
     \/ q = "Invoice" /\ t.est.status = "APPROVED" /\ HasPo(t) /\ ~HasInvoice(t)}

-----------------------------------------------------------------------------
(* The invoice; it shows its estimate whatever became of it *)

InvoiceControls(t) == Offer("markPaid", {""}, t.inv = "UNPAID")
InvoiceEstimateOriginSection(t) == EstPage("estimate", TRUE)

\* The list shows it too.
InvoicesPage(t) == EstPage("invoice", HasInvoice(t)) \cup EstPage("estimate", HasInvoice(t))

-----------------------------------------------------------------------------
(* The PO *)

PoMetaPanel(t, p) ==
  OfferPo("poStatus", p, PoStatus \ {t.po[p].status}, TRUE)
  \cup OfferPo("qboNumber", p, {""}, TRUE) \cup OfferPo("deletePo", p, {""}, TRUE)

PoLifecycleControls(t, p) ==
  LET blocked == "OPERATOR_BLOCKED" \in t.po[p].events
  IN  OfferPo("event", p, {"OPERATOR_VENDOR_ACKNOWLEDGED", "OPERATOR_RECEIVED_COMPLETE"}, TRUE)
      \cup OfferPo("event", p, {"OPERATOR_BLOCKED"}, ~blocked)
      \cup OfferPo("clearBlocked", p, {""}, blocked)

PoAttachmentsPanel(t, p) == OfferPo("removeReceipt", p, {""}, t.po[p].doc # "none")

PoControls(t, p) ==
  PoMetaPanel(t, p) \cup PoLifecycleControls(t, p) \cup PoAttachmentsPanel(t, p)

GetPurchaseOrderLifecycleNextAction(t, p) ==
  LET state == GetPurchaseOrderLifecycleState(t, p)
  IN  CASE state \in {"received", "ready_to_finalize"} /\ t.po[p].linked -> <<"estimate", "est">>
        [] state \in {"reconciliation_needed", "variance_detected"} -> <<"recon", p>>
        [] OTHER -> <<"po", p>>

IsPoLifecycleBlocked(t, p) ==
  GetPurchaseOrderLifecycleState(t, p) \in
    {"blocked_backordered", "variance_detected", "reconciliation_needed", "sent_to_vendor"}

\* One action per place it leads to: that of the receipts gives way to that of the lifecycle.
MergeExecutionActions(t, p) ==
  {<<"ocr-review", "est">> : step \in BuildPoReceiptNextActions(t, p) \cap {"Review OCR"}}
  \cup {<<"recon", p>> : step \in BuildPoReceiptNextActions(t, p) \ {"Review OCR"}}
  \cup {GetPurchaseOrderLifecycleNextAction(t, p)}

PoExecutionWorkspace(t, p) == MergeExecutionActions(t, p) \cup {<<"recon", p>>}

\* Whatever became of the estimate; so does the list of the POs.
PoEstimateOriginSection(t, p) == EstPage("estimate", t.po[p].linked)

PurchaseOrdersPage(t) ==
  PagesOf("po", Live(t)) \cup UNION {PoEstimateOriginSection(t, p) : p \in Live(t)}

-----------------------------------------------------------------------------
(* Reconciliation and receipts *)

\* Mutant: the button is only shown where it is the step to take.
ToolbarPrimaryOnly(t, p) ==
  OfferPo("recompute", p, {""}, TRUE)
  \cup OfferPo("markReconciled", p, {""}, "Mark PO reconciled" \in BuildPoReceiptNextActions(t, p))

ReconciliationToolbar(t, p) ==
  OfferPo("recompute", p, {""}, TRUE) \cup OfferPo("markReconciled", p, {""}, TRUE)

\* Its lines have controls of their own; the alerts are dismissed in the inbox.
ReconLinks(t, p) == {<<"po", p>>, <<"reconciliation-inbox", "est">>}

SpendAlertRows(t, p) == OfferPo("dismissAlert", p, {""}, t.po[p].alerts)

\* The newest snapshots and the open alerts, of deleted POs too.
ReconInboxControls(t) == UNION {SpendAlertRows(t, p) : p \in Pos}
ReconInboxLinks(t) == PagesOf("recon", {p \in Pos : t.po[p].recon # "none" \/ t.po[p].alerts})

OcrDecisionRail(t, p) ==
  OfferPo("approve", p, {""}, t.po[p].doc = "REVIEW_REQUIRED")
  \cup OfferPo("reject", p, {""}, t.po[p].doc = "REVIEW_REQUIRED")

OcrReviewLinks(t, p) ==
  {<<"po", p>>, <<"ocr-review", "est">>}
  \cup {page \in {<<"recon", p>>} : t.po[p].doc = "CONFIRMED"}

\* The list asks for the state of the receipt alone, not for its PO.
OcrReviewListed(t) == {p \in Pos : t.po[p].doc # "none"}

OcrQueueTable(t) == PagesOf("ocr", OcrReviewListed(t)) \cup PagesOf("po", OcrReviewListed(t))

-----------------------------------------------------------------------------
(* The dashboard: rows of the queues and where they lead *)

GetOperationalNextAction(row) ==
  CASE row[1] \in {"est-awaiting", "est-no-po", "est-finalize", "est-potentially-ready",
                   "est-invoice", "inv-unpaid", "est-done"} -> <<"estimate", "est">>
    [] row[1] = "inv-paid" -> <<"invoice", "est">>
    [] row[1] \in {"po-vendor", "po-done"} -> <<"po", row[2]>>
    [] row[1] \in {"po-recon-snap", "po-variance"} -> <<"recon", row[2]>>
    [] row[1] = "ocr" -> <<"ocr", row[2]>>

IsOperationalBlocked(row) ==
  row[1] \in {"est-no-po", "ocr", "po-recon-snap", "po-variance", "po-vendor"}

\* The numbers of the dashboard, as the sets they count; a PO of which some snapshot ever
\* needed attention counts as unreconciled, so this one is a subset of what is counted.
GetDashboardMetrics(t) ==
  [openEstimates |-> ~t.est.deleted /\ t.est.status \in {"DRAFT", "SENT", "APPROVED"},
   openPurchaseOrders |-> {p \in Live(t) : t.po[p].status \notin {"RECEIVED", "CANCELED"}},
   unreconciledPurchaseOrders |->
     {p \in Live(t) : ~t.po[p].stamped /\ ReconciliationNeedsAttention(t.po[p].recon)},
   pendingOcrReviews |-> OcrReviewDocs(t)]

\* Every row the dashboard may show, so those it shows without other jobs before them.
OperationalQueueRowLinks(t) ==
  LET v == [q \in Queries |-> t]
  IN  {GetOperationalNextAction(row) :
         row \in GetOperationalWorkflowQueues(v, Alone) \cup RecentlyCompleted(v, Alone)}

PoLifecycleRowLinks(t) ==
  {GetPurchaseOrderLifecycleNextAction(t, row[1]) : row \in GetPoLifecycleDashboardQueues(t, Alone)}

\* The recent estimates and POs of the feed; its items of attention are not asked for.
RecentLinks(t) == EstPage("estimate", ~t.est.deleted) \cup PagesOf("po", Live(t))

DashboardPage(t) == OperationalQueueRowLinks(t) \cup PoLifecycleRowLinks(t) \cup RecentLinks(t)

-----------------------------------------------------------------------------
(* The pages together *)

\* The quote that was answered can still be read (until its link expires, left out here).
Found(t, page) ==
  CASE page[1] \in {"estimate", "preview"} -> ~t.est.deleted
    [] page[1] = "quote" -> t.est.link \in {"open", "answered"} /\ ~t.est.deleted
    [] page[1] = "invoice" -> HasInvoice(t)
    [] page[1] \in {"po", "recon"} -> page[2] \in Live(t)
    [] page[1] = "ocr" -> t.po[page[2]].doc # "none"
    [] OTHER -> TRUE

Controls(t, page) ==
  CASE page[1] = "estimate" -> EstimateControls(t)
    [] page[1] = "preview" -> PreviewControls(t)
    [] page[1] = "quote" -> PublicQuoteResponsePanel(t)
    [] page[1] = "invoice" -> InvoiceControls(t)
    [] page[1] = "po" -> PoControls(t, page[2])
    [] page[1] = "recon" -> ReconciliationToolbar(t, page[2])
    [] page[1] = "ocr" -> OcrDecisionRail(t, page[2])
    [] page[1] = "reconciliation-inbox" -> ReconInboxControls(t)
    [] OTHER -> {}

Links(t, page) ==
  CASE page[1] = "estimate" -> EstimateLinks(t)
    [] page[1] = "invoice" -> InvoiceEstimateOriginSection(t)
    [] page[1] = "po" -> PoExecutionWorkspace(t, page[2]) \cup PoEstimateOriginSection(t, page[2])
    [] page[1] = "recon" -> ReconLinks(t, page[2])
    [] page[1] = "ocr" -> OcrReviewLinks(t, page[2])
    [] page[1] = "reconciliation-inbox" -> ReconInboxLinks(t)
    [] page[1] = "ocr-review" -> OcrQueueTable(t)
    [] page[1] = "estimates" -> EstimatesPage(t)
    [] page[1] = "purchase-orders" -> PurchaseOrdersPage(t)
    [] page[1] = "invoices" -> InvoicesPage(t)
    [] page[1] = "dashboard" -> DashboardPage(t)
    [] OTHER -> {}
=============================================================================
