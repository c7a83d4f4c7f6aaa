-------------------------- MODULE EstimateLifecycle --------------------------
(***************************************************************************)
(* One estimate row and everything that hangs on its status: the public    *)
(* quote links and the customers' answers, the purchase orders that gate   *)
(* finalization, the invoice, and the staff handlers that read the row and *)
(* write it later.                                                         *)
(*                                                                         *)
(* Every handler is a Next.js server action on Postgres at READ COMMITTED: *)
(* a request is one slot of Staff or Customers, each await on the database *)
(* ends a step, and between two steps of one request any other request may *)
(* run.  A $transaction commits in one step; the rows its earlier          *)
(* statements could see are remembered in the request.                     *)
(***************************************************************************)
EXTENDS Naturals, FiniteSets

CONSTANTS Staff,          \* slots for staff requests in flight
          Customers,      \* slots for public quote responses in flight
          Links,          \* quote link tokens (bound on links ever issued)
          Pos,            \* purchase orders (bound on POs ever created)
          Contents,       \* the line sets a save may carry; a line set has one price
          NoContent, NoLink, NoPo,
          StaffOps,       \* the handlers staff call in this instance
          StatusTargets,  \* the statuses staff ask updateEstimateStatusAction for
          ReconOutcomes,  \* the statuses a new reconciliation snapshot may have
          Isolated        \* TRUE: a request starts only when no other is running

Status == {"DRAFT", "SENT", "APPROVED", "REJECTED", "FINALIZED"}
ReconStatus == {"none", "PENDING", "MATCHED", "PARTIAL", "VARIANCE",
                "REVIEW_REQUIRED", "RESOLVED"}
Intents == {"accept", "decline"}
AllOps == {"save", "status", "delete", "finalize", "unfinalize", "send", "issue",
           "revoke", "poConvert", "poBlank", "poQbo", "poDelete", "invoice", "pay"}

ASSUME ConstantsOK ==
  /\ NoContent \notin Contents /\ NoLink \notin Links /\ NoPo \notin Pos
  /\ StaffOps \subseteq AllOps
  /\ StatusTargets \subseteq Status \ {"FINALIZED"}
  /\ ReconOutcomes \subseteq ReconStatus \ {"none"}
  /\ Isolated \in BOOLEAN

VARIABLES est,           \* the Estimate row
          lines,         \* the EstimateLineItem rows, by the slot that inserted them
          links,         \* the EstimateQuoteLink rows
          pos,           \* the PurchaseOrder rows linked to the estimate
          invoice,       \* the Invoice row
          events,        \* EstimateTimelineEvent rows, counted by kind
          req,           \* staff requests in flight
          resp,          \* public responses in flight, and what the customer was told
          approvedOnce,  \* history: the estimate has been APPROVED
          issuedAfter    \* history: links already committed when l's revoke ran

tables == <<est, lines, links, pos, invoice, events>>
vars == <<est, lines, links, pos, invoice, events, req, resp, approvedOnce, issuedAfter>>

-----------------------------------------------------------------------------
Estimate == [status : Status, deleted : BOOLEAN, total : Contents \cup {NoContent}]

\* url: no row yet, row committed but its URL known to the server only, URL handed out
Link == [url : {"none", "held", "out"}, expiry : {"never", "later", "past"},
         revoked : BOOLEAN, answer : Intents \cup {"none"}]
UnissuedLink == [url |-> "none", expiry |-> "never", revoked |-> FALSE, answer |-> "none"]

Po == [exists : BOOLEAN, deleted : BOOLEAN, qbo : BOOLEAN, recon : ReconStatus,
       converted : BOOLEAN]
NoPoRow == [exists |-> FALSE, deleted |-> FALSE, qbo |-> FALSE, recon |-> "none",
            converted |-> FALSE]

Invoice == [status : {"none", "UNPAID", "PAID"}, total : Contents \cup {NoContent}]
NoInvoice == [status |-> "none", total |-> NoContent]

Pcs == {"idle", "saveDelete", "saveCommit", "statusWrite", "deleteWrite",
        "finalizePos", "finalizeWrite", "unfinalizeWrite", "issueRevoke",
        "issueCommit", "sendMail", "sendWrite", "revokeWrite", "poConvert",
        "poBlank", "poQbo", "poDelete", "invoiceCheck", "invoiceCommit", "payWrite"}

Request == [pc : Pcs,
            status : Status \cup {"unread"},        \* Estimate.status as read, or as asked for
            content : Contents \cup {NoContent},    \* lines submitted, or total read
            seenLines : SUBSET Staff,               \* line batches the delete statement saw
            seenLinks : SUBSET Links,               \* links the revoke statement saw
            link : Links \cup {NoLink},             \* token generated by this request
            po : Pos \cup {NoPo},
            qbo : BOOLEAN]
Idle == [pc |-> "idle", status |-> "unread", content |-> NoContent, seenLines |-> {},
         seenLinks |-> {}, link |-> NoLink, po |-> NoPo, qbo |-> FALSE]

Told == {"nothing", "recorded", "idempotent", "opposite", "unavailable", "finalized_blocked"}
Response == [pc : {"idle", "commit"}, link : Links \cup {NoLink},
             intent : Intents, told : Told]
IdleResponse == [pc |-> "idle", link |-> NoLink, intent |-> "accept", told |-> "nothing"]

EventKinds == (Links \X Intents) \cup {<<NoLink, "invoice">>}

TypeOK ==
  /\ est \in Estimate
  /\ lines \in [Staff -> Contents \cup {NoContent}]
  /\ links \in [Links -> Link]
  /\ pos \in [Pos -> Po]
  /\ invoice \in Invoice
  /\ events \in [EventKinds -> Nat]
  /\ req \in [Staff -> Request]
  /\ resp \in [Customers -> Response]
  /\ approvedOnce \in BOOLEAN
  /\ issuedAfter \in [Links -> SUBSET Links]

Init ==
  /\ est = [status |-> "DRAFT", deleted |-> FALSE, total |-> NoContent]
  /\ lines = [s \in Staff |-> NoContent]
  /\ links = [l \in Links |-> UnissuedLink]
  /\ pos = [p \in Pos |-> NoPoRow]
  /\ invoice = NoInvoice
  /\ events = [k \in EventKinds |-> 0]
  /\ req = [s \in Staff |-> Idle]
  /\ resp = [c \in Customers |-> IdleResponse]
  /\ approvedOnce = FALSE
  /\ issuedAfter = [l \in Links |-> {}]

-----------------------------------------------------------------------------
(* Requests *)

AllQuiet == (\A s \in Staff : req[s].pc = "idle") /\ (\A c \in Customers : resp[c].pc = "idle")

\* A handler is called: every staff handler first looks the row up with deletedAt null.
Begin(s, op) ==
  /\ op \in StaffOps
  /\ req[s].pc = "idle"
  /\ Isolated => AllQuiet

At(s, pc) == req[s].pc = pc
Continue(s, pc) == req' = [req EXCEPT ![s].pc = pc]
Finish(s) == req' = [req EXCEPT ![s] = Idle]

EstimateFound == ~est.deleted

-----------------------------------------------------------------------------
(* saveEstimateAction *)

SaveRead(s, c) ==
  /\ Begin(s, "save")
  /\ EstimateFound
  /\ est.status # "FINALIZED"
  /\ req' = [req EXCEPT ![s] = [Idle EXCEPT !.pc = "saveDelete", !.content = c]]
  /\ UNCHANGED <<tables, resp, issuedAfter>>

\* Mutant: the deleteMany is missing and the new lines are appended.
SaveAppendLines(s) ==
  /\ At(s, "saveDelete")
  /\ Continue(s, "saveCommit")
  /\ UNCHANGED <<tables, resp, issuedAfter>>

\* The deleteMany of the transaction: it removes the rows visible to it now.
SaveDeleteLines(s) ==
  /\ At(s, "saveDelete")
  /\ req' = [req EXCEPT ![s].pc = "saveCommit",
                        ![s].seenLines = {t \in Staff : lines[t] # NoContent}]
  /\ UNCHANGED <<tables, resp, issuedAfter>>

\* createMany, the cached totals, and the commit.
SaveCommit(s) ==
  /\ At(s, "saveCommit")
  /\ lines' = [t \in Staff |-> IF t = s THEN req[s].content
                               ELSE IF t \in req[s].seenLines THEN NoContent ELSE lines[t]]
  /\ est' = [est EXCEPT !.total = req[s].content]
  /\ Finish(s)
  /\ UNCHANGED <<links, pos, invoice, events, resp, issuedAfter>>

-----------------------------------------------------------------------------
(* updateEstimateStatusAction, deleteEstimateAction *)

StatusRead(s, new) ==
  /\ Begin(s, "status")
  /\ EstimateFound
  /\ est.status # new
  /\ est.status # "FINALIZED"
  /\ req' = [req EXCEPT ![s] = [Idle EXCEPT !.pc = "statusWrite", !.status = new]]
  /\ UNCHANGED <<tables, resp, issuedAfter>>

StatusWrite(s) ==
  /\ At(s, "statusWrite")
  /\ est' = [est EXCEPT !.status = req[s].status]
  /\ Finish(s)
  /\ UNCHANGED <<lines, links, pos, invoice, events, resp, issuedAfter>>

DeleteRead(s) ==
  /\ Begin(s, "delete")
  /\ EstimateFound
  /\ req' = [req EXCEPT ![s] = [Idle EXCEPT !.pc = "deleteWrite"]]
  /\ UNCHANGED <<tables, resp, issuedAfter>>

DeleteWrite(s) ==
  /\ At(s, "deleteWrite")
  /\ est' = [est EXCEPT !.deleted = TRUE]
  /\ Finish(s)
  /\ UNCHANGED <<lines, links, pos, invoice, events, resp, issuedAfter>>

-----------------------------------------------------------------------------
(* finalizeEstimateAction, unfinalizeEstimateAction *)

ReconciliationNeedsAttention(status) == status \notin {"none", "MATCHED", "RESOLVED"}

LinkedPos == {p \in Pos : pos[p].exists /\ ~pos[p].deleted}

\* Mutant: one linked PO with a QuickBooks number is enough.
GatesWithOneQboNumber(status) ==
  /\ status = "APPROVED"
  /\ \E p \in LinkedPos : pos[p].qbo
  /\ \A p \in LinkedPos : ~ReconciliationNeedsAttention(pos[p].recon)

\* Mutant: the status is not among the gates.
GatesWithoutStatus(status) ==
  /\ LinkedPos # {}
  /\ \A p \in LinkedPos : pos[p].qbo /\ ~ReconciliationNeedsAttention(pos[p].recon)

EvaluateEstimateFinalizeGates(status) ==
  /\ status = "APPROVED"
  /\ LinkedPos # {}
  /\ \A p \in LinkedPos : pos[p].qbo /\ ~ReconciliationNeedsAttention(pos[p].recon)

FinalizeRead(s) ==
  /\ Begin(s, "finalize")
  /\ EstimateFound
  /\ est.status # "FINALIZED"
  /\ req' = [req EXCEPT ![s] = [Idle EXCEPT !.pc = "finalizePos", !.status = est.status]]
  /\ UNCHANGED <<tables, resp, issuedAfter>>

\* The second query loads the linked POs; the gates judge both answers together.
FinalizeReadPos(s) ==
  /\ At(s, "finalizePos")
  /\ IF EvaluateEstimateFinalizeGates(req[s].status) THEN Continue(s, "finalizeWrite") ELSE Finish(s)
  /\ UNCHANGED <<tables, resp, issuedAfter>>

FinalizeWrite(s) ==
  /\ At(s, "finalizeWrite")
  /\ est' = [est EXCEPT !.status = "FINALIZED"]
  /\ Finish(s)
  /\ UNCHANGED <<lines, links, pos, invoice, events, resp, issuedAfter>>

UnfinalizeRead(s) ==
  /\ Begin(s, "unfinalize")
  /\ EstimateFound
  /\ est.status = "FINALIZED"
  /\ req' = [req EXCEPT ![s] = [Idle EXCEPT !.pc = "unfinalizeWrite"]]
  /\ UNCHANGED <<tables, resp, issuedAfter>>

UnfinalizeWrite(s) ==
  /\ At(s, "unfinalizeWrite")
  /\ est' = [est EXCEPT !.status = "APPROVED"]
  /\ Finish(s)
  /\ UNCHANGED <<lines, links, pos, invoice, events, resp, issuedAfter>>

-----------------------------------------------------------------------------
(* Quote links: issueEstimateQuoteLinkAction, revokeEstimateQuoteLinkAction, *)
(* sendEstimateEmailAction                                                   *)

Committed == {l \in Links : links[l].url # "none"}
Active == {l \in Committed : ~links[l].revoked}

IssueRead(s) ==
  /\ Begin(s, "issue")
  /\ EstimateFound
  /\ req' = [req EXCEPT ![s] = [Idle EXCEPT !.pc = "issueRevoke"]]
  /\ UNCHANGED <<tables, resp, issuedAfter>>

\* sendEstimateEmailAction up to verifyTransport, which succeeded.
SendRead(s) ==
  /\ Begin(s, "send")
  /\ EstimateFound
  /\ est.status # "FINALIZED"
  /\ req' = [req EXCEPT ![s] = [Idle EXCEPT !.pc = "issueRevoke", !.status = est.status]]
  /\ UNCHANGED <<tables, resp, issuedAfter>>

\* Mutant: links that already carry an answer are left in force.
UnansweredLinksToRevoke == {l \in Active : links[l].answer = "none"}

\* revokeActiveQuoteLinksForEstimate selects the rows it can see.
LinksToRevoke == Active

\* issueEstimateQuoteLink: a fresh token, then the first statement of its transaction.
IssueRevokeActive(s, l) ==
  /\ At(s, "issueRevoke")
  /\ l \notin Committed
  /\ \A t \in Staff : req[t].link # l
  /\ req' = [req EXCEPT ![s].pc = "issueCommit", ![s].link = l,
                        ![s].seenLinks = LinksToRevoke]
  /\ issuedAfter' = [issuedAfter EXCEPT ![l] = Committed]
  /\ UNCHANGED <<tables, resp>>

\* The insert and the commit.  The issue handler returns the URL to its caller and may
\* have been given an expiry; the send handler still has to mail a link that has none.
IssueCommit(s, expiry) ==
  /\ At(s, "issueCommit")
  /\ LET sending == req[s].status # "unread"
         fresh == [UnissuedLink EXCEPT !.url = IF sending THEN "held" ELSE "out",
                                       !.expiry = expiry]
     IN /\ sending => expiry = "never"
        /\ links' = [l \in Links |->
                       IF l = req[s].link THEN fresh
                       ELSE [links[l] EXCEPT !.revoked = @ \/ l \in req[s].seenLinks]]
        /\ IF sending THEN Continue(s, "sendMail") ELSE Finish(s)
  /\ UNCHANGED <<est, lines, pos, invoice, events, resp, issuedAfter>>

\* sendMail resolved.
SendMailOk(s) ==
  /\ At(s, "sendMail")
  /\ links' = [links EXCEPT ![req[s].link].url = "out"]
  /\ Continue(s, "sendWrite")
  /\ UNCHANGED <<est, lines, pos, invoice, events, resp, issuedAfter>>

\* sendMail reported an error; the mail may have left all the same.
SendMailFails(s) ==
  /\ At(s, "sendMail")
  /\ \E url \in {"held", "out"} : links' = [links EXCEPT ![req[s].link].url = url]
  /\ Finish(s)
  /\ UNCHANGED <<est, lines, pos, invoice, events, resp, issuedAfter>>

StatusAfterSuccessfulCustomerSend(current) == IF current = "DRAFT" THEN "SENT" ELSE "unread"

\* The new status is computed from the one read at the start; no status, no write.
SendWrite(s) ==
  /\ At(s, "sendWrite")
  /\ LET next == StatusAfterSuccessfulCustomerSend(req[s].status)
     IN est' = IF next = "unread" THEN est ELSE [est EXCEPT !.status = next]
  /\ Finish(s)
  /\ UNCHANGED <<lines, links, pos, invoice, events, resp, issuedAfter>>

RevokeRead(s) ==
  /\ Begin(s, "revoke")
  /\ EstimateFound
  /\ req' = [req EXCEPT ![s] = [Idle EXCEPT !.pc = "revokeWrite"]]
  /\ UNCHANGED <<tables, resp, issuedAfter>>

RevokeWrite(s) ==
  /\ At(s, "revokeWrite")
  /\ links' = [l \in Links |-> [links[l] EXCEPT !.revoked = @ \/ l \in LinksToRevoke]]
  /\ Finish(s)
  /\ UNCHANGED <<est, lines, pos, invoice, events, resp, issuedAfter>>

\* The clock passes expiresAt.
LinkExpires(l) ==
  /\ links[l].expiry = "later"
  /\ links' = [links EXCEPT ![l].expiry = "past"]
  /\ UNCHANGED <<est, lines, pos, invoice, events, req, resp, issuedAfter>>

-----------------------------------------------------------------------------
(* executePublicQuoteCustomerResponse *)

Opposite(intent) == CHOOSE other \in Intents : other # intent

\* Mutant: the FINALIZED guard is missing.
VerdictWithoutFinalized(l, intent) ==
  IF est.deleted \/ links[l].revoked \/ links[l].expiry = "past" THEN "unavailable"
  ELSE IF links[l].answer = "none" THEN "proceed"
  ELSE IF links[l].answer = intent THEN "idempotent" ELSE "opposite"

\* The guards of the transaction, on the link and the estimate it read; "proceed" when none bites.
ResponseVerdict(l, intent) ==
  IF est.deleted \/ links[l].revoked \/ links[l].expiry = "past" THEN "unavailable"
  ELSE IF est.status = "FINALIZED" THEN "finalized_blocked"
  ELSE IF links[l].answer = "none" THEN "proceed"
  ELSE IF links[l].answer = intent THEN "idempotent" ELSE "opposite"

RespondRead(c, l, intent) ==
  /\ resp[c].pc = "idle"
  /\ Isolated => AllQuiet
  /\ links[l].url = "out"
  /\ LET verdict == ResponseVerdict(l, intent)
     IN resp' = [resp EXCEPT ![c] =
                   [pc |-> IF verdict = "proceed" THEN "commit" ELSE "idle",
                    link |-> l, intent |-> intent,
                    told |-> IF verdict = "proceed" THEN "nothing" ELSE verdict]]
  /\ UNCHANGED <<tables, req, issuedAfter>>

\* Mutant: the WHERE without revokedAt.
LinkUnanswered(l) == links[l].answer = "none"

\* The WHERE of the updateMany: expiresAt is compared with the instant the request
\* arrived, which RespondRead already found to be earlier.
LinkStillOpen(l) == links[l].answer = "none" /\ ~links[l].revoked

\* Mutant: any stored answer counts as a replay.
ClassifyAnyAnswerAsReplay(intent, answer) ==
  IF answer = "none" THEN "unavailable" ELSE "idempotent"

ClassifyQuoteResponseRace(intent, answer) ==
  CASE answer = intent -> "idempotent"
    [] answer = Opposite(intent) -> "opposite"
    [] OTHER -> "unavailable"

EstimateStatusAfter(intent) == IF intent = "accept" THEN "APPROVED" ELSE "REJECTED"

\* The estimate.updateMany of the transaction.
EstimateAfterResponse(intent) ==
  IF est.deleted THEN est ELSE [est EXCEPT !.status = EstimateStatusAfter(intent)]

RespondRecord(c) ==
  /\ resp[c].pc = "commit"
  /\ LET l == resp[c].link
         intent == resp[c].intent
     IN /\ LinkStillOpen(l)
        /\ links' = [links EXCEPT ![l].answer = intent]
        /\ est' = EstimateAfterResponse(intent)
        /\ events' = [events EXCEPT ![<<l, intent>>] = @ + 1]
  /\ resp' = [resp EXCEPT ![c].pc = "idle", ![c].told = "recorded"]
  /\ UNCHANGED <<lines, pos, invoice, req, issuedAfter>>

\* updateMany matched no row: another request got there first.
RespondLostRace(c) ==
  /\ resp[c].pc = "commit"
  /\ ~LinkStillOpen(resp[c].link)
  /\ resp' = [resp EXCEPT ![c].pc = "idle",
                ![c].told = ClassifyQuoteResponseRace(resp[c].intent, links[resp[c].link].answer)]
  /\ UNCHANGED <<tables, req, issuedAfter>>

-----------------------------------------------------------------------------
(* Purchase orders of the estimate: createPoFromEstimateAction,             *)
(* createBlankPoAction, setPoQboNumberAction, deletePurchaseOrderAction     *)

PoConvertRead(s) ==
  /\ Begin(s, "poConvert")
  /\ EstimateFound
  /\ est.status = "APPROVED"
  /\ req' = [req EXCEPT ![s] = [Idle EXCEPT !.pc = "poConvert"]]
  /\ UNCHANGED <<tables, resp, issuedAfter>>

PoBlankRead(s) ==
  /\ Begin(s, "poBlank")
  /\ EstimateFound
  /\ req' = [req EXCEPT ![s] = [Idle EXCEPT !.pc = "poBlank"]]
  /\ UNCHANGED <<tables, resp, issuedAfter>>

PoCreate(s, p) ==
  /\ At(s, "poConvert") \/ At(s, "poBlank")
  /\ ~pos[p].exists
  /\ pos' = [pos EXCEPT ![p] = [NoPoRow EXCEPT !.exists = TRUE,
                                               !.converted = At(s, "poConvert")]]
  /\ Finish(s)
  /\ UNCHANGED <<est, lines, links, invoice, events, resp, issuedAfter>>

PoQboRead(s, p, filled) ==
  /\ Begin(s, "poQbo")
  /\ p \in LinkedPos
  /\ pos[p].qbo # filled
  /\ req' = [req EXCEPT ![s] = [Idle EXCEPT !.pc = "poQbo", !.po = p, !.qbo = filled]]
  /\ UNCHANGED <<tables, resp, issuedAfter>>

PoQboWrite(s) ==
  /\ At(s, "poQbo")
  /\ pos' = [pos EXCEPT ![req[s].po].qbo = req[s].qbo]
  /\ Finish(s)
  /\ UNCHANGED <<est, lines, links, invoice, events, resp, issuedAfter>>

PoDeleteRead(s, p) ==
  /\ Begin(s, "poDelete")
  /\ p \in LinkedPos
  /\ req' = [req EXCEPT ![s] = [Idle EXCEPT !.pc = "poDelete", !.po = p]]
  /\ UNCHANGED <<tables, resp, issuedAfter>>

PoDeleteWrite(s) ==
  /\ At(s, "poDelete")
  /\ pos' = [pos EXCEPT ![req[s].po].deleted = TRUE]
  /\ Finish(s)
  /\ UNCHANGED <<est, lines, links, invoice, events, resp, issuedAfter>>

\* runPoReconciliationSnapshot commits a newer snapshot for the PO.
ReconSnapshot(p, outcome) ==
  /\ Isolated => AllQuiet
  /\ pos[p].exists /\ pos[p].recon # outcome
  /\ pos' = [pos EXCEPT ![p].recon = outcome]
  /\ UNCHANGED <<est, lines, links, invoice, events, req, resp, issuedAfter>>

-----------------------------------------------------------------------------
(* createInvoiceFromEstimateAction, markInvoicePaidAction *)

InvoiceRead(s) ==
  /\ Begin(s, "invoice")
  /\ EstimateFound
  /\ est.status = "APPROVED"
  /\ req' = [req EXCEPT ![s] = [Idle EXCEPT !.pc = "invoiceCheck", !.content = est.total]]
  /\ UNCHANGED <<tables, resp, issuedAfter>>

InvoiceCheckExisting(s) ==
  /\ At(s, "invoiceCheck")
  /\ IF invoice.status = "none" THEN Continue(s, "invoiceCommit") ELSE Finish(s)
  /\ UNCHANGED <<tables, resp, issuedAfter>>

\* Mutant: the schema has no unique index on the estimate of an invoice.
InvoiceSlotUnchecked == TRUE

\* @@unique([tenantId, estimateId]): a second insert aborts its whole transaction.
InvoiceSlotFree == invoice.status = "none"

InvoiceCommit(s) ==
  /\ At(s, "invoiceCommit")
  /\ Finish(s)
  /\ IF InvoiceSlotFree
     THEN /\ invoice' = [status |-> "UNPAID", total |-> req[s].content]
          /\ events' = [events EXCEPT ![<<NoLink, "invoice">>] = @ + 1]
     ELSE UNCHANGED <<invoice, events>>
  /\ UNCHANGED <<est, lines, links, pos, resp, issuedAfter>>

PayRead(s) ==
  /\ Begin(s, "pay")
  /\ invoice.status = "UNPAID"
  /\ req' = [req EXCEPT ![s] = [Idle EXCEPT !.pc = "payWrite"]]
  /\ UNCHANGED <<tables, resp, issuedAfter>>

PayWrite(s) ==
  /\ At(s, "payWrite")
  /\ invoice' = [invoice EXCEPT !.status = "PAID"]
  /\ Finish(s)
  /\ UNCHANGED <<est, lines, links, pos, events, resp, issuedAfter>>

-----------------------------------------------------------------------------
\* The web process restarts: requests in flight are gone, open transactions roll back.
ServerRestart ==
  /\ ~AllQuiet
  /\ req' = [s \in Staff |-> Idle]
  /\ resp' = [c \in Customers |-> IdleResponse]
  /\ UNCHANGED <<tables, issuedAfter>>

StaffStep(s) ==
  \/ \E c \in Contents : SaveRead(s, c)
  \/ SaveDeleteLines(s) \/ SaveCommit(s)
  \/ \E new \in StatusTargets : StatusRead(s, new)
  \/ StatusWrite(s) \/ DeleteRead(s) \/ DeleteWrite(s)
  \/ FinalizeRead(s) \/ FinalizeReadPos(s) \/ FinalizeWrite(s)
  \/ UnfinalizeRead(s) \/ UnfinalizeWrite(s)
  \/ PoConvertRead(s) \/ PoBlankRead(s) \/ PoQboWrite(s) \/ PoDeleteWrite(s)
  \/ \E p \in Pos : \/ PoCreate(s, p) \/ PoDeleteRead(s, p)
                    \/ \E filled \in BOOLEAN : PoQboRead(s, p, filled)
  \/ InvoiceRead(s) \/ InvoiceCheckExisting(s) \/ InvoiceCommit(s)
  \/ PayRead(s) \/ PayWrite(s)

LinkStep(s) ==
  \/ IssueRead(s) \/ SendRead(s)
  \/ \E l \in Links : IssueRevokeActive(s, l)
  \/ \E expiry \in {"never", "later"} : IssueCommit(s, expiry)
  \/ SendMailOk(s) \/ SendMailFails(s) \/ SendWrite(s)
  \/ RevokeRead(s) \/ RevokeWrite(s)

CustomerStep(c) ==
  \/ \E l \in Links, intent \in Intents : RespondRead(c, l, intent)
  \/ RespondRecord(c) \/ RespondLostRace(c)

Step ==
  \/ \E s \in Staff : StaffStep(s) \/ LinkStep(s)
  \/ \E c \in Customers : CustomerStep(c)
  \/ \E l \in Links : LinkExpires(l)
  \/ \E p \in Pos, outcome \in ReconOutcomes : ReconSnapshot(p, outcome)
  \/ ServerRestart

Next == Step /\ approvedOnce' = (approvedOnce \/ est'.status = "APPROVED")

Spec == Init /\ [][Next]_vars
-----------------------------------------------------------------------------
(* Properties that hold whatever overlaps with what *)

\* The customer's side of every race on a link (executePublicQuoteCustomerResponse): the
\* timeline holds one event for the recorded decision and none for any other.
TimelineMatchesAnswers ==
  \A l \in Links, i \in Intents : events[<<l, i>>] = IF links[l].answer = i THEN 1 ELSE 0

\* What a customer was told agrees with the record: "recorded" and "idempotent" replies
\* mean this very decision is stored, "opposite" that the other one is.
ToldTheTruth ==
  \A c \in Customers :
    LET r == resp[c]
    IN /\ r.told \in {"recorded", "idempotent"} => links[r.link].answer = r.intent
       /\ r.told = "opposite" => links[r.link].answer = Opposite(r.intent)

\* Re-issuing a link withdraws every link committed before its revoke statement ran, so two
\* links are in force together only if each was issued without seeing the other.
ActiveLinksOverlapped ==
  \A k, l \in Active : k # l => k \notin issuedAfter[l]

\* No purchase order is converted from an estimate, no invoice drawn on it and it is not
\* finalized unless it has been APPROVED, however stale the status each handler read.
NothingBeforeApproval ==
  (invoice.status # "none" \/ est.status = "FINALIZED" \/ \E p \in Pos : pos[p].converted)
    => approvedOnce

\* The estimate has one INVOICE_CREATED_FROM_ESTIMATE event exactly when it has an invoice,
\* although two requests may both find no invoice and both try to create one.
InvoiceTimeline ==
  events[<<NoLink, "invoice">>] = IF invoice.status = "none" THEN 0 ELSE 1

\* An invoice, once drawn, keeps its amount, and a paid one stays paid.
InvoiceIsFinal ==
  [][/\ invoice.status # "none" => invoice'.total = invoice.total
     /\ invoice.status = "PAID" => invoice'.status = "PAID"]_vars

\* The public contract of a quote link, implemented by the rows above.
Decision == INSTANCE QuoteDecision WITH
  issued <- Committed, revoked <- Committed \ Active,
  decision <- [l \in Links |-> links[l].answer]

ImplementsQuoteDecision == Decision!QDSpec

-----------------------------------------------------------------------------
(* The inductive invariant behind the properties above *)

\* What a request in flight knows: a status it is about to write is a real one and never
\* FINALIZED; a token it generated is its own, has no row before the commit and one after.
RequestsInv ==
  /\ \A s \in Staff :
       /\ req[s].pc = "statusWrite" => req[s].status \in Status \ {"FINALIZED"}
       /\ req[s].pc = "issueCommit" => req[s].link \in Links /\ links[req[s].link].url = "none"
       /\ req[s].pc \in {"sendMail", "sendWrite"} =>
            req[s].link \in Links /\ links[req[s].link].url # "none"
  /\ \A s, t \in Staff : s # t /\ req[s].link # NoLink => req[s].link # req[t].link

\* Answers sit on committed links only; a response about to commit holds a real link.
AnswersInv ==
  /\ \A l \in Links : links[l].answer # "none" => links[l].url # "none"
  /\ \A c \in Customers :
       resp[c].pc = "commit" \/ resp[c].told \in {"recorded", "idempotent", "opposite"}
         => resp[c].link \in Links /\ links[resp[c].link].url # "none"

\* What the revoke statement of an issuing transaction saw is revoked by the commit or was
\* revoked already.
RevocationInv ==
  /\ \A l \in Links : issuedAfter[l] \subseteq Committed
  /\ \A s \in Staff : req[s].pc = "issueCommit" =>
       \A k \in issuedAfter[req[s].link] : k \in req[s].seenLinks \/ links[k].revoked

\* A request that is past an APPROVED guard, or found an invoice, ran after an approval.
ApprovalInv ==
  /\ NothingBeforeApproval
  /\ est.status = "APPROVED" => approvedOnce
  /\ \A s \in Staff :
       \/ req[s].pc \in {"finalizeWrite", "poConvert", "invoiceCheck", "invoiceCommit", "payWrite"}
       \/ req[s].pc = "finalizePos" /\ req[s].status = "APPROVED"
       => approvedOnce

\* A request about to mark the invoice paid has an invoice to mark.
InvoiceInv ==
  /\ InvoiceTimeline
  /\ \A s \in Staff : req[s].pc = "payWrite" => invoice.status # "none"

IInv ==
  /\ TypeOK /\ RequestsInv /\ AnswersInv /\ RevocationInv /\ ApprovalInv /\ InvoiceInv
  /\ TimelineMatchesAnswers /\ ToldTheTruth /\ ActiveLinksOverlapped

-----------------------------------------------------------------------------
(* What the documentation says of the handlers: true when requests run one at *)
(* a time, refuted when they overlap                                          *)

EntersFinalized == est.status # "FINALIZED" /\ est'.status = "FINALIZED"

CloseoutGatesHold ==
  /\ est.status = "APPROVED"
  /\ \E p \in Pos : pos[p].exists /\ ~pos[p].deleted
  /\ \A p \in Pos : pos[p].exists /\ ~pos[p].deleted =>
       pos[p].qbo /\ pos[p].recon \in {"none", "MATCHED", "RESOLVED"}

\* R-EST-04: the row enters FINALIZED only in a state that passes the closeout gates.
FinalizedOnlyWhenGatesHold == [][EntersFinalized => CloseoutGatesHold]_vars

\* FINALIZED closes the estimate: until unfinalizeEstimateAction, its status, its lines and
\* totals and the customers' answers stay as they are, whichever handler is called.
FinalizedStands ==
  [][est.status = "FINALIZED" /\ ~(\E s \in Staff : UnfinalizeWrite(s))
       => /\ est'.status = "FINALIZED" /\ est'.total = est.total /\ lines' = lines
          /\ \A l \in Links : links'[l].answer = links[l].answer]_vars

\* The stored lines are those of one save, and the cached totals are theirs.
TotalsMatchLines ==
  \A s \in Staff : lines[s] # NoContent =>
    /\ est.total = lines[s]
    /\ \A t \in Staff \ {s} : lines[t] = NoContent
=============================================================================
