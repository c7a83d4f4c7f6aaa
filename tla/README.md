# TLA+ specifications of bvisible

bvisible is a multi-tenant estimating and purchasing application for sign and
construction companies: a Next.js web application with Postgres behind Prisma
(`src/apps/web`, `src/packages/db`), an Expo phone application for receipts
(`src/apps/mobile`), and workers that are HTTP routes called by an external
timer. This directory holds TLA+ modules translated from that source, TLC
configurations that check them on small instances, and proofs of their central
theorems that TLAPS checks for every instance.

    tlc -config Quotes.cfg MCEstimateLifecycle.tla      (any run of PROJECT.json)
    tlapm EstimateLifecycleProofs.tla                   (any *Proofs module)

`PROJECT.json` lists the components, the runs, the source lines each definition
translates (`map`), one plausible bug per property (`mutants`), the hazards of
the code at their lines, the disagreements found between code and documentation
(`findings`) and the theorems.

## 1. Inventory of the system

What is hard in this system is always the same thing, in different clothes:
handlers read rows, decide in JavaScript, and write later, mostly by primary key
and without the condition they decided on; transactions run at Postgres's default
READ COMMITTED; nothing is locked except number sequences. Two requests, two ticks
or a restart between two awaits produce the interesting states. A second kind of
difficulty is that one question ("what is the next step of this job?") is answered
in a dozen places, each with conditions of its own.

| Component | State | Operations | Interacts with | Hard behaviour | What makes it correct |
|---|---|---|---|---|---|
| Estimate lifecycle (`estimates/[id]/actions.ts`, `preview/actions.ts`, `lib/estimate/estimate-finalization.ts`) | `Estimate` row, its line items, cached totals | save, change status, delete, finalize, unfinalize, mail | quote links, POs, reconciliation, invoices | stale reads, overlapping saves, SMTP in the middle of a handler | status moves, closeout gates, totals match lines |
| Quote links (`quote-link-issue.ts`, `execute-public-quote-response.ts`) | `EstimateQuoteLink` rows, timeline events | issue, revoke, mail, expire, accept, decline | estimate | two customers and the staff on one link; the loser of a race must be told the truth | one decision per link, replies agree with the record, re-issue withdraws |
| Invoices (`invoices/actions.ts`) | `Invoice` row, unique per estimate | create from estimate, mark paid | estimate | two creations at once | one invoice, one event, amount final |
| Purchase orders (`purchase-orders/actions.ts`, `[id]/actions.ts`) | `PurchaseOrder` rows, lines, attachments, timeline | create, convert, edit, QuickBooks number, status, vendor events, stamp, delete, attachments | estimate gates, uploads, OCR, e-mail, reconciliation | changes under the feet of finalize, snapshots and uploads | converted only from an approved estimate |
| Receipt OCR (`lib/ocr/*`, `admin/ocr-review/actions.ts`) | `OcrDocument`, `OcrLineItem` rows | enqueue, claim with lease, extract, fail, approve, reject | attachments, price history, reconciliation | overlapping ticks, crash on any step, expiring lease, double approval, lines skipped for their label | attempts bounded, a line priced once, queue drains |
| Mobile upload API (`api/v1/uploads`, `finalize-mobile-upload.ts`) | `MobilePendingUpload` rows, files, attachments | presign, PUT, complete | phone, OCR, POs | several handlers on one reservation, restarts, expiry | complete is idempotent, bytes are behind attachments |
| Phone queue (`apps/mobile/lib/upload-queue`) | one AsyncStorage value, the drain loop | enqueue, drain, progress, retry, dismiss | upload API | unawaited read-modify-write of one value, reads that fail, kills, lost replies | nothing dropped undelivered, delivery in the end |
| E-mail ingestion (`lib/email-ingest/*`) | `IngestedEmail` rows, IMAP `\Seen`, polling lease | tick, match, materialize, link, retry, dismiss | POs, OCR, prices | crash between insert and match, overlapping ticks and operators | nothing lost, materialized once |
| Reconciliation (`lib/reconciliation/*`) | snapshots with rows, spend alerts | approve a receipt, run a snapshot, supersede, resolve, reject, merge, dismiss, stamp | POs, receipts, finalize gates | overlapping snapshots and merges, approvals of other lines of a document, a save of the PO under both | alerts are current, statuses match rows, each line and each receipt is on one row |
| Vendor prices (`lib/vendor-pricing/*`) | catalog items, price history, notifications | persist, resolve item, extract from mail | OCR, e-mail, reconciliation | find-then-create of items | one row per line |
| Mobile sessions (`lib/mobile/*`, `apps/mobile/lib/api.ts`, `refresh-lock.ts`) | refresh token hashes, the pair on the phone, the single-flight lock | sign in, call, rotate, sign out | phone queue | parallel 401s, lost replies, kills, storage that throws, a server that says 401 for a database failure | the pair stays in step, nobody is signed out without cause |
| Web authentication (`lib/auth/*`, `app/(auth)`, `settings/actions.ts`) | sessions, invitations, resets | log in/out, invite, accept, reset, change | all | one-time tokens used twice, a sign-in under way during a reset | sessions of old passwords end, a token works once |
| PO lifecycle state, work queues, checklists (`lib/po/*`, `lib/workflow/*`, `lib/estimate/*`) | none (functions of rows) | derive states, queues, hints, next steps | all | many derivations of one question, queries without a common snapshot, limited lists | an approved job is listed while its list has room, the screens agree |
| Pages and dashboards (`app/(app)`, `components`) | none | offer operations and links | all handlers | conditions of a page differ from those of its handler | every offer is accepted, every row can be cleared |
| Sequence numbers, pricing engine, deploy queue | greatest number per tenant; none; queue file | next number; price a line; deploy | estimates, POs, invoices | string order; rounding; two workers | not modelled, see section 6 |

## 2. Order of the work

Importance decided the order: the money-bearing status of an estimate first
(`QuoteDecision`, `EstimateLifecycle`), then the paths on which receipts enter the system
(`OcrPipeline`, `UploadServer`, `MobileUpload`, `EmailIngest`), then what is done with
them (`Reconciliation`, with `SpendAlertBoard` for what it promises), then who may do it
(`MobileSession`, `Accounts`), and last what the screens make of all of it
(`WorkQueueRules`, `WorkQueueOffers`, `WorkQueues`). Composition happens in five places:
`EstimateLifecycle` implements `QuoteDecision` and `Reconciliation` implements
`SpendAlertBoard`, each under a refinement mapping; `MobileUpload` extends `UploadServer`
with the phone, each step of the composition being a server step or a phone step;
`Reconciliation` runs the functions of `ReconMatch` on what its requests read;
`WorkQueues` moves the rows which `WorkQueueRules` and `WorkQueueOffers` read.

## 3. The modules

Conventions. A *request*, *handler*, *tick* or *approval* in flight is an entry of a
function from a set of slots (a constant) to a record with a program counter `pc` and
the data the code holds in local variables across an await. One action is one stretch
of code between two awaits on the database, the disk or the network. A Prisma
`$transaction` takes effect in one step, its commit; what its earlier statements could
see at READ COMMITTED is remembered in the request. Definitions whose comment begins
with *Mutant* are altered versions of the definition after them and are used by
nothing: they name the bug that the property would catch.

### QuoteDecision and EstimateLifecycle

`QuoteDecision` says what a public link promises: it is issued once, may be withdrawn
for good, and takes at most one decision, only while in force, which never changes.

`EstimateLifecycle` has the `Estimate` row (`est`), its line items (`lines`, one batch
per saving request), the links, the linked purchase orders, the invoice, the timeline
counted by kind (`events`), the staff requests (`req`) and customer requests (`resp`).

| Actions | Code |
|---|---|
| `SaveRead`, `SaveDeleteLines`, `SaveCommit` | `saveEstimateAction` |
| `StatusRead/Write`, `DeleteRead/Write` | `updateEstimateStatusAction`, `deleteEstimateAction` |
| `FinalizeRead`, `FinalizeReadPos`, `FinalizeWrite`, `Unfinalize...` | `finalizeEstimateAction` with `evaluateEstimateFinalizeGates`, `unfinalizeEstimateAction` |
| `IssueRead`, `IssueRevokeActive`, `IssueCommit`, `RevokeRead/Write` | the link actions with `issueEstimateQuoteLink` |
| `SendRead`, then the issue steps, `SendMailOk`, `SendMailFails`, `SendWrite` | `sendEstimateEmailAction` |
| `RespondRead`, `RespondRecord`, `RespondLostRace`, `LinkExpires` | `executePublicQuoteCustomerResponse` |
| `PoConvertRead`, `PoBlankRead`, `PoCreate`, `PoQbo...`, `PoDelete...`, `ReconSnapshot` | what the gates depend on in `purchase-orders` and reconciliation |
| `InvoiceRead`, `InvoiceCheckExisting`, `InvoiceCommit`, `Pay...` | `invoices/actions.ts` |
| `ServerRestart` | requests in flight vanish, uncommitted work rolls back |

Abstractions: a line set is a model value and stands for the price computed from it;
audit rows, notes and `lastViewedAt` are left out; `expiresAt` is compared with the
arrival of the request, as in the code, so a response that was in time stays in time.
A response that commits between the revoke statement of an issuing transaction and its
commit is the same as one that commits before it (the revoke takes the row lock), so no
separate step stands for that window. `Isolated = TRUE` makes a request start only when
no other is running. It is used in one run, to separate what is wrong with a handler
from what is wrong with two handlers at once.

### OcrPipeline

One `OcrDocument` row per document with status, `attemptCount` and lease; lines as the
set of attempt numbers whose batch is present; price rows counted per line; ticks
(`worker`) and approvals (`review`) in progress. `Claimable`/`ClaimRead`/`ClaimWrite`
are the two statements of `claimNextOcrDocument`: the update names the row by id alone,
so two ticks may claim one document. `ExtractOk`, `InsertLines` and `FailJob` are the
outcomes of `processOcrDocument`; `WorkerDies` is a restart, or `failJob` itself
throwing. `ApproveRead`, `ApproveCount`, `PersistLine`, `Confirm` follow
`approveOcrDocumentAction` line by line into `persistApprovedOcrPriceLines`. A line has one
of the outcomes of `persist.ts`: recorded, passed over as a duplicate, *skipped* because the
label the operator left normalizes to less than two characters (`persist.ts:105`), or a
foreign key that ends the approval. A skipped line is not counted as a failure: the document
is confirmed and the line is not in the price history. `named` remembers which of the lines
an approval included were not skipped, and `ConfirmRecordsEveryLine` speaks of those. What
Tesseract and the parsers read is abstracted to "a batch of lines".

### UploadServer and MobileUpload

`UploadServer` has the reservations (`pending`), the file under each storage key, the
attachments and timeline events counted per upload, and the PUT and complete handlers
being served. A handler goes on after the phone has hung up. `PutTruncate`/`PutFill`
are the two visible effects of `writeFile`; `CompleteStat`, `CompleteProbe`,
`CompleteFindPo`, `CompleteUnlink`, `CompleteCommit`, `CompleteEnqueueOcr` and
`CompleteFindAttachment` are the awaits of `finalizeMobileUploadResponse` in order.

`MobileUpload` extends it with the phone: the stored queue, the storage calls waiting to
be served in order (`ops`), the change each of three parties is making (`edit`), and the
drain loop. `Begin` starts a read-modify-write, `ServeGet` and `ServeSet` are its two
AsyncStorage calls with the JavaScript in between; `GetFails` is the read that fails or
cannot be parsed, which `loadUploadQueue` takes for an empty queue, so that the change writes
the queue back without its other jobs; `DrainNext` ... `DrainRemove` follow `processJob`;
`JobFails` is its catch block; `Progress` the unawaited upsert from the upload's progress
callback, of which as many may be pending as there are `Callbacks`; `AppKilled` forgets
everything but the store and prunes on relaunch. Not modelled: preparing the file, refreshing
a token inside a call (it ends like the call without it, or like a lost call), a `setItem`
that throws, and the last 8 s of a reservation, which count as expired.

### EmailIngest

The mailbox with its `\Seen` flags, the polling lease, one `IngestedEmail` row per message,
`POAttachment` rows and VENDOR_REPLY timeline events counted per e-mail, and the handlers
in progress (`work`): ticks and operators' actions.

| Actions | Code |
|---|---|
| `TickClaim`, `LeaseRunsOut`, `TickFetch`, `TickNext`, `TickBudget` | `claimLease`, `fetchUnseen` and the loop of `runIngestForTenant` |
| `InsertRow`, `Match`, `RecordUnmatched`, `MarkSeen` | `ingestOneMessage`, and the flag set after it |
| `FindReply`, `PromoteAttachment`, `CommitReply` | `materializeOnPo`, for a tick or a manual link |
| `LinkRead`, `RetryRead/Write`, `DismissRead/Write` | the three actions of `admin/email-ingestion` |
| `HandlerThrows`, `Restart` | the `catch` around one message, the one around the tick, and a dying process |

`overlapped` and `interrupted` are history: rows on which two handlers met, and rows whose
materialization ended before its commit. The properties that are true only without such an
event name it, and hold whatever else happens. Abstractions: each message has its own
Message-ID; the matcher's outcome is an input; the insert transaction with its attachment
rows is one step; review codes, the price extraction after a materialization (each in a
`try` of its own) and the `EmailIngestRun` telemetry are left out.

### SpendAlertBoard, ReconMatch and Reconciliation

`ReconMatch` is the matcher of `lib/reconciliation/match.ts` as operators on sets of
lines: the pairing by normalized label and rank, the verdict of each pair against the
price and quantity tolerances, the aggregate status and the subjects of the spend
alerts. `Reconciliation` runs it on what a request read.

| Actions | Code |
|---|---|
| `ApproveRead`, `RecordPrice`, `CheckKey`, `ReadPo`, `ReadReceipts`, `SnapshotTx`, `SnapshotCommit`, `SnapshotSkipped`, `SnapshotThrows`, `Confirm` | `approveOcrDocumentAction` around `runPoReconciliationSnapshot` |
| `RefreshManual` and the same steps | `refreshPoReconciliationManualAction` |
| `MergeRead`, the merge itself, the two aggregate steps | the merge, resolve and reject actions with `recomputeAggregateStatus` |
| `DismissRead`, its write, the stamp | `dismissSpendAlertAction`, the operator's stamp |
| `SaveBegin`, `SaveCommit`, `PoDeleted`, `AttachmentDeleted` | what others change meanwhile, with the foreign keys' `SetNull` and `Cascade` |

The key of a snapshot is what the approval included: `buildOcrApproveTriggerDedupeKey` hashes
the document and the sorted ids of the included lines, and a manual refresh has a nonce. Lines
belong to one document (`DocOf`), so the set of lines is the key (`snap[n].trigger`, empty for
a refresh). Two approvals of a document with different selections, or of lines read anew after
a second OCR, therefore make two snapshots, and only an approval of the same lines finds the
first one (`HasSnapshot`). `RecordPrice` has the outcomes of `persist.ts`, the skipped line
included; `named` remembers the lines an approval did not skip.

A snapshot transaction is two steps: what its `updateMany` sees, and its commit. Row and
key locks are guards: a save waits for the snapshot that names its lines, an insert of a
key that another transaction holds waits for it. `rough` is history: snapshots on which
two merges overlapped or one was cut short.

`SpendAlertBoard` says what the alerts promise to the dashboard that counts them: a run
raises its conditions once, when it is published, and closes those of the runs that were
published before it began; a condition is closed by a later run or dismissed by an
operator, and neither is taken back; none is lost. In `Reconciliation` a run is a
snapshot and its phase the state of the row; `raised`, `open` and `dismissed` are the
subjects of its alerts by status. `SnapshotTx` is `BeginRun`, `SnapshotCommit` is
`PublishRun`, a request that dies in its transaction is `AbandonRun`, `DismissWrite` is
`DismissConditions`, and every other action is a stutter.

### MobileSession

The server's `MobileSession` rows, the access token in AsyncStorage, the refresh token in
SecureStore with its AsyncStorage fallback, the single-flight lock, the calls of the app
and the refresh requests being served. `CallBegins` to `Resend` follow `apiFetch` and the
queue's `putUriWithProgress`; `Unauthorized`, `ReadRefresh`, `FlightEnds` follow
`createSingleFlight` and `refreshPairInner`; `RefreshRead` and `RefreshWrite` are the two
statements of `rotateMobileRefreshToken`, the update naming the row by id alone; `RefreshThrows`
is the database failing under either, with the update made or not: `refresh/route.ts:58`
answers 401 to any error, and the phone takes that for a dead token (`writeAuditLog` catches
its own errors, so it adds no case);
`SaveAccess`, `SaveRefresh`, `ClearAccess`, `ClearRefresh` are single storage calls.
`disturbed` is history: a storage failure, a database failure under a refresh, a rotation
whose answer was lost, or a kill between the two storage calls, a session or an access token
that runs out between its refresh and its first use; after these the two sides may honestly
be out of step.

### Accounts

One e-mail address of a company: its `User` row, `UserInvite` and `PasswordResetToken`
rows, `Session` rows, and requests between the check of a token and its use (hashing the
password is awaited there). A password is the number of the write that set it.
`InviteRead/Create`, `AcceptRead/Write/Collides`, `ResetRequested/Read/Write`,
`ChangeRead/Write`, `LoginRead`, `CreateSession`, `SessionEnds` are the handlers;
`RequestDies` is a restart or a redirect that is never reached. `crowded` notes tokens
submitted while a submission of them was in progress.

### WorkQueueRules, WorkQueueOffers, WorkQueues

`WorkQueueRules` translates the derivations on stored rows: the closeout gates and the
checklist, the next action of the estimate list, its chips and the editor's primary
action, the operational steps and fulfillment hints, the lifecycle state of a PO and its
dashboard queues, the receipt summary's next actions, and the queries and rows of the
operational work queues. A query is an operator on the tables; the queues are built from
*what each query saw*, so that queries of one page may see different states (`AllSee` is
the case where they see the same).

The dashboard's lists are limited: a query takes 5 to 20 rows, some rows are taken out only
after that, a bucket shows 8 of its rows, and the PO lifecycle looks at 60 POs and shows 8 of a
section. `Limit` has these numbers. One job is modelled, so the others appear as an argument:
`ahead[list][s]` is the number of rows that come before that of `s` in a list, those included
that the page takes out after the limit has been applied, and a row is listed only if it is
`Shown` by its query and by its bucket. `ahead` ranges over the constant `Crowds`; `Alone` is
the case of no other job.

`WorkQueueOffers` says for each page which operations its buttons call (`Controls`) and
which pages its links lead to (`Links`), with the page's own conditions, and when a page
is found at all (`Found`).

`WorkQueues` is the state machine of one estimate, its link and invoice and its POs, with
handlers as atomic steps (their overlaps are the business of the modules above). `Take`
maps a control to the handler it calls, so that "the handler accepts it" is `ENABLED`. The
editor's Create PO calls `createPoFromEstimateAction` (`CreatePoFromEstimate`), which refuses
an estimate that is not APPROVED; the New PO form calls `createBlankPoAction`
(`CreateBlankPo`), which only asks that the estimate is not deleted. `Quiet` and `Blank` are
bounds: POs that only get a number and then a snapshot, and POs that may be created without an
estimate (and are followed no further).

Observations from the translation that no run states as a property: `vendor_acknowledged`
is in `po-lifecycle-matrix.ts:9` but `getPurchaseOrderLifecycleState` never returns it; a
stamp sets the latest snapshot RESOLVED, so a condition `stamped && latest === MATCHED` is
not met after stamping; a stamp is never cleared, so a stamped PO whose receipts vary
again is in the lifecycle queue but not in the operational variance queue; resolving a row
by hand leaves the status of its snapshot; the dashboard's `unreconciledPurchaseOrders`
counts POs with any old snapshot that needs attention; an approved, billed and paid job
that lacks only a QuickBooks number is in no queue (`ApprovedIsListed` says so); receipts
and alerts of deleted POs stay listed with links to pages that are gone, and approving
such a receipt records prices and takes no snapshot; an unpaid invoice of a deleted
estimate stays in a queue whose link leads nowhere; the staff summary may call a
customer's panel open which FINALIZED has closed; "Revoke" is offered when no link is
open. `LinksLeadSomewhere`, `OffersAreAccepted` and `RowsCanBeCleared` except exactly the
dead ends among these cases. In `Reconciliation`, `PriceOverMeansAbove` (`run.ts:436`
against `match.ts:118`) and `OpenAlertsOfOneRun` (the page's assumption that open alerts
stem from one snapshot) are stated and are false of the code; no run lists them.

## 4. The runs

A *pass* run is exhaustive on its instance. A *violation* run checks one statement of
the documentation or of a comment that the code does not keep; the counterexample is a
`finding` of `PROJECT.json`.

| Run | Instance | What it shows |
|---|---|---|
| `quotes` | 2 staff slots, 2 customers, 2 links; issue, revoke, delete, restart | links in force, timeline, replies and records agree in every interleaving; the rows implement `QuoteDecision` |
| `closeout` | 2 staff slots, 1 customer, 1 link, 1 PO; save, approve, convert, blank POs, invoice, pay, finalize | nothing happens before an approval, and one invoice is drawn and keeps its amount, whatever overlaps |
| `isolated` | 2 slots (one at a time), 2 POs, all status handlers | finalize gates, unfinalize, mailing, edits and totals are as documented when requests do not overlap |
| `ocr` | 1 document, 2 ticks, 2 approvals, 2 items, 2 attempts (248,273 states) | decisions and price rows, whatever lines are skipped; the queue drains |
| `mobile` | 1 file, 2 reservations, 2 handlers, 2 progress callbacks, 1 fault (871,036 states) | nothing dropped undelivered, idempotent complete, delivery under fairness |
| `mobile_lost` | 2 files, no fault | *violation*: a queued file is overwritten in the store (R-MOB-02) |
| `email` | 2 messages (one unparsable), 2 ticks, 1 operator, 2 POs, 1 attachment, 1 fault | stored before marked seen, one materialization, status and timeline agree, mail is stored in the end |
| `email_retry` | 1 message | *violation*: a retried e-mail is never matched again (EMAIL_INGESTION.md) |
| `reconcile` | 2 requests, 2 lines of one document, either of them approved alone, 2 snapshots, 1 incident (1,167,488 states) | alerts are those of the newest snapshots, dismissals stand, statuses match rows, a confirmed document was reconciled under the key of an approval of it and no key has two snapshots, each PO line and each receipt is accounted for on one row unless a stale merge replaces it; the alert rows implement `SpendAlertBoard` |
| `phone` | 2 calls at a time and 3 in all, 2 refresh requests, 2 sign-ins, 1 incident, a failing database among them (235,581 states) | the pair is in step, nobody is signed out without cause, every call settles |
| `accounts` | 2 requests, 2 invitations, 1 reset link, 3 passwords, 3 sessions | sessions of replaced passwords end, a token sets one password |
| `queues` | 1 estimate with link and invoice, 2 POs, 4 crowds of other rows (158,718 states) | an approved job is listed by the one list that asks for its next step while that has room, blocked closeouts are traced in the same sense, no job falls between two queries, ready means ready, the screens agree, links lead somewhere, offers are accepted, rows can be cleared |

Bounds, and why they are enough for the question asked. Two requests in flight are enough
for every stale read here because each handler's later write depends on its own earlier
read only, and a slot is reused at once, so any number of requests run one after another
beside the first. Two links are the least with which re-issuing means anything; two
customers the least with which a race has a loser. One document suffices for OCR because
nothing but the choice of the oldest relates two documents; two attempts make the first,
the repeated and the last attempt distinct. One fault anywhere (`MaxFaults = 1`: a lost
call, a kill, a restart, a failed request, an early expiry, a deletion by the staff, a
failed read of the queue, or going offline) is what the phone's protocol is designed
against; two progress callbacks are the least of which one's write may land after the
other's; two files and no fault suffice for the loss in the store. `Uploads`, `Handlers`,
`Links` and `Pos` bound how many rows are ever created. For e-mail, two ticks and one
operator are the least with which ticks meet each other and an operator; an unparsable
message before a good one, with `MaxBatch = 2`, is the case in which it could stand in the
way; two POs let a repeated link choose differently. For reconciliation two receipts with
one label are the least that can be ambiguous or merged; the two lines of one document
that may be approved apart are the least with which one document has two keys (an operator
may approve one, another the other, at the same time or after an approval that died). A
selection of both lines at once multiplies the states beyond what can be run: how an
approval goes through several lines is the business of the `ocr` run, and the theorems
hold of every family of selections. Two snapshots are the least of which one supersedes
the other, and `MaxIncidents = 1` is one save, decision by hand, stamp, deletion or death
of a request beside two requests. For the phone a third call begins when two have settled,
the least with which a rotation is followed by another; for accounts three passwords and
three sessions let a session of the first survive two replacements or not. For the queues
a second PO is the least sibling: it gets a number and then a snapshot only, since what a
queue says of a PO depends on its siblings' numbers and reconciliations alone;
`StatusTargets` and `ReconOutcomes` have one value of each class that the rules
distinguish. The four `Crowds` of the run leave room for one row in one group of lists
(the query and the bucket of a next step, or those of an open reconciliation) and none
anywhere else, so that a property which needs another list than the one it names fails. To
keep the product of independent histories small, a PO has either a receipt or the timeline
events of `PoEventKinds`, and an estimate is deleted only while its link is open or was
never issued (`Next` of `WorkQueues` names these bounds). The proofs about the tables need
no such bound: they hold in every typed state.

`CHECK_DEADLOCK FALSE` stands in the runs where the system may really stop: `quotes` (a
deleted estimate without links), `ocr` (a deleted document), `reconcile`, `phone`,
`accounts` (every bound used up) and `queues` (everything deleted). Symmetry is used for
slots, links, customers, POs, invitations and receipts in runs without liveness
properties, which treat these values alike.

Fairness. `OcrPipeline`: a tick that can do something does it (the timer keeps calling
the route), a tick that is again and again on the point of claiming gets to do it (the
update is retried by later ticks: strong fairness on `ClaimWrite`, since other ticks'
crashes are not assumed away), and leases run out. Nothing is assumed of operators or of
crashes. `MobileUpload`: AsyncStorage serves its calls, the 22 s timer and reconnects
restart the drain loop, the server finishes what it serves, completed reservations
expire and backoffs end. Nothing is assumed of the person. `EmailIngest`: the timer keeps
starting ticks, ticks and operators' actions under way go on, leases run out; faults are
bounded, and nothing is assumed of what operators start. `MobileSession`: a call in
progress takes its next step (fetch settles, storage answers) and the server serves the
refresh requests it has; nothing is assumed of the person, the clock or the incidents.
The other modules state safety only and need no fairness.

## 5. The proofs

The constants are arbitrary: any number of slots, links, POs, uploads, handlers, jobs,
tokens and sessions, and any set of faults. The only assumptions are the named `ASSUME`s
of the modules (typing, and that the *No...* values are not members), which TLC evaluates
in the runs. Where a run's properties do not include the type invariant, a theorem has it.

`EstimateLifecycleProofs`. The invariant is
`IInv == TypeOK /\ RequestsInv /\ AnswersInv /\ RevocationInv /\ ApprovalInv /\ InvoiceInv
/\ TimelineMatchesAnswers /\ ToldTheTruth /\ ActiveLinksOverlapped`. The listed
properties are not inductive by themselves:
- `ActiveLinksOverlapped` needs what an issuing transaction remembers: `RevocationInv`
  says that what its revoke statement saw will be revoked by its commit or has been, and
  `RequestsInv` that its token is its own and has no row yet;
- `ToldTheTruth` and `TimelineMatchesAnswers` need `AnswersInv`: answers and open
  responses belong to committed links, so a fresh row cannot erase an answer;
- `NothingBeforeApproval` needs `ApprovalInv`: each request past an APPROVED guard ran
  after an approval, however much has happened since;
- `InvoiceFinal` needs `InvoiceInv`, since paying happens by id after an earlier read.

One lemma per group of actions shows that it preserves the invariant;
`InductiveInvariant` joins them. `QuoteDecisionRefined` maps each step to a step of
`QuoteDecision` or a stutter: `IssueCommit` to `IssueLink`, `RevokeWrite` to
`WithdrawLinks`, `RespondRecord` to `Decide`.

The same module proves what the documentation says of finalize, unfinalize and the totals
for requests that do not overlap (`ASSUME Isolated`, the constant of the `isolated` run).
`SerialInv` joins `OneAtATime` (at most one request is under way), `ReadsStillTrue` (what it
read of the estimate, its lines and its POs still holds) and `TotalsMatchLines`.
`SerialFinalize` and `SerialFinalizedStands` follow step by step from `ReadsStillTrue`: what
a handler decided on is true when it writes. Without `Isolated` each of the three
statements is false (section 6), so the hypothesis is the content of these theorems.

`MobileUploadProofs`, first part: the upload server, alone and for any client. `ServerInv`
joins the two properties with `CrowdInv` (two handlers on one upload have been noticed)
and `AloneInv` (a handler that has an upload to itself works on an open reservation and
what it inspected is complete). The commit of complete is guarded by `completedAt IS
NULL`, which makes `OneAttachmentPerUpload` true without any condition; that the bytes are
there needs `AloneInv`, and is false for crowded uploads, which is why the property says
so.

`MobileUploadProofs`, second part: the phone's queue as that client. Each step of the
composition is a step of the server or leaves its variables alone (`QueueUsesServer`), so
the server's invariant carries over. `PhoneInv` ties the drain loop to the request it
waits for (`WaitInv`): a positive reply to complete comes from a marked reservation, so a
job is removed only when it is recorded (`NothingDroppedByTheDrain`).

`EmailIngestProofs`. `IInv` joins the properties with `WorkInv` (past the insert a handler's
row is stored), `OverlapInv` (two handlers on a row have been noticed), `AloneInv` (what a
handler read of a row it has to itself still holds) and `PromotionInv` (undisturbed, a
promoted attachment belongs to the handler that is past it, or to an e-mail already on a
timeline). `StepKeeps` reduces a step of one handler to that handler and the row it
touches; `StepLeaves`, `StepStays` and `StepWrites` cover the steps that leave the row,
stay at it or write it. `DecisionsStand` follows step by step from `AloneInv`. Only
`OneTickPerMessage` and `SeenOnlyWhenStored` hold without a condition: the unique index
and the order of insert and flag carry them, and the lease is not needed.

`OcrPipelineProofs`. `IInv` joins the types with `CapInv` (the claims under way are counted
against the attempt limit before they are written, which is why `AttemptCap` allows
|Workers| - 1 more than `OCR_MAX_ATTEMPTS`), `OverlapInv` (two workers at a document have
been noticed), `AloneInv` (a worker that has a document to itself finds it as it left it,
so no approval is open on it), `BatchInv` (such a document has the lines of one attempt,
and a price only from them) and `PersistInv` (a line that an approval passed and did not skip is
recorded).
`DecisionsKept` and `OverlapsExplained` follow from `AloneInv`, `ReceiptOnce` from
`BatchInv`. `AttemptsBounded`, `PriceOnce` and `ConfirmComplete` hold without a condition on
overlaps: the row lock of the increment and the unique index of the price history carry them.

`ReconciliationProofs`. `IInv` joins the types and two of the properties with what holds
them up:
- `SnapshotsInv`: a snapshot under way has no rows or alerts and saw only committed ones,
  which carries `OpenAlertsAreCurrent` through a commit; no two snapshots have the same
  included lines for their key (the unique index);
- `CommitsApart` and `RequestsInv`: each open transaction writes a snapshot of its own, an
  approval has each line it passed and did not skip on record, its snapshot reads them
  unless the document is deleted, and on its way to confirm it has its snapshot or lost
  its PO, a merge knows the pair it keeps and the receipt row it deletes, and a status
  about to be written is that of the rows unless the snapshot is `rough`;
- `RowsInv`: a row that began without a PO line keeps its receipt, so of all rows a merge
  deletes only such a one, whose receipt it hands on;
- `ConfirmedInv`: a confirmed document has a snapshot whose key is of its lines, however
  its approvals overlapped.

`StatusMatchesRows` and `ConfirmedIsReconciled` are not inductive without these.

`MatchInv` is a second invariant, on top of `IInv`, about what the matcher is given and what it
returns. `LinesInv`: the lines of the PO, and those each request holds, are finitely many and
have ids of their own, although a save may be overtaken by a snapshot that holds the lines
before it. `ReceiptsInv`: no two receipts were recorded at the same moment, and requests hold
recorded ones only. `RowsApart`: no row id, no PO line and no receipt is on two rows of a
snapshot. It is needed because the matcher gives each line and each receipt its own row only if
it pairs them well, and because a merge finds its two rows by what it read of them earlier: the
row it keeps and the row it deletes must be the only ones they can be (`MergedApart`). That the
matcher pairs well is `PairsMatch`, for any lists: `RanksFill` proves that in a finite set with a
strict total order the numbers of smaller elements are exactly 0 to n - 1, each once, so that
lines and receipts of a label that is borne equally often on both sides meet rank by rank, one to
one; `RowsCover` follows them through the rest of `SnapshotRows`. With
`RowsNeverShared`, `LinesStay` has the action property `LinesAccountedFor`: at its commit a
snapshot has exactly one row for each line it read, and from then on exactly one for each
receipt, unless a merge that read an older pair writes its receipt over another's.

`DismissalStands` is a step property: only alerts that are OPEN
are superseded, and a dismissal is written whatever became of the alert.
`SpendAlertBoardRefined` maps each action as section 3 says; `SnapshotCommit` closes, of
all runs, those its transaction saw, because the alerts of a run under way are none. The
assumptions about constants are their typing, that no line of a save is the value that stands
for no line, and that the sort orders of a save's lines are finitely many natural numbers.

`WorkQueuesProofs`. `TypeOK` is inductive as it stands; with it the others are facts about
the tables, true in every typed state. `ReadyListIsHonest` unfolds the overlay and the
gates: all linked POs have numbers, so only an open reconciliation of a sibling can close
the gates. `ApprovedNeverLost` follows the cases of the gates (no PO, missing number, open
reconciliation, ready) to the row each leads to, for every crowd of other rows in which
the query and the bucket of that row have room; of the other lists nothing is assumed.
`BlockedCloseoutTraced` does the same for each PO with an open reconciliation.
`JobNeverBetweenQueries` is an action property: for each mixture of queries that saw the
tables before a step and queries that saw them after it, one of the queries that name the
job's next step still finds it. While the invoice stays as it is, one query finds the job
by it before and after the step (no PO, no invoice, unpaid); where an invoice is created
or paid, the job is among the candidates on both sides, which do not look at the invoice.
A first or last PO, and an invoice drawn while a number is missing, hand the job from one
query to another; `JobStaysListed` excepts them, and there the page may miss the job until
it is loaded again. `ScreensNeverDisagree` compares, estimate by estimate and PO by PO,
each derivation with the rows, by the cases of the gates and of the lifecycle. `LinksLead`
goes through the pages: each link names a row that its page's query has just found, or is
one of the stale links that `StaleLink` lists; that a PO with a receipt, a snapshot or
alerts has a row, live or deleted, comes from the types.

`OffersAreAccepted` and `RowsCanBeCleared` say `ENABLED`, which TLAPS does not reason
about. `OffersHaveAStep` and `RowsHaveATask` prove what they say by giving the step.
`Used(c)` sets each variable to a function of the present tables and the control, so such
a step always exists, and in every typed state it is a step of the handler (`Take(c)`),
for every page that is found and every control on it; for a row of the queues, `TaskPage`
and `TaskControl` name the page and the control by which somebody works it off, and the
step takes the row off the list (`Served`). For Create PO the handler is the conversion
with its APPROVED guard, so the page must know that guard. `RowsCanBeCleared` and
`RowsHaveATask` speak of all rows that may be shown (`Alone`). The exceptions are those of
the properties. What is left to the reader is the inference from "this step exists and is
a `Take(c)`" to `ENABLED Take(c)`. The assumptions are that the estimate is not a PO and
that a snapshot comes out with some status.

`AccountsProofs`. `IInv` joins the two properties with `AccountFirst` (an account has a
password and comes before any reset link), `Counted` (a token is used exactly when it set
a password, and not more often than passwords were set), `Held` (what a request in
progress holds) and `Alone` (two submissions of one token, or one of a used token, have
been noted). `SubmittedIInv` and `RedeemedIInv` are shared by invitations and resets; a
reset and a change end what `RevokedIsTyped` says they end. `OldPasswordEnds` needs only
the order of the two numbers `ended <= pw`; `TokenSetsOnePassword` needs `Alone`.

`MobileSessionProofs`. `IInv` has two parts. `Always` holds whatever happens: what each
call may be at (`Shapes`), the lock belongs to the one call that refreshes (`Locked`), a
request on the server to a call that waits for it (`Serving`), and no token is newer than
its row (`AllIssued`, which makes a new session or rotation fresh). `Calm` holds while
`disturbed` is false: a sign-in stores its pair with the phone to itself but for calls
already sent with that pair (`SignInAlone`), a rotation continues the session of the
stored pair (`RotationsContinue`), the login screen is shown without tokens (`Screens`),
and a call on its way to clear the tokens has a cause, namely a session that is over or a
sign-out (`Causes`). `RowsGrow` and `RefreshThrowsKeeps` show that a refresh which fails
in the database keeps `Always`; it disturbs, so `Calm` has nothing to say of it.
`PairInStep` and `SignedOutForCause` are not inductive without these: a rotation is in
step only because nothing else can rotate or sign in beside it, and a repeated 401 is a
cause only because the call was repeated under a token of the stored session. `CallMoves`,
`FlightFails` and `LockMoves` cover the handlers that share a shape; the others have a
lemma each.

Only model-checked: liveness (`QueueDrains`, `QueueDelivers`, `MailIsStored`,
`CallsSettle`), which rests on fairness, and `OffersAreAccepted` and `RowsCanBeCleared` as
they are written, with ENABLED; TLAPS reaches neither. Nor does it reach induction over data:
what the tolerances, the aggregate status and the amounts of `ReconMatch` compute is checked on
instances; the theorems use of them only that they are functions of the lines and receipts read.

## 6. What is not modelled, and why

Formatting, layout, mail templates and read-only tables have no state. Audit rows are
written best-effort after the transactions they describe and nothing reads them back.
Tenancy and roles are checked at the head of each handler by one function of the session
and do not interact with the races studied here: one tenant is modelled. Magic-byte
sniffing, Tesseract and the line parsers are functions from files to lines, abstracted to
their outcome, and so is what the e-mail matcher compares. Prices read from the text of an
e-mail go through the same `persist` function as those of receipts. The login rate limit
is a counter per window in the memory of one process. Of the dashboard, staleness labels, the
filters a user may choose (mine, stale, blocked, unresolved) and the queue of unmatched e-mails
are left out, and so are the limits of the flow lists (`get-estimate-po-flow.ts`,
`get-dashboard-estimate-invoice-flow.ts`, `get-quote-attention.ts`), which no page asks for. A
write of the phone's queue that throws ends the operation that made it and is not modelled.

Two things the code does that the properties state as exceptions, because nothing in the
repository promises otherwise: a receipt line whose label is too short is skipped without a
message while its document is CONFIRMED (`persist.ts:105`), and a job may be missing from the
dashboard when newer rows fill the list it belongs to.

*Sequence numbers*: the greatest number is read and the row inserted in one transaction
under one advisory lock per tenant, so the model would be one atomic step; what remains in
question is the order of strings past 999999. *Pricing* and the allocation of a sell price
to invoice lines are integer arithmetic of one call without state, covered by unit tests;
where a model needs a price, a line set stands for it. *The deploy queue* is operations
tooling that the application never calls. *The catalog pages* edit items one row at a time.

Four statements of the documentation are refuted by the models of `EstimateLifecycle` and
`OcrPipeline` when requests overlap or a worker dies, without a run of their own: with
`Isolated = FALSE`, `FinalizedOnlyWhenGatesHold` (finalize writes from stale reads,
R-EST-04), `FinalizedStands` (an answer is recorded on a FINALIZED estimate) and
`TotalsMatchLines` (the lines of two saves, the totals of one) have counterexamples; and a
worker that dies on its last attempt leaves its document PROCESSING with no attempts left,
which the claim's condition never takes up (R-OCR-02).
