----------------------------- MODULE OcrPipeline -----------------------------
(***************************************************************************)
(* Receipt OCR: the OcrDocument rows of PO attachments, the ticks that     *)
(* claim and process them (lib/ocr/worker.ts), and the operators who       *)
(* approve or reject what was read (admin/ocr-review/actions.ts).          *)
(*                                                                         *)
(* A worker is one tick in progress; ticks come from an external timer and *)
(* may overlap.  Each await on the database ends a step.  A document is a  *)
(* number, in the order of createdAt.  Attempt numbers are unique for a    *)
(* document (the increment holds the row lock), so the lines an attempt    *)
(* inserts are the batch of that number.                                   *)
(***************************************************************************)
EXTENDS Naturals, FiniteSets

CONSTANTS Docs,           \* OcrDocument rows, by createdAt
          Workers,        \* ticks in progress at once
          Reviewers,      \* approvals in progress at once
          Items,          \* the lines of a receipt
          NoDoc,
          MaxAttempts,    \* OCR_MAX_ATTEMPTS
          WorkersDie      \* TRUE: a tick may end without writing its result

ASSUME OcrConstants ==
  /\ Docs \subseteq Nat /\ NoDoc \notin Docs
  /\ IsFiniteSet(Workers) /\ Workers # {}
  /\ MaxAttempts \in Nat \ {0}
  /\ WorkersDie \in BOOLEAN

VARIABLES doc,          \* the OcrDocument rows
          lines,        \* the batches of OcrLineItem rows of each document
          prices,       \* VendorPriceHistory rows, counted by the line they record
          worker,       \* ticks in progress
          review,       \* approvals in progress
          overlapped    \* history: two workers were busy with the document at once

vars == <<doc, lines, prices, worker, review, overlapped>>

-----------------------------------------------------------------------------
OcrJobStatus == {"PENDING", "PROCESSING", "REVIEW_REQUIRED", "CONFIRMED", "REJECTED", "FAILED"}
Decided == {"CONFIRMED", "REJECTED"}

\* The claims that read an attemptCount below the limit may all increment it.
AttemptLimit == MaxAttempts - 1 + Cardinality(Workers)
Attempts == 1..AttemptLimit
Line == Docs \X Attempts \X Items

OcrDocument == [status : OcrJobStatus \cup {"none", "deleted"}, attempts : Nat,
                lease : {"none", "held", "expired"}]      \* lockedUntil

IdleWorker == [pc |-> "idle", doc |-> NoDoc, attempt |-> 0, sees |-> {}]
IdleReview == [pc |-> "idle", doc |-> NoDoc, named |-> {}, todo |-> {}]

TypeOK ==
  /\ doc \in [Docs -> OcrDocument]
  /\ lines \in [Docs -> SUBSET Attempts]
  /\ prices \in [Line -> Nat]
  /\ worker \in [Workers -> [pc : {"idle", "claim", "run", "insert"},
                             doc : Docs \cup {NoDoc}, attempt : Attempts \cup {0},
                             sees : SUBSET Attempts]]
  /\ review \in [Reviewers -> [pc : {"idle", "count", "persist"}, doc : Docs \cup {NoDoc},
                               named : SUBSET Line, todo : SUBSET Line]]
  /\ overlapped \in [Docs -> BOOLEAN]

Init ==
  /\ doc = [d \in Docs |-> [status |-> "none", attempts |-> 0, lease |-> "none"]]
  /\ lines = [d \in Docs |-> {}]
  /\ prices = [l \in Line |-> 0]
  /\ worker = [w \in Workers |-> IdleWorker]
  /\ review = [r \in Reviewers |-> IdleReview]
  /\ overlapped = [d \in Docs |-> FALSE]

Exists(d) == doc[d].status \notin {"none", "deleted"}
Busy(w, d) == worker[w].pc # "idle" /\ worker[w].doc = d
Release(w) == worker' = [worker EXCEPT ![w] = IdleWorker]

-----------------------------------------------------------------------------
(* enqueueOcrJobForPoAttachment, deletePoAttachment *)

\* poAttachmentId is unique: a second enqueue of the attachment changes nothing.
Enqueue(d) ==
  /\ doc[d].status = "none"
  /\ \A e \in Docs : e < d => doc[e].status # "none"
  /\ doc' = [doc EXCEPT ![d].status = "PENDING"]
  /\ UNCHANGED <<lines, prices, worker, review, overlapped>>

\* onDelete: Cascade takes the document and its lines along.
AttachmentDeleted(d) ==
  /\ Exists(d)
  /\ doc' = [doc EXCEPT ![d] = [status |-> "deleted", attempts |-> 0, lease |-> "none"]]
  /\ lines' = [lines EXCEPT ![d] = {}]
  /\ UNCHANGED <<prices, worker, review, overlapped>>

\* Four minutes after the claim.
LeaseExpires(d) ==
  /\ doc[d].lease = "held"
  /\ doc' = [doc EXCEPT ![d].lease = "expired"]
  /\ UNCHANGED <<lines, prices, worker, review, overlapped>>

-----------------------------------------------------------------------------
(* claimNextOcrDocument *)

\* Mutant: the WHERE without the status.
ClaimableInAnyStatus(d) ==
  /\ Exists(d) /\ doc[d].lease # "held"
  /\ doc[d].attempts < MaxAttempts
\* Mutant: an expired lease is not taken over.
ClaimableWhenPending(d) ==
  /\ doc[d].attempts < MaxAttempts
  /\ doc[d].status = "PENDING"

Claimable(d) ==
  /\ doc[d].attempts < MaxAttempts
  /\ \/ doc[d].status = "PENDING"
     \/ doc[d].status = "PROCESSING" /\ doc[d].lease = "expired"

\* findFirst, oldest document first.
ClaimRead(w, d) ==
  /\ worker[w].pc = "idle"
  /\ Claimable(d)
  /\ \A e \in Docs : Claimable(e) => d <= e
  /\ worker' = [worker EXCEPT ![w] = [IdleWorker EXCEPT !.pc = "claim", !.doc = d]]
  /\ overlapped' = [overlapped EXCEPT ![d] = @ \/ \E v \in Workers : Busy(v, d)]
  /\ UNCHANGED <<doc, lines, prices, review>>

\* The update names the document by id alone.
ClaimWrite(w) ==
  /\ worker[w].pc = "claim"
  /\ LET d == worker[w].doc
     IN IF Exists(d)
        THEN /\ doc' = [doc EXCEPT ![d] = [status |-> "PROCESSING", lease |-> "held",
                                           attempts |-> @.attempts + 1]]
             /\ worker' = [worker EXCEPT ![w].pc = "run", ![w].attempt = doc[d].attempts + 1]
        ELSE Release(w) /\ UNCHANGED doc
  /\ UNCHANGED <<lines, prices, review, overlapped>>

-----------------------------------------------------------------------------
(* processOcrDocument, failJob *)

\* Extraction succeeded; the transaction's deleteMany sees the lines committed by now.
ExtractOk(w) ==
  /\ worker[w].pc = "run"
  /\ worker' = [worker EXCEPT ![w].pc = "insert", ![w].sees = lines[worker[w].doc]]
  /\ UNCHANGED <<doc, lines, prices, review, overlapped>>

LinesReplaced(w) == (lines[worker[w].doc] \ worker[w].sees) \cup {worker[w].attempt}

\* The inserts, the status and the commit; without a document the transaction and then
\* failJob throw.
InsertLines(w) ==
  /\ worker[w].pc = "insert"
  /\ LET d == worker[w].doc
     IN IF Exists(d)
        THEN /\ lines' = [lines EXCEPT ![d] = LinesReplaced(w)]
             /\ doc' = [doc EXCEPT ![d].status = "REVIEW_REQUIRED", ![d].lease = "none"]
        ELSE UNCHANGED <<lines, doc>>
  /\ Release(w)
  /\ UNCHANGED <<prices, review, overlapped>>

\* failJob: no attachment, an unreadable file, or an error in the transaction.
FailJob(w) ==
  /\ worker[w].pc \in {"run", "insert"}
  /\ LET d == worker[w].doc
         status == IF worker[w].attempt >= MaxAttempts THEN "FAILED" ELSE "PENDING"
     IN doc' = IF Exists(d) THEN [doc EXCEPT ![d].status = status, ![d].lease = "none"] ELSE doc
  /\ Release(w)
  /\ UNCHANGED <<lines, prices, review, overlapped>>

\* The process restarts, or the database refuses failJob's update too.
WorkerDies(w) ==
  /\ WorkersDie
  /\ worker[w].pc # "idle"
  /\ Release(w)
  /\ UNCHANGED <<doc, lines, prices, review, overlapped>>

-----------------------------------------------------------------------------
(* approveOcrDocumentAction, rejectOcrDocumentAction *)

LinesOf(d) == {l \in Line : l[1] = d /\ l[2] \in lines[d]}

ApproveRead(r, d) ==
  /\ review[r].pc = "idle"
  /\ doc[d].status = "REVIEW_REQUIRED"
  /\ review' = [review EXCEPT ![r] = [IdleReview EXCEPT !.pc = "count", !.doc = d]]
  /\ UNCHANGED <<doc, lines, prices, worker, overlapped>>

\* The submitted lines are counted among those of the document.
ApproveCount(r, included) ==
  /\ review[r].pc = "count"
  /\ included # {} /\ included \subseteq LinesOf(review[r].doc)
  /\ review' = [review EXCEPT ![r].pc = "persist", ![r].named = included, ![r].todo = included]
  /\ UNCHANGED <<doc, lines, prices, worker, overlapped>>

\* Mutant: no unique index on ocrLineItemId and dedupeKey.
NeverRecorded(l) == FALSE

Recorded(l) == prices[l] > 0

\* persistApprovedOcrPriceLines, one line.  The operator edits the labels, so any of them may
\* have less than two characters when normalized: that line is skipped.  A duplicate is
\* passed over; a line that is gone breaks the foreign key and ends the approval with an error.
PersistLine(r, l) ==
  /\ review[r].pc = "persist"
  /\ l \in review[r].todo
  /\ LET next == [review EXCEPT ![r].todo = @ \ {l}]
     IN \/ review' = [next EXCEPT ![r].named = @ \ {l}] /\ UNCHANGED prices
        \/ Recorded(l) /\ review' = next /\ UNCHANGED prices
        \/ /\ ~Recorded(l) /\ l \in LinesOf(review[r].doc)
           /\ review' = next /\ prices' = [prices EXCEPT ![l] = @ + 1]
        \/ /\ ~Recorded(l) /\ l \notin LinesOf(review[r].doc)
           /\ review' = [review EXCEPT ![r] = IdleReview] /\ UNCHANGED prices
  /\ UNCHANGED <<doc, lines, worker, overlapped>>

\* Mutant: the document is confirmed before its lines are persisted.
LinesCounted(r) == review[r].pc = "persist"

LinesPersisted(r) == review[r].pc = "persist" /\ review[r].todo = {}

\* The last update names the document by id alone.
Confirm(r) ==
  /\ LinesPersisted(r)
  /\ LET d == review[r].doc
     IN doc' = IF Exists(d) THEN [doc EXCEPT ![d].status = "CONFIRMED"] ELSE doc
  /\ review' = [review EXCEPT ![r] = IdleReview]
  /\ UNCHANGED <<lines, prices, worker, overlapped>>

\* The selection no longer matches, the process restarts, or two approvals create the same
\* catalog item and one of them throws.
ApproveAborts(r) ==
  /\ review[r].pc # "idle"
  /\ review' = [review EXCEPT ![r] = IdleReview]
  /\ UNCHANGED <<doc, lines, prices, worker, overlapped>>

Reject(d) ==
  /\ doc[d].status = "REVIEW_REQUIRED"
  /\ doc' = [doc EXCEPT ![d].status = "REJECTED", ![d].lease = "none"]
  /\ UNCHANGED <<lines, prices, worker, review, overlapped>>

-----------------------------------------------------------------------------
WorkerStep(w) ==
  \/ \E d \in Docs : ClaimRead(w, d)
  \/ ClaimWrite(w) \/ ExtractOk(w) \/ InsertLines(w) \/ FailJob(w)

Next ==
  \/ \E w \in Workers : WorkerStep(w) \/ WorkerDies(w)
  \/ \E d \in Docs : Enqueue(d) \/ AttachmentDeleted(d) \/ LeaseExpires(d) \/ Reject(d)
  \/ \E r \in Reviewers :
       \/ \E d \in Docs : ApproveRead(r, d)
       \/ \E included \in SUBSET Line : ApproveCount(r, included)
       \/ \E l \in Line : PersistLine(r, l)
       \/ Confirm(r) \/ ApproveAborts(r)

\* The timer keeps ticking, a tick that keeps finding a document gets to claim it in the
\* end, extraction ends one way or the other, and time passes.
Fairness ==
  /\ \A w \in Workers : /\ WF_vars(WorkerStep(w))
                        /\ SF_vars(ClaimWrite(w))
  /\ \A d \in Docs : WF_vars(LeaseExpires(d))

Spec == Init /\ [][Next]_vars /\ Fairness
-----------------------------------------------------------------------------
\* Overlapping claims may all have read a count below OCR_MAX_ATTEMPTS, so a document is
\* claimed at most |Workers| - 1 times beyond it, however many ticks, crashes and expired
\* leases there are.
AttemptCap == \A d \in Docs : doc[d].attempts <= AttemptLimit

\* A worker first meets another on a document only through a lease that ran out or through
\* two claims that overlap.
LeaseKeepsRunsApart ==
  [][\A d \in Docs : ~overlapped[d] /\ overlapped'[d] =>
       \/ doc[d].lease = "expired"
       \/ \E w \in Workers : Busy(w, d) /\ worker[w].pc = "claim"]_vars

\* A document that was confirmed or rejected goes back into the pipeline only if two workers
\* were busy with it: one that crashed and was relieved never does it.
DecisionUndoneOnlyByOverlap ==
  [][\A d \in Docs : doc[d].status \in Decided /\ doc'[d].status \notin Decided \cup {"deleted"}
       => overlapped[d]]_vars

\* An item of a receipt enters the price history from one attempt only, although every
\* attempt gives its lines new ids and the dedupe keys differ, unless workers overlapped.
ReceiptPricedOnce ==
  \A d \in Docs, i \in Items :
    Cardinality({a \in Attempts : prices[<<d, a, i>>] > 0}) > 1 => overlapped[d]

\* However many approvals of a document overlap, abort and are repeated, a line is recorded
\* in the price history once.
PriceOncePerLine == \A l \in Line : prices[l] <= 1

\* When an approval confirms the document, each line it included is in the price history,
\* whatever other approvals and workers did to the document since the lines were counted:
\* the exceptions are the lines it submitted with a label too short to be recorded, which
\* the code skips without an error (persist.ts, outcome 'skipped').
ConfirmRecordsEveryLine ==
  [][\A r \in Reviewers : Confirm(r) => \A l \in review[r].named : prices[l] > 0]_vars

\* A queued document is read, fails for good, is deleted, or uses up its attempts.
QueueDrains ==
  \A d \in Docs : doc[d].status = "PENDING" ~>
    \/ doc[d].status \notin {"PENDING", "PROCESSING"}
    \/ doc[d].attempts >= MaxAttempts

-----------------------------------------------------------------------------
(* The inductive invariant behind the safety properties *)

\* Who holds a document, and which attempt a worker past the claim runs as.
HoldsInv ==
  /\ \A w \in Workers : /\ worker[w].pc # "idle" => worker[w].doc \in Docs
                        /\ worker[w].pc \in {"run", "insert"} => worker[w].attempt \in Attempts
  /\ \A r \in Reviewers : review[r].pc # "idle" => review[r].doc \in Docs

Claiming(d) == {w \in Workers : worker[w].pc = "claim" /\ worker[w].doc = d}

\* The claims under way are counted already.
CapInv == \A d \in Docs : doc[d].attempts + Cardinality(Claiming(d)) <= AttemptLimit

\* Two workers that are busy with a document have been noticed.
OverlapInv ==
  \A d \in Docs, v, w \in Workers : v # w /\ Busy(v, d) /\ Busy(w, d) => overlapped[d]

\* Without an overlap, the document is as its worker or its approvals found it, or deleted.
AloneInv ==
  \A d \in Docs : ~overlapped[d] /\ doc[d].status # "deleted" =>
    /\ \A w \in Workers : Busy(w, d) =>
         IF worker[w].pc = "claim" THEN Claimable(d)
         ELSE doc[d].status = "PROCESSING" /\ doc[d].lease # "none"
    /\ \A r \in Reviewers : review[r].pc # "idle" /\ review[r].doc = d =>
         doc[d].status \in {"REVIEW_REQUIRED"} \cup Decided

\* Without an overlap, a document has the lines of one attempt, and only they have prices.
Batches(d) ==
  /\ \E a \in Attempts : /\ lines[d] \subseteq {a}
                         /\ \A b \in Attempts, i \in Items : Recorded(<<d, b, i>>) => b = a
  /\ doc[d].status \in {"none", "PENDING", "PROCESSING", "FAILED"} =>
       lines[d] = {} /\ \A b \in Attempts, i \in Items : ~Recorded(<<d, b, i>>)
  /\ doc[d].status = "deleted" => lines[d] = {}

BatchInv == \A d \in Docs : ~overlapped[d] => Batches(d)

\* What an approval has passed is recorded, unless it had no label to record it under.
PersistInv ==
  \A r \in Reviewers : review[r].pc = "persist" =>
    \A l \in review[r].named : l \in review[r].todo \/ Recorded(l)

IInv ==
  /\ TypeOK /\ HoldsInv /\ CapInv /\ OverlapInv /\ AloneInv /\ BatchInv
  /\ PersistInv /\ PriceOncePerLine
=============================================================================
