-------------------------- MODULE OcrPipelineProofs --------------------------
(***************************************************************************)
(* Theorems about the receipt OCR pipeline, for any number of documents,   *)
(* ticks, approvals, items and attempts.                                   *)
(***************************************************************************)
EXTENDS OcrPipeline, FiniteSetTheorems, TLAPS

LEMMA Limits ==
  ASSUME OcrConstants
  PROVE  /\ Cardinality(Workers) \in Nat /\ Cardinality(Workers) >= 1
         /\ MaxAttempts \in Nat /\ MaxAttempts >= 1
         /\ AttemptLimit \in Nat /\ AttemptLimit >= 1
         /\ Attempts = {n \in Nat : 1 <= n /\ n <= AttemptLimit}
<1>1. Cardinality(Workers) \in Nat /\ Cardinality(Workers) # 0
  BY FS_CardinalityType, FS_EmptySet DEF OcrConstants
<1>2. MaxAttempts \in Nat /\ MaxAttempts >= 1
  BY DEF OcrConstants
<1>3. AttemptLimit \in Nat /\ AttemptLimit >= 1
  BY <1>1, <1>2 DEF AttemptLimit
<1> QED  BY <1>1, <1>2, <1>3 DEF Attempts

\* Each worker claims one document at a time.
LEMMA ClaimingFinite ==
  ASSUME OcrConstants, NEW d
  PROVE  /\ IsFiniteSet(Claiming(d)) /\ Cardinality(Claiming(d)) \in Nat
         /\ Cardinality(Claiming(d)) <= Cardinality(Workers)
<1>1. Claiming(d) \in SUBSET Workers
  BY DEF Claiming
<1> QED  BY <1>1, FS_Subset, FS_CardinalityType DEF OcrConstants

LEMMA InitInv == OcrConstants /\ Init => IInv
<1> SUFFICES ASSUME OcrConstants, Init PROVE IInv
  OBVIOUS
<1>1. \A w \in Workers : worker[w].pc = "idle"
  BY DEF Init, IdleWorker
<1>2. \A r \in Reviewers : review[r].pc = "idle"
  BY DEF Init, IdleReview
<1>3. \A d \in Docs : doc[d].status = "none" /\ doc[d].attempts = 0 /\ lines[d] = {}
  BY DEF Init
<1>4. \A l \in Line : prices[l] = 0
  BY DEF Init
<1>5. TypeOK
  BY Limits DEF Init, TypeOK, OcrDocument, IdleWorker, IdleReview, Line
<1>6. HoldsInv /\ OverlapInv /\ AloneInv /\ PersistInv
  BY <1>1, <1>2 DEF HoldsInv, OverlapInv, AloneInv, PersistInv, Busy
<1>7. CapInv
  <2>1. \A d \in Docs : Claiming(d) = {}
    BY <1>1 DEF Claiming
  <2>2. \A d \in Docs : Cardinality(Claiming(d)) = 0
    BY <2>1, FS_EmptySet, Zenon
  <2>3. \A d \in Docs : doc[d].attempts + Cardinality(Claiming(d)) = 0
    BY <1>3, <2>2
  <2> QED  BY <2>3, Limits DEF CapInv
<1>8. BatchInv /\ PriceOncePerLine
  <2>1. \A l \in Line : ~Recorded(l)
    BY <1>4 DEF Recorded
  <2>2. 1 \in Attempts
    BY Limits
  <2>3. \A d \in Docs, b \in Attempts, i \in Items : ~Recorded(<<d, b, i>>)
    BY <2>1 DEF Line
  <2>4. ASSUME NEW d \in Docs PROVE Batches(d)
    BY <1>3, <2>2, <2>3 DEF Batches
  <2>5. PriceOncePerLine
    BY <1>4 DEF PriceOncePerLine
  <2> QED  BY <2>4, <2>5 DEF BatchInv
<1> QED  BY <1>5, <1>6, <1>7, <1>8 DEF IInv

-----------------------------------------------------------------------------
(* Types and what handlers hold *)

\* A worker about to claim finds room for one more attempt.
LEMMA ClaimHasRoom ==
  ASSUME OcrConstants, IInv, NEW w \in Workers, worker[w].pc = "claim"
  PROVE  /\ worker[w].doc \in Docs
         /\ doc[worker[w].doc].attempts + 1 \in Attempts
         /\ doc[worker[w].doc].attempts + Cardinality(Claiming(worker[w].doc)) <= AttemptLimit
         /\ Cardinality(Claiming(worker[w].doc)) >= 1
<1> DEFINE d == worker[w].doc
<1>1. d \in Docs
  BY DEF IInv, HoldsInv
<1>2. doc[d].attempts \in Nat
  BY <1>1 DEF IInv, TypeOK, OcrDocument
<1>3. Claiming(d) # {} /\ IsFiniteSet(Claiming(d)) /\ Cardinality(Claiming(d)) \in Nat
  BY ClaimingFinite DEF Claiming
<1>4. Cardinality(Claiming(d)) >= 1
  BY <1>3, FS_EmptySet
<1>5. doc[d].attempts + Cardinality(Claiming(d)) <= AttemptLimit
  BY <1>1 DEF IInv, CapInv
<1> HIDE DEF d
<1>6. doc[d].attempts + 1 \in Attempts
  BY <1>2, <1>3, <1>4, <1>5, Limits
<1> QED  BY <1>1, <1>4, <1>5, <1>6 DEF d
\* What the handlers write into a document row.
LEMMA DocWrites ==
  ASSUME TypeOK, NEW d \in Docs, NEW s \in OcrJobStatus
  PROVE  /\ [doc EXCEPT ![d].status = s] \in [Docs -> OcrDocument]
         /\ [doc EXCEPT ![d].status = s, ![d].lease = "none"] \in [Docs -> OcrDocument]
         /\ [doc EXCEPT ![d].lease = "expired"] \in [Docs -> OcrDocument]
<1>1. doc \in [Docs -> OcrDocument] /\ doc[d] \in OcrDocument
  BY DEF TypeOK
<1>2. /\ [doc[d] EXCEPT !.status = s] \in OcrDocument
      /\ [doc[d] EXCEPT !.status = s, !.lease = "none"] \in OcrDocument
      /\ [doc[d] EXCEPT !.lease = "expired"] \in OcrDocument
  BY <1>1 DEF OcrDocument
<1> QED  BY <1>1, <1>2

\* Every action leaves the variables and the handlers well formed.
LEMMA WorkerTypes ==
  ASSUME OcrConstants, IInv, NEW w \in Workers, WorkerStep(w) \/ WorkerDies(w)
  PROVE  TypeOK' /\ HoldsInv'
<1> USE DEF IInv
<1>1. /\ TypeOK /\ HoldsInv /\ 0 \notin Attempts
      /\ worker[w].sees \subseteq Attempts /\ worker[w].doc \in Docs \cup {NoDoc}
  BY Limits DEF TypeOK
<1>2. IdleWorker \in [pc : {"idle", "claim", "run", "insert"}, doc : Docs \cup {NoDoc},
                      attempt : Attempts \cup {0}, sees : SUBSET Attempts]
  BY DEF IdleWorker
<1> DEFINE WorkerRow == [pc : {"idle", "claim", "run", "insert"}, doc : Docs \cup {NoDoc},
                         attempt : Attempts \cup {0}, sees : SUBSET Attempts]
<1>11. worker[w] \in WorkerRow /\ \A d \in Docs : lines[d] \subseteq Attempts
  BY <1>1 DEF TypeOK
<1>10. ASSUME NEW s \in WorkerRow, worker' = [worker EXCEPT ![w] = s], s.doc \in Docs,
              s.attempt \in Attempts, doc' \in [Docs -> OcrDocument],
              UNCHANGED <<lines, prices, review, overlapped>>
       PROVE  TypeOK' /\ HoldsInv'
  BY <1>1, <1>10 DEF TypeOK, HoldsInv
<1>3. ASSUME NEW d \in Docs, ClaimRead(w, d) PROVE TypeOK' /\ HoldsInv'
  <2> DEFINE r == [IdleWorker EXCEPT !.pc = "claim", !.doc = d]
  <2>1. /\ r \in [pc : {"idle", "claim", "run", "insert"}, doc : Docs \cup {NoDoc},
                  attempt : Attempts \cup {0}, sees : SUBSET Attempts]
        /\ r.pc = "claim" /\ r.doc = d
    BY DEF IdleWorker
  <2>2. worker' = [worker EXCEPT ![w] = r] /\ UNCHANGED <<doc, lines, prices, review>>
    BY <1>3 DEF ClaimRead
  <2>3. overlapped' \in [Docs -> BOOLEAN]
    BY <1>1, <1>3 DEF ClaimRead, TypeOK
  <2> HIDE DEF r
  <2> QED  BY <1>1, <2>1, <2>2, <2>3 DEF TypeOK, HoldsInv
<1>4. CASE Release(w) /\ UNCHANGED <<prices, review, overlapped>>
           /\ doc' \in [Docs -> OcrDocument] /\ lines' \in [Docs -> SUBSET Attempts]
  BY <1>1, <1>2, <1>4 DEF Release, TypeOK, HoldsInv, IdleWorker
<1>5. CASE ClaimWrite(w)
  <2>1. CASE ~Exists(worker[w].doc)
    BY <1>1, <1>4, <1>5, <2>1 DEF ClaimWrite, TypeOK
  <2>2. CASE Exists(worker[w].doc)
    <3>1. PICK d \in Docs, n \in Attempts :
            worker[w].doc = d /\ doc[d].attempts + 1 = n /\ n \in Nat
      BY <1>5, ClaimHasRoom, Limits DEF ClaimWrite
    <3>2. /\ doc' = [doc EXCEPT ![d] = [status |-> "PROCESSING", lease |-> "held", attempts |-> n]]
          /\ worker' = [worker EXCEPT ![w].pc = "run", ![w].attempt = n]
          /\ UNCHANGED <<lines, prices, review, overlapped>>
      BY <1>5, <2>2, <3>1 DEF ClaimWrite
    <3>3. [status |-> "PROCESSING", lease |-> "held", attempts |-> n] \in OcrDocument
      BY <3>1 DEF OcrDocument, OcrJobStatus
    <3>4. doc' \in [Docs -> OcrDocument]
      BY <1>1, <3>2, <3>3 DEF TypeOK
    <3> DEFINE s == [worker[w] EXCEPT !.pc = "run", !.attempt = n]
    <3>5. s \in WorkerRow /\ s.doc = d /\ s.attempt = n
      BY <1>11, <3>1
    <3>6. worker' = [worker EXCEPT ![w] = s]
      BY <3>2
    <3> HIDE DEF s
    <3> QED  BY <1>10, <3>1, <3>2, <3>4, <3>5, <3>6
  <2> QED  BY <2>1, <2>2
<1>6. CASE ExtractOk(w)
  <2>1. /\ worker' = [worker EXCEPT ![w].pc = "insert", ![w].sees = lines[worker[w].doc]]
        /\ worker[w].doc \in Docs /\ worker[w].attempt \in Attempts
        /\ UNCHANGED <<doc, lines, prices, review, overlapped>>
    BY <1>1, <1>6 DEF ExtractOk, HoldsInv
  <2> DEFINE s == [worker[w] EXCEPT !.pc = "insert", !.sees = lines[worker[w].doc]]
  <2>2. s \in WorkerRow /\ s.doc \in Docs /\ s.attempt \in Attempts
    BY <1>11, <2>1
  <2>3. worker' = [worker EXCEPT ![w] = s] /\ doc' \in [Docs -> OcrDocument]
    BY <1>1, <2>1 DEF TypeOK
  <2> HIDE DEF s
  <2> QED  BY <1>10, <2>1, <2>2, <2>3
<1>7. CASE InsertLines(w)
  <2>1. worker[w].doc \in Docs /\ worker[w].attempt \in Attempts
    BY <1>1, <1>7 DEF InsertLines, HoldsInv
  <2>2. lines' \in [Docs -> SUBSET Attempts]
    BY <1>1, <1>7, <2>1 DEF InsertLines, LinesReplaced, TypeOK
  <2>3. doc' \in [Docs -> OcrDocument]
    <3>1. "REVIEW_REQUIRED" \in OcrJobStatus
      BY DEF OcrJobStatus
    <3>2. PICK d \in Docs : worker[w].doc = d
      BY <2>1
    <3>3. doc' = doc \/ doc' = [doc EXCEPT ![d].status = "REVIEW_REQUIRED", ![d].lease = "none"]
      BY <1>7, <3>2 DEF InsertLines
    <3>4. [doc EXCEPT ![d].status = "REVIEW_REQUIRED", ![d].lease = "none"] \in [Docs -> OcrDocument]
      BY <1>1, <3>1, DocWrites
    <3> QED  BY <1>1, <3>3, <3>4 DEF TypeOK
  <2> QED  BY <1>4, <1>7, <2>2, <2>3 DEF InsertLines
<1>8. CASE FailJob(w)
  <2>1. doc' \in [Docs -> OcrDocument]
    <3>1. PICK d \in Docs : worker[w].doc = d
      BY <1>1, <1>8 DEF FailJob, HoldsInv
    <3>2. PICK s \in OcrJobStatus :
            doc' = doc \/ doc' = [doc EXCEPT ![d].status = s, ![d].lease = "none"]
      <4>1. "FAILED" \in OcrJobStatus /\ "PENDING" \in OcrJobStatus
        BY DEF OcrJobStatus
      <4> QED  BY <1>8, <3>1, <4>1 DEF FailJob
    <3>3. [doc EXCEPT ![d].status = s, ![d].lease = "none"] \in [Docs -> OcrDocument]
      BY <1>1, DocWrites
    <3> QED  BY <1>1, <3>2, <3>3 DEF TypeOK
  <2> QED  BY <1>1, <1>4, <1>8, <2>1 DEF FailJob, TypeOK
<1>9. CASE WorkerDies(w)
  BY <1>1, <1>4, <1>9 DEF WorkerDies, TypeOK
<1> QED  BY <1>3, <1>5, <1>6, <1>7, <1>8, <1>9 DEF WorkerStep

LEMMA DocTypes ==
  ASSUME OcrConstants, IInv, NEW d \in Docs,
         Enqueue(d) \/ AttachmentDeleted(d) \/ LeaseExpires(d) \/ Reject(d)
  PROVE  TypeOK' /\ HoldsInv'
<1>1. /\ TypeOK /\ HoldsInv /\ UNCHANGED <<prices, worker, review, overlapped>>
      /\ lines' = lines \/ lines' = [lines EXCEPT ![d] = {}]
  BY DEF IInv, Enqueue, AttachmentDeleted, LeaseExpires, Reject
<1>2. doc' \in [Docs -> OcrDocument]
  <2>1. [status |-> "deleted", attempts |-> 0, lease |-> "none"] \in OcrDocument
    BY DEF OcrDocument
  <2>2. CASE AttachmentDeleted(d)
    BY <1>1, <2>1, <2>2 DEF TypeOK, AttachmentDeleted
  <2>3. CASE Enqueue(d) \/ LeaseExpires(d) \/ Reject(d)
    <3>1. \/ doc' = [doc EXCEPT ![d].status = "PENDING"]
          \/ doc' = [doc EXCEPT ![d].lease = "expired"]
          \/ doc' = [doc EXCEPT ![d].status = "REJECTED", ![d].lease = "none"]
      BY <2>3 DEF Enqueue, LeaseExpires, Reject
    <3>2. "PENDING" \in OcrJobStatus /\ "REJECTED" \in OcrJobStatus
      BY DEF OcrJobStatus
    <3>3. /\ [doc EXCEPT ![d].status = "PENDING"] \in [Docs -> OcrDocument]
          /\ [doc EXCEPT ![d].lease = "expired"] \in [Docs -> OcrDocument]
          /\ [doc EXCEPT ![d].status = "REJECTED", ![d].lease = "none"] \in [Docs -> OcrDocument]
      BY <1>1, <3>2, DocWrites
    <3> QED  BY <3>1, <3>3
  <2> QED  BY <2>2, <2>3
<1>3. lines' \in [Docs -> SUBSET Attempts]
  BY <1>1 DEF TypeOK
<1> QED  BY <1>1, <1>2, <1>3 DEF TypeOK, HoldsInv

LEMMA ReviewTypes ==
  ASSUME OcrConstants, IInv, NEW r \in Reviewers,
         \/ \E d \in Docs : ApproveRead(r, d)
         \/ \E included \in SUBSET Line : ApproveCount(r, included)
         \/ \E l \in Line : PersistLine(r, l)
         \/ Confirm(r) \/ ApproveAborts(r)
  PROVE  TypeOK' /\ HoldsInv'
<1> DEFINE Review == [pc : {"idle", "count", "persist"}, doc : Docs \cup {NoDoc},
                      named : SUBSET Line, todo : SUBSET Line]
<1>1. /\ TypeOK /\ HoldsInv /\ UNCHANGED <<lines, worker, overlapped>>
      /\ review \in [Reviewers -> Review] /\ IdleReview \in Review /\ IdleReview.pc = "idle"
  BY DEF IInv, TypeOK, IdleReview, ApproveRead, ApproveCount, PersistLine, Confirm, ApproveAborts
<1>2. ASSUME NEW s \in Review, review' = [review EXCEPT ![r] = s], s.pc # "idle" => s.doc \in Docs,
             prices' \in [Line -> Nat], doc' \in [Docs -> OcrDocument]
      PROVE  TypeOK' /\ HoldsInv'
  BY <1>1, <1>2 DEF TypeOK, HoldsInv
<1>3. ASSUME NEW d \in Docs, ApproveRead(r, d) PROVE TypeOK' /\ HoldsInv'
  <2> DEFINE s == [IdleReview EXCEPT !.pc = "count", !.doc = d]
  <2>1. s \in Review /\ s.doc = d
    BY DEF IdleReview
  <2> HIDE DEF s
  <2>2. review' = [review EXCEPT ![r] = s] /\ UNCHANGED <<doc, prices>>
    BY <1>3 DEF ApproveRead, s
  <2> QED  BY <1>1, <1>2, <2>1, <2>2 DEF TypeOK
<1>4. ASSUME NEW included \in SUBSET Line, ApproveCount(r, included) PROVE TypeOK' /\ HoldsInv'
  <2> DEFINE s == [review[r] EXCEPT !.pc = "persist", !.named = included, !.todo = included]
  <2>1. review[r] \in Review /\ review[r].doc \in Docs
    BY <1>1, <1>4 DEF ApproveCount, HoldsInv
  <2>2. s \in Review /\ s.doc \in Docs
    BY <2>1
  <2>3. review' = [review EXCEPT ![r] = s] /\ UNCHANGED <<doc, prices>>
    BY <1>4 DEF ApproveCount
  <2> HIDE DEF s
  <2> QED  BY <1>1, <1>2, <2>2, <2>3 DEF TypeOK
<1>5. ASSUME NEW l \in Line, PersistLine(r, l) PROVE TypeOK' /\ HoldsInv'
  <2> DEFINE s == [review[r] EXCEPT !.todo = @ \ {l}]
             t == [review[r] EXCEPT !.todo = @ \ {l}, !.named = @ \ {l}]
  <2>1. review[r] \in Review /\ review[r].doc \in Docs
    BY <1>1, <1>5 DEF PersistLine, HoldsInv
  <2>2. s \in Review /\ s.doc \in Docs /\ t \in Review /\ t.doc \in Docs
    BY <2>1
  <2>3. prices' = prices \/ prices' = [prices EXCEPT ![l] = @ + 1]
    BY <1>5 DEF PersistLine
  <2>4. prices' \in [Line -> Nat] /\ doc' = doc
    BY <1>1, <1>5, <2>3 DEF TypeOK, PersistLine
  <2>5. \/ review' = [review EXCEPT ![r] = s] \/ review' = [review EXCEPT ![r] = t]
        \/ review' = [review EXCEPT ![r] = IdleReview]
    BY <1>1, <1>5 DEF PersistLine
  <2> HIDE DEF s, t
  <2> QED  BY <1>1, <1>2, <2>2, <2>4, <2>5 DEF TypeOK
<1>6. CASE Confirm(r) \/ ApproveAborts(r)
  <2>1. review' = [review EXCEPT ![r] = IdleReview] /\ prices' = prices
    BY <1>6 DEF Confirm, ApproveAborts
  <2>2. doc' \in [Docs -> OcrDocument]
    <3>1. CASE Confirm(r)
      <4>1. PICK d \in Docs : review[r].doc = d
        BY <1>1, <3>1 DEF Confirm, LinesPersisted, HoldsInv
      <4>2. doc' = doc \/ doc' = [doc EXCEPT ![d].status = "CONFIRMED"]
        BY <3>1, <4>1 DEF Confirm
      <4>3. [doc EXCEPT ![d].status = "CONFIRMED"] \in [Docs -> OcrDocument]
        BY <1>1, DocWrites DEF OcrJobStatus
      <4> QED  BY <1>1, <4>2, <4>3 DEF TypeOK
    <3> QED  BY <1>1, <1>6, <3>1 DEF TypeOK, ApproveAborts
  <2> QED  BY <1>1, <1>2, <2>1, <2>2 DEF TypeOK
<1> QED  BY <1>3, <1>4, <1>5, <1>6
-----------------------------------------------------------------------------
(* Attempts and overlaps *)

\* After the claim is read, a worker only goes on with its document or leaves it.
LEMMA GoesOnOrLeaves ==
  ASSUME IInv, NEW w \in Workers,
         ClaimWrite(w) \/ ExtractOk(w) \/ InsertLines(w) \/ FailJob(w) \/ WorkerDies(w)
  PROVE  /\ overlapped' = overlapped /\ review' = review /\ prices' = prices
         /\ worker[w].pc # "idle" /\ worker'[w].pc \in {"idle", "run", "insert"}
         /\ worker'[w].pc = "idle" \/ worker'[w].doc = worker[w].doc
         /\ \A v \in Workers \ {w} : worker'[v] = worker[v]
<1>1. /\ worker \in [Workers -> [pc : {"idle", "claim", "run", "insert"},
                                 doc : Docs \cup {NoDoc}, attempt : Attempts \cup {0},
                                 sees : SUBSET Attempts]]
      /\ overlapped' = overlapped /\ review' = review /\ prices' = prices
  BY DEF IInv, TypeOK, ClaimWrite, ExtractOk, InsertLines, FailJob, WorkerDies
<1>2. CASE Release(w) /\ worker[w].pc # "idle"
  BY <1>1, <1>2 DEF Release, IdleWorker
<1>3. CASE ClaimWrite(w)
  BY <1>1, <1>2, <1>3 DEF ClaimWrite
<1>4. CASE ExtractOk(w)
  BY <1>1, <1>4 DEF ExtractOk
<1> QED  BY <1>2, <1>3, <1>4 DEF InsertLines, FailJob, WorkerDies

\* A claim that is read adds one worker to those at the document.
LEMMA ClaimReadAdds ==
  ASSUME IInv, NEW w \in Workers, NEW d \in Docs, ClaimRead(w, d)
  PROVE  /\ worker[w].pc = "idle" /\ worker'[w].pc = "claim" /\ worker'[w].doc = d
         /\ \A v \in Workers \ {w} : worker'[v] = worker[v]
         /\ UNCHANGED <<doc, lines, prices, review>>
         /\ \A e \in Docs : overlapped'[e] <=> overlapped[e] \/ (e = d /\ \E v \in Workers : Busy(v, d))
  BY DEF IInv, TypeOK, ClaimRead, IdleWorker

\* The other steps leave the workers alone.
LEMMA WorkersAlone ==
  ASSUME Next, \A w \in Workers : ~WorkerStep(w) /\ ~WorkerDies(w)
  PROVE  worker' = worker /\ overlapped' = overlapped
  BY DEF Next, Enqueue, AttachmentDeleted, LeaseExpires, Reject, ApproveRead, ApproveCount,
         PersistLine, Confirm, ApproveAborts

\* What a step of another kind does to a document: nothing, or it is enqueued, deleted,
\* rejected or confirmed, or its lease runs out.
LEMMA DocSteps ==
  ASSUME IInv, Next, \A w \in Workers : ~WorkerStep(w) /\ ~WorkerDies(w), NEW d \in Docs
  PROVE  /\ doc'[d].attempts \in {0, doc[d].attempts}
         /\ \/ doc'[d] = doc[d] /\ lines'[d] = lines[d]
            \/ /\ doc[d].status = "none" /\ doc'[d].status = "PENDING"
               /\ doc'[d].attempts = doc[d].attempts /\ lines'[d] = lines[d]
            \/ doc'[d].status = "deleted" /\ lines'[d] = {}
            \/ /\ doc[d].lease = "held" /\ doc'[d].lease = "expired" /\ lines'[d] = lines[d]
               /\ doc'[d].status = doc[d].status /\ doc'[d].attempts = doc[d].attempts
            \/ /\ doc[d].status = "REVIEW_REQUIRED" /\ doc'[d].status = "REJECTED"
               /\ lines'[d] = lines[d]
            \/ /\ \E r \in Reviewers : review[r].pc # "idle" /\ review[r].doc = d
               /\ Exists(d) /\ doc'[d].status = "CONFIRMED" /\ lines'[d] = lines[d]
<1>1. /\ doc \in [Docs -> OcrDocument] /\ doc[d] \in OcrDocument
      /\ lines \in [Docs -> SUBSET Attempts]
  BY DEF IInv, TypeOK
<1> DEFINE Goal ==
         /\ doc'[d].attempts \in {0, doc[d].attempts}
         /\ \/ doc'[d] = doc[d] /\ lines'[d] = lines[d]
            \/ /\ doc[d].status = "none" /\ doc'[d].status = "PENDING"
               /\ doc'[d].attempts = doc[d].attempts /\ lines'[d] = lines[d]
            \/ doc'[d].status = "deleted" /\ lines'[d] = {}
            \/ /\ doc[d].lease = "held" /\ doc'[d].lease = "expired" /\ lines'[d] = lines[d]
               /\ doc'[d].status = doc[d].status /\ doc'[d].attempts = doc[d].attempts
            \/ /\ doc[d].status = "REVIEW_REQUIRED" /\ doc'[d].status = "REJECTED"
               /\ lines'[d] = lines[d]
            \/ /\ \E r \in Reviewers : review[r].pc # "idle" /\ review[r].doc = d
               /\ Exists(d) /\ doc'[d].status = "CONFIRMED" /\ lines'[d] = lines[d]
<1>2. ASSUME doc' = doc, lines' = lines PROVE Goal
  BY <1>2
<1>3. ASSUME NEW e \in Docs, Enqueue(e) PROVE Goal
  <2>1. /\ doc[e].status = "none" /\ doc' = [doc EXCEPT ![e].status = "PENDING"]
        /\ lines' = lines
    BY <1>3 DEF Enqueue
  <2> QED  BY <1>1, <2>1 DEF OcrDocument
<1>4. ASSUME NEW e \in Docs, AttachmentDeleted(e) PROVE Goal
  <2>1. /\ doc' = [doc EXCEPT ![e] = [status |-> "deleted", attempts |-> 0, lease |-> "none"]]
        /\ lines' = [lines EXCEPT ![e] = {}]
    BY <1>4 DEF AttachmentDeleted
  <2> QED  BY <1>1, <2>1
<1>5. ASSUME NEW e \in Docs, LeaseExpires(e) PROVE Goal
  <2>1. /\ doc[e].lease = "held" /\ doc' = [doc EXCEPT ![e].lease = "expired"]
        /\ lines' = lines
    BY <1>5 DEF LeaseExpires
  <2> QED  BY <1>1, <2>1 DEF OcrDocument
<1>6. ASSUME NEW e \in Docs, Reject(e) PROVE Goal
  <2>1. /\ doc[e].status = "REVIEW_REQUIRED" /\ lines' = lines
        /\ doc' = [doc EXCEPT ![e].status = "REJECTED", ![e].lease = "none"]
    BY <1>6 DEF Reject
  <2> QED  BY <1>1, <2>1 DEF OcrDocument
<1>7. ASSUME NEW r \in Reviewers, Confirm(r) PROVE Goal
  <2>1. PICK e \in Docs : review[r].doc = e /\ review[r].pc # "idle"
    BY <1>7 DEF Confirm, LinesPersisted, IInv, HoldsInv
  <2>2. /\ lines' = lines
        /\ \/ doc' = doc
           \/ Exists(e) /\ doc' = [doc EXCEPT ![e].status = "CONFIRMED"]
    BY <1>7, <2>1 DEF Confirm
  <2> QED  BY <1>1, <2>1, <2>2 DEF OcrDocument
<1> HIDE DEF Goal
<1>8. ASSUME NEW e \in Docs, Enqueue(e) \/ AttachmentDeleted(e) \/ LeaseExpires(e) \/ Reject(e)
      PROVE  Goal
  BY <1>3, <1>4, <1>5, <1>6, <1>8, Zenon
<1>9. ASSUME NEW r \in Reviewers,
             \/ \E e \in Docs : ApproveRead(r, e)
             \/ \E included \in SUBSET Line : ApproveCount(r, included)
             \/ \E l \in Line : PersistLine(r, l)
             \/ Confirm(r) \/ ApproveAborts(r)
      PROVE  Goal
  <2>1. CASE Confirm(r)
    BY <1>7, <2>1
  <2>2. CASE ~Confirm(r)
    <3>1. doc' = doc /\ lines' = lines
      BY <1>9, <2>2 DEF ApproveRead, ApproveCount, PersistLine, ApproveAborts
    <3> QED  BY <1>2, <3>1
  <2> QED  BY <2>1, <2>2
<1>10. Goal
  BY <1>8, <1>9, Zenon DEF Next
<1> QED  BY <1>10 DEF Goal

LEMMA OverlapKeeps == ASSUME IInv, Next PROVE OverlapInv'
<1>1. ASSUME NEW w \in Workers, NEW d \in Docs, ClaimRead(w, d) PROVE OverlapInv'
  BY <1>1, ClaimReadAdds DEF IInv, OverlapInv, Busy
<1>2. ASSUME NEW w \in Workers,
             ClaimWrite(w) \/ ExtractOk(w) \/ InsertLines(w) \/ FailJob(w) \/ WorkerDies(w)
      PROVE  OverlapInv'
  BY <1>2, GoesOnOrLeaves DEF IInv, OverlapInv, Busy
<1>3. CASE \A w \in Workers : ~WorkerStep(w) /\ ~WorkerDies(w)
  BY <1>3, WorkersAlone DEF IInv, OverlapInv, Busy
<1> QED  BY <1>1, <1>2, <1>3 DEF WorkerStep

LEMMA CapKeeps == ASSUME OcrConstants, IInv, Next, TypeOK' PROVE CapInv'
<1> SUFFICES ASSUME NEW d \in Docs
             PROVE  doc'[d].attempts + Cardinality(Claiming(d)') <= AttemptLimit
  BY DEF CapInv
<1>1. /\ doc[d].attempts \in Nat /\ doc'[d].attempts \in Nat
      /\ doc \in [Docs -> OcrDocument] /\ doc[d] \in OcrDocument
      /\ doc[d].attempts + Cardinality(Claiming(d)) <= AttemptLimit
  BY DEF IInv, CapInv, TypeOK, OcrDocument
<1>2. /\ IsFiniteSet(Claiming(d)) /\ Cardinality(Claiming(d)) \in Nat
      /\ Claiming(d)' \in SUBSET Workers
      /\ Cardinality(Claiming(d)') \in Nat /\ Cardinality(Claiming(d)') <= Cardinality(Workers)
  <2>1. Claiming(d)' \in SUBSET Workers
    BY DEF Claiming
  <2> QED  BY <2>1, ClaimingFinite, FS_Subset, FS_CardinalityType DEF OcrConstants
<1>3. ASSUME Claiming(d)' \subseteq Claiming(d), doc'[d].attempts <= doc[d].attempts
      PROVE  doc'[d].attempts + Cardinality(Claiming(d)') <= AttemptLimit
  <2>1. Cardinality(Claiming(d)') <= Cardinality(Claiming(d))
    BY <1>2, <1>3, FS_Subset
  <2> QED  BY <1>1, <1>2, <1>3, <2>1, Limits
<1>4. ASSUME NEW w \in Workers, NEW e \in Docs, ClaimRead(w, e)
      PROVE  doc'[d].attempts + Cardinality(Claiming(d)') <= AttemptLimit
  <2>1. CASE d = e
    <3>1. doc'[d].attempts = doc[d].attempts /\ doc[d].attempts < MaxAttempts
      BY <1>4, <2>1 DEF ClaimRead, Claimable
    <3> QED  BY <1>1, <1>2, <3>1, Limits DEF AttemptLimit
  <2>2. CASE d # e
    <3>1. Claiming(d)' \subseteq Claiming(d) /\ doc'[d].attempts <= doc[d].attempts
      BY <1>1, <1>4, <2>2, ClaimReadAdds DEF Claiming
    <3> QED  BY <1>3, <3>1
  <2> QED  BY <2>1, <2>2
<1>5. ASSUME NEW w \in Workers, ClaimWrite(w), worker[w].doc = d, Exists(d)
      PROVE  doc'[d].attempts + Cardinality(Claiming(d)') <= AttemptLimit
  <2>1. doc'[d].attempts = doc[d].attempts + 1
    BY <1>1, <1>5 DEF ClaimWrite
  <2>2. Claiming(d)' \subseteq Claiming(d) \ {w} /\ w \in Claiming(d)
    BY <1>5, GoesOnOrLeaves DEF Claiming, ClaimWrite
  <2>3. Cardinality(Claiming(d)') <= Cardinality(Claiming(d)) - 1
    <3>1. /\ IsFiniteSet(Claiming(d) \ {w})
          /\ Cardinality(Claiming(d) \ {w}) = Cardinality(Claiming(d)) - 1
      BY <1>2, <2>2, FS_RemoveElement, Zenon
    <3>2. Cardinality(Claiming(d)') <= Cardinality(Claiming(d) \ {w})
      BY <2>2, <3>1, FS_Subset, Zenon
    <3> QED  BY <3>1, <3>2
  <2> QED  BY <1>1, <1>2, <2>1, <2>3, Limits
<1>6. ASSUME NEW w \in Workers,
             ClaimWrite(w) \/ ExtractOk(w) \/ InsertLines(w) \/ FailJob(w) \/ WorkerDies(w),
             ~(ClaimWrite(w) /\ worker[w].doc = d /\ Exists(d))
      PROVE  doc'[d].attempts + Cardinality(Claiming(d)') <= AttemptLimit
  <2>1. Claiming(d)' \subseteq Claiming(d)
    BY <1>6, GoesOnOrLeaves DEF Claiming
  <2>2. doc'[d].attempts = doc[d].attempts
    BY <1>1, <1>6 DEF ClaimWrite, ExtractOk, InsertLines, FailJob, WorkerDies, OcrDocument
  <2> QED  BY <1>1, <1>3, <2>1, <2>2
<1>7. CASE \A w \in Workers : ~WorkerStep(w) /\ ~WorkerDies(w)
  <2>1. Claiming(d)' \subseteq Claiming(d)
    BY <1>7, WorkersAlone DEF Claiming
  <2>2. doc'[d].attempts \in {0, doc[d].attempts}
    BY <1>1, <1>7, DocSteps
  <2> QED  BY <1>1, <1>3, <2>1, <2>2
<1> QED  BY <1>4, <1>5, <1>6, <1>7 DEF WorkerStep
-----------------------------------------------------------------------------
(* A document alone with its worker *)

\* A worker's step leaves the other documents alone.
LEMMA OtherDocs ==
  ASSUME IInv, NEW w \in Workers,
         ClaimWrite(w) \/ ExtractOk(w) \/ InsertLines(w) \/ FailJob(w) \/ WorkerDies(w),
         NEW d \in Docs, d # worker[w].doc
  PROVE  doc'[d] = doc[d] /\ lines'[d] = lines[d]
<1>1. doc \in [Docs -> OcrDocument] /\ lines \in [Docs -> SUBSET Attempts]
  BY DEF IInv, TypeOK
<1>2. CASE ClaimWrite(w)
  BY <1>1, <1>2 DEF ClaimWrite
<1>3. CASE ExtractOk(w) \/ WorkerDies(w)
  BY <1>3 DEF ExtractOk, WorkerDies
<1>4. CASE InsertLines(w)
  BY <1>1, <1>4 DEF InsertLines
<1>5. CASE FailJob(w)
  BY <1>1, <1>5 DEF FailJob
<1> QED  BY <1>2, <1>3, <1>4, <1>5

\* An approval that is new found its document waiting for review.
LEMMA ReviewSteps ==
  ASSUME IInv, Next, \A w \in Workers : ~WorkerStep(w) /\ ~WorkerDies(w),
         NEW r \in Reviewers, NEW d \in Docs, review'[r].pc # "idle", review'[r].doc = d
  PROVE  \/ review[r].pc # "idle" /\ review[r].doc = d
         \/ doc[d].status = "REVIEW_REQUIRED" /\ doc' = doc
<1>1. review \in [Reviewers -> [pc : {"idle", "count", "persist"}, doc : Docs \cup {NoDoc},
                                named : SUBSET Line, todo : SUBSET Line]]
  BY DEF IInv, TypeOK
<1>2. CASE review' = review
  BY <1>2
<1>3. ASSUME NEW s \in Reviewers, NEW e \in Docs, ApproveRead(s, e)
      PROVE  \/ review[r].pc # "idle" /\ review[r].doc = d
             \/ doc[d].status = "REVIEW_REQUIRED" /\ doc' = doc
  <2>1. /\ review' = [review EXCEPT ![s] = [IdleReview EXCEPT !.pc = "count", !.doc = e]]
        /\ doc[e].status = "REVIEW_REQUIRED" /\ doc' = doc
    BY <1>3 DEF ApproveRead
  <2>2. CASE s = r
    <3>1. review'[r].doc = e
      BY <1>1, <2>1, <2>2 DEF IdleReview
    <3> QED  BY <2>1, <3>1
  <2>3. CASE s # r
    BY <1>1, <2>1, <2>3
  <2> QED  BY <2>2, <2>3
<1>4. ASSUME NEW s \in Reviewers, NEW included \in SUBSET Line, ApproveCount(s, included)
      PROVE  review[r].pc # "idle" /\ review[r].doc = d
  <2>1. /\ review' = [review EXCEPT ![s].pc = "persist", ![s].named = included,
                                    ![s].todo = included]
        /\ review[s].pc = "count"
    BY <1>4 DEF ApproveCount
  <2> QED  BY <1>1, <2>1
<1>5. ASSUME NEW s \in Reviewers, review' = [review EXCEPT ![s] = IdleReview]
      PROVE  review[r].pc # "idle" /\ review[r].doc = d
  BY <1>1, <1>5 DEF IdleReview
<1>6. ASSUME NEW s \in Reviewers, NEW l \in Line, PersistLine(s, l)
      PROVE  review[r].pc # "idle" /\ review[r].doc = d
  <2>1. \/ review' = [review EXCEPT ![s].todo = @ \ {l}]
        \/ review' = [review EXCEPT ![s] = IdleReview]
    BY <1>6 DEF PersistLine
  <2>2. CASE review' = [review EXCEPT ![s].todo = @ \ {l}]
    BY <1>1, <2>2
  <2> QED  BY <1>5, <2>1, <2>2
<1>7. ASSUME NEW s \in Reviewers, Confirm(s) \/ ApproveAborts(s)
      PROVE  review[r].pc # "idle" /\ review[r].doc = d
  BY <1>5, <1>7 DEF Confirm, ApproveAborts
<1>8. ASSUME NEW e \in Docs, Enqueue(e) \/ AttachmentDeleted(e) \/ LeaseExpires(e) \/ Reject(e)
      PROVE  review' = review
  BY <1>8 DEF Enqueue, AttachmentDeleted, LeaseExpires, Reject
<1> QED  BY <1>2, <1>3, <1>4, <1>6, <1>7, <1>8 DEF Next

\* Without an overlap, the document of a busy worker is not decided or under review.
LEMMA AloneAtWork ==
  ASSUME IInv, NEW w \in Workers, worker[w].pc # "idle", NEW d \in Docs, worker[w].doc = d,
         ~overlapped[d], doc[d].status # "deleted"
  PROVE  /\ Exists(d) /\ doc[d].status \in {"PENDING", "PROCESSING"}
         /\ \A r \in Reviewers : review[r].pc # "idle" => review[r].doc # d
         /\ \A v \in Workers \ {w} : ~Busy(v, d)
         /\ worker[w].pc # "claim" => doc[d].status = "PROCESSING" /\ doc[d].lease # "none"
  BY DEF IInv, AloneInv, OverlapInv, Busy, Claimable, Exists, Decided

LEMMA AloneKeeps == ASSUME OcrConstants, IInv, Next, TypeOK' PROVE AloneInv'
<1> SUFFICES ASSUME NEW d \in Docs, ~overlapped'[d], doc'[d].status # "deleted"
             PROVE  /\ \A v \in Workers : Busy(v, d)' =>
                         IF worker'[v].pc = "claim" THEN Claimable(d)'
                         ELSE doc'[d].status = "PROCESSING" /\ doc'[d].lease # "none"
                    /\ \A r \in Reviewers : review'[r].pc # "idle" /\ review'[r].doc = d =>
                         doc'[d].status \in {"REVIEW_REQUIRED"} \cup Decided
  BY DEF AloneInv
<1> DEFINE WorkerPart == \A v \in Workers : Busy(v, d)' =>
                           IF worker'[v].pc = "claim" THEN Claimable(d)'
                           ELSE doc'[d].status = "PROCESSING" /\ doc'[d].lease # "none"
           ReviewPart == \A r \in Reviewers : review'[r].pc # "idle" /\ review'[r].doc = d =>
                           doc'[d].status \in {"REVIEW_REQUIRED"} \cup Decided
<1>1. /\ doc \in [Docs -> OcrDocument] /\ doc[d] \in OcrDocument /\ AloneInv /\ TypeOK
  BY DEF IInv, TypeOK
<1>2. ASSUME NEW w \in Workers, NEW e \in Docs, ClaimRead(w, e) PROVE WorkerPart /\ ReviewPart
  <2>1. /\ ~overlapped[d] /\ doc' = doc /\ review' = review
        /\ worker'[w].pc = "claim" /\ worker'[w].doc = e
        /\ \A v \in Workers \ {w} : worker'[v] = worker[v]
    BY <1>2, ClaimReadAdds
  <2>2. Claimable(d)' <=> Claimable(d)
    BY <2>1 DEF Claimable
  <2>3. ReviewPart
    BY <1>1, <2>1 DEF AloneInv
  <2>4. CASE d = e
    <3>1. Claimable(d) /\ \A v \in Workers : ~Busy(v, d)
      <4>1. overlapped'[d] <=> overlapped[d] \/ \E v \in Workers : Busy(v, d)
        BY <1>2, <2>4, ClaimReadAdds
      <4>2. Claimable(d)
        BY <1>2, <2>4 DEF ClaimRead
      <4> QED  BY <4>1, <4>2
    <3>2. ASSUME NEW v \in Workers, Busy(v, d)' PROVE worker'[v].pc = "claim"
      <4>1. CASE v = w
        BY <2>1, <4>1
      <4>2. CASE v # w
        <5>1. worker'[v] = worker[v]
          BY <2>1, <4>2
        <5>2. ~(worker[v].pc # "idle" /\ worker[v].doc = d)
          BY <3>1 DEF Busy
        <5> QED  BY <3>2, <5>1, <5>2 DEF Busy
      <4> QED  BY <4>1, <4>2
    <3>3. Claimable(d)'
      BY <2>2, <3>1
    <3>4. WorkerPart
      BY <3>2, <3>3
    <3> QED  BY <2>3, <3>4
  <2>5. CASE d # e
    <3>1. \A v \in Workers : Busy(v, d)' => Busy(v, d) /\ worker'[v] = worker[v]
      BY <2>1, <2>5 DEF Busy
    <3>2. ASSUME NEW v \in Workers, Busy(v, d)
          PROVE  IF worker[v].pc = "claim" THEN Claimable(d)
                 ELSE doc[d].status = "PROCESSING" /\ doc[d].lease # "none"
      BY <1>1, <2>1, <3>2 DEF AloneInv
    <3> QED  BY <2>1, <2>2, <2>3, <3>1, <3>2
  <2> QED  BY <2>4, <2>5
<1>3. ASSUME NEW w \in Workers,
             ClaimWrite(w) \/ ExtractOk(w) \/ InsertLines(w) \/ FailJob(w) \/ WorkerDies(w)
      PROVE  WorkerPart /\ ReviewPart
  <2>1. /\ ~overlapped[d] /\ review' = review /\ worker[w].pc # "idle"
        /\ worker'[w].pc \in {"idle", "run", "insert"}
        /\ worker'[w].pc = "idle" \/ worker'[w].doc = worker[w].doc
        /\ \A v \in Workers \ {w} : worker'[v] = worker[v]
    BY <1>3, GoesOnOrLeaves
  <2>2. CASE worker[w].doc # d
    <3>1. doc'[d] = doc[d]
      BY <1>3, <2>2, OtherDocs
    <3> QED  BY <1>1, <2>1, <2>2, <3>1 DEF AloneInv, Busy, Claimable
  <2>3. CASE worker[w].doc = d
    <3>1. doc[d].status # "deleted"
      <4>1. Exists(d) \/ doc' = doc
        BY <1>3, <2>3 DEF ClaimWrite, ExtractOk, InsertLines, FailJob, WorkerDies
      <4> QED  BY <4>1 DEF Exists
    <3>2. /\ Exists(d)
          /\ \A r \in Reviewers : review[r].pc # "idle" => review[r].doc # d
          /\ \A v \in Workers \ {w} : ~Busy(v, d)
          /\ worker[w].pc # "claim" => doc[d].status = "PROCESSING" /\ doc[d].lease # "none"
      BY <2>1, <2>3, <3>1, AloneAtWork
    <3>3. worker'[w].pc # "idle" => doc'[d].status = "PROCESSING" /\ doc'[d].lease # "none"
      <4>1. CASE ClaimWrite(w)
        <5>1. doc' = [doc EXCEPT ![d] = [status |-> "PROCESSING", lease |-> "held",
                                         attempts |-> @.attempts + 1]]
          BY <2>3, <3>2, <4>1 DEF ClaimWrite
        <5> QED  BY <1>1, <5>1
      <4>2. CASE ExtractOk(w)
        BY <3>2, <4>2 DEF ExtractOk
      <4>3. CASE Release(w)
        <5>1. worker' = [worker EXCEPT ![w] = IdleWorker]
          BY <4>3 DEF Release
        <5>2. worker'[w].pc = "idle"
          BY <1>1, <5>1 DEF IdleWorker, TypeOK
        <5> QED  BY <5>2
      <4> QED  BY <1>3, <4>1, <4>2, <4>3 DEF InsertLines, FailJob, WorkerDies
    <3> QED  BY <2>1, <3>2, <3>3 DEF Busy
  <2> QED  BY <2>2, <2>3
<1>4. CASE \A w \in Workers : ~WorkerStep(w) /\ ~WorkerDies(w)
  <2>1. worker' = worker /\ ~overlapped[d]
    BY <1>4, WorkersAlone
  <2>2. \A r \in Reviewers : review'[r].pc # "idle" /\ review'[r].doc = d =>
          \/ review[r].pc # "idle" /\ review[r].doc = d
          \/ doc[d].status = "REVIEW_REQUIRED" /\ doc' = doc
    BY <1>4, ReviewSteps
  <2>3. CASE doc'[d] = doc[d]
    BY <1>1, <2>1, <2>2, <2>3 DEF AloneInv, Busy, Claimable
  <2>4. CASE doc[d].status = "none"
    <3>1. \A v \in Workers : ~Busy(v, d)
      BY <1>1, <2>1, <2>4 DEF AloneInv, Busy, Claimable
    <3>2. \A r \in Reviewers : ~(review[r].pc # "idle" /\ review[r].doc = d)
      BY <1>1, <2>1, <2>4 DEF AloneInv, Decided
    <3> QED  BY <2>1, <2>2, <2>4, <3>1, <3>2 DEF Busy
  <2>5. CASE /\ doc[d].lease = "held" /\ doc'[d].lease = "expired"
             /\ doc'[d].status = doc[d].status /\ doc'[d].attempts = doc[d].attempts
    BY <1>1, <2>1, <2>2, <2>5 DEF AloneInv, Busy, Claimable
  <2>6. CASE /\ doc[d].status \in {"REVIEW_REQUIRED"} \cup Decided
             /\ doc'[d].status \in Decided
    <3>1. \A v \in Workers : ~Busy(v, d)
      BY <1>1, <2>1, <2>6 DEF AloneInv, Busy, Claimable, Decided
    <3> QED  BY <2>1, <2>6, <3>1 DEF Busy
  <2>7. CASE /\ \E r \in Reviewers : review[r].pc # "idle" /\ review[r].doc = d
             /\ Exists(d) /\ doc'[d].status = "CONFIRMED"
    <3>1. doc[d].status \in {"REVIEW_REQUIRED"} \cup Decided
      BY <1>1, <2>1, <2>7 DEF AloneInv, Exists
    <3> QED  BY <2>6, <2>7, <3>1 DEF Decided
  <2> QED  BY <1>4, <2>3, <2>4, <2>5, <2>6, <2>7, DocSteps DEF Decided
<1> QED  BY <1>2, <1>3, <1>4 DEF WorkerStep
-----------------------------------------------------------------------------
(* Batches of lines and their prices *)

\* An overlap that was seen stays seen.
LEMMA OverlapStays ==
  ASSUME IInv, Next, NEW d \in Docs, overlapped[d]
  PROVE  overlapped'[d]
<1>1. ASSUME NEW w \in Workers, NEW e \in Docs, ClaimRead(w, e) PROVE overlapped'[d]
  <2>1. \A f \in Docs : overlapped'[f] <=>
          overlapped[f] \/ (f = e /\ \E v \in Workers : Busy(v, e))
    BY <1>1, ClaimReadAdds
  <2> QED  BY <2>1
<1>2. ASSUME NEW w \in Workers,
             ClaimWrite(w) \/ ExtractOk(w) \/ InsertLines(w) \/ FailJob(w) \/ WorkerDies(w)
      PROVE  overlapped'[d]
  BY <1>2, GoesOnOrLeaves
<1>3. CASE \A w \in Workers : ~WorkerStep(w) /\ ~WorkerDies(w)
  BY <1>3, WorkersAlone
<1> QED  BY <1>1, <1>2, <1>3 DEF WorkerStep

\* No line is priced, and the status does not belie it.
LEMMA SamePrices ==
  ASSUME NEW d \in Docs, Batches(d), prices' = prices, lines'[d] \in {{}, lines[d]},
         \/ doc'[d].status = doc[d].status
         \/ doc'[d].status = "deleted" /\ lines'[d] = {}
         \/ doc'[d].status \in {"REVIEW_REQUIRED"} \cup Decided
         \/ doc[d].status \in {"none", "PENDING", "PROCESSING"} /\ doc'[d].status # "deleted"
  PROVE  Batches(d)'
<1>1. \A b \in Attempts, i \in Items : Recorded(<<d, b, i>>)' <=> Recorded(<<d, b, i>>)
  BY DEF Recorded
<1>2. PICK a \in Attempts : /\ lines[d] \subseteq {a}
                            /\ \A b \in Attempts, i \in Items : Recorded(<<d, b, i>>) => b = a
  BY DEF Batches
<1>3. /\ lines'[d] \subseteq {a}
      /\ \A b \in Attempts, i \in Items : Recorded(<<d, b, i>>)' => b = a
  BY <1>1, <1>2
<1>4. doc'[d].status \in {"none", "PENDING", "PROCESSING", "FAILED"} =>
        lines'[d] = {} /\ \A b \in Attempts, i \in Items : ~Recorded(<<d, b, i>>)'
  BY <1>1 DEF Batches, Decided
<1>5. doc'[d].status = "deleted" => lines'[d] = {}
  BY DEF Batches, Decided
<1> QED  BY <1>2, <1>3, <1>4, <1>5 DEF Batches

LEMMA BatchKeeps == ASSUME OcrConstants, IInv, Next, TypeOK' PROVE BatchInv'
<1> SUFFICES ASSUME NEW d \in Docs, ~overlapped'[d] PROVE Batches(d)'
  BY DEF BatchInv
<1>1. ~overlapped[d]
  BY OverlapStays
<1>2. /\ Batches(d) /\ doc \in [Docs -> OcrDocument] /\ doc[d] \in OcrDocument
      /\ lines \in [Docs -> SUBSET Attempts] /\ prices \in [Line -> Nat]
  BY <1>1 DEF IInv, BatchInv, TypeOK
<1>3. ASSUME NEW w \in Workers, NEW e \in Docs, ClaimRead(w, e) PROVE Batches(d)'
  <2>1. UNCHANGED <<doc, lines, prices>>
    BY <1>3, ClaimReadAdds
  <2> QED  BY <1>2, <2>1, SamePrices
<1>4. ASSUME NEW w \in Workers,
             ClaimWrite(w) \/ ExtractOk(w) \/ InsertLines(w) \/ FailJob(w) \/ WorkerDies(w)
      PROVE  Batches(d)'
  <2>1. prices' = prices /\ worker[w].pc # "idle"
    BY <1>4, GoesOnOrLeaves
  <2>2. CASE worker[w].doc # d
    <3>1. doc'[d] = doc[d] /\ lines'[d] = lines[d]
      BY <1>4, <2>2, OtherDocs
    <3> QED  BY <1>2, <2>1, <3>1, SamePrices
  <2>3. CASE worker[w].doc = d /\ doc' = doc /\ lines' = lines
    BY <1>2, <2>1, <2>3, SamePrices
  <2>4. CASE worker[w].doc = d /\ ~(doc' = doc /\ lines' = lines)
    <3>1. Exists(d)
      BY <1>4, <2>4 DEF ClaimWrite, ExtractOk, InsertLines, FailJob, WorkerDies
    <3>2. doc[d].status \in {"PENDING", "PROCESSING"}
      BY <1>1, <2>1, <2>4, <3>1, AloneAtWork DEF Exists
    <3>3. lines[d] = {} /\ \A b \in Attempts, i \in Items : ~Recorded(<<d, b, i>>)
      BY <1>2, <3>2 DEF Batches
    <3>4. CASE InsertLines(w)
      <4>1. PICK a \in Attempts : worker[w].attempt = a
        BY <3>4 DEF IInv, HoldsInv, InsertLines
      <4>2. /\ lines' = [lines EXCEPT ![d] = LinesReplaced(w)]
            /\ doc' = [doc EXCEPT ![d].status = "REVIEW_REQUIRED", ![d].lease = "none"]
        BY <2>4, <3>1, <3>4 DEF InsertLines
      <4>3. lines'[d] = {a}
        BY <1>2, <2>4, <3>3, <4>1, <4>2 DEF LinesReplaced
      <4>4. doc'[d].status = "REVIEW_REQUIRED"
        BY <1>2, <4>2 DEF OcrDocument
      <4>5. \A b \in Attempts, i \in Items : ~Recorded(<<d, b, i>>)'
        BY <2>1, <3>3 DEF Recorded
      <4> QED  BY <4>3, <4>4, <4>5 DEF Batches
    <3>5. CASE ~InsertLines(w)
      <4>1. lines' = lines
        BY <1>4, <3>5 DEF ClaimWrite, ExtractOk, FailJob, WorkerDies
      <4>2. doc'[d].status \in {"PENDING", "PROCESSING", "FAILED"}
        <5>1. CASE ClaimWrite(w)
          BY <1>2, <2>4, <3>1, <5>1 DEF ClaimWrite
        <5>2. CASE FailJob(w)
          <6>1. PICK s \in {"PENDING", "FAILED"} :
                  doc' = [doc EXCEPT ![d].status = s, ![d].lease = "none"]
            BY <2>4, <3>1, <5>2 DEF FailJob
          <6> QED  BY <1>2, <6>1 DEF OcrDocument
        <5>3. CASE doc' = doc
          BY <3>2, <5>3
        <5> QED  BY <1>4, <3>5, <5>1, <5>2, <5>3 DEF ExtractOk, WorkerDies
      <4> QED  BY <1>2, <2>1, <3>2, <4>1, <4>2, SamePrices
    <3> QED  BY <3>4, <3>5
  <2> QED  BY <2>2, <2>3, <2>4
<1>5. CASE \A w \in Workers : ~WorkerStep(w) /\ ~WorkerDies(w)
  <2>1. CASE prices' = prices
    BY <1>2, <1>5, <2>1, DocSteps, SamePrices DEF Decided
  <2>2. CASE prices' # prices
    <3>1. PICK r \in Reviewers, l \in Line : PersistLine(r, l)
      BY <1>5, <2>2 DEF Next, Enqueue, AttachmentDeleted, LeaseExpires, Reject, ApproveRead,
         ApproveCount, Confirm, ApproveAborts
    <3>2. /\ UNCHANGED <<doc, lines>> /\ prices' = [prices EXCEPT ![l] = @ + 1]
          /\ l[1] = review[r].doc /\ l[2] \in lines[l[1]]
      BY <2>2, <3>1 DEF PersistLine, LinesOf
    <3>3. \A b \in Attempts, i \in Items :
            Recorded(<<d, b, i>>)' => Recorded(<<d, b, i>>) \/ (d = l[1] /\ b \in lines[d])
      <4> SUFFICES ASSUME NEW b \in Attempts, NEW i \in Items, prices'[<<d, b, i>>] > 0,
                          ~(prices[<<d, b, i>>] > 0)
                   PROVE  d = l[1] /\ b \in lines[d]
        BY DEF Recorded
      <4>1. <<d, b, i>> \in Line
        BY DEF Line
      <4>2. <<d, b, i>> = l
        BY <1>2, <3>2, <4>1
      <4> QED  BY <3>2, <4>2
    <3> QED  BY <1>2, <3>2, <3>3 DEF Batches
  <2> QED  BY <2>1, <2>2
<1> QED  BY <1>3, <1>4, <1>5 DEF WorkerStep

\* What an approval has recorded stays recorded, and is recorded once.
LEMMA PersistKeeps == ASSUME IInv, Next PROVE PersistInv' /\ PriceOncePerLine'
<1>1. /\ PersistInv /\ PriceOncePerLine /\ prices \in [Line -> Nat]
      /\ review \in [Reviewers -> [pc : {"idle", "count", "persist"}, doc : Docs \cup {NoDoc},
                                   named : SUBSET Line, todo : SUBSET Line]]
  BY DEF IInv, TypeOK
<1>2. CASE review' = review /\ prices' = prices
  BY <1>1, <1>2 DEF PersistInv, PriceOncePerLine, Recorded
<1>3. ASSUME NEW r \in Reviewers, review' = [review EXCEPT ![r] = IdleReview], prices' = prices
      PROVE  PersistInv' /\ PriceOncePerLine'
  BY <1>1, <1>3 DEF PersistInv, PriceOncePerLine, Recorded, IdleReview
<1>4. ASSUME NEW r \in Reviewers, NEW d \in Docs, ApproveRead(r, d)
      PROVE  PersistInv' /\ PriceOncePerLine'
  <2>1. /\ review' = [review EXCEPT ![r] = [IdleReview EXCEPT !.pc = "count", !.doc = d]]
        /\ prices' = prices
    BY <1>4 DEF ApproveRead
  <2> QED  BY <1>1, <2>1 DEF PersistInv, PriceOncePerLine, Recorded, IdleReview
<1>5. ASSUME NEW r \in Reviewers, NEW included \in SUBSET Line, ApproveCount(r, included)
      PROVE  PersistInv' /\ PriceOncePerLine'
  <2>1. /\ review' = [review EXCEPT ![r].pc = "persist", ![r].named = included,
                                    ![r].todo = included]
        /\ prices' = prices
    BY <1>5 DEF ApproveCount
  <2> QED  BY <1>1, <2>1 DEF PersistInv, PriceOncePerLine, Recorded
<1>6. ASSUME NEW r \in Reviewers, NEW l \in Line, PersistLine(r, l)
      PROVE  PersistInv' /\ PriceOncePerLine'
  <2>1. CASE /\ review' = [review EXCEPT ![r].todo = @ \ {l}]
             /\ Recorded(l) /\ prices' = prices
    BY <1>1, <2>1 DEF PersistInv, PriceOncePerLine, Recorded
  <2>2. CASE /\ review' = [review EXCEPT ![r].todo = @ \ {l}]
             /\ ~Recorded(l) /\ prices' = [prices EXCEPT ![l] = @ + 1]
    <3>1. prices[l] = 0 /\ prices'[l] = 1 /\ \A m \in Line : m # l => prices'[m] = prices[m]
      BY <1>1, <2>2 DEF Recorded
    <3>2. PriceOncePerLine'
      BY <1>1, <3>1 DEF PriceOncePerLine
    <3>3. \A m \in Line : Recorded(m) => Recorded(m)'
      BY <3>1 DEF Recorded
    <3>4. Recorded(l)'
      BY <3>1 DEF Recorded
    <3>5. ASSUME NEW s \in Reviewers, review'[s].pc = "persist", NEW m \in review'[s].named
          PROVE  m \in review'[s].todo \/ Recorded(m)'
      <4>1. /\ review[s].pc = "persist" /\ review'[s].named = review[s].named
            /\ review'[s].todo = review[s].todo \/ review'[s].todo = review[s].todo \ {l}
        BY <1>1, <2>2, <3>5
      <4>2. m \in Line /\ (m \in review[s].todo \/ Recorded(m))
        BY <1>1, <3>5, <4>1 DEF PersistInv
      <4> QED  BY <3>3, <3>4, <4>1, <4>2
    <3> QED  BY <3>2, <3>5 DEF PersistInv
  <2>3. CASE review' = [review EXCEPT ![r] = IdleReview] /\ prices' = prices
    BY <1>3, <2>3
  <2>4. CASE /\ review' = [[review EXCEPT ![r].todo = @ \ {l}] EXCEPT ![r].named = @ \ {l}]
             /\ prices' = prices
    BY <1>1, <2>4 DEF PersistInv, PriceOncePerLine, Recorded
  <2> QED  BY <1>6, <2>1, <2>2, <2>3, <2>4 DEF PersistLine
<1>7. ASSUME NEW r \in Reviewers, Confirm(r) \/ ApproveAborts(r)
      PROVE  PersistInv' /\ PriceOncePerLine'
  BY <1>3, <1>7 DEF Confirm, ApproveAborts
<1>8. ASSUME NEW w \in Workers, WorkerStep(w) \/ WorkerDies(w)
      PROVE  review' = review /\ prices' = prices
  BY <1>8 DEF WorkerStep, ClaimRead, ClaimWrite, ExtractOk, InsertLines, FailJob, WorkerDies
<1>9. ASSUME NEW e \in Docs, Enqueue(e) \/ AttachmentDeleted(e) \/ LeaseExpires(e) \/ Reject(e)
      PROVE  review' = review /\ prices' = prices
  BY <1>9 DEF Enqueue, AttachmentDeleted, LeaseExpires, Reject
<1>10. ASSUME NEW r \in Reviewers,
              \/ \E d \in Docs : ApproveRead(r, d)
              \/ \E included \in SUBSET Line : ApproveCount(r, included)
              \/ \E l \in Line : PersistLine(r, l)
              \/ Confirm(r) \/ ApproveAborts(r)
       PROVE  PersistInv' /\ PriceOncePerLine'
  BY <1>4, <1>5, <1>6, <1>7, <1>10
<1> QED  BY <1>2, <1>8, <1>9, <1>10 DEF Next
-----------------------------------------------------------------------------
(* The theorems *)

LEMMA NextInv == OcrConstants /\ IInv /\ [Next]_vars => IInv'
<1> SUFFICES ASSUME OcrConstants, IInv, [Next]_vars PROVE IInv'
  OBVIOUS
<1>1. CASE Next
  <2>1. TypeOK' /\ HoldsInv'
    BY <1>1, WorkerTypes, DocTypes, ReviewTypes DEF Next
  <2> QED
    BY <1>1, <2>1, OverlapKeeps, CapKeeps, AloneKeeps, BatchKeeps, PersistKeeps DEF IInv
<1>2. CASE UNCHANGED vars
  <2>1. /\ doc' = doc /\ lines' = lines /\ prices' = prices /\ worker' = worker
        /\ review' = review /\ overlapped' = overlapped
    BY <1>2 DEF vars
  <2>2. \A d : Claiming(d)' = Claiming(d)
    BY <2>1 DEF Claiming
  <2>3. CapInv'
    BY <2>1, <2>2 DEF IInv, CapInv
  <2> QED
    BY <2>1, <2>3 DEF IInv, TypeOK, HoldsInv, OverlapInv, AloneInv, BatchInv, Batches, PersistInv,
       PriceOncePerLine, Busy, Claimable, Recorded
<1> QED  BY <1>1, <1>2

\* The invariant holds in every state that ticks, approvals and deletions can bring about.
THEOREM PipelineInvariant == Spec => []IInv
<1>1. Init => IInv
  BY InitInv, OcrConstants
<1>2. IInv /\ [Next]_vars => IInv'
  BY NextInv, OcrConstants
<1> QED  BY <1>1, <1>2, PTL DEF Spec

\* Every variable keeps its type; no attempt number passes the limit.
THEOREM OcrTypeCorrect == Spec => []TypeOK
<1>1. IInv => TypeOK
  BY DEF IInv
<1> QED  BY <1>1, PipelineInvariant, PTL

\* A document is claimed at most |Workers| - 1 times beyond OCR_MAX_ATTEMPTS.
THEOREM AttemptsBounded == Spec => []AttemptCap
<1>1. IInv => AttemptCap
  <2> SUFFICES ASSUME IInv, NEW d \in Docs PROVE doc[d].attempts <= AttemptLimit
    BY DEF AttemptCap
  <2>1. doc[d].attempts \in Nat /\ doc[d].attempts + Cardinality(Claiming(d)) <= AttemptLimit
    BY DEF IInv, TypeOK, OcrDocument, CapInv
  <2>2. Cardinality(Claiming(d)) \in Nat /\ AttemptLimit \in Nat
    BY ClaimingFinite, Limits, OcrConstants
  <2> QED  BY <2>1, <2>2
<1> QED  BY <1>1, PipelineInvariant, PTL

\* However many approvals overlap and are repeated, a line is recorded once.
THEOREM PriceOnce == Spec => []PriceOncePerLine
<1>1. IInv => PriceOncePerLine
  BY DEF IInv
<1> QED  BY <1>1, PipelineInvariant, PTL

\* An item of a receipt has a price from one attempt only, unless workers overlapped.
THEOREM ReceiptOnce == Spec => []ReceiptPricedOnce
<1>1. IInv => ReceiptPricedOnce
  <2> SUFFICES ASSUME IInv, NEW d \in Docs, NEW i \in Items, ~overlapped[d]
               PROVE  ~(Cardinality({a \in Attempts : prices[<<d, a, i>>] > 0}) > 1)
    BY DEF ReceiptPricedOnce
  <2>1. PICK a \in Attempts : \A b \in Attempts, j \in Items : Recorded(<<d, b, j>>) => b = a
    BY DEF IInv, BatchInv, Batches
  <2>2. {b \in Attempts : prices[<<d, b, i>>] > 0} \in SUBSET {a}
    BY <2>1 DEF Recorded
  <2>3. IsFiniteSet({a}) /\ Cardinality({a}) = 1
    BY FS_Singleton
  <2>4. /\ Cardinality({b \in Attempts : prices[<<d, b, i>>] > 0}) <= 1
        /\ Cardinality({b \in Attempts : prices[<<d, b, i>>] > 0}) \in Nat
    BY <2>2, <2>3, FS_Subset, FS_CardinalityType
  <2> QED  BY <2>4
<1> QED  BY <1>1, PipelineInvariant, PTL

\* Workers meet on a document only through a lease that ran out or a claim under way.
THEOREM OverlapsExplained == Spec => LeaseKeepsRunsApart
<1>1. ASSUME IInv, Next, NEW d \in Docs, ~overlapped[d], overlapped'[d]
      PROVE  \/ doc[d].lease = "expired"
             \/ \E w \in Workers : Busy(w, d) /\ worker[w].pc = "claim"
  <2>1. ASSUME NEW w \in Workers, NEW e \in Docs, ClaimRead(w, e)
        PROVE  \/ doc[d].lease = "expired"
               \/ \E v \in Workers : Busy(v, d) /\ worker[v].pc = "claim"
    <3>1. \A f \in Docs : overlapped'[f] <=>
            overlapped[f] \/ (f = e /\ \E v \in Workers : Busy(v, e))
      BY <1>1, <2>1, ClaimReadAdds
    <3>2. d = e /\ \E v \in Workers : Busy(v, d)
      BY <1>1, <3>1
    <3>3. Claimable(d)
      BY <2>1, <3>2 DEF ClaimRead
    <3>4. CASE doc[d].status = "PENDING"
      <4>1. PICK v \in Workers : Busy(v, d)
        BY <3>2
      <4>2. worker[v].pc = "claim"
        BY <1>1, <3>4, <4>1, AloneAtWork DEF Busy
      <4> QED  BY <4>1, <4>2
    <3> QED  BY <3>3, <3>4 DEF Claimable
  <2>2. ASSUME NEW w \in Workers,
               ClaimWrite(w) \/ ExtractOk(w) \/ InsertLines(w) \/ FailJob(w) \/ WorkerDies(w)
        PROVE  FALSE
    BY <1>1, <2>2, GoesOnOrLeaves
  <2>3. CASE \A w \in Workers : ~WorkerStep(w) /\ ~WorkerDies(w)
    BY <1>1, <2>3, WorkersAlone
  <2> QED  BY <1>1, <2>1, <2>2, <2>3 DEF WorkerStep
<1>2. IInv /\ [Next]_vars =>
        [\A d \in Docs : ~overlapped[d] /\ overlapped'[d] =>
           \/ doc[d].lease = "expired"
           \/ \E w \in Workers : Busy(w, d) /\ worker[w].pc = "claim"]_vars
  BY <1>1
<1> QED  BY <1>2, PipelineInvariant, PTL DEF Spec, LeaseKeepsRunsApart

\* A decided document goes back into the pipeline only if workers overlapped on it.
THEOREM DecisionsKept == Spec => DecisionUndoneOnlyByOverlap
<1>1. ASSUME IInv, Next, NEW d \in Docs, doc[d].status \in Decided,
             doc'[d].status \notin Decided \cup {"deleted"}
      PROVE  overlapped[d]
  <2>1. ASSUME NEW w \in Workers, NEW e \in Docs, ClaimRead(w, e) PROVE FALSE
    BY <1>1, <2>1, ClaimReadAdds
  <2>2. ASSUME NEW w \in Workers,
               ClaimWrite(w) \/ ExtractOk(w) \/ InsertLines(w) \/ FailJob(w) \/ WorkerDies(w)
        PROVE  overlapped[d]
    <3>1. worker[w].pc # "idle"
      BY <1>1, <2>2, GoesOnOrLeaves
    <3>2. worker[w].doc = d
      BY <1>1, <2>2, OtherDocs
    <3> QED  BY <1>1, <3>1, <3>2, AloneAtWork DEF Decided
  <2>3. CASE \A w \in Workers : ~WorkerStep(w) /\ ~WorkerDies(w)
    BY <1>1, <2>3, DocSteps DEF Decided
  <2> QED  BY <1>1, <2>1, <2>2, <2>3 DEF WorkerStep
<1>2. IInv /\ [Next]_vars =>
        [\A d \in Docs : doc[d].status \in Decided /\ doc'[d].status \notin Decided \cup {"deleted"}
           => overlapped[d]]_vars
  BY <1>1
<1> QED  BY <1>2, PipelineInvariant, PTL DEF Spec, DecisionUndoneOnlyByOverlap

\* When an approval confirms the document, each line it included is in the price history,
\* but for those it submitted without a label that can be recorded.
THEOREM ConfirmComplete == Spec => ConfirmRecordsEveryLine
<1>1. IInv /\ [Next]_vars =>
        [\A r \in Reviewers : Confirm(r) => \A l \in review[r].named : prices[l] > 0]_vars
  BY DEF IInv, PersistInv, Recorded, Confirm, LinesPersisted
<1> QED  BY <1>1, PipelineInvariant, PTL DEF Spec, ConfirmRecordsEveryLine
=============================================================================
