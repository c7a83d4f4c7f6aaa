----------------------------- MODULE ReconMatch -----------------------------
(***************************************************************************)
(* What a reconciliation snapshot computes (lib/reconciliation/match.ts    *)
(* and the first half of run.ts): the pairing of PO lines with approved    *)
(* receipt lines of the same label, the verdict on each pair, the status   *)
(* of the whole and the spend alerts.  No state: every operator is a       *)
(* function of the rows that were read.                                    *)
(*                                                                         *)
(* A PO line is [id, norm, qty, cost], with id = <<save, sortOrder>>, and  *)
(* a receipt line is [id, at, norm, qty, price]: at is the order of        *)
(* createdAt, norm the normalized label, qty in thousandths (NoQty: the    *)
(* receipt names none), money in cents.  A row of the snapshot names the   *)
(* two sides it relates, NoLine or NoReceipt when it has only one.         *)
(***************************************************************************)
EXTENDS Integers, FiniteSetsExt

CONSTANTS PriceTolBps, AbsolutePriceTol, QtyTolBps,   \* readReconciliationThresholds
          NoLine, NoReceipt, NoQty

ASSUME ThresholdsBounded ==
  /\ PriceTolBps \in 0..10000
  /\ AbsolutePriceTol \in 0..1000000
  /\ QtyTolBps \in 0..10000

PairedMatch == {"MATCHED", "PRICE_VARIANCE", "QTY_VARIANCE", "PRICE_AND_QTY_VARIANCE"}
MergeablePo == {"UNMATCHED_PO_LINE", "AMBIGUOUS_PO_LINE"}
MergeableReceipt == {"UNMATCHED_RECEIPT_LINE", "AMBIGUOUS_RECEIPT_LINE"}
Ambiguous == {"AMBIGUOUS_PO_LINE", "AMBIGUOUS_RECEIPT_LINE"}
POReconciliationLineMatch == PairedMatch \cup MergeablePo \cup MergeableReceipt

Distance(a, b) == IF a > b THEN a - b ELSE b - a
Larger(a, b) == IF a > b THEN a ELSE b

-----------------------------------------------------------------------------
(* The verdict on a pair *)

WithinPriceTolerance(expected, observed) ==
  Distance(observed, expected) <=
    Larger(AbsolutePriceTol, (expected * PriceTolBps) \div 10000)

WithinQtyTolerance(expected, observed) ==
  Distance(observed, expected) <= Larger(1000, (expected * QtyTolBps) \div 10000)

PriceBeyond(p, r) == ~WithinPriceTolerance(p.cost, r.price)
QtyBeyond(p, r) == r.qty = NoQty \/ ~WithinQtyTolerance(p.qty, r.qty)

ClassifyPairedLine(p, r) ==
  CASE PriceBeyond(p, r) /\ QtyBeyond(p, r)  -> "PRICE_AND_QTY_VARIANCE"
    [] PriceBeyond(p, r) /\ ~QtyBeyond(p, r) -> "PRICE_VARIANCE"
    [] ~PriceBeyond(p, r) /\ QtyBeyond(p, r) -> "QTY_VARIANCE"
    [] OTHER                                 -> "MATCHED"

-----------------------------------------------------------------------------
(* buildDeterministicReceiptDrafts *)

Labelled(S, norm) == {x \in S : x.norm = norm}
\* The lines of overlapping saves may share a sortOrder: the older come first.
Before(p, q) == p.id[2] < q.id[2] \/ (p.id[2] = q.id[2] /\ p.id[1] < q.id[1])
PoRank(p, lines) == Cardinality({q \in Labelled(lines, p.norm) : Before(q, p)})
ReceiptRank(r, receipts) == Cardinality({s \in Labelled(receipts, r.norm) : s.at < r.at})

\* Mutant: lines left over are no reason not to pair the others.
EnoughLines(lines, receipts, norm) ==
  Cardinality(Labelled(lines, norm)) >= Cardinality(Labelled(receipts, norm))

\* As many PO lines as receipt lines bear the label.
Balanced(lines, receipts, norm) ==
  Cardinality(Labelled(lines, norm)) = Cardinality(Labelled(receipts, norm))

Pairs(lines, receipts) ==
  {pr \in lines \X receipts :
     /\ pr[1].norm = pr[2].norm
     /\ Balanced(lines, receipts, pr[1].norm)
     /\ PoRank(pr[1], lines) = ReceiptRank(pr[2], receipts)}

PairRow(p, r) == [po |-> p.id, rc |-> r.id, match |-> ClassifyPairedLine(p, r),
                  missing |-> r.qty = NoQty]
PoRow(p, receipts) ==
  [po |-> p.id, rc |-> NoReceipt, missing |-> FALSE,
   match |-> IF Labelled(receipts, p.norm) = {} THEN "UNMATCHED_PO_LINE" ELSE "AMBIGUOUS_PO_LINE"]
ReceiptRow(r, lines) ==
  [po |-> NoLine, rc |-> r.id, missing |-> FALSE,
   match |-> IF Labelled(lines, r.norm) = {} THEN "UNMATCHED_RECEIPT_LINE"
             ELSE "AMBIGUOUS_RECEIPT_LINE"]

SnapshotRows(lines, receipts) ==
  LET alone(S) == {x \in S : ~Balanced(lines, receipts, x.norm)}
  IN  {PairRow(pr[1], pr[2]) : pr \in Pairs(lines, receipts)}
      \cup {PoRow(p, receipts) : p \in alone(lines)}
      \cup {ReceiptRow(r, lines) : r \in alone(receipts)}

-----------------------------------------------------------------------------
(* deriveAggregateStatus *)

DeriveAggregateStatus(rows) ==
  LET some(M) == \E w \in rows : w.match \in M
  IN IF some(Ambiguous) \/ (\E w \in rows : w.missing) THEN "REVIEW_REQUIRED"
     ELSE IF some({"PRICE_VARIANCE", "QTY_VARIANCE", "PRICE_AND_QTY_VARIANCE"}) THEN "VARIANCE"
     ELSE IF some({"UNMATCHED_PO_LINE", "UNMATCHED_RECEIPT_LINE"}) THEN "PARTIAL"
     ELSE IF rows = {} THEN "PENDING"
     ELSE "MATCHED"

-----------------------------------------------------------------------------
(* The alerts of a snapshot *)

\* Math.round of the extended price; a receipt line without a quantity counts once.
ExtendedObservation(r) ==
  (r.price * (IF r.qty = NoQty THEN 1000 ELSE r.qty) + 500) \div 1000

OverTotal(subtotal, receipts) ==
  MapThenSumSet(ExtendedObservation, receipts)
    > subtotal + Larger(AbsolutePriceTol, (subtotal * PriceTolBps) \div 10000)

\* An alert is identified by its kind and the rows it is about (reconciliationAlertIdentityKey).
SpendAlertSubject(kind, po, rc) == [kind |-> kind, po |-> po, rc |-> rc]

PairAlerts(lines, receipts) ==
  LET about(kind, beyond(_, _)) ==
        {SpendAlertSubject(kind, pr[1].id, pr[2].id) :
           pr \in {x \in Pairs(lines, receipts) : beyond(x[1], x[2])}}
  IN  about("PRICE_OVER_PO_EXPECTED", PriceBeyond) \cup about("QTY_MISMATCH", QtyBeyond)

LonelyAlerts(rows) ==
  {SpendAlertSubject("UNMATCHED_RECEIPT_LINE", NoLine, w.rc) :
     w \in {x \in rows : x.match = "UNMATCHED_RECEIPT_LINE"}}
  \cup {SpendAlertSubject("MISSING_PO_RECEIPT_LINE", w.po, NoReceipt) :
          w \in {x \in rows : x.match = "UNMATCHED_PO_LINE"}}

AlertSubjects(lines, receipts, subtotal) ==
  LET rows == SnapshotRows(lines, receipts)
      onPo(kind) == SpendAlertSubject(kind, NoLine, NoReceipt)
  IN  PairAlerts(lines, receipts) \cup LonelyAlerts(rows)
      \cup {onPo("RECONCILIATION_AMBIGUOUS") : w \in {x \in rows : x.match \in Ambiguous}}
      \cup {onPo("PO_TOTAL_OVER_EXPECTED") : x \in {y \in {subtotal} : OverTotal(y, receipts)}}
=============================================================================
