-------------------------- MODULE MCReconciliation --------------------------
(* Reconciliation on small instances: prices in cents, quantities in thousandths. *)
EXTENDS Reconciliation, TLC

CONSTANTS q1, q2, d1, c1, c2

Line(norm, qty, cost) == [norm |-> norm, qty |-> qty, cost |-> cost]

\* One line for two receipts, and a line for each.
MCOrders == {<<Line("sheet", 10000, 1200)>>,
             <<Line("sheet", 10000, 1200), Line("sheet", 10000, 1000)>>}

\* A receipt at the first price, and one that names no quantity, of one document.
MCObserved == c1 :> [norm |-> "sheet", qty |-> 10000, price |-> 1000]
           @@ c2 :> [norm |-> "sheet", qty |-> NoQty, price |-> 1040]
MCDocOf == [c \in OcrLines |-> d1]
MCSymmetry == Permutations(Staff)
=============================================================================
