---------------------------- MODULE MCWorkQueues ----------------------------
(* The work queues on two POs, one of which only gets its number and a snapshot. *)
EXTENDS WorkQueues
CONSTANTS p1, p2

\* Room for one more row in the lists given, and none in the others.
RoomIn(lists) ==
  [list \in Lists |-> [s \in Subjects |-> IF list \in lists THEN Limit[list] - 1 ELSE Limit[list]]]

\* Each query that names the next step of a job, each queue that shows an open reconciliation,
\* has room alone.
MCCrowds ==
  {RoomIn({"noPo", "approved_waiting_po", "attention", "reconciliation_variance"}),
   RoomIn({"candidates", "ready_to_finalize", "lifecycle", "lifecycleSection"}),
   RoomIn({"invoice", "invoice_attention"}), RoomIn({"unpaid", "invoice_attention"})}
=============================================================================
