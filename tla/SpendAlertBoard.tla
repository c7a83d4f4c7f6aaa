--------------------------- MODULE SpendAlertBoard ---------------------------
(***************************************************************************)
(* What the spend alerts of a PO promise to the dashboard that counts      *)
(* them, however the runs that raise them overlap: a run raises its alerts *)
(* once, when it is published, and closes those of the runs that were      *)
(* published before it began; an alert is closed by a later run or         *)
(* dismissed by an operator, and neither is ever taken back; no alert is   *)
(* lost.  Reconciliation is shown to implement this.                       *)
(***************************************************************************)

CONSTANTS Runs,         \* the reconciliation runs of the PO
          Conditions    \* what an alert can be about

VARIABLES phase,        \* of each run: "none", "tx" while it is written, "committed"
          saw,          \* the runs that were published when it began
          raised,       \* the conditions it raised
          open,         \* those of them that still ask for attention
          dismissed     \* those an operator dismissed

boardVars == <<phase, saw, raised, open, dismissed>>

Published == {n \in Runs : phase[n] = "committed"}

BoardInit ==
  /\ phase = [n \in Runs |-> "none"] /\ saw = [n \in Runs |-> {}]
  /\ raised = [n \in Runs |-> {}]
  /\ open = raised /\ dismissed = raised

BeginRun(n) ==
  /\ phase[n] = "none"
  /\ phase' = [phase EXCEPT ![n] = "tx"]
  /\ saw' = [saw EXCEPT ![n] = Published]
  /\ UNCHANGED <<raised, open, dismissed>>

AbandonRun(n) ==
  /\ phase[n] = "tx"
  /\ phase' = [phase EXCEPT ![n] = "none"]
  /\ saw' = [saw EXCEPT ![n] = {}]
  /\ UNCHANGED <<raised, open, dismissed>>

\* Whatever is dismissed between its beginning and its end stays dismissed.
PublishRun(n) ==
  /\ phase[n] = "tx"
  /\ phase' = [phase EXCEPT ![n] = "committed"]
  /\ raised' \in [Runs -> SUBSET Conditions] /\ \A m \in Runs \ {n} : raised'[m] = raised[m]
  /\ open' = [m \in Runs |-> IF m = n THEN raised'[n] ELSE IF m \in saw[n] THEN {} ELSE open[m]]
  /\ UNCHANGED <<saw, dismissed>>

\* A condition that a later run has closed may still be marked as dismissed.
DismissConditions(n, about) ==
  /\ open' = [open EXCEPT ![n] = @ \ about]
  /\ dismissed' = [dismissed EXCEPT ![n] = @ \cup about]
  /\ UNCHANGED <<phase, saw, raised>>

BoardNext ==
  \/ \E n \in Runs : BeginRun(n) \/ AbandonRun(n) \/ PublishRun(n)
  \/ \E n \in Published : \E about \in SUBSET raised[n] : DismissConditions(n, about)

BoardSpec == BoardInit /\ [][BoardNext]_boardVars
=============================================================================
