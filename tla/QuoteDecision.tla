---------------------------- MODULE QuoteDecision ----------------------------
(***************************************************************************)
(* What a public quote link promises, whoever races with whom: a link is   *)
(* handed out once, may be withdrawn for good, and carries at most one     *)
(* customer decision, which is taken while the link is in force and never  *)
(* changes afterwards.  EstimateLifecycle is shown to implement this.      *)
(***************************************************************************)

CONSTANTS Links,      \* the tokens the server can ever generate
          Intents     \* the decisions a customer can submit

VARIABLES issued,     \* links whose row has been committed
          revoked,    \* issued links that have been withdrawn
          decision    \* the customer's decision on each link, or "none"

qdVars == <<issued, revoked, decision>>

QDInit ==
  /\ issued = {}
  /\ revoked = {}
  /\ decision = [l \in Links |-> "none"]

\* Issuing a link may withdraw any of the links issued before it.
IssueLink(l, withdrawn) ==
  /\ l \notin issued
  /\ issued' = issued \cup {l}
  /\ revoked' = revoked \cup withdrawn
  /\ UNCHANGED decision

WithdrawLinks(withdrawn) ==
  /\ revoked' = revoked \cup withdrawn
  /\ UNCHANGED <<issued, decision>>

Decide(l, intent) ==
  /\ l \in issued \ revoked
  /\ decision[l] = "none"
  /\ decision' = [decision EXCEPT ![l] = intent]
  /\ UNCHANGED <<issued, revoked>>

QDNext ==
  \/ \E l \in Links, withdrawn \in SUBSET issued : IssueLink(l, withdrawn)
  \/ \E withdrawn \in SUBSET issued : WithdrawLinks(withdrawn)
  \/ \E l \in Links, intent \in Intents : Decide(l, intent)

QDSpec == QDInit /\ [][QDNext]_qdVars
=============================================================================
