\* Two requests at a time, two receipt lines of one document, two snapshots and one incident.
CHECK_DEADLOCK FALSE
SPECIFICATION Spec
SYMMETRY MCSymmetry
CONSTANTS
  q1 = q1  q2 = q2  d1 = d1  c1 = c1  c2 = c2
  NoDoc = NoDoc  NoLine = NoLine  NoReceipt = NoReceipt  NoQty = NoQty
  PriceTolBps = 100  AbsolutePriceTol = 50  QtyTolBps = 100
  Staff = {q1, q2}
  Docs = {d1}
  OcrLines = {c1, c2}
  DocOf <- MCDocOf
  Selections = {{c1}, {c2}}
  Observed <- MCObserved
  Orders <- MCOrders
  MaxSaves = 1
  MaxSnaps = 2
  MaxIncidents = 1  Verdicts = {"REJECTED_PAIR"}
  RequestsDie = TRUE
INVARIANTS
  OpenAlertsAreCurrent
  StatusMatchesRows
  ConfirmedIsReconciled
PROPERTIES
  DismissedStays
  ImplementsSpendAlertBoard
  LinesAccountedFor
