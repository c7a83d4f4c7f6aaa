\* Two overlapping ticks and two approvals on one document that may be tried twice.
CHECK_DEADLOCK FALSE
SPECIFICATION Spec
CONSTANTS
  w1 = w1  w2 = w2  r1 = r1  r2 = r2  i1 = i1  i2 = i2
  NoDoc = NoDoc
  Docs = {1}
  Workers = {w1, w2}
  Reviewers = {r1, r2}
  Items = {i1, i2}
  MaxAttempts = 2
  WorkersDie = TRUE
INVARIANTS
  ReceiptPricedOnce
  PriceOncePerLine
PROPERTIES
  DecisionUndoneOnlyByOverlap
  ConfirmRecordsEveryLine
  QueueDrains
