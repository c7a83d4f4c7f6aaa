\* A retried e-mail waits for a tick that never looks at it again.
SPECIFICATION Spec
CONSTANTS
  t1 = t1  t2 = t2  o1 = o1  p1 = p1  p2 = p2  a1 = a1
  NoMessage = NoMessage  NoPo = NoPo
  Messages = {1}
  Unparsable = {}
  Pos = {p1}
  Attachments = {a1}
  Ticks = {t1}
  Operators = {o1}
  MaxBatch = 2
  MaxFaults = 0
PROPERTIES
  RetryRunsMatcher
