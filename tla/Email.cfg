\* An unparsable message before a good one, two overlapping ticks, an operator, one fault.
SPECIFICATION Spec
CONSTANTS
  t1 = t1  t2 = t2  o1 = o1  p1 = p1  p2 = p2  a1 = a1
  NoMessage = NoMessage  NoPo = NoPo
  Messages = {1, 2}
  Unparsable = {1}
  Pos = {p1, p2}
  Attachments = {a1}
  Ticks = {t1, t2}
  Operators = {o1}
  MaxBatch = 2
  MaxFaults = 1
INVARIANTS
  SeenOnlyWhenStored
  MatchedShowsOnTimeline
  OneReplyUnlessOverlap
PROPERTIES
  MailIsStored
