\* Two staff members issuing, revoking and deleting while two customers answer.
\* A deleted estimate without links has no step left.
CHECK_DEADLOCK FALSE
SPECIFICATION Spec
CONSTANTS
  s1 = s1  s2 = s2  c1 = c1  c2 = c2  l1 = l1  l2 = l2  p1 = p1  p2 = p2
  contentA = contentA  contentB = contentB
  NoContent = NoContent  NoLink = NoLink  NoPo = NoPo
  Staff = {s1, s2}
  Customers = {c1, c2}
  Links = {l1, l2}
  Pos = {}
  Contents = {}
  StaffOps = {"issue", "revoke", "delete"}
  StatusTargets = {}
  ReconOutcomes = {}
  Isolated = FALSE
SYMMETRY Symmetry
INVARIANTS
  ActiveLinksOverlapped
  ToldTheTruth
PROPERTIES
  ImplementsQuoteDecision
