\* The status handlers and their gates, each request finished before the next one starts.
SPECIFICATION Spec
CONSTANTS
  s1 = s1  s2 = s2  c1 = c1  c2 = c2  l1 = l1  l2 = l2  p1 = p1  p2 = p2
  contentA = contentA  contentB = contentB
  NoContent = NoContent  NoLink = NoLink  NoPo = NoPo
  Staff = {s1, s2}
  Customers = {c1}
  Links = {l1}
  Pos = {p1, p2}
  Contents = {contentA}
  StaffOps = {"save", "status", "finalize", "unfinalize", "send", "poConvert", "poBlank", "poQbo", "poDelete"}
  StatusTargets = {"DRAFT", "APPROVED", "REJECTED"}
  ReconOutcomes = {"MATCHED", "VARIANCE"}
  Isolated = TRUE
SYMMETRY SymmetryPos
INVARIANTS
  TotalsMatchLines
PROPERTIES
  FinalizedOnlyWhenGatesHold
  FinalizedStands
