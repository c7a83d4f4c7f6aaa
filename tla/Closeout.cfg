\* Approval, conversion, invoicing and finalization by two overlapping requests and a customer.
SPECIFICATION Spec
CONSTANTS
  s1 = s1  s2 = s2  c1 = c1  c2 = c2  l1 = l1  l2 = l2  p1 = p1  p2 = p2
  contentA = contentA  contentB = contentB
  NoContent = NoContent  NoLink = NoLink  NoPo = NoPo
  Staff = {s1, s2}
  Customers = {c1}
  Links = {l1}
  Pos = {p1}
  Contents = {contentA}
  StaffOps = {"issue", "save", "status", "finalize", "poConvert", "poBlank", "poQbo", "invoice", "pay"}
  StatusTargets = {"APPROVED"}
  ReconOutcomes = {}
  Isolated = FALSE
SYMMETRY Symmetry
INVARIANTS
  NothingBeforeApproval
PROPERTIES
  InvoiceIsFinal
