\* One estimate with a PO that goes through everything and one that only gets a number and
\* then a snapshot.
\* When everything is deleted nothing is left to do.
CHECK_DEADLOCK FALSE
SPECIFICATION Spec
CONSTANTS
  p1 = p1  p2 = p2
  Pos = {p1, p2}
  Quiet = {p2}
  Blank = {p1}
  StatusTargets = {"SENT", "CANCELED"}
  ReconOutcomes = {"MATCHED", "VARIANCE"}
  PoEventKinds = {"OPERATOR_BLOCKED"}
  Crowds <- MCCrowds
INVARIANTS
  ApprovedIsListed
  BlockedCloseoutIsListed
  ReadyUnlessSiblingBlocks
  ScreensAgree
  LinksLeadSomewhere
  OffersAreAccepted
  RowsCanBeCleared
PROPERTIES
  JobStaysListed
