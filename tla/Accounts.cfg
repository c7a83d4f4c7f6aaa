\* Two requests at a time, two invitations, a reset link, three passwords and three sessions.
CHECK_DEADLOCK FALSE
SPECIFICATION Spec
SYMMETRY MCSymmetry
CONSTANTS
  q1 = q1  q2 = q2  i1 = i1  i2 = i2  r1 = r1
  NoToken = NoToken
  Requests = {q1, q2}
  Invites = {i1, i2}
  Links = {r1}
  MaxPasswords = 3
  MaxSessions = 3
INVARIANTS
  OldPasswordSignedOut
  TokensUsedOnce
