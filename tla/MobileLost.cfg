\* Two files picked, nothing fails: a change of the queue under way while the second is
\* added overwrites it.
SPECIFICATION Spec
CONSTANTS
  u1 = u1  u2 = u2  u3 = u3  h1 = h1  h2 = h2
  NoUpload = NoUpload  NoJob = NoJob  NoHandler = NoHandler
  Jobs = {1, 2}
  Uploads = {u1, u2}
  Handlers = {h1}
  Spoofed = {}
  MaxJobs = 2
  MaxFaults = 0
  Callbacks = {"first"}
  PersonOps = {}
INVARIANTS
  QueuedIsKept
