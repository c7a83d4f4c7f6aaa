\* One file, one fault, two progress callbacks at a time that no one awaits; what the phone gave
\* up on may still be running on the server.
SPECIFICATION Spec
CONSTANTS
  u1 = u1  u2 = u2  u3 = u3  h1 = h1  h2 = h2
  NoUpload = NoUpload  NoJob = NoJob  NoHandler = NoHandler
  Jobs = {1}
  Uploads = {u1, u2}
  Handlers = {h1, h2}
  Spoofed = {}
  MaxJobs = 1
  MaxFaults = 1
  Callbacks = {"first", "second"}
  PersonOps = {"retry", "dismiss"}
INVARIANTS
  OneAttachmentPerUpload
  AttachedHasBytes
PROPERTIES
  RemovedOnlyWhenRecorded
  QueueDelivers
