-------------------------- MODULE MobileUploadProofs --------------------------
(***************************************************************************)
(* Theorems about the upload server and the phone's upload queue, for any  *)
(* number of files, reservations, requests and faults.  The server comes   *)
(* first, alone and for any client; then the queue that is one of its      *)
(* clients.                                                                *)
(***************************************************************************)
EXTENDS MobileUpload, TLAPS, SequenceTheorems

-----------------------------------------------------------------------------
(* The upload server *)

\* The server starts in its invariant.
LEMMA ServerInitInv == ServerInit => ServerInv
<1> SUFFICES ASSUME ServerInit PROVE ServerInv
  OBVIOUS
<1>1. ServerTypeOK
  <2>1. IdleHandler \in [pc : HandlerPcs, upload : Uploads \cup {NoUpload}, reply : Replies]
    BY DEF IdleHandler, HandlerPcs, Replies
  <2> QED  BY <2>1 DEF ServerInit, ServerTypeOK
<1>2. OneAttachmentPerUpload /\ AttachedHasBytes
  BY DEF ServerInit, OneAttachmentPerUpload, AttachedHasBytes
<1>3. \A h \in Handlers : handler[h].pc = "idle"
  BY DEF ServerInit, IdleHandler
<1> QED  BY <1>1, <1>2, <1>3 DEF ServerInv, CrowdInv, AloneInv, Working

\* A request arrives: if it sets to work on an upload that another handler works on, the
\* upload is marked crowded; if it does so on a reservation alone, the row is open, or the
\* request is a replay.
LEMMA ArriveInv ==
  ASSUME ServerInv, UploadConstants, NEW h \in Handlers, NEW u \in Uploads,
         NEW pc \in {"putBody", "statFile", "replay", "replied"},
         NEW reply \in {"none", "refused"},
         pc \in {"putBody", "statFile"} => pending[u].state = "open",
         Arrive(h, u, pc, reply)
  PROVE  ServerInv'
<1> USE DEF ServerInv, ServerTypeOK
<1>1. /\ handler' = [handler EXCEPT ![h] = [pc |-> pc, upload |-> u, reply |-> reply]]
      /\ UNCHANGED <<pending, file, attached, added, ocr, poDeleted>>
      /\ handler[h].pc = "idle"
  BY DEF Arrive, serverData, At
<1>2. crowded \subseteq crowded' /\ crowded' \subseteq crowded \cup {u}
  BY DEF Arrive
<1>3. \A g \in Handlers \ {h} : handler'[g] = handler[g]
  BY <1>1
<1>4. handler'[h] = [pc |-> pc, upload |-> u, reply |-> reply]
  BY <1>1
<1>5. ServerTypeOK'
  <2>1. [pc |-> pc, upload |-> u, reply |-> reply]
          \in [pc : HandlerPcs, upload : Uploads \cup {NoUpload}, reply : Replies]
    BY DEF HandlerPcs, Replies
  <2> QED  BY <1>1, <1>2, <2>1
<1>6. OneAttachmentPerUpload' /\ AttachedHasBytes'
  BY <1>1, <1>2 DEF OneAttachmentPerUpload, AttachedHasBytes
<1>7. CrowdInv'
  <2>1. ASSUME NEW g \in Handlers \ {h}, Working(g, u), pc # "replied" PROVE u \in crowded'
    BY <2>1 DEF Arrive
  <2>2. \A g \in Handlers \ {h}, v \in Uploads : Working(g, v)' <=> Working(g, v)
    BY <1>3 DEF Working
  <2>3. \A v \in Uploads : Working(h, v)' => v = u /\ pc # "replied"
    BY <1>4 DEF Working
  <2> QED  BY <1>2, <2>1, <2>2, <2>3 DEF CrowdInv
<1>8. AloneInv'
  <2>1. ASSUME NEW g \in Handlers \ {h}, NEW v \in Uploads
        PROVE  Working(g, v)' /\ v \notin crowded' =>
                 /\ handler'[g].pc \notin {"raced", "replay", "enqueue"} => pending'[v].state = "open"
                 /\ handler'[g].pc \in {"probeFile", "findPo", "commit"} => file'[v] = "full"
    BY <1>1, <1>2, <1>3 DEF AloneInv, Working
  <2>2. ASSUME NEW v \in Uploads, Working(h, v)'
        PROVE  /\ handler'[h].pc \notin {"raced", "replay", "enqueue"} => pending'[v].state = "open"
               /\ handler'[h].pc \notin {"probeFile", "findPo", "commit"}
    BY <1>1, <1>4, <2>2 DEF Working
  <2> QED  BY <2>1, <2>2 DEF AloneInv
<1>9. \A g \in Handlers : handler'[g].pc # "idle" => handler'[g].upload \in Uploads
  BY <1>3, <1>4
<1> QED  BY <1>5, <1>6, <1>7, <1>8, <1>9

\* PUT and complete arrive.
LEMMA ArrivalsInv ==
  ASSUME ServerInv, UploadConstants, NEW h \in Handlers, NEW u \in Uploads,
         PutArrives(h, u) \/ CompleteArrives(h, u)
  PROVE  ServerInv'
<1>1. CASE PutArrives(h, u)
  BY <1>1, ArriveInv DEF PutArrives
<1>2. CASE CompleteArrives(h, u) /\ pending[u].expired
  BY <1>2, ArriveInv DEF CompleteArrives
<1>3. CASE CompleteArrives(h, u) /\ ~pending[u].expired /\ pending[u].state = "completed"
  BY <1>3, ArriveInv DEF CompleteArrives
<1>4. CASE CompleteArrives(h, u) /\ ~pending[u].expired /\ pending[u].state # "completed"
  <2>1. Arrive(h, u, "statFile", "none")
    BY <1>4 DEF CompleteArrives
  <2>2. pending[u].state = "open"
    BY <1>4, <2>1 DEF Arrive, Issued, ServerInv, ServerTypeOK
  <2> QED  BY <2>1, <2>2, ArriveInv
<1> QED  BY <1>1, <1>2, <1>3, <1>4

\* A step of handler h that leaves the uploads' rows and files alone and goes on to pc or replies.
LEMMA QuietStepInv ==
  ASSUME ServerInv, NEW h \in Handlers, NEW pc \in HandlerPcs, NEW reply \in Replies,
         UNCHANGED <<pending, file, attached, added, poDeleted, crowded>>,
         ocr' \subseteq Uploads,
         handler' = [handler EXCEPT ![h].pc = pc, ![h].reply = reply],
         handler[h].pc \notin {"idle", "replied"},
         \/ pc \in {"replied", "raced"}
         \/ /\ pc \in {"probeFile", "findPo", "commit", "unlink"}
            /\ handler[h].pc \in {"statFile", "probeFile", "findPo"}
            /\ pc = "probeFile" => file[handler[h].upload] = "full"
            /\ pc \in {"findPo", "commit"} => handler[h].pc # "statFile"
  PROVE  ServerInv'
<1> USE DEF ServerInv, ServerTypeOK
<1>1. UNCHANGED <<pending, file, attached, added, poDeleted, crowded>> /\ ocr' \subseteq Uploads
  OBVIOUS
<1>2. \A g \in Handlers \ {h} : handler'[g] = handler[g]
  OBVIOUS
<1>3. /\ handler'[h].pc = pc /\ handler'[h].reply = reply
      /\ handler'[h].upload = handler[h].upload
  OBVIOUS
<1>4. ServerTypeOK'
  <2>1. [handler[h] EXCEPT !.pc = pc, !.reply = reply]
          \in [pc : HandlerPcs, upload : Uploads \cup {NoUpload}, reply : Replies]
    OBVIOUS
  <2>2. handler' = [handler EXCEPT ![h] = [handler[h] EXCEPT !.pc = pc, !.reply = reply]]
    OBVIOUS
  <2> QED  BY <1>1, <2>1, <2>2
<1>5. OneAttachmentPerUpload' /\ AttachedHasBytes'
  BY <1>1 DEF OneAttachmentPerUpload, AttachedHasBytes
<1>6. \A g \in Handlers, v \in Uploads : Working(g, v)' => Working(g, v)
  BY <1>2, <1>3 DEF Working
<1>7. CrowdInv'
  BY <1>1, <1>6 DEF CrowdInv
<1>8. AloneInv'
  <2>1. ASSUME NEW g \in Handlers \ {h}, NEW v \in Uploads, Working(g, v)', v \notin crowded'
        PROVE  /\ handler'[g].pc \notin {"raced", "replay", "enqueue"} => pending'[v].state = "open"
               /\ handler'[g].pc \in {"probeFile", "findPo", "commit"} => file'[v] = "full"
    BY <1>1, <1>2, <1>6, <2>1 DEF AloneInv
  <2>2. ASSUME NEW v \in Uploads, Working(h, v)', v \notin crowded'
        PROVE  /\ handler'[h].pc \notin {"raced", "replay", "enqueue"} => pending'[v].state = "open"
               /\ handler'[h].pc \in {"probeFile", "findPo", "commit"} => file'[v] = "full"
    <3>1. v = handler[h].upload /\ Working(h, v) /\ v \notin crowded /\ pc # "replied"
      BY <1>1, <1>3, <1>6, <2>2 DEF Working
    <3>2. CASE pc = "raced"
      BY <1>3, <3>2
    <3>3. CASE pc # "raced"
      BY <1>1, <1>3, <3>1, <3>3 DEF AloneInv
    <3> QED  BY <3>2, <3>3
  <2> QED  BY <2>1, <2>2 DEF AloneInv
<1>9. \A g \in Handlers : handler'[g].pc # "idle" => handler'[g].upload \in Uploads
  BY <1>2, <1>3
<1> QED  BY <1>4, <1>5, <1>7, <1>8, <1>9

\* Replying and going on are such updates of the handler's record.
LEMMA HandlerUpdates ==
  ASSUME ServerTypeOK, NEW h \in Handlers
  PROVE  /\ \A pc \in HandlerPcs : Continue(h, pc) =>
              handler' = [handler EXCEPT ![h].pc = pc, ![h].reply = handler[h].reply]
         /\ \A reply \in Replies : Reply(h, reply) =>
              handler' = [handler EXCEPT ![h].pc = "replied", ![h].reply = reply]
         /\ handler[h].reply \in Replies
BY DEF ServerTypeOK, Continue, Reply

\* The steps of complete that only look, the enqueue of the OCR job, and a PUT that fails.
LEMMA QuietStepsInv ==
  ASSUME ServerInv, NEW h \in Handlers,
         \/ CompleteFindAttachment(h) \/ CompleteEnqueueOcr(h) \/ CompleteStat(h) \/ CompleteProbe(h)
         \/ CompleteFindPo(h) \/ CompleteCommitFails(h) \/ PutFails(h)
  PROVE  ServerInv'
<1> DEFINE To(pc, reply) == handler' = [handler EXCEPT ![h].pc = pc, ![h].reply = reply]
<1> USE DEF At
<1>1. /\ ServerTypeOK /\ UNCHANGED <<pending, file, attached, added, poDeleted, crowded>>
      /\ ocr' \subseteq Uploads
  <2>1. CASE CompleteEnqueueOcr(h)
    <3>1. handler[h].upload \in Uploads
      BY <2>1 DEF ServerInv, CompleteEnqueueOcr
    <3> QED  BY <2>1, <3>1 DEF ServerInv, ServerTypeOK, CompleteEnqueueOcr
  <2>2. CASE UNCHANGED <<serverData, crowded>>
    BY <2>2 DEF ServerInv, ServerTypeOK, serverData
  <2> QED
    BY <2>1, <2>2 DEF CompleteFindAttachment, CompleteStat, CompleteProbe, CompleteFindPo,
                      CompleteCommitFails, PutFails
<1>0. /\ \A pc \in HandlerPcs : Continue(h, pc) => To(pc, handler[h].reply)
      /\ \A reply \in Replies : Reply(h, reply) => To("replied", reply)
      /\ handler[h].reply \in Replies
  BY <1>1, HandlerUpdates
<1> HIDE DEF To
<1>2. CASE CompleteFindAttachment(h) \/ PutFails(h) \/ CompleteEnqueueOcr(h)
  <2>1. PICK reply \in {"ok", "replay", "refused"} : Reply(h, reply)
    BY <1>2 DEF CompleteFindAttachment, PutFails, CompleteEnqueueOcr
  <2>2. handler[h].pc \notin {"idle", "replied"}
    BY <1>2 DEF CompleteFindAttachment, PutFails, CompleteEnqueueOcr
  <2>3. reply \in Replies /\ To("replied", reply) /\ "replied" \in HandlerPcs
    <3>1. reply \in Replies /\ "replied" \in HandlerPcs
      BY DEF Replies, HandlerPcs
    <3> QED  BY <1>0, <2>1, <3>1
  <2> QED  BY <1>1, <2>2, <2>3, QuietStepInv DEF To
<1>3. CASE CompleteStat(h) \/ CompleteProbe(h) \/ CompleteFindPo(h) \/ CompleteCommitFails(h)
  <2> DEFINE u == handler[h].upload
  <2>1. \/ Reply(h, "refused")
        \/ Continue(h, "raced")
        \/ Continue(h, "unlink") /\ handler[h].pc # "commit"
        \/ Continue(h, "probeFile") /\ handler[h].pc = "statFile" /\ file[u] = "full"
        \/ Continue(h, "findPo") /\ handler[h].pc = "probeFile"
        \/ Continue(h, "commit") /\ handler[h].pc = "findPo"
    BY <1>3 DEF CompleteStat, CompleteProbe, CompleteFindPo, CompleteCommitFails
  <2>2. handler[h].pc \in {"statFile", "probeFile", "findPo", "commit"}
    BY <1>3 DEF CompleteStat, CompleteProbe, CompleteFindPo, CompleteCommitFails
  <2>3. {"replied", "raced", "unlink", "probeFile", "findPo", "commit"} \subseteq HandlerPcs
    BY DEF HandlerPcs
  <2>4. CASE Reply(h, "refused")
    <3>1. To("replied", "refused") /\ "refused" \in Replies
      <4>1. "refused" \in Replies
        BY DEF Replies
      <4> QED  BY <1>0, <2>4, <4>1
    <3> QED  BY <1>1, <2>2, <2>3, <3>1, QuietStepInv DEF To
  <2>5. ASSUME NEW pc \in {"raced", "unlink", "probeFile", "findPo", "commit"}, Continue(h, pc)
        PROVE  To(pc, handler[h].reply) /\ handler[h].reply \in Replies
    BY <1>0, <2>3, <2>5
  <2>6. CASE Continue(h, "raced")
    BY <1>1, <2>2, <2>3, <2>5, <2>6, QuietStepInv DEF To
  <2>7. CASE Continue(h, "unlink") /\ handler[h].pc # "commit"
    BY <1>1, <2>2, <2>3, <2>5, <2>7, QuietStepInv DEF To
  <2>8. CASE Continue(h, "probeFile") /\ handler[h].pc = "statFile" /\ file[u] = "full"
    BY <1>1, <2>2, <2>3, <2>5, <2>8, QuietStepInv DEF To
  <2>9. CASE Continue(h, "findPo") /\ handler[h].pc = "probeFile"
    BY <1>1, <2>2, <2>3, <2>5, <2>9, QuietStepInv DEF To
  <2>10. CASE Continue(h, "commit") /\ handler[h].pc = "findPo"
    BY <1>1, <2>2, <2>3, <2>5, <2>10, QuietStepInv DEF To
  <2> QED  BY <2>1, <2>4, <2>6, <2>7, <2>8, <2>9, <2>10
<1> QED  BY <1>2, <1>3

\* A handler that works on an upload whose attachment is listed shares it with another.
LEMMA AttachedIsDone ==
  ASSUME ServerInv, NEW u \in Uploads, attached[u] > 0
  PROVE  pending[u].state = "completed" /\ attached[u] = 1 /\ added[u] = 1
BY DEF ServerInv, ServerTypeOK, OneAttachmentPerUpload

\* PUT writes the file, or complete unlinks it: nobody relies on it, unless crowded.
LEMMA FileStepsInv ==
  ASSUME ServerInv, NEW h \in Handlers,
         PutTruncate(h) \/ PutFill(h) \/ CompleteUnlink(h)
  PROVE  ServerInv'
<1> DEFINE u == handler[h].upload
<1> USE DEF ServerInv, ServerTypeOK
<1>1. /\ handler[h].pc \in {"putBody", "putWrite", "unlink"} /\ u \in Uploads /\ Working(h, u)
      /\ UNCHANGED <<pending, attached, added, ocr, poDeleted, crowded>>
  BY DEF PutTruncate, PutFill, CompleteUnlink, At, Working
<1>2. PICK left \in {"none", "partial", "full"} : file' = [file EXCEPT ![u] = left]
  BY DEF PutTruncate, PutFill, CompleteUnlink
<1>3. PICK pc \in {"putWrite", "replied"}, reply \in Replies :
        handler' = [handler EXCEPT ![h].pc = pc, ![h].reply = reply]
  <2>1. "putWrite" \in HandlerPcs /\ "ok" \in Replies /\ "refused" \in Replies
    BY DEF HandlerPcs, Replies
  <2> QED  BY <2>1, HandlerUpdates DEF PutTruncate, PutFill, CompleteUnlink
<1>4. \A g \in Handlers \ {h} : handler'[g] = handler[g]
  BY <1>3
<1>5. handler'[h].pc = pc /\ handler'[h].upload = u
  BY <1>3
<1>6. ServerTypeOK'
  <2>1. pc \in HandlerPcs
    BY DEF HandlerPcs
  <2>2. [handler[h] EXCEPT !.pc = pc, !.reply = reply]
          \in [pc : HandlerPcs, upload : Uploads \cup {NoUpload}, reply : Replies]
    BY <2>1
  <2>3. handler' = [handler EXCEPT ![h] = [handler[h] EXCEPT !.pc = pc, !.reply = reply]]
    BY <1>3
  <2> QED  BY <1>1, <1>2, <2>2, <2>3
<1>7. OneAttachmentPerUpload'
  BY <1>1 DEF OneAttachmentPerUpload
<1>8. u \notin crowded => pending[u].state = "open"
  BY <1>1 DEF AloneInv
<1>9. AttachedHasBytes'
  BY <1>1, <1>2, <1>8, AttachedIsDone DEF AttachedHasBytes
<1>10. \A g \in Handlers, v \in Uploads : Working(g, v)' => Working(g, v)
  BY <1>1, <1>4, <1>5 DEF Working
<1>11. CrowdInv'
  BY <1>1, <1>10 DEF CrowdInv
<1>12. AloneInv'
  <2>1. ASSUME NEW g \in Handlers \ {h}, NEW v \in Uploads, Working(g, v)', v \notin crowded'
        PROVE  /\ handler'[g].pc \notin {"raced", "replay", "enqueue"} => pending'[v].state = "open"
               /\ handler'[g].pc \in {"probeFile", "findPo", "commit"} => file'[v] = "full"
    <3>1. Working(g, v) /\ v \notin crowded
      BY <1>1, <1>10, <2>1
    <3>2. v # u
      BY <1>1, <3>1 DEF CrowdInv
    <3> QED  BY <1>1, <1>2, <1>4, <3>1, <3>2 DEF AloneInv
  <2>2. ASSUME NEW v \in Uploads, Working(h, v)', v \notin crowded'
        PROVE  /\ pending'[v].state = "open"
               /\ handler'[h].pc \notin {"probeFile", "findPo", "commit"}
    BY <1>1, <1>5, <1>8, <2>2 DEF Working
  <2> QED  BY <2>1, <2>2 DEF AloneInv
<1>13. \A g \in Handlers : handler'[g].pc # "idle" => handler'[g].upload \in Uploads
  BY <1>1, <1>4, <1>5
<1> QED  BY <1>6, <1>7, <1>9, <1>11, <1>12, <1>13

\* The transaction of complete: it marks the row and inserts the attachment together.
LEMMA CommitInv ==
  ASSUME ServerInv, NEW h \in Handlers, CompleteCommit(h)
  PROVE  ServerInv'
<1> DEFINE u == handler[h].upload
<1> USE DEF ServerInv, ServerTypeOK
<1>1. /\ handler[h].pc = "commit" /\ u \in Uploads /\ Working(h, u)
      /\ UNCHANGED <<file, ocr, poDeleted, crowded>>
  BY DEF CompleteCommit, At, Working
<1>2. CASE ~Markable(u)
  <2>1. Continue(h, "raced") /\ UNCHANGED <<pending, attached, added>>
    BY <1>2 DEF CompleteCommit
  <2>2. "raced" \in HandlerPcs
    BY DEF HandlerPcs
  <2>3. handler' = [handler EXCEPT ![h].pc = "raced", ![h].reply = handler[h].reply]
    BY <2>1, <2>2, HandlerUpdates
  <2> QED  BY <1>1, <2>1, <2>2, <2>3, QuietStepInv
<1>3. CASE Markable(u)
  <2>1. /\ pending' = [pending EXCEPT ![u].state = "completed"]
        /\ attached' = [attached EXCEPT ![u] = @ + 1]
        /\ added' = [added EXCEPT ![u] = @ + 1]
        /\ handler' = [handler EXCEPT ![h].pc = "enqueue"]
    BY <1>3 DEF CompleteCommit, Continue
  <2>2. added[u] = 0 /\ attached[u] = 0
    BY <1>1, <1>3 DEF Markable, OneAttachmentPerUpload
  <2>3. /\ \A g \in Handlers \ {h} : handler'[g] = handler[g]
        /\ handler'[h].pc = "enqueue" /\ handler'[h].upload = u
    BY <2>1
  <2>4. /\ \A v \in Uploads \ {u} : /\ pending'[v] = pending[v] /\ attached'[v] = attached[v]
                                    /\ added'[v] = added[v]
        /\ pending'[u].state = "completed" /\ attached'[u] = 1 /\ added'[u] = 1
    BY <1>1, <2>1, <2>2
  <2>5. ServerTypeOK'
    <3>1. [handler[h] EXCEPT !.pc = "enqueue"]
            \in [pc : HandlerPcs, upload : Uploads \cup {NoUpload}, reply : Replies]
      BY DEF HandlerPcs
    <3>2. [pending[u] EXCEPT !.state = "completed"]
            \in [state : {"none", "open", "completed"}, expired : BOOLEAN]
      BY <1>1
    <3>3. attached[u] + 1 \in Nat /\ added[u] + 1 \in Nat
      BY <1>1
    <3> QED  BY <1>1, <2>1, <3>1, <3>2, <3>3
  <2>6. OneAttachmentPerUpload'
    BY <1>1, <2>4 DEF OneAttachmentPerUpload
  <2>7. AttachedHasBytes'
    <3>1. u \notin crowded => file[u] = "full"
      BY <1>1 DEF AloneInv
    <3> QED  BY <1>1, <2>4, <3>1 DEF AttachedHasBytes
  <2>8. \A g \in Handlers, v \in Uploads : Working(g, v)' => Working(g, v)
    BY <1>1, <2>3 DEF Working
  <2>9. CrowdInv'
    BY <1>1, <2>8 DEF CrowdInv
  <2>10. AloneInv'
    <3>1. ASSUME NEW g \in Handlers \ {h}, NEW v \in Uploads, Working(g, v)', v \notin crowded'
          PROVE  /\ handler'[g].pc \notin {"raced", "replay", "enqueue"} => pending'[v].state = "open"
                 /\ handler'[g].pc \in {"probeFile", "findPo", "commit"} => file'[v] = "full"
      <4>1. Working(g, v) /\ v \notin crowded
        BY <1>1, <2>8, <3>1
      <4>2. v # u
        BY <1>1, <4>1 DEF CrowdInv
      <4> QED  BY <1>1, <2>3, <2>4, <4>1, <4>2 DEF AloneInv
    <3> QED  BY <2>3, <3>1 DEF AloneInv
  <2>11. \A g \in Handlers : handler'[g].pc # "idle" => handler'[g].upload \in Uploads
    BY <1>1, <2>3
  <2> QED  BY <2>5, <2>6, <2>7, <2>9, <2>10, <2>11
<1> QED  BY <1>2, <1>3

\* Presign, the expiry of a reservation, and what the staff delete.
LEMMA AroundInv ==
  ASSUME ServerInv, NEW u \in Uploads,
         Presign(u) \/ Expire(u) \/ DeleteAttachment(u) \/ DeletePo
  PROVE  ServerInv'
<1> USE DEF ServerInv, ServerTypeOK
<1>1. UNCHANGED <<handler, crowded>>
  BY DEF Presign, Expire, DeleteAttachment, DeletePo
<1>2. CrowdInv' /\ \A g \in Handlers : handler'[g].pc # "idle" => handler'[g].upload \in Uploads
  BY <1>1 DEF CrowdInv, Working
<1>3. CASE Presign(u)
  <2>1. /\ pending[u].state = "none" /\ pending' = [pending EXCEPT ![u].state = "open"]
        /\ UNCHANGED <<file, attached, added, ocr, poDeleted>>
    BY <1>3 DEF Presign, Issued
  <2>2. /\ pending'[u].state = "open" /\ \A v \in Uploads \ {u} : pending'[v] = pending[v]
        /\ pending' \in [Uploads -> [state : {"none", "open", "completed"}, expired : BOOLEAN]]
    BY <2>1
  <2>3. ServerTypeOK' /\ OneAttachmentPerUpload' /\ AttachedHasBytes'
    BY <1>1, <2>1, <2>2 DEF OneAttachmentPerUpload, AttachedHasBytes
  <2>4. AloneInv'
    BY <1>1, <2>1, <2>2 DEF AloneInv, Working
  <2> QED  BY <1>2, <2>3, <2>4
<1>4. CASE Expire(u)
  <2>1. /\ pending' = [pending EXCEPT ![u].expired = TRUE]
        /\ UNCHANGED <<file, attached, added, ocr, poDeleted>>
    BY <1>4 DEF Expire
  <2>2. /\ \A v \in Uploads : pending'[v].state = pending[v].state
        /\ pending' \in [Uploads -> [state : {"none", "open", "completed"}, expired : BOOLEAN]]
    BY <2>1
  <2>3. ServerTypeOK' /\ OneAttachmentPerUpload' /\ AttachedHasBytes'
    BY <1>1, <2>1, <2>2 DEF OneAttachmentPerUpload, AttachedHasBytes
  <2>4. AloneInv'
    BY <1>1, <2>1, <2>2 DEF AloneInv, Working
  <2> QED  BY <1>2, <2>3, <2>4
<1>5. CASE DeleteAttachment(u)
  <2>1. PICK left \in {file[u], "none"} : file' = [file EXCEPT ![u] = left]
    BY <1>5 DEF DeleteAttachment
  <2>2. /\ attached[u] > 0 /\ attached' = [attached EXCEPT ![u] = @ - 1]
        /\ UNCHANGED <<pending, added, poDeleted>> /\ ocr' \subseteq Uploads
    BY <1>5 DEF DeleteAttachment
  <2>3. pending[u].state = "completed" /\ attached[u] = 1 /\ added[u] = 1
    BY <2>2, AttachedIsDone
  <2>4. /\ attached'[u] = 0 /\ \A v \in Uploads \ {u} : attached'[v] = attached[v]
        /\ attached' \in [Uploads -> Nat]
    BY <2>2, <2>3
  <2>5. ServerTypeOK'
    BY <1>1, <2>1, <2>2, <2>4
  <2>6. OneAttachmentPerUpload' /\ AttachedHasBytes'
    BY <1>1, <2>1, <2>2, <2>3, <2>4 DEF OneAttachmentPerUpload, AttachedHasBytes
  <2>7. AloneInv'
    BY <1>1, <2>1, <2>2, <2>3 DEF AloneInv, Working
  <2> QED  BY <1>2, <2>5, <2>6, <2>7
<1>6. CASE DeletePo
  <2>1. UNCHANGED <<pending, file, attached, added, ocr>> /\ poDeleted' \in BOOLEAN
    BY <1>6 DEF DeletePo
  <2>2. ServerTypeOK' /\ OneAttachmentPerUpload' /\ AttachedHasBytes'
    BY <1>1, <2>1 DEF OneAttachmentPerUpload, AttachedHasBytes
  <2>3. AloneInv'
    BY <1>1, <2>1 DEF AloneInv, Working
  <2> QED  BY <1>2, <2>2, <2>3
<1> QED  BY <1>3, <1>4, <1>5, <1>6

\* A restart of the server and the end of a request leave less work in progress.
LEMMA FewerHandlersInv ==
  ASSUME ServerInv, RestartServer \/ \E h \in Handlers : Hangup(h)
  PROVE  ServerInv'
<1> USE DEF ServerInv, ServerTypeOK
<1>1. UNCHANGED <<pending, file, attached, added, ocr, poDeleted, crowded>>
  BY DEF RestartServer, Hangup, serverData
<1>2. /\ handler' \in [Handlers -> [pc : HandlerPcs, upload : Uploads \cup {NoUpload},
                                   reply : Replies]]
      /\ \A g \in Handlers : \/ handler'[g] = handler[g]
                            \/ handler'[g].pc = "idle"
                            \/ /\ handler'[g].pc = "replied"
                               /\ handler[g].pc # "idle"
                               /\ handler'[g].upload = handler[g].upload
  <2>1. CASE RestartServer
    BY <2>1 DEF RestartServer, HandlerPcs, Replies
  <2>2. ASSUME NEW h \in Handlers, Hangup(h)
        PROVE  /\ handler' \in [Handlers -> [pc : HandlerPcs, upload : Uploads \cup {NoUpload},
                                            reply : Replies]]
               /\ \A g \in Handlers : handler'[g] = handler[g] \/ handler'[g].pc = "idle"
    BY <2>2 DEF Hangup, IdleHandler, HandlerPcs, Replies
  <2> QED  BY <2>1, <2>2
<1>3. ServerTypeOK' /\ OneAttachmentPerUpload' /\ AttachedHasBytes'
  BY <1>1, <1>2 DEF OneAttachmentPerUpload, AttachedHasBytes
<1>4. \A g \in Handlers, v \in Uploads :
        Working(g, v)' => Working(g, v) /\ handler'[g] = handler[g]
  BY <1>2 DEF Working
<1>5. CrowdInv'
  BY <1>1, <1>4 DEF CrowdInv
<1>6. AloneInv'
  BY <1>1, <1>4 DEF AloneInv
<1>7. \A g \in Handlers : handler'[g].pc # "idle" => handler'[g].upload \in Uploads
  BY <1>2
<1> QED  BY <1>3, <1>5, <1>6, <1>7

-----------------------------------------------------------------------------
\* Every step of the server keeps its invariant.
LEMMA ServerStepInv ==
  ASSUME ServerInv, [ServerNext]_serverVars PROVE ServerInv'
<1>1. ASSUME NEW h \in Handlers, NEW u \in Uploads, PutArrives(h, u) \/ CompleteArrives(h, u)
      PROVE  ServerInv'
  BY <1>1, UploadConstants, ArrivalsInv
<1>2. ASSUME NEW h \in Handlers, HandlerStep(h) \/ PutFails(h) \/ CompleteCommitFails(h)
      PROVE  ServerInv'
  BY <1>2, QuietStepsInv, FileStepsInv, CommitInv DEF HandlerStep
<1>3. ASSUME NEW u \in Uploads, Presign(u) \/ Expire(u) \/ DeleteAttachment(u)
      PROVE  ServerInv'
  BY <1>3, AroundInv
<1>4. CASE DeletePo
  <2>1. CASE Uploads = {}
    BY <1>4, <2>1 DEF DeletePo, ServerInv, ServerTypeOK, OneAttachmentPerUpload,
       AttachedHasBytes, CrowdInv, AloneInv
  <2>2. ASSUME NEW u \in Uploads PROVE ServerInv'
    BY <1>4, <2>2, AroundInv
  <2> QED  BY <2>1, <2>2
<1>5. CASE RestartServer \/ \E h \in Handlers : Hangup(h)
  BY <1>5, FewerHandlersInv
<1>6. CASE UNCHANGED serverVars
  BY <1>6 DEF serverVars, ServerInv, ServerTypeOK, OneAttachmentPerUpload,
     AttachedHasBytes, CrowdInv, AloneInv, Working
<1> QED  BY <1>1, <1>2, <1>3, <1>4, <1>5, <1>6 DEF ServerNext

\* The invariant of the server holds in every reachable state: the rows, the files and the
\* requests being served fit together.
THEOREM ServerInvariant == ServerSpec => []ServerInv
BY ServerInitInv, ServerStepInv, PTL DEF ServerSpec

\* R-MOB-01, for any client: an upload makes at most one attachment and one timeline event,
\* and makes them exactly when its reservation is marked completed.
THEOREM CompleteIsIdempotent == ServerSpec => []OneAttachmentPerUpload
<1>1. ServerInv => OneAttachmentPerUpload
  BY DEF ServerInv
<1> QED  BY <1>1, ServerInvariant, PTL

\* The bytes of a listed attachment are all there unless two requests for its upload were
\* served at once, whatever failed or was repeated before.
THEOREM BytesBehindAttachments == ServerSpec => []AttachedHasBytes
<1>1. ServerInv => AttachedHasBytes
  BY DEF ServerInv
<1> QED  BY <1>1, ServerInvariant, PTL

-----------------------------------------------------------------------------
(* The phone's queue *)

\* What the drain loop and the parties hold, without the server.
QueueInv == PhoneTypeOK /\ EditInv /\ DrainInv

-----------------------------------------------------------------------------
(* The store and the storage calls *)

\* Writing back a change of a queue that was read stores a queue.
LEMMA WriteTyped ==
  ASSUME NEW s \in Store, NEW e \in Edit PROVE Trimmed(Applied(e, s)) \in Store
<1>1. Applied(e, s) \in Store
  BY DEF Applied, Store, Edit
<1> QED  BY <1>1 DEF Trimmed, Store

\* A storage call joins the queue of calls.
LEMMA CallTyped ==
  ASSUME NEW calls \in Seq(StorageCall), NEW call \in StorageCall
  PROVE  Append(calls, call) \in Seq(StorageCall)
BY AppendProperties

\* The first storage call leaves it.
LEMMA ServedTyped ==
  ASSUME NEW calls \in Seq(StorageCall), calls # <<>>
  PROVE  Head(calls) \in StorageCall /\ Tail(calls) \in Seq(StorageCall)
BY HeadTailProperties

\* The read that starts a change is a storage call.
LEMMA GetTyped == \A p \in Parties : [by |-> p, op |-> "get", store |-> Empty] \in StorageCall
BY DEF StorageCall, Store, Empty

\* A party starts a change of a job.
LEMMA BeginTyped ==
  ASSUME QueueInv, NEW party \in Parties, NEW change \in Edit,
         change.kind \in {"upsert", "remove", "retry"} => change.job \in Jobs,
         Begin(party, change)
  PROVE  edit' \in [Parties -> Edit] /\ EditInv' /\ ops' \in Seq(StorageCall)
BY CallTyped, GetTyped DEF QueueInv, PhoneTypeOK, EditInv, Begin

\* An upsert of a job is a change of it.
LEMMA UpsertTyped ==
  ASSUME NEW j \in Jobs, NEW to \in Job \cup {Absent}
  PROVE  Upsert(j, to) \in Edit /\ Upsert(j, to).job \in Jobs
BY DEF Upsert, Edit

\* A change that is over.
LEMMA NoEditTyped == NoEdit \in Edit /\ NoEdit.kind = "none"
BY DEF NoEdit, Edit

\* A fault is counted within its bound.
LEMMA FaultTyped == PhoneTypeOK /\ QueueConstants /\ Fault => faults' \in 0..MaxFaults
BY DEF PhoneTypeOK, QueueConstants, Fault

\* The storage answers; a read that fails is one of an empty queue.
LEMMA StorageInv ==
  ASSUME QueueInv, QueueConstants, ServeGet \/ GetFails \/ ServeSet PROVE QueueInv'
<1> USE DEF QueueInv, PhoneTypeOK
<1> DEFINE call == Head(ops)  party == call.by  e == edit[party]  rest == Tail(ops)
<1>1. ops # <<>>
  BY DEF ServeGet, GetFails, Got, ServeSet
<1>2. call \in StorageCall /\ rest \in Seq(StorageCall)
  BY <1>1, ServedTyped
<1>3. party \in Parties /\ call.store \in Store
  BY <1>2 DEF StorageCall
<1>4. e \in Edit
  BY <1>3
<1> HIDE DEF call
<1>5. CASE ServeSet
  <2>1. /\ store' = call.store /\ edit' = [edit EXCEPT ![party] = NoEdit] /\ ops' = rest
        /\ queued' = IF party = "person" /\ e.kind = "upsert" THEN queued \cup {e.job} ELSE queued
        /\ UNCHANGED <<drain, picked, dismissed, owner, faults>>
    BY <1>5 DEF ServeSet, call
  <2>2. queued' \subseteq Jobs
    BY <1>3, <2>1 DEF EditInv
  <2>3. edit' \in [Parties -> Edit] /\ EditInv'
    BY <1>3, <2>1, NoEditTyped DEF EditInv
  <2> QED  BY <1>2, <1>3, <2>1, <2>2, <2>3 DEF DrainInv
<1>6. CASE ServeGet \/ GetFails
  <2>a. PICK read \in Store : Got(read)
    BY <1>6 DEF ServeGet, GetFails, Store, Empty
  <2>b. faults' \in 0..MaxFaults
    BY <1>6, FaultTyped DEF ServeGet, GetFails
  <2>0. UNCHANGED <<store, picked, queued, dismissed, owner>> /\ faults' \in 0..MaxFaults
    BY <2>a, <2>b DEF Got
  <2>1. CASE e.kind = "load"
    <3>1. /\ drain' = [drain EXCEPT !.pc = "next",
               !.todo = [j \in Jobs |->
                 IF read[j].status = "completed" \/ read[j].waiting THEN Absent ELSE read[j]]]
          /\ edit' = [edit EXCEPT ![party] = NoEdit] /\ ops' = rest
      BY <2>a, <2>1 DEF Got, call
    <3>2. [j \in Jobs |-> IF read[j].status = "completed" \/ read[j].waiting THEN Absent ELSE read[j]]
            \in Store
      BY DEF Store
    <3>3. drain' \in Drain /\ drain'.pc = "next"
      BY <3>1, <3>2 DEF Drain, DrainPcs
    <3>4. edit' \in [Parties -> Edit] /\ EditInv'
      BY <1>3, <3>1, NoEditTyped DEF EditInv
    <3> QED  BY <1>2, <2>0, <3>1, <3>3, <3>4 DEF DrainInv
  <2>2. CASE e.kind = "retry" /\ read[e.job] = Absent
    <3>1. edit' = [edit EXCEPT ![party] = NoEdit] /\ ops' = rest /\ drain' = drain
      BY <2>a, <2>2 DEF Got, call
    <3>2. edit' \in [Parties -> Edit] /\ EditInv'
      BY <1>3, <3>1, NoEditTyped DEF EditInv
    <3> QED  BY <1>2, <2>0, <3>1, <3>2 DEF DrainInv
  <2>3. CASE e.kind = "retry" /\ read[e.job] # Absent
    <3> DEFINE retried == [read[e.job] EXCEPT !.status = "queued", !.waiting = FALSE]
    <3>1. /\ edit' = [edit EXCEPT ![party] = Upsert(e.job, retried)]
          /\ ops' = Append(rest, [by |-> party, op |-> "get", store |-> Empty])
          /\ drain' = drain
      BY <2>a, <2>3 DEF Got, call
    <3>2. e.job \in Jobs
      BY <1>3, <2>3 DEF EditInv
    <3>3. retried \in Job
      BY <2>3, <3>2 DEF Store, Job
    <3>4. Upsert(e.job, retried) \in Edit /\ Upsert(e.job, retried).job \in Jobs
      BY <3>2, <3>3, UpsertTyped
    <3>5. edit' \in [Parties -> Edit] /\ EditInv'
      BY <1>3, <3>1, <3>4 DEF EditInv
    <3>6. ops' \in Seq(StorageCall)
      BY <1>2, <1>3, <3>1, CallTyped, GetTyped
    <3> QED  BY <2>0, <3>1, <3>5, <3>6 DEF DrainInv
  <2>4. CASE e.kind \notin {"load", "retry"}
    <3>1. /\ ops' = Append(rest, [by |-> party, op |-> "set", store |-> Trimmed(Applied(e, read))])
          /\ UNCHANGED <<edit, drain>>
      BY <2>a, <2>4 DEF Got, call
    <3>2. [by |-> party, op |-> "set", store |-> Trimmed(Applied(e, read))] \in StorageCall
      BY <1>3, <1>4, WriteTyped DEF StorageCall
    <3>3. ops' \in Seq(StorageCall)
      BY <1>2, <3>1, <3>2, CallTyped
    <3> QED  BY <2>0, <3>1, <3>3 DEF DrainInv, EditInv
  <2> QED  BY <2>1, <2>2, <2>3, <2>4
<1> QED  BY <1>5, <1>6

-----------------------------------------------------------------------------
(* The person, the drain loop, and the rest *)

\* What the person does, and the passing of a backoff.
LEMMA PersonInv ==
  ASSUME QueueInv, NEW j \in Jobs, Pick(j) \/ Retry(j) \/ Dismiss(j) \/ BackoffEnds(j)
  PROVE  QueueInv'
<1> USE DEF QueueInv, PhoneTypeOK
<1>1. CASE Pick(j)
  <2> DEFINE fresh == [status |-> "queued", waiting |-> FALSE, upload |-> NoUpload]
  <2>1. /\ Begin("person", Upsert(j, fresh)) /\ picked' = picked \cup {j}
        /\ UNCHANGED <<store, drain, queued, dismissed, owner, faults>>
    BY <1>1 DEF Pick
  <2>2. fresh \in Job
    BY DEF Job
  <2>3. Upsert(j, fresh) \in Edit /\ Upsert(j, fresh).job \in Jobs
    BY <2>2, UpsertTyped
  <2>4. edit' \in [Parties -> Edit] /\ EditInv' /\ ops' \in Seq(StorageCall)
    BY <2>1, <2>3, BeginTyped DEF Parties
  <2> QED  BY <2>1, <2>4 DEF DrainInv
<1>2. CASE Retry(j) \/ Dismiss(j)
  <2>1. PICK kind \in {"retry", "remove"} : Begin("person", [kind |-> kind, job |-> j, to |-> Absent])
    BY <1>2 DEF Retry, Dismiss
  <2>2. /\ dismissed' \subseteq dismissed \cup {j}
        /\ UNCHANGED <<store, drain, picked, queued, owner, faults>>
    BY <1>2 DEF Retry, Dismiss
  <2>3. [kind |-> kind, job |-> j, to |-> Absent] \in Edit
    BY DEF Edit
  <2>4. edit' \in [Parties -> Edit] /\ EditInv' /\ ops' \in Seq(StorageCall)
    BY <2>1, <2>3, BeginTyped DEF Parties
  <2> QED  BY <2>2, <2>4 DEF DrainInv
<1>3. CASE BackoffEnds(j)
  <2>1. /\ store[j].waiting /\ store' = [store EXCEPT ![j].waiting = FALSE]
        /\ UNCHANGED <<ops, edit, drain, picked, queued, dismissed, owner, faults>>
    BY <1>3 DEF BackoffEnds
  <2>2. store[j] \in Job
    BY <2>1 DEF Store, Absent
  <2>3. [store[j] EXCEPT !.waiting = FALSE] \in Job
    BY <2>2 DEF Job
  <2>4. store' = [store EXCEPT ![j] = [store[j] EXCEPT !.waiting = FALSE]]
    BY <2>1
  <2>5. store' \in Store
    BY <2>3, <2>4 DEF Store
  <2> QED  BY <2>1, <2>5 DEF DrainInv, EditInv
<1> QED  BY <1>1, <1>2, <1>3

\* A job with its status, backoff or reservation changed is a job.
LEMMA JobUpdatesTyped ==
  ASSUME NEW job \in Job
  PROVE  /\ [job EXCEPT !.status = "uploading"] \in Job
         /\ [job EXCEPT !.status = "completed"] \in Job
         /\ [job EXCEPT !.status = "failed", !.waiting = TRUE] \in Job
         /\ \A u \in Uploads :
              [job EXCEPT !.upload = u] \in Job /\ [job EXCEPT !.upload = u].upload = u
BY DEF Job

\* A change of the drain loop's record followed by the write of a job.
LEMMA DrainWrites ==
  ASSUME QueueInv, NEW change \in Edit, Begin("drain", change),
         change.kind \in {"upsert", "remove", "retry"} => change.job \in Jobs,
         drain' \in Drain, DrainInv', owner' \in [Uploads -> Jobs \cup {NoJob}],
         faults' \in 0..MaxFaults, UNCHANGED <<store, picked, queued, dismissed>>
  PROVE  QueueInv'
BY BeginTyped DEF QueueInv, PhoneTypeOK, Parties

\* The catch of processJob.
LEMMA JobFailsInv ==
  ASSUME QueueInv, JobFails(drain.working), drain.pc \notin {"idle", "next"},
         owner' \in [Uploads -> Jobs \cup {NoJob}], faults' \in 0..MaxFaults
  PROVE  QueueInv' /\ drain'.pc = "next"
<1> DEFINE failed == [drain.working EXCEPT !.status = "failed", !.waiting = TRUE]
<1> USE DEF QueueInv, PhoneTypeOK
<1>1. /\ drain' = [drain EXCEPT !.pc = "next", !.working = failed, !.call = NoHandler]
      /\ Begin("drain", Upsert(drain.job, failed))
      /\ UNCHANGED <<store, picked, queued, dismissed>>
  BY DEF JobFails
<1>2. failed \in Job
  BY JobUpdatesTyped DEF DrainInv
<1>3. drain.job \in Jobs
  BY DEF DrainInv
<1>4. Upsert(drain.job, failed) \in Edit /\ Upsert(drain.job, failed).job \in Jobs
  BY <1>2, <1>3, UpsertTyped
<1>5. drain' \in Drain /\ drain'.pc = "next"
  BY <1>1, <1>2 DEF Drain, DrainPcs
<1>6. DrainInv'
  BY <1>5 DEF DrainInv
<1> QED  BY <1>1, <1>4, <1>5, <1>6, DrainWrites

\* The steps of the drain loop that take up, change or let go of a job.
LEMMA DrainJobInv ==
  ASSUME QueueInv, QueueConstants,
         \/ DrainNext \/ DrainRemove \/ \E u \in Uploads : DrainPresign(u)
         \/ DrainStart \/ DrainOffline
  PROVE  QueueInv'
<1> USE DEF QueueInv, PhoneTypeOK
<1>1. CASE DrainStart
  <2> DEFINE change == [kind |-> "load", job |-> NoJob, to |-> Absent]
  <2>1. change \in Edit
    BY DEF Edit
  <2>2. /\ Begin("drain", change)
        /\ UNCHANGED <<store, drain, picked, queued, dismissed, owner, faults>>
    BY <1>1 DEF DrainStart
  <2> QED  BY <2>1, <2>2, DrainWrites DEF DrainInv
<1>2. CASE DrainOffline
  <2>1. faults' \in 0..MaxFaults
    BY <1>2, FaultTyped DEF DrainOffline
  <2>2. drain' \in Drain /\ drain'.pc = "idle"
    BY <1>2 DEF DrainOffline, IdleDrain, Drain, DrainPcs, Store, Empty
  <2> QED  BY <1>2, <2>1, <2>2 DEF DrainOffline, EditInv, DrainInv
<1>3. CASE DrainNext
  <2> DEFINE due == Present(drain.todo)
  <2>1. CASE due = {} /\ drain' = IdleDrain /\ UNCHANGED <<edit, ops>>
    <3>1. drain' \in Drain /\ drain'.pc = "idle"
      BY <2>1 DEF IdleDrain, Drain, DrainPcs, Store, Empty
    <3> QED  BY <1>3, <2>1, <3>1 DEF DrainNext, EditInv, DrainInv
  <2>2. ASSUME NEW j \in due,
               drain' = [drain EXCEPT !.pc = "presign", !.job = j,
                           !.working = [drain.todo[j] EXCEPT !.status = "uploading"],
                           !.todo[j] = Absent],
               Begin("drain", Upsert(j, [drain.todo[j] EXCEPT !.status = "uploading"]))
        PROVE  QueueInv'
    <3> DEFINE working == [drain.todo[j] EXCEPT !.status = "uploading"]
    <3>1. j \in Jobs /\ drain.todo \in Store /\ drain.todo[j] \in Job
      BY DEF Present, Drain, Store
    <3>2. working \in Job
      BY <3>1, JobUpdatesTyped
    <3>3. [drain.todo EXCEPT ![j] = Absent] \in Store
      BY <3>1 DEF Store
    <3>4. drain' = [drain EXCEPT !.pc = "presign", !.job = j, !.working = working,
                                 !.todo = [drain.todo EXCEPT ![j] = Absent]]
      BY <2>2
    <3>5. drain' \in Drain /\ drain'.pc = "presign" /\ drain'.job = j /\ drain'.working \in Job
      BY <3>1, <3>2, <3>3, <3>4 DEF Drain, DrainPcs
    <3>6. Upsert(j, working) \in Edit /\ Upsert(j, working).job \in Jobs
      BY <3>1, <3>2, UpsertTyped
    <3>7. UNCHANGED <<store, picked, queued, dismissed, owner, faults>>
      BY <1>3 DEF DrainNext
    <3>8. DrainInv'
      BY <3>1, <3>5 DEF DrainInv
    <3> QED  BY <2>2, <3>5, <3>6, <3>7, <3>8, DrainWrites
  <2> QED  BY <1>3, <2>1, <2>2 DEF DrainNext
<1>4. ASSUME NEW u \in Uploads, DrainPresign(u) PROVE QueueInv'
  <2> DEFINE working == [drain.working EXCEPT !.upload = u]
  <2>1. /\ drain.pc = "presign" /\ owner' = [owner EXCEPT ![u] = drain.job]
        /\ drain' = [drain EXCEPT !.pc = "put", !.working = working]
        /\ Begin("drain", Upsert(drain.job, working))
        /\ UNCHANGED <<store, picked, queued, dismissed, faults>>
    BY <1>4 DEF DrainPresign, DrainAt
  <2>2. drain.job \in Jobs /\ drain.working \in Job
    BY <2>1 DEF DrainInv
  <2>3. working \in Job /\ working.upload = u
    BY <2>2, JobUpdatesTyped
  <2>4. Upsert(drain.job, working) \in Edit /\ Upsert(drain.job, working).job \in Jobs
    BY <2>2, <2>3, UpsertTyped
  <2>5. drain' \in Drain /\ drain'.pc = "put" /\ drain'.working = working /\ drain'.job \in Jobs
    BY <2>1, <2>2, <2>3 DEF Drain, DrainPcs
  <2>6. DrainInv'
    BY <2>3, <2>5 DEF DrainInv
  <2>7. owner' \in [Uploads -> Jobs \cup {NoJob}]
    BY <2>1, <2>2
  <2> QED  BY <2>1, <2>4, <2>5, <2>6, <2>7, DrainWrites
<1>5. CASE DrainRemove
  <2> DEFINE change == [kind |-> "remove", job |-> drain.job, to |-> Absent]
  <2>1. /\ drain.pc = "remove" /\ drain' = [drain EXCEPT !.pc = "next"] /\ Begin("drain", change)
        /\ UNCHANGED <<store, picked, queued, dismissed, owner, faults>>
    BY <1>5 DEF DrainRemove, DrainAt
  <2>2. drain.job \in Jobs
    BY <2>1 DEF DrainInv
  <2>3. change \in Edit
    BY <2>2 DEF Edit
  <2>4. drain' \in Drain /\ drain'.pc = "next"
    BY <2>1 DEF Drain, DrainPcs
  <2> QED  BY <2>1, <2>2, <2>3, <2>4, DrainWrites DEF DrainInv
<1> QED  BY <1>1, <1>2, <1>3, <1>4, <1>5

\* The reply to complete that says the file is attached.
LEMMA CompletedInv ==
  ASSUME QueueInv, drain.pc = "completeWait",
         LET done == [drain.working EXCEPT !.status = "completed"]
         IN /\ drain' = [drain EXCEPT !.pc = "remove", !.working = done, !.call = NoHandler]
            /\ Begin("drain", Upsert(drain.job, done)),
         UNCHANGED <<store, picked, queued, dismissed, owner, faults>>
  PROVE  QueueInv' /\ drain'.pc = "remove" /\ drain'.working.upload = drain.working.upload
<1> DEFINE done == [drain.working EXCEPT !.status = "completed"]
<1> USE DEF QueueInv, PhoneTypeOK
<1>1. /\ drain.job \in Jobs /\ drain.working \in Job
      /\ drain.working.upload \in Uploads
  BY DEF DrainInv
<1>2. done \in Job /\ done.upload = drain.working.upload
  BY <1>1 DEF Job
<1>3. /\ drain' \in Drain /\ drain'.pc = "remove" /\ drain'.working = done
      /\ drain'.job = drain.job
  BY <1>2 DEF Drain, DrainPcs
<1>4. Upsert(drain.job, done) \in Edit /\ Upsert(drain.job, done).job \in Jobs
  BY <1>1, <1>2, UpsertTyped
<1>5. DrainInv'
  BY <1>1, <1>2, <1>3 DEF DrainInv
<1> QED  BY <1>2, <1>3, <1>4, <1>5, DrainWrites

\* The drain loop goes on within its job: a reservation that still holds, a request sent,
\* a PUT that was answered.
LEMMA DrainMoves ==
  ASSUME QueueInv, NEW pc \in {"put", "putWait", "complete", "completeWait"},
         NEW call \in Handlers \cup {NoHandler},
         pc \in {"putWait", "completeWait"} => call \in Handlers,
         drain.pc \notin {"idle", "next"}, drain.working.upload \in Uploads,
         drain' = [drain EXCEPT !.pc = pc, !.call = call],
         UNCHANGED <<store, ops, edit, picked, queued, dismissed, owner, faults>>
  PROVE  QueueInv' /\ drain'.pc = pc /\ drain'.call = call /\ drain'.working = drain.working
<1> USE DEF QueueInv, PhoneTypeOK
<1>1. /\ drain' \in Drain /\ drain'.pc = pc /\ drain'.call = call
      /\ drain'.working = drain.working /\ drain'.job = drain.job
  BY DEF Drain, DrainPcs
<1>2. DrainInv'
  BY <1>1 DEF DrainInv
<1> QED  BY <1>1, <1>2 DEF EditInv

\* The progress callback and the end of the app.
LEMMA ProgressAndKillInv ==
  ASSUME QueueInv, QueueConstants, (\E p \in Callbacks : Progress(p)) \/ AppKilled
  PROVE  QueueInv'
<1> USE DEF QueueInv, PhoneTypeOK
<1>1. ASSUME NEW p \in Callbacks, Progress(p) PROVE QueueInv'
  <2>1. /\ drain.pc = "putWait" /\ Begin(p, Upsert(drain.job, drain.working))
        /\ UNCHANGED <<store, drain, picked, queued, dismissed, owner, faults>>
    BY <1>1 DEF Progress
  <2>2. drain.job \in Jobs /\ drain.working \in Job
    BY <2>1 DEF DrainInv
  <2>3. Upsert(drain.job, drain.working) \in Edit /\ Upsert(drain.job, drain.working).job \in Jobs
    BY <2>2, UpsertTyped
  <2>4. edit' \in [Parties -> Edit] /\ EditInv' /\ ops' \in Seq(StorageCall)
    BY <2>1, <2>3, BeginTyped DEF Parties
  <2> QED  BY <2>1, <2>4 DEF DrainInv
<1>2. CASE AppKilled
  <2>1. faults' \in 0..MaxFaults
    BY <1>2, FaultTyped DEF AppKilled
  <2>2. drain' \in Drain /\ drain'.pc = "idle"
    BY <1>2 DEF AppKilled, IdleDrain, Drain, DrainPcs, Store, Empty
  <2>3. [kind |-> "prune", job |-> NoJob, to |-> Absent] \in Edit
    BY DEF Edit
  <2>4. edit' \in [Parties -> Edit] /\ EditInv'
    BY <1>2, <2>3, NoEditTyped DEF AppKilled, EditInv
  <2>5. ops' \in Seq(StorageCall)
    <3>1. [by |-> "person", op |-> "get", store |-> Empty] \in StorageCall
      BY GetTyped DEF Parties
    <3> QED  BY <1>2, <3>1 DEF AppKilled
  <2> QED  BY <1>2, <2>1, <2>2, <2>4, <2>5 DEF AppKilled, DrainInv
<1> QED  BY <1>1, <1>2

-----------------------------------------------------------------------------
(* The server under the queue *)

\* Presign starts on a row of its own; nothing unmarks a completed reservation.
LEMMA MarkedStaysMarked ==
  ASSUME ServerInv, [ServerNext]_serverVars, NEW u \in Uploads, pending[u].state = "completed"
  PROVE  pending'[u].state = "completed"
<1> USE DEF ServerInv, ServerTypeOK
<1>1. CASE UNCHANGED pending
  BY <1>1
<1>2. ASSUME NEW v \in Uploads, Presign(v) \/ Expire(v) PROVE pending'[u].state = "completed"
  BY <1>2 DEF Presign, Expire, Issued
<1>3. ASSUME NEW h \in Handlers, CompleteCommit(h) PROVE pending'[u].state = "completed"
  <2>1. handler[h].upload \in Uploads
    BY <1>3 DEF CompleteCommit, At
  <2> QED  BY <1>3, <2>1 DEF CompleteCommit
<1>4. ASSUME NEW h \in Handlers, NEW v \in Uploads, PutArrives(h, v) \/ CompleteArrives(h, v)
      PROVE  UNCHANGED pending
  BY <1>4 DEF PutArrives, CompleteArrives, Arrive, serverData
<1>5. ASSUME NEW h \in Handlers, HandlerStep(h) \/ PutFails(h) \/ CompleteCommitFails(h) \/ Hangup(h),
             ~CompleteCommit(h)
      PROVE  UNCHANGED pending
  BY <1>5 DEF HandlerStep, PutFails, CompleteCommitFails, Hangup, serverData, PutTruncate, PutFill,
     CompleteFindAttachment, CompleteStat, CompleteProbe, CompleteFindPo, CompleteUnlink,
     CompleteEnqueueOcr
<1>6. ASSUME NEW v \in Uploads, DeleteAttachment(v) PROVE UNCHANGED pending
  BY <1>6 DEF DeleteAttachment
<1>7. CASE DeletePo \/ RestartServer \/ UNCHANGED serverVars
  BY <1>7 DEF DeletePo, RestartServer, serverData, serverVars
<1> QED  BY <1>1, <1>2, <1>3, <1>4, <1>5, <1>6, <1>7 DEF ServerNext

\* A handler that runs goes on serving its request, and a complete answers truly.
LEMMA HandlerAnswersTruly ==
  ASSUME ServerInv, NEW h \in Handlers, HandlerStep(h) \/ PutFails(h) \/ CompleteCommitFails(h)
  PROVE  /\ \A g \in Handlers \ {h} : handler'[g] = handler[g]
         /\ handler'[h].pc # "idle" /\ handler'[h].upload = handler[h].upload
         /\ CompleteIsMarked(h) => CompleteIsMarked(h)'
<1> USE DEF ServerInv, ServerTypeOK, At
<1> DEFINE u == handler[h].upload
<1>1. CASE PutTruncate(h) \/ PutFill(h) \/ PutFails(h)
  BY <1>1 DEF PutTruncate, PutFill, PutFails, Continue, Reply, CompleteIsMarked, serverData
<1>2. CASE CompleteFindAttachment(h)
  <2>1. u \in Uploads
    BY <1>2 DEF CompleteFindAttachment
  <2>2. attached[u] > 0 => pending[u].state = "completed"
    BY <2>1, AttachedIsDone
  <2> QED
    BY <1>2, <2>1, <2>2 DEF CompleteFindAttachment, Reply, CompleteIsMarked, serverData
<1>3. CASE CompleteStat(h) \/ CompleteProbe(h) \/ CompleteFindPo(h) \/ CompleteUnlink(h)
             \/ CompleteCommitFails(h)
  BY <1>3 DEF CompleteStat, CompleteProbe, CompleteFindPo, CompleteUnlink, CompleteCommitFails,
     Continue, Reply, CompleteIsMarked, serverData
<1>4. CASE CompleteCommit(h)
  <2>1. u \in Uploads
    BY <1>4 DEF CompleteCommit
  <2> QED  BY <1>4, <2>1 DEF CompleteCommit, Continue, CompleteIsMarked
<1>5. CASE CompleteEnqueueOcr(h)
  BY <1>5 DEF CompleteEnqueueOcr, Reply, CompleteIsMarked
<1> QED  BY <1>1, <1>2, <1>3, <1>4, <1>5 DEF HandlerStep

\* Steps that leave the drain loop without a request and without a job to remove.
LEMMA NothingAwaited ==
  drain'.pc \notin {"putWait", "completeWait", "remove"} => WaitInv'
BY DEF WaitInv

\* Steps of the phone alone.
LEMMA PhoneAloneInv ==
  ASSUME PhoneInv, ServerInv, UNCHANGED <<serverVars, drain>>
  PROVE  WaitInv'
BY DEF PhoneInv, WaitInv, serverVars, CompleteIsMarked, At

\* Steps of the server that leave the phone alone, and the handlers of its requests.
LEMMA ServerAloneInv ==
  ASSUME PhoneInv, ServerInv, [ServerNext]_serverVars, drain' = drain,
         drain.pc \in {"putWait", "completeWait"} =>
           /\ handler'[drain.call].pc # "idle"
           /\ handler'[drain.call].upload = handler[drain.call].upload
           /\ CompleteIsMarked(drain.call) => CompleteIsMarked(drain.call)'
  PROVE  WaitInv'
<1>1. drain.pc = "remove" => pending'[drain.working.upload].state = "completed"
  BY MarkedStaysMarked DEF PhoneInv, WaitInv, DrainInv
<1> QED  BY <1>1 DEF PhoneInv, WaitInv

\* The phone's own steps: the storage, the person, the callbacks, a kill, and the drain loop
\* between two requests.
LEMMA PhoneStep ==
  ASSUME PhoneInv, ServerInv, QueueConstants,
         \/ ServeGet \/ GetFails \/ ServeSet \/ (\E p \in Callbacks : Progress(p)) \/ AppKilled
         \/ \E j \in Jobs : BackoffEnds(j) \/ Pick(j) \/ Retry(j) \/ Dismiss(j)
         \/ DrainStart \/ DrainNext \/ DrainOffline \/ DrainRemove \/ DrainReuse
  PROVE  QueueInv' /\ WaitInv' /\ UNCHANGED serverVars
<1> USE DEF PhoneInv
<1>0. QueueInv /\ drain \in Drain
  BY DEF QueueInv, PhoneTypeOK
<1>1. UNCHANGED serverVars
  BY DEF ServeGet, GetFails, Got, ServeSet, Progress, AppKilled, BackoffEnds, Pick, Retry, Dismiss, DrainStart,
     DrainNext, DrainOffline, DrainRemove, DrainReuse
<1>2. CASE ServeGet \/ GetFails \/ ServeSet
  <2>1. drain' = drain \/ drain'.pc = "next"
    BY <1>0, <1>2 DEF ServeGet, GetFails, Got, ServeSet, Drain
  <2> QED  BY <1>0, <1>1, <1>2, <2>1, StorageInv, PhoneAloneInv, NothingAwaited
<1>3. CASE (\E p \in Callbacks : Progress(p)) \/ AppKilled
  <2>1. drain' = drain \/ drain'.pc = "idle"
    BY <1>3 DEF Progress, AppKilled, IdleDrain
  <2> QED  BY <1>0, <1>1, <1>3, <2>1, ProgressAndKillInv, PhoneAloneInv, NothingAwaited
<1>4. ASSUME NEW j \in Jobs, BackoffEnds(j) \/ Pick(j) \/ Retry(j) \/ Dismiss(j)
      PROVE  QueueInv' /\ WaitInv'
  <2>1. drain' = drain
    BY <1>4 DEF BackoffEnds, Pick, Retry, Dismiss
  <2> QED  BY <1>0, <1>1, <1>4, <2>1, PersonInv, PhoneAloneInv
<1>5. CASE DrainStart \/ DrainNext \/ DrainOffline \/ DrainRemove
  <2>1. drain' = drain \/ drain'.pc \in {"idle", "presign", "next"}
    <3>1. CASE DrainStart \/ DrainOffline
      BY <3>1 DEF DrainStart, DrainOffline, IdleDrain
    <3>2. CASE DrainRemove
      BY <1>0, <3>2 DEF DrainRemove, Drain
    <3>3. CASE DrainNext
      <4>1. CASE drain' = IdleDrain
        BY <4>1 DEF IdleDrain
      <4>2. ASSUME NEW j \in Present(drain.todo),
                   drain' = [drain EXCEPT !.pc = "presign", !.job = j,
                               !.working = [drain.todo[j] EXCEPT !.status = "uploading"],
                               !.todo[j] = Absent]
            PROVE  drain'.pc = "presign"
        <5>1. drain' = [drain EXCEPT !.pc = "presign", !.job = j,
                          !.working = [drain.todo[j] EXCEPT !.status = "uploading"],
                          !.todo = [drain.todo EXCEPT ![j] = Absent]]
          BY <4>2
        <5> QED  BY <1>0, <5>1 DEF Drain
      <4> QED  BY <3>3, <4>1, <4>2 DEF DrainNext
    <3> QED  BY <1>5, <3>1, <3>2, <3>3
  <2> QED  BY <1>0, <1>1, <1>5, <2>1, DrainJobInv, PhoneAloneInv, NothingAwaited
<1>6. CASE DrainReuse
  <2>1. /\ drain.pc = "presign" /\ drain.working.upload \in Uploads
        /\ drain' = [drain EXCEPT !.pc = "put"]
        /\ UNCHANGED <<store, ops, edit, picked, queued, dismissed, owner, faults>>
    BY <1>6 DEF DrainReuse, DrainAt, NeedsPresign
  <2>2. PICK call \in Handlers \cup {NoHandler} : drain' = [drain EXCEPT !.pc = "put", !.call = call]
    BY <1>0, <2>1 DEF Drain
  <2>3. QueueInv' /\ drain'.pc = "put"
    <3>1. "put" \in {"put", "putWait", "complete", "completeWait"} /\ drain.pc \notin {"idle", "next"}
      BY <2>1
    <3> QED  BY <1>0, <2>1, <2>2, <3>1, DrainMoves
  <2> QED  BY <1>1, <2>3, NothingAwaited
<1> QED  BY <1>1, <1>2, <1>3, <1>4, <1>5, <1>6

\* The requests the drain loop sends and gives up on.
LEMMA RequestStep ==
  ASSUME PhoneInv, ServerInv, QueueConstants,
         \/ \E u \in Uploads : DrainPresign(u)
         \/ \E h \in Handlers : DrainPut(h) \/ DrainComplete(h)
         \/ DrainPresignRefused \/ DrainPresignLost \/ DrainCallLost
  PROVE  QueueInv' /\ WaitInv' /\ [ServerNext]_serverVars
<1> USE DEF PhoneInv
<1>0. QueueInv /\ drain \in Drain /\ owner \in [Uploads -> Jobs \cup {NoJob}]
      /\ faults \in 0..MaxFaults /\ PhoneTypeOK
  BY DEF QueueInv, PhoneTypeOK
<1>1. ASSUME NEW u \in Uploads, DrainPresign(u)
      PROVE  QueueInv' /\ WaitInv' /\ [ServerNext]_serverVars
  <2>1. Presign(u) /\ drain' = [drain EXCEPT !.pc = "put", !.working = [drain.working EXCEPT !.upload = u]]
    BY <1>1 DEF DrainPresign
  <2>2. drain'.pc = "put"
    BY <1>0, <2>1 DEF Drain
  <2>3. ServerNext
    BY <2>1 DEF ServerNext
  <2> QED  BY <1>0, <1>1, <2>2, <2>3, DrainJobInv, NothingAwaited
<1>2. ASSUME NEW h \in Handlers, DrainPut(h)
      PROVE  QueueInv' /\ WaitInv' /\ [ServerNext]_serverVars
  <2> DEFINE u == drain.working.upload
  <2>1. /\ drain.pc = "put" /\ PutArrives(h, u)
        /\ drain' = [drain EXCEPT !.pc = "putWait", !.call = h]
        /\ UNCHANGED <<store, ops, edit, picked, queued, dismissed, owner, faults>>
    BY <1>2 DEF DrainPut, DrainAt, Call
  <2>2. u \in Uploads
    BY <2>1 DEF DrainInv
  <2>3. QueueInv' /\ drain'.pc = "putWait" /\ drain'.call = h /\ drain'.working = drain.working
    BY <1>0, <2>1, <2>2, DrainMoves
  <2>4. handler'[h].pc # "idle" /\ handler'[h].upload = u
    BY <2>1 DEF PutArrives, Arrive, ServerInv, ServerTypeOK
  <2>5. ServerNext
    BY <2>1, <2>2 DEF ServerNext
  <2> QED  BY <2>3, <2>4, <2>5 DEF WaitInv
<1>3. ASSUME NEW h \in Handlers, DrainComplete(h)
      PROVE  QueueInv' /\ WaitInv' /\ [ServerNext]_serverVars
  <2> DEFINE u == drain.working.upload
  <2>1. /\ drain.pc = "complete" /\ CompleteArrives(h, u)
        /\ drain' = [drain EXCEPT !.pc = "completeWait", !.call = h]
        /\ UNCHANGED <<store, ops, edit, picked, queued, dismissed, owner, faults>>
    BY <1>3 DEF DrainComplete, DrainAt, Call
  <2>2. u \in Uploads
    BY <2>1 DEF DrainInv
  <2>3. QueueInv' /\ drain'.pc = "completeWait" /\ drain'.call = h /\ drain'.working = drain.working
    BY <1>0, <2>1, <2>2, DrainMoves
  <2>4. /\ handler'[h].upload = u /\ pending' = pending
        /\ \/ handler'[h].pc = "replied" /\ handler'[h].reply = "refused"
           \/ handler'[h].pc = "replay" /\ pending[u].state = "completed"
           \/ handler'[h].pc = "statFile"
    BY <2>1 DEF CompleteArrives, Arrive, ServerInv, ServerTypeOK, serverData
  <2>5. ServerNext
    BY <2>1, <2>2 DEF ServerNext
  <2> QED  BY <2>3, <2>4, <2>5 DEF WaitInv, CompleteIsMarked, At
<1>4. CASE DrainPresignRefused \/ DrainPresignLost \/ DrainCallLost
  <2>1. JobFails(drain.working) /\ drain.pc \notin {"idle", "next"} /\ owner' = owner
    BY <1>4 DEF DrainPresignRefused, DrainPresignLost, DrainCallLost, DrainAt
  <2>2. faults' \in 0..MaxFaults
    BY <1>0, <1>4, FaultTyped DEF DrainPresignRefused, DrainPresignLost, DrainCallLost
  <2>3. QueueInv' /\ drain'.pc = "next"
    BY <1>0, <2>1, <2>2, JobFailsInv
  <2>4. UNCHANGED serverVars \/ \E u \in Uploads : Presign(u)
    BY <1>4 DEF DrainPresignRefused, DrainPresignLost, DrainCallLost
  <2>5. [ServerNext]_serverVars
    BY <2>4 DEF ServerNext
  <2> QED  BY <2>3, <2>5, NothingAwaited
<1> QED  BY <1>1, <1>2, <1>3, <1>4

\* The replies the drain loop receives.
LEMMA ReplyStep ==
  ASSUME PhoneInv, ServerInv, QueueConstants, DrainPutReply \/ DrainCompleteReply
  PROVE  QueueInv' /\ WaitInv' /\ [ServerNext]_serverVars
<1> USE DEF PhoneInv
<1>0. QueueInv /\ drain \in Drain /\ owner \in [Uploads -> Jobs \cup {NoJob}]
      /\ faults \in 0..MaxFaults
  BY DEF QueueInv, PhoneTypeOK
<1>1. /\ drain.pc \in {"putWait", "completeWait"} /\ Hangup(drain.call)
      /\ UNCHANGED <<owner, faults>>
  BY DEF DrainPutReply, DrainCompleteReply, DrainAt
<1>2. drain.call \in Handlers /\ drain.working.upload \in Uploads
  BY <1>1 DEF DrainInv
<1>3. ServerNext /\ pending' = pending
  BY <1>1, <1>2 DEF ServerNext, Hangup, serverData
<1>4. CASE JobFails(drain.working)
  <2>1. QueueInv' /\ drain'.pc = "next"
    BY <1>0, <1>1, <1>4, JobFailsInv
  <2> QED  BY <1>3, <2>1, NothingAwaited
<1>5. CASE DrainPutReply /\ ~JobFails(drain.working)
  <2>1. /\ drain' = [drain EXCEPT !.pc = "complete", !.call = NoHandler]
        /\ UNCHANGED <<store, ops, edit, picked, queued, dismissed>>
    BY <1>5 DEF DrainPutReply, Call
  <2>2. QueueInv' /\ drain'.pc = "complete"
    BY <1>0, <1>1, <1>2, <2>1, DrainMoves
  <2> QED  BY <1>3, <2>2, NothingAwaited
<1>6. CASE DrainCompleteReply /\ ~JobFails(drain.working)
  <2>1. /\ drain.pc = "completeWait" /\ Succeeded(drain.call)
        /\ LET done == [drain.working EXCEPT !.status = "completed"]
           IN /\ drain' = [drain EXCEPT !.pc = "remove", !.working = done, !.call = NoHandler]
              /\ Begin("drain", Upsert(drain.job, done))
        /\ UNCHANGED <<store, picked, queued, dismissed>>
    BY <1>6 DEF DrainCompleteReply, DrainAt
  <2>2. QueueInv' /\ drain'.pc = "remove" /\ drain'.working.upload = drain.working.upload
    BY <1>0, <1>1, <2>1, CompletedInv
  <2>3. pending[drain.working.upload].state = "completed"
    BY <2>1 DEF WaitInv, CompleteIsMarked, Succeeded, At
  <2> QED  BY <1>3, <2>2, <2>3 DEF WaitInv
<1> QED  BY <1>4, <1>5, <1>6

\* The server's own steps.
LEMMA ServerStep ==
  ASSUME PhoneInv, ServerInv, QueueConstants,
         \/ \E h \in Handlers : HandlerRuns(h)
         \/ \E u \in Uploads : CompletedExpires(u)
         \/ ServerFault \/ StaffDeletes
  PROVE  QueueInv' /\ WaitInv' /\ [ServerNext]_serverVars
<1> USE DEF PhoneInv
<1>0. PhoneTypeOK /\ EditInv /\ DrainInv
  OBVIOUS
<1>1. UNCHANGED <<store, ops, edit, drain, picked, queued, dismissed, owner>>
  BY DEF HandlerRuns, CompletedExpires, ServerFault, StaffDeletes, phoneVars
<1>2. faults' \in 0..MaxFaults
  BY <1>0, FaultTyped DEF HandlerRuns, CompletedExpires, ServerFault, StaffDeletes, phoneVars,
     PhoneTypeOK
<1>3. QueueInv'
  BY <1>0, <1>1, <1>2 DEF QueueInv, PhoneTypeOK, EditInv, DrainInv
<1>4. ServerNext
  BY DEF HandlerRuns, CompletedExpires, ServerFault, StaffDeletes, ServerNext
<1>5. ASSUME drain.pc \in {"putWait", "completeWait"}
      PROVE  /\ handler'[drain.call].pc # "idle"
             /\ handler'[drain.call].upload = handler[drain.call].upload
             /\ CompleteIsMarked(drain.call) => CompleteIsMarked(drain.call)'
  <2> DEFINE mine == drain.call
  <2>1. mine \in Handlers /\ handler[mine].pc # "idle" /\ handler[mine].upload \in Uploads
    BY <1>5 DEF DrainInv, WaitInv
  <2>2. handler'[mine] = handler[mine] /\ CompleteIsMarked(mine) => CompleteIsMarked(mine)'
    BY <1>1, <1>4, <2>1, MarkedStaysMarked DEF CompleteIsMarked, At
  <2>3. ASSUME NEW h \in Handlers, HandlerStep(h) \/ PutFails(h) \/ CompleteCommitFails(h)
        PROVE  \/ handler'[mine] = handler[mine]
               \/ /\ handler'[mine].pc # "idle"
                  /\ handler'[mine].upload = handler[mine].upload
                  /\ CompleteIsMarked(mine) => CompleteIsMarked(mine)'
    <3>1. CASE h = mine
      BY <1>1, <2>3, <3>1, HandlerAnswersTruly DEF CompleteIsMarked, At
    <3>2. CASE h # mine
      BY <2>1, <2>3, <3>2, HandlerAnswersTruly
    <3> QED  BY <3>1, <3>2
  <2>4. ASSUME NEW h \in Handlers, Hangup(h), Unused(h)
        PROVE  handler'[mine] = handler[mine]
    BY <2>1, <2>4 DEF Hangup, Unused, ServerInv, ServerTypeOK
  <2>5. CASE RestartServer
    <3>1. \/ handler'[mine] = handler[mine]
          \/ /\ handler'[mine].pc = "replied" /\ handler'[mine].reply = "refused"
             /\ handler'[mine].upload = handler[mine].upload
      BY <2>1, <2>5 DEF RestartServer, ServerInv, ServerTypeOK
    <3> QED  BY <1>1, <2>1, <2>2, <3>1 DEF CompleteIsMarked, At
  <2>6. ASSUME NEW u \in Uploads, Expire(u) \/ DeleteAttachment(u)
        PROVE  handler' = handler
    BY <2>6 DEF Expire, DeleteAttachment
  <2>7. DeletePo => handler' = handler
    BY DEF DeletePo
  <2>8. \/ \E h \in Handlers : HandlerStep(h) \/ PutFails(h) \/ CompleteCommitFails(h)
        \/ \E h \in Handlers : Hangup(h) /\ Unused(h)
        \/ RestartServer \/ DeletePo
        \/ \E u \in Uploads : Expire(u) \/ DeleteAttachment(u)
    BY DEF HandlerRuns, CompletedExpires, ServerFault, StaffDeletes
  <2> QED  BY <2>1, <2>2, <2>3, <2>4, <2>5, <2>6, <2>7, <2>8
<1>6. WaitInv'
  BY <1>1, <1>4, <1>5, ServerAloneInv
<1> QED  BY <1>3, <1>4, <1>6

-----------------------------------------------------------------------------
(* The theorems *)

\* Every step of the phone and its server is a step of the server, and keeps the invariant.
LEMMA QueueStep ==
  ASSUME PhoneInv, ServerInv, QueueConstants, [Next]_vars
  PROVE  PhoneInv' /\ [ServerNext]_serverVars
<1>1. CASE UNCHANGED vars
  <2>1. PhoneTypeOK' /\ EditInv' /\ DrainInv' /\ UNCHANGED serverVars /\ drain' = drain
    BY <1>1 DEF vars, phoneVars, PhoneInv, PhoneTypeOK, EditInv, DrainInv
  <2> QED  BY <2>1, PhoneAloneInv DEF PhoneInv
<1>2. CASE Next
  <2>1. QueueInv' /\ WaitInv' /\ [ServerNext]_serverVars
    BY <1>2, PhoneStep, RequestStep, ReplyStep, ServerStep DEF Next, DrainStep
  <2> QED  BY <2>1 DEF PhoneInv, QueueInv
<1> QED  BY <1>1, <1>2

\* The phone starts in its invariant.
LEMMA PhoneInitInv == QueueConstants /\ Init => PhoneInv /\ ServerInit
<1> SUFFICES ASSUME QueueConstants, Init PROVE PhoneInv /\ ServerInit
  OBVIOUS
<1>1. drain \in Drain /\ drain.pc = "idle"
  BY DEF Init, IdleDrain, Drain, DrainPcs, Store, Empty
<1>2. edit \in [Parties -> Edit] /\ EditInv
  BY NoEditTyped DEF Init, EditInv
<1>3. store \in Store /\ ops \in Seq(StorageCall)
  BY DEF Init, Store, Empty
<1>4. PhoneTypeOK
  BY <1>1, <1>2, <1>3 DEF Init, PhoneTypeOK, QueueConstants
<1> QED  BY <1>1, <1>2, <1>4 DEF PhoneInv, DrainInv, WaitInv, Init

\* The queue with its server: the types are right, what the drain loop waits for is what it
\* asked, and what it is about to remove has been recorded.
THEOREM QueueInvariant == Spec => [](PhoneInv /\ ServerInv)
<1>1. Init => PhoneInv /\ ServerInv
  BY PhoneInitInv, ServerInitInv, QueueConstants
<1>2. ASSUME PhoneInv /\ ServerInv, [Next]_vars PROVE PhoneInv' /\ ServerInv'
  <2>1. PhoneInv' /\ [ServerNext]_serverVars
    BY <1>2, QueueStep, QueueConstants
  <2> QED  BY <1>2, <2>1, ServerStepInv
<1> QED  BY <1>1, <1>2, PTL DEF Spec

\* Whatever the phone does, the server lives up to its specification on its own.
THEOREM QueueUsesServer == Spec => ServerInit /\ [][ServerNext]_serverVars
<1>1. Init => ServerInit
  BY DEF Init
<1>2. ASSUME PhoneInv /\ ServerInv, [Next]_vars PROVE [ServerNext]_serverVars
  BY <1>2, QueueStep, QueueConstants
<1> QED  BY <1>1, <1>2, QueueInvariant, PTL DEF Spec

\* Every variable of the queue and its server stays within its type.
THEOREM QueueTypeCorrect == Spec => []TypeOK
<1>1. PhoneInv /\ ServerInv => TypeOK
  BY DEF PhoneInv, ServerInv, TypeOK
<1> QED  BY <1>1, QueueInvariant, PTL

\* The drain loop removes a job only when the server has recorded its file, for any number of
\* files and faults.
THEOREM NothingDroppedByTheDrain == Spec => RemovedOnlyWhenRecorded
<1>1. ASSUME PhoneInv /\ ServerInv, [Next]_vars
      PROVE  DrainRemove => pending[drain.working.upload].state = "completed"
  BY <1>1 DEF DrainRemove, DrainAt, PhoneInv, WaitInv
<1>2. (PhoneInv /\ ServerInv) /\ [Next]_vars
        => [DrainRemove => pending[drain.working.upload].state = "completed"]_vars
  BY <1>1
<1> QED  BY <1>2, QueueInvariant, PTL DEF Spec, RemovedOnlyWhenRecorded
=============================================================================
