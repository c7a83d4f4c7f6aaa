----------------------------- MODULE UploadServer -----------------------------
(***************************************************************************)
(* The server's half of a mobile upload: presign reserves an upload, PUT   *)
(* writes its bytes, complete verifies them and inserts the attachment     *)
(* (api/v1/uploads/*, lib/mobile/finalize-mobile-upload.ts), for one       *)
(* purchase order.                                                         *)
(*                                                                         *)
(* A handler is one PUT or complete request being served.  A phone that    *)
(* gave up on a request does not stop its handler, so several may work on  *)
(* one reservation; each await on the database or the disk ends a step.    *)
(***************************************************************************)
EXTENDS Naturals, FiniteSets

CONSTANTS Uploads,      \* MobilePendingUpload rows (bound on rows ever created)
          Handlers,     \* PUT and complete requests served at once
          Spoofed,      \* the uploads whose bytes are of no supported type
          NoUpload

ASSUME UploadConstants == Spoofed \subseteq Uploads /\ NoUpload \notin Uploads

VARIABLES pending,      \* the MobilePendingUpload rows
          file,         \* the file under the reservation's storageKey
          attached,     \* POAttachment rows, counted by storageKey
          added,        \* ATTACHMENT_ADDED timeline events, counted by upload
          ocr,          \* the uploads whose attachment has an OcrDocument
          poDeleted,    \* PurchaseOrder.deletedAt is set
          handler,      \* requests being served
          crowded       \* history: two handlers worked on the upload at once

serverVars == <<pending, file, attached, added, ocr, poDeleted, handler, crowded>>
serverData == <<pending, file, attached, added, ocr, poDeleted>>

Replies == {"none", "ok", "replay", "refused"}
HandlerPcs == {"idle", "putBody", "putWrite", "statFile", "probeFile", "findPo", "commit", "raced",
               "replay", "enqueue", "unlink", "replied"}
IdleHandler == [pc |-> "idle", upload |-> NoUpload, reply |-> "none"]

ServerTypeOK ==
  /\ pending \in [Uploads -> [state : {"none", "open", "completed"}, expired : BOOLEAN]]
  /\ file \in [Uploads -> {"none", "partial", "full"}]
  /\ attached \in [Uploads -> Nat] /\ added \in [Uploads -> Nat]
  /\ ocr \subseteq Uploads
  /\ poDeleted \in BOOLEAN
  /\ handler \in [Handlers -> [pc : HandlerPcs, upload : Uploads \cup {NoUpload}, reply : Replies]]
  /\ crowded \subseteq Uploads

ServerInit ==
  /\ pending = [u \in Uploads |-> [state |-> "none", expired |-> FALSE]]
  /\ file = [u \in Uploads |-> "none"]
  /\ attached = [u \in Uploads |-> 0] /\ added = [u \in Uploads |-> 0]
  /\ ocr = {}
  /\ poDeleted = FALSE
  /\ handler = [h \in Handlers |-> IdleHandler]
  /\ crowded = {}

Issued(u) == pending[u].state # "none"
Working(h, u) == handler[h].pc \notin {"idle", "replied"} /\ handler[h].upload = u
At(h, pc) == handler[h].pc = pc
Continue(h, pc) == handler' = [handler EXCEPT ![h].pc = pc]
Reply(h, reply) == handler' = [handler EXCEPT ![h].pc = "replied", ![h].reply = reply]

Arrive(h, u, pc, reply) ==
  /\ At(h, "idle")
  /\ Issued(u)
  /\ handler' = [handler EXCEPT ![h] = [pc |-> pc, upload |-> u, reply |-> reply]]
  /\ crowded' = IF pc # "replied" /\ (\E g \in Handlers : Working(g, u))
                THEN crowded \cup {u} ELSE crowded
  /\ UNCHANGED serverData

-----------------------------------------------------------------------------
\* POST presign.
Presign(u) ==
  /\ ~poDeleted
  /\ ~Issued(u)
  /\ pending' = [pending EXCEPT ![u].state = "open"]
  /\ UNCHANGED <<file, attached, added, ocr, poDeleted, handler, crowded>>

\* Mutant: a completed reservation still takes bytes.
PutArrivesLate(h, u) ==
  IF ~pending[u].expired THEN Arrive(h, u, "putBody", "none") ELSE Arrive(h, u, "replied", "refused")

\* PUT bytes: the row is looked up before the body is read.
PutArrives(h, u) ==
  IF pending[u].state = "open" /\ ~pending[u].expired
  THEN Arrive(h, u, "putBody", "none") ELSE Arrive(h, u, "replied", "refused")

\* writeFile truncates the file, then fills it.
PutTruncate(h) ==
  /\ At(h, "putBody")
  /\ file' = [file EXCEPT ![handler[h].upload] = "partial"]
  /\ Continue(h, "putWrite")
  /\ UNCHANGED <<pending, attached, added, ocr, poDeleted, crowded>>

PutFill(h) ==
  /\ At(h, "putWrite")
  /\ file' = [file EXCEPT ![handler[h].upload] = "full"]
  /\ Reply(h, "ok")
  /\ UNCHANGED <<pending, attached, added, ocr, poDeleted, crowded>>

\* The body stops short of its length, or the disk refuses it.
PutFails(h) ==
  /\ At(h, "putBody") \/ At(h, "putWrite")
  /\ Reply(h, "refused")
  /\ UNCHANGED <<serverData, crowded>>

-----------------------------------------------------------------------------
\* POST complete, finalizeMobileUploadResponse.
CompleteArrives(h, u) ==
  IF pending[u].expired THEN Arrive(h, u, "replied", "refused")
  ELSE Arrive(h, u, IF pending[u].state = "completed" THEN "replay" ELSE "statFile", "none")

\* Both lookups of the attachment by storageKey: for a completed row, and after a lost race.
CompleteFindAttachment(h) ==
  /\ At(h, "replay") \/ At(h, "raced")
  /\ Reply(h, IF attached[handler[h].upload] > 0 THEN "replay" ELSE "refused")
  /\ UNCHANGED <<serverData, crowded>>

\* stat: the size must be the declared one.
CompleteStat(h) ==
  /\ At(h, "statFile")
  /\ LET u == handler[h].upload
     IN \/ file[u] = "none" /\ Reply(h, "refused")
        \/ file[u] = "partial" /\ Continue(h, "unlink")
        \/ file[u] = "full" /\ Continue(h, "probeFile")
  /\ UNCHANGED <<serverData, crowded>>

\* open and read: the first bytes must be of a supported type; open throws on a file that
\* another request removed meanwhile, and one that is being rewritten may read either way.
CompleteProbe(h) ==
  /\ At(h, "probeFile")
  /\ LET u == handler[h].upload
     IN \/ file[u] = "none" /\ Reply(h, "refused")
        \/ file[u] # "none" /\ (u \in Spoofed \/ file[u] = "partial") /\ Continue(h, "unlink")
        \/ file[u] # "none" /\ u \notin Spoofed /\ Continue(h, "findPo")
  /\ UNCHANGED <<serverData, crowded>>

CompleteFindPo(h) ==
  /\ At(h, "findPo")
  /\ Continue(h, IF poDeleted THEN "unlink" ELSE "commit")
  /\ UNCHANGED <<serverData, crowded>>

CompleteUnlink(h) ==
  /\ At(h, "unlink")
  /\ file' = [file EXCEPT ![handler[h].upload] = "none"]
  /\ Reply(h, "refused")
  /\ UNCHANGED <<pending, attached, added, ocr, poDeleted, crowded>>

\* Mutant: the row is marked by id alone.
MarkedAnyway(u) == TRUE

\* updateMany WHERE completedAt IS NULL counts one row.
Markable(u) == pending[u].state = "open"

\* The transaction: mark the row, insert the attachment and its timeline event.
CompleteCommit(h) ==
  /\ At(h, "commit")
  /\ LET u == handler[h].upload
     IN IF Markable(u)
        THEN /\ pending' = [pending EXCEPT ![u].state = "completed"]
             /\ attached' = [attached EXCEPT ![u] = @ + 1]
             /\ added' = [added EXCEPT ![u] = @ + 1]
             /\ Continue(h, "enqueue")
        ELSE Continue(h, "raced") /\ UNCHANGED <<pending, attached, added>>
  /\ UNCHANGED <<file, ocr, poDeleted, crowded>>

\* The transaction fails for another reason.
CompleteCommitFails(h) ==
  /\ At(h, "commit")
  /\ Continue(h, "raced")
  /\ UNCHANGED <<serverData, crowded>>

\* enqueueOcrJobForPoAttachment (its errors are swallowed), the audits, the reply.
CompleteEnqueueOcr(h) ==
  /\ At(h, "enqueue")
  /\ \E queued \in {ocr, ocr \cup {handler[h].upload}} : ocr' = queued
  /\ Reply(h, "ok")
  /\ UNCHANGED <<pending, file, attached, added, poDeleted, crowded>>

HandlerStep(h) ==
  \/ PutTruncate(h) \/ PutFill(h)
  \/ CompleteFindAttachment(h) \/ CompleteStat(h) \/ CompleteProbe(h) \/ CompleteFindPo(h)
  \/ CompleteUnlink(h) \/ CompleteCommit(h) \/ CompleteEnqueueOcr(h)

-----------------------------------------------------------------------------
(* Around the uploads *)

\* MOBILE_PENDING_UPLOAD_TTL_MS after presign.
Expire(u) ==
  /\ Issued(u) /\ ~pending[u].expired
  /\ pending' = [pending EXCEPT ![u].expired = TRUE]
  /\ UNCHANGED <<file, attached, added, ocr, poDeleted, handler, crowded>>

\* deletePoAttachmentAction: the row goes, the unlink of the file is best effort.
DeleteAttachment(u) ==
  /\ attached[u] > 0 /\ ~poDeleted
  /\ attached' = [attached EXCEPT ![u] = @ - 1]
  /\ ocr' = ocr \ {u}
  /\ \E left \in {file[u], "none"} : file' = [file EXCEPT ![u] = left]
  /\ UNCHANGED <<pending, added, poDeleted, handler, crowded>>

DeletePo ==
  /\ ~poDeleted
  /\ poDeleted' = TRUE
  /\ UNCHANGED <<pending, file, attached, added, ocr, handler, crowded>>

\* The connections of the requests being served break.
RestartServer ==
  /\ handler' = [h \in Handlers |->
       IF handler[h].pc \in {"idle", "replied"} THEN handler[h]
       ELSE [handler[h] EXCEPT !.pc = "replied", !.reply = "refused"]]
  /\ UNCHANGED <<serverData, crowded>>

\* The reply is on its way, or nobody waits for it.
Hangup(h) ==
  /\ At(h, "replied")
  /\ handler' = [handler EXCEPT ![h] = IdleHandler]
  /\ UNCHANGED <<serverData, crowded>>

ServerNext ==
  \/ \E h \in Handlers :
       \/ \E u \in Uploads : PutArrives(h, u) \/ CompleteArrives(h, u)
       \/ HandlerStep(h) \/ PutFails(h) \/ CompleteCommitFails(h) \/ Hangup(h)
  \/ \E u \in Uploads : Presign(u) \/ Expire(u) \/ DeleteAttachment(u)
  \/ DeletePo \/ RestartServer

ServerSpec == ServerInit /\ [][ServerNext]_serverVars
-----------------------------------------------------------------------------
\* R-MOB-01: however often and however concurrently complete is called for an upload, it
\* makes one attachment and one timeline event, and only as it marks the row completed.
OneAttachmentPerUpload ==
  \A u \in Uploads : /\ attached[u] <= added[u]
                     /\ added[u] = IF pending[u].state = "completed" THEN 1 ELSE 0

\* The bytes of an attachment are all there, unless handlers crowded on its upload.
AttachedHasBytes ==
  \A u \in Uploads : attached[u] > 0 /\ file[u] # "full" => u \in crowded

-----------------------------------------------------------------------------
(* The inductive invariant behind the two *)

\* Two handlers that work on one upload have been noticed.
CrowdInv ==
  \A g, h \in Handlers, u \in Uploads :
    g # h /\ Working(g, u) /\ Working(h, u) => u \in crowded

\* A handler that has an upload to itself works on an open reservation until it commits or
\* gives up, and what it has inspected is complete.
AloneInv ==
  \A h \in Handlers, u \in Uploads : Working(h, u) /\ u \notin crowded =>
    /\ handler[h].pc \notin {"raced", "replay", "enqueue"} => pending[u].state = "open"
    /\ handler[h].pc \in {"probeFile", "findPo", "commit"} => file[u] = "full"

ServerInv ==
  /\ ServerTypeOK /\ OneAttachmentPerUpload /\ AttachedHasBytes
  /\ CrowdInv /\ AloneInv
  /\ \A h \in Handlers : handler[h].pc # "idle" => handler[h].upload \in Uploads
=============================================================================
