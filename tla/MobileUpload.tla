----------------------------- MODULE MobileUpload -----------------------------
(***************************************************************************)
(* The phone's upload queue (apps/mobile/lib/upload-queue) working against *)
(* the upload server.                                                      *)
(*                                                                         *)
(* The queue is one AsyncStorage value.  Every change of a job reads all   *)
(* of it and writes all of it back, and those two storage calls are        *)
(* separate: calls are served first in first out, one JavaScript turn      *)
(* after each.  The parties that change jobs are the drain loop (one at a  *)
(* time, drainMutex), the person holding the phone, and the progress       *)
(* callbacks of a PUT, which nobody awaits.                                *)
(*                                                                         *)
(* Not modelled: the refresh of an access token within a call, which ends  *)
(* like the call without one or like a lost call.                          *)
(***************************************************************************)
EXTENDS UploadServer, Sequences

CONSTANTS Jobs,         \* the files picked, numbered in the order of createdAt
          MaxJobs,      \* MAX_JOBS
          MaxFaults,    \* bound on lost calls, kills, restarts, failed requests and reads,
                        \* early expiries, and deletions by the staff
          Callbacks,    \* bound: progress callbacks that are writing at once
          NoJob, NoHandler,
          PersonOps     \* what the person does beside picking files: "retry", "dismiss"

ASSUME QueueConstants ==
  /\ Jobs \subseteq Nat /\ NoJob \notin Jobs /\ NoHandler \notin Handlers
  /\ MaxJobs \in Nat \ {0} /\ MaxFaults \in Nat
  /\ PersonOps \subseteq {"retry", "dismiss"}
  /\ Callbacks \cap {"drain", "person"} = {}

VARIABLES store,        \* the stored queue
          ops,          \* storage calls not yet served
          edit,         \* the change each party is making
          drain,        \* the drain loop
          picked,       \* files the person picked
          queued,       \* of these, the ones whose upsertJob has resolved
          dismissed,    \* of these, the ones the person dismissed
          owner,        \* history: the job an upload was reserved for
          faults        \* faults so far

phoneVars == <<store, ops, edit, drain, picked, queued, dismissed, owner, faults>>
vars == <<serverVars, phoneVars>>

-----------------------------------------------------------------------------
Absent == [status |-> "absent", waiting |-> FALSE, upload |-> NoUpload]
Job == [status : {"queued", "uploading", "failed", "completed"},
        waiting : BOOLEAN,                          \* nextAttemptAt lies ahead
        upload : Uploads \cup {NoUpload}]
Store == [Jobs -> Job \cup {Absent}]
Present(s) == {j \in Jobs : s[j] # Absent}
Empty == [j \in Jobs |-> Absent]

Parties == {"drain", "person"} \cup Callbacks
StorageCall == [by : Parties, op : {"get", "set"}, store : Store]
Edit == [kind : {"none", "load", "upsert", "remove", "retry", "prune"},
         job : Jobs \cup {NoJob}, to : Job \cup {Absent}]
NoEdit == [kind |-> "none", job |-> NoJob, to |-> Absent]

DrainPcs == {"idle", "next", "presign", "put", "putWait", "complete", "completeWait", "remove"}
Drain == [pc : DrainPcs, todo : Store, job : Jobs \cup {NoJob},
          working : Job \cup {Absent}, call : Handlers \cup {NoHandler}]
IdleDrain == [pc |-> "idle", todo |-> Empty, job |-> NoJob, working |-> Absent, call |-> NoHandler]

PhoneTypeOK ==
  /\ store \in Store
  /\ ops \in Seq(StorageCall)
  /\ edit \in [Parties -> Edit]
  /\ drain \in Drain
  /\ picked \subseteq Jobs /\ queued \subseteq Jobs /\ dismissed \subseteq Jobs
  /\ owner \in [Uploads -> Jobs \cup {NoJob}]
  /\ faults \in 0..MaxFaults

TypeOK == ServerTypeOK /\ PhoneTypeOK

Init ==
  /\ ServerInit
  /\ store = Empty /\ ops = <<>>
  /\ edit = [p \in Parties |-> NoEdit]
  /\ drain = IdleDrain
  /\ picked = {} /\ queued = {} /\ dismissed = {}
  /\ owner = [u \in Uploads |-> NoJob]
  /\ faults = 0

Fault == faults < MaxFaults /\ faults' = faults + 1

-----------------------------------------------------------------------------
(* storage.ts *)

\* upsertJob, removeJob and pruneCompletedJobs on the jobs that were read.
Applied(e, s) ==
  CASE e.kind = "upsert" -> [s EXCEPT ![e.job] = e.to]
    [] e.kind = "remove" -> [s EXCEPT ![e.job] = Absent]
    [] OTHER -> [j \in Jobs |-> IF s[j].status = "completed" THEN Absent ELSE s[j]]

\* saveUploadQueue keeps the newest MAX_JOBS jobs.
Trimmed(s) ==
  [j \in Jobs |-> IF Cardinality({k \in Present(s) : k > j}) < MaxJobs THEN s[j] ELSE Absent]

\* A party starts a change with the read of the queue.
Begin(party, change) ==
  /\ edit' = [edit EXCEPT ![party] = change]
  /\ ops' = Append(ops, [by |-> party, op |-> "get", store |-> Empty])

Upsert(job, to) == [kind |-> "upsert", job |-> job, to |-> to]
Free(party) == edit[party] = NoEdit

\* The queue was read: write it back changed; the drain loop keeps the jobs that are due;
\* a retry that finds its job goes on to upsert it.
Got(read) ==
  /\ ops # <<>> /\ Head(ops).op = "get"
  /\ LET party == Head(ops).by
         e == edit[party]
         rest == Tail(ops)
     IN CASE e.kind = "load" ->
               /\ drain' = [drain EXCEPT !.pc = "next",
                    !.todo = [j \in Jobs |->
                      IF read[j].status = "completed" \/ read[j].waiting THEN Absent ELSE read[j]]]
               /\ edit' = [edit EXCEPT ![party] = NoEdit]
               /\ ops' = rest
          [] e.kind = "retry" ->
               /\ IF read[e.job] = Absent
                  THEN edit' = [edit EXCEPT ![party] = NoEdit] /\ ops' = rest
                  ELSE /\ edit' = [edit EXCEPT ![party] =
                            Upsert(e.job, [read[e.job] EXCEPT !.status = "queued", !.waiting = FALSE])]
                       /\ ops' = Append(rest, [by |-> party, op |-> "get", store |-> Empty])
               /\ UNCHANGED drain
          [] OTHER ->
               /\ ops' = Append(rest, [by |-> party, op |-> "set", store |-> Trimmed(Applied(e, read))])
               /\ UNCHANGED <<edit, drain>>
  /\ UNCHANGED <<serverVars, store, picked, queued, dismissed, owner>>

ServeGet == Got(store) /\ UNCHANGED faults

\* loadUploadQueue takes a read that fails, or a value it cannot parse, for an empty queue.
GetFails == Fault /\ Got(Empty)

ServeSet ==
  /\ ops # <<>> /\ Head(ops).op = "set"
  /\ LET party == Head(ops).by
     IN /\ store' = Head(ops).store
        /\ edit' = [edit EXCEPT ![party] = NoEdit]
        /\ queued' = IF party = "person" /\ edit[party].kind = "upsert"
                     THEN queued \cup {edit[party].job} ELSE queued
  /\ ops' = Tail(ops)
  /\ UNCHANGED <<serverVars, drain, picked, dismissed, owner, faults>>

\* Time passes nextAttemptAt.
BackoffEnds(j) ==
  /\ store[j].waiting
  /\ store' = [store EXCEPT ![j].waiting = FALSE]
  /\ UNCHANGED <<serverVars, ops, edit, drain, picked, queued, dismissed, owner, faults>>

-----------------------------------------------------------------------------
(* The person: enqueuePreparedUpload, retryUploadJob, forgetUploadJob *)

Pick(j) ==
  /\ Free("person")
  /\ j \notin picked /\ \A k \in Jobs : k < j => k \in picked
  /\ picked' = picked \cup {j}
  /\ Begin("person", Upsert(j, [status |-> "queued", waiting |-> FALSE, upload |-> NoUpload]))
  /\ UNCHANGED <<serverVars, store, drain, queued, dismissed, owner, faults>>

Retry(j) ==
  /\ "retry" \in PersonOps
  /\ Free("person")
  /\ store[j].status = "failed"
  /\ Begin("person", [kind |-> "retry", job |-> j, to |-> Absent])
  /\ UNCHANGED <<serverVars, store, drain, picked, queued, dismissed, owner, faults>>

Dismiss(j) ==
  /\ "dismiss" \in PersonOps
  /\ Free("person")
  /\ store[j].status \notin {"absent", "completed"}
  /\ dismissed' = dismissed \cup {j}
  /\ Begin("person", [kind |-> "remove", job |-> j, to |-> Absent])
  /\ UNCHANGED <<serverVars, store, drain, picked, queued, owner, faults>>

-----------------------------------------------------------------------------
(* drainUploadQueue and processJob *)

DrainAt(pc) == drain.pc = pc /\ Free("drain")

DrainStart ==
  /\ DrainAt("idle")
  /\ Begin("drain", [kind |-> "load", job |-> NoJob, to |-> Absent])
  /\ UNCHANGED <<serverVars, store, drain, picked, queued, dismissed, owner, faults>>

\* The next due job, as it was when the queue was loaded, is marked uploading.
DrainNext ==
  /\ DrainAt("next")
  /\ LET due == Present(drain.todo)
     IN \/ due = {} /\ drain' = IdleDrain /\ UNCHANGED <<edit, ops>>
        \/ \E j \in due :
             /\ \A i \in due : j <= i
             /\ LET working == [drain.todo[j] EXCEPT !.status = "uploading"]
                IN /\ drain' = [drain EXCEPT !.pc = "presign", !.job = j, !.working = working,
                                             !.todo[j] = Absent]
                   /\ Begin("drain", Upsert(j, working))
  /\ UNCHANGED <<serverVars, store, picked, queued, dismissed, owner, faults>>

\* The network is gone before the next job: the rest waits for the next drain.
DrainOffline ==
  /\ DrainAt("next") /\ Present(drain.todo) # {}
  /\ Fault
  /\ drain' = IdleDrain
  /\ UNCHANGED <<serverVars, store, ops, edit, picked, queued, dismissed, owner>>

\* Mutant: presignExpiresAtMs is not looked at.
NeedsFirstPresign(job) == job.upload = NoUpload

\* No reservation yet, or one that has run out (its last eight seconds count as run out).
NeedsPresign(job) == job.upload \notin {u \in Uploads : ~pending[u].expired}

\* The catch of processJob: retryCount grows, nextAttemptAt moves ahead.
JobFails(working) ==
  LET failed == [working EXCEPT !.status = "failed", !.waiting = TRUE]
  IN /\ drain' = [drain EXCEPT !.pc = "next", !.working = failed, !.call = NoHandler]
     /\ Begin("drain", Upsert(drain.job, failed))
     /\ UNCHANGED <<store, picked, queued, dismissed>>

DrainReuse ==
  /\ DrainAt("presign")
  /\ ~NeedsPresign(drain.working)
  /\ drain' = [drain EXCEPT !.pc = "put"]
  /\ UNCHANGED <<serverVars, store, ops, edit, picked, queued, dismissed, owner, faults>>

DrainPresign(u) ==
  /\ DrainAt("presign")
  /\ NeedsPresign(drain.working)
  /\ Presign(u)
  /\ owner' = [owner EXCEPT ![u] = drain.job]
  /\ LET working == [drain.working EXCEPT !.upload = u]
     IN /\ drain' = [drain EXCEPT !.pc = "put", !.working = working]
        /\ Begin("drain", Upsert(drain.job, working))
  /\ UNCHANGED <<store, picked, queued, dismissed, faults>>

\* The purchase order is gone.
DrainPresignRefused ==
  /\ DrainAt("presign")
  /\ NeedsPresign(drain.working) /\ poDeleted
  /\ JobFails(drain.working)
  /\ UNCHANGED <<serverVars, owner, faults>>

\* Nobody is signed in, or the request or its reply is lost; the row may have been created.
DrainPresignLost ==
  /\ DrainAt("presign")
  /\ NeedsPresign(drain.working)
  /\ UNCHANGED serverVars \/ \E u \in Uploads : Presign(u)
  /\ Fault
  /\ JobFails(drain.working)
  /\ UNCHANGED owner

Call(h, pc) == drain' = [drain EXCEPT !.pc = pc, !.call = h]

DrainPut(h) ==
  /\ DrainAt("put")
  /\ PutArrives(h, drain.working.upload)
  /\ Call(h, "putWait")
  /\ UNCHANGED <<store, ops, edit, picked, queued, dismissed, owner, faults>>

\* onprogress fires while the body travels; its upsert is not awaited.  The callbacks are alike:
\* any that is free will do.
Progress(p) ==
  /\ drain.pc = "putWait" /\ Free(p) /\ p = CHOOSE q \in Callbacks : Free(q)
  /\ Begin(p, Upsert(drain.job, drain.working))
  /\ UNCHANGED <<serverVars, store, drain, picked, queued, dismissed, owner, faults>>

\* Mutant: the status of the reply to complete is not looked at.
AnyReply(h) == At(h, "replied")

Succeeded(h) == At(h, "replied") /\ handler[h].reply \in {"ok", "replay"}

DrainPutReply ==
  /\ DrainAt("putWait")
  /\ At(drain.call, "replied")
  /\ Hangup(drain.call)
  /\ IF handler[drain.call].reply = "ok"
     THEN /\ Call(NoHandler, "complete")
          /\ UNCHANGED <<store, ops, edit, picked, queued, dismissed>>
     ELSE JobFails(drain.working)
  /\ UNCHANGED <<owner, faults>>

DrainComplete(h) ==
  /\ DrainAt("complete")
  /\ CompleteArrives(h, drain.working.upload)
  /\ Call(h, "completeWait")
  /\ UNCHANGED <<store, ops, edit, picked, queued, dismissed, owner, faults>>

DrainCompleteReply ==
  /\ DrainAt("completeWait")
  /\ At(drain.call, "replied")
  /\ Hangup(drain.call)
  /\ IF Succeeded(drain.call)
     THEN LET done == [drain.working EXCEPT !.status = "completed"]
          IN /\ drain' = [drain EXCEPT !.pc = "remove", !.working = done, !.call = NoHandler]
             /\ Begin("drain", Upsert(drain.job, done))
             /\ UNCHANGED <<store, picked, queued, dismissed>>
     ELSE JobFails(drain.working)
  /\ UNCHANGED <<owner, faults>>

DrainRemove ==
  /\ DrainAt("remove")
  /\ drain' = [drain EXCEPT !.pc = "next"]
  /\ Begin("drain", [kind |-> "remove", job |-> drain.job, to |-> Absent])
  /\ UNCHANGED <<serverVars, store, picked, queued, dismissed, owner, faults>>

\* The request never arrives, or its reply is lost and the handler goes on alone.
DrainCallLost ==
  /\ \E pc \in {"put", "putWait", "complete", "completeWait"} : DrainAt(pc)
  /\ Fault
  /\ JobFails(drain.working)
  /\ UNCHANGED <<serverVars, owner>>

\* The phone kills the app: what is stored stays; the next launch prunes completed jobs.
AppKilled ==
  /\ Fault
  /\ drain' = IdleDrain
  /\ edit' = [p \in Parties |->
       IF p = "person" THEN [kind |-> "prune", job |-> NoJob, to |-> Absent] ELSE NoEdit]
  /\ ops' = <<[by |-> "person", op |-> "get", store |-> Empty]>>
  /\ UNCHANGED <<serverVars, store, picked, queued, dismissed, owner>>

-----------------------------------------------------------------------------
(* The server on its own *)

Unused(h) == drain.call # h

DrainStep ==
  \/ DrainStart \/ DrainNext \/ DrainReuse \/ DrainPresignRefused
  \/ DrainPutReply \/ DrainCompleteReply \/ DrainRemove
  \/ \E u \in Uploads : DrainPresign(u)
  \/ \E h \in Handlers : DrainPut(h) \/ DrainComplete(h)

HandlerRuns(h) ==
  /\ HandlerStep(h) \/ (Hangup(h) /\ Unused(h))
  /\ UNCHANGED phoneVars

ServerFault ==
  /\ RestartServer \/ (\E h \in Handlers : PutFails(h) \/ CompleteCommitFails(h))
       \/ (\E u \in Uploads : Expire(u) /\ pending[u].state = "open")
  /\ Fault
  /\ UNCHANGED <<store, ops, edit, drain, picked, queued, dismissed, owner>>

CompletedExpires(u) ==
  /\ Expire(u) /\ pending[u].state = "completed"
  /\ UNCHANGED phoneVars

StaffDeletes ==
  /\ DeletePo \/ (\E u \in Uploads : DeleteAttachment(u))
  /\ Fault
  /\ UNCHANGED <<store, ops, edit, drain, picked, queued, dismissed, owner>>

Next ==
  \/ ServeGet \/ GetFails \/ ServeSet
  \/ \E j \in Jobs : BackoffEnds(j) \/ Pick(j) \/ Retry(j) \/ Dismiss(j)
  \/ DrainStep \/ DrainOffline \/ DrainPresignLost \/ DrainCallLost \/ AppKilled
  \/ \E p \in Callbacks : Progress(p)
  \/ \E h \in Handlers : HandlerRuns(h)
  \/ \E u \in Uploads : CompletedExpires(u)
  \/ ServerFault \/ StaffDeletes

\* The storage answers, the 22 second timer restarts the drain loop, the server finishes
\* its requests, and time passes.
Fairness ==
  /\ WF_vars(ServeGet \/ ServeSet) /\ WF_vars(DrainStep)
  /\ \A h \in Handlers : WF_vars(HandlerRuns(h))
  /\ \A u \in Uploads : WF_vars(CompletedExpires(u))
  /\ \A j \in Jobs : WF_vars(BackoffEnds(j))

Spec == Init /\ [][Next]_vars /\ Fairness
-----------------------------------------------------------------------------
Delivered(j) == \E u \in Uploads : owner[u] = j /\ added[u] > 0

\* The drain loop takes a job out of the queue only when the server has recorded its file,
\* whatever was lost, retried or restarted on the way.
RemovedOnlyWhenRecorded ==
  [][DrainRemove => pending[drain.working.upload].state = "completed"]_vars

\* R-MOB-02: a file that was queued stays queued until it is delivered or dismissed.
QueuedIsKept ==
  \A j \in queued : \/ Delivered(j) \/ j \in dismissed
                    \/ store[j] # Absent \/ drain.job = j

\* A stored job is delivered in the end, unless it is dismissed, overwritten in the store (by a
\* change that began before it was stored, or whose read failed), its bytes are of no supported
\* type, or its purchase order is deleted.
QueueDelivers ==
  \A j \in Jobs : store[j] # Absent ~>
    \/ Delivered(j) \/ j \in dismissed \/ store[j] = Absent \/ poDeleted
    \/ \E u \in Spoofed : owner[u] = j

-----------------------------------------------------------------------------
(* The inductive invariant behind RemovedOnlyWhenRecorded *)

\* A change under way names a job, and so does a drain loop busy with one.
EditInv ==
  \A p \in Parties : edit[p].kind \in {"upsert", "remove", "retry"} => edit[p].job \in Jobs

DrainInv ==
  /\ drain.pc \notin {"idle", "next"} => drain.job \in Jobs /\ drain.working \in Job
  /\ drain.pc \in {"put", "putWait", "complete", "completeWait", "remove"}
       => drain.working.upload \in Uploads
  /\ drain.pc \in {"putWait", "completeWait"} => drain.call \in Handlers

\* Handler h serves a complete, and if it is past its commit, or has answered with an
\* attachment, the reservation is marked.
CompleteIsMarked(h) ==
  /\ handler[h].pc \notin {"putBody", "putWrite"}
  /\ handler[h].pc \in {"replay", "enqueue"} \/ (At(h, "replied") /\ handler[h].reply # "refused")
       => pending[handler[h].upload].state = "completed"

\* What the drain loop waits for is the request it sent.
WaitInv ==
  /\ drain.pc \in {"putWait", "completeWait"} =>
       handler[drain.call].pc # "idle" /\ handler[drain.call].upload = drain.working.upload
  /\ drain.pc = "completeWait" => CompleteIsMarked(drain.call)
  /\ drain.pc = "remove" => pending[drain.working.upload].state = "completed"

PhoneInv == PhoneTypeOK /\ EditInv /\ DrainInv /\ WaitInv
=============================================================================
