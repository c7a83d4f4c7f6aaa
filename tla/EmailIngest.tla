----------------------------- MODULE EmailIngest -----------------------------
(***************************************************************************)
(* E-mail ingestion (lib/email-ingest/run.ts): ticks that poll a tenant's  *)
(* mailbox, store each message once, match it to a purchase order and      *)
(* materialize it there, and the operators who link, retry or dismiss what *)
(* was not matched (admin/email-ingestion/actions.ts).                     *)
(*                                                                         *)
(* A handler is a tick or an operator's action in progress; ticks overlap  *)
(* when one outlives the polling interval.  Each await on the database,    *)
(* the disk or the mailbox ends a step.  A message is its UID and has a    *)
(* Message-ID of its own.  What the matcher finds is an input.             *)
(***************************************************************************)
EXTENDS Naturals, FiniteSets

CONSTANTS Messages,     \* the messages of the mailbox, by UID
          Unparsable,   \* those parseRawMessage throws on
          Pos,          \* the purchase orders a message may be matched or linked to
          Attachments,  \* the supported attachments of a message
          Ticks,        \* ticks in progress at once
          Operators,    \* operators' actions in progress at once
          NoMessage, NoPo,
          MaxBatch,     \* MAX_BATCH
          MaxFaults     \* bound on thrown errors, restarts and overrun budgets

ASSUME IngestConstants ==
  /\ Messages \subseteq Nat /\ Unparsable \subseteq Messages
  /\ NoMessage \notin Messages /\ NoPo \notin Pos
  /\ Ticks \cap Operators = {}
  /\ MaxBatch \in Nat \ {0} /\ MaxFaults \in Nat

VARIABLES mailbox,      \* the messages delivered, with their \Seen flag
          lease,        \* whether lastPolledAt is within the polling interval
          row,          \* the IngestedEmail rows
          promoted,     \* POAttachment rows, counted by e-mail and attachment
          replies,      \* VENDOR_REPLY timeline events, counted by e-mail and PO
          work,         \* handlers in progress
          overlapped,   \* history: two handlers worked on the row at once
          interrupted,  \* history: a materialization ended before its commit
          faults        \* faults so far

vars == <<mailbox, lease, row, promoted, replies, work, overlapped, interrupted, faults>>
tables == <<row, promoted, replies>>
-----------------------------------------------------------------------------
Handlers == Ticks \cup Operators

\* FAILED, which the schema declares, is written nowhere.
EmailIngestStatus == {"none", "PENDING", "UNMATCHED", "MATCHED", "DISMISSED"}
IngestedEmail == [status : EmailIngestStatus, po : Pos \cup {NoPo},
                  retried : BOOLEAN]                    \* retriedAt is set
NoRow == [status |-> "none", po |-> NoPo, retried |-> FALSE]

Pcs == {"idle", "fetch", "loop", "insert", "match", "unmatched", "findReply", "promote",
        "markSeen", "retryWrite", "dismissWrite"}
Work == [pc : Pcs, batch : SUBSET Messages, msg : Messages \cup {NoMessage},
         po : Pos \cup {NoPo}, todo : SUBSET Attachments]
Idle == [pc |-> "idle", batch |-> {}, msg |-> NoMessage, po |-> NoPo, todo |-> {}]

TypeOK ==
  /\ mailbox \in [Messages -> {"absent", "unseen", "seen"}]
  /\ lease \in {"free", "held"}
  /\ row \in [Messages -> IngestedEmail]
  /\ promoted \in [Messages \X Attachments -> Nat]
  /\ replies \in [Messages \X Pos -> Nat]
  /\ work \in [Handlers -> Work]
  /\ overlapped \subseteq Messages /\ interrupted \subseteq Messages
  /\ faults \in 0..MaxFaults

Init ==
  /\ mailbox = [m \in Messages |-> "absent"]
  /\ lease = "free"
  /\ row = [m \in Messages |-> NoRow]
  /\ promoted = [k \in Messages \X Attachments |-> 0]
  /\ replies = [k \in Messages \X Pos |-> 0]
  /\ work = [h \in Handlers |-> Idle]
  /\ overlapped = {} /\ interrupted = {}
  /\ faults = 0

Stored(m) == row[m].status # "none"
At(h, pc) == work[h].pc = pc
Continue(h, pc) == work' = [work EXCEPT ![h].pc = pc]

\* The handler acts on the row of m.
Working(h, m) ==
  /\ work[h].msg = m
  /\ work[h].pc \in {"match", "unmatched", "findReply", "promote", "retryWrite", "dismissWrite"}

NoteOverlap(h, m) ==
  overlapped' = IF \E g \in Handlers \ {h} : Working(g, m) THEN overlapped \cup {m} ELSE overlapped

Fault == faults < MaxFaults /\ faults' = faults + 1

-----------------------------------------------------------------------------
(* The mailbox, and runIngestForTenant *)

Deliver(m) ==
  /\ mailbox[m] = "absent"
  /\ \A k \in Messages : k < m => mailbox[k] # "absent"
  /\ mailbox' = [mailbox EXCEPT ![m] = "unseen"]
  /\ UNCHANGED <<lease, tables, work, overlapped, interrupted, faults>>

\* pollIntervalSeconds after lastPolledAt, however long the tick takes.
LeaseRunsOut ==
  /\ lease = "held"
  /\ lease' = "free"
  /\ UNCHANGED <<mailbox, tables, work, overlapped, interrupted, faults>>

\* claimLease: one conditional update.
TickClaim(t) ==
  /\ At(t, "idle")
  /\ lease = "free"
  /\ lease' = "held"
  /\ Continue(t, "fetch")
  /\ UNCHANGED <<mailbox, tables, overlapped, interrupted, faults>>

Unseen == {m \in Messages : mailbox[m] = "unseen"}

\* The first MAX_BATCH unseen messages.
TickFetch(t) ==
  /\ At(t, "fetch")
  /\ work' = [work EXCEPT ![t].pc = "loop",
       ![t].batch = {m \in Unseen : Cardinality({k \in Unseen : k < m}) < MaxBatch}]
  /\ UNCHANGED <<mailbox, lease, tables, overlapped, interrupted, faults>>

\* Mutant: a message that cannot be parsed ends the tick.
TickNextGivesUp(t) ==
  /\ At(t, "loop")
  /\ \/ (work[t].batch = {} \/ Unparsable \cap work[t].batch # {}) /\ work' = [work EXCEPT ![t] = Idle]
     \/ \E m \in work[t].batch \ Unparsable :
          /\ \A k \in work[t].batch : m <= k
          /\ work' = [work EXCEPT ![t] = [Idle EXCEPT
               !.batch = work[t].batch \ {m}, !.pc = "insert", !.msg = m]]
  /\ UNCHANGED <<mailbox, lease, tables, overlapped, interrupted, faults>>

\* The next message of the batch; one that cannot be parsed is left unseen.
TickNext(t) ==
  /\ At(t, "loop")
  /\ \/ work[t].batch = {} /\ work' = [work EXCEPT ![t] = Idle]
     \/ \E m \in work[t].batch :
          /\ \A k \in work[t].batch : m <= k
          /\ work' = [work EXCEPT ![t] = [Idle EXCEPT
               !.batch = work[t].batch \ {m},
               !.pc = IF m \in Unparsable THEN "loop" ELSE "insert",
               !.msg = IF m \in Unparsable THEN NoMessage ELSE m]]
  /\ UNCHANGED <<mailbox, lease, tables, overlapped, interrupted, faults>>

\* PER_TICK_BUDGET_MS is spent: the rest of the batch is left for the next tick.
TickBudget(t) ==
  /\ At(t, "loop") /\ work[t].batch # {}
  /\ Fault
  /\ work' = [work EXCEPT ![t] = Idle]
  /\ UNCHANGED <<mailbox, lease, tables, overlapped, interrupted>>

\* The unique index lets the insert through.
NewMessage(m) == ~Stored(m)

\* The insert transaction with its attachment rows; a duplicate goes straight to markSeen.
InsertRow(t) ==
  /\ At(t, "insert")
  /\ LET m == work[t].msg
     IN IF NewMessage(m)
        THEN /\ row' = [row EXCEPT ![m] = [NoRow EXCEPT !.status = "PENDING"]]
             /\ Continue(t, "match")
             /\ NoteOverlap(t, m)
        ELSE Continue(t, "markSeen") /\ UNCHANGED <<row, overlapped>>
  /\ UNCHANGED <<mailbox, lease, promoted, replies, interrupted, faults>>

\* matchEmail.
Match(t, po) ==
  /\ At(t, "match")
  /\ work' = [work EXCEPT ![t].pc = IF po = NoPo THEN "unmatched" ELSE "findReply", ![t].po = po]
  /\ UNCHANGED <<mailbox, lease, tables, overlapped, interrupted, faults>>

\* The update names the row by id alone.
RecordUnmatched(t) ==
  /\ At(t, "unmatched")
  /\ row' = [row EXCEPT ![work[t].msg].status = "UNMATCHED"]
  /\ Continue(t, "markSeen")
  /\ UNCHANGED <<mailbox, lease, promoted, replies, overlapped, interrupted, faults>>

\* Mutant: the flag is set before the row is stored.
MarkedAtOnce(t) == At(t, "markSeen") \/ At(t, "insert")

MarkedNow(t) == At(t, "markSeen")

MarkSeen(t) ==
  /\ MarkedNow(t)
  /\ mailbox' = [mailbox EXCEPT ![work[t].msg] = "seen"]
  /\ work' = [work EXCEPT ![t] = [Idle EXCEPT !.pc = "loop", !.batch = work[t].batch]]
  /\ UNCHANGED <<lease, tables, overlapped, interrupted, faults>>

-----------------------------------------------------------------------------
(* materializeOnPo, for a tick or for an operator's link *)

\* A tick goes on to markSeen, an operator is done.
Return(h) ==
  work' = [work EXCEPT ![h] =
    IF h \in Ticks THEN [Idle EXCEPT !.pc = "markSeen", !.batch = work[h].batch, !.msg = work[h].msg]
    ELSE Idle]

\* Mutant: materializeOnPo does not look for an earlier VENDOR_REPLY.
NeverReplied(m) == FALSE

Replied(m) == \E p \in Pos : replies[<<m, p>>] > 0

\* Mutant: the short circuit marks the row MATCHED on the PO that was asked for.
FindReplyAndMatch(h) ==
  /\ At(h, "findReply")
  /\ LET m == work[h].msg
     IN IF Replied(m)
        THEN /\ Return(h)
             /\ row' = [row EXCEPT ![m].status = "MATCHED", ![m].po = work[h].po]
        ELSE /\ work' = [work EXCEPT ![h].pc = "promote", ![h].todo = Attachments]
             /\ UNCHANGED row
  /\ UNCHANGED <<mailbox, lease, promoted, replies, overlapped, interrupted, faults>>

\* The VENDOR_REPLY short circuit leaves the row as it is.
FindReply(h) ==
  /\ At(h, "findReply")
  /\ IF Replied(work[h].msg) THEN Return(h)
     ELSE work' = [work EXCEPT ![h].pc = "promote", ![h].todo = Attachments]
  /\ UNCHANGED <<mailbox, lease, tables, overlapped, interrupted, faults>>

\* One attachment: copied and inserted, or the error is swallowed.
PromoteAttachment(h, a) ==
  /\ At(h, "promote")
  /\ a \in work[h].todo
  /\ work' = [work EXCEPT ![h].todo = @ \ {a}]
  /\ \/ promoted' = [promoted EXCEPT ![<<work[h].msg, a>>] = @ + 1]
     \/ UNCHANGED promoted
  /\ UNCHANGED <<mailbox, lease, row, replies, overlapped, interrupted, faults>>

\* The transaction: the timeline event, and the row by id alone.
CommitReply(h) ==
  /\ At(h, "promote") /\ work[h].todo = {}
  /\ LET m == work[h].msg
         p == work[h].po
     IN /\ replies' = [replies EXCEPT ![<<m, p>>] = @ + 1]
        /\ row' = [row EXCEPT ![m].status = "MATCHED", ![m].po = p]
  /\ Return(h)
  /\ UNCHANGED <<mailbox, lease, promoted, overlapped, interrupted, faults>>

-----------------------------------------------------------------------------
(* manualLinkEmailToPoAction, retryEmailAction, dismissEmailAction *)

Start(o, m, pc, po) ==
  /\ At(o, "idle")
  /\ Stored(m)
  /\ work' = [work EXCEPT ![o] = [Idle EXCEPT !.pc = pc, !.msg = m, !.po = po]]
  /\ NoteOverlap(o, m)
  /\ UNCHANGED <<mailbox, lease, tables, interrupted, faults>>

Linkable(m) == row[m].status \notin {"MATCHED", "DISMISSED"}

LinkRead(o, m, po) == Linkable(m) /\ Start(o, m, "findReply", po)

RetryRead(o, m) == Start(o, m, "retryWrite", NoPo)

RetryWrite(o) ==
  /\ At(o, "retryWrite")
  /\ row' = [row EXCEPT ![work[o].msg].status = "PENDING", ![work[o].msg].retried = TRUE]
  /\ work' = [work EXCEPT ![o] = Idle]
  /\ UNCHANGED <<mailbox, lease, promoted, replies, overlapped, interrupted, faults>>

DismissRead(o, m) == row[m].status # "MATCHED" /\ Start(o, m, "dismissWrite", NoPo)

DismissWrite(o) ==
  /\ At(o, "dismissWrite")
  /\ row' = [row EXCEPT ![work[o].msg].status = "DISMISSED"]
  /\ work' = [work EXCEPT ![o] = Idle]
  /\ UNCHANGED <<mailbox, lease, promoted, replies, overlapped, interrupted, faults>>

-----------------------------------------------------------------------------
(* Errors and restarts *)

Materializing(h) == At(h, "promote")
CutOff(hs) == interrupted' = interrupted \cup {work[h].msg : h \in {g \in hs : Materializing(g)}}

\* An error: of one message, which the tick survives, or of the connection.
HandlerThrows(h) ==
  /\ work[h].pc \notin {"idle", "loop"}
  /\ Fault
  /\ work' = [work EXCEPT ![h] =
       IF h \in Operators \/ At(h, "fetch") THEN Idle
       ELSE [Idle EXCEPT !.pc = "loop", !.batch = work[h].batch]]
  /\ CutOff({h})
  /\ UNCHANGED <<mailbox, lease, tables, overlapped>>

Restart ==
  /\ Fault
  /\ work' = [h \in Handlers |-> Idle]
  /\ CutOff(Handlers)
  /\ UNCHANGED <<mailbox, lease, tables, overlapped>>

-----------------------------------------------------------------------------
Materialize(h) ==
  \/ FindReply(h) \/ CommitReply(h)
  \/ \E a \in Attachments : PromoteAttachment(h, a)

TickStep(t) ==
  \/ TickClaim(t) \/ TickFetch(t) \/ TickNext(t) \/ InsertRow(t)
  \/ RecordUnmatched(t) \/ MarkSeen(t)
  \/ \E po \in Pos \cup {NoPo} : Match(t, po)
  \/ Materialize(t)

OperatorStep(o) ==
  \/ \E m \in Messages : \/ RetryRead(o, m) \/ DismissRead(o, m)
                         \/ \E po \in Pos : LinkRead(o, m, po)
  \/ RetryWrite(o) \/ DismissWrite(o)
  \/ Materialize(o)

Next ==
  \/ \E m \in Messages : Deliver(m)
  \/ LeaseRunsOut
  \/ \E t \in Ticks : TickStep(t) \/ TickBudget(t)
  \/ \E o \in Operators : OperatorStep(o)
  \/ \E h \in Handlers : HandlerThrows(h)
  \/ Restart

\* The timer keeps calling the route, handlers go on, and leases run out.  Nothing is
\* assumed of what operators start.
Fairness ==
  /\ WF_vars(LeaseRunsOut)
  /\ \A t \in Ticks : WF_vars(TickStep(t))
  /\ \A o \in Operators : WF_vars(RetryWrite(o) \/ DismissWrite(o) \/ Materialize(o))

Spec == Init /\ [][Next]_vars /\ Fairness
-----------------------------------------------------------------------------
\* R-MAIL-01: a message is marked \Seen only once its row is stored, whatever ticks overlap,
\* throw or die.
SeenOnlyWhenStored == \A m \in Messages : mailbox[m] = "seen" => Stored(m)

\* Two ticks may fetch the same message, but only one of them matches and materializes it:
\* the unique index keeps them apart, the lease need not.
OneTickPerMessage ==
  \A t, u \in Ticks, m \in Messages : t # u => ~(Working(t, m) /\ Working(u, m))

\* A matched e-mail shows on the timeline of its PO; one that shows on a timeline is matched,
\* unless an operator retried it or two handlers met on its row.
MatchedShowsOnTimeline ==
  \A m \in Messages :
    /\ row[m].status = "MATCHED" => replies[<<m, row[m].po>>] > 0
    /\ Replied(m) /\ row[m].status # "MATCHED" => row[m].retried \/ m \in overlapped

\* An e-mail appears on one timeline, once, unless two handlers met on its row: retries,
\* repeated links, thrown errors and restarts between any two steps do not repeat it.
OneReplyUnlessOverlap ==
  \A m \in Messages, p, q \in Pos :
    replies[<<m, p>>] > 0 /\ replies[<<m, q>>] > 0 /\ m \notin overlapped
      => p = q /\ replies[<<m, p>>] = 1

\* An attachment is promoted at most once, unless handlers met on the e-mail or one was cut
\* off between the first promotion and the timeline event.
PromotedOnce ==
  \A m \in Messages, a \in Attachments :
    promoted[<<m, a>>] > 1 => m \in overlapped \cup interrupted

\* A decision on an e-mail (matched or dismissed) is changed by a retry only, unless two
\* handlers met on its row.
DecisionStands ==
  [][\A m \in Messages :
       row[m].status \in {"MATCHED", "DISMISSED"} /\ row'[m].status # row[m].status
         => \/ m \in overlapped
            \/ \E o \in Operators : RetryWrite(o) /\ work[o].msg = m]_vars

\* A delivered message is stored in the end, unless it cannot be parsed or MAX_BATCH messages
\* that cannot be parsed stand before it: those are never marked \Seen.
MailIsStored ==
  \A m \in Messages \ Unparsable :
    Cardinality({k \in Unparsable : k < m}) < MaxBatch =>
      (mailbox[m] = "unseen" ~> Stored(m))

-----------------------------------------------------------------------------
(* The inductive invariant behind the safety properties *)

OnRow == {"match", "unmatched", "findReply", "promote", "retryWrite", "dismissWrite"}

\* What a handler holds: a tick a message of its batch, stored once it is past the insert;
\* whoever materializes, a purchase order.
WorkInv ==
  \A h \in Handlers :
    /\ work[h].pc \in OnRow \cup {"insert", "markSeen"} => work[h].msg \in Messages
    /\ work[h].pc \in OnRow \cup {"markSeen"} => Stored(work[h].msg)
    /\ work[h].pc \in {"findReply", "promote"} => work[h].po \in Pos
    /\ h \in Operators => work[h].pc \in {"idle", "findReply", "promote", "retryWrite", "dismissWrite"}
    /\ h \in Ticks => work[h].pc \notin {"retryWrite", "dismissWrite"}

\* Two handlers that meet on a row have been noticed.
OverlapInv ==
  \A g, h \in Handlers, m \in Messages :
    g # h /\ Working(g, m) /\ Working(h, m) => m \in overlapped

\* What a handler read of a row still holds as long as it has the row to itself.
AloneInv ==
  \A h \in Handlers, m \in Messages : Working(h, m) /\ m \notin overlapped =>
    /\ work[h].pc \in {"match", "unmatched", "promote"} => ~Replied(m)
    /\ work[h].pc \in {"match", "unmatched", "findReply", "promote"} =>
         row[m].status \notin {"MATCHED", "DISMISSED"}
    /\ work[h].pc = "dismissWrite" => row[m].status # "MATCHED"

\* Undisturbed, attachments are promoted only by the handler at it, which has not come to
\* those still to do, or by one that went on to the timeline event.
PromotionInv ==
  \A m \in Messages \ (overlapped \cup interrupted), a \in Attachments :
    promoted[<<m, a>>] > 0 =>
      \/ Replied(m)
      \/ \E h \in Handlers : Working(h, m) /\ At(h, "promote") /\ a \notin work[h].todo

IInv ==
  /\ TypeOK /\ WorkInv /\ OverlapInv /\ AloneInv /\ PromotionInv
  /\ SeenOnlyWhenStored /\ OneTickPerMessage /\ MatchedShowsOnTimeline
  /\ OneReplyUnlessOverlap /\ PromotedOnce
  /\ \A m \in Messages : Replied(m) => Stored(m)
  /\ \A m \in Messages : row[m].status = "MATCHED" => row[m].po \in Pos

-----------------------------------------------------------------------------
(* What the documentation says and a run refutes *)

\* EMAIL_INGESTION.md: a retried e-mail is matched again by a later tick.
RetryRunsMatcher ==
  \A m \in Messages :
    row[m].status = "PENDING" /\ row[m].retried ~> row[m].status # "PENDING"
=============================================================================
