----------------------- MODULE EstimateLifecycleProofs -----------------------
(***************************************************************************)
(* Theorems about the estimate lifecycle, for any number of staff          *)
(* requests, customers, links and purchase orders.                         *)
(***************************************************************************)
EXTENDS EstimateLifecycle, TLAPS

-----------------------------------------------------------------------------
(* Type correctness *)

\* The record a free request slot holds is a request.
LEMMA IdleTyped == ConstantsOK => Idle \in Request
BY DEF Idle, Request, Pcs, Status, ConstantsOK

\* The updates the handlers make to a request keep it a request.
LEMMA RequestUpdatesTyped ==
  ASSUME NEW r \in Request, NEW pc \in Pcs
  PROVE  /\ [r EXCEPT !.pc = pc] \in Request
         /\ \A seen \in SUBSET Staff : [r EXCEPT !.pc = pc, !.seenLines = seen] \in Request
         /\ \A l \in Links, seen \in SUBSET Links :
              [r EXCEPT !.pc = pc, !.link = l, !.seenLinks = seen] \in Request
BY DEF Request

\* Stamping revokedAt keeps a link row a link row.
LEMMA RevokeTyped ==
  ASSUME NEW r \in Link, NEW also PROVE [r EXCEPT !.revoked = @ \/ also] \in Link
<1>1. \A b \in BOOLEAN : [r EXCEPT !.revoked = b] \in Link
  BY DEF Link
<1>2. (r.revoked \/ also) \in BOOLEAN
  OBVIOUS
<1> QED  BY <1>1, <1>2

\* Stamping revokedAt changes nothing else in a link row.
LEMMA RevokeEffect ==
  ASSUME NEW r \in Link, NEW also \in BOOLEAN
  PROVE  /\ [r EXCEPT !.revoked = @ \/ also].revoked <=> (r.revoked \/ also)
         /\ [r EXCEPT !.revoked = @ \/ also].url = r.url
         /\ [r EXCEPT !.revoked = @ \/ also].answer = r.answer
BY Zenon DEF Link

\* Handing out the URL and recording an answer keep a link row a link row.
LEMMA LinkUpdatesTyped ==
  ASSUME NEW r \in Link
  PROVE  /\ \A url \in {"held", "out"} : [r EXCEPT !.url = url] \in Link
         /\ \A answer \in Intents : [r EXCEPT !.answer = answer] \in Link
BY DEF Link

\* The row inserted by issueEstimateQuoteLink is a link row.
LEMMA FreshLinkTyped ==
  ASSUME NEW url \in {"held", "out"}, NEW expiry \in {"never", "later"}
  PROVE  [UnissuedLink EXCEPT !.url = url, !.expiry = expiry] \in Link
BY DEF Link, UnissuedLink

\* Every step that only starts a request, with the request record r it starts with.
LEMMA ReadStepTyped ==
  ASSUME TypeOK, approvedOnce' \in BOOLEAN, UNCHANGED <<tables, resp, issuedAfter>>,
         NEW s \in Staff, NEW r \in Request, req' = [req EXCEPT ![s] = r]
  PROVE  TypeOK'
BY DEF TypeOK, tables

\* The first step of every staff handler.
StaffReads(s) ==
  \/ \E c \in Contents : SaveRead(s, c)
  \/ \E new \in StatusTargets : StatusRead(s, new)
  \/ \E p \in Pos, filled \in BOOLEAN : PoQboRead(s, p, filled)
  \/ \E p \in Pos : PoDeleteRead(s, p)
  \/ DeleteRead(s) \/ FinalizeRead(s) \/ UnfinalizeRead(s) \/ IssueRead(s) \/ SendRead(s)
  \/ RevokeRead(s) \/ PoConvertRead(s) \/ PoBlankRead(s) \/ InvoiceRead(s) \/ PayRead(s)

\* The first step of every staff handler keeps the types.
LEMMA StaffReadsTyped ==
  ASSUME ConstantsOK, TypeOK, approvedOnce' \in BOOLEAN, NEW s \in Staff, StaffReads(s)
  PROVE  TypeOK'
<1> USE IdleTyped DEF Request, Pcs, Status
<1>1. ASSUME NEW c \in Contents, SaveRead(s, c) PROVE TypeOK'
  <2>1. [Idle EXCEPT !.pc = "saveDelete", !.content = c] \in Request
    BY DEF Idle
  <2> QED  BY <1>1, <2>1, ReadStepTyped DEF SaveRead
<1>2. ASSUME NEW new \in StatusTargets, StatusRead(s, new) PROVE TypeOK'
  <2>1. [Idle EXCEPT !.pc = "statusWrite", !.status = new] \in Request
    BY DEF Idle, ConstantsOK
  <2> QED  BY <1>2, <2>1, ReadStepTyped DEF StatusRead
<1>3. ASSUME NEW p \in Pos, NEW filled \in BOOLEAN, PoQboRead(s, p, filled) PROVE TypeOK'
  <2>1. [Idle EXCEPT !.pc = "poQbo", !.po = p, !.qbo = filled] \in Request
    BY DEF Idle
  <2> QED  BY <1>3, <2>1, ReadStepTyped DEF PoQboRead
<1>4. ASSUME NEW p \in Pos, PoDeleteRead(s, p) PROVE TypeOK'
  <2>1. [Idle EXCEPT !.pc = "poDelete", !.po = p] \in Request
    BY DEF Idle
  <2> QED  BY <1>4, <2>1, ReadStepTyped DEF PoDeleteRead
<1>5. ASSUME NEW pc \in Pcs, UNCHANGED <<tables, resp, issuedAfter>>,
             req' = [req EXCEPT ![s] = [Idle EXCEPT !.pc = pc]]
      PROVE  TypeOK'
  <2>1. [Idle EXCEPT !.pc = pc] \in Request
    BY DEF Idle
  <2> QED  BY <1>5, <2>1, ReadStepTyped
<1>6. ASSUME NEW pc \in Pcs, UNCHANGED <<tables, resp, issuedAfter>>,
             req' = [req EXCEPT ![s] = [Idle EXCEPT !.pc = pc, !.status = est.status]]
      PROVE  TypeOK'
  <2>1. [Idle EXCEPT !.pc = pc, !.status = est.status] \in Request
    BY DEF Idle, TypeOK, Estimate
  <2> QED  BY <1>6, <2>1, ReadStepTyped
<1>7. ASSUME InvoiceRead(s) PROVE TypeOK'
  <2>1. [Idle EXCEPT !.pc = "invoiceCheck", !.content = est.total] \in Request
    BY DEF Idle, TypeOK, Estimate
  <2> QED  BY <1>7, <2>1, ReadStepTyped DEF InvoiceRead
<1>8. DeleteRead(s) \/ FinalizeRead(s) \/ UnfinalizeRead(s) \/ IssueRead(s)
        \/ SendRead(s) \/ RevokeRead(s) \/ PoConvertRead(s) \/ PoBlankRead(s)
        \/ InvoiceRead(s) \/ PayRead(s) => TypeOK'
  BY <1>5, <1>6, <1>7 DEF DeleteRead, FinalizeRead, UnfinalizeRead, IssueRead, SendRead,
     RevokeRead, PoConvertRead, PoBlankRead, PayRead
<1> QED  BY <1>1, <1>2, <1>3, <1>4, <1>8 DEF StaffReads

\* The writes to an existing purchase order keep its type.
LEMMA PoWritesTyped ==
  ASSUME TypeOK, NEW s \in Staff, PoQboWrite(s) \/ PoDeleteWrite(s)
  PROVE  pos' \in [Pos -> Po]
<1>1. req[s].qbo \in BOOLEAN
  BY DEF TypeOK, Request
<1>2. CASE req[s].po \in Pos
  <2>1. \A b \in BOOLEAN : /\ [pos[req[s].po] EXCEPT !.qbo = b] \in Po
                           /\ [pos[req[s].po] EXCEPT !.deleted = b] \in Po
    BY <1>2 DEF TypeOK, Po
  <2> QED  BY <1>1, <1>2, <2>1 DEF PoQboWrite, PoDeleteWrite, TypeOK
<1>3. CASE req[s].po \notin Pos
  BY <1>3 DEF PoQboWrite, PoDeleteWrite, TypeOK
<1> QED  BY <1>2, <1>3

\* The transaction that records an answer keeps the types.
LEMMA RespondRecordTyped ==
  ASSUME TypeOK, NEW c \in Customers, RespondRecord(c)
  PROVE  /\ links' \in [Links -> Link]
         /\ events' \in [EventKinds -> Nat]
         /\ est' \in Estimate
         /\ resp' \in [Customers -> Response]
<1> DEFINE kind == <<resp[c].link, resp[c].intent>>
<1>1. resp[c].intent \in Intents
  BY DEF TypeOK, Response
<1>2. links' \in [Links -> Link]
  BY <1>1, LinkUpdatesTyped DEF RespondRecord, TypeOK
<1>3. events' = [events EXCEPT ![kind] = @ + 1]
  BY DEF RespondRecord
<1> HIDE DEF kind
<1>4. events' \in [EventKinds -> Nat]
  <2>1. CASE kind \in EventKinds
    <3>1. events[kind] + 1 \in Nat
      BY <2>1 DEF TypeOK
    <3> QED  BY <1>3, <3>1 DEF TypeOK
  <2>2. CASE kind \notin EventKinds
    BY <1>3, <2>2 DEF TypeOK
  <2> QED  BY <2>1, <2>2
<1>5. est' \in Estimate
  <2>1. EstimateStatusAfter(resp[c].intent) \in Status
    BY DEF EstimateStatusAfter, Status
  <2>2. CASE est.deleted
    BY <2>2 DEF RespondRecord, EstimateAfterResponse, TypeOK
  <2>3. CASE ~est.deleted
    BY <2>1, <2>3 DEF RespondRecord, EstimateAfterResponse, TypeOK, Estimate
  <2> QED  BY <2>2, <2>3
<1>6. resp' \in [Customers -> Response]
  <2>1. "recorded" \in Told
    BY DEF Told
  <2> QED  BY <2>1 DEF RespondRecord, TypeOK, Response
<1> QED  BY <1>2, <1>4, <1>5, <1>6

\* A lost race leaves the response with one of the replies.
LEMMA RespondLostRaceTyped ==
  ASSUME TypeOK, NEW c \in Customers, RespondLostRace(c)
  PROVE  resp' \in [Customers -> Response]
<1> DEFINE reply == ClassifyQuoteResponseRace(resp[c].intent, links[resp[c].link].answer)
<1>1. reply \in Told
  BY DEF ClassifyQuoteResponseRace, Told
<1>2. resp' = [resp EXCEPT ![c].pc = "idle", ![c].told = reply]
  BY DEF RespondLostRace
<1> HIDE DEF reply
<1> QED  BY <1>1, <1>2 DEF TypeOK, Response

\* Every step keeps the types.
LEMMA TypeStep == ASSUME ConstantsOK, TypeOK, RequestsInv, Next PROVE TypeOK'
<1>0. approvedOnce' \in BOOLEAN
  BY DEF TypeOK, Next
<1>1. ASSUME NEW s \in Staff
      PROVE  /\ \A pc \in Pcs : Continue(s, pc) => req' \in [Staff -> Request]
             /\ Finish(s) => req' \in [Staff -> Request]
  <2>1. \A pc \in Pcs : [req[s] EXCEPT !.pc = pc] \in Request
    BY RequestUpdatesTyped DEF TypeOK
  <2> QED  BY <2>1, IdleTyped DEF Continue, Finish, TypeOK
<1>2. ASSUME NEW s \in Staff, StaffStep(s) PROVE TypeOK'
  <2>0. CASE StaffReads(s)
    BY <1>0, <2>0, StaffReadsTyped
  <2>1. CASE SaveDeleteLines(s)
    <3>1. {t \in Staff : lines[t] # NoContent} \in SUBSET Staff /\ "saveCommit" \in Pcs
      BY DEF Pcs
    <3>2. req' \in [Staff -> Request]
      BY <2>1, <3>1, RequestUpdatesTyped DEF SaveDeleteLines, TypeOK
    <3> QED  BY <1>0, <2>1, <3>2 DEF SaveDeleteLines, TypeOK, tables
  <2>2. CASE SaveCommit(s)
    <3>1. /\ lines' \in [Staff -> Contents \cup {NoContent}]
          /\ est' \in Estimate
      BY <2>2 DEF SaveCommit, TypeOK, Request, Estimate
    <3> QED  BY <1>0, <1>1, <2>2, <3>1 DEF SaveCommit, TypeOK
  <2>3. CASE StatusWrite(s)
    <3>1. est' \in Estimate
      BY <2>3 DEF StatusWrite, At, RequestsInv, TypeOK, Estimate
    <3> QED  BY <1>0, <1>1, <2>3, <3>1 DEF StatusWrite, TypeOK
  <2>4. CASE DeleteWrite(s) \/ FinalizeWrite(s) \/ UnfinalizeWrite(s)
    <3>1. est' \in Estimate
      BY <2>4 DEF DeleteWrite, FinalizeWrite, UnfinalizeWrite, TypeOK, Estimate, Status
    <3> QED  BY <1>0, <1>1, <2>4, <3>1 DEF DeleteWrite, FinalizeWrite, UnfinalizeWrite, TypeOK
  <2>5. CASE FinalizeReadPos(s) \/ InvoiceCheckExisting(s)
    <3>1. req' \in [Staff -> Request]
      BY <1>1, <2>5 DEF FinalizeReadPos, InvoiceCheckExisting, Pcs
    <3> QED  BY <1>0, <2>5, <3>1 DEF FinalizeReadPos, InvoiceCheckExisting, TypeOK, tables
  <2>6. CASE PoQboWrite(s) \/ PoDeleteWrite(s)
    <3>1. pos' \in [Pos -> Po]
      BY <2>6, PoWritesTyped
    <3> QED  BY <1>0, <1>1, <2>6, <3>1 DEF PoQboWrite, PoDeleteWrite, TypeOK
  <2>7. ASSUME NEW p \in Pos, PoCreate(s, p) PROVE TypeOK'
    <3>1. \A b \in BOOLEAN : [NoPoRow EXCEPT !.exists = TRUE, !.converted = b] \in Po
      BY DEF Po, NoPoRow, ReconStatus
    <3>2. At(s, "poConvert") \in BOOLEAN
      BY DEF At
    <3>3. pos' \in [Pos -> Po]
      BY <2>7, <3>1, <3>2 DEF PoCreate, TypeOK
    <3> QED  BY <1>0, <1>1, <2>7, <3>3 DEF PoCreate, TypeOK
  <2>8. CASE InvoiceCommit(s)
    <3>1. invoice' \in Invoice /\ events' \in [EventKinds -> Nat]
      <4>1. CASE InvoiceSlotFree
        <5>1. req[s].content \in Contents \cup {NoContent}
          BY DEF TypeOK, Request
        <5> QED  BY <2>8, <4>1, <5>1 DEF InvoiceCommit, TypeOK, Invoice, EventKinds
      <4>2. CASE ~InvoiceSlotFree
        BY <2>8, <4>2 DEF InvoiceCommit, TypeOK
      <4> QED  BY <4>1, <4>2
    <3> QED  BY <1>0, <1>1, <2>8, <3>1 DEF InvoiceCommit, TypeOK
  <2>9. CASE PayWrite(s)
    <3>1. invoice' \in Invoice
      BY <2>9 DEF PayWrite, TypeOK, Invoice
    <3> QED  BY <1>0, <1>1, <2>9, <3>1 DEF PayWrite, TypeOK
  <2> QED  BY <1>2, <2>0, <2>1, <2>2, <2>3, <2>4, <2>5, <2>6, <2>7, <2>8, <2>9
           DEF StaffStep, StaffReads
<1>3. ASSUME NEW s \in Staff, LinkStep(s) PROVE TypeOK'
  <2>0. CASE StaffReads(s)
    BY <1>0, <2>0, StaffReadsTyped
  <2>1. ASSUME NEW l \in Links, IssueRevokeActive(s, l) PROVE TypeOK'
    <3>1. /\ LinksToRevoke \in SUBSET Links /\ Committed \in SUBSET Links
          /\ "issueCommit" \in Pcs
      BY DEF LinksToRevoke, Active, Committed, Pcs
    <3>2. /\ req' \in [Staff -> Request]
          /\ issuedAfter' \in [Links -> SUBSET Links]
      BY <2>1, <3>1, RequestUpdatesTyped DEF IssueRevokeActive, TypeOK
    <3> QED  BY <1>0, <2>1, <3>2 DEF IssueRevokeActive, TypeOK, tables
  <2>2. ASSUME NEW expiry \in {"never", "later"}, IssueCommit(s, expiry) PROVE TypeOK'
    <3>1. links' \in [Links -> Link]
      BY <2>2, RevokeTyped, FreshLinkTyped DEF IssueCommit, TypeOK
    <3>2. req' \in [Staff -> Request]
      BY <1>1, <2>2 DEF IssueCommit, Pcs
    <3> QED  BY <1>0, <2>2, <3>1, <3>2 DEF IssueCommit, TypeOK
  <2>3. CASE SendMailOk(s) \/ SendMailFails(s)
    <3>1. links' \in [Links -> Link]
      BY <2>3, LinkUpdatesTyped DEF SendMailOk, SendMailFails, TypeOK
    <3>2. req' \in [Staff -> Request]
      BY <1>1, <2>3 DEF SendMailOk, SendMailFails, Pcs
    <3> QED  BY <1>0, <2>3, <3>1, <3>2 DEF SendMailOk, SendMailFails, TypeOK
  <2>4. CASE SendWrite(s)
    <3>1. est' \in Estimate
      BY <2>4 DEF SendWrite, StatusAfterSuccessfulCustomerSend, TypeOK, Estimate, Status
    <3> QED  BY <1>0, <1>1, <2>4, <3>1 DEF SendWrite, TypeOK
  <2>5. CASE RevokeWrite(s)
    <3>1. links' \in [Links -> Link]
      BY <2>5, RevokeTyped DEF RevokeWrite, TypeOK
    <3> QED  BY <1>0, <1>1, <2>5, <3>1 DEF RevokeWrite, TypeOK
  <2> QED  BY <1>3, <2>0, <2>1, <2>2, <2>3, <2>4, <2>5 DEF LinkStep, StaffReads
<1>4. ASSUME NEW c \in Customers, CustomerStep(c) PROVE TypeOK'
  <2>1. ASSUME NEW l \in Links, NEW intent \in Intents, RespondRead(c, l, intent) PROVE TypeOK'
    <3>1. ResponseVerdict(l, intent) \in Told \cup {"proceed"} /\ "nothing" \in Told
      BY DEF ResponseVerdict, Told
    <3>2. resp' \in [Customers -> Response]
      BY <2>1, <3>1 DEF RespondRead, TypeOK, Response
    <3> QED  BY <1>0, <2>1, <3>2 DEF RespondRead, TypeOK, tables
  <2>2. CASE RespondRecord(c)
    BY <1>0, <2>2, RespondRecordTyped DEF RespondRecord, TypeOK
  <2>3. CASE RespondLostRace(c)
    BY <1>0, <2>3, RespondLostRaceTyped DEF RespondLostRace, TypeOK, tables
  <2> QED  BY <1>4, <2>1, <2>2, <2>3 DEF CustomerStep
<1>5. ASSUME NEW l \in Links, LinkExpires(l) PROVE TypeOK'
  <2>1. links' \in [Links -> Link]
    BY <1>5 DEF LinkExpires, TypeOK, Link
  <2> QED  BY <1>0, <1>5, <2>1 DEF LinkExpires, TypeOK
<1>6. ASSUME NEW p \in Pos, NEW outcome \in ReconOutcomes, ReconSnapshot(p, outcome) PROVE TypeOK'
  <2>1. pos' \in [Pos -> Po]
    BY <1>6 DEF ReconSnapshot, TypeOK, Po, ConstantsOK
  <2> QED  BY <1>0, <1>6, <2>1 DEF ReconSnapshot, TypeOK
<1>7. CASE ServerRestart
  <2>1. req' \in [Staff -> Request] /\ resp' \in [Customers -> Response]
    BY <1>7, IdleTyped DEF ServerRestart, IdleResponse, Response, Told, Intents
  <2> QED  BY <1>0, <1>7, <2>1 DEF ServerRestart, TypeOK, tables
<1> QED  BY <1>2, <1>3, <1>4, <1>5, <1>6, <1>7 DEF Next, Step

-----------------------------------------------------------------------------
(* Effects: what each kind of step does to the rows the quote invariants mention *)

\* A step of request s that leaves links, answers and customers alone; r is its next state.
Background(s, r) ==
  /\ links' = links /\ resp' = resp /\ issuedAfter' = issuedAfter
  /\ \A l \in Links, i \in Intents : events'[<<l, i>>] = events[<<l, i>>]
  /\ req' = [req EXCEPT ![s] = r]
  /\ r.link \in {NoLink, req[s].link}
  /\ r.pc \notin {"issueCommit", "sendMail", "sendWrite"}
  /\ r.pc = "statusWrite" => r.status \in Status \ {"FINALIZED"}

\* Ending a request leaves links and customers alone.
LEMMA FinishIsBackground ==
  ASSUME NEW s \in Staff, Finish(s), UNCHANGED <<links, resp, issuedAfter, events>>
  PROVE  \E r : Background(s, r)
<1>1. Background(s, Idle)
  BY DEF Finish, Background, Idle
<1> QED  BY <1>1

\* Moving a request on between two of its own reads leaves links and customers alone.
LEMMA ContinueIsBackground ==
  ASSUME TypeOK, NEW s \in Staff, NEW pc \in {"finalizeWrite", "invoiceCommit", "saveCommit"},
         Continue(s, pc), UNCHANGED <<links, resp, issuedAfter, events>>
  PROVE  \E r : Background(s, r)
<1>1. Background(s, [req[s] EXCEPT !.pc = pc])
  BY DEF Continue, Background, TypeOK, Request
<1> QED  BY <1>1

\* The first step of a staff handler leaves links and customers alone.
LEMMA ReadsAreBackground ==
  ASSUME ConstantsOK, NEW s \in Staff, StaffReads(s) PROVE \E r : Background(s, r)
<1> USE DEF Background, Idle, tables
<1>1. ASSUME NEW c \in Contents, SaveRead(s, c) PROVE \E r : Background(s, r)
  <2>1. Background(s, [Idle EXCEPT !.pc = "saveDelete", !.content = c])
    BY <1>1 DEF SaveRead
  <2> QED  BY <2>1
<1>2. ASSUME NEW new \in StatusTargets, StatusRead(s, new) PROVE \E r : Background(s, r)
  <2>1. Background(s, [Idle EXCEPT !.pc = "statusWrite", !.status = new])
    BY <1>2 DEF StatusRead, ConstantsOK
  <2> QED  BY <2>1
<1>3. ASSUME NEW p \in Pos, NEW filled \in BOOLEAN, PoQboRead(s, p, filled)
      PROVE  \E r : Background(s, r)
  <2>1. Background(s, [Idle EXCEPT !.pc = "poQbo", !.po = p, !.qbo = filled])
    BY <1>3 DEF PoQboRead
  <2> QED  BY <2>1
<1>4. ASSUME NEW p \in Pos, PoDeleteRead(s, p) PROVE \E r : Background(s, r)
  <2>1. Background(s, [Idle EXCEPT !.pc = "poDelete", !.po = p])
    BY <1>4 DEF PoDeleteRead
  <2> QED  BY <2>1
<1>5. ASSUME NEW pc \in {"deleteWrite", "unfinalizeWrite", "issueRevoke", "revokeWrite",
                         "poConvert", "poBlank", "payWrite"},
             UNCHANGED <<tables, resp, issuedAfter>>,
             req' = [req EXCEPT ![s] = [Idle EXCEPT !.pc = pc]]
      PROVE  \E r : Background(s, r)
  <2>1. Background(s, [Idle EXCEPT !.pc = pc])
    BY <1>5
  <2> QED  BY <2>1
<1>6. ASSUME NEW pc \in {"finalizePos", "issueRevoke"}, UNCHANGED <<tables, resp, issuedAfter>>,
             req' = [req EXCEPT ![s] = [Idle EXCEPT !.pc = pc, !.status = est.status]]
      PROVE  \E r : Background(s, r)
  <2>1. Background(s, [Idle EXCEPT !.pc = pc, !.status = est.status])
    BY <1>6
  <2> QED  BY <2>1
<1>7. ASSUME InvoiceRead(s) PROVE \E r : Background(s, r)
  <2>1. Background(s, [Idle EXCEPT !.pc = "invoiceCheck", !.content = est.total])
    BY <1>7 DEF InvoiceRead
  <2> QED  BY <2>1
<1> HIDE DEF Background, Idle, tables
<1>8. DeleteRead(s) \/ FinalizeRead(s) \/ UnfinalizeRead(s) \/ IssueRead(s)
        \/ SendRead(s) \/ RevokeRead(s) \/ PoConvertRead(s) \/ PoBlankRead(s)
        \/ PayRead(s) => \E r : Background(s, r)
  BY <1>5, <1>6 DEF DeleteRead, FinalizeRead, UnfinalizeRead, IssueRead, SendRead,
     RevokeRead, PoConvertRead, PoBlankRead, PayRead
<1> QED  BY <1>1, <1>2, <1>3, <1>4, <1>7, <1>8 DEF StaffReads

\* No handler but those of the links disturbs links or customers.
LEMMA StaffStepIsBackground ==
  ASSUME ConstantsOK, TypeOK, NEW s \in Staff, StaffStep(s) PROVE \E r : Background(s, r)
<1>1. CASE StaffReads(s)
  BY <1>1, ReadsAreBackground
<1>2. CASE SaveDeleteLines(s)
  <2> DEFINE r == [req[s] EXCEPT !.pc = "saveCommit",
                                 !.seenLines = {t \in Staff : lines[t] # NoContent}]
  <2>1. r.pc = "saveCommit" /\ r.link = req[s].link
    BY DEF TypeOK, Request
  <2>2. req' = [req EXCEPT ![s] = r]
    BY <1>2 DEF SaveDeleteLines
  <2> HIDE DEF r
  <2>3. Background(s, r)
    BY <1>2, <2>1, <2>2 DEF SaveDeleteLines, Background, tables
  <2> QED  BY <2>3
<1>3. CASE FinalizeReadPos(s) \/ InvoiceCheckExisting(s)
  BY <1>3, ContinueIsBackground, FinishIsBackground
     DEF FinalizeReadPos, InvoiceCheckExisting, tables
<1>4. CASE SaveCommit(s) \/ StatusWrite(s) \/ DeleteWrite(s) \/ FinalizeWrite(s)
           \/ UnfinalizeWrite(s) \/ PoQboWrite(s) \/ PoDeleteWrite(s) \/ PayWrite(s)
           \/ \E p \in Pos : PoCreate(s, p)
  BY <1>4, FinishIsBackground
     DEF SaveCommit, StatusWrite, DeleteWrite, FinalizeWrite, UnfinalizeWrite, PoQboWrite,
         PoDeleteWrite, PayWrite, PoCreate
<1>5. CASE InvoiceCommit(s)
  <2>1. \A l \in Links, i \in Intents : events'[<<l, i>>] = events[<<l, i>>]
    BY <1>5 DEF InvoiceCommit, TypeOK, EventKinds, ConstantsOK
  <2>2. Background(s, Idle)
    BY <1>5, <2>1 DEF InvoiceCommit, Background, Finish, Idle
  <2> QED  BY <2>2
<1> QED  BY <1>1, <1>2, <1>3, <1>4, <1>5 DEF StaffStep, StaffReads

\* The invariants about links and answers, which only the steps below can disturb.
QuoteInv == /\ RequestsInv /\ AnswersInv /\ RevocationInv
            /\ TimelineMatchesAnswers /\ ToldTheTruth /\ ActiveLinksOverlapped

\* A background step keeps the quote invariants.
LEMMA BackgroundKeepsQuoteInv ==
  ASSUME ConstantsOK, TypeOK, QuoteInv, NEW s \in Staff, NEW r, Background(s, r)
  PROVE  QuoteInv'
<1>1. /\ \A t \in Staff : req'[t] = IF t = s THEN r ELSE req[t]
      /\ \A t \in Staff : req[t].link \in Links \cup {NoLink}
  BY DEF Background, TypeOK, Request
<1>2. RequestsInv'
  BY <1>1 DEF Background, QuoteInv, RequestsInv
<1>3. AnswersInv'
  BY DEF Background, QuoteInv, AnswersInv
<1>4. RevocationInv'
  BY <1>1 DEF Background, QuoteInv, RevocationInv, Committed
<1>5. TimelineMatchesAnswers' /\ ToldTheTruth' /\ ActiveLinksOverlapped'
  BY DEF Background, QuoteInv, TimelineMatchesAnswers, ToldTheTruth, ActiveLinksOverlapped,
         Active, Committed
<1> QED  BY <1>2, <1>3, <1>4, <1>5 DEF QuoteInv

\* Choosing a token and noting the links to revoke keeps the quote invariants.
LEMMA IssueRevokeActiveKeepsQuoteInv ==
  ASSUME ConstantsOK, TypeOK, QuoteInv, NEW s \in Staff, NEW l \in Links, IssueRevokeActive(s, l)
  PROVE  QuoteInv'
<1>1. /\ links' = links /\ resp' = resp /\ events' = events
      /\ l \notin Committed
      /\ \A t \in Staff : req[t].link # l
  BY DEF IssueRevokeActive, tables
<1>2. \A t \in Staff \ {s} : req'[t] = req[t]
  BY DEF IssueRevokeActive, TypeOK
<1>3. req'[s].pc = "issueCommit" /\ req'[s].link = l /\ req'[s].seenLinks = Active
  BY DEF IssueRevokeActive, TypeOK, Request, LinksToRevoke
<1>4. \A k \in Links : issuedAfter'[k] = IF k = l THEN Committed ELSE issuedAfter[k]
  BY DEF IssueRevokeActive, TypeOK
<1>5. RequestsInv'
  BY <1>1, <1>2, <1>3 DEF QuoteInv, RequestsInv, Committed
<1>6. AnswersInv' /\ TimelineMatchesAnswers' /\ ToldTheTruth'
  BY <1>1 DEF QuoteInv, AnswersInv, TimelineMatchesAnswers, ToldTheTruth
<1>7. RevocationInv'
  <2>1. \A k \in Links : issuedAfter'[k] \subseteq Committed'
    BY <1>1, <1>4 DEF QuoteInv, RevocationInv, Committed
  <2>2. \A k \in issuedAfter'[l] : k \in Active \/ links[k].revoked
    BY <1>4 DEF Active
  <2>3. ASSUME NEW t \in Staff, t # s, req'[t].pc = "issueCommit",
               NEW k \in issuedAfter'[req'[t].link]
        PROVE  k \in req'[t].seenLinks \/ links'[k].revoked
    BY <1>1, <1>2, <1>4, <2>3 DEF QuoteInv, RequestsInv, RevocationInv
  <2> QED  BY <1>1, <1>3, <2>1, <2>2, <2>3 DEF RevocationInv
<1>8. ActiveLinksOverlapped'
  BY <1>1, <1>4 DEF QuoteInv, ActiveLinksOverlapped, Active, Committed
<1> QED  BY <1>5, <1>6, <1>7, <1>8 DEF QuoteInv

\* What the commit of an issuing transaction does to the rows, one field at a time.
LEMMA IssueCommitEffect ==
  ASSUME ConstantsOK, TypeOK, RequestsInv, AnswersInv, NEW s \in Staff,
         NEW expiry \in {"never", "later"}, IssueCommit(s, expiry)
  PROVE  LET new == req[s].link
         IN  /\ new \in Links /\ links[new].url = "none" /\ links[new].answer = "none"
             /\ \A t \in Staff \ {s} : req[t].link # new
             /\ links'[new].url # "none" /\ links'[new].answer = "none" /\ ~links'[new].revoked
             /\ \A k \in Links \ {new} :
                  /\ links'[k].url = links[k].url
                  /\ links'[k].answer = links[k].answer
                  /\ links'[k].revoked <=> (links[k].revoked \/ k \in req[s].seenLinks)
<1> DEFINE new == req[s].link
<1>1. /\ new \in Links /\ links[new].url = "none" /\ links[new].answer = "none"
      /\ \A t \in Staff \ {s} : req[t].link # new
  BY DEF IssueCommit, At, RequestsInv, AnswersInv, ConstantsOK
<1>2. /\ links'[new].url # "none" /\ links'[new].answer = "none" /\ ~links'[new].revoked
  BY <1>1 DEF IssueCommit, UnissuedLink
<1>3. \A k \in Links \ {new} : /\ links'[k].url = links[k].url
                               /\ links'[k].answer = links[k].answer
                               /\ links'[k].revoked <=> (links[k].revoked \/ k \in req[s].seenLinks)
  <2> SUFFICES ASSUME NEW k \in Links \ {new}
               PROVE  /\ links'[k].url = links[k].url
                      /\ links'[k].answer = links[k].answer
                      /\ links'[k].revoked <=> (links[k].revoked \/ k \in req[s].seenLinks)
    OBVIOUS
  <2> DEFINE seen == k \in req[s].seenLinks
  <2>1. links'[k] = [links[k] EXCEPT !.revoked = @ \/ seen]
    BY DEF IssueCommit
  <2>2. links[k] \in Link /\ seen \in BOOLEAN
    BY DEF TypeOK
  <2> HIDE DEF seen
  <2>3. /\ links'[k].url = links[k].url
        /\ links'[k].answer = links[k].answer
        /\ links'[k].revoked <=> (links[k].revoked \/ seen)
    BY <2>1, <2>2, RevokeEffect
  <2> QED  BY <2>3 DEF seen
<1> QED  BY <1>1, <1>2, <1>3

\* The commit of an issuing transaction keeps the quote invariants.
LEMMA IssueCommitKeepsQuoteInv ==
  ASSUME ConstantsOK, TypeOK, QuoteInv, NEW s \in Staff, NEW expiry \in {"never", "later"},
         IssueCommit(s, expiry)
  PROVE  QuoteInv'
<1> DEFINE new == req[s].link
<1>1. /\ new \in Links /\ links[new].url = "none" /\ links[new].answer = "none"
      /\ \A t \in Staff \ {s} : req[t].link # new
  BY IssueCommitEffect DEF QuoteInv
<1>2. links'[new].url # "none" /\ links'[new].answer = "none" /\ ~links'[new].revoked
  BY IssueCommitEffect DEF QuoteInv
<1>3. \A k \in Links \ {new} : /\ links'[k].url = links[k].url
                               /\ links'[k].answer = links[k].answer
                               /\ links'[k].revoked <=> (links[k].revoked \/ k \in req[s].seenLinks)
  BY IssueCommitEffect DEF QuoteInv
<1>4. /\ resp' = resp /\ events' = events /\ issuedAfter' = issuedAfter
  BY DEF IssueCommit
<1>5. \A t \in Staff \ {s} : req'[t] = req[t]
  BY DEF IssueCommit, Continue, Finish, TypeOK
<1>6. \/ req'[s].pc = "sendMail" /\ req'[s].link = new
      \/ req'[s].pc = "idle" /\ req'[s].link = NoLink
  BY DEF IssueCommit, Continue, Finish, Idle, TypeOK, Request
<1> HIDE DEF new
<1>7. RequestsInv'
  BY <1>1, <1>2, <1>3, <1>5, <1>6 DEF QuoteInv, RequestsInv, ConstantsOK
<1>8. AnswersInv' /\ TimelineMatchesAnswers'
  BY <1>1, <1>2, <1>3, <1>4 DEF QuoteInv, AnswersInv, TimelineMatchesAnswers
<1>9. ToldTheTruth'
  BY <1>1, <1>2, <1>3, <1>4 DEF QuoteInv, AnswersInv, ToldTheTruth
<1>10. RevocationInv'
  <2>1. Committed' = Committed \cup {new}
    BY <1>1, <1>2, <1>3 DEF Committed
  <2>2. \A k \in Links : issuedAfter'[k] \subseteq Committed'
    BY <1>4, <2>1 DEF QuoteInv, RevocationInv
  <2>3. ASSUME NEW t \in Staff, req'[t].pc = "issueCommit",
               NEW k \in issuedAfter'[req'[t].link]
        PROVE  k \in req'[t].seenLinks \/ links'[k].revoked
    <3>1. t # s /\ req[t].link \in Links
      BY <1>5, <1>6, <2>3 DEF QuoteInv, RequestsInv
    <3>2. k \in Links /\ k # new
      BY <1>1, <1>4, <1>5, <2>3, <3>1 DEF QuoteInv, RevocationInv, Committed
    <3> QED  BY <1>3, <1>4, <1>5, <2>3, <3>1, <3>2 DEF QuoteInv, RevocationInv
  <2> QED  BY <2>2, <2>3 DEF RevocationInv
<1>11. ActiveLinksOverlapped'
  <2>1. \A k \in Links \ {new} : k \in Active' => k \in Active /\ k \notin req[s].seenLinks
    BY <1>3 DEF Active, Committed
  <2>2. \A k \in issuedAfter[new] : k \in req[s].seenLinks \/ links[k].revoked
    BY DEF IssueCommit, At, QuoteInv, RevocationInv, new
  <2>3. \A k \in Links : new \notin issuedAfter[k]
    BY <1>1 DEF QuoteInv, RevocationInv, Committed
  <2>4. ASSUME NEW k \in Links, NEW l \in Links, k \in Active', l \in Active', k # l
        PROVE  k \notin issuedAfter[l]
    <3>1. CASE l = new
      BY <2>1, <2>2, <2>4, <3>1 DEF Active
    <3>2. CASE k = new
      BY <2>3, <3>2
    <3>3. CASE k # new /\ l # new
      BY <2>1, <2>4, <3>3 DEF QuoteInv, ActiveLinksOverlapped
    <3> QED  BY <3>1, <3>2, <3>3
  <2> QED  BY <1>4, <2>4 DEF ActiveLinksOverlapped, Active, Committed
<1> QED  BY <1>7, <1>8, <1>9, <1>10, <1>11 DEF QuoteInv

\* Links change, answers and in-flight issuing requests do not: nothing is uncommitted and
\* nothing is put back in force.
LEMMA LinkUpdateKeepsQuoteInv ==
  ASSUME ConstantsOK, TypeOK, QuoteInv,
         UNCHANGED <<resp, events, issuedAfter>>,
         \A t \in Staff :
           \/ req'[t] = req[t]
           \/ req'[t].pc = "idle" /\ req'[t].link = NoLink
           \/ req[t].pc = "sendMail" /\ req'[t].pc = "sendWrite" /\ req'[t].link = req[t].link,
         \A l \in Links : /\ links'[l].answer = links[l].answer
                          /\ (links'[l].url = "none" <=> links[l].url = "none")
                          /\ links[l].revoked => links'[l].revoked
  PROVE  QuoteInv'
<1>1. RequestsInv'
  BY DEF QuoteInv, RequestsInv, ConstantsOK
<1>2. AnswersInv' /\ TimelineMatchesAnswers' /\ ToldTheTruth'
  BY DEF QuoteInv, AnswersInv, TimelineMatchesAnswers, ToldTheTruth
<1>3. Committed' = Committed /\ Active' \subseteq Active
  BY DEF Committed, Active
<1>4. RevocationInv'
  <2>1. \A k \in Links : issuedAfter'[k] \subseteq Committed'
    BY <1>3 DEF QuoteInv, RevocationInv
  <2>2. ASSUME NEW t \in Staff, req'[t].pc = "issueCommit",
               NEW k \in issuedAfter'[req'[t].link]
        PROVE  k \in req'[t].seenLinks \/ links'[k].revoked
    <3>1. req'[t] = req[t]
      BY <2>2
    <3>2. req[t].link \in Links
      BY <2>2, <3>1 DEF QuoteInv, RequestsInv
    <3>3. k \in Links
      BY <2>1, <2>2, <3>1, <3>2 DEF Committed
    <3> QED  BY <2>2, <3>1, <3>3 DEF QuoteInv, RevocationInv
  <2> QED  BY <2>1, <2>2 DEF RevocationInv
<1>5. ActiveLinksOverlapped'
  BY <1>3 DEF QuoteInv, ActiveLinksOverlapped
<1> QED  BY <1>1, <1>2, <1>4, <1>5 DEF QuoteInv

\* Mailing a link changes nothing but whether its URL is out.
LEMMA SendMailEffect ==
  ASSUME ConstantsOK, TypeOK, RequestsInv, NEW s \in Staff, SendMailOk(s) \/ SendMailFails(s)
  PROVE  \A l \in Links : /\ links'[l].answer = links[l].answer
                          /\ (links'[l].url = "none" <=> links[l].url = "none")
                          /\ (links'[l].revoked <=> links[l].revoked)
<1>1. req[s].link \in Links /\ links[req[s].link].url # "none"
  BY DEF SendMailOk, SendMailFails, At, RequestsInv
<1> QED  BY <1>1 DEF SendMailOk, SendMailFails, TypeOK, Link

\* Revoking stamps exactly the links in force.
LEMMA RevokeWriteEffect ==
  ASSUME TypeOK, NEW s \in Staff, RevokeWrite(s)
  PROVE  \A l \in Links : /\ links'[l].url = links[l].url
                          /\ links'[l].answer = links[l].answer
                          /\ links'[l].revoked <=> (links[l].revoked \/ l \in Active)
<1> SUFFICES ASSUME NEW l \in Links
             PROVE  /\ links'[l].url = links[l].url
                    /\ links'[l].answer = links[l].answer
                    /\ links'[l].revoked <=> (links[l].revoked \/ l \in Active)
  OBVIOUS
<1> DEFINE also == l \in Active
<1>1. links'[l] = [links[l] EXCEPT !.revoked = @ \/ also]
  BY DEF RevokeWrite, LinksToRevoke
<1>2. links[l] \in Link /\ also \in BOOLEAN
  BY DEF TypeOK
<1> HIDE DEF also
<1>3. /\ links'[l].url = links[l].url
      /\ links'[l].answer = links[l].answer
      /\ links'[l].revoked <=> (links[l].revoked \/ also)
  BY <1>1, <1>2, RevokeEffect
<1> QED  BY <1>3 DEF also

\* Every step of the link handlers keeps the quote invariants.
LEMMA LinkStepKeepsQuoteInv ==
  ASSUME ConstantsOK, TypeOK, QuoteInv, NEW s \in Staff, LinkStep(s) PROVE QuoteInv'
<1>1. CASE StaffReads(s)
  BY <1>1, ReadsAreBackground, BackgroundKeepsQuoteInv
<1>2. CASE SendWrite(s)
  <2>1. \E r : Background(s, r)
    BY <1>2, FinishIsBackground DEF SendWrite
  <2> QED  BY <2>1, BackgroundKeepsQuoteInv
<1>3. ASSUME NEW l \in Links, IssueRevokeActive(s, l) PROVE QuoteInv'
  BY <1>3, IssueRevokeActiveKeepsQuoteInv
<1>4. ASSUME NEW expiry \in {"never", "later"}, IssueCommit(s, expiry) PROVE QuoteInv'
  BY <1>4, IssueCommitKeepsQuoteInv
<1>5. CASE SendMailOk(s) \/ SendMailFails(s)
  <2>1. /\ \A t \in Staff \ {s} : req'[t] = req[t]
        /\ \/ req'[s].pc = "idle" /\ req'[s].link = NoLink
           \/ req[s].pc = "sendMail" /\ req'[s].pc = "sendWrite" /\ req'[s].link = req[s].link
    BY <1>5 DEF SendMailOk, SendMailFails, At, Continue, Finish, Idle, TypeOK, Request
  <2> QED  BY <1>5, <2>1, SendMailEffect, LinkUpdateKeepsQuoteInv
              DEF SendMailOk, SendMailFails, QuoteInv
<1>6. CASE RevokeWrite(s)
  <2>1. /\ \A t \in Staff \ {s} : req'[t] = req[t]
        /\ req'[s].pc = "idle" /\ req'[s].link = NoLink
    BY <1>6 DEF RevokeWrite, Finish, Idle, TypeOK
  <2> QED  BY <1>6, <2>1, RevokeWriteEffect, LinkUpdateKeepsQuoteInv DEF RevokeWrite
<1> QED  BY <1>1, <1>2, <1>3, <1>4, <1>5, <1>6 DEF LinkStep, StaffReads

\* There are two decisions: the other one is the opposite.
LEMMA OppositeIsOther == \A i, j \in Intents : i # j => j = Opposite(i)
BY DEF Opposite, Intents

\* Every step of a public response keeps the quote invariants.
LEMMA CustomerStepKeepsQuoteInv ==
  ASSUME ConstantsOK, TypeOK, QuoteInv, NEW c \in Customers, CustomerStep(c) PROVE QuoteInv'
<1>1. ASSUME NEW l \in Links, NEW intent \in Intents, RespondRead(c, l, intent) PROVE QuoteInv'
  <2>1. UNCHANGED <<links, events, req, issuedAfter>>
    BY <1>1 DEF RespondRead, tables
  <2>2. /\ \A d \in Customers \ {c} : resp'[d] = resp[d]
        /\ resp'[c].link = l /\ resp'[c].intent = intent
        /\ links[l].url = "out"
        /\ resp'[c].told = "idempotent" => links[l].answer = intent
        /\ resp'[c].told = "opposite" => links[l].answer \notin {"none", intent}
        /\ resp'[c].told # "recorded"
    BY <1>1 DEF RespondRead, ResponseVerdict, TypeOK
  <2>3. links[l].answer \in Intents \cup {"none"}
    BY DEF TypeOK, Link
  <2>4. AnswersInv'
    BY <2>1, <2>2 DEF QuoteInv, AnswersInv
  <2>5. ToldTheTruth'
    BY <2>1, <2>2, <2>3, OppositeIsOther DEF QuoteInv, ToldTheTruth
  <2>6. RequestsInv' /\ RevocationInv' /\ TimelineMatchesAnswers' /\ ActiveLinksOverlapped'
    BY <2>1 DEF QuoteInv, RequestsInv, RevocationInv, TimelineMatchesAnswers,
                ActiveLinksOverlapped, Active, Committed
  <2> QED  BY <2>4, <2>5, <2>6 DEF QuoteInv
<1>2. CASE RespondRecord(c)
  <2> DEFINE l == resp[c].link
             intent == resp[c].intent
  <2>1. /\ l \in Links /\ intent \in Intents
        /\ links[l].url # "none" /\ links[l].answer = "none"
    BY <1>2 DEF RespondRecord, LinkStillOpen, QuoteInv, AnswersInv, TypeOK, Response
  <2>2. /\ links' = [links EXCEPT ![l].answer = intent]
        /\ events' = [events EXCEPT ![<<l, intent>>] = @ + 1]
        /\ resp' = [resp EXCEPT ![c].pc = "idle", ![c].told = "recorded"]
        /\ UNCHANGED <<req, issuedAfter>>
    BY <1>2 DEF RespondRecord
  <2> HIDE DEF l, intent
  <2>3. /\ \A k \in Links : /\ links'[k].url = links[k].url
                            /\ links'[k].revoked = links[k].revoked
        /\ \A k \in Links \ {l} : links'[k].answer = links[k].answer
        /\ links'[l].answer = intent
    BY <2>1, <2>2 DEF TypeOK, Link
  <2>4. /\ \A d \in Customers \ {c} : resp'[d] = resp[d]
        /\ resp'[c].link = l /\ resp'[c].intent = intent /\ resp'[c].told = "recorded"
    BY <2>2 DEF TypeOK, Response, l, intent
  <2>5. \A k \in Links, i \in Intents :
          events'[<<k, i>>] = IF k = l /\ i = intent THEN 1 ELSE events[<<k, i>>]
    <3>1. events[<<l, intent>>] = 0
      BY <2>1 DEF QuoteInv, TimelineMatchesAnswers, Intents
    <3>2. \A k \in Links, i \in Intents : <<k, i>> \in EventKinds
      BY DEF EventKinds
    <3> DEFINE kind == <<l, intent>>
    <3>3. kind \in EventKinds /\ events[kind] = 0
      BY <2>1, <3>1, <3>2
    <3>4. events' = [events EXCEPT ![kind] = @ + 1]
      BY <2>2
    <3> HIDE DEF kind
    <3>5. \A e \in EventKinds : events'[e] = IF e = kind THEN 1 ELSE events[e]
      BY <3>3, <3>4 DEF TypeOK
    <3>6. \A k \in Links, i \in Intents : (<<k, i>> = kind) <=> (k = l /\ i = intent)
      BY DEF kind
    <3> QED  BY <3>2, <3>5, <3>6
  <2>6. AnswersInv'
    BY <2>1, <2>3, <2>4 DEF QuoteInv, AnswersInv
  <2>7. TimelineMatchesAnswers'
    <3>1. "none" \notin Intents
      BY DEF Intents
    <3>2. ASSUME NEW k \in Links, NEW i \in Intents
          PROVE  events'[<<k, i>>] = IF links'[k].answer = i THEN 1 ELSE 0
      <4>1. events[<<k, i>>] = IF links[k].answer = i THEN 1 ELSE 0
        BY DEF QuoteInv, TimelineMatchesAnswers
      <4>2. CASE k = l
        BY <2>1, <2>3, <2>5, <3>1, <4>1, <4>2
      <4>3. CASE k # l
        BY <2>3, <2>5, <4>1, <4>3
      <4> QED  BY <4>2, <4>3
    <3> QED  BY <3>2 DEF TimelineMatchesAnswers
  <2>8. ToldTheTruth'
    <3>1. ASSUME NEW d \in Customers, d # c, resp[d].told \in {"recorded", "idempotent", "opposite"}
          PROVE  links'[resp[d].link].answer = links[resp[d].link].answer
      <4>1. resp[d].intent \in Intents /\ Opposite(resp[d].intent) \in Intents
        BY DEF TypeOK, Response, Opposite, Intents
      <4>2. resp[d].link \in Links /\ links[resp[d].link].answer \in Intents
        BY <3>1, <4>1 DEF QuoteInv, AnswersInv, ToldTheTruth
      <4>3. resp[d].link # l
        BY <2>1, <4>2 DEF Intents
      <4> QED  BY <2>3, <4>2, <4>3
    <3> QED  BY <2>3, <2>4, <3>1 DEF QuoteInv, ToldTheTruth
  <2>9. RequestsInv' /\ RevocationInv' /\ ActiveLinksOverlapped'
    BY <2>2, <2>3 DEF QuoteInv, RequestsInv, RevocationInv, ActiveLinksOverlapped, Active,
                      Committed
  <2> QED  BY <2>6, <2>7, <2>8, <2>9 DEF QuoteInv
<1>3. CASE RespondLostRace(c)
  <2>1. UNCHANGED <<links, events, req, issuedAfter>>
    BY <1>3 DEF RespondLostRace, tables
  <2>2. /\ \A d \in Customers \ {c} : resp'[d] = resp[d]
        /\ resp'[c].link = resp[c].link /\ resp'[c].intent = resp[c].intent
        /\ resp'[c].told = ClassifyQuoteResponseRace(resp[c].intent, links[resp[c].link].answer)
    BY <1>3 DEF RespondLostRace, TypeOK, Response
  <2>3. /\ resp'[c].told = "idempotent" => links[resp[c].link].answer = resp[c].intent
        /\ resp'[c].told = "opposite" => links[resp[c].link].answer = Opposite(resp[c].intent)
        /\ resp'[c].told # "recorded"
    BY <2>2 DEF ClassifyQuoteResponseRace
  <2>4. AnswersInv'
    BY <1>3, <2>1, <2>2 DEF RespondLostRace, QuoteInv, AnswersInv
  <2>5. ToldTheTruth'
    BY <2>1, <2>2, <2>3 DEF QuoteInv, ToldTheTruth
  <2>6. RequestsInv' /\ RevocationInv' /\ TimelineMatchesAnswers' /\ ActiveLinksOverlapped'
    BY <2>1 DEF QuoteInv, RequestsInv, RevocationInv, TimelineMatchesAnswers,
                ActiveLinksOverlapped, Active, Committed
  <2> QED  BY <2>4, <2>5, <2>6 DEF QuoteInv
<1> QED  BY <1>1, <1>2, <1>3 DEF CustomerStep

\* Every step keeps the quote invariants.
LEMMA QuoteStep == ASSUME ConstantsOK, TypeOK, QuoteInv, Next PROVE QuoteInv'
<1>1. ASSUME NEW s \in Staff, StaffStep(s) PROVE QuoteInv'
  BY <1>1, StaffStepIsBackground, BackgroundKeepsQuoteInv
<1>2. ASSUME NEW s \in Staff, LinkStep(s) PROVE QuoteInv'
  BY <1>2, LinkStepKeepsQuoteInv
<1>3. ASSUME NEW c \in Customers, CustomerStep(c) PROVE QuoteInv'
  BY <1>3, CustomerStepKeepsQuoteInv
<1>4. ASSUME NEW l \in Links, LinkExpires(l) PROVE QuoteInv'
  <2>1. \A k \in Links : /\ links'[k].answer = links[k].answer
                         /\ links'[k].url = links[k].url
                         /\ links'[k].revoked = links[k].revoked
    BY <1>4 DEF LinkExpires, TypeOK, Link
  <2> QED  BY <1>4, <2>1, LinkUpdateKeepsQuoteInv DEF LinkExpires
<1>5. ASSUME NEW p \in Pos, NEW outcome \in ReconOutcomes, ReconSnapshot(p, outcome)
      PROVE  QuoteInv'
  BY <1>5, LinkUpdateKeepsQuoteInv DEF ReconSnapshot
<1>6. CASE ServerRestart
  <2>1. UNCHANGED <<links, events, issuedAfter>>
    BY <1>6 DEF ServerRestart, tables
  <2>2. /\ \A s \in Staff : req'[s].pc = "idle" /\ req'[s].link = NoLink
        /\ \A c \in Customers : resp'[c].pc = "idle" /\ resp'[c].told = "nothing"
    BY <1>6 DEF ServerRestart, Idle, IdleResponse
  <2> QED  BY <2>1, <2>2 DEF QuoteInv, RequestsInv, AnswersInv, RevocationInv,
              TimelineMatchesAnswers, ToldTheTruth, ActiveLinksOverlapped, Active, Committed
<1> QED  BY <1>1, <1>2, <1>3, <1>4, <1>5, <1>6 DEF Next, Step

-----------------------------------------------------------------------------
(* Nothing happens before an approval *)

\* No request is past an APPROVED guard.
NoneApproved(requests) ==
  \A s \in Staff :
    /\ requests[s].pc \notin {"finalizeWrite", "poConvert", "invoiceCheck", "invoiceCommit", "payWrite"}
    /\ requests[s].pc = "finalizePos" => requests[s].status # "APPROVED"

\* A request that moves to a place before the APPROVED guards.
LEMMA RequestKeepsNoneApproved ==
  ASSUME TypeOK, NoneApproved(req), NEW s \in Staff, NEW r, req' = [req EXCEPT ![s] = r],
         r.pc \notin {"finalizeWrite", "poConvert", "invoiceCheck", "invoiceCommit", "payWrite"},
         r.pc = "finalizePos" => r.status # "APPROVED"
  PROVE  NoneApproved(req')
BY DEF TypeOK, NoneApproved

\* The steps that only move a request on, while the estimate is not approved.
LEMMA UnapprovedRequestStep ==
  ASSUME ConstantsOK, TypeOK, RequestsInv, NoneApproved(req),
         est.status \notin {"APPROVED", "FINALIZED"}, invoice.status = "none",
         NEW s \in Staff, StaffStep(s) \/ LinkStep(s)
  PROVE  NoneApproved(req')
<1>1. ASSUME Finish(s) PROVE NoneApproved(req')
  BY <1>1, RequestKeepsNoneApproved DEF Finish, Idle
<1>2. ASSUME NEW pc \in {"sendMail", "sendWrite"}, Continue(s, pc) PROVE NoneApproved(req')
  <2>1. [req[s] EXCEPT !.pc = pc].pc = pc
    BY DEF TypeOK, Request
  <2> QED  BY <1>2, <2>1, RequestKeepsNoneApproved DEF Continue
<1>3. CASE StaffReads(s)
  BY <1>3, RequestKeepsNoneApproved
     DEF StaffReads, SaveRead, StatusRead, DeleteRead, FinalizeRead, UnfinalizeRead, IssueRead,
         SendRead, RevokeRead, PoConvertRead, PoBlankRead, PoQboRead, PoDeleteRead, InvoiceRead,
         PayRead, Idle
<1>4. CASE SaveDeleteLines(s)
  BY <1>4 DEF SaveDeleteLines, NoneApproved, TypeOK, Request
<1>5. CASE \E l \in Links : IssueRevokeActive(s, l)
  BY <1>5 DEF IssueRevokeActive, NoneApproved, TypeOK, Request
<1>6. CASE FinalizeReadPos(s) \/ InvoiceCheckExisting(s)
  BY <1>1, <1>6 DEF FinalizeReadPos, InvoiceCheckExisting, EvaluateEstimateFinalizeGates, At,
                    NoneApproved
<1>7. CASE SaveCommit(s) \/ StatusWrite(s) \/ DeleteWrite(s) \/ FinalizeWrite(s)
           \/ UnfinalizeWrite(s) \/ PoQboWrite(s) \/ PoDeleteWrite(s) \/ PayWrite(s)
           \/ InvoiceCommit(s) \/ SendMailFails(s) \/ SendWrite(s) \/ RevokeWrite(s)
           \/ \E p \in Pos : PoCreate(s, p)
  BY <1>1, <1>7
     DEF SaveCommit, StatusWrite, DeleteWrite, FinalizeWrite, UnfinalizeWrite, PoQboWrite,
         PoDeleteWrite, PayWrite, InvoiceCommit, SendMailFails, SendWrite, RevokeWrite, PoCreate
<1>8. CASE SendMailOk(s) \/ \E expiry \in {"never", "later"} : IssueCommit(s, expiry)
  BY <1>1, <1>2, <1>8 DEF SendMailOk, IssueCommit
<1> QED  BY <1>3, <1>4, <1>5, <1>6, <1>7, <1>8 DEF StaffStep, LinkStep, StaffReads

\* Every step keeps the approval invariant.
LEMMA ApprovalStep == ASSUME ConstantsOK, TypeOK, RequestsInv, ApprovalInv, Next PROVE ApprovalInv'
<1>1. CASE approvedOnce
  BY <1>1 DEF Next, ApprovalInv, NothingBeforeApproval
<1>2. CASE ~approvedOnce
  <2>1. /\ est.status \notin {"APPROVED", "FINALIZED"}
        /\ invoice.status = "none"
        /\ \A p \in Pos : ~pos[p].converted
        /\ NoneApproved(req)
    BY <1>2 DEF ApprovalInv, NothingBeforeApproval, NoneApproved
  <2>2. NoneApproved(req')
    <3>1. ASSUME UNCHANGED req PROVE NoneApproved(req')
      BY <2>1, <3>1
    <3>2. CASE ServerRestart
      BY <3>2 DEF ServerRestart, NoneApproved, Idle
    <3>3. CASE \E c \in Customers : CustomerStep(c)
      BY <3>1, <3>3 DEF CustomerStep, RespondRead, RespondRecord, RespondLostRace
    <3>4. CASE \E s \in Staff : StaffStep(s) \/ LinkStep(s)
      BY <2>1, <3>4, UnapprovedRequestStep
    <3>5. CASE \/ \E l \in Links : LinkExpires(l)
               \/ \E p \in Pos, outcome \in ReconOutcomes : ReconSnapshot(p, outcome)
      BY <3>1, <3>5 DEF LinkExpires, ReconSnapshot
    <3> QED  BY <3>2, <3>3, <3>4, <3>5 DEF Next, Step
  <2>3. est'.status # "FINALIZED"
    <3>1. ASSUME UNCHANGED est PROVE est'.status # "FINALIZED"
      BY <2>1, <3>1
    <3>2. ASSUME NEW s \in Staff, StaffStep(s) PROVE est'.status # "FINALIZED"
      BY <2>1, <3>1, <3>2
         DEF StaffStep, SaveRead, SaveDeleteLines, SaveCommit, StatusRead, StatusWrite,
             DeleteRead, DeleteWrite, FinalizeRead, FinalizeReadPos, FinalizeWrite,
             UnfinalizeRead, UnfinalizeWrite, PoConvertRead, PoBlankRead, PoCreate, PoQboRead,
             PoQboWrite, PoDeleteRead, PoDeleteWrite, InvoiceRead, InvoiceCheckExisting,
             InvoiceCommit, PayRead, PayWrite, At, NoneApproved, RequestsInv, tables, TypeOK,
             Estimate
    <3>3. ASSUME NEW s \in Staff, LinkStep(s) PROVE est'.status # "FINALIZED"
      BY <2>1, <3>1, <3>3
         DEF LinkStep, IssueRead, SendRead, IssueRevokeActive, IssueCommit, SendMailOk,
             SendMailFails, SendWrite, StatusAfterSuccessfulCustomerSend, RevokeRead,
             RevokeWrite, tables, TypeOK, Estimate
    <3>4. ASSUME NEW c \in Customers, CustomerStep(c) PROVE est'.status # "FINALIZED"
      BY <2>1, <3>1, <3>4
         DEF CustomerStep, RespondRead, RespondRecord, RespondLostRace, EstimateAfterResponse,
             EstimateStatusAfter, tables, TypeOK, Estimate
    <3> QED  BY <3>1, <3>2, <3>3, <3>4 DEF Next, Step, LinkExpires, ReconSnapshot, ServerRestart, tables
  <2>4. invoice'.status = "none" /\ \A p \in Pos : ~pos'[p].converted
    <3>1. ASSUME UNCHANGED <<invoice, pos>>
          PROVE  invoice'.status = "none" /\ \A p \in Pos : ~pos'[p].converted
      BY <2>1, <3>1
    <3>2. ASSUME NEW s \in Staff, NEW p \in Pos, PoCreate(s, p)
          PROVE  invoice'.status = "none" /\ \A q \in Pos : ~pos'[q].converted
      <4>1. ~At(s, "poConvert")
        BY <2>1 DEF NoneApproved, At
      <4>2. ~[NoPoRow EXCEPT !.exists = TRUE, !.converted = At(s, "poConvert")].converted
        BY <4>1, Zenon DEF NoPoRow
      <4> QED  BY <2>1, <3>2, <4>2 DEF PoCreate, TypeOK
    <3>3. ASSUME NEW s \in Staff, PoQboWrite(s) \/ PoDeleteWrite(s)
          PROVE  invoice'.status = "none" /\ \A p \in Pos : ~pos'[p].converted
      <4>1. \A p \in Pos : pos'[p].converted = pos[p].converted
        <5>1. ASSUME NEW p \in Pos, NEW v
              PROVE  /\ [pos[p] EXCEPT !.qbo = v].converted = pos[p].converted
                     /\ [pos[p] EXCEPT !.deleted = v].converted = pos[p].converted
          BY DEF TypeOK, Po
        <5>2. ASSUME NEW p \in Pos PROVE pos'[p].converted = pos[p].converted
          <6>1. CASE p = req[s].po
            <7>1. CASE PoQboWrite(s)
              <8>1. pos'[p] = [pos[p] EXCEPT !.qbo = req[s].qbo]
                BY <6>1, <7>1 DEF PoQboWrite, TypeOK
              <8> QED  BY <5>1, <8>1
            <7>2. CASE PoDeleteWrite(s)
              <8>1. pos'[p] = [pos[p] EXCEPT !.deleted = TRUE]
                BY <6>1, <7>2 DEF PoDeleteWrite, TypeOK
              <8> QED  BY <5>1, <8>1
            <7> QED  BY <3>3, <7>1, <7>2
          <6>2. CASE p # req[s].po
            BY <3>3, <6>2 DEF PoQboWrite, PoDeleteWrite, TypeOK
          <6> QED  BY <6>1, <6>2
        <5> QED  BY <5>2
      <4> QED  BY <2>1, <3>3, <4>1 DEF PoQboWrite, PoDeleteWrite
    <3>4. ASSUME NEW s \in Staff, InvoiceCommit(s) \/ PayWrite(s)
          PROVE  invoice'.status = "none" /\ \A p \in Pos : ~pos'[p].converted
      BY <2>1, <3>4 DEF InvoiceCommit, PayWrite, At, NoneApproved
    <3>5. ASSUME NEW p \in Pos, NEW outcome \in ReconOutcomes, ReconSnapshot(p, outcome)
          PROVE  invoice'.status = "none" /\ \A q \in Pos : ~pos'[q].converted
      BY <2>1, <3>5 DEF ReconSnapshot, TypeOK, Po
    <3>6. ASSUME NEW s \in Staff, StaffReads(s) \/ LinkStep(s) PROVE UNCHANGED <<invoice, pos>>
      BY <3>6 DEF StaffReads, SaveRead, StatusRead, DeleteRead, FinalizeRead, UnfinalizeRead,
         IssueRead, SendRead, RevokeRead, PoConvertRead, PoBlankRead, PoQboRead, PoDeleteRead,
         InvoiceRead, PayRead, LinkStep, IssueRevokeActive, IssueCommit, SendMailOk,
         SendMailFails, SendWrite, RevokeWrite, tables
    <3>7. ASSUME NEW s \in Staff,
                 \/ SaveDeleteLines(s) \/ SaveCommit(s) \/ StatusWrite(s) \/ DeleteWrite(s)
                 \/ FinalizeReadPos(s) \/ FinalizeWrite(s) \/ UnfinalizeWrite(s)
                 \/ InvoiceCheckExisting(s)
          PROVE  UNCHANGED <<invoice, pos>>
      BY <3>7 DEF SaveDeleteLines, SaveCommit, StatusWrite, DeleteWrite, FinalizeReadPos,
         FinalizeWrite, UnfinalizeWrite, InvoiceCheckExisting, tables
    <3>8. ASSUME NEW s \in Staff, StaffStep(s) \/ LinkStep(s)
          PROVE  invoice'.status = "none" /\ \A p \in Pos : ~pos'[p].converted
      BY <3>1, <3>2, <3>3, <3>4, <3>6, <3>7, <3>8 DEF StaffStep, StaffReads
    <3>9. ASSUME NEW c \in Customers, CustomerStep(c) PROVE UNCHANGED <<invoice, pos>>
      BY <3>9 DEF CustomerStep, RespondRead, RespondRecord, RespondLostRace, tables
    <3>10. (ServerRestart \/ \E l \in Links : LinkExpires(l)) => UNCHANGED <<invoice, pos>>
      BY DEF ServerRestart, LinkExpires, tables
    <3> QED  BY <3>1, <3>5, <3>8, <3>9, <3>10 DEF Next, Step
  <2> QED  BY <2>2, <2>3, <2>4 DEF ApprovalInv, NothingBeforeApproval, NoneApproved, Next
<1> QED  BY <1>1, <1>2

-----------------------------------------------------------------------------
(* The invoice *)

\* No request starts to mark the invoice paid.
NoNewPayment == \A s \in Staff : req'[s].pc = "payWrite" => req[s].pc = "payWrite"

\* A step that leaves the invoice and its event alone and starts no payment.
LEMMA InvoiceUntouched ==
  ASSUME InvoiceInv, invoice' = invoice,
         events'[<<NoLink, "invoice">>] = events[<<NoLink, "invoice">>],
         NoNewPayment
  PROVE  InvoiceInv'
BY DEF InvoiceInv, InvoiceTimeline, NoNewPayment

\* A request that moves to any other place starts no payment.
LEMMA RequestStartsNoPayment ==
  ASSUME TypeOK, NEW s \in Staff, NEW r, req' = [req EXCEPT ![s] = r], r.pc \notin {"payWrite"}
  PROVE  NoNewPayment
BY DEF TypeOK, NoNewPayment

\* Every step keeps the invoice invariant.
LEMMA InvoiceStep ==
  ASSUME ConstantsOK, TypeOK, AnswersInv, InvoiceInv, Next PROVE InvoiceInv'
<1>1. \A s \in Staff : Finish(s) => NoNewPayment
  BY RequestStartsNoPayment DEF Finish, Idle
<1>2. ASSUME NEW s \in Staff, NEW pc \in Pcs \ {"payWrite"}, Continue(s, pc)
      PROVE  NoNewPayment
  <2>1. [req[s] EXCEPT !.pc = pc].pc = pc
    BY DEF TypeOK, Request
  <2> QED  BY <1>2, <2>1, RequestStartsNoPayment DEF Continue
<1>3. ASSUME NEW s \in Staff, StaffReads(s) PROVE InvoiceInv'
  <2>1. CASE PayRead(s)
    <3>1. invoice' = invoice /\ events' = events /\ invoice.status = "UNPAID"
      BY <2>1 DEF PayRead, tables
    <3> QED  BY <3>1 DEF InvoiceInv, InvoiceTimeline
  <2>2. CASE ~PayRead(s)
    <3>1. UNCHANGED <<invoice, events>>
      BY <1>3 DEF StaffReads, SaveRead, StatusRead, DeleteRead, FinalizeRead, UnfinalizeRead,
         IssueRead, SendRead, RevokeRead, PoConvertRead, PoBlankRead, PoQboRead, PoDeleteRead,
         InvoiceRead, PayRead, tables
    <3>2. NoNewPayment
      <4>1. CASE \/ \E c \in Contents : SaveRead(s, c)
                 \/ \E new \in StatusTargets : StatusRead(s, new)
                 \/ \E p \in Pos : PoDeleteRead(s, p)
                 \/ \E p \in Pos, filled \in BOOLEAN : PoQboRead(s, p, filled)
        BY <4>1, RequestStartsNoPayment DEF SaveRead, StatusRead, PoDeleteRead, PoQboRead, Idle
      <4>2. CASE DeleteRead(s) \/ FinalizeRead(s) \/ UnfinalizeRead(s) \/ IssueRead(s)
                   \/ SendRead(s)
        BY <4>2, RequestStartsNoPayment
           DEF DeleteRead, FinalizeRead, UnfinalizeRead, IssueRead, SendRead, Idle
      <4>3. CASE RevokeRead(s) \/ PoConvertRead(s) \/ PoBlankRead(s) \/ InvoiceRead(s)
        BY <4>3, RequestStartsNoPayment DEF RevokeRead, PoConvertRead, PoBlankRead, InvoiceRead, Idle
      <4> QED  BY <1>3, <2>2, <4>1, <4>2, <4>3 DEF StaffReads
    <3> QED  BY <3>1, <3>2, InvoiceUntouched
  <2> QED  BY <2>1, <2>2
<1>4. ASSUME NEW s \in Staff,
             \/ SaveCommit(s) \/ StatusWrite(s) \/ DeleteWrite(s) \/ FinalizeWrite(s)
             \/ UnfinalizeWrite(s) \/ PoQboWrite(s) \/ PoDeleteWrite(s) \/ SendMailFails(s)
             \/ SendWrite(s) \/ RevokeWrite(s) \/ \E p \in Pos : PoCreate(s, p)
      PROVE  InvoiceInv'
  BY <1>1, <1>4, InvoiceUntouched
     DEF SaveCommit, StatusWrite, DeleteWrite, FinalizeWrite, UnfinalizeWrite, PoQboWrite,
         PoDeleteWrite, SendMailFails, SendWrite, RevokeWrite, PoCreate
<1>5. ASSUME NEW s \in Staff,
             \/ FinalizeReadPos(s) \/ InvoiceCheckExisting(s) \/ SendMailOk(s)
             \/ \E expiry \in {"never", "later"} : IssueCommit(s, expiry)
      PROVE  InvoiceInv'
  BY <1>1, <1>2, <1>5, InvoiceUntouched
     DEF FinalizeReadPos, InvoiceCheckExisting, SendMailOk, IssueCommit, tables, Pcs
<1>6. ASSUME NEW s \in Staff, SaveDeleteLines(s) \/ \E l \in Links : IssueRevokeActive(s, l)
      PROVE  InvoiceInv'
  <2>1. req'[s].pc \in {"saveCommit", "issueCommit"}
    <3>1. SaveDeleteLines(s) => req'[s].pc = "saveCommit"
      BY DEF SaveDeleteLines, TypeOK, Request
    <3>2. (\E l \in Links : IssueRevokeActive(s, l)) => req'[s].pc = "issueCommit"
      BY DEF IssueRevokeActive, TypeOK, Request
    <3> QED  BY <1>6, <3>1, <3>2
  <2>2. \A t \in Staff \ {s} : req'[t] = req[t]
    BY <1>6 DEF SaveDeleteLines, IssueRevokeActive, TypeOK
  <2> QED  BY <1>6, <2>1, <2>2, InvoiceUntouched
              DEF SaveDeleteLines, IssueRevokeActive, NoNewPayment, tables
<1>7. ASSUME NEW s \in Staff, InvoiceCommit(s) PROVE InvoiceInv'
  <2>1. CASE InvoiceSlotFree
    <3>1. <<NoLink, "invoice">> \in EventKinds
      BY DEF EventKinds
    <3>2. /\ invoice.status = "none" /\ invoice'.status = "UNPAID"
          /\ events'[<<NoLink, "invoice">>] = events[<<NoLink, "invoice">>] + 1
          /\ Finish(s)
      BY <1>7, <2>1, <3>1 DEF InvoiceCommit, InvoiceSlotFree, TypeOK
    <3> QED  BY <1>1, <3>2 DEF InvoiceInv, InvoiceTimeline, NoNewPayment
  <2>2. CASE ~InvoiceSlotFree
    BY <1>1, <1>7, <2>2, InvoiceUntouched DEF InvoiceCommit
  <2> QED  BY <2>1, <2>2
<1>8. ASSUME NEW s \in Staff, PayWrite(s) PROVE InvoiceInv'
  BY <1>1, <1>8 DEF NoNewPayment, PayWrite, At, InvoiceInv, InvoiceTimeline, TypeOK, Invoice
<1>9. ASSUME NEW s \in Staff, StaffStep(s) \/ LinkStep(s) PROVE InvoiceInv'
  BY <1>3, <1>4, <1>5, <1>6, <1>7, <1>8, <1>9 DEF StaffStep, LinkStep, StaffReads
<1>10. ASSUME NEW c \in Customers, CustomerStep(c) PROVE InvoiceInv'
  <2>1. events'[<<NoLink, "invoice">>] = events[<<NoLink, "invoice">>]
    BY <1>10 DEF CustomerStep, RespondRead, RespondRecord, RespondLostRace, AnswersInv, TypeOK,
                 EventKinds, ConstantsOK, tables
  <2> QED  BY <1>10, <2>1, InvoiceUntouched
              DEF CustomerStep, RespondRead, RespondRecord, RespondLostRace, NoNewPayment, tables
<1>11. ASSUME ServerRestart PROVE InvoiceInv'
  BY <1>11, InvoiceUntouched DEF ServerRestart, Idle, NoNewPayment, tables
<1>12. ASSUME \/ \E l \in Links : LinkExpires(l)
              \/ \E p \in Pos, outcome \in ReconOutcomes : ReconSnapshot(p, outcome)
       PROVE  InvoiceInv'
  BY <1>12, InvoiceUntouched DEF LinkExpires, ReconSnapshot, NoNewPayment
<1> QED  BY <1>9, <1>10, <1>11, <1>12 DEF Next, Step

-----------------------------------------------------------------------------
(* The invariant *)

\* The invariant holds of an estimate just created by createEstimateAction.
LEMMA InitOK == ASSUME ConstantsOK, Init PROVE IInv
<1> USE DEF Init
<1>1. TypeOK
  <2>1. /\ Idle \in Request /\ IdleResponse \in Response
        /\ UnissuedLink \in Link /\ NoPoRow \in Po /\ NoInvoice \in Invoice
    BY IdleTyped DEF IdleResponse, Response, Told, Intents, UnissuedLink, Link, NoPoRow, Po,
       ReconStatus, NoInvoice, Invoice
  <2> QED  BY <2>1 DEF TypeOK, Estimate, Status
<1>2. RequestsInv /\ AnswersInv /\ RevocationInv
  BY DEF RequestsInv, AnswersInv, RevocationInv, Idle, IdleResponse, UnissuedLink, Committed
<1>3. ApprovalInv
  BY DEF ApprovalInv, NothingBeforeApproval, NoInvoice, NoPoRow, Idle
<1>4. TimelineMatchesAnswers /\ InvoiceInv
  BY DEF TimelineMatchesAnswers, InvoiceInv, InvoiceTimeline, UnissuedLink, NoInvoice, Idle,
         EventKinds, Intents
<1>5. ToldTheTruth /\ ActiveLinksOverlapped
  BY DEF ToldTheTruth, ActiveLinksOverlapped, IdleResponse, UnissuedLink, Active, Committed
<1> QED  BY <1>1, <1>2, <1>3, <1>4, <1>5 DEF IInv

\* The invariant is inductive.
LEMMA StepOK == ASSUME ConstantsOK, IInv, [Next]_vars PROVE IInv'
<1>1. CASE Next
  <2>1. TypeOK'
    BY <1>1, TypeStep DEF IInv
  <2>2. QuoteInv'
    BY <1>1, QuoteStep DEF IInv, QuoteInv
  <2>3. ApprovalInv'
    BY <1>1, ApprovalStep DEF IInv
  <2>4. InvoiceInv'
    BY <1>1, InvoiceStep DEF IInv
  <2> QED  BY <2>1, <2>2, <2>3, <2>4 DEF IInv, QuoteInv
<1>2. CASE UNCHANGED vars
  BY <1>2 DEF vars, IInv, TypeOK, RequestsInv, AnswersInv, RevocationInv, ApprovalInv,
     NothingBeforeApproval, InvoiceInv, InvoiceTimeline, TimelineMatchesAnswers, ToldTheTruth,
     ActiveLinksOverlapped, Active, Committed
<1> QED  BY <1>1, <1>2

\* The conjunction of all state invariants of the lifecycle holds in every reachable state,
\* whatever the number of overlapping handlers and customers.
THEOREM InductiveInvariant == Spec => []IInv
<1>1. Init => IInv
  BY ConstantsOK, InitOK
<1>2. IInv /\ [Next]_vars => IInv'
  BY ConstantsOK, StepOK
<1> QED  BY <1>1, <1>2, PTL DEF Spec

\* Every variable keeps its type (the rows of schema.prisma and the requests in flight).
THEOREM TypeCorrect == Spec => []TypeOK
<1>1. IInv => TypeOK
  BY DEF IInv
<1> QED  BY <1>1, InductiveInvariant, PTL

\* The timeline holds exactly one event per decided link and none for an undecided one,
\* for any number of customers answering the same link at once.
THEOREM TimelineIsRight == Spec => []TimelineMatchesAnswers
<1>1. IInv => TimelineMatchesAnswers
  BY DEF IInv
<1> QED  BY <1>1, InductiveInvariant, PTL

\* Whatever a customer was told about a decision is what the link's row says.
THEOREM RepliesAreTrue == Spec => []ToldTheTruth
<1>1. IInv => ToldTheTruth
  BY DEF IInv
<1> QED  BY <1>1, InductiveInvariant, PTL

\* Two links are in force together only if their issuing transactions overlapped.
THEOREM OldLinksWithdrawn == Spec => []ActiveLinksOverlapped
<1>1. IInv => ActiveLinksOverlapped
  BY DEF IInv
<1> QED  BY <1>1, InductiveInvariant, PTL

\* No conversion, invoice or finalization without an approval at some earlier time.
THEOREM ApprovalFirst == Spec => []NothingBeforeApproval
<1>1. IInv => NothingBeforeApproval
  BY DEF IInv, ApprovalInv
<1> QED  BY <1>1, InductiveInvariant, PTL

\* One invoice event for one invoice, for any number of overlapping requests.
THEOREM InvoiceEventOnce == Spec => []InvoiceTimeline
<1>1. IInv => InvoiceTimeline
  BY DEF IInv, InvoiceInv
<1> QED  BY <1>1, InductiveInvariant, PTL

\* An invoice keeps its amount and a paid invoice stays paid.
THEOREM InvoiceFinal == Spec => InvoiceIsFinal
<1> DEFINE Final == /\ invoice.status # "none" => invoice'.total = invoice.total
                    /\ invoice.status = "PAID" => invoice'.status = "PAID"
<1>1. TypeOK /\ Next => Final
  <2> SUFFICES ASSUME TypeOK, Next PROVE Final
    OBVIOUS
  <2>1. UNCHANGED invoice => Final
    OBVIOUS
  <2>2. ASSUME NEW s \in Staff, InvoiceCommit(s) PROVE Final
    BY <2>2 DEF InvoiceCommit, InvoiceSlotFree
  <2>3. ASSUME NEW s \in Staff, PayWrite(s) PROVE Final
    BY <2>3 DEF PayWrite, TypeOK, Invoice
  <2>4. ASSUME NEW s \in Staff, StaffReads(s) \/ LinkStep(s) PROVE UNCHANGED invoice
    BY <2>4 DEF StaffReads, SaveRead, StatusRead, DeleteRead, FinalizeRead, UnfinalizeRead,
       IssueRead, SendRead, RevokeRead, PoConvertRead, PoBlankRead, PoQboRead, PoDeleteRead,
       InvoiceRead, PayRead, LinkStep, IssueRevokeActive, IssueCommit, SendMailOk,
       SendMailFails, SendWrite, RevokeWrite, tables
  <2>5. ASSUME NEW s \in Staff,
               \/ SaveDeleteLines(s) \/ SaveCommit(s) \/ StatusWrite(s) \/ DeleteWrite(s)
               \/ FinalizeReadPos(s) \/ FinalizeWrite(s) \/ UnfinalizeWrite(s)
               \/ InvoiceCheckExisting(s) \/ PoQboWrite(s) \/ PoDeleteWrite(s)
               \/ \E p \in Pos : PoCreate(s, p)
        PROVE  UNCHANGED invoice
    BY <2>5 DEF SaveDeleteLines, SaveCommit, StatusWrite, DeleteWrite, FinalizeReadPos,
       FinalizeWrite, UnfinalizeWrite, InvoiceCheckExisting, PoQboWrite, PoDeleteWrite, PoCreate,
       tables
  <2>6. ASSUME NEW s \in Staff, StaffStep(s) \/ LinkStep(s) PROVE Final
    BY <2>1, <2>2, <2>3, <2>4, <2>5, <2>6 DEF StaffStep, StaffReads
  <2>7. ASSUME NEW c \in Customers, CustomerStep(c) PROVE UNCHANGED invoice
    BY <2>7 DEF CustomerStep, RespondRead, RespondRecord, RespondLostRace, tables
  <2>8. ServerRestart \/ (\E l \in Links : LinkExpires(l))
          \/ (\E p \in Pos, outcome \in ReconOutcomes : ReconSnapshot(p, outcome))
        => UNCHANGED invoice
    BY DEF ServerRestart, LinkExpires, ReconSnapshot, tables
  <2> QED  BY <2>1, <2>6, <2>7, <2>8 DEF Next, Step
<1>2. TypeOK /\ [Next]_vars => [Final]_vars
  BY <1>1
<1> QED  BY <1>2, TypeCorrect, PTL DEF Spec, InvoiceIsFinal

-----------------------------------------------------------------------------
(* The handlers when requests run one at a time *)

Busy(s) == req[s].pc # "idle"
Answering(c) == resp[c].pc # "idle"

\* Requests that start only when no other is running never overlap.
OneAtATime ==
  /\ \A s, t \in Staff : Busy(s) /\ Busy(t) => s = t
  /\ \A c, d \in Customers : Answering(c) /\ Answering(d) => c = d
  /\ \A s \in Staff, c \in Customers : ~(Busy(s) /\ Answering(c))

\* What a request has read of the estimate, its lines and its purchase orders still holds.
StillTrue(r) ==
  /\ r.pc \in {"saveDelete", "saveCommit", "statusWrite"} => est.status # "FINALIZED"
  /\ r.pc = "saveCommit" => r.seenLines = {t \in Staff : lines[t] # NoContent}
  /\ r.pc = "finalizePos" => r.status = est.status
  /\ r.pc = "finalizeWrite" => EvaluateEstimateFinalizeGates(est.status)
  /\ r.pc \in {"issueRevoke", "issueCommit", "sendMail", "sendWrite"} =>
       r.status \in {"unread", est.status}
ReadsStillTrue ==
  /\ \A s \in Staff : StillTrue(req[s])
  /\ \A c \in Customers : Answering(c) => est.status # "FINALIZED"

SerialInv == OneAtATime /\ ReadsStillTrue /\ TotalsMatchLines

\* A free slot knows nothing that could become false.
LEMMA IdleStillTrue == StillTrue(Idle) /\ StillTrue(Idle)'
BY DEF StillTrue, Idle

\* A step of request s while every other is idle: r is what it holds next.
LEMMA OwnStep ==
  ASSUME TypeOK, SerialInv, NEW s \in Staff, Busy(s) \/ AllQuiet,
         NEW r, req' = [req EXCEPT ![s] = r], resp' = resp,
         StillTrue(r)', TotalsMatchLines'
  PROVE  SerialInv'
<1>1. /\ \A t \in Staff : req'[t] = IF t = s THEN r ELSE req[t]
      /\ \A t \in Staff \ {s} : req[t].pc = "idle"
      /\ \A c \in Customers : resp[c].pc = "idle"
  BY DEF TypeOK, SerialInv, OneAtATime, Busy, Answering, AllQuiet
<1>2. OneAtATime'
  BY <1>1 DEF OneAtATime, Busy, Answering
<1>3. \A t \in Staff \ {s} : StillTrue(req[t])'
  BY <1>1 DEF StillTrue
<1>4. ReadsStillTrue'
  BY <1>1, <1>3 DEF ReadsStillTrue, Answering, StillTrue
<1> QED  BY <1>2, <1>4 DEF SerialInv

\* The lines and their total match until a save commits.
LEMMA TotalsUntouched ==
  ASSUME TotalsMatchLines, est'.total = est.total, lines' = lines
  PROVE  TotalsMatchLines'
BY DEF TotalsMatchLines

\* The end of a request that wrote neither lines nor totals.
LEMMA OwnFinish ==
  ASSUME TypeOK, SerialInv, NEW s \in Staff, Busy(s), Finish(s), resp' = resp,
         est'.total = est.total, lines' = lines
  PROVE  SerialInv'
BY OwnStep, IdleStillTrue, TotalsUntouched DEF Finish, SerialInv

\* A request that reads: the tables stay, and what it keeps is true of them.
LEMMA OwnRead ==
  ASSUME TypeOK, SerialInv, NEW s \in Staff, Busy(s) \/ AllQuiet, NEW r,
         req' = [req EXCEPT ![s] = r], UNCHANGED <<tables, resp>>, StillTrue(r)
  PROVE  SerialInv'
<1>1. StillTrue(r)'
  BY DEF StillTrue, tables, EvaluateEstimateFinalizeGates, LinkedPos
<1> QED  BY <1>1, OwnStep, TotalsUntouched DEF SerialInv, tables

\* Every handler starts alone and with true reads.
LEMMA StaffReadsSerial ==
  ASSUME Isolated, TypeOK, SerialInv, NEW s \in Staff, StaffReads(s)
  PROVE  SerialInv'
<1>1. ASSUME NEW c \in Contents, SaveRead(s, c) PROVE SerialInv'
  <2>1. StillTrue([Idle EXCEPT !.pc = "saveDelete", !.content = c])
    BY <1>1 DEF SaveRead, StillTrue, Idle
  <2> QED  BY <1>1, <2>1, OwnRead DEF SaveRead, Begin
<1>2. ASSUME NEW new \in StatusTargets, StatusRead(s, new) PROVE SerialInv'
  <2>1. StillTrue([Idle EXCEPT !.pc = "statusWrite", !.status = new])
    BY <1>2 DEF StatusRead, StillTrue, Idle
  <2> QED  BY <1>2, <2>1, OwnRead DEF StatusRead, Begin
<1>3. ASSUME NEW p \in Pos, NEW filled \in BOOLEAN, PoQboRead(s, p, filled)
      PROVE  SerialInv'
  <2>1. StillTrue([Idle EXCEPT !.pc = "poQbo", !.po = p, !.qbo = filled])
    BY DEF StillTrue, Idle
  <2> QED  BY <1>3, <2>1, OwnRead DEF PoQboRead, Begin
<1>4. ASSUME NEW p \in Pos, PoDeleteRead(s, p) PROVE SerialInv'
  <2>1. StillTrue([Idle EXCEPT !.pc = "poDelete", !.po = p])
    BY DEF StillTrue, Idle
  <2> QED  BY <1>4, <2>1, OwnRead DEF PoDeleteRead, Begin
<1>5. ASSUME NEW pc \in {"deleteWrite", "unfinalizeWrite", "issueRevoke", "revokeWrite",
                         "poConvert", "poBlank", "payWrite"},
             AllQuiet, UNCHANGED <<tables, resp, issuedAfter>>,
             req' = [req EXCEPT ![s] = [Idle EXCEPT !.pc = pc]]
      PROVE  SerialInv'
  <2>1. StillTrue([Idle EXCEPT !.pc = pc])
    BY DEF StillTrue, Idle
  <2> QED  BY <1>5, <2>1, OwnRead
<1>6. ASSUME NEW pc \in {"finalizePos", "issueRevoke"}, AllQuiet,
             UNCHANGED <<tables, resp, issuedAfter>>,
             req' = [req EXCEPT ![s] = [Idle EXCEPT !.pc = pc, !.status = est.status]]
      PROVE  SerialInv'
  <2>1. StillTrue([Idle EXCEPT !.pc = pc, !.status = est.status])
    BY DEF StillTrue, Idle
  <2> QED  BY <1>6, <2>1, OwnRead
<1>7. ASSUME InvoiceRead(s) PROVE SerialInv'
  <2>1. StillTrue([Idle EXCEPT !.pc = "invoiceCheck", !.content = est.total])
    BY DEF StillTrue, Idle
  <2> QED  BY <1>7, <2>1, OwnRead DEF InvoiceRead, Begin
<1>8. DeleteRead(s) \/ FinalizeRead(s) \/ UnfinalizeRead(s) \/ IssueRead(s)
        \/ SendRead(s) \/ RevokeRead(s) \/ PoConvertRead(s) \/ PoBlankRead(s)
        \/ PayRead(s) => SerialInv'
  BY <1>5, <1>6 DEF DeleteRead, FinalizeRead, UnfinalizeRead, IssueRead, SendRead,
     RevokeRead, PoConvertRead, PoBlankRead, PayRead, Begin
<1> QED  BY <1>1, <1>2, <1>3, <1>4, <1>7, <1>8 DEF StaffReads

\* The steps of a staff handler after its first keep what it has read true.
LEMMA StaffStepSerial ==
  ASSUME Isolated, TypeOK, SerialInv, NEW s \in Staff, StaffStep(s)
  PROVE  SerialInv'
<1>0. StillTrue(req[s]) /\ req[s] \in Request
  BY DEF SerialInv, ReadsStillTrue, TypeOK
<1>1. CASE StaffReads(s)
  BY <1>1, StaffReadsSerial
<1>2. CASE SaveDeleteLines(s)
  <2> DEFINE r == [req[s] EXCEPT !.pc = "saveCommit",
                                 !.seenLines = {t \in Staff : lines[t] # NoContent}]
  <2>1. r.pc = "saveCommit" /\ r.seenLines = {t \in Staff : lines[t] # NoContent}
    BY <1>0 DEF Request
  <2>2. req' = [req EXCEPT ![s] = r] /\ UNCHANGED <<tables, resp>>
    BY <1>2 DEF SaveDeleteLines
  <2> HIDE DEF r
  <2>3. StillTrue(r)
    BY <1>0, <1>2, <2>1 DEF SaveDeleteLines, StillTrue, At
  <2> QED  BY <1>2, <2>2, <2>3, OwnRead DEF SaveDeleteLines, At, Busy
<1>3. CASE SaveCommit(s)
  <2>1. \A t \in Staff : lines'[t] = IF t = s THEN req[s].content ELSE NoContent
    BY <1>0, <1>3 DEF SaveCommit, StillTrue, At
  <2>2. est'.total = req[s].content
    BY <1>3 DEF SaveCommit, TypeOK, Estimate
  <2>3. TotalsMatchLines'
    BY <2>1, <2>2 DEF TotalsMatchLines
  <2> QED  BY <1>3, <2>3, OwnStep, IdleStillTrue DEF SaveCommit, Finish, At, Busy
<1>4. CASE FinalizeReadPos(s)
  <2>1. CASE EvaluateEstimateFinalizeGates(req[s].status)
    <3>1. [req[s] EXCEPT !.pc = "finalizeWrite"].pc = "finalizeWrite"
      BY <1>0 DEF Request
    <3>2. StillTrue([req[s] EXCEPT !.pc = "finalizeWrite"])
      BY <1>0, <1>4, <2>1, <3>1 DEF FinalizeReadPos, At, StillTrue
    <3>3. req' = [req EXCEPT ![s] = [req[s] EXCEPT !.pc = "finalizeWrite"]]
      BY <1>4, <2>1 DEF FinalizeReadPos, Continue
    <3> QED  BY <1>4, <3>2, <3>3, OwnRead DEF FinalizeReadPos, At, Busy
  <2>2. CASE ~EvaluateEstimateFinalizeGates(req[s].status)
    BY <1>4, <2>2, OwnFinish DEF FinalizeReadPos, At, Busy, tables
  <2> QED  BY <2>1, <2>2
<1>5. CASE StatusWrite(s) \/ DeleteWrite(s) \/ FinalizeWrite(s) \/ UnfinalizeWrite(s)
  <2>1. est'.total = est.total
    BY <1>5 DEF StatusWrite, DeleteWrite, FinalizeWrite, UnfinalizeWrite, TypeOK, Estimate
  <2> QED  BY <1>5, <2>1, OwnFinish
           DEF StatusWrite, DeleteWrite, FinalizeWrite, UnfinalizeWrite, At, Busy
<1>6. CASE \/ PoQboWrite(s) \/ PoDeleteWrite(s) \/ PayWrite(s) \/ InvoiceCommit(s)
           \/ \E p \in Pos : PoCreate(s, p)
  BY <1>6, OwnFinish
     DEF PoQboWrite, PoDeleteWrite, PayWrite, InvoiceCommit, PoCreate, At, Busy
<1>7. CASE InvoiceCheckExisting(s)
  <2>1. [req[s] EXCEPT !.pc = "invoiceCommit"].pc = "invoiceCommit"
    BY <1>0 DEF Request
  <2>2. StillTrue([req[s] EXCEPT !.pc = "invoiceCommit"])
    BY <2>1 DEF StillTrue
  <2> QED  BY <1>7, <2>2, OwnRead, OwnFinish
           DEF InvoiceCheckExisting, Continue, At, Busy, tables
<1> QED  BY <1>1, <1>2, <1>3, <1>4, <1>5, <1>6, <1>7 DEF StaffStep, StaffReads

\* A link handler moves on: it keeps the status it has read and the estimate is not written.
LEMMA OwnContinue ==
  ASSUME TypeOK, SerialInv, NEW s \in Staff, NEW r \in Request,
         req[s].pc \in {"issueRevoke", "issueCommit", "sendMail"},
         r.pc \in {"issueCommit", "sendMail", "sendWrite"}, r.status = req[s].status,
         req' = [req EXCEPT ![s] = r], UNCHANGED <<est, lines, pos, resp>>
  PROVE  SerialInv'
<1>1. StillTrue(r)'
  BY DEF StillTrue, SerialInv, ReadsStillTrue
<1> QED  BY <1>1, OwnStep, TotalsUntouched DEF SerialInv, Busy

\* The steps of a link handler after its first keep what it has read true.
LEMMA LinkStepSerial ==
  ASSUME Isolated, TypeOK, SerialInv, NEW s \in Staff, LinkStep(s)
  PROVE  SerialInv'
<1>0. StillTrue(req[s]) /\ req[s] \in Request /\ SerialInv
  BY DEF SerialInv, ReadsStillTrue, TypeOK
<1>1. CASE StaffReads(s)
  BY <1>1, StaffReadsSerial
<1>3. ASSUME NEW l \in Links, IssueRevokeActive(s, l) PROVE SerialInv'
  <2> DEFINE r == [req[s] EXCEPT !.pc = "issueCommit", !.link = l, !.seenLinks = LinksToRevoke]
  <2>1. r \in Request /\ r.pc = "issueCommit" /\ r.status = req[s].status
    BY <1>0 DEF Request, Pcs, LinksToRevoke, Active, Committed
  <2>2. req' = [req EXCEPT ![s] = r]
    BY <1>3 DEF IssueRevokeActive
  <2> HIDE DEF r
  <2>3. req[s].pc = "issueRevoke" /\ UNCHANGED <<est, lines, pos, resp>>
    BY <1>3 DEF IssueRevokeActive, At, tables
  <2> QED  BY <2>1, <2>2, <2>3, OwnContinue
<1>4. ASSUME NEW pc \in {"sendMail", "sendWrite"}, req[s].pc \in {"issueCommit", "sendMail"},
             Continue(s, pc), UNCHANGED <<est, lines, pos, resp>>
      PROVE  SerialInv'
  <2> DEFINE r == [req[s] EXCEPT !.pc = pc]
  <2>1. r \in Request /\ r.pc = pc /\ r.status = req[s].status
    BY <1>0 DEF Request, Pcs
  <2>2. req' = [req EXCEPT ![s] = r]
    BY <1>4 DEF Continue
  <2> HIDE DEF r
  <2> QED  BY <1>4, <2>1, <2>2, OwnContinue
<1>5. ASSUME NEW expiry \in {"never", "later"}, IssueCommit(s, expiry) PROVE SerialInv'
  <2>1. CASE Finish(s)
    BY <1>5, <2>1, OwnFinish DEF IssueCommit, At, Busy
  <2>2. CASE Continue(s, "sendMail")
    BY <1>4, <1>5, <2>2 DEF IssueCommit, At
  <2> QED  BY <1>5, <2>1, <2>2 DEF IssueCommit
<1>6. CASE SendMailOk(s)
  BY <1>4, <1>6 DEF SendMailOk, At
<1>7. CASE SendMailFails(s) \/ RevokeWrite(s)
  BY <1>7, OwnFinish DEF SendMailFails, RevokeWrite, At, Busy
<1>8. CASE SendWrite(s)
  <2>1. est'.total = est.total
    BY <1>8 DEF SendWrite, TypeOK, Estimate
  <2> QED  BY <1>8, <2>1, OwnFinish DEF SendWrite, At, Busy
<1> QED  BY <1>1, <1>3, <1>5, <1>6, <1>7, <1>8 DEF LinkStep, StaffReads

\* A customer answers alone, and the estimate is not FINALIZED meanwhile.
LEMMA CustomerStepSerial ==
  ASSUME Isolated, TypeOK, SerialInv, NEW c \in Customers, CustomerStep(c)
  PROVE  SerialInv'
<1>1. /\ AllQuiet \/ Answering(c)
      /\ lines' = lines /\ req' = req
      /\ resp' = [resp EXCEPT ![c] = resp'[c]]
      /\ est'.total = est.total
      /\ Answering(c)' => est'.status # "FINALIZED"
  <2>1. ASSUME NEW l \in Links, NEW intent \in Intents, RespondRead(c, l, intent)
        PROVE  /\ AllQuiet /\ lines' = lines /\ req' = req
               /\ resp' = [resp EXCEPT ![c] = resp'[c]]
               /\ est'.total = est.total
               /\ Answering(c)' => est'.status # "FINALIZED"
    BY <2>1 DEF RespondRead, ResponseVerdict, tables, TypeOK, Answering, Intents
  <2>2. CASE RespondRecord(c)
    <3>1. est'.total = est.total
      BY <2>2 DEF RespondRecord, EstimateAfterResponse, TypeOK, Estimate
    <3> QED  BY <2>2, <3>1 DEF RespondRecord, TypeOK, Answering, Response
  <2>3. CASE RespondLostRace(c)
    BY <2>3 DEF RespondLostRace, tables, TypeOK, Answering, Response
  <2> QED  BY <2>1, <2>2, <2>3 DEF CustomerStep
<1>2. /\ \A d \in Customers \ {c} : resp'[d].pc = "idle"
      /\ \A s \in Staff : req[s].pc = "idle"
  BY <1>1 DEF TypeOK, SerialInv, OneAtATime, Busy, Answering, AllQuiet
<1>3. OneAtATime'
  BY <1>1, <1>2 DEF OneAtATime, Busy, Answering
<1>4. \A s \in Staff : StillTrue(req[s])'
  BY <1>1, <1>2 DEF StillTrue
<1>5. ReadsStillTrue'
  BY <1>1, <1>2, <1>4 DEF ReadsStillTrue, Answering, StillTrue
<1> QED  BY <1>1, <1>3, <1>5, TotalsUntouched DEF SerialInv

\* The clock, a reconciliation and a restart leave a serial run serial.
LEMMA OtherStepSerial ==
  ASSUME Isolated, TypeOK, SerialInv,
         \/ ServerRestart
         \/ \E l \in Links : LinkExpires(l)
         \/ \E p \in Pos, outcome \in ReconOutcomes : ReconSnapshot(p, outcome)
  PROVE  SerialInv'
<1>1. CASE ServerRestart
  <2>1. /\ \A s \in Staff : req'[s].pc = "idle"
        /\ \A c \in Customers : resp'[c].pc = "idle"
        /\ UNCHANGED <<est, lines>>
    BY <1>1 DEF ServerRestart, Idle, IdleResponse, tables
  <2> QED  BY <2>1, TotalsUntouched
           DEF SerialInv, OneAtATime, ReadsStillTrue, StillTrue, Busy, Answering
<1>2. ASSUME NEW l \in Links, LinkExpires(l) PROVE SerialInv'
  BY <1>2 DEF LinkExpires, SerialInv, OneAtATime, ReadsStillTrue, StillTrue, Busy, Answering,
     TotalsMatchLines, EvaluateEstimateFinalizeGates, LinkedPos
<1>3. ASSUME NEW p \in Pos, NEW outcome \in ReconOutcomes, ReconSnapshot(p, outcome)
      PROVE  SerialInv'
  <2>1. /\ \A s \in Staff : req'[s].pc = "idle"
        /\ \A c \in Customers : resp'[c].pc = "idle"
        /\ UNCHANGED <<est, lines>>
    BY <1>3 DEF ReconSnapshot, AllQuiet
  <2> QED  BY <2>1, TotalsUntouched
           DEF SerialInv, OneAtATime, ReadsStillTrue, StillTrue, Busy, Answering
<1> QED  BY <1>1, <1>2, <1>3

\* When requests run one at a time, none overlaps another and what each has read stays true.
THEOREM SerialInvariant == ASSUME Isolated PROVE Spec => []SerialInv
<1>1. Init => SerialInv
  BY DEF Init, SerialInv, OneAtATime, ReadsStillTrue, StillTrue, TotalsMatchLines, Busy,
     Answering, Idle, IdleResponse
<1>2. TypeOK /\ SerialInv /\ [Next]_vars => SerialInv'
  <2> SUFFICES ASSUME TypeOK, SerialInv, [Next]_vars PROVE SerialInv'
    OBVIOUS
  <2>1. CASE Next
    BY <2>1, StaffStepSerial, LinkStepSerial, CustomerStepSerial, OtherStepSerial DEF Next, Step
  <2>2. CASE UNCHANGED vars
    BY <2>2 DEF vars, SerialInv, OneAtATime, ReadsStillTrue, StillTrue, Busy, Answering,
       TotalsMatchLines, EvaluateEstimateFinalizeGates, LinkedPos
  <2> QED  BY <2>1, <2>2
<1> QED  BY <1>1, <1>2, TypeCorrect, PTL DEF Spec

\* One save at a time: the stored lines are those of one save and the totals are theirs
\* (saveEstimateAction).
THEOREM SerialTotals == ASSUME Isolated PROVE Spec => []TotalsMatchLines
<1>1. SerialInv => TotalsMatchLines
  BY DEF SerialInv
<1> QED  BY <1>1, SerialInvariant, PTL

\* What closing the estimate protects: its status, totals, lines and the customers' answers.
EstimateKept ==
  /\ est'.status = est.status /\ est'.total = est.total /\ lines' = lines
  /\ \A l \in Links : links'[l].answer = links[l].answer

\* The only steps that may change one of these, and what each is about to write.
LEMMA EstimateWriters ==
  ASSUME IInv, Next
  PROVE  \/ EstimateKept
         \/ \E s \in Staff : \/ SaveCommit(s) \/ StatusWrite(s) \/ FinalizeWrite(s)
                             \/ UnfinalizeWrite(s) \/ SendWrite(s)
         \/ \E c \in Customers : RespondRecord(c)
<1>0. TypeOK /\ RequestsInv /\ AnswersInv /\ ConstantsOK
  BY ConstantsOK DEF IInv
<1>1. ASSUME UNCHANGED <<est, lines, links>> PROVE EstimateKept
  BY <1>1 DEF EstimateKept
<1>2. ASSUME NEW s \in Staff, StaffStep(s)
      PROVE  \/ EstimateKept
             \/ SaveCommit(s) \/ StatusWrite(s) \/ FinalizeWrite(s) \/ UnfinalizeWrite(s)
  <2>1. links' = links
    BY <1>0, <1>2, StaffStepIsBackground DEF Background
  <2>2. CASE StaffReads(s)
    BY <2>2, <1>1 DEF StaffReads, SaveRead, StatusRead, DeleteRead, FinalizeRead,
       UnfinalizeRead, IssueRead, SendRead, RevokeRead, PoConvertRead, PoBlankRead, PoQboRead,
       PoDeleteRead, InvoiceRead, PayRead, tables
  <2>3. CASE \/ SaveDeleteLines(s) \/ FinalizeReadPos(s) \/ InvoiceCheckExisting(s)
             \/ PoQboWrite(s) \/ PoDeleteWrite(s) \/ InvoiceCommit(s) \/ PayWrite(s)
             \/ \E p \in Pos : PoCreate(s, p)
    BY <2>1, <2>3, <1>1 DEF SaveDeleteLines, FinalizeReadPos, InvoiceCheckExisting, PoQboWrite,
       PoDeleteWrite, InvoiceCommit, PayWrite, PoCreate, tables
  <2>4. CASE DeleteWrite(s)
    BY <2>1, <2>4, <1>0 DEF DeleteWrite, EstimateKept, TypeOK, Estimate
  <2> QED  BY <1>2, <2>2, <2>3, <2>4 DEF StaffStep, StaffReads
<1>3. ASSUME NEW s \in Staff, LinkStep(s) PROVE EstimateKept \/ SendWrite(s)
  <2>1. CASE IssueRead(s) \/ SendRead(s) \/ RevokeRead(s) \/ \E l \in Links : IssueRevokeActive(s, l)
    BY <2>1, <1>1 DEF IssueRead, SendRead, RevokeRead, IssueRevokeActive, tables
  <2>2. ASSUME NEW expiry \in {"never", "later"}, IssueCommit(s, expiry) PROVE EstimateKept
    <3>1. \A l \in Links : links'[l].answer = links[l].answer
      BY <1>0, <2>2, IssueCommitEffect
    <3> QED  BY <2>2, <3>1 DEF IssueCommit, EstimateKept
  <2>3. CASE SendMailOk(s) \/ SendMailFails(s)
    BY <1>0, <2>3, SendMailEffect DEF SendMailOk, SendMailFails, EstimateKept
  <2>4. CASE RevokeWrite(s)
    BY <1>0, <2>4, RevokeWriteEffect DEF RevokeWrite, EstimateKept
  <2> QED  BY <1>3, <2>1, <2>2, <2>3, <2>4 DEF LinkStep
<1>4. ASSUME NEW c \in Customers, CustomerStep(c) PROVE EstimateKept \/ RespondRecord(c)
  BY <1>4, <1>1 DEF CustomerStep, RespondRead, RespondLostRace, tables
<1>5. ASSUME NEW l \in Links, LinkExpires(l) PROVE EstimateKept
  BY <1>0, <1>5 DEF LinkExpires, EstimateKept, TypeOK, Link
<1>6. ServerRestart \/ (\E p \in Pos, outcome \in ReconOutcomes : ReconSnapshot(p, outcome))
        => EstimateKept
  BY <1>1 DEF ServerRestart, ReconSnapshot, tables
<1> QED  BY <1>2, <1>3, <1>4, <1>5, <1>6 DEF Next, Step

\* When requests do not overlap, nothing but unfinalizeEstimateAction writes to a FINALIZED
\* estimate, and only finalizeEstimateAction makes it one, on a true reading of its gates.
LEMMA FinalizedStep ==
  ASSUME IInv, SerialInv, Next
  PROVE  /\ EntersFinalized => \E s \in Staff : FinalizeWrite(s)
         /\ est.status = "FINALIZED" =>
              \/ EstimateKept
              \/ \E s \in Staff : FinalizeWrite(s) \/ UnfinalizeWrite(s)
<1>0. /\ TypeOK /\ RequestsInv
      /\ \A s \in Staff : StillTrue(req[s])
      /\ \A c \in Customers : Answering(c) => est.status # "FINALIZED"
  BY DEF IInv, SerialInv, ReadsStillTrue
<1>1. ASSUME NEW s \in Staff, SaveCommit(s)
      PROVE  est.status # "FINALIZED" /\ est'.status = est.status
  BY <1>0, <1>1 DEF SaveCommit, At, StillTrue, TypeOK, Estimate
<1>2. ASSUME NEW s \in Staff, StatusWrite(s)
      PROVE  est.status # "FINALIZED" /\ est'.status # "FINALIZED"
  BY <1>0, <1>2 DEF StatusWrite, At, StillTrue, RequestsInv, TypeOK, Estimate
<1>3. ASSUME NEW s \in Staff, SendWrite(s)
      PROVE  \/ UNCHANGED <<est, lines>> /\ \A l \in Links : links'[l].answer = links[l].answer
             \/ est.status # "FINALIZED" /\ est'.status # "FINALIZED"
  BY <1>0, <1>3
     DEF SendWrite, StatusAfterSuccessfulCustomerSend, At, StillTrue, TypeOK, Estimate, Status
<1>4. ASSUME NEW c \in Customers, RespondRecord(c)
      PROVE  est.status # "FINALIZED" /\ est'.status # "FINALIZED"
  BY <1>0, <1>4 DEF RespondRecord, Answering, EstimateAfterResponse, EstimateStatusAfter,
     TypeOK, Estimate
<1>5. ASSUME NEW s \in Staff, UnfinalizeWrite(s) PROVE est'.status # "FINALIZED"
  BY <1>0, <1>5 DEF UnfinalizeWrite, TypeOK, Estimate
<1> QED  BY <1>1, <1>2, <1>3, <1>4, <1>5, EstimateWriters DEF EntersFinalized, EstimateKept

\* R-EST-04 when requests do not overlap: the gates finalizeEstimateAction judged hold at the
\* instant it writes FINALIZED, and no other handler writes it.
THEOREM SerialFinalize == ASSUME Isolated PROVE Spec => FinalizedOnlyWhenGatesHold
<1>1. IInv /\ SerialInv /\ [Next]_vars => [EntersFinalized => CloseoutGatesHold]_vars
  <2> SUFFICES ASSUME IInv, SerialInv, Next, EntersFinalized PROVE CloseoutGatesHold
    OBVIOUS
  <2>1. PICK s \in Staff : FinalizeWrite(s)
    BY FinalizedStep
  <2>2. EvaluateEstimateFinalizeGates(est.status)
    BY <2>1 DEF SerialInv, ReadsStillTrue, FinalizeWrite, At, StillTrue
  <2>3. \A p \in Pos : pos[p].recon \in ReconStatus
    BY DEF IInv, TypeOK, Po
  <2> QED  BY <2>2, <2>3
           DEF EvaluateEstimateFinalizeGates, LinkedPos, ReconciliationNeedsAttention,
               CloseoutGatesHold
<1> QED  BY <1>1, InductiveInvariant, SerialInvariant, PTL DEF Spec, FinalizedOnlyWhenGatesHold

\* A FINALIZED estimate is closed to every handler but unfinalizeEstimateAction when requests
\* do not overlap (the FINALIZED guards of the actions, public-service.ts).
THEOREM SerialFinalizedStands == ASSUME Isolated PROVE Spec => FinalizedStands
<1>1. IInv /\ SerialInv /\ [Next]_vars =>
        [est.status = "FINALIZED" /\ ~(\E s \in Staff : UnfinalizeWrite(s))
           => /\ est'.status = "FINALIZED" /\ est'.total = est.total /\ lines' = lines
              /\ \A l \in Links : links'[l].answer = links[l].answer]_vars
  <2> SUFFICES ASSUME IInv, SerialInv, Next, est.status = "FINALIZED",
                      ~(\E s \in Staff : UnfinalizeWrite(s))
               PROVE  EstimateKept
    BY DEF EstimateKept
  <2>1. \A s \in Staff : ~FinalizeWrite(s)
    BY DEF SerialInv, ReadsStillTrue, FinalizeWrite, At, StillTrue,
       EvaluateEstimateFinalizeGates
  <2> QED  BY <2>1, FinalizedStep
<1> QED  BY <1>1, InductiveInvariant, SerialInvariant, PTL DEF Spec, FinalizedStands

-----------------------------------------------------------------------------
(* The lifecycle implements the contract of a quote link *)

\* The abstract state is a function of links: a step that keeps what it looks at stutters.
LEMMA LinksKept ==
  ASSUME \A l \in Links : /\ links'[l].answer = links[l].answer
                          /\ (links'[l].url = "none" <=> links[l].url = "none")
                          /\ (links'[l].revoked <=> links[l].revoked)
  PROVE  UNCHANGED <<Committed, Committed \ Active, [l \in Links |-> links[l].answer]>>
BY DEF Committed, Active

\* Withdrawing committed links is a step of the contract.
LEMMA WithdrawIsNext ==
  ASSUME NEW W \in SUBSET Committed, Decision!WithdrawLinks(W) PROVE Decision!QDNext
BY DEF Decision!QDNext

\* Recording a decision is a step of the contract.
LEMMA DecideIsNext ==
  \A l \in Links, intent \in Intents : Decision!Decide(l, intent) => Decision!QDNext
BY DEF Decision!QDNext

\* Every step of the lifecycle, however the handlers overlap, is a step of the contract
\* of a quote link or leaves it alone.
THEOREM QuoteDecisionRefined == Spec => ImplementsQuoteDecision
<1>1. Init => Decision!QDInit
  BY DEF Init, Decision!QDInit, Committed, Active, UnissuedLink
<1>2. ASSUME IInv, [Next]_vars PROVE [Decision!QDNext]_(Decision!qdVars)
  <2> USE DEF Decision!qdVars
  <2>1. ASSUME UNCHANGED links PROVE UNCHANGED Decision!qdVars
    BY <2>1 DEF Committed, Active
  <2>2. ASSUME NEW s \in Staff, StaffStep(s) PROVE UNCHANGED links
    BY <1>2, <2>2, ConstantsOK, StaffStepIsBackground DEF Background, IInv
  <2>3. ASSUME NEW s \in Staff, LinkStep(s) PROVE [Decision!QDNext]_(Decision!qdVars)
    <3>1. CASE StaffReads(s) \/ SendWrite(s) \/ \E l \in Links : IssueRevokeActive(s, l)
      <4>1. StaffReads(s) => UNCHANGED links
        BY ConstantsOK, ReadsAreBackground DEF Background
      <4>2. SendWrite(s) \/ (\E l \in Links : IssueRevokeActive(s, l)) => UNCHANGED links
        BY DEF SendWrite, IssueRevokeActive, tables
      <4> QED  BY <2>1, <3>1, <4>1, <4>2
    <3>2. ASSUME NEW expiry \in {"never", "later"}, IssueCommit(s, expiry)
          PROVE  Decision!QDNext
      <4> DEFINE new == req[s].link
                 withdrawn == req[s].seenLinks \cap Committed
      <4>1. /\ new \in Links /\ new \notin Committed
            /\ links'[new].url # "none" /\ links'[new].answer = "none" /\ ~links'[new].revoked
            /\ links[new].answer = "none"
            /\ \A k \in Links \ {new} :
                 /\ links'[k].url = links[k].url
                 /\ links'[k].answer = links[k].answer
                 /\ links'[k].revoked <=> (links[k].revoked \/ k \in req[s].seenLinks)
        BY <1>2, <3>2, ConstantsOK, IssueCommitEffect DEF IInv, Committed
      <4> HIDE DEF new
      <4>2. Committed' = Committed \cup {new}
        BY <4>1 DEF Committed
      <4>3. (Committed \ Active)' = (Committed \ Active) \cup withdrawn
        BY <4>1, <4>2 DEF Active, Committed
      <4>4. [l \in Links |-> links[l].answer]' = [l \in Links |-> links[l].answer]
        BY <4>1
      <4>5. Decision!IssueLink(new, withdrawn)
        BY <4>1, <4>2, <4>3, <4>4 DEF Decision!IssueLink
      <4> QED  BY <4>1, <4>5 DEF Decision!QDNext
    <3>3. CASE SendMailOk(s) \/ SendMailFails(s)
      BY <1>2, <3>3, ConstantsOK, SendMailEffect, LinksKept DEF IInv
    <3>4. CASE RevokeWrite(s)
      <4>1. \A k \in Links : /\ links'[k].url = links[k].url
                             /\ links'[k].answer = links[k].answer
                             /\ links'[k].revoked <=> (links[k].revoked \/ k \in Active)
        BY <1>2, <3>4, RevokeWriteEffect DEF IInv
      <4>2. Active \in SUBSET Committed /\ Active \in SUBSET Links
        BY DEF Active, Committed
      <4>3. Committed' = Committed
        BY <4>1 DEF Committed
      <4>4. \A k \in Committed : links'[k].revoked
        BY <4>1 DEF Active, Committed
      <4>5. (Committed \ Active)' = (Committed \ Active) \cup Active
        BY <4>2, <4>3, <4>4 DEF Active
      <4>6. [l \in Links |-> links[l].answer]' = [l \in Links |-> links[l].answer]
        <5>1. \A k \in Links : links'[k].answer = links[k].answer
          BY <4>1
        <5> QED  BY <5>1
      <4>7. Decision!WithdrawLinks(Active)
        BY <4>3, <4>5, <4>6 DEF Decision!WithdrawLinks
      <4> QED  BY <4>2, <4>7, WithdrawIsNext
    <3> QED  BY <2>3, <3>1, <3>2, <3>3, <3>4 DEF LinkStep, StaffReads
  <2>4. ASSUME NEW c \in Customers, CustomerStep(c) PROVE [Decision!QDNext]_(Decision!qdVars)
    <3>1. CASE RespondRecord(c)
      <4>0. PICK link \in Links, choice \in Intents :
              link = resp[c].link /\ choice = resp[c].intent
        BY <1>2, <3>1 DEF RespondRecord, IInv, AnswersInv, TypeOK, Response
      <4>1. /\ links[link].url # "none" /\ links[link].answer = "none" /\ ~links[link].revoked
            /\ links' = [links EXCEPT ![link].answer = choice]
        BY <1>2, <3>1, <4>0 DEF RespondRecord, LinkStillOpen, IInv, AnswersInv, TypeOK, Response
      <4>2. /\ \A k \in Links : /\ links'[k].url = links[k].url
                                /\ links'[k].revoked = links[k].revoked
            /\ \A k \in Links \ {link} : links'[k].answer = links[k].answer
            /\ links'[link].answer = choice
        BY <1>2, <4>1 DEF IInv, TypeOK, Link
      <4>3. Committed' = Committed /\ Active' = Active /\ link \in Active
        BY <4>1, <4>2 DEF Active, Committed
      <4>4. [k \in Links |-> links[k].answer]'
              = [[k \in Links |-> links[k].answer] EXCEPT ![link] = choice]
        BY <4>1, <4>2
      <4>5. Decision!Decide(link, choice)
        BY <4>1, <4>3, <4>4 DEF Decision!Decide, Active
      <4> QED  BY <4>5, DecideIsNext
    <3>2. CASE RespondLostRace(c) \/ \E l \in Links, intent \in Intents : RespondRead(c, l, intent)
      BY <2>1, <3>2 DEF RespondLostRace, RespondRead, tables
    <3> QED  BY <2>4, <3>1, <3>2 DEF CustomerStep
  <2>5. ASSUME NEW l \in Links, LinkExpires(l) PROVE UNCHANGED Decision!qdVars
    <3>1. \A k \in Links : /\ links'[k].answer = links[k].answer
                           /\ links'[k].url = links[k].url
                           /\ links'[k].revoked = links[k].revoked
      BY <1>2, <2>5 DEF LinkExpires, IInv, TypeOK, Link
    <3> QED  BY <3>1, LinksKept
  <2>6. (ServerRestart \/ \E p \in Pos, outcome \in ReconOutcomes : ReconSnapshot(p, outcome))
           => UNCHANGED links
    BY DEF ServerRestart, ReconSnapshot, tables
  <2> QED  BY <1>2, <2>1, <2>2, <2>3, <2>4, <2>5, <2>6 DEF Next, Step, vars
<1> QED  BY <1>1, <1>2, InductiveInvariant, PTL DEF Spec, ImplementsQuoteDecision, Decision!QDSpec
=============================================================================
