------------------------- MODULE MobileSessionProofs -------------------------
(***************************************************************************)
(* MobileSession for every number of calls, requests, sign-ins and         *)
(* incidents: the pair on the phone is in step with the row, and a         *)
(* session that is alive is only given up by a sign-out.                   *)
(*                                                                         *)
(* Inductive with them.  Always: what each call may be at, one call runs   *)
(* the refresh, a request on the server belongs to it, and no token is     *)
(* newer than its row.  While nothing disturbs: a sign-in stores its pair  *)
(* with the phone to itself, a rotation continues the session of the       *)
(* stored pair, the login screen is only shown without tokens, and a call  *)
(* that clears the tokens has a cause.  A database failure under a refresh *)
(* is a disturbance, since the server answers it as it does a dead token.  *)
(***************************************************************************)
EXTENDS MobileSession, TLAPS

Saving == {"save1", "save2"}
Clearing == {"clear1", "clear2"}
Row == [hash : Nat, revoked : BOOLEAN, lapsed : BOOLEAN]
Call == [op : {"idle", "api", "put", "logout", "login"},
         pc : {"idle", "sent", "unauth", "join", "refresh", "rsent", "save1", "save2", "resend",
               "clear1", "clear2", "creds"},
         retried : BOOLEAN, token : TokenOrNone]
Request == [token : TokenOrNone, from : Calls \cup {Nobody}]

Typed ==
  /\ row \in [SessionIds -> Row] /\ stale \subseteq Token /\ disabled \in BOOLEAN
  /\ access \in TokenOrNone /\ secure \in TokenOrNone /\ legacy \in TokenOrNone
  /\ inFlight \in Calls \cup {Nobody}
  /\ call \in [Calls -> Call] /\ srv \in [Servers -> Request]
  /\ screen \in {"login", "app"} /\ disturbed \in BOOLEAN
  /\ began \in 0..MaxCalls /\ incidents \in 0..MaxIncidents

-----------------------------------------------------------------------------
(* What always holds *)

Login(c) == call[c].op = "login"
HasLock(c) == call[c].pc \in Rotating \cup {"refresh"} /\ ~Login(c)
Served(h) == srv[h] # NoRequest

\* What a call may be at.
CallShape(r) ==
  /\ r = Idle <=> r.pc = "idle"
  /\ r.op = "idle" <=> r.pc = "idle"
  /\ r.op = "login" => r.pc \in {"creds", "save1", "save2"}
  /\ r.pc = "creds" => r.op = "login"
  /\ r.pc \in Rotating => r.token \in Token
  /\ r.op = "put" => r.pc \notin Clearing

Shapes == \A c \in Calls : CallShape(call[c]) /\ (Login(c) => screen = "login")

Locked ==
  /\ \A c \in Calls : HasLock(c) => inFlight = c
  /\ inFlight # Nobody => HasLock(inFlight)
  /\ \A c, d \in Calls : Login(c) /\ Login(d) => c = d

Serving ==
  /\ \A h \in Servers : Served(h) => srv[h].token \in Token
  /\ \A h \in Servers : srv[h].from # Nobody =>
       Served(h) /\ call[srv[h].from].pc = "rsent" /\ call[srv[h].from].token = srv[h].token
  /\ \A g, h \in Servers : srv[g].from # Nobody /\ srv[g].from = srv[h].from => g = h

Issued(t) == t # NoToken => row[t.s].hash >= t.n
AllIssued ==
  /\ Issued(access) /\ Issued(secure) /\ Issued(legacy)
  /\ \A c \in Calls : Issued(call[c].token)
  /\ \A h \in Servers : Issued(srv[h].token)
  /\ \A t \in stale : Issued(t)

Always == Typed /\ Shapes /\ Locked /\ Serving /\ AllIssued

-----------------------------------------------------------------------------
(* What holds while nothing disturbs *)

Rotation(c) == ~Login(c) /\ call[c].pc \in Saving
SignIn(c) == Login(c) /\ call[c].pc \in Saving

\* What another call may be while a sign-in stores t: one sent with t, or an upload of a
\* disabled user.
Beside(r, t) ==
  \/ r = Idle
  \/ /\ r.op \in {"put", "api"} /\ ~r.retried
     /\ r.pc \in {"sent", "unauth", "join", "refresh", "rsent"}
     /\ r.pc # "sent" => disabled /\ r.op = "put"
     /\ r.pc = "sent" => r.token = t

StoresAlone(c, t) ==
  /\ \A h \in Servers : ~Served(h)
  /\ t \notin stale /\ Alive(t.s) /\ row[t.s].hash = t.n
  /\ call[c].pc = "save1" => access = NoToken /\ \A d \in Calls \ {c} : call[d] = Idle
  /\ call[c].pc = "save2" => access = t
  /\ \A d \in Calls \ {c} : Beside(call[d], t)
SignInAlone == \A c \in Calls : SignIn(c) => StoresAlone(c, call[c].token)

RotationsContinue ==
  /\ legacy = NoToken
  /\ \A h \in Servers : Served(h) =>
       srv[h].from # Nobody /\ srv[h].token = secure /\ ~row[secure.s].lapsed
  /\ \A c \in Calls : call[c].pc = "rsent" /\ ~disabled => call[c].token = secure
  /\ \A c \in Calls : Rotation(c) =>
       /\ secure # NoToken /\ call[c].token.s = secure.s
       /\ row[secure.s].hash = call[c].token.n /\ call[c].token \notin stale
       /\ call[c].pc = "save2" => access \in {call[c].token, NoToken}

Pair ==
  /\ access # NoToken /\ (\A c \in Calls : call[c].pc # "save2") => secure = access
  /\ secure # NoToken /\ Alive(secure.s) /\ (\A c \in Calls : ~Rotation(c)) =>
       row[secure.s].hash = secure.n

Screens ==
  /\ screen = "login" /\ access # NoToken => \E c \in Calls : Login(c) /\ call[c].pc = "save2"
  /\ screen = "login" /\ (\A c \in Calls : ~SignIn(c)) =>
       \A d \in Calls : /\ call[d].pc \notin Rotating
                        /\ call[d] # Idle /\ ~Login(d) => secure = NoToken
  /\ screen = "app" /\ access = NoToken => \E c \in Calls : call[c].pc = "clear2"

\* The session of the stored pair is over, or the user is signing out.
Gone == secure = NoToken \/ ~Alive(secure.s) \/ disabled
SigningOut == \E c \in Calls : call[c].op = "logout" /\ call[c].pc \in Clearing
Caused == Gone \/ SigningOut

CauseOf(r) ==
  /\ r.pc \in Clearing /\ r.op # "logout" => Caused
  /\ r.pc = "resend" => access \notin stale
  /\ r.pc = "sent" /\ r.retried =>
       IF r.token = NoToken THEN Caused
       ELSE r.token \notin stale /\ (secure = NoToken \/ r.token.s = secure.s)
Causes == \A c \in Calls : CauseOf(call[c])

Calm == SignInAlone /\ RotationsContinue /\ Pair /\ Screens /\ Causes

IInv == Always /\ (~disturbed => Calm)

LEMMA NoTokenIsNone == NoToken \notin Token
  BY SessionConstants DEF Token, SessionIds

LEMMA IdleIsCall == Idle \in Call /\ Idle.pc = "idle" /\ Idle.op = "idle" /\ Idle.token = NoToken
  BY DEF Idle, Call, TokenOrNone

LEMMA InitIInv == Init => IInv
<1> SUFFICES ASSUME Init PROVE IInv
  OBVIOUS
<1> DEFINE first == [s |-> 1, n |-> 1]
<1>1. first \in Token /\ first # NoToken /\ 1 \in SessionIds
  BY SessionConstants, NoTokenIsNone DEF Token, SessionIds
<1>2. row \in [SessionIds -> Row] /\ row[1] = [hash |-> 1, revoked |-> FALSE, lapsed |-> FALSE]
  BY <1>1 DEF Init, NoRow, Row
<1>a. call \in [Calls -> Call] /\ srv \in [Servers -> Request]
  BY IdleIsCall DEF Init, TokenOrNone, Request, NoRequest
<1>b. began \in 0..MaxCalls /\ incidents \in 0..MaxIncidents
  BY SessionConstants DEF Init
<1>3. Typed
  BY <1>1, <1>2, <1>a, <1>b DEF Init, Typed, TokenOrNone
<1>4. Shapes /\ Locked /\ Serving
  BY IdleIsCall DEF Init, Shapes, CallShape, Locked, Serving, Login, HasLock, Served, Rotating,
                    NoRequest
<1>5. AllIssued
  BY <1>1, <1>2, IdleIsCall DEF Init, AllIssued, Issued, NoRequest
<1>6. Alive(1) /\ row[1].hash = 1
  BY <1>2 DEF Alive
<1>7. SignInAlone /\ RotationsContinue
  BY IdleIsCall DEF Init, SignInAlone, RotationsContinue, SignIn, Login, Rotation, Saving, Served
<1>8. Pair /\ Screens /\ Causes
  BY <1>1, <1>6, IdleIsCall DEF Init, Pair, Screens, Causes, CauseOf, Clearing
<1> QED
  BY <1>3, <1>4, <1>5, <1>7, <1>8 DEF IInv, Always, Calm

\* The properties follow.
LEMMA IInvTypeOK == IInv => TypeOK
  BY DEF IInv, Always, Typed, Locked, Serving, TypeOK, Row, Call, Request, HasLock

LEMMA IInvPair == IInv => PairInStep
<1> SUFFICES ASSUME IInv, ~disturbed, access # NoToken, Alive(access.s),
                    \A c \in Calls : call[c].pc \notin {"save1", "save2", "clear2"}
             PROVE  secure = access /\ row[access.s].hash = access.n
  BY DEF PairInStep
<1> QED
  BY DEF IInv, Calm, Pair, Rotation, Saving

-----------------------------------------------------------------------------
(* A call moves outside the refresh and the clearing *)

Outside == {"idle", "sent", "unauth", "resend", "creds"}

\* What the new record of call c must satisfy.
Fits(c, new) ==
  /\ CallShape(new) /\ Issued(new.token)
  /\ new.op = "login" => screen = "login" /\ \A d \in Calls \ {c} : ~Login(d)
  /\ new.pc \in {"idle", "sent", "unauth", "join", "creds", "clear1"}
FitsCalm(c, new) ==
  /\ CauseOf(new)
  /\ \A d \in Calls \ {c} : SignIn(d) =>
       Beside(new, call[d].token) /\ (call[d].pc = "save1" => new = Idle)
  /\ screen = "login" /\ (\A d \in Calls : ~SignIn(d)) /\ new # Idle /\ new.op # "login" =>
       secure = NoToken

\* At most the revocation of a session goes with it, and none while a sign-in stores its pair.
RowsRevoked ==
  /\ row' \in [SessionIds -> Row]
  /\ \A s \in SessionIds : /\ row'[s].hash = row[s].hash /\ row'[s].lapsed = row[s].lapsed
                           /\ row[s].revoked => row'[s].revoked
RowsKeptForSignIn == ~disturbed /\ (\E c \in Calls : SignIn(c)) => row' = row

LEMMA TokenParts == \A t \in Token : t.s \in SessionIds /\ t.n \in Nat \ {0} /\ t # NoToken
  BY NoTokenIsNone DEF Token

LEMMA CallMoves ==
  ASSUME IInv, NEW c \in Calls, NEW new \in Call, call' = [call EXCEPT ![c] = new],
         RowsRevoked, RowsKeptForSignIn, call[c].pc \in Outside, Fits(c, new),
         ~disturbed => FitsCalm(c, new),
         UNCHANGED <<stale, disabled, access, secure, legacy, inFlight, srv, screen, disturbed>>,
         began' \in 0..MaxCalls, incidents' \in 0..MaxIncidents
  PROVE  IInv'
<1> USE DEF Outside, Rotating, Saving, Clearing
<1>0. /\ Typed /\ Shapes /\ Locked /\ Serving /\ AllIssued
      /\ ~disturbed => SignInAlone /\ RotationsContinue /\ Pair /\ Screens /\ Causes
  BY DEF IInv, Always, Calm
<1>1. Typed'
  BY <1>0 DEF Typed, RowsRevoked
<1>2. /\ call'[c] = new
      /\ \A d \in Calls \ {c} : call'[d] = call[d]
  BY <1>0 DEF Typed
<1>3. Shapes'
  <2>1. CallShape(new) /\ (new.op = "login" => screen = "login")
    BY DEF Fits
  <2>2. \A d \in Calls : CallShape(call'[d]) /\ (call'[d].op = "login" => screen = "login")
    BY <1>0, <1>2, <2>1 DEF Shapes, Login
  <2>3. \A r : CallShape(r)' = CallShape(r)
    BY DEF CallShape, Idle
  <2> QED
    BY <2>2, <2>3 DEF Shapes, Login, CallShape
<1>4. ~HasLock(c) /\ ~HasLock(c)'
  BY <1>0, <1>2 DEF HasLock, Login, Fits, CallShape
<1>5. Locked'
  <2>1. \A d \in Calls : HasLock(d)' = HasLock(d)
    BY <1>2, <1>4 DEF HasLock, Login
  <2>2. inFlight' \in Calls \cup {Nobody}
    BY <1>1 DEF Typed
  <2>3. \A d, e \in Calls : Login(d)' /\ Login(e)' => d = e
    BY <1>0, <1>2 DEF Locked, Login, Fits
  <2> QED
    BY <1>0, <2>1, <2>2, <2>3 DEF Locked
<1>6. Serving'
  BY <1>0, <1>2 DEF Serving, Served, Typed, Request
<1>7. \A t \in TokenOrNone : Issued(t) => Issued(t)'
  BY TokenParts DEF Issued, RowsRevoked, TokenOrNone
<1>8. AllIssued'
  <2>1. \A d \in Calls : Issued(call'[d].token) /\ call'[d].token \in TokenOrNone
    BY <1>0, <1>1, <1>2 DEF AllIssued, Fits, Typed, Call
  <2>2. \A h \in Servers : Issued(srv[h].token) /\ srv[h].token \in TokenOrNone
    BY <1>0 DEF AllIssued, Typed, Request
  <2>3. \A t \in stale : Issued(t) /\ t \in TokenOrNone
    BY <1>0 DEF AllIssued, Typed, TokenOrNone
  <2>4. \A t \in {access, secure, legacy} : Issued(t) /\ t \in TokenOrNone
    BY <1>0 DEF AllIssued, Typed
  <2> HIDE DEF Issued
  <2> QED
    BY <1>7, <2>1, <2>2, <2>3, <2>4 DEF AllIssued
<1> SUFFICES ASSUME ~disturbed PROVE Calm'
  BY <1>1, <1>3, <1>5, <1>6, <1>8 DEF IInv, Always
<1>9. /\ SignInAlone /\ RotationsContinue /\ Pair /\ Screens /\ Causes /\ FitsCalm(c, new)
      /\ \A d \in Calls : Rotation(d)' = (Rotation(d) /\ d # c)
      /\ \A d \in Calls : SignIn(d)' = (SignIn(d) /\ d # c)
      /\ ~SignIn(c) /\ ~Rotation(c)
  BY <1>0, <1>2 DEF Rotation, SignIn, Login, Fits, CallShape
<1>10. SignInAlone'
  <2> SUFFICES ASSUME NEW d \in Calls, SignIn(d)' PROVE StoresAlone(d, call[d].token)'
    BY DEF SignInAlone
  <2>1. SignIn(d) /\ d # c /\ call'[d] = call[d] /\ row' = row
    BY <1>9, <1>2 DEF RowsKeptForSignIn
  <2>2. Beside(new, call[d].token) /\ (call[d].pc = "save1" => new = Idle)
    BY <1>9, <2>1 DEF FitsCalm
  <2> QED
    <3>1. StoresAlone(d, call[d].token)
      BY <1>9, <2>1 DEF SignInAlone
    <3>2. \A e \in Calls \ {d} : Beside(call'[e], call[d].token)
      BY <1>2, <2>2, <3>1 DEF StoresAlone
    <3> QED
      BY <1>2, <2>1, <2>2, <3>1, <3>2 DEF StoresAlone, Beside, Alive, Served
<1>11. RotationsContinue'
  BY <1>0, <1>9, <1>2, TokenParts
     DEF RotationsContinue, RowsRevoked, Typed, TokenOrNone, Fits, Served, Serving
<1>12. \A s \in SessionIds : Alive(s)' => Alive(s)
  BY <1>0 DEF Alive, RowsRevoked, Typed, Row
<1>13. Pair'
  BY <1>0, <1>9, <1>2, <1>12, TokenParts DEF Pair, Typed, TokenOrNone, RowsRevoked, Fits
<1>14. Screens'
  <2>1. \A d \in Calls : d # c => call'[d] = call[d] /\ Login(d)' = Login(d)
    BY <1>2 DEF Login
  <2>2. new.pc \notin Rotating /\ (Login(c)' = (new.op = "login"))
    BY <1>2 DEF Fits, Login
  <2>3. (\A d \in Calls : ~SignIn(d)') => \A d \in Calls : ~SignIn(d)
    BY <1>9
  <2>4. call[c].pc \notin {"save2", "clear2"}
    OBVIOUS
  <2> QED
    BY <1>9, <1>2, <2>1, <2>2, <2>3, <2>4 DEF Screens, FitsCalm, Login
<1>15. Caused => Caused'
  <2>1. Gone => Gone'
    BY <1>0, <1>12, TokenParts DEF Gone, Typed, TokenOrNone
  <2>2. SigningOut => SigningOut'
    BY <1>2 DEF SigningOut
  <2> QED
    BY <2>1, <2>2 DEF Caused
<1>16. Causes'
  BY <1>9, <1>2, <1>15 DEF Causes, CauseOf, FitsCalm
<1> QED
  BY <1>10, <1>11, <1>13, <1>14, <1>16 DEF Calm

-----------------------------------------------------------------------------
(* A refresh that fails, for the call that ran it and for those that wait *)

LEMMA EndedIs ==
  ASSUME NEW r \in Call, NEW pc \in {"idle", "unauth", "clear1"}
  PROVE  /\ Ended(r, pc) \in Call /\ Ended(r, pc).pc = pc /\ Ended(r, pc).token = NoToken
         /\ pc = "idle" => Ended(r, pc) = Idle
         /\ pc # "idle" => Ended(r, pc).op = r.op /\ Ended(r, pc).retried = r.retried
<1>1. CASE pc = "idle"
  BY <1>1, IdleIsCall DEF Ended
<1>2. CASE pc # "idle"
  <2>1. Ended(r, pc) = [r EXCEPT !.pc = pc, !.token = NoToken]
    BY <1>2 DEF Ended
  <2> QED
    BY <2>1, <1>2 DEF Call, TokenOrNone
<1> QED
  BY <1>1, <1>2

\* Idle, or about to clear the tokens.
Failed(r, new, result) ==
  \/ new = Idle
  \/ /\ new.pc = "clear1" /\ new.op = r.op /\ r.op # "put" /\ new.token = NoToken
     /\ r.op = "logout" \/ result = "false"

LEMMA AfterFlightFails ==
  ASSUME NEW r \in Call, NEW result \in {"false", "thrown"}
  PROVE  AfterFlight(r, result) \in Call /\ Failed(r, AfterFlight(r, result), result)
<1>1. CASE result = "false" /\ r.op # "put"
  <2>1. AfterFlight(r, result) = Ended(r, "clear1")
    BY <1>1 DEF AfterFlight
  <2> QED
    BY <1>1, <2>1, EndedIs DEF Failed
<1>2. CASE ~(result = "false" /\ r.op # "put")
  <2>1. AfterFlight(r, result) = Ended(r, AfterCall(r.op))
    BY <1>2 DEF AfterFlight
  <2>2. CASE r.op = "logout"
    BY <2>1, <2>2, EndedIs DEF Failed, AfterCall
  <2>3. CASE r.op # "logout"
    BY <2>1, <2>3, EndedIs DEF Failed, AfterCall
  <2> QED
    BY <2>2, <2>3
<1> QED
  BY <1>1, <1>2

LEMMA FlightFails ==
  ASSUME IInv, NEW c \in Calls, NEW result \in {"false", "thrown"},
         call[c].pc \in {"refresh", "rsent"}, FlightEnds(c, result),
         srv' = [h \in Servers |->
                   IF srv[h].from = c THEN [srv[h] EXCEPT !.from = Nobody] ELSE srv[h]],
         disturbed' \in BOOLEAN,
         ~disturbed' => /\ ~disturbed /\ \A h \in Servers : srv[h].from # c
                        /\ result = "false" => Gone,
         UNCHANGED <<row, stale, disabled, access, secure, legacy, screen>>,
         began' \in 0..MaxCalls, incidents' \in 0..MaxIncidents
  PROVE  IInv'
<1> USE DEF Rotating, Saving, Clearing
<1>0. /\ Typed /\ Shapes /\ Locked /\ Serving /\ AllIssued
      /\ ~disturbed => SignInAlone /\ RotationsContinue /\ Pair /\ Screens /\ Causes
  BY DEF IInv, Always, Calm
<1> DEFINE Hit(d) == d = c \/ call[d].pc = "join"
<1>1. /\ inFlight' = Nobody
      /\ \A d \in Calls : /\ Hit(d) => call'[d] \in Call /\ Failed(call[d], call'[d], result)
                          /\ ~Hit(d) => call'[d] = call[d]
  BY <1>0, AfterFlightFails DEF FlightEnds, Released, Typed
<1>2. \A d \in Calls : Hit(d) => ~Login(d) /\ call[d] # Idle /\ call[d].pc \in {"join", "refresh", "rsent"}
  BY <1>0 DEF Shapes, CallShape, Login
<1> HIDE DEF Hit
<1>3. \A h \in Servers : srv'[h].token = srv[h].token /\ srv'[h] \in Request
                         /\ srv'[h].from \in {Nobody, srv[h].from} /\ srv'[h].from # c
                         /\ (srv[h].from # c => srv'[h] = srv[h])
  BY <1>0, SessionConstants DEF Typed, Request
<1>4. Typed'
  <2>1. call' \in [Calls -> Call]
    BY <1>0, <1>1 DEF FlightEnds, Typed
  <2> QED
    BY <1>0, <1>1, <1>3, <2>1 DEF Typed
<1>5. \A d \in Calls : Login(d)' = Login(d)
  BY <1>1, <1>2, IdleIsCall DEF Login, Failed
<1>6. Shapes'
  BY <1>0, <1>1, <1>2, <1>5, IdleIsCall DEF Shapes, CallShape, Failed, Login
<1>7. \A d \in Calls : ~HasLock(d)'
  <2>1. HasLock(c)
    BY <1>0 DEF HasLock, Shapes, CallShape, Login
  <2>2. \A d \in Calls : d # c => ~HasLock(d)
    BY <1>0, <2>1 DEF Locked
  <2>3. Hit(c)
    BY DEF Hit
  <2> QED
    BY <1>1, <1>5, <2>2, <2>3, IdleIsCall DEF HasLock, Failed
<1>8. Locked'
  BY <1>0, <1>1, <1>5, <1>7 DEF Locked
<1>9. \A h \in Servers : srv[h].from # Nobody => srv[h].from = c
  <2> SUFFICES ASSUME NEW h \in Servers, srv[h].from # Nobody PROVE srv[h].from = c
    OBVIOUS
  <2>1. srv[h].from \in Calls /\ call[srv[h].from].pc = "rsent"
    BY <1>0 DEF Typed, Request, Serving
  <2>2. HasLock(srv[h].from) /\ HasLock(c)
    BY <1>0, <2>1 DEF HasLock, Shapes, CallShape, Login
  <2> QED
    BY <1>0, <2>1, <2>2 DEF Locked
<1>10. \A h \in Servers : srv'[h].from = Nobody
  BY <1>3, <1>9
<1>11. Serving'
  BY <1>0, <1>3, <1>10, NoTokenIsNone DEF Serving, Served, NoRequest
<1>12. AllIssued'
  BY <1>0, <1>1, <1>3, IdleIsCall DEF AllIssued, Issued, Failed
<1> SUFFICES ASSUME ~disturbed' PROVE Calm'
  BY <1>4, <1>6, <1>8, <1>11, <1>12 DEF IInv, Always
<1>13. SignInAlone /\ RotationsContinue /\ Pair /\ Screens /\ Causes /\ srv' = srv
  <2>1. \A h \in Servers : srv'[h] = srv[h]
    BY <1>3
  <2> QED
    BY <1>0, <1>4, <2>1 DEF Typed
<1>14. \A h \in Servers : ~Served(h)
  BY <1>10, <1>13 DEF RotationsContinue
<1>15. /\ \A d \in Calls : ~Rotation(d) /\ ~Rotation(d)'
       /\ \A d \in Calls : SignIn(d)' = SignIn(d)
       /\ \A d \in Calls : SignIn(d) => ~Hit(d) /\ call'[d] = call[d]
  <2>1. \A d \in Calls : Rotation(d) => HasLock(d) /\ d # c
    BY DEF Rotation, HasLock
  <2>2. HasLock(c)
    BY <1>0 DEF HasLock, Shapes, CallShape, Login
  <2>3. \A d \in Calls : ~Rotation(d)
    BY <1>0, <2>1, <2>2 DEF Locked
  <2>4. \A d \in Calls : ~Rotation(d)'
    BY <1>7 DEF Rotation, HasLock
  <2> QED
    BY <1>1, <1>2, <1>5, <2>3, <2>4 DEF SignIn, Login
<1>16. SignInAlone'
  <2> SUFFICES ASSUME NEW d \in Calls, SignIn(d)' PROVE StoresAlone(d, call[d].token)'
    BY DEF SignInAlone
  <2>1. SignIn(d) /\ d # c /\ call'[d] = call[d] /\ StoresAlone(d, call[d].token)
    BY <1>13, <1>15 DEF SignInAlone, Hit
  <2>2. \A e \in Calls \ {d} : Beside(call'[e], call[d].token)
    <3> SUFFICES ASSUME NEW e \in Calls \ {d} PROVE Beside(call'[e], call[d].token)
      OBVIOUS
    <3>1. Beside(call[e], call[d].token)
      BY <2>1 DEF StoresAlone
    <3>2. CASE Hit(e)
      <4>1. call[e].op = "put"
        BY <3>1, <3>2, <1>2 DEF Beside
      <4> QED
        BY <4>1, <3>2, <1>1 DEF Failed, Beside
    <3>3. CASE ~Hit(e)
      BY <3>1, <3>3, <1>1
    <3> QED
      BY <3>2, <3>3
  <2>3. call[d].pc # "save1"
    BY <2>1, <1>2 DEF StoresAlone, Hit
  <2> QED
    BY <2>1, <2>2, <2>3, <1>14, <1>13 DEF StoresAlone, Beside, Alive, Served
<1>17. RotationsContinue'
  BY <1>13, <1>7, <1>15, <1>14, <1>5, <1>6, <1>4 DEF RotationsContinue, Served, HasLock, Shapes, CallShape, Login
<1>18. Pair'
  <2>1. (\A d \in Calls : call'[d].pc # "save2") => \A d \in Calls : call[d].pc # "save2"
    BY <1>1, <1>2
  <2> QED
    BY <1>13, <1>15, <2>1 DEF Pair, Alive
<1>19. Screens'
  <2>1. \A d \in Calls : call[d].pc \in {"save2", "clear2"} => call'[d] = call[d]
    BY <1>1, <1>2
  <2>2. \A d \in Calls : call'[d].pc \in Rotating => call'[d] = call[d]
    BY <1>1, IdleIsCall DEF Failed
  <2>3. \A d \in Calls : call'[d] # Idle => call[d] # Idle
    BY <1>1, <1>2
  <2>4. /\ screen = "login" /\ access # NoToken => \E d \in Calls : Login(d)' /\ call'[d].pc = "save2"
        /\ screen = "app" /\ access = NoToken => \E d \in Calls : call'[d].pc = "clear2"
    BY <1>13, <1>5, <2>1 DEF Screens
  <2>5. screen = "login" /\ (\A d \in Calls : ~SignIn(d)') =>
          \A d \in Calls : call'[d].pc \notin Rotating /\ (call'[d] # Idle /\ ~Login(d)' => secure = NoToken)
    BY <1>13, <1>15, <1>5, <2>2, <2>3 DEF Screens
  <2> QED
    BY <2>4, <2>5 DEF Screens
<1>20. Caused => Caused'
  <2>1. \A d \in Calls : call[d].pc \in Clearing => call'[d] = call[d]
    BY <1>1, <1>2
  <2> QED
    BY <2>1 DEF Caused, Gone, SigningOut, Alive
<1>21. Causes'
  <2> SUFFICES ASSUME NEW d \in Calls PROVE CauseOf(call[d])'
    BY DEF Causes
  <2>1. CASE Hit(d)
    <3>1. call'[d].op # "logout" /\ call'[d].pc = "clear1" => Caused'
      <4>1. call'[d].op # "logout" /\ call'[d].pc = "clear1" => result = "false"
        BY <1>1, <2>1, IdleIsCall DEF Failed
      <4> QED
        BY <4>1, <1>20 DEF Caused
    <3> QED
      BY <1>1, <2>1, <3>1, IdleIsCall DEF CauseOf, Failed
  <2>2. CASE ~Hit(d)
    BY <1>1, <1>13, <1>20, <2>2 DEF Causes, CauseOf
  <2> QED
    BY <2>1, <2>2
<1> QED
  BY <1>16, <1>17, <1>18, <1>19, <1>21 DEF Calm

-----------------------------------------------------------------------------
(* The calls *)

LEMMA RowsSame == Typed /\ row' = row => RowsRevoked /\ RowsKeptForSignIn
  BY DEF Typed, RowsRevoked, RowsKeptForSignIn

LEMMA OneRevoked ==
  ASSUME Typed, NEW s \in SessionIds, row' = [row EXCEPT ![s].revoked = TRUE]
  PROVE  RowsRevoked
  BY DEF Typed, RowsRevoked, Row

\* A call that is at neither end of the bounds keeps them.
LEMMA Bounds ==
  ASSUME Typed
  PROVE  /\ UNCHANGED began => began' \in 0..MaxCalls
         /\ began < MaxCalls /\ began' = began + 1 => began' \in 0..MaxCalls
         /\ UNCHANGED incidents => incidents' \in 0..MaxIncidents
         /\ Incident => incidents' \in 0..MaxIncidents
  BY SessionConstants DEF Typed, Incident

LEMMA CallBeginsKeeps ==
  ASSUME IInv, NEW c \in Calls, NEW op \in {"api", "put", "logout"}, CallBegins(c, op)
  PROVE  IInv'
<1> DEFINE new == [Idle EXCEPT !.op = op, !.pc = "sent", !.token = access]
<1>0. Typed /\ Shapes /\ AllIssued /\ (~disturbed => SignInAlone /\ Screens)
  BY DEF IInv, Always, Calm
<1>1. /\ new \in Call /\ new.op = op /\ new.pc = "sent" /\ new.token = access /\ ~new.retried
      /\ new # Idle
  BY <1>0 DEF Typed, Idle, Call
<1>2. call' = [call EXCEPT ![c] = new]
  BY DEF CallBegins
<1> HIDE DEF new
<1>3. Fits(c, new)
  BY <1>0, <1>1 DEF Fits, CallShape, Rotating, Clearing, AllIssued
<1>4. ASSUME ~disturbed PROVE FitsCalm(c, new)
  <2>1. CauseOf(new)
    BY <1>1 DEF CauseOf, Clearing
  <2>2. ASSUME NEW d \in Calls \ {c}, SignIn(d)
        PROVE  Beside(new, call[d].token) /\ call[d].pc # "save1"
    <3>1. screen = "login" /\ StoresAlone(d, call[d].token)
      BY <1>0, <1>4, <2>2 DEF Shapes, SignIn, SignInAlone
    <3>2. op # "logout" /\ access # NoToken
      BY <3>1 DEF CallBegins
    <3>3. call[d].pc = "save2"
      BY <2>2, <3>1, <3>2 DEF SignIn, Saving, StoresAlone
    <3> QED
      BY <1>1, <3>1, <3>2, <3>3 DEF StoresAlone, Beside
  <2>3. screen = "login" => \E d \in Calls : SignIn(d)
    BY <1>0, <1>4 DEF CallBegins, Screens, SignIn, Saving
  <2> QED
    BY <2>1, <2>2, <2>3 DEF FitsCalm
<1>5. call[c].pc \in Outside
  BY IdleIsCall DEF CallBegins, Outside
<1>6. /\ UNCHANGED <<stale, disabled, access, secure, legacy, inFlight, srv, screen, disturbed>>
      /\ began' \in 0..MaxCalls /\ incidents' \in 0..MaxIncidents /\ row' = row
  BY <1>0, Bounds DEF CallBegins
<1> QED
  BY <1>0, <1>1, <1>2, <1>3, <1>4, <1>5, <1>6, RowsSame, CallMoves

LEMMA BearerIs ==
  ASSUME Typed, NEW t \in TokenOrNone
  PROVE  /\ Bearer(t) \in {200, 401, 403}
         /\ Bearer(t) = 401 <=> t = NoToken \/ t \in stale \/ ~Alive(t.s)
         /\ Bearer(t) = 403 => disabled
  BY DEF Bearer, TokenOrNone

\* What an answer, or its loss, makes of a call that was sent.
LEMMA SentKeeps ==
  ASSUME IInv, NEW c \in Calls, NEW pc \in {"idle", "unauth", "clear1"},
         call[c].pc = "sent", call' = [call EXCEPT ![c] = Ended(call[c], pc)],
         call[c].op = "put" => pc # "clear1",
         pc = "clear1" /\ call[c].op # "logout" =>
           call[c].retried /\ Bearer(call[c].token) = 401,
         pc = "unauth" => ~call[c].retried /\
           (Bearer(call[c].token) = 401 \/ (Bearer(call[c].token) = 403 /\ call[c].op = "put")),
         \/ row' = row
         \/ /\ call[c].op = "logout" /\ Bearer(call[c].token) = 200
            /\ row' = [row EXCEPT ![call[c].token.s].revoked = TRUE],
         UNCHANGED <<stale, disabled, access, secure, legacy, inFlight, srv, screen, began, disturbed>>,
         incidents' \in 0..MaxIncidents
  PROVE  IInv'
<1> DEFINE r == call[c]
           new == Ended(r, pc)
<1>0. /\ Typed /\ Shapes /\ AllIssued
      /\ ~disturbed => SignInAlone /\ RotationsContinue /\ Pair /\ Screens /\ Causes
  BY DEF IInv, Always, Calm
<1>1. r \in Call /\ r.token \in TokenOrNone /\ r # Idle /\ r.op \in {"api", "put", "logout"} /\ ~Login(c)
  BY <1>0, IdleIsCall DEF Typed, Call, Shapes, CallShape, Login
<1>2. /\ new \in Call /\ new.pc = pc /\ new.token = NoToken
      /\ pc = "idle" => new = Idle
      /\ pc # "idle" => new.op = r.op /\ new.retried = r.retried
  BY <1>1, EndedIs
<1>3. RowsRevoked
  <2>1. CASE row' = row
    BY <1>0, <2>1, RowsSame
  <2>2. CASE Bearer(r.token) = 200 /\ row' = [row EXCEPT ![r.token.s].revoked = TRUE]
    <3>1. r.token \in Token
      BY <1>0, <1>1, <2>2, BearerIs DEF TokenOrNone
    <3> QED
      BY <1>0, <2>2, <3>1, TokenParts, OneRevoked
  <2> QED
    BY <2>1, <2>2
<1>4. ASSUME ~disturbed, NEW d \in Calls, SignIn(d)
      PROVE  d # c /\ row' = row /\ Beside(new, call[d].token) /\ call[d].pc # "save1"
  <2>1. d # c /\ StoresAlone(d, call[d].token)
    BY <1>0, <1>1, <1>4 DEF SignInAlone, SignIn
  <2>2. Beside(r, call[d].token) /\ call[d].pc # "save1"
    BY <1>1, <2>1 DEF StoresAlone
  <2>3. r.op \in {"put", "api"} /\ ~r.retried /\ r.token = call[d].token
    BY <1>1, <2>2 DEF Beside
  <2>4. r.token \in Token
    BY <1>0, <1>4, <2>3, <1>1 DEF SignIn, Shapes, CallShape, Rotating, Saving
  <2>5. Bearer(r.token) # 401
    BY <1>0, <1>1, <2>1, <2>3, <2>4, BearerIs, TokenParts DEF StoresAlone
  <2>6. pc = "unauth" => disabled /\ r.op = "put"
    BY <1>0, <1>1, <2>5, BearerIs
  <2>7. pc # "clear1"
    BY <2>3
  <2> QED
    BY <1>2, <2>1, <2>2, <2>3, <2>6, <2>7 DEF Beside
<1>5. ASSUME ~disturbed, pc = "clear1", r.op # "logout" PROVE Caused
  <2>1. Bearer(r.token) = 401 /\ CauseOf(r) /\ r.retried
    BY <1>0, <1>5 DEF Causes
  <2>2. r.token = NoToken \/ r.token \in stale \/ ~Alive(r.token.s)
    BY <1>0, <1>1, <2>1, BearerIs
  <2> QED
    BY <2>1, <2>2 DEF CauseOf, Caused, Gone
<1>6. Fits(c, new)
  BY <1>1, <1>2, IdleIsCall DEF Fits, CallShape, Rotating, Clearing, Issued
<1>7. ASSUME ~disturbed PROVE FitsCalm(c, new)
  <2>1. CauseOf(new)
    BY <1>2, <1>5, <1>7, IdleIsCall DEF CauseOf, Clearing
  <2>2. screen = "login" /\ (\A d \in Calls : ~SignIn(d)) => secure = NoToken
    BY <1>0, <1>1, <1>7 DEF Screens
  <2> QED
    BY <1>4, <1>7, <2>1, <2>2 DEF FitsCalm
<1>8. call[c].pc \in Outside /\ began' \in 0..MaxCalls
  BY <1>0, Bounds DEF Outside
<1>9. RowsKeptForSignIn
  BY <1>4 DEF RowsKeptForSignIn
<1>10. call' = [call EXCEPT ![c] = new]
  OBVIOUS
<1> HIDE DEF new
<1> QED
  BY <1>2, <1>3, <1>6, <1>7, <1>8, <1>9, <1>10, CallMoves

LEMMA AfterAnswerIs ==
  ASSUME NEW r \in Call, NEW status \in {200, 401, 403}
  PROVE  \/ /\ AfterAnswer(r, status) = "unauth" /\ ~r.retried
            /\ status = 401 \/ (status = 403 /\ r.op = "put")
         \/ /\ AfterAnswer(r, status) = "clear1" /\ r.op # "put"
            /\ r.op = "logout" \/ (status = 401 /\ r.retried)
         \/ AfterAnswer(r, status) = "idle"
<1>0. r.retried \in BOOLEAN
  BY DEF Call
<1>1. AfterCall(r.op) = IF r.op = "logout" THEN "clear1" ELSE "idle"
  BY DEF AfterCall
<1>2. CASE status = 401
  BY <1>0, <1>1, <1>2 DEF AfterAnswer
<1>3. CASE status = 403
  BY <1>0, <1>1, <1>3 DEF AfterAnswer
<1>4. CASE status = 200
  BY <1>0, <1>1, <1>4 DEF AfterAnswer
<1> QED
  BY <1>2, <1>3, <1>4

LEMMA AnsweredKeeps ==
  ASSUME IInv, NEW c \in Calls, Answered(c)
  PROVE  IInv'
<1> DEFINE r == call[c]
           status == Bearer(r.token)
           pc == AfterAnswer(r, status)
<1>0. Typed /\ r \in Call /\ r.pc = "sent" /\ call' = [call EXCEPT ![c] = Ended(r, pc)]
  BY DEF IInv, Always, Typed, Answered
<1>1. status \in {200, 401, 403} /\ status = Bearer(call[c].token)
  BY <1>0, BearerIs DEF Call
<1>2. \/ row' = row
      \/ call[c].op = "logout" /\ status = 200 /\ row' = [row EXCEPT ![call[c].token.s].revoked = TRUE]
  BY DEF Answered
<1>3. /\ UNCHANGED <<stale, disabled, access, secure, legacy, inFlight, srv, screen, began, disturbed>>
      /\ incidents' \in 0..MaxIncidents
  BY <1>0, Bounds DEF Answered
<1>4. \/ pc = "unauth" /\ ~r.retried /\ (status = 401 \/ (status = 403 /\ r.op = "put"))
      \/ pc = "clear1" /\ r.op # "put" /\ (r.op = "logout" \/ (status = 401 /\ r.retried))
      \/ pc = "idle"
  BY <1>0, <1>1, AfterAnswerIs
<1> HIDE DEF status, pc
<1>5. CASE pc = "unauth"
  BY <1>0, <1>1, <1>2, <1>3, <1>4, <1>5, SentKeeps
<1>6. CASE pc = "clear1"
  BY <1>0, <1>1, <1>2, <1>3, <1>4, <1>6, SentKeeps
<1>7. CASE pc = "idle"
  BY <1>0, <1>1, <1>2, <1>3, <1>7, SentKeeps
<1> QED
  BY <1>4, <1>5, <1>6, <1>7

LEMMA CallLostKeeps ==
  ASSUME IInv, NEW c \in Calls, CallLost(c)
  PROVE  IInv'
<1> DEFINE pc == AfterCall(call[c].op)
<1>0. Typed
  BY DEF IInv, Always
<1>1. pc = IF call[c].op = "logout" THEN "clear1" ELSE "idle"
  BY DEF AfterCall
<1> QED
  BY <1>0, <1>1, SentKeeps, Bounds DEF CallLost

\* The screen or an upload tries again with whatever pair is stored by now.
LEMMA ResendKeeps ==
  ASSUME IInv, NEW c \in Calls, Resend(c)
  PROVE  IInv'
<1> DEFINE r == call[c]
           new == IF r.op = "put" /\ access = NoToken THEN Idle
                  ELSE [r EXCEPT !.pc = "sent", !.retried = TRUE, !.token = access]
<1>0. /\ Typed /\ Shapes /\ AllIssued
      /\ ~disturbed => SignInAlone /\ RotationsContinue /\ Pair /\ Screens /\ Causes
  BY DEF IInv, Always, Calm
<1>1. r \in Call /\ r.pc = "resend" /\ r # Idle /\ r.op \in {"api", "put", "logout"} /\ ~Login(c)
  BY <1>0, IdleIsCall DEF Typed, Call, Shapes, CallShape, Login, Resend
<1>2. /\ new \in Call
      /\ \/ new = Idle
         \/ new # Idle /\ new.pc = "sent" /\ new.op = r.op /\ new.retried /\ new.token = access
  <2>1. CASE r.op = "put" /\ access = NoToken
    BY <2>1, IdleIsCall
  <2>2. CASE ~(r.op = "put" /\ access = NoToken)
    <3>1. new = [r EXCEPT !.pc = "sent", !.retried = TRUE, !.token = access]
      BY <2>2
    <3> QED
      BY <1>0, <1>1, <3>1, IdleIsCall DEF Call, Typed
  <2> QED
    BY <2>1, <2>2
<1>3. call' = [call EXCEPT ![c] = new]
  BY DEF Resend
<1> HIDE DEF new
<1>4. Fits(c, new)
  BY <1>0, <1>1, <1>2, IdleIsCall DEF Fits, CallShape, Rotating, Clearing, AllIssued, Issued
<1>5. ASSUME ~disturbed PROVE FitsCalm(c, new)
  <2>1. \A d \in Calls : ~SignIn(d)
    <3> SUFFICES ASSUME NEW d \in Calls, SignIn(d) PROVE FALSE
      OBVIOUS
    <3>1. d # c /\ StoresAlone(d, call[d].token)
      BY <1>0, <1>1, <1>5 DEF SignIn, SignInAlone
    <3> QED
      BY <1>1, <3>1 DEF StoresAlone, Beside
  <2>2. screen = "login" => secure = NoToken
    BY <1>0, <1>1, <1>5, <2>1 DEF Screens
  <2>3. access = NoToken => Caused
    <3> SUFFICES ASSUME access = NoToken, screen = "app" PROVE Caused
      BY <1>0, <2>2 DEF Caused, Gone, Typed
    <3>1. PICK d \in Calls : call[d].pc = "clear2"
      BY <1>0, <1>5 DEF Screens
    <3>2. CauseOf(call[d])
      BY <1>0, <1>5 DEF Causes
    <3> QED
      BY <3>1, <3>2 DEF CauseOf, Caused, SigningOut, Clearing
  <2>4. access # NoToken => access \notin stale /\ (secure = NoToken \/ access.s = secure.s)
    <3> SUFFICES ASSUME access # NoToken PROVE access \notin stale /\ (secure = NoToken \/ access.s = secure.s)
      OBVIOUS
    <3>1. access \notin stale
      BY <1>0, <1>1, <1>5 DEF Causes, CauseOf
    <3>2. CASE \A d \in Calls : call[d].pc # "save2"
      BY <1>0, <1>5, <3>1, <3>2 DEF Pair
    <3>3. CASE \E d \in Calls : call[d].pc = "save2"
      <4>1. PICK d \in Calls : call[d].pc = "save2"
        BY <3>3
      <4>2. Rotation(d)
        BY <2>1, <4>1 DEF Rotation, SignIn, Saving
      <4> QED
        BY <1>0, <1>5, <3>1, <4>1, <4>2 DEF RotationsContinue
    <3> QED
      BY <3>2, <3>3
  <2>5. CauseOf(new)
    BY <1>2, <2>3, <2>4, IdleIsCall DEF CauseOf, Clearing
  <2> QED
    BY <2>1, <2>2, <2>5 DEF FitsCalm
<1>6. call[c].pc \in Outside
  BY <1>1 DEF Outside
<1>7. /\ UNCHANGED <<stale, disabled, access, secure, legacy, inFlight, srv, screen, disturbed>>
      /\ began' \in 0..MaxCalls /\ incidents' \in 0..MaxIncidents /\ row' = row
  BY <1>0, Bounds DEF Resend
<1> QED
  BY <1>0, <1>2, <1>3, <1>4, <1>5, <1>6, <1>7, RowsSame, CallMoves

-----------------------------------------------------------------------------
(* The refresh *)

\* What a sign-in under way says of another call.
LEMMA BesideSignIn ==
  ASSUME SignInAlone, NEW c \in Calls, NEW d \in Calls, SignIn(d), c # d, call[c] # Idle
  PROVE  /\ Beside(call[c], call[d].token) /\ call[d].pc = "save2"
         /\ call[c].pc # "sent" => disabled /\ call[c].op = "put"
<1>1. StoresAlone(d, call[d].token)
  BY DEF SignInAlone
<1> QED
  BY <1>1 DEF StoresAlone, Beside, SignIn, Saving

LEMMA JoinKeeps ==
  ASSUME IInv, NEW c \in Calls, Unauthorized(c), ~LockFree
  PROVE  IInv'
<1> DEFINE r == call[c]
           new == [r EXCEPT !.pc = "join"]
<1>0. /\ Typed /\ Shapes /\ AllIssued
      /\ ~disturbed => SignInAlone /\ Screens
  BY DEF IInv, Always, Calm
<1>1. r \in Call /\ r.pc = "unauth" /\ r # Idle /\ ~Login(c) /\ r.op # "idle" /\ CallShape(r)
  BY <1>0, IdleIsCall DEF Typed, Shapes, CallShape, Login, Unauthorized
<1>2. /\ new \in Call /\ new.pc = "join" /\ new.op = r.op /\ new.retried = r.retried
      /\ new.token = r.token
  BY <1>1 DEF Call
<1>3. call' = [call EXCEPT ![c] = new] /\ inFlight' = inFlight
  BY <1>0 DEF Unauthorized, Goes, Typed
<1> HIDE DEF new
<1>4. Fits(c, new)
  BY <1>0, <1>1, <1>2, IdleIsCall DEF Fits, CallShape, Rotating, Clearing, AllIssued, Login
<1>5. ASSUME ~disturbed PROVE FitsCalm(c, new)
  <2>1. CauseOf(new)
    BY <1>2 DEF CauseOf, Clearing
  <2>2. \A d \in Calls \ {c} : SignIn(d) => Beside(new, call[d].token) /\ call[d].pc # "save1"
    BY <1>0, <1>1, <1>2, <1>5, BesideSignIn DEF Beside
  <2>3. screen = "login" /\ (\A d \in Calls : ~SignIn(d)) => secure = NoToken
    BY <1>0, <1>1, <1>5 DEF Screens
  <2> QED
    BY <2>1, <2>2, <2>3 DEF FitsCalm
<1>6. /\ UNCHANGED <<stale, disabled, access, secure, legacy, inFlight, srv, screen, disturbed>>
      /\ began' \in 0..MaxCalls /\ incidents' \in 0..MaxIncidents /\ row' = row
      /\ call[c].pc \in Outside
  BY <1>0, <1>1, <1>3, Bounds DEF Unauthorized, Outside
<1> QED
  BY <1>0, <1>2, <1>3, <1>4, <1>5, <1>6, RowsSame, CallMoves

\* The call that holds the lock, or takes it, goes on to present the refresh token.
LEMMA LockMoves ==
  ASSUME IInv, NEW c \in Calls, NEW new \in Call,
         call' = [call EXCEPT ![c] = new], inFlight' = c,
         (call[c].pc = "unauth" /\ inFlight = Nobody) \/ call[c].pc = "refresh",
         new.op = call[c].op, new.retried = call[c].retried, new.pc \in {"refresh", "rsent"},
         new.pc = "rsent" => new.token \in Token, Issued(new.token),
         secure' \in TokenOrNone, legacy' \in TokenOrNone, Issued(secure)', Issued(legacy)',
         disturbed' \in BOOLEAN,
         ~disturbed' => /\ ~disturbed /\ UNCHANGED <<secure, legacy>>
                        /\ new.pc = "rsent" => new.token = secure,
         UNCHANGED <<row, stale, disabled, access, srv, screen>>,
         began' \in 0..MaxCalls, incidents' \in 0..MaxIncidents
  PROVE  IInv'
<1> USE DEF Rotating, Saving, Clearing
<1>0. /\ Typed /\ Shapes /\ Locked /\ Serving /\ AllIssued
      /\ ~disturbed => SignInAlone /\ RotationsContinue /\ Pair /\ Screens /\ Causes
  BY DEF IInv, Always, Calm
<1>1. Typed'
  BY <1>0 DEF Typed
<1>2. /\ call'[c] = new
      /\ \A d \in Calls \ {c} : call'[d] = call[d]
  BY <1>0 DEF Typed
<1>3. /\ ~Login(c) /\ ~Login(c)' /\ call[c] # Idle /\ call[c].op # "idle"
      /\ \A d \in Calls : Login(d)' = Login(d)
  BY <1>0, <1>2, IdleIsCall DEF Shapes, CallShape, Login
<1>4. Shapes'
  BY <1>0, <1>2, <1>3, IdleIsCall DEF Shapes, CallShape, Login
<1>5. \A d \in Calls \ {c} : ~HasLock(d)
  BY <1>0, <1>3, SessionConstants DEF Locked, HasLock
<1>6. HasLock(c)' /\ \A d \in Calls \ {c} : ~HasLock(d)'
  BY <1>2, <1>3, <1>5 DEF HasLock, Login
<1>7. Locked'
  BY <1>0, <1>3, <1>6 DEF Locked
<1>8. Serving'
  BY <1>0, <1>2 DEF Serving, Served, Typed, Request
<1>9. AllIssued'
  BY <1>0, <1>2 DEF AllIssued, Issued
<1> SUFFICES ASSUME ~disturbed' PROVE Calm'
  BY <1>1, <1>4, <1>7, <1>8, <1>9 DEF IInv, Always
<1>10. /\ SignInAlone /\ RotationsContinue /\ Pair /\ Screens /\ Causes /\ UNCHANGED <<secure, legacy>>
       /\ \A d \in Calls : ~Rotation(d) /\ ~Rotation(d)'
       /\ \A d \in Calls : SignIn(d)' = SignIn(d)
  BY <1>0, <1>2, <1>3, <1>5, <1>6 DEF Rotation, SignIn, Login, HasLock
<1>11. SignInAlone'
  <2> SUFFICES ASSUME NEW d \in Calls, SignIn(d)' PROVE StoresAlone(d, call[d].token)'
    BY DEF SignInAlone
  <2>1. SignIn(d) /\ d # c /\ call'[d] = call[d] /\ StoresAlone(d, call[d].token)
    BY <1>2, <1>3, <1>10 DEF SignInAlone, SignIn
  <2>2. Beside(call[c], call[d].token) /\ call[d].pc = "save2" /\ disabled /\ call[c].op = "put"
    BY <1>3, <1>10, <2>1, BesideSignIn
  <2>3. Beside(new, call[d].token)
    BY <1>3, <2>2 DEF Beside
  <2>4. \A e \in Calls \ {d} : Beside(call'[e], call[d].token)
    BY <1>2, <2>1, <2>3 DEF StoresAlone
  <2> QED
    BY <2>1, <2>2, <2>4 DEF StoresAlone, Beside, Alive, Served
<1>12. RotationsContinue'
  BY <1>2, <1>10 DEF RotationsContinue, Served
<1>13. Pair'
  BY <1>2, <1>10 DEF Pair, Alive
<1>14. Screens'
  <2>1. screen = "login" /\ (\A d \in Calls : ~SignIn(d)) => new.pc # "rsent" /\ secure = NoToken
    BY <1>3, <1>10, NoTokenIsNone DEF Screens
  <2> QED
    BY <1>2, <1>3, <1>10, <2>1 DEF Screens
<1>15. Caused => Caused'
  BY <1>2, <1>10 DEF Caused, Gone, SigningOut, Alive
<1>16. Causes'
  BY <1>2, <1>10, <1>15 DEF Causes, CauseOf
<1> QED
  BY <1>11, <1>12, <1>13, <1>14, <1>16 DEF Calm

LEMMA TakesLock ==
  ASSUME IInv, NEW c \in Calls, Unauthorized(c), LockFree
  PROVE  IInv'
<1> DEFINE new == [call[c] EXCEPT !.pc = "refresh"]
<1>0. Typed /\ AllIssued /\ call[c] \in Call
  BY DEF IInv, Always, Typed
<1>1. /\ new \in Call /\ new.pc = "refresh" /\ new.op = call[c].op
      /\ new.retried = call[c].retried /\ new.token = call[c].token
  BY <1>0 DEF Call
<1>2. call' = [call EXCEPT ![c] = new] /\ inFlight' = c /\ inFlight = Nobody
  BY <1>0 DEF Unauthorized, Goes, Typed, LockFree
<1> HIDE DEF new
<1>3. /\ UNCHANGED <<row, stale, disabled, access, secure, legacy, srv, screen, disturbed>>
      /\ began' \in 0..MaxCalls /\ incidents' \in 0..MaxIncidents /\ call[c].pc = "unauth"
  BY <1>0, Bounds DEF Unauthorized
<1>4. /\ secure' \in TokenOrNone /\ legacy' \in TokenOrNone /\ Issued(secure)' /\ Issued(legacy)'
      /\ Issued(new.token) /\ disturbed' \in BOOLEAN
  BY <1>0, <1>1, <1>3 DEF Typed, AllIssued, Issued
<1> QED
  BY <1>1, <1>2, <1>3, <1>4, LockMoves

LEMMA NotServed ==
  ASSUME IInv, NEW c \in Calls, call[c].pc # "rsent"
  PROVE  /\ \A h \in Servers : srv[h].from # c
         /\ srv = [h \in Servers |->
                     IF srv[h].from = c THEN [srv[h] EXCEPT !.from = Nobody] ELSE srv[h]]
<1>1. Typed /\ Serving
  BY DEF IInv, Always
<1>2. \A h \in Servers : srv[h].from # c
  BY <1>1, SessionConstants DEF Serving
<1> QED
  BY <1>1, <1>2 DEF Typed

\* The holder of the lock, and that no other call refreshes or stores a rotated pair.
LEMMA HolderAlone ==
  ASSUME IInv, NEW c \in Calls, call[c].pc \in {"refresh", "rsent"}
  PROVE  /\ HasLock(c) /\ inFlight = c /\ ~Login(c) /\ call[c] # Idle
         /\ \A d \in Calls \ {c} : ~HasLock(d) /\ ~Rotation(d)
         /\ ~Rotation(c)
<1>1. Shapes /\ Locked
  BY DEF IInv, Always
<1>2. HasLock(c) /\ ~Login(c) /\ call[c] # Idle
  BY <1>1, IdleIsCall DEF HasLock, Shapes, CallShape, Login, Rotating
<1> QED
  BY <1>1, <1>2 DEF Locked, HasLock, Rotation, Rotating, Saving

LEMMA ReadRefreshKeeps ==
  ASSUME IInv, NEW c \in Calls, ReadRefresh(c)
  PROVE  IInv'
<1> DEFINE t == IF secure # NoToken THEN secure ELSE legacy
           new == [call[c] EXCEPT !.pc = "rsent", !.token = t]
<1>0. /\ Typed /\ AllIssued /\ call[c] \in Call /\ call[c].pc = "refresh"
      /\ ~disturbed => legacy = NoToken
  BY DEF IInv, Always, Typed, Calm, RotationsContinue, ReadRefresh
<1>1. /\ UNCHANGED <<row, stale, disabled, access, srv, screen, disturbed>>
      /\ began' \in 0..MaxCalls /\ incidents' \in 0..MaxIncidents /\ disturbed' \in BOOLEAN
  BY <1>0, Bounds DEF ReadRefresh, Typed
<1>2. CASE t = NoToken
  <2>1. FlightEnds(c, "false") /\ UNCHANGED <<secure, legacy>> /\ Gone
    BY <1>2 DEF ReadRefresh, Gone
  <2> QED
    BY <1>0, <1>1, <2>1, NotServed, FlightFails
<1>3. CASE t # NoToken
  <2>1. t \in Token /\ Issued(t)
    BY <1>0, <1>3 DEF Typed, TokenOrNone, AllIssued
  <2>2. /\ new \in Call /\ new.pc = "rsent" /\ new.token = t /\ new.op = call[c].op
        /\ new.retried = call[c].retried
    BY <1>0, <2>1 DEF Call, TokenOrNone
  <2>3. call' = [call EXCEPT ![c] = new] /\ inFlight' = c
    BY <1>0, <1>3, HolderAlone DEF ReadRefresh, Typed
  <2>4. /\ secure' = t /\ secure' \in TokenOrNone /\ legacy' \in TokenOrNone
        /\ Issued(secure)' /\ Issued(legacy)'
    BY <1>0, <1>1, <2>1 DEF ReadRefresh, Typed, TokenOrNone, AllIssued, Issued
  <2>5. ~disturbed => UNCHANGED <<secure, legacy>> /\ t = secure
    BY <1>0, <1>3 DEF ReadRefresh
  <2> HIDE DEF new, t
  <2> QED
    BY <1>0, <1>1, <2>1, <2>2, <2>3, <2>4, <2>5, LockMoves
<1> QED
  BY <1>2, <1>3

LEMMA ReadRefreshFailsKeeps ==
  ASSUME IInv, NEW c \in Calls, ReadRefreshFails(c)
  PROVE  IInv'
<1> DEFINE new == [call[c] EXCEPT !.pc = "rsent", !.token = legacy]
<1>0. Typed /\ AllIssued /\ call[c] \in Call /\ call[c].pc = "refresh"
  BY DEF IInv, Always, Typed, ReadRefreshFails
<1>1. /\ UNCHANGED <<row, stale, disabled, access, secure, legacy, srv, screen>>
      /\ began' \in 0..MaxCalls /\ incidents' \in 0..MaxIncidents /\ disturbed' = TRUE
  BY <1>0, Bounds DEF ReadRefreshFails, Disturbs, Typed
<1>2. CASE legacy = NoToken
  <2>1. FlightEnds(c, "false")
    BY <1>2 DEF ReadRefreshFails
  <2> QED
    BY <1>0, <1>1, <2>1, NotServed, FlightFails
<1>3. CASE legacy # NoToken
  <2>1. legacy \in Token /\ Issued(legacy)
    BY <1>0, <1>3 DEF Typed, TokenOrNone, AllIssued
  <2>2. /\ new \in Call /\ new.pc = "rsent" /\ new.token = legacy /\ new.op = call[c].op
        /\ new.retried = call[c].retried
    BY <1>0, <2>1 DEF Call, TokenOrNone
  <2>3. call' = [call EXCEPT ![c] = new] /\ inFlight' = c
    BY <1>0, <1>3, HolderAlone DEF ReadRefreshFails, Typed
  <2>4. /\ secure' \in TokenOrNone /\ legacy' \in TokenOrNone /\ Issued(secure)' /\ Issued(legacy)'
    BY <1>0, <1>1 DEF Typed, AllIssued, Issued
  <2> HIDE DEF new
  <2> QED
    BY <1>0, <1>1, <2>1, <2>2, <2>3, <2>4, LockMoves
<1> QED
  BY <1>2, <1>3

LEMMA FlightLostKeeps ==
  ASSUME IInv, NEW c \in Calls, FlightLost(c)
  PROVE  IInv'
<1>0. Typed
  BY DEF IInv, Always
<1>1. disturbed' \in BOOLEAN /\ (~disturbed' => ~disturbed /\ \A h \in Servers : srv[h].from # c)
  BY <1>0 DEF FlightLost, Disturbs, Typed
<1>2. call[c].pc = "rsent" /\ FlightEnds(c, "thrown")
  BY DEF FlightLost, LostResult
<1> QED
  BY <1>0, <1>1, <1>2, Bounds, FlightFails DEF FlightLost

\* A database failure disturbs: only what always holds is left to show.
LEMMA RowsGrow ==
  ASSUME Typed, NEW s \in SessionIds
  PROVE  /\ Rotated(s) \in [SessionIds -> Row]
         /\ \A m \in SessionIds : Rotated(s)[m].hash >= row[m].hash
<1> DEFINE next == [row[s] EXCEPT !.hash = @ + 1, !.lapsed = FALSE]
<1>a. row[s] \in Row
  BY DEF Typed
<1>b. row[s].hash \in Nat
  BY <1>a DEF Row
<1>c. next \in Row
  <2>1. PICK n \in Nat : n = row[s].hash + 1
    BY <1>b
  <2>2. next = [row[s] EXCEPT !.hash = n, !.lapsed = FALSE]
    BY <2>1
  <2> HIDE DEF next
  <2> QED
    BY <1>a, <2>2 DEF Row
<1>d. next.hash = row[s].hash + 1
  BY <1>a DEF Row
<1>1. next \in Row /\ next.hash = row[s].hash + 1 /\ row[s].hash \in Nat
  BY <1>b, <1>c, <1>d
<1>2. Rotated(s) = [row EXCEPT ![s] = next]
  BY DEF Rotated
<1> HIDE DEF next
<1>3. /\ Rotated(s) \in [SessionIds -> Row] /\ Rotated(s)[s] = next
      /\ \A m \in SessionIds \ {s} : Rotated(s)[m] = row[m]
  BY <1>1, <1>2 DEF Typed
<1>4. \A m \in SessionIds : row[m].hash \in Nat
  BY DEF Typed, Row
<1> QED
  BY <1>1, <1>3, <1>4

LEMMA RefreshThrowsKeeps ==
  ASSUME IInv, NEW c \in Calls, RefreshThrows(c)
  PROVE  IInv'
<1> USE DEF Rotating
<1>0. Typed /\ Shapes /\ Locked /\ Serving /\ AllIssued
  BY DEF IInv, Always
<1>1. /\ call[c].pc = "rsent" /\ FlightEnds(c, "false") /\ disturbed' = TRUE
      /\ UNCHANGED <<stale, disabled, access, secure, legacy, screen>>
      /\ began' \in 0..MaxCalls /\ incidents' \in 0..MaxIncidents
  BY <1>0, Bounds DEF RefreshThrows, Disturbs, Typed
<1>2. /\ row' \in [SessionIds -> Row]
      /\ \A s \in SessionIds : row'[s].hash \in Nat /\ row'[s].hash >= row[s].hash
  <2>1. CASE row' = row
    BY <1>0, <2>1 DEF Typed, Row
  <2>2. ASSUME NEW h \in Servers, srv[h].from = c, row' = Rotated(srv[h].token.s)
        PROVE  row' \in [SessionIds -> Row] /\ \A s \in SessionIds : row'[s].hash >= row[s].hash
    <3>1. srv[h].token.s \in SessionIds
      BY <1>0, <2>2, SessionConstants, TokenParts DEF Serving
    <3> QED
      BY <1>0, <2>2, <3>1, RowsGrow
  <2> QED
    BY <2>1, <2>2 DEF RefreshThrows, Row
<1>3. \A h \in Servers : srv'[h] = IF srv[h].from = c THEN NoRequest ELSE srv[h]
  BY DEF RefreshThrows
<1> DEFINE Hit(d) == d = c \/ call[d].pc = "join"
<1>4. /\ inFlight' = Nobody
      /\ \A d \in Calls : /\ Hit(d) => call'[d] \in Call /\ Failed(call[d], call'[d], "false")
                          /\ ~Hit(d) => call'[d] = call[d]
  BY <1>0, <1>1, AfterFlightFails DEF FlightEnds, Released, Typed
<1>5. \A d \in Calls : Hit(d) =>
        ~Login(d) /\ call[d] # Idle /\ call[d].pc \in {"join", "rsent"}
  BY <1>0, <1>1 DEF Shapes, CallShape, Login
<1>6. Hit(c)
  OBVIOUS
<1> HIDE DEF Hit
<1>7. Typed'
  <2>1. call' \in [Calls -> Call]
    BY <1>0, <1>1, <1>4 DEF FlightEnds, Typed
  <2>2. srv' \in [Servers -> Request]
    BY <1>0 DEF RefreshThrows, Typed, Request, NoRequest, TokenOrNone
  <2> QED
    BY <1>0, <1>1, <1>2, <1>4, <2>1, <2>2 DEF Typed
<1>8. \A d \in Calls : Login(d)' = Login(d)
  BY <1>4, <1>5, IdleIsCall DEF Login, Failed
<1>9. Shapes'
  BY <1>0, <1>1, <1>4, <1>5, <1>8, IdleIsCall DEF Shapes, CallShape, Failed, Login
<1>10. Locked'
  <2>1. HasLock(c)
    BY <1>0, <1>1 DEF HasLock, Shapes, CallShape, Login
  <2>2. \A d \in Calls : d # c => ~HasLock(d)
    BY <1>0, <2>1 DEF Locked
  <2>3. \A d \in Calls : ~HasLock(d)'
    BY <1>4, <1>6, <1>8, <2>2, IdleIsCall DEF HasLock, Failed
  <2> QED
    BY <1>0, <1>4, <1>8, <2>3 DEF Locked
<1>11. \A h \in Servers : srv'[h] = NoRequest \/ (srv'[h] = srv[h] /\ srv[h].from = Nobody)
  <2> SUFFICES ASSUME NEW h \in Servers, srv[h].from # Nobody PROVE srv[h].from = c
    BY <1>3
  <2>1. srv[h].from \in Calls /\ call[srv[h].from].pc = "rsent"
    BY <1>0 DEF Typed, Request, Serving
  <2>2. HasLock(srv[h].from) /\ HasLock(c)
    BY <1>0, <1>1, <2>1 DEF HasLock, Shapes, CallShape, Login
  <2> QED
    BY <1>0, <2>1, <2>2 DEF Locked
<1>12. Serving'
  BY <1>0, <1>11 DEF Serving, Served, NoRequest
<1>13. \A t \in TokenOrNone : Issued(t) => Issued(t)'
  BY <1>0, <1>2, TokenParts DEF Issued, TokenOrNone, Typed, Row, Token
<1>14. AllIssued'
  <2>1. \A t \in {access, secure, legacy} : Issued(t) /\ t \in TokenOrNone
    BY <1>0 DEF AllIssued, Typed
  <2>2. \A t \in stale : Issued(t) /\ t \in TokenOrNone
    BY <1>0 DEF AllIssued, Typed, TokenOrNone
  <2>3. \A d \in Calls : \/ call'[d].token = NoToken
                         \/ call'[d] = call[d] /\ Issued(call[d].token)
                            /\ call[d].token \in TokenOrNone
    BY <1>0, <1>4, IdleIsCall DEF AllIssued, Failed, Typed, Call
  <2>4. \A h \in Servers : \/ srv'[h].token = NoToken
                           \/ srv'[h] = srv[h] /\ Issued(srv[h].token)
                              /\ srv[h].token \in TokenOrNone
    BY <1>0, <1>11 DEF AllIssued, NoRequest, Typed, Request
  <2>5. Issued(NoToken)'
    BY DEF Issued
  <2>6. /\ Issued(access)' /\ Issued(secure)' /\ Issued(legacy)'
        /\ \A t \in stale' : Issued(t)'
    BY <1>1, <1>13, <2>1, <2>2 DEF Issued
  <2>7. \A d \in Calls : Issued(call[d].token)'
    <3> SUFFICES ASSUME NEW d \in Calls PROVE Issued(call[d].token)'
      OBVIOUS
    <3> QED
      BY <1>13, <2>3, <2>5 DEF Issued
  <2>8. \A h \in Servers : Issued(srv[h].token)'
    <3> SUFFICES ASSUME NEW h \in Servers PROVE Issued(srv[h].token)'
      OBVIOUS
    <3> QED
      BY <1>13, <2>4, <2>5 DEF Issued
  <2> QED
    BY <2>6, <2>7, <2>8 DEF AllIssued
<1> QED
  BY <1>1, <1>7, <1>9, <1>10, <1>12, <1>14 DEF IInv, Always

-----------------------------------------------------------------------------
(* The server *)

LEMMA RefusedKeeps ==
  ASSUME IInv, NEW c \in Calls, NEW h \in Servers, RefreshRead(h, c), ~Accepted(call[c].token)
  PROVE  IInv'
<1>0. /\ Typed /\ Shapes /\ Serving /\ call[c].pc = "rsent"
      /\ ~disturbed => RotationsContinue /\ Pair
  BY DEF IInv, Always, Calm, RefreshRead
<1>1. \A g \in Servers : srv[g].from # c
  BY DEF RefreshRead
<1>2. srv = [g \in Servers |-> IF srv[g].from = c THEN [srv[g] EXCEPT !.from = Nobody] ELSE srv[g]]
  BY <1>0, <1>1 DEF Typed
<1>3. ~disturbed => Gone
  <2> SUFFICES ASSUME ~disturbed, ~disabled, Alive(secure.s) PROVE Gone
    BY DEF Gone
  <2>1. call[c].token = secure /\ secure \in Token
    BY <1>0 DEF RotationsContinue, Shapes, CallShape, Rotating
  <2>2. row[secure.s].hash = secure.n
    BY <1>0, <2>1, HolderAlone, NoTokenIsNone DEF Pair
  <2> QED
    BY <2>1, <2>2 DEF Accepted
<1>4. FlightEnds(c, "false") /\ UNCHANGED srv
  BY DEF RefreshRead
<1>5. /\ UNCHANGED <<row, stale, disabled, access, secure, legacy, screen, disturbed>>
      /\ began' \in 0..MaxCalls /\ incidents' \in 0..MaxIncidents /\ disturbed' \in BOOLEAN
  BY <1>0, Bounds DEF RefreshRead, Typed
<1> QED
  BY <1>0, <1>1, <1>2, <1>3, <1>4, <1>5, FlightFails

LEMMA AcceptedKeeps ==
  ASSUME IInv, NEW c \in Calls, NEW h \in Servers, RefreshRead(h, c), Accepted(call[c].token)
  PROVE  IInv'
<1> DEFINE new == [token |-> call[c].token, from |-> c]
<1>0. /\ Typed /\ Shapes /\ Locked /\ Serving /\ AllIssued
      /\ ~disturbed => SignInAlone /\ RotationsContinue /\ Pair /\ Screens /\ Causes
  BY DEF IInv, Always, Calm
<1>1. /\ call[c].pc = "rsent" /\ srv' = [srv EXCEPT ![h] = new]
      /\ UNCHANGED <<row, stale, disabled, access, secure, legacy, inFlight, call, screen, began,
                     incidents, disturbed>>
      /\ \A g \in Servers : srv[g].from # c
  BY DEF RefreshRead
<1>2. new \in Request /\ new.token \in Token /\ new # NoRequest /\ Issued(new.token)
  BY <1>0, <1>1, SessionConstants
     DEF Typed, Shapes, CallShape, Rotating, Call, Request, NoRequest, AllIssued
<1>3. srv'[h] = new /\ \A g \in Servers \ {h} : srv'[g] = srv[g]
  BY <1>0, <1>1 DEF Typed
<1>4. Typed'
  BY <1>0, <1>1, <1>2 DEF Typed
<1>5. Shapes' /\ Locked'
  BY <1>0, <1>1 DEF Shapes, Locked, CallShape, Login, HasLock
<1>6. Serving'
  <2>1. \A g \in Servers : srv'[g] # NoRequest => srv'[g].token \in Token
    BY <1>0, <1>2, <1>3 DEF Serving, Served
  <2>2. \A g \in Servers : srv'[g].from # Nobody =>
          srv'[g] # NoRequest /\ call[srv'[g].from].pc = "rsent" /\ call[srv'[g].from].token = srv'[g].token
    BY <1>0, <1>1, <1>2, <1>3 DEF Serving, Served
  <2>3. \A f, g \in Servers : srv'[f].from # Nobody /\ srv'[f].from = srv'[g].from => f = g
    BY <1>0, <1>1, <1>3 DEF Serving
  <2> QED
    BY <1>1, <2>1, <2>2, <2>3 DEF Serving, Served
<1>7. AllIssued'
  BY <1>0, <1>1, <1>2, <1>3 DEF AllIssued, Issued
<1> SUFFICES ASSUME ~disturbed PROVE Calm'
  BY <1>1, <1>4, <1>5, <1>6, <1>7 DEF IInv, Always
<1>8. ~disabled /\ Alive(call[c].token.s)
  BY DEF Accepted
<1>9. \A d \in Calls : ~SignIn(d)
  <2>1. \A d \in Calls : SignIn(d) => d # c
    BY <1>1, HolderAlone DEF SignIn
  <2> QED
    BY <1>0, <1>1, <1>8, <2>1, BesideSignIn, HolderAlone
<1>10. SignInAlone'
  BY <1>1, <1>9 DEF SignInAlone, SignIn, Login
<1>11. call[c].token = secure /\ ~row[secure.s].lapsed
  BY <1>0, <1>1, <1>8 DEF RotationsContinue, Alive
<1>12. RotationsContinue'
  BY <1>0, <1>1, <1>2, <1>3, <1>11, SessionConstants
     DEF RotationsContinue, Served, Rotation, Login
<1>13. Pair' /\ Screens' /\ Causes'
  BY <1>0, <1>1 DEF Pair, Screens, Causes, CauseOf, Caused, Gone, SigningOut, Alive, Rotation, SignIn, Login
<1> QED
  BY <1>10, <1>12, <1>13 DEF Calm

LEMMA RefreshWriteKeeps ==
  ASSUME IInv, NEW h \in Servers, RefreshWrite(h)
  PROVE  IInv'
<1> USE DEF Rotating, Saving, Clearing
<1>0. /\ Typed /\ Shapes /\ Locked /\ Serving /\ AllIssued
      /\ ~disturbed => SignInAlone /\ RotationsContinue /\ Pair /\ Screens /\ Causes
  BY DEF IInv, Always, Calm
<1>a. Served(h) /\ srv[h].token \in Token
  BY <1>0 DEF Serving, Served, RefreshWrite
<1>b. PICK t \in Token, c \in Calls \cup {Nobody} : srv[h].token = t /\ srv[h].from = c
  BY <1>0, <1>a DEF Typed, Request
<1>c. PICK s \in SessionIds, new \in Token :
        t.s = s /\ row[s].hash \in Nat /\ new = [s |-> s, n |-> row[s].hash + 1]
  <2>1. t.s \in SessionIds /\ row[t.s].hash \in Nat
    BY <1>0, TokenParts DEF Typed, Row
  <2>2. [s |-> t.s, n |-> row[t.s].hash + 1] \in Token
    BY <2>1 DEF Token
  <2> QED
    BY <2>1, <2>2
<1>1. /\ Served(h) /\ t \in Token /\ s \in SessionIds /\ row[s].hash \in Nat
      /\ new \in Token /\ new.s = s /\ new.n = row[s].hash + 1
  BY <1>a, <1>c
<1> DEFINE next == [call[c] EXCEPT !.pc = "save1", !.token = new]
<1>2. /\ row' = [row EXCEPT ![s].hash = new.n, ![s].lapsed = FALSE]
      /\ srv' = [srv EXCEPT ![h] = NoRequest]
      /\ UNCHANGED <<stale, disabled, access, secure, legacy, inFlight, screen, began, incidents, disturbed>>
      /\ call' = IF c = Nobody THEN call ELSE [call EXCEPT ![c].pc = "save1", ![c].token = new]
  BY <1>b, <1>c DEF RefreshWrite, Rotated
<1>3. /\ row' \in [SessionIds -> Row]
      /\ row'[s].hash = row[s].hash + 1 /\ ~row'[s].lapsed /\ row'[s].revoked = row[s].revoked
      /\ \A m \in SessionIds \ {s} : row'[m] = row[m]
  <2>1. row'[s] = [row[s] EXCEPT !.hash = new.n, !.lapsed = FALSE]
    BY <1>0, <1>1, <1>2 DEF Typed
  <2>a. row[s] \in Row /\ new.n \in Nat
    BY <1>0, <1>1 DEF Typed
  <2>2. row[s] \in Row /\ row'[s] \in Row
    BY <2>1, <2>a DEF Row
  <2>3. row'[s].hash = row[s].hash + 1 /\ ~row'[s].lapsed /\ row'[s].revoked = row[s].revoked
    BY <1>1, <2>1, <2>2 DEF Row
  <2>4. row' = [row EXCEPT ![s] = row'[s]]
    BY <1>0, <1>1, <1>2, <2>1 DEF Typed
  <2> QED
    BY <1>0, <2>2, <2>3, <2>4 DEF Typed
<1>4. srv'[h] = NoRequest /\ \A g \in Servers \ {h} : srv'[g] = srv[g]
  BY <1>0, <1>2 DEF Typed
<1>5. ASSUME c # Nobody
      PROVE  /\ c \in Calls /\ call[c].pc = "rsent" /\ call[c] \in Call
             /\ next \in Call /\ next.pc = "save1" /\ next.token = new /\ next.op = call[c].op
             /\ next.retried = call[c].retried
             /\ call' = [call EXCEPT ![c] = next] /\ call'[c] = next
             /\ \A d \in Calls \ {c} : call'[d] = call[d]
  <2>1. c \in Calls /\ call[c].pc = "rsent" /\ call[c] \in Call
    BY <1>0, <1>5, <1>b DEF Typed, Request, Serving
  <2>2. /\ next \in Call /\ next.pc = "save1" /\ next.token = new /\ next.op = call[c].op
        /\ next.retried = call[c].retried
    BY <1>1, <2>1 DEF Call, TokenOrNone
  <2>3. call' = [call EXCEPT ![c] = next]
    BY <1>0, <1>2, <1>5, <2>1 DEF Typed
  <2> QED
    BY <1>0, <2>1, <2>2, <2>3 DEF Typed
<1> HIDE DEF next
<1>6. c = Nobody => call' = call
  BY <1>2
<1>7. /\ call' \in [Calls -> Call]
      /\ \A d \in Calls : call'[d] = call[d] \/ (c # Nobody /\ d = c)
  BY <1>0, <1>5, <1>6 DEF Typed
<1>8. Typed'
  <2>1. srv' \in [Servers -> Request]
    BY <1>0, <1>2 DEF Typed, Request, NoRequest, TokenOrNone
  <2> QED
    BY <1>0, <1>2, <1>3, <1>7, <2>1 DEF Typed
<1>9. c # Nobody => /\ HasLock(c) /\ ~Login(c) /\ call[c] # Idle
                    /\ \A d \in Calls \ {c} : ~HasLock(d) /\ ~Rotation(d)
  BY <1>5, HolderAlone
<1>10. \A d \in Calls : Login(d)' = Login(d) /\ HasLock(d)' = HasLock(d)
  BY <1>5, <1>7 DEF Login, HasLock
<1>11. Shapes'
  BY <1>0, <1>1, <1>2, <1>5, <1>7, <1>9, <1>10, IdleIsCall DEF Shapes, CallShape, Login
<1>12. Locked'
  BY <1>0, <1>2, <1>10, <1>8 DEF Locked, Typed
<1>13. Serving'
  <2>1. \A g \in Servers : srv'[g] # NoRequest => g # h /\ srv'[g] = srv[g]
    BY <1>4
  <2>2. \A g \in Servers : srv'[g].from # Nobody => g # h /\ srv'[g] = srv[g] /\ call'[srv[g].from] = call[srv[g].from]
    <3> SUFFICES ASSUME NEW g \in Servers, srv'[g].from # Nobody
                 PROVE  g # h /\ srv'[g] = srv[g] /\ call'[srv[g].from] = call[srv[g].from]
      OBVIOUS
    <3>1. g # h /\ srv'[g] = srv[g]
      BY <1>4 DEF NoRequest
    <3>2. srv[g].from \in Calls /\ srv[g].from # c
      BY <1>0, <1>b, <3>1 DEF Serving, Typed, Request
    <3> QED
      BY <1>7, <3>1, <3>2
  <2> QED
    BY <1>0, <2>1, <2>2 DEF Serving, Served
<1>14. AllIssued'
  <2>1. \A u \in TokenOrNone : Issued(u) => Issued(u)'
    <3> SUFFICES ASSUME NEW u \in Token, row[u.s].hash >= u.n PROVE row'[u.s].hash >= u.n
      BY NoTokenIsNone DEF Issued, TokenOrNone
    <3>1. u.s \in SessionIds /\ u.n \in Nat
      BY TokenParts
    <3> QED
      BY <1>1, <1>3, <3>1
  <2>2. Issued(new)'
    BY <1>1, <1>2, <1>3 DEF Issued
  <2>3. \A d \in Calls : Issued(call[d].token)'
    <3> SUFFICES ASSUME NEW d \in Calls PROVE Issued(call[d].token)'
      OBVIOUS
    <3>1. CASE call'[d] = call[d]
      BY <1>0, <2>1, <3>1 DEF AllIssued, Typed, Call
    <3>2. CASE call'[d] # call[d]
      BY <1>5, <1>7, <2>2, <3>2
    <3> QED
      BY <3>1, <3>2
  <2>4. \A g \in Servers : Issued(srv[g].token)'
    <3> SUFFICES ASSUME NEW g \in Servers PROVE Issued(srv[g].token)'
      OBVIOUS
    <3>1. CASE g = h
      BY <1>4, <3>1 DEF NoRequest, Issued
    <3>2. CASE g # h
      BY <1>0, <1>4, <2>1, <3>2 DEF AllIssued, Typed, Request
    <3> QED
      BY <3>1, <3>2
  <2>5. \A u \in stale \cup {access, secure, legacy} : Issued(u) /\ u \in TokenOrNone
    BY <1>0 DEF AllIssued, Typed, TokenOrNone
  <2>6. \A u \in stale \cup {access, secure, legacy} : Issued(u)'
    BY <2>1, <2>5
  <2> QED
    BY <1>2, <2>3, <2>4, <2>6 DEF AllIssued
<1> SUFFICES ASSUME ~disturbed PROVE Calm'
  BY <1>2, <1>8, <1>11, <1>12, <1>13, <1>14 DEF IInv, Always
<1>15. /\ SignInAlone /\ RotationsContinue /\ Pair /\ Screens /\ Causes
       /\ c # Nobody /\ t = secure /\ ~row[s].lapsed
  BY <1>0, <1>1, <1>b, <1>c DEF RotationsContinue
<1>16. /\ \A d \in Calls : ~SignIn(d) /\ ~SignIn(d)'
       /\ \A d \in Calls : Rotation(d)' = (d = c)
  <2>1. \A d \in Calls : ~SignIn(d)
    BY <1>1, <1>15 DEF SignInAlone, StoresAlone
  <2> QED
    BY <1>5, <1>7, <1>9, <1>10, <1>15, <2>1 DEF SignIn, Rotation, Login
<1>17. SignInAlone'
  BY <1>16 DEF SignInAlone
<1>18. RotationsContinue'
  <2>1. \A g \in Servers : srv'[g] = NoRequest
    <3> SUFFICES ASSUME NEW g \in Servers, srv'[g] # NoRequest PROVE FALSE
      OBVIOUS
    <3>1. g # h /\ Served(g)
      BY <1>4 DEF Served
    <3>2. srv[g].from \in Calls /\ call[srv[g].from].pc = "rsent" /\ srv[g].from # c
      BY <1>0, <1>15, <1>b, <3>1 DEF RotationsContinue, Serving, Typed, Request
    <3> QED
      BY <1>9, <1>15, <3>2, HolderAlone
  <2>2. \A d \in Calls : call'[d].pc # "rsent"
    BY <1>5, <1>7, <1>9, <1>15, HolderAlone
  <2>3. new \notin stale
    BY <1>0, <1>1, NoTokenIsNone DEF AllIssued, Issued
  <2>4. secure # NoToken /\ new.s = secure.s /\ row'[secure.s].hash = new.n
    BY <1>1, <1>3, <1>15, <1>c, NoTokenIsNone
  <2>5. \A d \in Calls : Rotation(d)' => call'[d].token = new /\ call'[d].pc = "save1"
    BY <1>5, <1>15, <1>16
  <2>6. legacy' = NoToken
    BY <1>2, <1>15 DEF RotationsContinue
  <2>7. secure' = secure /\ stale' = stale
    BY <1>2
  <2>8. ASSUME NEW d \in Calls, Rotation(d)'
        PROVE  /\ secure # NoToken /\ call'[d].token.s = secure.s
               /\ row'[secure.s].hash = call'[d].token.n /\ call'[d].token \notin stale
               /\ call'[d].pc # "save2"
    BY <2>3, <2>4, <2>5, <2>8
  <2>9. \A d \in Calls : call'[d].pc = "rsent" /\ ~disabled' => call'[d].token = secure'
    BY <2>2
  <2>10. (\A g \in Servers : ~Served(g))'
    BY <2>1 DEF Served
  <2> QED
    BY <2>6, <2>7, <2>8, <2>9, <2>10 DEF RotationsContinue
<1>19. Pair'
  <2>1. \A d \in Calls : call'[d].pc = "save2" <=> call[d].pc = "save2"
    BY <1>5, <1>7
  <2>2. Rotation(c)'
    BY <1>5, <1>15, <1>16
  <2> QED
    BY <1>2, <1>5, <1>15, <2>1, <2>2 DEF Pair
<1>20. Screens'
  <2>1. screen = "app"
    BY <1>0, <1>5, <1>15, <1>16 DEF Screens, Typed
  <2>2. \A d \in Calls : call[d].pc = "clear2" => call'[d].pc = "clear2"
    BY <1>5, <1>7
  <2> QED
    BY <1>2, <1>15, <2>1, <2>2 DEF Screens
<1>21. Causes'
  <2>1. \A d \in Calls : call[d].pc \in Clearing => call'[d] = call[d]
    BY <1>5, <1>7
  <2>2. SigningOut => SigningOut'
    BY <2>1 DEF SigningOut
  <2>3. Alive(secure.s)' => Alive(secure.s)
    <3>1. secure.s = s /\ row[s].hash \in Nat
      BY <1>1, <1>15, <1>c
    <3>2. row[s].hash > 0
      BY <1>0, <1>1, <1>15, <1>c, TokenParts, NoTokenIsNone DEF AllIssued, Issued
    <3>3. Alive(s) <=> ~row[s].revoked
      BY <1>15, <3>2 DEF Alive
    <3>4. Alive(s)' => ~row[s].revoked
      BY <1>3 DEF Alive
    <3> QED
      BY <1>2, <3>1, <3>3, <3>4
  <2>4. Caused => Caused'
    BY <1>2, <2>2, <2>3 DEF Caused, Gone
  <2> QED
    BY <1>2, <1>5, <1>7, <1>15, <2>4 DEF Causes, CauseOf
<1> QED
  BY <1>17, <1>18, <1>19, <1>20, <1>21 DEF Calm

-----------------------------------------------------------------------------
(* The pair is stored *)

\* A call other than the sign-in is not at the refresh or past it beside a sign-in's.
LEMMA NoSignInBeside ==
  ASSUME IInv, ~disturbed, NEW c \in Calls, ~Login(c),
         call[c].pc \in {"save1", "save2", "resend", "clear1", "clear2"}
  PROVE  \A d \in Calls : ~SignIn(d)
<1>1. Shapes /\ SignInAlone /\ call[c] # Idle
  BY IdleIsCall DEF IInv, Always, Calm
<1>2. \A d \in Calls : SignIn(d) => d # c
  BY DEF SignIn
<1> QED
  BY <1>1, <1>2, BesideSignIn DEF Beside

\* The login screen is not shown while a call stores a rotated pair.
LEMMA RotatesInApp ==
  ASSUME IInv, ~disturbed, NEW c \in Calls, Rotation(c)
  PROVE  screen = "app" /\ HasLock(c) /\ \A d \in Calls : ~SignIn(d)
<1>1. Typed /\ Screens
  BY DEF IInv, Always, Calm
<1>2. ~Login(c) /\ call[c].pc \in {"save1", "save2"}
  BY DEF Rotation, Saving
<1>3. \A d \in Calls : ~SignIn(d)
  BY <1>2, NoSignInBeside
<1> QED
  BY <1>1, <1>2, <1>3 DEF Typed, Screens, Rotating, HasLock

LEMMA SaveAccessKeeps ==
  ASSUME IInv, NEW c \in Calls, SaveAccess(c)
  PROVE  IInv'
<1> USE DEF Rotating, Saving, Clearing
<1> DEFINE new == [call[c] EXCEPT !.pc = "save2"]
<1>0. /\ Typed /\ Shapes /\ Locked /\ Serving /\ AllIssued
      /\ ~disturbed => SignInAlone /\ RotationsContinue /\ Pair /\ Screens /\ Causes
  BY DEF IInv, Always, Calm
<1>1. call[c] \in Call /\ call[c].pc = "save1" /\ call[c] # Idle /\ call[c].token \in Token
  BY <1>0, IdleIsCall DEF Typed, SaveAccess, Shapes, CallShape
<1>b. PICK t \in Token : t = call[c].token
  BY <1>1
<1>2. /\ new \in Call /\ new.pc = "save2" /\ new.op = call[c].op /\ new.retried = call[c].retried
      /\ new.token = t
  BY <1>1, <1>b DEF Call
<1>3. /\ call' = [call EXCEPT ![c] = new]
      /\ access' = t
      /\ UNCHANGED <<row, stale, disabled, secure, legacy, inFlight, srv, screen, began, incidents,
                     disturbed>>
  BY <1>0, <1>b DEF SaveAccess, Goes, Typed
<1> HIDE DEF new
<1>4. call'[c] = new /\ \A d \in Calls \ {c} : call'[d] = call[d]
  BY <1>0, <1>3 DEF Typed
<1>5. Typed'
  <2>1. call' \in [Calls -> Call] /\ t \in TokenOrNone
    BY <1>0, <1>2, <1>3 DEF Typed, TokenOrNone
  <2> QED
    BY <1>0, <1>3, <2>1 DEF Typed
<1>6. \A d \in Calls : /\ Login(d)' = Login(d) /\ HasLock(d)' = HasLock(d)
                       /\ Rotation(d)' = Rotation(d) /\ SignIn(d)' = SignIn(d)
  BY <1>1, <1>2, <1>4 DEF Login, HasLock, Rotation, SignIn
<1>7. Shapes'
  BY <1>0, <1>1, <1>2, <1>3, <1>4, <1>6, IdleIsCall DEF Shapes, CallShape, Login
<1>8. Locked'
  BY <1>0, <1>3, <1>5, <1>6 DEF Locked, Typed
<1>9. Serving'
  BY <1>0, <1>1, <1>2, <1>3, <1>4 DEF Serving, Served, Typed, Request
<1>10. AllIssued'
  BY <1>0, <1>2, <1>3, <1>4, <1>b DEF AllIssued, Issued
<1> SUFFICES ASSUME ~disturbed PROVE Calm'
  BY <1>3, <1>5, <1>7, <1>8, <1>9, <1>10 DEF IInv, Always
<1>11. SignInAlone /\ RotationsContinue /\ Pair /\ Screens /\ Causes
  BY <1>0
<1>12. CASE Login(c)
  <2>1. /\ SignIn(c) /\ StoresAlone(c, t) /\ call'[c].pc = "save2" /\ call'[c].token = t
        /\ \A d \in Calls \ {c} : call[d] = Idle /\ call'[d] = Idle
    BY <1>1, <1>2, <1>4, <1>11, <1>12, <1>b DEF SignIn, SignInAlone, StoresAlone
  <2>2. \A d \in Calls : ~Rotation(d) /\ (SignIn(d) => d = c)
    BY <1>12, <2>1, IdleIsCall DEF Rotation, SignIn
  <2>3. StoresAlone(c, call[c].token)'
    <3>1. \A d \in Calls \ {c} : call'[d] = Idle
      BY <2>1
    <3>2. (\A g \in Servers : ~Served(g))' /\ t \notin stale' /\ Alive(t.s)' /\ row'[t.s].hash = t.n
      BY <1>3, <2>1 DEF StoresAlone, Served, Alive
    <3>3. call'[c].token = t /\ call'[c].pc = "save2" /\ access' = t
      BY <1>3, <2>1
    <3> QED
      BY <3>1, <3>2, <3>3 DEF StoresAlone, Beside
  <2>4. SignInAlone'
    BY <1>6, <2>2, <2>3 DEF SignInAlone
  <2>5. RotationsContinue'
    BY <1>3, <1>6, <1>11, <2>1, <2>2, IdleIsCall DEF RotationsContinue, Served
  <2>6. Pair'
    BY <1>3, <1>6, <1>11, <2>1, <2>2 DEF Pair, Alive
  <2>7. Screens'
    BY <1>0, <1>3, <1>6, <1>12, <2>1, NoTokenIsNone DEF Screens, Shapes, SignIn
  <2>8. Causes'
    BY <2>1, IdleIsCall DEF Causes, CauseOf
  <2> QED
    BY <2>4, <2>5, <2>6, <2>7, <2>8 DEF Calm
<1>13. CASE ~Login(c)
  <2>1. Rotation(c) /\ screen = "app" /\ HasLock(c) /\ \A d \in Calls : ~SignIn(d)
    BY <1>1, <1>13, RotatesInApp DEF Rotation
  <2>2. /\ secure # NoToken /\ t.s = secure.s /\ row[secure.s].hash = t.n /\ t \notin stale
        /\ \A d \in Calls : Rotation(d) => d = c
    BY <1>0, <1>11, <1>b, <2>1 DEF RotationsContinue, Locked, HasLock, Rotation
  <2>3. SignInAlone'
    BY <1>6, <2>1 DEF SignInAlone
  <2>4. RotationsContinue'
    BY <1>2, <1>3, <1>4, <1>6, <1>11, <2>2 DEF RotationsContinue, Served
  <2>5. Pair'
    BY <1>2, <1>3, <1>4, <1>6, <2>1 DEF Pair
  <2>6. Screens'
    BY <1>3, <2>1, NoTokenIsNone DEF Screens
  <2>7. Caused => Caused'
    BY <1>1, <1>3, <1>4 DEF Caused, Gone, SigningOut, Alive
  <2>8. Causes'
    BY <1>2, <1>3, <1>4, <1>11, <2>2, <2>7 DEF Causes, CauseOf
  <2> QED
    BY <2>3, <2>4, <2>5, <2>6, <2>8 DEF Calm
<1> QED
  BY <1>12, <1>13

\* What must hold always survives the end of saveTokens, whatever SecureStore took.
LEMMA SavedKeepsAlways ==
  ASSUME IInv, NEW c \in Calls, call[c].pc = "save2", Saved(c),
         secure' \in {secure, call[c].token}, legacy' \in {NoToken, call[c].token},
         UNCHANGED <<row, stale, disabled, access, srv>>, disturbed' \in BOOLEAN,
         began' \in 0..MaxCalls, incidents' \in 0..MaxIncidents
  PROVE  Always'
<1> USE DEF Rotating
<1>0. Typed /\ Shapes /\ Locked /\ Serving /\ AllIssued
  BY DEF IInv, Always
<1>1. call[c] \in Call /\ call[c].token \in Token /\ call[c].op # "idle" /\ CallShape(call[c])
  BY <1>0 DEF Typed, Shapes, CallShape
<1>2. ASSUME NEW r \in Call
      PROVE  /\ AfterFlight(r, "ok") \in Call /\ AfterFlight(r, "ok").pc = "resend"
             /\ AfterFlight(r, "ok").op = r.op /\ AfterFlight(r, "ok").token = NoToken
  BY DEF AfterFlight, Call, TokenOrNone
<1>3. CASE Login(c)
  <2>1. call' = [call EXCEPT ![c] = Idle] /\ screen' = "app" /\ inFlight' = inFlight
    BY <1>3 DEF Saved, Ends, Login
  <2>2. call'[c] = Idle /\ \A d \in Calls \ {c} : call'[d] = call[d] /\ ~Login(d)
    BY <1>0, <1>3, <2>1 DEF Typed, Locked
  <2>3. Typed'
    <3>1. call' \in [Calls -> Call]
      BY <1>0, <2>1, IdleIsCall DEF Typed
    <3> QED
      BY <1>0, <1>1, <2>1, <3>1 DEF Typed, TokenOrNone
  <2>4. \A d \in Calls : ~Login(d)' /\ HasLock(d)' = HasLock(d)
    BY <1>3, <2>2, IdleIsCall DEF Login, HasLock
  <2>5. Shapes'
    BY <1>0, <2>2, <2>4, IdleIsCall DEF Shapes, CallShape
  <2>6. Locked'
    BY <1>0, <2>1, <2>4, <2>3 DEF Locked, Typed
  <2>7. Serving'
    BY <1>0, <2>2 DEF Serving, Served, Typed, Request
  <2>8. AllIssued'
    BY <1>0, <2>2, IdleIsCall DEF AllIssued, Issued
  <2> QED
    BY <2>3, <2>5, <2>6, <2>7, <2>8 DEF Always
<1>4. CASE ~Login(c)
  <2>1. FlightEnds(c, "ok") /\ screen' = screen
    BY <1>4 DEF Saved, Login
  <2>2. /\ inFlight' = Nobody
        /\ \A d \in Calls :
             \/ d # c /\ call[d].pc # "join" /\ call'[d] = call[d]
             \/ /\ d = c \/ call[d].pc = "join"
                /\ call'[d] \in Call /\ call'[d].pc = "resend" /\ call'[d].op = call[d].op
                /\ call'[d].token = NoToken
    BY <1>0, <1>2, <2>1 DEF FlightEnds, Released, Typed
  <2>3. Typed'
    <3>1. call' \in [Calls -> Call]
      BY <1>0, <2>1, <2>2 DEF FlightEnds, Typed
    <3> QED
      BY <1>0, <1>1, <2>1, <2>2, <3>1 DEF Typed, TokenOrNone
  <2>4. HasLock(c) /\ \A d \in Calls : HasLock(d) => d = c
    BY <1>0, <1>4 DEF Locked, HasLock
  <2>5. \A d \in Calls : Login(d)' = Login(d) /\ ~HasLock(d)'
    BY <2>2, <2>4 DEF Login, HasLock
  <2>6. Shapes'
    <3>1. \A d \in Calls : CallShape(call'[d])
      <4> SUFFICES ASSUME NEW d \in Calls PROVE CallShape(call'[d])
        OBVIOUS
      <4>1. CASE call'[d] = call[d]
        BY <1>0, <4>1 DEF Shapes
      <4>2. CASE call'[d].pc = "resend" /\ call'[d].op = call[d].op /\ (d = c \/ call[d].pc = "join")
        <5>1. ~Login(d) /\ call[d].op # "idle"
          BY <1>0, <1>1, <1>4, <4>2 DEF Shapes, CallShape, Login
        <5> QED
          BY <4>2, <5>1, IdleIsCall DEF CallShape, Login, Clearing
      <4> QED
        BY <2>2, <4>1, <4>2
    <3> QED
      BY <1>0, <2>1, <2>5, <3>1 DEF Shapes
  <2>7. Locked'
    BY <1>0, <2>2, <2>5 DEF Locked
  <2>8. \A h \in Servers : srv[h].from = Nobody
    <3> SUFFICES ASSUME NEW h \in Servers, srv[h].from # Nobody PROVE FALSE
      OBVIOUS
    <3>1. srv[h].from \in Calls /\ call[srv[h].from].pc = "rsent"
      BY <1>0 DEF Typed, Request, Serving
    <3> QED
      BY <2>4, <3>1, HolderAlone
  <2>9. Serving'
    BY <1>0, <2>8 DEF Serving, Served
  <2>10. AllIssued'
    <3>1. Issued(secure)' /\ Issued(legacy)' /\ Issued(access)'
      BY <1>0 DEF AllIssued, Issued
    <3>2. \A d \in Calls : Issued(call[d].token)'
      BY <1>0, <2>2 DEF AllIssued, Issued
    <3>3. (\A h \in Servers : Issued(srv[h].token))' /\ (\A t \in stale : Issued(t))'
      BY <1>0 DEF AllIssued, Issued
    <3> QED
      BY <3>1, <3>2, <3>3 DEF AllIssued
  <2> QED
    BY <2>3, <2>6, <2>7, <2>9, <2>10 DEF Always
<1> QED
  BY <1>3, <1>4

LEMMA SaveRefreshFailsKeeps ==
  ASSUME IInv, NEW c \in Calls, SaveRefreshFails(c)
  PROVE  IInv'
<1>0. Typed
  BY DEF IInv, Always
<1>1. Always' /\ disturbed' = TRUE
  BY <1>0, Bounds, SavedKeepsAlways DEF SaveRefreshFails, Disturbs, Typed
<1> QED
  BY <1>1 DEF IInv

LEMMA SignInStored ==
  ASSUME IInv, NEW c \in Calls, SaveRefresh(c), Login(c), ~disturbed
  PROVE  Calm'
<1> USE DEF Rotating, Saving, Clearing
<1>0. Typed /\ Shapes /\ Locked /\ SignInAlone /\ RotationsContinue /\ Pair /\ Screens /\ Causes
  BY DEF IInv, Always, Calm
<1>b. PICK t \in Token : t = call[c].token
  BY <1>0 DEF SaveRefresh, Shapes, CallShape
<1>1. /\ call' = [call EXCEPT ![c] = Idle] /\ screen' = "app"
      /\ secure' = t /\ legacy' = NoToken
      /\ UNCHANGED <<row, stale, disabled, access, srv, disturbed>>
  BY <1>b DEF SaveRefresh, Saved, Ends, Login
<1>2. call'[c] = Idle /\ \A d \in Calls \ {c} : call'[d] = call[d] /\ ~Login(d)
  BY <1>0, <1>1 DEF Typed, Locked
<1>3. StoresAlone(c, t) /\ access = t /\ t # NoToken
  BY <1>0, <1>b, NoTokenIsNone DEF SaveRefresh, SignIn, SignInAlone, StoresAlone
<1>4. \A d \in Calls : ~Login(d)' /\ ~Rotation(d)'
  BY <1>2, <1>3, IdleIsCall DEF Login, Rotation, StoresAlone, Beside
<1>5. SignInAlone'
  BY <1>4 DEF SignInAlone, SignIn
<1>6. RotationsContinue'
  <2>1. \A d \in Calls : call'[d].pc = "rsent" => disabled
    BY <1>2, <1>3, IdleIsCall DEF StoresAlone, Beside
  <2> QED
    BY <1>1, <1>3, <1>4, <2>1 DEF RotationsContinue, StoresAlone, Served
<1>7. Pair'
  BY <1>1, <1>3 DEF Pair, StoresAlone
<1>8. Screens'
  BY <1>1, <1>3 DEF Screens
<1>9. Causes'
  BY <1>2, <1>3, IdleIsCall DEF Causes, CauseOf, StoresAlone, Beside
<1> QED
  BY <1>5, <1>6, <1>7, <1>8, <1>9 DEF Calm

LEMMA RotationStored ==
  ASSUME IInv, NEW c \in Calls, SaveRefresh(c), ~Login(c), ~disturbed
  PROVE  Calm'
<1> USE DEF Rotating, Saving, Clearing
<1>0. /\ Typed /\ Shapes /\ Locked /\ Serving
      /\ SignInAlone /\ RotationsContinue /\ Pair /\ Screens /\ Causes
  BY DEF IInv, Always, Calm
<1>b. PICK t \in Token : t = call[c].token
  BY <1>0 DEF SaveRefresh, Shapes, CallShape
<1>1. /\ FlightEnds(c, "ok") /\ screen' = screen
      /\ secure' = t /\ legacy' = NoToken
      /\ UNCHANGED <<row, stale, disabled, access, srv, disturbed>>
  BY <1>b DEF SaveRefresh, Saved, Login
<1>2. \A d \in Calls :
        \/ d # c /\ call[d].pc # "join" /\ call'[d] = call[d]
        \/ /\ d = c \/ call[d].pc = "join"
           /\ call'[d].pc = "resend" /\ call'[d].op = call[d].op
  <2>1. \A r \in Call : AfterFlight(r, "ok").pc = "resend" /\ AfterFlight(r, "ok").op = r.op
    BY DEF AfterFlight, Call
  <2> QED
    BY <1>0, <1>1, <2>1 DEF FlightEnds, Typed
<1>3. /\ Rotation(c) /\ screen = "app" /\ HasLock(c)
      /\ \A d \in Calls : ~SignIn(d) /\ (HasLock(d) => d = c)
  BY <1>0, RotatesInApp DEF SaveRefresh, Rotation, Locked
<1>4. /\ t # NoToken /\ secure # NoToken /\ t.s = secure.s /\ row[t.s].hash = t.n /\ t \notin stale
      /\ access \in {t, NoToken}
  BY <1>0, <1>3, <1>b, NoTokenIsNone DEF SaveRefresh, RotationsContinue
<1>5. \A d \in Calls : /\ call'[d].pc # "rsent" /\ call[d].pc # "rsent"
                       /\ ~SignIn(d)' /\ ~Rotation(d)'
  <2>1. \A d \in Calls : d # c => ~HasLock(d) /\ call[d].pc # "rsent"
    BY <1>0, <1>3 DEF HasLock, Shapes, CallShape, Login
  <2>2. call[c].pc = "save2"
    BY DEF SaveRefresh
  <2> QED
    BY <1>2, <1>3, <2>1, <2>2 DEF SignIn, Rotation, Login, HasLock
<1>6. SignInAlone'
  BY <1>5 DEF SignInAlone
<1>7. RotationsContinue'
  <2>1. \A h \in Servers : ~Served(h)
    BY <1>0, <1>5 DEF RotationsContinue, Serving, Typed, Request
  <2> QED
    BY <1>1, <1>5, <2>1 DEF RotationsContinue, Served
<1>8. Pair'
  BY <1>1, <1>4 DEF Pair
<1>9. \A d \in Calls : call[d].pc \in Clearing => call'[d] = call[d]
  <2>1. call[c].pc = "save2"
    BY DEF SaveRefresh
  <2> QED
    BY <1>2, <2>1
<1>10. Screens'
  BY <1>0, <1>1, <1>3, <1>9 DEF Screens
<1>11. Caused => Caused'
  BY <1>1, <1>4, <1>9 DEF Caused, Gone, SigningOut, Alive
<1>12. Causes'
  <2>1. access \notin stale
    BY <1>0, <1>4, NoTokenIsNone DEF Typed
  <2> QED
    BY <1>0, <1>1, <1>2, <1>4, <1>11, <2>1 DEF Causes, CauseOf
<1> QED
  BY <1>6, <1>7, <1>8, <1>10, <1>12 DEF Calm

LEMMA SaveRefreshKeeps ==
  ASSUME IInv, NEW c \in Calls, SaveRefresh(c)
  PROVE  IInv'
<1>0. Typed
  BY DEF IInv, Always
<1>1. Always' /\ disturbed' = disturbed
  BY <1>0, Bounds, SavedKeepsAlways DEF SaveRefresh, Typed
<1> QED
  BY <1>1, SignInStored, RotationStored DEF IInv

-----------------------------------------------------------------------------
(* The tokens are given up *)

LEMMA ClearAccessKeeps ==
  ASSUME IInv, NEW c \in Calls, ClearAccess(c)
  PROVE  IInv'
<1> USE DEF Rotating, Saving, Clearing
<1> DEFINE new == [call[c] EXCEPT !.pc = "clear2"]
<1>0. /\ Typed /\ Shapes /\ Locked /\ Serving /\ AllIssued
      /\ ~disturbed => SignInAlone /\ RotationsContinue /\ Pair /\ Screens /\ Causes
  BY DEF IInv, Always, Calm
<1>1. call[c] \in Call /\ call[c].pc = "clear1" /\ call[c] # Idle /\ ~Login(c)
  BY <1>0, IdleIsCall DEF Typed, ClearAccess, Shapes, CallShape, Login
<1>2. /\ new \in Call /\ new.pc = "clear2" /\ new.op = call[c].op /\ new.token = call[c].token
  BY <1>1 DEF Call
<1>3. /\ call' = [call EXCEPT ![c] = new]
      /\ access' = NoToken
      /\ UNCHANGED <<row, stale, disabled, secure, legacy, inFlight, srv, screen, began, incidents,
                     disturbed>>
  BY <1>0 DEF ClearAccess, Goes, Typed
<1> HIDE DEF new
<1>4. call'[c] = new /\ \A d \in Calls \ {c} : call'[d] = call[d]
  BY <1>0, <1>3 DEF Typed
<1>5. Typed'
  <2>1. call' \in [Calls -> Call]
    BY <1>0, <1>2, <1>3 DEF Typed
  <2> QED
    BY <1>0, <1>3, <2>1 DEF Typed, TokenOrNone
<1>6. \A d \in Calls : /\ Login(d)' = Login(d) /\ HasLock(d)' = HasLock(d)
                       /\ Rotation(d)' = Rotation(d) /\ SignIn(d)' = SignIn(d)
  BY <1>1, <1>2, <1>4 DEF Login, HasLock, Rotation, SignIn
<1>7. Shapes'
  BY <1>0, <1>1, <1>2, <1>3, <1>4, <1>6, IdleIsCall DEF Shapes, CallShape, Login
<1>8. Locked'
  BY <1>0, <1>3, <1>5, <1>6 DEF Locked, Typed
<1>9. Serving'
  BY <1>0, <1>1, <1>2, <1>3, <1>4 DEF Serving, Served, Typed, Request
<1>10. AllIssued'
  BY <1>0, <1>2, <1>3, <1>4 DEF AllIssued, Issued
<1> SUFFICES ASSUME ~disturbed PROVE Calm'
  BY <1>3, <1>5, <1>7, <1>8, <1>9, <1>10 DEF IInv, Always
<1>11. /\ SignInAlone /\ RotationsContinue /\ Pair /\ Screens /\ Causes
       /\ \A d \in Calls : ~SignIn(d)
  BY <1>0, <1>1, NoSignInBeside
<1>12. SignInAlone'
  BY <1>6, <1>11 DEF SignInAlone
<1>13. RotationsContinue'
  BY <1>1, <1>2, <1>3, <1>4, <1>6, <1>11 DEF RotationsContinue, Served
<1>14. Pair'
  BY <1>3, <1>6, <1>11 DEF Pair, Alive
<1>15. Screens'
  BY <1>1, <1>2, <1>3, <1>4, <1>6, <1>11 DEF Screens
<1>16. Caused => Caused'
  BY <1>2, <1>3, <1>4 DEF Caused, Gone, SigningOut, Alive
<1>17. NoToken \notin stale
  BY <1>0, NoTokenIsNone DEF Typed
<1>18. Causes'
  BY <1>1, <1>2, <1>3, <1>4, <1>11, <1>16, <1>17 DEF Causes, CauseOf
<1> QED
  BY <1>12, <1>13, <1>14, <1>15, <1>18 DEF Calm

LEMMA ClearRefreshKeeps ==
  ASSUME IInv, NEW c \in Calls, ClearRefresh(c)
  PROVE  IInv'
<1> USE DEF Rotating, Saving, Clearing
<1>0. /\ Typed /\ Shapes /\ Locked /\ Serving /\ AllIssued
      /\ ~disturbed => SignInAlone /\ RotationsContinue /\ Pair /\ Screens /\ Causes
  BY DEF IInv, Always, Calm
<1>1. call[c].pc = "clear2" /\ call[c] # Idle /\ ~Login(c)
  BY <1>0, IdleIsCall DEF ClearRefresh, Shapes, CallShape, Login
<1>2. /\ call' = [call EXCEPT ![c] = Idle]
      /\ legacy' = NoToken /\ screen' = "login" /\ secure' \in {secure, NoToken}
      /\ UNCHANGED <<row, stale, disabled, access, inFlight, srv, began>>
      /\ disturbed' \in BOOLEAN
  BY <1>0 DEF ClearRefresh, Ends, Disturbs, Typed
<1>3. ~disturbed' => /\ ~disturbed /\ secure' = NoToken /\ access = NoToken
                     /\ \A d \in Calls : call[d].pc \notin Rotating
  BY <1>0 DEF ClearRefresh, Disturbs, Typed
<1>4. call'[c] = Idle /\ \A d \in Calls \ {c} : call'[d] = call[d]
  BY <1>0, <1>2 DEF Typed
<1>5. Typed'
  <2>1. call' \in [Calls -> Call]
    BY <1>0, <1>2, IdleIsCall DEF Typed
  <2>2. incidents' \in 0..MaxIncidents
    BY <1>0, Bounds DEF ClearRefresh
  <2> QED
    BY <1>0, <1>2, <2>1, <2>2 DEF Typed, TokenOrNone
<1>6. \A d \in Calls : Login(d)' = Login(d) /\ HasLock(d)' = HasLock(d)
  BY <1>1, <1>4, IdleIsCall DEF Login, HasLock
<1>7. Shapes'
  BY <1>0, <1>2, <1>4, IdleIsCall DEF Shapes, CallShape
<1>8. Locked'
  BY <1>0, <1>2, <1>5, <1>6 DEF Locked, Typed
<1>9. Serving'
  BY <1>0, <1>1, <1>2, <1>4 DEF Serving, Served, Typed, Request
<1>10. AllIssued'
  <2>1. Issued(secure)' /\ Issued(legacy)' /\ Issued(access)'
    BY <1>0, <1>2 DEF AllIssued, Issued
  <2>2. \A d \in Calls : Issued(call[d].token)'
    BY <1>0, <1>2, <1>4, IdleIsCall DEF AllIssued, Issued
  <2>3. (\A h \in Servers : Issued(srv[h].token))' /\ (\A t \in stale : Issued(t))'
    BY <1>0, <1>2 DEF AllIssued, Issued
  <2> QED
    BY <2>1, <2>2, <2>3 DEF AllIssued
<1> SUFFICES ASSUME ~disturbed' PROVE Calm'
  BY <1>5, <1>7, <1>8, <1>9, <1>10 DEF IInv, Always
<1>11. /\ RotationsContinue /\ Causes /\ secure' = NoToken /\ access' = NoToken
       /\ \A d \in Calls : call[d].pc \notin Rotating /\ call'[d].pc \notin Rotating
  BY <1>0, <1>2, <1>3, <1>4, IdleIsCall
<1>12. SignInAlone'
  BY <1>11 DEF SignInAlone, SignIn
<1>13. RotationsContinue'
  <2>1. \A h \in Servers : ~Served(h)
    BY <1>0, <1>11 DEF RotationsContinue, Serving, Typed, Request
  <2> QED
    BY <1>2, <1>11, <2>1 DEF RotationsContinue, Served, Rotation
<1>14. Pair'
  BY <1>11 DEF Pair
<1>15. Screens'
  BY <1>2, <1>11 DEF Screens
<1>16. Causes'
  <2>1. Caused' /\ access' \notin stale'
    BY <1>0, <1>2, <1>11, NoTokenIsNone DEF Caused, Gone, Typed
  <2> QED
    BY <1>2, <1>4, <1>11, <2>1, IdleIsCall DEF Causes, CauseOf
<1> QED
  BY <1>12, <1>13, <1>14, <1>15, <1>16 DEF Calm

-----------------------------------------------------------------------------
(* The login screen *)

\* A sign-in begins, or ends with nothing.
LEMMA LoginBeginsKeeps ==
  ASSUME IInv, NEW c \in Calls, LoginBegins(c)
  PROVE  IInv'
<1> DEFINE new == [Idle EXCEPT !.op = "login", !.pc = "creds"]
<1>0. Typed /\ AllIssued
  BY DEF IInv, Always
<1>1. new \in Call /\ new.op = "login" /\ new.pc = "creds" /\ new.token = NoToken /\ new # Idle
  BY IdleIsCall DEF Idle, Call, TokenOrNone
<1>2. call' = [call EXCEPT ![c] = new] /\ screen = "login" /\ \A d \in Calls : ~Login(d)
  BY DEF LoginBegins, Login
<1> HIDE DEF new
<1>3. Fits(c, new) /\ FitsCalm(c, new)
  BY <1>1, <1>2 DEF Fits, FitsCalm, CallShape, Rotating, Clearing, Issued, CauseOf, SignIn
<1>4. call[c].pc \in Outside
  BY IdleIsCall DEF LoginBegins, Outside
<1>5. /\ UNCHANGED <<stale, disabled, access, secure, legacy, inFlight, srv, screen, disturbed>>
      /\ began' \in 0..MaxCalls /\ incidents' \in 0..MaxIncidents /\ row' = row
  BY <1>0, Bounds DEF LoginBegins
<1> QED
  BY <1>0, <1>1, <1>2, <1>3, <1>4, <1>5, RowsSame, CallMoves

LEMMA LoginEndsKeeps ==
  ASSUME IInv, NEW c \in Calls, call[c].pc = "creds", Ends(c),
         UNCHANGED <<row, stale, disabled, access, secure, legacy, inFlight, srv, screen, began,
                     incidents, disturbed>>
  PROVE  IInv'
<1>0. Typed
  BY DEF IInv, Always
<1>1. Fits(c, Idle) /\ FitsCalm(c, Idle)
  BY IdleIsCall DEF Fits, FitsCalm, CallShape, Rotating, Clearing, Issued, CauseOf, Beside
<1>2. began' \in 0..MaxCalls /\ incidents' \in 0..MaxIncidents
  BY <1>0, Bounds
<1> QED
  BY <1>0, <1>1, <1>2, IdleIsCall, RowsSame, CallMoves DEF Ends, Outside

LEMMA SignedInKeeps ==
  ASSUME IInv, NEW c \in Calls, LoginAnswered(c), ~disabled
  PROVE  IInv'
<1> USE DEF Rotating, Saving, Clearing
<1>0. /\ Typed /\ Shapes /\ Locked /\ Serving /\ AllIssued
      /\ ~disturbed => SignInAlone /\ RotationsContinue /\ Pair /\ Screens /\ Causes
  BY DEF IInv, Always, Calm
<1>1. PICK s \in SessionIds :
        /\ row[s] = NoRow /\ row' = [row EXCEPT ![s].hash = 1]
        /\ call' = [call EXCEPT ![c].pc = "save1", ![c].token = [s |-> s, n |-> 1]]
        /\ Disturbs(\E d \in Calls \ {c} : call[d] # Idle)
  BY DEF LoginAnswered
<1>2. PICK t \in Token : t = [s |-> s, n |-> 1]
  <2>1. [s |-> s, n |-> 1] \in Token
    BY DEF Token
  <2> QED
    BY <2>1
<1> DEFINE new == [call[c] EXCEPT !.pc = "save1", !.token = t]
<1>3. call[c] \in Call /\ call[c].pc = "creds" /\ call[c].op = "login" /\ screen = "login"
  BY <1>0 DEF LoginAnswered, Typed, Shapes, CallShape, Login
<1>4. new \in Call /\ new.pc = "save1" /\ new.op = "login" /\ new.token = t
  BY <1>3 DEF Call, TokenOrNone
<1>5. call' = [call EXCEPT ![c] = new]
  BY <1>0, <1>1, <1>2 DEF Typed
<1> HIDE DEF new
<1>6. call'[c] = new /\ \A d \in Calls \ {c} : call'[d] = call[d]
  BY <1>0, <1>5 DEF Typed
<1>7. /\ row' \in [SessionIds -> Row]
      /\ row[s].hash = 0 /\ row'[s].hash = 1 /\ ~row'[s].revoked /\ ~row'[s].lapsed
      /\ \A m \in SessionIds \ {s} : row'[m] = row[m]
  <2>1. row \in [SessionIds -> Row] /\ row[s] = [hash |-> 0, revoked |-> FALSE, lapsed |-> FALSE]
    BY <1>0, <1>1 DEF Typed, NoRow
  <2>2. row' \in [SessionIds -> Row] /\ \A m \in SessionIds \ {s} : row'[m] = row[m]
    <3>1. row' = [row EXCEPT ![s] = [row[s] EXCEPT !.hash = 1]]
      BY <1>1
    <3>2. [row[s] EXCEPT !.hash = 1] \in Row
      BY <2>1 DEF Row
    <3> QED
      BY <2>1, <3>1, <3>2
  <2>3. row'[s] = [row[s] EXCEPT !.hash = 1]
    BY <1>1, <2>1
  <2> QED
    BY <2>1, <2>2, <2>3
<1>8. /\ UNCHANGED <<stale, disabled, access, secure, legacy, inFlight, srv, screen, began, incidents>>
      /\ disturbed' \in BOOLEAN
      /\ ~disturbed' => ~disturbed /\ \A d \in Calls \ {c} : call[d] = Idle
  BY <1>0, <1>1 DEF LoginAnswered, Disturbs, Typed
<1>9. Typed'
  <2>1. call' \in [Calls -> Call]
    BY <1>0, <1>4, <1>5 DEF Typed
  <2> QED
    BY <1>0, <1>7, <1>8, <2>1 DEF Typed
<1>10. \A d \in Calls : Login(d)' = Login(d) /\ HasLock(d)' = HasLock(d)
  BY <1>3, <1>4, <1>6 DEF Login, HasLock
<1>11. Shapes'
  BY <1>0, <1>3, <1>4, <1>6, <1>8, <1>10, IdleIsCall DEF Shapes, CallShape, Login
<1>12. Locked'
  BY <1>0, <1>8, <1>9, <1>10 DEF Locked, Typed
<1>13. Serving'
  BY <1>0, <1>3, <1>6, <1>8 DEF Serving, Served, Typed, Request
<1>14. AllIssued'
  <2>1. \A u \in TokenOrNone : Issued(u) => Issued(u)'
    <3> SUFFICES ASSUME NEW u \in Token, row[u.s].hash >= u.n PROVE row'[u.s].hash >= u.n
      BY NoTokenIsNone DEF Issued, TokenOrNone
    <3>1. u.s \in SessionIds /\ u.n \in Nat
      BY TokenParts
    <3> QED
      BY <1>7, <3>1
  <2>2. \A d \in Calls : Issued(call[d].token)'
    <3> SUFFICES ASSUME NEW d \in Calls PROVE Issued(call[d].token)'
      OBVIOUS
    <3>1. CASE d = c
      BY <1>2, <1>4, <1>6, <1>7, <3>1 DEF Issued
    <3>2. CASE d # c
      BY <1>0, <1>6, <2>1, <3>2 DEF AllIssued, Typed, Call
    <3> QED
      BY <3>1, <3>2
  <2>3. \A u \in stale \cup {access, secure, legacy} : Issued(u) /\ u \in TokenOrNone
    BY <1>0 DEF AllIssued, Typed, TokenOrNone
  <2>4. \A u \in stale \cup {access, secure, legacy} : Issued(u)'
    BY <2>1, <2>3
  <2>5. \A h \in Servers : Issued(srv[h].token)'
    <3> SUFFICES ASSUME NEW h \in Servers PROVE Issued(srv[h].token)'
      OBVIOUS
    <3>1. Issued(srv[h].token) /\ srv[h].token \in TokenOrNone /\ srv' = srv
      BY <1>0, <1>8 DEF AllIssued, Typed, Request
    <3> QED
      BY <2>1, <3>1
  <2> QED
    BY <1>8, <2>2, <2>4, <2>5 DEF AllIssued
<1> SUFFICES ASSUME ~disturbed' PROVE Calm'
  BY <1>9, <1>11, <1>12, <1>13, <1>14 DEF IInv, Always
<1>15. /\ RotationsContinue /\ Pair /\ Screens
       /\ \A d \in Calls \ {c} : call[d] = Idle /\ call'[d] = Idle
  BY <1>0, <1>6, <1>8
<1>16. access = NoToken
  BY <1>3, <1>15, IdleIsCall DEF Screens, Login
<1>17. \A h \in Servers : ~Served(h)
  BY <1>0, <1>3, <1>15, IdleIsCall DEF RotationsContinue, Serving, Typed, Request
<1>18. \A d \in Calls : /\ ~Rotation(d) /\ ~Rotation(d)' /\ call'[d].pc # "rsent"
                        /\ SignIn(d)' = (d = c)
  BY <1>3, <1>4, <1>6, <1>15, IdleIsCall DEF Rotation, SignIn, Login
<1>19. SignInAlone'
  <2>1. t \notin stale
    BY <1>0, <1>2, <1>7, NoTokenIsNone DEF AllIssued, Issued
  <2>2. Alive(t.s)' /\ row'[t.s].hash = t.n
    BY <1>2, <1>7 DEF Alive
  <2>3. call'[c].token = t /\ call'[c].pc = "save1"
    BY <1>4, <1>6
  <2>4. StoresAlone(c, call[c].token)'
    BY <1>8, <1>15, <1>16, <1>17, <2>1, <2>2, <2>3 DEF StoresAlone, Served, Beside
  <2> QED
    BY <1>18, <2>4 DEF SignInAlone
<1>20. RotationsContinue'
  BY <1>8, <1>15, <1>17, <1>18 DEF RotationsContinue, Served
<1>21. Pair'
  <2>1. secure # NoToken => secure.s # s /\ secure.s \in SessionIds
    BY <1>0, <1>7, TokenParts DEF AllIssued, Issued, Typed, TokenOrNone
  <2> QED
    BY <1>7, <1>8, <1>15, <1>16, <1>18, <2>1 DEF Pair, Alive
<1>22. Screens'
  BY <1>3, <1>8, <1>16, <1>18 DEF Screens
<1>23. Causes'
  BY <1>4, <1>6, <1>15, IdleIsCall DEF Causes, CauseOf
<1> QED
  BY <1>19, <1>20, <1>21, <1>22, <1>23 DEF Calm

LEMMA LoginAnsweredKeeps ==
  ASSUME IInv, NEW c \in Calls, LoginAnswered(c)
  PROVE  IInv'
<1>1. CASE disabled
  BY <1>1, LoginEndsKeeps DEF LoginAnswered
<1>2. CASE ~disabled
  BY <1>2, SignedInKeeps
<1> QED
  BY <1>1, <1>2

-----------------------------------------------------------------------------
(* What happens to both sides *)

LEMMA AccessExpiresKeeps ==
  ASSUME IInv, NEW t, AccessExpires(t)
  PROVE  IInv'
<1> USE DEF Rotating, Saving, Clearing
<1>0. /\ Typed /\ Shapes /\ Locked /\ Serving /\ AllIssued
      /\ ~disturbed => SignInAlone /\ RotationsContinue /\ Pair /\ Screens /\ Causes
  BY DEF IInv, Always, Calm
<1>1. /\ t \in Token /\ stale' = stale \cup {t}
      /\ UNCHANGED <<row, disabled, access, secure, legacy, inFlight, call, srv, screen, began,
                     incidents>>
      /\ disturbed' \in BOOLEAN
      /\ ~disturbed' => /\ ~disturbed
                        /\ \A c \in Calls : /\ call[c].pc \notin {"save1", "save2", "resend"}
                                            /\ call[c].pc = "sent" => ~call[c].retried
  BY <1>0 DEF AccessExpires, Disturbs, Typed
<1>2. Issued(t)
  BY <1>0 DEF AccessExpires, AllIssued
<1>3. Typed'
  BY <1>0, <1>1 DEF Typed
<1>4. Shapes' /\ Locked' /\ Serving'
  BY <1>0, <1>1 DEF Shapes, Locked, Serving, CallShape, Login, HasLock, Served
<1>5. AllIssued'
  BY <1>0, <1>1, <1>2 DEF AllIssued, Issued
<1> SUFFICES ASSUME ~disturbed' PROVE Calm'
  BY <1>3, <1>4, <1>5 DEF IInv, Always
<1>6. SignInAlone'
  BY <1>1 DEF SignInAlone, SignIn
<1>7. RotationsContinue' /\ Pair' /\ Screens'
  BY <1>0, <1>1 DEF RotationsContinue, Pair, Screens, Rotation, SignIn, Login, Served, Alive
<1>8. Causes'
  BY <1>0, <1>1 DEF Causes, CauseOf, Caused, Gone, SigningOut, Alive
<1> QED
  BY <1>6, <1>7, <1>8 DEF Calm

LEMMA SessionLapsesKeeps ==
  ASSUME IInv, NEW s \in SessionIds, SessionLapses(s)
  PROVE  IInv'
<1> USE DEF Rotating, Saving, Clearing
<1>0. /\ Typed /\ Shapes /\ Locked /\ Serving /\ AllIssued
      /\ ~disturbed => SignInAlone /\ RotationsContinue /\ Pair /\ Screens /\ Causes
  BY DEF IInv, Always, Calm
<1>1. /\ row' = [row EXCEPT ![s].lapsed = TRUE]
      /\ UNCHANGED <<stale, disabled, access, secure, legacy, inFlight, call, srv, screen, began>>
      /\ disturbed' \in BOOLEAN
      /\ ~disturbed' => /\ ~disturbed
                        /\ \A h \in Servers : Served(h) => srv[h].token.s # s
                        /\ \A c \in Calls : call[c].pc \notin Saving
  BY <1>0 DEF SessionLapses, Disturbs, Typed, Served
<1>2. /\ row' \in [SessionIds -> Row]
      /\ \A m \in SessionIds : row'[m].hash = row[m].hash /\ row'[m].revoked = row[m].revoked
      /\ row'[s].lapsed /\ \A m \in SessionIds \ {s} : row'[m] = row[m]
  <2>1. row[s] \in Row
    BY <1>0 DEF Typed
  <2>2. row'[s] = [row[s] EXCEPT !.lapsed = TRUE]
    BY <1>0, <1>1 DEF Typed
  <2>3. /\ row'[s] \in Row /\ row'[s].hash = row[s].hash /\ row'[s].revoked = row[s].revoked
        /\ row'[s].lapsed
    BY <2>1, <2>2 DEF Row
  <2>4. row' = [row EXCEPT ![s] = row'[s]]
    BY <1>0, <1>1, <2>2 DEF Typed
  <2> QED
    BY <1>0, <2>3, <2>4 DEF Typed
<1>3. \A m \in SessionIds : Alive(m)' => Alive(m)
  BY <1>2 DEF Alive
<1>4. Typed'
  BY <1>0, <1>1, <1>2, Bounds DEF Typed, SessionLapses
<1>5. Shapes' /\ Locked' /\ Serving'
  BY <1>0, <1>1 DEF Shapes, Locked, Serving, CallShape, Login, HasLock, Served
<1>6. AllIssued'
  <2>1. \A u \in TokenOrNone : Issued(u) => Issued(u)'
    BY <1>2, TokenParts DEF Issued, TokenOrNone
  <2>2. \A u \in stale \cup {access, secure, legacy} : Issued(u) /\ u \in TokenOrNone
    BY <1>0 DEF AllIssued, Typed, TokenOrNone
  <2>3. \A u \in stale \cup {access, secure, legacy} : Issued(u)'
    BY <2>1, <2>2
  <2>4. \A d \in Calls : Issued(call[d].token)'
    <3> SUFFICES ASSUME NEW d \in Calls PROVE Issued(call[d].token)'
      OBVIOUS
    <3>1. Issued(call[d].token) /\ call[d].token \in TokenOrNone /\ call' = call
      BY <1>0, <1>1 DEF AllIssued, Typed, Call
    <3> QED
      BY <2>1, <3>1
  <2>5. \A h \in Servers : Issued(srv[h].token)'
    <3> SUFFICES ASSUME NEW h \in Servers PROVE Issued(srv[h].token)'
      OBVIOUS
    <3>1. Issued(srv[h].token) /\ srv[h].token \in TokenOrNone /\ srv' = srv
      BY <1>0, <1>1 DEF AllIssued, Typed, Request
    <3> QED
      BY <2>1, <3>1
  <2> QED
    BY <1>1, <2>3, <2>4, <2>5 DEF AllIssued
<1> SUFFICES ASSUME ~disturbed' PROVE Calm'
  BY <1>4, <1>5, <1>6 DEF IInv, Always
<1>7. /\ RotationsContinue /\ Pair /\ Screens /\ Causes
      /\ \A d \in Calls : /\ ~SignIn(d) /\ ~Rotation(d) /\ ~SignIn(d)' /\ ~Rotation(d)'
                          /\ Login(d)' = Login(d)
  BY <1>0, <1>1 DEF SignIn, Rotation, Login
<1>8. SignInAlone'
  BY <1>7 DEF SignInAlone
<1>9. RotationsContinue'
  <2>1. \A h \in Servers : Served(h) => secure \in Token /\ secure.s \in SessionIds \ {s}
    BY <1>0, <1>1, <1>7, TokenParts DEF RotationsContinue, Serving
  <2>2. \A h \in Servers : Served(h) => row'[secure.s] = row[secure.s]
    BY <1>2, <2>1
  <2>3. \A h \in Servers : Served(h) =>
          srv[h].from # Nobody /\ srv[h].token = secure /\ ~row'[secure.s].lapsed
    BY <1>7, <2>2 DEF RotationsContinue
  <2>4. secure' = secure /\ srv' = srv
    BY <1>1
  <2>5. (\A h \in Servers : Served(h) =>
          srv[h].from # Nobody /\ srv[h].token = secure /\ ~row[secure.s].lapsed)'
    BY <2>3, <2>4 DEF Served
  <2> QED
    BY <1>1, <1>7, <2>5 DEF RotationsContinue
<1>10. secure # NoToken => secure.s \in SessionIds
  BY <1>0, TokenParts DEF Typed, TokenOrNone
<1>11. Pair'
  BY <1>1, <1>2, <1>3, <1>7, <1>10 DEF Pair
<1>12. Screens'
  BY <1>1, <1>7 DEF Screens
<1>13. Caused => Caused'
  BY <1>1, <1>3, <1>10 DEF Caused, Gone, SigningOut
<1>14. Causes'
  BY <1>1, <1>7, <1>13 DEF Causes, CauseOf
<1> QED
  BY <1>8, <1>9, <1>11, <1>12, <1>14 DEF Calm

LEMMA UserDisabledKeeps ==
  ASSUME IInv, UserDisabled
  PROVE  IInv'
<1>0. /\ Typed /\ Shapes /\ Locked /\ Serving /\ AllIssued
      /\ ~disturbed => SignInAlone /\ RotationsContinue /\ Pair /\ Screens /\ Causes
  BY DEF IInv, Always, Calm
<1>1. /\ disabled' = TRUE
      /\ UNCHANGED <<row, stale, access, secure, legacy, inFlight, call, srv, screen, began, disturbed>>
  BY DEF UserDisabled
<1>2. Typed'
  BY <1>0, <1>1, Bounds DEF Typed, UserDisabled
<1>3. Shapes' /\ Locked' /\ Serving' /\ AllIssued'
  BY <1>0, <1>1
     DEF Shapes, Locked, Serving, AllIssued, CallShape, Login, HasLock, Served, Issued
<1> SUFFICES ASSUME ~disturbed PROVE Calm'
  BY <1>1, <1>2, <1>3 DEF IInv, Always
<1>4. SignInAlone'
  <2>1. ASSUME NEW t, NEW c \in Calls, StoresAlone(c, t) PROVE StoresAlone(c, t)'
    BY <1>1, <2>1 DEF StoresAlone, Beside, Served, Alive
  <2> QED
    BY <1>0, <1>1, <2>1 DEF SignInAlone, SignIn, Login
<1>5. RotationsContinue' /\ Pair' /\ Screens'
  BY <1>0, <1>1 DEF RotationsContinue, Pair, Screens, Rotation, SignIn, Login, Served, Alive
<1>6. Causes'
  <2>1. Caused'
    BY <1>1 DEF Caused, Gone
  <2> QED
    BY <1>0, <1>1, <2>1 DEF Causes, CauseOf
<1> QED
  BY <1>4, <1>5, <1>6 DEF Calm

LEMMA AppRestartsKeeps ==
  ASSUME IInv, AppRestarts
  PROVE  IInv'
<1> USE DEF Rotating, Saving, Clearing
<1>0. /\ Typed /\ Shapes /\ Locked /\ Serving /\ AllIssued
      /\ ~disturbed => SignInAlone /\ RotationsContinue /\ Pair /\ Screens /\ Causes
  BY DEF IInv, Always, Calm
<1>1. /\ \A c \in Calls : call'[c] = Idle
      /\ inFlight' = Nobody
      /\ screen' = IF access = NoToken THEN "login" ELSE "app"
      /\ UNCHANGED <<row, stale, disabled, access, secure, legacy, began>>
      /\ disturbed' \in BOOLEAN
      /\ ~disturbed' => /\ ~disturbed /\ \A c \in Calls : call[c].pc \notin Saving
                        /\ \A h \in Servers : srv[h].from = Nobody
  BY <1>0 DEF AppRestarts, Disturbs, Typed
<1>2. /\ srv' \in [Servers -> Request]
      /\ \A h \in Servers : /\ srv'[h].from = Nobody /\ srv'[h].token = srv[h].token
                            /\ Served(h)' => Served(h)
  <2>1. \A h \in Servers : srv'[h] = [srv[h] EXCEPT !.from = Nobody]
    BY DEF AppRestarts
  <2>2. \A h \in Servers : srv[h] = NoRequest => srv'[h] = NoRequest
    BY <2>1 DEF NoRequest
  <2> QED
    BY <1>0, <2>1, <2>2 DEF AppRestarts, Typed, Request, Served
<1>3. Typed'
  <2>1. call' \in [Calls -> Call]
    BY IdleIsCall DEF AppRestarts
  <2> QED
    BY <1>0, <1>1, <1>2, <2>1, Bounds DEF Typed, AppRestarts
<1>4. Shapes' /\ Locked'
  BY <1>1, IdleIsCall DEF Shapes, Locked, CallShape, Login, HasLock
<1>5. Serving'
  <2>1. ASSUME NEW h \in Servers, Served(h)' PROVE srv'[h].token \in Token
    BY <1>0, <1>2, <2>1 DEF Serving
  <2>2. \A h \in Servers : srv'[h].from = Nobody
    BY <1>2
  <2> QED
    BY <2>1, <2>2 DEF Serving
<1>6. AllIssued'
  <2>1. Issued(secure)' /\ Issued(legacy)' /\ Issued(access)' /\ (\A t \in stale : Issued(t))'
    BY <1>0, <1>1 DEF AllIssued, Issued
  <2>2. \A c \in Calls : Issued(call[c].token)'
    BY <1>1, IdleIsCall DEF Issued
  <2>3. \A h \in Servers : Issued(srv[h].token)'
    <3> SUFFICES ASSUME NEW h \in Servers PROVE Issued(srv[h].token)'
      OBVIOUS
    <3>1. Issued(srv[h].token) /\ srv'[h].token = srv[h].token /\ row' = row
      BY <1>0, <1>1, <1>2 DEF AllIssued
    <3> QED
      BY <3>1 DEF Issued
  <2> QED
    BY <2>1, <2>2, <2>3 DEF AllIssued
<1> SUFFICES ASSUME ~disturbed' PROVE Calm'
  BY <1>3, <1>4, <1>5, <1>6 DEF IInv, Always
<1>7. /\ RotationsContinue /\ Pair
      /\ \A c \in Calls : ~Rotation(c) /\ call[c].pc # "save2"
      /\ \A c \in Calls : ~Rotation(c)' /\ ~SignIn(c)' /\ ~Login(c)' /\ call'[c].pc = "idle"
  BY <1>0, <1>1, IdleIsCall DEF Rotation, SignIn, Login
<1>8. \A h \in Servers : ~Served(h)'
  <2>1. \A h \in Servers : srv[h] = NoRequest
    BY <1>1, <1>7 DEF RotationsContinue, Served
  <2>2. srv' = srv
    BY <1>0, <2>1 DEF AppRestarts, NoRequest, Typed
  <2> QED
    BY <2>1, <2>2 DEF Served
<1>9. SignInAlone'
  BY <1>7 DEF SignInAlone
<1>10. RotationsContinue'
  BY <1>1, <1>7, <1>8 DEF RotationsContinue
<1>11. Pair'
  BY <1>1, <1>7 DEF Pair, Alive
<1>12. Screens'
  BY <1>1, <1>7 DEF Screens
<1>13. Causes'
  BY <1>7 DEF Causes, CauseOf
<1> QED
  BY <1>9, <1>10, <1>11, <1>12, <1>13 DEF Calm

LEMMA StutterKeeps == IInv /\ UNCHANGED vars => IInv'
<1> SUFFICES ASSUME IInv, UNCHANGED vars PROVE IInv'
  OBVIOUS
<1>0. /\ Typed /\ Shapes /\ Locked /\ Serving /\ AllIssued
      /\ ~disturbed => SignInAlone /\ RotationsContinue /\ Pair /\ Screens /\ Causes
  BY DEF IInv, Always, Calm
<1> USE DEF vars
<1>1. Typed' /\ Shapes' /\ Locked' /\ Serving' /\ AllIssued'
  BY <1>0 DEF Typed, Shapes, Locked, Serving, AllIssued, CallShape, Login, HasLock, Served, Issued
<1>2. ~disturbed => SignInAlone'
  BY <1>0 DEF SignInAlone, StoresAlone, SignIn, Login, Beside, Served, Alive
<1>3. ~disturbed => RotationsContinue' /\ Pair' /\ Screens'
  BY <1>0 DEF RotationsContinue, Pair, Screens, Rotation, SignIn, Login, Served, Alive
<1>4. ~disturbed => Causes'
  BY <1>0 DEF Causes, CauseOf, Caused, Gone, SigningOut, Alive
<1> QED
  BY <1>1, <1>2, <1>3, <1>4 DEF IInv, Always, Calm

-----------------------------------------------------------------------------
(* Every step *)

LEMMA CallStepKeeps ==
  ASSUME IInv, NEW c \in Calls, CallStep(c)
  PROVE  IInv'
<1>1. CASE Answered(c)
  BY <1>1, AnsweredKeeps
<1>2. CASE Resend(c)
  BY <1>2, ResendKeeps
<1>3. CASE Unauthorized(c)
  BY <1>3, TakesLock, JoinKeeps
<1>4. CASE ReadRefresh(c)
  BY <1>4, ReadRefreshKeeps
<1>5. CASE SaveAccess(c)
  BY <1>5, SaveAccessKeeps
<1>6. CASE SaveRefresh(c)
  BY <1>6, SaveRefreshKeeps
<1>7. CASE ClearAccess(c)
  BY <1>7, ClearAccessKeeps
<1>8. CASE ClearRefresh(c)
  BY <1>8, ClearRefreshKeeps
<1>9. CASE LoginAnswered(c)
  BY <1>9, LoginAnsweredKeeps
<1>10. CASE LoginFails(c)
  BY <1>10, LoginEndsKeeps DEF LoginFails
<1> QED
  BY <1>1, <1>2, <1>3, <1>4, <1>5, <1>6, <1>7, <1>8, <1>9, <1>10 DEF CallStep

LEMMA FaultsKeep ==
  ASSUME IInv, Faults
  PROVE  IInv'
<1>1. ASSUME NEW c \in Calls,
             \/ CallLost(c) \/ FlightLost(c) \/ RefreshThrows(c)
             \/ ReadRefreshFails(c) \/ SaveRefreshFails(c)
      PROVE  IInv'
  BY <1>1, CallLostKeeps, FlightLostKeeps, RefreshThrowsKeeps, ReadRefreshFailsKeeps,
     SaveRefreshFailsKeeps
<1>2. ASSUME NEW s \in SessionIds, SessionLapses(s) PROVE IInv'
  BY <1>2, SessionLapsesKeeps
<1> QED
  BY <1>1, <1>2, UserDisabledKeeps, AppRestartsKeeps DEF Faults

LEMMA NextKeepsIInv == IInv /\ [Next]_vars => IInv'
<1> SUFFICES ASSUME IInv, [Next]_vars PROVE IInv'
  OBVIOUS
<1>1. ASSUME NEW c \in Calls, NEW op \in {"api", "put", "logout"}, CallBegins(c, op) PROVE IInv'
  BY <1>1, CallBeginsKeeps
<1>2. ASSUME NEW c \in Calls, LoginBegins(c) PROVE IInv'
  BY <1>2, LoginBeginsKeeps
<1>3. ASSUME NEW c \in Calls, CallStep(c) PROVE IInv'
  BY <1>3, CallStepKeeps
<1>4. ASSUME NEW h \in Servers, ServerStep(h) PROVE IInv'
  <2>1. ASSUME NEW c \in Calls, RefreshRead(h, c) PROVE IInv'
    BY <2>1, RefusedKeeps, AcceptedKeeps
  <2> QED
    BY <1>4, <2>1, RefreshWriteKeeps DEF ServerStep
<1>5. ASSUME NEW t, AccessExpires(t) PROVE IInv'
  BY <1>5, AccessExpiresKeeps
<1>6. CASE Faults
  BY <1>6, FaultsKeep
<1>7. CASE UNCHANGED vars
  BY <1>7, StutterKeeps
<1> QED
  BY <1>1, <1>2, <1>3, <1>4, <1>5, <1>6, <1>7 DEF Next

-----------------------------------------------------------------------------
(* Signing out *)

SigningOutNow == \E c \in Calls : call[c].op = "logout" /\ call[c].pc \in {"clear1", "clear2"}

\* Only ClearAccess takes the access token away.
LEMMA OnlyClearAccess ==
  ASSUME IInv, Next, access # NoToken, access' = NoToken
  PROVE  \E c \in Calls : ClearAccess(c)
<1> SUFFICES ASSUME \A c \in Calls : ~ClearAccess(c) PROVE access' # NoToken
  OBVIOUS
<1>1. \A c \in Calls : call[c].pc = "save1" => call[c].token # NoToken
  BY NoTokenIsNone DEF IInv, Always, Shapes, CallShape, Rotating
<1>2. ASSUME NEW c \in Calls, CallStep(c) PROVE access' # NoToken
  BY <1>1, <1>2
     DEF CallStep, Answered, Resend, Unauthorized, ReadRefresh, SaveAccess, SaveRefresh,
         ClearRefresh, LoginAnswered, LoginFails
<1>3. ASSUME NEW c \in Calls,
             \/ \E op \in {"api", "put", "logout"} : CallBegins(c, op)
             \/ LoginBegins(c)
      PROVE  access' # NoToken
  BY <1>3 DEF CallBegins, LoginBegins
<1>4. ASSUME NEW h \in Servers, ServerStep(h) PROVE access' # NoToken
  BY <1>4 DEF ServerStep, RefreshWrite, RefreshRead
<1>5. ASSUME NEW t, AccessExpires(t) PROVE access' # NoToken
  BY <1>5 DEF AccessExpires
<1>6. CASE Faults
  BY <1>6 DEF Faults, CallLost, FlightLost, RefreshThrows, ReadRefreshFails, SaveRefreshFails,
              SessionLapses, UserDisabled, AppRestarts
<1> QED
  BY <1>2, <1>3, <1>4, <1>5, <1>6 DEF Next

LEMMA ClearedForCause ==
  ASSUME IInv, NEW c \in Calls, ClearAccess(c),
         access # NoToken, Alive(access.s), ~disabled, ~disturbed
  PROVE  SigningOutNow
<1>1. Typed /\ Shapes /\ SignInAlone /\ RotationsContinue /\ Pair /\ Causes
  BY DEF IInv, Always, Calm
<1>2. call[c].pc = "clear1" /\ ~Login(c) /\ CauseOf(call[c])
  BY <1>1 DEF ClearAccess, Shapes, CallShape, Login, Causes
<1>3. \A d \in Calls : ~SignIn(d)
  BY <1>2, NoSignInBeside
<1>4. secure # NoToken /\ secure.s = access.s
  <2>1. CASE \A d \in Calls : call[d].pc # "save2"
    BY <1>1, <2>1 DEF Pair
  <2>2. ASSUME NEW d \in Calls, call[d].pc = "save2" PROVE secure # NoToken /\ secure.s = access.s
    <3>1. Rotation(d)
      BY <1>3, <2>2 DEF Rotation, SignIn, Saving
    <3> QED
      BY <1>1, <2>2, <3>1 DEF RotationsContinue
  <2> QED
    BY <2>1, <2>2
<1>5. ~Gone
  BY <1>4 DEF Gone
<1>6. call[c].op = "logout" \/ SigningOut
  BY <1>2, <1>5 DEF CauseOf, Caused, Clearing
<1> QED
  BY <1>2, <1>6 DEF SigningOut, Clearing, SigningOutNow

LEMMA StepSignsOutForCause ==
  IInv /\ [Next]_vars =>
    [access # NoToken /\ Alive(access.s) /\ ~disabled /\ access' = NoToken /\ ~disturbed =>
       SigningOutNow]_vars
<1> SUFFICES ASSUME IInv, Next, access # NoToken, Alive(access.s), ~disabled, access' = NoToken,
                    ~disturbed
             PROVE  SigningOutNow
  OBVIOUS
<1> QED
  BY OnlyClearAccess, ClearedForCause

-----------------------------------------------------------------------------
(* The theorems *)

\* The inductive invariant, for any number of calls, refresh requests, sign-ins and incidents.
THEOREM SessionInvariant == Spec => []IInv
  BY InitIInv, NextKeepsIInv, PTL DEF Spec

\* The variables keep their types; the lock is held by a call that refreshes, and the server
\* answers calls that wait for it.
THEOREM SessionTypeCorrect == Spec => []TypeOK
  BY SessionInvariant, IInvTypeOK, PTL

\* Parallel 401s, late answers, sign-ins, sign-outs, expiries and lost requests leave the pair on
\* the phone in step with the row of its session, however many calls are in progress.
THEOREM PairStaysInStep == Spec => []PairInStep
  BY SessionInvariant, IInvPair, PTL

\* A session that is alive is given up on the phone only while the user signs out.
THEOREM SignsOutOnlyForCause == Spec => SignedOutForCause
  BY SessionInvariant, StepSignsOutForCause, PTL DEF Spec, SignedOutForCause, SigningOutNow
=============================================================================
