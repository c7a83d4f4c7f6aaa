---------------------------- MODULE MobileSession ----------------------------
(***************************************************************************)
(* The phone's sign-in (apps/mobile/lib/api.ts, refresh-lock.ts,           *)
(* session.ts) against the server's rotating refresh tokens                *)
(* (web lib/mobile/mobile-session.ts, require-mobile-bearer.ts and the     *)
(* routes under api/v1/auth).                                              *)
(*                                                                         *)
(* A token [s, n] is the n-th pair signed for session s: its access token  *)
(* is an expiring JWT, its refresh token is the one whose hash the         *)
(* session's row holds until the next rotation.  A member of Calls is one  *)
(* call in progress on the phone; each await ends a step.  A member of     *)
(* Servers is a refresh request that has read the row and not yet          *)
(* written it.  The other handlers decide on one read of the row.          *)
(***************************************************************************)
EXTENDS Naturals, FiniteSets

CONSTANTS Calls,          \* calls the phone has in progress at once
          Servers,        \* refresh requests the server works on at once
          Nobody,         \* no call
          NoToken,
          MaxSessions,    \* bound: sign-ins
          MaxCalls,       \* bound: calls begun
          MaxIncidents    \* bound: lost calls, kills, failures of a store, endings by the clock

ASSUME SessionConstants ==
  /\ Nobody \notin Calls /\ NoToken \notin [s : Nat, n : Nat]
  /\ MaxSessions \in Nat \ {0} /\ MaxCalls \in Nat /\ MaxIncidents \in Nat

VARIABLES row,        \* the MobileSession rows, numbered by creation
          stale,      \* access tokens whose JWT has expired
          disabled,   \* disabledAt of the user
          access,     \* AsyncStorage: the access token
          secure,     \* SecureStore: the refresh token
          legacy,     \* AsyncStorage: the refresh token where SecureStore failed
          inFlight,   \* the call whose refresh the others await
          call,       \* the phone's calls
          srv,        \* refresh requests in progress on the server
          screen,     \* the screen shown
          began, incidents,   \* how much of the bounds is used
          disturbed   \* history: see Disturbs

vars == <<row, stale, disabled, access, secure, legacy, inFlight, call, srv, screen, began,
          incidents, disturbed>>

-----------------------------------------------------------------------------
SessionIds == 1..MaxSessions
Token == [s : SessionIds, n : Nat \ {0}]
TokenOrNone == Token \cup {NoToken}

NoRow == [hash |-> 0, revoked |-> FALSE, lapsed |-> FALSE]
Alive(s) == row[s].hash > 0 /\ ~row[s].revoked /\ ~row[s].lapsed

Idle == [op |-> "idle", pc |-> "idle", retried |-> FALSE, token |-> NoToken]
NoRequest == [token |-> NoToken, from |-> Nobody]

\* Steps in which a call holds a pair that is not yet stored, or has sent the refresh token.
Rotating == {"rsent", "save1", "save2"}

TypeOK ==
  /\ row \in [SessionIds -> [hash : Nat, revoked : BOOLEAN, lapsed : BOOLEAN]]
  /\ stale \subseteq Token
  /\ disabled \in BOOLEAN
  /\ access \in TokenOrNone /\ secure \in TokenOrNone /\ legacy \in TokenOrNone
  /\ inFlight \in Calls \cup {Nobody}
  /\ call \in [Calls -> [op : {"idle", "api", "put", "logout", "login"},
                         pc : {"idle", "sent", "unauth", "join", "refresh", "rsent", "save1",
                               "save2", "resend", "clear1", "clear2", "creds"},
                         retried : BOOLEAN, token : TokenOrNone]]
  /\ srv \in [Servers -> [token : TokenOrNone, from : Calls \cup {Nobody}]]
  /\ screen \in {"login", "app"}
  /\ began \in 0..MaxCalls /\ incidents \in 0..MaxIncidents
  /\ disturbed \in BOOLEAN
  \* The lock is held by a call that refreshes, and the server answers calls that wait for it.
  /\ inFlight # Nobody => call[inFlight].pc \in Rotating \cup {"refresh"}
  /\ \A h \in Servers : srv[h].from # Nobody => call[srv[h].from].pc = "rsent"

\* As a sign-in leaves them.
Init ==
  /\ row = [s \in SessionIds |-> IF s = 1 THEN [NoRow EXCEPT !.hash = 1] ELSE NoRow]
  /\ stale = {} /\ disabled = FALSE
  /\ access = [s |-> 1, n |-> 1] /\ secure = [s |-> 1, n |-> 1] /\ legacy = NoToken
  /\ inFlight = Nobody
  /\ call = [c \in Calls |-> Idle]
  /\ srv = [h \in Servers |-> NoRequest]
  /\ screen = "app"
  /\ began = 0 /\ incidents = 0 /\ disturbed = FALSE

Incident == incidents < MaxIncidents /\ incidents' = incidents + 1
Goes(c, pc) == call' = [call EXCEPT ![c].pc = pc]
Ends(c) == call' = [call EXCEPT ![c] = Idle]
Disturbs(condition) == disturbed' = (disturbed \/ condition)

-----------------------------------------------------------------------------
(* apiFetch and putUriWithProgress: a request under the stored access token *)

\* The screens send whatever they have; putOnce and the rest of the queue throw without a token.
CallBegins(c, op) ==
  /\ call[c] = Idle
  /\ op = "logout" => screen = "app"
  /\ access # NoToken \/ (op = "api" /\ screen = "app")
  /\ began < MaxCalls
  /\ began' = began + 1
  /\ call' = [call EXCEPT ![c] = [Idle EXCEPT !.op = op, !.pc = "sent", !.token = access]]
  /\ UNCHANGED <<row, stale, disabled, access, secure, legacy, inFlight, srv, screen, incidents,
                 disturbed>>

\* requireMobileBearer
Bearer(t) ==
  IF t = NoToken \/ t \in stale THEN 401
  ELSE IF ~Alive(t.s) THEN 401
  ELSE IF disabled THEN 403 ELSE 200

\* What a call does with a status that ends it: a sign-out clears the tokens all the same.
AfterCall(op) == IF op = "logout" THEN "clear1" ELSE "idle"
Ended(r, pc) == IF pc = "idle" THEN Idle ELSE [r EXCEPT !.pc = pc, !.token = NoToken]

\* A retried 401 clears the tokens, except in the upload, which only fails.
AfterAnswer(r, status) ==
  CASE status = 401 /\ ~r.retried -> "unauth"
    [] status = 401 /\ r.retried /\ r.op # "put" -> "clear1"
    [] status = 403 /\ r.op = "put" /\ ~r.retried -> "unauth"
    [] OTHER -> AfterCall(r.op)

Answered(c) ==
  LET r == call[c] status == Bearer(r.token)
  IN /\ r.pc = "sent"
     /\ call' = [call EXCEPT ![c] = Ended(r, AfterAnswer(r, status))]
     /\ row' = IF r.op = "logout" /\ status = 200
               THEN [row EXCEPT ![r.token.s].revoked = TRUE] ELSE row
     /\ UNCHANGED <<stale, disabled, access, secure, legacy, inFlight, srv, screen, began,
                    incidents, disturbed>>

\* fetch throws: the request was lost, or its answer was.
CallLost(c) ==
  LET r == call[c]
  IN /\ Incident
     /\ r.pc = "sent"
     /\ call' = [call EXCEPT ![c] = Ended(r, AfterCall(r.op))]
     /\ \/ UNCHANGED row
        \/ r.op = "logout" /\ Bearer(r.token) = 200 /\ row' = [row EXCEPT ![r.token.s].revoked = TRUE]
     /\ UNCHANGED <<stale, disabled, access, secure, legacy, inFlight, srv, screen, began,
                    disturbed>>

\* doFetch again
Resend(c) ==
  LET r == call[c]
  IN /\ r.pc = "resend"
     /\ call' = [call EXCEPT ![c] =
          IF r.op = "put" /\ access = NoToken THEN Idle
          ELSE [r EXCEPT !.pc = "sent", !.retried = TRUE, !.token = access]]
     /\ UNCHANGED <<row, stale, disabled, access, secure, legacy, inFlight, srv, screen, began,
                    incidents, disturbed>>

-----------------------------------------------------------------------------
(* createSingleFlight and refreshPairInner *)

\* Mutant: every caller runs a refresh of its own.
NeverTaken == TRUE

LockFree == inFlight = Nobody

Unauthorized(c) ==
  /\ call[c].pc = "unauth"
  /\ IF LockFree THEN inFlight' = c /\ Goes(c, "refresh") ELSE UNCHANGED inFlight /\ Goes(c, "join")
  /\ UNCHANGED <<row, stale, disabled, access, secure, legacy, srv, screen, began, incidents,
                 disturbed>>

\* Mutant: the lock is released on success only.
ReleasedOnSuccess(result) == inFlight' = IF result = "ok" THEN Nobody ELSE inFlight

Released(result) == inFlight' = Nobody

\* The promise settles for the call that ran it and for those that await it.
AfterFlight(r, result) ==
  CASE result = "ok" -> [r EXCEPT !.pc = "resend", !.token = NoToken]
    [] result = "false" /\ r.op # "put" -> Ended(r, "clear1")
    [] OTHER -> Ended(r, AfterCall(r.op))
FlightEnds(c, result) ==
  /\ Released(result)
  /\ call' = [d \in Calls |-> IF d = c \/ call[d].pc = "join" THEN AfterFlight(call[d], result)
                              ELSE call[d]]

\* readRefresh moves a legacy copy into SecureStore.
ReadRefresh(c) ==
  LET t == IF secure # NoToken THEN secure ELSE legacy
  IN /\ call[c].pc = "refresh"
     /\ IF t = NoToken THEN FlightEnds(c, "false")
        ELSE /\ call' = [call EXCEPT ![c].pc = "rsent", ![c].token = t]
             /\ UNCHANGED inFlight
     /\ secure' = t
     /\ legacy' = IF secure = NoToken THEN NoToken ELSE legacy
     /\ UNCHANGED <<row, stale, disabled, access, srv, screen, began, incidents, disturbed>>

\* SecureStore throws: what AsyncStorage holds is all there is.
ReadRefreshFails(c) ==
  /\ Incident
  /\ call[c].pc = "refresh"
  /\ IF legacy = NoToken THEN FlightEnds(c, "false")
     ELSE /\ call' = [call EXCEPT ![c].pc = "rsent", ![c].token = legacy]
          /\ UNCHANGED inFlight
  /\ Disturbs(TRUE)
  /\ UNCHANGED <<row, stale, disabled, access, secure, legacy, srv, screen, began>>

\* Mutant: a fetch that throws is a refresh that failed.
LostIsFalse == "false"

LostResult == "thrown"

FlightLost(c) ==
  /\ Incident
  /\ call[c].pc = "rsent"
  /\ FlightEnds(c, LostResult)
  /\ srv' = [h \in Servers |-> IF srv[h].from = c THEN [srv[h] EXCEPT !.from = Nobody] ELSE srv[h]]
  /\ Disturbs(\E h \in Servers : srv[h].from = c)
  /\ UNCHANGED <<row, stale, disabled, access, secure, legacy, screen, began>>

-----------------------------------------------------------------------------
(* rotateMobileRefreshToken *)

Accepted(t) == Alive(t.s) /\ row[t.s].hash = t.n /\ ~disabled

RefreshRead(h, c) ==
  /\ srv[h] = NoRequest
  /\ call[c].pc = "rsent" /\ \A g \in Servers : srv[g].from # c
  /\ IF Accepted(call[c].token)
     THEN /\ srv' = [srv EXCEPT ![h] = [token |-> call[c].token, from |-> c]]
          /\ UNCHANGED <<call, inFlight>>
     ELSE FlightEnds(c, "false") /\ UNCHANGED srv
  /\ UNCHANGED <<row, stale, disabled, access, secure, legacy, screen, began, incidents, disturbed>>

\* The update names the row by id, whatever its hash is by now.  The new token differs from all
\* earlier ones of the session, of which the row holds the last.
Rotated(s) == [row EXCEPT ![s].hash = @ + 1, ![s].lapsed = FALSE]

RefreshWrite(h) ==
  LET r == srv[h] s == r.token.s new == [s |-> s, n |-> row[s].hash + 1]
  IN /\ r # NoRequest
     /\ row' = Rotated(s)
     /\ call' = IF r.from = Nobody THEN call
                ELSE [call EXCEPT ![r.from].pc = "save1", ![r.from].token = new]
     /\ srv' = [srv EXCEPT ![h] = NoRequest]
     /\ UNCHANGED <<stale, disabled, access, secure, legacy, inFlight, screen, began, incidents,
                    disturbed>>

\* The database fails under the read or under the update, which may have been made: the route
\* answers 401 to whatever is thrown.
RefreshThrows(c) ==
  /\ Incident
  /\ call[c].pc = "rsent"
  /\ FlightEnds(c, "false")
  /\ srv' = [h \in Servers |-> IF srv[h].from = c THEN NoRequest ELSE srv[h]]
  /\ \/ UNCHANGED row
     \/ \E h \in Servers : srv[h].from = c /\ row' = Rotated(srv[h].token.s)
  /\ Disturbs(TRUE)
  /\ UNCHANGED <<stale, disabled, access, secure, legacy, screen, began>>

-----------------------------------------------------------------------------
(* saveTokens and clearTokens, one storage call at a time *)

SaveAccess(c) ==
  /\ call[c].pc = "save1"
  /\ access' = call[c].token
  /\ Goes(c, "save2")
  /\ UNCHANGED <<row, stale, disabled, secure, legacy, inFlight, srv, screen, began, incidents,
                 disturbed>>

Saved(c) ==
  IF call[c].op = "login" THEN Ends(c) /\ screen' = "app" /\ UNCHANGED inFlight
  ELSE FlightEnds(c, "ok") /\ UNCHANGED screen

SaveRefresh(c) ==
  /\ call[c].pc = "save2"
  /\ secure' = call[c].token /\ legacy' = NoToken
  /\ Saved(c)
  /\ UNCHANGED <<row, stale, disabled, access, srv, began, incidents, disturbed>>

\* SecureStore throws: the token goes to AsyncStorage, and SecureStore keeps what it had.
SaveRefreshFails(c) ==
  /\ Incident
  /\ call[c].pc = "save2"
  /\ legacy' = call[c].token
  /\ Saved(c)
  /\ Disturbs(TRUE)
  /\ UNCHANGED <<row, stale, disabled, access, secure, srv, began>>

ClearAccess(c) ==
  /\ call[c].pc = "clear1"
  /\ access' = NoToken
  /\ Goes(c, "clear2")
  /\ UNCHANGED <<row, stale, disabled, secure, legacy, inFlight, srv, screen, began, incidents,
                 disturbed>>

\* Then the screen is left, by notifyAuthFailure or by signOut itself.  Where SecureStore throws
\* it keeps its token.  A pair that another call stored, or is about to, is cut in half.
ClearRefresh(c) ==
  /\ call[c].pc = "clear2"
  /\ legacy' = NoToken
  /\ \/ /\ secure' = NoToken /\ UNCHANGED incidents
        /\ Disturbs(access # NoToken \/ \E d \in Calls : call[d].pc \in Rotating)
     \/ Incident /\ Disturbs(TRUE) /\ UNCHANGED secure
  /\ Ends(c)
  /\ screen' = "login"
  /\ UNCHANGED <<row, stale, disabled, access, inFlight, srv, began>>

-----------------------------------------------------------------------------
(* The login screen, and what happens to both sides *)

LoginBegins(c) ==
  /\ call[c] = Idle
  /\ screen = "login" /\ \A d \in Calls : call[d].op # "login"
  /\ began < MaxCalls
  /\ began' = began + 1
  /\ call' = [call EXCEPT ![c] = [Idle EXCEPT !.op = "login", !.pc = "creds"]]
  /\ UNCHANGED <<row, stale, disabled, access, secure, legacy, inFlight, srv, screen, incidents,
                 disturbed>>

\* createMobileSessionAndTokens
LoginAnswered(c) ==
  /\ call[c].pc = "creds"
  /\ IF disabled THEN Ends(c) /\ UNCHANGED <<row, disturbed>>
     ELSE \E s \in SessionIds :
            /\ row[s] = NoRow /\ \A m \in SessionIds : m < s => row[m] # NoRow
            /\ row' = [row EXCEPT ![s].hash = 1]
            /\ call' = [call EXCEPT ![c].pc = "save1", ![c].token = [s |-> s, n |-> 1]]
            /\ Disturbs(\E d \in Calls \ {c} : call[d] # Idle)
  /\ UNCHANGED <<stale, disabled, access, secure, legacy, inFlight, srv, screen, began, incidents>>

\* The password is wrong, the account locked, or the call is lost (a session it made is not used).
LoginFails(c) ==
  /\ call[c].pc = "creds"
  /\ Ends(c)
  /\ UNCHANGED <<row, stale, disabled, access, secure, legacy, inFlight, srv, screen, began,
                 incidents, disturbed>>

\* A token that runs out between its refresh and its first use is a disturbance.
AccessExpires(t) ==
  /\ t \in Token \ stale
  /\ \/ access = t
     \/ \E c \in Calls : call[c].pc \in {"sent", "save1", "save2"} /\ call[c].token = t
  /\ stale' = stale \cup {t}
  /\ Disturbs(\E c \in Calls : \/ call[c].pc \in {"save1", "save2", "resend"}
                               \/ call[c].pc = "sent" /\ call[c].retried)
  /\ UNCHANGED <<row, disabled, access, secure, legacy, inFlight, call, srv, screen, began,
                 incidents>>

\* A rotation under way moves the expiry of a session that has run out; a session that runs out
\* before its pair is stored is a disturbance as well.
SessionLapses(s) ==
  /\ Incident
  /\ Alive(s)
  /\ row' = [row EXCEPT ![s].lapsed = TRUE]
  /\ Disturbs(\/ \E h \in Servers : srv[h] # NoRequest /\ srv[h].token.s = s
              \/ \E c \in Calls : call[c].pc \in {"save1", "save2"})
  /\ UNCHANGED <<stale, disabled, access, secure, legacy, inFlight, call, srv, screen, began>>

UserDisabled ==
  /\ Incident
  /\ ~disabled
  /\ disabled' = TRUE
  /\ UNCHANGED <<row, stale, access, secure, legacy, inFlight, call, srv, screen, began, disturbed>>

\* The app is killed and opened again: index.tsx picks the screen by the access token.
AppRestarts ==
  /\ Incident
  /\ call' = [c \in Calls |-> Idle]
  /\ srv' = [h \in Servers |-> [srv[h] EXCEPT !.from = Nobody]]
  /\ inFlight' = Nobody
  /\ screen' = IF access = NoToken THEN "login" ELSE "app"
  /\ Disturbs(\/ \E c \in Calls : call[c].pc \in {"save1", "save2"}
              \/ \E h \in Servers : srv[h].from # Nobody)
  /\ UNCHANGED <<row, stale, disabled, access, secure, legacy, began>>

-----------------------------------------------------------------------------
CallStep(c) ==
  \/ Answered(c) \/ Resend(c) \/ Unauthorized(c) \/ ReadRefresh(c)
  \/ SaveAccess(c) \/ SaveRefresh(c) \/ ClearAccess(c) \/ ClearRefresh(c)
  \/ LoginAnswered(c) \/ LoginFails(c)
ServerStep(h) == RefreshWrite(h) \/ \E c \in Calls : RefreshRead(h, c)

Faults ==
  \/ \E c \in Calls : \/ CallLost(c) \/ FlightLost(c) \/ RefreshThrows(c)
                      \/ ReadRefreshFails(c) \/ SaveRefreshFails(c)
  \/ \E s \in SessionIds : SessionLapses(s)
  \/ UserDisabled \/ AppRestarts

Next ==
  \/ \E c \in Calls : \/ \E op \in {"api", "put", "logout"} : CallBegins(c, op)
                      \/ LoginBegins(c) \/ CallStep(c)
  \/ \E h \in Servers : ServerStep(h)
  \/ \E t \in {access} \cup {call[c].token : c \in Calls} : AccessExpires(t)
  \/ Faults

\* fetch settles, storage answers, and the server serves the requests it has.
Fairness ==
  /\ \A c \in Calls : WF_vars(CallStep(c))
  /\ \A c \in Calls : WF_vars(\E h \in Servers : RefreshRead(h, c))
  /\ \A h \in Servers : WF_vars(RefreshWrite(h))

Spec == Init /\ [][Next]_vars /\ Fairness
-----------------------------------------------------------------------------
\* While nothing is being stored, the pair on the phone was issued together and its refresh
\* token is the one the server will accept: parallel 401s, late answers, sign-outs and lost
\* requests do not put the two sides out of step.  A rotation whose answer is lost does, and
\* so does a database or storage failure or a kill halfway.
PairInStep ==
  LET unsettled == \/ \E c \in Calls : call[c].pc \in {"save1", "save2", "clear2"}
                   \/ \E h \in Servers : srv[h] # NoRequest
  IN  ~disturbed /\ ~unsettled /\ access # NoToken /\ Alive(access.s) =>
        secure = access /\ row[access.s].hash = access.n

\* The phone gives up the tokens of a session that is alive only while the user signs out: a lost
\* call, a late 401 or a call that waited for another's refresh never signs the user out.  A
\* refresh under which the server's database fails does: its 401 is that of a dead session.
SignedOutForCause ==
  [][access # NoToken /\ Alive(access.s) /\ ~disabled /\ access' = NoToken /\ ~disturbed =>
       \E c \in Calls : call[c].op = "logout" /\ call[c].pc \in {"clear1", "clear2"}]_vars

\* Every call settles, whichever refresh it waits for and however that refresh ends.
CallsSettle == \A c \in Calls : call[c] # Idle ~> (call[c] = Idle)
=============================================================================
