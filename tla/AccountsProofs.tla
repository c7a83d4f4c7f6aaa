--------------------------- MODULE AccountsProofs ---------------------------
(***************************************************************************)
(* Accounts for every number of requests, invitations, reset links,        *)
(* passwords and sessions: the sessions of a replaced password end, and a  *)
(* token sets one password unless two submissions of it overlap.           *)
(*                                                                         *)
(* Inductive with them: an account has a password, and no reset link comes *)
(* before it; no token was used more often than passwords were set; what a *)
(* request in progress holds; and that two submissions of one token, or a  *)
(* submission of a used token, have been noted as crowded.                 *)
(***************************************************************************)
EXTENDS Accounts, TLAPS

UserRow == [exists : BOOLEAN, accepted : BOOLEAN, disabled : BOOLEAN, pw : Passwords,
            ended : Passwords]
SessionRow == [state : {"none", "live", "over"}, pw : Passwords, late : BOOLEAN]
Request == [pc : {"idle", "invite", "accept", "reset", "change", "signin"},
            token : Tokens \cup {NoToken}, found : BOOLEAN, pw : Passwords,
            session : SessionIds \cup {0}]
TokenStates == {"none", "open", "used", "expired"}

Typed ==
  /\ user \in UserRow /\ token \in [Tokens -> TokenStates]
  /\ session \in [SessionIds -> SessionRow] /\ req \in [Requests -> Request]
  /\ uses \in [Tokens -> Passwords] /\ crowded \subseteq Tokens

\* There is an account exactly when there is a password, and before any reset link.
AccountFirst ==
  /\ user.accepted <=> user.exists /\ user.pw > 0
  /\ user.pw > 0 <=> user.exists
  /\ \A r \in Links : token[r] # "none" => user.exists

Counted ==
  /\ user.ended <= user.pw
  /\ \A t \in Tokens : uses[t] <= user.pw
  /\ \A t \in Tokens : token[t] = "used" <=> uses[t] > 0

Submits(q) == req[q].pc \in {"accept", "reset"}

Held ==
  \A q \in Requests :
    /\ Submits(q) => req[q].token \in Tokens
    /\ req[q].pc \in {"reset", "change"} => user.exists
    /\ req[q].pc = "change" => req[q].session \in SessionIds

\* Two submissions of a token at once, or one of a used token: it is crowded.
Alone ==
  /\ \A q, r \in Requests : Submits(q) /\ Submits(r) /\ req[q].token = req[r].token /\ q # r =>
       req[q].token \in crowded
  /\ \A q \in Requests : Submits(q) => uses[req[q].token] = 0 \/ req[q].token \in crowded

IInv == Typed /\ AccountFirst /\ Counted /\ Held /\ Alone /\ OldPasswordSignedOut /\ TokensUsedOnce

LEMMA TypedIsTypeOK == Typed /\ AccountFirst /\ Counted => TypeOK
  BY DEF Typed, AccountFirst, Counted, TypeOK, UserRow, SessionRow, Request, TokenStates

LEMMA IdleIsRequest == Idle \in Request
  BY AccountConstants DEF Idle, Request, Passwords

-----------------------------------------------------------------------------
(* The steps, by what they change *)

LEMMA InitIInv == Init => IInv
<1> SUFFICES ASSUME Init PROVE IInv
  OBVIOUS
<1>1. Typed
  BY AccountConstants, IdleIsRequest
     DEF Init, Typed, UserRow, SessionRow, TokenStates, NoSession, Passwords
<1>2. AccountFirst /\ Counted
  BY DEF Init, AccountFirst, Counted, Tokens
<1>3. Held /\ Alone
  BY DEF Init, Held, Alone, Submits, Idle
<1>4. OldPasswordSignedOut /\ TokensUsedOnce
  BY DEF Init, OldPasswordSignedOut, TokensUsedOnce, Live, NoSession
<1> QED
  BY <1>1, <1>2, <1>3, <1>4 DEF IInv

\* A request ends, or goes on to something that holds no token.
LEMMA RequestMovesOn ==
  ASSUME IInv, NEW q \in Requests, NEW new \in Request, new.pc \notin {"accept", "reset"},
         new.pc = "change" => user.exists /\ new.session \in SessionIds,
         req' = [req EXCEPT ![q] = new], UNCHANGED <<user, token, session, uses, crowded>>
  PROVE  IInv'
<1>1. \A r \in Requests : req'[r] = IF r = q THEN new ELSE req[r]
  BY DEF IInv, Typed
<1>2. Typed'
  BY DEF IInv, Typed
<1>3. AccountFirst' /\ Counted' /\ OldPasswordSignedOut' /\ TokensUsedOnce'
  BY DEF IInv, AccountFirst, Counted, OldPasswordSignedOut, TokensUsedOnce, Live
<1>4. \A r \in Requests : Submits(r)' => Submits(r) /\ r # q
  BY <1>1 DEF Submits
<1>5. Held'
  BY <1>1 DEF IInv, Held, Submits
<1>6. Alone'
  BY <1>1, <1>4 DEF IInv, Alone
<1> QED
  BY <1>2, <1>3, <1>5, <1>6 DEF IInv

\* A token is submitted: it is open, hence was never used.
LEMMA SubmittedIInv ==
  ASSUME IInv, NEW q \in Requests, NEW t \in Tokens, NEW pc \in {"accept", "reset"},
         Submitted(q, t, pc), pc = "reset" => user.exists
  PROVE  IInv'
<1> DEFINE new == [Idle EXCEPT !.pc = pc, !.token = t, !.found = user.exists]
<1>1. new \in Request /\ new.pc = pc /\ new.token = t
  BY IdleIsRequest DEF Request, Idle, IInv, Typed, UserRow
<1>2. \A r \in Requests : req'[r] = IF r = q THEN new ELSE req[r]
  BY DEF IInv, Typed, Submitted
<1>3. UNCHANGED <<user, token, session, uses>>
  BY DEF Submitted
<1>4. crowded \subseteq crowded' /\ crowded' \subseteq Tokens
  BY DEF Submitted, IInv, Typed
<1>5. \A r \in Requests : Submits(r) /\ req[r].token = t => t \in crowded'
  BY DEF Submitted, Submitting, Submits
<1>6. uses[t] = 0
  BY DEF Submitted, Usable, IInv, Counted, Typed, Passwords
<1> HIDE DEF new
<1>7. Typed'
  BY <1>1, <1>2, <1>3, <1>4 DEF IInv, Typed, Submitted
<1>8. AccountFirst' /\ Counted' /\ OldPasswordSignedOut' /\ TokensUsedOnce'
  BY <1>3, <1>4 DEF IInv, AccountFirst, Counted, OldPasswordSignedOut, TokensUsedOnce, Live
<1>9. Held'
  BY <1>1, <1>2, <1>3 DEF IInv, Held, Submits
<1>10. Alone'
  <2>1. \A r \in Requests : r # q => (Submits(r)' <=> Submits(r)) /\ req'[r] = req[r]
    BY <1>2 DEF Submits
  <2>2. req'[q].token = t
    BY <1>1, <1>2
  <2> QED
    BY <1>3, <1>4, <1>5, <1>6, <2>1, <2>2 DEF IInv, Alone
<1> QED
  BY <1>7, <1>8, <1>9, <1>10 DEF IInv

\* A password is set with the token that was submitted; sessions only end.
LEMMA RedeemedIInv ==
  ASSUME IInv, NEW q \in Requests, Submits(q), user.pw < MaxPasswords,
         NEW new \in UserRow, new.exists, new.accepted, new.pw = NextPassword,
         new.ended <= new.pw,
         user' = new, Redeemed(q, new), UNCHANGED crowded,
         session' \in [SessionIds -> SessionRow], OldPasswordSignedOut'
  PROVE  IInv'
<1> DEFINE t == req[q].token
           next == [Idle EXCEPT !.pc = "signin", !.pw = new.pw]
<1>0. user \in UserRow /\ user.pw \in Nat /\ MaxPasswords \in Nat
  BY AccountConstants DEF IInv, Typed, UserRow, Passwords
<1>1. t \in Tokens
  BY DEF IInv, Held
<1>2. next \in Request /\ next.pc = "signin"
  BY IdleIsRequest DEF Request, Idle, UserRow
<1>3. \A r \in Requests : req'[r] = IF r = q THEN next ELSE req[r]
  BY DEF IInv, Typed, Redeemed
<1>4. \A x \in Tokens : /\ token'[x] = IF x = t THEN "used" ELSE token[x]
                        /\ uses'[x] = IF x = t THEN uses[t] + 1 ELSE uses[x]
  BY <1>1 DEF IInv, Typed, Redeemed
<1>5. \A x \in Tokens : uses[x] \in Nat /\ uses[x] <= user.pw
  BY DEF IInv, Typed, Counted, Passwords
<1>6. new.pw = user.pw + 1 /\ new.pw \in Passwords
  BY <1>0 DEF NextPassword, Passwords
<1>7. Typed'
  <2>1. uses' \in [Tokens -> Passwords]
    BY <1>0, <1>1, <1>4, <1>5 DEF Redeemed, IInv, Typed, Passwords
  <2>2. token' \in [Tokens -> TokenStates]
    BY <1>1, <1>4 DEF Redeemed, IInv, Typed, TokenStates
  <2>3. req' \in [Requests -> Request]
    BY <1>2, <1>3 DEF Redeemed, IInv, Typed
  <2> QED
    BY <2>1, <2>2, <2>3 DEF IInv, Typed
<1> HIDE DEF next
<1>8. AccountFirst'
  BY <1>0, <1>6 DEF IInv, AccountFirst
<1>9. Counted'
  BY <1>0, <1>1, <1>4, <1>5, <1>6 DEF IInv, Counted
<1>10. \A r \in Requests : Submits(r)' => Submits(r) /\ r # q /\ req'[r] = req[r]
  BY <1>2, <1>3 DEF Submits
<1>11. Held'
  BY <1>2, <1>3, <1>10 DEF IInv, Held, Submits
<1>12. Alone'
  <2>1. ASSUME NEW r \in Requests, Submits(r)'
        PROVE  uses'[req'[r].token] = 0 \/ req'[r].token \in crowded
    <3>1. Submits(r) /\ r # q /\ req'[r] = req[r]
      BY <2>1, <1>10
    <3>2. req[r].token \in Tokens
      BY <3>1 DEF IInv, Held
    <3>3. CASE req[r].token = t
      BY <3>1, <3>3 DEF IInv, Alone
    <3>4. CASE req[r].token # t
      BY <3>1, <3>2, <3>4, <1>4 DEF IInv, Alone
    <3> QED
      BY <3>3, <3>4
  <2>2. ASSUME NEW r \in Requests, NEW s \in Requests, Submits(r)', Submits(s)', r # s,
               req'[r].token = req'[s].token
        PROVE  req'[r].token \in crowded
    BY <2>2, <1>10 DEF IInv, Alone
  <2> QED
    BY <2>1, <2>2 DEF Alone
<1>13. TokensUsedOnce'
  BY <1>1, <1>4, <1>5 DEF IInv, Alone, TokensUsedOnce
<1> QED
  BY <1>7, <1>8, <1>9, <1>11, <1>12, <1>13 DEF IInv

\* An invitation or a link is sent, or a token expires unused.
LEMMA TokenMovesIInv ==
  ASSUME IInv, NEW t \in Tokens, token[t] # "used", NEW new \in {"open", "expired"},
         t \in Links => user.exists, token' = [token EXCEPT ![t] = new],
         UNCHANGED <<user, session, req, uses, crowded>>
  PROVE  IInv'
<1>1. \A x \in Tokens : token'[x] = IF x = t THEN new ELSE token[x]
  BY DEF IInv, Typed
<1>2. Typed'
  BY DEF IInv, Typed, TokenStates
<1>3. AccountFirst'
  BY <1>1 DEF IInv, AccountFirst, Tokens
<1>4. Counted'
  BY <1>1 DEF IInv, Counted
<1>5. Held' /\ Alone'
  BY DEF IInv, Held, Alone, Submits
<1>6. OldPasswordSignedOut' /\ TokensUsedOnce'
  BY DEF IInv, OldPasswordSignedOut, TokensUsedOnce, Live
<1> QED
  BY <1>2, <1>3, <1>4, <1>5, <1>6 DEF IInv

LEMMA DoneIInv ==
  ASSUME IInv, NEW q \in Requests, Done(q), UNCHANGED <<user, token, session, uses, crowded>>
  PROVE  IInv'
<1>1. Idle.pc = "idle"
  BY DEF Idle
<1> QED
  BY <1>1, IdleIsRequest, RequestMovesOn DEF Done

\* The request is over, the sessions are as they are.
LEMMA SessionsIInv ==
  ASSUME IInv, session' \in [SessionIds -> SessionRow], OldPasswordSignedOut',
         UNCHANGED <<user, token, req, uses, crowded>>
  PROVE  IInv'
<1>1. Typed' /\ AccountFirst' /\ Counted' /\ TokensUsedOnce'
  BY DEF IInv, Typed, AccountFirst, Counted, TokensUsedOnce
<1>2. Held' /\ Alone'
  BY DEF IInv, Held, Alone, Submits
<1> QED
  BY <1>1, <1>2 DEF IInv

LEMMA InviteCreateIInv ==
  ASSUME IInv, NEW q \in Requests, NEW i \in Invites, InviteCreate(q, i)
  PROVE  IInv'
<1>1. i \in Tokens /\ i \notin Links
  BY AccountConstants DEF Tokens
<1>2. \A x \in Tokens : token'[x] = IF x = i THEN "open" ELSE token[x]
  BY <1>1 DEF IInv, Typed, InviteCreate
<1>3. \A r \in Requests : req'[r] = IF r = q THEN Idle ELSE req[r]
  BY DEF IInv, Typed, InviteCreate, Done
<1>4. Typed'
  BY <1>1, IdleIsRequest DEF IInv, Typed, InviteCreate, Done, TokenStates
<1>5. AccountFirst'
  BY <1>1, <1>2 DEF IInv, AccountFirst, InviteCreate, Tokens
<1>6. Counted'
  BY <1>1, <1>2 DEF IInv, Counted, InviteCreate
<1>7. \A r \in Requests : Submits(r)' => Submits(r) /\ r # q
  BY <1>3 DEF Submits, Idle
<1>8. Held'
  BY <1>3 DEF IInv, Held, Submits, InviteCreate, Idle
<1>9. Alone'
  BY <1>3, <1>7 DEF IInv, Alone, InviteCreate
<1>10. OldPasswordSignedOut' /\ TokensUsedOnce'
  BY DEF IInv, OldPasswordSignedOut, TokensUsedOnce, Live, InviteCreate
<1> QED
  BY <1>4, <1>5, <1>6, <1>8, <1>9, <1>10 DEF IInv

LEMMA AcceptWriteIInv ==
  ASSUME IInv, NEW q \in Requests, AcceptWrite(q)
  PROVE  IInv'
<1> DEFINE new == [user EXCEPT !.exists = TRUE, !.accepted = TRUE, !.disabled = FALSE,
                               !.pw = NextPassword]
<1>1. user \in UserRow /\ user.pw \in Nat /\ user.ended \in Nat /\ MaxPasswords \in Nat
  BY AccountConstants DEF IInv, Typed, UserRow, Passwords
<1>2. user.ended <= user.pw /\ user.pw < MaxPasswords
  BY DEF IInv, Counted, AcceptWrite
<1>3. NextPassword \in Passwords /\ user.ended <= NextPassword
  BY <1>1, <1>2 DEF NextPassword, Passwords
<1>4. new \in UserRow /\ new.exists /\ new.accepted /\ new.pw = NextPassword
      /\ new.ended = user.ended
  BY <1>1, <1>3 DEF UserRow
<1>5. user' = new /\ Redeemed(q, new) /\ Submits(q) /\ UNCHANGED <<session, crowded>>
  BY DEF AcceptWrite, Submits
<1> HIDE DEF new
<1>6. OldPasswordSignedOut'
  BY <1>4, <1>5 DEF IInv, OldPasswordSignedOut, Live
<1>7. session' \in [SessionIds -> SessionRow]
  BY <1>5 DEF IInv, Typed
<1> QED
  BY <1>2, <1>3, <1>4, <1>5, <1>6, <1>7, RedeemedIInv

LEMMA RevokedIsTyped ==
  ASSUME Typed, NEW kept
  PROVE  /\ Revoked(kept) \in [SessionIds -> SessionRow]
         /\ \A s \in SessionIds : Revoked(kept)[s].state = "live" => Live(s) /\ s \in kept
         /\ \A s \in SessionIds : s \in kept => Revoked(kept)[s] = session[s]
<1>1. \A s \in SessionIds : Over(s) \in SessionRow /\ Over(s).state = "over"
  BY DEF Typed, SessionRow, Over
<1>2. \A s \in SessionIds : session[s] \in SessionRow
  BY DEF Typed
<1> QED
  BY <1>1, <1>2 DEF Revoked, Live

LEMMA ResetWriteIInv ==
  ASSUME IInv, NEW q \in Requests, ResetWrite(q)
  PROVE  IInv'
<1> DEFINE new == [user EXCEPT !.pw = NextPassword, !.ended = NextPassword]
<1>1. user \in UserRow /\ user.pw \in Nat /\ MaxPasswords \in Nat
  BY AccountConstants DEF IInv, Typed, UserRow, Passwords
<1>2. NextPassword \in Passwords /\ user.pw < MaxPasswords
  BY <1>1 DEF NextPassword, Passwords, ResetWrite
<1>3. user.exists /\ user.accepted /\ Submits(q)
  BY DEF IInv, Held, AccountFirst, ResetWrite, Submits
<1>4. new \in UserRow /\ new.exists = user.exists /\ new.accepted = user.accepted
      /\ new.pw = NextPassword /\ new.ended = NextPassword
  BY <1>1, <1>2 DEF UserRow
<1>5. user' = new /\ Redeemed(q, new) /\ session' = Revoked({}) /\ UNCHANGED crowded
  BY DEF ResetWrite
<1> HIDE DEF new
<1>6. OldPasswordSignedOut' /\ session' \in [SessionIds -> SessionRow]
  BY <1>5, RevokedIsTyped DEF IInv, OldPasswordSignedOut, Live
<1>7. new.ended <= new.pw
  BY <1>1, <1>4 DEF NextPassword
<1> QED
  BY <1>2, <1>3, <1>4, <1>5, <1>6, <1>7, RedeemedIInv

LEMMA ChangeWriteIInv ==
  ASSUME IInv, NEW q \in Requests, ChangeWrite(q)
  PROVE  IInv'
<1> DEFINE kept == req[q].session
           last == Revoked({kept})
<1>1. user \in UserRow /\ user.pw \in Nat /\ MaxPasswords \in Nat
  BY AccountConstants DEF IInv, Typed, UserRow, Passwords
<1>2. kept \in SessionIds /\ user.exists /\ user.accepted /\ ~Submits(q)
  BY DEF IInv, Held, AccountFirst, ChangeWrite, Submits
<1>3. NextPassword \in Passwords /\ NextPassword = user.pw + 1
  BY <1>1 DEF NextPassword, Passwords, ChangeWrite
<1>4. /\ user' \in UserRow /\ user'.exists /\ user'.accepted
      /\ user'.pw = NextPassword /\ user'.ended = NextPassword
  <2>1. user' = [user EXCEPT !.pw = NextPassword, !.ended = NextPassword]
    BY DEF ChangeWrite
  <2> QED
    BY <1>1, <1>2, <1>3, <2>1 DEF UserRow
<1>5. session' = [last EXCEPT ![kept].pw = NextPassword]
  BY DEF ChangeWrite
<1>6. /\ last \in [SessionIds -> SessionRow]
      /\ \A s \in SessionIds : last[s].state = "live" => s = kept
  BY RevokedIsTyped DEF IInv
<1> HIDE DEF last
<1>7. session' \in [SessionIds -> SessionRow]
  BY <1>2, <1>3, <1>5, <1>6 DEF SessionRow
<1>8. \A s \in SessionIds : s # kept => session'[s] = last[s]
  BY <1>5, <1>6
<1>9. session'[kept].pw = NextPassword
  BY <1>2, <1>5, <1>6 DEF SessionRow
<1>10. OldPasswordSignedOut'
  BY <1>1, <1>3, <1>4, <1>6, <1>8, <1>9 DEF OldPasswordSignedOut, Live
<1>11. UNCHANGED <<token, uses, crowded>> /\ Done(q)
  BY DEF ChangeWrite
<1>12. \A r \in Requests : req'[r] = IF r = q THEN Idle ELSE req[r]
  BY <1>11 DEF IInv, Typed, Done
<1>13. Typed'
  BY <1>4, <1>7, <1>11, <1>12, IdleIsRequest DEF IInv, Typed, Done
<1>14. AccountFirst'
  BY <1>1, <1>3, <1>4, <1>11 DEF IInv, AccountFirst
<1>15. Counted'
  BY <1>1, <1>3, <1>4, <1>11 DEF IInv, Counted, Typed, Passwords
<1>16. \A r \in Requests : Submits(r)' => Submits(r) /\ r # q
  BY <1>12 DEF Submits, Idle
<1>17. Held'
  BY <1>4, <1>12 DEF IInv, Held, Submits, Idle
<1>18. Alone' /\ TokensUsedOnce'
  BY <1>11, <1>12, <1>16 DEF IInv, Alone, TokensUsedOnce
<1> QED
  BY <1>10, <1>13, <1>14, <1>15, <1>17, <1>18 DEF IInv

LEMMA CreateSessionIInv ==
  ASSUME IInv, NEW q \in Requests, CreateSession(q)
  PROVE  IInv'
<1>1. PICK s \in SessionIds :
        session' = [session EXCEPT ![s] = [state |-> "live", pw |-> req[q].pw,
                                           late |-> req[q].pw # user.pw]]
  BY DEF CreateSession
<1> DEFINE new == [state |-> "live", pw |-> req[q].pw, late |-> req[q].pw # user.pw]
<1>2. new \in SessionRow
  BY DEF IInv, Typed, Request, SessionRow
<1>3. new.pw # user.pw => new.late
  OBVIOUS
<1>4. session' \in [SessionIds -> SessionRow]
  BY <1>1, <1>2 DEF IInv, Typed
<1>5. \A r \in SessionIds : session'[r] = IF r = s THEN new ELSE session[r]
  BY <1>1 DEF IInv, Typed
<1>6. UNCHANGED <<user, token, uses, crowded>> /\ Done(q)
  BY DEF CreateSession
<1>7. user.pw \in Nat /\ user.ended \in Nat /\ user.ended <= user.pw /\ new.pw \in Nat
  BY <1>2 DEF IInv, Typed, Counted, UserRow, SessionRow, Passwords
<1> HIDE DEF new
<1>8. OldPasswordSignedOut'
  <2>1. new.pw < user.ended => new.late
    <3>1. new.pw < user.ended => new.pw # user.pw
      BY <1>7
    <3> QED
      BY <1>3, <3>1
  <2>2. SUFFICES ASSUME NEW r \in SessionIds, session'[r].state = "live",
                        session'[r].pw < user.ended
                 PROVE  session'[r].late
    BY <1>6 DEF OldPasswordSignedOut, Live
  <2>3. CASE r = s
    BY <1>5, <2>1, <2>2, <2>3
  <2>4. CASE r # s
    BY <1>5, <2>2, <2>4 DEF IInv, OldPasswordSignedOut, Live
  <2> QED
    BY <2>3, <2>4
<1>9. \A r \in Requests : req'[r] = IF r = q THEN Idle ELSE req[r]
  BY <1>6 DEF IInv, Typed, Done
<1>10. Typed'
  BY <1>4, <1>6, IdleIsRequest DEF IInv, Typed, Done
<1>11. AccountFirst' /\ Counted' /\ TokensUsedOnce'
  BY <1>6 DEF IInv, AccountFirst, Counted, TokensUsedOnce
<1>12. \A r \in Requests : Submits(r)' => Submits(r) /\ r # q
  BY <1>9 DEF Submits, Idle
<1>13. Held' /\ Alone'
  BY <1>6, <1>9, <1>12 DEF IInv, Held, Alone, Submits, Idle
<1> QED
  BY <1>8, <1>10, <1>11, <1>13 DEF IInv

LEMMA UserDisabledIInv ==
  ASSUME IInv, UserDisabled
  PROVE  IInv'
<1>1. /\ user' \in UserRow /\ user'.exists = user.exists /\ user'.accepted = user.accepted
      /\ user'.pw = user.pw /\ user'.ended = user.ended
  BY DEF IInv, Typed, UserRow, UserDisabled
<1>2. Typed' /\ AccountFirst' /\ Counted' /\ OldPasswordSignedOut' /\ TokensUsedOnce'
  BY <1>1 DEF IInv, Typed, AccountFirst, Counted, OldPasswordSignedOut, Live, TokensUsedOnce,
              UserDisabled
<1>3. Held' /\ Alone'
  BY <1>1 DEF IInv, Held, Alone, Submits, UserDisabled
<1> QED
  BY <1>2, <1>3 DEF IInv

LEMMA SessionEndsIInv ==
  ASSUME IInv, NEW s \in SessionIds, SessionEnds(s)
  PROVE  IInv'
<1>1. Over(s) \in SessionRow /\ Over(s).state = "over"
  BY DEF IInv, Typed, SessionRow, Over
<1>2. session' = [session EXCEPT ![s] = Over(s)] /\ UNCHANGED <<user, token, req, uses, crowded>>
  BY DEF SessionEnds
<1>3. session' \in [SessionIds -> SessionRow]
  BY <1>1, <1>2 DEF IInv, Typed
<1>4. OldPasswordSignedOut'
  BY <1>1, <1>2 DEF IInv, Typed, OldPasswordSignedOut, Live
<1> QED
  BY <1>2, <1>3, <1>4, SessionsIInv

-----------------------------------------------------------------------------
(* Every step, and the theorems *)

LEMMA NextIInv == IInv /\ [Next]_vars => IInv'
<1> SUFFICES ASSUME IInv, [Next]_vars PROVE IInv'
  OBVIOUS
<1>1. CASE UNCHANGED vars
  <2>1. session' \in [SessionIds -> SessionRow] /\ OldPasswordSignedOut'
    BY <1>1 DEF vars, IInv, Typed, OldPasswordSignedOut, Live
  <2> QED
    BY <1>1, <2>1, SessionsIInv DEF vars
<1>2. ASSUME NEW q \in Requests, InviteRead(q)
      PROVE  IInv'
  <2>1. req' = [req EXCEPT ![q] = [Idle EXCEPT !.pc = "invite"]]
    BY <1>2 DEF InviteRead
  <2>2. [Idle EXCEPT !.pc = "invite"] \in Request
    BY IdleIsRequest DEF Request
  <2>3. [Idle EXCEPT !.pc = "invite"].pc = "invite"
    BY DEF Idle
  <2> QED
    BY <1>2, <2>1, <2>2, <2>3, RequestMovesOn DEF InviteRead
<1>3. ASSUME NEW q \in Requests, LoginRead(q)
      PROVE  IInv'
  <2> DEFINE new == [Idle EXCEPT !.pc = "signin", !.pw = user.pw]
  <2>1. new \in Request /\ new.pc = "signin"
    BY IdleIsRequest DEF Idle, Request, IInv, Typed, UserRow
  <2>2. req' = [req EXCEPT ![q] = new] /\ UNCHANGED <<user, token, session, uses, crowded>>
    BY <1>3 DEF LoginRead
  <2> HIDE DEF new
  <2> QED
    BY <2>1, <2>2, RequestMovesOn
<1>4. ASSUME NEW q \in Requests, NEW s \in SessionIds, ChangeRead(q, s)
      PROVE  IInv'
  <2> DEFINE new == [Idle EXCEPT !.pc = "change", !.session = s]
  <2>1. new \in Request /\ new.pc = "change" /\ new.session = s
    BY IdleIsRequest DEF Idle, Request
  <2>2. req' = [req EXCEPT ![q] = new] /\ UNCHANGED <<user, token, session, uses, crowded>>
    BY <1>4 DEF ChangeRead
  <2>3. user.exists
    BY <1>4 DEF ChangeRead, IInv, AccountFirst
  <2> HIDE DEF new
  <2> QED
    BY <2>1, <2>2, <2>3, RequestMovesOn
<1>5. ASSUME NEW q \in Requests, AcceptCollides(q) \/ RequestDies(q)
      PROVE  IInv'
  BY <1>5, DoneIInv DEF AcceptCollides, RequestDies
<1>6. ASSUME NEW q \in Requests, NEW i \in Invites, AcceptRead(q, i)
      PROVE  IInv'
  BY <1>6, SubmittedIInv DEF AcceptRead, Tokens
<1>7. ASSUME NEW q \in Requests, NEW r \in Links, ResetRead(q, r)
      PROVE  IInv'
  <2>1. user.exists
    BY <1>7 DEF ResetRead, Submitted, Usable, IInv, AccountFirst
  <2> QED
    BY <1>7, <2>1, SubmittedIInv DEF ResetRead, Tokens
<1>8. ASSUME NEW r \in Links, ResetRequested(r)
      PROVE  IInv'
  BY <1>8, TokenMovesIInv DEF ResetRequested, Tokens
<1>9. ASSUME NEW t \in Tokens, TokenExpires(t)
      PROVE  IInv'
  <2>1. t \in Links => user.exists
    BY <1>9 DEF TokenExpires, IInv, AccountFirst
  <2> QED
    BY <1>9, <2>1, TokenMovesIInv DEF TokenExpires
<1> QED
  BY <1>1, <1>2, <1>3, <1>4, <1>5, <1>6, <1>7, <1>8, <1>9, InviteCreateIInv, AcceptWriteIInv,
     ResetWriteIInv, ChangeWriteIInv, CreateSessionIInv, SessionEndsIInv, UserDisabledIInv
     DEF Next

\* The conjunction holds of every reachable state, for any number of requests and tokens.
THEOREM AccountInvariant == Spec => []IInv
  BY InitIInv, NextIInv, PTL DEF Spec

\* Rows, sessions, tokens and requests stay in their types; a password is set exactly when the
\* account is accepted, and a token is used exactly when it set a password.
THEOREM AccountTypeCorrect == Spec => []TypeOK
<1>1. IInv => TypeOK
  BY TypedIsTypeOK DEF IInv
<1> QED
  BY <1>1, AccountInvariant, PTL

\* A session of a password that was reset or changed since is live only if it was created
\* afterwards, by a sign-in that had checked the password before.
THEOREM OldPasswordEnds == Spec => []OldPasswordSignedOut
<1>1. IInv => OldPasswordSignedOut
  BY DEF IInv
<1> QED
  BY <1>1, AccountInvariant, PTL

\* An invitation or a reset link sets one password, unless two submissions of it overlapped.
THEOREM TokenSetsOnePassword == Spec => []TokensUsedOnce
<1>1. IInv => TokensUsedOnce
  BY DEF IInv
<1> QED
  BY <1>1, AccountInvariant, PTL
=============================================================================
