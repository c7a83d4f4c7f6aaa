------------------------------ MODULE Accounts ------------------------------
(***************************************************************************)
(* The account behind one e-mail address of a company: invitations,        *)
(* password resets, password changes and the browser sessions they start   *)
(* and end (apps/web/app/(auth), settings/actions.ts, lib/auth).           *)
(*                                                                         *)
(* A password is the number of the write that set it.  A token is one      *)
(* UserInvite or PasswordResetToken row.  Requests read and write in       *)
(* separate steps, inside a transaction too: hashing the password is       *)
(* awaited between the check of a token and its use.                       *)
(***************************************************************************)
EXTENDS Naturals, FiniteSets

CONSTANTS Requests,        \* requests in progress at once
          Invites, Links,  \* UserInvite and PasswordResetToken rows
          NoToken,
          MaxPasswords,    \* bound: passwords set
          MaxSessions      \* bound: sessions

ASSUME AccountConstants ==
  /\ Invites \cap Links = {} /\ NoToken \notin Invites \cup Links
  /\ MaxPasswords \in Nat /\ MaxSessions \in Nat

VARIABLES user,      \* the User row, if it exists
          token,     \* the UserInvite and PasswordResetToken rows
          session,   \* the Session rows, numbered by creation
          req,       \* requests in progress
          uses,      \* history: passwords set with each token
          crowded    \* history: tokens submitted while a submission was in progress

vars == <<user, token, session, req, uses, crowded>>

Tokens == Invites \cup Links
SessionIds == 1..MaxSessions
Passwords == 0..MaxPasswords

\* pw is what the session's user signed in with, or changed it to; late: by then it was replaced.
NoSession == [state |-> "none", pw |-> 0, late |-> FALSE]
Live(s) == session[s].state = "live"
Idle == [pc |-> "idle", token |-> NoToken, found |-> FALSE, pw |-> 0, session |-> 0]
Submitting(t) == \E q \in Requests : req[q].token = t /\ req[q].pc \in {"accept", "reset"}

\* ended: history, the last password set by a reset or a change.
TypeOK ==
  /\ user \in [exists : BOOLEAN, accepted : BOOLEAN, disabled : BOOLEAN, pw : Passwords,
               ended : Passwords]
  /\ token \in [Tokens -> {"none", "open", "used", "expired"}]
  /\ session \in [SessionIds -> [state : {"none", "live", "over"}, pw : Passwords, late : BOOLEAN]]
  /\ req \in [Requests -> [pc : {"idle", "invite", "accept", "reset", "change", "signin"},
                           token : Tokens \cup {NoToken}, found : BOOLEAN, pw : Passwords,
                           session : SessionIds \cup {0}]]
  /\ uses \in [Tokens -> Passwords]
  /\ crowded \subseteq Tokens
  \* A password is set exactly when the account is accepted, and a token is used by setting one.
  /\ user.accepted <=> user.exists /\ user.pw > 0
  /\ \A t \in Tokens : token[t] = "used" <=> uses[t] > 0

Init ==
  /\ user = [exists |-> FALSE, accepted |-> FALSE, disabled |-> FALSE, pw |-> 0, ended |-> 0]
  /\ token = [t \in Tokens |-> "none"]
  /\ session = [s \in SessionIds |-> NoSession]
  /\ req = [q \in Requests |-> Idle]
  /\ uses = [t \in Tokens |-> 0]
  /\ crowded = {}

Done(q) == req' = [req EXCEPT ![q] = Idle]
NextPassword == user.pw + 1

-----------------------------------------------------------------------------
(* inviteUserAction, acceptInviteAction *)

InviteRead(q) ==
  /\ req[q] = Idle
  /\ ~(user.exists /\ user.accepted)
  /\ req' = [req EXCEPT ![q].pc = "invite"]
  /\ UNCHANGED <<user, token, session, uses, crowded>>

InviteCreate(q, i) ==
  /\ req[q].pc = "invite"
  /\ token[i] = "none"
  /\ token' = [token EXCEPT ![i] = "open"]
  /\ Done(q)
  /\ UNCHANGED <<user, session, uses, crowded>>

\* Mutant: a used token is as good as a new one.
KnownToken(t) == token[t] \in {"open", "used"}

Usable(t) == token[t] = "open"

Submitted(q, t, pc) ==
  /\ req[q] = Idle
  /\ Usable(t)
  /\ req' = [req EXCEPT ![q] = [Idle EXCEPT !.pc = pc, !.token = t, !.found = user.exists]]
  /\ crowded' = IF Submitting(t) THEN crowded \cup {t} ELSE crowded
  /\ UNCHANGED <<user, token, session, uses>>

AcceptRead(q, i) == Submitted(q, i, "accept")

Redeemed(q, state) ==
  /\ token' = [token EXCEPT ![req[q].token] = "used"]
  /\ uses' = [uses EXCEPT ![req[q].token] = @ + 1]
  /\ req' = [req EXCEPT ![q] = [Idle EXCEPT !.pc = "signin", !.pw = state.pw]]

\* An account that was found is activated with the new password; otherwise one is created.
AcceptWrite(q) ==
  LET active == [user EXCEPT !.exists = TRUE, !.accepted = TRUE, !.disabled = FALSE,
                             !.pw = NextPassword]
  IN /\ req[q].pc = "accept"
     /\ user.pw < MaxPasswords
     /\ user.exists => req[q].found
     /\ user' = active
     /\ Redeemed(q, active)
     /\ UNCHANGED <<session, crowded>>

\* P2002 on the unique index (tenantId, email): another acceptance created the account.
AcceptCollides(q) ==
  /\ req[q].pc = "accept"
  /\ user.exists /\ ~req[q].found
  /\ Done(q)
  /\ UNCHANGED <<user, token, session, uses, crowded>>

-----------------------------------------------------------------------------
(* requestResetAction, completeResetAction, changePasswordAction *)

ResetRequested(r) ==
  /\ user.exists /\ ~user.disabled
  /\ token[r] = "none"
  /\ token' = [token EXCEPT ![r] = "open"]
  /\ UNCHANGED <<user, session, req, uses, crowded>>

ResetRead(q, r) == ~user.disabled /\ Submitted(q, r, "reset")

Over(s) == [session[s] EXCEPT !.state = "over"]

\* Mutant: the sessions signed in with the password that is being replaced are missed.
RevokedOthers(kept) ==
  [s \in SessionIds |-> IF Live(s) /\ s \notin kept /\ session[s].pw # user.pw THEN Over(s)
                        ELSE session[s]]

\* session.updateMany: every session of the user, or every one but the current.
Revoked(kept) == [s \in SessionIds |-> IF Live(s) /\ s \notin kept THEN Over(s) ELSE session[s]]

ResetWrite(q) ==
  LET new == [user EXCEPT !.pw = NextPassword, !.ended = NextPassword]
  IN /\ req[q].pc = "reset"
     /\ user.pw < MaxPasswords
     /\ user' = new
     /\ session' = Revoked({})
     /\ Redeemed(q, new)
     /\ UNCHANGED crowded

ChangeRead(q, s) ==
  /\ req[q] = Idle
  /\ Live(s) /\ ~user.disabled /\ user.pw > 0
  /\ req' = [req EXCEPT ![q] = [Idle EXCEPT !.pc = "change", !.session = s]]
  /\ UNCHANGED <<user, token, session, uses, crowded>>

ChangeWrite(q) ==
  LET s == req[q].session
  IN /\ req[q].pc = "change"
     /\ user.pw < MaxPasswords
     /\ user' = [user EXCEPT !.pw = NextPassword, !.ended = NextPassword]
     /\ session' = [Revoked({s}) EXCEPT ![s].pw = NextPassword]
     /\ Done(q)
     /\ UNCHANGED <<token, uses, crowded>>

-----------------------------------------------------------------------------
(* loginAction, createSession, logoutAction *)

LoginRead(q) ==
  /\ req[q] = Idle
  /\ user.exists /\ user.pw > 0 /\ ~user.disabled
  /\ req' = [req EXCEPT ![q] = [Idle EXCEPT !.pc = "signin", !.pw = user.pw]]
  /\ UNCHANGED <<user, token, session, uses, crowded>>

CreateSession(q) ==
  /\ req[q].pc = "signin"
  /\ \E s \in SessionIds :
       /\ session[s] = NoSession /\ \A m \in SessionIds : m < s => session[m] # NoSession
       /\ session' = [session EXCEPT ![s] = [state |-> "live", pw |-> req[q].pw,
                                             late |-> req[q].pw # user.pw]]
  /\ Done(q)
  /\ UNCHANGED <<user, token, uses, crowded>>

\* Logout, or thirty days.
SessionEnds(s) ==
  /\ Live(s)
  /\ session' = [session EXCEPT ![s] = Over(s)]
  /\ UNCHANGED <<user, token, req, uses, crowded>>

TokenExpires(t) ==
  /\ token[t] = "open"
  /\ token' = [token EXCEPT ![t] = "expired"]
  /\ UNCHANGED <<user, session, req, uses, crowded>>

\* By an operator, in the database.
UserDisabled ==
  /\ user.exists /\ ~user.disabled
  /\ user' = [user EXCEPT !.disabled = TRUE]
  /\ UNCHANGED <<token, session, req, uses, crowded>>

\* The process restarts, the transaction is rolled back, or the redirect is never reached.
RequestDies(q) ==
  /\ req[q] # Idle
  /\ Done(q)
  /\ UNCHANGED <<user, token, session, uses, crowded>>

Next ==
  \/ \E q \in Requests :
       \/ InviteRead(q) \/ LoginRead(q) \/ CreateSession(q) \/ RequestDies(q)
       \/ \E i \in Invites : InviteCreate(q, i) \/ AcceptRead(q, i)
       \/ AcceptWrite(q) \/ AcceptCollides(q)
       \/ \E r \in Links : ResetRead(q, r)
       \/ ResetWrite(q) \/ ChangeWrite(q)
       \/ \E s \in SessionIds : ChangeRead(q, s)
  \/ \E r \in Links : ResetRequested(r)
  \/ \E s \in SessionIds : SessionEnds(s)
  \/ \E t \in Tokens : TokenExpires(t)
  \/ UserDisabled

Spec == Init /\ [][Next]_vars
-----------------------------------------------------------------------------
\* "Password reset revokes ALL sessions", "Password change revokes all sessions EXCEPT the
\* current one": whatever resets, changes, acceptances and sign-ins overlap, a session signed in
\* with a password that was reset or changed since is live only if it was created after that,
\* by a sign-in that had checked the password before.
OldPasswordSignedOut ==
  \A s \in SessionIds : Live(s) /\ session[s].pw < user.ended => session[s].late

\* An invitation and a reset link set one password, unless two submissions of it overlapped:
\* requests that die in between and links that are sent again change nothing about it.
TokensUsedOnce ==
  \A t \in Tokens : uses[t] <= 1 \/ t \in crowded
=============================================================================
