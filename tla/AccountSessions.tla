-------------------------- MODULE AccountSessions ---------------------------
(***************************************************************************)
(* The password, the status, the sessions and the links of one user:       *)
(* backend/src/application/services/auth-session-service.ts and the use    *)
(* cases of application/usecases/auth and application/usecases/users.      *)
(*                                                                         *)
(* Every handler reads first (which session, which password, which link)   *)
(* and decides later, after bcrypt or after a wait for the lock, in one    *)
(* transaction under the lock of the User row (lockUserForAuthMutation;    *)
(* the UPDATEs of the administration take the same row lock).  So a        *)
(* transaction is one step, and what was read before it may be stale.      *)
(* Only RequestPasswordReset writes without the lock: it inserts a link.   *)
(*                                                                         *)
(* A password hash is the number of times the password was set.  Licence   *)
(* checks and wrong passwords only refuse a request and are left out.      *)
(***************************************************************************)
EXTENDS Integers, FiniteSets

CONSTANTS
  Sessions,    \* ids of RefreshSession rows; a refresh token belongs to one session
  Links,       \* ids of PasswordResetToken rows
  Requests,    \* concurrent HTTP requests
  MaxHash,     \* bound: how often the password is set
  MaxEdits,    \* bound: status changes by an administrator
  NoSession, NoLink

ASSUME NoneAssumption == NoSession \notin Sessions /\ NoLink \notin Links
ASSUME BoundsAssumption == MaxHash \in Nat /\ MaxEdits \in Nat

VARIABLES
  user,      \* the User row, and its InvitationToken
  session,   \* the RefreshSession table
  link,      \* the PasswordResetToken table
  req,       \* the requests being served
  epoch,     \* the password hash of the last change that ended all sessions (history)
  left,      \* logins that were logged out (history)
  edits

vars == <<user, session, link, req, epoch, left, edits>>

User == [status: {"ACTIVE", "INVITED", "SUSPENDED"}, deletedAt: {"NULL", "SET"},
         passwordHash: 0..MaxHash, invite: {"NONE", "VALID", "USED"}]

\* login and born are history of the login that a session goes back to through its refreshes:
\* the session it began with, and its Birth (below).
Session == [state: {"ABSENT", "LIVE", "EXPIRED", "REVOKED"}, replacedById: Sessions \cup {NoSession},
            login: Sessions \cup {NoSession}, born: 0..MaxHash]

AbsentSession == [state |-> "ABSENT", replacedById |-> NoSession, login |-> NoSession, born |-> 0]

PCs == {"idle", "session", "rotate", "revoke", "revokeAll", "link", "reset", "change", "accept"}

\* hash: the password hash the request has verified.  trusted: a social provider vouches for
\* the e-mail address, no password is verified.
Request == [pc: PCs, s: Sessions \cup {NoSession}, l: Links \cup {NoLink}, hash: 0..MaxHash,
            trusted: {"NO", "YES"}, all: {"NO", "YES"}]

NoRequest == [pc |-> "idle", s |-> NoSession, l |-> NoLink, hash |-> 0, trusted |-> "NO", all |-> "NO"]

Init == /\ user \in {[status |-> "ACTIVE", deletedAt |-> "NULL", passwordHash |-> 0, invite |-> "NONE"],
                     [status |-> "INVITED", deletedAt |-> "NULL", passwordHash |-> 0, invite |-> "VALID"]}
        /\ session = [s \in Sessions |-> AbsentSession]
        /\ link    = [l \in Links |-> "ABSENT"]
        /\ req     = [p \in Requests |-> NoRequest]
        /\ epoch   = 0
        /\ left    = {}
        /\ edits   = 0

-----------------------------------------------------------------------------
(* Helpers.                                                                *)

Active == user.status = "ACTIVE" /\ user.deletedAt = "NULL"
Live(s) == session[s].state = "LIVE"

\* requireAuth: the session behind the access token is live and its user active.
Authenticated(s) == Live(s) /\ Active

Becomes(p, r) == req' = [req EXCEPT ![p] = r]
Ends(p) == Becomes(p, NoRequest)

\* refreshSession.updateMany({ revokedAt: null } -> now) over a set of sessions.
Revoked(S) == [s \in Sessions |-> IF s \in S /\ session[s].state \in {"LIVE", "EXPIRED"}
                                  THEN [session[s] EXCEPT !.state = "REVOKED"] ELSE session[s]]

\* Mutant of Chain: only the session named by the access token.
ChainOfOne(s) == {s}

\* The session and its successors: the least set that contains s and, with a session, the
\* one that replaced it.
Chain(s) == {u \in Sessions : \A S \in SUBSET Sessions :
               s \in S /\ (\A v \in S : session[v].replacedById \in S \cup {NoSession}) => u \in S}

\* A new password: every link of the user with usedAt = null is used up.
NewPassword(u) == /\ user' = u
                  /\ link' = [l \in Links |-> IF link[l] = "ABSENT" THEN "ABSENT" ELSE "USED"]

EndAllSessions == session' = Revoked(Sessions) /\ epoch' = user.passwordHash + 1

-----------------------------------------------------------------------------
(* Signing in.                                                             *)

\* LoginUseCase.execute: the password is compared with the hash read here; the status is
\* checked later.
login(p) ==
  /\ req[p].pc = "idle"
  /\ user.deletedAt = "NULL"
  /\ Becomes(p, [NoRequest EXCEPT !.pc = "session", !.hash = user.passwordHash])
  /\ UNCHANGED <<user, session, link, epoch, left, edits>>

\* executeTrustedEmail: a social provider vouches for the address; createSession gets no
\* expectedPasswordHash.
loginTrusted(p) ==
  /\ req[p].pc = "idle"
  /\ user.deletedAt = "NULL"
  /\ Becomes(p, [NoRequest EXCEPT !.pc = "session", !.trusted = "YES"])
  /\ UNCHANGED <<user, session, link, epoch, left, edits>>

\* The password hash a login belongs to (history): the one it verified when it came in, which may
\* have been replaced since; of a social login, which verified none, the one that is current
\* when it gets its session.
Birth(p) == IF req[p].trusted = "YES" THEN user.passwordHash ELSE req[p].hash

\* The row that createSession inserts as s.
NewSession(p, s) == [AbsentSession EXCEPT !.state = "LIVE", !.login = s, !.born = Birth(p)]

\* Mutant of CreateSession: the password hash is not compared again under the lock.
CreateSessionUnchecked(p) ==
  /\ req[p].pc = "session"
  /\ \E s \in Sessions :
       /\ Active /\ session[s].state = "ABSENT"
       /\ session' = [session EXCEPT ![s] = NewSession(p, s)]
  /\ Ends(p)
  /\ UNCHANGED <<user, link, epoch, left, edits>>

\* createSession: the user must still be active; a hash that was compared must be the current one.
CreateSession(p) ==
  /\ req[p].pc = "session"
  /\ IF Active /\ (req[p].trusted = "YES" \/ req[p].hash = user.passwordHash)
     THEN \E s \in Sessions :
            /\ session[s].state = "ABSENT"
            /\ session' = [session EXCEPT ![s] = NewSession(p, s)]
     ELSE UNCHANGED session
  /\ Ends(p)
  /\ UNCHANGED <<user, link, epoch, left, edits>>

\* refresh up to the lock: the candidate exists and has not expired.
refresh(p, s) ==
  /\ req[p].pc = "idle"
  /\ session[s].state \in {"LIVE", "REVOKED"}
  /\ Becomes(p, [NoRequest EXCEPT !.pc = "rotate", !.s = s])
  /\ UNCHANGED <<user, session, link, epoch, left, edits>>

\* Mutant of Rotate: the session is not read again after the lock was taken.
RotateUnchecked(p) ==
  /\ req[p].pc = "rotate"
  /\ \E n \in Sessions :
       /\ Active /\ session[n].state = "ABSENT"
       /\ session' = [session EXCEPT
                        ![req[p].s].state = "REVOKED", ![req[p].s].replacedById = n,
                        ![n] = [session[req[p].s] EXCEPT !.state = "LIVE", !.replacedById = NoSession]]
  /\ Ends(p)
  /\ UNCHANGED <<user, link, epoch, left, edits>>

\* The rest of refresh: the session is read again; it is consumed and replaced, unless it was
\* revoked or the user is not active (everything is rolled back).  Expiry is judged by the time
\* taken before the lock, so a session that expires during the wait is still replaced.
Rotate(p) ==
  /\ req[p].pc = "rotate"
  /\ IF session[req[p].s].state # "REVOKED" /\ Active
     THEN \E n \in Sessions :
            /\ session[n].state = "ABSENT"
            /\ session' = [session EXCEPT
                 ![req[p].s].state = "REVOKED", ![req[p].s].replacedById = n,
                 ![n] = [session[req[p].s] EXCEPT !.state = "LIVE", !.replacedById = NoSession]]
     ELSE UNCHANGED session
  /\ Ends(p)
  /\ UNCHANGED <<user, link, epoch, left, edits>>

SessionExpires(s) ==
  /\ Live(s)
  /\ session' = [session EXCEPT ![s].state = "EXPIRED"]
  /\ UNCHANGED <<user, link, req, epoch, left, edits>>

-----------------------------------------------------------------------------
(* Signing out.                                                            *)

\* revokeCurrent and revokeById behind requireAuth: the session of the access token may be
\* replaced before the lock is taken.
logout(p, s) ==
  /\ req[p].pc = "idle"
  /\ Authenticated(s)
  /\ Becomes(p, [NoRequest EXCEPT !.pc = "revoke", !.s = s])
  /\ UNCHANGED <<user, session, link, epoch, left, edits>>

\* revokeSessionChain.
RevokeChain(p) ==
  /\ req[p].pc = "revoke"
  /\ session' = Revoked(Chain(req[p].s))
  /\ left' = left \cup {session[req[p].s].login}
  /\ Ends(p)
  /\ UNCHANGED <<user, link, epoch, edits>>

revokeAll(p, s) ==
  /\ req[p].pc = "idle"
  /\ Authenticated(s)
  /\ Becomes(p, [NoRequest EXCEPT !.pc = "revokeAll"])
  /\ UNCHANGED <<user, session, link, epoch, left, edits>>

RevokeAll(p) ==
  /\ req[p].pc = "revokeAll"
  /\ session' = Revoked(Sessions)
  /\ left' = left \cup {session[s].login : s \in {u \in Sessions : Live(u)}}
  /\ Ends(p)
  /\ UNCHANGED <<user, link, epoch, edits>>

-----------------------------------------------------------------------------
(* Passwords.                                                              *)

\* RequestPasswordReset: an active user is read, then a link is inserted, without the lock.
requestPasswordReset(p, l) ==
  /\ req[p].pc = "idle"
  /\ Active
  /\ Becomes(p, [NoRequest EXCEPT !.pc = "link", !.l = l])
  /\ UNCHANGED <<user, session, link, epoch, left, edits>>

InsertLink(p) ==
  /\ req[p].pc = "link"
  /\ link' = [link EXCEPT ![req[p].l] = IF @ = "ABSENT" THEN "VALID" ELSE @]
  /\ Ends(p)
  /\ UNCHANGED <<user, session, epoch, left, edits>>

LinkExpires(l) ==
  /\ link[l] = "VALID"
  /\ link' = [link EXCEPT ![l] = "EXPIRED"]
  /\ UNCHANGED <<user, session, req, epoch, left, edits>>

\* ResetPassword up to the transaction.
resetPassword(p, l) ==
  /\ req[p].pc = "idle"
  /\ link[l] = "VALID" /\ Active
  /\ Becomes(p, [NoRequest EXCEPT !.pc = "reset", !.l = l])
  /\ UNCHANGED <<user, session, link, epoch, left, edits>>

\* Mutant of ConsumeLink: the status is checked before the transaction only.
ConsumeLinkAnyway(p) ==
  /\ req[p].pc = "reset"
  /\ user.passwordHash < MaxHash
  /\ IF link[req[p].l] = "VALID"
     THEN NewPassword([user EXCEPT !.passwordHash = @ + 1]) /\ EndAllSessions
     ELSE UNCHANGED <<user, session, link, epoch>>
  /\ Ends(p)
  /\ UNCHANGED <<left, edits>>

\* Mutant of ConsumeLink: sessions and links are ended, the new hash is not stored.
ConsumeLinkOnly(p) ==
  /\ req[p].pc = "reset"
  /\ user.passwordHash < MaxHash
  /\ IF link[req[p].l] = "VALID" /\ Active THEN NewPassword(user) /\ EndAllSessions
     ELSE UNCHANGED <<user, session, link, epoch>>
  /\ Ends(p)
  /\ UNCHANGED <<left, edits>>

\* The transaction of ResetPassword: the link is consumed once, the account must still be
\* active, every other link and every session ends.  The time was taken before the lock: a
\* link that has expired since counts as open, one that had expired before does not.
ConsumeLink(p) ==
  /\ req[p].pc = "reset"
  /\ user.passwordHash < MaxHash
  /\ \E open \in {{"VALID"}, {"VALID", "EXPIRED"}} :
       IF link[req[p].l] \in open /\ Active
       THEN NewPassword([user EXCEPT !.passwordHash = @ + 1]) /\ EndAllSessions
       ELSE UNCHANGED <<user, session, link, epoch>>
  /\ Ends(p)
  /\ UNCHANGED <<left, edits>>

\* changePassword up to the transaction, with or without logoutAllDevices.
changePassword(p, s) ==
  /\ req[p].pc = "idle"
  /\ Authenticated(s)
  /\ \E all \in {"NO", "YES"} :
       Becomes(p, [NoRequest EXCEPT !.pc = "change", !.hash = user.passwordHash, !.all = all])
  /\ UNCHANGED <<user, session, link, epoch, left, edits>>

\* The transaction of changePassword: the hash that was compared must still be the current one.
ReplaceHash(p) ==
  /\ req[p].pc = "change"
  /\ user.passwordHash < MaxHash
  /\ IF Active /\ user.passwordHash = req[p].hash
     THEN /\ NewPassword([user EXCEPT !.passwordHash = @ + 1])
          /\ IF req[p].all = "YES" THEN EndAllSessions ELSE UNCHANGED <<session, epoch>>
     ELSE UNCHANGED <<user, session, link, epoch>>
  /\ Ends(p)
  /\ UNCHANGED <<left, edits>>

\* AcceptInvite up to the transaction.
acceptInvite(p) ==
  /\ req[p].pc = "idle"
  /\ user.invite = "VALID" /\ user.status = "INVITED" /\ user.deletedAt = "NULL"
  /\ Becomes(p, [NoRequest EXCEPT !.pc = "accept"])
  /\ UNCHANGED <<user, session, link, epoch, left, edits>>

\* The transaction of AcceptInvite: the account must still await its activation.
Activate(p) ==
  /\ req[p].pc = "accept"
  /\ user.passwordHash < MaxHash
  /\ IF user.invite = "VALID" /\ user.status = "INVITED" /\ user.deletedAt = "NULL"
     THEN /\ NewPassword([user EXCEPT !.passwordHash = @ + 1, !.status = "ACTIVE", !.invite = "USED"])
          /\ EndAllSessions
     ELSE UNCHANGED <<user, session, link, epoch>>
  /\ Ends(p)
  /\ UNCHANGED <<left, edits>>

-----------------------------------------------------------------------------
(* Administration of users.                                                *)

\* ManageUsers.updateProfile with a status: written whatever the status was.
setStatus(to) ==
  /\ edits < MaxEdits /\ edits' = edits + 1
  /\ user.deletedAt = "NULL"
  /\ user' = [user EXCEPT !.status = to]
  /\ UNCHANGED <<session, link, req, epoch, left>>

\* ManageUsers.remove: a soft delete.
remove ==
  /\ edits < MaxEdits /\ edits' = edits + 1
  /\ user.deletedAt = "NULL"
  /\ user' = [user EXCEPT !.deletedAt = "SET", !.status = "SUSPENDED"]
  /\ UNCHANGED <<session, link, req, epoch, left>>

-----------------------------------------------------------------------------
Call(p) == \/ login(p) \/ loginTrusted(p) \/ acceptInvite(p)
           \/ \E s \in Sessions : refresh(p, s) \/ logout(p, s) \/ revokeAll(p, s) \/ changePassword(p, s)
           \/ \E l \in Links : requestPasswordReset(p, l) \/ resetPassword(p, l)

Step(p) == \/ CreateSession(p) \/ Rotate(p) \/ RevokeChain(p) \/ RevokeAll(p)
           \/ InsertLink(p) \/ ConsumeLink(p) \/ ReplaceHash(p) \/ Activate(p)

Next == \/ \E p \in Requests : Call(p) \/ Step(p)
        \/ \E s \in Sessions : SessionExpires(s)
        \/ \E l \in Links : LinkExpires(l)
        \/ \E to \in {"ACTIVE", "INVITED", "SUSPENDED"} : setStatus(to)
        \/ remove

Spec == Init /\ [][Next]_vars

-----------------------------------------------------------------------------
TypeOK == /\ user \in User
          /\ session \in [Sessions -> Session]
          /\ link \in [Links -> {"ABSENT", "VALID", "EXPIRED", "USED"}]
          /\ req \in [Requests -> Request]
          /\ epoch \in 0..user.passwordHash
          /\ left \subseteq Sessions
          /\ edits \in 0..MaxEdits

\* After a reset, an accepted invitation or a change with logoutAllDevices no session lives
\* that goes back, through any number of refreshes, to a password verified before it or to a
\* session that a social login got before it: neither a refresh nor a password login that was
\* waiting for the lock gets past it.  It does not say this of a social login that was let in
\* before the change and waits for the lock: createSession compares no hash then, and the
\* session is inserted after the change.
OldLoginsAreGone == \A s \in Sessions : Live(s) => session[s].born >= epoch

\* A login has one live session at a time, however many requests present the same refresh
\* token: a refresh token is consumed once.
OneSessionPerLogin ==
  \A s, u \in Sessions : Live(s) /\ Live(u) /\ session[s].login = session[u].login => s = u

\* After a logout nothing of that login lives on, even if the session named by the access
\* token was being replaced while the logout waited.
LoggedOutStaysOut == \A s \in Sessions : Live(s) => session[s].login \notin left

\* No password is set on a suspended or deleted account, and setting one leaves suspended
\* accounts suspended: a reset or an invitation loses against a suspension it races with.
SuspensionWins ==
  [][/\ user'.passwordHash # user.passwordHash => user.status # "SUSPENDED" /\ user.deletedAt = "NULL"
     /\ user.deletedAt = "SET" => user' = user]_vars
=============================================================================
