------------------------ MODULE AccountSessions_proofs ------------------------
(***************************************************************************)
(* Proofs about AccountSessions, for any number of sessions, links and     *)
(* concurrent requests.  The invariants of the runs speak of live          *)
(* sessions; IInv speaks of all that are not revoked (a session that       *)
(* expires while its refresh waits for the lock is still replaced) and     *)
(* says why a logout reaches the successor of the session it names: from   *)
(* every session of a login the chain of replacements leads to the one     *)
(* that is open.                                                           *)
(***************************************************************************)
EXTENDS AccountSessions, TLAPS

Known(s) == session[s].state # "ABSENT"
Open(s)  == session[s].state \in {"LIVE", "EXPIRED"}

\* A set of sessions that contains the successors of its members.
Closed(S) == \A v \in S : session[v].replacedById \in S \cup {NoSession}

\* A request that waits for the lock names a row that exists (rows are never deleted).
RequestsKnow ==
  \A p \in Requests :
    /\ req[p].pc \in {"rotate", "revoke"} => req[p].s \in Sessions /\ Known(req[p].s)
    /\ req[p].pc \in {"link", "reset"} => req[p].l \in Links

LoginsKnown == \A s \in Sessions : Known(s) => session[s].login \in Sessions /\ Known(session[s].login)

\* Only a revoked session has a successor.
OpenIsLast == \A s \in Sessions : session[s].state # "REVOKED" => session[s].replacedById = NoSession

OpenIsNew == \A s \in Sessions : Open(s) => session[s].born >= epoch

OneOpen == \A s, u \in Sessions : Open(s) /\ Open(u) /\ session[s].login = session[u].login => s = u

\* The open session of a login is in the chain of every session of the login.
ChainReaches ==
  \A s, u \in Sessions : Known(s) /\ Open(u) /\ session[s].login = session[u].login
    => \A S \in SUBSET Sessions : s \in S /\ Closed(S) => u \in S

LeftKnown == \A s \in left : Known(s)

OpenIsNotLeft == \A s \in Sessions : Open(s) => session[s].login \notin left

SessionsOK == /\ LoginsKnown /\ OpenIsLast /\ OpenIsNew /\ OneOpen /\ ChainReaches
              /\ LeftKnown /\ OpenIsNotLeft

IInv == TypeOK /\ RequestsKnow /\ SessionsOK

-----------------------------------------------------------------------------
(* The initial states *)

\* Without sessions there is nothing to say of them.
LEMMA InitInv == Init => IInv
<1> SUFFICES ASSUME Init PROVE IInv
  OBVIOUS
<1>1. TypeOK
  BY NoneAssumption, BoundsAssumption
  DEF Init, TypeOK, User, Session, AbsentSession, Request, NoRequest, PCs
<1>2. \A s \in Sessions : ~Known(s) /\ ~Open(s) /\ session[s].replacedById = NoSession
  BY DEF Init, Known, Open, AbsentSession
<1>3. \A p \in Requests : req[p].pc = "idle"
  BY DEF Init, NoRequest
<1>4. left = {}
  BY DEF Init
<1> QED BY <1>1, <1>2, <1>3, <1>4
  DEF IInv, SessionsOK, RequestsKnow, LoginsKnown, OpenIsLast, OpenIsNew, OneOpen, ChainReaches, LeftKnown, OpenIsNotLeft

-----------------------------------------------------------------------------
(* What happens to the table of sessions *)

\* Sessions are revoked, expire, or stay as they are.
Fewer ==
  /\ session' \in [Sessions -> Session]
  /\ \A s \in Sessions :
       /\ session'[s].replacedById = session[s].replacedById
       /\ session'[s].login = session[s].login
       /\ session'[s].born = session[s].born
       /\ session'[s].state = session[s].state
          \/ (Open(s) /\ session'[s].state \in {"EXPIRED", "REVOKED"})

\* The parts of IInv that speak of sessions alone survive it.
LEMMA FewerKeeps ==
  ASSUME IInv, Fewer
  PROVE  /\ LoginsKnown' /\ OpenIsLast' /\ OneOpen' /\ ChainReaches'
         /\ \A s \in Sessions : (Known(s))' <=> Known(s)
         /\ \A s \in Sessions : (Open(s))' => Open(s)
<1> USE DEF IInv, SessionsOK
<1>1. \A s \in Sessions : ((Known(s))' <=> Known(s)) /\ ((Open(s))' => Open(s))
  BY DEF Fewer, Known, Open
<1>2. LoginsKnown'
  BY <1>1 DEF LoginsKnown, Fewer
<1>3. OpenIsLast'
  BY DEF OpenIsLast, Fewer, Open
<1>4. OneOpen'
  BY <1>1 DEF OneOpen, Fewer
<1>5. ChainReaches'
  <2> SUFFICES ASSUME NEW s \in Sessions, NEW u \in Sessions, Known(s)', Open(u)',
                      session'[s].login = session'[u].login,
                      NEW S \in SUBSET Sessions, s \in S, Closed(S)'
               PROVE  u \in S
    BY DEF ChainReaches
  <2>1. Closed(S)
    BY DEF Closed, Fewer
  <2>2. Known(s) /\ Open(u) /\ session[s].login = session[u].login
    BY <1>1 DEF Fewer
  <2> QED BY <2>1, <2>2 DEF ChainReaches
<1> QED BY <1>1, <1>2, <1>3, <1>4, <1>5

\* revokedAt is set on some sessions.
LEMMA RevokedIsFewer ==
  ASSUME TypeOK, NEW S, session' = Revoked(S)
  PROVE  Fewer /\ \A s \in Sessions : s \in S => ~(Open(s))'
<1>1. \A s \in Sessions : session'[s] = IF s \in S /\ Open(s)
                                        THEN [session[s] EXCEPT !.state = "REVOKED"] ELSE session[s]
  BY DEF Revoked, Open
<1>2. \A s \in Sessions : session[s] \in Session
  BY DEF TypeOK
<1>3. \A s \in Sessions : session'[s] \in Session
  BY <1>1, <1>2 DEF Session
<1>4. session' \in [Sessions -> Session]
  BY <1>3 DEF Revoked
<1>5. \A s \in Sessions :
        /\ session'[s].replacedById = session[s].replacedById
        /\ session'[s].login = session[s].login
        /\ session'[s].born = session[s].born
        /\ session'[s].state = IF s \in S /\ Open(s) THEN "REVOKED" ELSE session[s].state
  BY <1>1, <1>2 DEF Session
<1>6. Fewer
  <2>1. \A s \in Sessions : session'[s].state = session[s].state
                            \/ (Open(s) /\ session'[s].state \in {"EXPIRED", "REVOKED"})
    BY <1>5
  <2> QED BY <1>4, <1>5, <2>1 DEF Fewer
<1>7. \A s \in Sessions : s \in S => ~(Open(s))'
  BY <1>5 DEF Open
<1> QED BY <1>6, <1>7

\* A session without a successor is replaced by, or inserted as, one that was absent.
LEMMA ClosedIsClosed ==
  ASSUME IInv, NEW x \in Sessions, NEW n \in Sessions,
         session[x].replacedById = NoSession, ~Known(n),
         session' \in [Sessions -> Session],
         session'[n].replacedById = NoSession,
         \A s \in Sessions \ {x, n} : session'[s] = session[s],
         NEW S \in SUBSET Sessions, Closed(S)'
  PROVE  Closed(S)
<1>1. session[n].replacedById = NoSession
  BY DEF IInv, SessionsOK, OpenIsLast, Known
<1> QED BY <1>1 DEF Closed

-----------------------------------------------------------------------------
(* Signing in *)

\* createSession: the new session is the open one of a login of its own.
LEMMA InsertKeeps ==
  ASSUME IInv, NEW p \in Requests, NEW n \in Sessions, ~Known(n),
         session' = [session EXCEPT ![n] = NewSession(p, n)],
         req[p].trusted = "YES" \/ req[p].hash = user.passwordHash,
         UNCHANGED <<left, epoch>>
  PROVE  /\ session' \in [Sessions -> Session]
         /\ SessionsOK'
         /\ \A s \in Sessions : Known(s) => (Known(s))'
<1> USE DEF IInv, SessionsOK
<1>1. /\ session'[n].state = "LIVE" /\ session'[n].login = n
      /\ session'[n].replacedById = NoSession /\ session'[n].born = user.passwordHash
  BY DEF NewSession, Birth, AbsentSession, TypeOK
<1>2. \A s \in Sessions \ {n} : session'[s] = session[s]
  BY DEF TypeOK
<1>3. session' \in [Sessions -> Session]
  <2>1. req[p] \in Request /\ user \in User
    BY DEF TypeOK
  <2>2. NewSession(p, n) \in Session
    BY <2>1 DEF NewSession, Birth, AbsentSession, Session, Request, User
  <2> QED BY <2>2 DEF TypeOK
<1>4. (Known(n))' /\ (Open(n))' /\ ~Open(n)
  BY <1>1 DEF Known, Open
<1>5. \A s \in Sessions \ {n} : ((Known(s))' <=> Known(s)) /\ ((Open(s))' <=> Open(s))
  BY <1>2 DEF Known, Open
<1>6. \A s \in Sessions : Known(s) => session[s].login # n
  BY DEF LoginsKnown
<1>7. \A s \in Sessions : Open(s) => Known(s)
  BY DEF Open, Known
<1>8. LoginsKnown'
  BY <1>1, <1>2, <1>4, <1>5 DEF LoginsKnown
<1>9. OpenIsLast'
  BY <1>1, <1>2 DEF OpenIsLast
<1>10. OpenIsNew'
  <2>1. user.passwordHash >= epoch
    BY DEF TypeOK, User
  <2> QED BY <2>1, <1>1, <1>2, <1>5 DEF OpenIsNew
<1>11. OneOpen'
  BY <1>1, <1>2, <1>5, <1>6, <1>7 DEF OneOpen
<1>12. ChainReaches'
  <2> SUFFICES ASSUME NEW s \in Sessions, NEW u \in Sessions, Known(s)', Open(u)',
                      session'[s].login = session'[u].login,
                      NEW S \in SUBSET Sessions, s \in S, Closed(S)'
               PROVE  u \in S
    BY DEF ChainReaches
  <2>1. CASE s = n \/ u = n
    BY <2>1, <1>1, <1>2, <1>5, <1>6, <1>7
  <2>2. CASE s # n /\ u # n
    <3>1. Closed(S)
      BY ClosedIsClosed, <1>1, <1>2, <1>3 DEF OpenIsLast, Known
    <3> QED BY <2>2, <3>1, <1>2, <1>5 DEF ChainReaches
  <2> QED BY <2>1, <2>2
<1>13. LeftKnown'
  BY <1>4, <1>5 DEF LeftKnown, TypeOK
<1>14. OpenIsNotLeft'
  BY <1>1, <1>2, <1>5 DEF OpenIsNotLeft, LeftKnown
<1> QED BY <1>3, <1>4, <1>5, <1>8, <1>9, <1>10, <1>11, <1>12, <1>13, <1>14

\* refresh: the open session of a login is replaced.
LEMMA ReplaceKeeps ==
  ASSUME IInv, NEW x \in Sessions, NEW n \in Sessions, Open(x), ~Known(n),
         session' = [session EXCEPT ![x].state = "REVOKED", ![x].replacedById = n,
                                    ![n] = [session[x] EXCEPT !.state = "LIVE", !.replacedById = NoSession]],
         UNCHANGED <<left, epoch>>
  PROVE  /\ session' \in [Sessions -> Session]
         /\ SessionsOK'
         /\ \A s \in Sessions : Known(s) => (Known(s))'
<1> USE DEF IInv, SessionsOK
<1>0. x # n /\ Known(x)
  BY DEF Open, Known
<1>1. /\ session'[n].state = "LIVE" /\ session'[n].login = session[x].login
      /\ session'[n].replacedById = NoSession /\ session'[n].born = session[x].born
      /\ session'[x].state = "REVOKED" /\ session'[x].login = session[x].login
      /\ session'[x].replacedById = n
  BY <1>0 DEF TypeOK, Session
<1>2. \A s \in Sessions \ {x, n} : session'[s] = session[s]
  BY DEF TypeOK
<1>3. session' \in [Sessions -> Session]
  <2>1. session[x] \in Session
    BY DEF TypeOK
  <2>2. /\ [session[x] EXCEPT !.state = "LIVE", !.replacedById = NoSession] \in Session
        /\ [[session[x] EXCEPT !.state = "REVOKED"] EXCEPT !.replacedById = n] \in Session
    BY <2>1 DEF Session
  <2> QED BY <2>2, <1>0 DEF TypeOK
<1>4. (Known(n))' /\ (Open(n))' /\ ~Open(n) /\ (Known(x))' /\ ~(Open(x))'
  BY <1>1 DEF Known, Open
<1>5. \A s \in Sessions \ {x, n} : ((Known(s))' <=> Known(s)) /\ ((Open(s))' <=> Open(s))
  BY <1>2 DEF Known, Open
<1>7. \A s \in Sessions : Open(s) => Known(s)
  BY DEF Open, Known
<1>8. LoginsKnown'
  <2> SUFFICES ASSUME NEW s \in Sessions, Known(s)'
               PROVE  session'[s].login \in Sessions /\ session'[session'[s].login].state # "ABSENT"
    BY DEF LoginsKnown, Known
  <2>1. \E t \in Sessions : Known(t) /\ session'[s].login = session[t].login
    BY <1>0, <1>1, <1>2, <1>5
  <2>2. session'[s].login \in Sessions /\ Known(session'[s].login)
    BY <2>1 DEF LoginsKnown
  <2> QED BY <2>2, <1>4, <1>5 DEF Known
<1>9. OpenIsLast'
  BY <1>1, <1>2 DEF OpenIsLast
<1>10. OpenIsNew'
  BY <1>1, <1>2, <1>4, <1>5 DEF OpenIsNew
<1>6. \A s \in Sessions : (Open(s))' => \E t \in Sessions :
        /\ Open(t) /\ session'[s].login = session[t].login
        /\ s = IF t = x THEN n ELSE t
  BY <1>1, <1>2, <1>4, <1>5
<1>11. OneOpen'
  BY <1>6 DEF OneOpen
<1>12. ChainReaches'
  <2> SUFFICES ASSUME NEW s \in Sessions, NEW u \in Sessions, Known(s)', Open(u)',
                      session'[s].login = session'[u].login,
                      NEW S \in SUBSET Sessions, s \in S, Closed(S)'
               PROVE  u \in S
    BY DEF ChainReaches
  <2>1. Closed(S)
    <3>1. session[x].replacedById = NoSession
      BY DEF OpenIsLast, Open
    <3> QED BY <3>1, ClosedIsClosed, <1>1, <1>2, <1>3
  <2>2. CASE s = n
    <3>1. u = n
      BY <2>2, <1>4, <1>11 DEF OneOpen
    <3> QED BY <3>1, <2>2
  <2>3. CASE s # n
    <3>1. Known(s) /\ session'[s].login = session[s].login
      BY <2>3, <1>0, <1>1, <1>2, <1>5
    <3>2. CASE u = n
      <4>1. x \in S
        BY <3>1, <3>2, <2>1, <1>1 DEF ChainReaches
      <4> QED BY <4>1, <3>2, <1>1, NoneAssumption DEF Closed
    <3>3. CASE u # n
      <4>1. Open(u) /\ session'[u].login = session[u].login
        BY <3>3, <1>2, <1>4, <1>5
      <4> QED BY <4>1, <3>1, <2>1 DEF ChainReaches
    <3> QED BY <3>2, <3>3
  <2> QED BY <2>2, <2>3
<1>13. LeftKnown'
  BY <1>4, <1>5 DEF LeftKnown, TypeOK
<1>14. OpenIsNotLeft'
  <2> SUFFICES ASSUME NEW s \in Sessions, Open(s)' PROVE session'[s].login \notin left'
    BY DEF OpenIsNotLeft
  <2>1. PICK t \in Sessions : Open(t) /\ session'[s].login = session[t].login
    BY <1>6
  <2> QED BY <2>1 DEF OpenIsNotLeft
<1> QED BY <1>3, <1>4, <1>5, <1>8, <1>9, <1>10, <1>11, <1>12, <1>13, <1>14

-----------------------------------------------------------------------------
(* Signing out *)

\* All sessions end: nothing is left to be too old, doubled or logged out.
LEMMA EndAllKeeps ==
  ASSUME IInv, session' = Revoked(Sessions), \A s \in left' : s \in Sessions /\ Known(s)
  PROVE  /\ session' \in [Sessions -> Session]
         /\ SessionsOK'
         /\ \A s \in Sessions : Known(s) => (Known(s))'
<1> USE DEF IInv, SessionsOK
<1>1. Fewer /\ \A s \in Sessions : ~(Open(s))'
  BY RevokedIsFewer
<1>2. /\ LoginsKnown' /\ OpenIsLast' /\ OneOpen' /\ ChainReaches'
      /\ \A s \in Sessions : (Known(s))' <=> Known(s)
  BY <1>1, FewerKeeps
<1>3. OpenIsNew' /\ OpenIsNotLeft'
  BY <1>1 DEF OpenIsNew, OpenIsNotLeft
<1>4. LeftKnown'
  BY <1>2 DEF LeftKnown
<1> QED BY <1>1, <1>2, <1>3, <1>4 DEF Fewer

\* revokeSessionChain: the open session of the login is in the chain.
LEMMA RevokeChainKeeps ==
  ASSUME IInv, NEW x \in Sessions, Known(x), session' = Revoked(Chain(x)),
         left' = left \cup {session[x].login}, UNCHANGED epoch
  PROVE  /\ session' \in [Sessions -> Session]
         /\ left' \subseteq Sessions
         /\ SessionsOK'
         /\ \A s \in Sessions : Known(s) => (Known(s))'
<1> USE DEF IInv, SessionsOK
<1>1. Fewer /\ \A s \in Sessions : s \in Chain(x) => ~(Open(s))'
  BY RevokedIsFewer
<1>2. /\ LoginsKnown' /\ OpenIsLast' /\ OneOpen' /\ ChainReaches'
      /\ \A s \in Sessions : (Known(s))' <=> Known(s)
      /\ \A s \in Sessions : (Open(s))' => Open(s)
  BY <1>1, FewerKeeps
<1>3. OpenIsNew'
  BY <1>1, <1>2 DEF OpenIsNew, Fewer
<1>4. left' \subseteq Sessions /\ \A s \in left' : Known(s)
  BY DEF TypeOK, LoginsKnown, LeftKnown
<1>5. LeftKnown'
  BY <1>2, <1>4 DEF LeftKnown
<1>6. OpenIsNotLeft'
  <2> SUFFICES ASSUME NEW s \in Sessions, Open(s)' PROVE session'[s].login \notin left'
    BY DEF OpenIsNotLeft
  <2>1. Open(s) /\ session'[s].login = session[s].login /\ s \notin Chain(x)
    BY <1>1, <1>2 DEF Fewer
  <2>2. session[s].login # session[x].login
    BY <2>1 DEF ChainReaches, Chain, Closed
  <2> QED BY <2>1, <2>2 DEF OpenIsNotLeft
<1> QED BY <1>1, <1>2, <1>3, <1>4, <1>5, <1>6 DEF Fewer

\* A session expires: it stays the open one.
LEMMA ExpiryKeeps ==
  ASSUME IInv, NEW x \in Sessions, Live(x), session' = [session EXCEPT ![x].state = "EXPIRED"],
         UNCHANGED <<left, epoch>>
  PROVE  /\ session' \in [Sessions -> Session]
         /\ SessionsOK'
         /\ \A s \in Sessions : Known(s) => (Known(s))'
<1> USE DEF IInv, SessionsOK
<1>1. \A s \in Sessions : session[s] \in Session
  BY DEF TypeOK
<1>2. \A s \in Sessions : session'[s] = IF s = x THEN [session[s] EXCEPT !.state = "EXPIRED"] ELSE session[s]
  BY DEF TypeOK
<1>3. session' \in [Sessions -> Session]
  <2>1. [session[x] EXCEPT !.state = "EXPIRED"] \in Session
    BY <1>1 DEF Session
  <2> QED BY <2>1 DEF TypeOK
<1>4. \A s \in Sessions :
        /\ session'[s].replacedById = session[s].replacedById
        /\ session'[s].login = session[s].login
        /\ session'[s].born = session[s].born
        /\ session'[s].state = IF s = x THEN "EXPIRED" ELSE session[s].state
  BY <1>1, <1>2 DEF Session
<1>5. Fewer
  BY <1>3, <1>4 DEF Fewer, Open, Live
<1>6. /\ LoginsKnown' /\ OpenIsLast' /\ OneOpen' /\ ChainReaches'
      /\ \A s \in Sessions : (Known(s))' <=> Known(s)
      /\ \A s \in Sessions : (Open(s))' => Open(s)
  BY <1>5, FewerKeeps
<1>7. OpenIsNew'
  BY <1>4, <1>6 DEF OpenIsNew
<1>8. LeftKnown' /\ OpenIsNotLeft'
  BY <1>4, <1>6 DEF LeftKnown, OpenIsNotLeft, TypeOK
<1> QED BY <1>3, <1>6, <1>7, <1>8

\* A step that leaves the sessions alone.
LEMMA SameSessionsKeep ==
  ASSUME IInv, UNCHANGED <<session, epoch, left>>
  PROVE  /\ session' \in [Sessions -> Session]
         /\ SessionsOK'
         /\ \A s \in Sessions : Known(s) => (Known(s))'
BY DEF IInv, TypeOK, SessionsOK, LoginsKnown, OpenIsLast, OpenIsNew, OneOpen, ChainReaches, LeftKnown,
       OpenIsNotLeft, Known, Open, Closed

-----------------------------------------------------------------------------
(* Requests *)

\* What a request may know when it waits.
RequestOK(r) ==
  /\ r \in Request
  /\ r.pc \in {"rotate", "revoke"} => r.s \in Sessions /\ Known(r.s)
  /\ r.pc \in {"link", "reset"} => r.l \in Links

\* A request that has ended knows nothing.
LEMMA NoRequestOK == ASSUME IInv PROVE RequestOK(NoRequest)
BY BoundsAssumption DEF RequestOK, NoRequest, Request, PCs

\* The next state of a request is as good as the record it becomes.
LEMMA RequestsKeep ==
  ASSUME IInv, NEW p \in Requests, NEW r, RequestOK(r), Becomes(p, r),
         \A s \in Sessions : Known(s) => (Known(s))'
  PROVE  req' \in [Requests -> Request] /\ RequestsKnow'
<1>1. req' \in [Requests -> Request]
  BY DEF IInv, TypeOK, Becomes, RequestOK
<1>2. \A q \in Requests : req'[q] = IF q = p THEN r ELSE req[q]
  BY DEF IInv, TypeOK, Becomes
<1>3. \A q \in Requests :
        /\ req'[q].pc \in {"rotate", "revoke"} => req'[q].s \in Sessions /\ Known(req'[q].s)
        /\ req'[q].pc \in {"link", "reset"} => req'[q].l \in Links
  BY <1>2 DEF IInv, RequestsKnow, RequestOK
<1>4. \A q \in Requests : req'[q].pc \in {"rotate", "revoke"} =>
        req'[q].s \in Sessions /\ session'[req'[q].s].state # "ABSENT"
  BY <1>3 DEF Known
<1> QED BY <1>1, <1>3, <1>4 DEF RequestsKnow, Known

\* A request is taken in: it reads and then waits.
LEMMA CallKeeps ==
  ASSUME IInv, NEW p \in Requests, NEW r, RequestOK(r), Becomes(p, r),
         UNCHANGED <<user, session, link, epoch, left, edits>>
  PROVE  IInv'
<1>1. /\ SessionsOK'
      /\ \A s \in Sessions : Known(s) => (Known(s))'
  BY SameSessionsKeep
<1>2. req' \in [Requests -> Request] /\ RequestsKnow'
  BY <1>1, RequestsKeep
<1>3. TypeOK'
  BY <1>2 DEF IInv, TypeOK
<1> QED BY <1>1, <1>2, <1>3 DEF IInv

\* Every request that is taken in waits with a record that is fit for it.
LEMMA CallsKeep == ASSUME IInv, NEW p \in Requests, Call(p) PROVE IInv'
<1> USE DEF IInv
<1>0. user.passwordHash \in 0..MaxHash /\ 0 \in 0..MaxHash
  BY BoundsAssumption DEF TypeOK, User
<1>1. CASE login(p)
  <2>1. RequestOK([NoRequest EXCEPT !.pc = "session", !.hash = user.passwordHash])
    BY <1>0 DEF RequestOK, NoRequest, Request, PCs
  <2> QED BY <1>1, <2>1, CallKeeps DEF login
<1>2. CASE loginTrusted(p)
  <2>1. RequestOK([NoRequest EXCEPT !.pc = "session", !.trusted = "YES"])
    BY <1>0 DEF RequestOK, NoRequest, Request, PCs
  <2> QED BY <1>2, <2>1, CallKeeps DEF loginTrusted
<1>3. CASE acceptInvite(p)
  <2>1. RequestOK([NoRequest EXCEPT !.pc = "accept"])
    BY <1>0 DEF RequestOK, NoRequest, Request, PCs
  <2> QED BY <1>3, <2>1, CallKeeps DEF acceptInvite
<1>4. ASSUME NEW s \in Sessions, refresh(p, s) PROVE IInv'
  <2>1. RequestOK([NoRequest EXCEPT !.pc = "rotate", !.s = s])
    BY <1>0, <1>4 DEF RequestOK, NoRequest, Request, PCs, refresh, Known
  <2> QED BY <1>4, <2>1, CallKeeps DEF refresh
<1>5. ASSUME NEW s \in Sessions, logout(p, s) PROVE IInv'
  <2>1. RequestOK([NoRequest EXCEPT !.pc = "revoke", !.s = s])
    BY <1>0, <1>5 DEF RequestOK, NoRequest, Request, PCs, logout, Authenticated, Live, Known
  <2> QED BY <1>5, <2>1, CallKeeps DEF logout
<1>6. ASSUME NEW s \in Sessions, revokeAll(p, s) PROVE IInv'
  <2>1. RequestOK([NoRequest EXCEPT !.pc = "revokeAll"])
    BY <1>0 DEF RequestOK, NoRequest, Request, PCs
  <2> QED BY <1>6, <2>1, CallKeeps DEF revokeAll
<1>7. ASSUME NEW s \in Sessions, changePassword(p, s) PROVE IInv'
  <2>1. PICK all \in {"NO", "YES"} :
          Becomes(p, [NoRequest EXCEPT !.pc = "change", !.hash = user.passwordHash, !.all = all])
    BY <1>7 DEF changePassword
  <2>2. RequestOK([NoRequest EXCEPT !.pc = "change", !.hash = user.passwordHash, !.all = all])
    BY <1>0 DEF RequestOK, NoRequest, Request, PCs
  <2> QED BY <1>7, <2>1, <2>2, CallKeeps DEF changePassword
<1>8. ASSUME NEW l \in Links, requestPasswordReset(p, l) PROVE IInv'
  <2>1. RequestOK([NoRequest EXCEPT !.pc = "link", !.l = l])
    BY <1>0 DEF RequestOK, NoRequest, Request, PCs
  <2> QED BY <1>8, <2>1, CallKeeps DEF requestPasswordReset
<1>9. ASSUME NEW l \in Links, resetPassword(p, l) PROVE IInv'
  <2>1. RequestOK([NoRequest EXCEPT !.pc = "reset", !.l = l])
    BY <1>0 DEF RequestOK, NoRequest, Request, PCs
  <2> QED BY <1>9, <2>1, CallKeeps DEF resetPassword
<1> QED BY <1>1, <1>2, <1>3, <1>4, <1>5, <1>6, <1>7, <1>8, <1>9 DEF Call

-----------------------------------------------------------------------------
(* The transactions *)

\* A transaction ends its request: what it does to the other tables decides.
LEMMA TransactionKeeps ==
  ASSUME IInv, NEW p \in Requests, Ends(p),
         session' \in [Sessions -> Session], SessionsOK',
         \A s \in Sessions : Known(s) => (Known(s))',
         user' \in User, link' \in [Links -> {"ABSENT", "VALID", "EXPIRED", "USED"}],
         epoch' \in 0..user'.passwordHash, left' \subseteq Sessions, edits' = edits
  PROVE  IInv'
<1>1. req' \in [Requests -> Request] /\ RequestsKnow'
  BY NoRequestOK, RequestsKeep DEF Ends
<1>2. TypeOK'
  BY <1>1 DEF IInv, TypeOK
<1> QED BY <1>1, <1>2 DEF IInv

\* createSession.
LEMMA CreateSessionKeeps == ASSUME IInv, NEW p \in Requests, CreateSession(p) PROVE IInv'
<1>1. /\ session' \in [Sessions -> Session]
      /\ SessionsOK'
      /\ \A s \in Sessions : Known(s) => (Known(s))'
  <2>1. CASE UNCHANGED session
    BY <2>1, SameSessionsKeep DEF CreateSession
  <2>2. CASE /\ req[p].trusted = "YES" \/ req[p].hash = user.passwordHash
             /\ \E s \in Sessions :
                  /\ session[s].state = "ABSENT"
                  /\ session' = [session EXCEPT ![s] = NewSession(p, s)]
    BY <2>2, InsertKeeps DEF CreateSession, Known
  <2> QED BY <2>1, <2>2 DEF CreateSession
<1> QED BY <1>1, TransactionKeeps DEF CreateSession, IInv, TypeOK

\* refresh: the session it presented is open if it is not revoked.
LEMMA RotateKeeps == ASSUME IInv, NEW p \in Requests, Rotate(p) PROVE IInv'
<1>1. /\ session' \in [Sessions -> Session]
      /\ SessionsOK'
      /\ \A s \in Sessions : Known(s) => (Known(s))'
  <2>1. CASE UNCHANGED session
    BY <2>1, SameSessionsKeep DEF Rotate
  <2>2. CASE session[req[p].s].state # "REVOKED" /\ ~UNCHANGED session
    <3>1. req[p].s \in Sessions /\ Known(req[p].s)
      BY DEF Rotate, IInv, RequestsKnow
    <3>2. Open(req[p].s)
      BY <2>2, <3>1 DEF Open, Known, IInv, TypeOK, Session
    <3>3. PICK n \in Sessions :
            /\ session[n].state = "ABSENT"
            /\ session' = [session EXCEPT
                 ![req[p].s].state = "REVOKED", ![req[p].s].replacedById = n,
                 ![n] = [session[req[p].s] EXCEPT !.state = "LIVE", !.replacedById = NoSession]]
      BY <2>2 DEF Rotate
    <3> QED BY <3>1, <3>2, <3>3, ReplaceKeeps DEF Rotate, Known
  <2> QED BY <2>1, <2>2 DEF Rotate
<1> QED BY <1>1, TransactionKeeps DEF Rotate, IInv, TypeOK

\* revokeSessionChain.
LEMMA RevokeChainStepKeeps == ASSUME IInv, NEW p \in Requests, RevokeChain(p) PROVE IInv'
<1>1. req[p].s \in Sessions /\ Known(req[p].s)
  BY DEF RevokeChain, IInv, RequestsKnow
<1>2. /\ session' \in [Sessions -> Session]
      /\ left' \subseteq Sessions
      /\ SessionsOK'
      /\ \A s \in Sessions : Known(s) => (Known(s))'
  BY <1>1, RevokeChainKeeps DEF RevokeChain
<1> QED BY <1>2, TransactionKeeps DEF RevokeChain, IInv, TypeOK

\* Logout from all devices.
LEMMA RevokeAllKeeps == ASSUME IInv, NEW p \in Requests, RevokeAll(p) PROVE IInv'
<1>1. \A s \in left' : s \in Sessions /\ Known(s)
  BY DEF RevokeAll, IInv, TypeOK, SessionsOK, LeftKnown, LoginsKnown, Live, Known
<1>2. /\ session' \in [Sessions -> Session]
      /\ SessionsOK'
      /\ \A s \in Sessions : Known(s) => (Known(s))'
  BY <1>1, EndAllKeeps DEF RevokeAll
<1> QED BY <1>1, <1>2, TransactionKeeps DEF RevokeAll, IInv, TypeOK

\* A link is inserted.
LEMMA InsertLinkKeeps == ASSUME IInv, NEW p \in Requests, InsertLink(p) PROVE IInv'
<1>1. /\ session' \in [Sessions -> Session]
      /\ SessionsOK'
      /\ \A s \in Sessions : Known(s) => (Known(s))'
  BY SameSessionsKeep DEF InsertLink
<1>2. link' \in [Links -> {"ABSENT", "VALID", "EXPIRED", "USED"}]
  BY DEF InsertLink, IInv, TypeOK
<1> QED BY <1>1, <1>2, TransactionKeeps DEF InsertLink, IInv, TypeOK

\* A new password that ends all sessions (u: the new row), or leaves them alone.
LEMMA NewPasswordKeeps ==
  ASSUME IInv, NEW p \in Requests, Ends(p), UNCHANGED <<left, edits>>,
         NEW u \in User, NewPassword(u), u.passwordHash = user.passwordHash + 1,
         EndAllSessions \/ UNCHANGED <<session, epoch>>
  PROVE  IInv'
<1>1. /\ session' \in [Sessions -> Session]
      /\ SessionsOK'
      /\ \A s \in Sessions : Known(s) => (Known(s))'
  <2>1. CASE EndAllSessions
    BY <2>1, EndAllKeeps DEF EndAllSessions, IInv, TypeOK, SessionsOK, LeftKnown
  <2>2. CASE UNCHANGED <<session, epoch>>
    BY <2>2, SameSessionsKeep
  <2> QED BY <2>1, <2>2
<1>2. user' = u /\ link' \in [Links -> {"ABSENT", "VALID", "EXPIRED", "USED"}]
  BY DEF NewPassword
<1>3. epoch' \in 0..user'.passwordHash
  BY <1>2 DEF EndAllSessions, IInv, TypeOK, User
<1> QED BY <1>1, <1>2, <1>3, TransactionKeeps DEF IInv, TypeOK

\* A transaction that is refused changes nothing but its request.
LEMMA RefusedKeeps ==
  ASSUME IInv, NEW p \in Requests, Ends(p), UNCHANGED <<user, session, link, epoch, left, edits>>
  PROVE  IInv'
BY NoRequestOK, CallKeeps DEF Ends

\* The row that a new password leaves.
LEMMA NewRow ==
  ASSUME IInv, user.passwordHash < MaxHash
  PROVE  /\ [user EXCEPT !.passwordHash = @ + 1] \in User
         /\ [user EXCEPT !.passwordHash = @ + 1].passwordHash = user.passwordHash + 1
         /\ [user EXCEPT !.passwordHash = @ + 1, !.status = "ACTIVE", !.invite = "USED"] \in User
         /\ [user EXCEPT !.passwordHash = @ + 1, !.status = "ACTIVE", !.invite = "USED"].passwordHash
              = user.passwordHash + 1
<1>1. user \in User
  BY DEF IInv, TypeOK
<1>2. user.passwordHash + 1 \in 0..MaxHash
  BY <1>1, BoundsAssumption DEF User
<1> QED BY <1>1, <1>2 DEF User

\* ResetPassword, changePassword and AcceptInvite.
LEMMA PasswordsKeep ==
  ASSUME IInv, NEW p \in Requests, ConsumeLink(p) \/ ReplaceHash(p) \/ Activate(p)
  PROVE  IInv'
<1>0. user.passwordHash < MaxHash /\ Ends(p) /\ UNCHANGED <<left, edits>>
  BY DEF ConsumeLink, ReplaceHash, Activate
<1>1. CASE ConsumeLink(p)
  <2>1. \/ NewPassword([user EXCEPT !.passwordHash = @ + 1]) /\ EndAllSessions
        \/ UNCHANGED <<user, session, link, epoch>>
    BY <1>1 DEF ConsumeLink
  <2> QED BY <1>0, <2>1, NewRow, NewPasswordKeeps, RefusedKeeps
<1>2. CASE ReplaceHash(p)
  <2>1. \/ /\ NewPassword([user EXCEPT !.passwordHash = @ + 1])
           /\ EndAllSessions \/ UNCHANGED <<session, epoch>>
        \/ UNCHANGED <<user, session, link, epoch>>
    BY <1>2 DEF ReplaceHash
  <2> QED BY <1>0, <2>1, NewRow, NewPasswordKeeps, RefusedKeeps
<1>3. CASE Activate(p)
  <2>1. \/ /\ NewPassword([user EXCEPT !.passwordHash = @ + 1, !.status = "ACTIVE", !.invite = "USED"])
           /\ EndAllSessions
        \/ UNCHANGED <<user, session, link, epoch>>
    BY <1>3 DEF Activate
  <2> QED BY <1>0, <2>1, NewRow, NewPasswordKeeps, RefusedKeeps
<1> QED BY <1>1, <1>2, <1>3

-----------------------------------------------------------------------------
(* Time and the administration *)

\* A step of nobody's request.
LEMMA OthersKeep ==
  ASSUME IInv, UNCHANGED req,
         session' \in [Sessions -> Session], SessionsOK',
         \A s \in Sessions : Known(s) => (Known(s))',
         user' \in User, link' \in [Links -> {"ABSENT", "VALID", "EXPIRED", "USED"}],
         user'.passwordHash = user.passwordHash, UNCHANGED <<epoch, left>>, edits' \in 0..MaxEdits
  PROVE  IInv'
<1>1. \A q \in Requests : req[q].pc \in {"rotate", "revoke"} =>
        req[q].s \in Sessions /\ session'[req[q].s].state # "ABSENT"
  BY DEF IInv, RequestsKnow, Known
<1>2. RequestsKnow'
  BY <1>1 DEF IInv, RequestsKnow, Known
<1>3. TypeOK'
  BY DEF IInv, TypeOK
<1> QED BY <1>2, <1>3 DEF IInv

\* Sessions and links expire; an administrator sets the status or removes the user.
LEMMA TimeAndAdminKeep ==
  ASSUME IInv,
         \/ \E s \in Sessions : SessionExpires(s)
         \/ \E l \in Links : LinkExpires(l)
         \/ \E to \in {"ACTIVE", "INVITED", "SUSPENDED"} : setStatus(to)
         \/ remove
  PROVE  IInv'
<1>1. ASSUME NEW s \in Sessions, SessionExpires(s) PROVE IInv'
  <2>1. /\ session' \in [Sessions -> Session]
        /\ SessionsOK'
        /\ \A t \in Sessions : Known(t) => (Known(t))'
    BY <1>1, ExpiryKeeps DEF SessionExpires
  <2> QED BY <1>1, <2>1, OthersKeep DEF SessionExpires, IInv, TypeOK
<1>2. ASSUME UNCHANGED <<session, req, epoch, left>>,
             user' \in User, link' \in [Links -> {"ABSENT", "VALID", "EXPIRED", "USED"}],
             user'.passwordHash = user.passwordHash, edits' \in 0..MaxEdits
      PROVE  IInv'
  BY <1>2, SameSessionsKeep, OthersKeep
<1>3. ASSUME NEW l \in Links, LinkExpires(l) PROVE IInv'
  BY <1>2, <1>3 DEF LinkExpires, IInv, TypeOK
<1>4. ASSUME edits < MaxEdits, edits' = edits + 1 PROVE edits' \in 0..MaxEdits
  BY <1>4, BoundsAssumption DEF IInv, TypeOK
<1>5. ASSUME NEW to \in {"ACTIVE", "INVITED", "SUSPENDED"}, setStatus(to) PROVE IInv'
  <2>1. user' \in User /\ user'.passwordHash = user.passwordHash
    BY <1>5 DEF setStatus, IInv, TypeOK, User
  <2> QED BY <1>2, <1>4, <1>5, <2>1 DEF setStatus, IInv, TypeOK
<1>6. CASE remove
  <2>1. user' \in User /\ user'.passwordHash = user.passwordHash
    BY <1>6 DEF remove, IInv, TypeOK, User
  <2> QED BY <1>2, <1>4, <1>6, <2>1 DEF remove, IInv, TypeOK
<1> QED BY <1>1, <1>3, <1>5, <1>6

-----------------------------------------------------------------------------
(* The theorems *)

\* Every step of every actor keeps the invariant.
LEMMA NextInv == ASSUME IInv, [Next]_vars PROVE IInv'
<1>1. CASE Next
  <2>1. ASSUME NEW p \in Requests, Step(p) PROVE IInv'
    BY <2>1, CreateSessionKeeps, RotateKeeps, RevokeChainStepKeeps, RevokeAllKeeps, InsertLinkKeeps,
       PasswordsKeep DEF Step
  <2> QED BY <1>1, <2>1, CallsKeep, TimeAndAdminKeep DEF Next
<1>2. CASE UNCHANGED vars
  BY <1>2 DEF vars, IInv, TypeOK, RequestsKnow, SessionsOK, LoginsKnown, OpenIsLast, OpenIsNew, OneOpen,
              ChainReaches, LeftKnown, OpenIsNotLeft, Known, Open, Closed
<1> QED BY <1>1, <1>2

\* The inductive invariant holds in every state, however the requests interleave.
THEOREM Invariance == Spec => []IInv
<1>1. IInv /\ [Next]_vars => IInv'
  BY NextInv
<1> QED BY InitInv, <1>1, PTL DEF Spec

\* The user, its sessions, links and requests keep their types.
THEOREM TypeCorrect == Spec => []TypeOK
<1>1. IInv => TypeOK
  BY DEF IInv
<1> QED BY Invariance, <1>1, PTL

\* No live session goes back to a password verified, or to a session of a social login inserted,
\* before the last change of password that ends all sessions, whatever refreshes and password
\* logins were waiting for the lock.  A social login that waits for it is not excluded.
THEOREM OldLoginsGone == Spec => []OldLoginsAreGone
<1>1. IInv => OldLoginsAreGone
  BY DEF IInv, SessionsOK, OpenIsNew, OldLoginsAreGone, Live, Open
<1> QED BY Invariance, <1>1, PTL

\* However many requests present a refresh token, its login has one live session.
THEOREM OneSession == Spec => []OneSessionPerLogin
<1>1. IInv => OneSessionPerLogin
  BY DEF IInv, SessionsOK, OneOpen, OneSessionPerLogin, Live, Open
<1> QED BY Invariance, <1>1, PTL

\* A logout ends the login, also when its session is replaced while the logout waits.
THEOREM LogoutHolds == Spec => []LoggedOutStaysOut
<1>1. IInv => LoggedOutStaysOut
  BY DEF IInv, SessionsOK, OpenIsNotLeft, LoggedOutStaysOut, Live, Open
<1> QED BY Invariance, <1>1, PTL

\* No transaction sets a password on a suspended account, and a deleted one never changes.
THEOREM SuspensionAlwaysWins == Spec => SuspensionWins
<1> DEFINE A == /\ user'.passwordHash # user.passwordHash =>
                     user.status # "SUSPENDED" /\ user.deletedAt = "NULL"
                /\ user.deletedAt = "SET" => user' = user
<1>1. ASSUME TypeOK, [Next]_vars PROVE [A]_vars
  <2>1. CASE UNCHANGED vars
    BY <2>1
  <2>2. ASSUME NEW p \in Requests, Call(p) PROVE A
    BY <2>2 DEF Call, login, loginTrusted, acceptInvite, refresh, logout, revokeAll, changePassword,
                requestPasswordReset, resetPassword
  <2>3. ASSUME NEW p \in Requests, CreateSession(p) \/ Rotate(p) \/ RevokeChain(p) \/ RevokeAll(p) \/ InsertLink(p)
        PROVE  A
    BY <2>3 DEF CreateSession, Rotate, RevokeChain, RevokeAll, InsertLink
  <2>4. ASSUME NEW p \in Requests, ConsumeLink(p) \/ ReplaceHash(p) \/ Activate(p) PROVE A
    <3>1. user' = user \/ (user.deletedAt = "NULL" /\ user.status # "SUSPENDED")
      BY <2>4 DEF ConsumeLink, ReplaceHash, Activate, NewPassword, Active
    <3> QED BY <3>1
  <2>5. ASSUME NEW s \in Sessions, SessionExpires(s) PROVE A
    BY <2>5 DEF SessionExpires
  <2>6. ASSUME NEW l \in Links, LinkExpires(l) PROVE A
    BY <2>6 DEF LinkExpires
  <2>7. ASSUME NEW to \in {"ACTIVE", "INVITED", "SUSPENDED"}, setStatus(to) PROVE A
    BY <1>1, <2>7 DEF setStatus, TypeOK, User
  <2>8. CASE remove
    BY <1>1, <2>8 DEF remove, TypeOK, User
  <2> QED BY <1>1, <2>1, <2>2, <2>3, <2>4, <2>5, <2>6, <2>7, <2>8 DEF Next, Step
<1>2. TypeOK /\ [Next]_vars => [A]_vars
  BY <1>1
<1> QED BY TypeCorrect, <1>2, PTL DEF Spec, SuspensionWins
=============================================================================
