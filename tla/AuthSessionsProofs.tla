-------------------------- MODULE AuthSessionsProofs --------------------------
(* Theorems about AuthSessions, for every value of its constants. *)
EXTENDS AuthSessions, TLAPS

GuardedSteps == {"guard", "handler", "blacklist", "revoke"}

\* What TypeOK says of one request.
LEMMA RequestTyped ==
  ASSUME TypeOK, NEW r \in Request
  PROVE  /\ req[r].step \in Refreshing \cup {"login"} =>
              /\ req[r].session \in DOMAIN sessions
              /\ req[r].session \in Session
         /\ req[r].step \in Refreshing => req[r].old \in RefreshToken
         /\ req[r].step \in {"sign", "rotate"} => req[r].exp \in Nat
         /\ req[r].step = "rotate" => req[r].asOf \in Nat
         /\ req[r].step \in GuardedSteps =>
              /\ req[r].jti \in DOMAIN access
              /\ req[r].jti \in AccessToken
              /\ access[req[r].jti].session \in DOMAIN sessions
              /\ access[req[r].jti].exp \in Nat
         /\ req[r].step \in {"guard", "handler"} => req[r].logout \in BOOLEAN
         /\ req[r].step = "blacklist" => req[r].ttl \in Int
         /\ req[r].step = "idle" => req[r] = Idle
  BY DEF TypeOK, RequestState, Idle, LoginState, RefreshState, GuardedState,
     BlacklistState, AccessPayload, GuardedSteps, Refreshing

\* A request that ends.
LEMMA EndTyped ==
  ASSUME TypeOK, NEW r \in Request, End(r)
  PROVE  /\ req' \in [Request -> RequestState]
         /\ req'[r] = Idle
         /\ \A q \in Request \ {r} : req'[q] = req[q]
  BY DEF TypeOK, End, RequestState

\* A request that passes the guard.
LEMMA GuardPasses ==
  ASSUME TypeOK, NEW r \in Request, req[r].step = "guard", Goto(r, "handler")
  PROVE  /\ req' \in [Request -> RequestState]
         /\ req'[r].step = "handler" /\ req'[r].jti = req[r].jti
         /\ req'[r].logout = req[r].logout
         /\ \A q \in Request \ {r} : req'[q] = req[q]
<1>1. /\ req[r] \in GuardedState
      /\ [req[r] EXCEPT !.step = "handler"] \in GuardedState
  BY DEF TypeOK, RequestState, Idle, LoginState, RefreshState, GuardedState,
     BlacklistState
<1> QED
  BY <1>1 DEF Goto, TypeOK, RequestState, GuardedState

-----------------------------------------------------------------------------
(* Type correctness *)

LEMMA InitTyped == Init => TypeOK
<1> SUFFICES ASSUME Init PROVE TypeOK
  OBVIOUS
<1>1. /\ sessions \in [DOMAIN sessions -> SessionRow] /\ DOMAIN sessions = {}
      /\ access \in [DOMAIN access -> AccessPayload] /\ DOMAIN access = {}
      /\ blacklist \in [DOMAIN blacklist -> Nat] /\ DOMAIN blacklist = {}
  BY DEF Init
<1>2. req \in [Request -> RequestState] /\ \A r \in Request : req[r] = Idle
  BY DEF Init, RequestState
<1> QED
  BY <1>1, <1>2 DEF Init, TypeOK, Idle, Refreshing

\* The rows a rotation writes.
LEMMA RotateTyped ==
  ASSUME TypeOK, NEW r \in Request, req[r].step = "rotate",
         Rotate(r, req[r].session)
  PROVE  /\ DOMAIN sessions' = DOMAIN sessions
         /\ sessions' \in [DOMAIN sessions -> SessionRow]
         /\ DOMAIN access \subseteq DOMAIN access'
         /\ DOMAIN access' \subseteq AccessToken
         /\ access' \in [DOMAIN access' -> AccessPayload]
         /\ \A a \in DOMAIN access' : access'[a].session \in DOMAIN sessions
         /\ successors' \subseteq RefreshToken \X RefreshToken
         /\ \A a \in DOMAIN access : access'[a] = access[a]
         /\ \A a \in DOMAIN access' \ DOMAIN access :
              access'[a].session = req[r].session
<1> DEFINE s == req[r].session
           payload == [session |-> s, exp |-> req[r].exp]
<1>1. PICK token \in RefreshToken \ Given, a \in AccessToken \ DOMAIN access :
        /\ sessions' = [sessions EXCEPT ![s].token = token,
                                        ![s].expiresAt = req[r].asOf + RefreshTTL]
        /\ access' = Put(access, a, payload)
        /\ successors' = successors \cup {<<req[r].old, token>>}
  BY DEF Rotate
<1>2. /\ s \in DOMAIN sessions /\ s \in Session
      /\ req[r].exp \in Nat /\ req[r].asOf \in Nat /\ req[r].old \in RefreshToken
  BY RequestTyped DEF Refreshing
<1>3. /\ DOMAIN sessions' = DOMAIN sessions
      /\ sessions' \in [DOMAIN sessions -> SessionRow]
  BY <1>1, <1>2, TimeAssumption DEF TypeOK, SessionRow
<1>4. payload \in AccessPayload
  BY <1>2 DEF AccessPayload
<1>5. access \in [DOMAIN access -> AccessPayload]
  BY DEF TypeOK
<1>6. /\ DOMAIN access' = DOMAIN access \cup {a}
      /\ access' \in [DOMAIN access \cup {a} -> AccessPayload]
      /\ access'[a] = payload
      /\ \A x \in DOMAIN access \ {a} : access'[x] = access[x]
  BY <1>1, <1>4, <1>5 DEF Put
<1>7. \A x \in DOMAIN access : access'[x] = access[x]
  BY <1>1, <1>6
<1>8. \A x \in DOMAIN access' : access'[x].session \in DOMAIN sessions
  <2>1. access'[a].session = s
    BY <1>6
  <2> QED
    BY <1>2, <1>6, <1>7, <2>1 DEF TypeOK
<1>9. successors' \subseteq RefreshToken \X RefreshToken
  BY <1>1, <1>2 DEF TypeOK
<1>10. DOMAIN access \subseteq DOMAIN access' /\ DOMAIN access' \subseteq AccessToken
  BY <1>1, <1>6 DEF TypeOK
<1>11. access' \in [DOMAIN access' -> AccessPayload]
  BY <1>6
<1>12. \A x \in DOMAIN access' \ DOMAIN access : access'[x].session = s
  BY <1>6
<1> HIDE DEF s, payload
<1> QED
  BY <1>3, <1>7, <1>8, <1>9, <1>10, <1>11, <1>12 DEF s

\* The row a login inserts.
LEMMA CreateTyped ==
  ASSUME TypeOK, NEW r \in Request, NEW s \in Session, CreateSession(r, s)
  PROVE  /\ s \notin DOMAIN sessions
         /\ DOMAIN sessions' = DOMAIN sessions \cup {s}
         /\ sessions' \in [DOMAIN sessions' -> SessionRow]
         /\ \A x \in DOMAIN sessions : sessions'[x] = sessions[x]
         /\ sessions'[s].token \in RefreshToken \ Given
         /\ ~sessions'[s].revoked
<1>1. PICK token \in RefreshToken \ Given :
        sessions' = Put(sessions, s, [token |-> token, revoked |-> FALSE,
                                      expiresAt |-> now + RefreshTTL])
  BY DEF CreateSession
<1>2. [token |-> token, revoked |-> FALSE, expiresAt |-> now + RefreshTTL]
        \in SessionRow
  BY TimeAssumption DEF TypeOK, SessionRow
<1> QED
  BY <1>1, <1>2 DEF CreateSession, TypeOK, Put

\* The access token a login answers.
LEMMA AnswerTyped ==
  ASSUME TypeOK, NEW r \in Request, AnswerLogin(r)
  PROVE  /\ req[r].session \in DOMAIN sessions
         /\ \E a \in AccessToken \ DOMAIN access :
              /\ DOMAIN access' = DOMAIN access \cup {a}
              /\ access'[a].session = req[r].session
         /\ access' \in [DOMAIN access' -> AccessPayload]
         /\ \A x \in DOMAIN access : access'[x] = access[x]
<1> DEFINE payload == [session |-> req[r].session, exp |-> now + AccessTTL]
<1>1. PICK a \in AccessToken \ DOMAIN access : access' = Put(access, a, payload)
  BY DEF AnswerLogin
<1>2. req[r].session \in DOMAIN sessions /\ req[r].session \in Session
  BY RequestTyped DEF AnswerLogin
<1>3. payload \in AccessPayload
  BY <1>2, TimeAssumption DEF TypeOK, AccessPayload
<1>4. access \in [DOMAIN access -> AccessPayload]
  BY DEF TypeOK
<1>5. /\ DOMAIN access' = DOMAIN access \cup {a}
      /\ access' \in [DOMAIN access \cup {a} -> AccessPayload]
      /\ access'[a] = payload
      /\ \A x \in DOMAIN access : access'[x] = access[x]
  BY <1>1, <1>3, <1>4 DEF Put
<1> QED
  BY <1>2, <1>5

LEMMA StepTyped == TypeOK /\ [Next]_vars => TypeOK'
<1> SUFFICES ASSUME TypeOK, [Next]_vars PROVE TypeOK'
  OBVIOUS
<1>1. ASSUME NEW r \in Request, NEW s \in Session, CreateSession(r, s)
      PROVE  TypeOK'
  <2>1. /\ DOMAIN sessions' = DOMAIN sessions \cup {s}
        /\ sessions' \in [DOMAIN sessions' -> SessionRow]
    BY <1>1, CreateTyped
  <2>2. /\ req' \in [Request -> RequestState]
        /\ req'[r] = [step |-> "login", session |-> s]
        /\ \A q \in Request \ {r} : req'[q] = req[q]
    BY <1>1 DEF CreateSession, TypeOK, RequestState, LoginState
  <2> QED
    BY <1>1, <2>1, <2>2 DEF CreateSession, TypeOK
<1>2. ASSUME NEW r \in Request, AnswerLogin(r)
      PROVE  TypeOK'
  <2>1. /\ DOMAIN access \subseteq DOMAIN access'
        /\ DOMAIN access' \subseteq AccessToken
        /\ access' \in [DOMAIN access' -> AccessPayload]
        /\ \A a \in DOMAIN access' : access'[a].session \in DOMAIN sessions
    <3>1. DOMAIN access \subseteq AccessToken
      BY DEF TypeOK
    <3>2. \A a \in DOMAIN access : access[a].session \in DOMAIN sessions
      BY DEF TypeOK
    <3> QED
      BY <1>2, <3>1, <3>2, AnswerTyped
  <2>2. /\ req' \in [Request -> RequestState]
        /\ req'[r] = Idle
        /\ \A q \in Request \ {r} : req'[q] = req[q]
    BY <1>2, EndTyped DEF AnswerLogin
  <2> QED
    BY <1>2, <2>1, <2>2 DEF AnswerLogin, TypeOK, Idle, Refreshing
<1>3. ASSUME NEW r \in Request, SignAccessToken(r) \/ SendRotation(r)
      PROVE  TypeOK'
  <2>1. /\ req' \in [Request -> RequestState]
        /\ req'[r].step \in Refreshing /\ req'[r].session \in DOMAIN sessions
        /\ \A q \in Request \ {r} : req'[q] = req[q]
    BY <1>3, RequestTyped, TimeAssumption
       DEF SignAccessToken, SendRotation, TypeOK, RequestState, RefreshState,
           Refreshing
  <2> QED
    BY <1>3, <2>1 DEF SignAccessToken, SendRotation, TypeOK, Refreshing
<1>15. ASSUME NEW r \in Request, NEW token \in RefreshToken,
             FindActiveSession(r, token)
      PROVE  TypeOK'
  BY <1>15
     DEF FindActiveSession, TypeOK, RequestState, RefreshState, Refreshing
<1>4. ASSUME NEW r \in Request, RotateRefreshToken(r)
      PROVE  TypeOK'
  <2>1. /\ DOMAIN sessions' = DOMAIN sessions
        /\ sessions' \in [DOMAIN sessions -> SessionRow]
        /\ DOMAIN access \subseteq DOMAIN access'
        /\ DOMAIN access' \subseteq AccessToken
        /\ access' \in [DOMAIN access' -> AccessPayload]
        /\ \A a \in DOMAIN access' : access'[a].session \in DOMAIN sessions
        /\ successors' \subseteq RefreshToken \X RefreshToken
    <3>1. CASE Rotate(r, req[r].session)
      BY <1>4, <3>1, RotateTyped DEF RotateRefreshToken
    <3>2. CASE UNCHANGED <<sessions, access, successors>>
      BY <3>2 DEF TypeOK
    <3> QED
      BY <1>4, <3>1, <3>2 DEF RotateRefreshToken
  <2>2. /\ req' \in [Request -> RequestState]
        /\ req'[r] = Idle
        /\ \A q \in Request \ {r} : req'[q] = req[q]
    BY <1>4, EndTyped DEF RotateRefreshToken
  <2> QED
    BY <1>4, <2>1, <2>2 DEF RotateRefreshToken, TypeOK, Idle, Refreshing
<1>5. ASSUME NEW r \in Request, NEW a \in AccessToken, NEW logout \in BOOLEAN,
             VerifyAccessToken(r, a, logout)
      PROVE  TypeOK'
  BY <1>5
     DEF VerifyAccessToken, TypeOK, RequestState, GuardedState, Refreshing
<1>6. ASSUME NEW r \in Request, CheckBlacklist(r)
      PROVE  TypeOK'
  BY <1>6, GuardPasses, EndTyped DEF CheckBlacklist, TypeOK, Idle, Refreshing
<1>7. ASSUME NEW r \in Request, SkipBlacklist(r)
      PROVE  TypeOK'
  BY <1>7, GuardPasses DEF SkipBlacklist, TypeOK, Refreshing
<1>8. ASSUME NEW r \in Request, Handle(r)
      PROVE  TypeOK'
  BY <1>8, EndTyped DEF Handle, TypeOK, Idle, Refreshing
<1>9. ASSUME NEW r \in Request, StartLogout(r)
       PROVE  TypeOK'
  BY <1>9, RequestTyped
     DEF StartLogout, TypeOK, RequestState, BlacklistState, GuardedSteps,
         Refreshing
<1>10. ASSUME NEW r \in Request, BlacklistAccessToken(r)
       PROVE  TypeOK'
  <2>1. /\ req[r].jti \in DOMAIN access /\ req[r].jti \in AccessToken
        /\ req[r].ttl \in Int
    BY <1>10, RequestTyped DEF BlacklistAccessToken, GuardedSteps
  <2>2. /\ DOMAIN blacklist' \subseteq DOMAIN access
        /\ blacklist' \in [DOMAIN blacklist' -> Nat]
    <3>1. CASE req[r].ttl <= 0
      BY <1>10, <3>1 DEF BlacklistAccessToken, TypeOK
    <3>2. CASE ~(req[r].ttl <= 0)
      <4>1. now + req[r].ttl \in Nat
        BY <2>1, <3>2 DEF TypeOK
      <4>2. blacklist' = Put(blacklist, req[r].jti, now + req[r].ttl)
        BY <1>10, <3>2 DEF BlacklistAccessToken
      <4>3. blacklist \in [DOMAIN blacklist -> Nat]
        BY DEF TypeOK
      <4>4. /\ DOMAIN blacklist' = DOMAIN blacklist \cup {req[r].jti}
            /\ blacklist' \in [DOMAIN blacklist \cup {req[r].jti} -> Nat]
        BY <4>1, <4>2, <4>3 DEF Put
      <4> QED
        BY <2>1, <4>4 DEF TypeOK
    <3> QED
      BY <3>1, <3>2
  <2> QED
    BY <1>10, <2>1, <2>2
       DEF BlacklistAccessToken, TypeOK, RequestState, GuardedState, Refreshing
<1>11. ASSUME NEW r \in Request, Revoke(r)
       PROVE  TypeOK'
  <2>1. /\ req[r].jti \in DOMAIN access
        /\ access[req[r].jti].session \in DOMAIN sessions
    BY <1>11, RequestTyped DEF Revoke, GuardedSteps
  <2>2. /\ DOMAIN sessions' = DOMAIN sessions
        /\ sessions' \in [DOMAIN sessions -> SessionRow]
    BY <1>11, <2>1 DEF Revoke, TypeOK, SessionRow
  <2> QED
    BY <1>11, <2>1, <2>2, EndTyped DEF Revoke, TypeOK, Idle, Refreshing
<1>12. ASSUME NEW r \in Request, Fail(r)
       PROVE  TypeOK'
  BY <1>12, EndTyped DEF Fail, TypeOK, Idle, Refreshing
<1>13. CASE Tick
  BY <1>13 DEF Tick, TypeOK
<1>14. CASE UNCHANGED vars
  BY <1>14 DEF vars, TypeOK
<1> QED
  BY <1>1, <1>2, <1>3, <1>4, <1>5, <1>6, <1>7, <1>8, <1>9, <1>10, <1>11,
     <1>12, <1>13, <1>14, <1>15 DEF Next, Login, Refresh, Guard, Logout

\* TypeOK holds in every behaviour: rows, tokens, keys and requests keep their
\* types, and no request works on a session or a token that does not exist.
THEOREM TypeCorrect == Spec => []TypeOK
  BY InitTyped, StepTyped, PTL DEF Spec

-----------------------------------------------------------------------------
(* What the steps do to sessions *)

\* A login adds a session with a token never given before, or an access token.
LEMMA LoginAdds ==
  ASSUME TypeOK, NEW r \in Request, Login(r)
  PROVE  /\ UNCHANGED successors
         /\ \/ sessions' = sessions
            \/ \E s \in Session \ DOMAIN sessions :
                 /\ DOMAIN sessions' = DOMAIN sessions \cup {s}
                 /\ sessions'[s].token \in RefreshToken \ Given
         /\ \A x \in DOMAIN sessions :
              x \in DOMAIN sessions' /\ sessions'[x] = sessions[x]
         /\ \A a \in DOMAIN access : a \in DOMAIN access' /\ access'[a] = access[a]
<1>1. ASSUME NEW s \in Session, CreateSession(r, s)
      PROVE  /\ UNCHANGED <<access, successors>>
             /\ s \notin DOMAIN sessions
             /\ DOMAIN sessions' = DOMAIN sessions \cup {s}
             /\ sessions'[s].token \in RefreshToken \ Given
             /\ \A x \in DOMAIN sessions : sessions'[x] = sessions[x]
  BY <1>1, CreateTyped DEF CreateSession
<1>2. ASSUME AnswerLogin(r)
      PROVE  /\ UNCHANGED <<sessions, successors>>
             /\ \A a \in DOMAIN access :
                  a \in DOMAIN access' /\ access'[a] = access[a]
  BY <1>2, AnswerTyped DEF AnswerLogin
<1> QED
  BY <1>1, <1>2 DEF Login

\* A rotation that succeeds changes one session, which was neither revoked nor
\* expired when the UPDATE was sent, and which still had the old token.
LEMMA RotationChanges ==
  ASSUME TypeOK, NEW r \in Request, RotateRefreshToken(r)
  PROVE  \/ UNCHANGED <<sessions, access, successors>>
         \/ LET s == req[r].session IN
              /\ s \in DOMAIN sessions
              /\ sessions[s].token = req[r].old
              /\ ~sessions[s].revoked
              /\ sessions[s].expiresAt > req[r].asOf
              /\ \E token \in RefreshToken \ Given :
                   /\ sessions'[s].token = token
                   /\ successors' = successors \cup {<<req[r].old, token>>}
              /\ sessions'[s].revoked = sessions[s].revoked
              /\ DOMAIN sessions' = DOMAIN sessions
              /\ \A x \in DOMAIN sessions \ {s} : sessions'[x] = sessions[x]
              /\ \A a \in DOMAIN access :
                   a \in DOMAIN access' /\ access'[a] = access[a]
              /\ \A a \in DOMAIN access' \ DOMAIN access :
                   access'[a].session = s
<1> DEFINE s == req[r].session
<1>1. s \in DOMAIN sessions /\ req[r].asOf \in Nat
  BY RequestTyped DEF RotateRefreshToken, Refreshing
<1>2. CASE UNCHANGED <<sessions, access, successors>>
  BY <1>2
<1>3. CASE ~UNCHANGED <<sessions, access, successors>>
  <2>1. /\ sessions[s].token = req[r].old /\ ~sessions[s].revoked
        /\ sessions[s].expiresAt > req[r].asOf
        /\ Rotate(r, s)
    BY <1>3 DEF RotateRefreshToken
  <2>2. PICK token \in RefreshToken \ Given :
          /\ sessions' = [sessions EXCEPT ![s].token = token,
                            ![s].expiresAt = req[r].asOf + RefreshTTL]
          /\ successors' = successors \cup {<<req[r].old, token>>}
    BY <2>1 DEF Rotate
  <2>3. sessions[s] \in SessionRow
    BY <1>1 DEF TypeOK
  <2>4. /\ sessions'[s].token = token
        /\ sessions'[s].revoked = sessions[s].revoked
        /\ DOMAIN sessions' = DOMAIN sessions
        /\ \A x \in DOMAIN sessions \ {s} : sessions'[x] = sessions[x]
    BY <1>1, <2>2, <2>3 DEF SessionRow
  <2>5. /\ \A a \in DOMAIN access : a \in DOMAIN access' /\ access'[a] = access[a]
        /\ \A a \in DOMAIN access' \ DOMAIN access : access'[a].session = s
    BY <2>1, RotateTyped DEF RotateRefreshToken
  <2> QED
    BY <1>1, <2>1, <2>2, <2>4, <2>5
<1> QED
  BY <1>2, <1>3

\* A logout sets revoked_at of one session.
LEMMA RevokeChanges ==
  ASSUME TypeOK, NEW r \in Request, Revoke(r)
  PROVE  LET s == access[req[r].jti].session IN
           /\ s \in DOMAIN sessions
           /\ DOMAIN sessions' = DOMAIN sessions
           /\ sessions'[s].revoked
           /\ sessions'[s].token = sessions[s].token
           /\ sessions[s].revoked => sessions'[s] = sessions[s]
           /\ \A x \in DOMAIN sessions \ {s} : sessions'[x] = sessions[x]
<1> DEFINE s == access[req[r].jti].session
<1>1. s \in DOMAIN sessions
  BY RequestTyped DEF Revoke, GuardedSteps
<1>2. sessions[s] \in SessionRow
  BY <1>1 DEF TypeOK
<1>3. sessions' = [sessions EXCEPT ![s].revoked = TRUE]
  BY DEF Revoke
<1> QED
  BY <1>1, <1>2, <1>3 DEF SessionRow

\* No other step changes a session or the chain of tokens.
LEMMA OtherStepsKeepSessions ==
  ASSUME [Next]_vars,
         \A r \in Request : ~Login(r) /\ ~RotateRefreshToken(r) /\ ~Revoke(r)
  PROVE  UNCHANGED <<sessions, access, successors>>
  BY DEF Next, Refresh, Guard, Logout, vars, FindActiveSession, SignAccessToken,
     SendRotation, VerifyAccessToken, CheckBlacklist, SkipBlacklist, Handle,
     StartLogout, BlacklistAccessToken, Fail, Tick

-----------------------------------------------------------------------------
(* Rotation *)

\* The unique column refresh_token_hash.
TokensDiffer ==
  \A s, t \in DOMAIN sessions : sessions[s].token = sessions[t].token => s = t

LEMMA StepKeepsSuccessors ==
  TypeOK /\ OneSuccessor /\ TokensDiffer /\ [Next]_vars
    => OneSuccessor' /\ TokensDiffer'
<1> SUFFICES ASSUME TypeOK, OneSuccessor, TokensDiffer, [Next]_vars
             PROVE  OneSuccessor' /\ TokensDiffer'
  OBVIOUS
<1> USE DEF OneSuccessor, TokensDiffer
<1>1. ASSUME NEW r \in Request, Login(r)
      PROVE  OneSuccessor' /\ TokensDiffer'
  <2>1. CASE sessions' = sessions
    BY <1>1, <2>1, LoginAdds
  <2>2. CASE sessions' # sessions
    <3>1. PICK s \in Session \ DOMAIN sessions :
            /\ DOMAIN sessions' = DOMAIN sessions \cup {s}
            /\ sessions'[s].token \notin Given
      BY <1>1, <2>2, LoginAdds
    <3>2. /\ UNCHANGED successors
          /\ \A x \in DOMAIN sessions : sessions'[x] = sessions[x]
      BY <1>1, LoginAdds
    <3>3. /\ \A p \in successors : p[1] # sessions'[s].token
          /\ \A x \in DOMAIN sessions : sessions[x].token # sessions'[s].token
      BY <3>1 DEF Given
    <3>4. OneSuccessor'
      BY <3>1, <3>2, <3>3
    <3>5. TokensDiffer'
      BY <3>1, <3>2, <3>3
    <3> QED
      BY <3>4, <3>5
  <2> QED
    BY <2>1, <2>2
<1>2. ASSUME NEW r \in Request, RotateRefreshToken(r)
      PROVE  OneSuccessor' /\ TokensDiffer'
  <2>1. CASE UNCHANGED <<sessions, access, successors>>
    BY <2>1
  <2>2. CASE ~UNCHANGED <<sessions, access, successors>>
    <3> DEFINE s == req[r].session
               old == req[r].old
    <3>1. /\ s \in DOMAIN sessions /\ sessions[s].token = old
          /\ DOMAIN sessions' = DOMAIN sessions
          /\ \A x \in DOMAIN sessions \ {s} : sessions'[x] = sessions[x]
      BY <1>2, <2>2, RotationChanges
    <3>2. PICK token \in RefreshToken \ Given :
            /\ sessions'[s].token = token
            /\ successors' = successors \cup {<<old, token>>}
      BY <1>2, <2>2, RotationChanges
    <3>3. /\ \A p \in successors : p[1] # old /\ p[1] # token
          /\ \A x \in DOMAIN sessions : sessions[x].token # token
      BY <3>1 DEF Given
    <3>4. \A p \in successors' : p \in successors \/ p = <<old, token>>
      BY <3>2
    <3>5. <<old, token>>[1] = old
      OBVIOUS
    <3>6. \A p, q \in successors' : p[1] = q[1] => p = q
      BY <3>3, <3>4, <3>5
    <3>7. \A p \in successors', x \in DOMAIN sessions' :
            sessions'[x].token # p[1]
      BY <3>1, <3>2, <3>3, <3>4, <3>5
    <3>8. TokensDiffer'
      BY <3>1, <3>2, <3>3
    <3> QED
      BY <3>6, <3>7, <3>8
  <2> QED
    BY <2>1, <2>2
<1>3. ASSUME NEW r \in Request, Revoke(r)
      PROVE  OneSuccessor' /\ TokensDiffer'
  <2>1. /\ UNCHANGED successors
        /\ DOMAIN sessions' = DOMAIN sessions
        /\ \A s \in DOMAIN sessions : sessions'[s].token = sessions[s].token
    BY <1>3, RevokeChanges DEF Revoke
  <2> QED
    BY <2>1
<1>4. CASE UNCHANGED <<sessions, access, successors>>
  BY <1>4
<1> QED
  BY <1>1, <1>2, <1>3, <1>4, OtherStepsKeepSessions

\* OneSuccessor holds in every behaviour: however many refreshes race or
\* repeat with a token, one of them rotates it.
THEOREM OneSuccessorCorrect == Spec => []OneSuccessor
<1>1. Init => OneSuccessor /\ TokensDiffer
  BY DEF Init, OneSuccessor, TokensDiffer
<1> QED
  BY <1>1, TypeCorrect, StepKeepsSuccessors, PTL DEF Spec

\* Neither a late rotation nor a second logout changes a revoked session; one
\* that expired comes back only by an UPDATE sent before it did.
EndedSessionStaysEnded ==
  [][\A s \in DOMAIN sessions :
       ~Active(s) /\ sessions'[s] # sessions[s] =>
         /\ ~sessions[s].revoked
         /\ \/ sessions'[s].revoked
            \/ \E r \in Request : /\ req[r].step = "rotate"
                                 /\ req[r].session = s
                                 /\ req[r].asOf < sessions[s].expiresAt]_vars

\* EndedSessionStaysEnded holds of every step: a revoked session is never
\* written again, an expired one only by an UPDATE that was sent in time.
THEOREM EndedSessionCorrect == Spec => EndedSessionStaysEnded
<1> DEFINE Kept(s) ==
      ~Active(s) /\ sessions'[s] # sessions[s] =>
        /\ ~sessions[s].revoked
        /\ \/ sessions'[s].revoked
           \/ \E r \in Request : /\ req[r].step = "rotate"
                                /\ req[r].session = s
                                /\ req[r].asOf < sessions[s].expiresAt
<1>1. ASSUME TypeOK, [Next]_vars, NEW s \in DOMAIN sessions
      PROVE  Kept(s)
  <2>1. CASE \E r \in Request : Login(r)
    BY <1>1, <2>1, LoginAdds
  <2>2. CASE \E r \in Request : RotateRefreshToken(r)
    <3>1. PICK r \in Request : RotateRefreshToken(r)
      BY <2>2
    <3>2. CASE UNCHANGED <<sessions, access, successors>>
      BY <3>2
    <3>3. CASE ~UNCHANGED <<sessions, access, successors>>
      <4>1. /\ req[r].session \in DOMAIN sessions
            /\ ~sessions[req[r].session].revoked
            /\ sessions[req[r].session].expiresAt > req[r].asOf
            /\ \A x \in DOMAIN sessions \ {req[r].session} :
                 sessions'[x] = sessions[x]
        BY <1>1, <3>1, <3>3, RotationChanges
      <4>2. sessions[req[r].session].expiresAt \in Nat /\ req[r].asOf \in Nat
        BY <1>1, <3>1, <4>1, RequestTyped
           DEF RotateRefreshToken, TypeOK, SessionRow, Refreshing
      <4> QED
        BY <3>1, <4>1, <4>2 DEF RotateRefreshToken
    <3> QED
      BY <3>2, <3>3
  <2>3. CASE \E r \in Request : Revoke(r)
    BY <1>1, <2>3, RevokeChanges
  <2>4. CASE UNCHANGED <<sessions, access, successors>>
    BY <2>4
  <2> QED
    BY <1>1, <2>1, <2>2, <2>3, <2>4, OtherStepsKeepSessions
<1>2. TypeOK /\ [Next]_vars =>
        [\A s \in DOMAIN sessions : Kept(s)]_vars
  BY <1>1
<1> QED
  BY <1>2, TypeCorrect, PTL DEF Spec, EndedSessionStaysEnded

-----------------------------------------------------------------------------
(* Logged out tokens *)

\* Access token a has expired, or is in the blacklist until it does.
Covered(a) ==
  \/ access[a].exp <= now
  \/ a \in DOMAIN blacklist /\ blacklist[a] >= access[a].exp

\* Why LoggedOutTokenRefused holds: a token is covered when its logout is
\* answered, and the seconds left that were computed before the SET are enough.
KeysLastLongEnough ==
  /\ \A a \in loggedOut : Covered(a)
  /\ \A r \in Request :
       /\ req[r].step = "revoke" => Covered(req[r].jti)
       /\ req[r].step = "blacklist" => now + req[r].ttl >= access[req[r].jti].exp

\* A covered token stays covered when only time passes or tokens are added.
LEMMA CoveredStays ==
  ASSUME TypeOK, NEW a \in DOMAIN access, Covered(a),
         access'[a] = access[a], now' \in Nat, now' >= now, UNCHANGED blacklist
  PROVE  Covered(a)'
  BY DEF TypeOK, AccessPayload, Covered

\* Tokens are only added.
LEMMA AccessKept ==
  TypeOK /\ [Next]_vars =>
    \A a \in DOMAIN access : a \in DOMAIN access' /\ access'[a] = access[a]
<1> SUFFICES ASSUME TypeOK, [Next]_vars
             PROVE  \A a \in DOMAIN access :
                      a \in DOMAIN access' /\ access'[a] = access[a]
  OBVIOUS
<1>1. CASE \E r \in Request : Login(r)
  BY <1>1, LoginAdds
<1>2. CASE \E r \in Request : RotateRefreshToken(r)
  <2>1. PICK r \in Request : RotateRefreshToken(r)
    BY <1>2
  <2>2. CASE UNCHANGED <<sessions, access, successors>>
    BY <2>2
  <2>3. CASE ~UNCHANGED <<sessions, access, successors>>
    BY <2>1, <2>3, RotationChanges
  <2> QED
    BY <2>2, <2>3
<1>3. CASE \E r \in Request : Revoke(r)
  BY <1>3 DEF Revoke
<1>4. CASE UNCHANGED <<sessions, access, successors>>
  BY <1>4
<1> QED
  BY <1>1, <1>2, <1>3, <1>4, OtherStepsKeepSessions

\* A step after which nobody is further on the way of logging out.
LEMMA OtherStepsKeepKeys ==
  ASSUME TypeOK, KeysLastLongEnough, [Next]_vars,
         now' \in Nat, now' >= now, UNCHANGED <<blacklist, loggedOut>>,
         \A r \in Request : \/ req'[r] = req[r]
                            \/ req'[r].step \notin {"blacklist", "revoke"}
  PROVE  KeysLastLongEnough'
<1>1. \A a \in DOMAIN access : access'[a] = access[a]
  BY AccessKept
<1>2. \A a \in DOMAIN access : Covered(a) => Covered(a)'
  BY <1>1, CoveredStays
<1>3. \A a \in loggedOut' : Covered(a)'
  BY <1>2 DEF KeysLastLongEnough, TypeOK
<1>4. ASSUME NEW r \in Request, req'[r].step = "revoke"
      PROVE  Covered(req[r].jti)'
  <2>1. req'[r] = req[r] /\ req[r].jti \in DOMAIN access
    BY <1>4, RequestTyped DEF GuardedSteps
  <2>2. Covered(req[r].jti)
    BY <1>4, <2>1 DEF KeysLastLongEnough
  <2>3. \/ access'[req[r].jti].exp <= now'
        \/ /\ req[r].jti \in DOMAIN blacklist'
           /\ blacklist'[req[r].jti] >= access'[req[r].jti].exp
    BY <1>2, <2>1, <2>2 DEF Covered
  <2> QED
    BY <2>1, <2>3 DEF Covered
<1>5. ASSUME NEW r \in Request, req'[r].step = "blacklist"
      PROVE  now' + req'[r].ttl >= access'[req'[r].jti].exp
  <2>1. /\ req'[r] = req[r] /\ req[r].jti \in DOMAIN access
        /\ req[r].ttl \in Int /\ access[req[r].jti].exp \in Nat
    BY <1>5, RequestTyped DEF GuardedSteps
  <2>2. now + req[r].ttl >= access[req[r].jti].exp
    BY <1>5, <2>1 DEF KeysLastLongEnough
  <2>3. now \in Nat
    BY DEF TypeOK
  <2> QED
    BY <1>1, <2>1, <2>2, <2>3
<1> QED
  BY <1>3, <1>4, <1>5 DEF KeysLastLongEnough, Covered

LEMMA StepKeepsKeys ==
  TypeOK /\ KeysLastLongEnough /\ [Next]_vars => KeysLastLongEnough'
<1> SUFFICES ASSUME TypeOK, KeysLastLongEnough, [Next]_vars
             PROVE  KeysLastLongEnough'
  OBVIOUS
<1>0. now \in Nat /\ DOMAIN req = Request
  BY DEF TypeOK
<1>1. ASSUME NEW r \in Request, Login(r)
      PROVE  KeysLastLongEnough'
  <2>1. UNCHANGED <<blacklist, loggedOut, now>>
    BY <1>1 DEF Login, CreateSession, AnswerLogin
  <2>2. /\ req'[r].step \notin {"blacklist", "revoke"}
        /\ \A q \in Request \ {r} : req'[q] = req[q]
    BY <1>0, <1>1 DEF Login, CreateSession, AnswerLogin, End, Idle
  <2> QED
    BY <1>0, <2>1, <2>2, OtherStepsKeepKeys
<1>2. ASSUME NEW r \in Request, Refresh(r)
      PROVE  KeysLastLongEnough'
  <2>1. UNCHANGED <<blacklist, loggedOut, now>>
    BY <1>2 DEF Refresh, FindActiveSession, SignAccessToken, SendRotation,
       RotateRefreshToken
  <2>2. /\ req'[r].step \notin {"blacklist", "revoke"}
        /\ \A q \in Request \ {r} : req'[q] = req[q]
    BY <1>0, <1>2 DEF Refresh, FindActiveSession, SignAccessToken, SendRotation,
       RotateRefreshToken, End, Idle
  <2> QED
    BY <1>0, <2>1, <2>2, OtherStepsKeepKeys
<1>3. ASSUME NEW r \in Request, Guard(r)
      PROVE  KeysLastLongEnough'
  <2>1. UNCHANGED <<blacklist, loggedOut, now>>
    BY <1>3 DEF Guard, VerifyAccessToken, CheckBlacklist, SkipBlacklist, Handle
  <2>2. /\ req'[r].step \notin {"blacklist", "revoke"}
        /\ \A q \in Request \ {r} : req'[q] = req[q]
    <3>1. ASSUME NEW a \in AccessToken, NEW logout \in BOOLEAN,
                 VerifyAccessToken(r, a, logout)
          PROVE  /\ req'[r].step \notin {"blacklist", "revoke"}
                 /\ \A q \in Request \ {r} : req'[q] = req[q]
      BY <1>0, <3>1 DEF VerifyAccessToken
    <3>2. CASE CheckBlacklist(r) \/ SkipBlacklist(r) \/ Handle(r)
      <4>1. CASE End(r)
        BY <1>0, <4>1 DEF End, Idle
      <4>2. CASE req[r].step = "guard" /\ Goto(r, "handler")
        <5>1. req'[r] = [req[r] EXCEPT !.step = "handler"]
          BY <1>0, <4>2 DEF Goto
        <5>2. req[r] \in GuardedState
          BY <4>2 DEF TypeOK, RequestState, GuardedState, LoginState,
             RefreshState, BlacklistState, Idle
        <5>3. req'[r].step = "handler"
          BY <5>1, <5>2 DEF GuardedState
        <5> QED
          BY <1>0, <4>2, <5>3 DEF Goto
      <4> QED
        BY <3>2, <4>1, <4>2 DEF CheckBlacklist, SkipBlacklist, Handle
    <3> QED
      BY <1>3, <3>1, <3>2 DEF Guard
  <2> QED
    BY <1>0, <2>1, <2>2, OtherStepsKeepKeys
<1>4. ASSUME NEW r \in Request, StartLogout(r)
      PROVE  KeysLastLongEnough'
  <2> DEFINE a == req[r].jti
  <2>1. /\ a \in DOMAIN access /\ access[a].exp \in Nat
        /\ UNCHANGED <<access, blacklist, loggedOut, now>>
        /\ req' = [req EXCEPT ![r] = [step |-> "blacklist", jti |-> a,
                                      ttl |-> access[a].exp - now]]
    BY <1>4, RequestTyped DEF StartLogout, GuardedSteps
  <2>2. /\ req'[r] = [step |-> "blacklist", jti |-> a, ttl |-> access[a].exp - now]
        /\ \A q \in Request \ {r} : req'[q] = req[q]
    BY <1>0, <2>1
  <2>3. now + (access[a].exp - now) >= access[a].exp
    BY <1>0, <2>1
  <2> QED
    BY <2>1, <2>2, <2>3 DEF KeysLastLongEnough, Covered
<1>5. ASSUME NEW r \in Request, BlacklistAccessToken(r)
      PROVE  KeysLastLongEnough'
  <2> DEFINE a == req[r].jti
  <2>1. /\ a \in DOMAIN access /\ access[a].exp \in Nat /\ req[r].ttl \in Int
        /\ UNCHANGED <<access, loggedOut, now>>
        /\ req' = [req EXCEPT ![r] = [step |-> "revoke", jti |-> a,
                                      logout |-> TRUE]]
        /\ blacklist' = IF req[r].ttl <= 0 THEN blacklist
                        ELSE Put(blacklist, a, now + req[r].ttl)
    BY <1>5, RequestTyped DEF BlacklistAccessToken, GuardedSteps
  <2>2. now + req[r].ttl >= access[a].exp
    BY <1>5 DEF BlacklistAccessToken, KeysLastLongEnough
  <2>3. Covered(a)'
    <3>1. CASE req[r].ttl <= 0
      BY <1>0, <2>1, <2>2, <3>1 DEF Covered
    <3>2. CASE ~(req[r].ttl <= 0)
      <4>1. a \in DOMAIN blacklist' /\ blacklist'[a] = now + req[r].ttl
        BY <2>1, <3>2 DEF Put
      <4> QED
        BY <2>1, <2>2, <4>1 DEF Covered
    <3> QED
      BY <3>1, <3>2
  <2>4. \A x \in DOMAIN access \ {a} : Covered(x) => Covered(x)'
    <3>1. \A x \in DOMAIN blacklist \ {a} :
            x \in DOMAIN blacklist' /\ blacklist'[x] = blacklist[x]
      BY <2>1 DEF Put
    <3> QED
      BY <2>1, <3>1 DEF Covered
  <2>5. /\ req'[r] = [step |-> "revoke", jti |-> a, logout |-> TRUE]
        /\ \A q \in Request \ {r} : req'[q] = req[q]
    BY <1>0, <2>1
  <2>6. \A x \in loggedOut' : Covered(x)'
    BY <2>1, <2>3, <2>4 DEF KeysLastLongEnough, TypeOK
  <2>7. ASSUME NEW q \in Request, req'[q].step = "revoke"
        PROVE  Covered(req[q].jti)'
    <3>1. CASE q = r
      <4>1. req'[q].jti = a
        BY <2>5, <3>1
      <4>2. \/ access'[a].exp <= now'
            \/ a \in DOMAIN blacklist' /\ blacklist'[a] >= access'[a].exp
        BY <2>3, <2>5 DEF Covered
      <4> QED
        BY <4>1, <4>2 DEF Covered
    <3>2. CASE q # r
      <4>1. /\ req'[q] = req[q] /\ req[q].jti \in DOMAIN access
            /\ Covered(req[q].jti)
        BY <2>5, <2>7, <3>2, RequestTyped DEF KeysLastLongEnough, GuardedSteps
      <4>2. \A x \in DOMAIN access : Covered(x) =>
              \/ access'[x].exp <= now'
              \/ x \in DOMAIN blacklist' /\ blacklist'[x] >= access'[x].exp
        BY <2>3, <2>4, <2>5 DEF Covered
      <4> QED
        BY <4>1, <4>2 DEF Covered
    <3> QED
      BY <3>1, <3>2
  <2>8. ASSUME NEW q \in Request, req'[q].step = "blacklist"
        PROVE  now' + req'[q].ttl >= access'[req'[q].jti].exp
    BY <2>1, <2>5, <2>8 DEF KeysLastLongEnough
  <2> QED
    BY <2>6, <2>7, <2>8 DEF KeysLastLongEnough
<1>6. ASSUME NEW r \in Request, Revoke(r)
      PROVE  KeysLastLongEnough'
  <2>1. /\ UNCHANGED <<access, blacklist, now>>
        /\ loggedOut' = loggedOut \cup {req[r].jti}
        /\ Covered(req[r].jti)
    BY <1>6 DEF Revoke, KeysLastLongEnough
  <2>2. req'[r] = Idle /\ \A q \in Request \ {r} : req'[q] = req[q]
    BY <1>0, <1>6 DEF Revoke, End
  <2> QED
    BY <2>1, <2>2 DEF KeysLastLongEnough, Covered, Idle
<1>7. ASSUME NEW r \in Request, Fail(r)
      PROVE  KeysLastLongEnough'
  <2>1. UNCHANGED <<blacklist, loggedOut, now>>
    BY <1>7 DEF Fail
  <2>2. req'[r] = Idle /\ \A q \in Request \ {r} : req'[q] = req[q]
    BY <1>0, <1>7 DEF Fail, End
  <2> QED
    BY <1>0, <2>1, <2>2, OtherStepsKeepKeys DEF Idle
<1>8. CASE Tick
  BY <1>0, <1>8, OtherStepsKeepKeys DEF Tick
<1>9. CASE UNCHANGED vars
  BY <1>0, <1>9, OtherStepsKeepKeys DEF vars
<1> QED
  BY <1>1, <1>2, <1>3, <1>4, <1>5, <1>6, <1>7, <1>8, <1>9 DEF Next, Logout

\* LoggedOutTokenRefused holds of every step: whatever interleaves with a
\* logout and however long it takes, its key outlives the token.
THEOREM LoggedOutTokenCorrect == Spec => LoggedOutTokenRefused
<1> DEFINE Refused(r) ==
      /\ req[r].step = "guard"
      /\ req'[r].step = "handler"
      => \/ req[r].jti \notin loggedOut
         \/ access[req[r].jti].exp <= now
         \/ failures' # failures
<1>1. Init => KeysLastLongEnough
  BY DEF Init, KeysLastLongEnough, Idle
<1>2. ASSUME TypeOK, KeysLastLongEnough, Next, NEW r \in Request,
             req[r].step = "guard", req'[r].step = "handler",
             req[r].jti \in loggedOut, failures' = failures
      PROVE  access[req[r].jti].exp <= now
  <2> DEFINE a == req[r].jti
  <2>0. /\ now \in Nat /\ failures \in Nat /\ DOMAIN req = Request
        /\ a \in DOMAIN access /\ access[a].exp \in Nat
        /\ Covered(a)
        /\ a \in DOMAIN blacklist => blacklist[a] \in Nat
    BY <1>2, RequestTyped DEF TypeOK, KeysLastLongEnough, GuardedSteps
  <2>1. req'[r] # req[r]
    BY <1>2
  <2>2. PICK q \in Request :
          Login(q) \/ Refresh(q) \/ Guard(q) \/ Logout(q) \/ Fail(q)
    BY <1>2, <2>1 DEF Next, Tick
  <2>3. q = r
    BY <2>0, <2>1, <2>2 DEF Login, CreateSession, AnswerLogin, Refresh, Guard,
       Logout, Fail, FindActiveSession, SignAccessToken, SendRotation,
       RotateRefreshToken, VerifyAccessToken, CheckBlacklist, SkipBlacklist,
       Handle, StartLogout, BlacklistAccessToken, Revoke, End, Goto
  <2>4. CheckBlacklist(r)
    BY <1>2, <2>0, <2>2, <2>3 DEF Login, CreateSession, AnswerLogin, Refresh,
       Guard, Logout, Fail, FindActiveSession, SignAccessToken, SendRotation,
       RotateRefreshToken, VerifyAccessToken, SkipBlacklist, Handle, StartLogout,
       BlacklistAccessToken, Revoke, Idle, Refreshing
  <2>5. ~Blacklisted(a)
    BY <1>2, <2>0, <2>4 DEF CheckBlacklist, End, Idle
  <2> QED
    BY <2>0, <2>5 DEF Blacklisted, Covered
<1>3. TypeOK /\ KeysLastLongEnough /\ [Next]_vars =>
        [\A r \in Request : Refused(r)]_vars
  BY <1>2
<1> QED
  BY <1>1, <1>3, StepKeepsKeys, TypeCorrect, PTL DEF Spec, LoggedOutTokenRefused
-----------------------------------------------------------------------------
(* Logging out completes *)

\* Sessions are only added, and a revoked one stays revoked.
LEMMA RevokedStays ==
  ASSUME TypeOK, [Next]_vars, NEW x \in DOMAIN sessions
  PROVE  sessions[x].revoked => sessions'[x].revoked
<1>1. CASE \E r \in Request : Login(r)
  BY <1>1, LoginAdds
<1>2. ASSUME NEW r \in Request, RotateRefreshToken(r)
      PROVE  sessions[x].revoked => sessions'[x].revoked
  BY <1>2, RotationChanges
<1>3. ASSUME NEW r \in Request, Revoke(r)
      PROVE  sessions[x].revoked => sessions'[x].revoked
  BY <1>3, RevokeChanges
<1>4. CASE UNCHANGED sessions
  BY <1>4
<1> QED
  BY <1>1, <1>2, <1>3, <1>4, OtherStepsKeepSessions

\* A request leaves the step before the UPDATE of a logout only with the UPDATE,
\* or because a call failed.
LEMMA RevokeComes ==
  ASSUME TypeOK, [Next]_vars, NEW r \in Request, req[r].step = "revoke"
  PROVE  \/ req'[r] = req[r]
         \/ Revoke(r)
         \/ failures' > 0
<1>1. failures \in Nat /\ DOMAIN req = Request
  BY DEF TypeOK
<1>2. ASSUME NEW q \in Request, q # r,
             Login(q) \/ Refresh(q) \/ Guard(q) \/ Logout(q) \/ Fail(q)
      PROVE  req'[r] = req[r]
  BY <1>1, <1>2 DEF Login, CreateSession, AnswerLogin, Refresh, Guard, Logout,
     Fail, FindActiveSession, SignAccessToken, SendRotation, RotateRefreshToken,
     VerifyAccessToken, CheckBlacklist, SkipBlacklist, Handle, StartLogout,
     BlacklistAccessToken, Revoke, End, Goto
<1>3. CASE Login(r) \/ Refresh(r) \/ Guard(r) \/ Logout(r) \/ Fail(r)
  BY <1>1, <1>3 DEF Login, CreateSession, AnswerLogin, Refresh, Guard, Logout,
     Fail, FindActiveSession, SignAccessToken, SendRotation, RotateRefreshToken,
     VerifyAccessToken, CheckBlacklist, SkipBlacklist, Handle, StartLogout,
     BlacklistAccessToken, Idle
<1>4. CASE Tick \/ UNCHANGED vars
  BY <1>4 DEF Tick, vars
<1> QED
  BY <1>2, <1>3, <1>4 DEF Next

\* What BlacklistedMeansRevoked says of one token.
WillBeRevoked(a) ==
  \/ sessions[access[a].session].revoked
  \/ \E r \in Request : req[r].step = "revoke" /\ req[r].jti = a
  \/ failures > 0

\* That holds of a token for good.
LEMMA WillBeRevokedStays ==
  ASSUME TypeOK, [Next]_vars, NEW a \in DOMAIN access, WillBeRevoked(a)
  PROVE  WillBeRevoked(a)'
<1>1. access'[a] = access[a] /\ access[a].session \in DOMAIN sessions
  BY AccessKept DEF TypeOK
<1>2. CASE sessions[access[a].session].revoked
  BY <1>1, <1>2, RevokedStays DEF WillBeRevoked
<1>3. ASSUME NEW r \in Request, req[r].step = "revoke", req[r].jti = a
      PROVE  WillBeRevoked(a)'
  <2>1. CASE req'[r] = req[r]
    BY <1>3, <2>1 DEF WillBeRevoked
  <2>2. CASE Revoke(r)
    BY <1>1, <1>3, <2>2, RevokeChanges DEF WillBeRevoked
  <2>3. CASE failures' > 0
    BY <2>3 DEF WillBeRevoked
  <2> QED
    BY <1>3, <2>1, <2>2, <2>3, RevokeComes
<1>4. CASE failures > 0
  <2>1. failures' = failures \/ failures' = failures + 1
    BY Zenon DEF Next, vars, Login, Refresh, Guard, Logout, Fail, Tick,
       CreateSession, AnswerLogin, FindActiveSession, SignAccessToken,
       SendRotation, RotateRefreshToken, VerifyAccessToken, CheckBlacklist,
       SkipBlacklist, Handle, StartLogout, BlacklistAccessToken, Revoke
  <2>2. failures \in Nat /\ failures' \in Nat
    <3>1. TypeOK'
      BY StepTyped
    <3> QED
      BY <3>1, Zenon DEF TypeOK
  <2> QED
    BY <1>4, <2>1, <2>2 DEF WillBeRevoked
<1> QED
  BY <1>2, <1>3, <1>4 DEF WillBeRevoked

LEMMA StepKeepsBlacklisted ==
  ASSUME TypeOK, BlacklistedMeansRevoked, [Next]_vars
  PROVE  BlacklistedMeansRevoked'
<1>1. \A a \in DOMAIN blacklist \cup loggedOut :
        a \in DOMAIN access /\ WillBeRevoked(a)
  BY DEF BlacklistedMeansRevoked, WillBeRevoked, TypeOK
<1>2. ASSUME NEW r \in Request, BlacklistAccessToken(r)
      PROVE  \A a \in DOMAIN blacklist' \cup loggedOut' :
               a \in DOMAIN blacklist \cup loggedOut \/ WillBeRevoked(a)'
  <2>1. /\ loggedOut' = loggedOut
        /\ DOMAIN blacklist' \subseteq DOMAIN blacklist \cup {req[r].jti}
    BY <1>2 DEF BlacklistAccessToken, Put
  <2>2. req'[r].step = "revoke" /\ req'[r].jti = req[r].jti
    BY <1>2 DEF BlacklistAccessToken, TypeOK
  <2> QED
    BY <2>1, <2>2 DEF WillBeRevoked
<1>3. ASSUME NEW r \in Request, Revoke(r)
      PROVE  \A a \in DOMAIN blacklist' \cup loggedOut' :
               a \in DOMAIN blacklist \cup loggedOut \/ WillBeRevoked(a)'
  <2>1. /\ DOMAIN blacklist' = DOMAIN blacklist /\ access' = access
        /\ loggedOut' = loggedOut \cup {req[r].jti}
    BY <1>3 DEF Revoke
  <2>2. sessions'[access[req[r].jti].session].revoked
    BY <1>3, RevokeChanges
  <2> QED
    BY <2>1, <2>2 DEF WillBeRevoked
<1>4. ASSUME UNCHANGED <<blacklist, loggedOut>>
      PROVE  \A a \in DOMAIN blacklist' \cup loggedOut' :
               a \in DOMAIN blacklist \cup loggedOut
  BY <1>4
<1>5. \A a \in DOMAIN blacklist' \cup loggedOut' :
        a \in DOMAIN blacklist \cup loggedOut \/ WillBeRevoked(a)'
  BY <1>2, <1>3, <1>4 DEF Next, vars, Login, Refresh, Guard, Logout, Fail, Tick,
     CreateSession, AnswerLogin, FindActiveSession, SignAccessToken,
     SendRotation, RotateRefreshToken, VerifyAccessToken, CheckBlacklist,
     SkipBlacklist, Handle, StartLogout
<1>6. \A a \in DOMAIN blacklist' \cup loggedOut' : WillBeRevoked(a)'
  BY <1>1, <1>5, WillBeRevokedStays
<1> QED
  BY <1>6 DEF BlacklistedMeansRevoked, WillBeRevoked

\* A token is refused only when its session is revoked, or will be by a request
\* in progress, unless a call failed.
THEOREM BlacklistedCorrect == Spec => []BlacklistedMeansRevoked
<1>1. Init => BlacklistedMeansRevoked
  BY DEF Init, BlacklistedMeansRevoked
<1> QED
  BY <1>1, StepKeepsBlacklisted, TypeCorrect, PTL DEF Spec

-----------------------------------------------------------------------------
(* The atomic sessions *)

\* The clock a request read lies behind it, and it read that of the access
\* token first.
ClocksInOrder ==
  \A r \in Request :
    /\ req[r].step \in {"sign", "rotate"} => req[r].exp - AccessTTL \in 0..now
    /\ req[r].step = "rotate" =>
         /\ req[r].asOf <= now
         /\ req[r].exp - AccessTTL <= req[r].asOf

LEMMA StepKeepsClocks ==
  ASSUME TypeOK, ClocksInOrder, [Next]_vars
  PROVE  ClocksInOrder'
<1>0. now \in Nat /\ AccessTTL \in Nat /\ DOMAIN req = Request
  BY TimeAssumption DEF TypeOK
<1>1. ASSUME NEW r \in Request, SignAccessToken(r)
      PROVE  ClocksInOrder'
  BY <1>0, <1>1 DEF SignAccessToken, ClocksInOrder, TypeOK
<1>2. ASSUME NEW r \in Request, SendRotation(r)
      PROVE  ClocksInOrder'
  BY <1>0, <1>2 DEF SendRotation, ClocksInOrder, TypeOK
<1>3. CASE Tick
  <2>1. \A r \in Request : req[r].step = "rotate" => req[r].asOf \in Nat
    BY RequestTyped
  <2> QED
    BY <1>0, <1>3, <2>1 DEF Tick, ClocksInOrder
<1>4. ASSUME now' = now,
             \A r \in Request :
               req'[r] = req[r] \/ req'[r].step \notin {"sign", "rotate"}
      PROVE  ClocksInOrder'
  BY <1>4 DEF ClocksInOrder
<1>5. ASSUME NEW r \in Request,
             \/ Login(r) \/ RotateRefreshToken(r) \/ Guard(r) \/ Logout(r) \/ Fail(r)
             \/ \E token \in RefreshToken : FindActiveSession(r, token)
      PROVE  ClocksInOrder'
  <2>1. /\ now' = now
        /\ \A q \in Request \ {r} : req'[q] = req[q]
        /\ req'[r].step \notin {"sign", "rotate"}
    <3>1. CASE \/ AnswerLogin(r) \/ RotateRefreshToken(r)
               \/ Handle(r) \/ Revoke(r) \/ Fail(r)
      <4>1. End(r) /\ now' = now
        BY <3>1 DEF AnswerLogin, RotateRefreshToken, Handle, Revoke, Fail
      <4> QED
        BY <4>1, EndTyped DEF Idle
    <3>2. CASE CheckBlacklist(r) \/ SkipBlacklist(r)
      <4>1. (End(r) \/ Goto(r, "handler")) /\ now' = now
        BY <3>2 DEF CheckBlacklist, SkipBlacklist
      <4>2. req[r].step = "guard"
        BY <3>2 DEF CheckBlacklist, SkipBlacklist
      <4>3. CASE Goto(r, "handler")
        BY <1>0, <4>1, <4>2, <4>3, GuardPasses
      <4> QED
        BY <4>1, <4>3, EndTyped DEF Idle
    <3>3. CASE \/ \E a \in AccessToken, logout \in BOOLEAN :
                    VerifyAccessToken(r, a, logout)
               \/ \E token \in RefreshToken : FindActiveSession(r, token)
               \/ \E s \in Session : CreateSession(r, s)
               \/ StartLogout(r) \/ BlacklistAccessToken(r)
      BY <1>0, <3>3 DEF VerifyAccessToken, FindActiveSession, CreateSession,
         StartLogout, BlacklistAccessToken
    <3> QED
      BY <1>5, <3>1, <3>2, <3>3 DEF Login, Guard, Logout
  <2> QED
    BY <1>4, <2>1
<1>6. CASE UNCHANGED <<req, now>>
  BY <1>4, <1>6
<1> QED
  BY <1>1, <1>2, <1>3, <1>5, <1>6 DEF Next, Refresh, vars

\* Who refreshes a session has a token of it, and while a login is on its way
\* nobody else knows its session.
SessionsEntered ==
  \A r \in Request :
    /\ req[r].step \in Refreshing => Answered(req[r].session)
    /\ req[r].step = "login" =>
         /\ ~Answered(req[r].session)
         /\ ~sessions[req[r].session].revoked
         /\ \A q \in Request \ {r} :
              req[q].step = "login" => req[q].session # req[r].session

\* What a step does to the sessions of requests, when it inserts none.
KeepsRequests ==
  \A r \in Request :
    \/ req'[r] = req[r]
    \/ req'[r].step \notin Refreshing \cup {"login"}
    \/ /\ req'[r].step \in Refreshing
       /\ Answered(req'[r].session)

\* Such a step keeps that, when it answers for no session that a login works on
\* and revokes none.
LEMMA QuietStepKeepsEntered ==
  ASSUME TypeOK, SessionsEntered, [Next]_vars, KeepsRequests,
         \A r \in Request : req'[r].step = "login" =>
           /\ ~sessions'[req[r].session].revoked
           /\ \A a \in DOMAIN access' \ DOMAIN access :
                access'[a].session # req[r].session
  PROVE  SessionsEntered'
<1>0. \A a \in DOMAIN access : a \in DOMAIN access' /\ access'[a] = access[a]
  BY AccessKept
<1>1. \A s : Answered(s) => \E a \in DOMAIN access' : access'[a].session = s
  BY <1>0 DEF Answered
<1>2. "login" \notin Refreshing
  BY DEF Refreshing
<1>3. ASSUME NEW r \in Request, req'[r].step \in Refreshing
      PROVE  \E a \in DOMAIN access' : access'[a].session = req'[r].session
  BY <1>1, <1>3 DEF KeepsRequests, SessionsEntered
<1>4. ASSUME NEW r \in Request, req'[r].step = "login"
      PROVE  /\ req'[r] = req[r]
             /\ \A a \in DOMAIN access' : access'[a].session # req[r].session
             /\ ~sessions'[req[r].session].revoked
  BY <1>0, <1>2, <1>4 DEF KeepsRequests, SessionsEntered, Answered
<1>5. ASSUME NEW r \in Request, NEW q \in Request \ {r},
             req'[r].step = "login", req'[q].step = "login"
      PROVE  req'[q].session # req'[r].session
  BY <1>4, <1>5 DEF SessionsEntered
<1> QED
  BY <1>3, <1>4, <1>5 DEF SessionsEntered, Answered

LEMMA StepKeepsEntered ==
  ASSUME TypeOK, SessionsEntered, [Next]_vars
  PROVE  SessionsEntered'
<1>0. DOMAIN req = Request
  BY DEF TypeOK
<1>1. ASSUME NEW r \in Request, NEW s \in Session, CreateSession(r, s)
      PROVE  SessionsEntered'
  <2>1. /\ s \notin DOMAIN sessions
        /\ \A x \in DOMAIN sessions : sessions'[x] = sessions[x]
        /\ ~sessions'[s].revoked
    BY <1>1, CreateTyped
  <2>2. /\ access' = access
        /\ req'[r] = [step |-> "login", session |-> s]
        /\ \A q \in Request \ {r} : req'[q] = req[q]
    BY <1>0, <1>1 DEF CreateSession
  <2>3. \A a \in DOMAIN access : access[a].session # s
    BY <2>1 DEF TypeOK
  <2>4. \A q \in Request : req[q].step \in Refreshing \cup {"login"} =>
          req[q].session \in DOMAIN sessions
    BY DEF TypeOK
  <2>5. \A q \in Request \ {r} :
          req[q].step = "login" => req[q].session # s
    BY <2>1, <2>4
  <2> QED
    BY <2>1, <2>2, <2>3, <2>4, <2>5 DEF SessionsEntered, Answered, Refreshing
<1>2. ASSUME NEW r \in Request, AnswerLogin(r)
      PROVE  SessionsEntered'
  <2>1. \A a \in DOMAIN access' \ DOMAIN access :
          access'[a].session = req[r].session
    BY <1>2, AnswerTyped
  <2>2. /\ sessions' = sessions /\ req'[r] = Idle
        /\ \A q \in Request \ {r} : req'[q] = req[q]
    BY <1>2, EndTyped DEF AnswerLogin
  <2>3. KeepsRequests
    BY <2>2 DEF KeepsRequests, Idle, Refreshing
  <2>4. ASSUME NEW q \in Request, req'[q].step = "login"
        PROVE  /\ q # r /\ req'[q] = req[q]
               /\ req[q].session # req[r].session
               /\ ~sessions[req[q].session].revoked
    BY <1>2, <2>2, <2>4 DEF SessionsEntered, AnswerLogin, Idle
  <2> QED
    BY <2>1, <2>2, <2>3, <2>4, QuietStepKeepsEntered
<1>3. ASSUME NEW r \in Request, RotateRefreshToken(r)
      PROVE  SessionsEntered'
  <2>1. /\ req'[r] = Idle
        /\ \A q \in Request \ {r} : req'[q] = req[q]
    BY <1>3, EndTyped DEF RotateRefreshToken
  <2>2. Answered(req[r].session)
    BY <1>3 DEF RotateRefreshToken, SessionsEntered, Refreshing
  <2>3. KeepsRequests
    BY <2>1 DEF KeepsRequests, Idle, Refreshing
  <2>4. ASSUME NEW q \in Request, req'[q].step = "login"
        PROVE  /\ req'[q] = req[q]
               /\ req[q].session # req[r].session
               /\ req[q].session \in DOMAIN sessions
               /\ ~sessions[req[q].session].revoked
    BY <2>1, <2>2, <2>4 DEF SessionsEntered, TypeOK, Idle
  <2>5. ASSUME NEW q \in Request, req'[q].step = "login"
        PROVE  /\ ~sessions'[req[q].session].revoked
               /\ \A a \in DOMAIN access' \ DOMAIN access :
                    access'[a].session # req[q].session
    BY <1>3, <2>4, <2>5, RotationChanges
  <2> QED
    BY <2>3, <2>5, QuietStepKeepsEntered
<1>4. ASSUME NEW r \in Request, Revoke(r)
      PROVE  SessionsEntered'
  <2>1. /\ req'[r] = Idle /\ access' = access
        /\ \A q \in Request \ {r} : req'[q] = req[q]
    BY <1>4, EndTyped DEF Revoke
  <2>2. Answered(access[req[r].jti].session)
    BY <1>4, RequestTyped DEF Revoke, GuardedSteps, Answered
  <2>3. KeepsRequests
    BY <2>1 DEF KeepsRequests, Idle, Refreshing
  <2>4. ASSUME NEW q \in Request, req'[q].step = "login"
        PROVE  /\ req'[q] = req[q]
               /\ req[q].session # access[req[r].jti].session
               /\ req[q].session \in DOMAIN sessions
               /\ ~sessions[req[q].session].revoked
    BY <2>1, <2>2, <2>4 DEF SessionsEntered, TypeOK, Idle
  <2>5. ASSUME NEW q \in Request, req'[q].step = "login"
        PROVE  ~sessions'[req[q].session].revoked
    BY <1>4, <2>4, <2>5, RevokeChanges
  <2> QED
    BY <2>1, <2>3, <2>5, QuietStepKeepsEntered
<1>5. ASSUME UNCHANGED <<sessions, access>>, KeepsRequests
      PROVE  SessionsEntered'
  <2>1. ASSUME NEW q \in Request, req'[q].step = "login"
        PROVE  req'[q] = req[q] /\ ~sessions[req[q].session].revoked
    BY <2>1, <1>5 DEF KeepsRequests, SessionsEntered, Refreshing
  <2> QED
    BY <1>5, <2>1, QuietStepKeepsEntered
<1>6. ASSUME NEW r \in Request, NEW token \in RefreshToken,
             FindActiveSession(r, token)
      PROVE  SessionsEntered'
  <2>1. KeepsRequests
    BY <1>0, <1>6 DEF FindActiveSession, KeepsRequests, Refreshing
  <2> QED
    BY <1>5, <1>6, <2>1 DEF FindActiveSession
<1>7. ASSUME NEW r \in Request, SignAccessToken(r) \/ SendRotation(r)
      PROVE  SessionsEntered'
  <2>1. req[r].step \in Refreshing
    BY <1>7 DEF SignAccessToken, SendRotation, Refreshing
  <2>2. /\ req'[r].step \in Refreshing /\ req'[r].session = req[r].session
        /\ \A q \in Request \ {r} : req'[q] = req[q]
    BY <1>0, <1>7 DEF SignAccessToken, SendRotation, Refreshing
  <2>3. KeepsRequests
    BY <2>1, <2>2 DEF KeepsRequests, SessionsEntered
  <2> QED
    BY <1>5, <1>7, <2>3 DEF SignAccessToken, SendRotation
<1>8. ASSUME NEW r \in Request, Guard(r) \/ Logout(r) \/ Fail(r), ~Revoke(r)
      PROVE  SessionsEntered'
  <2>1. /\ UNCHANGED <<sessions, access>>
        /\ \A q \in Request \ {r} : req'[q] = req[q]
        /\ req'[r].step \notin Refreshing \cup {"login"}
    <3>1. CASE Handle(r) \/ Fail(r)
      <4>1. End(r) /\ UNCHANGED <<sessions, access>>
        BY <3>1 DEF Handle, Fail
      <4> QED
        BY <4>1, EndTyped DEF Idle, Refreshing
    <3>2. CASE CheckBlacklist(r) \/ SkipBlacklist(r)
      <4>1. /\ End(r) \/ Goto(r, "handler")
            /\ req[r].step = "guard" /\ UNCHANGED <<sessions, access>>
        BY <3>2 DEF CheckBlacklist, SkipBlacklist
      <4> QED
        BY <4>1, EndTyped, GuardPasses DEF Idle, Refreshing
    <3>3. CASE \/ \E a \in AccessToken, logout \in BOOLEAN :
                    VerifyAccessToken(r, a, logout)
               \/ StartLogout(r) \/ BlacklistAccessToken(r)
      BY <1>0, <3>3
         DEF VerifyAccessToken, StartLogout, BlacklistAccessToken, Refreshing
    <3> QED
      BY <1>8, <3>1, <3>2, <3>3 DEF Guard, Logout
  <2>2. KeepsRequests
    BY <2>1 DEF KeepsRequests
  <2> QED
    BY <1>5, <2>1, <2>2
<1>9. ASSUME UNCHANGED <<sessions, access, req>>
      PROVE  SessionsEntered'
  BY <1>5, <1>9 DEF KeepsRequests
<1> QED
  BY <1>1, <1>2, <1>3, <1>4, <1>6, <1>7, <1>8, <1>9
     DEF Next, Login, Refresh, Tick, vars

\* A token that no client was given is fresh.
LEMMA GivenTokens ==
  ASSUME NEW token \in RefreshToken \ Given
  PROVE  Abstract!Fresh(token)
  BY DEF Given, Abstract!Fresh

LEMMA FirstOfPairs ==
  ASSUME NEW P, NEW x, NEW y
  PROVE  {p[1] : p \in P \cup {<<x, y>>}} = {p[1] : p \in P} \cup {x}
<1>1. <<x, y>>[1] = x
  OBVIOUS
<1> QED
  BY <1>1

\* The INSERT of a login opens a session.
LEMMA CreationOpens ==
  ASSUME TypeOK, NEW r \in Request, NEW s \in Session, CreateSession(r, s)
  PROVE  Abstract!Next
<1>1. PICK token \in RefreshToken \ Given :
        sessions' = Put(sessions, s, [token |-> token, revoked |-> FALSE,
                                      expiresAt |-> now + RefreshTTL])
  BY DEF CreateSession
<1>2. Abstract!Open(s, token)
  BY <1>1, GivenTokens DEF CreateSession, Abstract!Open, Put
<1> QED
  BY <1>1, <1>2 DEF CreateSession, Abstract!Next

\* The answer of a login enters it: no request has touched it before.
LEMMA AnswerEnters ==
  ASSUME TypeOK, SessionsEntered, NEW r \in Request, AnswerLogin(r)
  PROVE  Abstract!Next
<1>1. PICK a \in AccessToken \ DOMAIN access :
        access' = Put(access, a, [session |-> req[r].session,
                                  exp |-> now + AccessTTL])
  BY DEF AnswerLogin
<1>2. PICK s \in DOMAIN sessions : s = req[r].session
  BY RequestTyped DEF AnswerLogin
<1>3. ~Answered(s) /\ ~sessions[s].revoked
  BY <1>2 DEF AnswerLogin, SessionsEntered
<1>4. Abstract!Answer(s, a, now)
  BY <1>1, <1>2 DEF Abstract!Answer, Put
<1>5. Abstract!Enter(s, a)
  BY <1>3, <1>4 DEF AnswerLogin, Abstract!Enter, Abstract!Entered, Answered
<1> QED
  BY <1>1, <1>2, <1>5 DEF Abstract!Next

\* The UPDATE of a refresh renews the session, or nothing happens: what the
\* request found and signed before it plays no part.
LEMMA RotationRenews ==
  ASSUME TypeOK, ClocksInOrder, SessionsEntered, NEW r \in Request,
         RotateRefreshToken(r)
  PROVE  Abstract!Next \/ UNCHANGED Abstract!sessionVars
<1>1. PICK s \in DOMAIN sessions, asOf \in 0..now, signed \in 0..now :
        /\ s = req[r].session /\ asOf = req[r].asOf
        /\ signed = req[r].exp - AccessTTL
        /\ signed \in 0..asOf /\ signed + AccessTTL = req[r].exp
  BY RequestTyped, TimeAssumption
     DEF RotateRefreshToken, ClocksInOrder, TypeOK, Refreshing
<1>2. CASE UNCHANGED <<sessions, access, successors>>
  BY <1>2 DEF RotateRefreshToken, Abstract!sessionVars
<1>3. CASE ~UNCHANGED <<sessions, access, successors>>
  <2>1. /\ sessions[s].token = req[r].old /\ ~sessions[s].revoked
        /\ sessions[s].expiresAt > asOf
        /\ Rotate(r, s)
    BY <1>1, <1>3 DEF RotateRefreshToken
  <2>2. PICK token \in RefreshToken \ Given, a \in AccessToken \ DOMAIN access :
          /\ sessions' = [sessions EXCEPT ![s].token = token,
                                          ![s].expiresAt = asOf + RefreshTTL]
          /\ access' = Put(access, a, [session |-> s, exp |-> req[r].exp])
          /\ successors' = successors \cup {<<req[r].old, token>>}
    BY <1>1, <2>1 DEF Rotate
  <2>3. {p[1] : p \in successors'}
          = {p[1] : p \in successors} \cup {sessions[s].token}
    BY <2>1, <2>2, FirstOfPairs
  <2>4. Abstract!Answer(s, a, signed)
    BY <1>1, <2>2 DEF Abstract!Answer, Put
  <2>5. Abstract!Entered(s)
    BY <1>1 DEF SessionsEntered, RotateRefreshToken, Refreshing, Answered,
       Abstract!Entered
  <2>6. Abstract!Renew(s, token, a, signed, asOf)
    BY <2>1, <2>2, <2>3, <2>4, <2>5, GivenTokens
       DEF RotateRefreshToken, Abstract!Renew
  <2> QED
    BY <1>1, <2>2, <2>6 DEF Abstract!Next
<1> QED
  BY <1>2, <1>3

\* The UPDATE of a logout ends the session, or it was ended already.
LEMMA RevokeEnds ==
  ASSUME TypeOK, NEW r \in Request, Revoke(r)
  PROVE  Abstract!Next \/ UNCHANGED Abstract!sessionVars
<1> DEFINE s == access[req[r].jti].session
<1>1. /\ s \in DOMAIN sessions
      /\ sessions' = [sessions EXCEPT ![s].revoked = TRUE]
      /\ UNCHANGED <<access, now, successors>>
  BY RequestTyped DEF Revoke, GuardedSteps
<1>2. CASE ~sessions[s].revoked
  <2>1. Abstract!Entered(s)
    BY RequestTyped DEF Revoke, GuardedSteps, Abstract!Entered
  <2> QED
    BY <1>1, <1>2, <2>1 DEF Abstract!Next, Abstract!End
<1>3. CASE sessions[s].revoked
  <2>1. sessions \in [DOMAIN sessions -> SessionRow]
    BY DEF TypeOK
  <2>2. [sessions[s] EXCEPT !.revoked = TRUE] = sessions[s]
    BY <1>1, <1>3, <2>1 DEF SessionRow
  <2>3. sessions' = sessions
    BY <1>1, <2>1, <2>2
  <2> QED
    BY <1>1, <2>3 DEF Abstract!sessionVars
<1> QED
  BY <1>2, <1>3

\* Every behaviour of the statements is one of the atomic sessions.
THEOREM AuthSessionsImplementSessions == Spec => ImplementsSessions
<1>1. Init => ClocksInOrder
  BY DEF Init, ClocksInOrder, Idle
<1>2. Init => Abstract!Init
  BY DEF Init, Abstract!Init
<1>3. Init => SessionsEntered
  BY DEF Init, SessionsEntered, Idle, Refreshing
<1>4. ASSUME TypeOK, ClocksInOrder, SessionsEntered, [Next]_vars
      PROVE  [Abstract!Next]_(Abstract!sessionVars)
  <2>1. CASE \E r \in Request : Login(r)
    BY <1>4, <2>1, CreationOpens, AnswerEnters DEF Login
  <2>2. CASE \E r \in Request : RotateRefreshToken(r)
    BY <1>4, <2>2, RotationRenews
  <2>3. CASE \E r \in Request : Revoke(r)
    BY <1>4, <2>3, RevokeEnds
  <2>4. CASE Tick
    BY <2>4 DEF Tick, Abstract!Next, Abstract!Tick
  <2>5. CASE UNCHANGED <<sessions, access, successors, now>>
    BY <2>5 DEF Abstract!sessionVars
  <2> QED
    BY <1>4, <2>1, <2>2, <2>3, <2>4, <2>5
       DEF Next, Refresh, Guard, Logout, vars, FindActiveSession,
       SignAccessToken, SendRotation, VerifyAccessToken, CheckBlacklist,
       SkipBlacklist, Handle, StartLogout, BlacklistAccessToken, Fail
<1> QED
  BY <1>1, <1>2, <1>3, <1>4, StepKeepsClocks, StepKeepsEntered, TypeCorrect, PTL
     DEF Spec, ImplementsSessions, Abstract!Spec
=============================================================================
