---------------------------- MODULE AuthSessions ----------------------------
(***************************************************************************)
(* Login, rotation of refresh tokens, logout, and the guard that checks    *)
(* access tokens: AuthService and AuthSessionsService on the auth_sessions *)
(* table, AuthGuard and RedisService on the keys of the blacklist.         *)
(*                                                                         *)
(*   login:    login  (the INSERT of the session; the access token)        *)
(*   refresh:  found -> sign -> rotate                                     *)
(*             (findOne; the access token; the UPDATE)                     *)
(*   guarded:  guard -> handler  (verify; the key in Redis; the handler)   *)
(*   logout:   handler -> blacklist -> revoke                              *)
(*                                                                         *)
(* Tokens are random and never repeated; the stored digest of a token is   *)
(* only compared for equality, so that the token itself stands for it.     *)
(***************************************************************************)
EXTENDS Integers, FiniteSets

CONSTANTS Session,       \* primary keys of auth_sessions
          RefreshToken,  \* random refresh tokens
          AccessToken,   \* access tokens, by their jti
          Request,       \* HTTP requests in progress at the same time
          AccessTTL,     \* JWT_ACCESS_EXPIRES_IN_SECONDS
          RefreshTTL,    \* REFRESH_TOKEN_EXPIRES_IN_DAYS
          MaxTime,       \* last second of the clock
          MaxFailures    \* bound on the calls to Redis or the table that fail

ASSUME TimeAssumption ==
  /\ AccessTTL \in Nat \ {0} /\ RefreshTTL \in Nat \ {0}
  /\ MaxTime \in Nat /\ MaxFailures \in Nat
  /\ IsFiniteSet(RefreshToken) /\ IsFiniteSet(AccessToken)

VARIABLES sessions,      \* rows of auth_sessions, by primary key
          access,        \* the signed access tokens, by jti
          blacklist,     \* Redis: when the key of a jti expires
          req,           \* the state of each request
          now,           \* the clock, in seconds
          successors,    \* history: a refresh token and the one it gave way to
          loggedOut,     \* history: access tokens whose logout was answered
          failures       \* number of failed calls

vars == <<sessions, access, blacklist, req, now, successors, loggedOut, failures>>

Idle == [step |-> "idle"]

SessionRow == [token: RefreshToken, expiresAt: Nat, revoked: BOOLEAN]
AccessPayload == [session: Session, exp: Nat]

LoginState == [step: {"login"}, session: Session]
RefreshState ==
  [step: {"found"}, session: Session, old: RefreshToken]
  \cup [step: {"sign"}, session: Session, old: RefreshToken, exp: Nat]
  \cup [step: {"rotate"}, session: Session, old: RefreshToken, exp: Nat,
        asOf: Nat]
GuardedState ==
  [step: {"guard", "handler", "revoke"}, jti: AccessToken, logout: BOOLEAN]
BlacklistState == [step: {"blacklist"}, jti: AccessToken, ttl: Int]
RequestState ==
  {Idle} \cup LoginState \cup RefreshState \cup GuardedState \cup BlacklistState

\* The steps of a request that has a session and may answer an access token.
Refreshing == {"found", "sign", "rotate"}

TypeOK ==
  /\ DOMAIN sessions \subseteq Session
  /\ sessions \in [DOMAIN sessions -> SessionRow]
  /\ DOMAIN access \subseteq AccessToken
  /\ access \in [DOMAIN access -> AccessPayload]
  /\ \A a \in DOMAIN access : access[a].session \in DOMAIN sessions
  /\ DOMAIN blacklist \subseteq DOMAIN access
  /\ blacklist \in [DOMAIN blacklist -> Nat]
  /\ req \in [Request -> RequestState]
  /\ \A r \in Request :
       /\ req[r].step \in Refreshing \cup {"login"}
            => req[r].session \in DOMAIN sessions
       /\ req[r].step \in {"guard", "handler", "blacklist", "revoke"}
            => req[r].jti \in DOMAIN access
  /\ now \in Nat
  /\ successors \subseteq RefreshToken \X RefreshToken
  /\ loggedOut \subseteq DOMAIN access
  /\ failures \in Nat

Init ==
  /\ sessions = [s \in {} |-> s]
  /\ access = [a \in {} |-> a]
  /\ blacklist = [a \in {} |-> a]
  /\ req = [r \in Request |-> Idle]
  /\ now = 0
  /\ successors = {}
  /\ loggedOut = {}
  /\ failures = 0

-----------------------------------------------------------------------------
(* Helpers *)

Put(f, key, value) ==
  [x \in DOMAIN f \cup {key} |-> IF x = key THEN value ELSE f[x]]

\* Every refresh token that was ever stored.
Given ==
  {sessions[s].token : s \in DOMAIN sessions} \cup {p[1] : p \in successors}

\* The token sets bound the run: one of each is left for who asks.
RoomForTokens ==
  LET rotating == {r \in Request : req[r].step \in Refreshing}
      answering == {r \in Request : req[r].step \in Refreshing \cup {"login"}}
  IN  /\ Cardinality(Given) + Cardinality(rotating) < Cardinality(RefreshToken)
      /\ Cardinality(DOMAIN access) + Cardinality(answering)
           < Cardinality(AccessToken)

\* revoked_at IS NULL AND expires_at > now
Active(s) == ~sessions[s].revoked /\ sessions[s].expiresAt > now

\* A client has the tokens of a session only once its login was answered.
Answered(s) == \E a \in DOMAIN access : access[a].session = s

Blacklisted(a) == a \in DOMAIN blacklist /\ blacklist[a] > now

End(r) == req' = [req EXCEPT ![r] = Idle]

Goto(r, step) == req' = [req EXCEPT ![r].step = step]

-----------------------------------------------------------------------------
(* login and refresh *)

\* The password was right: the INSERT of a session that no client knows yet.
CreateSession(r, s) ==
  /\ req[r] = Idle
  /\ s \in Session \ DOMAIN sessions
  /\ RoomForTokens
  /\ \E token \in RefreshToken \ Given :
       sessions' = Put(sessions, s, [token |-> token, revoked |-> FALSE,
                                     expiresAt |-> now + RefreshTTL])
  /\ req' = [req EXCEPT ![r] = [step |-> "login", session |-> s]]
  /\ UNCHANGED <<access, blacklist, now, successors, loggedOut, failures>>

\* The access token is signed, and both tokens are answered.
AnswerLogin(r) ==
  /\ req[r].step = "login"
  /\ \E a \in AccessToken \ DOMAIN access :
       access' = Put(access, a, [session |-> req[r].session,
                                 exp |-> now + AccessTTL])
  /\ End(r)
  /\ UNCHANGED <<sessions, blacklist, now, successors, loggedOut, failures>>

\* findActiveByRefreshTokenHash; anything else is a 401.
FindActiveSession(r, token) ==
  /\ req[r] = Idle
  /\ RoomForTokens
  /\ \E s \in DOMAIN sessions :
       /\ sessions[s].token = token
       /\ Answered(s)
       /\ Active(s)
       /\ req' = [req EXCEPT ![r] = [step |-> "found", session |-> s,
                                     old |-> token]]
  /\ UNCHANGED <<sessions, access, blacklist, now, successors, loggedOut,
                 failures>>

\* The access token has its expiry from here, and is answered only after the
\* rotation.
SignAccessToken(r) ==
  /\ req[r].step = "found"
  /\ req' = [req EXCEPT ![r] = [step |-> "sign", session |-> req[r].session,
                                old |-> req[r].old, exp |-> now + AccessTTL]]
  /\ UNCHANGED <<sessions, access, blacklist, now, successors, loggedOut,
                 failures>>

\* The UPDATE is sent: its condition and the new expiry have the time of now.
SendRotation(r) ==
  /\ req[r].step = "sign"
  /\ req' = [req EXCEPT ![r] = [step |-> "rotate", session |-> req[r].session,
                                old |-> req[r].old, exp |-> req[r].exp,
                                asOf |-> now]]
  /\ UNCHANGED <<sessions, access, blacklist, now, successors, loggedOut,
                 failures>>

Rotate(r, s) ==
  \E token \in RefreshToken \ Given, a \in AccessToken \ DOMAIN access :
    /\ sessions' = [sessions EXCEPT ![s].token = token,
                                    ![s].expiresAt = req[r].asOf + RefreshTTL]
    /\ access' = Put(access, a, [session |-> s, exp |-> req[r].exp])
    /\ successors' = successors \cup {<<req[r].old, token>>}

\* A plausible bug: the UPDATE finds the row by its id alone.
RotateRefreshToken_ById(r) ==
  /\ req[r].step = "rotate"
  /\ Rotate(r, req[r].session)
  /\ End(r)
  /\ UNCHANGED <<blacklist, now, loggedOut, failures>>

\* A plausible bug: the UPDATE does not look at revoked_at again.
RotateRefreshToken_Revoked(r) ==
  /\ req[r].step = "rotate"
  /\ LET s == req[r].session IN
       IF sessions[s].token = req[r].old /\ sessions[s].expiresAt > req[r].asOf
       THEN Rotate(r, s) ELSE UNCHANGED <<sessions, access, successors>>
  /\ End(r)
  /\ UNCHANGED <<blacklist, now, loggedOut, failures>>

\* UPDATE ... WHERE id AND refresh_token_hash AND still active; no row
\* affected is a 401.
RotateRefreshToken(r) ==
  /\ req[r].step = "rotate"
  /\ LET s == req[r].session IN
       IF /\ sessions[s].token = req[r].old
          /\ ~sessions[s].revoked
          /\ sessions[s].expiresAt > req[r].asOf
       THEN Rotate(r, s) ELSE UNCHANGED <<sessions, access, successors>>
  /\ End(r)
  /\ UNCHANGED <<blacklist, now, loggedOut, failures>>

-----------------------------------------------------------------------------
(* the guard *)

VerifyAccessToken(r, a, logout) ==
  /\ req[r] = Idle
  /\ a \in DOMAIN access
  /\ access[a].exp > now
  /\ req' = [req EXCEPT ![r] = [step |-> "guard", jti |-> a,
                                logout |-> logout]]
  /\ UNCHANGED <<sessions, access, blacklist, now, successors, loggedOut,
                 failures>>

CheckBlacklist(r) ==
  /\ req[r].step = "guard"
  /\ IF Blacklisted(req[r].jti) THEN End(r) ELSE Goto(r, "handler")
  /\ UNCHANGED <<sessions, access, blacklist, now, successors, loggedOut,
                 failures>>

\* Redis does not answer: the guard lets the request pass.
SkipBlacklist(r) ==
  /\ req[r].step = "guard"
  /\ failures < MaxFailures
  /\ failures' = failures + 1
  /\ Goto(r, "handler")
  /\ UNCHANGED <<sessions, access, blacklist, now, successors, loggedOut>>

\* Any other handler than logout.
Handle(r) ==
  /\ req[r].step = "handler"
  /\ ~req[r].logout
  /\ End(r)
  /\ UNCHANGED <<sessions, access, blacklist, now, successors, loggedOut,
                 failures>>

-----------------------------------------------------------------------------
(* logout *)

\* A plausible bug: the seconds left are rounded down.
StartLogout_RoundedDown(r) ==
  /\ req[r].step = "handler"
  /\ req[r].logout
  /\ req' = [req EXCEPT ![r] = [step |-> "blacklist", jti |-> req[r].jti,
                                ttl |-> access[req[r].jti].exp - now - 1]]
  /\ UNCHANGED <<sessions, access, blacklist, now, successors, loggedOut,
                 failures>>

StartLogout(r) ==
  /\ req[r].step = "handler"
  /\ req[r].logout
  /\ req' = [req EXCEPT ![r] = [step |-> "blacklist", jti |-> req[r].jti,
                                ttl |-> access[req[r].jti].exp - now]]
  /\ UNCHANGED <<sessions, access, blacklist, now, successors, loggedOut,
                 failures>>

\* A plausible bug: the handler answers without revoking the session.
BlacklistAccessToken_Only(r) ==
  /\ req[r].step = "blacklist"
  /\ blacklist' = IF req[r].ttl <= 0 THEN blacklist
                  ELSE Put(blacklist, req[r].jti, now + req[r].ttl)
  /\ loggedOut' = loggedOut \cup {req[r].jti}
  /\ End(r)
  /\ UNCHANGED <<sessions, access, now, successors, failures>>

\* SET with EX: the key expires ttl seconds after Redis executes it.
BlacklistAccessToken(r) ==
  /\ req[r].step = "blacklist"
  /\ blacklist' = IF req[r].ttl <= 0 THEN blacklist
                  ELSE Put(blacklist, req[r].jti, now + req[r].ttl)
  /\ req' = [req EXCEPT ![r] = [step |-> "revoke", jti |-> req[r].jti,
                                logout |-> TRUE]]
  /\ UNCHANGED <<sessions, access, now, successors, loggedOut, failures>>

\* A plausible bug: the session is deleted, and not kept as revoked.
Revoke_Deletes(r) ==
  /\ req[r].step = "revoke"
  /\ sessions' = [s \in DOMAIN sessions \ {access[req[r].jti].session} |->
                    sessions[s]]
  /\ loggedOut' = loggedOut \cup {req[r].jti}
  /\ End(r)
  /\ UNCHANGED <<access, blacklist, now, successors, failures>>

\* UPDATE ... SET revoked_at WHERE id AND user_id AND revoked_at IS NULL
Revoke(r) ==
  /\ req[r].step = "revoke"
  /\ sessions' = [sessions EXCEPT ![access[req[r].jti].session].revoked = TRUE]
  /\ loggedOut' = loggedOut \cup {req[r].jti}
  /\ End(r)
  /\ UNCHANGED <<access, blacklist, now, successors, failures>>

-----------------------------------------------------------------------------
\* Redis or the table fails, or the process dies: 500 or no answer.  A session
\* whose login fails stays, and nobody knows its tokens.
Fail(r) ==
  /\ req[r].step \in Refreshing \cup {"login", "blacklist", "revoke"}
  /\ failures < MaxFailures
  /\ failures' = failures + 1
  /\ End(r)
  /\ UNCHANGED <<sessions, access, blacklist, now, successors, loggedOut>>

Tick ==
  /\ now < MaxTime
  /\ now' = now + 1
  /\ UNCHANGED <<sessions, access, blacklist, req, successors, loggedOut,
                 failures>>

Login(r) ==
  \/ \E s \in Session : CreateSession(r, s)
  \/ AnswerLogin(r)

Refresh(r) ==
  \/ \E token \in RefreshToken : FindActiveSession(r, token)
  \/ SignAccessToken(r) \/ SendRotation(r) \/ RotateRefreshToken(r)

Guard(r) ==
  \/ \E a \in AccessToken, logout \in BOOLEAN : VerifyAccessToken(r, a, logout)
  \/ CheckBlacklist(r) \/ SkipBlacklist(r) \/ Handle(r)

Logout(r) == StartLogout(r) \/ BlacklistAccessToken(r) \/ Revoke(r)

Next ==
  \/ \E r \in Request :
       Login(r) \/ Refresh(r) \/ Guard(r) \/ Logout(r) \/ Fail(r)
  \/ Tick

Spec == Init /\ [][Next]_vars

-----------------------------------------------------------------------------
(* Properties *)

\* Of several refreshes with one token, at the same time or again later, one
\* succeeds: a token gives way to one other and is never current again.
OneSuccessor ==
  /\ \A p, q \in successors : p[1] = q[1] => p = q
  /\ \A p \in successors, s \in DOMAIN sessions : sessions[s].token # p[1]

\* A token whose logout was answered passes the guard only once it has expired
\* on its way, or when Redis does not answer: its key lives long enough.
LoggedOutTokenRefused ==
  [][\A r \in Request :
       /\ req[r].step = "guard"
       /\ req'[r].step = "handler"
       => \/ req[r].jti \notin loggedOut
          \/ access[req[r].jti].exp <= now
          \/ failures' # failures]_vars

\* A token is not refused for nothing: its session is revoked too, or will be
\* by a request in progress, or a call failed on the way.
BlacklistedMeansRevoked ==
  \A a \in DOMAIN blacklist \cup loggedOut :
    \/ sessions[access[a].session].revoked
    \/ \E r \in Request : req[r].step = "revoke" /\ req[r].jti = a
    \/ failures > 0

Abstract == INSTANCE Sessions WITH spent <- {p[1] : p \in successors}

\* The statements of login, refresh and logout, however they interleave, are
\* atomic openings, renewals and ends of sessions: a refresh that lost its race
\* writes nothing and answers no token, and nothing revives a revoked session.
ImplementsSessions == Abstract!Spec
=============================================================================
