------------------------------- MODULE Sessions -------------------------------
(***************************************************************************)
(* What login, refresh and logout promise of sessions and tokens, each in  *)
(* one atomic step: a session has one refresh token at a time, renewing it *)
(* spends that token for good and answers one access token, and a session  *)
(* that was revoked is never written again.  A session is entered once,    *)
(* and nothing happens to it before.  Clocks are read before the row is    *)
(* written, so that a renewal may count from a moment in the past.         *)
(***************************************************************************)
EXTENDS Integers

CONSTANTS Session, RefreshToken, AccessToken, AccessTTL, RefreshTTL

VARIABLES sessions,   \* the rows, by primary key
          access,     \* the access tokens answered
          spent,      \* refresh tokens that gave way to another
          now

sessionVars == <<sessions, access, spent, now>>

Init ==
  /\ sessions = [s \in {} |-> s]
  /\ access = [a \in {} |-> a]
  /\ spent = {}
  /\ now = 0

Fresh(token) ==
  token \notin spent /\ \A s \in DOMAIN sessions : sessions[s].token # token

\* An access token of s that was signed at that time.
Answer(s, a, signed) ==
  access' = [x \in DOMAIN access \cup {a} |->
               IF x = a THEN [session |-> s, exp |-> signed + AccessTTL]
               ELSE access[x]]

Entered(s) == \E a \in DOMAIN access : access[a].session = s

Open(s, token) ==
  /\ Fresh(token)
  /\ sessions' = [x \in DOMAIN sessions \cup {s} |->
                    IF x = s THEN [token |-> token, revoked |-> FALSE,
                                   expiresAt |-> now + RefreshTTL]
                    ELSE sessions[x]]
  /\ UNCHANGED <<access, spent, now>>

\* The first access token of a session.
Enter(s, a) ==
  /\ ~Entered(s)
  /\ ~sessions[s].revoked
  /\ Answer(s, a, now)
  /\ UNCHANGED <<sessions, spent, now>>

Renew(s, token, a, signed, asOf) ==
  /\ Entered(s)
  /\ ~sessions[s].revoked
  /\ sessions[s].expiresAt > asOf
  /\ Fresh(token)
  /\ spent' = spent \cup {sessions[s].token}
  /\ sessions' = [sessions EXCEPT ![s].token = token,
                                  ![s].expiresAt = asOf + RefreshTTL]
  /\ Answer(s, a, signed)
  /\ UNCHANGED now

End(s) ==
  /\ Entered(s)
  /\ ~sessions[s].revoked
  /\ sessions' = [sessions EXCEPT ![s].revoked = TRUE]
  /\ UNCHANGED <<access, spent, now>>

Tick == now' = now + 1 /\ UNCHANGED <<sessions, access, spent>>

Next ==
  \/ \E token \in RefreshToken :
       \/ \E s \in Session \ DOMAIN sessions : Open(s, token)
       \/ \E s \in DOMAIN sessions, a \in AccessToken \ DOMAIN access,
            asOf \in 0..now : \E signed \in 0..asOf :
              Renew(s, token, a, signed, asOf)
  \/ \E s \in DOMAIN sessions, a \in AccessToken \ DOMAIN access : Enter(s, a)
  \/ \E s \in DOMAIN sessions : End(s)
  \/ Tick

Spec == Init /\ [][Next]_sessionVars
=============================================================================
