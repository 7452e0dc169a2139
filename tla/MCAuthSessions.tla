--------------------------- MODULE MCAuthSessions ---------------------------
(* Small instances of AuthSessions for TLC. *)
EXTENDS AuthSessions, TLC

MCSymmetry == Permutations(RefreshToken) \cup Permutations(AccessToken)
                \cup Permutations(Session) \cup Permutations(Request)
=============================================================================
