------------------------------- MODULE Accounts -------------------------------
(***************************************************************************)
(* What registration and profile update promise of the e-mail addresses:   *)
(* an account gets an address nobody else has, in one step, and keeps its  *)
(* account for good.                                                       *)
(***************************************************************************)
CONSTANTS User, Email

VARIABLE emailOf    \* the addresses of the accounts that exist

Init == emailOf = [u \in {} |-> u]

\* Nobody has the address e.
Free(e) == \A u \in DOMAIN emailOf : emailOf[u] # e

Register(u, e) ==
  /\ u \notin DOMAIN emailOf
  /\ Free(e)
  /\ emailOf' = [x \in DOMAIN emailOf \cup {u} |->
                   IF x = u THEN e ELSE emailOf[x]]

ChangeEmail(u, e) ==
  /\ u \in DOMAIN emailOf
  /\ Free(e)
  /\ emailOf' = [emailOf EXCEPT ![u] = e]

Next == \E u \in User, e \in Email : Register(u, e) \/ ChangeEmail(u, e)

Spec == Init /\ [][Next]_emailOf
===============================================================================
