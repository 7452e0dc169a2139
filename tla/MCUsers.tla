------------------------------- MODULE MCUsers -------------------------------
(* Small instances of Users for TLC. *)
EXTENDS Users, TLC

MCSymmetry == Permutations(User) \cup Permutations(Email)
                \cup Permutations(Value) \cup Permutations(Client)
==============================================================================
