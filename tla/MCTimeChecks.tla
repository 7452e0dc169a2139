---------------------------- MODULE MCTimeChecks ----------------------------
(* Lists of up to three times in four days. *)
EXTENDS TimeChecks

MCDates == 1..4
=============================================================================
