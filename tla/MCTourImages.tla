----------------------------- MODULE MCTourImages -----------------------------
(* Small instances of TourImages for TLC. *)
EXTENDS TourImages, TLC
===============================================================================
