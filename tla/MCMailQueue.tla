---------------------------- MODULE MCMailQueue ----------------------------
(* Small instances of MailQueue for TLC. *)
EXTENDS MailQueue, TLC

\* One open departure with a single slot.
MCInitialTourTime ==
  [tour: Tour, startDate: {MaxDay}, endDate: {MaxDay}, price: Price,
   maxCapacity: {MaxCapacity}, status: {"open"}, deleted: {FALSE}]

MCSymmetry == Permutations(Request) \cup Permutations(Worker)
=============================================================================
