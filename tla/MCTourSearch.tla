----------------------------- MODULE MCTourSearch -----------------------------
(* Small instances of TourSearch for TLC. *)
EXTENDS TourSearch

MCTour == {1, 2}

\* Open departures of two tours, of one day each, so that a tour may have two.
MCInitialTourTime ==
  {row \in [tour: MCTour, startDate: {2, 3}, endDate: {2, 3}, price: {5, 10},
            maxCapacity: {1}, status: {"open"}, deleted: {FALSE}] :
     row.startDate = row.endDate}

MCQuery ==
  [tours: {MCTour}, minPrice: {0}, maxPrice: {10}, sortBy: {"none", "price"},
   descending: {FALSE}]
===============================================================================
