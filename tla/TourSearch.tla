------------------------------ MODULE TourSearch ------------------------------
(***************************************************************************)
(* ToursService.findPublic: the public list of tours, page by page.  Its   *)
(* query joins each tour with its departures and images, and sorts by      *)
(* columns of all three.  TypeORM pages such a query in two statements:    *)
(* SELECT DISTINCT of the tour's id and the sorted columns with OFFSET and *)
(* LIMIT, then the tours with these ids.                                   *)
(***************************************************************************)
EXTENDS TourStore, TimeRanges, SequencesExt

CONSTANTS MaxImages,   \* bound on the images of a tour
          Query        \* SearchTourDto: filters and sorting

VARIABLE pictures      \* the number of images of each tour

vars == <<tourTimes, bookings, rowLock, today, pictures>>

\* tours: those that pass the filters on category and name.  Sorting by name
\* or rating gives the rows of a tour one key, as sorting by nothing does.
SearchQuery == [tours: SUBSET Tour, minPrice: Nat, maxPrice: Nat,
                sortBy: {"none", "price", "start_date"}, descending: BOOLEAN]

\* The departures the query joins: open, later than today, in the price range.
PublicTimes(query) ==
  {t \in DOMAIN tourTimes :
     /\ Live(t) /\ tourTimes[t].status = "open" /\ tourTimes[t].startDate > today
     /\ tourTimes[t].tour \in query.tours
     /\ tourTimes[t].price \in query.minPrice..query.maxPrice}

\* A tour without images still has a row.
SortOrders(tour) == IF pictures[tour] = 0 THEN {0} ELSE 0..(pictures[tour] - 1)

SortKey(query, t) ==
  CASE query.sortBy = "price" -> tourTimes[t].price
    [] query.sortBy = "start_date" -> tourTimes[t].startDate
    [] OTHER -> 0

\* SELECT DISTINCT: a row per departure and image, as far as the sorted columns
\* tell them apart.
Rows(query) ==
  UNION {{[key |-> SortKey(query, t), tour |-> tourTimes[t].tour,
           startDate |-> tourTimes[t].startDate, sortOrder |-> i] :
            i \in SortOrders(tourTimes[t].tour)} : t \in PublicTimes(query)}

\* ORDER BY the key, tour.id DESC, tourTime.startDate, image.sortOrder.
Before(query, x, y) ==
  \/ IF query.descending THEN x.key > y.key ELSE x.key < y.key
  \/ x.key = y.key /\ x.tour > y.tour
  \/ x.key = y.key /\ x.tour = y.tour /\ x.startDate < y.startDate
  \/ /\ x.key = y.key /\ x.tour = y.tour /\ x.startDate = y.startDate
     /\ x.sortOrder < y.sortOrder

\* The tours of a page: OFFSET and LIMIT count rows.
Page(query, limit, offset) ==
  LET sorted == SetToSortSeq(Rows(query), LAMBDA x, y : Before(query, x, y))
  IN  {sorted[i].tour : i \in DOMAIN sorted \cap (offset + 1)..(offset + limit)}

\* The total of the answer: COUNT(DISTINCT tour.id).
Total(query) == Cardinality({tourTimes[t].tour : t \in PublicTimes(query)})

-----------------------------------------------------------------------------
\* The departures of a tour were validated when they were submitted.
Init ==
  /\ StoreInit
  /\ \A tour \in Tour :
       NoOverlaps(tourTimes, {t \in DOMAIN tourTimes : tourTimes[t].tour = tour})
  /\ pictures \in [Tour -> 0..MaxImages]

Next == (Tick \/ CloseStartedTourTimes) /\ UNCHANGED pictures

Spec == Init /\ [][Next]_vars

-----------------------------------------------------------------------------
(* Properties *)

\* docs/tour-schedules.md: the list "returns paginated tours", limit of them at
\* a time, so no page holds fewer unless fewer are left.  A tour with two
\* departures or two images takes two places of a page and is on it once.
PagesAreFull ==
  \A query \in Query, limit \in 1..Cardinality(Tour), offset \in 0..Cardinality(Tour) :
    LET left == Total(query) - offset IN
      left > 0 => Cardinality(Page(query, limit, offset))
                    >= IF left < limit THEN left ELSE limit
===============================================================================
