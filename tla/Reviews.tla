------------------------------- MODULE Reviews -------------------------------
(***************************************************************************)
(* ReviewsService: a user reviews a tour that is over.  Each request is a  *)
(* process whose steps are the statements between two awaits:              *)
(*                                                                         *)
(*   create:  completed -> insert    (existsBy; the booking that must      *)
(*                                    exist; the INSERT)                   *)
(*                                                                         *)
(* Neither the booking nor the tour is locked in between.                  *)
(***************************************************************************)
EXTENDS TourStore

CONSTANT Reviewer     \* review requests in progress at the same time

VARIABLES tours,      \* rows of tours
          reviews,    \* rows of reviews: who reviewed which tour
          rev         \* the state of each request

reviewVars == <<reviews, rev>>

ReviewState == [step: {"completed", "insert"}, user: User, tour: Tour]

End(v) == rev' = [rev EXCEPT ![v] = Idle]

\* 404 for a tour that does not exist changes nothing.
FindTour(v, u, tour) ==
  /\ rev[v] = Idle
  /\ tour \in tours
  /\ rev' = [rev EXCEPT ![v] = [step |-> "completed", user |-> u, tour |-> tour]]
  /\ UNCHANGED <<storeVars, tours, reviews>>

\* A plausible bug: any booking of the user counts.
HasCompletedTour_AnyStatus(u, tour) ==
  \E b \in DOMAIN bookings :
    LET t == bookings[b].tourTime IN
      /\ bookings[b].user = u
      /\ Live(t) /\ tourTimes[t].tour = tour /\ tourTimes[t].endDate < today

\* An approved booking of a departure of the tour that ended before today.
HasCompletedTour(u, tour) ==
  \E b \in DOMAIN bookings :
    LET t == bookings[b].tourTime IN
      /\ bookings[b].user = u
      /\ bookings[b].status = "approved"
      /\ Live(t) /\ tourTimes[t].tour = tour /\ tourTimes[t].endDate < today

\* 403 without such a booking.
FindCompletedTour(v) ==
  /\ rev[v].step = "completed"
  /\ IF HasCompletedTour(rev[v].user, rev[v].tour)
     THEN rev' = [rev EXCEPT ![v].step = "insert"]
     ELSE End(v)
  /\ UNCHANGED <<storeVars, tours, reviews>>

\* The foreign key fails the INSERT when the tour is gone.
SaveReview(v) ==
  /\ rev[v].step = "insert"
  /\ reviews' = IF rev[v].tour \in tours
                THEN reviews \cup {<<rev[v].user, rev[v].tour>>} ELSE reviews
  /\ End(v)
  /\ UNCHANGED <<storeVars, tours>>

\* A statement fails: 500.
FailReview(v) ==
  /\ rev[v] # Idle
  /\ End(v)
  /\ UNCHANGED <<storeVars, tours, reviews>>

Init ==
  /\ reviews = {}
  /\ rev = [v \in Reviewer |-> Idle]

Continue(v) == FindCompletedTour(v) \/ SaveReview(v)

Next ==
  \E v \in Reviewer :
    \/ \E u \in User, tour \in Tour : FindTour(v, u, tour)
    \/ Continue(v) \/ FailReview(v)

TypeOK ==
  /\ reviews \subseteq User \X Tour
  /\ rev \in [Reviewer -> {Idle} \cup ReviewState]
  /\ \A review \in reviews : review[2] \in tours
==============================================================================
