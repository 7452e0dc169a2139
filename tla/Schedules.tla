------------------------------ MODULE Schedules ------------------------------
(***************************************************************************)
(* ToursService: admins create, edit and delete tours and their departure  *)
(* times.  Each admin request is a process whose steps are the statements  *)
(* between two awaits:                                                     *)
(*                                                                         *)
(*   update:  find -> count -> reload -> save                              *)
(*            (tourTimes.find and the validations; the booking counts; the *)
(*            rows TypeORM reads again inside save(); the UPDATEs, INSERTs *)
(*            and soft deletes with the commit)                            *)
(*   delete:  delete    (findOne and count; then DELETE with its cascade)  *)
(*   create:  one transaction that nothing can disturb                     *)
(*                                                                         *)
(* The update transaction takes no lock before it writes.                  *)
(***************************************************************************)
EXTENDS TourStore, TimeRanges

CONSTANTS Edit,        \* admin requests in progress at the same time
          NewTours,    \* bodies of POST /admin/tours: sets of Fields
          Forms        \* bodies of PUT /admin/tours/:id

VARIABLES tours,       \* rows of tours
          retired,     \* primary keys of deleted rows: never given again
          edit,        \* the state of each admin request
          raced        \* history: tours saved while another edit had read them

adminVars == <<tours, retired, edit, raced>>
scheduleVars ==
  <<tourTimes, bookings, rowLock, today, tours, retired, edit, raced>>

\* What a client submits for one time.
Fields == [startDate: Day, endDate: Day, price: Price,
           maxCapacity: 1..MaxCapacity, status: TourTimeStatus]

\* times: the submitted existing times by id; new: times without an id.
FormOK(form) ==
  /\ DOMAIN form.times \subseteq TourTimeId
  /\ form.times \in [DOMAIN form.times -> Fields]
  /\ form.new \subseteq Fields
  /\ form.deleted \subseteq TourTimeId
  /\ DOMAIN form.times # {} \/ form.new # {}

\* Keys are not bodies, so that one function has rows and new times by name.
ASSUME FormAssumption ==
  /\ \A form \in Forms : FormOK(form)
  /\ \A new \in NewTours : new \subseteq Fields
  /\ TourTimeId \cap Fields = {}

-----------------------------------------------------------------------------
(* Validations *)

ScheduleChanged(row, submitted) ==
  \/ row.startDate # submitted.startDate \/ row.endDate # submitted.endDate
  \/ row.price # submitted.price \/ row.maxCapacity # submitted.maxCapacity

Changed(row, submitted) ==
  ScheduleChanged(row, submitted) \/ row.status # submitted.status

IsCancelling(row, submitted) ==
  row.status # "cancelled" /\ submitted.status = "cancelled"

TimesOf(tour) == {t \in DOMAIN tourTimes : Live(t) /\ tourTimes[t].tour = tour}

\* validateExistingTimeIds: submitted and deleted ids are times of the tour,
\* and no id is both.
KnownIds(form, found) ==
  /\ DOMAIN form.times \cup form.deleted \subseteq DOMAIN found
  /\ DOMAIN form.times \cap form.deleted = {}

\* A plausible bug: times that were not submitted are left out of the check.
ResultingTimes_SubmittedOnly(form, found) ==
  [x \in DOMAIN form.times \cup form.new |->
     IF x \in form.new THEN x ELSE form.times[x]]

\* validateResultingTimes: the times as they will be, times nobody submitted
\* included.
ResultingTimes(form, found) ==
  LET kept == DOMAIN found \ form.deleted IN
    [x \in kept \cup form.new |->
       IF x \in form.new THEN x
       ELSE IF x \in DOMAIN form.times THEN form.times[x] ELSE found[x]]

\* A plausible bug: a cancelled time can be edited again.
ChangesAllowed_CancelledEditable(form, found) ==
  /\ \A t \in DOMAIN form.times :
       Changed(found[t], form.times[t]) => found[t].startDate > today
  /\ \A t \in form.deleted : found[t].startDate > today
  /\ \A new \in form.new : new.status # "cancelled"

\* A plausible bug: a started time can be edited again.
ChangesAllowed_StartedEditable(form, found) ==
  /\ \A t \in DOMAIN form.times :
       Changed(found[t], form.times[t]) => found[t].status # "cancelled"
  /\ \A t \in form.deleted : found[t].startDate > today
  /\ \A new \in form.new : new.status # "cancelled"

\* Started and cancelled times are not changed, started ones not deleted, and
\* no new time is cancelled.
ChangesAllowed(form, found) ==
  /\ \A t \in DOMAIN form.times : Changed(found[t], form.times[t]) =>
       found[t].startDate > today /\ found[t].status # "cancelled"
  /\ \A t \in form.deleted : found[t].startDate > today
  /\ \A new \in form.new : new.status # "cancelled"

\* A plausible bug: a cancelled time is not counted as one that changes.
MustBeUnbooked_ScheduleOnly(form, found) ==
  form.deleted \cup
    {t \in DOMAIN form.times : ScheduleChanged(found[t], form.times[t])}

\* The times whose bookings are counted: those cancelled, deleted or changed
\* in anything but their status.
MustBeUnbooked(form, found) ==
  form.deleted \cup
    {t \in DOMAIN form.times : \/ ScheduleChanged(found[t], form.times[t])
                               \/ IsCancelling(found[t], form.times[t])}

HasBookings(t) == \E b \in DOMAIN bookings : bookings[b].tourTime = t

\* TourTimeId bounds the table: new times need ids nobody else waits for.
NewTimesInProgress ==
  UNION {{<<e, n>> : n \in edit[e].form.new} :
           e \in {x \in Edit : edit[x].step \in {"count", "reload", "save"}}}
RoomForTimes(new) ==
  Cardinality(DOMAIN tourTimes \cup (retired \cap TourTimeId))
    + Cardinality(NewTimesInProgress)
    + Cardinality(new) <= Cardinality(TourTimeId)

\* Fresh primary keys for new times.
FreshIds(new) ==
  {id \in [new -> TourTimeId \ (DOMAIN tourTimes \cup retired)] :
     \A x, y \in new : id[x] = id[y] => x = y}

NewRow(tour, fields) ==
  [tour |-> tour, startDate |-> fields.startDate, endDate |-> fields.endDate,
   price |-> fields.price, maxCapacity |-> fields.maxCapacity,
   status |-> fields.status, deleted |-> FALSE]

\* The table with the rows of a function added.
InsertRows(rows, table) ==
  [t \in DOMAIN table \cup DOMAIN rows |->
     IF t \in DOMAIN rows THEN rows[t] ELSE table[t]]

-----------------------------------------------------------------------------
(* update *)

EndEdit(e) == edit' = [edit EXCEPT ![e] = Idle]

\* The requests that read the tour before now and will save it after.
OtherEdits(e, tour) ==
  {x \in Edit \ {e} : /\ edit[x].step \in {"count", "reload", "save"}
                      /\ edit[x].tour = tour}

\* The commit of an edit that others of its tour will not have seen.
NoteRace(e) ==
  raced' = IF OtherEdits(e, edit[e].tour) = {} THEN raced
           ELSE raced \cup {edit[e].tour}

FindTourTimes(e, tour, form) ==
  /\ edit[e] = Idle
  /\ tour \in tours
  /\ RoomForTimes(form.new)
  /\ LET found == [t \in TimesOf(tour) |-> tourTimes[t]]
         result == ResultingTimes(form, found)
     IN  /\ KnownIds(form, found)
         /\ NoOverlaps(result, DOMAIN result)
         /\ ChangesAllowed(form, found)
         /\ edit' = [edit EXCEPT ![e] = [step |-> "count", tour |-> tour,
                                         form |-> form, found |-> found,
                                         foundOn |-> today]]
  /\ UNCHANGED <<storeVars, tours, retired, raced>>

CountBookings(e) ==
  /\ edit[e].step = "count"
  /\ IF \E t \in MustBeUnbooked(edit[e].form, edit[e].found) : HasBookings(t)
     THEN EndEdit(e)
     ELSE edit' = [edit EXCEPT ![e].step = "reload"]
  /\ UNCHANGED <<storeVars, tours, retired, raced>>

\* save() reads the rows again to find the columns it has to write.
ReloadTourTimes(e) ==
  /\ edit[e].step = "reload"
  /\ IF DOMAIN edit[e].form.times \subseteq DOMAIN tourTimes
     THEN edit' = [edit EXCEPT ![e] =
                     [step |-> "save", tour |-> edit[e].tour,
                      form |-> edit[e].form, found |-> edit[e].found,
                      foundOn |-> edit[e].foundOn,
                      loaded |-> [t \in DOMAIN edit[e].form.times |->
                                    tourTimes[t]]]]
     ELSE EndEdit(e)     \* the rows are gone: the foreign key rejects an INSERT
  /\ UNCHANGED <<storeVars, tours, retired, raced>>

\* The columns in which the entity differs from what was reloaded are
\* written; the others keep what the table has by then.  A price is submitted
\* as the text "10" and read as "10.00", so it always differs.  The entity was
\* read not deleted, so that a soft delete in between is written over too.
Written(t, state) ==
  LET entity == NewRow(state.tour, state.form.times[t])
  IN  [column \in DOMAIN entity |->
         IF column = "price" \/ entity[column] # state.loaded[t][column]
         THEN entity[column] ELSE tourTimes[t][column]]

Deleted(t) == [tourTimes[t] EXCEPT !.deleted = TRUE]

\* The rows the transaction writes: all that were submitted, for their price,
\* but not those that are gone.
WrittenIds(state) ==
  (DOMAIN tourTimes) \cap (state.form.deleted \cup DOMAIN state.form.times)

SavedRows(state) ==
  [t \in WrittenIds(state) |->
     IF t \in state.form.deleted THEN Deleted(t) ELSE Written(t, state)]

\* The constraint CHK_tour_times_date_range, which two edits that write
\* different columns of a row can fail between them.
RangesValid(rows) == \A t \in DOMAIN rows : rows[t].startDate <= rows[t].endDate

SaveTourTimes(e) ==
  /\ edit[e].step = "save"
  /\ edit[e].tour \in tours
  /\ LET form == edit[e].form
         rows == SavedRows(edit[e])
     IN  /\ \A t \in DOMAIN rows : rowLock[t] = NoRequest
         /\ RangesValid(rows)
         /\ \E id \in FreshIds(form.new) :
              LET inserted == [t \in {id[n] : n \in form.new} |->
                                 NewRow(edit[e].tour,
                                        CHOOSE n \in form.new : id[n] = t)]
              IN  tourTimes' = InsertRows(inserted, InsertRows(rows, tourTimes))
  /\ NoteRace(e)
  /\ EndEdit(e)
  /\ UNCHANGED <<bookings, rowLock, today, tours, retired>>

SaveInvalidRanges(e) ==
  /\ edit[e].step = "save"
  /\ ~RangesValid(SavedRows(edit[e]))
  /\ EndEdit(e)
  /\ UNCHANGED <<storeVars, tours, retired, raced>>

\* The tour was deleted meanwhile: the foreign key of a new time fails the
\* transaction; without a new time the UPDATEs find no row, and the save of
\* the tour inserts it again.
SaveDeletedTour(e) ==
  /\ edit[e].step = "save"
  /\ edit[e].tour \notin tours
  /\ IF edit[e].form.new = {} /\ edit[e].form.deleted = {}
     THEN tours' = tours \cup {edit[e].tour} /\ NoteRace(e)
     ELSE UNCHANGED <<tours, raced>>
  /\ EndEdit(e)
  /\ UNCHANGED <<storeVars, retired>>

-----------------------------------------------------------------------------
(* create and delete *)

CreateTour(e, tour, new) ==
  /\ edit[e] = Idle
  /\ tour \in Tour \ (tours \cup retired)
  /\ RoomForTimes(new)
  /\ LET opened == {[fields EXCEPT !.status = "open"] : fields \in new} IN
       /\ NoOverlaps([x \in opened |-> x], opened)
       /\ \E id \in FreshIds(opened) :
            tourTimes' = InsertRows([t \in {id[n] : n \in opened} |->
                             NewRow(tour, CHOOSE n \in opened : id[n] = t)],
                           tourTimes)
  /\ tours' = tours \cup {tour}
  /\ UNCHANGED <<bookings, rowLock, today, retired, edit, raced>>

RowsOf(tour) == {t \in DOMAIN tourTimes : tourTimes[t].tour = tour}

\* A booking counts only through a time that is not soft-deleted.
FindTourToDelete(e, tour) ==
  /\ edit[e] = Idle
  /\ tour \in tours
  /\ \A t \in TimesOf(tour) : ~HasBookings(t)
  /\ edit' = [edit EXCEPT ![e] = [step |-> "delete", tour |-> tour]]
  /\ UNCHANGED <<storeVars, tours, retired, raced>>

\* A plausible bug: no ON DELETE CASCADE from tours to tour_times.
DeleteTour_NoCascade(e) ==
  /\ edit[e].step = "delete"
  /\ tours' = tours \ {edit[e].tour}
  /\ retired' = retired \cup {edit[e].tour}
  /\ EndEdit(e)
  /\ UNCHANGED <<storeVars, raced>>

\* A plausible bug: the times are deleted and the tour is kept.
DeleteTour_TimesOnly(e) ==
  /\ edit[e].step = "delete"
  /\ \A t \in RowsOf(edit[e].tour) : rowLock[t] = NoRequest
  /\ tourTimes' = [t \in (DOMAIN tourTimes) \ RowsOf(edit[e].tour) |->
                     tourTimes[t]]
  /\ retired' = retired \cup RowsOf(edit[e].tour)
  /\ EndEdit(e)
  /\ UNCHANGED <<bookings, rowLock, today, tours, raced>>

\* A plausible bug: no foreign key keeps the rows that bookings refer to.
DeleteTour_NoForeignKey(e) ==
  /\ edit[e].step = "delete"
  /\ \A t \in RowsOf(edit[e].tour) : rowLock[t] = NoRequest
  /\ tourTimes' = [t \in (DOMAIN tourTimes) \ RowsOf(edit[e].tour) |->
                     tourTimes[t]]
  /\ tours' = tours \ {edit[e].tour}
  /\ retired' = retired \cup {edit[e].tour} \cup RowsOf(edit[e].tour)
  /\ EndEdit(e)
  /\ UNCHANGED <<bookings, rowLock, today, raced>>

\* DELETE cascades to the times, waits for their locks, and fails as a whole
\* when a booking refers to one of them.
DeleteTour(e) ==
  /\ edit[e].step = "delete"
  /\ \A t \in RowsOf(edit[e].tour) : rowLock[t] = NoRequest
  /\ IF \E t \in RowsOf(edit[e].tour) : HasBookings(t)
     THEN UNCHANGED <<tourTimes, tours, retired>>
     ELSE /\ tourTimes' = [t \in (DOMAIN tourTimes) \ RowsOf(edit[e].tour) |->
                             tourTimes[t]]
          /\ tours' = tours \ {edit[e].tour}
          /\ retired' = retired \cup {edit[e].tour} \cup RowsOf(edit[e].tour)
  /\ EndEdit(e)
  /\ UNCHANGED <<bookings, rowLock, today, raced>>

\* A statement fails: the transaction leaves nothing.
FailEdit(e) ==
  /\ edit[e] # Idle
  /\ EndEdit(e)
  /\ UNCHANGED <<storeVars, tours, retired, raced>>

-----------------------------------------------------------------------------
ScheduleInit ==
  /\ StoreInit
  /\ tours = {tourTimes[t].tour : t \in DOMAIN tourTimes}
  /\ \A tour \in tours : NoOverlaps(tourTimes, TimesOf(tour))
  /\ retired = {}
  /\ edit = [e \in Edit |-> Idle]
  /\ raced = {}

Submit(e) ==
  \/ \E tour \in Tour, form \in Forms : FindTourTimes(e, tour, form)
  \/ \E tour \in Tour, new \in NewTours : CreateTour(e, tour, new)
  \/ \E tour \in Tour : FindTourToDelete(e, tour)

Continue(e) ==
  \/ CountBookings(e) \/ ReloadTourTimes(e) \/ SaveTourTimes(e)
  \/ SaveInvalidRanges(e) \/ SaveDeletedTour(e) \/ DeleteTour(e)

EditStep == \E e \in Edit : Submit(e) \/ Continue(e) \/ FailEdit(e)

ScheduleBackground == (Tick \/ CloseStartedTourTimes) /\ UNCHANGED adminVars

ScheduleNext == EditStep \/ ScheduleBackground

ScheduleSpec == ScheduleInit /\ [][ScheduleNext]_scheduleVars

-----------------------------------------------------------------------------
(* Properties *)

\* The state of a request that updates a tour.
UpdateTyped(state) ==
  /\ state.tour \in Tour
  /\ state.form \in Forms
  /\ DOMAIN state.found \subseteq TourTimeId
  /\ state.found \in [DOMAIN state.found -> TourTime]
  /\ KnownIds(state.form, state.found)
  /\ state.foundOn \in Day
  /\ state.step = "save" =>
       state.loaded \in [DOMAIN state.form.times -> TourTime]

ScheduleTypeOK ==
  /\ StoreTypeOK
  /\ tours \subseteq Tour
  /\ retired \subseteq Tour \cup TourTimeId
  /\ raced \subseteq Tour
  /\ DOMAIN edit = Edit
  /\ \A e \in Edit :
       \/ edit[e] = Idle
       \/ edit[e].step = "delete" /\ edit[e].tour \in Tour
       \/ /\ edit[e].step \in {"count", "reload", "save"}
          /\ UpdateTyped(edit[e])
  /\ \A t \in DOMAIN tourTimes : tourTimes[t].tour \in tours

\* The columns an admin submits, and the soft delete; the daily job may close
\* an open departure at any time.
SameSchedule(x, y) ==
  /\ ~ScheduleChanged(x, y)
  /\ x.deleted = y.deleted
  /\ x.status = y.status \/ <<x.status, y.status>> = <<"open", "closed">>

\* As long as no other edit of the tour commits in between, an edit works on
\* the times as they are: all of them, and none that changed.
EditSeesCurrentTimes ==
  \A e \in Edit :
    /\ edit[e].step \in {"count", "reload", "save"}
    /\ edit[e].tour \in tours \ raced
    => /\ DOMAIN edit[e].found = TimesOf(edit[e].tour)
       /\ \A t \in DOMAIN edit[e].found :
            SameSchedule(edit[e].found[t], tourTimes[t])

\* The times of a tour never overlap, unless two edits of it overlapped:
\* nothing keeps two edits that each add a time from validating before either
\* saves.
NoOverlapUnlessRaced ==
  \A tour \in tours \ raced : NoOverlaps(tourTimes, TimesOf(tour))

\* A cancelled time stays as it is, unless two edits of its tour overlapped:
\* an edit that read it before writes it open again.
CancelledIsFinal ==
  [][\A t \in DOMAIN tourTimes :
       /\ tourTimes[t].status = "cancelled"
       /\ tourTimes[t].tour \notin raced'
       => \/ t \notin DOMAIN tourTimes'
          \/ /\ tourTimes'[t].status = "cancelled"
             /\ ~ScheduleChanged(tourTimes[t], tourTimes'[t])]_scheduleVars

\* A started departure changes, but for the job that closes it, only when
\* midnight passed while an edit was under way: the edit found it before its
\* start, or it found it open and undoes its closing.  Or two edits raced.
StartedIsFinal ==
  [][\A t \in DOMAIN tourTimes :
       /\ Started(t)
       /\ tourTimes[t].tour \notin raced'
       => \/ t \notin DOMAIN tourTimes'
          \/ SameSchedule(tourTimes[t], tourTimes'[t])
          \/ \E e \in Edit :
               /\ edit[e].step = "save" /\ t \in DOMAIN edit[e].found
               /\ LET found == edit[e].found[t] IN
                    \/ found.startDate > edit[e].foundOn
                    \/ /\ found.status = "open"
                       /\ tourTimes'[t] =
                            [tourTimes[t] EXCEPT !.status = "open"]]_scheduleVars
=============================================================================
