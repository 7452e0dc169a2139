--------------------------- MODULE SchedulesProofs ---------------------------
(* Theorems about Schedules: what an edit validated still holds when it saves. *)
EXTENDS Schedules, TLAPS

Updating(e) == edit[e].step \in {"count", "reload", "save"}

\* The tour an edit found is there or deleted for good, and so are its rows.
FoundIsKept ==
  \A e \in Edit : Updating(e) =>
    /\ edit[e].tour \in tours \cup retired
    /\ \A t \in DOMAIN edit[e].found :
         IF t \in DOMAIN tourTimes THEN tourTimes[t].tour = edit[e].tour
         ELSE t \in retired

\* What an edit has validated when it found the times.
Validated(form, found, day) ==
  LET result == ResultingTimes(form, found)
  IN  /\ NoOverlaps(result, DOMAIN result)
      /\ \A t \in DOMAIN found : ~found[t].deleted
      /\ \A t \in DOMAIN form.times : Changed(found[t], form.times[t]) =>
           found[t].startDate > day /\ found[t].status # "cancelled"
      /\ \A t \in form.deleted : found[t].startDate > day
      /\ \A new \in form.new : new.status # "cancelled"

FoundIsValidated ==
  \A e \in Edit : Updating(e) =>
    Validated(edit[e].form, edit[e].found, edit[e].foundOn)

\* What save() loaded lies between what was found and what is there.
LoadedIsCurrent ==
  \A e \in Edit :
    /\ edit[e].step = "save"
    /\ edit[e].tour \in tours \ raced
    => \A t \in DOMAIN edit[e].form.times :
         /\ SameSchedule(edit[e].found[t], edit[e].loaded[t])
         /\ SameSchedule(edit[e].loaded[t], tourTimes[t])

ScheduleInv ==
  /\ ScheduleTypeOK
  /\ FoundIsKept
  /\ FoundIsValidated
  /\ EditSeesCurrentTimes
  /\ LoadedIsCurrent
  /\ NoOverlapUnlessRaced

-----------------------------------------------------------------------------
(* Rows *)

LEMMA UpdateState ==
  ASSUME ScheduleTypeOK, NEW e \in Edit, Updating(e)
  PROVE  /\ UpdateTyped(edit[e])
         /\ FormOK(edit[e].form)
         /\ edit[e] # Idle
BY FormAssumption DEF ScheduleTypeOK, Updating, Idle, UpdateTyped

LEMMA NewRowTyped ==
  ASSUME NEW tour \in Tour, NEW fields \in Fields
  PROVE  /\ NewRow(tour, fields) \in TourTime
         /\ NewRow(tour, fields).tour = tour
         /\ ~NewRow(tour, fields).deleted
         /\ ~ScheduleChanged(NewRow(tour, fields), fields)
         /\ NewRow(tour, fields).status = fields.status
BY DEF NewRow, Fields, TourTime, ScheduleChanged

\* The row an UPDATE leaves has the entity's price, each other column of the
\* entity that differs from what was loaded, and the table's column otherwise.
LEMMA WrittenRow ==
  ASSUME NEW t, NEW state, tourTimes[t] \in TourTime,
         state.loaded[t] \in TourTime,
         state.tour \in Tour, state.form.times[t] \in Fields
  PROVE  LET entity == NewRow(state.tour, state.form.times[t])
             pick(x, y, z) == IF x # y THEN x ELSE z
             loaded == state.loaded[t]
             row == tourTimes[t]
         IN  Written(t, state) =
               [tour |-> pick(entity.tour, loaded.tour, row.tour),
                startDate |-> pick(entity.startDate, loaded.startDate, row.startDate),
                endDate |-> pick(entity.endDate, loaded.endDate, row.endDate),
                price |-> entity.price,
                maxCapacity |-> pick(entity.maxCapacity, loaded.maxCapacity,
                                     row.maxCapacity),
                status |-> pick(entity.status, loaded.status, row.status),
                deleted |-> pick(entity.deleted, loaded.deleted, row.deleted)]
<1> DEFINE entity == NewRow(state.tour, state.form.times[t])
           loaded == state.loaded[t]
           row == tourTimes[t]
           pick(x, y, z) == IF x # y THEN x ELSE z
           written(c) == IF c = "price" \/ entity[c] # loaded[c] THEN entity[c]
                         ELSE row[c]
           columns == {"tour", "startDate", "endDate", "price", "maxCapacity",
                       "status", "deleted"}
<1>1. DOMAIN entity = columns
  BY DEF NewRow
<1>2. Written(t, state) =
        [c \in columns |-> written(c)]
  BY <1>1 DEF Written
<1>3. ASSUME NEW f, f = [c \in columns |-> written(c)]
      PROVE  f = [tour |-> pick(entity.tour, loaded.tour, row.tour),
                startDate |-> pick(entity.startDate, loaded.startDate, row.startDate),
                endDate |-> pick(entity.endDate, loaded.endDate, row.endDate),
                price |-> entity.price,
                maxCapacity |-> pick(entity.maxCapacity, loaded.maxCapacity,
                                     row.maxCapacity),
                status |-> pick(entity.status, loaded.status, row.status),
                deleted |-> pick(entity.deleted, loaded.deleted, row.deleted)]
  <2> HIDE DEF entity, loaded, row
  <2> QED
    BY <1>3
<1> QED
  BY <1>2, <1>3

\* The rows of new times: one for each, under keys that were never used.
Inserted(tour, new, id) ==
  [t \in {id[n] : n \in new} |-> NewRow(tour, CHOOSE n \in new : id[n] = t)]

LEMMA InsertedRows ==
  ASSUME NEW new, NEW tour, NEW id \in FreshIds(new)
  PROVE  LET rows == Inserted(tour, new, id) IN
         /\ DOMAIN rows = {id[n] : n \in new}
         /\ DOMAIN rows \subseteq TourTimeId \ (DOMAIN tourTimes \cup retired)
         /\ \A n \in new : rows[id[n]] = NewRow(tour, n)
         /\ \A m, n \in new : id[m] = id[n] => m = n
<1>1. /\ \A n \in new : id[n] \in TourTimeId \ (DOMAIN tourTimes \cup retired)
      /\ \A m, n \in new : id[m] = id[n] => m = n
  BY DEF FreshIds
<1>2. ASSUME NEW n \in new
      PROVE  Inserted(tour, new, id)[id[n]] = NewRow(tour, n)
  <2>1. (CHOOSE m \in new : id[m] = id[n]) = n
    BY <1>1
  <2> QED
    BY <2>1 DEF Inserted
<1> QED
  BY <1>1, <1>2 DEF Inserted

\* What SaveTourTimes does to each row.
SavedTable(e, id) ==
  LET form == edit[e].form
      new == {id[n] : n \in form.new}
  IN  /\ tourTimes' = [t \in DOMAIN tourTimes \cup new |-> tourTimes'[t]]
      /\ new \subseteq TourTimeId \ (DOMAIN tourTimes \cup retired)
      /\ \A m, n \in form.new : id[m] = id[n] => m = n
      /\ \A n \in form.new : tourTimes'[id[n]] = NewRow(edit[e].tour, n)
      /\ \A t \in DOMAIN tourTimes :
           tourTimes'[t] = IF t \notin WrittenIds(edit[e]) THEN tourTimes[t]
                           ELSE IF t \in form.deleted THEN Deleted(t)
                           ELSE Written(t, edit[e])

LEMMA SaveEffect ==
  ASSUME NEW e \in Edit, SaveTourTimes(e)
  PROVE  \E id : SavedTable(e, id)
<1> DEFINE form == edit[e].form
           rows == SavedRows(edit[e])
           New(id) == Inserted(edit[e].tour, form.new, id)
<1>1. PICK id \in FreshIds(form.new) :
        tourTimes' = InsertRows(New(id), InsertRows(rows, tourTimes))
  BY DEF SaveTourTimes, Inserted
<1>2. /\ DOMAIN New(id) = {id[n] : n \in form.new}
      /\ DOMAIN New(id) \subseteq TourTimeId \ (DOMAIN tourTimes \cup retired)
      /\ \A n \in form.new : New(id)[id[n]] = NewRow(edit[e].tour, n)
      /\ \A m, n \in form.new : id[m] = id[n] => m = n
  <2> DEFINE tour == edit[e].tour
             new == form.new
  <2>1. id \in FreshIds(new)
    OBVIOUS
  <2> HIDE DEF tour, new
  <2>2. LET inserted == Inserted(tour, new, id) IN
         /\ DOMAIN inserted = {id[n] : n \in new}
         /\ DOMAIN inserted \subseteq TourTimeId \ (DOMAIN tourTimes \cup retired)
         /\ \A n \in new : inserted[id[n]] = NewRow(tour, n)
         /\ \A m, n \in new : id[m] = id[n] => m = n
    BY <2>1, InsertedRows
  <2> QED
    BY <2>2 DEF tour, new
<1>3. /\ DOMAIN rows = WrittenIds(edit[e])
      /\ DOMAIN rows \subseteq DOMAIN tourTimes
      /\ \A t \in DOMAIN rows :
           rows[t] = IF t \in form.deleted THEN Deleted(t) ELSE Written(t, edit[e])
  BY DEF SavedRows, WrittenIds
<1> HIDE DEF rows, New, form
<1> QED
  BY <1>1, <1>2, <1>3 DEF InsertRows, SavedTable, form

\* What CreateTour does to the table.
CreatedTable(tour, opened, id) ==
  LET new == {id[n] : n \in opened}
  IN  /\ tourTimes' = [t \in DOMAIN tourTimes \cup new |-> tourTimes'[t]]
      /\ new \subseteq TourTimeId \ (DOMAIN tourTimes \cup retired)
      /\ \A m, n \in opened : id[m] = id[n] => m = n
      /\ \A n \in opened : tourTimes'[id[n]] = NewRow(tour, n)
      /\ \A t \in DOMAIN tourTimes : tourTimes'[t] = tourTimes[t]

LEMMA CreateEffect ==
  ASSUME NEW e, NEW tour, NEW new \in NewTours, CreateTour(e, tour, new)
  PROVE  \E opened \in SUBSET Fields : \E id :
           /\ \A n \in opened : n.status = "open"
           /\ NoOverlaps([x \in opened |-> x], opened)
           /\ CreatedTable(tour, opened, id)
<1> DEFINE opened == {[fields EXCEPT !.status = "open"] : fields \in new}
           New(id) == Inserted(tour, opened, id)
<1>1. PICK id \in FreshIds(opened) : tourTimes' = InsertRows(New(id), tourTimes)
  BY DEF CreateTour, Inserted
<1>2. /\ DOMAIN New(id) = {id[n] : n \in opened}
      /\ DOMAIN New(id) \subseteq TourTimeId \ (DOMAIN tourTimes \cup retired)
      /\ \A n \in opened : New(id)[id[n]] = NewRow(tour, n)
      /\ \A m, n \in opened : id[m] = id[n] => m = n
  <2> HIDE DEF opened
  <2> QED
    BY <1>1, InsertedRows
<1>3. /\ opened \subseteq Fields
      /\ \A n \in opened : n.status = "open"
  <2>1. new \subseteq Fields
    BY FormAssumption
  <2>2. "open" \in TourTimeStatus
    BY DEF TourTimeStatus
  <2> QED
    BY <2>1, <2>2 DEF Fields
<1>4. NoOverlaps([x \in opened |-> x], opened)
  BY DEF CreateTour
<1>5. CreatedTable(tour, opened, id)
  <2> HIDE DEF opened, New
  <2> QED
    BY <1>1, <1>2 DEF InsertRows, CreatedTable
<1> QED
  BY <1>3, <1>4, <1>5

-----------------------------------------------------------------------------
(* Types *)

LEMMA ScheduleInitTyped == ScheduleInit => ScheduleTypeOK
<1> SUFFICES ASSUME ScheduleInit PROVE ScheduleTypeOK
  OBVIOUS
<1>1. StoreTypeOK
  BY StoreAssumption DEF ScheduleInit, StoreInit, StoreTypeOK, Day
<1>2. tours \subseteq Tour
  BY <1>1 DEF ScheduleInit, StoreTypeOK, TourTime
<1> QED
  BY <1>1, <1>2 DEF ScheduleInit, ScheduleTypeOK, Idle

\* A request that ends, or goes on as state.
LEMMA EditTyped ==
  ASSUME ScheduleTypeOK, NEW e \in Edit, NEW state,
         edit' = [edit EXCEPT ![e] = state],
         \/ state = Idle
         \/ state.step = "delete" /\ state.tour \in Tour
         \/ state.step \in {"count", "reload", "save"} /\ UpdateTyped(state)
  PROVE  /\ DOMAIN edit' = Edit
         /\ \A x \in Edit :
              \/ edit'[x] = Idle
              \/ edit'[x].step = "delete" /\ edit'[x].tour \in Tour
              \/ /\ edit'[x].step \in {"count", "reload", "save"}
                 /\ UpdateTyped(edit'[x])
BY DEF ScheduleTypeOK

LEMMA SavedTableTyped ==
  ASSUME ScheduleTypeOK, NEW e \in Edit, edit[e].step = "save",
         edit[e].tour \in tours,
         NEW id, SavedTable(e, id)
  PROVE  /\ DOMAIN tourTimes' \subseteq TourTimeId
         /\ tourTimes' \in [DOMAIN tourTimes' -> TourTime]
         /\ \A t \in DOMAIN tourTimes' : tourTimes'[t].tour \in tours
<1> DEFINE state == edit[e]
           form == state.form
<1>1. /\ state.tour \in Tour
      /\ form.times \in [DOMAIN form.times -> Fields] /\ form.new \subseteq Fields
      /\ state.loaded \in [DOMAIN form.times -> TourTime]
  BY UpdateState DEF Updating, UpdateTyped, FormOK
<1>2. ASSUME NEW t \in DOMAIN tourTimes
      PROVE  tourTimes'[t] \in TourTime /\ tourTimes'[t].tour \in tours
  <2>0. tourTimes[t] \in TourTime /\ tourTimes[t].tour \in tours
    BY DEF ScheduleTypeOK, StoreTypeOK
  <2>1. CASE t \notin WrittenIds(state)
    BY <2>0, <2>1 DEF SavedTable
  <2>2. CASE t \in WrittenIds(state) /\ t \in form.deleted
    <3>1. Deleted(t) \in TourTime /\ Deleted(t).tour = tourTimes[t].tour
      BY <2>0 DEF Deleted, TourTime
    <3> QED
      BY <2>0, <2>2, <3>1 DEF SavedTable
  <2>3. CASE t \in WrittenIds(state) /\ t \notin form.deleted
    <3>1. t \in DOMAIN form.times /\ tourTimes'[t] = Written(t, state)
      BY <2>3 DEF SavedTable, WrittenIds
    <3>2. /\ NewRow(state.tour, form.times[t]) \in TourTime
          /\ NewRow(state.tour, form.times[t]).tour = state.tour
      BY <1>1, <3>1, NewRowTyped
    <3>3. form.times[t] \in Fields /\ state.loaded[t] \in TourTime
      BY <1>1, <3>1
    <3> HIDE DEF form, state
    <3>4. /\ Written(t, state) \in TourTime
          /\ Written(t, state).tour \in {state.tour, tourTimes[t].tour}
      BY <1>1, <2>0, <3>2, <3>3, WrittenRow DEF TourTime, form
    <3> QED
      BY <2>0, <3>1, <3>4 DEF state
  <2> QED
    BY <2>1, <2>2, <2>3
<1>3. ASSUME NEW n \in form.new
      PROVE  tourTimes'[id[n]] \in TourTime /\ tourTimes'[id[n]].tour \in tours
  BY <1>1, <1>3, NewRowTyped DEF SavedTable
<1> QED
  BY <1>2, <1>3 DEF SavedTable, ScheduleTypeOK, StoreTypeOK

LEMMA CreatedTableTyped ==
  ASSUME ScheduleTypeOK, NEW tour \in Tour, NEW opened \in SUBSET Fields,
         NEW id,
         CreatedTable(tour, opened, id)
  PROVE  /\ DOMAIN tourTimes' \subseteq TourTimeId
         /\ tourTimes' \in [DOMAIN tourTimes' -> TourTime]
         /\ \A t \in DOMAIN tourTimes' : tourTimes'[t].tour \in tours \cup {tour}
<1>1. ASSUME NEW n \in opened
      PROVE  tourTimes'[id[n]] \in TourTime /\ tourTimes'[id[n]].tour = tour
  BY <1>1, NewRowTyped DEF CreatedTable
<1> QED
  BY <1>1 DEF CreatedTable, ScheduleTypeOK, StoreTypeOK

LEMMA ScheduleStepTyped ==
  ASSUME ScheduleTypeOK, [ScheduleNext]_scheduleVars
  PROVE  ScheduleTypeOK'
<1>1. ASSUME NEW e \in Edit, NEW tour \in Tour, NEW form \in Forms,
             FindTourTimes(e, tour, form)
      PROVE  ScheduleTypeOK'
  <2> DEFINE found == [t \in TimesOf(tour) |-> tourTimes[t]]
             state == [step |-> "count", tour |-> tour, form |-> form,
                       found |-> found, foundOn |-> today]
  <2>1. /\ DOMAIN found \subseteq TourTimeId
        /\ found \in [DOMAIN found -> TourTime]
    BY DEF ScheduleTypeOK, StoreTypeOK, TimesOf
  <2>2. edit' = [edit EXCEPT ![e] = state] /\ KnownIds(form, found)
    BY <1>1 DEF FindTourTimes
  <2>3. UpdateTyped(state)
    <3> HIDE DEF found
    <3> QED
      BY <2>1, <2>2 DEF UpdateTyped, ScheduleTypeOK, StoreTypeOK
  <2>4. state.step = "count"
    OBVIOUS
  <2> HIDE DEF state
  <2> QED
    BY <1>1, <2>2, <2>3, <2>4, EditTyped
       DEF FindTourTimes, ScheduleTypeOK, StoreTypeOK, storeVars
<1>2. ASSUME NEW e \in Edit, CountBookings(e)
      PROVE  ScheduleTypeOK'
  <2>1. CASE edit' = [edit EXCEPT ![e] = Idle]
    BY <1>2, <2>1, EditTyped
         DEF CountBookings, ScheduleTypeOK, StoreTypeOK, storeVars
  <2>2. CASE edit' = [edit EXCEPT ![e].step = "reload"]
    <3> DEFINE state == [edit[e] EXCEPT !.step = "reload"]
    <3>1. UpdateTyped(edit[e]) /\ edit[e].step = "count"
      BY <1>2, UpdateState DEF CountBookings, Updating
    <3>2. UpdateTyped(state) /\ state.step = "reload"
      BY <3>1 DEF UpdateTyped
    <3>3. edit' = [edit EXCEPT ![e] = state]
      BY <2>2
    <3> HIDE DEF state
    <3> QED
      BY <1>2, <3>2, <3>3, EditTyped
           DEF CountBookings, ScheduleTypeOK, StoreTypeOK, storeVars
  <2> QED
    BY <1>2, <2>1, <2>2 DEF CountBookings, EndEdit
<1>3. ASSUME NEW e \in Edit, ReloadTourTimes(e)
      PROVE  ScheduleTypeOK'
  <2>1. CASE edit' = [edit EXCEPT ![e] = Idle]
    BY <1>3, <2>1, EditTyped
         DEF ReloadTourTimes, ScheduleTypeOK, StoreTypeOK, storeVars
  <2>2. CASE DOMAIN edit[e].form.times \subseteq DOMAIN tourTimes
    <3> DEFINE state == [step |-> "save", tour |-> edit[e].tour,
                      form |-> edit[e].form, found |-> edit[e].found,
                      foundOn |-> edit[e].foundOn,
                      loaded |-> [t \in DOMAIN edit[e].form.times |->
                                    tourTimes[t]]]
    <3>1. UpdateTyped(edit[e])
      BY <1>3, UpdateState DEF ReloadTourTimes, Updating
    <3>2. UpdateTyped(state) /\ state.step = "save"
      BY <2>2, <3>1 DEF UpdateTyped, ScheduleTypeOK, StoreTypeOK
    <3>3. edit' = [edit EXCEPT ![e] = state]
      BY <1>3, <2>2 DEF ReloadTourTimes
    <3> HIDE DEF state
    <3> QED
      BY <1>3, <3>2, <3>3, EditTyped
         DEF ReloadTourTimes, ScheduleTypeOK, StoreTypeOK, storeVars
  <2> QED
    BY <1>3, <2>1, <2>2 DEF ReloadTourTimes, EndEdit
<1>4. ASSUME NEW e \in Edit, SaveTourTimes(e)
      PROVE  ScheduleTypeOK'
  <2>1. PICK id : SavedTable(e, id)
    BY <1>4, SaveEffect
  <2>2. edit[e].step = "save" /\ edit[e].tour \in tours
    BY <1>4 DEF SaveTourTimes
  <2>3. edit' = [edit EXCEPT ![e] = Idle]
    BY <1>4 DEF SaveTourTimes, EndEdit
  <2>4. raced' \subseteq Tour
    BY <1>4 DEF SaveTourTimes, NoteRace, ScheduleTypeOK
  <2> QED
    BY <1>4, <2>1, <2>2, <2>3, <2>4, SavedTableTyped, EditTyped
       DEF SaveTourTimes, ScheduleTypeOK, StoreTypeOK
<1>5. ASSUME NEW e \in Edit, SaveInvalidRanges(e) \/ FailEdit(e)
      PROVE  ScheduleTypeOK'
  BY <1>5, EditTyped
       DEF SaveInvalidRanges, FailEdit, EndEdit, ScheduleTypeOK, StoreTypeOK,
           storeVars
<1>6. ASSUME NEW e \in Edit, SaveDeletedTour(e)
      PROVE  ScheduleTypeOK'
  <2>1. edit[e].tour \in Tour
    BY <1>6, UpdateState DEF SaveDeletedTour, Updating, UpdateTyped
  <2>2. /\ tours \subseteq tours' /\ tours' \subseteq Tour
        /\ raced' \subseteq Tour
    BY <1>6, <2>1 DEF SaveDeletedTour, NoteRace, ScheduleTypeOK
  <2> QED
    BY <1>6, <2>2, EditTyped
         DEF SaveDeletedTour, EndEdit, ScheduleTypeOK, StoreTypeOK, storeVars
<1>7. ASSUME NEW e \in Edit, NEW tour \in Tour, NEW new \in NewTours,
             CreateTour(e, tour, new)
      PROVE  ScheduleTypeOK'
  <2>1. PICK opened \in SUBSET Fields : \E id : CreatedTable(tour, opened, id)
    BY <1>7, CreateEffect
  <2> QED
    BY <1>7, <2>1, CreatedTableTyped DEF CreateTour, ScheduleTypeOK, StoreTypeOK
<1>8. ASSUME NEW e \in Edit, NEW tour \in Tour, FindTourToDelete(e, tour)
      PROVE  ScheduleTypeOK'
  <2>1. edit' = [edit EXCEPT ![e] = [step |-> "delete", tour |-> tour]]
    BY <1>8 DEF FindTourToDelete
  <2>2. /\ DOMAIN edit' = Edit
        /\ \A x \in Edit :
              \/ edit'[x] = Idle
              \/ edit'[x].step = "delete" /\ edit'[x].tour \in Tour
              \/ /\ edit'[x].step \in {"count", "reload", "save"}
                 /\ UpdateTyped(edit'[x])
    BY <2>1, EditTyped
  <2> QED
    BY <1>8, <2>2 DEF FindTourToDelete, ScheduleTypeOK, StoreTypeOK, storeVars
<1>9. ASSUME NEW e \in Edit, DeleteTour(e)
      PROVE  ScheduleTypeOK'
  <2>1. edit[e].tour \in Tour /\ edit' = [edit EXCEPT ![e] = Idle]
    BY <1>9 DEF DeleteTour, EndEdit, ScheduleTypeOK, Idle
  <2>2. /\ DOMAIN tourTimes' \subseteq TourTimeId
        /\ tourTimes' \in [DOMAIN tourTimes' -> TourTime]
        /\ \A t \in DOMAIN tourTimes' : tourTimes'[t].tour \in tours'
        /\ tours' \subseteq Tour /\ retired' \subseteq Tour \cup TourTimeId
    BY <1>9, <2>1 DEF DeleteTour, RowsOf, ScheduleTypeOK, StoreTypeOK
  <2> QED
    BY <1>9, <2>1, <2>2, EditTyped DEF DeleteTour, ScheduleTypeOK, StoreTypeOK
<1>10. CASE ScheduleBackground
  <2>1. CASE Tick
    BY <1>10, <2>1, StoreAssumption
       DEF ScheduleBackground, Tick, ScheduleTypeOK, StoreTypeOK, Day,
           UpdateTyped, adminVars
  <2>2. CASE CloseStartedTourTimes
    BY <1>10, <2>2
         DEF ScheduleBackground, CloseStartedTourTimes, ToClose, ScheduleTypeOK,
       StoreTypeOK, TourTime, TourTimeStatus, adminVars
  <2> QED
    BY <1>10, <2>1, <2>2 DEF ScheduleBackground
<1>11. CASE UNCHANGED scheduleVars
  BY <1>11 DEF scheduleVars, ScheduleTypeOK, StoreTypeOK
<1> QED
  BY <1>1, <1>2, <1>3, <1>4, <1>5, <1>6, <1>7, <1>8, <1>9, <1>10, <1>11
     DEF ScheduleNext, EditStep, Submit, Continue

\* Rows, forms and requests keep their types, and every departure has its tour.
THEOREM ScheduleTypeCorrect == ScheduleSpec => []ScheduleTypeOK
BY ScheduleInitTyped, ScheduleStepTyped, PTL DEF ScheduleSpec

-----------------------------------------------------------------------------
(* Rows keep their tour *)

\* An edit writes no row of another tour, and no row to another tour.
LEMMA SavedRow ==
  ASSUME ScheduleTypeOK, FoundIsKept, NEW e \in Edit, edit[e].step = "save",
         NEW id, SavedTable(e, id), NEW t \in DOMAIN tourTimes
  PROVE  /\ tourTimes'[t].tour = tourTimes[t].tour
         /\ tourTimes[t].tour # edit[e].tour => tourTimes'[t] = tourTimes[t]
<1> DEFINE state == edit[e]
<1>1. /\ UpdateTyped(state) /\ FormOK(state.form)
      /\ DOMAIN state.form.times \cup state.form.deleted \subseteq DOMAIN state.found
      /\ state.tour \in Tour
  BY UpdateState DEF Updating, UpdateTyped, KnownIds
<1>2. CASE t \notin WrittenIds(state)
  BY <1>2 DEF SavedTable
<1>3. CASE t \in WrittenIds(state)
  <2>1. tourTimes[t].tour = state.tour
    BY <1>1, <1>3 DEF WrittenIds, FoundIsKept, Updating
  <2>2. CASE t \in state.form.deleted
    BY <1>3, <2>1, <2>2
         DEF SavedTable, Deleted, ScheduleTypeOK, StoreTypeOK, TourTime
  <2>3. CASE t \notin state.form.deleted
    <3>1. t \in DOMAIN state.form.times /\ tourTimes'[t] = Written(t, state)
      BY <1>3, <2>3 DEF SavedTable, WrittenIds
    <3>2. state.form.times[t] \in Fields /\ state.loaded[t] \in TourTime
      BY <1>1, <3>1 DEF UpdateTyped, FormOK
    <3>3. tourTimes[t] \in TourTime
      BY DEF ScheduleTypeOK, StoreTypeOK
    <3>4. NewRow(state.tour, state.form.times[t]).tour = state.tour
      BY DEF NewRow
    <3> HIDE DEF state
    <3> QED
      BY <1>1, <2>1, <3>1, <3>2, <3>3, <3>4, WrittenRow DEF state
  <2> QED
    BY <2>1, <2>2, <2>3
<1> QED
  BY <1>2, <1>3

\* A departure stays with its tour as long as it is there.
LEMMA RowKeepsTour ==
  ASSUME ScheduleTypeOK, FoundIsKept, [ScheduleNext]_scheduleVars,
         NEW t \in DOMAIN tourTimes, t \in DOMAIN tourTimes'
  PROVE  tourTimes'[t].tour = tourTimes[t].tour
<1>1. ASSUME NEW e \in Edit, SaveTourTimes(e)
      PROVE  tourTimes'[t].tour = tourTimes[t].tour
  BY <1>1, SaveEffect, SavedRow DEF SaveTourTimes
<1>2. ASSUME NEW e \in Edit, NEW tour \in Tour, NEW new \in NewTours,
             CreateTour(e, tour, new)
      PROVE  tourTimes'[t].tour = tourTimes[t].tour
  BY <1>2, CreateEffect DEF CreatedTable
<1>3. ASSUME NEW e \in Edit, DeleteTour(e)
      PROVE  tourTimes'[t].tour = tourTimes[t].tour
  BY <1>3 DEF DeleteTour
<1>4. CASE ScheduleBackground
  BY <1>4 DEF ScheduleBackground, Tick, CloseStartedTourTimes, ScheduleTypeOK,
              StoreTypeOK, TourTime
<1>5. CASE UNCHANGED tourTimes
  BY <1>5
<1> QED
  BY <1>1, <1>2, <1>3, <1>4, <1>5
     DEF ScheduleNext, EditStep, Submit, Continue, FindTourTimes, CountBookings,
         ReloadTourTimes, SaveInvalidRanges, SaveDeletedTour, FindTourToDelete,
         FailEdit, storeVars, scheduleVars

\* Nothing but the daily job touches the departures of a tour.
TimesAfter(tour) ==
  {t \in DOMAIN tourTimes' : ~tourTimes'[t].deleted /\ tourTimes'[t].tour = tour}

Frame(tour) ==
  /\ TimesAfter(tour) = TimesOf(tour)
  /\ \A t \in TimesOf(tour) : SameSchedule(tourTimes[t], tourTimes'[t])

\* Only edits of a tour change its departures.
LEMMA StepFrame ==
  ASSUME ScheduleTypeOK, FoundIsKept, [ScheduleNext]_scheduleVars,
         NEW tour \in tours, tour \in tours',
         \A e \in Edit : SaveTourTimes(e) => edit[e].tour # tour
  PROVE  Frame(tour)
<1>1. ASSUME NEW e \in Edit, SaveTourTimes(e)
      PROVE  Frame(tour)
  <2>1. PICK id : SavedTable(e, id)
    BY <1>1, SaveEffect
  <2>2. edit[e].tour # tour /\ edit[e].step = "save"
    BY <1>1 DEF SaveTourTimes
  <2>3. \A t \in DOMAIN tourTimes : 
          /\ tourTimes'[t].tour = tourTimes[t].tour
          /\ tourTimes[t].tour # edit[e].tour => tourTimes'[t] = tourTimes[t]
    BY <2>1, <2>2, SavedRow
  <2>4. ASSUME NEW t \in DOMAIN tourTimes'
        PROVE  t \in DOMAIN tourTimes \/ tourTimes'[t].tour = edit[e].tour
    <3>1. DOMAIN tourTimes' = DOMAIN tourTimes \cup {id[n] : n \in edit[e].form.new}
      BY <2>1 DEF SavedTable
    <3>2. \A n \in edit[e].form.new : tourTimes'[id[n]].tour = edit[e].tour
      <4>1. \A n : NewRow(edit[e].tour, n).tour = edit[e].tour
        BY DEF NewRow
      <4> QED
        BY <2>1, <4>1 DEF SavedTable
    <3> QED
      BY <3>1, <3>2
  <2>5. DOMAIN tourTimes \subseteq DOMAIN tourTimes'
    BY <2>1 DEF SavedTable
  <2> QED
    BY <2>2, <2>3, <2>4, <2>5
         DEF Frame, TimesAfter, TimesOf, Live, SameSchedule, ScheduleChanged
<1>2. ASSUME NEW e \in Edit, NEW new \in NewTours, NEW created \in Tour,
             CreateTour(e, created, new)
      PROVE  Frame(tour)
  <2>1. PICK opened, id : CreatedTable(created, opened, id)
    BY <1>2, CreateEffect
  <2>2. created # tour
    BY <1>2 DEF CreateTour
  <2>3. ASSUME NEW t \in DOMAIN tourTimes'
        PROVE  t \in DOMAIN tourTimes \/ tourTimes'[t].tour = created
    <3>1. DOMAIN tourTimes' = DOMAIN tourTimes \cup {id[n] : n \in opened}
      BY <2>1 DEF CreatedTable
    <3>2. \A n \in opened : tourTimes'[id[n]].tour = created
      <4>1. \A n : NewRow(created, n).tour = created
        BY DEF NewRow
      <4> QED
        BY <2>1, <4>1 DEF CreatedTable
    <3> QED
      BY <3>1, <3>2
  <2>4. /\ DOMAIN tourTimes \subseteq DOMAIN tourTimes'
        /\ \A t \in DOMAIN tourTimes : tourTimes'[t] = tourTimes[t]
    BY <2>1 DEF CreatedTable
  <2> QED
    BY <2>2, <2>3, <2>4
         DEF Frame, TimesAfter, TimesOf, Live, SameSchedule, ScheduleChanged
<1>3. ASSUME NEW e \in Edit, DeleteTour(e)
      PROVE  Frame(tour)
  BY <1>3 DEF DeleteTour, RowsOf, Frame, TimesAfter, TimesOf, Live,
              SameSchedule, ScheduleChanged
<1>4. CASE CloseStartedTourTimes
  BY <1>4 DEF CloseStartedTourTimes, ToClose, Frame, TimesAfter, TimesOf, Live,
              SameSchedule,
     ScheduleChanged, ScheduleTypeOK, StoreTypeOK, TourTime
<1>5. CASE UNCHANGED tourTimes
  BY <1>5 DEF Frame, TimesAfter, TimesOf, Live, SameSchedule, ScheduleChanged
<1> QED
  BY <1>1, <1>2, <1>3, <1>4, <1>5
     DEF ScheduleNext, EditStep, Submit, Continue, FindTourTimes, CountBookings,
         ReloadTourTimes, SaveInvalidRanges, SaveDeletedTour, FindTourToDelete,
         FailEdit, ScheduleBackground, Tick, storeVars, scheduleVars

LEMMA SameScheduleTransitive ==
  ASSUME NEW x, NEW y, NEW z, SameSchedule(x, y), SameSchedule(y, z)
  PROVE  SameSchedule(x, z)
BY DEF SameSchedule, ScheduleChanged

-----------------------------------------------------------------------------
(* What an edit has found *)

\* A step of the service starts an edit, moves it on, or ends it.
LEMMA EditOrigin ==
  ASSUME ScheduleTypeOK, [ScheduleNext]_scheduleVars, NEW e \in Edit,
         Updating(e)'
  PROVE  \/ \E tour \in Tour, form \in Forms : FindTourTimes(e, tour, form)
         \/ /\ Updating(e)
            /\ edit'[e].tour = edit[e].tour
            /\ edit'[e].form = edit[e].form
            /\ edit'[e].found = edit[e].found
            /\ edit'[e].foundOn = edit[e].foundOn
            /\ \/ edit'[e] = edit[e]
               \/ edit'[e].step = "reload" /\ CountBookings(e)
               \/ ReloadTourTimes(e)
<1>0. DOMAIN edit = Edit
  BY DEF ScheduleTypeOK
<1>1. ASSUME NEW x \in Edit, NEW tour \in Tour, NEW form \in Forms,
             FindTourTimes(x, tour, form), x # e
      PROVE  edit'[e] = edit[e]
  BY <1>1 DEF FindTourTimes
<1>2. ASSUME NEW x \in Edit, CountBookings(x), edit'[e] # edit[e]
      PROVE  /\ x = e
             /\ edit' = [edit EXCEPT ![e].step = "reload"]
  BY <1>0, <1>2 DEF CountBookings, EndEdit, Updating, Idle
<1>3. ASSUME NEW x \in Edit, ReloadTourTimes(x), edit'[e] # edit[e]
      PROVE  x = e /\ edit'[e] # Idle
  BY <1>0, <1>3 DEF ReloadTourTimes, EndEdit, Updating, Idle
<1>4. ASSUME NEW x \in Edit,
             \/ SaveTourTimes(x) \/ SaveInvalidRanges(x) \/ SaveDeletedTour(x)
             \/ DeleteTour(x) \/ FailEdit(x)
      PROVE  edit'[e] = edit[e]
  <2>1. edit' = [edit EXCEPT ![x] = Idle]
    BY <1>4 DEF SaveTourTimes, SaveInvalidRanges, SaveDeletedTour, DeleteTour,
       FailEdit, EndEdit
  <2> QED
    BY <1>0, <2>1 DEF Updating, Idle
<1>10. ASSUME NEW x \in Edit, NEW tour \in Tour, FindTourToDelete(x, tour)
       PROVE  edit'[e] = edit[e]
  BY <1>0, <1>10 DEF FindTourToDelete, Updating
<1>11. ASSUME NEW x \in Edit, NEW tour \in Tour, NEW new \in NewTours,
              CreateTour(x, tour, new)
       PROVE  edit'[e] = edit[e]
  BY <1>11 DEF CreateTour
<1>5. CASE ScheduleBackground \/ UNCHANGED scheduleVars
  BY <1>5 DEF ScheduleBackground, adminVars, scheduleVars, Updating
<1>6. CASE \E tour \in Tour, form \in Forms : FindTourTimes(e, tour, form)
  BY <1>6
<1>7. CASE edit'[e] = edit[e]
  BY <1>7 DEF Updating
<1>8. CASE CountBookings(e) /\ edit'[e] # edit[e]
  <2>1. edit[e].step = "count" /\ edit' = [edit EXCEPT ![e].step = "reload"]
    BY <1>2, <1>8 DEF CountBookings
  <2> QED
    BY <1>0, <1>8, <2>1 DEF Updating
<1>9. CASE ReloadTourTimes(e) /\ edit'[e] # edit[e]
  BY <1>0, <1>3, <1>9 DEF ReloadTourTimes, EndEdit, Updating
<1> QED
  BY <1>1, <1>2, <1>3, <1>4, <1>5, <1>6, <1>7, <1>8, <1>9, <1>10, <1>11
     DEF ScheduleNext, EditStep, Submit, Continue

LEMMA StepKeepsFound == 
  ASSUME ScheduleTypeOK, FoundIsKept, [ScheduleNext]_scheduleVars
  PROVE  FoundIsKept'
<1> SUFFICES ASSUME NEW e \in Edit, Updating(e)'
             PROVE  /\ edit'[e].tour \in tours' \cup retired'
                    /\ \A t \in DOMAIN edit'[e].found :
                         IF t \in DOMAIN tourTimes'
                         THEN tourTimes'[t].tour = edit'[e].tour
                         ELSE t \in retired'
  BY DEF FoundIsKept, Updating
<1>1. CASE \E tour \in Tour, form \in Forms : FindTourTimes(e, tour, form)
  BY <1>1 DEF FindTourTimes, TimesOf, Live, ScheduleTypeOK, storeVars
<1>2. CASE /\ Updating(e)
           /\ edit'[e].tour = edit[e].tour
           /\ edit'[e].found = edit[e].found
  <2>1. /\ edit[e].tour \in tours \cup retired
        /\ \A t \in DOMAIN edit[e].found :
             /\ t \in TourTimeId
             /\ IF t \in DOMAIN tourTimes THEN tourTimes[t].tour = edit[e].tour
                ELSE t \in retired
    BY <1>2, UpdateState DEF FoundIsKept, UpdateTyped
  <2>2. /\ retired \subseteq retired'
        /\ tours \subseteq tours' \cup retired'
        /\ DOMAIN tourTimes \subseteq DOMAIN tourTimes' \cup retired'
        /\ DOMAIN tourTimes' \cap retired \subseteq DOMAIN tourTimes
    <3>1. ASSUME NEW x \in Edit, SaveTourTimes(x)
          PROVE  /\ DOMAIN tourTimes \subseteq DOMAIN tourTimes'
                 /\ DOMAIN tourTimes' \cap retired \subseteq DOMAIN tourTimes
      <4>1. PICK id : SavedTable(x, id)
        BY <3>1, SaveEffect
      <4>2. DOMAIN tourTimes' = DOMAIN tourTimes \cup {id[n] : n \in edit[x].form.new}
        BY <4>1 DEF SavedTable
      <4> QED
        BY <4>1, <4>2 DEF SavedTable
    <3>2. ASSUME NEW x \in Edit, NEW tour \in Tour, NEW new \in NewTours,
                 CreateTour(x, tour, new)
          PROVE  /\ DOMAIN tourTimes \subseteq DOMAIN tourTimes'
                 /\ DOMAIN tourTimes' \cap retired \subseteq DOMAIN tourTimes
      BY <3>2, CreateEffect DEF CreatedTable
    <3>3. CASE UNCHANGED <<tourTimes, tours, retired>>
      BY <3>3
    <3>4. CASE ScheduleBackground
      BY <3>4 DEF ScheduleBackground, Tick, CloseStartedTourTimes, adminVars
    <3>5. ASSUME NEW x \in Edit, DeleteTour(x)
          PROVE  <2>2
      BY <3>5 DEF DeleteTour, RowsOf
    <3>6. ASSUME NEW x \in Edit, SaveDeletedTour(x)
          PROVE  <2>2
      BY <3>6 DEF SaveDeletedTour, storeVars
    <3>7. ASSUME NEW x \in Edit, SaveTourTimes(x)
          PROVE  <2>2
      BY <3>1, <3>7 DEF SaveTourTimes
    <3>8. ASSUME NEW x \in Edit, NEW tour \in Tour, NEW new \in NewTours,
                 CreateTour(x, tour, new)
          PROVE  <2>2
      BY <3>2, <3>8 DEF CreateTour
    <3> QED
      BY <3>3, <3>4, <3>5, <3>6, <3>7, <3>8
         DEF ScheduleNext, EditStep, Submit, Continue, FindTourTimes,
             CountBookings,
         ReloadTourTimes, SaveInvalidRanges, FindTourToDelete, FailEdit,
         storeVars, scheduleVars
  <2>3. \A t \in DOMAIN tourTimes \cap DOMAIN tourTimes' :
          tourTimes'[t].tour = tourTimes[t].tour
    BY RowKeepsTour
  <2> QED
    BY <1>2, <2>1, <2>2, <2>3
<1> QED
  BY <1>1, <1>2, EditOrigin

LEMMA StepKeepsValidated ==
  ASSUME ScheduleTypeOK, FoundIsValidated, [ScheduleNext]_scheduleVars
  PROVE  FoundIsValidated'
<1>1. ASSUME NEW e \in Edit, NEW tour \in Tour, NEW form \in Forms,
             FindTourTimes(e, tour, form)
      PROVE  Validated(edit'[e].form, edit'[e].found, edit'[e].foundOn)
  <2> DEFINE found == [t \in TimesOf(tour) |-> tourTimes[t]]
  <2>1. /\ edit'[e].form = form /\ edit'[e].found = found
        /\ edit'[e].foundOn = today
    BY <1>1 DEF FindTourTimes, ScheduleTypeOK
  <2>2. /\ NoOverlaps(ResultingTimes(form, found), DOMAIN ResultingTimes(form, found))
        /\ ChangesAllowed(form, found)
    BY <1>1 DEF FindTourTimes
  <2>3. \A t \in DOMAIN found : ~found[t].deleted
    BY DEF TimesOf, Live
  <2> HIDE DEF found
  <2> QED
    BY <2>1, <2>2, <2>3 DEF ChangesAllowed, Validated
<1>2. ASSUME NEW e \in Edit, Updating(e)
      PROVE  Validated(edit[e].form, edit[e].found, edit[e].foundOn)
  BY <1>2 DEF FoundIsValidated
<1>3. ASSUME NEW e \in Edit, Updating(e)'
      PROVE  Validated(edit'[e].form, edit'[e].found, edit'[e].foundOn)
  BY <1>1, <1>2, <1>3, EditOrigin
<1> QED
  BY <1>3 DEF FoundIsValidated, Updating

\* A race is not forgotten.
LEMMA RacedGrows ==
  ASSUME [ScheduleNext]_scheduleVars
  PROVE  raced \subseteq raced'
BY DEF ScheduleNext, EditStep, Submit, Continue, FindTourTimes, CountBookings,
       ReloadTourTimes, SaveTourTimes, SaveInvalidRanges, SaveDeletedTour,
       NoteRace, CreateTour, FindTourToDelete, DeleteTour, FailEdit,
       ScheduleBackground,
       adminVars, scheduleVars

\* As long as an edit goes on, other edits of its tour are noted in raced and
\* other tours' edits do not touch its times.
LEMMA EditsAreApart ==
  ASSUME ScheduleTypeOK, FoundIsKept, [ScheduleNext]_scheduleVars,
         NEW e \in Edit, Updating(e),
         edit'[e] = edit[e], edit[e].tour \in tours' \ raced'
  PROVE  edit[e].tour \in tours \ raced /\ Frame(edit[e].tour)
<1> DEFINE tour == edit[e].tour
<1>1. ASSUME NEW x \in Edit, edit[x].step = "save", edit[x].tour = tour,
             NoteRace(x),
             edit' = [edit EXCEPT ![x] = Idle]
      PROVE  FALSE
  <2>1. x # e
    BY <1>1 DEF ScheduleTypeOK, Updating, Idle
  <2>2. e \in OtherEdits(x, tour)
    BY <2>1 DEF OtherEdits, Updating
  <2> QED
    BY <1>1, <2>2 DEF NoteRace
<1>2. \A x \in Edit : SaveTourTimes(x) => edit[x].tour # tour
  BY <1>1 DEF SaveTourTimes, EndEdit
<1>3. tour \in tours
  <2>1. ASSUME NEW x \in Edit, SaveDeletedTour(x)
        PROVE  tour \in tours
    BY <1>1, <2>1 DEF SaveDeletedTour, EndEdit
  <2>2. ASSUME NEW x \in Edit, NEW created \in Tour, NEW new \in NewTours,
               CreateTour(x, created, new)
        PROVE  tour \in tours
    BY <2>2 DEF CreateTour, FoundIsKept
  <2>3. CASE tours' \subseteq tours
    BY <2>3
  <2> QED
    BY <2>1, <2>2, <2>3
       DEF ScheduleNext, EditStep, Submit, Continue, FindTourTimes,
           CountBookings,
           ReloadTourTimes, SaveTourTimes, SaveInvalidRanges, FindTourToDelete,
           DeleteTour, FailEdit, ScheduleBackground, adminVars, scheduleVars
<1>4. raced \subseteq raced'
  BY RacedGrows
<1> QED
  BY <1>2, <1>3, <1>4, StepFrame

LEMMA StepKeepsCurrent ==
  ASSUME ScheduleTypeOK, FoundIsKept, EditSeesCurrentTimes, LoadedIsCurrent,
         [ScheduleNext]_scheduleVars
  PROVE  EditSeesCurrentTimes' /\ LoadedIsCurrent'
<1>1. ASSUME NEW e \in Edit, Updating(e)', edit'[e].tour \in tours' \ raced'
      PROVE  /\ DOMAIN edit'[e].found = TimesAfter(edit'[e].tour)
             /\ \A t \in DOMAIN edit'[e].found :
                  SameSchedule(edit'[e].found[t], tourTimes'[t])
             /\ edit'[e].step = "save" =>
                  \A t \in DOMAIN edit'[e].form.times :
                     /\ SameSchedule(edit'[e].found[t], edit'[e].loaded[t])
                     /\ SameSchedule(edit'[e].loaded[t], tourTimes'[t])
  <2>1. CASE \E tour \in Tour, form \in Forms : FindTourTimes(e, tour, form)
    <3>1. PICK tour \in Tour, form \in Forms : FindTourTimes(e, tour, form)
      BY <2>1
    <3>2. /\ edit'[e].tour = tour /\ edit'[e].step = "count"
          /\ edit'[e].found = [t \in TimesOf(tour) |-> tourTimes[t]]
          /\ tourTimes' = tourTimes
      BY <3>1 DEF FindTourTimes, ScheduleTypeOK, storeVars
    <3> QED
      BY <3>2 DEF TimesAfter, TimesOf, Live, SameSchedule, ScheduleChanged
  <2>2. CASE Updating(e) /\ edit'[e] = edit[e]
    <3> DEFINE state == edit[e]
    <3>1. state.tour \in tours \ raced /\ Frame(state.tour)
      BY <1>1, <2>2, EditsAreApart
    <3>2. /\ DOMAIN state.found = TimesOf(state.tour)
          /\ \A t \in DOMAIN state.found : SameSchedule(state.found[t], tourTimes[t])
      BY <2>2, <3>1 DEF EditSeesCurrentTimes, Updating
    <3>3. DOMAIN state.form.times \subseteq DOMAIN state.found
      BY <2>2, UpdateState DEF UpdateTyped, KnownIds
    <3>4. state.step = "save" =>
            \A t \in DOMAIN state.form.times :
               /\ SameSchedule(state.found[t], state.loaded[t])
               /\ SameSchedule(state.loaded[t], tourTimes[t])
      BY <3>1 DEF LoadedIsCurrent
    <3>5. \A t \in TimesOf(state.tour) : SameSchedule(tourTimes[t], tourTimes'[t])
      BY <3>1 DEF Frame
    <3> HIDE DEF state
    <3>6. edit'[e] = state
      BY <2>2 DEF state
    <3>7. \A t \in DOMAIN state.found : SameSchedule(state.found[t], tourTimes'[t])
      BY <3>2, <3>5, SameScheduleTransitive
    <3>8. state.step = "save" => \A t \in DOMAIN state.form.times :
            /\ SameSchedule(state.found[t], state.loaded[t])
            /\ SameSchedule(state.loaded[t], tourTimes'[t])
      BY <3>2, <3>3, <3>4, <3>5, SameScheduleTransitive
    <3> QED
      BY <3>1, <3>2, <3>6, <3>7, <3>8 DEF Frame
  <2>3. ASSUME Updating(e), edit'[e].tour = edit[e].tour,
               edit'[e].form = edit[e].form, edit'[e].found = edit[e].found,
               UNCHANGED <<tourTimes, tours, raced>>
        PROVE  /\ DOMAIN edit'[e].found = TimesAfter(edit'[e].tour)
               /\ \A t \in DOMAIN edit'[e].found :
                    SameSchedule(edit'[e].found[t], tourTimes'[t])
    BY <1>1, <2>3 DEF EditSeesCurrentTimes, Updating, TimesAfter, TimesOf, Live
  <2>4. CASE ReloadTourTimes(e) /\ edit'[e] # edit[e]
    <3> DEFINE times == edit[e].form.times
    <3>0. \A tour \in Tour, form \in Forms : ~FindTourTimes(e, tour, form)
      BY <2>4 DEF FindTourTimes, ReloadTourTimes, Idle
    <3>1. /\ Updating(e) /\ edit'[e].tour = edit[e].tour
          /\ edit'[e].form = edit[e].form /\ edit'[e].found = edit[e].found
      BY <1>1, <3>0, EditOrigin
    <3>2. /\ edit'[e].loaded = [t \in DOMAIN times |-> tourTimes[t]]
          /\ UNCHANGED <<tourTimes, tours, raced>>
      BY <1>1, <2>4
           DEF ReloadTourTimes, EndEdit, Idle, Updating, ScheduleTypeOK,
               storeVars
    <3>3. DOMAIN times \subseteq DOMAIN edit[e].found
      BY <3>1, UpdateState DEF UpdateTyped, KnownIds
    <3>4. \A t \in DOMAIN times : SameSchedule(edit'[e].found[t], tourTimes[t])
      BY <1>1, <3>1, <3>2, <3>3 DEF EditSeesCurrentTimes, Updating
    <3>5. \A t \in DOMAIN times : SameSchedule(edit'[e].loaded[t], tourTimes'[t])
      BY <3>2 DEF SameSchedule, ScheduleChanged
    <3> HIDE DEF times
    <3>6. \A t \in DOMAIN times : SameSchedule(edit'[e].found[t], edit'[e].loaded[t])
      BY <3>2, <3>4
    <3> QED
      BY <2>3, <3>1, <3>2, <3>5, <3>6 DEF times
  <2>5. CASE /\ CountBookings(e)
             /\ edit'[e].step = "reload" /\ edit'[e] # edit[e]
    <3>1. UNCHANGED <<tourTimes, tours, raced>>
      BY <2>5 DEF CountBookings, storeVars
    <3>2. \A tour \in Tour, form \in Forms : ~FindTourTimes(e, tour, form)
      BY <2>5 DEF FindTourTimes, CountBookings, Idle
    <3>3. /\ Updating(e) /\ edit'[e].tour = edit[e].tour
          /\ edit'[e].form = edit[e].form /\ edit'[e].found = edit[e].found
      BY <1>1, <3>2, EditOrigin
    <3> QED
      BY <2>3, <2>5, <3>1, <3>3
  <2> QED
    BY <1>1, <2>1, <2>2, <2>4, <2>5, EditOrigin
<1>2. LoadedIsCurrent'
  BY <1>1 DEF LoadedIsCurrent, Updating
<1>3. EditSeesCurrentTimes'
  BY <1>1 DEF EditSeesCurrentTimes, Updating, TimesAfter, TimesOf, Live
<1> QED
  BY <1>2, <1>3

-----------------------------------------------------------------------------
(* Overlaps *)

\* A table has no overlaps when each row has the range of one of another table
\* that has none, no two rows of the same, and is cancelled if that one is.
LEMMA NoOverlapsTransfers ==
  ASSUME NEW times, NEW kept, NoOverlaps(times, kept),
         NEW rows, NEW ids, NEW f \in [ids -> kept],
         \A x, y \in ids : f[x] = f[y] => x = y,
         \A x \in ids :
           /\ rows[x].startDate = times[f[x]].startDate
           /\ rows[x].endDate = times[f[x]].endDate
           /\ times[f[x]].status = "cancelled" => rows[x].status = "cancelled"
  PROVE  NoOverlaps(rows, ids)
BY DEF NoOverlaps, Overlap

\* The row an edit saves has what was submitted, but for a status that the
\* daily job has set; one that was not changed is the row that is there, but
\* that an open one may be opened again.
LEMMA SavedRowIsSubmitted ==
  ASSUME ScheduleInv, NEW e \in Edit, edit[e].step = "save",
         edit[e].tour \in tours \ raced, NEW id, SavedTable(e, id),
         NEW t \in DOMAIN edit[e].form.times
  PROVE  LET submitted == edit[e].form.times[t]
             row == tourTimes[t]
             new == tourTimes'[t]
             found == edit[e].found[t]
         IN  /\ t \in DOMAIN tourTimes
             /\ ~new.deleted
             /\ ~ScheduleChanged(new, submitted)
             /\ \/ new.status = submitted.status
                \/ submitted.status = "open" /\ new.status = "closed"
             /\ ~Changed(found, submitted) =>
                  \/ new = row
                  \/ /\ found.status = "open"
                     /\ new = [row EXCEPT !.status = "open"]
<1> DEFINE submitted == edit[e].form.times[t]
           row == tourTimes[t]
           new == tourTimes'[t]
           found == edit[e].found[t]
           loaded == edit[e].loaded[t]
           entity == NewRow(edit[e].tour, submitted)
           tour == edit[e].tour
<1>1. /\ t \in DOMAIN edit[e].found
      /\ t \notin edit[e].form.deleted
      /\ submitted \in Fields /\ loaded \in TourTime /\ found \in TourTime
      /\ tour \in Tour
  <2>1. UpdateTyped(edit[e]) /\ FormOK(edit[e].form)
    BY UpdateState DEF ScheduleInv, Updating
  <2> QED
    BY <2>1 DEF UpdateTyped, FormOK, KnownIds
<1>2. /\ t \in TimesOf(tour)
      /\ SameSchedule(found, loaded) /\ SameSchedule(loaded, row)
      /\ ~found.deleted
  BY <1>1 DEF ScheduleInv, EditSeesCurrentTimes, LoadedIsCurrent,
              FoundIsValidated, Validated, Updating
<1>3. t \in DOMAIN tourTimes /\ row \in TourTime /\ row.tour = tour /\ ~row.deleted
  BY <1>2 DEF ScheduleInv, ScheduleTypeOK, StoreTypeOK, TimesOf, Live
<1>4. new = Written(t, edit[e])
  BY <1>1, <1>3 DEF SavedTable, WrittenIds
<1>5. /\ entity \in TourTime /\ entity.tour = tour /\ ~entity.deleted
      /\ ~ScheduleChanged(entity, submitted) /\ entity.status = submitted.status
  BY <1>1, NewRowTyped
<1>6. LET pick(x, y, z) == IF x # y THEN x ELSE z
      IN  Written(t, edit[e]) =
               [tour |-> pick(entity.tour, loaded.tour, row.tour),
                startDate |-> pick(entity.startDate, loaded.startDate, row.startDate),
                endDate |-> pick(entity.endDate, loaded.endDate, row.endDate),
                price |-> entity.price,
                maxCapacity |-> pick(entity.maxCapacity, loaded.maxCapacity,
                                     row.maxCapacity),
                status |-> pick(entity.status, loaded.status, row.status),
                deleted |-> pick(entity.deleted, loaded.deleted, row.deleted)]
  BY <1>1, <1>3, WrittenRow
<1>7. /\ \/ found.status = loaded.status
         \/ found.status = "open" /\ loaded.status = "closed"
      /\ \/ loaded.status = row.status
         \/ loaded.status = "open" /\ row.status = "closed"
  BY <1>2 DEF SameSchedule
<1>8. ~ScheduleChanged(found, loaded) /\ ~ScheduleChanged(loaded, row) /\ ~loaded.deleted
  BY <1>2 DEF SameSchedule
<1> HIDE DEF submitted, row, new, found, loaded, entity, tour
<1>9. /\ ~new.deleted
      /\ ~ScheduleChanged(new, submitted)
      /\ new.status = IF entity.status # loaded.status THEN entity.status ELSE row.status
  BY <1>8, <1>3, <1>5, <1>6, <1>4 DEF ScheduleChanged, TourTime
<1>10. \/ new.status = submitted.status
       \/ submitted.status = "open" /\ new.status = "closed"
  <2>1. CASE entity.status # loaded.status
    BY <1>5, <1>9, <2>1
  <2>2. CASE entity.status = loaded.status
    BY <1>5, <1>7, <1>9, <2>2
  <2> QED
    BY <2>1, <2>2
<1>11. ASSUME ~Changed(found, submitted)
       PROVE  new = [row EXCEPT !.status = new.status]
  BY <1>8, <1>3, <1>5, <1>6, <1>4, <1>11
     DEF ScheduleChanged, Changed, TourTime
<1>12. ASSUME ~Changed(found, submitted)
       PROVE  new.status = row.status \/ (found.status = "open" /\ new.status = "open")
  <2>1. found.status = entity.status
    BY <1>5, <1>12 DEF Changed
  <2>2. CASE entity.status # loaded.status
    BY <1>7, <1>9, <2>1, <2>2
  <2>3. CASE entity.status = loaded.status
    BY <1>9, <2>3
  <2> QED
    BY <2>2, <2>3
<1>13. [row EXCEPT !.status = row.status] = row
  BY <1>3 DEF TourTime
<1>14. ASSUME ~Changed(found, submitted)
       PROVE  \/ new = row
              \/ found.status = "open" /\ new = [row EXCEPT !.status = "open"]
  <2>1. CASE new.status = row.status
    BY <1>11, <1>13, <1>14, <2>1
  <2>2. CASE found.status = "open" /\ new.status = "open"
    <3>1. new = [row EXCEPT !.status = new.status]
      BY <1>11, <1>14
    <3> QED
      BY <3>1, <2>2
  <2> QED
    BY <1>12, <1>14, <2>1, <2>2
<1> QED
  BY <1>3, <1>9, <1>10, <1>14 DEF submitted, row, new, found

\* What an edit leaves of its tour are the times it validated.
LEMMA SavedTimesApart ==
  ASSUME ScheduleInv, NEW e \in Edit, edit[e].step = "save",
         edit[e].tour \in tours \ raced, NEW id, SavedTable(e, id)
  PROVE  NoOverlaps(tourTimes', TimesAfter(edit[e].tour))
<1> DEFINE tour == edit[e].tour
           form == edit[e].form
           found == edit[e].found
           result == ResultingTimes(form, found)
           kept == DOMAIN found \ form.deleted
           new == {id[n] : n \in form.new}
           f == [t \in TimesAfter(tour) |->
                   IF t \in DOMAIN tourTimes THEN t
                   ELSE CHOOSE n \in form.new : id[n] = t]
<1>1. /\ DOMAIN found \subseteq TourTimeId /\ form.new \subseteq Fields
      /\ DOMAIN form.times \cup form.deleted \subseteq DOMAIN found
      /\ DOMAIN form.times \cap form.deleted = {}
      /\ tour \in Tour
  <2>1. UpdateTyped(edit[e]) /\ FormOK(edit[e].form)
    BY UpdateState DEF ScheduleInv, Updating
  <2> QED
    BY <2>1 DEF UpdateTyped, FormOK, KnownIds
<1>2. /\ DOMAIN found = TimesOf(tour)
      /\ \A t \in DOMAIN found : SameSchedule(found[t], tourTimes[t])
  BY DEF ScheduleInv, EditSeesCurrentTimes
<1>3. NoOverlaps(result, DOMAIN result)
  BY DEF ScheduleInv, FoundIsValidated, Validated, Updating
<1>4. /\ DOMAIN result = kept \cup form.new
      /\ \A n \in form.new : result[n] = n
      /\ \A t \in kept : result[t] = IF t \in DOMAIN form.times THEN form.times[t]
                                     ELSE found[t]
  BY <1>1, FormAssumption DEF ResultingTimes
<1>5. /\ DOMAIN tourTimes' = DOMAIN tourTimes \cup new
      /\ new \cap DOMAIN tourTimes = {}
      /\ \A m, n \in form.new : id[m] = id[n] => m = n
      /\ \A n \in form.new : tourTimes'[id[n]] = NewRow(tour, n)
      /\ \A t \in DOMAIN tourTimes :
           tourTimes'[t] = IF t \notin WrittenIds(edit[e]) THEN tourTimes[t]
                           ELSE IF t \in form.deleted THEN Deleted(t)
                           ELSE Written(t, edit[e])
  BY DEF SavedTable
<1> HIDE DEF result
<1>6. ASSUME NEW t \in TimesAfter(tour), t \in DOMAIN tourTimes
      PROVE  /\ f[t] = t /\ t \in kept
             /\ tourTimes'[t].startDate = result[t].startDate
             /\ tourTimes'[t].endDate = result[t].endDate
             /\ result[t].status = "cancelled" => tourTimes'[t].status = "cancelled"
  <2>1. tourTimes[t].tour = tour
    BY <1>6, SavedRow DEF TimesAfter, ScheduleInv
  <2>2. t \in DOMAIN found
    <3>1. CASE t \in WrittenIds(edit[e])
      BY <1>1, <3>1 DEF WrittenIds
    <3>2. CASE t \notin WrittenIds(edit[e])
      BY <1>2, <1>5, <1>6, <2>1, <3>2 DEF TimesAfter, TimesOf, Live
    <3> QED
      BY <3>1, <3>2
  <2>3. t \notin form.deleted
    <3>1. SUFFICES ASSUME t \in form.deleted PROVE FALSE
      OBVIOUS
    <3>2. tourTimes'[t] = Deleted(t)
      BY <1>5, <1>6, <3>1 DEF WrittenIds
    <3>3. tourTimes[t] \in TourTime
      BY <1>6 DEF ScheduleInv, ScheduleTypeOK, StoreTypeOK
    <3> QED
      BY <3>2, <3>3 DEF TimesAfter, Deleted, TourTime
  <2>4. CASE t \in DOMAIN form.times
    <3>1. /\ ~ScheduleChanged(tourTimes'[t], form.times[t])
          /\ \/ tourTimes'[t].status = form.times[t].status
             \/ form.times[t].status = "open" /\ tourTimes'[t].status = "closed"
      BY <2>4, SavedRowIsSubmitted
    <3>2. result[t] = form.times[t] /\ f[t] = t /\ t \in kept
      BY <1>4, <1>6, <2>2, <2>3, <2>4
    <3> QED
      BY <3>1, <3>2 DEF ScheduleChanged
  <2>5. CASE t \notin DOMAIN form.times
    <3>1. tourTimes'[t] = tourTimes[t]
      BY <1>5, <1>6, <2>3, <2>5 DEF WrittenIds
    <3> QED
      BY <1>2, <1>4, <1>6, <2>2, <2>3, <2>5, <3>1
           DEF SameSchedule, ScheduleChanged
  <2> QED
    BY <2>4, <2>5
<1>7. ASSUME NEW n \in form.new
      PROVE  /\ f[id[n]] = n /\ id[n] \notin DOMAIN tourTimes
             /\ tourTimes'[id[n]].startDate = n.startDate
             /\ tourTimes'[id[n]].endDate = n.endDate
             /\ tourTimes'[id[n]].status = n.status
  <2>1. /\ NewRow(tour, n).startDate = n.startDate
        /\ NewRow(tour, n).endDate = n.endDate
        /\ NewRow(tour, n).status = n.status
        /\ NewRow(tour, n).tour = tour /\ ~NewRow(tour, n).deleted
    BY DEF NewRow
  <2>2. id[n] \in TimesAfter(tour)
    BY <1>5, <2>1 DEF TimesAfter
  <2>3. (CHOOSE m \in form.new : id[m] = id[n]) = n
    BY <1>5
  <2> QED
    BY <1>5, <2>1, <2>2, <2>3
<1>8. ASSUME NEW t \in TimesAfter(tour), t \notin DOMAIN tourTimes
      PROVE  \E n \in form.new : t = id[n]
  BY <1>5, <1>8 DEF TimesAfter
<1> HIDE DEF f, kept, new, form, found, tour
<1>9. \A t \in TimesAfter(tour) :
        /\ f[t] \in DOMAIN result
        /\ tourTimes'[t].startDate = result[f[t]].startDate
        /\ tourTimes'[t].endDate = result[f[t]].endDate
        /\ result[f[t]].status = "cancelled" => tourTimes'[t].status = "cancelled"
  BY <1>4, <1>6, <1>7, <1>8
<1>10. f \in [TimesAfter(tour) -> DOMAIN result]
  <2>1. DOMAIN f = TimesAfter(tour) /\ f = [t \in TimesAfter(tour) |-> f[t]]
    BY DEF f
  <2> QED
    BY <1>9, <2>1
<1>11. \A x, y \in TimesAfter(tour) : f[x] = f[y] => x = y
  <2>1. kept \cap form.new = {}
    BY <1>1, FormAssumption DEF kept
  <2> QED
    BY <1>6, <1>7, <1>8, <2>1
<1> QED
  BY <1>3, <1>9, <1>10, <1>11, NoOverlapsTransfers DEF tour

\* The times of a new tour are those of the body.
LEMMA CreatedTimesApart ==
  ASSUME ScheduleTypeOK, NEW tour \in Tour \ tours,
         NEW opened \in SUBSET Fields, NEW id,
         CreatedTable(tour, opened, id), NoOverlaps([x \in opened |-> x],
         opened)
  PROVE  NoOverlaps(tourTimes', TimesAfter(tour))
<1> DEFINE f == [t \in TimesAfter(tour) |-> CHOOSE n \in opened : id[n] = t]
           times == [x \in opened |-> x]
<1>1. ASSUME NEW n \in opened
      PROVE  /\ tourTimes'[id[n]].startDate = n.startDate
             /\ tourTimes'[id[n]].endDate = n.endDate
             /\ tourTimes'[id[n]].status = n.status
             /\ (CHOOSE m \in opened : id[m] = id[n]) = n
  <2>1. tourTimes'[id[n]] = NewRow(tour, n)
    BY DEF CreatedTable
  <2>2. \A m \in opened : id[m] = id[n] => m = n
    BY DEF CreatedTable
  <2>3. (CHOOSE m \in opened : id[m] = id[n]) = n
    BY <2>2
  <2> QED
    BY <2>1, <2>3 DEF NewRow
<1>2. ASSUME NEW t \in TimesAfter(tour)
      PROVE  \E n \in opened : t = id[n]
  BY DEF CreatedTable, TimesAfter, ScheduleTypeOK
<1>3. \A t \in TimesAfter(tour) :
        /\ f[t] \in opened /\ id[f[t]] = t
        /\ tourTimes'[t].startDate = times[f[t]].startDate
        /\ tourTimes'[t].endDate = times[f[t]].endDate
        /\ times[f[t]].status = "cancelled" => tourTimes'[t].status = "cancelled"
  BY <1>1, <1>2
<1>4. f \in [TimesAfter(tour) -> opened]
  BY <1>3
<1>5. \A x, y \in TimesAfter(tour) : f[x] = f[y] => x = y
  BY <1>3
<1> HIDE DEF f, times
<1>6. NoOverlaps(times, opened)
  BY DEF times
<1> QED
  BY <1>3, <1>4, <1>5, <1>6, NoOverlapsTransfers

LEMMA StepKeepsNoOverlap ==
  ASSUME ScheduleInv, [ScheduleNext]_scheduleVars
  PROVE  NoOverlapUnlessRaced'
<1> SUFFICES ASSUME NEW tour \in tours' \ raced'
             PROVE  NoOverlaps(tourTimes', TimesAfter(tour))
  BY DEF NoOverlapUnlessRaced, TimesOf, Live, TimesAfter
<1>1. ScheduleTypeOK /\ FoundIsKept /\ NoOverlapUnlessRaced
  BY DEF ScheduleInv
<1>2. CASE \E e \in Edit : SaveTourTimes(e) /\ edit[e].tour = tour
  <2>1. PICK e \in Edit : SaveTourTimes(e) /\ edit[e].tour = tour
    BY <1>2
  <2>2. PICK id : SavedTable(e, id)
    BY <2>1, SaveEffect
  <2>3. edit[e].step = "save" /\ edit[e].tour \in tours \ raced
    BY <2>1 DEF SaveTourTimes, NoteRace
  <2> QED
    BY <2>1, <2>2, <2>3, SavedTimesApart
<1>3. CASE tour \in tours /\ \A e \in Edit : SaveTourTimes(e) => edit[e].tour # tour
  <2>1. Frame(tour)
    BY <1>1, <1>3, StepFrame
  <2>2. raced \subseteq raced'
    BY RacedGrows
  <2>3. NoOverlaps(tourTimes, TimesOf(tour))
    BY <1>1, <1>3, <2>2 DEF NoOverlapUnlessRaced
  <2> DEFINE f == [t \in TimesOf(tour) |-> t]
  <2>4. /\ f \in [TimesAfter(tour) -> TimesOf(tour)]
        /\ \A t \in TimesAfter(tour) : f[t] = t
    BY <2>1 DEF Frame
  <2>5. \A t \in TimesAfter(tour) :
          /\ tourTimes'[t].startDate = tourTimes[t].startDate
          /\ tourTimes'[t].endDate = tourTimes[t].endDate
          /\ tourTimes[t].status = "cancelled" => tourTimes'[t].status = "cancelled"
    BY <2>1 DEF Frame, SameSchedule, ScheduleChanged
  <2> HIDE DEF f
  <2> QED
    BY <2>3, <2>4, <2>5, NoOverlapsTransfers
<1>4. ASSUME tour \notin tours, NEW e \in Edit, NEW created \in Tour,
             NEW new \in NewTours,
             CreateTour(e, created, new)
      PROVE  NoOverlaps(tourTimes', TimesAfter(tour))
  <2>1. created = tour
    BY <1>4 DEF CreateTour
  <2>2. PICK opened \in SUBSET Fields :
          \E id : /\ \A n \in opened : n.status = "open"
                 /\ NoOverlaps([x \in opened |-> x], opened)
                 /\ CreatedTable(tour, opened, id)
    BY <1>4, <2>1, CreateEffect
  <2> QED
    BY <1>1, <1>4, <2>1, <2>2, CreatedTimesApart
<1>5. ASSUME tour \notin tours, UNCHANGED tourTimes
      PROVE  NoOverlaps(tourTimes', TimesAfter(tour))
  <2>1. TimesAfter(tour) = {}
    BY <1>1, <1>5 DEF ScheduleTypeOK, TimesAfter
  <2> QED
    BY <2>1 DEF NoOverlaps
<1> QED
  BY <1>2, <1>3, <1>4, <1>5
     DEF ScheduleNext, EditStep, Submit, Continue, FindTourTimes, CountBookings,
         ReloadTourTimes, SaveTourTimes, SaveInvalidRanges, SaveDeletedTour,
         FindTourToDelete, DeleteTour, FailEdit, ScheduleBackground, adminVars,
         storeVars, scheduleVars

-----------------------------------------------------------------------------
(* The invariant *)

LEMMA InitInv == ScheduleInit => ScheduleInv
<1> SUFFICES ASSUME ScheduleInit PROVE ScheduleInv
  OBVIOUS
<1>1. ScheduleTypeOK
  BY ScheduleInitTyped
<1>2. \A e \in Edit : ~Updating(e)
  BY DEF ScheduleInit, Updating, Idle
<1>3. NoOverlapUnlessRaced
  BY DEF ScheduleInit, NoOverlapUnlessRaced
<1> QED
  BY <1>1, <1>2, <1>3
     DEF ScheduleInv, FoundIsKept, FoundIsValidated, EditSeesCurrentTimes,
         LoadedIsCurrent,
         Updating

LEMMA StepInv == ScheduleInv /\ [ScheduleNext]_scheduleVars => ScheduleInv'
<1> SUFFICES ASSUME ScheduleInv, [ScheduleNext]_scheduleVars PROVE ScheduleInv'
  OBVIOUS
<1>1. ScheduleTypeOK'
  BY ScheduleStepTyped DEF ScheduleInv
<1>2. FoundIsKept'
  BY StepKeepsFound DEF ScheduleInv
<1>3. FoundIsValidated'
  BY StepKeepsValidated DEF ScheduleInv
<1>4. EditSeesCurrentTimes' /\ LoadedIsCurrent'
  BY StepKeepsCurrent DEF ScheduleInv
<1>5. NoOverlapUnlessRaced'
  BY StepKeepsNoOverlap
<1> QED
  BY <1>1, <1>2, <1>3, <1>4, <1>5 DEF ScheduleInv

THEOREM ScheduleInvariant == ScheduleSpec => []ScheduleInv
BY InitInv, StepInv, PTL DEF ScheduleSpec

\* As long as no other edit of its tour commits, an edit saves what it
\* validated: it has found all times of the tour, and none has changed since.
THEOREM EditSeesCurrentTimesCorrect == ScheduleSpec => []EditSeesCurrentTimes
<1>1. ScheduleInv => EditSeesCurrentTimes
  BY DEF ScheduleInv
<1> QED
  BY <1>1, ScheduleInvariant, PTL

\* The times of a tour never overlap unless two edits of it did, whatever the
\* bodies are and however many edits of other tours go on.
THEOREM NoOverlapUnlessRacedCorrect == ScheduleSpec => []NoOverlapUnlessRaced
<1>1. ScheduleInv => NoOverlapUnlessRaced
  BY DEF ScheduleInv
<1> QED
  BY <1>1, ScheduleInvariant, PTL

-----------------------------------------------------------------------------
(* What an edit may do to cancelled and to started departures *)

\* Only edits of its tour change a departure, deleted or not.
LEMMA RowFrame ==
  ASSUME ScheduleTypeOK, FoundIsKept, [ScheduleNext]_scheduleVars,
         NEW t \in DOMAIN tourTimes, t \in DOMAIN tourTimes',
         \A e \in Edit : SaveTourTimes(e) => edit[e].tour # tourTimes[t].tour
  PROVE  SameSchedule(tourTimes[t], tourTimes'[t])
<1>1. ASSUME NEW e \in Edit, SaveTourTimes(e)
      PROVE  tourTimes'[t] = tourTimes[t]
  BY <1>1, SaveEffect, SavedRow DEF SaveTourTimes
<1>2. ASSUME NEW e \in Edit, NEW new \in NewTours, NEW created \in Tour,
             CreateTour(e, created, new)
      PROVE  tourTimes'[t] = tourTimes[t]
  BY <1>2, CreateEffect DEF CreatedTable
<1>3. ASSUME NEW e \in Edit, DeleteTour(e)
      PROVE  tourTimes'[t] = tourTimes[t]
  BY <1>3 DEF DeleteTour
<1>4. CASE CloseStartedTourTimes
  BY <1>4 DEF CloseStartedTourTimes, ToClose, SameSchedule,
     ScheduleChanged, ScheduleTypeOK, StoreTypeOK, TourTime
<1>5. CASE tourTimes'[t] = tourTimes[t]
  BY <1>5 DEF SameSchedule, ScheduleChanged
<1> QED
  BY <1>1, <1>2, <1>3, <1>4, <1>5
     DEF ScheduleNext, EditStep, Submit, Continue, FindTourTimes, CountBookings,
         ReloadTourTimes, SaveInvalidRanges, SaveDeletedTour, FindTourToDelete,
         FailEdit, ScheduleBackground, Tick, storeVars, scheduleVars

\* What one step does to a departure of a tour that no race has touched.
LEMMA RowEffect ==
  ASSUME ScheduleInv, [ScheduleNext]_scheduleVars, NEW t \in DOMAIN tourTimes,
         t \in DOMAIN tourTimes',
         tourTimes[t].tour \notin raced'
  PROVE  \/ SameSchedule(tourTimes[t], tourTimes'[t])
         \/ \E e \in Edit :
              LET found == edit[e].found[t] IN
              /\ edit[e].step = "save" /\ t \in DOMAIN edit[e].found
              /\ SameSchedule(found, tourTimes[t])
              /\ \/ found.startDate > edit[e].foundOn /\ tourTimes'[t] = Deleted(t)
                 \/ found.startDate > edit[e].foundOn /\ found.status # "cancelled"
                 \/ /\ found.status = "open"
                    /\ tourTimes'[t] = [tourTimes[t] EXCEPT !.status = "open"]
<1> DEFINE tour == tourTimes[t].tour
<1>1. ScheduleTypeOK /\ FoundIsKept /\ tour \in tours /\ tour \notin raced
  BY RacedGrows DEF ScheduleInv, ScheduleTypeOK
<1>2. CASE \E e \in Edit : SaveTourTimes(e) /\ edit[e].tour = tour
  <2>1. PICK e \in Edit : SaveTourTimes(e) /\ edit[e].tour = tour
    BY <1>2
  <2>2. PICK id : SavedTable(e, id)
    BY <2>1, SaveEffect
  <2>3. edit[e].step = "save" /\ edit[e].tour \in tours \ raced
    BY <1>1, <2>1 DEF SaveTourTimes
  <2> DEFINE form == edit[e].form
             found == edit[e].found[t]
  <2>4. DOMAIN form.times \cup form.deleted \subseteq DOMAIN edit[e].found
    BY <1>1, <2>3, UpdateState DEF Updating, UpdateTyped, KnownIds
  <2>5. /\ t \in DOMAIN form.times /\ Changed(found, form.times[t]) =>
             found.startDate > edit[e].foundOn /\ found.status # "cancelled"
        /\ t \in form.deleted => found.startDate > edit[e].foundOn
    BY <2>3 DEF ScheduleInv, FoundIsValidated, Validated, Updating
  <2>6. t \in DOMAIN edit[e].found => SameSchedule(found, tourTimes[t])
    BY <2>3 DEF ScheduleInv, EditSeesCurrentTimes
  <2>7. CASE t \in form.deleted
    <3>1. tourTimes'[t] = Deleted(t)
      BY <2>2, <2>7 DEF SavedTable, WrittenIds
    <3> QED
      BY <2>3, <2>4, <2>5, <2>6, <2>7, <3>1
  <2>8. CASE t \in DOMAIN form.times /\ ~Changed(found, form.times[t])
    <3>1. \/ tourTimes'[t] = tourTimes[t]
          \/ /\ found.status = "open"
             /\ tourTimes'[t] = [tourTimes[t] EXCEPT !.status = "open"]
      BY <2>2, <2>3, <2>8, SavedRowIsSubmitted
    <3>2. tourTimes'[t] = tourTimes[t] => SameSchedule(tourTimes[t], tourTimes'[t])
      BY DEF SameSchedule, ScheduleChanged
    <3> QED
      BY <2>3, <2>4, <2>6, <2>8, <3>1, <3>2
  <2>9. CASE t \in DOMAIN form.times /\ Changed(found, form.times[t])
    BY <2>3, <2>4, <2>5, <2>6, <2>9
  <2>10. CASE t \notin DOMAIN form.times \cup form.deleted
    BY <2>2, <2>10 DEF SavedTable, WrittenIds, SameSchedule, ScheduleChanged
  <2> QED
    BY <2>7, <2>8, <2>9, <2>10
<1>3. CASE \A e \in Edit : SaveTourTimes(e) => edit[e].tour # tour
  BY <1>1, <1>3, RowFrame
<1> QED
  BY <1>2, <1>3

\* What a step leaves of the cancelled departures, and of the started ones.
CancelledRowsStay ==
  \A t \in DOMAIN tourTimes :
   /\ tourTimes[t].status = "cancelled"
   /\ tourTimes[t].tour \notin raced'
   => \/ t \notin DOMAIN tourTimes'
      \/ /\ tourTimes'[t].status = "cancelled"
         /\ ~ScheduleChanged(tourTimes[t], tourTimes'[t])

StartedRowsStay ==
  \A t \in DOMAIN tourTimes :
   /\ Started(t)
   /\ tourTimes[t].tour \notin raced'
   => \/ t \notin DOMAIN tourTimes'
      \/ SameSchedule(tourTimes[t], tourTimes'[t])
      \/ \E e \in Edit :
           /\ edit[e].step = "save" /\ t \in DOMAIN edit[e].found
           /\ LET found == edit[e].found[t] IN
                \/ found.startDate > edit[e].foundOn
                \/ /\ found.status = "open"
                   /\ tourTimes'[t] =
                        [tourTimes[t] EXCEPT !.status = "open"]

LEMMA StepKeepsCancelled ==
  ASSUME ScheduleInv, [ScheduleNext]_scheduleVars
  PROVE  CancelledRowsStay
<1> SUFFICES ASSUME NEW t \in DOMAIN tourTimes,
                    tourTimes[t].status = "cancelled",
                    tourTimes[t].tour \notin raced', t \in DOMAIN tourTimes'
             PROVE  /\ tourTimes'[t].status = "cancelled"
                    /\ ~ScheduleChanged(tourTimes[t], tourTimes'[t])
  BY DEF CancelledRowsStay
<1>1. CASE SameSchedule(tourTimes[t], tourTimes'[t])
  BY <1>1 DEF SameSchedule
<1>2. CASE tourTimes'[t] = Deleted(t)
  <2>1. tourTimes[t] \in TourTime
    BY DEF ScheduleInv, ScheduleTypeOK, StoreTypeOK
  <2> QED
    BY <1>2, <2>1 DEF Deleted, TourTime, ScheduleChanged
<1>3. ASSUME NEW e \in Edit, SameSchedule(edit[e].found[t], tourTimes[t]),
             edit[e].found[t].status # "cancelled"
      PROVE  FALSE
  BY <1>3 DEF SameSchedule
<1> QED
  BY <1>1, <1>2, <1>3, RowEffect

LEMMA StepKeepsStarted ==
  ASSUME ScheduleInv, [ScheduleNext]_scheduleVars
  PROVE  StartedRowsStay
BY RowEffect DEF StartedRowsStay

\* A cancelled time of a tour without a race is not written again.
THEOREM CancelledIsFinalCorrect == ScheduleSpec => CancelledIsFinal
<1>1. ScheduleInv /\ [ScheduleNext]_scheduleVars
        => [CancelledRowsStay]_scheduleVars
  BY StepKeepsCancelled
<1>2. ScheduleSpec => [][CancelledRowsStay]_scheduleVars
  BY <1>1, ScheduleInvariant, PTL DEF ScheduleSpec
<1> QED
  BY <1>2 DEF CancelledIsFinal, CancelledRowsStay

\* A started time of a tour without a race changes only through an edit that
\* found it before its start, or that found it open and opens it again.
THEOREM StartedIsFinalCorrect == ScheduleSpec => StartedIsFinal
<1>1. ScheduleInv /\ [ScheduleNext]_scheduleVars
        => [StartedRowsStay]_scheduleVars
  BY StepKeepsStarted
<1>2. ScheduleSpec => [][StartedRowsStay]_scheduleVars
  BY <1>1, ScheduleInvariant, PTL DEF ScheduleSpec
<1> QED
  BY <1>2 DEF StartedIsFinal, StartedRowsStay

-----------------------------------------------------------------------------
(* What the services that share the tables rely on *)

\* Steps that write no departure and no request of an admin.
LEMMA OthersKeepInv ==
  /\ ScheduleInv /\ StoreTypeOK'
  /\ UNCHANGED <<tourTimes, today, tours, retired, edit, raced>>
  => ScheduleInv'
<1> SUFFICES ASSUME ScheduleInv, StoreTypeOK', UNCHANGED <<tourTimes, today,
                    adminVars>>
             PROVE  ScheduleInv'
  BY DEF adminVars
<1>1. ScheduleTypeOK'
  BY DEF ScheduleInv, ScheduleTypeOK, adminVars, UpdateTyped
<1>2. FoundIsKept'
  BY DEF ScheduleInv, FoundIsKept, Updating, adminVars
<1>3. FoundIsValidated'
  <2>1. UNCHANGED edit /\ FoundIsValidated
    BY DEF ScheduleInv, adminVars
  <2> QED
    BY <2>1 DEF FoundIsValidated, Updating
<1>4. EditSeesCurrentTimes' /\ LoadedIsCurrent'
  BY DEF ScheduleInv, EditSeesCurrentTimes, LoadedIsCurrent, TimesOf, Live,
         adminVars
<1>5. NoOverlapUnlessRaced'
  BY DEF ScheduleInv, NoOverlapUnlessRaced, NoOverlaps, Overlap, TimesOf, Live,
         adminVars
<1> QED
  BY <1>1, <1>2, <1>3, <1>4, <1>5 DEF ScheduleInv

\* Admins write no bookings.
LEMMA EditKeepsBookings == EditStep => UNCHANGED <<bookings, rowLock, today>>
BY DEF EditStep, Submit, Continue, FindTourTimes, CountBookings,
       ReloadTourTimes,
       SaveTourTimes, SaveInvalidRanges, SaveDeletedTour, CreateTour,
       FindTourToDelete, DeleteTour, FailEdit, storeVars

\* An edit waits for the row locks of the departures it writes or deletes, and
\* deletes none that was booked.
LEMMA EditRespectsRows ==
  EditStep =>
    \A t \in DOMAIN tourTimes :
      /\ rowLock[t] # NoRequest =>
           t \in DOMAIN tourTimes' /\ tourTimes'[t] = tourTimes[t]
      /\ HasBookings(t) => t \in DOMAIN tourTimes'
<1> SUFFICES ASSUME EditStep, NEW t \in DOMAIN tourTimes
             PROVE  /\ rowLock[t] # NoRequest =>
                         t \in DOMAIN tourTimes' /\ tourTimes'[t] = tourTimes[t]
                    /\ HasBookings(t) => t \in DOMAIN tourTimes'
  OBVIOUS
<1>1. ASSUME NEW e \in Edit, SaveTourTimes(e)
      PROVE  /\ t \in DOMAIN tourTimes'
             /\ rowLock[t] # NoRequest => tourTimes'[t] = tourTimes[t]
  <2>1. PICK id : SavedTable(e, id)
    BY <1>1, SaveEffect
  <2>2. t \in WrittenIds(edit[e]) => rowLock[t] = NoRequest
    BY <1>1 DEF SaveTourTimes, SavedRows
  <2> QED
    BY <1>1, <2>1, <2>2 DEF SavedTable
<1>2. ASSUME NEW e \in Edit, NEW tour \in Tour, NEW new \in NewTours,
             CreateTour(e, tour, new)
      PROVE  /\ t \in DOMAIN tourTimes' /\ tourTimes'[t] = tourTimes[t]
  <2>1. PICK opened \in SUBSET Fields : \E id : CreatedTable(tour, opened, id)
    BY <1>2, CreateEffect
  <2> QED
    BY <1>2, <2>1 DEF CreatedTable
<1>3. ASSUME NEW e \in Edit, DeleteTour(e)
      PROVE  /\ rowLock[t] # NoRequest \/ HasBookings(t) =>
                  t \in DOMAIN tourTimes' /\ tourTimes'[t] = tourTimes[t]
  BY <1>3 DEF DeleteTour, RowsOf
<1>4. CASE UNCHANGED storeVars
  BY <1>4 DEF storeVars
<1> QED
  BY <1>1, <1>2, <1>3, <1>4
     DEF EditStep, Submit, Continue, FindTourTimes, CountBookings,
         ReloadTourTimes, SaveInvalidRanges, SaveDeletedTour, FindTourToDelete,
         FailEdit

Counted(e) == edit[e].step \in {"reload", "save"}

\* An edit that has counted the bookings goes on with the times it found, or
\* it has found none of those that must be unbooked with a booking.
LEMMA CountOrigin ==
  ScheduleTypeOK /\ [ScheduleNext]_scheduleVars =>
    \A e \in Edit : Counted(e)' =>
      /\ edit'[e].form = edit[e].form /\ edit'[e].found = edit[e].found
      /\ \/ Counted(e)
         \/ /\ UNCHANGED bookings
            /\ \A t \in MustBeUnbooked(edit[e].form, edit[e].found) : ~HasBookings(t)
<1> SUFFICES ASSUME ScheduleTypeOK, [ScheduleNext]_scheduleVars,
                    NEW e \in Edit, Counted(e)'
             PROVE  /\ edit'[e].form = edit[e].form /\ edit'[e].found = edit[e].found
                    /\ \/ Counted(e)
                       \/ /\ UNCHANGED bookings
                          /\ \A t \in MustBeUnbooked(edit[e].form, edit[e].found) :
                               ~HasBookings(t)
  OBVIOUS
<1>1. Updating(e)'
  BY DEF Counted, Updating
<1>2. \A tour \in Tour, form \in Forms : ~FindTourTimes(e, tour, form)
  BY DEF FindTourTimes, Counted, ScheduleTypeOK
<1>3. /\ Updating(e)
      /\ edit'[e].form = edit[e].form /\ edit'[e].found = edit[e].found
      /\ edit'[e] = edit[e] \/ CountBookings(e) \/ ReloadTourTimes(e)
  BY <1>1, <1>2, EditOrigin
<1>4. CASE edit'[e] = edit[e]
  BY <1>3, <1>4 DEF Counted
<1>5. CASE CountBookings(e)
  BY <1>3, <1>5
       DEF CountBookings, Counted, EndEdit, Idle, ScheduleTypeOK, storeVars
<1>6. CASE ReloadTourTimes(e)
  BY <1>3, <1>6 DEF ReloadTourTimes, Counted
<1> QED
  BY <1>3, <1>4, <1>5, <1>6

\* The clock does not go back.
LEMMA TodayGrows ==
  ScheduleTypeOK /\ [ScheduleNext]_scheduleVars =>
    today \in Int /\ today' \in Int /\ today <= today'
<1> SUFFICES ASSUME ScheduleTypeOK, [ScheduleNext]_scheduleVars
             PROVE  today \in Int /\ today' \in Int /\ today <= today'
  OBVIOUS
<1>1. today \in Int
  BY DEF ScheduleTypeOK, StoreTypeOK, Day
<1>2. today' = today \/ today' = today + 1
  BY DEF ScheduleNext, EditStep, Submit, Continue, FindTourTimes, CountBookings,
     ReloadTourTimes, SaveTourTimes, SaveInvalidRanges, SaveDeletedTour,
     CreateTour,
     FindTourToDelete, DeleteTour, FailEdit, ScheduleBackground, Tick,
     CloseStartedTourTimes,
     storeVars, scheduleVars
<1> QED
  BY <1>1, <1>2

\* What a user has booked: the times, the price and the capacity, of a
\* departure that is there and not cancelled.
SameTerms(x, y) ==
  /\ ~ScheduleChanged(x, y)
  /\ x.deleted = y.deleted
  /\ x.status # "cancelled" => y.status # "cancelled"

\* The terms of a departure change only by a race or by an edit that has to
\* find it without a booking.
LEMMA TermsChange ==
  ScheduleInv /\ [ScheduleNext]_scheduleVars =>
    /\ raced \subseteq raced'
    /\ \A t \in DOMAIN tourTimes : t \in DOMAIN tourTimes' =>
         /\ tourTimes'[t].tour = tourTimes[t].tour
         /\ \/ tourTimes[t].tour \in raced'
            \/ SameTerms(tourTimes[t], tourTimes'[t])
            \/ \E e \in Edit :
                 Counted(e) /\ t \in MustBeUnbooked(edit[e].form, edit[e].found)
<1>0. ASSUME ScheduleInv, [ScheduleNext]_scheduleVars
      PROVE  /\ raced \subseteq raced'
             /\ \A t \in DOMAIN tourTimes : t \in DOMAIN tourTimes' =>
                  tourTimes'[t].tour = tourTimes[t].tour
  BY <1>0, RacedGrows, RowKeepsTour DEF ScheduleInv
<1> SUFFICES ASSUME ScheduleInv, [ScheduleNext]_scheduleVars,
                    NEW t \in DOMAIN tourTimes, t \in DOMAIN tourTimes',
                    tourTimes[t].tour \notin raced'
             PROVE  \/ SameTerms(tourTimes[t], tourTimes'[t])
                    \/ \E e \in Edit : /\ Counted(e)
                                      /\ t \in MustBeUnbooked(edit[e].form,
                                                            edit[e].found)
  BY <1>0
<1> DEFINE tour == tourTimes[t].tour
<1>1. ScheduleTypeOK /\ FoundIsKept /\ tour \in tours /\ tour \notin raced
  BY RacedGrows DEF ScheduleInv, ScheduleTypeOK
<1>2. SameSchedule(tourTimes[t], tourTimes'[t]) =>
        SameTerms(tourTimes[t], tourTimes'[t])
  BY DEF SameSchedule, SameTerms
<1>3. CASE \A e \in Edit : SaveTourTimes(e) => edit[e].tour # tour
  BY <1>1, <1>2, <1>3, RowFrame
<1>4. ASSUME NEW e \in Edit, SaveTourTimes(e), edit[e].tour = tour,
             t \notin MustBeUnbooked(edit[e].form, edit[e].found)
      PROVE  SameTerms(tourTimes[t], tourTimes'[t])
  <2> DEFINE form == edit[e].form
             found == edit[e].found[t]
             submitted == form.times[t]
  <2>1. PICK id : SavedTable(e, id)
    BY <1>4, SaveEffect
  <2>2. edit[e].step = "save" /\ edit[e].tour \in tours \ raced
    BY <1>1, <1>4 DEF SaveTourTimes
  <2>3. CASE t \notin DOMAIN form.times
    BY <1>4, <2>1, <2>3
       DEF SavedTable, WrittenIds, MustBeUnbooked, SameTerms, ScheduleChanged
  <2>4. CASE t \in DOMAIN form.times
    <3>1. t \in DOMAIN edit[e].found
      BY <1>1, <2>2, <2>4, UpdateState DEF Updating, UpdateTyped, KnownIds
    <3>2. SameSchedule(found, tourTimes[t]) /\ ~found.deleted
      BY <2>2, <3>1
           DEF ScheduleInv, EditSeesCurrentTimes, FoundIsValidated, Validated,
               Updating
    <3>3. ~ScheduleChanged(found, submitted) /\ ~IsCancelling(found, submitted)
      BY <1>4, <2>4 DEF MustBeUnbooked
    <3>4. /\ ~tourTimes'[t].deleted
          /\ ~ScheduleChanged(tourTimes'[t], submitted)
          /\ \/ tourTimes'[t].status = submitted.status
             \/ submitted.status = "open" /\ tourTimes'[t].status = "closed"
      BY <2>1, <2>2, <2>4, SavedRowIsSubmitted
    <3> HIDE DEF found, submitted
    <3>5. ~ScheduleChanged(tourTimes[t], tourTimes'[t])
      BY <3>2, <3>3, <3>4 DEF SameSchedule, ScheduleChanged
    <3>6. tourTimes[t].status # "cancelled" => tourTimes'[t].status # "cancelled"
      BY <3>2, <3>3, <3>4 DEF SameSchedule, IsCancelling
    <3>7. tourTimes[t].deleted = tourTimes'[t].deleted
      <4>1. tourTimes[t].deleted = FALSE /\ tourTimes'[t].deleted = FALSE
        <5>1. tourTimes[t] \in TourTime /\ tourTimes'[t] \in TourTime
          BY <1>1, ScheduleStepTyped DEF ScheduleTypeOK, StoreTypeOK
        <5> QED
          BY <3>2, <3>4, <5>1 DEF SameSchedule, TourTime
      <4> QED
        BY <4>1
    <3> QED
      BY <3>5, <3>6, <3>7 DEF SameTerms
  <2> QED
    BY <2>3, <2>4
<1> QED
  BY <1>3, <1>4 DEF Counted, SaveTourTimes
=============================================================================
