# TLA+ of the tour booking service

Specifications, model-checking configurations and machine-checked proofs for
the NestJS tour booking API in `src/`. Everything here is derived from the code
of `src/src`; the documents of `src/docs` are what it is compared with.

Run a configuration with `tlc -config <X>.cfg <module>` and a proof module with
`tlapm <Module>.tla`. `PROJECT.json` lists the runs, the mutants, the theorems,
the hazards and, for every definition, the lines of code it stands for.

## The system

One Node process (or several behind a balancer) serves HTTP. State lives in
PostgreSQL (through TypeORM, isolation READ COMMITTED), in Redis (Bull queues
and the blacklist of access tokens) and in a directory of uploaded images. A
request handler runs alone between two `await`s and interleaves with every
other handler at each of them; the database alone orders the statements.

| Part | State | Operations | Talks to |
| --- | --- | --- | --- |
| `BookingsService` | `bookings` | create, cancel, updateStatus, three lists | `tour_times` (row lock), mail queue |
| `ToursService` | `tours`, `tour_times`, `tour_images`, files | create, update, delete, public search, closeStartedTourTimes | `bookings` (counts), Bull job |
| Close job | Bull repeatable job | one UPDATE a day | `tour_times` |
| Mail queue, processor | Bull jobs | add, process, retry | `bookings`, SMTP |
| `AuthService`, `AuthSessionsService`, guard | `auth_sessions`, Redis keys | login, refresh, logout, register, check | `users` |
| `UsersService` | `users` | find, create, update | |
| `ReviewsService` | `reviews` | create | `bookings` |

What is hard in it, and so what the models are about:

* a booking is decided by three reads and one write; only a `FOR UPDATE` lock
  on the departure makes them one (`bookings.service.ts:182`);
* a decision reads a booking, then saves it by id, with no lock and no
  condition (`bookings.service.ts:97-113`), while a cancellation does use a
  condition (`:152`);
* an edit of a tour validates what it read, counts bookings, and then lets
  TypeORM reload the rows and write the columns that differ
  (`tours.service.ts:565-595`), with no lock on the tour, the departures or the
  bookings;
* the daily job and midnight fall anywhere in between;
* any statement may fail after an earlier one was committed
  (`bookings.service.ts:113-114`);
* uploaded files and their rows are written and removed one after the other, and
  no transaction spans both (`tours.service.ts:601-631`, `:647-659`);
* an e-mail is looked up in one statement and written in another
  (`auth.service.ts:98-110`, `users.service.ts:61-65`), and `save` writes the
  columns that differ from a row it reads once more.

What makes each part correct:

* Bookings: the active bookings of a departure fit in it; a user has one active
  booking per departure; a booking is made on an open departure at its price;
  a cancellation never replaces a decision; a decision has its mail; every
  request is answered.
* Schedules: departures of a tour do not overlap; a cancelled one is final; a
  started one is not reopened; an edit saves on the rows it validated.
* Both: what is booked stays what it was when it was booked, and its history is
  never deleted.
* Mail: each decision is mailed, at most three tries. Sessions: a refresh
  token is used once, a revoked session stays revoked, a token logged out is
  refused. Users: one account per e-mail; an update writes what it submits and
  nothing else. Images: rows and files agree. Reviews: who reviews a tour was
  on it.

## Modules

`TourStore` holds the tables shared by the services: `tourTimes` and `bookings`
are partial functions from primary keys to rows, `rowLock[t]` is the
transaction that holds the `FOR UPDATE` lock of row `t`, `today` is the
business date. It has the queries (`Live`, `ReservedSlots`, `ActiveBookings`),
the clock (`Tick`) and `CloseStartedTourTimes`. `SUM(number_of_slots)` is the
number of seats, pairs of a booking and a number up to its slots, so that
theorems about it need no recursive sum.

`Bookings` is `BookingsService`. `req[r]` is the state of one HTTP request: its
`step` names the statement it waits for, its other fields are the local
variables of the handler. One action is one statement with the code up to the
next `await`:

| Action | Code |
| --- | --- |
| `StartCreate`, `LockTourTime`, `RejectUnavailable` | transaction opened, `SELECT ... FOR UPDATE`, 404 and 409 checks |
| `FindExisting` | the user's active booking of the departure, 409 |
| `CheckCapacity` | the sum of active slots against the locked row, 409 |
| `SaveBooking` | INSERT and COMMIT |
| `FindOwnBooking`, `CancelBooking` | findOne with its checks; conditional UPDATE |
| `FindBooking`, `SaveDecision`, `EnqueueBookingDecision` | findOne with its check; `save`; `queue.add` |
| `Fail` | any statement throws, or the process dies: rollback, what was committed stays |

`mailJobs` is the set of job ids the queue has accepted. `overwritten` is a
history variable: the bookings a late `save` made active again after they were
cancelled or rejected. It separates what the lock guarantees from what the
unconditional save breaks.

`Reservation` is what the service promises: bookings made, cancelled and
decided in one atomic step. `Bookings` implements it with no auxiliary
variable: the INSERT, the conditional UPDATE and the save are the steps that
count, all others stutter.

`Schedules` is the writing half of `ToursService`. `edit[e]` is the state of an
admin request; `FindTourTimes` (find and all validations), `CountBookings`,
`ReloadTourTimes` (the SELECT inside TypeORM's `save`) and `SaveTourTimes` (the
writes and the commit) are the update, `CreateTour` the create, `FindTourToDelete`
and `DeleteTour` the delete. `SaveTourTimes` writes exactly the columns in
which the submitted row differs from the reloaded one; the others keep what the
table has by then. The price is always among them: it is submitted as a number,
made the text "10", and read as "10.00". (A price with two decimals that are not
zero compares equal when it is unchanged; the model writes it then too.) So an
edit writes, and waits for, the row of every departure it submits. `SaveInvalidRanges`, `SaveDeletedTour` and the failing branch
of `DeleteTour` are the constraints of the database. The counts of one
request, which the code makes one by one, are one step, and so are the writes
of its transaction, which nobody sees before the commit. `raced` is the history
of tours that were saved while another edit had read them.

`TimeRanges` says what overlapping means and has the loop of the code that
compares neighbours (`NeighboursTouch`); `TimeChecks` has the whole algorithm
(filter, sort, compare) and its equivalence with the meaning.

`foundOn` is the business date on which an edit validated what it found: the
code asks for the date again at each check, and midnight may pass before the
save.

`Reviews` is `ReviewsService`: `FindTour`, `FindCompletedTour` and `SaveReview`
are its two reads and its INSERT, whose foreign key fails when the tour is gone.
A row is the pair of user and tour; rating and comment are text nobody reads
back, and a second review of the same tour is the same pair.

`TourBooking` composes the three services on one `TourStore`: a step is a step of
`Bookings`, of `Schedules` or of `Reviews`. It extends the first two, whose names
are their own (`Init`, `Next` and `TypeOK` are those of bookings; `Schedules` has
`ScheduleInit`, `ScheduleNext` and `ScheduleTypeOK`, the system `SystemInit` and
so on), so that what is proved of each can be cited for all. `crossed` is the
history of departures booked after an edit that changes them had counted their
bookings. Deleting a tour deletes its reviews (`RestOfEdit`), as the foreign key
does.

`TourImages` is the other half of `ToursService.create`, `update` and `delete`:
`files` is the directory `uploads/tours`, `images` the rows of `tour_images` by
the file they name, `req[r]` the request of an admin.

| Action | Code |
| --- | --- |
| `StartUpload`, `WriteFile`, `WriteFileFails` | `storeTourImages`, one `writeFile` at a time; a failure cleans up what was written |
| `CreateTour`, `Respond` | the transaction of create; the read of the answer, whose promise is returned and not awaited |
| `CountImages`, `InsertImages` | the count that gives the first sort order; INSERT and COMMIT |
| `TransactionFails`, `CommitUnanswered` | rollback and cleanup; a COMMIT that took effect and whose answer is lost, with the same cleanup |
| `FindTourWithImages`, `DeleteTour`, `DeleteRefused`, `DeleteUnanswered` | findOne with images; DELETE with its cascade; 409; the answer is lost |
| `CleanupTourImages` | `Promise.allSettled` of the unlinks; a failed one is ignored |
| `Crash` | the process dies with all its requests |

An accident that leaves a file to nobody, by the code's own design, is counted
(`accidents`) and its file remembered (`stray`); `unsure` are the files of a COMMIT
without an answer, `raced` the tours with two uploads that both counted. The
departures saved by the same requests are in `Schedules`; here they are one more
reason for `TransactionFails`.

`Users` is `UsersService` and `AuthService.register`:

| Action | Code |
| --- | --- |
| `FindByEmail`, `Create` | the lookup; the INSERT, which the unique column may reject (401) |
| `FindUser`, `CheckEmailExist` | findOne; the lookup when the address is another one, 409 |
| `Reload`, `Update`, `UpdateRejected` | the SELECT inside `save`; the UPDATE of the columns that differ; 400 |
| `Answer`, `Fail` | success is returned; a statement throws |

A form is a function on the columns a client submits. `UpdateUserDto` is compiled
to a class whose fields exist (target ES2023), so that `{...existUser, ...data}`
holds `undefined` for a column left out, and TypeORM writes no undefined column:
`Entity` is the form, not the merged row. `overtaken` is the history of updates
whose user another one wrote after they had reloaded it.

`Accounts` is what registration and update promise of the addresses: an account
takes an address nobody else has, in one step. `Users` implements it with
`emailOf` mapped to the column of the table.

`TourSearch` is `findPublic`: the joined rows that pass the filters (`Rows`), their
order (`Before`), the page TypeORM cuts out of them (`Page`) and the total. The
departures are those of `TourStore`, so that the job and the clock close them.

`MailQueue` is `MailProcessor` behind the queue that `Bookings` fills: it
extends `Bookings`, whose names it keeps, with the life of a Bull job, as the
options of `mail.module.ts` set it; its own state machine is `QueueInit`,
`QueueNext` and `QueueSpec`. `job[j]` is what Bull knows of the job, `worker[w]` the
state of the processor.

| Action | Code |
| --- | --- |
| `TakeJob` | Bull hands a waiting job to `processBookingDecision` |
| `LoadBooking` | findOne; a booking without a decision completes the job |
| `SendBookingDecision`, `CompleteJob` | SMTP accepts the mail; the processor learns it and returns |
| `AttemptFails`, `Promote` | the processor throws: back-off and retry, or failed after `attempts` |
| `WorkerDies` | the process dies, its job stays active |
| `JobStalls` | Bull sees no renewal of the lock: the job waits again once, then has failed |

A job stalls when its worker died, but also when its worker only was too slow: that
one lives on without its lock (`locked`), may still load the booking and send a
mail while another worker has the job, and what it then answers changes nothing
of the job.

`lastMail` is a history variable, the last decision a user was told. The name of
a job, booking and decision, is what `queue.add` compares: a job whose name
is still known is not added again. Bull forgets completed jobs only after 1000
others.

`AuthSessions` is `AuthService`, `AuthSessionsService`, `AuthGuard` and
`RedisService` over the table of sessions, the keys of the blacklist and a clock
in seconds. A refresh token and its digest are one value, since the digest is
only compared. The HTTP requests are again records with a `step`:

| Action | Code |
| --- | --- |
| `CreateSession`, `AnswerLogin` | INSERT of the session; the access token is signed, and both tokens are answered |
| `FindActiveSession`, `SignAccessToken`, `SendRotation`, `RotateRefreshToken` | findOne; the access token gets its expiry; the UPDATE is sent; its condition holds or 401 |
| `VerifyAccessToken`, `CheckBlacklist`, `SkipBlacklist`, `Handle` | signature and expiry; the key in Redis; Redis does not answer; the handler |
| `StartLogout`, `BlacklistAccessToken`, `Revoke` | seconds left; SET with EX; UPDATE of the session, and the answer |
| `Fail` | a call throws or the process dies: the earlier ones stay |

A login that fails after its INSERT leaves a session whose tokens nobody knows:
`Answered` is the guard of its first refresh. `successors` and `loggedOut` are histories: which refresh token gave way to which,
and which access tokens were logged out with an answer.

`Sessions` is what login, refresh and logout promise: a session is opened, entered
with its first access token, renewed or ended, each in one step, and nothing
happens to it before it was entered. A renewal spends the refresh token, answers one access token and
never touches a revoked session. It may count from a moment in the past, since
the service reads its clock before PostgreSQL finds the row: an UPDATE that was
sent in time renews a session that has expired meanwhile. `AuthSessions` implements
it with `spent` mapped to the tokens that have a successor; requests, their steps,
the blacklist and failures are not seen there.

Modules `MC*` give the instances, `*Proofs` the proofs.

## Runs

| Run | Shows |
| --- | --- |
| `bookings_safety` | types, lock, checks, capacity, duplicates, mail jobs, prices, cancellation, refinement of `Reservation` |
| `bookings_overbooked` | violated: a decision saved over a cancellation takes a departure over its capacity |
| `schedules_safety` | an edit that does not race saves on what it read; no overlap; cancelled is final; a started departure changes only when midnight passed under the edit |
| `time_checks` | comparing neighbours finds exactly the overlaps |
| `tour_booking_safety` | edits respect the lock; history is kept; booked terms are kept unless the booking crossed an edit; a review rests on a decided booking of a trip that is over |
| `tour_booking_liveness` | two creates of one departure, and an edit or a delete of it, that wait for each other are all answered, a request that is refused or fails included |
| `tour_booking_cancelled_booked` | violated: a booking that crosses an edit ends on a cancelled departure |
| `auth_sessions_safety` | one successor per refresh token; a token logged out is refused while Redis answers; no session left half logged out without a failure; refinement of `Sessions`: revoked stays revoked |
| `mail` | once the jobs of a booking are done, the last mail tells its decision; every job is completed or given up, whatever fails, dies or stalls |
| `users` | one account per address; success means in effect; no update takes back a column it leaves out; refinement of `Accounts` |
| `images` | every row has its file; every file its row, its request or the accident that left it; sort orders without gap or repetition; files without a row are removed |
| `search_pages` | violated: sorted by price, the two cheapest departures are of one tour, and the first page of two holds that tour alone |

Bounds. Two concurrent requests are enough for every race above, which are all
between one reader-then-writer and one writer; the third booking key lets a slot
be sold, released, resold and revived. Capacity 2 with bookings of 1 and 2 slots
has the exact fit, the overflow by one and the overflow of two that fit alone.
Two days make a departure start; three, for the schedules, also leave one in the
future. `MaxFailures = 1` puts one failure at every point. The primary keys
bound the tables (`RoomForBooking`, `RoomForTimes`), so that an insert always
finds a key. In `TourBooking` there is one edit: two are in `Schedules`, where
they never wait for each other, since the transaction of one is one step.

In `AuthSessions`, three refresh tokens make two rotations after one another, two
sessions tell the right one from the other, and a clock of three seconds passes
the lifetime of access tokens (1) and of sessions (2); `RoomForTokens` keeps a
token of each kind for every request that asks for one. In `MailQueue` one booking
suffices, since jobs of different bookings share only the worker; attempts and
stalls have the values of the code and of Bull. The worker is one: Bull runs one
job at a time per process. Two processes could send a decision loaded earlier
after one loaded later, which `LastMailIsCurrent` excludes by its hypothesis, as
it does a third racing decision. A worker that lives on after its job stalled
finishes before it takes another job; with one worker no second one overtakes it,
with several the theorems on types still hold.

In `TourBooking` there is one booking key: what another edit, review or delete does
to a booking needs no second one, and the departure is over on the last of three
days. `tour_booking_liveness` has two keys for one user and two requests, so that
two creates wait for one row; the second finds the booking of the first, or, when
that failed or was cancelled, makes its own. In `Users` three addresses for two users leave one that both can want, and
the optional column has two values. In `TourImages` three files make two uploads,
one of two files; a failed write needs a second file, a repeated sort order two
uploads; one accident comes at every point. Two accidents add nothing, since each
touches files that the other does not, except those that both histories already
exempt. In `TourSearch` the initial states decide:
up to three departures of one day each, those of a tour apart from each other, as
the validation of the admin forms leaves them.

Deadlock is not checked, but in `users`, whose clients can always update:
elsewhere a bounded system stops when its keys are used up, its days have passed
and no request can arrive. That nobody waits for ever is what `AllAnswered`,
`JobEnds` and `FilesSettle` say. Symmetry is used in safety runs only.

Fairness. `Proceed` is weakly fair: the database answers each statement, or the
request ends by `Fail`. `Lock` and the steps of an edit are strongly fair:
PostgreSQL queues the waiters of a row lock, so that a waiter cannot be
overtaken for ever. In `MailQueue` a worker that has a job goes on or fails, a
back-off ends, Bull takes back a job nobody holds the lock of, and `TakeJob` is strongly fair for each job: Bull's list is first
in, first out, so that an idle worker comes to every job. In `TourImages` each
request is weakly fair: a promise of the file system or the database settles.
Nothing is assumed of arrivals, of failures, of the clock or of the daily job.

## Proofs

For every number of requests, users, departures, bookings, failures and days,
from the named assumptions on the constants (of `StoreAssumption`, that booking
keys are finite and bounds are naturals). Every inductive invariant was first
checked by TLC on the run of its module.

`BookingsProofs`: `TypeOK`, `LockedRowIsCurrent`, `ChecksStillHold`,
`CapacityRespected` and `OneActiveBooking` are invariants. The inductive
invariant is their conjunction. Capacity alone is not inductive: at the INSERT one
must know that the sum checked a step earlier still fits, which is
`ChecksStillHold`, and that nobody else inserted in between, which is
`LockedRowIsCurrent`. That a cancellation or a decision in between can only free
slots, except through `overwritten`, is the monotonicity of `Seats`.
`DecisionHasMail` is inductive with the types: the step after the save is the one
that adds the job, and jobs are never taken back. From the same invariant,
`BookedOnOpenDeparture` and `CancelOnlyPending` hold of every step, and every step
of `Bookings` is a step of `Reservation` or stutters. Lock and checks (`ChecksInv`)
need neither capacity nor duplicates, which is what the composition uses, where an
edit may lower a capacity.

`SchedulesProofs`: `ScheduleTypeOK`, `EditSeesCurrentTimes`, `NoOverlapUnlessRaced`,
`CancelledIsFinal` and `StartedIsFinal`, for every calendar, every set of forms and
every number of edits. The inductive invariant adds to these properties that

* the tour and the departures an edit found are there with each other, or gone for
  good: their keys are not used again (`FoundIsKept`);
* what it found and submits passed the checks of the day it found them
  (`FoundIsValidated`);
* the row TypeORM reloaded lies between what was found and what the table has, each
  the same but for the daily job (`LoadedIsCurrent`), so that a column left out
  has the value that was validated.

No overlap follows: the table after a save is the list the edit validated, with new
keys for the new times. `SavedTable` and `CreatedTable` say once what the commit
leaves in the table. The proof found one case the history had missed: a save
inserts a tour again that was deleted meanwhile, and another edit of it, still
under way, then saves what it read before; so `SaveDeletedTour` notes the race
too. `FormAssumption` says what the validated requests are, and that primary keys
are not times.

`TimeChecksProofs`: `ChecksFindOverlaps`, for lists of any length over any calendar.
`NeighboursDecideOverlap` is the argument behind the loop of `validateEditedTimes`:
in a list sorted by start date, no two ranges overlap if no two neighbours do.
That the list the loop sees is sorted, and holds each time kept exactly once, is
`SortedTimes`. It rests on `SortingExists`, which needs no induction over the list:
the rank of a time, the number of times that do not come after it, is an injection
of the times kept into as many numbers, hence a bijection, and its inverse is
the sorted order. `SortedByStart` is filter and sort at once, written as an order of
the positions: what a recursive sort computes could not be reasoned about here.

`TourBookingProofs`: both services on the same tables, with reviews. `Services`
says that the invariants of the parts survive the composition: `ChecksInv` of
`BookingsProofs`, the inductive invariant of `SchedulesProofs`, the types of
`Reviews`. From it follow `SystemTypeOK` and `LockedRowIsCurrent`. A step of one
service is, for the tables it shares with the other, a step the other already
allows, but for two: an edit may change a departure, which the lock excludes while
a create holds it, and a create may add a booking that an edit did not count,
which is `crossed`. From there:

* `HistoryIsKept` needs only that bookings are never removed and that a delete
  meets the foreign key;
* `BookedTermsAreKept` needs `EditsHaveCounted`: a departure that an edit past its
  count must find unbooked has no booking, or is `crossed`;
* `ReviewsAreEarned` needs `ReviewersHaveEarned`, the same of a review between its
  read and its INSERT; a decision may be overwritten, but by another decision.

The promises each service makes alone are proved again of `SystemSpec`, under the
names that end in `InSystem`; the runs check them on the services alone. Of
Bookings, `ChecksStillHold`, `OneActiveBooking`, `DecisionHasMail`,
`BookedOnOpenDeparture` and `CancelOnlyPending`: `StepKeepsOneBooking`, `StepKeepsMail`
and `StepCancelsPending` use nothing that an admin can break. Of Schedules,
`EditSeesCurrentTimes`, `NoOverlapUnlessRaced`, `CancelledIsFinal` and
`StartedIsFinal`: `StepKeepsCancelled` and `StepKeepsStarted` need `ScheduleInv`, which
no booking disturbs. The exception is `CapacityRespected`, false in the system, since an
edit that counted no booking may make a departure smaller: what is left of it is
the last conjunct of `BookedTermsAreKept`. Nor does `ImplementsReservation` hold
there: `Reservation` has no admins.

`MailQueueProofs`, from `MailAssumption`: the types of the queue, for every number of
workers, attempts and stalls; a job that waits or is tried has an attempt left. It
rests on `LocksPaired`: a job whose lock a worker holds is active and has no other
such worker, so that an attempt without the lock changes no job.
`LastMailIsCurrent`, for any number of bookings, attempts and stalls, whatever
crashes and retries: a decision reaches its user in one of three ways
(`MailsFollowDecisions`): a request is about to add its job, whose name is new
(`JobComes`); a job of the booking is still to read it, or a worker has read this
decision and will send it (`MailComes`); or the user was told it and no worker is
about to tell another (`MailTold`). What must not happen is that the name of a
decision's job is taken when the decision is saved for a second time. So
`OneLateDecision`: of a decided booking one more decision at most can come, and then
all its jobs are of the decision it has. This is where the hypothesis of two
requests is used; one worker is used where a mail must not overtake another.

`TourImagesProofs`: `TypeOK`, `RowsHaveFiles`, `FilesAreKnown` and
`SortOrdersAreDense`, for every number of admins, tours, files and accidents. None is
inductive alone. `UploadsAreApart`: two requests never store the same file, nor one
that has a row. `RemovedHaveNoRows`: what a request is about to unlink has no row,
but for `unsure`. `DeletesKnowImages`: a delete has found the images of its tour, or
those uploaded since will be noted as `stray`. `CountsAreCurrent`: the number an
upload counted is the number of rows at its INSERT, unless the tour is raced. The
sort orders are then an interval extended by an interval, whose length is the
number of files stored, since names are distinct; this is where the images must be
finite.

`AuthSessionsProofs`, from `TimeAssumption`: `TypeOK`, `OneSuccessor`,
`LoggedOutTokenRefused`, `BlacklistedMeansRevoked` and `ImplementsSessions`, for
every number of sessions, tokens, requests and seconds. `OneSuccessor` becomes
inductive with `TokensDiffer`, the unique column of the table; four lemmas say what
each kind of step does to the sessions, and the UPDATE's condition on the old token
does the rest. `LoggedOutTokenRefused` follows from `KeysLastLongEnough`: the seconds
left that a logout computed reach to the expiry of the token whenever the SET runs,
and a key that was set reaches there too. `BlacklistedMeansRevoked` rests on a
revocation being for good. Each step that writes a session is one of `Sessions`, and
every other stutters: `CreationOpens`, `AnswerEnters`, `RotationRenews` and
`RevokeEnds`. The mapping of a rotation needs that the clocks a request read lie in
the past, that of the access token first (`ClocksInOrder`); what was found before
the UPDATE plays no part, since the condition of the UPDATE repeats it. And
`SessionsEntered`: while a login has not answered, no other request knows its
session. `EndedSessionStaysEnded` says
the same of single steps, with the request to blame: no revoked session changes,
and an expired one only by the UPDATE of a request in progress or a logout.

`UsersProofs`, for every number of users, addresses, columns and requests: `TypeOK`,
`EmailsUnique`, `SuccessIsInEffect`, `OnlySubmittedChanges`, and that `Users`
implements `Accounts`. `EmailsUnique` is inductive with the types, since both writes
test the unique column. `SuccessIsInEffect` needs `LoadedIsCurrent`: what a request
reloaded is still the row when it saves, unless it was overtaken; the columns it
then leaves out are those that already have the submitted value.

Only model-checked:

* liveness (`AllAnswered`, `JobEnds`, `FilesSettle`): fairness is outside what the
  proof system handles;
* the three violated properties, whose counterexamples are the point.

## Where code and documents differ

The violated runs are the list; each is one entry under `findings` with the
line of the document it contradicts. `search_pages` is about SQL: a page counts
joined rows, not tours. The others have one cause: rows are read, checked and
written later without a lock or a condition, in `updateStatus` and in
`ToursService.update`. `create` and `cancel` show both remedies at work. The same
cause has more effects, which the exemptions of the passing properties state and
no run of its own repeats:

* two edits that each add a departure validate before either saves, and the
  departures overlap (`raced` in `NoOverlapUnlessRaced`), though "times of the same
  tour cannot overlap" (`docs/tour-schedules.md:171`);
* an edit that read a departure before it was cancelled writes it open again
  (`raced` in `CancelledIsFinal`), though a cancelled time "cannot be reopened"
  (`:169`);
* an edit validated before midnight changes a departure that has started, or
  writes `open` over the `closed` of the daily job (`StartedIsFinal`);
* approved, rejected and approved again by three requests that all read pending:
  the third job has the name of the first, and the last mail says rejected
  (`LastMailIsCurrent`);
* a file stays on the disk for good when an upload commits between the read and
  the DELETE of its tour (`stray` in `FilesAreKnown`), and a row loses its file
  when the answer to its COMMIT is lost (`unsure` in `RowsHaveFiles`).

`attempts: 3` (`mail.module.ts:16`) counts the first attempt, so that a failed
mail is retried twice and not "three times" (`docs/tour-schedules.md:68`).
`findAll` and the lists of bookings page as `findPublic` does.

## Not modelled, and the plan

Not modelled: the lists of admins and of bookings and single tours, which only
read; serializers, DTO decorators, guards of roles, i18n, configuration, which
keep no state; migrations but for the constraints they leave. Several statements
of one transaction are one step where no other request can tell the difference.
PostgreSQL's detection of deadlocks is a `Fail` or `FailEdit`. A category deleted
under an edit is a failed statement: no endpoint deletes one.

Next: that an upload, as `TourImages` interleaves it, is the atomic change of rows
and files an admin sees when nothing fails.
