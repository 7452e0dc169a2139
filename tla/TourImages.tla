------------------------------ MODULE TourImages ------------------------------
(***************************************************************************)
(* ToursService: the uploaded files of a tour on the disk and their rows   *)
(* in tour_images.  No transaction spans both: files are written before    *)
(* the rows, and unlinked after a transaction failed or a tour was         *)
(* deleted.                                                                *)
(*                                                                         *)
(*   create:  write* -> transaction -> respond                             *)
(*   update:  write* -> transaction -> insert                              *)
(*   delete:  delete -> cleanup                                            *)
(*                                                                         *)
(* create and update go to cleanup when their try block throws.  The       *)
(* departures a tour is saved with belong to Schedules; here they are      *)
(* among the statements that may fail the transaction.                     *)
(***************************************************************************)
EXTENDS Integers, Sequences, FiniteSets, Functions

CONSTANTS Tour,        \* primary keys of tours
          File,        \* names of files: randomUUID never gives one twice
          NewTour,     \* the target of an upload that creates its tour
          MaxImages,   \* MAX_TOUR_IMAGES: files of one upload
          Admin,       \* HTTP requests in progress at the same time
          MaxAccidents \* bound on the accidents that leave files behind

VARIABLES tours,       \* rows of tours
          deleted,     \* primary keys of deleted tours: never given again
          images,      \* rows of tour_images, by the file they name
          files,       \* files in uploads/tours
          req,         \* the state of each request
          stray,       \* history: files an accident left to nobody
          unsure,      \* history: files whose COMMIT was not answered
          raced,       \* history: tours with two uploads that both counted
          accidents    \* number of accidents

vars == <<tours, deleted, images, files, req, stray, unsure, raced, accidents>>

ASSUME ImagesAssumption ==
  MaxImages \in Nat \ {0} /\ MaxAccidents \in Nat /\ NewTour \notin Tour

ImageRow == [tour: Tour, sortOrder: Nat]

Idle == [step |-> "idle"]
Target == Tour \cup {NewTour}
UploadSteps == {"write", "transaction", "insert"}

ImagesOf(tour) == {f \in DOMAIN images : images[f].tour = tour}

\* The files only this request knows of.
Held(r) ==
  CASE req[r].step \in UploadSteps -> Range(req[r].stored)
    [] req[r].step = "cleanup" -> req[r].files
    [] OTHER -> {}

\* The files a delete read with its tour.
Listed(r) == IF req[r].step = "delete" THEN req[r].files ELSE {}

InProgress == UNION {Held(r) : r \in Admin}

\* The names nothing refers to.  They are all alike, so that one of them
\* stands for a fresh UUID.
NewNames ==
  File \ (files \cup DOMAIN images \cup InProgress
            \cup UNION {Listed(r) : r \in Admin})
NewName == CHOOSE f \in NewNames : TRUE

Accident == accidents < MaxAccidents /\ accidents' = accidents + 1

End(r) == req' = [req EXCEPT ![r] = Idle]

CleanUp(r, names) ==
  req' = [req EXCEPT ![r] = [step |-> "cleanup", files |-> names]]

-----------------------------------------------------------------------------
(* storeTourImages *)

StartUpload(r, target) ==
  /\ req[r] = Idle
  /\ req' = [req EXCEPT ![r] = [step |-> "write", target |-> target,
                                stored |-> << >>]]
  /\ UNCHANGED <<tours, deleted, images, files, stray, unsure, raced, accidents>>

\* One file of the upload is written, and it is the last one or not.
WriteFile(r) ==
  /\ req[r].step = "write"
  /\ NewNames # {}
  /\ LET stored == Append(req[r].stored, NewName) IN
       \E next \in {"write", "transaction"} :
         /\ next = "write" => Len(stored) < MaxImages
         /\ req' = [req EXCEPT ![r] = [step |-> next, target |-> req[r].target,
                                       stored |-> stored]]
  /\ files' = files \cup {NewName}
  /\ UNCHANGED <<tours, deleted, images, stray, unsure, raced, accidents>>

\* A plausible bug: a failed write leaves the files written before it.
WriteFileFails_NoCleanup(r) ==
  /\ req[r].step = "write"
  /\ End(r)
  /\ UNCHANGED <<tours, deleted, images, files, stray, unsure, raced, accidents>>

\* A write fails: the files before it are cleaned up.  A file it has begun is
\* not in the list and stays.
WriteFileFails(r) ==
  /\ req[r].step = "write"
  /\ \E begun \in {{}} \cup (IF NewNames = {} THEN {} ELSE {{NewName}}) :
       /\ files' = files \cup begun
       /\ stray' = stray \cup begun
       /\ IF begun = {} THEN UNCHANGED accidents ELSE Accident
  /\ CleanUp(r, Range(req[r].stored))
  /\ UNCHANGED <<tours, deleted, images, unsure, raced>>

-----------------------------------------------------------------------------
(* The transactions of create and update *)

\* createImageEntities, INSERT and COMMIT: the stored files become rows of the
\* tour from sort order first on.  A delete that has read the tour's images
\* will not know of them.
AddImages(r, tour, first) ==
  LET stored == req[r].stored
      new == [f \in Range(stored) |->
                [tour |-> tour,
                 sortOrder |-> first + (CHOOSE i \in DOMAIN stored :
                                          stored[i] = f) - 1]]
  IN  /\ images' = [f \in DOMAIN images \cup DOMAIN new |->
                      IF f \in DOMAIN new THEN new[f] ELSE images[f]]
      /\ stray' = IF \E x \in Admin : /\ req[x].step = "delete"
                                      /\ req[x].tour = tour
                  THEN stray \cup DOMAIN new ELSE stray

\* The tour, its departures and its images are committed together; then the
\* tour is read again for the answer.
CreateTour(r) ==
  /\ req[r].step = "transaction"
  /\ req[r].target = NewTour
  /\ \E tour \in Tour \ (tours \cup deleted) :
       tours' = tours \cup {tour} /\ AddImages(r, tour, 0)
  /\ req' = [req EXCEPT ![r] = [step |-> "respond"]]
  /\ UNCHANGED <<deleted, files, unsure, raced, accidents>>

\* The promise of that read is returned, not awaited: even when it fails, the
\* catch block does not see it, and the files of the committed tour stay.
Respond(r) ==
  /\ req[r].step = "respond"
  /\ End(r)
  /\ UNCHANGED <<tours, deleted, images, files, stray, unsure, raced, accidents>>

\* update finds its tour, saves its departures and counts its images.
CountImages(r) ==
  /\ req[r].step = "transaction"
  /\ req[r].target \in tours
  /\ req' = [req EXCEPT ![r] =
               [step |-> "insert", target |-> req[r].target,
                stored |-> req[r].stored,
                count |-> Cardinality(ImagesOf(req[r].target))]]
  /\ UNCHANGED <<tours, deleted, images, files, stray, unsure, raced, accidents>>

\* Another upload to the tour has counted its images too.
OtherUpload(r) ==
  \E x \in Admin \ {r} : req[x].step = "insert" /\ req[x].target = req[r].target

\* A plausible bug: every upload starts at sort order 0.
InsertImages_FromZero(r) ==
  /\ req[r].step = "insert"
  /\ req[r].target \in tours
  /\ AddImages(r, req[r].target, 0)
  /\ raced' = IF OtherUpload(r) THEN raced \cup {req[r].target} ELSE raced
  /\ End(r)
  /\ UNCHANGED <<tours, deleted, files, unsure, accidents>>

InsertImages(r) ==
  /\ req[r].step = "insert"
  /\ req[r].target \in tours
  /\ AddImages(r, req[r].target, req[r].count)
  /\ raced' = IF OtherUpload(r) THEN raced \cup {req[r].target} ELSE raced
  /\ End(r)
  /\ UNCHANGED <<tours, deleted, files, unsure, accidents>>

\* The COMMIT takes effect and its answer is lost: the files of committed rows
\* are cleaned up.
CommitUnanswered(r) ==
  /\ \/ /\ req[r].step = "insert"
        /\ req[r].target \in tours
        /\ AddImages(r, req[r].target, req[r].count)
        /\ raced' = IF OtherUpload(r) THEN raced \cup {req[r].target} ELSE raced
        /\ UNCHANGED tours
     \/ /\ req[r].step = "transaction"
        /\ req[r].target = NewTour
        /\ \E tour \in Tour \ (tours \cup deleted) :
             tours' = tours \cup {tour} /\ AddImages(r, tour, 0)
        /\ UNCHANGED raced
  /\ unsure' = unsure \cup Range(req[r].stored)
  /\ CleanUp(r, Range(req[r].stored))
  /\ Accident
  /\ UNCHANGED <<deleted, files>>

\* A plausible bug: a 404 is answered before the catch block cleans up.
TransactionFails_NoCleanup(r) ==
  /\ req[r].step \in {"transaction", "insert"}
  /\ End(r)
  /\ UNCHANGED <<tours, deleted, images, files, stray, unsure, raced, accidents>>

\* 404, a rejected departure, a foreign key or any failed statement: the
\* transaction is rolled back and the catch block cleans up.
TransactionFails(r) ==
  /\ req[r].step \in {"transaction", "insert"}
  /\ CleanUp(r, Range(req[r].stored))
  /\ UNCHANGED <<tours, deleted, images, files, stray, unsure, raced, accidents>>

-----------------------------------------------------------------------------
(* delete *)

FindTourWithImages(r, tour) ==
  /\ req[r] = Idle
  /\ tour \in tours
  /\ req' = [req EXCEPT ![r] = [step |-> "delete", tour |-> tour,
                                files |-> ImagesOf(tour)]]
  /\ UNCHANGED <<tours, deleted, images, files, stray, unsure, raced, accidents>>

\* A plausible bug: no ON DELETE CASCADE from tours to tour_images.
RemoveRows_NoCascade(tour) ==
  /\ tours' = tours \ {tour}
  /\ deleted' = deleted \cup {tour}
  /\ UNCHANGED images

\* The rows of tour_images go with their tour, ON DELETE CASCADE; nothing is
\* deleted, and nothing fails, when the tour is gone already.
RemoveRows(tour) ==
  /\ tours' = tours \ {tour}
  /\ deleted' = deleted \cup {tour}
  /\ images' = [f \in DOMAIN images \ ImagesOf(tour) |-> images[f]]

\* A plausible bug: the files are unlinked before the rows are deleted.
DeleteTour_FilesFirst(r) ==
  /\ req[r].step = "delete"
  /\ files' = files \ req[r].files
  /\ \/ RemoveRows(req[r].tour)
     \/ UNCHANGED <<tours, deleted, images>>
  /\ End(r)
  /\ UNCHANGED <<stray, unsure, raced, accidents>>

DeleteTour(r) ==
  /\ req[r].step = "delete"
  /\ RemoveRows(req[r].tour)
  /\ CleanUp(r, req[r].files)
  /\ UNCHANGED <<files, stray, unsure, raced, accidents>>

\* 409 for a tour with bookings, or a failed DELETE: the files stay.
DeleteRefused(r) ==
  /\ req[r].step = "delete"
  /\ End(r)
  /\ UNCHANGED <<tours, deleted, images, files, stray, unsure, raced, accidents>>

\* The DELETE takes effect and its answer is lost: no file is unlinked.
DeleteUnanswered(r) ==
  /\ req[r].step = "delete"
  /\ RemoveRows(req[r].tour)
  /\ End(r)
  /\ stray' = stray \cup (req[r].files \cap files)
  /\ Accident
  /\ UNCHANGED <<files, unsure, raced>>

-----------------------------------------------------------------------------
\* cleanupTourImages: every unlink is tried, and a failed one is ignored.
CleanupTourImages(r) ==
  /\ req[r].step = "cleanup"
  /\ \E kept \in SUBSET (req[r].files \cap files) :
       /\ files' = files \ (req[r].files \ kept)
       /\ stray' = stray \cup kept
       /\ IF kept = {} THEN UNCHANGED accidents ELSE Accident
  /\ End(r)
  /\ UNCHANGED <<tours, deleted, images, unsure, raced>>

\* The process dies with all its requests; the database rolls back what was
\* not committed, and nobody remembers the files.
Crash ==
  /\ \E r \in Admin : req[r] # Idle
  /\ req' = [r \in Admin |-> Idle]
  /\ stray' = stray \cup (InProgress \cap files)
  /\ Accident
  /\ UNCHANGED <<tours, deleted, images, files, unsure, raced>>

-----------------------------------------------------------------------------
\* Tours without images exist too.
Init ==
  /\ tours \in SUBSET Tour
  /\ deleted = {}
  /\ images = [f \in {} |-> f]
  /\ files = {}
  /\ req = [r \in Admin |-> Idle]
  /\ stray = {}
  /\ unsure = {}
  /\ raced = {}
  /\ accidents = 0

Submit(r) ==
  \/ \E target \in Target : StartUpload(r, target)
  \/ \E tour \in Tour : FindTourWithImages(r, tour)

Continue(r) ==
  \/ WriteFile(r) \/ WriteFileFails(r)
  \/ CreateTour(r) \/ Respond(r)
  \/ CountImages(r) \/ InsertImages(r) \/ CommitUnanswered(r)
  \/ TransactionFails(r)
  \/ DeleteTour(r) \/ DeleteRefused(r) \/ DeleteUnanswered(r)
  \/ CleanupTourImages(r)

Next == Crash \/ \E r \in Admin : Submit(r) \/ Continue(r)

Spec == Init /\ [][Next]_vars

\* Every await settles.
FairSpec == Spec /\ \A r \in Admin : WF_vars(Continue(r))

-----------------------------------------------------------------------------
(* Properties *)

UploadState ==
  [step: {"write", "transaction"}, target: Target, stored: Seq(File)]
    \cup [step: {"insert"}, target: Tour, stored: Seq(File), count: Nat]

RequestOK(state) ==
  \/ state \in {Idle, [step |-> "respond"]}
  \/ /\ state \in UploadState
     /\ IsInjective(state.stored)
     /\ Len(state.stored) <= MaxImages
     /\ state.step = "write" => Len(state.stored) < MaxImages
  \/ state \in [step: {"cleanup"}, files: SUBSET File]
  \/ state \in [step: {"delete"}, tour: Tour, files: SUBSET File]

TypeOK ==
  /\ tours \subseteq Tour /\ deleted \subseteq Tour /\ raced \subseteq Tour
  /\ tours \cap deleted = {}
  /\ DOMAIN images \subseteq File
  /\ images \in [DOMAIN images -> ImageRow]
  /\ \A f \in DOMAIN images : images[f].tour \in tours
  /\ files \subseteq File /\ stray \subseteq File /\ unsure \subseteq File
  /\ DOMAIN req = Admin
  /\ \A r \in Admin : RequestOK(req[r])

\* A row of tour_images names a file that is there, whatever fails and races,
\* unless the answer to its COMMIT was lost.
RowsHaveFiles == DOMAIN images \ unsure \subseteq files

\* A file on the disk has its row or a request that takes care of it; the rest
\* was left by a crash, a write or an unlink that failed, a DELETE without an
\* answer, or an upload that a delete of its tour did not see.
FilesAreKnown == files \subseteq DOMAIN images \cup InProgress \cup stray

\* The images of a tour are numbered from 0 without gap or repetition, unless
\* two uploads to it counted before either was saved.
SortOrdersAreDense ==
  \A tour \in tours \ raced :
    {images[f].sortOrder : f \in ImagesOf(tour)}
      = 0..(Cardinality(ImagesOf(tour)) - 1)

\* A file without a row gets one or is removed in the end, but for accidents.
FilesSettle ==
  \A f \in File :
    f \in files \ DOMAIN images
      ~> f \in DOMAIN images \cup stray \/ f \notin files
===============================================================================
