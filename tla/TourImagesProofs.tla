--------------------------- MODULE TourImagesProofs ---------------------------
(* Theorems about TourImages: no row without its file, no file without an *)
(* owner, whatever fails and races.                                       *)
EXTENDS TourImages, FiniteSetTheorems, TLAPS

Uploading(r) == req[r].step \in UploadSteps

Stored(r) == Range(req[r].stored)

\* The files of an upload are on the disk, have no row yet, and belong to no
\* other request.
UploadsAreApart ==
  \A r \in Admin : Uploading(r) =>
    /\ Stored(r) \subseteq files \ DOMAIN images
    /\ \A x \in Admin \ {r} : Stored(r) \cap (Held(x) \cup Listed(x)) = {}

\* What a cleanup removes has no row, and what a delete has read has a row of
\* its tour or none.
RemovedHaveNoRows ==
  \A r \in Admin :
    /\ req[r].step = "cleanup" =>
         req[r].files \cap DOMAIN images \subseteq unsure
    /\ req[r].step = "delete" =>
         req[r].files \cap DOMAIN images \subseteq ImagesOf(req[r].tour)

\* The images a delete did not read are noted.
DeletesKnowImages ==
  \A r \in Admin : req[r].step = "delete" =>
    ImagesOf(req[r].tour) \subseteq req[r].files \cup stray

\* What an upload counted still holds unless it raced.
CountsAreCurrent ==
  \A r \in Admin : req[r].step = "insert" =>
    /\ req[r].target \in tours \cup deleted
    /\ req[r].target \in tours \ raced =>
         req[r].count = Cardinality(ImagesOf(req[r].target))

\* How the requests, the files and the rows go together.
TablesAndFiles ==
  /\ UploadsAreApart
  /\ RemovedHaveNoRows
  /\ DeletesKnowImages
  /\ CountsAreCurrent
  /\ RowsHaveFiles
  /\ FilesAreKnown
  /\ SortOrdersAreDense

IInv == TypeOK /\ IsFiniteSet(DOMAIN images) /\ TablesAndFiles


-----------------------------------------------------------------------------
(* Requests *)

LEMMA RequestState ==
  ASSUME TypeOK, NEW r \in Admin
  PROVE  /\ Uploading(r) =>
              /\ req[r] \in UploadState
              /\ req[r].target \in Target
              /\ req[r].stored \in Seq(File) /\ IsInjective(req[r].stored)
              /\ Len(req[r].stored) <= MaxImages
              /\ req[r].step = "write" => Len(req[r].stored) < MaxImages
              /\ req[r].step = "insert" =>
                   req[r].target \in Tour /\ req[r].count \in Nat
         /\ req[r].step = "cleanup" => req[r].files \subseteq File
         /\ req[r].step = "delete" =>
              req[r].tour \in Tour /\ req[r].files \subseteq File
         /\ Held(r) \subseteq File /\ Listed(r) \subseteq File
<1>1. RequestOK(req[r])
  BY DEF TypeOK
<1>2. CASE req[r] \in UploadState
  <2>1. /\ req[r].step \in UploadSteps
        /\ req[r].target \in Target
        /\ req[r].stored \in Seq(File)
        /\ req[r].step = "insert" =>
             req[r].target \in Tour /\ req[r].count \in Nat
    BY <1>2 DEF UploadState, UploadSteps, Target
  <2>2. /\ IsInjective(req[r].stored)
        /\ Len(req[r].stored) <= MaxImages
        /\ req[r].step = "write" => Len(req[r].stored) < MaxImages
    BY <1>1, <2>1 DEF RequestOK, Idle, UploadSteps
  <2>3. Range(req[r].stored) \subseteq File
    BY <2>1 DEF Range
  <2> QED
    BY <1>2, <2>1, <2>2, <2>3 DEF Held, Listed, Uploading, UploadSteps
<1>3. CASE req[r] \notin UploadState
  BY <1>1, <1>3 DEF RequestOK, Idle, Held, Listed, Uploading, UploadSteps
<1> QED
  BY <1>2, <1>3

LEMMA NewNameIsFresh ==
  ASSUME NewNames # {}
  PROVE  /\ NewName \in File \ (files \cup DOMAIN images)
         /\ \A r \in Admin : NewName \notin Held(r) \cup Listed(r)
<1>1. NewName \in NewNames
  BY DEF NewName
<1> QED
  BY <1>1 DEF NewNames, InProgress

LEMMA AppendedNames ==
  ASSUME NEW stored \in Seq(File), IsInjective(stored),
         NEW f \in File \ Range(stored)
  PROVE  /\ Append(stored, f) \in Seq(File)
         /\ IsInjective(Append(stored, f))
         /\ Len(Append(stored, f)) = Len(stored) + 1
         /\ Range(Append(stored, f)) = Range(stored) \cup {f}
<1>1. /\ Append(stored, f) \in Seq(File)
      /\ DOMAIN stored = 1..Len(stored)
      /\ DOMAIN Append(stored, f) = 1..(Len(stored) + 1)
      /\ Len(stored) \in Nat
      /\ Len(Append(stored, f)) = Len(stored) + 1
      /\ \A i \in 1..Len(stored) : Append(stored, f)[i] = stored[i]
      /\ Append(stored, f)[Len(stored) + 1] = f
  OBVIOUS
<1>2. \A i \in 1..Len(stored) : stored[i] # f
  BY <1>1 DEF Range
<1>3. \A i \in 1..(Len(stored) + 1) :
        i \in 1..Len(stored) \/ i = Len(stored) + 1
  BY <1>1
<1>4. IsInjective(Append(stored, f))
  BY <1>1, <1>2, <1>3 DEF IsInjective
<1>5. Range(Append(stored, f)) = Range(stored) \cup {f}
  BY <1>1, <1>3 DEF Range
<1> QED
  BY <1>1, <1>4, <1>5

\* An upload writes as many files as it has names.
LEMMA StoredFiles ==
  ASSUME NEW stored \in Seq(File), IsInjective(stored)
  PROVE  /\ Range(stored) \subseteq File
         /\ IsFiniteSet(Range(stored))
         /\ Cardinality(Range(stored)) = Len(stored)
<1>1. /\ DOMAIN stored = 1..Len(stored) /\ Len(stored) \in Nat
      /\ stored \in [1..Len(stored) -> Range(stored)]
  BY DEF Range
<1>2. stored \in Bijection(1..Len(stored), Range(stored))
  BY <1>1 DEF Bijection, Injection, Surjection, IsInjective, Range
<1>3. ExistsBijection(1..Len(stored), Range(stored))
  BY <1>2 DEF ExistsBijection
<1>4. /\ IsFiniteSet(Range(stored)) 
      /\ Cardinality(Range(stored)) = Len(stored)
  BY <1>1, <1>3, FS_NatBijection, FS_CountingElements
<1> QED
  BY <1>4 DEF Range

\* The rows AddImages writes.
LEMMA AddedRows ==
  ASSUME TypeOK, NEW r \in Admin, Uploading(r), NEW tour \in Tour,
         NEW first \in Nat, AddImages(r, tour, first)
  PROVE  /\ DOMAIN images' = DOMAIN images \cup Stored(r)
         /\ images' \in [DOMAIN images' -> ImageRow]
         /\ \A f \in (DOMAIN images) \ Stored(r) : images'[f] = images[f]
         /\ \A f \in Stored(r) : images'[f].tour = tour
         /\ {images'[f].sortOrder : f \in Stored(r)}
              = first..(first + Len(req[r].stored) - 1)
         /\ stray \subseteq stray' /\ stray' \subseteq stray \cup Stored(r)
         /\ \A x \in Admin : req[x].step = "delete" /\ req[x].tour = tour =>
              Stored(r) \subseteq stray'
<1> DEFINE stored == req[r].stored
           index(f) == CHOOSE i \in DOMAIN stored : stored[i] = f
           new == [f \in Range(stored) |->
                     [tour |-> tour, sortOrder |-> first + index(f) - 1]]
<1>1. /\ stored \in Seq(File) /\ IsInjective(stored)
      /\ DOMAIN stored = 1..Len(stored) /\ Len(stored) \in Nat
  BY RequestState
<1>2. \A f \in Range(stored) :
        index(f) \in 1..Len(stored) /\ stored[index(f)] = f
  BY <1>1 DEF Range
<1>3. \A i \in 1..Len(stored) :
        stored[i] \in Range(stored) /\ index(stored[i]) = i
  BY <1>1, <1>2 DEF Range, IsInjective
<1> HIDE DEF index
<1>4. /\ images' = [f \in DOMAIN images \cup Range(stored) |->
                      IF f \in Range(stored) THEN new[f] ELSE images[f]]
      /\ stray' = IF \E x \in Admin :
                       req[x].step = "delete" /\ req[x].tour = tour
                  THEN stray \cup Range(stored) ELSE stray
  BY DEF AddImages, index
<1>5. \A f \in Range(stored) :
        /\ images'[f].tour = tour
        /\ images'[f].sortOrder = first + index(f) - 1
        /\ images'[f] \in ImageRow
  BY <1>2, <1>4 DEF ImageRow
<1>6. {images'[f].sortOrder : f \in Range(stored)}
        = first..(first + Len(stored) - 1)
  <2>1. ASSUME NEW f \in Range(stored)
        PROVE  images'[f].sortOrder \in first..(first + Len(stored) - 1)
    BY <1>1, <1>2, <1>5
  <2>2. ASSUME NEW n \in first..(first + Len(stored) - 1)
        PROVE  \E f \in Range(stored) : images'[f].sortOrder = n
    <3>1. n - first + 1 \in 1..Len(stored)
      BY <1>1
    <3>2. stored[n - first + 1] \in Range(stored)
          /\ index(stored[n - first + 1]) = n - first + 1
      BY <3>1, <1>3
    <3>3. images'[stored[n - first + 1]].sortOrder = n
      BY <1>5, <3>2
    <3> QED
      BY <3>2, <3>3
  <2> QED
    BY <2>1, <2>2
<1>7. images' \in [DOMAIN images' -> ImageRow]
  BY <1>4, <1>5 DEF TypeOK
<1> QED
  BY <1>4, <1>5, <1>6, <1>7 DEF Stored

-----------------------------------------------------------------------------
(* Type correctness *)

LEMMA InitTyped == Init => TypeOK
BY ImagesAssumption DEF Init, TypeOK, RequestOK, Idle

\* What a request becomes, the others staying as they are.
LEMMA RequestTyped ==
  ASSUME TypeOK, NEW r \in Admin, NEW state, RequestOK(state),
         req' = [req EXCEPT ![r] = state]
  PROVE  DOMAIN req' = Admin /\ \A x \in Admin : RequestOK(req'[x])
BY DEF TypeOK

LEMMA EndsTyped == RequestOK(Idle)
BY DEF RequestOK

LEMMA CleanUpTyped ==
  ASSUME NEW names \in SUBSET File
  PROVE  RequestOK([step |-> "cleanup", files |-> names])
BY DEF RequestOK

LEMMA ImagesOfAreFinite ==
  ASSUME IsFiniteSet(DOMAIN images)
  PROVE  \A tour : IsFiniteSet(ImagesOf(tour))
                     /\ Cardinality(ImagesOf(tour)) \in Nat
<1> SUFFICES ASSUME NEW tour
             PROVE  IsFiniteSet(ImagesOf(tour))
                      /\ Cardinality(ImagesOf(tour)) \in Nat
  OBVIOUS
<1>1. ImagesOf(tour) \in SUBSET DOMAIN images
  BY DEF ImagesOf
<1> QED
  BY <1>1, FS_Subset, FS_CardinalityType

\* Only uploads add rows, as many as they have files.
LEMMA ImagesStayFinite ==
  ASSUME TypeOK, IsFiniteSet(DOMAIN images), [Next]_vars
  PROVE  IsFiniteSet(DOMAIN images')
<1>1. ASSUME NEW r \in Admin, Uploading(r), NEW tour \in Tour,
             NEW first \in Nat, AddImages(r, tour, first)
      PROVE  IsFiniteSet(DOMAIN images')
  <2>1. IsFiniteSet(Stored(r))
    BY <1>1, RequestState, StoredFiles DEF Stored
  <2>2. IsFiniteSet(DOMAIN images \cup Stored(r))
    BY <2>1, FS_Union
  <2> QED
    BY <1>1, <2>2, AddedRows
<1>2. ASSUME NEW tour, RemoveRows(tour)
      PROVE  IsFiniteSet(DOMAIN images')
  BY <1>2, FS_Subset DEF RemoveRows
<1>3. ASSUME NEW r \in Admin,
             CreateTour(r) \/ InsertImages(r) \/ CommitUnanswered(r)
      PROVE  IsFiniteSet(DOMAIN images')
  <2>1. /\ Uploading(r)
        /\ \/ \E tour \in Tour : AddImages(r, tour, 0)
           \/ /\ req[r].step = "insert"
              /\ req[r].target \in Tour
              /\ AddImages(r, req[r].target, req[r].count)
    BY <1>3 DEF CreateTour, InsertImages, CommitUnanswered, Uploading,
       UploadSteps, TypeOK
  <2> QED
    BY <1>1, <2>1, RequestState
<1> QED
  BY <1>2, <1>3
     DEF Next, Crash, Submit, StartUpload, FindTourWithImages, Continue,
         WriteFile, WriteFileFails, Respond, CountImages, TransactionFails,
         DeleteTour, DeleteRefused, DeleteUnanswered, CleanupTourImages, vars

\* What a transaction commits for a request that becomes state: the images of
\* a new tour, from sort order 0, or of a tour whose images were counted.
Save(r, tour, first, state) ==
  /\ Uploading(r)
  /\ AddImages(r, tour, first)
  /\ tours' = tours \cup {tour}
  /\ \/ tour \notin tours \cup deleted /\ first = 0 /\ raced' = raced
     \/ /\ req[r].step = "insert"
        /\ tour = req[r].target /\ tour \in tours
        /\ first = req[r].count
        /\ raced' = IF OtherUpload(r) THEN raced \cup {tour} ELSE raced
  /\ \/ state \in {Idle, [step |-> "respond"]} /\ unsure' = unsure
     \/ /\ state = [step |-> "cleanup", files |-> Stored(r)]
        /\ unsure' = unsure \cup Stored(r)
  /\ req' = [req EXCEPT ![r] = state]
  /\ UNCHANGED <<deleted, files>>

LEMMA SaveEffect ==
  ASSUME TypeOK, NEW r \in Admin,
         CreateTour(r) \/ InsertImages(r) \/ CommitUnanswered(r)
  PROVE  \E tour \in Tour, first \in Nat :
           \E state : Save(r, tour, first, state)
<1> DEFINE clean == [step |-> "cleanup", files |-> Stored(r)]
<1>1. Uploading(r)
  BY DEF CreateTour, InsertImages, CommitUnanswered, Uploading, UploadSteps
<1>2. CASE CreateTour(r)
  <2>1. PICK tour \in Tour \ (tours \cup deleted) :
          tours' = tours \cup {tour} /\ AddImages(r, tour, 0)
    BY <1>2 DEF CreateTour
  <2>2. Save(r, tour, 0, [step |-> "respond"])
    BY <1>1, <1>2, <2>1 DEF CreateTour, Save
  <2> QED
    BY <2>2
<1>3. CASE InsertImages(r)
  <2>1. req[r].target \in Tour /\ req[r].count \in Nat
    BY <1>1, <1>3, RequestState DEF InsertImages
  <2>2. tours' = tours \cup {req[r].target}
    BY <1>3 DEF InsertImages
  <2>3. Save(r, req[r].target, req[r].count, Idle)
    BY <1>1, <1>3, <2>2 DEF InsertImages, Save, End
  <2> QED
    BY <2>1, <2>3
<1>4. CASE CommitUnanswered(r) /\ req[r].step = "insert"
  <2>1. req[r].target \in Tour /\ req[r].count \in Nat
    BY <1>1, <1>4, RequestState
  <2>2. tours' = tours \cup {req[r].target}
    BY <1>4 DEF CommitUnanswered
  <2>3. Save(r, req[r].target, req[r].count, clean)
    BY <1>1, <1>4, <2>2 DEF CommitUnanswered, Save, CleanUp, Stored
  <2> QED
    BY <2>1, <2>3
<1>5. CASE CommitUnanswered(r) /\ req[r].step # "insert"
  <2>1. PICK tour \in Tour \ (tours \cup deleted) :
          tours' = tours \cup {tour} /\ AddImages(r, tour, 0)
    BY <1>5 DEF CommitUnanswered
  <2>2. Save(r, tour, 0, clean)
    BY <1>1, <1>5, <2>1 DEF CommitUnanswered, Save, CleanUp, Stored
  <2> QED
    BY <2>2
<1> QED
  BY <1>2, <1>3, <1>4, <1>5

LEMMA StepTyped ==
  ASSUME TypeOK, IsFiniteSet(DOMAIN images), [Next]_vars
  PROVE  TypeOK'
<1>1. ASSUME NEW r \in Admin, Submit(r)
      PROVE  TypeOK'
  <2>1. ASSUME NEW target \in Target, StartUpload(r, target)
        PROVE  TypeOK'
    <3>1. RequestOK([step |-> "write", target |-> target, stored |-> << >>])
      BY ImagesAssumption DEF RequestOK, UploadState, IsInjective
    <3> QED
      BY <2>1, <3>1, RequestTyped DEF StartUpload, TypeOK
  <2>2. ASSUME NEW tour \in Tour, FindTourWithImages(r, tour)
        PROVE  TypeOK'
    <3>1. RequestOK([step |-> "delete", tour |-> tour,
                     files |-> ImagesOf(tour)])
      BY DEF RequestOK, ImagesOf, TypeOK
    <3> QED
      BY <2>2, <3>1, RequestTyped DEF FindTourWithImages, TypeOK
  <2> QED
    BY <1>1, <2>1, <2>2 DEF Submit
<1>2. ASSUME NEW r \in Admin, WriteFile(r)
      PROVE  TypeOK'
  <2> DEFINE stored == Append(req[r].stored, NewName)
             state(next) == [step |-> next, target |-> req[r].target,
                             stored |-> stored]
  <2>1. Uploading(r) /\ NewName \in File \ Range(req[r].stored)
    BY <1>2, NewNameIsFresh DEF WriteFile, Uploading, UploadSteps, Held
  <2>2. PICK next \in {"write", "transaction"} :
          /\ next = "write" => Len(stored) < MaxImages
          /\ req' = [req EXCEPT ![r] = state(next)]
    BY <1>2 DEF WriteFile
  <2>3. /\ stored \in Seq(File) /\ IsInjective(stored)
        /\ Len(stored) <= MaxImages /\ req[r].target \in Target
    BY <1>2, <2>1, RequestState, AppendedNames, ImagesAssumption DEF WriteFile
  <2>4. RequestOK(state(next))
    BY <2>2, <2>3 DEF RequestOK, UploadState
  <2> QED
    BY <1>2, <2>1, <2>2, <2>4, RequestTyped DEF WriteFile, TypeOK
<1>3. ASSUME NEW r \in Admin, WriteFileFails(r) \/ TransactionFails(r)
      PROVE  TypeOK'
  <2>1. RequestOK([step |-> "cleanup", files |-> Range(req[r].stored)])
    BY <1>3, RequestState, StoredFiles, CleanUpTyped
       DEF WriteFileFails, TransactionFails, Uploading, UploadSteps
  <2>2. /\ UNCHANGED <<tours, deleted, raced, images>>
        /\ files' \subseteq File /\ stray' \subseteq File
        /\ unsure' \subseteq File
    BY <1>3, NewNameIsFresh DEF WriteFileFails, TransactionFails, TypeOK
  <2>3. req' = [req EXCEPT ![r] =
                  [step |-> "cleanup", files |-> Range(req[r].stored)]]
    BY <1>3 DEF WriteFileFails, TransactionFails, CleanUp
  <2> QED
    BY <2>1, <2>2, <2>3, RequestTyped DEF TypeOK
<1>4. ASSUME NEW r \in Admin,
             CreateTour(r) \/ InsertImages(r) \/ CommitUnanswered(r)
      PROVE  TypeOK'
  <2>0. PICK tour \in Tour, first \in Nat :
          \E state : Save(r, tour, first, state)
    BY <1>4, SaveEffect
  <2>1. PICK state : Save(r, tour, first, state)
    BY <2>0
  <2>2. RequestOK(state)
    BY <2>1, RequestState, StoredFiles, CleanUpTyped
       DEF Save, RequestOK, Stored
  <2>3. Stored(r) \subseteq File
    BY <2>1, RequestState, StoredFiles DEF Save, Stored
  <2>4. /\ DOMAIN images' = DOMAIN images \cup Stored(r)
        /\ images' \in [DOMAIN images' -> ImageRow]
        /\ \A f \in (DOMAIN images) \ Stored(r) : images'[f] = images[f]
        /\ \A f \in Stored(r) : images'[f].tour = tour
        /\ stray' \subseteq stray \cup Stored(r)
    BY <2>1, AddedRows DEF Save
  <2>5. /\ tour \notin deleted
        /\ tours' = tours \cup {tour} /\ deleted' = deleted
        /\ raced' \subseteq raced \cup {tour}
        /\ unsure' \subseteq unsure \cup Stored(r) /\ files' = files
    BY <2>1 DEF Save, TypeOK
  <2>6. DOMAIN req' = Admin /\ \A x \in Admin : RequestOK(req'[x])
    BY <2>1, <2>2, RequestTyped DEF Save
  <2>7. \A f \in DOMAIN images' : images'[f].tour \in tours'
    BY <2>4, <2>5 DEF TypeOK
  <2> QED
    BY <2>3, <2>4, <2>5, <2>6, <2>7 DEF TypeOK
<1>5. ASSUME NEW r \in Admin, CountImages(r)
      PROVE  TypeOK'
  <2> DEFINE state == [step |-> "insert", target |-> req[r].target,
                       stored |-> req[r].stored,
                       count |-> Cardinality(ImagesOf(req[r].target))]
  <2>1. req[r].target \in Tour /\ Uploading(r)
    BY <1>5 DEF CountImages, TypeOK, Uploading, UploadSteps
  <2>2. RequestOK(state)
    BY <2>1, RequestState, ImagesOfAreFinite DEF RequestOK, UploadState
  <2> QED
    BY <1>5, <2>2, RequestTyped DEF CountImages, TypeOK
<1>6. ASSUME NEW r \in Admin, Respond(r) \/ DeleteRefused(r)
      PROVE  TypeOK'
  BY <1>6, EndsTyped, RequestTyped DEF Respond, DeleteRefused, End, TypeOK
<1>7. ASSUME NEW r \in Admin, DeleteTour(r) \/ DeleteUnanswered(r)
      PROVE  TypeOK'
  <2>1. /\ req[r].tour \in Tour /\ req[r].files \subseteq File
        /\ RemoveRows(req[r].tour)
        /\ UNCHANGED <<files, raced, unsure>>
        /\ stray' \subseteq File
    BY <1>7, RequestState DEF DeleteTour, DeleteUnanswered, TypeOK
  <2>2. /\ RequestOK(Idle)
        /\ RequestOK([step |-> "cleanup", files |-> req[r].files])
    BY <2>1, EndsTyped, CleanUpTyped
  <2>3. DOMAIN req' = Admin /\ \A x \in Admin : RequestOK(req'[x])
    BY <1>7, <2>2, RequestTyped DEF DeleteTour, DeleteUnanswered, CleanUp, End
  <2>4. /\ tours' \subseteq Tour /\ deleted' \subseteq Tour
        /\ tours' \cap deleted' = {}
        /\ DOMAIN images' \subseteq DOMAIN images
        /\ images' \in [DOMAIN images' -> ImageRow]
        /\ \A f \in DOMAIN images' : images'[f].tour \in tours'
    BY <2>1 DEF RemoveRows, ImagesOf, TypeOK
  <2> QED
    BY <2>1, <2>3, <2>4 DEF TypeOK
<1>8. ASSUME NEW r \in Admin, CleanupTourImages(r)
      PROVE  TypeOK'
  BY <1>8, EndsTyped, RequestTyped DEF CleanupTourImages, End, TypeOK
<1>9. CASE Crash
  BY <1>9, EndsTyped DEF Crash, TypeOK
<1> QED
  BY <1>1, <1>2, <1>3, <1>4, <1>5, <1>6, <1>7, <1>8, <1>9
     DEF Next, Continue, vars, TypeOK

\* The relations between the tables hold whatever is done.
THEOREM TypeCorrect == Spec => []TypeOK
<1>1. Init => TypeOK /\ IsFiniteSet(DOMAIN images)
  BY InitTyped, FS_EmptySet DEF Init
<1>2. TypeOK /\ IsFiniteSet(DOMAIN images) /\ [Next]_vars
        => (TypeOK /\ IsFiniteSet(DOMAIN images))'
  BY StepTyped, ImagesStayFinite
<1> QED
  BY <1>1, <1>2, PTL DEF Spec

-----------------------------------------------------------------------------
(* The steps of one request *)

\* A request's step leaves the other requests' files and its own are those of
\* its new state.
LEMMA OthersKeep ==
  ASSUME TypeOK, NEW r \in Admin, NEW state, req' = [req EXCEPT ![r] = state]
  PROVE  /\ req'[r] = state
         /\ \A x \in Admin \ {r} :
              /\ req'[x] = req[x]
              /\ Held(x)' = Held(x) /\ Listed(x)' = Listed(x)
              /\ Stored(x)' = Stored(x)
              /\ Uploading(x)' <=> Uploading(x)
BY DEF TypeOK, Held, Listed, Stored, Uploading

LEMMA UploadHolds ==
  ASSUME NEW r \in Admin, Uploading(r)
  PROVE  Held(r) = Stored(r) /\ Listed(r) = {}
BY DEF Uploading, UploadSteps, Held, Listed, Stored

\* Steps that write no table and no file, and leave a request with the files
\* it had, and in a delete the rows it has read.
LEMMA QuietStep ==
  ASSUME IInv, NEW r \in Admin, NEW state, req' = [req EXCEPT ![r] = state],
         UNCHANGED <<tours, deleted, images, files, stray, unsure, raced>>,
         Held(r)' = Held(r),
         Listed(r)' \subseteq DOMAIN images,
         Uploading(r)' => Uploading(r) \/ Held(r) = {},
         state.step = "cleanup" => Uploading(r) /\ state.files = Stored(r),
         state.step = "delete" => state.files = ImagesOf(state.tour),
         state.step = "insert" =>
           /\ state.target \in tours
           /\ state.count = Cardinality(ImagesOf(state.target))
  PROVE  TablesAndFiles'
<1> USE DEF IInv, TablesAndFiles
<1>0. \A tour : ImagesOf(tour)' = ImagesOf(tour)
  BY DEF ImagesOf
<1>1. /\ req'[r] = state
      /\ \A x \in Admin \ {r} :
           /\ req'[x] = req[x]
           /\ Held(x)' = Held(x) /\ Listed(x)' = Listed(x)
           /\ Stored(x)' = Stored(x)
           /\ Uploading(x)' <=> Uploading(x)
  BY OthersKeep
<1>2. \A x \in Admin : Held(x)' = Held(x)
  BY <1>1
<1>3. \A x \in Admin : Listed(x)' \subseteq Listed(x) \cup DOMAIN images
  BY <1>1
<1>4. \A x \in Admin : Uploading(x)' => Uploading(x) \/ Held(x) = {}
  BY <1>1
<1>5. \A x \in Admin : /\ Uploading(x) => Held(x) = Stored(x)
                       /\ Uploading(x)' => Stored(x)' = Held(x)
  BY <1>2, UploadHolds DEF Uploading, UploadSteps, Held, Stored
<1>6. UploadsAreApart'
  <2> SUFFICES ASSUME NEW u \in Admin, Uploading(u)'
               PROVE  /\ Stored(u)' \subseteq files' \ DOMAIN images'
                      /\ \A x \in Admin \ {u} :
                           Stored(u)' \cap (Held(x)' \cup Listed(x)') = {}
    BY DEF UploadsAreApart
  <2>1. Stored(u)' = Held(u)
    BY <1>5
  <2>2. /\ Held(u) \subseteq files \ DOMAIN images
        /\ \A x \in Admin \ {u} : Held(u) \cap (Held(x) \cup Listed(x)) = {}
    BY <1>4, <1>5 DEF UploadsAreApart
  <2> QED
    BY <1>2, <1>3, <2>1, <2>2
<1>7. RemovedHaveNoRows'
  <2>1. Uploading(r) => Stored(r) \cap DOMAIN images = {}
    BY DEF UploadsAreApart
  <2> QED
    BY <1>0, <1>1, <2>1 DEF RemovedHaveNoRows
<1>8. DeletesKnowImages'
  BY <1>0, <1>1 DEF DeletesKnowImages
<1>9. CountsAreCurrent'
  BY <1>0, <1>1 DEF CountsAreCurrent
<1>10. RowsHaveFiles'
  BY DEF RowsHaveFiles
<1>11. FilesAreKnown'
  BY <1>2 DEF FilesAreKnown, InProgress
<1>12. SortOrdersAreDense'
  BY <1>0 DEF SortOrdersAreDense
<1> QED
  BY <1>6, <1>7, <1>8, <1>9, <1>10, <1>11, <1>12

LEMMA QuietSteps ==
  ASSUME IInv, NEW r \in Admin,
         \/ Submit(r) \/ Respond(r) \/ CountImages(r)
         \/ TransactionFails(r) \/ DeleteRefused(r)
  PROVE  TablesAndFiles'
<1> USE DEF Idle, Held, Listed, Uploading, UploadSteps, Stored
<1>1. TypeOK /\ r \in DOMAIN req
  BY DEF IInv, TypeOK
<1>2. CASE \E target \in Target : StartUpload(r, target)
  <2>1. PICK target \in Target : StartUpload(r, target)
    BY <1>2
  <2> DEFINE state == [step |-> "write", target |-> target, stored |-> << >>]
  <2>2. req' = [req EXCEPT ![r] = state]
    BY <2>1 DEF StartUpload
  <2>3. Held(r)' = Held(r)
    BY <1>1, <2>1, <2>2 DEF StartUpload, Range
  <2>4. Listed(r)' = {} /\ Held(r) = {}
    BY <1>1, <2>1, <2>2 DEF StartUpload
  <2>5. UNCHANGED <<tours, deleted, images, files, stray, unsure, raced>>
    BY <2>1 DEF StartUpload
  <2> QED
    BY <2>2, <2>3, <2>4, <2>5, QuietStep
<1>3. CASE \E tour \in Tour : FindTourWithImages(r, tour)
  <2>1. PICK tour \in Tour : FindTourWithImages(r, tour)
    BY <1>3
  <2> DEFINE state == [step |-> "delete", tour |-> tour,
                       files |-> ImagesOf(tour)]
  <2>2. req' = [req EXCEPT ![r] = state]
    BY <2>1 DEF FindTourWithImages
  <2>3. Held(r)' = Held(r) /\ Listed(r)' \subseteq DOMAIN images
        /\ ~ Uploading(r)'
    BY <1>1, <2>1, <2>2 DEF FindTourWithImages, ImagesOf
  <2>5. UNCHANGED <<tours, deleted, images, files, stray, unsure, raced>>
    BY <2>1 DEF FindTourWithImages
  <2> QED
    BY <2>2, <2>3, <2>5, QuietStep
<1>4. CASE Respond(r) \/ DeleteRefused(r)
  <2>2. req' = [req EXCEPT ![r] = Idle]
    BY <1>4 DEF Respond, DeleteRefused, End
  <2>3. Held(r)' = Held(r) /\ Listed(r)' = {} /\ ~ Uploading(r)'
    BY <1>1, <1>4, <2>2 DEF Respond, DeleteRefused
  <2>5. UNCHANGED <<tours, deleted, images, files, stray, unsure, raced>>
    BY <1>4 DEF Respond, DeleteRefused
  <2> QED
    BY <2>2, <2>3, <2>5, QuietStep
<1>5. CASE CountImages(r)
  <2> DEFINE state == [step |-> "insert", target |-> req[r].target,
                       stored |-> req[r].stored,
                       count |-> Cardinality(ImagesOf(req[r].target))]
  <2>2. req' = [req EXCEPT ![r] = state] /\ req[r].target \in tours
    BY <1>5 DEF CountImages
  <2>3. Held(r)' = Held(r) /\ Listed(r)' = {} /\ Uploading(r)
    BY <1>1, <1>5, <2>2 DEF CountImages
  <2>5. UNCHANGED <<tours, deleted, images, files, stray, unsure, raced>>
    BY <1>5 DEF CountImages
  <2> QED
    BY <2>2, <2>3, <2>5, QuietStep
<1>6. CASE TransactionFails(r)
  <2> DEFINE state == [step |-> "cleanup", files |-> Range(req[r].stored)]
  <2>2. req' = [req EXCEPT ![r] = state]
    BY <1>6 DEF TransactionFails, CleanUp
  <2>3. /\ Held(r)' = Held(r) /\ Listed(r)' = {}
        /\ Uploading(r) /\ ~ Uploading(r)'
    BY <1>1, <1>6, <2>2 DEF TransactionFails
  <2>5. UNCHANGED <<tours, deleted, images, files, stray, unsure, raced>>
    BY <1>6 DEF TransactionFails
  <2> QED
    BY <2>2, <2>3, <2>5, QuietStep
<1> QED
  BY <1>2, <1>3, <1>4, <1>5, <1>6 DEF Submit

LEMMA WriteFileKeeps ==
  ASSUME IInv, NEW r \in Admin, WriteFile(r)
  PROVE  TablesAndFiles'
<1> USE DEF IInv, TablesAndFiles
<1> DEFINE stored == Append(req[r].stored, NewName)
           state(next) == [step |-> next, target |-> req[r].target,
                           stored |-> stored]
<1>0. /\ \A tour : ImagesOf(tour)' = ImagesOf(tour)
      /\ UNCHANGED <<tours, deleted, images, stray, unsure, raced>>
      /\ files' = files \cup {NewName}
  BY DEF WriteFile, ImagesOf
<1>1. PICK next \in {"write", "transaction"} :
        req' = [req EXCEPT ![r] = state(next)]
  BY DEF WriteFile
<1>2. /\ req'[r] = state(next)
      /\ \A x \in Admin \ {r} :
           /\ req'[x] = req[x]
           /\ Held(x)' = Held(x) /\ Listed(x)' = Listed(x)
           /\ Stored(x)' = Stored(x)
           /\ Uploading(x)' <=> Uploading(x)
  BY <1>1, OthersKeep
<1>3. /\ NewName \in File \ (files \cup DOMAIN images)
      /\ \A x \in Admin : NewName \notin Held(x) \cup Listed(x)
  BY NewNameIsFresh DEF WriteFile
<1>4. Uploading(r) /\ Held(r) = Stored(r) /\ Listed(r) = {}
  BY UploadHolds DEF WriteFile, Uploading, UploadSteps
<1>5. Stored(r)' = Stored(r) \cup {NewName}
  <2>1. req[r].stored \in Seq(File) /\ IsInjective(req[r].stored)
    BY <1>4, RequestState
  <2>2. Range(stored) = Stored(r) \cup {NewName}
    BY <1>3, <1>4, <2>1, AppendedNames DEF Stored
  <2> QED
    BY <1>2, <2>2 DEF Stored
<1>6. Held(r)' = Stored(r) \cup {NewName} /\ Listed(r)' = {}
  BY <1>2, <1>5 DEF Held, Listed, Stored, UploadSteps
<1>7. UploadsAreApart'
  <2> SUFFICES ASSUME NEW u \in Admin, Uploading(u)'
               PROVE  /\ Stored(u)' \subseteq files' \ DOMAIN images'
                      /\ \A x \in Admin \ {u} :
                           Stored(u)' \cap (Held(x)' \cup Listed(x)') = {}
    BY DEF UploadsAreApart
  <2>1. /\ Stored(u) \subseteq files \ DOMAIN images
        /\ \A x \in Admin \ {u} : Stored(u) \cap (Held(x) \cup Listed(x)) = {}
        /\ Stored(u) = Held(u)
    BY <1>2, <1>4, UploadHolds DEF UploadsAreApart
  <2>2. CASE u = r
    BY <1>0, <1>2, <1>3, <1>5, <2>1, <2>2
  <2>3. CASE u # r
    BY <1>0, <1>2, <1>3, <1>4, <1>6, <2>1, <2>3
  <2> QED
    BY <2>2, <2>3
<1>8. RemovedHaveNoRows'
  BY <1>0, <1>2 DEF RemovedHaveNoRows
<1>9. DeletesKnowImages'
  BY <1>0, <1>2 DEF DeletesKnowImages
<1>10. CountsAreCurrent'
  BY <1>0, <1>2 DEF CountsAreCurrent
<1>11. RowsHaveFiles'
  BY <1>0 DEF RowsHaveFiles
<1>12. FilesAreKnown'
  BY <1>0, <1>2, <1>4, <1>6 DEF FilesAreKnown, InProgress
<1>13. SortOrdersAreDense'
  BY <1>0 DEF SortOrdersAreDense
<1> QED
  BY <1>7, <1>8, <1>9, <1>10, <1>11, <1>12, <1>13

LEMMA WriteFileFailsKeeps ==
  ASSUME IInv, NEW r \in Admin, WriteFileFails(r)
  PROVE  TablesAndFiles'
<1> USE DEF IInv, TablesAndFiles
<1> DEFINE state == [step |-> "cleanup", files |-> Stored(r)]
<1>0. PICK begun \in {{}} \cup (IF NewNames = {} THEN {} ELSE {{NewName}}) :
        files' = files \cup begun /\ stray' = stray \cup begun
  BY DEF WriteFileFails
<1>1. /\ \A tour : ImagesOf(tour)' = ImagesOf(tour)
      /\ UNCHANGED <<tours, deleted, images, unsure, raced>>
  BY DEF WriteFileFails, ImagesOf
<1>2. /\ req'[r] = state
      /\ \A x \in Admin \ {r} :
           /\ req'[x] = req[x]
           /\ Held(x)' = Held(x) /\ Listed(x)' = Listed(x)
           /\ Stored(x)' = Stored(x)
           /\ Uploading(x)' <=> Uploading(x)
  BY OthersKeep DEF WriteFileFails, CleanUp, Stored
<1>3. Uploading(r) /\ Held(r) = Stored(r)
  BY UploadHolds DEF WriteFileFails, Uploading, UploadSteps
<1>4. Held(r)' = Stored(r) /\ Listed(r)' = {} /\ ~ Uploading(r)'
  BY <1>2 DEF Held, Listed, Uploading, UploadSteps
<1>5. begun \cap DOMAIN images = {}
  BY <1>0, NewNameIsFresh
<1>6. Stored(r) \cap DOMAIN images = {}
  BY <1>3 DEF UploadsAreApart
<1>7. UploadsAreApart'
  <2> SUFFICES ASSUME NEW u \in Admin, Uploading(u)'
               PROVE  /\ Stored(u)' \subseteq files' \ DOMAIN images'
                      /\ \A x \in Admin \ {u} :
                           Stored(u)' \cap (Held(x)' \cup Listed(x)') = {}
    BY DEF UploadsAreApart
  <2>1. u # r /\ Uploading(u) /\ Stored(u)' = Stored(u)
    BY <1>2, <1>4
  <2>2. /\ Stored(u) \subseteq files \ DOMAIN images
        /\ \A x \in Admin \ {u} : Stored(u) \cap (Held(x) \cup Listed(x)) = {}
    BY <2>1 DEF UploadsAreApart
  <2> QED
    BY <1>0, <1>1, <1>2, <1>3, <1>4, <2>1, <2>2
<1>8. RemovedHaveNoRows'
  BY <1>1, <1>2, <1>6 DEF RemovedHaveNoRows
<1>9. DeletesKnowImages'
  BY <1>0, <1>1, <1>2 DEF DeletesKnowImages
<1>10. CountsAreCurrent'
  BY <1>1, <1>2 DEF CountsAreCurrent
<1>11. RowsHaveFiles'
  BY <1>0, <1>1 DEF RowsHaveFiles
<1>12. FilesAreKnown'
  BY <1>0, <1>1, <1>2, <1>3, <1>4 DEF FilesAreKnown, InProgress
<1>13. SortOrdersAreDense'
  BY <1>1 DEF SortOrdersAreDense
<1> QED
  BY <1>7, <1>8, <1>9, <1>10, <1>11, <1>12, <1>13

\* A cleanup removes no file of a row and none of another request.
LEMMA CleanupKeeps ==
  ASSUME IInv, NEW r \in Admin, CleanupTourImages(r)
  PROVE  TablesAndFiles'
<1> USE DEF IInv, TablesAndFiles
<1>0. PICK kept \in SUBSET (req[r].files \cap files) :
        /\ files' = files \ (req[r].files \ kept)
        /\ stray' = stray \cup kept
  BY DEF CleanupTourImages
<1>1. /\ \A tour : ImagesOf(tour)' = ImagesOf(tour)
      /\ UNCHANGED <<tours, deleted, images, unsure, raced>>
  BY DEF CleanupTourImages, ImagesOf
<1>2. /\ req'[r] = Idle
      /\ \A x \in Admin \ {r} :
           /\ req'[x] = req[x]
           /\ Held(x)' = Held(x) /\ Listed(x)' = Listed(x)
           /\ Stored(x)' = Stored(x)
           /\ Uploading(x)' <=> Uploading(x)
  BY OthersKeep DEF CleanupTourImages, End
<1>3. Held(r) = req[r].files
  BY DEF CleanupTourImages, Held, UploadSteps
<1>4. Held(r)' = {} /\ Listed(r)' = {} /\ ~ Uploading(r)'
  BY <1>2 DEF Idle, Held, Listed, Uploading, UploadSteps
<1>5. req[r].files \cap DOMAIN images \subseteq unsure
  BY DEF CleanupTourImages, RemovedHaveNoRows
<1>7. UploadsAreApart'
  <2> SUFFICES ASSUME NEW u \in Admin, Uploading(u)'
               PROVE  /\ Stored(u)' \subseteq files' \ DOMAIN images'
                      /\ \A x \in Admin \ {u} :
                           Stored(u)' \cap (Held(x)' \cup Listed(x)') = {}
    BY DEF UploadsAreApart
  <2>1. u # r /\ Uploading(u) /\ Stored(u)' = Stored(u)
    BY <1>2, <1>4
  <2>2. /\ Stored(u) \subseteq files \ DOMAIN images
        /\ \A x \in Admin \ {u} : Stored(u) \cap (Held(x) \cup Listed(x)) = {}
    BY <2>1 DEF UploadsAreApart
  <2> QED
    BY <1>0, <1>1, <1>2, <1>3, <1>4, <2>1, <2>2
<1>8. RemovedHaveNoRows'
  BY <1>1, <1>2 DEF RemovedHaveNoRows, Idle
<1>9. DeletesKnowImages'
  BY <1>0, <1>1, <1>2 DEF DeletesKnowImages, Idle
<1>10. CountsAreCurrent'
  BY <1>1, <1>2 DEF CountsAreCurrent, Idle
<1>11. RowsHaveFiles'
  BY <1>0, <1>1, <1>5 DEF RowsHaveFiles
<1>12. FilesAreKnown'
  BY <1>0, <1>1, <1>2, <1>3, <1>4 DEF FilesAreKnown, InProgress
<1>13. SortOrdersAreDense'
  BY <1>1 DEF SortOrdersAreDense
<1> QED
  BY <1>7, <1>8, <1>9, <1>10, <1>11, <1>12, <1>13

LEMMA CrashKeeps ==
  ASSUME IInv, Crash
  PROVE  TablesAndFiles'
<1> USE DEF IInv, TablesAndFiles
<1>1. /\ \A tour : ImagesOf(tour)' = ImagesOf(tour)
      /\ UNCHANGED <<tours, deleted, images, files, unsure, raced>>
      /\ stray' = stray \cup (InProgress \cap files)
      /\ \A r \in Admin : req'[r] = Idle
  BY DEF Crash, ImagesOf
<1>2. /\ UploadsAreApart' /\ RemovedHaveNoRows' /\ DeletesKnowImages'
      /\ CountsAreCurrent'
  BY <1>1 DEF UploadsAreApart, RemovedHaveNoRows, DeletesKnowImages,
     CountsAreCurrent, Uploading, UploadSteps, Idle
<1>3. RowsHaveFiles' /\ FilesAreKnown'
  BY <1>1 DEF RowsHaveFiles, FilesAreKnown
<1>4. SortOrdersAreDense'
  BY <1>1 DEF SortOrdersAreDense
<1> QED
  BY <1>2, <1>3, <1>4

\* A delete takes the rows of its tour and no other; their files are those it
\* has read, or noted.
LEMMA DeleteKeeps ==
  ASSUME IInv, NEW r \in Admin, DeleteTour(r) \/ DeleteUnanswered(r)
  PROVE  TablesAndFiles'
<1> USE DEF IInv, TablesAndFiles
<1>0. PICK gone, names : gone = req[r].tour /\ names = req[r].files
  OBVIOUS
<1>1. /\ req[r].step = "delete"
      /\ RemoveRows(gone)
      /\ UNCHANGED <<files, unsure, raced>>
      /\ stray \subseteq stray'
  BY <1>0 DEF DeleteTour, DeleteUnanswered
<1>2. PICK state : /\ req' = [req EXCEPT ![r] = state]
                   /\ \/ /\ state = [step |-> "cleanup", files |-> names]
                      \/ state = Idle /\ names \cap files \subseteq stray'
  BY <1>0 DEF DeleteTour, DeleteUnanswered, CleanUp, End
<1>3. /\ req'[r] = state
      /\ \A x \in Admin \ {r} :
           /\ req'[x] = req[x]
           /\ Held(x)' = Held(x) /\ Listed(x)' = Listed(x)
           /\ Stored(x)' = Stored(x)
           /\ Uploading(x)' <=> Uploading(x)
  BY <1>2, OthersKeep
<1>4. Held(r) = {} /\ Listed(r) = names /\ ~ Uploading(r)
  BY <1>0, <1>1 DEF Held, Listed, Uploading, UploadSteps
<1>5. /\ Held(r)' \subseteq names /\ Listed(r)' = {} /\ ~ Uploading(r)'
      /\ names \cap files \subseteq Held(r)' \cup stray'
      /\ req'[r].step \notin {"delete", "insert"}
  BY <1>2, <1>3 DEF Idle, Held, Listed, Uploading, UploadSteps
<1>6. /\ DOMAIN images' = (DOMAIN images) \ ImagesOf(gone)
      /\ \A f \in DOMAIN images' : images'[f] = images[f]
      /\ tours' = tours \ {gone} /\ deleted' = deleted \cup {gone}
  BY <1>1 DEF RemoveRows
<1>7. /\ ImagesOf(gone)' = {}
      /\ \A tour : tour # gone => ImagesOf(tour)' = ImagesOf(tour)
  <2>1. ImagesOf(gone)' = {}
    BY <1>6 DEF ImagesOf
  <2>2. ASSUME NEW tour, tour # gone
        PROVE  ImagesOf(tour)' = ImagesOf(tour)
    <3>1. \A f : f \in ImagesOf(tour)' <=> f \in ImagesOf(tour)
      BY <1>6, <2>2 DEF ImagesOf
    <3> QED
      BY <3>1 DEF ImagesOf
  <2> QED
    BY <2>1, <2>2
<1>8. names \cap DOMAIN images \subseteq ImagesOf(gone)
      /\ ImagesOf(gone) \subseteq names \cup stray
  BY <1>0, <1>1 DEF RemovedHaveNoRows, DeletesKnowImages
<1>9. UploadsAreApart'
  <2> SUFFICES ASSUME NEW u \in Admin, Uploading(u)'
               PROVE  /\ Stored(u)' \subseteq files' \ DOMAIN images'
                      /\ \A x \in Admin \ {u} :
                           Stored(u)' \cap (Held(x)' \cup Listed(x)') = {}
    BY DEF UploadsAreApart
  <2>1. u # r /\ Uploading(u) /\ Stored(u)' = Stored(u)
    BY <1>3, <1>5
  <2>2. /\ Stored(u) \subseteq files \ DOMAIN images
        /\ \A x \in Admin \ {u} : Stored(u) \cap (Held(x) \cup Listed(x)) = {}
    BY <2>1 DEF UploadsAreApart
  <2> QED
    BY <1>1, <1>3, <1>4, <1>5, <1>6, <2>1, <2>2
<1>10. RemovedHaveNoRows'
  <2> SUFFICES ASSUME NEW x \in Admin
               PROVE  (/\ req[x].step = "cleanup" =>
                            req[x].files \cap DOMAIN images \subseteq unsure
                       /\ req[x].step = "delete" =>
                            req[x].files \cap DOMAIN images
                              \subseteq ImagesOf(req[x].tour))'
    BY DEF RemovedHaveNoRows
  <2>1. CASE x = r
    BY <1>2, <1>3, <1>5, <1>6, <1>8, <2>1 DEF Idle
  <2>2. CASE x # r
    <3>1. /\ req[x].step = "cleanup" =>
               req[x].files \cap DOMAIN images \subseteq unsure
          /\ req[x].step = "delete" =>
               req[x].files \cap DOMAIN images \subseteq ImagesOf(req[x].tour)
      BY DEF RemovedHaveNoRows
    <3> QED
      BY <1>1, <1>3, <1>6, <1>7, <2>2, <3>1 DEF ImagesOf
  <2> QED
    BY <2>1, <2>2
<1>11. DeletesKnowImages'
  <2>1. \A tour : ImagesOf(tour)' \subseteq ImagesOf(tour)
    BY <1>7
  <2> QED
    BY <1>1, <1>3, <1>5, <2>1 DEF DeletesKnowImages
<1>12. CountsAreCurrent'
  BY <1>1, <1>3, <1>5, <1>6, <1>7 DEF CountsAreCurrent
<1>13. RowsHaveFiles'
  BY <1>1, <1>6 DEF RowsHaveFiles
<1>14. FilesAreKnown'
  <2> SUFFICES ASSUME NEW f \in files, f \notin stray', f \notin DOMAIN images'
               PROVE  \E x \in Admin : f \in Held(x)'
    BY <1>1 DEF FilesAreKnown, InProgress
  <2>1. CASE f \in names
    BY <1>5, <2>1
  <2>2. CASE f \notin names
    <3>1. f \notin DOMAIN images /\ f \notin stray
      BY <1>1, <1>6, <1>8, <2>2
    <3>2. PICK x \in Admin : f \in Held(x)
      BY <3>1 DEF FilesAreKnown, InProgress
    <3> QED
      BY <1>3, <1>4, <3>2
  <2> QED
    BY <2>1, <2>2
<1>15. SortOrdersAreDense'
  <2> SUFFICES ASSUME NEW tour \in tours' \ raced'
               PROVE  {images'[f].sortOrder : f \in ImagesOf(tour)'}
                        = 0..(Cardinality(ImagesOf(tour)') - 1)
    BY DEF SortOrdersAreDense
  <2>1. ImagesOf(tour)' = ImagesOf(tour) /\ tour \in tours \ raced
    BY <1>1, <1>6, <1>7
  <2>2. \A f \in ImagesOf(tour) : images'[f].sortOrder = images[f].sortOrder
    BY <1>6, <2>1 DEF ImagesOf
  <2>3. {images'[f].sortOrder : f \in ImagesOf(tour)}
          = {images[f].sortOrder : f \in ImagesOf(tour)}
    BY <2>2
  <2> QED
    BY <2>1, <2>3 DEF SortOrdersAreDense
<1> QED
  BY <1>9, <1>10, <1>11, <1>12, <1>13, <1>14, <1>15

\* A committed upload's files become rows of its tour, numbered after the rows
\* the tour has.
LEMMA SaveKeeps ==
  ASSUME IInv, NEW r \in Admin, NEW saved \in Tour, NEW first \in Nat,
         NEW state, Save(r, saved, first, state)
  PROVE  TablesAndFiles'
<1> USE DEF IInv, TablesAndFiles
<1> DEFINE names == Stored(r)
<1>1. /\ Uploading(r)
      /\ UNCHANGED <<deleted, files>> /\ tours' = tours \cup {saved}
      /\ unsure \subseteq unsure' /\ raced \subseteq raced'
      /\ state \in {Idle, [step |-> "respond"]}
           \/ /\ state = [step |-> "cleanup", files |-> names]
              /\ names \subseteq unsure'
  BY DEF Save
<1>2. /\ req'[r] = state
      /\ \A x \in Admin \ {r} :
           /\ req'[x] = req[x]
           /\ Held(x)' = Held(x) /\ Listed(x)' = Listed(x)
           /\ Stored(x)' = Stored(x)
           /\ Uploading(x)' <=> Uploading(x)
  BY OthersKeep DEF Save
<1>3. Held(r) = names /\ Listed(r) = {}
  BY <1>1, UploadHolds
<1>4. /\ Held(r)' \subseteq names /\ Listed(r)' = {} /\ ~ Uploading(r)'
      /\ req'[r].step \notin {"delete", "insert"}
  BY <1>1, <1>2 DEF Idle, Held, Listed, Uploading, UploadSteps
<1>5. /\ DOMAIN images' = DOMAIN images \cup names
      /\ \A f \in (DOMAIN images) \ names : images'[f] = images[f]
      /\ \A f \in names : images'[f].tour = saved
      /\ {images'[f].sortOrder : f \in names}
           = first..(first + Len(req[r].stored) - 1)
      /\ stray \subseteq stray'
      /\ \A x \in Admin : req[x].step = "delete" /\ req[x].tour = saved =>
           names \subseteq stray'
  BY <1>1, AddedRows DEF Save
<1>6. /\ names \subseteq files \ DOMAIN images
      /\ \A x \in Admin \ {r} : names \cap (Held(x) \cup Listed(x)) = {}
  BY <1>1 DEF UploadsAreApart
<1>7. /\ ImagesOf(saved)' = ImagesOf(saved) \cup names
      /\ \A tour : tour # saved => ImagesOf(tour)' = ImagesOf(tour)
      /\ \A f \in DOMAIN images : images'[f] = images[f]
  BY <1>5, <1>6 DEF ImagesOf
<1>8. UploadsAreApart'
  <2> SUFFICES ASSUME NEW u \in Admin, Uploading(u)'
               PROVE  /\ Stored(u)' \subseteq files' \ DOMAIN images'
                      /\ \A x \in Admin \ {u} :
                           Stored(u)' \cap (Held(x)' \cup Listed(x)') = {}
    BY DEF UploadsAreApart
  <2>1. u # r /\ Uploading(u) /\ Stored(u)' = Stored(u)
    BY <1>2, <1>4
  <2>2. /\ Stored(u) \subseteq files \ DOMAIN images
        /\ \A x \in Admin \ {u} : Stored(u) \cap (Held(x) \cup Listed(x)) = {}
    BY <2>1 DEF UploadsAreApart
  <2> QED
    BY <1>1, <1>2, <1>3, <1>4, <1>5, <2>1, <2>2
<1>9. RemovedHaveNoRows'
  <2> SUFFICES ASSUME NEW x \in Admin
               PROVE  (/\ req[x].step = "cleanup" =>
                            req[x].files \cap DOMAIN images \subseteq unsure
                       /\ req[x].step = "delete" =>
                            req[x].files \cap DOMAIN images
                              \subseteq ImagesOf(req[x].tour))'
    BY DEF RemovedHaveNoRows
  <2>1. CASE x = r
    BY <1>1, <1>2, <1>4, <2>1 DEF Idle
  <2>2. CASE x # r
    <3>1. /\ req[x].step = "cleanup" =>
               req[x].files \cap DOMAIN images \subseteq unsure
          /\ req[x].step = "delete" =>
               req[x].files \cap DOMAIN images \subseteq ImagesOf(req[x].tour)
      BY DEF RemovedHaveNoRows
    <3>2. /\ req[x].step = "cleanup" => req[x].files \cap names = {}
          /\ req[x].step = "delete" => req[x].files \cap names = {}
      BY <1>6, <2>2 DEF Held, Listed, UploadSteps
    <3>3. \A tour : ImagesOf(tour) \subseteq ImagesOf(tour)'
      BY <1>7
    <3> QED
      BY <1>1, <1>2, <1>5, <2>2, <3>1, <3>2, <3>3
  <2> QED
    BY <2>1, <2>2
<1>10. DeletesKnowImages'
  BY <1>2, <1>4, <1>5, <1>7 DEF DeletesKnowImages
<1>11. CountsAreCurrent'
  <2> SUFFICES ASSUME NEW x \in Admin, req'[x].step = "insert"
               PROVE  (/\ req[x].target \in tours \cup deleted
                       /\ req[x].target \in tours \ raced =>
                            req[x].count
                              = Cardinality(ImagesOf(req[x].target)))'
    BY DEF CountsAreCurrent
  <2>1. x # r /\ req'[x] = req[x]
    BY <1>2, <1>4
  <2>2. /\ req[x].target \in tours \cup deleted
        /\ req[x].target \in tours \ raced =>
             req[x].count = Cardinality(ImagesOf(req[x].target))
    BY <2>1 DEF CountsAreCurrent
  <2>3. CASE req[x].target = saved
    <3>1. saved \in tours /\ OtherUpload(r) /\ saved = req[r].target
      BY <2>1, <2>2, <2>3 DEF Save, OtherUpload
    <3>2. saved \in raced'
      BY <2>2, <2>3, <3>1 DEF Save
    <3> QED
      BY <1>1, <2>1, <2>3, <3>2
  <2>4. CASE req[x].target # saved
    BY <1>1, <1>7, <2>1, <2>2, <2>4
  <2> QED
    BY <2>3, <2>4
<1>12. RowsHaveFiles'
  BY <1>1, <1>5, <1>6 DEF RowsHaveFiles
<1>13. FilesAreKnown'
  <2> SUFFICES ASSUME NEW f \in files, f \notin stray', f \notin DOMAIN images'
               PROVE  \E x \in Admin : f \in Held(x)'
    BY <1>1 DEF FilesAreKnown, InProgress
  <2>1. f \notin DOMAIN images /\ f \notin stray /\ f \notin names
    BY <1>5
  <2>2. PICK x \in Admin : f \in Held(x)
    BY <2>1 DEF FilesAreKnown, InProgress
  <2> QED
    BY <1>2, <1>3, <2>1, <2>2
<1>14. SortOrdersAreDense'
  <2> SUFFICES ASSUME NEW tour \in tours' \ raced'
               PROVE  {images'[f].sortOrder : f \in ImagesOf(tour)'}
                        = 0..(Cardinality(ImagesOf(tour)') - 1)
    BY DEF SortOrdersAreDense
  <2>0. \A f \in ImagesOf(tour) : images'[f] = images[f]
    BY <1>7 DEF ImagesOf
  <2>1. {images'[f].sortOrder : f \in ImagesOf(tour)}
          = {images[f].sortOrder : f \in ImagesOf(tour)}
    BY <2>0
  <2>2. CASE tour # saved
    BY <1>1, <1>7, <2>1, <2>2 DEF SortOrdersAreDense
  <2>3. CASE tour = saved
    <3>1. /\ first = Cardinality(ImagesOf(saved))
          /\ {images[f].sortOrder : f \in ImagesOf(saved)} = 0..(first - 1)
      <4>1. CASE saved \notin tours
        <5>1. first = 0 /\ ImagesOf(saved) = {}
          BY <4>1 DEF Save, TypeOK, ImagesOf
        <5> QED
          BY <5>1, FS_EmptySet
      <4>2. CASE saved \in tours
        <5>1. saved \in tours \ raced /\ req[r].step = "insert"
              /\ saved = req[r].target /\ first = req[r].count
          BY <1>1, <2>3, <4>2 DEF Save
        <5> QED
          BY <5>1 DEF CountsAreCurrent, SortOrdersAreDense
      <4> QED
        BY <4>1, <4>2
    <3>2. /\ IsFiniteSet(names) /\ Cardinality(names) = Len(req[r].stored)
          /\ Len(req[r].stored) \in Nat
      BY <1>1, RequestState, StoredFiles DEF Stored
    <3>3. IsFiniteSet(ImagesOf(saved)) /\ Cardinality(ImagesOf(saved)) \in Nat
      BY ImagesOfAreFinite
    <3>4. ImagesOf(saved) \cap names = {}
      BY <1>6 DEF ImagesOf
    <3>5. Cardinality(ImagesOf(saved)') = first + Len(req[r].stored)
      <4> HIDE DEF names
      <4>1. Cardinality(ImagesOf(saved) \cap names) = 0
        BY <3>4, FS_EmptySet
      <4>2. Cardinality(ImagesOf(saved) \cup names)
              = Cardinality(ImagesOf(saved)) + Cardinality(names)
                  - Cardinality(ImagesOf(saved) \cap names)
        BY <3>2, <3>3, FS_Union
      <4> QED
        BY <1>7, <3>1, <3>2, <3>3, <4>1, <4>2
    <3>6. {images'[f].sortOrder : f \in ImagesOf(saved)'}
            = {images'[f].sortOrder : f \in ImagesOf(saved)}
                \cup {images'[f].sortOrder : f \in names}
      BY <1>7
    <3>7. {images'[f].sortOrder : f \in ImagesOf(saved)'}
            = (0..(first - 1)) \cup (first..(first + Len(req[r].stored) - 1))
      BY <1>5, <2>1, <2>3, <3>1, <3>6
    <3>8. (0..(first - 1)) \cup (first..(first + Len(req[r].stored) - 1))
            = 0..(first + Len(req[r].stored) - 1)
      BY <3>2
    <3> QED
      BY <2>3, <3>5, <3>7, <3>8
  <2> QED
    BY <2>2, <2>3
<1> QED
  BY <1>8, <1>9, <1>10, <1>11, <1>12, <1>13, <1>14

-----------------------------------------------------------------------------
(* The invariant and the properties it implies *)

LEMMA InitInv == Init => IInv
<1> SUFFICES ASSUME Init
             PROVE  IInv
  OBVIOUS
<1>1. TypeOK /\ IsFiniteSet(DOMAIN images)
  BY InitTyped, FS_EmptySet DEF Init
<1>2. /\ DOMAIN images = {} /\ files = {}
      /\ \A tour : ImagesOf(tour) = {}
      /\ \A r \in Admin : req[r] = Idle
  BY DEF Init, ImagesOf
<1>3. /\ UploadsAreApart /\ RemovedHaveNoRows /\ DeletesKnowImages
      /\ CountsAreCurrent
  BY <1>2 DEF UploadsAreApart, RemovedHaveNoRows, DeletesKnowImages,
     CountsAreCurrent, Uploading, UploadSteps, Idle
<1>4. RowsHaveFiles /\ FilesAreKnown
  BY <1>2 DEF RowsHaveFiles, FilesAreKnown
<1>5. SortOrdersAreDense
  <2>1. Cardinality({}) = 0
    BY FS_EmptySet
  <2>2. \A tour \in tours : {images[f].sortOrder : f \in ImagesOf(tour)} = {}
    BY <1>2
  <2>3. 0..(0 - 1) = {}
    OBVIOUS
  <2> QED
    BY <1>2, <2>1, <2>2, <2>3 DEF SortOrdersAreDense
<1> QED
  BY <1>1, <1>3, <1>4, <1>5 DEF IInv, TablesAndFiles

LEMMA StepInv == IInv /\ [Next]_vars => IInv'
<1> SUFFICES ASSUME IInv, [Next]_vars
             PROVE  IInv'
  OBVIOUS
<1>1. TypeOK' /\ IsFiniteSet(DOMAIN images')
  BY StepTyped, ImagesStayFinite DEF IInv
<1>2. CASE Crash
  BY <1>1, <1>2, CrashKeeps DEF IInv
<1>3. ASSUME NEW r \in Admin, Submit(r) \/ Continue(r)
      PROVE  IInv'
  <2>1. CASE \/ Submit(r) \/ Respond(r) \/ CountImages(r)
             \/ TransactionFails(r) \/ DeleteRefused(r)
    BY <1>1, <2>1, QuietSteps DEF IInv
  <2>2. CASE WriteFile(r)
    BY <1>1, <2>2, WriteFileKeeps DEF IInv
  <2>3. CASE WriteFileFails(r)
    BY <1>1, <2>3, WriteFileFailsKeeps DEF IInv
  <2>4. CASE CreateTour(r) \/ InsertImages(r) \/ CommitUnanswered(r)
    <3>1. \E saved \in Tour, first \in Nat :
            \E state : Save(r, saved, first, state)
      BY <2>4, SaveEffect DEF IInv
    <3> QED
      BY <1>1, <3>1, SaveKeeps DEF IInv
  <2>5. CASE DeleteTour(r) \/ DeleteUnanswered(r)
    BY <1>1, <2>5, DeleteKeeps DEF IInv
  <2>6. CASE CleanupTourImages(r)
    BY <1>1, <2>6, CleanupKeeps DEF IInv
  <2> QED
    BY <1>3, <2>1, <2>2, <2>3, <2>4, <2>5, <2>6 DEF Continue
<1>4. CASE UNCHANGED vars
  BY <1>4 DEF vars, IInv, TablesAndFiles, TypeOK, UploadsAreApart,
     RemovedHaveNoRows, DeletesKnowImages, CountsAreCurrent, RowsHaveFiles,
     FilesAreKnown,
     SortOrdersAreDense, ImagesOf, Held, Listed, Stored, Uploading, InProgress
<1> QED
  BY <1>2, <1>3, <1>4 DEF Next

\* The requests, the files and the rows agree in every reachable state.
THEOREM Invariant == Spec => []IInv
<1> QED
  BY InitInv, StepInv, PTL DEF Spec

\* RowsHaveFiles: create, update and delete write files before the rows and
\* unlink them after, and a request never cleans up the files of another.
THEOREM RowsHaveFilesCorrect == Spec => []RowsHaveFiles
<1>1. IInv => RowsHaveFiles
  BY DEF IInv, TablesAndFiles
<1> QED
  BY <1>1, Invariant, PTL

\* FilesAreKnown: every return and throw of create, update and delete leaves
\* a file to its row, to a cleanup or to an accident.
THEOREM FilesAreKnownCorrect == Spec => []FilesAreKnown
<1>1. IInv => FilesAreKnown
  BY DEF IInv, TablesAndFiles
<1> QED
  BY <1>1, Invariant, PTL

\* SortOrdersAreDense: only two updates that both counted a tour's images can
\* repeat a sort order.
THEOREM SortOrdersAreDenseCorrect == Spec => []SortOrdersAreDense
<1>1. IInv => SortOrdersAreDense
  BY DEF IInv, TablesAndFiles
<1> QED
  BY <1>1, Invariant, PTL
================================================================================
