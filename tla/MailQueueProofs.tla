--------------------------- MODULE MailQueueProofs ---------------------------
(* Theorems about MailQueue, for every number of workers, attempts and stalls. *)
EXTENDS MailQueue, BookingsProofs, TLAPS

\* The types of jobs and workers; only jobs that still have an attempt left are
\* waiting, delayed or at work.
QueueTyped ==
  /\ job \in [JobId -> JobState]
  /\ worker \in [Worker -> WorkerState]
  /\ lastMail \in [BookingId -> Decision \cup {NoMail}]
  /\ \A j \in JobId : job[j].state \in {"waiting", "active", "delayed"} =>
       job[j].attempts < MaxAttempts

LEMMA WorkerTyped ==
  ASSUME QueueTyped, NEW w \in Worker
  PROVE  /\ worker[w].step \in {"find", "send", "sent"} =>
              /\ Busy(w) /\ worker[w].job \in JobId
              /\ worker[w].locked \in BOOLEAN
              /\ worker[w].job[1] \in BookingId
         /\ worker[w].step \in {"send", "sent"} => worker[w].status \in Decision
         /\ Busy(w) => worker[w].step \in {"find", "send", "sent"}
         /\ worker[w].step = "send" =>
              worker[w] \in [step: {"send", "sent"}, job: JobId, locked: BOOLEAN,
                             status: Decision]
<1>1. worker[w] \in WorkerState
  BY DEF QueueTyped
<1> QED
  BY <1>1 DEF WorkerState, Idle, Busy, JobId

\* Bookings adds jobs to the queue and never removes one.
LEMMA JobsAreAdded ==
  ASSUME Next
  PROVE  mailJobs \subseteq mailJobs'
<1>1. ASSUME NEW r \in Request,
             Arrive(r) \/ Lock(r) \/ Proceed(r) \/ Fail(r)
      PROVE  mailJobs \subseteq mailJobs'
  BY <1>1 DEF Arrive, StartCreate, FindOwnBooking, FindBooking, Lock,
     LockTourTime, RejectUnavailable, Proceed, FindExisting,
     CheckCapacity, SaveBooking, CancelBooking, SaveDecision,
     EnqueueBookingDecision, Fail
<1>2. ASSUME Background
      PROVE  mailJobs \subseteq mailJobs'
  BY <1>2 DEF Background
<1> QED
  BY <1>1, <1>2 DEF Next

\* A worker has a job that was added, and while it holds its lock, the job is
\* active and nobody else's.
LocksPaired ==
  /\ \A w \in Worker : Busy(w) => worker[w].job \in mailJobs
  /\ \A w \in Worker, j \in JobId : Locks(w, j) => job[j].state = "active"
  /\ \A v, w \in Worker, j \in JobId : Locks(v, j) /\ Locks(w, j) => v = w

\* The job a worker tries has an attempt left.
LEMMA WorkersAttempts ==
  ASSUME QueueTyped, LocksPaired, NEW w \in Worker, Busy(w), worker[w].locked
  PROVE  /\ Locks(w, worker[w].job) /\ worker[w].job \in JobId
         /\ job[worker[w].job].attempts < MaxAttempts
BY WorkerTyped DEF QueueTyped, LocksPaired, Locks

\* What is known of a job after a failed attempt, and after its worker died.
LEMMA AfterAttempt ==
  ASSUME NEW old \in JobState, old.attempts < MaxAttempts
  PROVE  LET attempts == old.attempts + 1
             new == [old EXCEPT !.attempts = attempts,
                       !.state = IF attempts < MaxAttempts
                                 THEN "delayed" ELSE "failed"]
         IN  /\ new \in JobState /\ new.state # "active"
             /\ new.state \in {"waiting", "active", "delayed"} =>
                  new.attempts < MaxAttempts
<1> DEFINE attempts == old.attempts + 1
           new == [old EXCEPT !.attempts = attempts,
                     !.state = IF attempts < MaxAttempts
                               THEN "delayed" ELSE "failed"]
<1>1. attempts \in 0..MaxAttempts
  BY MailAssumption DEF JobState
<1>2. /\ new \in JobState /\ new.state # "active"
      /\ new.state \in {"waiting", "active", "delayed"} =>
           new.attempts < MaxAttempts
  <2> HIDE DEF attempts
  <2> QED
    BY <1>1 DEF JobState
<1> QED
  BY <1>2

LEMMA AfterStall ==
  ASSUME NEW old \in JobState, old.attempts < MaxAttempts
  PROVE  LET new == IF old.stalls < MaxStalls
                    THEN [old EXCEPT !.state = "waiting", !.stalls = @ + 1]
                    ELSE [old EXCEPT !.state = "failed"]
         IN  /\ new \in JobState /\ new.state # "active"
             /\ new.state \in {"waiting", "active", "delayed"} =>
                  new.attempts < MaxAttempts
<1>1. CASE old.stalls < MaxStalls
  <2> DEFINE stalls == old.stalls + 1
  <2>1. stalls \in 0..MaxStalls
    BY <1>1, MailAssumption DEF JobState
  <2> HIDE DEF stalls
  <2>2. LET new == [old EXCEPT !.state = "waiting", !.stalls = stalls]
        IN  new \in JobState /\ new.state = "waiting" /\ new.attempts = old.attempts
    BY <2>1 DEF JobState
  <2> QED
    BY <1>1, <2>2 DEF stalls
<1>2. CASE ~(old.stalls < MaxStalls)
  BY <1>2 DEF JobState
<1> QED
  BY <1>1, <1>2

-----------------------------------------------------------------------------
(* Types *)

\* What becomes of a job that goes into state s with so many attempts.
LEMMA JobTyped ==
  ASSUME QueueTyped, NEW j \in JobId, NEW new \in JobState,
         new.state \in {"waiting", "active", "delayed"} =>
           new.attempts < MaxAttempts,
         job' = [job EXCEPT ![j] = new]
  PROVE  /\ job' \in [JobId -> JobState]
         /\ \A x \in JobId : job'[x].state \in {"waiting", "active", "delayed"} =>
              job'[x].attempts < MaxAttempts
  BY DEF QueueTyped

LEMMA StepKeepsQueueTyped ==
  ASSUME QueueTyped, LocksPaired, [QueueNext]_queueVars
  PROVE  QueueTyped'
<1>r. ASSUME NEW w \in Worker, Busy(w)
      PROVE  LET j == worker[w].job IN
             j \in JobId /\ job[j] \in JobState
  BY <1>r, WorkerTyped DEF QueueTyped
<1>1. ASSUME NEW w \in Worker, NEW j \in JobId, TakeJob(w, j)
      PROVE  QueueTyped'
  <2> DEFINE new == [job[j] EXCEPT !.state = "active"]
  <2>1. new \in JobState /\ new.attempts < MaxAttempts
    BY <1>1 DEF TakeJob, QueueTyped, JobState
  <2>2. job' = [job EXCEPT ![j] = new]
    BY <1>1 DEF TakeJob
  <2>3. worker' \in [Worker -> WorkerState]
    BY <1>1 DEF TakeJob, QueueTyped, WorkerState
  <2> HIDE DEF new
  <2> QED
    BY <1>1, <2>1, <2>2, <2>3, JobTyped DEF TakeJob, QueueTyped
<1>2. ASSUME NEW w \in Worker, Busy(w), Complete(w), UNCHANGED lastMail
      PROVE  QueueTyped'
  <2> DEFINE j == worker[w].job
             new == [job[j] EXCEPT !.state = "completed"]
  <2>1. new \in JobState /\ new.state = "completed" /\ j \in JobId
    BY <1>2, <1>r DEF JobState
  <2>2. job' = job \/ job' = [job EXCEPT ![j] = new]
    BY <1>2 DEF Complete
  <2>3. worker' \in [Worker -> WorkerState]
    BY <1>2 DEF Complete, Release, QueueTyped, WorkerState
  <2> HIDE DEF new, j
  <2> QED
    BY <1>2, <2>1, <2>2, <2>3, JobTyped DEF QueueTyped
<1>3. ASSUME NEW w \in Worker, LoadBooking(w)
      PROVE  QueueTyped'
  <2>1. CASE Complete(w)
    BY <1>2, <1>3, <2>1, WorkerTyped DEF LoadBooking
  <2>2. CASE ~Complete(w)
    BY <1>3, <2>2, WorkerTyped DEF LoadBooking, QueueTyped, WorkerState
  <2> QED
    BY <2>1, <2>2
<1>4. ASSUME NEW w \in Worker, SendBookingDecision(w)
      PROVE  QueueTyped'
  <2>1. worker' \in [Worker -> WorkerState]
    <3>1. [worker[w] EXCEPT !.step = "sent"] \in WorkerState
      BY <1>4, WorkerTyped DEF SendBookingDecision, WorkerState
    <3> QED
      BY <1>4, <3>1 DEF SendBookingDecision, QueueTyped
  <2> QED
    BY <1>4, <2>1, WorkerTyped DEF SendBookingDecision, QueueTyped
<1>5. ASSUME NEW w \in Worker, CompleteJob(w)
      PROVE  QueueTyped'
  BY <1>2, <1>5, WorkerTyped DEF CompleteJob
<1>6. ASSUME NEW w \in Worker, AttemptFails(w)
      PROVE  QueueTyped'
  <2> DEFINE j == worker[w].job
             attempts == job[j].attempts + 1
             new == [job[j] EXCEPT !.attempts = attempts,
                       !.state = IF attempts < MaxAttempts
                                 THEN "delayed" ELSE "failed"]
  <2>0. Busy(w) /\ j \in JobId /\ job[j] \in JobState
    BY <1>6, <1>r DEF AttemptFails
  <2>1. worker' \in [Worker -> WorkerState] /\ lastMail' = lastMail
    BY <1>6 DEF AttemptFails, Release, QueueTyped, WorkerState
  <2>2. CASE worker[w].locked
    <3>1. job[j].attempts < MaxAttempts
      BY <2>0, <2>2, WorkersAttempts
    <3>2. /\ new \in JobState
          /\ new.state \in {"waiting", "active", "delayed"} =>
               new.attempts < MaxAttempts
      BY <2>0, <3>1, AfterAttempt
    <3>3. job' = [job EXCEPT ![j] = new]
      BY <1>6, <2>2 DEF AttemptFails, Retry
    <3> HIDE DEF new, j, attempts
    <3> QED
      BY <2>0, <2>1, <3>2, <3>3, JobTyped DEF QueueTyped
  <2>3. CASE ~worker[w].locked
    BY <1>6, <2>1, <2>3 DEF AttemptFails, QueueTyped
  <2> QED
    BY <2>2, <2>3
<1>7. ASSUME NEW j \in JobId, JobStalls(j)
      PROVE  QueueTyped'
  <2> DEFINE new == IF job[j].stalls < MaxStalls
                    THEN [job[j] EXCEPT !.state = "waiting", !.stalls = @ + 1]
                    ELSE [job[j] EXCEPT !.state = "failed"]
  <2>0. job[j] \in JobState /\ job[j].attempts < MaxAttempts
    BY <1>7 DEF JobStalls, QueueTyped
  <2>1. /\ new \in JobState
        /\ new.state \in {"waiting", "active", "delayed"} =>
             new.attempts < MaxAttempts
    BY <2>0, AfterStall
  <2>2. job' = [job EXCEPT ![j] = new]
    BY <1>7, <2>0 DEF JobStalls
  <2>3. worker' \in [Worker -> WorkerState]
    <3>1. ASSUME NEW w \in Worker, Locks(w, j)
          PROVE  [worker[w] EXCEPT !.locked = FALSE] \in WorkerState
      BY <3>1 DEF Locks, Busy, QueueTyped, WorkerState
    <3> QED
      BY <1>7, <3>1 DEF JobStalls, QueueTyped
  <2>4. lastMail' = lastMail
    BY <1>7 DEF JobStalls
  <2> HIDE DEF new
  <2> QED
    BY <2>1, <2>2, <2>3, <2>4, JobTyped DEF QueueTyped
<1>12. ASSUME NEW w \in Worker, WorkerDies(w)
       PROVE  QueueTyped'
  BY <1>12 DEF WorkerDies, Release, QueueTyped, WorkerState
<1>8. ASSUME NEW j \in JobId, Promote(j)
      PROVE  QueueTyped'
  <2> DEFINE new == [job[j] EXCEPT !.state = "waiting"]
  <2>1. new \in JobState /\ new.attempts < MaxAttempts
    BY <1>8 DEF Promote, QueueTyped, JobState
  <2>2. job' = [job EXCEPT ![j] = new]
    BY <1>8 DEF Promote
  <2> HIDE DEF new
  <2> QED
    BY <1>8, <2>1, <2>2, JobTyped DEF Promote, QueueTyped
<1>9. CASE UNCHANGED <<job, worker, lastMail>>
  BY <1>9 DEF QueueTyped
<1>10. ASSUME NEW w \in Worker, Process(w) \/ AttemptFails(w) \/ WorkerDies(w)
       PROVE  QueueTyped'
  BY <1>3, <1>4, <1>5, <1>6, <1>10, <1>12 DEF Process
<1>11. CASE MailStep
  BY <1>1, <1>7, <1>8, <1>10, <1>11 DEF MailStep
<1> QED
  BY <1>9, <1>11 DEF QueueNext, queueVars

-----------------------------------------------------------------------------
(* Jobs and workers *)

\* A worker that ends its attempt lets its lock go with its job, which the
\* others do not have.
LEMMA ReleaseKeepsPairing ==
  ASSUME QueueTyped, LocksPaired, NEW w \in Worker, Busy(w), Release(w),
         NEW new \in JobState,
         \/ job' = job
         \/ worker[w].locked /\ job' = [job EXCEPT ![worker[w].job] = new],
         mailJobs' = mailJobs
  PROVE  LocksPaired'
<1> DEFINE j == worker[w].job
<1>0. j \in JobId
  BY WorkerTyped
<1>1. /\ worker'[w] = Idle
      /\ \A v \in Worker : v # w => worker'[v] = worker[v]
  BY DEF Release, QueueTyped
<1>2. \A v \in Worker, x \in JobId : Locks(v, x)' => v # w /\ Locks(v, x)
  BY <1>1 DEF Locks, Busy
<1>3. \A x \in JobId : job'[x] = job[x] \/ Locks(w, x)
  BY <1>0 DEF QueueTyped, Locks
<1>4. ASSUME NEW v \in Worker, NEW x \in JobId, Locks(v, x)'
      PROVE  job'[x].state = "active"
  BY <1>2, <1>3, <1>4 DEF LocksPaired
<1>5. \A v \in Worker : Busy(v)' => worker'[v].job \in mailJobs
  BY <1>1 DEF LocksPaired, Busy
<1>6. ASSUME NEW u \in Worker, NEW v \in Worker, NEW x \in JobId,
             Locks(u, x)', Locks(v, x)'
      PROVE  u = v
  BY <1>2, <1>6 DEF LocksPaired
<1> QED
  BY <1>4, <1>5, <1>6 DEF LocksPaired, Locks, Busy

LEMMA StepKeepsPairing ==
  ASSUME QueueTyped, LocksPaired, [QueueNext]_queueVars
  PROVE  LocksPaired'
<1>r. ASSUME NEW w \in Worker, Busy(w)
      PROVE  worker[w].job \in JobId /\ job[worker[w].job] \in JobState
  BY <1>r, WorkerTyped DEF QueueTyped
<1>1. ASSUME NEW w \in Worker, NEW j \in JobId, TakeJob(w, j),
             UNCHANGED vars
      PROVE  LocksPaired'
  <2>1. /\ \A v \in Worker : v # w => worker'[v] = worker[v]
        /\ worker'[w] = [step |-> "find", job |-> j, locked |-> TRUE]
    BY <1>1 DEF TakeJob, QueueTyped
  <2>2. \A v \in Worker : ~Locks(v, j)
    BY <1>1 DEF TakeJob, LocksPaired
  <2>3. /\ job'[j].state = "active"
        /\ \A x \in JobId : x # j => job'[x] = job[x]
    BY <1>1 DEF TakeJob, QueueTyped, JobState
  <2>4. j \in mailJobs /\ mailJobs' = mailJobs
    BY <1>1 DEF TakeJob, vars
  <2>5. \A v \in Worker, x \in JobId :
          Locks(v, x)' => (v = w /\ x = j) \/ (v # w /\ Locks(v, x))
    BY <2>1 DEF Locks, Busy
  <2>6. ASSUME NEW v \in Worker, NEW x \in JobId, Locks(v, x)'
        PROVE  job'[x].state = "active"
    BY <2>2, <2>3, <2>5, <2>6 DEF LocksPaired
  <2>7. \A v \in Worker : Busy(v)' => worker'[v].job \in mailJobs'
    BY <2>1, <2>4 DEF LocksPaired, Busy
  <2>8. ASSUME NEW u \in Worker, NEW v \in Worker, NEW x \in JobId,
               Locks(u, x)', Locks(v, x)'
        PROVE  u = v
    BY <2>2, <2>5, <2>8 DEF LocksPaired
  <2> QED
    BY <2>6, <2>7, <2>8 DEF LocksPaired, Locks, Busy
<1>2. ASSUME NEW w \in Worker, Busy(w), Complete(w), UNCHANGED vars
      PROVE  LocksPaired'
  <2> DEFINE new == [job[worker[w].job] EXCEPT !.state = "completed"]
  <2>1. new \in JobState
    BY <1>2, <1>r DEF JobState
  <2>2. /\ \/ job' = job
           \/ worker[w].locked /\ job' = [job EXCEPT ![worker[w].job] = new]
        /\ Release(w)
    BY <1>2 DEF Complete
  <2>3. mailJobs' = mailJobs
    BY <1>2 DEF vars
  <2> HIDE DEF new
  <2> QED
    BY <1>2, <2>1, <2>2, <2>3, ReleaseKeepsPairing
<1>3. ASSUME NEW w \in Worker, AttemptFails(w), UNCHANGED vars
      PROVE  LocksPaired'
  <2> DEFINE j == worker[w].job
             new == [job[j] EXCEPT !.attempts = job[j].attempts + 1,
                       !.state = IF job[j].attempts + 1 < MaxAttempts
                                 THEN "delayed" ELSE "failed"]
  <2>0. Busy(w) /\ Release(w) /\ mailJobs' = mailJobs /\ job[j] \in JobState
    BY <1>3, <1>r DEF AttemptFails, vars
  <2>1. CASE worker[w].locked
    <3>1. job[j].attempts < MaxAttempts
      BY <2>0, <2>1, WorkersAttempts
    <3>2. new \in JobState
      BY <2>0, <3>1, AfterAttempt
    <3>3. job' = [job EXCEPT ![j] = new]
      BY <1>3, <2>1 DEF AttemptFails, Retry
    <3> HIDE DEF new
    <3> QED
      BY <2>0, <2>1, <3>2, <3>3, ReleaseKeepsPairing
  <2>2. CASE ~worker[w].locked
    BY <1>3, <2>0, <2>2, ReleaseKeepsPairing DEF AttemptFails
  <2> QED
    BY <2>1, <2>2
<1>4. ASSUME NEW w \in Worker, WorkerDies(w), UNCHANGED vars
      PROVE  LocksPaired'
  <2>1. Busy(w) /\ Release(w) /\ job' = job /\ mailJobs' = mailJobs
    BY <1>4 DEF WorkerDies, vars
  <2>2. job[worker[w].job] \in JobState
    BY <2>1, <1>r
  <2> QED
    BY <2>1, <2>2, ReleaseKeepsPairing
\* The steps that leave who has which job as it is.
<1>5. ASSUME \A v \in Worker : Busy(v)' <=> Busy(v),
             \A v \in Worker : Busy(v) =>
               /\ worker'[v].job = worker[v].job
               /\ worker'[v].locked = worker[v].locked,
             \A x \in JobId : job[x].state = "active" => job'[x].state = "active",
             mailJobs \subseteq mailJobs'
      PROVE  LocksPaired'
  <2>1. \A v \in Worker, x \in JobId : Locks(v, x)' => Locks(v, x)
    BY <1>5 DEF Locks
  <2>2. ASSUME NEW v \in Worker, NEW x \in JobId, Locks(v, x)'
        PROVE  job'[x].state = "active"
    BY <1>5, <2>1, <2>2 DEF LocksPaired
  <2>3. ASSUME NEW u \in Worker, NEW v \in Worker, NEW x \in JobId,
               Locks(u, x)', Locks(v, x)'
        PROVE  u = v
    BY <2>1, <2>3 DEF LocksPaired
  <2>4. \A v \in Worker : Busy(v)' => worker'[v].job \in mailJobs'
    BY <1>5 DEF LocksPaired
  <2> QED
    BY <2>2, <2>3, <2>4 DEF LocksPaired, Locks, Busy
<1>6. ASSUME NEW w \in Worker, LoadBooking(w), UNCHANGED vars
      PROVE  LocksPaired'
  <2>1. CASE Complete(w)
    BY <1>2, <1>6, <2>1, WorkerTyped DEF LoadBooking
  <2>2. CASE ~Complete(w)
    <3>1. /\ Busy(w) /\ job' = job /\ mailJobs' = mailJobs
          /\ worker'[w].step = "send" /\ worker'[w].job = worker[w].job
          /\ worker'[w].locked = worker[w].locked
          /\ \A v \in Worker : v # w => worker'[v] = worker[v]
      BY <1>6, <2>2, WorkerTyped DEF LoadBooking, QueueTyped, vars
    <3>2. worker'[w] # Idle
      BY <3>1 DEF Idle
    <3> QED
      BY <1>5, <3>1, <3>2 DEF Busy
  <2> QED
    BY <2>1, <2>2
<1>7. ASSUME NEW w \in Worker, SendBookingDecision(w), UNCHANGED vars
      PROVE  LocksPaired'
  <2>1. /\ worker[w].step = "send" /\ Busy(w)
        /\ worker[w] \in [step: {"send", "sent"}, job: JobId, locked: BOOLEAN,
                          status: Decision]
    BY <1>7, WorkerTyped DEF SendBookingDecision
  <2>2. /\ worker'[w].step = "sent" /\ worker'[w].job = worker[w].job
        /\ worker'[w].locked = worker[w].locked
    BY <1>7, <2>1 DEF SendBookingDecision, QueueTyped
  <2>3. worker'[w] # Idle
    BY <2>2 DEF Idle
  <2>4. \A v \in Worker : v # w => worker'[v] = worker[v]
    BY <1>7 DEF SendBookingDecision, QueueTyped
  <2>5. job' = job /\ mailJobs' = mailJobs
    BY <1>7 DEF SendBookingDecision, vars
  <2> QED
    BY <1>5, <2>1, <2>2, <2>3, <2>4, <2>5 DEF Busy
<1>8. ASSUME NEW j \in JobId, Promote(j), UNCHANGED vars
      PROVE  LocksPaired'
  <2>1. \A x \in JobId : job[x].state = "active" => job'[x].state = "active"
    BY <1>8 DEF Promote, QueueTyped, JobState
  <2>2. worker' = worker /\ mailJobs' = mailJobs
    BY <1>8 DEF Promote, vars
  <2> QED
    BY <1>5, <2>1, <2>2 DEF Busy
<1>12. ASSUME NEW j \in JobId, JobStalls(j), UNCHANGED vars
       PROVE  LocksPaired'
  <2>1. /\ mailJobs' = mailJobs
        /\ \A x \in JobId : x # j => job'[x] = job[x]
    BY <1>12 DEF JobStalls, QueueTyped, vars
  <2>2. ASSUME NEW v \in Worker
        PROVE  /\ Busy(v)' => Busy(v) /\ worker'[v].job = worker[v].job
               /\ \A x \in JobId : Locks(v, x)' => Locks(v, x) /\ x # j
    <3>1. CASE Locks(v, j)
      <4>1. worker[v] \in WorkerState \ {Idle}
        BY <3>1 DEF Locks, Busy, QueueTyped
      <4>2. worker'[v] = [worker[v] EXCEPT !.locked = FALSE]
        BY <1>12, <3>1 DEF JobStalls
      <4>3. worker'[v].job = worker[v].job /\ ~worker'[v].locked
        BY <4>1, <4>2 DEF WorkerState
      <4> QED
        BY <3>1, <4>3 DEF Locks
    <3>2. CASE ~Locks(v, j)
      BY <1>12, <3>2 DEF JobStalls, Locks, Busy
    <3> QED
      BY <3>1, <3>2
  <2>3. ASSUME NEW v \in Worker, NEW x \in JobId, Locks(v, x)'
        PROVE  job'[x].state = "active"
    BY <2>1, <2>2, <2>3 DEF LocksPaired
  <2>4. ASSUME NEW u \in Worker, NEW v \in Worker, NEW x \in JobId,
               Locks(u, x)', Locks(v, x)'
        PROVE  u = v
    BY <2>2, <2>4 DEF LocksPaired
  <2>5. \A v \in Worker : Busy(v)' => worker'[v].job \in mailJobs'
    BY <2>1, <2>2 DEF LocksPaired
  <2> QED
    BY <2>3, <2>4, <2>5 DEF LocksPaired, Locks, Busy
<1>9. CASE Next /\ UNCHANGED <<job, worker, lastMail>>
  BY <1>5, <1>9, JobsAreAdded DEF Busy
<1>10. CASE UNCHANGED queueVars
  BY <1>5, <1>10 DEF Busy, queueVars, vars
<1>11. CASE MailStep /\ UNCHANGED vars
  <2>1. ASSUME NEW w \in Worker,
               Process(w) \/ AttemptFails(w) \/ WorkerDies(w)
        PROVE  LocksPaired'
    <3>1. CASE CompleteJob(w)
      BY <1>2, <1>11, <3>1, WorkerTyped DEF CompleteJob
    <3> QED
      BY <1>3, <1>4, <1>6, <1>7, <1>11, <2>1, <3>1 DEF Process
  <2> QED
    BY <1>1, <1>8, <1>11, <1>12, <2>1 DEF MailStep
<1> QED
  BY <1>9, <1>10, <1>11 DEF QueueNext

LEMMA InitPairing == QueueInit => QueueTyped /\ LocksPaired
<1> SUFFICES ASSUME QueueInit
             PROVE  QueueTyped /\ LocksPaired
  OBVIOUS
<1>1. \A j \in JobId : job[j] = [state |-> "waiting", attempts |-> 0, stalls |-> 0]
  BY DEF QueueInit
<1>2. [state |-> "waiting", attempts |-> 0, stalls |-> 0] \in JobState
  BY MailAssumption DEF JobState
<1>3. QueueTyped
  BY <1>1, <1>2, MailAssumption DEF QueueInit, QueueTyped, WorkerState
<1>4. LocksPaired
  BY <1>1 DEF QueueInit, LocksPaired, Locks, Busy
<1> QED
  BY <1>3, <1>4

-----------------------------------------------------------------------------
(* Type correctness *)

LEMMA QueueInitTyped == QueueInit => QueueTypeOK
<1> SUFFICES ASSUME QueueInit
             PROVE  QueueTypeOK
  OBVIOUS
<1>1. TypeOK
  BY InitTyped DEF QueueInit
<1> QED
  BY <1>1, InitPairing DEF QueueTyped, QueueTypeOK

\* A step of the queue is none of Bookings.
LEMMA QueueStepsTyped == QueueTypeOK /\ [QueueNext]_queueVars => TypeOK'
<1> SUFFICES ASSUME QueueTypeOK, [QueueNext]_queueVars
             PROVE  TypeOK'
  OBVIOUS
<1>1. [Next]_vars
  BY DEF QueueNext, queueVars
<1> QED
  BY <1>1, StepTyped DEF QueueTypeOK

\* QueueTypeOK: no attempt or stall of a job is counted beyond its limit.
THEOREM QueueTypeCorrect == QueueSpec => []QueueTypeOK
<1>1. QueueInit => QueueTypeOK /\ QueueTyped /\ LocksPaired
  BY QueueInitTyped, InitPairing
<1>2. QueueTypeOK /\ QueueTyped /\ LocksPaired
        /\ [QueueNext]_queueVars
      => (QueueTypeOK /\ QueueTyped /\ LocksPaired)'
  BY StepKeepsQueueTyped, StepKeepsPairing, QueueStepsTyped
     DEF QueueTypeOK, QueueTyped
<1> QED
  BY <1>1, <1>2, PTL DEF QueueSpec

-----------------------------------------------------------------------------
(* The last mail *)

\* Jobs and requests that are about to add one belong to bookings that were
\* decided; Bull knows nothing yet of the other jobs.
JobsHaveDecisions ==
  /\ \A j \in mailJobs :
       j[1] \in DOMAIN bookings /\ bookings[j[1]].status \in Decision
  /\ \A r \in Request : req[r].step = "enqueue" =>
       bookings[req[r].booking].status \in Decision
  /\ \A j \in JobId \ mailJobs : job[j].state = "waiting"

\* Of a decided booking, one more decision at most can come, and none has a
\* mail job but the one it has now.
OneLateDecision ==
  \A r \in Request :
    req[r].step = "save" /\ bookings[req[r].booking].status \in Decision =>
      LET b == req[r].booking
          status == bookings[b].status
      IN  /\ \A x \in Request \ {r} : req[x].step = "save" =>
               req[x].booking # b
          /\ \A x \in Request :
               req[x].step = "enqueue" /\ req[x].booking = b =>
                 req[x].decision = status
          /\ \A j \in JobsOf(b) : j[2] = status

\* A request is about to add the job of the decision.
JobComes(b) ==
  /\ <<b, bookings[b].status>> \notin mailJobs
  /\ \E r \in Request :
       /\ req[r].step = "enqueue"
       /\ req[r].booking = b /\ req[r].decision = bookings[b].status

\* A job is not completed, and who has it locked has still to read the booking,
\* or has read its decision and will send it.
MailComes(b) ==
  \E j \in JobsOf(b) :
    /\ job[j].state # "completed"
    /\ \A w \in Worker : Locks(w, j) =>
         /\ worker[w].step \in {"find", "send"}
         /\ worker[w].step = "send" => worker[w].status = bookings[b].status

\* The user knows the decision, and no worker is about to tell another.
MailTold(b) ==
  /\ lastMail[b] = bookings[b].status
  /\ \A w \in Worker : worker[w].step = "send" /\ worker[w].job[1] = b =>
       worker[w].status = bookings[b].status

MailsFollowDecisions ==
  failures = 0 =>
    \A b \in DOMAIN bookings : bookings[b].status \in Decision =>
      JobComes(b) \/ MailComes(b) \/ MailTold(b)

MailInv ==
  /\ QueueTypeOK /\ QueueTyped /\ LocksPaired
  /\ JobsHaveDecisions
  /\ OneLateDecision
  /\ MailsFollowDecisions

Few == Cardinality(Request) <= 2 /\ Cardinality(Worker) = 1

LEMMA NoThreeRequests ==
  ASSUME Few, NEW r \in Request, NEW x \in Request, NEW y \in Request,
         r # x, r # y
  PROVE  x = y
<1> SUFFICES ASSUME x # y
             PROVE  FALSE
  OBVIOUS
<1> DEFINE pair == {r} \cup {x}
<1>1. IsFiniteSet({r}) /\ Cardinality({r}) = 1
  BY FS_Singleton
<1>2. x \notin {r}
  OBVIOUS
<1>3. IsFiniteSet(pair) /\ Cardinality(pair) = 2
  BY <1>1, <1>2, FS_AddElement
<1>4. y \notin pair /\ pair \cup {y} \subseteq Request
  OBVIOUS
<1> HIDE DEF pair
<1>5. IsFiniteSet(pair \cup {y}) /\ Cardinality(pair \cup {y}) = 3
  BY <1>3, <1>4, FS_AddElement
<1>6. Cardinality(pair \cup {y}) <= Cardinality(Request)
  BY <1>4, MailAssumption, FS_Subset
<1>7. Cardinality(Request) \in Nat
  BY MailAssumption, FS_CardinalityType
<1> QED
  BY <1>5, <1>6, <1>7 DEF Few

LEMMA OneWorker ==
  ASSUME Few, NEW v \in Worker, NEW w \in Worker
  PROVE  v = w
<1>1. \E x : Worker = {x}
  BY MailAssumption, FS_Singleton DEF Few
<1> QED
  BY <1>1

\* What a finished or failed attempt leaves of the mails to come: who ended it
\* had no lock, or the mail was sent, or the job is tried again.
LEMMA AttemptEndsKeepsMails ==
  ASSUME Few, MailInv, NEW w \in Worker, Busy(w), Release(w),
         UNCHANGED <<vars, lastMail>>,
         NEW new,
         \/ job' = job
         \/ /\ worker[w].locked
            /\ job' = [job EXCEPT ![worker[w].job] = new]
            /\ new.state # "completed" \/ worker[w].step = "sent"
  PROVE  JobsHaveDecisions' /\ MailsFollowDecisions'
<1> USE DEF MailInv
<1>0. /\ UNCHANGED <<bookings, req, mailJobs, failures, lastMail>>
      /\ worker[w].job \in JobId /\ worker[w].job \in mailJobs
  BY WorkerTyped DEF vars, LocksPaired
<1>1. \A j \in JobId :
        \/ job'[j] = job[j]
        \/ /\ j = worker[w].job /\ Locks(w, j) /\ job'[j] = new
           /\ new.state # "completed" \/ worker[w].step = "sent"
  BY <1>0 DEF QueueTyped, Locks
<1>2. worker'[w] = Idle
  BY DEF Release, QueueTyped
<1>3. \A v \in Worker : v = w
  BY OneWorker
<1>4. JobsHaveDecisions'
  BY <1>0, <1>1 DEF JobsHaveDecisions
<1>5. ASSUME NEW b \in DOMAIN bookings, JobComes(b)
      PROVE  JobComes(b)'
  BY <1>0, <1>5 DEF JobComes
<1>6. ASSUME NEW b \in DOMAIN bookings, MailTold(b)
      PROVE  MailTold(b)'
  BY <1>0, <1>2, <1>3, <1>6 DEF MailTold, Idle
<1>7. ASSUME NEW b \in DOMAIN bookings, MailComes(b)
      PROVE  MailComes(b)'
  <2>1. PICK j \in JobsOf(b) :
          /\ job[j].state # "completed"
          /\ Locks(w, j) => worker[w].step \in {"find", "send"}
    BY <1>7 DEF MailComes
  <2>2. j \in JobId /\ j \in JobsOf(b)'
    BY <1>0, <2>1 DEF JobsOf, QueueTypeOK, TypeOK, JobId
  <2>3. job'[j].state # "completed"
    BY <1>1, <2>1, <2>2
  <2>4. \A v \in Worker : ~Locks(v, j)'
    BY <1>2, <1>3 DEF Locks, Busy
  <2> QED
    BY <2>2, <2>3, <2>4 DEF MailComes
<1>8. MailsFollowDecisions'
  BY <1>0, <1>5, <1>6, <1>7 DEF MailsFollowDecisions
<1> QED
  BY <1>4, <1>8

LEMMA MailStepKeepsMails ==
  ASSUME Few, MailInv, MailStep, UNCHANGED vars
  PROVE  JobsHaveDecisions' /\ OneLateDecision' /\ MailsFollowDecisions'
<1> USE DEF MailInv
<1>0. UNCHANGED <<bookings, req, mailJobs, failures>>
  BY DEF vars
<1>1. OneLateDecision'
  BY <1>0 DEF OneLateDecision, JobsOf
<1>2. \A v, w \in Worker : v = w
  BY OneWorker
<1>3. \A j \in mailJobs : j \in JobId
  BY DEF QueueTypeOK, TypeOK, JobId
<1>4. ASSUME NEW b \in DOMAIN bookings, JobComes(b)
      PROVE  JobComes(b)'
  BY <1>0, <1>4 DEF JobComes
<1>5. ASSUME NEW w \in Worker, NEW j \in JobId, TakeJob(w, j)
      PROVE  JobsHaveDecisions' /\ MailsFollowDecisions'
  <2>1. /\ j \in mailJobs /\ lastMail' = lastMail /\ ~Busy(w)
        /\ \A i \in JobId : i # j => job'[i] = job[i]
        /\ worker'[w] = [step |-> "find", job |-> j, locked |-> TRUE]
    BY <1>5 DEF TakeJob, QueueTyped
  <2>2. JobsHaveDecisions'
    BY <1>0, <2>1 DEF JobsHaveDecisions
  <2>3. ASSUME NEW b \in DOMAIN bookings, MailTold(b)
        PROVE  MailTold(b)'
    BY <1>0, <1>2, <2>1, <2>3 DEF MailTold
  <2>4. ASSUME NEW b \in DOMAIN bookings, MailComes(b)
        PROVE  MailComes(b)'
    <3>1. PICK i \in JobsOf(b) : job[i].state # "completed"
      BY <2>4 DEF MailComes
    <3>2. i \in JobId /\ i \in JobsOf(b)'
      BY <1>0, <1>3 DEF JobsOf
    <3>3. job'[i].state # "completed"
      <4>1. job'[j].state = "active"
        BY <1>5 DEF TakeJob, QueueTyped, JobState
      <4> QED
        BY <2>1, <3>1, <3>2, <4>1
    <3> QED
      BY <1>2, <2>1, <3>2, <3>3 DEF MailComes
  <2>5. MailsFollowDecisions'
    BY <1>0, <1>4, <2>3, <2>4 DEF MailsFollowDecisions
  <2> QED
    BY <2>2, <2>5
<1>6. ASSUME NEW w \in Worker, LoadBooking(w)
      PROVE  JobsHaveDecisions' /\ MailsFollowDecisions'
  <2> DEFINE j == worker[w].job
  <2>1. /\ worker[w].step = "find" /\ Busy(w) /\ j \in JobId /\ j \in mailJobs
        /\ j[1] \in DOMAIN bookings /\ bookings[j[1]].status \in Decision
    BY <1>6, WorkerTyped
       DEF LoadBooking, LocksPaired, JobsHaveDecisions
  <2>2. /\ worker'[w] = [step |-> "send", job |-> j,
                         locked |-> worker[w].locked,
                         status |-> bookings[j[1]].status]
        /\ job' = job /\ lastMail' = lastMail
    BY <1>6, <2>1 DEF LoadBooking, QueueTyped
  <2> HIDE DEF j
  <2>3. JobsHaveDecisions'
    BY <1>0, <2>2 DEF JobsHaveDecisions
  <2>4. ASSUME NEW b \in DOMAIN bookings, MailTold(b)
        PROVE  MailTold(b)'
    BY <1>0, <1>2, <2>2, <2>4 DEF MailTold
  <2>5. ASSUME NEW b \in DOMAIN bookings, MailComes(b)
        PROVE  MailComes(b)'
    <3>1. PICK i \in JobsOf(b) : job[i].state # "completed"
      BY <2>5 DEF MailComes
    <3>2. i \in JobsOf(b)' /\ i[1] = b
      BY <1>0 DEF JobsOf
    <3>3. Locks(w, i)' => i = j
      BY <2>2 DEF Locks
    <3> QED
      BY <1>0, <1>2, <2>2, <3>1, <3>2, <3>3 DEF MailComes
  <2>6. MailsFollowDecisions'
    BY <1>0, <1>4, <2>4, <2>5 DEF MailsFollowDecisions
  <2> QED
    BY <2>3, <2>6
<1>7. ASSUME NEW w \in Worker, SendBookingDecision(w)
      PROVE  JobsHaveDecisions' /\ MailsFollowDecisions'
  <2> DEFINE j == worker[w].job
  <2>1. /\ worker[w].step = "send" /\ Busy(w)
        /\ j \in JobId /\ j[1] \in BookingId
        /\ worker[w] \in [step: {"send", "sent"}, job: JobId, locked: BOOLEAN,
                          status: Decision]
    BY <1>7, WorkerTyped DEF SendBookingDecision, LocksPaired
  <2>2. /\ job' = job
        /\ worker'[w].step = "sent" /\ worker'[w].job = j
        /\ worker'[w].locked = worker[w].locked
        /\ lastMail'[j[1]] = worker[w].status
        /\ \A b \in BookingId : b # j[1] => lastMail'[b] = lastMail[b]
    BY <1>7, <2>1 DEF SendBookingDecision, QueueTyped
  <2> HIDE DEF j
  <2>3. JobsHaveDecisions'
    BY <1>0, <2>2 DEF JobsHaveDecisions
  <2>4. ASSUME NEW b \in DOMAIN bookings, MailTold(b)
        PROVE  MailTold(b)'
    <3>1. lastMail'[b] = bookings[b].status
      <4>1. b \in BookingId
        BY DEF QueueTypeOK, TypeOK, StoreTypeOK
      <4>2. j[1] = b => worker[w].status = bookings[b].status
        BY <2>1, <2>4 DEF MailTold, j
      <4> QED
        BY <2>2, <2>4, <4>1, <4>2 DEF MailTold
    <3> QED
      BY <1>0, <1>2, <2>2, <3>1 DEF MailTold
  <2>5. ASSUME NEW b \in DOMAIN bookings, MailComes(b)
        PROVE  MailComes(b)' \/ MailTold(b)'
    <3>1. PICK i \in JobsOf(b) :
            /\ job[i].state # "completed"
            /\ Locks(w, i) => worker[w].status = bookings[b].status
      BY <2>1, <2>5 DEF MailComes
    <3>2. i \in JobsOf(b)' /\ i[1] = b
      BY <1>0 DEF JobsOf
    <3>3. CASE Locks(w, i)
      <4>1. i = j
        BY <3>3 DEF Locks, j
      <4> QED
        BY <1>0, <1>2, <2>2, <3>1, <3>2, <3>3, <4>1 DEF MailTold
    <3>4. CASE ~Locks(w, i)
      <4>1. ~Locks(w, i)'
        BY <2>1, <2>2, <3>4 DEF Locks, j
      <4> QED
        BY <1>2, <2>2, <3>1, <3>2, <4>1 DEF MailComes
    <3> QED
      BY <3>3, <3>4
  <2>6. MailsFollowDecisions'
    BY <1>0, <1>4, <2>4, <2>5 DEF MailsFollowDecisions
  <2> QED
    BY <2>3, <2>6
<1>8. ASSUME NEW w \in Worker, CompleteJob(w)
      PROVE  JobsHaveDecisions' /\ MailsFollowDecisions'
  <2> DEFINE new == [job[worker[w].job] EXCEPT !.state = "completed"]
  <2>1. /\ worker[w].step = "sent" /\ Busy(w) /\ Release(w)
        /\ lastMail' = lastMail
        /\ \/ job' = job
           \/ worker[w].locked /\ job' = [job EXCEPT ![worker[w].job] = new]
    BY <1>8, WorkerTyped DEF CompleteJob, Complete
  <2> HIDE DEF new
  <2> QED
    BY <2>1, AttemptEndsKeepsMails
<1>9. ASSUME NEW w \in Worker, AttemptFails(w) \/ WorkerDies(w)
      PROVE  JobsHaveDecisions' /\ MailsFollowDecisions'
  <2> DEFINE old == job[worker[w].job]
             new == [old EXCEPT !.attempts = old.attempts + 1,
                       !.state = IF old.attempts + 1 < MaxAttempts
                                 THEN "delayed" ELSE "failed"]
  <2>1. Busy(w) /\ Release(w) /\ lastMail' = lastMail
    BY <1>9 DEF AttemptFails, WorkerDies
  <2>2. old \in JobState
    BY <2>1, WorkerTyped DEF QueueTyped
  <2>3. new.state # "completed"
    BY <2>2 DEF JobState
  <2>4. \/ job' = job
        \/ worker[w].locked /\ job' = [job EXCEPT ![worker[w].job] = new]
    BY <1>9 DEF AttemptFails, WorkerDies, Retry
  <2> HIDE DEF new
  <2> QED
    BY <2>1, <2>3, <2>4, AttemptEndsKeepsMails
<1>11. ASSUME NEW j \in JobId, JobStalls(j)
       PROVE  JobsHaveDecisions' /\ MailsFollowDecisions'
  <2>1. /\ lastMail' = lastMail /\ job[j].state = "active"
        /\ job'[j].state # "completed"
        /\ \A i \in JobId : i # j => job'[i] = job[i]
    BY <1>11 DEF JobStalls, QueueTyped, JobState
  <2>2. ASSUME NEW w \in Worker
        PROVE  /\ worker'[w].step = worker[w].step
               /\ worker'[w].job = worker[w].job
               /\ worker'[w].status = worker[w].status
               /\ \A i : Locks(w, i)' => Locks(w, i)
    <3>1. CASE Locks(w, j)
      <4>1. worker[w] \in WorkerState \ {Idle}
        BY <3>1 DEF Locks, Busy, QueueTyped
      <4>2. worker'[w] = [worker[w] EXCEPT !.locked = FALSE]
        BY <1>11, <3>1 DEF JobStalls
      <4>3. /\ worker'[w].step = worker[w].step
            /\ worker'[w].job = worker[w].job
            /\ worker'[w].status = worker[w].status
            /\ ~worker'[w].locked
        BY <4>1, <4>2 DEF WorkerState
      <4> QED
        BY <4>3 DEF Locks
    <3>2. CASE ~Locks(w, j)
      BY <1>11, <3>2 DEF JobStalls, Locks, Busy
    <3> QED
      BY <3>1, <3>2
  <2>3. JobsHaveDecisions'
    BY <1>0, <2>1 DEF JobsHaveDecisions
  <2>4. ASSUME NEW b \in DOMAIN bookings, MailTold(b)
        PROVE  MailTold(b)'
    BY <1>0, <2>1, <2>2, <2>4 DEF MailTold
  <2>5. ASSUME NEW b \in DOMAIN bookings, MailComes(b)
        PROVE  MailComes(b)'
    <3>1. PICK i \in JobsOf(b) :
            /\ job[i].state # "completed"
            /\ \A w \in Worker : Locks(w, i) =>
                 /\ worker[w].step \in {"find", "send"}
                 /\ worker[w].step = "send" =>
                      worker[w].status = bookings[b].status
      BY <2>5 DEF MailComes
    <3>2. i \in JobId /\ i \in JobsOf(b)'
      BY <1>0, <1>3 DEF JobsOf
    <3>3. job'[i].state # "completed"
      BY <2>1, <3>1, <3>2
    <3> QED
      BY <1>0, <2>2, <3>1, <3>2, <3>3 DEF MailComes
  <2>6. MailsFollowDecisions'
    BY <1>0, <1>4, <2>4, <2>5 DEF MailsFollowDecisions
  <2> QED
    BY <2>3, <2>6
<1>10. ASSUME NEW j \in JobId, Promote(j)
       PROVE  JobsHaveDecisions' /\ MailsFollowDecisions'
  <2>1. /\ UNCHANGED <<worker, lastMail>>
        /\ job[j].state = "delayed" /\ job'[j].state = "waiting"
        /\ \A i \in JobId : i # j => job'[i] = job[i]
    BY <1>10 DEF Promote, QueueTyped, JobState
  <2>2. JobsHaveDecisions'
    BY <1>0, <2>1 DEF JobsHaveDecisions
  <2>3. ASSUME NEW b \in DOMAIN bookings, MailTold(b)
        PROVE  MailTold(b)'
    BY <1>0, <2>1, <2>3 DEF MailTold
  <2>4. ASSUME NEW b \in DOMAIN bookings, MailComes(b)
        PROVE  MailComes(b)'
    BY <1>0, <1>3, <2>1, <2>4 DEF MailComes, JobsOf, Locks, Busy
  <2>5. MailsFollowDecisions'
    BY <1>0, <1>4, <2>3, <2>4 DEF MailsFollowDecisions
  <2> QED
    BY <2>2, <2>5
<1> QED
  BY <1>1, <1>5, <1>6, <1>7, <1>8, <1>9, <1>10, <1>11 DEF MailStep, Process

\* The steps of Bookings that save no decision and add no job: what they leave
\* of the bookings that were decided and of the requests that work on them.
LEMMA OtherBookingSteps ==
  ASSUME TypeOK, JobsHaveDecisions, OneLateDecision, MailsFollowDecisions,
         UNCHANGED <<mailJobs, job, worker, lastMail>>,
         DOMAIN bookings \subseteq DOMAIN bookings',
         \A b \in DOMAIN bookings : bookings[b].status \in Decision =>
           bookings'[b].status = bookings[b].status,
         \A b \in DOMAIN bookings' : bookings'[b].status \in Decision =>
           b \in DOMAIN bookings /\ bookings[b].status = bookings'[b].status,
         \A x \in Request :
           /\ req'[x].step = "enqueue" => req'[x] = req[x]
           /\ req'[x].step = "save" =>
                \/ req'[x] = req[x]
                \/ bookings[req'[x].booking].status \notin Decision
                     /\ req'[x].booking \in DOMAIN bookings,
         failures' = 0 =>
           /\ failures = 0
           /\ \A x \in Request : req[x].step = "enqueue" => req'[x] = req[x]
  PROVE  JobsHaveDecisions' /\ OneLateDecision' /\ MailsFollowDecisions'
<1>0. \A x \in Request : req[x].step \in {"save", "enqueue"} =>
        req[x].booking \in DOMAIN bookings
  BY RequestTyped
<1>1. JobsHaveDecisions'
  BY <1>0 DEF JobsHaveDecisions
<1>2. OneLateDecision'
  <2> SUFFICES ASSUME NEW r \in Request, req'[r].step = "save",
                      NEW b, b = req'[r].booking,
                      bookings'[b].status \in Decision
               PROVE  /\ \A x \in Request \ {r} : req'[x].step = "save" =>
                           req'[x].booking # b
                      /\ \A x \in Request :
                           req'[x].step = "enqueue" /\ req'[x].booking = b =>
                             req'[x].decision = bookings'[b].status
                      /\ \A j \in JobsOf(b)' : j[2] = bookings'[b].status
    BY DEF OneLateDecision
  <2>1. /\ bookings[b].status \in Decision
        /\ bookings'[b].status = bookings[b].status
    <3>1. CASE req'[r] = req[r]
      BY <1>0, <3>1
    <3>2. CASE req'[r] # req[r]
      BY <3>2
    <3> QED
      BY <3>1, <3>2
  <2>2. req[r] = req'[r]
    BY <2>1
  <2>3. \A x \in Request :
          req'[x].step = "save" /\ req'[x].booking = b => req'[x] = req[x]
    BY <2>1
  <2>4. JobsOf(b)' = JobsOf(b)
    BY DEF JobsOf
  <2> QED
    BY <2>1, <2>2, <2>3, <2>4 DEF OneLateDecision
<1>3. MailsFollowDecisions'
  <2> SUFFICES ASSUME failures' = 0, NEW b \in DOMAIN bookings',
                      bookings'[b].status \in Decision
               PROVE  (JobComes(b) \/ MailComes(b) \/ MailTold(b))'
    BY DEF MailsFollowDecisions
  <2>1. b \in DOMAIN bookings /\ bookings'[b].status = bookings[b].status
    OBVIOUS
  <2>2. JobComes(b) \/ MailComes(b) \/ MailTold(b)
    BY <2>1 DEF MailsFollowDecisions
  <2>3. JobComes(b) => JobComes(b)'
    BY <2>1 DEF JobComes
  <2>4. MailComes(b) => MailComes(b)'
    BY <2>1 DEF MailComes, JobsOf, Locks, Busy
  <2>5. MailTold(b) => MailTold(b)'
    BY <2>1 DEF MailTold
  <2> QED
    BY <2>2, <2>3, <2>4, <2>5
<1> QED
  BY <1>1, <1>2, <1>3

\* A saved decision leaves the mails of the bookings whose decision it leaves.
LEMMA OtherDecisionsStay ==
  ASSUME MailsFollowDecisions,
         UNCHANGED <<mailJobs, job, worker, lastMail, failures>>,
         DOMAIN bookings' = DOMAIN bookings,
         NEW r \in Request, req[r].step = "save",
         \A x \in Request : x # r => req'[x] = req[x],
         NEW c,
         \A b \in DOMAIN bookings :
           \/ bookings'[b].status = bookings[b].status
           \/ b = c /\ JobComes(c)'
  PROVE  MailsFollowDecisions'
<1> SUFFICES ASSUME failures = 0, NEW b \in DOMAIN bookings,
                    bookings'[b].status \in Decision
             PROVE  (JobComes(b) \/ MailComes(b) \/ MailTold(b))'
  BY DEF MailsFollowDecisions
<1>1. CASE bookings'[b].status = bookings[b].status
  <2>1. JobComes(b) \/ MailComes(b) \/ MailTold(b)
    BY <1>1 DEF MailsFollowDecisions
  <2>2. JobComes(b) => JobComes(b)'
    BY <1>1 DEF JobComes
  <2>3. MailComes(b) => MailComes(b)'
    BY <1>1 DEF MailComes, JobsOf, Locks, Busy
  <2>4. MailTold(b) => MailTold(b)'
    BY <1>1 DEF MailTold
  <2> QED
    BY <2>1, <2>2, <2>3, <2>4
<1>2. CASE b = c /\ JobComes(c)'
  BY <1>2
<1> QED
  BY <1>1, <1>2

LEMMA SaveDecisionKeepsMails ==
  ASSUME Few, MailInv, NEW r \in Request, SaveDecision(r),
         UNCHANGED <<job, worker, lastMail>>
  PROVE  JobsHaveDecisions' /\ OneLateDecision' /\ MailsFollowDecisions'
<1> USE DEF MailInv
<1>0. PICK c, d : c = req[r].booking /\ d = req[r].decision
  OBVIOUS
<1>1. /\ TypeOK /\ req[r].step = "save"
      /\ c \in DOMAIN bookings /\ c \in BookingId /\ d \in Decision
      /\ UNCHANGED <<mailJobs, failures>>
      /\ \A x \in Request : req[x].step \in {"save", "enqueue"} =>
           req[x].booking \in DOMAIN bookings
  BY <1>0, RequestTyped DEF SaveDecision, QueueTypeOK
<1>2. /\ DOMAIN bookings' = DOMAIN bookings
      /\ bookings'[c].status = d
      /\ \A b \in DOMAIN bookings : b # c => bookings'[b] = bookings[b]
  BY <1>0, <1>1 DEF SaveDecision, SetBookingStatus, TypeOK, StoreTypeOK, Booking
<1>3. /\ req'[r].step = "enqueue"
      /\ req'[r].booking = c /\ req'[r].decision = d
      /\ \A x \in Request : x # r => req'[x] = req[x]
  <2>1. req[r] \in DecisionState
    BY <1>1 DEF TypeOK, RequestState, Idle, CreateState, CancelState,
       TransactionSteps
  <2> QED
    BY <1>0, <1>1, <2>1 DEF SaveDecision, Goto, TypeOK, DecisionState
<1>4. \A b : JobsOf(b)' = JobsOf(b)
  BY <1>1 DEF JobsOf
\* The booking is decided for the first time, or its jobs are of the decision
\* it had.
<1>5. CASE bookings[c].status \notin Decision
  <2>1. JobsOf(c) = {} /\ \A x \in Request :
          req[x].step = "enqueue" => req[x].booking # c
    BY <1>5 DEF JobsHaveDecisions, JobsOf
  <2>2. JobsHaveDecisions'
    BY <1>1, <1>2, <1>3, <2>1 DEF JobsHaveDecisions, JobsOf
  <2>3. OneLateDecision'
    <3> SUFFICES ASSUME NEW y \in Request, req'[y].step = "save",
                        NEW b, b = req'[y].booking,
                        bookings'[b].status \in Decision
                 PROVE  /\ \A x \in Request \ {y} : req'[x].step = "save" =>
                             req'[x].booking # b
                        /\ \A x \in Request :
                             req'[x].step = "enqueue" /\ req'[x].booking = b =>
                               req'[x].decision = bookings'[b].status
                        /\ \A j \in JobsOf(b)' : j[2] = bookings'[b].status
      BY DEF OneLateDecision
    <3>1. y # r /\ req'[y] = req[y] /\ b \in DOMAIN bookings
      BY <1>1, <1>3
    <3>2. \A x \in Request : x # y => x = r
      BY <3>1, NoThreeRequests
    <3>3. CASE b = c
      BY <1>2, <1>3, <1>4, <2>1, <3>1, <3>2, <3>3
    <3>4. CASE b # c
      BY <1>2, <1>3, <1>4, <3>1, <3>2, <3>4 DEF OneLateDecision
    <3> QED
      BY <3>3, <3>4
  <2>4. JobComes(c)'
    BY <1>1, <1>2, <1>3, <2>1 DEF JobComes, JobsOf
  <2> QED
    BY <1>1, <1>2, <1>3, <1>4, <2>2, <2>3, <2>4, OtherDecisionsStay
<1>6. CASE bookings[c].status \in Decision
  <2>1. /\ \A x \in Request \ {r} : req[x].step = "save" => req[x].booking # c
        /\ \A x \in Request :
             req[x].step = "enqueue" /\ req[x].booking = c =>
               req[x].decision = bookings[c].status
        /\ \A j \in JobsOf(c) : j[2] = bookings[c].status
    BY <1>0, <1>1, <1>6 DEF OneLateDecision
  <2>2. JobsHaveDecisions'
    BY <1>1, <1>2, <1>3 DEF JobsHaveDecisions, JobsOf
  <2>3. OneLateDecision'
    <3> SUFFICES ASSUME NEW y \in Request, req'[y].step = "save",
                        NEW b, b = req'[y].booking,
                        bookings'[b].status \in Decision
                 PROVE  /\ \A x \in Request \ {y} : req'[x].step = "save" =>
                             req'[x].booking # b
                        /\ \A x \in Request :
                             req'[x].step = "enqueue" /\ req'[x].booking = b =>
                               req'[x].decision = bookings'[b].status
                        /\ \A j \in JobsOf(b)' : j[2] = bookings'[b].status
      BY DEF OneLateDecision
    <3>1. y # r /\ req'[y] = req[y] /\ b # c /\ b \in DOMAIN bookings
      BY <1>1, <1>3, <2>1
    <3> QED
      BY <1>2, <1>3, <1>4, <3>1 DEF OneLateDecision
  <2>4. CASE d # bookings[c].status
    <3>1. JobComes(c)'
      BY <1>1, <1>2, <1>3, <2>1, <2>4 DEF JobComes, JobsOf
    <3> QED
      BY <1>1, <1>2, <1>3, <1>4, <2>2, <2>3, <3>1, OtherDecisionsStay
  <2>5. CASE d = bookings[c].status
    <3>1. \A b \in DOMAIN bookings :
            \/ bookings'[b].status = bookings[b].status
            \/ b = c /\ JobComes(c)'
      BY <1>2, <2>5
    <3> QED
      BY <1>1, <1>2, <1>3, <1>4, <2>2, <2>3, <3>1, OtherDecisionsStay
  <2> QED
    BY <2>4, <2>5
<1> QED
  BY <1>5, <1>6

LEMMA EnqueueKeepsMails ==
  ASSUME MailInv, NEW r \in Request, EnqueueBookingDecision(r),
         UNCHANGED <<job, worker, lastMail>>
  PROVE  JobsHaveDecisions' /\ OneLateDecision' /\ MailsFollowDecisions'
<1> USE DEF MailInv
<1>0. PICK c, d : c = req[r].booking /\ d = req[r].decision
  OBVIOUS
<1>1. /\ TypeOK /\ req[r].step = "enqueue"
      /\ c \in DOMAIN bookings /\ c \in BookingId /\ d \in Decision
      /\ UNCHANGED <<bookings, failures>>
      /\ mailJobs' = mailJobs \cup {<<c, d>>}
      /\ req'[r] = Idle
      /\ \A x \in Request : x # r => req'[x] = req[x]
  BY <1>0, RequestTyped, EndTyped DEF EnqueueBookingDecision, QueueTypeOK
<1>2. bookings[c].status \in Decision
  BY <1>0, <1>1 DEF JobsHaveDecisions
<1>3. JobsHaveDecisions'
  BY <1>1, <1>2 DEF JobsHaveDecisions, Idle
<1>4. OneLateDecision'
  <2> SUFFICES ASSUME NEW y \in Request, req'[y].step = "save",
                      NEW b, b = req'[y].booking,
                      bookings'[b].status \in Decision
               PROVE  /\ \A x \in Request \ {y} : req'[x].step = "save" =>
                           req'[x].booking # b
                      /\ \A x \in Request :
                           req'[x].step = "enqueue" /\ req'[x].booking = b =>
                             req'[x].decision = bookings'[b].status
                      /\ \A j \in JobsOf(b)' : j[2] = bookings'[b].status
    BY DEF OneLateDecision
  <2>1. y # r /\ req'[y] = req[y]
    BY <1>1 DEF Idle
  <2>2. /\ \A x \in Request \ {y} : req[x].step = "save" => req[x].booking # b
        /\ \A x \in Request :
             req[x].step = "enqueue" /\ req[x].booking = b =>
               req[x].decision = bookings[b].status
        /\ \A j \in JobsOf(b) : j[2] = bookings[b].status
    BY <1>1, <2>1 DEF OneLateDecision
  <2>3. \A j \in JobsOf(b)' : j \in JobsOf(b) \/ (j = <<c, d>> /\ b = c)
    <3>1. <<c, d>>[1] = c
      OBVIOUS
    <3> QED
      BY <1>1, <3>1 DEF JobsOf
  <2> QED
    BY <1>0, <1>1, <2>2, <2>3 DEF Idle
<1>5. MailsFollowDecisions'
  <2> SUFFICES ASSUME failures = 0, NEW b \in DOMAIN bookings,
                      bookings[b].status \in Decision
               PROVE  (JobComes(b) \/ MailComes(b) \/ MailTold(b))'
    BY <1>1 DEF MailsFollowDecisions
  <2>1. JobComes(b) \/ MailComes(b) \/ MailTold(b)
    BY DEF MailsFollowDecisions
  <2>2. JobsOf(b) \subseteq JobsOf(b)'
    BY <1>1 DEF JobsOf
  <2>3. MailComes(b) => MailComes(b)'
    BY <1>1, <2>2 DEF MailComes, Locks, Busy
  <2>4. MailTold(b) => MailTold(b)'
    BY <1>1 DEF MailTold
  <2>5. CASE JobComes(b) /\ b = c /\ bookings[b].status = d
    <3>1. <<c, d>> \in JobId \ mailJobs
      BY <1>1, <2>5 DEF JobComes, JobId
    <3>2. job'[<<c, d>>].state = "waiting"
      BY <3>1 DEF JobsHaveDecisions
    <3>3. <<c, d>> \in JobsOf(b)'
      BY <1>1, <2>5 DEF JobsOf
    <3> QED
      BY <3>1, <3>2, <3>3 DEF MailComes, LocksPaired, Locks, Busy
  <2>6. CASE JobComes(b) /\ ~(b = c /\ bookings[b].status = d)
    <3>1. JobComes(b)'
      BY <1>0, <1>1, <2>6 DEF JobComes
    <3> QED
      BY <3>1
  <2> QED
    BY <2>1, <2>3, <2>4, <2>5, <2>6
<1> QED
  BY <1>3, <1>4, <1>5

LEMMA BookingStepKeepsMails ==
  ASSUME Few, MailInv, Next, UNCHANGED <<job, worker, lastMail>>
  PROVE  JobsHaveDecisions' /\ OneLateDecision' /\ MailsFollowDecisions'
<1> USE DEF MailInv
<1>0. TypeOK /\ failures \in Nat
  BY DEF QueueTypeOK, TypeOK
<1>1. ASSUME NEW r \in Request, SaveDecision(r)
      PROVE  JobsHaveDecisions' /\ OneLateDecision' /\ MailsFollowDecisions'
  BY <1>1, SaveDecisionKeepsMails
<1>2. ASSUME NEW r \in Request, EnqueueBookingDecision(r)
      PROVE  JobsHaveDecisions' /\ OneLateDecision' /\ MailsFollowDecisions'
  BY <1>2, EnqueueKeepsMails
<1>3. ASSUME NEW r \in Request, SaveBooking(r)
      PROVE  JobsHaveDecisions' /\ OneLateDecision' /\ MailsFollowDecisions'
  <2>1. /\ mailJobs' = mailJobs /\ failures' = failures
        /\ req[r].step = "insert" /\ req'[r] = Idle
        /\ \A x \in Request : x # r => req'[x] = req[x]
    BY <1>0, <1>3, EndTyped DEF SaveBooking
  <2>2. /\ DOMAIN bookings \subseteq DOMAIN bookings'
        /\ \A b \in DOMAIN bookings : bookings'[b] = bookings[b]
        /\ \A b \in DOMAIN bookings' :
             b \in DOMAIN bookings \/ bookings'[b].status = "pending"
    BY <1>3 DEF SaveBooking, InsertBooking
  <2> QED
    BY <1>0, <2>1, <2>2, OtherBookingSteps DEF Idle, Decision
<1>4. ASSUME NEW r \in Request, CancelBooking(r)
      PROVE  JobsHaveDecisions' /\ OneLateDecision' /\ MailsFollowDecisions'
  <2>1. /\ mailJobs' = mailJobs /\ failures' = failures
        /\ req[r].step = "cancel" /\ req'[r] = Idle
        /\ req[r].booking \in DOMAIN bookings
        /\ \A x \in Request : x # r => req'[x] = req[x]
    BY <1>0, <1>4, EndTyped, RequestTyped DEF CancelBooking
  <2>2. /\ DOMAIN bookings' = DOMAIN bookings
        /\ \A b \in DOMAIN bookings :
             \/ bookings'[b].status = bookings[b].status
             \/ /\ bookings[b].status = "pending"
                /\ bookings'[b].status = "cancelled"
    BY <1>0, <1>4, <2>1 DEF CancelBooking, SetBookingStatus, TypeOK,
       StoreTypeOK, Booking
  <2> QED
    BY <1>0, <2>1, <2>2, OtherBookingSteps DEF Idle, Decision
<1>5. ASSUME NEW r \in Request, Fail(r)
      PROVE  JobsHaveDecisions' /\ OneLateDecision' /\ MailsFollowDecisions'
  <2>1. /\ UNCHANGED <<bookings, mailJobs>> /\ failures' # 0
        /\ req'[r] = Idle
        /\ \A x \in Request : x # r => req'[x] = req[x]
    BY <1>0, <1>5, EndTyped DEF Fail
  <2> QED
    BY <1>0, <2>1, OtherBookingSteps DEF Idle
<1>6. ASSUME NEW r \in Request,
             \/ LockTourTime(r) \/ RejectUnavailable(r) \/ FindExisting(r)
             \/ CheckCapacity(r)
      PROVE  JobsHaveDecisions' /\ OneLateDecision' /\ MailsFollowDecisions'
  <2>1. /\ UNCHANGED <<bookings, mailJobs, failures>>
        /\ req[r].step \in CreateSteps
        /\ \A x \in Request : x # r => req'[x] = req[x]
    BY <1>0, <1>6 DEF LockTourTime, RejectUnavailable, FindExisting,
       CheckCapacity, Goto, End, TypeOK, CreateSteps, TransactionSteps
  <2>2. req'[r].step \notin {"save", "enqueue"}
    <3>1. req[r] \in CreateState
      BY <1>0, <2>1 DEF TypeOK, RequestState, Idle, CancelState, DecisionState,
         CreateSteps, TransactionSteps
    <3> QED
      BY <1>0, <1>6, <3>1 DEF LockTourTime, RejectUnavailable, FindExisting,
         CheckCapacity, Goto, End, TypeOK, Idle, CreateState
  <2>3. req[r].step # "enqueue"
    BY <2>1 DEF CreateSteps, TransactionSteps
  <2> QED
    BY <1>0, <2>1, <2>2, <2>3, OtherBookingSteps
<1>7. ASSUME NEW r \in Request, Arrive(r)
      PROVE  JobsHaveDecisions' /\ OneLateDecision' /\ MailsFollowDecisions'
  <2>1. /\ UNCHANGED <<bookings, mailJobs, failures>>
        /\ req[r] = Idle
        /\ \A x \in Request : x # r => req'[x] = req[x]
    BY <1>0, <1>7 DEF Arrive, StartCreate, FindOwnBooking, FindBooking,
       storeVars, TypeOK
  <2>2. /\ req'[r].step # "enqueue"
        /\ req'[r].step = "save" =>
             /\ req'[r].booking \in DOMAIN bookings
             /\ bookings[req'[r].booking].status \notin Decision
    BY <1>0, <1>7 DEF Arrive, StartCreate, FindOwnBooking, FindBooking,
       storeVars, TypeOK, Decision
  <2> QED
    BY <1>0, <2>1, <2>2, OtherBookingSteps DEF Idle
<1>8. CASE Background
  <2>1. UNCHANGED <<mailJobs, failures, req, bookings>>
    BY <1>8 DEF Background, Tick, CloseStartedTourTimes
  <2> QED
    BY <1>0, <2>1, OtherBookingSteps
<1> QED
  BY <1>1, <1>2, <1>3, <1>4, <1>5, <1>6, <1>7, <1>8 DEF Next, Lock, Proceed

LEMMA InitMails == QueueInit => MailInv
<1> SUFFICES ASSUME QueueInit
             PROVE  MailInv
  OBVIOUS
<1>1. /\ DOMAIN bookings = {} /\ mailJobs = {}
      /\ \A r \in Request : req[r] = Idle
      /\ \A j \in JobId : job[j].state = "waiting"
  BY DEF QueueInit, Init, StoreInit
<1>2. JobsHaveDecisions /\ OneLateDecision /\ MailsFollowDecisions
  BY <1>1 DEF JobsHaveDecisions, OneLateDecision, MailsFollowDecisions, Idle
<1> QED
  BY <1>2, QueueInitTyped, InitPairing DEF MailInv

LEMMA StepKeepsMails ==
  ASSUME Few, MailInv, [QueueNext]_queueVars
  PROVE  MailInv'
<1>1. QueueTypeOK' /\ QueueTyped' /\ LocksPaired'
  BY StepKeepsQueueTyped, StepKeepsPairing, QueueStepsTyped
     DEF MailInv, QueueTypeOK, QueueTyped
<1>2. JobsHaveDecisions' /\ OneLateDecision' /\ MailsFollowDecisions'
  <2>1. CASE Next /\ UNCHANGED <<job, worker, lastMail>>
    BY <2>1, BookingStepKeepsMails
  <2>2. CASE MailStep /\ UNCHANGED vars
    BY <2>2, MailStepKeepsMails
  <2>3. CASE UNCHANGED queueVars
    BY <2>3, OtherBookingSteps
       DEF MailInv, QueueTypeOK, queueVars, vars
  <2> QED
    BY <2>1, <2>2, <2>3 DEF QueueNext
<1> QED
  BY <1>1, <1>2 DEF MailInv

\* The mails still to come bring the decision a booking has.
LEMMA MailInvTells ==
  ASSUME Few, MailInv
  PROVE  LastMailIsCurrent
<1> SUFFICES ASSUME NEW b \in DOMAIN bookings,
                    bookings[b].status \in Decision,
                    \A j \in JobsOf(b) : job[j].state = "completed",
                    \A r \in Request :
                      req[r].step = "enqueue" => req[r].booking # b,
                    failures = 0
             PROVE  lastMail[b] = bookings[b].status
  BY DEF LastMailIsCurrent, MailIsCurrent
<1>1. JobComes(b) \/ MailComes(b) \/ MailTold(b)
  BY DEF MailInv, MailsFollowDecisions
<1>2. ~JobComes(b)
  BY DEF JobComes
<1>3. ~MailComes(b)
  BY DEF MailComes
<1> QED
  BY <1>1, <1>2, <1>3 DEF MailTold

\* LastMailIsCurrent: MailProcessor reads the booking again before it sends,
\* so that the last mail tells the last decision, of two that race.
THEOREM LastMailCorrect == QueueSpec => []LastMailIsCurrent
<1>1. CASE Few
  <2>1. MailInv /\ [QueueNext]_queueVars => MailInv'
    BY <1>1, StepKeepsMails
  <2>2. MailInv => LastMailIsCurrent
    BY <1>1, MailInvTells
  <2> QED
    BY <2>1, <2>2, InitMails, PTL DEF QueueSpec
<1>2. CASE ~Few
  <2>1. LastMailIsCurrent
    BY <1>2 DEF Few, LastMailIsCurrent
  <2> QED
    BY <2>1, PTL
<1> QED
  BY <1>1, <1>2
=============================================================================
