------------------------------ MODULE MailQueue ------------------------------
(***************************************************************************)
(* The decision mails: BookingsService adds jobs to a Bull queue in Redis, *)
(* MailProcessor takes them, loads the booking and sends a mail.           *)
(*                                                                         *)
(*   job:     waiting -> active -> completed | delayed | failed            *)
(*   worker:  find -> send -> sent, then idle again                        *)
(*                                                                         *)
(* The service is Bookings, whose variables and steps keep their names.    *)
(* The states of a job are those of Bull, as the options of the queue make *)
(* it use them; its retries, locks and stalled jobs are Bull's, not the    *)
(* code's.  A worker that stalls may be dead or may live on: then it has   *)
(* lost its lock, and the end of its attempt changes nothing of the job.   *)
(***************************************************************************)
EXTENDS Bookings

CONSTANTS Worker,        \* processes that run MailProcessor, one job at a time
          MaxAttempts,   \* attempts of defaultJobOptions
          MaxStalls,     \* maxStalledCount of Bull
          NoMail

ASSUME MailAssumption ==
  /\ MaxAttempts \in Nat \ {0} /\ MaxStalls \in Nat
  /\ NoMail \notin Decision
  /\ IsFiniteSet(Request) /\ IsFiniteSet(Worker)

VARIABLES job,        \* what Bull knows of each job id
          worker,     \* the state of each worker
          lastMail    \* history: the last mail each booking got

queueVars == <<vars, job, worker, lastMail>>

\* A job is named by its booking and the decision.
JobId == BookingId \X Decision

JobState ==
  [state: {"waiting", "active", "delayed", "completed", "failed"},
   attempts: 0..MaxAttempts, stalls: 0..MaxStalls]

WorkerState ==
  {Idle}
  \cup [step: {"find"}, job: JobId, locked: BOOLEAN]
  \cup [step: {"send", "sent"}, job: JobId, locked: BOOLEAN, status: Decision]

QueueInit ==
  /\ Init
  /\ job = [j \in JobId |-> [state |-> "waiting", attempts |-> 0, stalls |-> 0]]
  /\ worker = [w \in Worker |-> Idle]
  /\ lastMail = [b \in BookingId |-> NoMail]

-----------------------------------------------------------------------------
(* Helpers *)

Busy(w) == worker[w] # Idle

Release(w) == worker' = [worker EXCEPT ![w] = Idle]

Locks(w, j) == Busy(w) /\ worker[w].job = j /\ worker[w].locked

\* The processor returns.
Complete(w) ==
  /\ IF worker[w].locked
     THEN job' = [job EXCEPT ![worker[w].job].state = "completed"]
     ELSE UNCHANGED job
  /\ Release(w)

\* A plausible bug: the attempts are not counted.
Retry_Uncounted(j) == job' = [job EXCEPT ![j].state = "delayed"]

\* A plausible bug: one attempt too many.
Retry_OneMore(j) ==
  LET attempts == job[j].attempts + 1 IN
    job' = [job EXCEPT ![j].attempts = attempts,
                       ![j].state = IF attempts <= MaxAttempts
                                    THEN "delayed" ELSE "failed"]

\* The processor throws: the job waits for its back-off, or has failed.
Retry(j) ==
  LET attempts == job[j].attempts + 1 IN
    job' = [job EXCEPT ![j].attempts = attempts,
                       ![j].state = IF attempts < MaxAttempts
                                    THEN "delayed" ELSE "failed"]

-----------------------------------------------------------------------------
(* The processor *)

TakeJob(w, j) ==
  /\ ~Busy(w)
  /\ j \in mailJobs
  /\ job[j].state = "waiting"
  /\ job' = [job EXCEPT ![j].state = "active"]
  /\ worker' = [worker EXCEPT ![w] = [step |-> "find", job |-> j,
                                      locked |-> TRUE]]
  /\ UNCHANGED lastMail

\* A plausible bug: the decision comes from the job, not from the booking.
LoadBooking_FromJob(w) ==
  /\ worker[w].step = "find"
  /\ worker' = [worker EXCEPT ![w] = [step |-> "send", job |-> worker[w].job,
                                      locked |-> worker[w].locked,
                                      status |-> worker[w].job[2]]]
  /\ UNCHANGED <<job, lastMail>>

\* findOne with its relations; a booking that has no decision gets no mail.
LoadBooking(w) ==
  /\ worker[w].step = "find"
  /\ LET status == bookings[worker[w].job[1]].status IN
       IF status \in Decision
       THEN /\ worker' = [worker EXCEPT ![w] = [step |-> "send",
                                                job |-> worker[w].job,
                                                locked |-> worker[w].locked,
                                                status |-> status]]
            /\ UNCHANGED job
       ELSE Complete(w)
  /\ UNCHANGED lastMail

\* The SMTP server accepts the mail; the worker may not learn it.
SendBookingDecision(w) ==
  /\ worker[w].step = "send"
  /\ lastMail' = [lastMail EXCEPT ![worker[w].job[1]] = worker[w].status]
  /\ worker' = [worker EXCEPT ![w].step = "sent"]
  /\ UNCHANGED job

CompleteJob(w) ==
  /\ worker[w].step = "sent"
  /\ Complete(w)
  /\ UNCHANGED lastMail

\* The query or the SMTP server fails, or its answer is lost.
AttemptFails(w) ==
  /\ Busy(w)
  /\ IF worker[w].locked THEN Retry(worker[w].job) ELSE UNCHANGED job
  /\ Release(w)
  /\ UNCHANGED lastMail

\* The process dies; its job stays active until Bull finds it stalled.
WorkerDies(w) ==
  /\ Busy(w)
  /\ Release(w)
  /\ UNCHANGED <<job, lastMail>>

\* The lock was not renewed in time: Bull gives the job to a worker again,
\* unless that happened too often.  Who had it may still be at work.
JobStalls(j) ==
  /\ job[j].state = "active"
  /\ job' = IF job[j].stalls < MaxStalls
            THEN [job EXCEPT ![j].state = "waiting", ![j].stalls = @ + 1]
            ELSE [job EXCEPT ![j].state = "failed"]
  /\ worker' = [w \in Worker |-> IF Locks(w, j)
                                 THEN [worker[w] EXCEPT !.locked = FALSE]
                                 ELSE worker[w]]
  /\ UNCHANGED lastMail

\* The back-off of a delayed job is over.
Promote(j) ==
  /\ job[j].state = "delayed"
  /\ job' = [job EXCEPT ![j].state = "waiting"]
  /\ UNCHANGED <<worker, lastMail>>

-----------------------------------------------------------------------------
Process(w) ==
  \/ LoadBooking(w) \/ SendBookingDecision(w) \/ CompleteJob(w)

MailStep ==
  \/ \E w \in Worker : \/ \E j \in JobId : TakeJob(w, j)
                       \/ Process(w) \/ AttemptFails(w) \/ WorkerDies(w)
  \/ \E j \in JobId : JobStalls(j) \/ Promote(j)

QueueNext ==
  \/ Next /\ UNCHANGED <<job, worker, lastMail>>
  \/ MailStep /\ UNCHANGED vars

QueueSpec == QueueInit /\ [][QueueNext]_queueVars

\* A worker goes on, an idle one takes what waits, a back-off ends, and Bull
\* finds the job of a worker that died.
QueueFairSpec ==
  /\ QueueSpec
  /\ \A w \in Worker : WF_queueVars(Process(w) /\ UNCHANGED vars)
  /\ \A j \in JobId :
       /\ WF_queueVars(Promote(j) /\ UNCHANGED vars)
       /\ WF_queueVars((\A w \in Worker : ~Locks(w, j)) /\ JobStalls(j)
                         /\ UNCHANGED vars)
       /\ SF_queueVars((\E w \in Worker : TakeJob(w, j)) /\ UNCHANGED vars)

-----------------------------------------------------------------------------
(* Properties *)

QueueTypeOK ==
  /\ TypeOK
  /\ job \in [JobId -> JobState]
  /\ worker \in [Worker -> WorkerState]
  /\ lastMail \in [BookingId -> Decision \cup {NoMail}]

JobsOf(b) == {j \in mailJobs : j[1] = b}

MailIsCurrent(b) ==
  /\ bookings[b].status \in Decision
  /\ \A j \in JobsOf(b) : job[j].state = "completed"
  /\ \A r \in Request : req[r].step = "enqueue" => req[r].booking # b
  /\ failures = 0
  => lastMail[b] = bookings[b].status

\* When at most two decisions race and one worker sends: once the jobs of a
\* booking are completed and no request is about to add one, the last mail its
\* user got tells the decision the booking has.  Of three that race, the last
\* may come back to the first, finds its job id taken, and sends nothing.
LastMailIsCurrent ==
  Cardinality(Request) <= 2 /\ Cardinality(Worker) = 1 =>
    \A b \in DOMAIN bookings : MailIsCurrent(b)

\* No job is tried for ever, whatever fails.
JobEnds ==
  \A j \in JobId :
    j \in mailJobs ~> job[j].state \in {"completed", "failed"}
=============================================================================
