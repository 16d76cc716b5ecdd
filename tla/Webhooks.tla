------------------------------ MODULE Webhooks ------------------------------
(***************************************************************************)
(* Outbound webhooks (worker/src/webhooks.ts): the events of one tenant to *)
(* one endpoint. emitEvent writes a delivery row and then queues a job; a  *)
(* worker posts the event and records the answer; a sweep queues again the *)
(* rows that are due (worker/src/index.ts, runMonitoringSweep). The queue  *)
(* is BullMQ's (worker/src/queues.ts): an add whose job id it still knows  *)
(* is ignored. Each database call is an action, and may throw; a worker or *)
(* an emitter may die between any two.                                     *)
(***************************************************************************)
EXTENDS Naturals

CONSTANTS
  Events,       \* each has one delivery, and one job: webhook-<deliveryId>
  MaxAttempts,  \* WebhookDelivery.maxAttempts
  JobAttempts,  \* defaultJobOptions.attempts
  BreakAt,      \* consecutive failures that open the circuit breaker
  MaxFaults     \* bound on the calls that throw and the workers that die

ASSUME WebhooksAssumption ==
  /\ MaxAttempts \in Nat \ {0}
  /\ JobAttempts \in Nat \ {0}
  /\ BreakAt \in Nat \ {0}
  /\ MaxFaults \in Nat

VARIABLES
  emitter,           \* emitEvent, for each event
  row,               \* the WebhookDelivery rows
  jobs, worker,      \* the webhook queue, and its workers' locals
  failures, active,  \* of the endpoint: consecutiveFailures, isActive
  accepted,          \* the events the receiver has answered 2xx to
  faults             \* what is left of MaxFaults

endpoint == <<failures, active>>
vars == <<emitter, row, jobs, worker, endpoint, accepted, faults>>

Open    == {"PENDING", "RETRYING"}
GivenUp == {"FAILED", "ABANDONED"}
WorkerPcs == {"idle", "read", "post", "mark", "row", "endpoint", "break",
              "requeue"}

NoRow    == [status |-> "none", attempt |-> 0, next |-> "null"]
NoJob    == [state |-> "none", tries |-> 0]
NoWorker == [pc |-> "idle", attempt |-> 0, permanent |-> FALSE,
             caught |-> FALSE]

TypeOK ==
  /\ emitter \in [Events -> {"idle", "create", "enqueue", "done"}]
  /\ row \in [Events -> [status : Open \cup GivenUp \cup {"none", "DELIVERED"},
                         attempt : 0 .. MaxAttempts,
                         next : {"null", "later", "due"}]]
  /\ jobs \in [Events -> [state : {"none", "waiting", "active", "completed",
                                   "failed"},
                          tries : 0 .. JobAttempts]]
  /\ worker \in [Events -> [pc : WorkerPcs, attempt : 0 .. MaxAttempts,
                            permanent : BOOLEAN, caught : BOOLEAN]]
  /\ failures \in Nat
  /\ active \in BOOLEAN
  /\ accepted \subseteq Events
  /\ faults \in 0 .. MaxFaults

Init ==
  /\ emitter = [e \in Events |-> "idle"]
  /\ row = [e \in Events |-> NoRow]
  /\ jobs = [e \in Events |-> NoJob]
  /\ worker = [e \in Events |-> NoWorker]
  /\ failures = 0
  /\ active = TRUE
  /\ accepted = {}
  /\ faults = MaxFaults

\* The queue after an add of the event's job.
enqueueWebhook(e) ==
  IF jobs[e].state = "none"
  THEN [jobs EXCEPT ![e].state = "waiting", ![e].tries = 0]
  ELSE jobs

----------------------------------------------------------------------------
(* emitEvent: the endpoints, then the row, then the job.                   *)

FindEndpoint(e) ==
  /\ emitter[e] = "idle"
  /\ emitter' = [emitter EXCEPT ![e] = IF active THEN "create" ELSE "done"]
  /\ UNCHANGED <<row, jobs, worker, endpoint, accepted, faults>>

CreateDelivery(e) ==
  /\ emitter[e] = "create"
  /\ row' = [row EXCEPT ![e] = [NoRow EXCEPT !.status = "PENDING",
                                             !.next = "due"]]
  /\ emitter' = [emitter EXCEPT ![e] = "enqueue"]
  /\ UNCHANGED <<jobs, worker, endpoint, accepted, faults>>

EnqueueDelivery(e) ==
  /\ emitter[e] = "enqueue"
  /\ jobs' = enqueueWebhook(e)
  /\ emitter' = [emitter EXCEPT ![e] = "done"]
  /\ UNCHANGED <<row, worker, endpoint, accepted, faults>>

----------------------------------------------------------------------------
(* deliverWebhook, run by a worker.                                        *)

At(e, pc) == worker[e].pc = pc

StartJob(e) ==
  /\ jobs[e].state = "waiting"
  /\ jobs' = [jobs EXCEPT ![e].state = "active"]
  /\ worker' = [worker EXCEPT ![e] = [NoWorker EXCEPT !.pc = "read"]]
  /\ UNCHANGED <<emitter, row, endpoint, accepted, faults>>

\* The worker's function returns: BullMQ completes the job.
Return(e, queue) ==
  /\ jobs' = [queue EXCEPT ![e].state = "completed"]
  /\ worker' = [worker EXCEPT ![e] = NoWorker]

AlreadyDelivered(e) ==
  /\ At(e, "read")
  /\ row[e].status = "DELIVERED"
  /\ Return(e, jobs)
  /\ UNCHANGED <<emitter, row, endpoint, accepted, faults>>

Abandon(e) ==
  /\ At(e, "read")
  /\ row[e].status # "DELIVERED"
  /\ row[e].attempt >= MaxAttempts
  /\ row' = [row EXCEPT ![e].status = "ABANDONED"]
  /\ Return(e, jobs)
  /\ UNCHANGED <<emitter, endpoint, accepted, faults>>

\* Any row that is not DELIVERED and has attempts left is posted.
BeginAttempt(e) ==
  /\ At(e, "read")
  /\ row[e].status # "DELIVERED"
  /\ row[e].attempt < MaxAttempts
  /\ worker' = [worker EXCEPT ![e].pc = "post",
                              ![e].attempt = row[e].attempt + 1]
  /\ UNCHANGED <<emitter, row, jobs, endpoint, accepted, faults>>

\* The receiver accepts, and its answer arrives or is lost; it refuses the
\* payload for good; it is unavailable; it is not reached.
Post(e, answer) ==
  /\ At(e, "post")
  /\ accepted' = IF answer \in {"accepted", "lost"} THEN accepted \cup {e}
                                                    ELSE accepted
  /\ worker' = [worker EXCEPT
                  ![e].pc = IF answer = "accepted" THEN "mark" ELSE "row",
                  ![e].permanent = answer = "refused",
                  ![e].caught = answer \in {"lost", "unreachable"}]
  /\ UNCHANGED <<emitter, row, jobs, endpoint, faults>>

\* One transaction: the row is DELIVERED and the breaker is reset.
MarkDelivered(e) ==
  /\ At(e, "mark")
  /\ row' = [row EXCEPT ![e].status = "DELIVERED",
                        ![e].attempt = worker[e].attempt]
  /\ failures' = 0
  /\ Return(e, jobs)
  /\ UNCHANGED <<emitter, active, accepted, faults>>

----------------------------------------------------------------------------
(* recordFailure.                                                          *)

\* Mutant: the last attempt but one is taken for the last.
exhaustedEarly(e) == worker[e].permanent \/ worker[e].attempt + 1 >= MaxAttempts

exhausted(e) == worker[e].permanent \/ worker[e].attempt >= MaxAttempts

\* Mutant: the row of a transient failure gets no date for the next attempt.
RecordRowWithoutNext(e) ==
  /\ At(e, "row")
  /\ row' = [row EXCEPT
       ![e].status = IF ~exhausted(e) THEN "RETRYING"
                     ELSE IF worker[e].permanent THEN "FAILED"
                     ELSE "ABANDONED",
       ![e].attempt = worker[e].attempt,
       ![e].next = "null"]
  /\ worker' = [worker EXCEPT ![e].pc = "endpoint"]
  /\ UNCHANGED <<emitter, jobs, endpoint, accepted, faults>>

RecordRow(e) ==
  /\ At(e, "row")
  /\ row' = [row EXCEPT
       ![e].status = IF ~exhausted(e) THEN "RETRYING"
                     ELSE IF worker[e].permanent THEN "FAILED"
                     ELSE "ABANDONED",
       ![e].attempt = worker[e].attempt,
       ![e].next = IF exhausted(e) THEN "null" ELSE "later"]
  /\ worker' = [worker EXCEPT ![e].pc = "endpoint"]
  /\ UNCHANGED <<emitter, jobs, endpoint, accepted, faults>>

RecordEndpoint(e) ==
  /\ At(e, "endpoint")
  /\ failures' = failures + 1
  /\ worker' = [worker EXCEPT
       ![e].pc = IF failures' >= BreakAt /\ active THEN "break" ELSE "requeue"]
  /\ UNCHANGED <<emitter, row, jobs, active, accepted, faults>>

BreakCircuit(e) ==
  /\ At(e, "break")
  /\ active' = FALSE
  /\ worker' = [worker EXCEPT ![e].pc = "requeue"]
  /\ UNCHANGED <<emitter, row, jobs, failures, accepted, faults>>

\* The next attempt is added under the id of the job that is running.
Requeue(e) ==
  /\ At(e, "requeue")
  /\ Return(e, IF exhausted(e) THEN jobs ELSE enqueueWebhook(e))
  /\ UNCHANGED <<emitter, row, endpoint, accepted, faults>>

----------------------------------------------------------------------------
(* Failures of the platform itself, time and the sweep.                    *)

Fault == faults > 0 /\ faults' = faults - 1

\* BullMQ tries the job again while it has attempts left.
Retry(e) ==
  /\ jobs' = [jobs EXCEPT
       ![e].tries = @ + 1,
       ![e].state = IF jobs[e].tries + 1 < JobAttempts THEN "waiting"
                                                       ELSE "failed"]
  /\ worker' = [worker EXCEPT ![e] = NoWorker]

\* A call that throws inside the try is taken for a network error: the failure
\* is recorded, a second time if it was being recorded. Outside, the job fails.
CallThrows(e) ==
  /\ worker[e].pc \in {"read", "mark", "row", "endpoint", "break", "requeue"}
  /\ IF At(e, "read") \/ worker[e].caught
     THEN Retry(e)
     ELSE /\ worker' = [worker EXCEPT ![e].pc = "row", ![e].permanent = FALSE,
                                      ![e].caught = TRUE]
          /\ UNCHANGED jobs
  /\ Fault
  /\ UNCHANGED <<emitter, row, endpoint, accepted>>

\* A stalled job is run again. BullMQ counts stalls apart from tries that throw;
\* one limit stands for both.
WorkerDies(e) ==
  /\ jobs[e].state = "active"
  /\ Retry(e)
  /\ Fault
  /\ UNCHANGED <<emitter, row, endpoint, accepted>>

EmitterDies(e) ==
  /\ emitter[e] \in {"create", "enqueue"}
  /\ emitter' = [emitter EXCEPT ![e] = "done"]
  /\ Fault
  /\ UNCHANGED <<row, jobs, worker, endpoint, accepted>>

\* removeOnComplete and removeOnFail: the id of a finished job is free again.
ForgetJob(e) ==
  /\ jobs[e].state \in {"completed", "failed"}
  /\ jobs' = [jobs EXCEPT ![e] = NoJob]
  /\ UNCHANGED <<emitter, row, worker, endpoint, accepted, faults>>

NextAttemptFallsDue(e) ==
  /\ row[e].next = "later"
  /\ row' = [row EXCEPT ![e].next = "due"]
  /\ UNCHANGED <<emitter, jobs, worker, endpoint, accepted, faults>>

requeueStalledDeliveries(e) ==
  /\ row[e].status \in Open
  /\ row[e].next = "due"
  /\ jobs' = enqueueWebhook(e)
  /\ UNCHANGED <<emitter, row, worker, endpoint, accepted, faults>>

\* POST /v1/webhooks/:id/reactivate
Reactivate ==
  /\ ~active
  /\ active' = TRUE
  /\ failures' = 0
  /\ UNCHANGED <<emitter, row, jobs, worker, accepted, faults>>

----------------------------------------------------------------------------
Answers == {"accepted", "lost", "refused", "unavailable", "unreachable"}

Emit(e) == FindEndpoint(e) \/ CreateDelivery(e) \/ EnqueueDelivery(e)

Attempt(e) ==
  \/ AlreadyDelivered(e) \/ Abandon(e) \/ BeginAttempt(e)
  \/ \E answer \in Answers : Post(e, answer)
  \/ MarkDelivered(e)
  \/ RecordRow(e) \/ RecordEndpoint(e) \/ BreakCircuit(e) \/ Requeue(e)

Next ==
  \/ \E e \in Events :
       \/ Emit(e) \/ StartJob(e) \/ Attempt(e)
       \/ CallThrows(e) \/ WorkerDies(e) \/ EmitterDies(e)
       \/ ForgetJob(e) \/ NextAttemptFallsDue(e) \/ requeueStalledDeliveries(e)
  \/ Reactivate

\* Workers take waiting jobs and their awaits return; retention lapses; the
\* sweep comes round every 15 minutes. Faults, being bounded, end.
Fairness ==
  \A e \in Events :
    /\ WF_vars(StartJob(e)) /\ WF_vars(Attempt(e))
    /\ WF_vars(ForgetJob(e)) /\ WF_vars(NextAttemptFallsDue(e))
    /\ WF_vars(requeueStalledDeliveries(e))

Spec == Init /\ [][Next]_vars /\ Fairness

----------------------------------------------------------------------------
(* What holds.                                                             *)

\* The row is the source of truth: an event with a row is settled in the end,
\* whichever job the queue dropped, and marked delivered only if the receiver
\* has accepted it.
Delivery == INSTANCE EventDelivery WITH
  owed    <- {e \in Events : row[e].status # "none"},
  outcome <- [e \in Events |->
                CASE row[e].status = "DELIVERED" -> "delivered"
                  [] row[e].status \in GivenUp   -> "given up"
                  [] OTHER                       -> "open"]

DeliversAtLeastOnce == Delivery!Spec

\* An event is abandoned only when every attempt it is allowed has been used,
\* however many of its jobs were lost or run again on the way.
AbandonedWhenExhausted ==
  \A e \in Events : row[e].status = "ABANDONED" => row[e].attempt = MaxAttempts

----------------------------------------------------------------------------
(* What the repository says and the code does not do.                      *)

\* events.ts:146: failed deliveries are retried on a schedule of delays. The
\* retry of a delivery nobody is working on is in the queue.
RetryIsQueued ==
  \A e \in Events :
    row[e].status = "RETRYING" /\ worker[e].pc = "idle" /\ faults = MaxFaults
      => jobs[e].state \in {"waiting", "active"}
=============================================================================
