--------------------------- MODULE WebhooksProofs ---------------------------
(* What is proved about what leaves the system and what it records.           *)
(*                                                                            *)
(* Webhooks, for every set of events and every limit on attempts, tries,      *)
(* failures and faults: its invariants, and that every step of it is a step   *)
(* of EventDelivery, or one its receiver does not see.                        *)
(*                                                                            *)
(* AuditChain, for any number of tenants, writers and entries: what the       *)
(* transactions commit is one chain per tenant, whose rows verify.            *)
EXTENDS Webhooks, AuditChain, TLAPS

\* A worker has a job that is active, and a job that may still run has tries left.
WorkersHaveJobs ==
  \A e \in Events :
    /\ worker[e].pc # "idle" => jobs[e].state = "active"
    /\ jobs[e].state \in {"waiting", "active"} => jobs[e].tries < JobAttempts

\* The inductive invariant.
IInv == TypeOK /\ WorkersHaveJobs /\ AbandonedWhenExhausted

RowTypes    == [status : Open \cup GivenUp \cup {"none", "DELIVERED"},
                attempt : 0 .. MaxAttempts, next : {"null", "later", "due"}]
JobTypes    == [state : {"none", "waiting", "active", "completed", "failed"},
                tries : 0 .. JobAttempts]
WorkerTypes == [pc : WorkerPcs, attempt : 0 .. MaxAttempts,
                permanent : BOOLEAN, caught : BOOLEAN]

\* The types again, one conjunct a variable.
LEMMA Types ==
  TypeOK <=>
    /\ emitter \in [Events -> {"idle", "create", "enqueue", "done"}]
    /\ row \in [Events -> RowTypes]
    /\ jobs \in [Events -> JobTypes]
    /\ worker \in [Events -> WorkerTypes]
    /\ failures \in Nat /\ active \in BOOLEAN /\ accepted \subseteq Events
    /\ faults \in 0 .. MaxFaults
  BY DEF TypeOK, RowTypes, JobTypes, WorkerTypes

\* What an add to the queue leaves: known jobs as they were, a new one waiting.
LEMMA QueueAfterAdd ==
  ASSUME jobs \in [Events -> JobTypes], NEW e \in Events
  PROVE  /\ enqueueWebhook(e) \in [Events -> JobTypes]
         /\ \A f \in Events :
              enqueueWebhook(e)[f] = jobs[f] \/
              /\ f = e
              /\ jobs[e].state = "none"
              /\ enqueueWebhook(e)[e].state = "waiting"
              /\ enqueueWebhook(e)[e].tries = 0
<1>1. CASE jobs[e].state # "none"
  BY <1>1 DEF enqueueWebhook
<1>2. CASE jobs[e].state = "none"
  <2>1. jobs[e] \in JobTypes
    OBVIOUS
  <2> DEFINE once == [jobs EXCEPT ![e].state = "waiting"]
  <2>2. once \in [Events -> JobTypes] /\ once[e].state = "waiting"
    BY <2>1 DEF JobTypes
  <2>3. \A f \in Events \ {e} : once[f] = jobs[f]
    OBVIOUS
  <2>4. enqueueWebhook(e) = [once EXCEPT ![e].tries = 0]
    BY <1>2 DEF enqueueWebhook
  <2> HIDE DEF once
  <2>5. /\ enqueueWebhook(e) \in [Events -> JobTypes]
        /\ enqueueWebhook(e)[e].state = "waiting" /\ enqueueWebhook(e)[e].tries = 0
        /\ \A f \in Events \ {e} : enqueueWebhook(e)[f] = once[f]
    BY <2>2, <2>4, WebhooksAssumption DEF JobTypes
  <2> QED BY <1>2, <2>3, <2>5
<1> QED BY <1>1, <1>2

\* An add takes no job from a worker, and what it adds has all its tries.
LEMMA AddKeeps ==
  ASSUME WorkersHaveJobs, jobs \in [Events -> JobTypes], NEW e \in Events,
         jobs' = enqueueWebhook(e), UNCHANGED worker
  PROVE  WorkersHaveJobs'
<1> SUFFICES ASSUME NEW f \in Events
             PROVE  /\ worker[f].pc # "idle" => jobs'[f].state = "active"
                    /\ jobs'[f].state \in {"waiting", "active"} =>
                         jobs'[f].tries < JobAttempts
  BY DEF WorkersHaveJobs
<1>1. CASE jobs'[f] = jobs[f]
  BY <1>1 DEF WorkersHaveJobs
<1>2. CASE /\ f = e /\ jobs[e].state = "none"
           /\ jobs'[e].state = "waiting" /\ jobs'[e].tries = 0
  BY <1>2, WebhooksAssumption DEF WorkersHaveJobs
<1> QED BY <1>1, <1>2, QueueAfterAdd

\* The initial states satisfy the invariant.
LEMMA InitInv == Init => IInv
  BY WebhooksAssumption
     DEF Init, IInv, TypeOK, WorkersHaveJobs, AbandonedWhenExhausted, NoRow, NoJob,
         NoWorker, WorkerPcs, Open, GivenUp

\* A step that leaves the rows alone abandons nothing.
LEMMA RowsKept ==
  ASSUME AbandonedWhenExhausted, UNCHANGED row
  PROVE  AbandonedWhenExhausted'
  BY DEF AbandonedWhenExhausted

\* A job tried again is one of a worker, whose tries are counted.
LEMMA RetryKeeps ==
  ASSUME IInv, NEW e \in Events, jobs[e].state = "active", Retry(e)
  PROVE  /\ jobs' \in [Events -> JobTypes]
         /\ worker' \in [Events -> WorkerTypes]
         /\ WorkersHaveJobs'
<1> USE WebhooksAssumption DEF IInv, JobTypes, WorkerTypes, WorkerPcs, Retry, NoWorker
<1>1. jobs \in [Events -> JobTypes] /\ worker \in [Events -> WorkerTypes]
  BY Types
<1>2. jobs[e].tries \in Nat /\ jobs[e].tries < JobAttempts
  BY <1>1 DEF WorkersHaveJobs
<1>3. jobs' \in [Events -> JobTypes]
  BY <1>1, <1>2
<1>4. worker' \in [Events -> WorkerTypes]
  BY <1>1
<1>5. WorkersHaveJobs'
  <2> SUFFICES ASSUME NEW f \in Events
               PROVE  /\ worker'[f].pc # "idle" => jobs'[f].state = "active"
                      /\ jobs'[f].state \in {"waiting", "active"} =>
                           jobs'[f].tries < JobAttempts
    BY DEF WorkersHaveJobs
  <2>1. CASE f = e
    BY <2>1, <1>1, <1>2
  <2>2. CASE f # e
    BY <2>2, <1>1 DEF WorkersHaveJobs
  <2> QED BY <2>1, <2>2
<1> QED BY <1>3, <1>4, <1>5

\* A function that returns completes its job, whatever it has added to the queue.
LEMMA ReturnKeeps ==
  ASSUME IInv, NEW e \in Events, worker[e].pc # "idle",
         NEW queue, queue \in {jobs, enqueueWebhook(e)}, Return(e, queue)
  PROVE  /\ jobs' \in [Events -> JobTypes]
         /\ worker' \in [Events -> WorkerTypes]
         /\ WorkersHaveJobs'
<1>1. jobs \in [Events -> JobTypes] /\ worker \in [Events -> WorkerTypes]
  BY Types DEF IInv
<1>2. queue = jobs
  BY DEF IInv, WorkersHaveJobs, enqueueWebhook
<1>3. jobs' \in [Events -> JobTypes] /\ worker' \in [Events -> WorkerTypes]
  BY <1>1, <1>2, WebhooksAssumption DEF Return, JobTypes, WorkerTypes, WorkerPcs, NoWorker
<1>4. WorkersHaveJobs'
  BY <1>1, <1>2 DEF Return, JobTypes, WorkerTypes, NoWorker, IInv, WorkersHaveJobs
<1> QED BY <1>3, <1>4

\* A step of a worker that goes on keeps its job.
LEMMA WorkerGoesOn ==
  ASSUME IInv, NEW e \in Events, worker[e].pc # "idle", UNCHANGED jobs,
         worker' \in [Events -> WorkerTypes],
         \A f \in Events \ {e} : worker'[f] = worker[f]
  PROVE  WorkersHaveJobs'
  BY DEF IInv, WorkersHaveJobs

\* The emitter and the queue's adds.
LEMMA EmitStep ==
  ASSUME IInv, NEW e \in Events, Emit(e)
  PROVE  IInv'
<1> USE DEF IInv
<1>1. jobs \in [Events -> JobTypes] /\ row \in [Events -> RowTypes]
  BY Types
<1>2. CASE FindEndpoint(e)
  BY <1>2 DEF FindEndpoint, TypeOK, WorkersHaveJobs, AbandonedWhenExhausted, endpoint
<1>3. CASE CreateDelivery(e)
  <2> DEFINE new == [NoRow EXCEPT !.status = "PENDING", !.next = "due"]
  <2>1. NoRow \in RowTypes
    BY WebhooksAssumption DEF RowTypes, NoRow
  <2>2. new \in RowTypes /\ new.status = "PENDING"
    BY <2>1 DEF RowTypes, Open
  <2>3. row' = [row EXCEPT ![e] = new]
    BY <1>3 DEF CreateDelivery
  <2> HIDE DEF new
  <2>4. row' \in [Events -> RowTypes] /\ AbandonedWhenExhausted'
    BY <1>1, <2>2, <2>3 DEF AbandonedWhenExhausted
  <2> QED BY <2>4, <1>3 DEF CreateDelivery, TypeOK, RowTypes, WorkersHaveJobs, endpoint
<1>4. CASE EnqueueDelivery(e)
  <2>1. TypeOK'
    BY <1>1, <1>4, QueueAfterAdd DEF EnqueueDelivery, TypeOK, endpoint, JobTypes
  <2>2. WorkersHaveJobs'
    BY <1>1, <1>4, AddKeeps DEF EnqueueDelivery
  <2>3. AbandonedWhenExhausted'
    BY <1>4, RowsKept DEF EnqueueDelivery
  <2> QED BY <2>1, <2>2, <2>3
<1> QED BY <1>2, <1>3, <1>4 DEF Emit

\* The steps of deliverWebhook and recordFailure.
LEMMA AttemptStep ==
  ASSUME IInv, NEW e \in Events, Attempt(e)
  PROVE  IInv'
<1> USE DEF IInv, At
<1>1. /\ jobs \in [Events -> JobTypes] /\ row \in [Events -> RowTypes]
      /\ worker \in [Events -> WorkerTypes]
  BY Types
<1>2. row[e] \in RowTypes /\ worker[e] \in WorkerTypes /\ MaxAttempts \in Nat \ {0}
  BY <1>1, WebhooksAssumption
<1>3. CASE AlreadyDelivered(e)
  <2>1. /\ jobs' \in [Events -> JobTypes] /\ worker' \in [Events -> WorkerTypes]
        /\ WorkersHaveJobs'
    BY <1>3, ReturnKeeps DEF AlreadyDelivered
  <2> QED BY <2>1, <1>3, RowsKept DEF AlreadyDelivered, TypeOK, endpoint, JobTypes, WorkerTypes
<1>4. CASE Abandon(e)
  <2>1. /\ jobs' \in [Events -> JobTypes] /\ worker' \in [Events -> WorkerTypes]
        /\ WorkersHaveJobs'
    BY <1>4, ReturnKeeps DEF Abandon
  <2>2. row' \in [Events -> RowTypes]
    BY <1>1, <1>4 DEF Abandon, RowTypes, GivenUp
  <2>3. AbandonedWhenExhausted'
    <3>1. /\ row'[e].attempt = row[e].attempt
          /\ \A f \in Events \ {e} : row'[f] = row[f]
      BY <1>1, <1>2, <1>4 DEF Abandon, RowTypes
    <3>2. row[e].attempt \in 0 .. MaxAttempts /\ row[e].attempt >= MaxAttempts
      BY <1>2, <1>4 DEF Abandon, RowTypes
    <3>3. row[e].attempt = MaxAttempts
      BY <3>2, <1>2
    <3> QED BY <3>1, <3>3 DEF AbandonedWhenExhausted
  <2> QED BY <2>1, <2>2, <2>3, <1>4 DEF Abandon, TypeOK, endpoint, JobTypes, WorkerTypes, RowTypes
<1>5. CASE BeginAttempt(e)
  <2>1. worker' \in [Events -> WorkerTypes]
    <3>1. row[e].attempt + 1 \in 0 .. MaxAttempts
      BY <1>2, <1>5 DEF BeginAttempt, RowTypes
    <3>2. [worker[e] EXCEPT !.pc = "post", !.attempt = row[e].attempt + 1] \in WorkerTypes
      BY <1>2, <3>1 DEF WorkerTypes, WorkerPcs
    <3>3. worker' = [worker EXCEPT ![e] =
                       [worker[e] EXCEPT !.pc = "post", !.attempt = row[e].attempt + 1]]
      BY <1>5 DEF BeginAttempt
    <3> QED BY <1>1, <3>2, <3>3
  <2>2. WorkersHaveJobs'
    BY <1>1, <1>5, <2>1, WorkerGoesOn DEF BeginAttempt
  <2> QED BY <2>1, <2>2, <1>5, RowsKept DEF BeginAttempt, TypeOK, endpoint, WorkerTypes
<1>6. ASSUME NEW answer \in Answers, Post(e, answer)
      PROVE  IInv'
  <2>1. worker' \in [Events -> WorkerTypes]
    <3> DEFINE next    == IF answer = "accepted" THEN "mark" ELSE "row"
               refused == answer = "refused"
               caught  == answer \in {"lost", "unreachable"}
               new == [worker[e] EXCEPT !.pc = next, !.permanent = refused,
                                        !.caught = caught]
    <3>0. next \in WorkerPcs /\ refused \in BOOLEAN /\ caught \in BOOLEAN
      BY DEF WorkerPcs
    <3>1. new \in WorkerTypes
      <4> HIDE DEF next, refused, caught
      <4> QED BY <3>0, <1>2 DEF WorkerTypes
    <3>2. worker' = [worker EXCEPT ![e] = new]
      BY <1>6 DEF Post
    <3> HIDE DEF new
    <3> QED BY <1>1, <3>1, <3>2
  <2>2. WorkersHaveJobs'
    BY <1>1, <1>6, <2>1, WorkerGoesOn DEF Post
  <2> QED BY <2>1, <2>2, <1>6, RowsKept DEF Post, TypeOK, endpoint, WorkerTypes
<1>7. CASE MarkDelivered(e)
  <2>1. /\ jobs' \in [Events -> JobTypes] /\ worker' \in [Events -> WorkerTypes]
        /\ WorkersHaveJobs'
    BY <1>7, ReturnKeeps DEF MarkDelivered
  <2>2. row' \in [Events -> RowTypes]
    BY <1>1, <1>2, <1>7 DEF MarkDelivered, RowTypes, WorkerTypes
  <2>3. AbandonedWhenExhausted'
    BY <1>1, <1>7 DEF MarkDelivered, RowTypes, AbandonedWhenExhausted
  <2> QED BY <2>1, <2>2, <2>3, <1>7
             DEF MarkDelivered, TypeOK, JobTypes, WorkerTypes, RowTypes
<1>8. CASE RecordRow(e)
  <2>1. worker' \in [Events -> WorkerTypes]
    BY <1>1, <1>8 DEF RecordRow, WorkerTypes, WorkerPcs
  <2>2. WorkersHaveJobs'
    BY <1>1, <1>8, <2>1, WorkerGoesOn DEF RecordRow
  <2>3. row' \in [Events -> RowTypes]
    BY <1>1, <1>2, <1>8 DEF RecordRow, RowTypes, WorkerTypes, Open, GivenUp
  <2>4. AbandonedWhenExhausted'
    BY <1>1, <1>2, <1>8
       DEF RecordRow, exhausted, RowTypes, WorkerTypes, AbandonedWhenExhausted
  <2> QED BY <2>1, <2>2, <2>3, <2>4, <1>8
             DEF RecordRow, TypeOK, endpoint, WorkerTypes, RowTypes
<1>9. CASE RecordEndpoint(e)
  <2>1. worker' \in [Events -> WorkerTypes]
    BY <1>1, <1>9 DEF RecordEndpoint, WorkerTypes, WorkerPcs
  <2>2. WorkersHaveJobs'
    BY <1>1, <1>9, <2>1, WorkerGoesOn DEF RecordEndpoint
  <2> QED BY <2>1, <2>2, <1>9, RowsKept DEF RecordEndpoint, TypeOK, WorkerTypes
<1>10. CASE BreakCircuit(e)
  <2>1. worker' \in [Events -> WorkerTypes]
    BY <1>1, <1>10 DEF BreakCircuit, WorkerTypes, WorkerPcs
  <2>2. WorkersHaveJobs'
    BY <1>1, <1>10, <2>1, WorkerGoesOn DEF BreakCircuit
  <2> QED BY <2>1, <2>2, <1>10, RowsKept DEF BreakCircuit, TypeOK, WorkerTypes
<1>11. CASE Requeue(e)
  <2>1. /\ jobs' \in [Events -> JobTypes] /\ worker' \in [Events -> WorkerTypes]
        /\ WorkersHaveJobs'
    <3>1. Return(e, jobs) \/ Return(e, enqueueWebhook(e))
      BY <1>11 DEF Requeue
    <3> QED BY <3>1, <1>11, ReturnKeeps DEF Requeue
  <2> QED BY <2>1, <1>11, RowsKept DEF Requeue, TypeOK, endpoint, JobTypes, WorkerTypes
<1> QED BY <1>3, <1>4, <1>5, <1>6, <1>7, <1>8, <1>9, <1>10, <1>11 DEF Attempt

\* Failures of the platform.
LEMMA FaultStep ==
  ASSUME IInv, NEW e \in Events, CallThrows(e) \/ WorkerDies(e) \/ EmitterDies(e)
  PROVE  IInv'
<1> USE DEF IInv
<1>1. jobs \in [Events -> JobTypes] /\ worker \in [Events -> WorkerTypes]
  BY Types
<1>2. CASE CallThrows(e)
  <2>1. worker[e].pc # "idle" /\ jobs[e].state = "active"
    BY <1>2 DEF CallThrows, WorkersHaveJobs
  <2>2. /\ jobs' \in [Events -> JobTypes] /\ worker' \in [Events -> WorkerTypes]
        /\ WorkersHaveJobs'
    <3>1. CASE Retry(e)
      BY <3>1, <2>1, RetryKeeps
    <3>2. CASE ~Retry(e)
      <4>1. /\ UNCHANGED jobs
            /\ worker' = [worker EXCEPT ![e].pc = "row", ![e].permanent = FALSE,
                                        ![e].caught = TRUE]
        BY <3>2, <1>2 DEF CallThrows
      <4>2. worker' \in [Events -> WorkerTypes]
        <5> DEFINE new == [worker[e] EXCEPT !.pc = "row", !.permanent = FALSE,
                                            !.caught = TRUE]
        <5>1. worker[e] \in WorkerTypes
          BY <1>1
        <5>2. new \in WorkerTypes
          BY <5>1 DEF WorkerTypes, WorkerPcs
        <5>3. worker' = [worker EXCEPT ![e] = new]
          BY <4>1
        <5> HIDE DEF new
        <5> QED BY <1>1, <5>2, <5>3
      <4>3. WorkersHaveJobs'
        BY <4>1, <4>2, <2>1, <1>1, WorkerGoesOn
      <4> QED BY <4>1, <4>2, <4>3, <1>1
    <3> QED BY <3>1, <3>2
  <2> QED BY <2>2, <1>2, WebhooksAssumption, RowsKept
             DEF CallThrows, Fault, TypeOK, endpoint, JobTypes, WorkerTypes
<1>3. CASE WorkerDies(e)
  <2>1. /\ jobs' \in [Events -> JobTypes] /\ worker' \in [Events -> WorkerTypes]
        /\ WorkersHaveJobs'
    BY <1>3, RetryKeeps DEF WorkerDies
  <2> QED BY <2>1, <1>3, WebhooksAssumption, RowsKept
             DEF WorkerDies, Fault, TypeOK, endpoint, JobTypes, WorkerTypes
<1>4. CASE EmitterDies(e)
  BY <1>4, WebhooksAssumption
     DEF EmitterDies, Fault, TypeOK, endpoint, WorkersHaveJobs, AbandonedWhenExhausted
<1> QED BY <1>2, <1>3, <1>4

\* The queue starts and forgets jobs; time passes; the sweep adds; an operator acts.
LEMMA OtherStep ==
  ASSUME IInv, NEW e \in Events,
         \/ StartJob(e) \/ ForgetJob(e) \/ NextAttemptFallsDue(e)
         \/ requeueStalledDeliveries(e) \/ Reactivate
  PROVE  IInv'
<1> USE DEF IInv
<1>1. /\ jobs \in [Events -> JobTypes] /\ row \in [Events -> RowTypes]
      /\ worker \in [Events -> WorkerTypes]
  BY Types
<1>2. CASE StartJob(e)
  <2>1. jobs' \in [Events -> JobTypes]
    BY <1>1, <1>2 DEF StartJob, JobTypes
  <2>2. worker' \in [Events -> WorkerTypes]
    <3> DEFINE new == [NoWorker EXCEPT !.pc = "read"]
    <3>1. NoWorker \in WorkerTypes
      BY WebhooksAssumption DEF NoWorker, WorkerTypes, WorkerPcs
    <3>2. new \in WorkerTypes
      BY <3>1 DEF WorkerTypes, WorkerPcs
    <3>3. worker' = [worker EXCEPT ![e] = new]
      BY <1>2 DEF StartJob
    <3> HIDE DEF new
    <3> QED BY <1>1, <3>2, <3>3
  <2>3. WorkersHaveJobs'
    BY <1>1, <1>2 DEF StartJob, JobTypes, WorkerTypes, WorkersHaveJobs
  <2> QED BY <2>1, <2>2, <2>3, <1>2, RowsKept DEF StartJob, TypeOK, endpoint, JobTypes, WorkerTypes
<1>3. CASE ForgetJob(e)
  <2>1. jobs' \in [Events -> JobTypes]
    BY <1>1, <1>3, WebhooksAssumption DEF ForgetJob, JobTypes, NoJob
  <2>2. WorkersHaveJobs'
    BY <1>1, <1>3 DEF ForgetJob, JobTypes, NoJob, WorkersHaveJobs
  <2> QED BY <2>1, <2>2, <1>3, RowsKept DEF ForgetJob, TypeOK, endpoint, JobTypes
<1>4. CASE NextAttemptFallsDue(e)
  <2>1. row' \in [Events -> RowTypes] /\ AbandonedWhenExhausted'
    BY <1>1, <1>4 DEF NextAttemptFallsDue, RowTypes, AbandonedWhenExhausted
  <2> QED BY <2>1, <1>4 DEF NextAttemptFallsDue, TypeOK, endpoint, RowTypes, WorkersHaveJobs
<1>5. CASE requeueStalledDeliveries(e)
  <2>1. TypeOK'
    BY <1>1, <1>5, QueueAfterAdd DEF requeueStalledDeliveries, TypeOK, endpoint, JobTypes
  <2>2. WorkersHaveJobs'
    BY <1>1, <1>5, AddKeeps DEF requeueStalledDeliveries
  <2> QED BY <2>1, <2>2, <1>5, RowsKept DEF requeueStalledDeliveries
<1>6. CASE Reactivate
  BY <1>6 DEF Reactivate, TypeOK, WorkersHaveJobs, AbandonedWhenExhausted
<1> QED BY <1>2, <1>3, <1>4, <1>5, <1>6

\* Every step keeps the invariant.
LEMMA NextInv == IInv /\ [Next]_vars => IInv'
<1> SUFFICES ASSUME IInv, [Next]_vars PROVE IInv'
  OBVIOUS
<1>1. CASE UNCHANGED vars
  BY <1>1 DEF vars, endpoint, IInv, TypeOK, WorkersHaveJobs, AbandonedWhenExhausted
<1>2. ASSUME NEW e \in Events,
             \/ Emit(e) \/ StartJob(e) \/ Attempt(e)
             \/ CallThrows(e) \/ WorkerDies(e) \/ EmitterDies(e)
             \/ ForgetJob(e) \/ NextAttemptFallsDue(e) \/ requeueStalledDeliveries(e)
      PROVE  IInv'
  BY <1>2, EmitStep, AttemptStep, FaultStep, OtherStep
<1>3. CASE Reactivate
  BY <1>3 DEF Reactivate, IInv, TypeOK, WorkersHaveJobs, AbandonedWhenExhausted
<1> QED BY <1>1, <1>2, <1>3 DEF Next

\* The invariant holds in every behaviour.
THEOREM WebhooksInvariant == Spec => []IInv
  BY InitInv, NextInv, PTL DEF Spec

\* The types of the rows, the jobs and the workers.
THEOREM TypesHold == Spec => []TypeOK
<1>1. IInv => TypeOK
  BY DEF IInv
<1> QED BY <1>1, WebhooksInvariant, PTL

\* Whatever throws, dies, is forgotten or queued again, an event is abandoned only
\* when its attempts are used up (recordFailure, deliverWebhook).
THEOREM AbandonedOnlyWhenExhausted == Spec => []AbandonedWhenExhausted
<1>1. IInv => AbandonedWhenExhausted
  BY DEF IInv
<1> QED BY <1>1, WebhooksInvariant, PTL

----------------------------------------------------------------------------
(* The safety half of the refinement.                                        *)

\* Jobs and workers are of events with a row; a row comes once; a worker that is
\* past its first read has not seen its event delivered, and marks as delivered
\* only what has been accepted.
Linked(e) ==
  /\ emitter[e] \in {"idle", "create"} => row[e].status = "none"
  /\ emitter[e] = "enqueue" => row[e].status # "none"
  /\ row[e].status = "none" => jobs[e].state = "none" /\ worker[e].pc = "idle"
  /\ worker[e].pc = "mark" => e \in accepted
  /\ worker[e].pc \notin {"idle", "read"} => row[e].status # "DELIVERED"

AllLinked == \A e \in Events : Linked(e)

RInv == IInv /\ AllLinked

\* The initial states satisfy it.
LEMMA InitLinked == Init => AllLinked
<1> SUFFICES ASSUME Init, NEW e \in Events PROVE Linked(e)
  BY DEF AllLinked
<1>1. emitter[e] = "idle" /\ row[e] = NoRow /\ jobs[e] = NoJob /\ worker[e] = NoWorker
  BY DEF Init
<1>2. /\ row[e].status = "none" /\ jobs[e].state = "none"
      /\ worker[e].pc = "idle"
  BY <1>1 DEF NoRow, NoJob, NoWorker
<1> QED BY <1>1, <1>2 DEF Linked

\* What an action of one event leaves of another.
Same(f) ==
  /\ emitter'[f] = emitter[f] /\ row'[f] = row[f] /\ jobs'[f] = jobs[f]
  /\ worker'[f] = worker[f] /\ (f \in accepted' <=> f \in accepted)

LEMMA OthersLinked ==
  ASSUME AllLinked, NEW e \in Events, Linked(e)', \A f \in Events \ {e} : Same(f)
  PROVE  AllLinked'
<1> SUFFICES ASSUME NEW f \in Events PROVE Linked(f)'
  BY DEF AllLinked
<1>1. CASE f = e
  BY <1>1
<1>2. CASE f # e
  BY <1>2 DEF Same, Linked, AllLinked
<1> QED BY <1>1, <1>2

\* The types again, as the provers use them.
LEMMA Shapes ==
  ASSUME IInv
  PROVE  /\ emitter \in [Events -> {"idle", "create", "enqueue", "done"}]
         /\ row \in [Events -> RowTypes] /\ jobs \in [Events -> JobTypes]
         /\ worker \in [Events -> WorkerTypes]
  BY Types DEF IInv

\* Emitting keeps it.
LEMMA EmitLinked ==
  ASSUME RInv, NEW e \in Events, Emit(e)
  PROVE  AllLinked'
<1> USE DEF RInv
<1>1. Linked(e)
  BY DEF AllLinked
<1>2. CASE FindEndpoint(e)
  <2>1. Linked(e)'
    BY <1>1, <1>2, Shapes DEF FindEndpoint, Linked, endpoint
  <2>2. \A f \in Events \ {e} : Same(f)
    BY <1>2, Shapes DEF FindEndpoint, Same
  <2> QED BY <2>1, <2>2, OthersLinked
<1>3. CASE CreateDelivery(e)
  <2>1. row'[e].status = "PENDING"
    BY <1>3, Shapes DEF CreateDelivery, NoRow
  <2>2. Linked(e)'
    BY <1>1, <1>3, <2>1, Shapes DEF CreateDelivery, Linked
  <2>3. \A f \in Events \ {e} : Same(f)
    BY <1>3, Shapes DEF CreateDelivery, Same
  <2> QED BY <2>2, <2>3, OthersLinked
<1>4. CASE EnqueueDelivery(e)
  <2>1. Linked(e)'
    BY <1>1, <1>4, Shapes DEF EnqueueDelivery, Linked
  <2>2. \A f \in Events \ {e} : Same(f)
    BY <1>4, Shapes, QueueAfterAdd DEF EnqueueDelivery, Same
  <2> QED BY <2>1, <2>2, OthersLinked
<1> QED BY <1>2, <1>3, <1>4 DEF Emit

\* A step of a worker keeps it, if it leaves the worker idle or at a place that its
\* event's row and the receiver's answer allow.
LEMMA WorkerLinked ==
  ASSUME RInv, NEW e \in Events, jobs[e].state # "none",
         UNCHANGED emitter, \A f \in Events \ {e} : Same(f),
         row'[e].status # "none",
         worker'[e].pc = "mark" => e \in accepted',
         worker'[e].pc \notin {"idle", "read"} => row'[e].status # "DELIVERED"
  PROVE  AllLinked'
<1>1. Linked(e)
  BY DEF AllLinked, RInv
<1>2. Linked(e)'
  BY <1>1 DEF Linked
<1> QED BY <1>2, OthersLinked DEF RInv

\* The steps of workers keep it.
LEMMA AttemptLinked ==
  ASSUME RInv, NEW e \in Events, Attempt(e)
  PROVE  AllLinked'
<1> USE DEF RInv, At
<1>1. Linked(e)
  BY DEF AllLinked
<1>2. /\ row \in [Events -> RowTypes] /\ jobs \in [Events -> JobTypes]
      /\ worker \in [Events -> WorkerTypes]
  BY Shapes
<1>3. worker[e].pc # "idle" => jobs[e].state = "active" /\ row[e].status # "none"
  BY <1>1 DEF IInv, WorkersHaveJobs, Linked
<1>4. ASSUME Return(e, jobs) \/ Return(e, enqueueWebhook(e)), worker[e].pc # "idle"
      PROVE  /\ worker'[e].pc = "idle"
             /\ \A f \in Events \ {e} : worker'[f] = worker[f] /\ jobs'[f] = jobs[f]
  <2>1. enqueueWebhook(e) = jobs
    BY <1>3, <1>4 DEF enqueueWebhook
  <2> QED BY <1>2, <1>4, <2>1 DEF Return, NoWorker
<1>5. CASE AlreadyDelivered(e)
  BY <1>2, <1>3, <1>4, <1>5, WorkerLinked DEF AlreadyDelivered, Same
<1>6. CASE Abandon(e)
  <2>1. row'[e].status = "ABANDONED" /\ \A f \in Events \ {e} : row'[f] = row[f]
    BY <1>2, <1>6 DEF Abandon, RowTypes
  <2> QED BY <1>3, <1>4, <1>6, <2>1, WorkerLinked DEF Abandon, Same
<1>7. CASE BeginAttempt(e)
  <2>1. worker'[e].pc = "post" /\ \A f \in Events \ {e} : worker'[f] = worker[f]
    BY <1>2, <1>7 DEF BeginAttempt, WorkerTypes
  <2> QED BY <1>3, <1>7, <2>1, WorkerLinked DEF BeginAttempt, Same
<1>8. ASSUME NEW answer \in Answers, Post(e, answer)
      PROVE  AllLinked'
  <2>1. /\ worker'[e].pc = IF answer = "accepted" THEN "mark" ELSE "row"
        /\ \A f \in Events \ {e} : worker'[f] = worker[f]
    BY <1>2, <1>8 DEF Post, WorkerTypes
  <2>2. answer = "accepted" => e \in accepted'
    BY <1>8 DEF Post
  <2>3. \A f \in Events \ {e} : f \in accepted' <=> f \in accepted
    BY <1>8 DEF Post
  <2>4. row[e].status # "DELIVERED" /\ worker[e].pc = "post"
    BY <1>1, <1>8 DEF Post, Linked
  <2>5. /\ worker'[e].pc = "mark" => e \in accepted'
        /\ jobs[e].state # "none" /\ row'[e].status \notin {"none", "DELIVERED"}
        /\ UNCHANGED emitter
    BY <1>3, <1>8, <2>1, <2>2, <2>4 DEF Post
  <2>6. \A f \in Events \ {e} : Same(f)
    BY <1>8, <2>1, <2>3 DEF Post, Same
  <2> QED BY <2>5, <2>6, WorkerLinked
<1>9. CASE MarkDelivered(e)
  <2>1. row'[e].status = "DELIVERED" /\ \A f \in Events \ {e} : row'[f] = row[f]
    BY <1>2, <1>9 DEF MarkDelivered, RowTypes
  <2> QED BY <1>3, <1>4, <1>9, <2>1, WorkerLinked DEF MarkDelivered, Same
<1>10. CASE RecordRow(e)
  <2>1. /\ row'[e].status \in {"RETRYING", "FAILED", "ABANDONED"}
        /\ \A f \in Events \ {e} : row'[f] = row[f]
    BY <1>2, <1>10 DEF RecordRow, RowTypes
  <2>2. worker'[e].pc = "endpoint" /\ \A f \in Events \ {e} : worker'[f] = worker[f]
    BY <1>2, <1>10 DEF RecordRow, WorkerTypes
  <2> QED BY <1>3, <1>10, <2>1, <2>2, WorkerLinked DEF RecordRow, Same
<1>11. CASE RecordEndpoint(e) \/ BreakCircuit(e)
  <2>1. /\ worker[e].pc \in {"endpoint", "break"}
        /\ worker'[e].pc \in {"break", "requeue"}
        /\ \A f \in Events \ {e} : worker'[f] = worker[f]
    BY <1>2, <1>11 DEF RecordEndpoint, BreakCircuit, WorkerTypes
  <2>2. row[e].status # "DELIVERED"
    BY <1>1, <2>1 DEF Linked
  <2> QED BY <1>3, <1>11, <2>1, <2>2, WorkerLinked DEF RecordEndpoint, BreakCircuit, Same
<1>12. CASE Requeue(e)
  <2>1. Return(e, jobs) \/ Return(e, enqueueWebhook(e))
    BY <1>12 DEF Requeue
  <2> QED BY <1>3, <1>4, <1>12, <2>1, WorkerLinked DEF Requeue, Same
<1> QED BY <1>5, <1>6, <1>7, <1>8, <1>9, <1>10, <1>11, <1>12 DEF Attempt

\* So do failures.
LEMMA FaultLinked ==
  ASSUME RInv, NEW e \in Events, CallThrows(e) \/ WorkerDies(e) \/ EmitterDies(e)
  PROVE  AllLinked'
<1> USE DEF RInv, At
<1>1. Linked(e)
  BY DEF AllLinked
<1>2. /\ row \in [Events -> RowTypes] /\ jobs \in [Events -> JobTypes]
      /\ worker \in [Events -> WorkerTypes]
  BY Shapes
<1>3. CASE CallThrows(e) \/ WorkerDies(e)
  <2>1. jobs[e].state = "active" /\ row[e].status # "none"
    BY <1>1, <1>3 DEF CallThrows, WorkerDies, IInv, WorkersHaveJobs, Linked
  <2>2. ASSUME Retry(e)
        PROVE  /\ worker'[e].pc = "idle"
               /\ \A f \in Events \ {e} : worker'[f] = worker[f] /\ jobs'[f] = jobs[f]
    BY <1>2, <2>2 DEF Retry, NoWorker
  <2>3. CASE Retry(e)
    BY <1>3, <2>1, <2>2, <2>3, WorkerLinked DEF CallThrows, WorkerDies, Same
  <2>4. CASE ~Retry(e)
    <3>1. /\ UNCHANGED jobs /\ worker[e].pc \notin {"idle", "read"}
          /\ worker' = [worker EXCEPT ![e].pc = "row", ![e].permanent = FALSE,
                                      ![e].caught = TRUE]
      BY <1>3, <2>4 DEF CallThrows, WorkerDies
    <3>2. worker'[e].pc = "row" /\ \A f \in Events \ {e} : worker'[f] = worker[f]
      BY <1>2, <3>1 DEF WorkerTypes
    <3>3. row[e].status # "DELIVERED"
      BY <1>1, <3>1 DEF Linked
    <3> QED BY <1>3, <2>1, <3>1, <3>2, <3>3, WorkerLinked DEF CallThrows, WorkerDies, Same
  <2> QED BY <2>3, <2>4
<1>4. CASE EmitterDies(e)
  <2>1. Linked(e)'
    BY <1>1, <1>4, Shapes DEF EmitterDies, Linked
  <2>2. \A f \in Events \ {e} : Same(f)
    BY <1>4, Shapes DEF EmitterDies, Same
  <2> QED BY <2>1, <2>2, OthersLinked
<1> QED BY <1>3, <1>4

\* So do the queue, time and the sweep.
LEMMA OtherLinked ==
  ASSUME RInv, NEW e \in Events,
         \/ StartJob(e) \/ ForgetJob(e) \/ NextAttemptFallsDue(e)
         \/ requeueStalledDeliveries(e)
  PROVE  AllLinked'
<1> USE DEF RInv
<1>1. Linked(e)
  BY DEF AllLinked
<1>2. /\ row \in [Events -> RowTypes] /\ jobs \in [Events -> JobTypes]
      /\ worker \in [Events -> WorkerTypes]
  BY Shapes
<1>3. CASE StartJob(e)
  <2>1. worker'[e].pc = "read" /\ \A f \in Events \ {e} : worker'[f] = worker[f]
    BY <1>2, <1>3 DEF StartJob, NoWorker
  <2>2. \A f \in Events \ {e} : jobs'[f] = jobs[f]
    BY <1>2, <1>3 DEF StartJob
  <2> QED BY <1>1, <1>3, <2>1, <2>2, WorkerLinked DEF StartJob, Same, Linked
<1>4. CASE ForgetJob(e)
  <2>1. worker[e].pc = "idle"
    BY <1>4 DEF ForgetJob, IInv, WorkersHaveJobs
  <2>2. Linked(e)'
    BY <1>1, <1>2, <1>4, <2>1 DEF ForgetJob, NoJob, Linked
  <2>3. \A f \in Events \ {e} : Same(f)
    BY <1>2, <1>4 DEF ForgetJob, Same
  <2> QED BY <2>2, <2>3, OthersLinked
<1>5. CASE NextAttemptFallsDue(e)
  <2>1. row'[e].status = row[e].status /\ \A f \in Events \ {e} : row'[f] = row[f]
    BY <1>2, <1>5 DEF NextAttemptFallsDue, RowTypes
  <2>2. Linked(e)'
    BY <1>1, <1>5, <2>1 DEF NextAttemptFallsDue, Linked
  <2> QED BY <1>5, <2>1, <2>2, OthersLinked DEF NextAttemptFallsDue, Same
<1>6. CASE requeueStalledDeliveries(e)
  <2>1. row[e].status # "none"
    BY <1>6 DEF requeueStalledDeliveries, Open
  <2>2. Linked(e)'
    BY <1>1, <1>6, <2>1 DEF requeueStalledDeliveries, Linked
  <2>3. \A f \in Events \ {e} : Same(f)
    BY <1>2, <1>6, QueueAfterAdd DEF requeueStalledDeliveries, Same
  <2> QED BY <2>2, <2>3, OthersLinked
<1> QED BY <1>3, <1>4, <1>5, <1>6

\* Every step keeps it.
LEMMA NextLinked == RInv /\ [Next]_vars => RInv'
<1> SUFFICES ASSUME RInv, [Next]_vars PROVE AllLinked'
  BY NextInv DEF RInv
<1>1. CASE UNCHANGED vars
  BY <1>1 DEF vars, endpoint, RInv, AllLinked, Linked
<1>2. CASE Reactivate
  BY <1>2 DEF Reactivate, RInv, AllLinked, Linked
<1>3. ASSUME NEW e \in Events,
             \/ Emit(e) \/ StartJob(e) \/ Attempt(e)
             \/ CallThrows(e) \/ WorkerDies(e) \/ EmitterDies(e)
             \/ ForgetJob(e) \/ NextAttemptFallsDue(e) \/ requeueStalledDeliveries(e)
      PROVE  AllLinked'
  BY <1>3, EmitLinked, AttemptLinked, FaultLinked, OtherLinked
<1> QED BY <1>1, <1>2, <1>3 DEF Next

----------------------------------------------------------------------------
(* The steps, as the receiver sees them.                                   *)

\* What a row's status says to the receiver.
Outcome(status) ==
  CASE status = "DELIVERED" -> "delivered"
    [] status \in GivenUp   -> "given up"
    [] OTHER                -> "open"

Owed     == {e \in Events : row[e].status # "none"}
Outcomes == [e \in Events |-> Outcome(row[e].status)]

\* A step that leaves the statuses and the answers alone is not seen.
LEMMA Unseen ==
  ASSUME UNCHANGED accepted, \A f \in Events : row'[f].status = row[f].status
  PROVE  UNCHANGED Delivery!vars
<1>1. Owed' = Owed /\ Outcomes' = Outcomes
  BY DEF Owed, Outcomes
<1> QED BY <1>1 DEF Delivery!vars, Owed, Outcomes, Outcome

\* A change of one row's status alone.
LEMMA OneOutcome ==
  ASSUME NEW e \in Events, row \in [Events -> RowTypes],
         \A f \in Events \ {e} : row'[f] = row[f]
  PROVE  /\ Outcomes' = [Outcomes EXCEPT ![e] = Outcome(row'[e].status)]
         /\ Owed' = IF row'[e].status = "none" THEN Owed \ {e} ELSE Owed \cup {e}
  BY DEF Outcomes, Owed

\* Every step is a step of the promise, or none.
LEMMA StepPromised == RInv /\ [Next]_vars => [Delivery!Next]_(Delivery!vars)
<1> SUFFICES ASSUME RInv, [Next]_vars
             PROVE  Delivery!Next \/ UNCHANGED Delivery!vars
  OBVIOUS
<1> USE DEF RInv
<1>1. row \in [Events -> RowTypes]
  BY Shapes
<1>2. CASE UNCHANGED <<row, accepted>>
  BY <1>2, Unseen
<1>3. ASSUME NEW e \in Events,
             CreateDelivery(e) \/ Abandon(e) \/ MarkDelivered(e) \/ RecordRow(e)
      PROVE  Delivery!Next
  <2>1. /\ \A f \in Events \ {e} : row'[f] = row[f]
        /\ row'[e].status # "none" /\ UNCHANGED accepted
    <3>1. CASE CreateDelivery(e)
      <4>1. row'[e].status = "PENDING"
        BY <1>1, <3>1 DEF CreateDelivery, NoRow
      <4> QED BY <1>1, <3>1, <4>1 DEF CreateDelivery
    <3>2. CASE Abandon(e)
      BY <1>1, <3>2 DEF Abandon, RowTypes
    <3>3. CASE MarkDelivered(e)
      BY <1>1, <3>3 DEF MarkDelivered, RowTypes
    <3>4. CASE RecordRow(e)
      BY <1>1, <3>4 DEF RecordRow, RowTypes
    <3> QED BY <1>3, <3>1, <3>2, <3>3, <3>4
  <2>2. Linked(e)
    BY DEF AllLinked
  <2>3. /\ Outcomes' = [Outcomes EXCEPT ![e] = Outcome(row'[e].status)]
        /\ Owed' = Owed \cup {e}
    BY <1>1, <2>1, OneOutcome
  <2>4. CASE CreateDelivery(e)
    <3>1. row[e].status = "none" /\ row'[e].status = "PENDING"
      BY <1>1, <2>2, <2>4 DEF CreateDelivery, NoRow, Linked
    <3>2. Outcomes' = Outcomes
      BY <2>3, <3>1 DEF Outcomes, Outcome, GivenUp
    <3>3. e \notin Owed
      BY <3>1 DEF Owed
    <3>4. Delivery!Owe(e)
      BY <2>1, <2>3, <3>2, <3>3 DEF Delivery!Owe, Owed, Outcomes, Outcome
    <3> QED BY <3>4 DEF Delivery!Next
  <2>5. CASE MarkDelivered(e)
    <3>1. row'[e].status = "DELIVERED" /\ e \in accepted /\ row[e].status # "none"
      BY <1>1, <2>2, <2>5 DEF MarkDelivered, At, Linked, RowTypes
    <3>2. Outcomes' = [Outcomes EXCEPT ![e] = "delivered"]
      BY <2>3, <3>1 DEF Outcome, GivenUp
    <3>3. Owed' = Owed
      BY <2>3, <3>1 DEF Owed
    <3>4. Delivery!Deliver(e)
      BY <2>1, <3>1, <3>2, <3>3 DEF Delivery!Deliver, Owed, Outcomes, Outcome
    <3> QED BY <3>4 DEF Delivery!Next
  <2>6. CASE Abandon(e) \/ RecordRow(e)
    <3>1. /\ row[e].status \notin {"none", "DELIVERED"}
          /\ row'[e].status \in {"RETRYING", "FAILED", "ABANDONED"}
      BY <1>1, <2>2, <2>6 DEF Abandon, RecordRow, At, Linked, RowTypes
    <3>2. Outcome(row'[e].status) \in {"given up", "open"}
      BY <3>1 DEF Outcome, GivenUp
    <3>3. Owed' = Owed /\ e \in Owed
      BY <2>3, <3>1 DEF Owed
    <3>4. Outcomes[e] # "delivered"
      BY <3>1 DEF Outcomes, Outcome, GivenUp
    <3>5. Delivery!Reconsider(e)
      BY <2>1, <2>3, <3>2, <3>3, <3>4 DEF Delivery!Reconsider, Owed, Outcomes, Outcome
    <3> QED BY <3>5 DEF Delivery!Next
  <2> QED BY <1>3, <2>4, <2>5, <2>6
<1>4. ASSUME NEW e \in Events, NEW answer \in Answers, Post(e, answer)
      PROVE  Delivery!Next \/ UNCHANGED Delivery!vars
  <2>1. UNCHANGED row /\ (accepted' = accepted \cup {e} \/ UNCHANGED accepted)
    BY <1>4 DEF Post
  <2>2. e \in Owed
    BY <1>4 DEF Post, At, AllLinked, Linked, Owed
  <2>3. CASE accepted' = accepted \cup {e}
    <3>1. Owed' = Owed /\ Outcomes' = Outcomes
      BY <2>1 DEF Owed, Outcomes
    <3>2. Delivery!Accept(e)
      BY <2>2, <2>3, <3>1 DEF Delivery!Accept, Owed, Outcomes, Outcome
    <3> QED BY <3>2 DEF Delivery!Next
  <2> QED BY <2>1, <2>3, Unseen
<1>5. ASSUME NEW e \in Events, NextAttemptFallsDue(e)
      PROVE  UNCHANGED Delivery!vars
  <2>1. UNCHANGED accepted /\ \A f \in Events : row'[f].status = row[f].status
    BY <1>1, <1>5 DEF NextAttemptFallsDue, RowTypes
  <2> QED BY <2>1, Unseen
<1>6. ASSUME NEW e \in Events,
             \/ FindEndpoint(e) \/ EnqueueDelivery(e) \/ StartJob(e)
             \/ AlreadyDelivered(e) \/ BeginAttempt(e) \/ RecordEndpoint(e)
             \/ BreakCircuit(e) \/ Requeue(e) \/ CallThrows(e) \/ WorkerDies(e)
             \/ EmitterDies(e) \/ ForgetJob(e) \/ requeueStalledDeliveries(e)
      PROVE  UNCHANGED <<row, accepted>>
  BY <1>6 DEF FindEndpoint, EnqueueDelivery, StartJob, AlreadyDelivered, BeginAttempt,
              RecordEndpoint, BreakCircuit, Requeue, CallThrows, WorkerDies, EmitterDies,
              ForgetJob, requeueStalledDeliveries
<1>7. CASE Reactivate \/ UNCHANGED vars
  BY <1>2, <1>7 DEF Reactivate, vars
<1> QED BY <1>2, <1>3, <1>4, <1>5, <1>6, <1>7 DEF Next, Emit, Attempt

\* The initial states are initial for the receiver.
LEMMA InitPromised == Init => Delivery!Init
  BY DEF Init, NoRow, Delivery!Init, GivenUp

\* Whatever the platform does, its rows show the receiver's events what
\* EventDelivery allows: owed once, delivered only when accepted and then for
\* good, given up or tried again otherwise.
THEOREM StepsAsPromised ==
  Spec => Delivery!Init /\ [][Delivery!Next]_(Delivery!vars)
<1>1. Init => RInv
  BY InitInv, InitLinked DEF RInv
<1> QED BY <1>1, InitPromised, NextLinked, StepPromised, PTL DEF Spec

----------------------------------------------------------------------------
(* The audit log.                                                          *)

Greatest(S, m) == m \in S /\ \A n \in S : n <= m
HasLast(S)     == S = {} \/ \E m \in S : Greatest(S, m)

\* Rows numbered by integers, of which any set has a last.
Numbered(rows) ==
  /\ DOMAIN rows \subseteq Int
  /\ \A S \in SUBSET DOMAIN rows : HasLast(S)

\* The greatest of a set of numbers is the member no other exceeds.
LEMMA MaxIs ==
  ASSUME NEW S \in SUBSET Int, NEW m, Greatest(S, m)
  PROVE  Max(S) = m
<1> DEFINE Top(x) == x \in S /\ \A y \in S : x >= y
<1>1. Top(m)
  BY DEF Greatest
<1>2. Top(CHOOSE x \in S : \A y \in S : x >= y)
  BY <1>1
<1>3. \A x : Top(x) => x = m
  BY DEF Greatest
<1> QED BY <1>2, <1>3 DEF Max

\* So it is a member.
LEMMA MaxMember ==
  ASSUME NEW S \in SUBSET Int, HasLast(S), S # {}
  PROVE  Greatest(S, Max(S))
<1>1. PICK m \in S : Greatest(S, m)
  BY DEF HasLast
<1> QED BY <1>1, MaxIs

\* A row put after all others leaves the others' predecessors what they were, and
\* comes after the last.
LEMMA Predecessors ==
  ASSUME NEW rows, Numbered(rows),
         NEW s \in Int, \A n \in DOMAIN rows : n < s, NEW r
  PROVE  /\ Numbered(WithRow(rows, s, r))
         /\ \A n \in DOMAIN rows :
              PreviousHash(WithRow(rows, s, r), n) = PreviousHash(rows, n)
         /\ PreviousHash(WithRow(rows, s, r), s) = TailHash(rows)
         /\ TailHash(WithRow(rows, s, r)) = r.hash
<1> DEFINE longer == WithRow(rows, s, r)
<1>0. DOMAIN rows \subseteq Int /\ s \notin DOMAIN rows
  BY DEF Numbered
<1>1. /\ DOMAIN longer = DOMAIN rows \cup {s}
      /\ longer[s] = r
      /\ \A n \in DOMAIN rows : longer[n] = rows[n]
  BY <1>0 DEF WithRow
<1>2. Before(longer, s) = DOMAIN rows
  BY <1>0, <1>1 DEF Before
<1>3. ASSUME NEW n \in DOMAIN rows PROVE Before(longer, n) = Before(rows, n)
  BY <1>0, <1>1 DEF Before
<1>4. Greatest(DOMAIN longer, s)
  BY <1>0, <1>1 DEF Greatest
<1> HIDE DEF longer
<1>5. Numbered(longer)
  <2>1. ASSUME NEW S \in SUBSET DOMAIN longer PROVE HasLast(S)
    <3>1. CASE s \in S
      BY <3>1, <1>4 DEF HasLast, Greatest
    <3>2. CASE s \notin S
      BY <3>2, <1>1 DEF Numbered
    <3> QED BY <3>1, <3>2
  <2> QED BY <1>0, <1>1, <2>1 DEF Numbered
<1>6. ASSUME NEW n \in DOMAIN rows PROVE PreviousHash(longer, n) = PreviousHash(rows, n)
  <2>1. CASE Before(rows, n) = {}
    BY <2>1, <1>3 DEF PreviousHash
  <2>2. CASE Before(rows, n) # {}
    <3>1. Before(rows, n) \subseteq DOMAIN rows
      BY DEF Before
    <3>2. Max(Before(rows, n)) \in DOMAIN rows
      <4>1. HasLast(Before(rows, n)) /\ Before(rows, n) \in SUBSET Int
        BY <3>1, <1>0 DEF Numbered
      <4> QED BY <2>2, <3>1, <4>1, MaxMember DEF Greatest
    <3> QED BY <2>2, <1>3, <1>1, <3>2 DEF PreviousHash
  <2> QED BY <2>1, <2>2
<1>7. PreviousHash(longer, s) = TailHash(rows)
  <2>1. CASE DOMAIN rows = {}
    BY <2>1, <1>2 DEF PreviousHash, TailHash
  <2>2. CASE DOMAIN rows # {}
    <3>1. Max(DOMAIN rows) \in DOMAIN rows
      BY <2>2, <1>0, MaxMember DEF Numbered, Greatest
    <3> QED BY <2>2, <3>1, <1>1, <1>2 DEF PreviousHash, TailHash
  <2> QED BY <2>1, <2>2
<1>8. TailHash(longer) = r.hash
  <2>1. Max(DOMAIN longer) = s
    BY <1>0, <1>1, <1>4, MaxIs
  <2> QED BY <2>1, <1>1 DEF TailHash
<1> QED BY <1>5, <1>6, <1>7, <1>8 DEF longer

\* If the row follows the last one, the chain verifies as it did.
LEMMA ChainExtended ==
  ASSUME NEW rows, Numbered(rows), verifyAuditChain(rows) = {},
         NEW s \in Int, \A n \in DOMAIN rows : n < s,
         NEW r, r.prevHash = TailHash(rows), r.hash = auditHash(r.prevHash, r.fact)
  PROVE  verifyAuditChain(WithRow(rows, s, r)) = {}
<1> DEFINE longer == WithRow(rows, s, r)
<1>1. /\ DOMAIN longer = DOMAIN rows \cup {s}
      /\ longer[s] = r
      /\ \A n \in DOMAIN rows : longer[n] = rows[n]
  BY DEF WithRow, Numbered
<1>2. /\ \A n \in DOMAIN rows : PreviousHash(longer, n) = PreviousHash(rows, n)
      /\ PreviousHash(longer, s) = TailHash(rows)
  BY Predecessors
<1>3. \A n \in DOMAIN rows : /\ rows[n].prevHash = PreviousHash(rows, n)
                             /\ rows[n].hash = auditHash(rows[n].prevHash, rows[n].fact)
  BY DEF verifyAuditChain
<1> HIDE DEF longer
<1>4. \A n \in DOMAIN longer : /\ longer[n].prevHash = PreviousHash(longer, n)
                               /\ longer[n].hash = auditHash(longer[n].prevHash, longer[n].fact)
  BY <1>1, <1>2, <1>3
<1> QED BY <1>4 DEF verifyAuditChain, longer

----------------------------------------------------------------------------
(* The inductive invariant.                                                *)

Rows == [prevHash : Seq(Facts), fact : Facts, hash : Seq(Facts)]

\* A hash covers more than the hashes of the rows before it, so no two are the same.
Growing(rows) ==
  \A m, n \in DOMAIN rows : m < n => Len(rows[m].hash) < Len(rows[n].hash)

\* A tenant's committed rows: those still there keep their hashes, the last one is
\* still there, and as committed they are one chain.
Sound(t) ==
  /\ Numbered(written[t])
  /\ DOMAIN log[t] \subseteq DOMAIN written[t]
  /\ \A s \in DOMAIN written[t] : s < nextSeq /\ written[t][s] \in Rows
  /\ \A s \in DOMAIN log[t] :
       /\ log[t][s] \in Rows
       /\ log[t][s].hash = written[t][s].hash
       /\ log[t][s].prevHash = written[t][s].prevHash
  /\ DOMAIN written[t] # {} =>
       \E m \in DOMAIN log[t] : Greatest(DOMAIN written[t], m)
  /\ verifyAuditChain(written[t]) = {}
  /\ Growing(written[t])

\* A transaction that has the lock has it alone, and from its reading of the tail
\* on, the tail is what it read.
Holding(w) ==
  LET tx == writers[w] IN
    /\ tx.tenant \in Tenants
    /\ tx.at # "inserted" => tx.fact \in Facts
    /\ lock[tx.tenant] = {w}
    /\ tx.at = "read" => tx.tail = TailHash(written[tx.tenant])
    /\ tx.at = "inserted" =>
         /\ tx.seq \in Int /\ tx.seq < nextSeq
         /\ \A s \in DOMAIN written[tx.tenant] : s < tx.seq
         /\ tx.row \in Rows
         /\ tx.row.prevHash = TailHash(written[tx.tenant])
         /\ tx.row.hash = auditHash(tx.row.prevHash, tx.row.fact)

Waiting(w) ==
  /\ writers[w].at = "waiting"
  /\ writers[w].tenant \in Tenants
  /\ writers[w].fact \in Facts

AuditInv ==
  /\ nextSeq \in Int
  /\ DOMAIN log = Tenants /\ DOMAIN written = Tenants /\ DOMAIN lock = Tenants
  /\ DOMAIN writers = Writers
  /\ \A t \in Tenants : Sound(t)
  /\ \A w \in Writers :
       \/ writers[w] = Idle
       \/ Waiting(w)
       \/ writers[w].at \in {"locked", "read", "inserted"} /\ Holding(w)

\* The tail a transaction reads is the last row committed.
LEMMA TailIsLast ==
  ASSUME NEW t \in Tenants, Sound(t)
  PROVE  TailHash(log[t]) = TailHash(written[t])
<1>0. DOMAIN log[t] \in SUBSET Int /\ DOMAIN written[t] \in SUBSET Int
  BY DEF Sound, Numbered
<1>1. CASE DOMAIN written[t] = {}
  BY <1>1 DEF Sound, TailHash
<1>2. CASE DOMAIN written[t] # {}
  <2>1. PICK m \in DOMAIN log[t] : Greatest(DOMAIN written[t], m)
    BY <1>2 DEF Sound
  <2>2. Greatest(DOMAIN log[t], m)
    BY <2>1 DEF Sound, Greatest
  <2>3. Max(DOMAIN log[t]) = m /\ Max(DOMAIN written[t]) = m
    BY <1>0, <2>1, <2>2, MaxIs
  <2> QED BY <1>2, <2>1, <2>3 DEF Sound, TailHash
<1> QED BY <1>1, <1>2

\* A chain's tail is a hash, no shorter than that of any row.
LEMMA TailLongest ==
  ASSUME NEW t \in Tenants, Sound(t)
  PROVE  /\ TailHash(written[t]) \in Seq(Facts)
         /\ \A n \in DOMAIN written[t] :
              Len(written[t][n].hash) <= Len(TailHash(written[t]))
<1>1. CASE DOMAIN written[t] = {}
  BY <1>1 DEF TailHash, Genesis
<1>2. CASE DOMAIN written[t] # {}
  <2> DEFINE m == Max(DOMAIN written[t])
  <2>1. Greatest(DOMAIN written[t], m)
    BY <1>2, MaxMember DEF Sound, Numbered
  <2>2. TailHash(written[t]) = written[t][m].hash
    BY <1>2 DEF TailHash
  <2>3. \A n \in DOMAIN written[t] : written[t][n].hash \in Seq(Facts)
    BY DEF Sound, Rows
  <2> HIDE DEF m
  <2>4. ASSUME NEW n \in DOMAIN written[t]
        PROVE  Len(written[t][n].hash) <= Len(written[t][m].hash)
    <3>1. n = m \/ n < m
      BY <2>1 DEF Greatest, Sound, Numbered
    <3>2. Len(written[t][n].hash) \in Int /\ Len(written[t][m].hash) \in Int
      BY <2>1, <2>3 DEF Greatest
    <3> QED BY <2>1, <3>1, <3>2 DEF Greatest, Sound, Growing
  <2> QED BY <2>1, <2>2, <2>3, <2>4 DEF Greatest
<1> QED BY <1>1, <1>2

LEMMA InitSound == AuditInit => AuditInv
<1> SUFFICES ASSUME AuditInit PROVE AuditInv
  OBVIOUS
<1>1. \A t \in Tenants : log[t] = <<>> /\ written[t] = <<>>
  BY DEF AuditInit
<1>2. DOMAIN <<>> = {} /\ \A S \in SUBSET DOMAIN <<>> : S = {}
  OBVIOUS
<1>3. \A t \in Tenants : Sound(t)
  BY <1>1, <1>2 DEF Sound, Numbered, HasLast, verifyAuditChain, Growing
<1> QED BY <1>3 DEF AuditInit, AuditInv

\* Steps of one transaction that commit nothing leave every chain as it was.
LEMMA BeginSound ==
  ASSUME AuditInv, NEW w \in Writers, NEW t \in Tenants, NEW fact \in Facts, Begin(w, t, fact)
  PROVE  AuditInv'
  BY DEF AuditInv, Begin, Sound, Holding, Waiting, Idle

LEMMA LockSound ==
  ASSUME AuditInv, NEW w \in Writers, Lock(w)
  PROVE  AuditInv'
<1>1. Waiting(w)
  BY DEF AuditInv, Lock, Idle, Holding
<1>2. \A t \in Tenants : Sound(t)'
  BY DEF AuditInv, Lock, Sound
<1>3. Holding(w)' /\ writers'[w].at = "locked"
  BY <1>1 DEF AuditInv, Lock, Holding, Waiting
<1>4. ASSUME NEW v \in Writers \ {w} PROVE writers'[v] = writers[v]
  BY DEF AuditInv, Lock
<1>5. ASSUME NEW v \in Writers \ {w}, Holding(v) PROVE Holding(v)'
  <2>1. writers[v].tenant # writers[w].tenant
    BY <1>5 DEF Lock, Holding
  <2>2. lock'[writers[v].tenant] = lock[writers[v].tenant]
    BY <1>5, <2>1 DEF AuditInv, Lock, Holding
  <2> QED BY <1>4, <1>5, <2>2 DEF Lock, Holding
<1> QED BY <1>2, <1>3, <1>4, <1>5 DEF AuditInv, Lock, Waiting

LEMMA ReadTailSound ==
  ASSUME AuditInv, NEW w \in Writers, ReadTail(w)
  PROVE  AuditInv'
<1>1. Holding(w)
  BY DEF AuditInv, ReadTail, Idle, Waiting
<1>2. TailHash(log[writers[w].tenant]) = TailHash(written[writers[w].tenant])
  BY <1>1, TailIsLast DEF AuditInv, Holding
<1>3. \A t \in Tenants : Sound(t)'
  BY DEF AuditInv, ReadTail, Sound
<1>4. Holding(w)' /\ writers'[w].at = "read"
  BY <1>1, <1>2 DEF AuditInv, ReadTail, Holding
<1>5. ASSUME NEW v \in Writers \ {w} PROVE writers'[v] = writers[v]
  BY DEF AuditInv, ReadTail
<1>6. ASSUME NEW v \in Writers \ {w}, Holding(v) PROVE Holding(v)'
  BY <1>5, <1>6 DEF AuditInv, ReadTail, Holding
<1> QED BY <1>3, <1>4, <1>5, <1>6 DEF AuditInv, ReadTail, Waiting

LEMMA InsertSound ==
  ASSUME AuditInv, NEW w \in Writers, Insert(w)
  PROVE  AuditInv'
<1>1. Holding(w) /\ writers[w].at = "read"
  BY DEF AuditInv, Insert, Idle, Waiting
<1> DEFINE entry == Row(writers[w].tail, writers[w].fact)
<1>2. entry \in Rows /\ entry.prevHash = writers[w].tail
      /\ entry.hash = auditHash(entry.prevHash, entry.fact)
  <2>1. writers[w].tail \in Seq(Facts) /\ writers[w].fact \in Facts
    BY <1>1, TailLongest DEF AuditInv, Holding
  <2> QED BY <2>1 DEF Row, Rows, auditHash
<1>3. \A t \in Tenants : Sound(t)'
  BY DEF AuditInv, Insert, Sound, Numbered
<1>4. Holding(w)'
  <2>1. /\ writers'[w].at = "inserted" /\ writers'[w].tenant = writers[w].tenant
        /\ writers'[w].seq = nextSeq /\ writers'[w].row = entry
    BY DEF AuditInv, Insert
  <2> HIDE DEF entry
  <2>2. \A n \in DOMAIN written[writers[w].tenant] : n < nextSeq
    BY <1>1 DEF AuditInv, Sound, Holding
  <2> QED BY <1>1, <1>2, <2>1, <2>2 DEF AuditInv, Insert, Holding
<1>5. ASSUME NEW v \in Writers \ {w} PROVE writers'[v] = writers[v]
  BY DEF AuditInv, Insert
<1>6. ASSUME NEW v \in Writers \ {w}, Holding(v) PROVE Holding(v)'
  BY <1>5, <1>6 DEF AuditInv, Insert, Holding
<1>7. writers'[w].at = "inserted"
  BY DEF AuditInv, Insert
<1> QED BY <1>3, <1>4, <1>5, <1>6, <1>7 DEF AuditInv, Insert, Waiting

LEMMA RollbackSound ==
  ASSUME AuditInv, NEW w \in Writers, Rollback(w)
  PROVE  AuditInv'
  BY DEF AuditInv, Rollback, Sound, Holding, Waiting, Idle

\* A commit adds a row after the last of its tenant's, and touches no other chain.
LEMMA CommitSound ==
  ASSUME AuditInv, NEW w \in Writers, Commit(w)
  PROVE  AuditInv'
<1>1. Holding(w) /\ writers[w].at = "inserted"
  BY DEF AuditInv, Commit, Idle, Waiting, Holding
<1> PICK T \in Tenants, s \in Int, r \in Rows :
      T = writers[w].tenant /\ s = writers[w].seq /\ r = writers[w].row
  BY <1>1 DEF Holding
<1>2. Sound(T)
  BY <1>1 DEF AuditInv
<1>3. /\ s \in Int /\ s < nextSeq
      /\ \A n \in DOMAIN written[T] : n < s
      /\ \A n \in DOMAIN log[T] : n < s
      /\ r \in Rows /\ r.prevHash = TailHash(written[T])
      /\ r.hash = auditHash(r.prevHash, r.fact)
  BY <1>1, <1>2 DEF Holding, Sound
<1>4. /\ log'[T] = WithRow(log[T], s, r)
      /\ written'[T] = WithRow(written[T], s, r)
      /\ nextSeq' = nextSeq
  BY <1>1 DEF AuditInv, Commit
<1>5. Sound(T)'
  <2>1. Numbered(written'[T])
    BY <1>2, <1>3, <1>4, Predecessors DEF Sound
  <2>2. verifyAuditChain(written'[T]) = {}
    BY <1>2, <1>3, <1>4, ChainExtended DEF Sound
  <2>3. /\ DOMAIN log'[T] = DOMAIN log[T] \cup {s}
        /\ DOMAIN written'[T] = DOMAIN written[T] \cup {s}
        /\ log'[T][s] = r /\ written'[T][s] = r
        /\ \A n \in DOMAIN log[T] : log'[T][n] = log[T][n]
        /\ \A n \in DOMAIN written[T] : written'[T][n] = written[T][n]
    BY <1>3, <1>4 DEF WithRow
  <2>4. s \in DOMAIN log'[T] /\ Greatest(DOMAIN written'[T], s)
    BY <1>2, <1>3, <2>3 DEF Greatest, Sound, Numbered
  <2>5. \A n \in DOMAIN log'[T] : /\ log'[T][n] \in Rows
                                 /\ log'[T][n].hash = written'[T][n].hash
                                 /\ log'[T][n].prevHash = written'[T][n].prevHash
    BY <1>2, <1>3, <2>3 DEF Sound
  <2>6. /\ DOMAIN log'[T] \subseteq DOMAIN written'[T]
        /\ \A n \in DOMAIN written'[T] : n < nextSeq' /\ written'[T][n] \in Rows
    BY <1>2, <1>3, <1>4, <2>3 DEF Sound
  <2>7. Growing(written'[T])
    <3>1. r.prevHash \in Seq(Facts) /\ r.fact \in Facts
      BY <1>3 DEF Rows
    <3>2. Len(r.hash) = Len(TailHash(written[T])) + 1
      BY <1>3, <3>1 DEF auditHash
    <3>3. ASSUME NEW n \in DOMAIN written[T] PROVE Len(written[T][n].hash) < Len(r.hash)
      <4>1. Len(written[T][n].hash) \in Int /\ Len(r.prevHash) \in Int
        BY <1>2, <3>1 DEF Sound, Rows
      <4>2. Len(written[T][n].hash) <= Len(r.prevHash)
        BY <1>2, <1>3, TailLongest
      <4> QED BY <1>3, <3>2, <4>1, <4>2
    <3>4. \A n \in DOMAIN written[T] : ~(s < n)
      BY <1>2, <1>3 DEF Sound, Numbered
    <3>5. ~(s < s)
      BY <1>3
    <3> QED BY <1>2, <2>3, <3>3, <3>4, <3>5 DEF Sound, Growing
  <2> QED BY <2>1, <2>2, <2>4, <2>5, <2>6, <2>7 DEF Sound
<1>6. ASSUME NEW t \in Tenants \ {T}
      PROVE  log'[t] = log[t] /\ written'[t] = written[t] /\ lock'[t] = lock[t]
  BY DEF AuditInv, Commit
<1>7. ASSUME NEW t \in Tenants \ {T} PROVE Sound(t)'
  BY <1>4, <1>6 DEF AuditInv, Sound
<1>8. ASSUME NEW v \in Writers \ {w} PROVE writers'[v] = writers[v]
  BY DEF AuditInv, Commit
<1>9. ASSUME NEW v \in Writers \ {w}, Holding(v) PROVE Holding(v)'
  <2>1. writers[v].tenant \in Tenants \ {T}
    BY <1>1, <1>9 DEF Holding
  <2> QED BY <1>4, <1>6, <1>8, <1>9, <2>1 DEF Holding
<1>10. writers'[w] = Idle
  BY DEF AuditInv, Commit
<1>11. /\ nextSeq' \in Int /\ DOMAIN log' = Tenants /\ DOMAIN written' = Tenants
       /\ DOMAIN lock' = Tenants /\ DOMAIN writers' = Writers
  BY DEF AuditInv, Commit
<1> QED BY <1>5, <1>7, <1>8, <1>9, <1>10, <1>11 DEF AuditInv, Waiting

\* Editing a row leaves its hash, and deleting one leaves the last: neither changes
\* the tail that transactions follow, nor what was committed.
LEMMA EditSound ==
  ASSUME AuditInv, NEW t \in Tenants, NEW s, NEW fact \in Facts, Edit(t, s, fact)
  PROVE  AuditInv'
<1>1. /\ DOMAIN log'[t] = DOMAIN log[t]
      /\ \A u \in Tenants \ {t} : log'[u] = log[u]
  BY DEF AuditInv, Edit
<1>2. ASSUME NEW n \in DOMAIN log[t]
      PROVE  /\ log'[t][n] \in Rows
             /\ log'[t][n].hash = log[t][n].hash
             /\ log'[t][n].prevHash = log[t][n].prevHash
  <2>1. log[t][n] \in Rows
    BY DEF AuditInv, Sound
  <2>2. log'[t][n] = IF n = s THEN [log[t][n] EXCEPT !.fact = fact] ELSE log[t][n]
    BY DEF AuditInv, Edit
  <2> QED BY <2>1, <2>2 DEF Rows
<1>3. Sound(t)'
  BY <1>1, <1>2 DEF AuditInv, Edit, Sound
<1>4. ASSUME NEW u \in Tenants \ {t} PROVE Sound(u)'
  BY <1>1 DEF AuditInv, Edit, Sound
<1> QED BY <1>3, <1>4 DEF AuditInv, Edit, Holding, Waiting

LEMMA RemoveSound ==
  ASSUME AuditInv, NEW t \in Tenants, NEW s, DeleteRow(t, s)
  PROVE  AuditInv'
<1>1. /\ DOMAIN log'[t] = DOMAIN log[t] \ {s}
      /\ \A n \in DOMAIN log[t] \ {s} : log'[t][n] = log[t][n]
      /\ \A u \in Tenants \ {t} : log'[u] = log[u]
  BY DEF AuditInv, DeleteRow, WithoutRow
<1>2. Sound(t)'
  <2>1. ASSUME DOMAIN written[t] # {}
        PROVE  \E m \in DOMAIN log'[t] : Greatest(DOMAIN written[t], m)
    <3>1. PICK m \in DOMAIN log[t] : Greatest(DOMAIN written[t], m)
      BY <2>1 DEF AuditInv, Sound
    <3>2. PICK n \in DOMAIN log[t] : n > s
      BY DEF DeleteRow
    <3>3. s \in DOMAIN written[t] /\ n \in DOMAIN written[t]
      BY <3>2 DEF AuditInv, Sound, DeleteRow
    <3>4. m # s
      BY <3>1, <3>2, <3>3 DEF Greatest, AuditInv, Sound, Numbered
    <3> QED BY <1>1, <3>1, <3>4
  <2> QED BY <1>1, <2>1 DEF AuditInv, Sound, DeleteRow
<1>3. ASSUME NEW u \in Tenants \ {t} PROVE Sound(u)'
  BY <1>1 DEF AuditInv, Sound, DeleteRow
<1> QED BY <1>2, <1>3 DEF AuditInv, DeleteRow, Holding, Waiting

LEMMA StepSound == AuditInv /\ [AuditNext]_auditVars => AuditInv'
<1> SUFFICES ASSUME AuditInv, [AuditNext]_auditVars PROVE AuditInv'
  OBVIOUS
<1>1. ASSUME NEW w \in Writers, Transact(w) PROVE AuditInv'
  BY <1>1, BeginSound, LockSound, ReadTailSound, InsertSound, CommitSound, RollbackSound
  DEF Transact
<1>2. CASE Tamper
  BY <1>2, EditSound, RemoveSound DEF Tamper
<1>3. CASE UNCHANGED auditVars
  BY <1>3 DEF auditVars, AuditInv, Sound, Holding, Waiting
<1> QED BY <1>1, <1>2, <1>3 DEF AuditNext

THEOREM AuditInvariant == AuditSpec => []AuditInv
  BY InitSound, StepSound, PTL DEF AuditSpec

\* What the log's transactions commit verifies, for any number of tenants, writers
\* and entries, whatever rolls back between and whatever is done to committed rows:
\* appendAuditEntry never forks a tenant's chain.
THEOREM HonestChainHolds == AuditSpec => []HonestChain
<1>1. AuditInv => HonestChain
  BY DEF AuditInv, Sound, HonestChain
<1> QED BY <1>1, AuditInvariant, PTL

----------------------------------------------------------------------------
(* What the verification finds.                                            *)

\* No two rows of a chain have the same hash, and none has the one a chain begins
\* with.
LEMMA HashesDiffer ==
  ASSUME NEW t \in Tenants, Sound(t), NEW m \in DOMAIN written[t]
  PROVE  /\ written[t][m].hash # Genesis
         /\ \A n \in DOMAIN written[t] :
              written[t][n].hash = written[t][m].hash => n = m
<1>1. written[t][m].hash # Genesis
  <2>1. /\ written[t][m].prevHash \in Seq(Facts) /\ written[t][m].fact \in Facts
        /\ written[t][m].hash = auditHash(written[t][m].prevHash, written[t][m].fact)
    BY DEF Sound, Rows, verifyAuditChain
  <2>2. Len(written[t][m].hash) = Len(written[t][m].prevHash) + 1
    BY <2>1 DEF auditHash
  <2>3. Len(written[t][m].prevHash) \in Nat
    BY <2>1
  <2>4. Len(Genesis) = 0
    BY DEF Genesis
  <2> QED BY <2>2, <2>3, <2>4
<1>2. ASSUME NEW n \in DOMAIN written[t], written[t][n].hash = written[t][m].hash, n # m
      PROVE  FALSE
  <2>1. Len(written[t][m].hash) \in Int /\ (n < m \/ m < n)
    BY <1>2 DEF Sound, Numbered, Rows
  <2> QED BY <1>2, <2>1 DEF Sound, Growing
<1> QED BY <1>1, <1>2

\* A row's content is reported when, and only when, it is not what was committed.
LEMMA ContentReported ==
  ASSUME NEW t \in Tenants, Sound(t), NEW s \in DOMAIN log[t]
  PROVE  log[t][s].hash # auditHash(log[t][s].prevHash, log[t][s].fact)
           <=> log[t][s] # written[t][s]
<1> DEFINE entry == log[t][s]
           was == written[t][s]
<1>1. /\ entry \in Rows /\ was \in Rows
      /\ entry.hash = was.hash /\ entry.prevHash = was.prevHash
      /\ was.hash = auditHash(was.prevHash, was.fact)
  BY DEF Sound, verifyAuditChain
<1> HIDE DEF entry, was
<1>2. entry = was <=> entry.fact = was.fact
  BY <1>1 DEF Rows
<1>3. auditHash(was.prevHash, entry.fact) = auditHash(was.prevHash, was.fact)
        <=> entry.fact = was.fact
  <2>1. was.prevHash \in Seq(Facts) /\ was.fact \in Facts /\ entry.fact \in Facts
    BY <1>1 DEF Rows
  <2>2. /\ auditHash(was.prevHash, entry.fact)[Len(was.prevHash) + 1] = entry.fact
        /\ auditHash(was.prevHash, was.fact)[Len(was.prevHash) + 1] = was.fact
    BY <2>1 DEF auditHash
  <2> QED BY <2>2
<1> QED BY <1>1, <1>2, <1>3 DEF entry, was

\* The chain before a row is reported broken when, and only when, the row that was
\* committed before it has been deleted.
LEMMA LinkReported ==
  ASSUME NEW t \in Tenants, Sound(t), NEW s \in DOMAIN log[t]
  PROVE  log[t][s].prevHash # PreviousHash(log[t], s) <=> Missing(t, s)
<1> DEFINE L == Before(log[t], s)
           W == Before(written[t], s)
<1>1. /\ log[t][s].prevHash = PreviousHash(written[t], s)
      /\ W \in SUBSET DOMAIN written[t] /\ W \in SUBSET Int
      /\ L = W \cap DOMAIN log[t]
  BY DEF Sound, verifyAuditChain, Before, Numbered
<1>2. Missing(t, s) <=> \E n \in W \ DOMAIN log[t] : ~ \E m \in L : m > n
  BY DEF Missing, Before
<1>3. PreviousHash(log[t], s) = IF L = {} THEN Genesis ELSE log[t][Max(L)].hash
  BY DEF PreviousHash
<1>4. PreviousHash(written[t], s) = IF W = {} THEN Genesis ELSE written[t][Max(W)].hash
  BY DEF PreviousHash
<1> HIDE DEF L, W
<1>5. CASE W = {}
  BY <1>5, <1>1, <1>2, <1>3, <1>4
<1>6. CASE W # {}
  <2> DEFINE p == Max(W)
  <2>1. Greatest(W, p)
    BY <1>6, <1>1, MaxMember DEF Sound, Numbered
  <2> HIDE DEF p
  <2>2. CASE p \in DOMAIN log[t]
    <3>1. Greatest(L, p)
      BY <2>1, <2>2, <1>1 DEF Greatest
    <3>2. Max(L) = p
      BY <3>1, <1>1, MaxIs
    <3>3. PreviousHash(log[t], s) = PreviousHash(written[t], s)
      BY <3>1, <3>2, <2>2, <1>3, <1>4, <1>6 DEF Greatest, Sound, p
    <3>4. ASSUME NEW n \in W \ DOMAIN log[t] PROVE \E m \in L : m > n
      BY <3>1, <2>1, <2>2, <1>1 DEF Greatest
    <3> QED BY <3>3, <3>4, <1>1, <1>2
  <2>3. CASE p \notin DOMAIN log[t]
    <3>1. Missing(t, s)
      BY <2>1, <2>3, <1>1, <1>2 DEF Greatest
    <3>2. p \in DOMAIN written[t] /\ PreviousHash(written[t], s) = written[t][p].hash
      BY <2>1, <1>1, <1>4, <1>6 DEF Greatest, p
    <3>3. CASE L = {}
      BY <3>1, <3>2, <3>3, <1>1, <1>3, HashesDiffer
    <3>4. CASE L # {}
      <4> DEFINE q == Max(L)
      <4>1. Greatest(L, q)
        BY <3>4, <1>1, MaxMember DEF Sound, Numbered
      <4> HIDE DEF q
      <4>2. q \in DOMAIN log[t] /\ q \in DOMAIN written[t] /\ q # p
        BY <4>1, <1>1, <2>3 DEF Greatest
      <4>3. PreviousHash(log[t], s) = written[t][q].hash
        BY <3>4, <4>2, <1>3 DEF Sound, q
      <4> QED BY <3>1, <3>2, <4>2, <4>3, <1>1, HashesDiffer
    <3> QED BY <3>3, <3>4
  <2> QED BY <2>2, <2>3
<1> QED BY <1>5, <1>6

\* verifyAuditChain points at every edited row and at every row after a deleted one,
\* and at no other, however many rows have been touched and appended since, while
\* the last row is still there.
THEOREM TamperingLocated == AuditSpec => []TamperingIsLocated
<1>1. ASSUME AuditInv, NEW t \in Tenants
      PROVE  verifyAuditChain(log[t]) = Edited(t) \cup {s \in DOMAIN log[t] : Missing(t, s)}
  <2>1. Sound(t)
    BY <1>1 DEF AuditInv
  <2> QED BY <2>1, ContentReported, LinkReported DEF verifyAuditChain, Edited
<1>2. AuditInv => TamperingIsLocated
  BY <1>1 DEF TamperingIsLocated
<1> QED BY <1>2, AuditInvariant, PTL
=============================================================================
