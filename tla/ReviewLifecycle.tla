-------------------------- MODULE ReviewLifecycle --------------------------
(***************************************************************************)
(* One applicant's review status and everybody who writes it:              *)
(*                                                                         *)
(*   - the verification job, run by a worker off a BullMQ queue            *)
(*     (worker/src/queues.ts, worker/src/pipeline.ts, finalize);           *)
(*   - the API handlers: submit and reset (api/src/routes/applicants.ts),  *)
(*     the reviewers' decision and the case endpoints                      *)
(*     (api/src/routes/decisions.ts);                                      *)
(*   - the support agent's request_resubmission (agent/src/tools.ts);      *)
(*   - ongoing monitoring and the periodic review sweep                    *)
(*     (worker/src/screening.ts, worker/src/index.ts).                     *)
(*                                                                         *)
(* A handler reads the applicant, decides, and writes later: each database *)
(* call it awaits is one action, and another writer may act in between.    *)
(* What the evidence says is abstract here: a run reaches any verdict. The *)
(* module Evidence models how documents and checks make the verdict.       *)
(***************************************************************************)
EXTENDS ReviewStateMachine, Naturals

CONSTANTS
  Reviewers,      \* users with role AGENT or above
  Senior,         \* the reviewers with a role of compliance officer or above
  MaxAttempts,    \* defaultJobOptions.attempts
  MaxStalls,      \* BullMQ's maxStalledCount
  ReverifyAfter,  \* level.reverifyAfterDays > 0
  Budgets         \* the mixes of requests the environment may make: how many of
                  \* each kind, how many job ids it forgets, requests it kills

\* The job id is verify-<applicant>-<trigger>: one job per trigger at most.
JobTriggers == {"SUBMITTED", "RESUBMITTED", "PERIODIC_REVIEW"}

\* Every process that serves a request, one at a time, beside the reviewers.
Services == {"applicant", "admin", "agent", "screening", "sweep"}
Handlers == Reviewers \cup Services

Kinds == {"submit", "decision", "reset", "agent", "screening", "sweep",
          "sar", "assign", "retention", "crash"}

ASSUME ReviewersAssumption ==
  /\ Senior \subseteq Reviewers
  /\ Reviewers \cap (Services \cup JobTriggers) = {}
ASSUME LimitsAssumption ==
  /\ MaxAttempts \in Nat \ {0}
  /\ MaxStalls \in Nat
  /\ ReverifyAfter \in BOOLEAN
  /\ Budgets \subseteq [Kinds -> Nat]

VARIABLES
  reviewStatus, status,   \* the two status columns of the applicant row
  reviewDue,              \* nextReviewAt: "none", "scheduled" or "due"
  monitored,              \* monitoringSubscription.isActive
  lastEvent,              \* the newest ApplicantStatusEvent row
  standing,               \* history of the newest status write, see below
  openCases, closedCases, \* MANUAL_REVIEW cases in and out of the queue
  jobs, run,              \* the verification queue, and its workers' locals
  req,                    \* the requests being served, and their locals
  budget                  \* what is left of the mix

row   == <<reviewStatus, status, lastEvent, standing>>
cases == <<openCases, closedCases>>
vars  == <<reviewStatus, status, reviewDue, monitored, lastEvent, standing,
           openCases, closedCases, jobs, run, req, budget>>

----------------------------------------------------------------------------
JobStates == {"none", "waiting", "active", "completed", "failed"}
RunPcs == {"none", "facts", "commit", "review", "audit", "monitoring", "case",
           "create", "emit"}
ReqPcs == {"idle", "commit", "enqueue", "audit", "search", "push"}
Decisions == {"APPROVED", "REJECTED_RETRY", "REJECTED_FINAL", "ON_HOLD"}
Verdicts  == {"QUEUED", "APPROVED", "REJECTED_RETRY", "REJECTED_FINAL"}
DecisionRoles == {"AGENT", "COMPLIANCE_OFFICER"}
Writers == Reviewers \cup Services \cup JobTriggers

\* The steps of a run that follow the transaction of finalize.
AfterCommit == {"review", "audit", "monitoring", "case", "create", "emit"}

NoJob == [state |-> "none", attempts |-> 0, stalls |-> 0]
NoRun == [pc |-> "none", from |-> "NOT_STARTED", to |-> "NOT_STARTED"]
NoReq == [pc |-> "idle", from |-> "NOT_STARTED", trigger |-> "RESET_BY_ADMIN"]

TypeOK ==
  /\ reviewStatus \in ReviewStatuses
  /\ status \in ApplicantStatuses
  /\ reviewDue \in {"none", "scheduled", "due"}
  /\ monitored \in BOOLEAN
  /\ lastEvent \in [from : ReviewStatuses, to : ReviewStatuses,
                    actor : ActorTypes, writer : Writers]
  /\ standing \in [reviewed : BOOLEAN, audited : BOOLEAN,
                   interrupted : BOOLEAN, sarFiled : BOOLEAN]
  /\ openCases \in Nat
  /\ closedCases \in Nat
  /\ jobs \in [JobTriggers -> [state : JobStates, attempts : 0 .. MaxAttempts,
                               stalls : 0 .. MaxStalls]]
  /\ run \in [JobTriggers -> [pc : RunPcs, from : ReviewStatuses,
                              to : ReviewStatuses]]
  /\ req \in [Handlers -> [pc : ReqPcs, from : ReviewStatuses,
                           trigger : Triggers]]
  /\ budget \in [Kinds -> Nat]

Init ==
  /\ reviewStatus = "NOT_STARTED"
  /\ status = "INIT"
  /\ reviewDue = "none"
  /\ monitored = FALSE
  /\ lastEvent = [from |-> "NOT_STARTED", to |-> "NOT_STARTED",
                  actor |-> "API", writer |-> "applicant"]
  /\ standing = [reviewed |-> FALSE, audited |-> FALSE,
                 interrupted |-> FALSE, sarFiled |-> FALSE]
  /\ openCases = 0
  /\ closedCases = 0
  /\ jobs = [t \in JobTriggers |-> NoJob]
  /\ run = [t \in JobTriggers |-> NoRun]
  /\ req = [h \in Handlers |-> NoReq]
  /\ budget \in Budgets

----------------------------------------------------------------------------
(* Writing the row. The status columns and the timeline entry go in one    *)
(* transaction everywhere. `standing` is a history variable: whether the   *)
(* newest write has its Review row and its audit entry, whether the run    *)
(* that made it was interrupted before its remaining steps, and whether a  *)
(* SAR has since closed a review case.                                     *)

WriteStatus(to, applicantStatus, from, actor, writer, reviewed) ==
  /\ reviewStatus' = to
  /\ status' = applicantStatus
  /\ lastEvent' = [from |-> from, to |-> to, actor |-> actor,
                   writer |-> writer]
  /\ standing' = [reviewed |-> reviewed, audited |-> FALSE,
                  interrupted |-> FALSE, sarFiled |-> FALSE]

Spend(kind) ==
  /\ budget[kind] > 0
  /\ budget' = [budget EXCEPT ![kind] = @ - 1]

Goto(h, pc) == req' = [req EXCEPT ![h].pc = pc]
Finish(h)   == req' = [req EXCEPT ![h] = NoReq]

Begin(h, pc, trigger) ==
  /\ req[h].pc = "idle"
  /\ req' = [req EXCEPT ![h] = [pc |-> pc, from |-> reviewStatus,
                                trigger |-> trigger]]

\* BullMQ ignores an add whose job id is still known, whatever its state.
EnqueueVerification(t) ==
  jobs' = IF jobs[t].state = "none"
          THEN [jobs EXCEPT ![t] = [NoJob EXCEPT !.state = "waiting"]]
          ELSE jobs

\* An approval schedules the next review when the level asks for one.
ScheduleReview(to) ==
  reviewDue' = IF ReverifyAfter /\ to = "APPROVED" THEN "scheduled"
                                                   ELSE reviewDue

----------------------------------------------------------------------------
(* POST /v1/applicants/:id/submit                                          *)

SubmitRead ==
  LET trigger == IF reviewStatus = "REJECTED_RETRY"
                 THEN "APPLICANT_RESUBMITTED" ELSE "APPLICANT_SUBMITTED"
  IN /\ canTransition(reviewStatus, trigger, "APPLICANT", NoRole)
     /\ Begin("applicant", "commit", trigger)
     /\ Spend("submit")
     /\ UNCHANGED <<row, reviewDue, monitored, cases, jobs, run>>

SubmitCommit ==
  LET r == req["applicant"] IN
    /\ r.pc = "commit"
    /\ WriteStatus(Target(r.trigger),
                   applicantStatusFor(Target(r.trigger), r.trigger),
                   r.from, "APPLICANT", "applicant", FALSE)
    /\ Goto("applicant", "enqueue")
    /\ UNCHANGED <<reviewDue, monitored, cases, jobs, run, budget>>

SubmitEnqueue ==
  LET r == req["applicant"] IN
    /\ r.pc = "enqueue"
    /\ EnqueueVerification(IF r.from = "REJECTED_RETRY" THEN "RESUBMITTED"
                                                        ELSE "SUBMITTED")
    /\ Finish("applicant")
    /\ UNCHANGED <<row, reviewDue, monitored, cases, run, budget>>

----------------------------------------------------------------------------
(* POST /v1/applicants/:id/decision                                        *)

TriggerOf(decision) ==
  CASE decision = "APPROVED"       -> "REVIEWER_APPROVED"
    [] decision = "REJECTED_FINAL" -> "REVIEWER_REJECTED_FINAL"
    [] decision = "ON_HOLD"        -> "PUT_ON_HOLD"
    [] OTHER                       -> "REVIEWER_REJECTED_RETRY"

RoleOf(r) == IF r \in Senior THEN "COMPLIANCE_OFFICER" ELSE "AGENT"

\* A final rejection, and any change to a terminal decision, need seniority.
MayDecide(r, decision) ==
  decision = "REJECTED_FINAL" \/ isTerminal(reviewStatus) => r \in Senior

\* Mutant: the handler checks seniority and not the transition table.
DecisionReadUnchecked(r, decision) ==
  /\ MayDecide(r, decision)
  /\ Begin(r, "commit", TriggerOf(decision))
  /\ Spend("decision")
  /\ UNCHANGED <<row, reviewDue, monitored, cases, jobs, run>>

DecisionRead(r, decision) ==
  /\ MayDecide(r, decision)
  /\ canTransition(reviewStatus, TriggerOf(decision), "USER", RoleOf(r))
  /\ Begin(r, "commit", TriggerOf(decision))
  /\ Spend("decision")
  /\ UNCHANGED <<row, reviewDue, monitored, cases, jobs, run>>

\* Status, Review row and timeline in one transaction, which also resolves
\* every open MANUAL_REVIEW case, whatever the decision.
DecisionCommit(r) ==
  LET q == req[r] IN
    /\ q.pc = "commit"
    /\ WriteStatus(Target(q.trigger),
                   applicantStatusFor(Target(q.trigger), q.trigger),
                   q.from, "USER", r, TRUE)
    /\ ScheduleReview(Target(q.trigger))
    /\ openCases' = 0
    /\ closedCases' = closedCases + openCases
    /\ req' = [req EXCEPT ![r] = [NoReq EXCEPT !.pc = "audit"]]
    /\ UNCHANGED <<monitored, jobs, run, budget>>

\* The audit entry of writer w: it covers the standing write if w made it.
Audited(w) == [standing EXCEPT !.audited = @ \/ lastEvent.writer = w]

DecisionAudit(r) ==
  /\ req[r].pc = "audit"
  /\ standing' = Audited(r)
  /\ Finish(r)
  /\ UNCHANGED <<reviewStatus, status, lastEvent, reviewDue, monitored, cases,
                 jobs, run, budget>>

----------------------------------------------------------------------------
(* POST /v1/applicants/:id/reset                                           *)

ResetRead ==
  /\ canTransition(reviewStatus, "RESET_BY_ADMIN", "USER", "ADMIN")
  /\ Begin("admin", "commit", "RESET_BY_ADMIN")
  /\ Spend("reset")
  /\ UNCHANGED <<row, reviewDue, monitored, cases, jobs, run>>

ResetCommit ==
  /\ req["admin"].pc = "commit"
  /\ WriteStatus(Target("RESET_BY_ADMIN"), "INIT", req["admin"].from, "USER",
                 "admin", FALSE)
  /\ Finish("admin")
  /\ UNCHANGED <<reviewDue, monitored, cases, jobs, run, budget>>

----------------------------------------------------------------------------
(* The support agent's tool request_resubmission.                          *)

\* Mutant: the tool spares an approved applicant only.
AgentReadAnyRejected ==
  /\ reviewStatus # "APPROVED"
  /\ Begin("agent", "commit", "REVIEWER_REJECTED_RETRY")
  /\ Spend("agent")
  /\ UNCHANGED <<row, reviewDue, monitored, cases, jobs, run>>

AgentRead ==
  /\ reviewStatus \notin {"REJECTED_FINAL", "APPROVED"}
  /\ Begin("agent", "commit", "REVIEWER_REJECTED_RETRY")
  /\ Spend("agent")
  /\ UNCHANGED <<row, reviewDue, monitored, cases, jobs, run>>

AgentCommit ==
  /\ req["agent"].pc = "commit"
  /\ WriteStatus("REJECTED_RETRY", "AWAITING_USER", req["agent"].from,
                 "AI_AGENT", "agent", FALSE)
  /\ Finish("agent")
  /\ UNCHANGED <<reviewDue, monitored, cases, jobs, run, budget>>

----------------------------------------------------------------------------
(* Ongoing monitoring: the sweep queues a screening of a subscribed        *)
(* applicant, and a new hit on an approved one freezes them.               *)

\* No relationship is left to monitor once the applicant is finally rejected.
SweepUnsubscribes ==
  /\ monitored
  /\ reviewStatus = "REJECTED_FINAL"
  /\ monitored' = FALSE
  /\ UNCHANGED <<row, reviewDue, cases, jobs, run, req, budget>>

SweepScreens ==
  /\ monitored
  /\ reviewStatus # "REJECTED_FINAL"
  /\ Begin("screening", "search", "MONITORING_HIT")
  /\ Spend("screening")
  /\ UNCHANGED <<row, reviewDue, monitored, cases, jobs, run>>

ScreeningClear ==
  /\ req["screening"].pc = "search"
  /\ Finish("screening")
  /\ UNCHANGED <<row, reviewDue, monitored, cases, jobs, run, budget>>

\* handleMonitoringHit reads the status and freezes only an approved customer.
ScreeningHit ==
  /\ req["screening"].pc = "search"
  /\ IF reviewStatus = "APPROVED" THEN Goto("screening", "commit")
                                  ELSE Finish("screening")
  /\ UNCHANGED <<row, reviewDue, monitored, cases, jobs, run, budget>>

FreezeCommit ==
  /\ req["screening"].pc = "commit"
  /\ WriteStatus("ON_HOLD", "ON_HOLD", "APPROVED", "SCHEDULER", "screening",
                 FALSE)
  /\ Finish("screening")
  /\ UNCHANGED <<reviewDue, monitored, cases, jobs, run, budget>>

----------------------------------------------------------------------------
(* The periodic review sweep: enqueue the run, then push the next date.    *)

ReviewFallsDue ==
  /\ reviewDue = "scheduled"
  /\ reviewDue' = "due"
  /\ UNCHANGED <<row, monitored, cases, jobs, run, req, budget>>

PeriodicSweep ==
  /\ reviewStatus = "APPROVED"
  /\ reviewDue = "due"
  /\ EnqueueVerification("PERIODIC_REVIEW")
  /\ Begin("sweep", "push", "PERIODIC_REVIEW_DUE")
  /\ Spend("sweep")
  /\ UNCHANGED <<row, reviewDue, monitored, cases, run>>

PushNextReview ==
  /\ req["sweep"].pc = "push"
  /\ reviewDue' = "scheduled"
  /\ Finish("sweep")
  /\ UNCHANGED <<row, monitored, cases, jobs, run, budget>>

----------------------------------------------------------------------------
(* The case endpoints that take a review case out of, or into, the queue.  *)

\* Filing a SAR resolves the case it is filed from.
FileSar ==
  /\ openCases > 0
  /\ openCases' = openCases - 1
  /\ closedCases' = closedCases + 1
  /\ standing' = [standing EXCEPT !.sarFiled = TRUE]
  /\ Spend("sar")
  /\ UNCHANGED <<reviewStatus, status, lastEvent, reviewDue, monitored, jobs,
                 run, req>>

\* Assigning sets ASSIGNED whatever the status was: a closed case comes back.
AssignClosedCase ==
  /\ closedCases > 0
  /\ closedCases' = closedCases - 1
  /\ openCases' = openCases + 1
  /\ Spend("assign")
  /\ UNCHANGED <<row, reviewDue, monitored, jobs, run, req>>

----------------------------------------------------------------------------
(* The verification run of job t.                                          *)

At(t, pc) == jobs[t].state = "active" /\ run[t].pc = pc
Move(t, pc) == run' = [run EXCEPT ![t].pc = pc]

\* The applicant is marked PROCESSING; reviewStatus is neither read nor set.
StartRun(t) ==
  /\ jobs[t].state = "waiting"
  /\ jobs' = [jobs EXCEPT ![t].state = "active"]
  /\ Move(t, "facts")
  /\ status' = "PROCESSING"
  /\ UNCHANGED <<reviewStatus, lastEvent, standing, reviewDue, monitored,
                 cases, req, budget>>

\* finalize reads the applicant, the checks and the rules, and decides.
AssembleFacts(t, verdict) ==
  /\ At(t, "facts")
  /\ run' = [run EXCEPT ![t] = [pc |-> "commit", from |-> reviewStatus,
                                to |-> verdict]]
  /\ UNCHANGED <<row, reviewDue, monitored, cases, jobs, req, budget>>

\* Mutant: no case for a retryable rejection, which falls to the default.
VerdictStatusWithoutRetry(verdict) ==
  IF verdict = "QUEUED" THEN "QUEUED" ELSE "COMPLETED"

\* finalize's own mapping from the verdict to the applicant-facing status.
VerdictStatus(verdict) ==
  CASE verdict = "QUEUED"         -> "QUEUED"
    [] verdict = "REJECTED_RETRY" -> "AWAITING_USER"
    [] OTHER                      -> "COMPLETED"

\* The transaction of finalize: unconditional, and not through `transition`.
CommitVerdict(t) ==
  /\ At(t, "commit")
  /\ WriteStatus(run[t].to, VerdictStatus(run[t].to), run[t].from, "SYSTEM",
                 t, FALSE)
  /\ ScheduleReview(run[t].to)
  /\ run' = [run EXCEPT ![t] =
               [NoRun EXCEPT !.to = run[t].to,
                             !.pc = IF run[t].to = "QUEUED" THEN "case"
                                                            ELSE "review"]]
  /\ UNCHANGED <<monitored, cases, jobs, req, budget>>

\* Mutant: an automated decision is not appended to the audit log.
RecordReviewOnly(t) ==
  /\ At(t, "review")
  /\ standing' = [standing EXCEPT !.reviewed = @ \/ lastEvent.writer = t]
  /\ Move(t, "monitoring")
  /\ UNCHANGED <<reviewStatus, status, lastEvent, reviewDue, monitored, cases,
                 jobs, req, budget>>

RecordReview(t) ==
  /\ At(t, "review")
  /\ standing' = [standing EXCEPT !.reviewed = @ \/ lastEvent.writer = t]
  /\ Move(t, "audit")
  /\ UNCHANGED <<reviewStatus, status, lastEvent, reviewDue, monitored, cases,
                 jobs, req, budget>>

AppendAudit(t) ==
  /\ At(t, "audit")
  /\ standing' = Audited(t)
  /\ Move(t, "monitoring")
  /\ UNCHANGED <<reviewStatus, status, lastEvent, reviewDue, monitored, cases,
                 jobs, req, budget>>

\* An approval subscribes the applicant when a rule asked for monitoring: a PEP
\* rule, or enable-monitoring-on-approval, which fires on the status READ.
SubscribeMonitoring(t) ==
  /\ At(t, "monitoring")
  /\ monitored' \in IF run[t].to = "APPROVED" THEN {monitored, TRUE}
                                              ELSE {monitored}
  /\ Move(t, "emit")
  /\ UNCHANGED <<row, reviewDue, cases, jobs, req, budget>>

\* Mutant: the lookup of a case does not filter by the case's status.
FindAnyCase(t) ==
  /\ At(t, "case")
  /\ Move(t, IF openCases + closedCases > 0 THEN "emit" ELSE "create")
  /\ UNCHANGED <<row, reviewDue, monitored, cases, jobs, req, budget>>

\* ensureReviewCase: look for an open case, and create one if there is none.
FindCase(t) ==
  /\ At(t, "case")
  /\ Move(t, IF openCases > 0 THEN "emit" ELSE "create")
  /\ UNCHANGED <<row, reviewDue, monitored, cases, jobs, req, budget>>

CreateCase(t) ==
  /\ At(t, "create")
  /\ openCases' = openCases + 1
  /\ Move(t, "emit")
  /\ UNCHANGED <<row, reviewDue, monitored, closedCases, jobs, req, budget>>

\* The event is emitted, finalize returns and BullMQ completes the job.
CompleteRun(t) ==
  /\ At(t, "emit")
  /\ jobs' = [jobs EXCEPT ![t].state = "completed"]
  /\ run' = [run EXCEPT ![t] = NoRun]
  /\ UNCHANGED <<row, reviewDue, monitored, cases, req, budget>>

----------------------------------------------------------------------------
(* Failures. A step that throws costs the job an attempt; a worker that    *)
(* dies stalls it. Either way BullMQ runs the whole job again, until the   *)
(* attempts or the stalls run out. A request that dies is not retried.     *)

Interrupt(t, job) ==
  /\ jobs[t].state = "active"
  /\ jobs' = [jobs EXCEPT ![t] = job]
  /\ run' = [run EXCEPT ![t] = NoRun]
  /\ standing' = [standing EXCEPT !.interrupted =
                    @ \/ (run[t].pc \in AfterCommit /\ lastEvent.writer = t)]
  /\ UNCHANGED <<reviewStatus, status, lastEvent, reviewDue, monitored, cases,
                 req, budget>>

\* Mutants: the job is tried again for ever; the error is swallowed.
RunThrowsForever(t) ==
  Interrupt(t, [jobs[t] EXCEPT !.attempts = @ + 1, !.state = "waiting"])

RunThrowsSwallowed(t) == Interrupt(t, [jobs[t] EXCEPT !.state = "completed"])

RunThrows(t) ==
  LET j == jobs[t] IN
    Interrupt(t, [j EXCEPT !.attempts = @ + 1,
                           !.state = IF j.attempts + 1 < MaxAttempts
                                     THEN "waiting" ELSE "failed"])

\* Mutant: stalls are not counted.
WorkerDiesUncounted(t) == Interrupt(t, [jobs[t] EXCEPT !.state = "waiting"])

WorkerDies(t) ==
  LET j == jobs[t] IN
    Interrupt(t, IF j.stalls < MaxStalls
                 THEN [j EXCEPT !.stalls = @ + 1, !.state = "waiting"]
                 ELSE [j EXCEPT !.state = "failed"])

\* A finished job's id is free again once its retention has lapsed.
ForgetJob(t) ==
  /\ jobs[t].state \in {"completed", "failed"}
  /\ jobs' = [jobs EXCEPT ![t] = NoJob]
  /\ Spend("retention")
  /\ UNCHANGED <<row, reviewDue, monitored, cases, run, req>>

RequestDies(h) ==
  /\ req[h].pc # "idle"
  /\ Finish(h)
  /\ Spend("crash")
  /\ UNCHANGED <<row, reviewDue, monitored, cases, jobs, run>>

----------------------------------------------------------------------------
RunStep(t) ==
  \/ StartRun(t)
  \/ \E verdict \in Verdicts : AssembleFacts(t, verdict)
  \/ CommitVerdict(t)
  \/ RecordReview(t)
  \/ AppendAudit(t)
  \/ SubscribeMonitoring(t)
  \/ FindCase(t)
  \/ CreateCase(t)
  \/ CompleteRun(t)

Faults ==
  \/ \E t \in JobTriggers : RunThrows(t) \/ WorkerDies(t)
  \/ \E h \in Handlers : RequestDies(h)

Decide == \E r \in Reviewers :
  \/ \E decision \in Decisions : DecisionRead(r, decision)
  \/ DecisionCommit(r)
  \/ DecisionAudit(r)

Monitor == SweepUnsubscribes \/ SweepScreens \/ ScreeningClear \/ ScreeningHit
           \/ FreezeCommit

Next ==
  \/ SubmitRead \/ SubmitCommit \/ SubmitEnqueue
  \/ Decide
  \/ ResetRead \/ ResetCommit
  \/ AgentRead \/ AgentCommit
  \/ Monitor
  \/ ReviewFallsDue \/ PeriodicSweep \/ PushNextReview
  \/ FileSar \/ AssignClosedCase
  \/ \E t \in JobTriggers : RunStep(t) \/ ForgetJob(t)
  \/ Faults

Spec == Init /\ [][Next]_vars

\* BullMQ hands every waiting job to a worker, whose awaits return; a request
\* that was accepted is served; retention lapses.
Fairness ==
  /\ \A t \in JobTriggers : WF_vars(RunStep(t)) /\ WF_vars(ForgetJob(t))
  /\ WF_vars(SubmitCommit \/ SubmitEnqueue)
  /\ \A r \in Reviewers : WF_vars(DecisionCommit(r) \/ DecisionAudit(r))
  /\ WF_vars(ResetCommit) /\ WF_vars(AgentCommit)
  /\ WF_vars(ScreeningClear \/ ScreeningHit \/ FreezeCommit)

FairSpec == Spec /\ Fairness

----------------------------------------------------------------------------
(* What holds, under every interleaving, crash and retry above.            *)

\* The two status columns and the timeline tell the same story whoever wrote
\* last: the newest event ends at reviewStatus, and the applicant-facing
\* status is the one derived from it, or PROCESSING once a run has started.
RowMatchesTimeline ==
  /\ lastEvent.to = reviewStatus
  /\ status \in {"PROCESSING",
                 applicantStatusFor(reviewStatus, "RESET_BY_ADMIN")}

\* A handler that reads REJECTED_FINAL never changes it: only an
\* administrator's reset, a verification run, or a writer that had read an
\* earlier status, takes an applicant out of a final rejection.
FreshReadsRespectFinal ==
  [][ reviewStatus = "REJECTED_FINAL" /\ reviewStatus' # "REJECTED_FINAL"
        => \/ lastEvent'.actor = "SYSTEM"
           \/ lastEvent'.writer = "admin"
           \/ lastEvent'.from # "REJECTED_FINAL" ]_vars

\* An applicant waiting for a human is in a human's queue. A QUEUED applicant
\* has an open review case, or the run that queued them is on its way to
\* finding or creating one, or was interrupted, or a SAR closed the case.
QueuedIsVisible ==
  reviewStatus = "QUEUED" =>
    \/ openCases > 0
    \/ run[lastEvent.writer].pc \in {"case", "create"}
    \/ standing.interrupted
    \/ standing.sarFiled

\* An automated decision has its Review row and its audit entry, unless its run
\* is on its way to writing them or was interrupted after the decision.
AutomatedDecisionRecorded ==
  lastEvent.actor = "SYSTEM" /\ reviewStatus # "QUEUED" =>
    \/ standing.reviewed /\ standing.audited
    \/ run[lastEvent.writer].pc \in {"review", "audit"}
    \/ standing.interrupted

\* What the invariants above rest on. A request about to write has read a
\* status its transition starts from; an interrupted run leaves nothing behind
\* and a job that can run has attempts left; only a run writes QUEUED or as
\* SYSTEM; and the run that made the standing decision audits it after its
\* Review row.
RequestsLegal ==
  /\ req["applicant"].pc = "commit" =>
       /\ req["applicant"].trigger \in {"APPLICANT_SUBMITTED",
                                       "APPLICANT_RESUBMITTED"}
       /\ req["applicant"].from # "REJECTED_FINAL"
  /\ \A r \in Reviewers : req[r].pc = "commit" =>
       /\ \E decision \in Decisions : req[r].trigger = TriggerOf(decision)
       /\ req[r].from # "REJECTED_FINAL"
  /\ req["agent"].pc = "commit" => req["agent"].from # "REJECTED_FINAL"

RunsMatchJobs ==
  \A t \in JobTriggers :
    /\ run[t].pc = "none" <=> jobs[t].state # "active"
    /\ run[t].pc = "commit" => run[t].to \in Verdicts
    /\ jobs[t].state \in {"waiting", "active"} => jobs[t].attempts < MaxAttempts

OnlyRunsQueue ==
  reviewStatus = "QUEUED" \/ lastEvent.actor = "SYSTEM"
    => lastEvent.writer \in JobTriggers

AuditFollowsReview ==
  lastEvent.actor = "SYSTEM" /\ run[lastEvent.writer].pc = "audit"
    => standing.reviewed

Inductive ==
  /\ TypeOK
  /\ RowMatchesTimeline
  /\ QueuedIsVisible
  /\ AutomatedDecisionRecorded
  /\ RequestsLegal
  /\ RunsMatchJobs
  /\ OnlyRunsQueue
  /\ AuditFollowsReview

\* Interruptions are bounded by the job's attempts and stalls: a job that was
\* accepted ends, and its worker is free again.
RunsFinish ==
  \A t \in JobTriggers :
    jobs[t].state = "waiting" ~> jobs[t].state \notin {"waiting", "active"}

\* An applicant who is PENDING while a job of theirs waits for a worker does not
\* stay PENDING unless the job fails for good: the run decides or queues them.
WaitingJobDecides ==
  \A t \in JobTriggers :
    jobs[t].state = "waiting" /\ reviewStatus = "PENDING"
      ~> reviewStatus # "PENDING" \/ jobs[t].state = "failed"

----------------------------------------------------------------------------
(* What the repository says and the code does not do.                      *)

\* state-machine.ts:7: nothing automated takes an applicant out of
\* REJECTED_FINAL.
FinalRejectionSurvivesAutomation ==
  [][ reviewStatus = "REJECTED_FINAL" /\ reviewStatus' # "REJECTED_FINAL"
        => lastEvent'.actor = "USER" ]_vars

\* state-machine.ts:87: an applicant who submits re-enters the pipeline.
SubmittedIsProcessed == reviewStatus = "PENDING" ~> reviewStatus # "PENDING"
=============================================================================
