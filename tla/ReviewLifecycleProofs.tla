----------------------- MODULE ReviewLifecycleProofs -----------------------
(***************************************************************************)
(* Proofs about ReviewLifecycle, for every number of reviewers, attempts,  *)
(* stalls and requests: its type invariant, its safety invariants and the  *)
(* action property FreshReadsRespectFinal. All follow from `Inductive`.    *)
(***************************************************************************)
EXTENDS ReviewLifecycle, TLAPS

----------------------------------------------------------------------------
(* The transition table.                                                   *)

\* The triggers of the table, by name.
LEMMA TriggerNames ==
  Triggers = {"APPLICANT_SUBMITTED", "CHECKS_STARTED", "CHECKS_COMPLETED",
              "AUTO_APPROVED", "AUTO_REJECTED", "ROUTED_TO_QUEUE",
              "REVIEWER_APPROVED", "REVIEWER_REJECTED_RETRY",
              "REVIEWER_REJECTED_FINAL", "PUT_ON_HOLD", "HOLD_RELEASED",
              "APPLICANT_RESUBMITTED", "MONITORING_HIT",
              "PERIODIC_REVIEW_DUE", "DECISION_OVERTURNED_ON_APPEAL",
              "RESET_BY_ADMIN"}
  BY DEF Triggers, TRANSITIONS

\* Every transition ends in a review status.
LEMMA TargetType == \A trigger \in Triggers : Target(trigger) \in ReviewStatuses
  BY TriggerNames
  DEF Target, TRANSITIONS, ReviewStatuses, Anyone, Human, Privileged

\* The derived applicant-facing status is one of the column's values, and
\* depends on the trigger only where it may be PROCESSING.
LEMMA ApplicantStatusType ==
  \A s \in ReviewStatuses, trigger \in Triggers :
    /\ applicantStatusFor(s, trigger) \in ApplicantStatuses
    /\ applicantStatusFor(s, trigger) \in
         {"PROCESSING", applicantStatusFor(s, "RESET_BY_ADMIN")}
  BY DEF ReviewStatuses, applicantStatusFor, ApplicantStatuses

\* No decision of a reviewer, and no submission, starts from REJECTED_FINAL or
\* ends in QUEUED.
LEMMA DecisionTriggers ==
  \A decision \in Decisions :
    /\ TriggerOf(decision) \in Triggers
    /\ Target(TriggerOf(decision)) # "QUEUED"
    /\ \A role : ~canTransition("REJECTED_FINAL", TriggerOf(decision), "USER",
                                role)
  BY TriggerNames
  DEF Decisions, TriggerOf, Target, canTransition, TRANSITIONS, Anyone, Human,
      Privileged

\* A submission never starts from REJECTED_FINAL and never queues the applicant.
LEMMA SubmissionTriggers ==
  \A trigger \in {"APPLICANT_SUBMITTED", "APPLICANT_RESUBMITTED"} :
    /\ trigger \in Triggers
    /\ Target(trigger) # "QUEUED"
    /\ ~canTransition("REJECTED_FINAL", trigger, "APPLICANT", NoRole)
  BY TriggerNames
  DEF Target, canTransition, TRANSITIONS, Anyone, Human, Privileged

\* The reset leads to NOT_STARTED.
LEMMA ResetTrigger ==
  /\ "RESET_BY_ADMIN" \in Triggers
  /\ Target("RESET_BY_ADMIN") = "NOT_STARTED"
  BY TriggerNames DEF Target, TRANSITIONS, Privileged

----------------------------------------------------------------------------
(* Types. The helper actions first.                                        *)

Standings == [reviewed : BOOLEAN, audited : BOOLEAN, interrupted : BOOLEAN,
              sarFiled : BOOLEAN]
JobRecords == [state : JobStates, attempts : 0 .. MaxAttempts,
               stalls : 0 .. MaxStalls]
RunRecords == [pc : RunPcs, from : ReviewStatuses, to : ReviewStatuses]
ReqRecords == [pc : ReqPcs, from : ReviewStatuses, trigger : Triggers]

\* A request starts, moves on or ends: the locals stay well typed.
LEMMA RequestType ==
  ASSUME TypeOK, NEW h \in Handlers, NEW pc \in ReqPcs, NEW trigger \in Triggers,
         Begin(h, pc, trigger) \/ Goto(h, pc) \/ Finish(h)
  PROVE  req' \in [Handlers -> ReqRecords]
  BY TriggerNames
  DEF TypeOK, ReqRecords, Begin, Goto, Finish, NoReq, ReqPcs, ReviewStatuses

\* Spending a unit of the budget keeps its type.
LEMMA SpendType ==
  ASSUME TypeOK, NEW kind \in Kinds, Spend(kind)
  PROVE  budget' \in [Kinds -> Nat]
  BY DEF TypeOK, Spend

\* A write of the row with well typed arguments keeps the row well typed.
LEMMA WriteType ==
  ASSUME NEW to \in ReviewStatuses, NEW s \in ApplicantStatuses,
         NEW from \in ReviewStatuses, NEW actor \in ActorTypes,
         NEW writer \in Writers, NEW reviewed \in BOOLEAN,
         WriteStatus(to, s, from, actor, writer, reviewed)
  PROVE  /\ reviewStatus' \in ReviewStatuses
         /\ status' \in ApplicantStatuses
         /\ lastEvent' \in [from : ReviewStatuses, to : ReviewStatuses,
                            actor : ActorTypes, writer : Writers]
         /\ standing' \in Standings
  BY DEF WriteStatus, Standings

\* Adding a job keeps the queue well typed.
LEMMA EnqueueType ==
  ASSUME TypeOK, NEW t \in JobTriggers, EnqueueVerification(t)
  PROVE  jobs' \in [JobTriggers -> JobRecords]
  BY LimitsAssumption
  DEF TypeOK, EnqueueVerification, JobRecords, NoJob, JobStates

\* An interrupted run leaves nothing behind but its job's new state.
LEMMA InterruptType ==
  ASSUME TypeOK, NEW t \in JobTriggers, NEW job \in JobRecords,
         Interrupt(t, job)
  PROVE  TypeOK'
<1>1. jobs' \in [JobTriggers -> JobRecords]
  BY DEF TypeOK, Interrupt, JobRecords
<1>2. run' \in [JobTriggers -> RunRecords]
  BY DEF TypeOK, Interrupt, NoRun, RunRecords, RunPcs, ReviewStatuses
<1>3. standing' \in Standings
  BY DEF TypeOK, Interrupt, Standings
<1> QED
  BY <1>1, <1>2, <1>3
  DEF TypeOK, Interrupt, cases, JobRecords, RunRecords, Standings

\* A job that throws has attempts left, so the counter stays in its range.
LEMMA ThrowType ==
  ASSUME TypeOK, RunsMatchJobs, NEW t \in JobTriggers, RunThrows(t)
  PROVE  TypeOK'
<1> DEFINE next == IF jobs[t].attempts + 1 < MaxAttempts THEN "waiting"
                                                         ELSE "failed"
           job  == [jobs[t] EXCEPT !.attempts = @ + 1, !.state = next]
<1>1. jobs[t] \in JobRecords
  BY DEF TypeOK, JobRecords
<1>2. Interrupt(t, job)
  BY DEF RunThrows
<1>3. jobs[t].attempts + 1 \in 0 .. MaxAttempts
  BY <1>1, <1>2, LimitsAssumption DEF Interrupt, RunsMatchJobs, JobRecords
<1>4. next \in JobStates
  BY DEF JobStates
<1>5. job \in JobRecords
  BY <1>1, <1>3, <1>4 DEF JobRecords
<1> QED
  BY <1>2, <1>5, InterruptType

\* A worker that dies leaves its job with its counters in range.
LEMMA DeathType ==
  ASSUME TypeOK, NEW t \in JobTriggers, WorkerDies(t)
  PROVE  TypeOK'
<1> DEFINE job == IF jobs[t].stalls < MaxStalls
                  THEN [jobs[t] EXCEPT !.stalls = @ + 1, !.state = "waiting"]
                  ELSE [jobs[t] EXCEPT !.state = "failed"]
<1>1. jobs[t] \in JobRecords
  BY DEF TypeOK, JobRecords
<1>2. Interrupt(t, job)
  BY DEF WorkerDies
<1>3. CASE jobs[t].stalls < MaxStalls
  <2>1. jobs[t].stalls + 1 \in 0 .. MaxStalls
    BY <1>1, <1>3, LimitsAssumption DEF JobRecords
  <2>2. job \in JobRecords
    BY <1>1, <1>3, <2>1 DEF JobRecords, JobStates
  <2> QED
    BY <1>2, <2>2, InterruptType
<1>4. CASE ~(jobs[t].stalls < MaxStalls)
  <2>1. job \in JobRecords
    BY <1>1, <1>4 DEF JobRecords, JobStates
  <2> QED
    BY <1>2, <2>1, InterruptType
<1> QED
  BY <1>3, <1>4

\* The actions of the request handlers keep the types.
LEMMA HandlerTypes ==
  ASSUME TypeOK,
         \/ SubmitRead \/ SubmitCommit \/ SubmitEnqueue
         \/ Decide
         \/ ResetRead \/ ResetCommit
         \/ AgentRead \/ AgentCommit
         \/ FileSar \/ AssignClosedCase
         \/ \E h \in Handlers : RequestDies(h)
  PROVE  TypeOK'
<1> USE DEF Handlers, Services, Kinds, ReqPcs, ReqRecords
<1>1. CASE SubmitRead
  BY <1>1, RequestType, SpendType, SubmissionTriggers
  DEF SubmitRead, TypeOK, row, cases
<1>2. CASE SubmitCommit
  <2>1. req["applicant"] \in ReqRecords
    BY DEF TypeOK
  <2>2. req' \in [Handlers -> ReqRecords]
    BY <1>2, RequestType, ResetTrigger DEF SubmitCommit
  <2> QED
    BY <1>2, <2>1, <2>2, WriteType, TargetType, ApplicantStatusType
    DEF SubmitCommit, TypeOK, Standings, cases, ActorTypes, Writers
<1>3. CASE SubmitEnqueue
  <2>1. req' \in [Handlers -> ReqRecords]
    BY <1>3, RequestType, ResetTrigger DEF SubmitEnqueue
  <2>2. jobs' \in [JobTriggers -> JobRecords]
    BY <1>3, EnqueueType DEF SubmitEnqueue, JobTriggers
  <2> QED
    BY <1>3, <2>1, <2>2 DEF SubmitEnqueue, TypeOK, JobRecords, row, cases
<1>4. ASSUME NEW r \in Reviewers, NEW decision \in Decisions,
             DecisionRead(r, decision)
      PROVE  TypeOK'
  BY <1>4, RequestType, SpendType, DecisionTriggers
  DEF DecisionRead, TypeOK, row, cases
<1>5. ASSUME NEW r \in Reviewers, DecisionCommit(r)
      PROVE  TypeOK'
  <2>1. req[r] \in ReqRecords
    BY DEF TypeOK
  <2>2. req' \in [Handlers -> ReqRecords]
    BY <1>5, ResetTrigger DEF DecisionCommit, NoReq, TypeOK, ReviewStatuses
  <2>3. openCases' \in Nat /\ closedCases' \in Nat
    BY <1>5 DEF DecisionCommit, TypeOK
  <2>4. reviewDue' \in {"none", "scheduled", "due"}
    BY <1>5 DEF DecisionCommit, ScheduleReview, TypeOK
  <2> QED
    BY <1>5, <2>1, <2>2, <2>3, <2>4, WriteType, TargetType,
       ApplicantStatusType
    DEF DecisionCommit, TypeOK, Standings, ActorTypes, Writers
<1>6. ASSUME NEW r \in Reviewers, DecisionAudit(r)
      PROVE  TypeOK'
  <2>1. req' \in [Handlers -> ReqRecords]
    BY <1>6, RequestType, ResetTrigger DEF DecisionAudit
  <2>2. standing' \in Standings
    BY <1>6 DEF DecisionAudit, Audited, TypeOK, Standings
  <2> QED
    BY <1>6, <2>1, <2>2 DEF DecisionAudit, TypeOK, Standings, cases
<1>7. CASE ResetRead
  BY <1>7, RequestType, SpendType, ResetTrigger
  DEF ResetRead, TypeOK, row, cases
<1>8. CASE ResetCommit
  <2>1. req' \in [Handlers -> ReqRecords]
    BY <1>8, RequestType, ResetTrigger DEF ResetCommit
  <2>2. req["admin"] \in ReqRecords
    BY DEF TypeOK
  <2>3. /\ req["admin"].from \in ReviewStatuses
        /\ Target("RESET_BY_ADMIN") \in ReviewStatuses
        /\ "INIT" \in ApplicantStatuses
        /\ "USER" \in ActorTypes
        /\ "admin" \in Writers
    BY <2>2, ResetTrigger
    DEF ReviewStatuses, ApplicantStatuses, ActorTypes, Writers
  <2> QED
    BY <1>8, <2>1, <2>3, WriteType DEF ResetCommit, TypeOK, Standings, cases
<1>9. CASE AgentRead
  BY <1>9, RequestType, SpendType, TriggerNames
  DEF AgentRead, TypeOK, row, cases
<1>10. CASE AgentCommit
  <2>1. req' \in [Handlers -> ReqRecords]
    BY <1>10, RequestType, ResetTrigger DEF AgentCommit
  <2>2. req["agent"] \in ReqRecords
    BY DEF TypeOK
  <2>3. /\ req["agent"].from \in ReviewStatuses
        /\ "REJECTED_RETRY" \in ReviewStatuses
        /\ "AWAITING_USER" \in ApplicantStatuses
        /\ "AI_AGENT" \in ActorTypes
        /\ "agent" \in Writers
    BY <2>2 DEF ReviewStatuses, ApplicantStatuses, ActorTypes, Writers
  <2> QED
    BY <1>10, <2>1, <2>3, WriteType DEF AgentCommit, TypeOK, Standings, cases
<1>11. CASE FileSar
  <2>1. standing' \in Standings
    BY <1>11 DEF FileSar, TypeOK, Standings
  <2>2. budget' \in [Kinds -> Nat]
    BY <1>11, SpendType DEF FileSar
  <2>3. openCases' \in Nat /\ closedCases' \in Nat
    BY <1>11 DEF FileSar, TypeOK
  <2> QED
    BY <1>11, <2>1, <2>2, <2>3 DEF FileSar, TypeOK, Standings
<1>12. CASE AssignClosedCase
  <2>1. budget' \in [Kinds -> Nat]
    BY <1>12, SpendType DEF AssignClosedCase
  <2> QED
    BY <1>12, <2>1 DEF AssignClosedCase, TypeOK, row
<1>13. ASSUME NEW h \in Handlers, RequestDies(h)
       PROVE  TypeOK'
  <2>1. req' \in [Handlers -> ReqRecords]
    BY <1>13, RequestType, ResetTrigger DEF RequestDies
  <2>2. budget' \in [Kinds -> Nat]
    BY <1>13, SpendType DEF RequestDies
  <2> QED
    BY <1>13, <2>1, <2>2 DEF RequestDies, TypeOK, row, cases
<1> QED
  BY <1>1, <1>2, <1>3, <1>4, <1>5, <1>6, <1>7, <1>8, <1>9, <1>10, <1>11,
     <1>12, <1>13
  DEF Decide

\* The actions of monitoring and of the periodic sweep keep the types.
LEMMA MonitoringTypes ==
  ASSUME TypeOK, Monitor \/ ReviewFallsDue \/ PeriodicSweep \/ PushNextReview
  PROVE  TypeOK'
<1> USE DEF Handlers, Services, Kinds, ReqPcs, ReqRecords
<1>1. CASE SweepUnsubscribes
  BY <1>1 DEF SweepUnsubscribes, TypeOK, row, cases
<1>2. CASE SweepScreens
  BY <1>2, RequestType, SpendType, TriggerNames
  DEF SweepScreens, TypeOK, row, cases
<1>3. CASE ScreeningClear
  BY <1>3, RequestType, TriggerNames DEF ScreeningClear, TypeOK, row, cases
<1>4. CASE ScreeningHit
  BY <1>4, RequestType, TriggerNames DEF ScreeningHit, TypeOK, row, cases
<1>5. CASE FreezeCommit
  <2>1. req' \in [Handlers -> ReqRecords]
    BY <1>5, RequestType, ResetTrigger DEF FreezeCommit
  <2>2. /\ "ON_HOLD" \in ReviewStatuses
        /\ "APPROVED" \in ReviewStatuses
        /\ "ON_HOLD" \in ApplicantStatuses
        /\ "SCHEDULER" \in ActorTypes
        /\ "screening" \in Writers
    BY DEF ReviewStatuses, ApplicantStatuses, ActorTypes, Writers
  <2> QED
    BY <1>5, <2>1, <2>2, WriteType DEF FreezeCommit, TypeOK, Standings, cases
<1>6. CASE ReviewFallsDue
  BY <1>6 DEF ReviewFallsDue, TypeOK, row, cases
<1>7. CASE PeriodicSweep
  <2>1. req' \in [Handlers -> ReqRecords]
    BY <1>7, RequestType, TriggerNames DEF PeriodicSweep
  <2>2. jobs' \in [JobTriggers -> JobRecords]
    BY <1>7, EnqueueType DEF PeriodicSweep, JobTriggers
  <2>3. budget' \in [Kinds -> Nat]
    BY <1>7, SpendType DEF PeriodicSweep
  <2> QED
    BY <1>7, <2>1, <2>2, <2>3 DEF PeriodicSweep, TypeOK, JobRecords, row, cases
<1>8. CASE PushNextReview
  BY <1>8, RequestType, TriggerNames DEF PushNextReview, TypeOK, row, cases
<1> QED
  BY <1>1, <1>2, <1>3, <1>4, <1>5, <1>6, <1>7, <1>8 DEF Monitor

\* The steps of a verification run, and its failures, keep the types.
LEMMA RunTypes ==
  ASSUME TypeOK, RunsMatchJobs, NEW t \in JobTriggers,
         RunStep(t) \/ RunThrows(t) \/ WorkerDies(t) \/ ForgetJob(t)
  PROVE  TypeOK'
<1>0. jobs[t] \in JobRecords /\ run[t] \in RunRecords
  BY DEF TypeOK, JobRecords, RunRecords
<1>1. CASE StartRun(t)
  <2>1. jobs' \in [JobTriggers -> JobRecords]
    BY <1>1, <1>0 DEF StartRun, TypeOK, JobRecords, JobStates
  <2>2. run' \in [JobTriggers -> RunRecords]
    BY <1>1, <1>0 DEF StartRun, Move, TypeOK, RunRecords, RunPcs
  <2> QED
    BY <1>1, <2>1, <2>2
    DEF StartRun, TypeOK, JobRecords, RunRecords, cases, ApplicantStatuses
<1>2. ASSUME NEW verdict \in Verdicts, AssembleFacts(t, verdict)
      PROVE  TypeOK'
  <2>1. run' \in [JobTriggers -> RunRecords]
    BY <1>2, <1>0
    DEF AssembleFacts, TypeOK, RunRecords, RunPcs, Verdicts, ReviewStatuses
  <2> QED
    BY <1>2, <2>1 DEF AssembleFacts, TypeOK, RunRecords, row, cases
<1>3. CASE CommitVerdict(t)
  <2>1. run' \in [JobTriggers -> RunRecords]
    BY <1>3, <1>0
    DEF CommitVerdict, TypeOK, RunRecords, NoRun, RunPcs, ReviewStatuses
  <2>2. /\ run[t].to \in ReviewStatuses
        /\ run[t].from \in ReviewStatuses
        /\ VerdictStatus(run[t].to) \in ApplicantStatuses
        /\ "SYSTEM" \in ActorTypes
        /\ t \in Writers
    BY <1>0
    DEF RunRecords, VerdictStatus, ApplicantStatuses, ActorTypes, Writers
  <2>3. reviewDue' \in {"none", "scheduled", "due"}
    BY <1>3 DEF CommitVerdict, ScheduleReview, TypeOK
  <2> QED
    BY <1>3, <2>1, <2>2, <2>3, WriteType
    DEF CommitVerdict, TypeOK, RunRecords, Standings, cases
<1>4. CASE RecordReview(t)
  <2>1. standing' \in Standings
    BY <1>4 DEF RecordReview, TypeOK, Standings
  <2>2. run' \in [JobTriggers -> RunRecords]
    BY <1>4, <1>0 DEF RecordReview, Move, TypeOK, RunRecords, RunPcs
  <2> QED
    BY <1>4, <2>1, <2>2
    DEF RecordReview, TypeOK, RunRecords, Standings, cases
<1>5. CASE AppendAudit(t)
  <2>1. standing' \in Standings
    BY <1>5 DEF AppendAudit, Audited, TypeOK, Standings
  <2>2. run' \in [JobTriggers -> RunRecords]
    BY <1>5, <1>0 DEF AppendAudit, Move, TypeOK, RunRecords, RunPcs
  <2> QED
    BY <1>5, <2>1, <2>2 DEF AppendAudit, TypeOK, RunRecords, Standings, cases
<1>6. CASE SubscribeMonitoring(t)
  <2>1. run' \in [JobTriggers -> RunRecords]
    BY <1>6, <1>0 DEF SubscribeMonitoring, Move, TypeOK, RunRecords, RunPcs
  <2>2. monitored' \in BOOLEAN
    BY <1>6 DEF SubscribeMonitoring, TypeOK
  <2> QED
    BY <1>6, <2>1, <2>2 DEF SubscribeMonitoring, TypeOK, RunRecords, row, cases
<1>7. CASE FindCase(t)
  <2>1. run' \in [JobTriggers -> RunRecords]
    BY <1>7, <1>0 DEF FindCase, Move, TypeOK, RunRecords, RunPcs
  <2> QED
    BY <1>7, <2>1 DEF FindCase, TypeOK, RunRecords, row, cases
<1>8. CASE CreateCase(t)
  <2>1. run' \in [JobTriggers -> RunRecords]
    BY <1>8, <1>0 DEF CreateCase, Move, TypeOK, RunRecords, RunPcs
  <2> QED
    BY <1>8, <2>1 DEF CreateCase, TypeOK, RunRecords, row
<1>9. CASE CompleteRun(t)
  <2>1. run' \in [JobTriggers -> RunRecords]
    BY <1>9 DEF CompleteRun, NoRun, TypeOK, RunRecords, RunPcs, ReviewStatuses
  <2>2. jobs' \in [JobTriggers -> JobRecords]
    BY <1>9, <1>0 DEF CompleteRun, TypeOK, JobRecords, JobStates
  <2> QED
    BY <1>9, <2>1, <2>2
    DEF CompleteRun, TypeOK, JobRecords, RunRecords, row, cases
<1>10. CASE ForgetJob(t)
  <2>1. jobs' \in [JobTriggers -> JobRecords]
    BY <1>10, LimitsAssumption
    DEF ForgetJob, NoJob, TypeOK, JobRecords, JobStates
  <2>2. budget' \in [Kinds -> Nat]
    BY <1>10, SpendType DEF ForgetJob, Kinds
  <2> QED
    BY <1>10, <2>1, <2>2 DEF ForgetJob, TypeOK, JobRecords, row, cases
<1> QED
  BY <1>1, <1>2, <1>3, <1>4, <1>5, <1>6, <1>7, <1>8, <1>9, <1>10, ThrowType,
     DeathType
  DEF RunStep

\* Every step keeps the types.
LEMMA StepTypes ==
  ASSUME TypeOK, RunsMatchJobs, [Next]_vars
  PROVE  TypeOK'
<1>1. CASE UNCHANGED vars
  BY <1>1 DEF vars, TypeOK
<1>2. CASE Next
  BY <1>2, HandlerTypes, MonitoringTypes, RunTypes DEF Next, Faults
<1> QED
  BY <1>1, <1>2

----------------------------------------------------------------------------
(* Who writes what: the only actions that touch the parts of the state the *)
(* invariants speak of.                                                    *)

\* The status columns and the timeline change in these actions only.
LEMMA RowWriters ==
  ASSUME [Next]_vars
  PROVE  \/ UNCHANGED <<reviewStatus, status, lastEvent>>
         \/ SubmitCommit
         \/ \E r \in Reviewers : DecisionCommit(r)
         \/ ResetCommit
         \/ AgentCommit
         \/ FreezeCommit
         \/ \E t \in JobTriggers : StartRun(t) \/ CommitVerdict(t)
  BY DEF vars, row, Next, Decide, Monitor, RunStep, Faults, SubmitRead,
         SubmitEnqueue, DecisionRead, DecisionAudit, ResetRead, AgentRead,
         SweepUnsubscribes, SweepScreens, ScreeningClear, ScreeningHit,
         ReviewFallsDue, PeriodicSweep, PushNextReview, FileSar,
         AssignClosedCase, AssembleFacts, RecordReview, AppendAudit,
         SubscribeMonitoring, FindCase, CreateCase, CompleteRun, RunThrows,
         WorkerDies, Interrupt, ForgetJob, RequestDies

\* The jobs, the runs' locals, the cases and `standing` change here only.
LEMMA RunWriters ==
  ASSUME [Next]_vars
  PROVE  \/ UNCHANGED <<jobs, run, standing, openCases>>
         \/ SubmitCommit
         \/ SubmitEnqueue
         \/ \E r \in Reviewers : DecisionCommit(r) \/ DecisionAudit(r)
         \/ ResetCommit
         \/ AgentCommit
         \/ FreezeCommit
         \/ PeriodicSweep
         \/ FileSar
         \/ AssignClosedCase
         \/ \E t \in JobTriggers :
               RunStep(t) \/ RunThrows(t) \/ WorkerDies(t) \/ ForgetJob(t)
  BY DEF vars, row, cases, Next, Decide, Monitor, Faults, SubmitRead,
         DecisionRead, ResetRead, AgentRead, SweepUnsubscribes, SweepScreens,
         ScreeningClear, ScreeningHit, ReviewFallsDue, PushNextReview,
         RequestDies

\* The requests' locals change here only.
LEMMA RequestWriters ==
  ASSUME [Next]_vars
  PROVE  \/ UNCHANGED req
         \/ SubmitRead \/ SubmitCommit \/ SubmitEnqueue
         \/ Decide
         \/ ResetRead \/ ResetCommit
         \/ AgentRead \/ AgentCommit
         \/ Monitor
         \/ PeriodicSweep \/ PushNextReview
         \/ \E h \in Handlers : RequestDies(h)
  BY DEF vars, Next, RunStep, Faults, ReviewFallsDue, FileSar,
         AssignClosedCase, StartRun, AssembleFacts, CommitVerdict,
         RecordReview, AppendAudit, SubscribeMonitoring, FindCase, CreateCase,
         CompleteRun, RunThrows, WorkerDies, Interrupt, ForgetJob

----------------------------------------------------------------------------
(* The conjuncts of Inductive, one lemma each.                             *)

\* Every step keeps the requests about to write legal.
LEMMA RequestsStep ==
  ASSUME Inductive, [Next]_vars
  PROVE  RequestsLegal'
<1> USE ReviewersAssumption DEF Handlers, Services, JobTriggers
<1>0. TypeOK /\ RequestsLegal
  BY DEF Inductive
<1>1. CASE UNCHANGED req
  BY <1>0, <1>1 DEF RequestsLegal
<1>2. CASE SubmitRead
  <2>1. reviewStatus # "REJECTED_FINAL"
    BY <1>2, SubmissionTriggers DEF SubmitRead
  <2>2. \E trigger \in {"APPLICANT_SUBMITTED", "APPLICANT_RESUBMITTED"} :
          req' = [req EXCEPT !["applicant"] =
                    [pc |-> "commit", from |-> reviewStatus,
                     trigger |-> trigger]]
    BY <1>2 DEF SubmitRead, Begin
  <2> QED
    BY <1>0, <2>1, <2>2 DEF TypeOK, RequestsLegal
<1>3. ASSUME NEW r \in Reviewers, NEW decision \in Decisions,
             DecisionRead(r, decision)
      PROVE  RequestsLegal'
  <2>1. reviewStatus # "REJECTED_FINAL"
    BY <1>3, DecisionTriggers DEF DecisionRead
  <2>2. req' = [req EXCEPT ![r] = [pc |-> "commit", from |-> reviewStatus,
                                   trigger |-> TriggerOf(decision)]]
    BY <1>3 DEF DecisionRead, Begin
  <2> QED
    BY <1>0, <2>1, <2>2 DEF TypeOK, RequestsLegal
<1>4. CASE AgentRead
  <2>1. reviewStatus # "REJECTED_FINAL"
    BY <1>4 DEF AgentRead
  <2>2. req' = [req EXCEPT !["agent"] =
                  [pc |-> "commit", from |-> reviewStatus,
                   trigger |-> "REVIEWER_REJECTED_RETRY"]]
    BY <1>4 DEF AgentRead, Begin
  <2> QED
    BY <1>0, <2>1, <2>2 DEF TypeOK, RequestsLegal
<1>5. ASSUME NEW h \in Handlers, NEW pc \in ReqPcs \ {"commit"},
             \/ Goto(h, pc)
             \/ Finish(h)
             \/ req' = [req EXCEPT ![h] = [NoReq EXCEPT !.pc = pc]]
      PROVE  RequestsLegal'
  BY <1>0, <1>5 DEF TypeOK, RequestsLegal, Goto, Finish, NoReq
<1>6. ASSUME NEW h \in {"admin", "screening", "sweep"}, NEW q,
             req' = [req EXCEPT ![h] = q]
      PROVE  RequestsLegal'
  <2>1. \A g \in Reviewers \cup {"applicant", "agent"} : req'[g] = req[g]
    BY <1>0, <1>6 DEF TypeOK
  <2> QED
    BY <1>0, <2>1 DEF RequestsLegal
<1>7. CASE SubmitCommit \/ SubmitEnqueue \/ AgentCommit
  <2>1. \/ Goto("applicant", "enqueue")
        \/ Finish("applicant")
        \/ Finish("agent")
    BY <1>7 DEF SubmitCommit, SubmitEnqueue, AgentCommit
  <2>2. "enqueue" \in ReqPcs \ {"commit"}
    BY DEF ReqPcs
  <2> QED
    BY <2>1, <2>2, <1>5
<1>8. ASSUME NEW r \in Reviewers, DecisionCommit(r) \/ DecisionAudit(r)
      PROVE  RequestsLegal'
  BY <1>8, <1>5 DEF DecisionCommit, DecisionAudit, ReqPcs
<1>9. CASE ResetRead \/ ResetCommit \/ PeriodicSweep \/ PushNextReview
  BY <1>9, <1>6
  DEF ResetRead, ResetCommit, PeriodicSweep, PushNextReview, Begin, Finish
<1>10. CASE Monitor
  <2>1. CASE SweepUnsubscribes
    BY <2>1, <1>1 DEF SweepUnsubscribes
  <2>2. CASE SweepScreens
    BY <2>2, <1>6 DEF SweepScreens, Begin
  <2>3. CASE ScreeningClear \/ FreezeCommit
    BY <2>3, <1>6 DEF ScreeningClear, FreezeCommit, Finish
  <2>4. CASE ScreeningHit
    <3>1. Goto("screening", "commit") \/ Finish("screening")
      BY <2>4 DEF ScreeningHit
    <3> QED
      BY <3>1, <1>6 DEF Goto, Finish
  <2> QED
    BY <1>10, <2>1, <2>2, <2>3, <2>4 DEF Monitor
<1>11. ASSUME NEW h \in Handlers, RequestDies(h)
       PROVE  RequestsLegal'
  BY <1>11, <1>5 DEF RequestDies, ReqPcs
<1> QED
  BY <1>1, <1>2, <1>3, <1>4, <1>7, <1>8, <1>9, <1>10, <1>11, RequestWriters
  DEF Decide

\* Each run step keeps the job's state, moves its run from one pc to another
\* that is not "none", or ends both.
LEMMA RunsStep ==
  ASSUME Inductive, [Next]_vars
  PROVE  RunsMatchJobs'
<1>0. TypeOK /\ RunsMatchJobs
  BY DEF Inductive
<1>1. CASE UNCHANGED <<jobs, run>>
  BY <1>0, <1>1 DEF RunsMatchJobs
<1>2. ASSUME NEW t \in JobTriggers, UNCHANGED run, EnqueueVerification(t)
      PROVE  RunsMatchJobs'
  BY <1>0, <1>2, LimitsAssumption
  DEF TypeOK, RunsMatchJobs, EnqueueVerification, NoJob
<1>3. CASE SubmitEnqueue \/ PeriodicSweep
  BY <1>3, <1>2 DEF SubmitEnqueue, PeriodicSweep, JobTriggers
<1>4. ASSUME NEW t \in JobTriggers, StartRun(t)
      PROVE  RunsMatchJobs'
  BY <1>0, <1>4 DEF TypeOK, RunsMatchJobs, StartRun, Move
<1>5. ASSUME NEW t \in JobTriggers, NEW verdict \in Verdicts,
             AssembleFacts(t, verdict)
      PROVE  RunsMatchJobs'
  BY <1>0, <1>5 DEF TypeOK, RunsMatchJobs, AssembleFacts, At
<1>6. ASSUME NEW t \in JobTriggers, NEW pc \in RunPcs \ {"none", "commit"},
             jobs[t].state = "active", UNCHANGED jobs,
             \/ Move(t, pc)
             \/ run' = [run EXCEPT ![t] =
                          [NoRun EXCEPT !.to = run[t].to, !.pc = pc]]
      PROVE  RunsMatchJobs'
  <2>1. \A u \in JobTriggers \ {t} : run'[u] = run[u]
    BY <1>0, <1>6 DEF TypeOK, Move
  <2>2. run'[t].pc = pc
    <3>1. run[t] \in RunRecords /\ DOMAIN run = JobTriggers
      BY <1>0 DEF TypeOK, RunRecords
    <3>2. CASE Move(t, pc)
      BY <3>1, <3>2 DEF Move, RunRecords
    <3>3. CASE run' = [run EXCEPT ![t] =
                         [NoRun EXCEPT !.to = run[t].to, !.pc = pc]]
      BY <3>1, <3>3 DEF NoRun
    <3> QED
      BY <3>2, <3>3, <1>6
  <2>3. /\ jobs' = jobs
        /\ jobs[t].state = "active"
        /\ pc # "none" /\ pc # "commit"
    BY <1>6
  <2> QED
    BY <1>0, <2>1, <2>2, <2>3 DEF RunsMatchJobs
<1>7. ASSUME NEW t \in JobTriggers, CommitVerdict(t)
      PROVE  RunsMatchJobs'
  <2> DEFINE pc == IF run[t].to = "QUEUED" THEN "case" ELSE "review"
  <2>1. /\ run' = [run EXCEPT ![t] =
                      [NoRun EXCEPT !.to = run[t].to, !.pc = pc]]
        /\ jobs[t].state = "active"
        /\ UNCHANGED jobs
    BY <1>7 DEF CommitVerdict, At
  <2>2. pc \in RunPcs \ {"none", "commit"}
    BY DEF RunPcs
  <2> QED
    BY <2>1, <2>2, <1>6
<1>8. ASSUME NEW t \in JobTriggers,
             \/ RecordReview(t) \/ AppendAudit(t) \/ SubscribeMonitoring(t)
             \/ FindCase(t) \/ CreateCase(t)
      PROVE  RunsMatchJobs'
  <2>1. \E pc \in {"audit", "monitoring", "emit", "create"} : Move(t, pc)
    BY <1>8
    DEF RecordReview, AppendAudit, SubscribeMonitoring, FindCase, CreateCase
  <2>2. jobs[t].state = "active" /\ UNCHANGED jobs
    BY <1>8
    DEF RecordReview, AppendAudit, SubscribeMonitoring, FindCase, CreateCase,
        At
  <2> QED
    BY <2>1, <2>2, <1>6 DEF RunPcs
<1>9. ASSUME NEW t \in JobTriggers, CompleteRun(t)
      PROVE  RunsMatchJobs'
  BY <1>0, <1>9 DEF TypeOK, RunsMatchJobs, CompleteRun, NoRun
<1>10. ASSUME NEW t \in JobTriggers, NEW job, Interrupt(t, job),
              job.state # "active",
              job.state = "waiting" => job.attempts < MaxAttempts
       PROVE  RunsMatchJobs'
  BY <1>0, <1>10 DEF TypeOK, RunsMatchJobs, Interrupt, NoRun
<1>11. ASSUME NEW t \in JobTriggers, RunThrows(t)
       PROVE  RunsMatchJobs'
  <2> DEFINE job == [jobs[t] EXCEPT
                       !.attempts = @ + 1,
                       !.state = IF jobs[t].attempts + 1 < MaxAttempts
                                 THEN "waiting" ELSE "failed"]
  <2>1. Interrupt(t, job)
    BY <1>11 DEF RunThrows
  <2>2. /\ job.state # "active"
        /\ job.state = "waiting" => job.attempts < MaxAttempts
    BY <1>0 DEF TypeOK
  <2> HIDE DEF job
  <2> QED
    BY <2>1, <2>2, <1>10
<1>12. ASSUME NEW t \in JobTriggers, WorkerDies(t)
       PROVE  RunsMatchJobs'
  <2> DEFINE job == IF jobs[t].stalls < MaxStalls
                    THEN [jobs[t] EXCEPT !.stalls = @ + 1,
                                         !.state = "waiting"]
                    ELSE [jobs[t] EXCEPT !.state = "failed"]
  <2>1. Interrupt(t, job)
    BY <1>12 DEF WorkerDies
  <2>2. job.state \in {"waiting", "failed"}
        /\ job.attempts = jobs[t].attempts
    BY <1>0 DEF TypeOK
  <2>3. jobs[t].attempts < MaxAttempts
    BY <1>0, <2>1 DEF Interrupt, RunsMatchJobs
  <2> QED
    BY <2>1, <2>2, <2>3, <1>10
<1>13. ASSUME NEW t \in JobTriggers, ForgetJob(t)
       PROVE  RunsMatchJobs'
  BY <1>0, <1>13 DEF TypeOK, RunsMatchJobs, ForgetJob, NoJob
<1>14. CASE \/ SubmitCommit \/ ResetCommit \/ AgentCommit \/ FreezeCommit
            \/ FileSar \/ AssignClosedCase
            \/ \E r \in Reviewers : DecisionCommit(r) \/ DecisionAudit(r)
  BY <1>14, <1>1
  DEF SubmitCommit, ResetCommit, AgentCommit, FreezeCommit, FileSar,
      AssignClosedCase, DecisionCommit, DecisionAudit
<1> QED
  BY <1>1, <1>3, <1>4, <1>5, <1>7, <1>8, <1>9, <1>11, <1>12, <1>13, <1>14,
     RunWriters
  DEF RunStep

\* finalize's mapping of a verdict agrees with the state machine's.
LEMMA VerdictStatusAgrees ==
  \A verdict \in Verdicts :
    VerdictStatus(verdict) = applicantStatusFor(verdict, "RESET_BY_ADMIN")
  BY DEF Verdicts, VerdictStatus, applicantStatusFor

\* Every step keeps the status columns and the timeline in agreement.
LEMMA RowStep ==
  ASSUME Inductive, [Next]_vars
  PROVE  RowMatchesTimeline'
<1>0. TypeOK /\ RunsMatchJobs /\ RowMatchesTimeline /\ RequestsLegal
  BY DEF Inductive
<1>1. CASE UNCHANGED <<reviewStatus, status, lastEvent>>
  BY <1>0, <1>1 DEF RowMatchesTimeline
<1>2. ASSUME NEW to, NEW s, NEW from, NEW actor, NEW writer, NEW reviewed,
             WriteStatus(to, s, from, actor, writer, reviewed),
             s \in {"PROCESSING", applicantStatusFor(to, "RESET_BY_ADMIN")}
      PROVE  RowMatchesTimeline'
  BY <1>2 DEF WriteStatus, RowMatchesTimeline, applicantStatusFor
<1>3. ASSUME NEW h \in Handlers, NEW actor, NEW reviewed,
             WriteStatus(Target(req[h].trigger),
                         applicantStatusFor(Target(req[h].trigger),
                                            req[h].trigger),
                         req[h].from, actor, h, reviewed)
      PROVE  RowMatchesTimeline'
  <2>1. req[h].trigger \in Triggers
    BY <1>0 DEF TypeOK
  <2> QED
    BY <2>1, <1>3, <1>2, TargetType, ApplicantStatusType
<1>4. CASE SubmitCommit
  BY <1>4, <1>3 DEF SubmitCommit, Handlers, Services
<1>5. ASSUME NEW r \in Reviewers, DecisionCommit(r)
      PROVE  RowMatchesTimeline'
  BY <1>5, <1>3 DEF DecisionCommit, Handlers
<1>6. CASE ResetCommit
  <2>1. applicantStatusFor(Target("RESET_BY_ADMIN"), "RESET_BY_ADMIN") = "INIT"
    BY ResetTrigger DEF applicantStatusFor
  <2> QED
    BY <1>6, <2>1, <1>2 DEF ResetCommit
<1>7. CASE AgentCommit
  <2>1. applicantStatusFor("REJECTED_RETRY", "RESET_BY_ADMIN")
          = "AWAITING_USER"
    BY DEF applicantStatusFor
  <2> QED
    BY <1>7, <2>1, <1>2 DEF AgentCommit
<1>8. CASE FreezeCommit
  <2>1. applicantStatusFor("ON_HOLD", "RESET_BY_ADMIN") = "ON_HOLD"
    BY DEF applicantStatusFor
  <2> QED
    BY <1>8, <2>1, <1>2 DEF FreezeCommit
<1>9. ASSUME NEW t \in JobTriggers, StartRun(t)
      PROVE  RowMatchesTimeline'
  BY <1>0, <1>9 DEF StartRun, RowMatchesTimeline, applicantStatusFor
<1>10. ASSUME NEW t \in JobTriggers, CommitVerdict(t)
       PROVE  RowMatchesTimeline'
  <2>1. run[t].to \in Verdicts
    BY <1>0, <1>10 DEF CommitVerdict, At, RunsMatchJobs
  <2> QED
    BY <1>10, <2>1, <1>2, VerdictStatusAgrees DEF CommitVerdict
<1> QED
  BY <1>1, <1>4, <1>5, <1>6, <1>7, <1>8, <1>9, <1>10, RowWriters

\* Nobody but a run queues an applicant or signs as SYSTEM.
LEMMA OthersDoNotQueue ==
  ASSUME Inductive,
         \/ SubmitCommit
         \/ \E r \in Reviewers : DecisionCommit(r)
         \/ ResetCommit \/ AgentCommit \/ FreezeCommit
  PROVE  reviewStatus' # "QUEUED" /\ lastEvent'.actor # "SYSTEM"
<1>0. RequestsLegal
  BY DEF Inductive
<1>1. CASE SubmitCommit
  BY <1>0, <1>1, SubmissionTriggers
  DEF RequestsLegal, SubmitCommit, WriteStatus
<1>2. ASSUME NEW r \in Reviewers, DecisionCommit(r)
      PROVE  reviewStatus' # "QUEUED" /\ lastEvent'.actor # "SYSTEM"
  BY <1>0, <1>2, DecisionTriggers
  DEF RequestsLegal, DecisionCommit, WriteStatus
<1>3. CASE ResetCommit \/ AgentCommit \/ FreezeCommit
  BY <1>3, ResetTrigger
  DEF ResetCommit, AgentCommit, FreezeCommit, WriteStatus
<1> QED
  BY <1>1, <1>2, <1>3

\* Every step keeps the writer of a QUEUED or SYSTEM status a run.
LEMMA QueueWriterStep ==
  ASSUME Inductive, [Next]_vars
  PROVE  OnlyRunsQueue'
<1>0. OnlyRunsQueue
  BY DEF Inductive
<1>1. CASE UNCHANGED <<reviewStatus, status, lastEvent>>
  BY <1>0, <1>1 DEF OnlyRunsQueue
<1>2. ASSUME NEW t \in JobTriggers, StartRun(t)
      PROVE  OnlyRunsQueue'
  BY <1>0, <1>2 DEF OnlyRunsQueue, StartRun
<1>3. ASSUME NEW t \in JobTriggers, CommitVerdict(t)
      PROVE  OnlyRunsQueue'
  BY <1>3 DEF OnlyRunsQueue, CommitVerdict, WriteStatus
<1>4. CASE \/ SubmitCommit
           \/ \E r \in Reviewers : DecisionCommit(r)
           \/ ResetCommit \/ AgentCommit \/ FreezeCommit
  BY <1>4, OthersDoNotQueue DEF OnlyRunsQueue
<1> QED
  BY <1>1, <1>2, <1>3, <1>4, RowWriters

\* Every step keeps a queued applicant in a queue, or the reason why not.
LEMMA QueueStep ==
  ASSUME Inductive, [Next]_vars
  PROVE  QueuedIsVisible'
<1>0. TypeOK /\ RunsMatchJobs /\ OnlyRunsQueue /\ QueuedIsVisible
  BY DEF Inductive
<1>1. CASE UNCHANGED <<reviewStatus, lastEvent, run, standing, openCases>>
  BY <1>0, <1>1 DEF QueuedIsVisible
<1>2. CASE \/ SubmitCommit
           \/ \E r \in Reviewers : DecisionCommit(r)
           \/ ResetCommit \/ AgentCommit \/ FreezeCommit
  BY <1>2, OthersDoNotQueue DEF QueuedIsVisible
<1>3. CASE \/ SubmitEnqueue \/ PeriodicSweep
           \/ \E t \in JobTriggers : ForgetJob(t)
  BY <1>3, <1>1 DEF SubmitEnqueue, PeriodicSweep, ForgetJob, row, cases
<1>4. ASSUME NEW r \in Reviewers, DecisionAudit(r)
      PROVE  QueuedIsVisible'
  BY <1>0, <1>4 DEF TypeOK, QueuedIsVisible, DecisionAudit, Audited, cases
<1>5. CASE FileSar
  BY <1>0, <1>5 DEF TypeOK, QueuedIsVisible, FileSar
<1>6. CASE AssignClosedCase
  BY <1>0, <1>6 DEF TypeOK, QueuedIsVisible, AssignClosedCase, row
\* A run that moves between other steps than those on the way to a case does
\* not take a case away.
<1>7. ASSUME NEW t \in JobTriggers, run[t].pc \notin {"case", "create"},
             \A u \in JobTriggers \ {t} : run'[u] = run[u],
             UNCHANGED <<reviewStatus, lastEvent, openCases>>,
             standing'.interrupted = standing.interrupted,
             standing'.sarFiled = standing.sarFiled
      PROVE  QueuedIsVisible'
  BY <1>0, <1>7 DEF QueuedIsVisible, OnlyRunsQueue
<1>8. ASSUME NEW t \in JobTriggers, StartRun(t)
      PROVE  QueuedIsVisible'
  <2>1. run[t].pc = "none"
    BY <1>0, <1>8 DEF StartRun, RunsMatchJobs
  <2> QED
    BY <1>0, <1>8, <2>1, <1>7 DEF TypeOK, StartRun, Move, cases
<1>9. ASSUME NEW t \in JobTriggers, NEW verdict \in Verdicts,
             AssembleFacts(t, verdict)
      PROVE  QueuedIsVisible'
  BY <1>0, <1>9, <1>7 DEF TypeOK, AssembleFacts, At, row, cases
<1>10. ASSUME NEW t \in JobTriggers, CommitVerdict(t)
       PROVE  QueuedIsVisible'
  <2>1. reviewStatus' = "QUEUED" => run'[t].pc = "case"
    BY <1>0, <1>10 DEF TypeOK, CommitVerdict, WriteStatus, NoRun
  <2>2. lastEvent'.writer = t
    BY <1>10 DEF CommitVerdict, WriteStatus
  <2> QED
    BY <2>1, <2>2 DEF QueuedIsVisible
<1>11. ASSUME NEW t \in JobTriggers, RecordReview(t) \/ AppendAudit(t)
       PROVE  QueuedIsVisible'
  <2>1. run[t].pc \in {"review", "audit"}
    BY <1>11 DEF RecordReview, AppendAudit, At
  <2>2. /\ standing'.interrupted = standing.interrupted
        /\ standing'.sarFiled = standing.sarFiled
    BY <1>0, <1>11 DEF TypeOK, RecordReview, AppendAudit, Audited
  <2>3. \A u \in JobTriggers \ {t} : run'[u] = run[u]
    BY <1>0, <1>11 DEF TypeOK, RecordReview, AppendAudit, Move
  <2> QED
    BY <1>11, <2>1, <2>2, <2>3, <1>7 DEF RecordReview, AppendAudit, cases
<1>12. ASSUME NEW t \in JobTriggers, SubscribeMonitoring(t)
       PROVE  QueuedIsVisible'
  BY <1>0, <1>12, <1>7
  DEF TypeOK, SubscribeMonitoring, At, Move, row, cases
<1>13. ASSUME NEW t \in JobTriggers, FindCase(t)
       PROVE  QueuedIsVisible'
  <2>1. CASE openCases > 0
    BY <1>13, <2>1 DEF FindCase, QueuedIsVisible, cases
  <2>2. CASE ~(openCases > 0)
    <3>1. run' = [run EXCEPT ![t].pc = "create"]
      BY <1>13, <2>2 DEF FindCase, Move
    <3>2. \A u \in JobTriggers :
            run[u].pc \in {"case", "create"} =>
              run'[u].pc \in {"case", "create"}
      BY <1>0, <3>1 DEF TypeOK
    <3> QED
      BY <1>0, <1>13, <3>2
      DEF FindCase, QueuedIsVisible, OnlyRunsQueue, row, cases
  <2> QED
    BY <2>1, <2>2
<1>14. ASSUME NEW t \in JobTriggers, CreateCase(t)
       PROVE  QueuedIsVisible'
  BY <1>0, <1>14 DEF TypeOK, QueuedIsVisible, CreateCase
<1>15. ASSUME NEW t \in JobTriggers, CompleteRun(t)
       PROVE  QueuedIsVisible'
  BY <1>0, <1>15, <1>7 DEF TypeOK, CompleteRun, At, row, cases
\* An interruption of the run that queued the applicant is on record.
<1>16. ASSUME NEW t \in JobTriggers, NEW job, Interrupt(t, job)
       PROVE  QueuedIsVisible'
  <2>1. CASE run[t].pc \in {"case", "create"} /\ lastEvent.writer = t
    BY <1>0, <1>16, <2>1
    DEF TypeOK, Interrupt, QueuedIsVisible, AfterCommit
  <2>2. CASE run[t].pc \notin {"case", "create"} \/ lastEvent.writer # t
    <3>1. \A u \in JobTriggers \ {t} : run'[u] = run[u]
      BY <1>0, <1>16 DEF TypeOK, Interrupt
    <3>2. /\ standing.interrupted => standing'.interrupted
          /\ standing'.sarFiled = standing.sarFiled
      BY <1>0, <1>16 DEF TypeOK, Interrupt
    <3> QED
      BY <1>0, <1>16, <2>2, <3>1, <3>2
      DEF Interrupt, QueuedIsVisible, OnlyRunsQueue, cases
  <2> QED
    BY <2>1, <2>2
<1>17. ASSUME NEW t \in JobTriggers, RunThrows(t) \/ WorkerDies(t)
       PROVE  QueuedIsVisible'
  BY <1>16, <1>17 DEF RunThrows, WorkerDies
<1> QED
  BY <1>1, <1>2, <1>3, <1>4, <1>5, <1>6, <1>8, <1>9, <1>10, <1>11, <1>12,
     <1>13, <1>14, <1>15, <1>17, RowWriters, RunWriters
  DEF RunStep

\* The two conjuncts on how an automated decision is recorded, together: both
\* follow the run that made it through its steps after the commit.
LEMMA RecordStep ==
  ASSUME Inductive, [Next]_vars
  PROVE  AutomatedDecisionRecorded' /\ AuditFollowsReview'
<1> DEFINE Recorded == AutomatedDecisionRecorded /\ AuditFollowsReview
<1> USE DEF AutomatedDecisionRecorded, AuditFollowsReview
<1>0. TypeOK /\ RunsMatchJobs /\ OnlyRunsQueue /\ Recorded
  BY DEF Inductive
<1>1. CASE UNCHANGED <<reviewStatus, lastEvent, run, standing>>
  BY <1>0, <1>1
<1>2. CASE \/ SubmitCommit
           \/ \E r \in Reviewers : DecisionCommit(r)
           \/ ResetCommit \/ AgentCommit \/ FreezeCommit
  BY <1>2, OthersDoNotQueue
<1>3. CASE \/ SubmitEnqueue \/ PeriodicSweep \/ AssignClosedCase
           \/ \E t \in JobTriggers : ForgetJob(t)
  BY <1>3, <1>1
  DEF SubmitEnqueue, PeriodicSweep, AssignClosedCase, ForgetJob, row, cases
<1>4. ASSUME NEW r \in Reviewers, DecisionAudit(r)
      PROVE  Recorded'
  <2>1. /\ standing'.reviewed = standing.reviewed
        /\ standing'.interrupted = standing.interrupted
        /\ standing.audited => standing'.audited
    BY <1>0, <1>4 DEF TypeOK, DecisionAudit, Audited
  <2> QED
    BY <1>0, <1>4, <2>1 DEF DecisionAudit, cases
<1>5. CASE FileSar
  BY <1>0, <1>5 DEF TypeOK, FileSar
\* A run that moves between other steps than its review and audit.
<1>6. ASSUME NEW t \in JobTriggers,
             run[t].pc \notin {"review", "audit"}, run'[t].pc # "audit",
             \A u \in JobTriggers \ {t} : run'[u] = run[u],
             UNCHANGED <<reviewStatus, lastEvent, standing>>
      PROVE  Recorded'
  BY <1>0, <1>6 DEF OnlyRunsQueue
<1>7. ASSUME NEW t \in JobTriggers, StartRun(t)
      PROVE  Recorded'
  <2>1. run[t].pc = "none"
    BY <1>0, <1>7 DEF StartRun, RunsMatchJobs
  <2> QED
    BY <1>0, <1>7, <2>1, <1>6 DEF TypeOK, StartRun, Move, cases
<1>8. ASSUME NEW t \in JobTriggers, NEW verdict \in Verdicts,
             AssembleFacts(t, verdict)
      PROVE  Recorded'
  BY <1>0, <1>8, <1>6 DEF TypeOK, AssembleFacts, At, row, cases
<1>9. ASSUME NEW t \in JobTriggers, CommitVerdict(t)
      PROVE  Recorded'
  <2>1. /\ reviewStatus' # "QUEUED" => run'[t].pc = "review"
        /\ run'[t].pc # "audit"
    BY <1>0, <1>9 DEF TypeOK, CommitVerdict, WriteStatus, NoRun
  <2>2. lastEvent'.writer = t
    BY <1>9 DEF CommitVerdict, WriteStatus
  <2> QED
    BY <2>1, <2>2
<1>10. ASSUME NEW t \in JobTriggers, RecordReview(t)
       PROVE  Recorded'
  <2>1. /\ run[t].pc = "review"
        /\ run'[t].pc = "audit"
        /\ \A u \in JobTriggers \ {t} : run'[u] = run[u]
    BY <1>0, <1>10 DEF TypeOK, RecordReview, At, Move
  <2>2. /\ lastEvent.writer = t \/ standing.reviewed => standing'.reviewed
        /\ standing'.audited = standing.audited
        /\ standing'.interrupted = standing.interrupted
    BY <1>0, <1>10 DEF TypeOK, RecordReview
  <2> QED
    BY <1>0, <1>10, <2>1, <2>2 DEF RecordReview, OnlyRunsQueue, cases
<1>11. ASSUME NEW t \in JobTriggers, AppendAudit(t)
       PROVE  Recorded'
  <2>1. /\ run[t].pc = "audit"
        /\ run'[t].pc = "monitoring"
        /\ \A u \in JobTriggers \ {t} : run'[u] = run[u]
    BY <1>0, <1>11 DEF TypeOK, AppendAudit, At, Move
  <2>2. /\ lastEvent.writer = t \/ standing.audited => standing'.audited
        /\ standing'.reviewed = standing.reviewed
        /\ standing'.interrupted = standing.interrupted
    BY <1>0, <1>11 DEF TypeOK, AppendAudit, Audited
  <2> QED
    BY <1>0, <1>11, <2>1, <2>2 DEF AppendAudit, OnlyRunsQueue, cases
<1>12. ASSUME NEW t \in JobTriggers,
              SubscribeMonitoring(t) \/ FindCase(t) \/ CreateCase(t)
       PROVE  Recorded'
  <2>1. \E pc \in {"emit", "create"} : run' = [run EXCEPT ![t].pc = pc]
    BY <1>12 DEF SubscribeMonitoring, FindCase, CreateCase, Move
  <2>2. run[t].pc \notin {"review", "audit"}
    BY <1>12 DEF SubscribeMonitoring, FindCase, CreateCase, At
  <2>3. UNCHANGED <<reviewStatus, lastEvent, standing>>
    BY <1>12 DEF SubscribeMonitoring, FindCase, CreateCase, row
  <2>4. run'[t].pc # "audit" /\ \A u \in JobTriggers \ {t} : run'[u] = run[u]
    BY <1>0, <2>1 DEF TypeOK
  <2> QED
    BY <2>2, <2>3, <2>4, <1>6
<1>13. ASSUME NEW t \in JobTriggers, CompleteRun(t)
       PROVE  Recorded'
  BY <1>0, <1>13, <1>6 DEF TypeOK, CompleteRun, NoRun, At, row, cases
<1>14. ASSUME NEW t \in JobTriggers, NEW job, Interrupt(t, job)
       PROVE  Recorded'
  <2>1. /\ run'[t].pc = "none"
        /\ \A u \in JobTriggers \ {t} : run'[u] = run[u]
    BY <1>0, <1>14 DEF TypeOK, Interrupt, NoRun
  <2>2. /\ standing'.reviewed = standing.reviewed
        /\ standing'.audited = standing.audited
        /\ standing.interrupted => standing'.interrupted
        /\ run[t].pc \in {"review", "audit"} /\ lastEvent.writer = t
             => standing'.interrupted
    BY <1>0, <1>14 DEF TypeOK, Interrupt, AfterCommit
  <2> QED
    BY <1>0, <1>14, <2>1, <2>2 DEF Interrupt, OnlyRunsQueue, cases
<1>15. ASSUME NEW t \in JobTriggers, RunThrows(t) \/ WorkerDies(t)
       PROVE  Recorded'
  BY <1>14, <1>15 DEF RunThrows, WorkerDies
<1> QED
  BY <1>1, <1>2, <1>3, <1>4, <1>5, <1>7, <1>8, <1>9, <1>10, <1>11, <1>12,
     <1>13, <1>15, RowWriters, RunWriters
  DEF RunStep

----------------------------------------------------------------------------
(* The theorems.                                                           *)

\* The initial state satisfies the inductive invariant.
LEMMA InitInductive == Init => Inductive
<1> SUFFICES ASSUME Init PROVE Inductive
  OBVIOUS
<1> USE LimitsAssumption DEF Init
<1>1. TypeOK
  <2>1. jobs \in [JobTriggers -> JobRecords]
    BY DEF NoJob, JobRecords, JobStates
  <2>2. run \in [JobTriggers -> RunRecords]
    BY DEF NoRun, RunRecords, RunPcs, ReviewStatuses
  <2>3. req \in [Handlers -> ReqRecords]
    BY ResetTrigger DEF NoReq, ReqRecords, ReqPcs, ReviewStatuses
  <2>4. standing \in Standings
    BY DEF Standings
  <2>5. /\ reviewStatus \in ReviewStatuses
        /\ status \in ApplicantStatuses
        /\ lastEvent \in [from : ReviewStatuses, to : ReviewStatuses,
                          actor : ActorTypes, writer : Writers]
    BY DEF ReviewStatuses, ApplicantStatuses, ActorTypes, Writers, Services
  <2> QED
    BY <2>1, <2>2, <2>3, <2>4, <2>5
    DEF TypeOK, JobRecords, RunRecords, ReqRecords, Standings
<1>2. RowMatchesTimeline
  BY DEF RowMatchesTimeline, applicantStatusFor
<1>3. QueuedIsVisible /\ AutomatedDecisionRecorded /\ OnlyRunsQueue
        /\ AuditFollowsReview
  BY DEF QueuedIsVisible, AutomatedDecisionRecorded, OnlyRunsQueue,
         AuditFollowsReview
<1>4. RequestsLegal
  BY DEF RequestsLegal, NoReq, Handlers, Services
<1>5. RunsMatchJobs
  BY DEF RunsMatchJobs, NoRun, NoJob
<1> QED
  BY <1>1, <1>2, <1>3, <1>4, <1>5 DEF Inductive

\* Every step, and every stutter, preserves the inductive invariant.
LEMMA StepInductive == Inductive /\ [Next]_vars => Inductive'
<1> SUFFICES ASSUME Inductive, [Next]_vars PROVE Inductive'
  OBVIOUS
<1>1. TypeOK'
  BY StepTypes DEF Inductive
<1> QED
  BY <1>1, RowStep, QueueStep, RecordStep, RequestsStep, RunsStep,
     QueueWriterStep
  DEF Inductive

\* The inductive invariant holds in every reachable state: the requests about
\* to write are legal, the runs match their jobs, and the rest follows.
THEOREM InductiveHolds == Spec => []Inductive
  BY InitInductive, StepInductive, PTL DEF Spec

\* Every variable keeps its type; the job counters stay within their limits.
THEOREM TypesHold == Spec => []TypeOK
<1>1. Inductive => TypeOK
  BY DEF Inductive
<1> QED
  BY <1>1, InductiveHolds, PTL

\* The status columns and the timeline agree whoever wrote last.
THEOREM RowMatches == Spec => []RowMatchesTimeline
<1>1. Inductive => RowMatchesTimeline
  BY DEF Inductive
<1> QED
  BY <1>1, InductiveHolds, PTL

\* A queued applicant has an open review case, or a named reason not to.
THEOREM QueuedVisible == Spec => []QueuedIsVisible
<1>1. Inductive => QueuedIsVisible
  BY DEF Inductive
<1> QED
  BY <1>1, InductiveHolds, PTL

\* An automated decision that no crash interrupted is reviewed and audited.
THEOREM DecisionsRecorded == Spec => []AutomatedDecisionRecorded
<1>1. Inductive => AutomatedDecisionRecorded
  BY DEF Inductive
<1> QED
  BY <1>1, InductiveHolds, PTL

\* A step out of a final rejection is a run's, the administrator's, or that of
\* a writer who had read another status.
LEMMA FreshReadsStep ==
  ASSUME Inductive, [Next]_vars, reviewStatus = "REJECTED_FINAL",
         reviewStatus' # "REJECTED_FINAL"
  PROVE  \/ lastEvent'.actor = "SYSTEM"
         \/ lastEvent'.writer = "admin"
         \/ lastEvent'.from # "REJECTED_FINAL"
<1>0. RequestsLegal
  BY DEF Inductive
<1>1. CASE SubmitCommit
  BY <1>0, <1>1 DEF SubmitCommit, WriteStatus, RequestsLegal
<1>2. ASSUME NEW r \in Reviewers, DecisionCommit(r)
      PROVE  lastEvent'.from # "REJECTED_FINAL"
  BY <1>0, <1>2 DEF DecisionCommit, WriteStatus, RequestsLegal
<1>3. CASE ResetCommit
  BY <1>3 DEF ResetCommit, WriteStatus
<1>4. CASE AgentCommit
  BY <1>0, <1>4 DEF AgentCommit, WriteStatus, RequestsLegal
<1>5. CASE FreezeCommit
  BY <1>5 DEF FreezeCommit, WriteStatus
<1>6. ASSUME NEW t \in JobTriggers, CommitVerdict(t)
      PROVE  lastEvent'.actor = "SYSTEM"
  BY <1>6 DEF CommitVerdict, WriteStatus
<1>7. ASSUME NEW t \in JobTriggers, StartRun(t)
      PROVE  FALSE
  BY <1>7 DEF StartRun
<1> QED
  BY <1>1, <1>2, <1>3, <1>4, <1>5, <1>6, <1>7, RowWriters

\* No handler that has read a final rejection takes the applicant out of it.
THEOREM FreshReads == Spec => FreshReadsRespectFinal
<1>1. Inductive /\ [Next]_vars =>
        [reviewStatus = "REJECTED_FINAL" /\ reviewStatus' # "REJECTED_FINAL"
           => \/ lastEvent'.actor = "SYSTEM"
              \/ lastEvent'.writer = "admin"
              \/ lastEvent'.from # "REJECTED_FINAL"]_vars
  BY FreshReadsStep
<1> QED
  BY <1>1, InductiveHolds, PTL DEF Spec, FreshReadsRespectFinal
=============================================================================
