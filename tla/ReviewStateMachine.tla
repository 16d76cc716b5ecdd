------------------------- MODULE ReviewStateMachine -------------------------
(***************************************************************************)
(* The applicant review lifecycle of packages/core/src/state-machine.ts:   *)
(* the statuses, the table of legal transitions and the guards around it.  *)
(* Pure operators; the modules that write reviewStatus extend this one.    *)
(***************************************************************************)

ReviewStatuses == {"NOT_STARTED", "PENDING", "QUEUED", "ON_HOLD",
                   "APPROVED", "REJECTED_RETRY", "REJECTED_FINAL"}

ApplicantStatuses == {"INIT", "PENDING", "AWAITING_USER", "QUEUED",
                      "PROCESSING", "ON_HOLD", "COMPLETED"}

ActorTypes == {"SYSTEM", "USER", "APPLICANT", "AI_AGENT", "API", "SCHEDULER"}

\* The roles of a tenant's users, and the ones allowed a privileged transition.
Roles == {"AUDITOR", "AI_AGENT", "AGENT", "COMPLIANCE_OFFICER", "MLRO",
          "ADMIN", "OWNER"}

NoRole == "none"

PRIVILEGED_ROLES == {"OWNER", "ADMIN", "COMPLIANCE_OFFICER", "MLRO"}

----------------------------------------------------------------------------
\* Who may take a transition: any actor, a human, a human with authority.
Anyone(from, to) ==
  [from |-> from, to |-> to, requiresHuman |-> FALSE, privileged |-> FALSE]

Human(from, to) ==
  [from |-> from, to |-> to, requiresHuman |-> TRUE, privileged |-> FALSE]

Privileged(from, to) ==
  [from |-> from, to |-> to, requiresHuman |-> TRUE, privileged |-> TRUE]

TRANSITIONS ==
  [ APPLICANT_SUBMITTED |->
      Anyone({"NOT_STARTED", "PENDING", "REJECTED_RETRY"}, "PENDING"),
    CHECKS_STARTED   |-> Anyone({"PENDING", "QUEUED"}, "PENDING"),
    CHECKS_COMPLETED |-> Anyone({"PENDING"}, "PENDING"),
    AUTO_APPROVED    |-> Anyone({"PENDING"}, "APPROVED"),
    AUTO_REJECTED    |-> Anyone({"PENDING"}, "REJECTED_RETRY"),
    ROUTED_TO_QUEUE  |-> Anyone({"PENDING", "ON_HOLD"}, "QUEUED"),
    REVIEWER_APPROVED |->
      Human({"QUEUED", "ON_HOLD", "PENDING"}, "APPROVED"),
    REVIEWER_REJECTED_RETRY |->
      Human({"QUEUED", "ON_HOLD", "PENDING"}, "REJECTED_RETRY"),
    REVIEWER_REJECTED_FINAL |->
      Human({"QUEUED", "ON_HOLD", "PENDING", "APPROVED"}, "REJECTED_FINAL"),
    PUT_ON_HOLD   |-> Anyone({"PENDING", "QUEUED", "APPROVED"}, "ON_HOLD"),
    HOLD_RELEASED |-> Anyone({"ON_HOLD"}, "QUEUED"),
    APPLICANT_RESUBMITTED |-> Anyone({"REJECTED_RETRY", "ON_HOLD"}, "PENDING"),
    MONITORING_HIT      |-> Anyone({"APPROVED"}, "ON_HOLD"),
    PERIODIC_REVIEW_DUE |-> Anyone({"APPROVED"}, "QUEUED"),
    DECISION_OVERTURNED_ON_APPEAL |->
      Privileged({"REJECTED_FINAL", "REJECTED_RETRY"}, "QUEUED"),
    RESET_BY_ADMIN |-> Privileged(ReviewStatuses, "NOT_STARTED") ]

Triggers == DOMAIN TRANSITIONS

\* Whether the transition is legal for this actor. The handlers call it through
\* `transition`, which throws when it is not: a guard of their actions.
canTransition(from, trigger, actorType, actorRole) ==
  LET t == TRANSITIONS[trigger] IN
    /\ from \in t.from
    /\ t.requiresHuman => actorType = "USER"
    /\ t.privileged => actorRole \in PRIVILEGED_ROLES

Target(trigger) == TRANSITIONS[trigger].to

\* The coarse applicant-facing status derived from the review status.
applicantStatusFor(status, trigger) ==
  CASE status = "NOT_STARTED"    -> "INIT"
    [] status = "PENDING" -> IF trigger = "CHECKS_STARTED" THEN "PROCESSING"
                                                           ELSE "PENDING"
    [] status = "QUEUED"         -> "QUEUED"
    [] status = "ON_HOLD"        -> "ON_HOLD"
    [] status = "REJECTED_RETRY" -> "AWAITING_USER"
    [] OTHER                     -> "COMPLETED"

isTerminal(status) == status \in {"APPROVED", "REJECTED_FINAL"}

acceptsSubmissions(status) ==
  status \in {"NOT_STARTED", "PENDING", "REJECTED_RETRY"}
=============================================================================
