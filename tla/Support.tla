------------------------------ MODULE Support -------------------------------
(***************************************************************************)
(* One support ticket: the applicant's messages, the runs of the agent that *)
(* answers them (agent/src/service.ts, runtime-stub.ts, runtime-claude.ts), *)
(* the tools a run calls through the policy (tools.ts), and the staff who   *)
(* accept and resolve escalations (api/src/routes/support.ts). Requests are *)
(* not serialised: between any two statements one of them awaits, another   *)
(* request or a member of staff may act, and a statement may throw.         *)
(***************************************************************************)
EXTENDS SupportPolicy

CONSTANTS
  Texts,       \* what an applicant may write: the intents it matches, its sentiment,
               \* whether it asks for a person or mentions a regulator
  Applicants,  \* whom the ticket may be about
  Runtimes,    \* "stub", "claude"
  MaxTurns,    \* the model's iterations
  MaxRuns, MaxStaff, MaxTrouble   \* bounds: agent runs, acts of staff, faults

ASSUME SupportAssumption ==
  /\ {MaxTurns, MaxRuns, MaxStaff, MaxTrouble} \subseteq Nat
  /\ \A text \in Texts : text.sentiment \in Int /\ text.chosen \in SUPPORT_INTENTS

VARIABLES
  runtime,      \* the agent's
  applicant,    \* is the ticket linked to one, and where their review stands
  ticket,       \* status, handler, intent, case
  transcript,   \* the messages that are kept: role, and the request behind it
  runs,         \* the requests for an answer, each with its AgentRun row
  escalations,  \* rows: status, and the run that made it
  desk,         \* requests of staff that have yet to write the ticket
  inFlight,     \* history: the requests past the check when it was last taken
  staff, trouble

vars == <<runtime, applicant, ticket, transcript, runs, escalations, desk, inFlight,
          staff, trouble>>

NoTicket  == [status |-> "none", handledBy |-> "AI_AGENT", intent |-> "UNKNOWN",
              hasCase |-> FALSE]
WithHuman == {"ESCALATED", "PENDING_HUMAN"}

Init ==
  /\ runtime \in Runtimes /\ applicant \in Applicants
  /\ ticket = NoTicket /\ transcript = {} /\ runs = <<>> /\ escalations = <<>>
  /\ desk = [accept |-> 0, reply |-> 0] /\ inFlight = {}
  /\ staff = 0 /\ trouble = MaxTrouble

\* A request for an answer: what it asks, how far its process is, what the runtime
\* counts. There is no AgentRun row (status "none") until the run is created.
NewRun(text, intent, stage) ==
  [status |-> "none", stage |-> stage, text |-> text, intent |-> intent,
   calls |-> 0, failures |-> 0, confidence |-> 80, escalated |-> FALSE,
   refused |-> FALSE]

Live(r)      == runs[r].status \in {"none", "RUNNING"} /\ runs[r].stage \notin {"over", "dead"}
At(r, stage) == Live(r) /\ runs[r].stage = stage
Set(r, run)  == runs' = [runs EXCEPT ![r] = run]
Troubled     == trouble > 0 /\ trouble' = trouble - 1

\* Past the check of the ticket's status: what goes on to write and to answer.
PastTheCheck(r) == Live(r) /\ runs[r].stage # "check"

----------------------------------------------------------------------------
(* Messages.                                                               *)

\* A ticket is opened and classified, with its first message.
CreateTicket(text, intent) ==
  /\ ticket = NoTicket
  /\ ticket' = [NoTicket EXCEPT !.status = "OPEN", !.intent =
                  IF intent # "none" THEN intent
                  ELSE classifyIntentHeuristic(text.matched).intent]
  /\ transcript' = {[role |-> "APPLICANT", run |-> 1]}
  /\ runs' = <<NewRun(text, ticket'.intent, "check")>>
  /\ UNCHANGED <<runtime, applicant, escalations, desk, inFlight, staff, trouble>>

\* The same request then asks for an answer to it.
CheckTicket(r) ==
  /\ At(r, "check")
  /\ Set(r, [runs[r] EXCEPT !.stage = IF ticket.status \in WithHuman THEN "over"
                                      ELSE "create"])
  /\ UNCHANGED <<runtime, applicant, ticket, transcript, escalations, desk, inFlight,
                 staff, trouble>>

\* Mutant: only a ticket that waits for a person is left alone.
answersAcceptedTickets(text) ==
  /\ ticket # NoTicket /\ ticket.status # "ESCALATED" /\ Len(runs) < MaxRuns
  /\ runs' = Append(runs, NewRun(text, ticket.intent, "message"))
  /\ UNCHANGED <<runtime, applicant, ticket, transcript, escalations, desk, inFlight,
                 staff, trouble>>

\* A later message. One to a ticket that is with a person is not answered and not
\* kept; what the check reads here is not read again.
handleApplicantMessage(text) ==
  /\ ticket # NoTicket /\ ticket.status \notin WithHuman /\ Len(runs) < MaxRuns
  /\ runs' = Append(runs, NewRun(text, ticket.intent, "message"))
  /\ UNCHANGED <<runtime, applicant, ticket, transcript, escalations, desk, inFlight,
                 staff, trouble>>

KeepMessage(r) ==
  /\ At(r, "message")
  /\ transcript' = transcript \cup {[role |-> "APPLICANT", run |-> r]}
  /\ Set(r, [runs[r] EXCEPT !.stage = "create"])
  /\ UNCHANGED <<runtime, applicant, ticket, escalations, desk, inFlight, staff, trouble>>

\* The row comes before the model: a crash leaves a RUNNING row, not silence.
StartRun(r) ==
  /\ At(r, "create")
  /\ Set(r, [runs[r] EXCEPT !.stage = "begun", !.status = "RUNNING"])
  /\ UNCHANGED <<runtime, applicant, ticket, transcript, escalations, desk, inFlight,
                 staff, trouble>>

\* The reply is written before the run and the ticket are settled.
Reply(r) ==
  /\ At(r, "reply")
  /\ transcript' = transcript \cup {[role |-> "ASSISTANT", run |-> r]}
  /\ Set(r, [runs[r] EXCEPT !.stage = "settle"])
  /\ UNCHANGED <<runtime, applicant, ticket, escalations, desk, inFlight,
                 staff, trouble>>

\* The run's outcome goes to the ticket, whatever has become of it meanwhile.
Settle(r) ==
  /\ At(r, "settle")
  /\ Set(r, [runs[r] EXCEPT !.stage = "over", !.status =
         IF runs[r].escalated THEN "ESCALATED"
         ELSE IF runs[r].refused THEN "BLOCKED_BY_POLICY" ELSE "COMPLETED"])
  /\ ticket' = [ticket EXCEPT
       !.status    = IF runs[r].escalated THEN "ESCALATED" ELSE "AWAITING_APPLICANT",
       !.handledBy = IF runs[r].escalated THEN "HYBRID" ELSE "AI_AGENT"]
  /\ UNCHANGED <<runtime, applicant, transcript, escalations, desk, inFlight,
                 staff, trouble>>

\* A statement throws: a request without a row is gone, a run has failed. Inside a
\* tool nothing does (TellingFails), and behind the answer nobody catches it, which
\* leaves what ProcessDies leaves.
RunThrows(r) ==
  /\ Live(r) /\ runs[r].stage \notin {"telling", "reply", "settle"}
  /\ Troubled
  /\ Set(r, [runs[r] EXCEPT !.stage = "over",
                            !.status = IF @ = "none" THEN "none" ELSE "FAILED"])
  /\ UNCHANGED <<runtime, applicant, ticket, transcript, escalations, desk, inFlight,
                 staff>>

\* The process dies. Its run, if there is one, stays RUNNING.
ProcessDies(r) ==
  /\ Live(r)
  /\ Troubled
  /\ Set(r, [runs[r] EXCEPT !.stage = "dead"])
  /\ UNCHANGED <<runtime, applicant, ticket, transcript, escalations, desk, inFlight,
                 staff>>

----------------------------------------------------------------------------
(* Tools.                                                                  *)

\* escalate_to_human writes twice: a row for the inbox, then the ticket. A tool the
\* intent does not allow is denied, which is neither an error nor a failure.
escalateToHuman(r) ==
  /\ isToolAllowed(runs[r].intent, "escalate_to_human")
  /\ escalations' = Append(escalations, [status |-> "PENDING", run |-> r])

\* Mutant: the runtime does not look at what the model called.
TellTicketUnnoticed(r, confidence) ==
  /\ At(r, "telling")
  /\ ticket' = [ticket EXCEPT !.status = "ESCALATED", !.handledBy = "HYBRID"]
  /\ Set(r, IF runtime = "stub"
            THEN [runs[r] EXCEPT !.stage = "reply", !.escalated = TRUE]
            ELSE [runs[r] EXCEPT !.stage = "begun"])
  /\ UNCHANGED <<runtime, applicant, transcript, escalations, desk, inFlight, staff,
                 trouble>>

\* The tool is done: the offline runtime replies, the model goes on, its run noted
\* as an escalated one.
TellTicket(r, confidence) ==
  /\ At(r, "telling")
  /\ ticket' = [ticket EXCEPT !.status = "ESCALATED", !.handledBy = "HYBRID"]
  /\ Set(r, IF runtime = "stub"
            THEN [runs[r] EXCEPT !.stage = "reply", !.escalated = TRUE]
            ELSE [runs[r] EXCEPT !.stage = "begun", !.escalated = TRUE,
                                 !.confidence = confidence])
  /\ UNCHANGED <<runtime, applicant, transcript, escalations, desk, inFlight, staff,
                 trouble>>

\* The second write throws: the row stays in the inbox, the call is a failed one. The
\* offline runtime has escalated all the same; to the model it is one failure more.
TellingFails(r) ==
  /\ At(r, "telling")
  /\ Troubled
  /\ Set(r, IF runtime = "stub"
            THEN [runs[r] EXCEPT !.stage = "reply", !.escalated = TRUE]
            ELSE [runs[r] EXCEPT !.stage = "begun", !.failures = @ + 1])
  /\ UNCHANGED <<runtime, applicant, ticket, transcript, escalations, desk, inFlight,
                 staff>>

\* create_case and send_applicant_message: the ticket's case, opened if need be.
ensureCaseId == ticket' = [ticket EXCEPT !.hasCase = TRUE]

\* A read of the record fails if the ticket is about nobody, or if the read does.
Reads(failed) ==
  /\ failed \/ applicant.known
  /\ IF failed /\ applicant.known THEN Troubled ELSE UNCHANGED trouble

----------------------------------------------------------------------------
(* The offline runtime.                                                    *)

StubConfidence(run) ==
  LET c == classifyIntentHeuristic(run.text.matched)
      n == IF c.intent = run.intent THEN c.confidence ELSE 40
  IN IF applicant.known THEN n ELSE Min({n, 35})

\* It asks whether to hand over before it does anything.
StubGate(r) ==
  LET run  == runs[r]
      conf == StubConfidence(run)
      gate == shouldEscalate([intent |-> run.intent, confidence |-> conf,
                turnCount |-> 0, maxTurns |-> MaxTurns, toolFailures |-> 0,
                priorTickets |-> 0, sentiment |-> run.text.sentiment,
                askedForHuman |-> run.text.asksHuman,
                mentionsRegulator |-> run.text.regulator])
  IN /\ runtime = "stub" /\ At(r, "begun")
     /\ Set(r, [run EXCEPT !.confidence = conf,
                           !.stage = IF gate = "none" THEN "read" ELSE "escalate"])
     /\ UNCHANGED <<runtime, applicant, ticket, transcript, escalations, desk, inFlight,
                    staff, trouble>>

\* Then it answers from the record, unless it cannot be read or the latest decision
\* turns out to be final. What it reads of the decision is subject to the policy too.
StubReads(r, failed) ==
  LET run   == runs[r]
      final == /\ \/ run.intent = "DOCUMENT_REJECTED"
                  \/ applicant.reviewStatus = "REJECTED_RETRY"
               /\ isToolAllowed(run.intent, "get_rejection_reasons")
               /\ applicant.finalReview
  IN /\ At(r, "read")
     /\ Reads(failed)
     /\ Set(r, IF failed
               THEN [run EXCEPT !.stage = "escalate", !.confidence = 10]
               ELSE [run EXCEPT !.stage = IF final THEN "escalate" ELSE "reply"])
     /\ UNCHANGED <<runtime, applicant, ticket, transcript, escalations, desk, inFlight,
                    staff>>

\* Handing over: a note (which no intent allows) and the tool. Whatever the tool
\* came to, denied or failed, the run is an escalated one.
StubEscalates(r) ==
  /\ At(r, "escalate")
  /\ \/ /\ escalateToHuman(r)
        /\ Set(r, [runs[r] EXCEPT !.stage = "telling"])
        /\ UNCHANGED trouble
     \/ /\ \/ ~isToolAllowed(runs[r].intent, "escalate_to_human") /\ UNCHANGED trouble
           \/ isToolAllowed(runs[r].intent, "escalate_to_human") /\ Troubled
        /\ Set(r, [runs[r] EXCEPT !.stage = "reply", !.escalated = TRUE])
        /\ UNCHANGED escalations
  /\ UNCHANGED <<runtime, applicant, ticket, transcript, desk, inFlight, staff>>

----------------------------------------------------------------------------
(* The model's runtime: it calls whichever tools the intent offers.        *)

ModelReads(r, failed) ==
  /\ runtime = "claude" /\ At(r, "begun") /\ runs[r].calls < MaxTurns
  /\ Reads(failed)
  /\ Set(r, [runs[r] EXCEPT !.calls = @ + 1, !.failures = IF failed THEN @ + 1 ELSE @])
  /\ UNCHANGED <<runtime, applicant, ticket, transcript, escalations, desk, inFlight,
                 staff>>

ModelOpensCase(r) ==
  /\ runtime = "claude" /\ At(r, "begun") /\ runs[r].calls < MaxTurns
  /\ isToolAllowed(runs[r].intent, "create_case")
  /\ ensureCaseId
  /\ Set(r, [runs[r] EXCEPT !.calls = @ + 1])
  /\ UNCHANGED <<runtime, applicant, transcript, escalations, desk, inFlight,
                 staff, trouble>>

\* A call that fails before its first write is a failed one like any other
\* (ModelReads).
ModelEscalates(r) ==
  /\ runtime = "claude" /\ At(r, "begun") /\ runs[r].calls < MaxTurns
  /\ escalateToHuman(r)
  /\ Set(r, [runs[r] EXCEPT !.calls = @ + 1, !.stage = "telling"])
  /\ UNCHANGED <<runtime, applicant, ticket, transcript, desk, inFlight, staff, trouble>>

\* Mutant: only what the model itself decided counts.
ModelEndsUngated(r, refused) ==
  /\ runtime = "claude" /\ At(r, "begun")
  /\ Set(r, [runs[r] EXCEPT !.stage = "reply", !.refused = refused,
                            !.escalated = @ \/ refused])
  /\ UNCHANGED <<runtime, applicant, ticket, transcript, escalations, desk, inFlight,
                 staff, trouble>>

\* The policy is asked on the way out, whatever the model decided.
ModelEnds(r, refused) ==
  LET run  == runs[r]
      gate == shouldEscalate([intent |-> run.intent, confidence |-> run.confidence,
                turnCount |-> run.calls, maxTurns |-> MaxTurns,
                toolFailures |-> run.failures, priorTickets |-> 0,
                sentiment |-> run.text.sentiment, askedForHuman |-> FALSE,
                mentionsRegulator |-> FALSE])
  IN /\ runtime = "claude" /\ At(r, "begun")
     /\ Set(r, [run EXCEPT !.stage = "reply", !.refused = refused,
                           !.escalated = @ \/ refused \/ gate # "none",
                           !.confidence = IF refused THEN 0 ELSE @])
     /\ UNCHANGED <<runtime, applicant, ticket, transcript, escalations, desk, inFlight,
                    staff, trouble>>

ModelFails(r) ==
  /\ runtime = "claude" /\ At(r, "begun")
  /\ Troubled
  /\ Set(r, [runs[r] EXCEPT !.stage = "reply", !.escalated = TRUE,
                            !.confidence = 0])
  /\ UNCHANGED <<runtime, applicant, ticket, transcript, escalations, desk, inFlight,
                 staff>>

----------------------------------------------------------------------------
(* Staff, and the applicant's rating.                                      *)

Acts == ticket # NoTicket /\ staff < MaxStaff /\ staff' = staff + 1

\* Any escalation may be accepted, a resolved one too: its row is written, then the
\* ticket.
Accept(i) ==
  /\ Acts
  /\ escalations' = [escalations EXCEPT ![i].status = "ACCEPTED"]
  /\ desk' = [desk EXCEPT !.accept = @ + 1]
  /\ UNCHANGED <<runtime, applicant, ticket, transcript, runs, inFlight, trouble>>

TakeTicket ==
  /\ desk.accept > 0 /\ desk' = [desk EXCEPT !.accept = @ - 1]
  /\ ticket' = [ticket EXCEPT !.status = "PENDING_HUMAN", !.handledBy = "HUMAN"]
  /\ inFlight' = {r \in DOMAIN runs : PastTheCheck(r)}
  /\ UNCHANGED <<runtime, applicant, transcript, runs, escalations, staff, trouble>>

resolveEscalation(i, returnToAgent) ==
  /\ Acts
  /\ escalations' = [escalations EXCEPT ![i].status =
                       IF returnToAgent THEN "RETURNED_TO_AGENT" ELSE "RESOLVED"]
  /\ ticket' = [ticket EXCEPT
       !.status    = IF returnToAgent THEN "AGENT_HANDLING" ELSE "RESOLVED",
       !.handledBy = IF returnToAgent THEN "AI_AGENT" ELSE "HUMAN"]
  /\ UNCHANGED <<runtime, applicant, transcript, runs, desk, inFlight, trouble>>

\* A reply by staff: the message, then the ticket.
postHumanReply ==
  /\ Acts
  /\ transcript' = transcript \cup {[role |-> "HUMAN_AGENT", run |-> 0]}
  /\ desk' = [desk EXCEPT !.reply = @ + 1]
  /\ UNCHANGED <<runtime, applicant, ticket, runs, escalations, inFlight, trouble>>

StandDown ==
  /\ desk.reply > 0 /\ desk' = [desk EXCEPT !.reply = @ - 1]
  /\ ticket' = [ticket EXCEPT !.status = "AWAITING_APPLICANT", !.handledBy = "HUMAN"]
  /\ UNCHANGED <<runtime, applicant, transcript, runs, escalations, inFlight, staff,
                 trouble>>

Rate ==
  /\ Acts
  /\ ticket' = [ticket EXCEPT !.status = "RESOLVED"]
  /\ UNCHANGED <<runtime, applicant, transcript, runs, escalations, desk, inFlight,
                 trouble>>

----------------------------------------------------------------------------
RunStep(r) ==
  \/ CheckTicket(r) \/ KeepMessage(r) \/ StartRun(r) \/ Reply(r) \/ Settle(r)
  \/ StubGate(r) \/ StubEscalates(r) \/ ModelOpensCase(r) \/ ModelEscalates(r)
  \/ \E failed \in BOOLEAN : StubReads(r, failed) \/ ModelReads(r, failed)
  \/ \E c \in {40} : TellTicket(r, c)
  \/ \E refused \in BOOLEAN : ModelEnds(r, refused)

Fault(r) == RunThrows(r) \/ ProcessDies(r) \/ TellingFails(r) \/ ModelFails(r)

Asking ==
  \E text \in Texts : \/ handleApplicantMessage(text)
                      \/ \E i \in {"none", text.chosen} : CreateTicket(text, i)

Staff ==
  \/ \E i \in DOMAIN escalations : Accept(i) \/ \E b \in BOOLEAN : resolveEscalation(i, b)
  \/ TakeTicket \/ postHumanReply \/ StandDown \/ Rate

Next ==
  \/ Asking \/ Staff
  \/ \E r \in DOMAIN runs : RunStep(r) \/ Fault(r)

Spec == Init /\ [][Next]_vars

----------------------------------------------------------------------------
(* What holds.                                                             *)

TypeOK ==
  /\ ticket.intent \in SUPPORT_INTENTS
  /\ ticket.status \in {"none", "OPEN", "AGENT_HANDLING", "AWAITING_APPLICANT",
                        "ESCALATED", "PENDING_HUMAN", "RESOLVED"}
  /\ \A r \in DOMAIN runs :
       /\ runs[r].stage \in {"check", "message", "create", "begun", "read", "escalate",
                             "telling", "reply", "settle", "over", "dead"}
       /\ runs[r].calls \in 0 .. MaxTurns /\ runs[r].failures \in 0 .. MaxTurns
       /\ runs[r].stage \in {"check", "message", "create"} => runs[r].status = "none"
       /\ runs[r].stage \in {"begun", "read", "escalate", "telling", "reply", "settle"} =>
            runs[r].status = "RUNNING"
       /\ runs[r].stage = "over" => runs[r].status # "RUNNING"
  /\ \A i \in DOMAIN escalations : escalations[i].run \in DOMAIN runs

\* The policy holds on the way out (runtime-claude.ts, "not merely suggested on the
\* way in"; support.ts, "policy bars beat everything"): a run that leaves the ticket
\* with the applicant had an intent the agent may own, enough confidence, no upset
\* applicant, no second failure, and did not run out of turns.
PolicyOnTheWayOut ==
  \A r \in DOMAIN runs :
    runs[r].status = "COMPLETED" =>
      /\ ~INTENT_POLICY[runs[r].intent].requiresHuman
      /\ runs[r].confidence >= INTENT_POLICY[runs[r].intent].minConfidence
      /\ runs[r].text.sentiment > -6
      /\ runs[r].failures < 2
      /\ runs[r].calls < MaxTurns

Rows(r) == {i \in DOMAIN escalations : escalations[i].run = r}

\* The inbox and the outcome the service records agree, but for one lost call: a run
\* that ends as one that has answered leaves no row in the inbox, unless it is the
\* model's, one call of it failed between its two writes (tools.ts:617-630), and
\* that was the only one. Two such calls and the policy hands over; a call that went
\* through, or any call of the offline runtime, makes the run an escalated one.
InboxMatchesOutcome ==
  \A r \in DOMAIN runs :
    runs[r].status \in {"COMPLETED", "BLOCKED_BY_POLICY"} /\ Rows(r) # {} =>
      /\ runtime # "stub" /\ runs[r].failures = 1
      /\ \A i, j \in Rows(r) : i = j

\* "A ticket a human has taken over must not be answered by the agent behind their
\* back" (service.ts:171). What is left of it: while somebody has accepted the
\* ticket, only requests that had passed the check before it was taken can still add
\* a message or an answer, and the person's own replies.
OnlyAnswersInFlight ==
  [][ ticket.status = "PENDING_HUMAN" =>
        \A m \in transcript' \ transcript : m.run \in inFlight \cup {0} ]_vars

\* What the repository says and the code does not do. types.ts:104: the agent
\* "escalates whenever it is unsure, so the worst case is a human handling a ticket
\* that could have been automated"; the reply promises that a person will get back.
\* A ticket that waits for a person has an escalation in their inbox.
EscalatedIsInTheInbox ==
  ticket.status = "ESCALATED" /\ (\A r \in DOMAIN runs : ~Live(r)) =>
    \E i \in DOMAIN escalations : escalations[i].status \in {"PENDING", "ACCEPTED"}
=============================================================================
