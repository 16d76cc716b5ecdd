------------------------------ MODULE Evidence ------------------------------
(***************************************************************************)
(* How the evidence of one applicant becomes a verdict: the documents they *)
(* upload (api/src/routes/applicants.ts), the checks a verification run    *)
(* records and the facts it decides on (worker/src/pipeline.ts, finalize,  *)
(* core/src/risk.ts and the rules of core/src/rule-library.ts).            *)
(*                                                                         *)
(* The level has one required step, an identity document of one type. Two  *)
(* runs may be under way, one per job trigger; each of their database and  *)
(* provider calls is one action. ReviewLifecycle models the queue and the  *)
(* requests that write the status in the same detail; here a job is run,   *)
(* perhaps again from its start, and those requests are atomic.            *)
(***************************************************************************)
EXTENDS ReviewStateMachine, Naturals, FiniteSetsExt

CONSTANTS
  MaxDocs,      \* bound on the rows of the document table
  MaxRequests,  \* bound on the requests of the applicant and of the staff
  Images,       \* what the applicant's photographs may show
  AutoReject    \* level.autoReject: a score of autoRejectScore rejects

\* OCR finds fault with a blurry or an expired document, the authenticity
\* check with a forged one.
ASSUME ImagesAssumption == Images \subseteq {"good", "blurry", "expired", "forged"}
ASSUME BoundsAssumption ==
  MaxDocs \in Nat /\ MaxRequests \in Nat /\ AutoReject \in BOOLEAN

VARIABLES
  reviewStatus, country,  \* of the applicant row
  risky,                  \* riskScore, as the last run left it, is 30 or more
  edd,                    \* ddLevel is EDD
  monitored,              \* monitoringSubscription.isActive
  docs,                   \* the document rows, oldest first
  ocrCheck, authCheck,    \* the newest check of a type for each document, and
  countryCheck,           \* at 0 for no document
  run,                    \* the verification runs and their locals
  form, agent,            \* the applicant's request and the agent's, under way
  requests,               \* what is left of MaxRequests
  shown, passed           \* history: see below

rowVars   == <<reviewStatus, country, risky, edd, monitored>>
checkVars == <<ocrCheck, authCheck, countryCheck>>
history   == <<shown, passed>>
vars == <<rowVars, docs, checkVars, run, form, agent, requests, history>>

----------------------------------------------------------------------------
JobTriggers == {"SUBMITTED", "RESUBMITTED"}
Docs        == 1 .. MaxDocs
DocStatuses == {"none", "UPLOADED", "EXTRACTED", "REJECTED", "SUPERSEDED"}
Results     == {"none", "pass", "fail", "error", "missing"}
Countries   == {"allowed", "blocked"}
RunPcs == {"none", "waiting", "country", "ocr", "extract", "ocrCheck", "auth",
           "authenticity", "authCheck", "facts", "commit", "monitoring"}
Verdicts == {"QUEUED", "APPROVED", "REJECTED_RETRY", "REJECTED_FINAL"}

NoDoc == [status |-> "none", image |-> "none", expired |-> FALSE,
          forged |-> FALSE]
NoRun == [pc |-> "none", doc |-> 0, image |-> "none", read |-> "none",
          forced |-> FALSE, verdict |-> "QUEUED", risky |-> FALSE,
          edd |-> FALSE, subscribe |-> FALSE]
NoForm == [pc |-> "idle", value |-> "none"]

TypeOK ==
  /\ reviewStatus \in ReviewStatuses
  /\ country \in Countries
  /\ risky \in BOOLEAN /\ edd \in BOOLEAN /\ monitored \in BOOLEAN
  /\ docs \in [Docs -> [status : DocStatuses, image : Images \cup {"none"},
                        expired : BOOLEAN, forged : BOOLEAN]]
  /\ ocrCheck \in [0 .. MaxDocs -> Results]
  /\ authCheck \in [0 .. MaxDocs -> Results]
  /\ countryCheck \in Results
  /\ run \in [JobTriggers ->
                [pc : RunPcs, doc : 0 .. MaxDocs, image : Images \cup {"none"},
                 read : Images \cup {"none", "error"}, forced : BOOLEAN,
                 verdict : Verdicts, risky : BOOLEAN, edd : BOOLEAN,
                 subscribe : BOOLEAN]]
  /\ form \in [pc : {"idle", "upload", "patch"},
               value : Images \cup Countries \cup {"none"}]
  /\ agent \in {"idle", "reopen"}
  /\ requests \in 0 .. MaxRequests
  /\ shown \subseteq Images \cup {"blocked"}
  /\ passed \in BOOLEAN

Init ==
  /\ reviewStatus = "NOT_STARTED"
  /\ country \in Countries
  /\ risky = FALSE /\ edd = FALSE /\ monitored = FALSE
  /\ docs = [d \in Docs |-> NoDoc]
  /\ ocrCheck = [d \in 0 .. MaxDocs |-> "none"]
  /\ authCheck = [d \in 0 .. MaxDocs |-> "none"]
  /\ countryCheck = "none"
  /\ run = [t \in JobTriggers |-> NoRun]
  /\ form = NoForm
  /\ agent = "idle"
  /\ requests = MaxRequests
  /\ shown = {}
  /\ passed = FALSE

Request == requests > 0 /\ requests' = requests - 1

\* The document table: the rows there are, those that match, the newest.
Rows == {d \in Docs : docs[d].status # "none"}
RowsNotIn(statuses) == {d \in Rows : docs[d].status \notin statuses}
Newest(rows) == IF rows = {} THEN 0 ELSE Max(rows)

----------------------------------------------------------------------------
(* The applicant's requests. Each checks the status when it starts, and    *)
(* writes when its body has arrived, whatever the status is by then.       *)

UploadBegins(image) ==
  /\ form.pc = "idle"
  /\ acceptsSubmissions(reviewStatus)
  /\ form' = [pc |-> "upload", value |-> image]
  /\ Request
  /\ UNCHANGED <<rowVars, docs, checkVars, run, agent, history>>

\* The newest document that is neither superseded nor rejected takes the new
\* image and goes back to UPLOADED, keeping what was recorded on its row; if
\* there is none, a new row does.
UploadEnds ==
  LET reused == Newest(RowsNotIn({"SUPERSEDED", "REJECTED"})) IN
    /\ form.pc = "upload"
    /\ IF reused # 0
       THEN docs' = [docs EXCEPT ![reused].status = "UPLOADED",
                                 ![reused].image = form.value]
       ELSE /\ Newest(Rows) < MaxDocs
            /\ docs' = [docs EXCEPT ![Newest(Rows) + 1] =
                          [NoDoc EXCEPT !.status = "UPLOADED",
                                        !.image = form.value]]
    /\ form' = NoForm
    /\ UNCHANGED <<rowVars, checkVars, run, agent, requests, history>>

PatchBegins(to) ==
  /\ form.pc = "idle"
  /\ acceptsSubmissions(reviewStatus)
  /\ form' = [pc |-> "patch", value |-> to]
  /\ Request
  /\ UNCHANGED <<rowVars, docs, checkVars, run, agent, history>>

PatchEnds ==
  /\ form.pc = "patch"
  /\ country' = form.value
  /\ form' = NoForm
  /\ UNCHANGED <<reviewStatus, risky, edd, monitored, docs, checkVars, run,
                 agent, requests, history>>

\* The submission of a rejected applicant asks for a run of its own.
Submit ==
  LET resubmission == reviewStatus = "REJECTED_RETRY"
      trigger == IF resubmission THEN "APPLICANT_RESUBMITTED"
                                 ELSE "APPLICANT_SUBMITTED"
      job == IF resubmission THEN "RESUBMITTED" ELSE "SUBMITTED"
  IN /\ canTransition(reviewStatus, trigger, "APPLICANT", NoRole)
     /\ reviewStatus' = Target(trigger)
     /\ run' = IF run[job].pc = "none"
               THEN [run EXCEPT ![job].pc = "waiting"] ELSE run
     /\ Request
     /\ UNCHANGED <<country, risky, edd, monitored, docs, checkVars, form,
                    agent, history>>

----------------------------------------------------------------------------
(* The staff: a reviewer's decision, the administrator's reset and the     *)
(* support agent's request_resubmission.                                   *)

ReviewerDecides(trigger) ==
  /\ canTransition(reviewStatus, trigger, "USER", "COMPLIANCE_OFFICER")
  /\ reviewStatus' = Target(trigger)
  /\ Request
  /\ UNCHANGED <<country, risky, edd, monitored, docs, checkVars, run, form,
                 agent, history>>

Superseded == [d \in Docs |-> IF d \in Rows
                              THEN [docs[d] EXCEPT !.status = "SUPERSEDED"]
                              ELSE docs[d]]

\* The checks go, the documents stay superseded, ddLevel is left alone.
Reset ==
  /\ reviewStatus' = Target("RESET_BY_ADMIN")
  /\ risky' = FALSE
  /\ docs' = Superseded
  /\ ocrCheck' = [d \in 0 .. MaxDocs |-> "none"]
  /\ authCheck' = [d \in 0 .. MaxDocs |-> "none"]
  /\ countryCheck' = "none"
  /\ passed' = FALSE
  /\ Request
  /\ UNCHANGED <<country, edd, monitored, run, form, agent, shown>>

AgentSupersedes ==
  /\ agent = "idle"
  /\ reviewStatus \notin {"REJECTED_FINAL", "APPROVED"}
  /\ docs' = Superseded
  /\ agent' = "reopen"
  /\ Request
  /\ UNCHANGED <<rowVars, checkVars, run, form, history>>

AgentReopens ==
  /\ agent = "reopen"
  /\ reviewStatus' = "REJECTED_RETRY"
  /\ agent' = "idle"
  /\ UNCHANGED <<country, risky, edd, monitored, docs, checkVars, run, form,
                 requests, history>>

----------------------------------------------------------------------------
(* A verification run.                                                     *)

At(t, pc) == run[t].pc = pc
Move(t, pc) == run' = [run EXCEPT ![t].pc = pc]

\* The run loads the applicant and the newest document not superseded, and
\* stops at once when the country is not one the level accepts.
StartRun(t) ==
  LET d == Newest(RowsNotIn({"SUPERSEDED"}))
      blocked == country = "blocked"
  IN /\ At(t, "waiting")
     /\ run' = [run EXCEPT ![t] =
                  [NoRun EXCEPT !.pc = IF blocked THEN "country" ELSE "ocr",
                                !.doc = d,
                                !.image = IF d = 0 THEN "none"
                                                   ELSE docs[d].image,
                                !.forced = blocked]]
     /\ shown' = IF blocked THEN shown \cup {"blocked"} ELSE shown
     /\ UNCHANGED <<rowVars, docs, checkVars, form, agent, requests, passed>>

RecordBlockedCountry(t) ==
  /\ At(t, "country")
  /\ countryCheck' = "fail"
  /\ Move(t, "facts")
  /\ UNCHANGED <<rowVars, docs, ocrCheck, authCheck, form, agent, requests,
                 history>>

NoDocument(t) ==
  /\ At(t, "ocr")
  /\ run[t].doc = 0
  /\ ocrCheck' = [ocrCheck EXCEPT ![0] = "missing"]
  /\ Move(t, "facts")
  /\ UNCHANGED <<rowVars, docs, authCheck, countryCheck, form, agent, requests,
                 history>>

\* A provider reads the image of the storage key the run loaded: the one that
\* was there, or the one an upload has put in its place.
Stored(t) == {run[t].image, docs[run[t].doc].image}

CallOcr(t, image) ==
  /\ At(t, "ocr")
  /\ run[t].doc # 0
  /\ image \in Stored(t)
  /\ run' = [run EXCEPT ![t].pc = "extract", ![t].read = image]
  /\ shown' = shown \cup ({image} \ {"forged"})
  /\ UNCHANGED <<rowVars, docs, checkVars, form, agent, requests, passed>>

\* A provider that fails is recorded as an incomplete check, and ends the step.
OcrFails(t) ==
  /\ At(t, "ocr")
  /\ run[t].doc # 0
  /\ ocrCheck' = [ocrCheck EXCEPT ![run[t].doc] = "error"]
  /\ Move(t, "facts")
  /\ UNCHANGED <<rowVars, docs, authCheck, countryCheck, form, agent, requests,
                 history>>

Faulty(image) == image \in {"blurry", "expired"}

\* The row takes what was read, whatever has become of it since.
SaveExtraction(t) ==
  /\ At(t, "extract")
  /\ docs' = [docs EXCEPT
       ![run[t].doc].status = IF Faulty(run[t].read) THEN "REJECTED"
                                                     ELSE "EXTRACTED",
       ![run[t].doc].expired = run[t].read = "expired"]
  /\ Move(t, "ocrCheck")
  /\ UNCHANGED <<rowVars, checkVars, form, agent, requests, history>>

RecordOcr(t) ==
  LET fault == Faulty(run[t].read) IN
    /\ At(t, "ocrCheck")
    /\ ocrCheck' = [ocrCheck EXCEPT ![run[t].doc] =
                      IF fault THEN "fail" ELSE "pass"]
    /\ passed' = (passed \/ ~fault)
    /\ Move(t, "auth")
    /\ UNCHANGED <<rowVars, docs, authCheck, countryCheck, form, agent,
                   requests, shown>>

CallAuth(t, image) ==
  /\ At(t, "auth")
  /\ image \in Stored(t)
  /\ run' = [run EXCEPT ![t].pc = "authenticity", ![t].read = image]
  /\ shown' = shown \cup ({image} \cap {"forged"})
  /\ UNCHANGED <<rowVars, docs, checkVars, form, agent, requests, passed>>

\* Mutant: a provider that fails is recorded as a finding.
AuthFailsAsFinding(t) ==
  /\ At(t, "auth")
  /\ authCheck' = [authCheck EXCEPT ![run[t].doc] = "fail"]
  /\ Move(t, "facts")
  /\ UNCHANGED <<rowVars, docs, ocrCheck, countryCheck, form, agent, requests,
                 history>>

AuthFails(t) ==
  /\ At(t, "auth")
  /\ authCheck' = [authCheck EXCEPT ![run[t].doc] = "error"]
  /\ Move(t, "facts")
  /\ UNCHANGED <<rowVars, docs, ocrCheck, countryCheck, form, agent, requests,
                 history>>

SaveAuthenticity(t) ==
  LET forged == run[t].read = "forged" IN
    /\ At(t, "authenticity")
    /\ docs' = [docs EXCEPT
         ![run[t].doc].forged = forged,
         ![run[t].doc].status = IF forged THEN "REJECTED" ELSE @]
    /\ Move(t, "authCheck")
    /\ UNCHANGED <<rowVars, checkVars, form, agent, requests, history>>

RecordAuth(t) ==
  /\ At(t, "authCheck")
  /\ authCheck' = [authCheck EXCEPT ![run[t].doc] =
                     IF run[t].read = "forged" THEN "fail" ELSE "pass"]
  /\ Move(t, "facts")
  /\ UNCHANGED <<rowVars, docs, ocrCheck, countryCheck, form, agent, requests,
                 history>>

\* A step that throws leaves an incomplete check of no document.
StepThrows(t) ==
  /\ run[t].pc \in {"ocr", "extract", "ocrCheck", "auth", "authenticity",
                    "authCheck"}
  /\ ocrCheck' = [ocrCheck EXCEPT ![0] = "error"]
  /\ Move(t, "facts")
  /\ UNCHANGED <<rowVars, docs, authCheck, countryCheck, form, agent, requests,
                 history>>

----------------------------------------------------------------------------
(* The facts of finalize and its decision.                                 *)

\* Only the current state of each check counts, and superseded documents drop
\* out; a check of no document is always current.
Current == {0} \cup {d \in Docs : docs[d].status # "SUPERSEDED"}

\* Mutant: a step none of whose checks is there is satisfied.
RequiredStepPassedVacuously ==
  \A d \in Current : ocrCheck[d] \in {"none", "pass"}

\* The required step is satisfied when it has checks and each one passed.
RequiredStepPassed ==
  LET relevant == {d \in Current : ocrCheck[d] # "none"} IN
    relevant # {} /\ \A d \in relevant : ocrCheck[d] = "pass"

\* A current check whose label weighs 100: a forgery, a prohibited country.
GraveCheck == countryCheck = "fail" \/ \E d \in Current : authCheck[d] = "fail"

FailedCheck == GraveCheck \/ \E d \in Current : ocrCheck[d] = "fail"

\* The document the rules look at: the first row of an unordered relation.
IdDocs == IF Rows = {} THEN {0} ELSE Rows
ForgedFact(idDoc)  == idDoc # 0 /\ docs[idDoc].forged
ExpiredFact(idDoc) == idDoc # 0 /\ docs[idDoc].expired

\* clean-low-risk-auto-approve and edd-never-auto-approves read the risk score
\* and the due-diligence level that the previous run left on the row.
Verdict(forced, idDoc) ==
  LET grave  == GraveCheck \/ ForgedFact(idDoc)
      reject == forced \/ ForgedFact(idDoc) \/ ExpiredFact(idDoc)
                       \/ (AutoReject /\ grave)
      approve == RequiredStepPassed /\ ~FailedCheck /\ ~grave /\ ~risky /\ ~edd
  IN CASE reject /\ (forced \/ grave) -> "REJECTED_FINAL"
       [] reject /\ ~(forced \/ grave) -> "REJECTED_RETRY"
       [] ~reject /\ approve -> "APPROVED"
       [] OTHER -> "QUEUED"

AssembleFacts(t, idDoc) ==
  LET grave == GraveCheck \/ ForgedFact(idDoc) IN
    /\ At(t, "facts")
    /\ run' = [run EXCEPT ![t].pc = "commit",
                          ![t].verdict = Verdict(run[t].forced, idDoc),
                          ![t].risky = grave,
                          ![t].edd = edd \/ grave,
                          ![t].subscribe = reviewStatus = "APPROVED"]
    /\ UNCHANGED <<rowVars, docs, checkVars, form, agent, requests, history>>

CommitVerdict(t) ==
  /\ At(t, "commit")
  /\ reviewStatus' = run[t].verdict
  /\ risky' = run[t].risky
  /\ edd' = run[t].edd
  /\ Move(t, "monitoring")
  /\ UNCHANGED <<country, monitored, docs, checkVars, form, agent, requests,
                 history>>

\* enable-monitoring-on-approval is a rule over the facts: its hint counts for
\* an applicant who was APPROVED when they were assembled.
SubscribeMonitoring(t) ==
  /\ At(t, "monitoring")
  /\ monitored' = (monitored \/ (run[t].subscribe
                                  /\ run[t].verdict = "APPROVED"))
  /\ run' = [run EXCEPT ![t] = NoRun]
  /\ UNCHANGED <<reviewStatus, country, risky, edd, docs, checkVars, form,
                 agent, requests, history>>

\* The worker dies or a database call throws: the whole job runs again.
RunRestarts(t) ==
  /\ run[t].pc \notin {"none", "waiting"}
  /\ run' = [run EXCEPT ![t] = [NoRun EXCEPT !.pc = "waiting"]]
  /\ UNCHANGED <<rowVars, docs, checkVars, form, agent, requests, history>>

----------------------------------------------------------------------------
RunStep(t) ==
  \/ StartRun(t) \/ RecordBlockedCountry(t)
  \/ NoDocument(t) \/ OcrFails(t) \/ SaveExtraction(t) \/ RecordOcr(t)
  \/ \E image \in Images : CallOcr(t, image) \/ CallAuth(t, image)
  \/ AuthFails(t) \/ SaveAuthenticity(t) \/ RecordAuth(t)
  \/ StepThrows(t)
  \/ \E idDoc \in IdDocs : AssembleFacts(t, idDoc)
  \/ CommitVerdict(t) \/ SubscribeMonitoring(t)
  \/ RunRestarts(t)

ApplicantStep ==
  \/ \E image \in Images : UploadBegins(image)
  \/ UploadEnds
  \/ \E to \in Countries : PatchBegins(to)
  \/ PatchEnds
  \/ Submit

StaffStep ==
  \/ \E trigger \in {"REVIEWER_APPROVED", "REVIEWER_REJECTED_RETRY",
                     "REVIEWER_REJECTED_FINAL", "PUT_ON_HOLD"} :
       ReviewerDecides(trigger)
  \/ Reset
  \/ AgentSupersedes
  \/ AgentReopens

Next == ApplicantStep \/ StaffStep \/ \E t \in JobTriggers : RunStep(t)

Spec == Init /\ [][Next]_vars
----------------------------------------------------------------------------
(* What holds. `shown` is what the runs have been given to find fault with: *)
(* an image OCR has read, a forgery the authenticity check has seen, a      *)
(* blocked country. `passed`: a run has recorded a passing OCR check since  *)
(* the administrator last reset the applicant.                              *)

\* A run rejects on a finding and never on an outage: whichever calls fail or
\* throw, whatever is superseded, replaced, reset or run again, a retryable
\* verdict needs an expired document, a forged one or a blocked country that a
\* run was shown, and a final one needs a forgery or a blocked country.
RejectionNeedsFinding ==
  \A t \in JobTriggers :
    /\ run[t].verdict = "REJECTED_RETRY" => "expired" \in shown
    /\ run[t].verdict = "REJECTED_FINAL" => shown \cap {"forged", "blocked"} # {}

\* A run approves nobody whose document was not read: since the last reset a
\* passing OCR check was recorded, even when the reset or the agent superseded
\* the documents in the middle of the run.
ApprovalNeedsReading ==
  [][ \A t \in JobTriggers :
        run[t].pc = "facts" /\ run'[t].verdict = "APPROVED" => passed ]_vars

----------------------------------------------------------------------------
(* What the repository says and the code does not do.                      *)

\* pipeline.ts:44: a check that did not complete leaves the applicant
\* un-decidable, not approvable.
IncompleteNeverApproved ==
  [][ \A t \in JobTriggers :
        /\ run[t].pc = "facts" /\ run'[t].verdict = "APPROVED"
        => \A d \in Current : authCheck[d] # "error" ]_vars

\* pipeline.ts:1237: a failure the applicant has corrected does not keep
\* rejecting them. A run that has read their newest document, and found it in
\* order, does not send them back for an older one that has expired.
CorrectedDocumentClears ==
  [][ \A t \in JobTriggers :
        /\ run[t].pc = "facts" /\ run[t].doc # 0 /\ run[t].doc = Newest(Rows)
        /\ ocrCheck[run[t].doc] = "pass" /\ ~docs[run[t].doc].expired
        => run'[t].verdict # "REJECTED_RETRY" ]_vars
=============================================================================
