# A verification of the KYC platform

TLA+ modules that model the core of this repository, TLC runs that check them on
small instances, and proofs that TLAPS checks for every value of the constants.
Paths below are relative to `src/packages/` of the repository.

## 1. The system

The platform verifies the identity of an *applicant* for a tenant: documents are
uploaded, providers examine them, rules and reviewers decide, approved customers
are monitored. One PostgreSQL database holds all state; Fastify handlers (`api`),
BullMQ workers (`worker`), a support agent (`agent`) and schedulers read and write
it concurrently. Almost no handler locks a row: it reads, awaits, and updates by
primary key. That is what most of this project is about.

| Component | State | Operations | Talks to |
|---|---|---|---|
| Review state machine (`core/src/state-machine.ts`) | none: a table of transitions | `canTransition`, `transition`, `applicantStatusFor` | called by the API's handlers; *not* by the pipeline, the agent or monitoring |
| Applicant API (`api/src/routes/applicants.ts`) | applicant row, documents, images | create, patch, upload, submit, reset | queue (submit), audit |
| Decisions and cases (`api/src/routes/decisions.ts`) | Review rows, cases | decide, assign, note, SAR, resolve a hit | audit, webhooks |
| Job queues (`worker/src/queues.ts`) | BullMQ jobs | add (an id still known is ignored), retry, stall, retention | every worker |
| Verification pipeline (`worker/src/pipeline.ts`) | checks, documents, risk score, ddLevel, reviewStatus | the steps of a level, `finalize`, `ensureReviewCase` | providers, rules, audit, webhooks |
| Rules and risk (`core/src/rules.ts`, `rule-library.ts`, `risk.ts`, `reject-labels.ts`) | none (rule sets are data) | `evaluateRules`, `summarizeActions`, `assessRisk`, `buildApplicantFacts` | called by `finalize` |
| Screening and monitoring (`worker/src/screening.ts`, `index.ts`, `watchlist/`) | hits, runs, suppressions, subscriptions, watchlist | screen, freeze a customer, dispose of a hit, ingest lists, sweep | pipeline, cases, webhooks |
| Outbound webhooks (`worker/src/webhooks.ts`) | deliveries, endpoint's failure counter | emit, deliver, record a failure, sweep, reactivate | receivers over HTTP |
| Audit log (`db/src/audit.ts`) | a hash chain per tenant | append under an advisory lock, verify | every handler |
| Transactions and travel rule (`worker/src/transactions.ts`) | transactions, alerts, messages | evaluate, justify, acknowledge | rules, cases |
| Support (`agent/src/service.ts`, `tools.ts`, `api/src/routes/support.ts`) | tickets, conversations, escalations | a turn of the agent, its tools, takeover | applicant row, documents |
| Sign-in and two-factor (`api/src/routes/config.ts`, `twofactor.ts`) | failure counters, last used step, recovery codes | sign in, challenge, enrol | |
| KYB (`api/src/routes/kyb.ts`, `core/src/ubo.ts`) | companies, ownership edges | record, resolve owners | |
| Pure algorithms (`core/src/mrz.ts`, `levels.ts`, `travel-rule.ts`, `totp.ts`, ...) | none | | |
| Adapters, SDK, dashboard, chip reader | outside: providers, browsers, chips | | |

What is hard here, and hard to test:

* **stale reads**: a verdict, a decision or an agent's action lands on a status
  other than the one it was decided on;
* **crashes and retries**: a job that throws or stalls runs again from its start,
  after some of its effects; a request that dies does not;
* **deduplicating queues**: an add is silently ignored while the queue still knows
  the job's id, finished jobs included (a day, or a week when they failed);
* **partial failure**: a provider is down for one check of a step;
* **evidence that changes under a run**: documents are replaced, superseded and
  reset while a run examines them;
* **lost answers**: a receiver accepts an event and the sender never learns.

What makes each component correct:

* lifecycle: the columns, the timeline, the Review rows, the audit log and the
  case queue agree; no final rejection is undone by somebody who knew of it; who
  waits for a human is in a human's queue; accepted jobs end;
* evidence: rejection needs a finding, approval needs a document that was read;
* webhooks: an event with a row is settled, and marked delivered only if accepted;
* screening: a new listing freezes a customer once, a disposition holds until it
  expires or the listing changes;
* audit log: one chain per tenant, appended to only, intact unless tampered with;
* the other systems: the properties of section 3.

`PROJECT.json` lists every component with its status, every hazard at its line
with the properties that cover it, and for each definition the lines it models.

## 2. Modules

| Module | Models | Checked by |
|---|---|---|
| `ReviewStateMachine` | the transition table and its guards, as operators | used by the four below |
| `ReviewLifecycle`, `MCReviewLifecycle` | every writer of one applicant's `reviewStatus`; the mixes of requests of the runs | `review_races`, `sent_back`, `runs_finish`, `final_overwritten` |
| `ReviewLifecycleProofs` | the theorems about `ReviewLifecycle` | TLAPS |
| `Evidence` | one required document: the calls inside two concurrent runs, and the requests between them | `evidence` |
| `EvidenceProofs` | the theorems about `Evidence` | TLAPS |
| `Duplicates` | one person, or one document, under several accounts: the runs of different applicants over the tables they share | `transactions` |
| `Verification`, `MCVerification` | all steps of the built-in levels, the facts, the rules, the risk, the decision | `verification` |
| `VerificationProofs` | the theorems about `Verification`, and the one about `MrzReader` | TLAPS |
| `Conditions`, `RuleLibrary`, `RuleEngine` | conditions; the built-in rules as data; which fire and what they come to | `verification`, `transactions`, `small_systems` |
| `Levels`, `Risk`, `RejectLabels`, `Countries` | levels and steps; risk and facts; the taxonomy; the lists of countries | `verification` |
| `EventDelivery`, `Webhooks` | what webhooks promise a receiver (abstract); rows, jobs, workers, sweep and breaker | `webhooks` |
| `WebhooksProofs` | the theorems about `Webhooks`, and those about `AuditChain` | TLAPS |
| `Screening`, `MCScreening` | one customer screened against changing lists, the analyst, the freeze | `screening` |
| `ScreeningProofs` | the theorems about `Screening` | TLAPS |
| `Transactions` | the transfers of one customer, their jobs, the officer, travel-rule messages | `transactions` |
| `MCTransactions` | `Transactions` and `Duplicates` side by side; one of them moves in a behaviour | `transactions` |
| `TransactionsProofs` | the theorems about `Transactions`, and those about `Duplicates` | TLAPS |
| `Support`, `SupportPolicy`, `MCSupport` | one ticket, the runs of the agent, the staff; what the agent may do | `support` |
| `SupportProofs` | the theorems about `Support` | TLAPS |
| `SignIn` | one operator's account in several browser tabs | `sign_in` |
| `SignInProofs` | the theorems about `SignIn` | TLAPS |
| `Ownership`, `Kyb` | the walk of the ownership graph; how the graph is entered | `small_systems` |
| `Mrz`, `MrzReader` | check digits and dates; a zone that is misread | `small_systems` |
| `AuditChain` | the hash chains of the tenants, several writers, edited rows | `small_systems` |
| `MCSmallSystems` | `Kyb`, `MrzReader` and `AuditChain` side by side; one of them moves in a behaviour | `small_systems` |

`ReviewLifecycle`, `Evidence` and `Verification` are three views of the same
pipeline. `ReviewLifecycle` has the queue, the crashes and every other writer, and
lets a run reach any verdict; `Evidence` interleaves the calls of a run of one step
with uploads, decisions and another run; `Verification` has every step and
everything the verdict is made of, with requests between the runs only. All three
extend `ReviewStateMachine`.

### ReviewLifecycle

State: the applicant's two status columns, `nextReviewAt` and monitoring flag;
the newest row of the timeline (`lastEvent`); the number of open and closed
`MANUAL_REVIEW` cases; per job trigger the BullMQ job (`jobs`) and its worker's
locals (`run`); per handler the request it serves (`req`). `standing` is a history
variable about the newest status write: does it have its Review row, its audit
entry, was its run interrupted, has a SAR closed a case since.

Grain: one action per awaited database call, a Prisma `$transaction([...])` being
one. `DecisionRead` is the handler up to its last read, guards included;
`DecisionCommit` its transaction; `DecisionAudit` the audit append. Two
consecutive reads of which only the first matters are one action. A worker's
step that throws (`RunThrows`) and a worker that dies (`WorkerDies`) restart the
job until `attempts` or BullMQ's stalls are used up; `RequestDies` ends a
handler for good. `Budget` bounds requests of each kind, forgotten jobs and
killed requests; nothing else is bounded.

Abstractions: the verdict of a run is any of four; a decision's reject labels
(one of them final also demands seniority) are folded into the decision; audit
entries of submit, reset and of the cases are left out (no property is about
them); `AML_HIT_REVIEW` cases and case references are not state; the decision
`handleMonitoringHit` makes about freezing is, the rest of screening is the
choice between a hit and none. A stalled job whose first worker is in fact still
alive is not modelled (the lock lasts 120 s). `MANUAL_RERUN` is never enqueued.

### Evidence

State: the country and risk of the applicant row; the document rows, oldest
first, each with what its image shows and what was recorded on it; the newest
check per type and document (0 for no document); per job trigger a run with its
locals; an upload or a patch between its check and its write (`form`); the agent
between its two writes. `shown` and `passed` are history: what the runs have been
given to find fault with, and whether a passing OCR check has been recorded.

`Images` is what a photograph may show. A blurry or expired one fails OCR, a
forged one authenticity. `Verdict` is `finalize` with the four rules that bear on
this level: forgery, expiry, approval when clean, EDD never auto-approved; labels
and risk are reduced to *grave* (weighs 100, is not retryable) or not. A provider
may see the image the run loaded or the one that has replaced it, because the
storage key of a side is the same for both.

Abstractions: one level with one required step and `autoApprove`; each
document has one side; MRZ, duplicates and the declared data agree with the
image; a doubtful authenticity score (a WARNING) and country risk are left out;
the upload's row, storage and image writes are one step after the body has
arrived; a document's declared expiry is not sent. The job of a trigger may be
added again as soon as it has ended (its retention is `ReviewLifecycle`'s matter),
and restarts at any point.

### Webhooks and EventDelivery

State: one delivery row, one job, one emitter and one worker per event, the
endpoint's failure counter and flag, and the set of events the receiver has
answered 2xx to. A call that throws *inside* `deliverWebhook`'s `try` is recorded
as a failure of the delivery, once more if it was one being recorded; outside it
fails the job. `nextAttemptAt` is null, later or due. The sweep adds rows that
are open and due. `EventDelivery` is what the receiver may rely on: owed events
are settled, delivered means accepted, sending again is allowed. The refinement
maps the rows to outcomes.

Abstractions: one endpoint; an event without an active endpoint gets no row;
payloads, signatures and the list of event types are data; the sweep considers
each row (the code takes 200 a time); one limit stands for attempts and stalls.

### Verification, and the modules it is made of

State: the columns of the applicant row that a decision reads or writes; the
document rows, each with what its photograph shows and what was read and examined;
the newest check per type and document; what the latest screening matched and
what analysts said; the device session; the run under way, a wave and the steps
left of it. `findings` is history: every label a run has recorded or could have
derived.

A step is one action: which checks it records, on which document, with which
labels, is `runDocumentStep` and its siblings, `checkTypeForStep`, `Recorded`.
`Picture` says what each of 27 photographs shows a provider. `Finalize` is
`finalize`: `Snapshot` and `buildApplicantFacts` make the facts, `evaluateRules` and
`summarizeActions` the hints, `assessRisk` the score, `Decision` the verdict.
`RuleLibrary` is the repository's rules one by one, in their order; `RuleEngine`
sorts by priority, skips, stops and adds up as `rules.ts` does; `Conditions` has
every operator. `MaxTrouble` counts what is wrong: a defective photograph, a
provider that fails, a step that throws, a listing, a device. With one of them each
property is about one cause and its consequences over two runs.

Abstractions: the steps of a wave touch different checks and are taken in one
order; an age is an attribute and does not change; another applicant with the
same document, identity or face is an answer of the tables (`Duplicates` has the
other applicant's runs); devices shared by several
applicants, disposable addresses and VoIP numbers are contact answers; the custom
rules of a tenant are absent (the built-in ones are what provisioning installs).
The due-diligence ratchet is checked for runs that do not overlap; that
overlapping ones break it is in section 4. `MCVerification` also has TLC evaluate
what `levels.test.ts` expects of all seven levels.

### Duplicates

State: per applicant the tenant and the face, the identity columns of the row
(`profile`), what a run compares and leaves to be compared (`account`:
`identityFingerprint`, `docNumberHash`, approved or not), the newest document, the
checks a decision looks at (`findings`) and the run with its locals (`check`); the
face index. `moved`, `lastNumber` and `overlapped` are history.

A run goes through three waves, one action per awaited call that another run can
come between: `CompareIdentity`, `FindIdentity`; `ReadNumber`, `CountNumber`,
`FindNumber`, `StoreNumber`; `RecordLiveness`, `IndexFace`, `SearchFace`, `FindFace`;
then `Decide` reads and `CommitDecision` writes. The three comparisons differ in the
order that matters. The fingerprint is stored with the row, before any run; the face
is stored, then looked up; the number is looked up, then stored. Identity and number
are looked up in the tenant, the face in the whole index. A step may throw, a
worker die, the job run again; between the runs there are uploads, patches,
submissions, the agent, a reset, a suspension.

Abstractions: an embedding is a face and a search finds it (the code compares at
most 500 candidates of a bucket); the liveness adapter returns an embedding whenever
it finds a face, as the only live one does; a level of three required steps, one a
wave; what else may keep a run from approving is a choice (`Decide`). What an
already counted duplicate does to the risk score is left out, and so is the row of
the selfie. A patch or an upload whose write comes after the decision it raced is
the subject of `Evidence`.

### Screening

State: the day; per listed person the row of the corpus (active, last written,
last amended); suppressions; the customer's status and subscription; run rows, hit
rows oldest first, the job; cases by reference. `decided` and `lifted` are history:
the analysts' decisions, and whether a person has approved the customer since they
were last frozen.

A job takes one step per call: `Search` (with `Weighed`, what an earlier hit's
disposition says of the new one), `CreateHits`, `Freeze`, `CountCases`, `OpenCase`.
Between any two of them a feed may arrive, an analyst may resolve a hit, somebody
may open a case of the same number, or the job may throw and start over.
`scoreCandidate` is the provider's scoring in thousandths, from a similarity of
names that is a number per person; `load` is the search by prefix with its
fallback. `MinFeed` is the threshold of `ingest.ts` (50 entries) scaled to
the instance.

### Transactions

State: `about`, what the client will report; the transaction rows; per transfer
the evaluation job and its verdict; alerts, cases, messages; the customer's status.
`latest` is history: the transfer that was reported last. `computeAggregates` is
every window the rules read, with their different ends; the verdict comes from the
repository's transaction rules through `RuleEngine`. The job's calls are
actions: evaluate (with a chain provider that may not answer), write the verdict and
its alerts in one transaction, count the cases, create one, record the travel-rule
message. A job that throws or collides runs again from its start.

Abstractions: amounts are in one currency (the code does not convert either); the
counterparty's provider is never looked up, as in the code; the scenarios are
series of up to four transfers, chosen for the rules about patterns, first
transfers, countries and wallets.

### Support

State: the ticket; the messages that are kept; the requests for an answer, each with
how far its process is and its `AgentRun` row once there is one; escalations; requests
of staff that have written one row and not yet the ticket. Every statement that is
awaited is a step: `handleApplicantMessage` reads the status once, and the message
(`KeepMessage`), the run's row (`StartRun`), the runtime, the answer (`Reply`) and the
last transaction (`Settle`) come after, with anything between them. A ticket that is
opened (`CreateTicket`) is checked the same way (`CheckTicket`). Both runtimes are modelled: the offline one asks the policy first and
answers from the record (`StubGate`, `StubReads`, `StubEscalates`); the model's
runtime calls tools in any order up to its turns and is asked on the way out
(`ModelReads` to `ModelEnds`). `SupportPolicy` has the intents, their tools and
thresholds, the classifier over sets of matched intents, and `shouldEscalate`.
`escalate_to_human` writes a row for the inbox, then the ticket (`escalateToHuman`,
`TellTicket`); the second may throw (`TellingFails`), which leaves the row and counts as
a failed call. Acceptance and a person's reply are two writes each (`Accept` and
`TakeTicket`, `postHumanReply` and `StandDown`). Any statement of a request may throw
(`RunThrows`), and its process may die (`ProcessDies`). The tools that only read are one
action; tools that change the applicant are in `ReviewLifecycle` and `Verification`.

### SignIn

State: the account's row, what each tab holds, the request of each tab with the row
it read, the authenticator's secret. Every handler is a read and a later write of
the whole of what it computed: `LoginRead`/`LoginFails`/`LoginPasses`, `CodeRead`/
`CodeFails`/`CodePasses`, `EnrolRead`/`EnrolWrite`, `ConfirmRead`/`ConfirmWrite`,
`DisableRead`/`DisableWrite`. A code is the step and secret it was made of. `spent`,
`proven`, `wrong` and `faults` are history; `faults` names what excuses a property:
two requests that overlapped, or a confirmation of what was on already.

### Kyb and Ownership

`resolveUbos` is a recursive walk over the edges; holdings are whole thousandths, fine
enough for the half per cent that a register may lack unrecorded (`Gap`, `ubo.ts`:155);
what is carried along a path is in whole millionths, rounded down.
`Kyb` enters a company the way the route does, one write at a time, with a
registry that answers one of a few shapes and requests that die or come twice.
The two properties compare the walk with `OwnedBy`, which computes the same
ownership from the bottom up.

### Mrz and MrzReader

`computeCheckDigit`, `verifyDigit` (with the filler rule), `expandYear` and the
three formats with their composite fields. `MrzReader` writes a zone, takes up to
`MaxSlips` glyphs of its groups and check digits for others of `Misreadings`, digits,
letters or the filler, and reads it back. A glyph outside the alphabet counts as the
filler does. A number has nine glyphs and a date six, as in
the code; names and states, which no check digit covers, are left out. Its assumption
says what documents are: glyphs, a number that is not blank, and dates that two digits
of a year can tell (a birth in the last hundred years; an expiry in the hundred years
that `expandYear` can mean).

### AuditChain

State: per tenant the rows of its log by sequence number; the next number; who
holds the lock; what each writer has read. A writer begins, waits for the lock,
reads the tail, inserts, and commits or rolls back; a rolled-back insert uses up
its number. `Edit` and `DeleteRow` are what somebody with the database can do to a
row. `written` is history: the rows as committed. The hash is the sequence of
what it covers, hence injective.

## 3. What the passing runs check

| Run | Question | Properties |
|---|---|---|
| `review_races` | reviewers of two seniorities, a SAR, a run that fails and retries, a dying request | `TypeOK`, `RowMatchesTimeline`, `QueuedIsVisible`, `AutomatedDecisionRecorded`, `FreshReadsRespectFinal` |
| `sent_back` | reset, the agent, resubmissions and two runs; a monitoring hit and the periodic review of an approved applicant; the inductive invariant of the proofs, which contains the four above | `Inductive` |
| `runs_finish` | jobs that throw and stall, with progress | `RunsFinish`, `WaitingJobDecides` |
| `evidence` | two overlapping runs, uploads, patches, decisions, resets, the agent; expired and forged documents; automatic rejection by score | `RejectionNeedsFinding`, `ApprovalNeedsReading` |
| `webhooks` | two events, every answer, a fault, the sweep and the breaker | `AbandonedWhenExhausted`, `DeliversAtLeastOnce` |
| `verification` | three levels, 27 photographs, every answer of every provider, one thing wrong, two runs | `TypeOK`, `RejectedOnFindings`, `InOrderIsApproved`, `DueDiligenceRatchets`, `ApprovalRestsOnThisRun` |
| `screening` | three listed persons, four days, two runs, a decision, a failure | `TypeOK`, `SettledByAnalyst`, `UndecidedIsOpen`, `NewMatchIsLoud`, `FrozenForSomebodyNew`, `NeverBlinded` |
| `transactions` | eight series of transfers, interleaved jobs, an officer, failing calls; and, apart from them, two accounts with a tenant, a face, an identity or a document in common, requests and faults between their runs | `NeverSettlesUnreleased`, `BlockedHasOwner`, `StructuringIsCaught`, `ReleaseStands`, `SameFaceSameName`, `RepeatIsNoticed` |
| `support` | two overlapping requests to either runtime, every statement a step; an act of staff, a fault | `PolicyOnTheWayOut`, `InboxMatchesOutcome`, `OnlyAnswersInFlight` |
| `sign_in` | two tabs, six requests | `SecondFactorFirst`, `CodesWorkOnce`, `LocksForCause` |
| `small_systems` | circular ownership; misread zones; a log that is written and tampered with | `LittleDropped`, `SanctionedHalfIsCaught`, `OneSlipIsCaught`, `HonestChain`, `TamperingIsLocated` |

* `RowMatchesTimeline`: columns and timeline tell one story although five
  different places write them, three of them without the state machine.
* `QueuedIsVisible`: a QUEUED applicant has an open case, or one of three named
  reasons not to (a run about to make it, an interrupted run, a SAR). That list
  is complete, which is what an operator who finds such an applicant wants to know.
* `AutomatedDecisionRecorded`: likewise for the Review row and the audit entry.
* `FreshReadsRespectFinal`: of handlers that *saw* the final rejection only the
  administrator's reset changes it; the rest of the damage is by stale reads
  (section 4).
* `RejectionNeedsFinding`: whatever fails, throws, is replaced, superseded, reset
  or run again, a verdict of rejection needs something wrong that a run was shown.
* `ApprovalNeedsReading`: no order of uploads, resets and reruns approves an
  applicant none of whose documents passed OCR since the last reset.
* `DeliversAtLeastOnce`: dropped retries, lost answers and dead workers only
  delay an event.
* `RunsFinish`, `WaitingJobDecides`: interruptions are bounded by the job's limits.
* `RejectedOnFindings`: the same for every step, rule and risk factor: outages,
  skipped steps and throws alone reject nobody, and a final rejection needs a label
  that leaves no way back.
* `InOrderIsApproved`: the strings by which steps, checks, labels, facts and rules
  name each other fit: with everything in order the first run approves, and the
  applicant is asked for nothing more.
* `ApprovalRestsOnThisRun`: an approval never rests on checks of an earlier run.
* `DueDiligenceRatchets`: a later, lower score does not relax due diligence.
* `SettledByAnalyst`, `UndecidedIsOpen`: copies of copies of dispositions, over
  amendments, expiry, retries and rematches, settle only what was decided.
* `NewMatchIsLoud`, `FrozenForSomebodyNew`: monitoring freezes a customer for
  somebody new and for nobody else, with a case (as long as no call fails).
* `NeverBlinded`: only a whole feed removes somebody from the corpus.
* `NeverSettlesUnreleased`, `ReleaseStands`, `BlockedHasOwner`: jobs that interleave,
  fail and run again neither settle what must be blocked, nor leave it without a
  case when they are done, nor take a release back on their first attempt.
* `StructuringIsCaught`: of a series just under the threshold the transfer
  that is last in both senses sees the others, whatever order the jobs run in.
* `SameFaceSameName`: of two runs over one face, of whichever tenants, the one that
  looks later sees the other, through crashes, throws, retries and resets; so two
  approved applicants with one face have one name, unless a name was patched behind a
  run.
* `RepeatIsNoticed`: within a tenant the same holds of an identity and of a
  document's number, with the excuses that are real: a patch behind a run, an
  identity that is not known, and two runs that both counted before either stored.
* `PolicyOnTheWayOut`: whatever tools the model called, a run that leaves the ticket
  with the applicant was allowed to.
* `InboxMatchesOutcome`: a run recorded as an answer has no row in the inbox, but for
  one lost call: the model's one call that failed between its two writes, its row, and
  no other. Two such calls, one that went through, or any call of the offline runtime,
  and the run is an escalated one.
* `OnlyAnswersInFlight`: while a person has the ticket, only requests that had passed
  the check of its status before it was taken may still add a message or an answer.
  Such a request may have no run yet: the check, the message and the run's row are
  statements with others between them.
* `SecondFactorFirst`: no interleaving turns a password into a session where a second
  factor is on or mandated; `CodesWorkOnce`, `LocksForCause`: a code is spent, and
  the two counters count, among requests that do not overlap and codes of a secret
  that is confirmed.
* `LittleDropped`: through circles, gaps, several paths and depth limits the walk accounts
  for the whole, but for what the code drops: half a per cent of each register on
  the way up and holdings of a hundredth of a per cent (section 4).
* `SanctionedHalfIsCaught`: listed persons who own half of a company, along however many
  paths and through circles, are noticed.
* `OneSlipIsCaught`: a zone as issued is never refused and its dates are read back right;
  one wrong glyph in a date or its check digit is always caught, whatever it was taken
  for, because a date must be digits; in the number or its check digit it is caught
  unless it counts the same modulo ten (section 4).
* `HonestChain`, `TamperingIsLocated`: concurrent appends never fork a chain;
  verification points at exactly the edited rows and those after a removed one.

Every property of a passing run has a mutant in `PROJECT.json`: a plausible bug,
an operator kept beside the definition it would replace, under which TLC finds
the property violated.

## 4. What the code does and the repository says it does not

The run `final_overwritten` violates `FinalRejectionSurvivesAutomation`, which states
a sentence of `core/src/state-machine.ts`: a run overwrites a final rejection made
since it read the row. `PROJECT.json`, "findings", quotes it.

Further sentences are stated beside the models as definitions whose comments quote
them. No run lists them (a run that stops at a violation says nothing else); adding
one to the configuration named shows its counterexample.

| Definition | Configuration | What happens |
|---|---|---|
| `ReviewLifecycle!SubmittedIsProcessed` | `runs_finish`, with a reset in the budget | a second submission is ignored by the queue, whose job id it shares, and never processed |
| `Evidence!IncompleteNeverApproved` | `evidence`, without automatic rejection | an applicant is approved with no authenticity result |
| `Evidence!CorrectedDocumentClears` | `evidence` | an expired document that was replaced rejects again |
| `Webhooks!RetryIsQueued` | `webhooks` | a retry is ignored by the queue; only the sweep retries |
| `Verification!PassedStepCompletes` | `verification` | a check of a superseded document keeps a step incomplete that has passed in this run (`worker/src/pipeline.ts:1237`) |
| `Duplicates!FingerprintDescribes` | `transactions` | a decision writes back the fingerprint it has read, over that of a patch made meanwhile: later runs compare a name the applicant no longer has (`db/prisma/schema.prisma:246`) |
| `Duplicates!CorrectedIdentityClears` | `transactions` | a duplicate identity is recorded on no document, so nothing replaces it when the applicant has corrected the name (`worker/src/pipeline.ts:1237`) |
| `Screening!PausesWithoutAPerson` | `screening` | a screening that throws between the hits and the freeze finds the hits known and freezes nobody (`worker/src/screening.ts:341`) |
| `Support!EscalatedIsInTheInbox` | `support` | a run is recorded as escalated, but the tool was denied by the intent's policy: the ticket waits for a person and nothing is in their inbox (`agent/src/types.ts:104`) |
| `Kyb!ControllerIsUbo` | `small_systems`, with a holding of votes only | an owner of votes without equity is passed over (`core/src/ubo.ts:162`) |
| `SignIn!EnabledIsProven` | `sign_in` | an enrolment in another tab replaces the secret between the read and the write of a confirmation (`api/src/routes/twofactor.ts:138`) |

The models contain more disagreements of the same kinds. Stale reads, as in
`final_overwritten`:

* the agent's `request_resubmission` (`AgentCommit`) undoes a final rejection made
  since its read; `agent/src/tools.ts:386` says it never does;
* a periodic review (`CommitVerdict`) approves a customer whom monitoring has
  frozen meanwhile; `worker/src/screening.ts:341` wants a human to;
* an AGENT's decision (`DecisionCommit`) replaces a terminal one made since its
  read; `api/src/routes/decisions.ts:219` calls that a privileged act;
* a patch (`PatchEnds`) lands after the decision it raced, against
  `api/src/routes/applicants.ts:280`; the new country is not gated again
  (`worker/src/pipeline.ts:73`);
* of two runs the later commit lowers the due-diligence level, against
  `core/src/risk.ts:57`;
* two runs that both count a document's number before either stores it approve one
  document twice (`CountNumber`, `StoreNumber`; `worker/src/pipeline.ts:538`); hence
  the excuse in `RepeatIsNoticed`;
* a document whose image was replaced is marked EXTRACTED by the run that read its
  predecessor (`SaveExtraction`), against `api/src/routes/applicants.ts:407`.

Lost or repeated writes:

* overlapping failures of a sign-in count once, a recovery code is restored by an
  overlapping request, and an enrolment or confirmation resets the last used step
  (`CodeFails`, `Accept`, `ConfirmWrite`; hence the excuses in `CodesWorkOnce` and
  `LocksForCause`); a challenge that was bought while the factor was on, used after it
  was turned off and enrolled anew, is met by codes of the new secret, which nobody
  has confirmed, and the confirmation then sets the last used step back
  (`CodeRead`, `Confirm`; `api/src/routes/twofactor.ts:68`);
* the agent's turn overwrites an escalation of another run and a takeover
  (`Settle`; `agent/src/service.ts:287`), and a request that had passed the check before
  the takeover starts a newer run and answers after it (`StartRun`, `Reply`;
  `service.ts:171`); a handover whose second write throws leaves a row in the inbox, and
  the model may still end its turn as an answer (`TellingFails`;
  `agent/src/tools.ts:627`, `runtime-claude.ts:66`); after a person's reply the ticket awaits the
  applicant and the agent answers the next message (`postHumanReply`), against
  `service.ts:333`; a message sent while a person has the ticket is not kept;
* an evaluation that runs again blocks a transfer an officer has released, and
  leaves the alerts and cases of both attempts (`WriteVerdict`, `CreateCase`);
* a second decision on a hit lowers the run's count of open hits once more
  (`resolveHit`); a company posted again has its edges twice (`AddShareholder`).

And, without a race:

* a run and the agent write statuses that the table reserves to people
  (`CommitVerdict`, `AgentCommit`; `core/src/state-machine.ts:140`);
* a run without a selfie leaves a skipped check of no document, which no later
  selfie replaces: the applicant is not approved before a reset (`NoFace`);
* a first approval subscribes nobody to monitoring, because the rule reads the
  status of before the decision (`SubscribeMonitoring`; `core/src/rule-library.ts:524`);
* the sweep's add is ignored while the completed job is kept
  (`requeueStalledDeliveries`; `worker/src/webhooks.ts:18`), a refused delivery is
  sent again when its job is run again (`BeginAttempt`; `webhooks.ts:143`), and
  deliveries go on to an endpoint the breaker has disabled (`webhooks.ts:188`).
* a chain-analytics provider that does not answer is taken for a clean wallet
  (`Wallet`; `worker/src/transactions.ts:56`); the counterparty of a transfer is never
  taken for a provider, so every travel-rule message is EXEMPT (`FinishJob`);
  amounts are compared as if in one currency; the windows of a week and a month
  have no upper end (`computeAggregates`);
* the daily feed writes every row, so that `updatedAt` moves although nothing was
  amended: a cleared hit is opened again by the next screening (`ingestSource`,
  `expired`), and a disposition carried forward starts a new period; a suppression
  is unique per entry, not per customer;
* rules about support tickets are never evaluated; `CREATE_CASE` and `NOTIFY_TEAM`
  have no effect in `summarizeActions`; several facts the rules name are never
  supplied; the age-verification and crypto levels set `autoApprove` but have required
  steps no run can complete (`checkTypeForStep`);
* `NOT_MACHINE_READABLE` counts as final although its comment routes it to a person
  (`core/src/reject-labels.ts:86`), the document of the facts is the first, not the most
  recent one (`core/src/risk.ts:210`), and the rule about the risk score reads the
  previous run's;
* who is asked for what is computed three times (`GET requirements`, the agent,
  `finalize`) from documents, other documents and checks; a required phone or e-mail
  step is outstanding for ever in the first (`requirements`);
* what a register between 99.5 % and 100 % does not account for is dropped without being
  recorded, at each company on the way up, and so is whatever comes to a hundredth of a per
  cent or less, against `core/src/ubo.ts:18` (`Gap`, `recordUnresolved`);
* check digits are sums modulo ten of values that run to 35: a glyph of the number read
  as one that counts the same passes all of them, 0 for A, K, U or the filler, 6 for G
  or Q (`computeCheckDigit`, `TakenForItsLike`; `core/src/mrz.ts:76`);
* a register of more than 100 % is not noticed, and the flag of unresolved ownership
  is as old as the last resolution (`walk`, `Resolve`);
* births more than a century ago are read as recent, and expiries of the last century
  as of this one (`expandYear`);
* the hash of an audit row does not cover `before`, `after`, `actorType` and `ip`,
  and the removal of the newest rows leaves a chain that verifies, against
  `db/src/audit.ts:7` (`auditHash`, `DeleteRow`).

## 5. Bounds

* `MaxAttempts` (5 in the code), `JobAttempts` (5) and the breaker's limit (20)
  are 2 or 3: each limit is reached, and one further value adds only longer runs
  of the same kind. `MaxStalls` is 0 or 1, as in BullMQ.
* Requests: enough for two of the writers of interest to overlap with a run and
  for a third to come after. The runs of `ReviewLifecycle` split the writers
  by theme because all of them together do not finish.
* `MaxDocs = 2`: a document and the row that succeeds it. `MaxRequests = 4` in
  `evidence`: upload, submit, the agent's resubmission and the applicant's are what
  it takes for two runs to overlap. When the table is full an upload that needs a new row is not taken: the bound, not a rule of the code.
* `Events` has two elements: the endpoint's counter is what deliveries share.
* `MaxFaults = 1` in `webhooks`; a fault may strike at any call.
* `verification`: `MaxTrouble = 1`, each cause alone; `MaxRuns = 2`, a run and what a
  later one makes of its traces; `MaxDocs = 3`, one of each kind a level asks for.
  The three levels have automatic approval with and without documents, and none.
* `screening`: `MaxDays = 3` and `MaxAge = 1` let a disposition expire and renew;
  `MaxAttempts = 2` has a job that fails once. Three persons: one alike, one
  namesake, one found only when no prefix matches.
* `transactions`: four transfers are the fewest that the rule about structuring needs.
  Of the accounts two are enough for every property, which are about pairs;
  `MaxActs = 3` is both submissions and one upload, patch, reset or fault between
  them; `MaxRows = 2` is a document and its successor. Two tenants, faces and
  identities let each be shared or not, one number is shared or not read.
* `support`: two requests overlap; `MaxTurns = 2` is reached. One act of staff and one fault
  are enough for a takeover between a request's check and its run, and for a handover that
  fails halfway; that two such failures hand over is proved, for any number of turns.
* `sign_in`: `MaxTime = 3` with a lockout of 2 lets it begin and end; the failure
  limits of 2 (8 and 5 in the code) are reached and passed within six requests.
* `small_systems`: three companies can own each other in a circle, and a register
  answers with a shell, a nominee, partners, a partial extract or nothing (the other
  shapes are built from the same edges), and one owner holds 99.7 %, which the
  code takes for all of it; two slips in a zone
  let one group have one and another one too, by any digit, by A and G, which count as 0
  and 6 do, or by the filler; three numbers make a chain with a
  first, a middle and a last row.

`CHECK_DEADLOCK FALSE` everywhere: when the budget is spent and the work done,
the system really stops. Only `transactions` uses symmetry, of accounts, identities,
faces and tenants: nothing but equality is asked of them, and its properties are
about safety.

## 6. Fairness

`ReviewLifecycle!Fairness`: workers take waiting jobs and a run's awaits return
(`WF` of a run's steps), retention lapses, a request that was accepted goes on. No
fairness on failures, on requests, or on people. It is what the code's
scheduling gives: BullMQ workers poll, `await`s are bounded by the providers'
timeouts, and job retention is a timer. `Webhooks!Fairness`: the same, plus the
sweep, which is scheduled every 15 minutes, and the passing of the retry delay.
Emitters get none: an event without its row is not owed. Faults are bounded
there, which states that the platform does not fail for ever.

## 7. Proofs

`ReviewLifecycleProofs` proves, for every set of reviewers, every limit on
attempts and stalls and every budget (the two ASSUMEs of `ReviewLifecycle`):

* `InductiveHolds`: `Spec => []Inductive`;
* `TypesHold`, `RowMatches`, `QueuedVisible`, `DecisionsRecorded`: `[]` of
  `TypeOK`, `RowMatchesTimeline`, `QueuedIsVisible`, `AutomatedDecisionRecorded`;
* `FreshReads`: `Spec => FreshReadsRespectFinal`.

None of the four invariants is inductive alone. `Inductive` adds what they rest on:

* `RequestsLegal`: a request about to write read a status other than
  `REJECTED_FINAL` and carries a trigger of its kind, so that what it writes is a
  status the mapping covers;
* `RunsMatchJobs`: a run has a program counter exactly when its job is active, so
  that the run which wrote the standing status can be told from a later run of
  the same job; and the job has attempts left;
* `OnlyRunsQueue`: QUEUED and actor SYSTEM mean that the writer of the newest
  event is a job trigger, so that `run[lastEvent.writer]` means something;
* `AuditFollowsReview`: a run about to audit has written its Review row.

The proof goes by conjunct, and within a conjunct by the actions that can disturb
it: `StepTypes`, `RowStep`, `QueueStep`, `RecordStep`, `RequestsStep`, `RunsStep`
and `QueueWriterStep`, over lemmas that say which actions write what. TLC checks
`Inductive` in `sent_back`.

`VerificationProofs` proves, for any levels, photographs and residences:

* `DueDiligenceHolds`: `Spec => DueDiligenceRatchets`;
* `TypesHold`: `Spec => []TypeOK`, of which the hard part is that the score is a
  percentage whatever the factors and the rules that fired;
* `RejectionsRestOnFindings`: `Spec => []RejectedOnFindings`, when no level in use
  rejects for a score alone;
* `ApprovalRestsHold`: `Spec => ApprovalRestsOnThisRun`, when every level in use is
  `Usual`, and `TemplatesAreUsual`, that every built-in level is.

Only the decision writes the level (`BetweenKeeps`, `StepKeeps`), and what it writes is
not lower than what the snapshot read (`NeverLower`), whatever the score and the rules
come to.

The hypothesis of the third is `~l.autoReject` of every level: it is off by default
(`levels.ts`:128) and no built-in template sets it; with it a risky country would be
enough, and the property false. What is assumed of the constants is that a level has
steps (`LevelAssumption`, `levels.ts`:124), and that a photograph shows what it is
filed as while a step for identity asks for identity documents (`PictureAssumption`,
as in every template).

A rejection is decided at the end of a run from checks that the run wrote one by one,
some of them about documents that earlier runs have read. `FoundInv` says that nothing
on record is invented: `RowInv`, the row holds a residence and dates it was given;
`DocsInv`, what a document row keeps of what was read and examined was found on that
photograph; `ChecksInv`, every label of a check, of whichever run, was found, or it only
says that something was not done (`Excused`), which leaves the applicant a way back;
`ScreeningInv`, a hit is of a listed name. Every step of a run keeps it
(`StepsKeepFound`), and so does what happens between the runs (`BetweenKeepsFound`).
What `finalize` makes of such checks is a question to the rules. `Requested`: what the
engine asks for is an action of a rule of the library whose condition held (`OnlyHeldFire`).
Rule by rule, the lemmas of *Founded* then show that a condition under which a rule
rejects is a finding that was made (`ShownIsFound`), or that its label leaves a way
back, so that the status is not the final one (`DecisionFounded`, `FinalizeKeeps`).
TLC checked `FoundInv` on the instance of `verification` before it was proved.
The hypothesis about the levels enters in one place only, so the induction carries it
along: `FoundAll` is `FoundInv` and a promise of `RejectedOnFindings` under that
hypothesis (`FoundHolds`).

For the score, `SurvivalRuns` and `DeltaRuns` show that the two recursions, of
`combineRiskFactors` over the factors and of `riskDelta` over the actions, have a
solution at every length, and `FactorsAreNumbers` that every factor derived from a
snapshot, the weights of countries and labels among them, is a number to which they
apply. `ScoreRange` and `DeltaRange` then bound what each comes to, `Clamped` the sum
(`DecisionScored`).

An approval is decided from the newest check of each kind, and the property says of all
the checks of the run, those on superseded documents too, that they had nothing to
object to. A level is `Usual` when its steps are told apart by their identifiers and
have a place in the order, at most one asks for proof of address, a chip is not required
and what is checked on a face or a bill is. A required chip is read by
the phone before the run, so that no check of it would be of the run; two steps for
proof of address could look for different kinds of bill, and the picture looked at
would not be the newest of them; a check of an optional selfie may be of a superseded
picture, which the facts leave out.
`RestInv` is the invariant: the level is `Usual`; `Prefix`, documents are
superseded all together, so that the newest picture of a kind decides for the others;
`Backed`, a picture check that has completed is of a picture of its kind, and checks no
program performs never complete; and `RunRests`, in which a check of this run is of a
live document or of the newest picture of its kind (`Timely`) and each step of the level
is ahead of the run (`Ahead`) or has left a check of it (`Reported`; `WavesCover`, the
waves are the whole level). One lemma per step of a run keeps it.
At the decision, `ApprovalAsked` finds that one rule only asks for approval, and
`ApprovalShows` and `ApprovalSees` what its condition saw: every required step passed, no
failure and no warning. By `RestInv` what it saw is of this run, and all there is of
this run (`NothingSuperseded`, `FinalizeRests`); no other step approves
(`OnlyRunsApprove`). TLC checked `RestInv` on the instance of `verification` first.

Its second half is about `MrzReader`, for any year, any documents, any glyphs that others
may be taken for and any number of them (its ASSUME):

* `OneSlipCaught`: `MrzSpec => []OneSlipIsCaught`.

`MrzInvariant` says that the zone is as some zone `Made` from the document, at every
place that has not slipped, and differs from it at every one that has. The rest is
about check digits. `OneGlyph`: groups that differ at one place, in glyphs that differ
modulo ten, have different check digits, because the running sums agree before that
place, differ after it by the weighted difference of the two values, and 7, 3 and 1
have no factor in common with ten. `DatesAreDigits`: in a zone that is valid, dates
are digits, and two digits that differ do so modulo ten. The sum is a recursive
function; `SumExists` shows that there is such a function, and both go by induction
over the places (`SetInduction`: well-founded induction with the property written as a
set). `DateBack` and `YearBack`: the six digits of a date that two digits tell give
the date back.

`EvidenceProofs` proves, for any number of documents and requests, any images and
either setting of automatic rejection (the two ASSUMEs of `Evidence`):

* `RejectionsFounded`: `Spec => []RejectionNeedsFinding`;
* `ApprovalsFounded`: `Spec => ApprovalNeedsReading`.

A verdict is made of checks, facts on documents and a run's locals, each written at
another time than the provider's answer it came from. The invariant says of each
where it comes from: `DocFounded` and `ChecksFounded`, what is on record was shown to
a run, also on documents that have been superseded or replaced since; `RunFounded`,
what a run has read and not yet recorded was shown to it, and a run that has not
decided has no verdict. `VerdictFounded` then follows the rules of `finalize` back.

`WebhooksProofs` proves, for every set of events and every limit on attempts, tries,
failures and faults (the ASSUME of `Webhooks`):

* `TypesHold`: `[]TypeOK`; `AbandonedOnlyWhenExhausted`: `[]AbandonedWhenExhausted`.

Both rest on `WorkersHaveJobs`: a worker that is under way holds an active job, and a
job that waits or is active has tries left. `StepsAsPromised`, in the same module, is
the safety half of the refinement that `DeliversAtLeastOnce` checks: every step of
`Webhooks` is a step of `EventDelivery` or is not seen by the receiver. It adds
`Linked`: no job before its row, a row once, no worker past its first read on a
delivered row, and none about to mark one that was not accepted.

The second half of `WebhooksProofs` proves, for every set of tenants, writers and
facts and every number of rows (no assumption on the constants):

* `AuditInvariant`: `AuditSpec => []AuditInv`;
* `HonestChainHolds`, `TamperingLocated`: `[]` of `HonestChain` and
  `TamperingIsLocated`.

That a chain is not forked rests on the lock, and `AuditInv` says how: `Holding`, who is
between the lock and the commit is the one who holds it; `Growing`, the tail it has
read is still the newest row of the log, and no number drawn so far reaches the next
one; `Sound`, the committed rows verify; `Numbered`, what is in the log was committed.
The proof of a commit extends a chain by one row (`Predecessors`, and the lemmas
before it); the other actions leave `written` alone. `TamperingIsLocated` then
compares, row by row, what precedes it in the log with what preceded it when it
was written.

`SignInProofs` proves, for any number of tabs and any limits (the ASSUME of `SignIn`):

* `PasswordAloneOpensNothing`: `[]SecondFactorFirst`; `TypesHold`: `[]TypeOK`;
* `LockoutsHold`, `CodesHold`: `[]` of `LocksForCause` and `CodesWorkOnce`.

`CodeOwed` says that until a code was shown nobody has a session, hence no request
that needs one, and that every login under way has read the factor as it was set up.
`Known`: nothing is on record of a secret that was not issued. `Counters`, among
requests that do not overlap: one request is under way at most, it has read what the
account still says, and each counter stands at the mistakes since the last success.
`Once`: what has opened a session is used up, a TOTP step by the last step or by
another secret, a recovery code by its absence; and what a request has found out about
its code still holds. The attempt at `Once` failed at `CodeRead` with a challenge
from before the factor was turned off. TLC found the behaviour when its bounds were
raised to what it needs, so the excuse of section 4 was added to `CodesWorkOnce`, and
the fault `unconfirmed` to the history that states it.

`ScreeningProofs` proves, for any corpus, feeds, runs, decisions and failing calls
(the ASSUME of `Screening`):

* `ScreeningInvariant`: `Spec => []IInv`; `TypesHold`;
* `SettledHolds`, `UndecidedHolds`, `LoudHolds`: `[]` of `SettledByAnalyst`,
  `UndecidedIsOpen` and `NewMatchIsLoud`;
* `FrozenHolds`, `BlindedNever`: `FrozenForSomebodyNew` and `NeverBlinded`.

A hit's disposition is copied from hit to hit by runs that weigh first and write
later. `HitsBacked` says of what was written, and `WeighedBacked` of what is about to
be, that it carries a resolution an analyst gave that entry; `OfNewestRun`, that a job
under way is about the newest run, and that what it calls new has no earlier hit;
`Handled`, that while no call has failed what monitoring has found has its case and its
hold, or the job that makes them is still under way.

`SupportProofs` proves, for any number of runs, turns, tickets' texts, acts of staff
and faults (the ASSUME of `Support`):

* `SupportInvariant`: `Spec => []IInv`; `TypesHold`;
* `PolicyHolds`, `InboxHolds`: `[]` of `PolicyOnTheWayOut` and `InboxMatchesOutcome`;
* `InFlightHolds`: `OnlyAnswersInFlight`.

`AllSound` says of each run that one about to answer may, whatever tools it has called
since; `InboxKnown`, that each row of the inbox of a run that is not an escalated one is
of a failed call, or of one whose second write is to come (`Lost` counts both), so that
two rows are two failures, which the policy does not let pass; `Held`, that every
request past the check was so when the ticket was taken. `NothingApplies`
unfolds the policy once: what `shouldEscalate` must have found to return nothing.

`TransactionsProofs` proves, for any number of transfers of any positive amounts at any
times, officers' acts and failures (the ASSUME of `Transactions`; that amounts are
positive is what `IngestTransactionSchema` demands):

* `TransfersInvariant`: `Spec => []TransferInv`;
* `BlockedAreOwned`: `[]BlockedHasOwner`; `ReleasesStand`: `ReleaseStands`;
* `VerdictsInvariant`: `Spec => [](TransferInv /\ VerdictInv)`;
* `NothingSettlesUnreleased`, `StructuringFound`: `[]` of `NeverSettlesUnreleased` and
  `StructuringIsCaught`.

`JobsSound` says how far each job has come: an attempt raises its alerts in one step
with its verdict, none before, and goes on to its end only with its case.
`RaisedInTime`: nothing was raised in an attempt yet to come, so that an attempt that
begins finds none of its own. `TouchedIsJudged`: an officer finds something to release
only behind a verdict, so that a first attempt, which has one to write, meets none.
For these nothing is asked of the rules: the verdict may be any.

The other two are about what the default rules come to, and rest on lemmas about the
engine. `EngineRuns` and `ActionsCollected`: the recursions of `evaluateRules` and
`ActionsOf` have a solution, built rule by rule (`SetInduction`). `Fires`: a rule whose
condition holds of facts that the rules before it leave alone has fired in the end.
`Stopped`: what a rule that fired asks for is in the summary, whatever the others ask
for, so that a block stands and a flag keeps a transfer from being approved.
`ListedInOrder`: the sorted rules are the library as it is listed. `Decides` puts them
together: a rule of the library, but the last, decides when its condition holds of the
facts of the transfer. Then each hazard meets its rule: `UnknownIsBlocked`,
`EmbargoedIsBlocked`, `FirstLargeIsBlocked`, and `StructuringIsFlagged`, which needs that
a set of amounts, each at least 8000, sums to as much (`SumOfLarge`, by induction over
finite sets) and that the window's count and sum reach the rule's.

That the verdict is right when it is computed is not enough, because it is written, and
acted on, later. `VerdictInv` says that it stays right: of a verdict not yet written
or written, that if it lets the transfer settle the transfer is `Cleared`, and of a row
that settles unreleased the same. Another transfer that is stored in between can only
end a transfer's being the only one of its customer (`ClearedStays`). Structuring is the
harder one: a transfer that is `Structured` was reported last, after those that lie
within a day before it, so all of them are stored when its own job takes its facts. TLC checks that
`VerdictInv` holds in every state of `transactions`.

The second half of the module is about `Duplicates`, for any number of accounts,
tenants, faces, identities, numbers, rows, requests and faults (its ASSUME):

* `DuplicatesInvariant`: `DupSpec => []DupInv`;
* `FacesNoticed`, `RepeatsNoticed`: `[]` of `SameFaceSameName` and `RepeatIsNoticed`.

`DupInv` says of one applicant what a run that is to approve must have done:
`OwnRun`, its locals are those it loaded unless a patch came after; `OwnDocument` and
`OwnNumber`, a document that passed has had its number compared and, but for the
instant before, stored; `OwnFace`, a face that was looked up is in the index. Of two
applicants `FacePair`, `IdentityPair` and `NumberPair` say that both cannot have come
through without a finding. Only the step that looks something up can make that false
(`FaceCleaned`, `IdentityCleaned`), and it sees what the other has stored.

Only model-checked: the liveness properties and the liveness half of the refinement of
`EventDelivery` (TLAPS does not reason about `WF` without `ENABLED`);
`InOrderIsApproved`, which is not true of every level that could be configured (a
threshold can be set so low that a country alone sends to review) and is about the
scores of the built-in ones; and `Kyb`, whose walk is a RECURSIVE operator, under
which the prover has no SMT backend. `Conditions` and `RuleEngine` recur by functions
or not at all, so that modules over them can be proved about.

## 8. Not modelled, and what is left

Not modelled: how providers compute their answers, cryptography (signatures, TOTP,
passive authentication, the chip protocol), blob storage, the SDK and the
dashboard, provisioning: conversions, I/O or user interface. The configuration
routes are CRUD of single rows. Devices that applicants share are facts about one
applicant's row.

Left:

1. A proof that an applicant in order is approved, for the built-in levels.
2. A composition of `Verification` with the queue of `ReviewLifecycle`.
3. Deadlines and the board of the case handlers; idempotency keys.
