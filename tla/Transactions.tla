---------------------------- MODULE Transactions ----------------------------
(***************************************************************************)
(* Transaction monitoring: ingest (api/src/routes/transactions.ts), the     *)
(* evaluation job with its windows, rules, alerts, case and travel-rule     *)
(* message (worker/src/transactions.ts), the officer's release, and the     *)
(* messages exchanged with other providers (core/src/travel-rule.ts).       *)
(* An evaluation holds no lock and claims nothing: jobs of one customer     *)
(* interleave between any two calls, and a job that throws runs again.      *)
(***************************************************************************)
EXTENDS RuleLibrary, RuleEngine, Integers, TLC

CONSTANTS
  Scenarios,    \* the transfers a client reports, and how often something happens
  MaxAttempts   \* attempts of a job

\* Amounts are positive, as IngestTransactionSchema requires (schemas.ts:221), and
\* whole here.
ASSUME TransferAssumption ==
  /\ MaxAttempts \in Nat \ {0}
  /\ \A s \in Scenarios :
       /\ s.failures \in Nat /\ s.freezes \in Nat /\ s.deskWork \in Nat
       /\ \A t \in DOMAIN s.about :
            s.about[t].amount \in Nat \ {0} /\ s.about[t].at \in Int

VARIABLES
  about,     \* what each transfer is that the client will report
  txs,       \* the transaction rows: status, and whether an officer released it
  latest,    \* history: the transfer reported last
  jobs,      \* the evaluation job of each transfer
  alerts,    \* alert rows
  cases,     \* case rows by their reference
  messages,  \* travel-rule messages
  customer,  \* review status of the customer
  failures,  \* crashes and failing calls that may still happen,
  freezes,   \* changes of the customer's status,
  deskWork   \* and calls that work on alerts and messages

vars == <<about, txs, latest, jobs, alerts, cases, messages, customer, failures,
          freezes, deskWork>>
bounded == <<about, failures, freezes, deskWork>>

Transfers == DOMAIN about

----------------------------------------------------------------------------
(* Travel rule.                                                            *)

TRAVEL_RULE_THRESHOLDS ==
     "USA" :> [amount |-> 3000, currency |-> "USD"]
  @@ "DEU" :> [amount |-> 0, currency |-> "EUR"]
  @@ "GBR" :> [amount |-> 1000, currency |-> "GBP"]
  @@ "JPN" :> [amount |-> 100000, currency |-> "JPY"]
  @@ "DEFAULT" :> [amount |-> 1000, currency |-> "EUR"]

thresholdFor(jurisdiction) ==
  TRAVEL_RULE_THRESHOLDS[IF jurisdiction \in DOMAIN TRAVEL_RULE_THRESHOLDS
                         THEN jurisdiction ELSE "DEFAULT"]

\* Amounts in different currencies are not compared: the data is required.
isTravelRuleRequired(jurisdiction, amount, currency, isCrypto, isVasp) ==
  LET threshold == thresholdFor(jurisdiction) IN
    /\ isCrypto
    /\ isVasp
    /\ threshold.currency = currency => amount >= threshold.amount

\* What a party of a transfer is described with: names, address, and so on.
PartyFields == {"name", "givenNames", "address", "nationalId", "birth"}

\* A payload without the names its schema asks for is not sent.
toIvms101(party) == [parses |-> "name" \in party, party |-> party]

\* What an inbound payload lacks for the originator to be screened.
validateInboundPayload(payload) ==
  LET missing ==
        ({"givenNames", "address"} \ payload.party)
        \cup (IF payload.party \cap {"nationalId", "birth"} = {}
              THEN {"identifier"} ELSE {})
  IN [valid |-> payload.parses, sufficient |-> payload.parses /\ missing = {}]

----------------------------------------------------------------------------
(* The windows of a customer's history.                                    *)

Stored      == DOMAIN txs
SumOf(S)    == FoldSet(LAMBDA t, sum : sum + about[t].amount, 0, S)

\* Mutant: only transfers that have been decided count.
OwnDecided(t) == {u \in Stored : /\ about[u].known /\ about[t].known
                                 /\ txs[u].status # "PENDING" \/ u = t}

Own(t)      == {u \in Stored : about[u].known /\ about[t].known}

\* Hours. Only the day's window ends at the transfer; the longer ones take in
\* whatever has been stored since.
InDay(t, u) == about[u].at \in (about[t].at - 24) .. about[t].at

computeAggregates(t) ==
  LET at        == about[t].at
      others    == Own(t) \ {t}
      day       == {u \in others : InDay(t, u)}
      week      == {u \in others : about[u].at >= at - 168}
      month     == {u \in others : about[u].at >= at - 720}
      inbounds  == {u \in Own(t) : about[u].direction = "INBOUND" /\ about[u].at <= at}
      Flow(way) == SumOf({u \in Own(t) : about[u].direction = way /\ InDay(t, u)})
  IN [count24h |-> Cardinality(day), sum24h |-> SumOf(day),
      count7d |-> Cardinality(week), sum7d |-> SumOf(week),
      count30d |-> Cardinality(month), sum30d |-> SumOf(month),
      lifetimeCount |-> Cardinality(others), lifetimeSum |-> SumOf(others),
      baseline29 |-> Max({0, SumOf(month) - SumOf(day)}),
      minutesSinceLastInbound |->
        IF inbounds = {} THEN -1
        ELSE 60 * (at - Max({about[u].at : u \in inbounds})),
      inboundSum24h |-> Flow("INBOUND"), outboundSum24h |-> Flow("OUTBOUND")]

\* A wallet the provider has not answered for looks like one nobody knows.
Wallet(t, answered) ==
  CASE ~answered \/ about[t].wallet \in {"none", "clean"} ->
         [categories |-> {}, hops |-> 99, sanctioned |-> FALSE, risk |-> 0]
    [] answered /\ about[t].wallet = "mixer" ->
         [categories |-> {"mixer"}, hops |-> 1, sanctioned |-> FALSE, risk |-> 95]
    [] answered /\ about[t].wallet = "far-mixer" ->
         [categories |-> {"mixer"}, hops |-> 4, sanctioned |-> FALSE, risk |-> 29]
    [] answered /\ about[t].wallet = "sanctioned" ->
         [categories |-> {"sanctioned-entity"}, hops |-> 1, sanctioned |-> TRUE,
          risk |-> 100]

\* Baselines are compared with zero and with one twenty-ninth of themselves, so
\* the model keeps 29 times the daily average.
FactNames(t, agg) ==
  {"tx.direction", "tx.amountBase", "tx.isCrypto", "tx.counterpartySanctioned",
   "tx.walletCategories", "tx.walletExposureHops", "applicant.reviewStatus",
   "agg.count24h", "agg.sum24h", "agg.lifetimeCount", "agg.baselineDailyAvg",
   "agg.sum24hOverBaseline", "agg.outboundToInboundPercent"}
  \cup (IF about[t].country = "" THEN {} ELSE {"tx.counterpartyCountry"})
  \cup (IF agg.minutesSinceLastInbound < 0 THEN {}
        ELSE {"agg.minutesSinceLastInbound"})

FactValue(fact, t, wallet, agg) ==
  CASE fact = "tx.direction"             -> about[t].direction
    [] fact = "tx.amountBase"            -> about[t].amount
    [] fact = "tx.isCrypto"              -> about[t].wallet # "none"
    [] fact = "tx.counterpartySanctioned" -> wallet.sanctioned
    [] fact = "tx.walletCategories"      -> wallet.categories
    [] fact = "tx.walletExposureHops"    -> wallet.hops
    [] fact = "tx.counterpartyCountry"   -> about[t].country
    [] fact = "applicant.reviewStatus"   ->
         IF about[t].known THEN customer ELSE "NOT_STARTED"
    [] fact = "agg.count24h"             -> agg.count24h
    [] fact = "agg.sum24h"               -> agg.sum24h
    [] fact = "agg.lifetimeCount"        -> agg.lifetimeCount
    [] fact = "agg.baselineDailyAvg"     -> agg.baseline29
    [] fact = "agg.sum24hOverBaseline"   ->
         IF agg.baseline29 > 0 THEN (29 * agg.sum24h) \div agg.baseline29 ELSE 0
    [] fact = "agg.outboundToInboundPercent" ->
         IF agg.inboundSum24h > 0
         THEN (100 * agg.outboundSum24h) \div agg.inboundSum24h ELSE 0
    [] fact = "agg.minutesSinceLastInbound" -> agg.minutesSinceLastInbound

buildTransactionFacts(t, wallet, agg) ==
  [fact \in FactNames(t, agg) |-> FactValue(fact, t, wallet, agg)]

\* Mutant: the tenant has not been given the rules about counterparties.
PatternRulesOnly == Ordered(PatternRules, {"TRANSACTION"})

TransactionRules == Ordered(TRANSACTION_RULES, {"TRANSACTION"})

Verdict(t, answered) ==
  LET wallet  == Wallet(t, answered)
      result  == evaluateRules(TransactionRules,
                   buildTransactionFacts(t, wallet, computeAggregates(t)))
      actions == ActionsOf(result.fired)
      hints   == summarizeActions(actions)
      risk    == riskDelta(actions) + wallet.risk \div 2
                   + IF wallet.sanctioned THEN 100 ELSE 0
  IN [action |-> IF hints.blockTransaction THEN "BLOCKED"
                 ELSE IF hints.flagTransaction THEN "FLAGGED" ELSE "APPROVED",
      alerts |-> hints.alerts, riskScore |-> Min({100, risk})]

----------------------------------------------------------------------------
NoJob     == [stage |-> "none", attempt |-> 0, verdict |-> [action |-> "none",
                alerts |-> {}, riskScore |-> 0], count |-> 0]
StatusOf(action) ==
  CASE action = "BLOCKED" -> "BLOCKED"
    [] action = "FLAGGED" -> "UNDER_REVIEW"
    [] action = "APPROVED" -> "APPROVED"

Init ==
  /\ \E s \in Scenarios :
       /\ about = s.about /\ failures = s.failures
       /\ freezes = s.freezes /\ deskWork = s.deskWork
  /\ txs = <<>> /\ latest = 0 /\ alerts = {} /\ messages = {}
  /\ jobs = [t \in Transfers |-> NoJob]
  /\ cases = <<>>
  /\ customer = "APPROVED"

\* Idempotent on the client's id: a report of a stored transfer changes nothing.
\* The job is a second call, which a request that dies never makes.
Ingest(t) ==
  /\ t \notin Stored
  /\ txs' = [u \in Stored \cup {t} |->
               IF u = t THEN [status |-> "PENDING", isFlagged |-> FALSE,
                              riskScore |-> 0, released |-> FALSE]
               ELSE txs[u]]
  /\ latest' = t
  /\ jobs' = [jobs EXCEPT ![t].stage = "created"]
  /\ UNCHANGED <<alerts, cases, messages, customer, bounded>>

EnqueueTransaction(t) ==
  /\ jobs[t].stage = "created"
  /\ jobs' = [jobs EXCEPT ![t].stage = "queued", ![t].attempt = 1]
  /\ UNCHANGED <<txs, latest, alerts, cases, messages, customer, bounded>>

RequestDies(t) ==
  /\ jobs[t].stage = "created"
  /\ failures > 0
  /\ failures' = failures - 1
  /\ jobs' = [jobs EXCEPT ![t].stage = "lost"]
  /\ UNCHANGED <<about, txs, latest, alerts, cases, messages, customer, freezes,
                 deskWork>>

----------------------------------------------------------------------------
(* The evaluation job.                                                     *)

\* The wallet is screened, the history summed up and the rules evaluated.
Evaluate(t, answered) ==
  /\ jobs[t].stage = "queued"
  /\ ~answered => about[t].wallet # "none" /\ failures > 0
  /\ failures' = IF answered THEN failures ELSE failures - 1
  /\ jobs' = [jobs EXCEPT ![t].stage = "evaluated",
                          ![t].verdict = Verdict(t, answered)]
  /\ UNCHANGED <<about, txs, latest, alerts, cases, messages, customer, freezes,
                 deskWork>>

\* One transaction writes the verdict, whatever the status is by now, and an
\* alert for each the rules ask for. A blocked transfer needs a case.
WriteVerdict(t) ==
  LET v == jobs[t].verdict IN
    /\ jobs[t].stage = "evaluated"
    /\ txs' = [txs EXCEPT ![t].status = StatusOf(v.action),
                          ![t].isFlagged = v.action # "APPROVED",
                          ![t].riskScore = v.riskScore]
    /\ alerts' = alerts \cup {[tx |-> t, attempt |-> jobs[t].attempt,
                               severity |-> s, status |-> "OPEN"] : s \in v.alerts}
    /\ jobs' = [jobs EXCEPT ![t].stage =
                  IF v.action = "BLOCKED" \/ "CRITICAL" \in v.alerts
                  THEN "needs-case" ELSE "travel-rule"]
    /\ UNCHANGED <<latest, cases, messages, customer, bounded>>

CountCases(t) ==
  /\ jobs[t].stage = "needs-case"
  /\ jobs' = [jobs EXCEPT ![t].stage = "counted", ![t].count = Len(cases)]
  /\ UNCHANGED <<txs, latest, alerts, cases, messages, customer, bounded>>

Retried(job) ==
  IF job.attempt < MaxAttempts
  THEN [NoJob EXCEPT !.stage = "queued", !.attempt = job.attempt + 1]
  ELSE [job EXCEPT !.stage = "failed"]

\* Mutant: the collision is swallowed and the job goes on without a case.
CreateCaseOrGoOn(t) ==
  /\ jobs[t].stage = "counted"
  /\ cases' = IF jobs[t].count < Len(cases) THEN cases
              ELSE Append(cases, [tx |-> t, attempt |-> jobs[t].attempt])
  /\ jobs' = [jobs EXCEPT ![t].stage = "travel-rule"]
  /\ UNCHANGED <<txs, latest, alerts, messages, customer, bounded>>

\* A reference somebody else has taken meanwhile fails the job. A case takes the
\* alerts of its own attempt.
CreateCase(t) ==
  LET taken == jobs[t].count < Len(cases) IN
    /\ jobs[t].stage = "counted"
    /\ cases' = IF taken THEN cases
                ELSE Append(cases, [tx |-> t, attempt |-> jobs[t].attempt])
    /\ jobs' = [jobs EXCEPT ![t] = IF taken THEN Retried(@)
                                   ELSE [@ EXCEPT !.stage = "travel-rule"]]
    /\ UNCHANGED <<txs, latest, alerts, messages, customer, bounded>>

\* Mutant: the job saves the verdict once more when it ends.
FinishJobAndSave(t) ==
  /\ jobs[t].stage = "travel-rule"
  /\ txs' = [txs EXCEPT ![t].status = StatusOf(jobs[t].verdict.action)]
  /\ jobs' = [jobs EXCEPT ![t].stage = "done"]
  /\ UNCHANGED <<latest, alerts, cases, messages, customer, bounded>>

\* The counterparty is taken for a wallet of its own, never for a provider. Then
\* the event goes out.
FinishJob(t) ==
  LET required == isTravelRuleRequired("DEU", about[t].amount, "EUR", TRUE, FALSE)
  IN /\ jobs[t].stage = "travel-rule"
     /\ messages' = IF about[t].wallet = "none" THEN messages
                    ELSE messages \cup
                      {[tx |-> t, direction |-> about[t].direction, party |-> {},
                        status |-> IF required THEN "PENDING" ELSE "EXEMPT"]}
     /\ jobs' = [jobs EXCEPT ![t].stage = "done"]
     /\ UNCHANGED <<txs, latest, alerts, cases, customer, bounded>>

\* A worker that dies, or a call that throws: the job runs from its beginning.
JobThrows(t) ==
  /\ jobs[t].stage \in {"queued", "evaluated", "needs-case", "counted", "travel-rule"}
  /\ failures > 0
  /\ failures' = failures - 1
  /\ jobs' = [jobs EXCEPT ![t] = Retried(@)]
  /\ UNCHANGED <<about, txs, latest, alerts, cases, messages, customer, freezes,
                 deskWork>>

----------------------------------------------------------------------------
(* Staff, the customer's status, other providers.                          *)

Release(t) ==
  /\ t \in Stored
  /\ txs[t].status \in {"BLOCKED", "UNDER_REVIEW"}
  /\ txs' = [txs EXCEPT ![t].status = "APPROVED", ![t].isFlagged = FALSE,
                        ![t].released = TRUE]
  /\ alerts' = {IF a.tx = t /\ a.status \in {"OPEN", "IN_CASE"}
                THEN [a EXCEPT !.status = "DISMISSED"] ELSE a : a \in alerts}
  /\ UNCHANGED <<latest, jobs, cases, messages, customer, bounded>>

AlertStatuses == {"OPEN", "IN_CASE", "DISMISSED", "ESCALATED", "CLOSED"}

\* An agent sets any status, whatever it was.
SetAlertStatus(a, status) ==
  /\ alerts' = (alerts \ {a}) \cup {[a EXCEPT !.status = status]}
  /\ UNCHANGED <<txs, latest, jobs, cases, messages, customer>>

\* Monitoring freezes the customer, a reviewer lifts it.
ChangeCustomer ==
  /\ freezes > 0
  /\ freezes' = freezes - 1
  /\ customer' = IF customer = "APPROVED" THEN "ON_HOLD" ELSE "APPROVED"
  /\ UNCHANGED <<about, txs, latest, jobs, alerts, cases, messages, failures,
                 deskWork>>

\* The client supplies the parties of a message, of whatever status it is.
SendOriginator(m, party) ==
  /\ toIvms101(party).parses
  /\ messages' = (messages \ {m}) \cup {[m EXCEPT !.status = "SENT", !.party = party]}
  /\ UNCHANGED <<txs, latest, jobs, alerts, cases, customer>>

\* Another provider's message on a stored transfer.
ReceiveInbound(t, payload) ==
  LET validation == validateInboundPayload(payload) IN
    /\ t \in Stored
    /\ messages' = messages \cup
         {[tx |-> t, direction |-> "INBOUND", party |-> payload.party,
           status |-> IF validation.valid /\ validation.sufficient
                      THEN "ACCEPTED" ELSE "REJECTED"]}
    /\ UNCHANGED <<txs, latest, jobs, alerts, cases, customer>>

JobStep(t) ==
  \/ EnqueueTransaction(t)
  \/ \E answered \in BOOLEAN : Evaluate(t, answered)
  \/ WriteVerdict(t) \/ CountCases(t) \/ CreateCase(t) \/ FinishJob(t)

Monitoring ==
  \/ \E t \in Transfers :
       Ingest(t) \/ RequestDies(t) \/ JobStep(t) \/ JobThrows(t) \/ Release(t)
  \/ ChangeCustomer

\* Calls on alerts and messages, which touch nothing else.
Desk ==
  /\ deskWork > 0
  /\ deskWork' = deskWork - 1
  /\ UNCHANGED <<about, freezes, failures>>
  /\ \/ \E a \in alerts, status \in AlertStatuses : SetAlertStatus(a, status)
     \/ \E m \in messages, party \in {{}, {"name"}} : SendOriginator(m, party)
     \/ \E t \in Transfers, parses \in BOOLEAN,
           party \in {{"name"}, {"name", "givenNames", "address"}, PartyFields} :
          ReceiveInbound(t, [parses |-> parses, party |-> party])

Next == Monitoring \/ Desk

Spec == Init /\ [][Next]_vars

----------------------------------------------------------------------------
(* What holds.                                                             *)

Stages == {"none", "created", "lost", "queued", "evaluated", "needs-case",
           "counted", "travel-rule", "done", "failed"}

TypeOK ==
  /\ Stored \subseteq Transfers
  /\ \A t \in Stored :
       /\ txs[t].status \in {"PENDING", "APPROVED", "UNDER_REVIEW", "BLOCKED"}
       /\ txs[t].riskScore \in 0 .. 100
       /\ txs[t].isFlagged = (txs[t].status \in {"UNDER_REVIEW", "BLOCKED"})
  /\ \A t \in Transfers :
       jobs[t].stage \in Stages /\ jobs[t].attempt \in 0 .. MaxAttempts
  /\ \A a \in alerts : a.tx \in Stored

\* A transfer that must be blocked before settlement never settles but by an
\* officer's release, whatever fails and however often its job runs: one to an
\* embargoed country, of nobody the tenant knows, or the first that is large
\* (rule-library.ts, sanctioned-counterparty, first-transaction-large).
NeverSettlesUnreleased ==
  \A t \in Stored :
    /\ txs[t].status = "APPROVED" /\ ~txs[t].released
    => /\ about[t].known
       /\ ~isEmbargoed(about[t].country)
       /\ Own(t) = {t} => about[t].amount < 10000

\* Whatever happens between the verdict and the case, the last verdict of a job
\* that has ended has its case, and a case for each alert that it must release
\* (transactions.ts:151, "that decision needs an owner").
BlockedHasOwner ==
  \A t \in Stored :
    LET job == jobs[t] IN
      /\ job.stage = "done"
      /\ job.verdict.action = "BLOCKED" \/ "CRITICAL" \in job.verdict.alerts
      => /\ \E c \in Range(cases) : c = [tx |-> t, attempt |-> job.attempt]
         /\ {a.severity : a \in {b \in alerts : b.tx = t /\ b.attempt = job.attempt}}
              = job.verdict.alerts

\* Of transfers just under the reporting threshold that a customer makes within
\* a day, the one that is both the last to happen and the last to be reported
\* is not waved through, whatever order their jobs run in.
JustUnder(u) == about[u].amount >= 8000 /\ about[u].amount <= 10000
Near(t, u)   == about[u].known /\ JustUnder(u) /\ InDay(t, u)
StructuringIsCaught ==
  \A t \in Stored :
    LET before == {u \in Stored \ {t} : Near(t, u)} IN
      /\ jobs[t].stage = "done" /\ Near(t, t) /\ t = latest
      /\ Cardinality(before) >= 3
      => jobs[t].verdict.action # "APPROVED"

\* Once an officer has released a transfer, no job but one that runs again after
\* a failure takes it back: a job writes one verdict.
ReleaseStands ==
  [][\A t \in Stored :
       txs[t].released /\ txs[t].status = "APPROVED" /\ txs'[t].status # "APPROVED"
         => jobs[t].attempt > 1]_vars
=============================================================================
