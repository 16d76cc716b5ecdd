----------------------------- MODULE Screening ------------------------------
(***************************************************************************)
(* Screening one customer against the watchlists, over and over: the corpus *)
(* and its daily synchronisation (worker/src/watchlist/ingest.ts), search   *)
(* and scoring (worker/src/context.ts, adapters/src/mock/screening.ts), the *)
(* run that carries earlier dispositions forward, freezes the customer and  *)
(* opens a case (worker/src/screening.ts), and the analyst who resolves     *)
(* hits. A job interleaves with all of that between its calls, and runs     *)
(* again when it throws.                                                   *)
(***************************************************************************)
EXTENDS Integers, Sequences, FiniteSets, SequencesExt

CONSTANTS
  Entries,         \* listed persons
  Likeness,        \* how much each of them resembles the customer: scoreCandidate
  Feeds,           \* what a day's feed may have, and what of it was amended
  MinFeed,         \* a feed with fewer entries is taken for a broken one
  MaxAge,          \* days a disposition holds
  MaxDays, MaxRuns, MaxDecisions, MaxTrouble, MaxAttempts   \* bounds

ASSUME ScreeningAssumption ==
  /\ {MinFeed, MaxAge, MaxDays, MaxRuns, MaxDecisions, MaxTrouble} \subseteq Nat
  /\ MaxAttempts \in Nat \ {0} /\ DOMAIN Likeness = Entries /\ IsFiniteSet(Entries)
  /\ \A f \in Feeds : f.amended \subseteq f.has /\ f.has \subseteq Entries

VARIABLES
  day,
  corpus,      \* per entry: is it active, when was its row written, and when did
               \* the issuing body really change it (history)
  suppressed,  \* whose false positive an entry is: "nobody", "other", "customer"
  reviewStatus,
  subscribed,  \* the monitoring subscription is active
  runs,        \* screening runs
  hits,        \* hit rows, oldest first
  job,         \* the screening job
  cases,       \* references of the tenant's cases, and the run each is about
  decided,     \* history: entry, resolution and day of every decision
  lifted,      \* history: a person has approved them since they were last frozen
  trouble      \* calls that may still fail, and cases others may still open

vars == <<day, corpus, suppressed, reviewStatus, subscribed, runs, hits, job, cases,
          decided, lifted, trouble>>

----------------------------------------------------------------------------
(* Search.                                                                 *)

\* Thousandths. The similarity of the best of an entry's names, corrected by
\* what is known of the dates of birth and the countries of both.
scoreCandidate(e) ==
  LET c == Likeness[e]
      born == CASE c.dob = "same"      -> 120
                [] c.dob = "same year" -> -175
                [] c.dob = "other"     -> -350
                [] c.dob = "unknown"   ->
                     CASE c.yob = "same" -> 50 [] c.yob = "other" -> -175
                       [] c.yob = "unknown" -> 0
      home == CASE c.country = "same" -> 40 [] c.country = "other" -> -30
                [] c.country = "unknown" -> 0
      sum  == c.name + born + home
  IN IF sum < 0 THEN 0 ELSE IF sum > 1000 THEN 1000 ELSE sum

Threshold == 750

\* Active entries that share a prefix with the name, or all of them if none does.
load ==
  LET active == {e \in Entries : corpus[e].active}
      near   == {e \in active : Likeness[e].prefix}
  IN IF near # {} THEN near ELSE active

search == {e \in load : suppressed[e] # "customer" /\ scoreCandidate(e) >= Threshold}

----------------------------------------------------------------------------
(* What became of earlier hits.                                            *)

Rows(e) == {i \in DOMAIN hits : hits[i].entry = e}

\* Mutant: any earlier hit of the customer will do.
PriorOfCustomer(e) == Len(hits)

\* The newest hit on the entry holds its disposition: 0 if there has been none.
\* Hits of this very run are not looked at, and it has none yet.
Prior(e) == IF Rows(e) = {} THEN 0 ELSE Max(Rows(e))

DateOf(h) == IF h.resolvedAt >= 0 THEN h.resolvedAt ELSE h.createdAt

\* A disposition ends when the row of the listing has been written since, or
\* when it is old.
expired(e, h) ==
  /\ h.status # "OPEN"
  /\ corpus[e].updatedAt > DateOf(h) \/ DateOf(h) < day - MaxAge

\* Mutant: whatever comes back to the queue counts as somebody new.
WeighedNewIfOpen(e) ==
  LET p       == Prior(e)
      settled == p # 0 /\ hits[p].status # "OPEN" /\ ~expired(e, hits[p])
  IN [entry |-> e, isNew |-> ~settled,
      status |-> IF settled THEN hits[p].status ELSE "OPEN",
      resolution |-> IF settled THEN hits[p].resolution ELSE "none"]

\* Mutant: a reopened hit keeps the resolution it had.
WeighedKeepingResolution(e) ==
  LET p       == Prior(e)
      settled == p # 0 /\ hits[p].status # "OPEN" /\ ~expired(e, hits[p])
  IN [entry |-> e, isNew |-> p = 0,
      status |-> IF settled THEN hits[p].status ELSE "OPEN",
      resolution |-> IF p # 0 THEN hits[p].resolution ELSE "none"]

\* What the run will create for a match; nothing is written yet.
Weighed(e) ==
  LET p       == Prior(e)
      settled == p # 0 /\ hits[p].status # "OPEN" /\ ~expired(e, hits[p])
  IN [entry |-> e, isNew |-> p = 0,
      status |-> IF settled THEN hits[p].status ELSE "OPEN",
      resolution |-> IF settled THEN hits[p].resolution ELSE "none"]

----------------------------------------------------------------------------
Idle == [stage |-> "idle", trigger |-> "none", attempt |-> 0, weighed |-> {},
         count |-> 0]
Monitored(trigger) == trigger \in {"ONGOING_MONITORING", "LIST_UPDATE"}

Init ==
  /\ day = 0
  /\ corpus = [e \in Entries |-> [active |-> FALSE, updatedAt |-> 0, amendedAt |-> 0]]
  /\ suppressed \in [Entries -> {"nobody", "other"}]
  /\ Cardinality({e \in Entries : suppressed[e] = "other"}) <= 1
  /\ reviewStatus = "APPROVED" /\ subscribed = TRUE
  /\ runs = <<>> /\ hits = <<>> /\ job = Idle /\ cases = <<>> /\ decided = {}
  /\ lifted = FALSE /\ trouble = MaxTrouble

Troubled == trouble > 0 /\ trouble' = trouble - 1

\* The sweep screens whoever is due, but for those finally rejected.
MonitoringSweep ==
  /\ job = Idle /\ subscribed /\ Len(runs) < MaxRuns
  /\ IF reviewStatus = "REJECTED_FINAL"
     THEN subscribed' = FALSE /\ UNCHANGED job
     ELSE /\ job' = [Idle EXCEPT !.stage = "queued", !.attempt = 1,
                                 !.trigger = "ONGOING_MONITORING"]
          /\ UNCHANGED subscribed
  /\ UNCHANGED <<day, corpus, suppressed, reviewStatus, runs, hits, cases, decided,
                 lifted, trouble>>

\* POST /v1/screening/runs.
AdHocScreening ==
  /\ job = Idle /\ Len(runs) < MaxRuns
  /\ job' = [Idle EXCEPT !.stage = "queued", !.attempt = 1, !.trigger = "MANUAL"]
  /\ UNCHANGED <<day, corpus, suppressed, reviewStatus, subscribed, runs, hits, cases,
                 decided, lifted, trouble>>

Again == IF job.attempt < MaxAttempts
         THEN [Idle EXCEPT !.stage = "queued", !.trigger = job.trigger,
                           !.attempt = job.attempt + 1]
         ELSE Idle

\* The run row, the suppressions, the search, and what earlier hits came to.
Search ==
  /\ job.stage = "queued"
  /\ runs' = Append(runs, [status |-> "RUNNING", openHitCount |-> 0, new |-> 0,
                           trigger |-> job.trigger, check |-> "none"])
  /\ job' = [job EXCEPT !.stage = "weighed", !.weighed = {Weighed(e) : e \in search}]
  /\ UNCHANGED <<day, corpus, suppressed, reviewStatus, subscribed, hits, cases,
                 decided, lifted, trouble>>

\* A search that fails is FAILED, in the run and in its check, and throws.
SearchFails ==
  /\ job.stage = "queued"
  /\ Troubled
  /\ runs' = Append(runs, [status |-> "FAILED", openHitCount |-> 0, new |-> 0,
                           trigger |-> job.trigger, check |-> "FAILED"])
  /\ job' = Again
  /\ UNCHANGED <<day, corpus, suppressed, reviewStatus, subscribed, hits, cases,
                 decided, lifted>>

\* The hits, then the end of the run and its check.
CreateHits ==
  LET Row(w) == [entry |-> w.entry, run |-> Len(runs), isNew |-> w.isNew,
                 status |-> w.status, resolution |-> w.resolution,
                 resolvedAt |-> -1, createdAt |-> day]
      new    == Cardinality({w \in job.weighed : w.isNew})
  IN /\ job.stage = "weighed"
     /\ hits' = hits \o SetToSeq({Row(w) : w \in job.weighed})
     /\ runs' = [runs EXCEPT ![Len(runs)] =
          [@ EXCEPT !.status = "COMPLETED", !.new = new,
                    !.openHitCount = Cardinality({w \in job.weighed : w.status = "OPEN"}),
                    !.check = IF job.weighed = {} THEN "PASS" ELSE "WARNING"]]
     /\ job' = IF new > 0 /\ Monitored(job.trigger)
               THEN [job EXCEPT !.stage = "freeze"] ELSE Idle
     /\ UNCHANGED <<day, corpus, suppressed, reviewStatus, subscribed, cases, decided,
                    lifted, trouble>>

\* Mutant: whoever has been cleared before is left alone.
FreezeUnlessCleared ==
  /\ job.stage = "freeze"
  /\ reviewStatus' = IF /\ reviewStatus = "APPROVED"
                        /\ \A i \in DOMAIN hits : hits[i].status = "OPEN"
                     THEN "ON_HOLD" ELSE reviewStatus
  /\ lifted' = (lifted /\ reviewStatus' = reviewStatus)
  /\ job' = [job EXCEPT !.stage = "count"]
  /\ UNCHANGED <<day, corpus, suppressed, subscribed, runs, hits, cases, decided,
                 trouble>>

Freeze ==
  /\ job.stage = "freeze"
  /\ reviewStatus' = IF reviewStatus = "APPROVED" THEN "ON_HOLD" ELSE reviewStatus
  /\ lifted' = (lifted /\ reviewStatus' = reviewStatus)
  /\ job' = [job EXCEPT !.stage = "count"]
  /\ UNCHANGED <<day, corpus, suppressed, subscribed, runs, hits, cases, decided,
                 trouble>>

CountCases ==
  /\ job.stage = "count"
  /\ job' = [job EXCEPT !.stage = "case", !.count = Len(cases)]
  /\ UNCHANGED <<day, corpus, suppressed, reviewStatus, subscribed, runs, hits, cases,
                 decided, lifted, trouble>>

\* A reference that is taken by now fails the job.
OpenCase ==
  /\ job.stage = "case"
  /\ cases' = IF job.count = Len(cases) THEN Append(cases, Len(runs)) ELSE cases
  /\ job' = IF job.count = Len(cases) THEN Idle ELSE Again
  /\ UNCHANGED <<day, corpus, suppressed, reviewStatus, subscribed, runs, hits, decided,
                 lifted, trouble>>

OtherCase ==
  /\ Troubled
  /\ job.stage = "case"
  /\ cases' = Append(cases, 0)
  /\ UNCHANGED <<day, corpus, suppressed, reviewStatus, subscribed, runs, hits, job,
                 decided, lifted>>

JobThrows ==
  /\ job.stage \in {"weighed", "freeze", "count", "case"}
  /\ Troubled
  /\ job' = Again
  /\ UNCHANGED <<day, corpus, suppressed, reviewStatus, subscribed, runs, hits, cases,
                 decided, lifted>>

----------------------------------------------------------------------------
(* Staff and the lists.                                                    *)

\* Any hit may be resolved, again too. A suppression is a row of its own, one per
\* entry for everybody: it cannot be written if the entry has one.
resolveHit(i, resolution, addToAllowlist) ==
  LET e == hits[i].entry IN
    /\ Cardinality(decided) < MaxDecisions
    /\ hits' = [hits EXCEPT ![i].status = "RESOLVED", ![i].resolution = resolution,
                            ![i].resolvedAt = day]
    /\ runs' = [runs EXCEPT ![hits[i].run].openHitCount = @ - 1]
    /\ decided' = decided \cup {[entry |-> e, resolution |-> resolution, day |-> day]}
    /\ suppressed' =
         IF resolution = "FALSE_POSITIVE" /\ addToAllowlist /\ suppressed[e] = "nobody"
         THEN [suppressed EXCEPT ![e] = "customer"] ELSE suppressed
    /\ UNCHANGED <<day, corpus, reviewStatus, subscribed, job, cases, lifted, trouble>>

\* A reviewer lifts the hold, or ends the relationship.
DecideHold(status) ==
  /\ reviewStatus = "ON_HOLD"
  /\ reviewStatus' = status /\ lifted' = (status = "APPROVED")
  /\ UNCHANGED <<day, corpus, suppressed, subscribed, runs, hits, job, cases, decided,
                 trouble>>

\* Mutant: whatever the feed has is applied.
ingestAnything(feed) ==
  /\ day < MaxDays
  /\ day' = day + 1
  /\ corpus' = [e \in Entries |->
       IF e \in feed.has THEN [active |-> TRUE, updatedAt |-> day', amendedAt |-> 0]
       ELSE [corpus[e] EXCEPT !.active = FALSE]]
  /\ UNCHANGED <<suppressed, reviewStatus, subscribed, runs, hits, job, cases, decided,
                 lifted, trouble>>

\* A day's synchronisation writes every row of the feed, changed or not, and
\* deactivates those that are gone. A feed that is too short is refused.
ingestSource(feed) ==
  /\ day < MaxDays
  /\ day' = day + 1
  /\ corpus' = IF Cardinality(feed.has) < MinFeed THEN corpus
               ELSE [e \in Entries |->
                 IF e \in feed.has
                 THEN [active |-> TRUE, updatedAt |-> day',
                       amendedAt |->
                         IF e \in feed.amended THEN day' ELSE corpus[e].amendedAt]
                 ELSE [corpus[e] EXCEPT !.active = FALSE]]
  /\ UNCHANGED <<suppressed, reviewStatus, subscribed, runs, hits, job, cases, decided,
                 lifted, trouble>>

\* A day on which nothing is synchronised.
NextDay ==
  /\ day < MaxDays
  /\ day' = day + 1
  /\ UNCHANGED <<corpus, suppressed, reviewStatus, subscribed, runs, hits, job, cases,
                 decided, lifted, trouble>>

Resolutions == {"TRUE_POSITIVE", "FALSE_POSITIVE", "UNABLE_TO_DETERMINE"}

Next ==
  \/ MonitoringSweep \/ AdHocScreening \/ Search \/ SearchFails \/ CreateHits
  \/ Freeze \/ CountCases \/ OpenCase \/ OtherCase \/ JobThrows
  \/ \E i \in DOMAIN hits, r \in Resolutions, allow \in BOOLEAN : resolveHit(i, r, allow)
  \/ \E status \in {"APPROVED", "REJECTED_FINAL"} : DecideHold(status)
  \/ \E feed \in Feeds : ingestSource(feed)
  \/ NextDay

Spec == Init /\ [][Next]_vars

----------------------------------------------------------------------------
(* What holds.                                                             *)

TypeOK ==
  /\ reviewStatus \in {"APPROVED", "ON_HOLD", "REJECTED_FINAL"}
  /\ job.stage \in {"idle", "queued", "weighed", "freeze", "count", "case"}
  /\ job.attempt \in 0 .. MaxAttempts
  /\ \A i \in DOMAIN hits :
       /\ hits[i].entry \in Entries /\ hits[i].run \in DOMAIN runs
       /\ hits[i].status \in {"OPEN", "RESOLVED"}
       /\ (hits[i].status = "OPEN") = (hits[i].resolution = "none")

\* No hit is ever settled by itself: however often it has been carried from run
\* to run, an analyst gave the same entry that resolution.
SettledByAnalyst ==
  \A i \in DOMAIN hits : hits[i].status = "RESOLVED" =>
    \E d \in decided : d.entry = hits[i].entry /\ d.resolution = hits[i].resolution

\* A match nobody has decided on is in the queue: the newest hit of an entry on
\* which there is no decision at all is open, so a retry or a second search
\* loses none (screening.ts, "unseen, undecided, or reopened lands in the queue").
UndecidedIsOpen ==
  \A e \in Entries :
    Rows(e) # {} /\ (\A d \in decided : d.entry # e) => hits[Max(Rows(e))].status = "OPEN"

\* As long as no call has failed: when monitoring has found somebody new on a
\* customer and the job is over, there is a case about that run, and the customer
\* is not approved unless a person lifted the hold.
NewMatchIsLoud ==
  trouble = MaxTrouble /\ job = Idle =>
    \A r \in DOMAIN runs : runs[r].new > 0 /\ Monitored(runs[r].trigger) =>
      /\ \E c \in DOMAIN cases : cases[c] = r
      /\ reviewStatus = "APPROVED" => lifted

\* Only a match on somebody the customer never matched before freezes them: a
\* cleared entry that comes back does not (handleMonitoringHit).
FrozenForSomebodyNew ==
  [][ reviewStatus = "APPROVED" /\ reviewStatus' = "ON_HOLD" =>
        \E i \in DOMAIN hits : /\ hits[i].run = Len(runs)
                               /\ \A j \in DOMAIN hits : hits[j].entry = hits[i].entry
                                                         => j >= i ]_vars

\* A listed person whom the customer resembles is never lost from the corpus but
\* by a whole feed that no longer has them (ingest.ts:91, "would blind screening").
NeverBlinded ==
  [][ \A e \in Entries : corpus[e].active /\ ~corpus'[e].active =>
        Cardinality({f \in Entries : corpus'[f].active}) >= MinFeed ]_vars

\* What the repository says and the code does not do. screening.ts:341: "Freeze
\* rather than silently leave approved. Whether the relationship ends is a human
\* decision; whether it pauses is not." Nobody whom monitoring matched for the first
\* time stays approved, unless a person lifted the hold. A job that throws between
\* the hits and the freeze finds them known when it runs again.
PausesWithoutAPerson ==
  job = Idle /\ reviewStatus = "APPROVED" /\ ~lifted =>
    \A r \in DOMAIN runs : Monitored(runs[r].trigger) => runs[r].new = 0
=============================================================================
