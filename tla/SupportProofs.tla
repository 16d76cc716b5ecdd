---------------------------- MODULE SupportProofs ---------------------------
(***************************************************************************)
(* For any number of runs, turns, acts of staff and faults: what the policy *)
(* of the agent bars is never answered by it, its inbox and its outcomes    *)
(* agree but for one lost call, and a ticket a person has accepted is       *)
(* answered by no request that had not passed the check before.             *)
(***************************************************************************)
EXTENDS Support, FiniteSetTheorems, TLAPS

----------------------------------------------------------------------------
(* The policy.                                                             *)

\* The smaller of two numbers is one of them.
LEMMA MinOfTwo ==
  ASSUME NEW a \in Int, NEW b \in Int
  PROVE  Min({a, b}) \in {a, b}
BY DEF Min

LEMMA MinOfNumbers ==
  ASSUME NEW n \in Nat, NEW S \in SUBSET (1 .. n), S # {}
  PROVE  Min(S) \in S
<1> DEFINE Less == {pair \in Nat \X Nat : pair[1] < pair[2]}
<1>1. IsWellFoundedOn(Less, Nat)
  BY NatLessThanWellFounded DEF OpToRel
<1>2. \E x \in S : \A y \in S : ~ (<<y, x>> \in Less)
  BY <1>1, WFMin, Zenon
<1>3. ASSUME NEW x \in S, NEW y \in S, <<y, x>> \notin Less PROVE x <= y
  <2>1. x \in Nat /\ y \in Nat /\ <<y, x>> \in Nat \X Nat
    OBVIOUS
  <2>2. ~ (y < x)
    BY <1>3, <2>1
  <2> QED BY <2>1, <2>2
<1>4. \E x \in S : \A y \in S : x <= y
  BY <1>2, <1>3
<1> QED BY <1>4 DEF Min

LEMMA PolicyIs ==
  ASSUME NEW intent \in SUPPORT_INTENTS
  PROVE  /\ INTENT_POLICY[intent].requiresHuman = (intent \in OwnedByHuman)
         /\ INTENT_POLICY[intent].minConfidence \in Int
<1>1. Confidence(intent) \in Int
  BY DEF Confidence, SUPPORT_INTENTS
<1> QED BY <1>1 DEF INTENT_POLICY

LEMMA ReasonGiven ==
  ASSUME NEW intent \in OwnedByHuman
  PROVE  HumanReason(intent) # "none"
BY DEF OwnedByHuman, HumanReason

\* What the policy asks of an answer that nobody escalates.
LEMMA NothingApplies ==
  ASSUME NEW a, a.intent \in SUPPORT_INTENTS, shouldEscalate(a) = "none"
  PROVE  /\ ~INTENT_POLICY[a.intent].requiresHuman
         /\ ~(a.confidence < INTENT_POLICY[a.intent].minConfidence)
         /\ ~(a.sentiment <= -6) /\ ~(a.turnCount >= a.maxTurns)
         /\ ~(a.toolFailures >= 2)
<1> DEFINE policy  == INTENT_POLICY[a.intent]
           reasons == <<<<a.askedForHuman, "APPLICANT_REQUESTED">>,
                        <<a.mentionsRegulator, "COMPLAINT">>,
                        <<a.toolFailures >= 2, "TOOL_FAILURE">>,
                        <<a.priorTickets >= 2, "REPEAT_CONTACT">>,
                        <<a.confidence < policy.minConfidence, "LOW_CONFIDENCE">>,
                        <<a.sentiment <= -6, "SENTIMENT_NEGATIVE">>,
                        <<a.turnCount >= a.maxTurns, "MAX_TURNS_REACHED">>>>
           apply   == {i \in DOMAIN reasons : reasons[i][1]}
<1>1. policy.requiresHuman = (a.intent \in OwnedByHuman)
  BY PolicyIs
<1>2. shouldEscalate(a) = CASE policy.requiresHuman -> HumanReason(a.intent)
                            [] ~policy.requiresHuman /\ apply = {} -> "none"
                            [] ~policy.requiresHuman /\ apply # {} -> reasons[Min(apply)][2]
  BY DEF shouldEscalate
<1>3. DOMAIN reasons = 1 .. 7 /\ apply \in SUBSET (1 .. 7)
  OBVIOUS
<1>4. \A i \in 1 .. 7 : reasons[i][2] # "none"
  OBVIOUS
<1>5. /\ reasons[5][1] = (a.confidence < policy.minConfidence)
      /\ reasons[6][1] = (a.sentiment <= -6)
      /\ reasons[7][1] = (a.turnCount >= a.maxTurns)
      /\ reasons[3][1] = (a.toolFailures >= 2)
  OBVIOUS
<1> HIDE DEF reasons
<1>6. apply # {} => reasons[Min(apply)][2] # "none"
  BY <1>3, <1>4, MinOfNumbers
<1>7. ~policy.requiresHuman
  BY <1>1, <1>2, ReasonGiven
<1>8. apply = {}
  BY <1>2, <1>6, <1>7
<1>9. ~reasons[3][1] /\ ~reasons[5][1] /\ ~reasons[6][1] /\ ~reasons[7][1]
  BY <1>3, <1>8
<1> QED BY <1>5, <1>7, <1>9

\* What the keyword classifier gives: an intent there is, and a number.
LEMMA Classified ==
  ASSUME NEW matched
  PROVE  /\ classifyIntentHeuristic(matched).intent \in SUPPORT_INTENTS
         /\ classifyIntentHeuristic(matched).confidence \in Int
<1> DEFINE hits      == {i \in DOMAIN INTENT_PATTERNS : INTENT_PATTERNS[i][1] \in matched}
           Weight(i) == INTENT_PATTERNS[i][2]
           top       == Min(hits)
           runnerUp  == IF Cardinality(hits) = 1 THEN 0 ELSE Weight(Min(hits \ {top}))
           margin    == Min({30, Weight(top) - runnerUp})
           raw       == (Weight(top) * (70 + margin) + 50) \div 100
<1>1. /\ DOMAIN INTENT_PATTERNS = 1 .. 13
      /\ \A i \in 1 .. 13 : INTENT_PATTERNS[i][1] \in SUPPORT_INTENTS /\ Weight(i) \in Int
  BY DEF INTENT_PATTERNS, SUPPORT_INTENTS
<1>2. hits \in SUBSET (1 .. 13)
  BY <1>1
<1>3. classifyIntentHeuristic(matched) =
        IF hits = {} THEN [intent |-> "UNKNOWN", confidence |-> 20]
        ELSE [intent |-> INTENT_PATTERNS[top][1], confidence |-> Min({95, raw})]
  BY DEF classifyIntentHeuristic
<1>4. CASE hits = {}
  BY <1>3, <1>4 DEF SUPPORT_INTENTS
<1>5. CASE hits # {}
  <2>1. top \in hits
    BY <1>2, <1>5, MinOfNumbers
  <2>2. runnerUp \in Int
    <3>1. CASE Cardinality(hits) = 1
      BY <3>1
    <3>2. CASE Cardinality(hits) # 1
      <4>1. hits # {top}
        BY <3>2, FS_Singleton
      <4>2. hits \ {top} # {} /\ hits \ {top} \in SUBSET (1 .. 13)
        BY <1>2, <2>1, <4>1
      <4>3. Min(hits \ {top}) \in hits \ {top}
        BY <4>2, MinOfNumbers
      <4>4. Weight(Min(hits \ {top})) \in Int
        BY <1>1, <1>2, <4>3
      <4> QED BY <3>2, <4>4
    <3> QED BY <3>1, <3>2
  <2>3. Weight(top) \in Int /\ INTENT_PATTERNS[top][1] \in SUPPORT_INTENTS
    BY <1>1, <1>2, <2>1
  <2> HIDE DEF Weight, top, runnerUp
  <2>4. margin \in Int
    <3>1. Weight(top) - runnerUp \in Int
      BY <2>2, <2>3
    <3> QED BY <3>1, MinOfTwo
  <2> HIDE DEF margin
  <2>5. raw \in Int
    BY <2>3, <2>4
  <2> HIDE DEF raw
  <2>6. Min({95, raw}) \in Int
    BY <2>5, MinOfTwo
  <2> QED BY <1>3, <1>5, <2>3, <2>6
<1> QED BY <1>4, <1>5

LEMMA StubIsSure ==
  ASSUME NEW run
  PROVE  StubConfidence(run) \in Int
<1> DEFINE c == classifyIntentHeuristic(run.text.matched)
           n == IF c.intent = run.intent THEN c.confidence ELSE 40
<1>1. n \in Int
  BY Classified
<1> HIDE DEF n
<1>2. Min({n, 35}) \in Int
  BY <1>1, MinOfTwo
<1> QED BY <1>1, <1>2 DEF StubConfidence, n

----------------------------------------------------------------------------
(* The inductive invariant.                                                *)

RunRows ==
  [status : {"none", "RUNNING", "FAILED", "ESCALATED", "BLOCKED_BY_POLICY", "COMPLETED"},
   stage : {"check", "message", "create", "begun", "read", "escalate", "telling", "reply",
            "settle", "over", "dead"},
   text : Texts, intent : SUPPORT_INTENTS, calls : 0 .. MaxTurns,
   failures : 0 .. MaxTurns, confidence : Int, escalated : BOOLEAN, refused : BOOLEAN]
Tickets ==
  [status : {"none", "OPEN", "AGENT_HANDLING", "AWAITING_APPLICANT", "ESCALATED",
             "PENDING_HUMAN", "RESOLVED"},
   handledBy : {"AI_AGENT", "HYBRID", "HUMAN"}, intent : SUPPORT_INTENTS, hasCase : BOOLEAN]
Messages    == [role : {"APPLICANT", "ASSISTANT", "HUMAN_AGENT"}, run : Nat]
Escalations == [status : {"PENDING", "ACCEPTED", "RETURNED_TO_AGENT", "RESOLVED"}, run : Nat]
Desks       == [accept : Nat, reply : Nat]

Shapes ==
  /\ ticket \in Tickets /\ transcript \in SUBSET Messages /\ runs \in Seq(RunRows)
  /\ escalations \in Seq(Escalations) /\ desk \in Desks /\ staff \in Nat
  /\ trouble \in Nat

\* What the policy asks of a run that leaves the ticket with the applicant.
Answerable(run) ==
  /\ ~INTENT_POLICY[run.intent].requiresHuman
  /\ run.confidence >= INTENT_POLICY[run.intent].minConfidence
  /\ run.text.sentiment > -6 /\ run.failures < 2 /\ run.calls < MaxTurns

Waiting == {"check", "message", "create"}
Working == {"begun", "read", "escalate", "telling", "reply", "settle"}

\* A run that is about to answer, or has answered, may; one that has refused or
\* handed over does not end as one that has answered.
Sound(run) ==
  /\ run.failures <= run.calls
  /\ run.stage = "telling" /\ runtime # "stub" => run.failures < run.calls
  /\ run.stage \in Waiting => run.status = "none"
  /\ run.stage \in Working => run.status = "RUNNING"
  /\ run.stage = "over" => run.status # "RUNNING"
  /\ run.stage = "dead" => run.status \in {"none", "RUNNING"}
  /\ runtime = "stub" => run.calls = 0
  /\ run.stage \in {"read", "escalate"} => runtime = "stub"
  /\ run.stage = "read" => Answerable(run)
  /\ run.refused => run.escalated
  /\ run.stage \in {"reply", "settle"} /\ ~run.escalated => Answerable(run)
  /\ run.status = "COMPLETED" => Answerable(run) /\ ~run.escalated
  /\ run.status # "BLOCKED_BY_POLICY"

AllSound == \A r \in DOMAIN runs : Sound(runs[r])

\* The calls of a run that have put a row into the inbox and have not, or not yet,
\* made it an escalated run, are among its failures or under way.
Lost(run) == run.failures + (IF run.stage = "telling" THEN 1 ELSE 0)

InboxKnown ==
  /\ \A i \in DOMAIN escalations : escalations[i].run \in DOMAIN runs
  /\ \A r \in DOMAIN runs :
       ~runs[r].escalated /\ runs[r].stage # "dead" =>
         /\ Rows(r) # {} => Lost(runs[r]) >= 1
         /\ \A i, j \in Rows(r) : i # j => Lost(runs[r]) >= 2

\* No request has passed the check since the ticket was taken.
Held ==
  ticket.status = "PENDING_HUMAN" => \A r \in DOMAIN runs : PastTheCheck(r) => r \in inFlight

\* Before there is a ticket there is nothing.
Opened == ticket.status = "none" => ticket = NoTicket /\ runs = <<>> /\ escalations = <<>>

Core == Shapes /\ AllSound /\ InboxKnown /\ Held
IInv == Core /\ Opened

LEMMA InitHolds == Init => IInv
<1> SUFFICES ASSUME Init PROVE IInv
  OBVIOUS
<1>0. ticket = NoTicket /\ "UNKNOWN" \in SUPPORT_INTENTS
  BY DEF Init, SUPPORT_INTENTS
<1>1. ticket \in Tickets /\ ticket.status = "none"
  BY <1>0 DEF NoTicket, Tickets
<1>2. <<>> \in Seq(RunRows) /\ <<>> \in Seq(Escalations) /\ MaxTrouble \in Nat
  BY SupportAssumption DEF SupportAssumption
<1>3. desk \in Desks
  BY DEF Init, Desks
<1>4. Shapes
  BY <1>1, <1>2, <1>3 DEF Init, Shapes
<1>5. DOMAIN runs = {} /\ DOMAIN escalations = {}
  BY DEF Init
<1>6. Opened
  BY <1>0 DEF Init, Opened
<1> QED BY <1>1, <1>4, <1>5, <1>6 DEF IInv, Core, AllSound, InboxKnown, Held

----------------------------------------------------------------------------
(* Every step keeps it.                                                    *)

\* What a step of a run may not do to what the inbox says of it.
Keeps(old, run) ==
  run.escalated \/ run.stage = "dead" \/ (~old.escalated /\ Lost(run) >= Lost(old))

\* A step of one run, when what becomes of the run is sound.
LEMMA RunMoves ==
  ASSUME Core, NEW r \in DOMAIN runs, NEW run \in RunRows, Set(r, run), Sound(run),
         UNCHANGED runtime
  PROVE  /\ runs' \in Seq(RunRows) /\ DOMAIN runs' = DOMAIN runs
         /\ AllSound' /\ runs'[r] = run
         /\ \A k \in DOMAIN runs : k # r => runs'[k] = runs[k]
<1>1. runs \in Seq(RunRows) /\ runs' = [runs EXCEPT ![r] = run]
  BY DEF Core, Shapes, Set
<1>2. /\ runs' \in Seq(RunRows) /\ DOMAIN runs' = DOMAIN runs
      /\ \A k \in DOMAIN runs : runs'[k] = IF k = r THEN run ELSE runs[k]
  BY <1>1
<1>3. \A k \in DOMAIN runs : Sound(runs'[k])
  BY <1>2 DEF Core, AllSound
<1>4. AllSound'
  BY <1>2, <1>3 DEF AllSound, Sound, Answerable
<1> QED BY <1>2, <1>4

\* One of a request that is past the check, and adds nothing to the inbox.
LEMMA RunMovesOn ==
  ASSUME Core, NEW r \in DOMAIN runs, PastTheCheck(r),
         NEW run \in RunRows, Set(r, run), Sound(run), Keeps(runs[r], run),
         ticket' \in Tickets,
         ticket'.status = "PENDING_HUMAN" => ticket.status = "PENDING_HUMAN",
         transcript' \in SUBSET Messages, trouble' \in Nat,
         UNCHANGED <<runtime, escalations, desk, inFlight, staff>>
  PROVE  Core'
<1>1. /\ runs' \in Seq(RunRows) /\ DOMAIN runs' = DOMAIN runs /\ AllSound' /\ runs'[r] = run
      /\ \A k \in DOMAIN runs : k # r => runs'[k] = runs[k]
  BY RunMoves
<1>2. Shapes'
  BY <1>1 DEF Core, Shapes
<1>3. InboxKnown'
  <2>1. \A k : Rows(k)' = Rows(k)
    BY DEF Rows
  <2>2. ~runs[r].escalated => runs[r].stage # "dead"
    BY DEF PastTheCheck, Live
  <2>3. runs[r].failures \in Int /\ run.failures \in Int
    <3>1. runs[r] \in RunRows /\ MaxTurns \in Nat
      BY SupportAssumption DEF Core, Shapes, SupportAssumption
    <3> QED BY <3>1 DEF RunRows
  <2>4. ASSUME NEW k \in DOMAIN runs, ~runs'[k].escalated, runs'[k].stage # "dead"
        PROVE  /\ Rows(k)' # {} => Lost(runs'[k]) >= 1
               /\ \A i, j \in Rows(k)' : i # j => Lost(runs'[k]) >= 2
    <3>1. CASE k # r
      <4>1. runs'[k] = runs[k]
        BY <1>1, <3>1
      <4> QED BY <2>1, <2>4, <4>1 DEF Core, InboxKnown
    <3>2. CASE k = r
      <4>1. /\ Rows(r) # {} => Lost(runs[r]) >= 1
            /\ \A i, j \in Rows(r) : i # j => Lost(runs[r]) >= 2
        BY <1>1, <2>2, <2>4, <3>2 DEF Core, InboxKnown, Keeps
      <4>2. Lost(run) >= Lost(runs[r]) /\ Lost(run) \in Int /\ Lost(runs[r]) \in Int
        BY <1>1, <2>3, <2>4, <3>2 DEF Keeps, Lost
      <4> QED BY <1>1, <2>1, <3>2, <4>1, <4>2
    <3> QED BY <3>1, <3>2
  <2> QED BY <1>1, <2>4 DEF Core, InboxKnown, Lost
<1>4. Held'
  <2>1. ASSUME NEW k \in DOMAIN runs, PastTheCheck(k)' PROVE PastTheCheck(k)
    BY <1>1, <2>1 DEF PastTheCheck, Live
  <2> QED BY <1>1, <2>1 DEF Core, Held
<1> QED BY <1>1, <1>2, <1>3, <1>4 DEF Core

\* The first write of escalate_to_human.
LEMMA RunHandsOver ==
  ASSUME Core, NEW r \in DOMAIN runs, PastTheCheck(r), runs[r].stage # "telling",
         NEW run \in RunRows, Set(r, run), Sound(run), run.stage = "telling",
         run.escalated = runs[r].escalated, run.failures = runs[r].failures,
         escalateToHuman(r),
         UNCHANGED <<runtime, ticket, transcript, desk, inFlight, staff, trouble>>
  PROVE  Core'
<1> DEFINE row == [status |-> "PENDING", run |-> r]
<1>1. /\ runs' \in Seq(RunRows) /\ DOMAIN runs' = DOMAIN runs /\ AllSound' /\ runs'[r] = run
      /\ \A k \in DOMAIN runs : k # r => runs'[k] = runs[k]
  BY RunMoves
<1>2. row \in Escalations /\ row.run = r
  BY DEF Escalations, Core, Shapes
<1>3. escalations \in Seq(Escalations) /\ escalations' = Append(escalations, row)
  BY DEF Core, Shapes, escalateToHuman
<1> HIDE DEF row
<1>4. /\ escalations' \in Seq(Escalations) /\ Len(escalations) + 1 \notin DOMAIN escalations
      /\ DOMAIN escalations' = DOMAIN escalations \cup {Len(escalations) + 1}
      /\ \A i \in DOMAIN escalations : escalations'[i] = escalations[i]
      /\ escalations'[Len(escalations) + 1] = row
  BY <1>2, <1>3
<1>5. Shapes'
  BY <1>1, <1>4 DEF Core, Shapes
<1>6. InboxKnown'
  <2>1. \A i \in DOMAIN escalations' : escalations'[i].run \in DOMAIN runs'
    BY <1>1, <1>2, <1>4 DEF Core, InboxKnown
  <2>2. /\ \A k \in DOMAIN runs : k # r => Rows(k)' = Rows(k)
        /\ Rows(r)' = Rows(r) \cup {Len(escalations) + 1}
    BY <1>2, <1>4 DEF Rows
  <2>3. runs[r].failures \in Nat /\ runs[r].stage # "dead"
    <3>1. runs[r] \in RunRows /\ MaxTurns \in Nat
      BY SupportAssumption DEF Core, Shapes, SupportAssumption
    <3> QED BY <3>1 DEF RunRows, PastTheCheck, Live
  <2>4. ASSUME NEW k \in DOMAIN runs, ~runs'[k].escalated, runs'[k].stage # "dead"
        PROVE  /\ Rows(k)' # {} => Lost(runs'[k]) >= 1
               /\ \A i, j \in Rows(k)' : i # j => Lost(runs'[k]) >= 2
    <3>1. CASE k # r
      <4>1. runs'[k] = runs[k]
        BY <1>1, <3>1
      <4> QED BY <2>2, <2>4, <3>1, <4>1 DEF Core, InboxKnown
    <3>2. CASE k = r
      <4>1. Rows(r) # {} => runs[r].failures >= 1
        BY <1>1, <2>3, <2>4, <3>2 DEF Core, InboxKnown, Lost
      <4>2. Lost(runs'[k]) = runs[r].failures + 1
        BY <1>1, <3>2 DEF Lost
      <4>3. ASSUME NEW i \in Rows(r)', NEW j \in Rows(r)', i # j PROVE Rows(r) # {}
        BY <2>2, <4>3
      <4> QED BY <2>3, <3>2, <4>1, <4>2, <4>3
    <3> QED BY <3>1, <3>2
  <2> QED BY <1>1, <2>1, <2>4 DEF InboxKnown, Lost
<1>7. Held'
  <2>1. ASSUME NEW k \in DOMAIN runs, PastTheCheck(k)' PROVE PastTheCheck(k)
    BY <1>1, <2>1 DEF PastTheCheck, Live
  <2> QED BY <1>1, <2>1 DEF Core, Held
<1> QED BY <1>1, <1>5, <1>6, <1>7 DEF Core

\* How a live run stands.
LEMMA LiveRun ==
  ASSUME Core, NEW r \in DOMAIN runs
  PROVE  /\ runs[r] \in RunRows /\ Sound(runs[r]) /\ r \in Nat
         /\ runs[r].calls \in Nat /\ runs[r].failures \in Nat /\ runs[r].confidence \in Int
         /\ runs[r].intent \in SUPPORT_INTENTS
         /\ runs[r].text.sentiment \in Int
         /\ INTENT_POLICY[runs[r].intent].minConfidence \in Int
<1>1. runs[r] \in RunRows /\ Sound(runs[r]) /\ r \in Nat
  BY DEF Core, Shapes, AllSound
<1>2. MaxTurns \in Nat
  BY SupportAssumption DEF SupportAssumption
<1>3. /\ runs[r].calls \in Nat /\ runs[r].failures \in Nat /\ runs[r].confidence \in Int
      /\ runs[r].intent \in SUPPORT_INTENTS /\ runs[r].text \in Texts
  BY <1>1, <1>2 DEF RunRows
<1>4. runs[r].text.sentiment \in Int
  BY <1>3, SupportAssumption DEF SupportAssumption
<1> QED BY <1>1, <1>3, <1>4, PolicyIs

\* A run whose stage changes to one that asks nothing of it.
LEMMA StageChanges ==
  ASSUME Core, NEW r \in DOMAIN runs, NEW stage \in {"escalate", "settle", "dead", "reply"},
         PastTheCheck(r), stage = "settle" => runs[r].stage = "reply",
         stage \in {"escalate", "reply"} => runs[r].stage = "read"
  PROVE  LET run == [runs[r] EXCEPT !.stage = stage]
         IN run \in RunRows /\ Sound(run) /\ Keeps(runs[r], run)
<1> DEFINE run == [runs[r] EXCEPT !.stage = stage]
<1>1. /\ runs[r] \in RunRows /\ Sound(runs[r]) /\ runs[r].status \in {"none", "RUNNING"}
      /\ runs[r].failures \in Nat
  BY LiveRun DEF PastTheCheck, Live
<1>2. /\ run \in RunRows /\ run.stage = stage /\ run.status = runs[r].status
      /\ run.failures = runs[r].failures /\ run.calls = runs[r].calls
      /\ run.escalated = runs[r].escalated /\ run.refused = runs[r].refused
      /\ run.confidence = runs[r].confidence /\ run.intent = runs[r].intent
      /\ run.text = runs[r].text
  BY <1>1 DEF RunRows
<1> HIDE DEF run
<1>3. Sound(run)
  BY <1>1, <1>2 DEF Sound, Answerable, Working, Waiting
<1>4. Keeps(runs[r], run)
  BY <1>1, <1>2 DEF Keeps, Lost
<1> QED BY <1>2, <1>3, <1>4 DEF run

LEMMA ReplyKeeps ==
  ASSUME Core, NEW r \in DOMAIN runs, Reply(r)
  PROVE  Core'
<1> DEFINE run == [runs[r] EXCEPT !.stage = "settle"]
           m   == [role |-> "ASSISTANT", run |-> r]
<1>1. PastTheCheck(r) /\ runs[r].stage = "reply"
  BY DEF Reply, At, PastTheCheck
<1>2. run \in RunRows /\ Sound(run) /\ Keeps(runs[r], run)
  BY <1>1, StageChanges
<1>3. Set(r, run) /\ UNCHANGED <<runtime, ticket, escalations, desk, inFlight, staff, trouble>>
  BY DEF Reply
<1>4. m \in Messages
  BY LiveRun DEF Messages
<1>5. transcript' \in SUBSET Messages
  BY <1>4 DEF Reply, Core, Shapes
<1>6. ticket' \in Tickets /\ trouble' \in Nat
      /\ (ticket'.status = "PENDING_HUMAN" => ticket.status = "PENDING_HUMAN")
  BY <1>3 DEF Core, Shapes
<1> HIDE DEF run
<1> QED BY <1>1, <1>2, <1>3, <1>5, <1>6, RunMovesOn

LEMMA SettleKeeps ==
  ASSUME Core, NEW r \in DOMAIN runs, Settle(r)
  PROVE  Core'
<1> DEFINE outcome == IF runs[r].escalated THEN "ESCALATED"
                      ELSE IF runs[r].refused THEN "BLOCKED_BY_POLICY" ELSE "COMPLETED"
           run == [runs[r] EXCEPT !.stage = "over", !.status = outcome]
<1>1. /\ runs[r] \in RunRows /\ Sound(runs[r]) /\ runs[r].stage = "settle"
      /\ runs[r].status = "RUNNING" /\ PastTheCheck(r) /\ runs[r].failures \in Nat
  BY LiveRun DEF Settle, At, Live, PastTheCheck, Sound, Working
<1>2. run \in RunRows /\ Sound(run) /\ run.escalated = runs[r].escalated
      /\ run.failures = runs[r].failures /\ run.stage = "over"
  <2>2. CASE runs[r].escalated
    BY <1>1, <2>2 DEF RunRows, Sound, Answerable, Waiting, Working
  <2>3. CASE ~runs[r].escalated
    BY <1>1, <2>3 DEF RunRows, Sound, Answerable, Waiting, Working
  <2> QED BY <2>2, <2>3
<1>3. Set(r, run) /\ UNCHANGED <<runtime, transcript, escalations, desk, inFlight, staff,
                                 trouble>>
  BY DEF Settle
<1> HIDE DEF run
<1>4. Keeps(runs[r], run)
  BY <1>1, <1>2 DEF Keeps, Lost
<1>5. ticket' \in Tickets /\ ticket'.status # "PENDING_HUMAN"
  BY DEF Settle, Core, Shapes, Tickets
<1>6. transcript' \in SUBSET Messages /\ trouble' \in Nat
  BY <1>3 DEF Core, Shapes
<1> QED BY <1>1, <1>2, <1>3, <1>4, <1>5, <1>6, RunMovesOn

\* The second write of escalate_to_human, and its failure.
LEMMA TellingKeeps ==
  ASSUME Core, NEW r \in DOMAIN runs, TellTicket(r, 40) \/ TellingFails(r)
  PROVE  Core'
<1>0. /\ runs[r] \in RunRows /\ Sound(runs[r]) /\ runs[r].stage = "telling"
      /\ runs[r].status = "RUNNING" /\ PastTheCheck(r) /\ runs[r].failures \in Nat
      /\ runs[r].calls \in Nat /\ trouble \in Nat /\ 40 \in Int /\ MaxTurns \in Nat
  BY LiveRun, SupportAssumption DEF TellTicket, TellingFails, At, Live, PastTheCheck, Sound,
     Working, SupportAssumption, Core, Shapes
<1>1. /\ transcript' \in SUBSET Messages /\ trouble' \in Nat
      /\ UNCHANGED <<runtime, escalations, desk, inFlight, staff>>
  BY <1>0 DEF TellTicket, TellingFails, Troubled, Core, Shapes
<1>2. /\ ticket' \in Tickets
      /\ (ticket'.status = "PENDING_HUMAN" => ticket.status = "PENDING_HUMAN")
  BY DEF TellTicket, TellingFails, Core, Shapes, Tickets
\* Whoever has escalated is through with the inbox.
<1>3. ASSUME NEW stage \in {"reply", "begun"}, NEW confidence \in Int,
             Set(r, [runs[r] EXCEPT !.stage = stage, !.escalated = TRUE,
                                    !.confidence = confidence])
      PROVE  Core'
  <2> DEFINE half == [runs[r] EXCEPT !.stage = stage, !.escalated = TRUE]
             run  == [runs[r] EXCEPT !.stage = stage, !.escalated = TRUE,
                                     !.confidence = confidence]
  <2>1. half \in RunRows /\ half.escalated /\ half.stage = stage
        /\ half.status = "RUNNING" /\ half.calls = runs[r].calls
        /\ half.failures = runs[r].failures
    BY <1>0 DEF RunRows
  <2>2. run = [half EXCEPT !.confidence = confidence]
    OBVIOUS
  <2> HIDE DEF half, run
  <2>3. run \in RunRows /\ run.escalated /\ run.stage = stage
        /\ run.status = "RUNNING" /\ run.calls = runs[r].calls
        /\ run.failures = runs[r].failures
    BY <2>1, <2>2 DEF RunRows
  <2>4. Sound(run) /\ Keeps(runs[r], run)
    BY <1>0, <2>3 DEF Sound, Keeps, Waiting, Working
  <2>5. Set(r, run)
    BY <1>3 DEF run
  <2> QED BY <1>0, <1>1, <1>2, <2>3, <2>4, <2>5, RunMovesOn
<1>4. CASE runtime = "stub"
  <2>1. Set(r, [runs[r] EXCEPT !.stage = "reply", !.escalated = TRUE])
    BY <1>4 DEF TellTicket, TellingFails
  <2>2. [runs[r] EXCEPT !.stage = "reply", !.escalated = TRUE]
          = [runs[r] EXCEPT !.stage = "reply", !.escalated = TRUE,
                            !.confidence = runs[r].confidence]
    BY <1>0 DEF RunRows
  <2>3. runs[r].confidence \in Int
    BY LiveRun
  <2> QED BY <1>3, <2>1, <2>2, <2>3
<1>5. CASE runtime # "stub" /\ TellTicket(r, 40)
  <2>1. Set(r, [runs[r] EXCEPT !.stage = "begun", !.escalated = TRUE, !.confidence = 40])
    BY <1>5 DEF TellTicket
  <2> QED BY <1>0, <1>3, <2>1
<1>6. CASE runtime # "stub" /\ TellingFails(r)
  <2> DEFINE run == [runs[r] EXCEPT !.stage = "begun", !.failures = @ + 1]
  <2>1. Set(r, run)
    BY <1>6 DEF TellingFails
  <2>2. runs[r].failures + 1 <= runs[r].calls
    BY <1>0, <1>6 DEF Sound
  <2>3. runs[r].failures + 1 \in 0 .. MaxTurns
    BY <1>0, <2>2 DEF RunRows
  <2>4. /\ run \in RunRows /\ run.stage = "begun" /\ run.status = "RUNNING"
        /\ run.failures = runs[r].failures + 1 /\ run.calls = runs[r].calls
        /\ run.escalated = runs[r].escalated /\ run.refused = runs[r].refused
    BY <1>0, <2>3 DEF RunRows
  <2> HIDE DEF run
  <2>5. Sound(run) /\ Keeps(runs[r], run)
    BY <1>0, <1>6, <2>2, <2>4 DEF Sound, Keeps, Lost, Waiting, Working
  <2> QED BY <1>0, <1>1, <1>2, <2>1, <2>4, <2>5, RunMovesOn
<1> QED BY <1>4, <1>5, <1>6

LEMMA StubKeeps ==
  ASSUME Core, NEW r \in DOMAIN runs,
         StubGate(r) \/ StubEscalates(r) \/ \E failed \in BOOLEAN : StubReads(r, failed)
  PROVE  Core'
<1>0. /\ runs[r] \in RunRows /\ Sound(runs[r]) /\ 0 \in Int /\ MaxTurns \in Nat
      /\ trouble \in Nat /\ runs[r].failures \in Nat /\ runs[r].calls \in Nat
  BY LiveRun, SupportAssumption DEF SupportAssumption, Core, Shapes
<1>a. ticket \in Tickets /\ transcript \in SUBSET Messages
  BY DEF Core, Shapes
<1>1. CASE StubGate(r)
  <2> DEFINE conf == StubConfidence(runs[r])
             asked == [intent |-> runs[r].intent, confidence |-> conf,
                       turnCount |-> 0, maxTurns |-> MaxTurns, toolFailures |-> 0,
                       priorTickets |-> 0, sentiment |-> runs[r].text.sentiment,
                       askedForHuman |-> runs[r].text.asksHuman,
                       mentionsRegulator |-> runs[r].text.regulator]
             next == IF shouldEscalate(asked) = "none" THEN "read" ELSE "escalate"
             run == [runs[r] EXCEPT !.confidence = conf, !.stage = next]
  <2>1. runs[r].stage = "begun" /\ runs[r].status = "RUNNING" /\ runtime = "stub"
        /\ runs[r].calls = 0 /\ runs[r].failures = 0 /\ PastTheCheck(r)
    BY <1>0, <1>1 DEF StubGate, At, Live, PastTheCheck, Sound, Working
  <2>2. conf \in Int
    BY StubIsSure
  <2>3. next = "read" =>
          /\ ~INTENT_POLICY[runs[r].intent].requiresHuman
          /\ ~(conf < INTENT_POLICY[runs[r].intent].minConfidence)
          /\ ~(runs[r].text.sentiment <= -6) /\ ~(0 >= MaxTurns)
    <3>1. asked.intent \in SUPPORT_INTENTS
      BY LiveRun
    <3>2. shouldEscalate(asked) = "none" =>
            /\ ~INTENT_POLICY[asked.intent].requiresHuman
            /\ ~(asked.confidence < INTENT_POLICY[asked.intent].minConfidence)
            /\ ~(asked.sentiment <= -6) /\ ~(asked.turnCount >= asked.maxTurns)
      BY <3>1, NothingApplies
    <3> QED BY <3>2
  <2>4. next \in {"read", "escalate"}
    OBVIOUS
  <2>5. Set(r, run) /\ UNCHANGED <<runtime, ticket, transcript, escalations, desk,
                                   inFlight, staff, trouble>>
    BY <1>1 DEF StubGate
  <2> HIDE DEF conf, next
  <2>6. run \in RunRows /\ run.escalated = runs[r].escalated
        /\ run.calls = 0 /\ run.confidence = conf /\ run.intent = runs[r].intent
        /\ run.text = runs[r].text /\ run.stage = next /\ run.status = "RUNNING"
        /\ run.failures = runs[r].failures /\ run.refused = runs[r].refused
    BY <1>0, <2>1, <2>2, <2>4 DEF RunRows
  <2> HIDE DEF run
  <2>7. run.stage = "read" => Answerable(run)
    BY <1>0, <2>1, <2>2, <2>3, <2>6, LiveRun DEF Answerable
  <2>8. Sound(run)
    BY <1>0, <2>1, <2>4, <2>6, <2>7 DEF Sound, Waiting, Working
  <2>9. Keeps(runs[r], run)
    BY <1>0, <2>1, <2>4, <2>6 DEF Keeps, Lost
  <2> QED BY <1>0, <1>a, <2>1, <2>5, <2>6, <2>8, <2>9, RunMovesOn
<1>2. ASSUME NEW failed \in BOOLEAN, StubReads(r, failed) PROVE Core'
  <2> DEFINE run(next) == [runs[r] EXCEPT !.stage = next]
             lost == [runs[r] EXCEPT !.stage = "escalate", !.confidence = 10]
  <2>1. runs[r].stage = "read" /\ runs[r].status = "RUNNING" /\ PastTheCheck(r)
    BY <1>0, <1>2 DEF StubReads, At, Live, PastTheCheck, Sound, Working
  <2>2. UNCHANGED <<runtime, ticket, transcript, escalations, desk, inFlight, staff>>
        /\ trouble' \in Nat
    BY <1>0, <1>2 DEF StubReads, Reads, Troubled
  <2>3. lost \in RunRows /\ Sound(lost) /\ Keeps(runs[r], lost)
    <3>1. /\ lost \in RunRows /\ lost.escalated = runs[r].escalated
          /\ lost.stage = "escalate" /\ lost.status = "RUNNING"
          /\ lost.calls = runs[r].calls /\ lost.failures = runs[r].failures
          /\ lost.refused = runs[r].refused
      <4> DEFINE half == [runs[r] EXCEPT !.stage = "escalate"]
      <4>1. /\ half \in RunRows /\ half.escalated = runs[r].escalated
            /\ half.stage = "escalate" /\ half.status = "RUNNING"
            /\ half.calls = runs[r].calls /\ half.failures = runs[r].failures
            /\ half.refused = runs[r].refused
        BY <1>0, <2>1 DEF RunRows
      <4>2. lost = [half EXCEPT !.confidence = 10] /\ 10 \in Int
        OBVIOUS
      <4> HIDE DEF half, lost
      <4> QED BY <4>1, <4>2 DEF RunRows
    <3> HIDE DEF lost
    <3> QED BY <1>0, <2>1, <3>1 DEF Sound, Keeps, Lost, Waiting, Working
  <2>4. ASSUME Set(r, lost) PROVE Core'
    <3> HIDE DEF lost
    <3> QED BY <1>a, <2>1, <2>2, <2>3, <2>4, RunMovesOn
  <2>5. ASSUME NEW next \in {"escalate", "reply"}, Set(r, run(next)) PROVE Core'
    <3>1. run(next) \in RunRows /\ Sound(run(next)) /\ Keeps(runs[r], run(next))
      BY <2>1, StageChanges
    <3> HIDE DEF run
    <3> QED BY <1>a, <2>1, <2>2, <2>5, <3>1, RunMovesOn
  <2>6. Set(r, lost) \/ Set(r, run("escalate")) \/ Set(r, run("reply"))
    BY <1>2 DEF StubReads
  <2> QED BY <2>4, <2>5, <2>6
<1>3. CASE StubEscalates(r)
  <2>1. /\ runs[r].stage = "escalate" /\ runs[r].status = "RUNNING" /\ PastTheCheck(r)
        /\ UNCHANGED <<runtime, ticket, transcript, desk, inFlight, staff>>
    BY <1>0, <1>3 DEF StubEscalates, At, Live, PastTheCheck, Sound, Working
  <2>2. ASSUME Set(r, [runs[r] EXCEPT !.stage = "telling"]), escalateToHuman(r),
               UNCHANGED trouble
        PROVE  Core'
    <3> DEFINE run == [runs[r] EXCEPT !.stage = "telling"]
    <3>1. /\ run \in RunRows /\ run.stage = "telling" /\ run.status = "RUNNING"
          /\ run.failures = runs[r].failures /\ run.escalated = runs[r].escalated
          /\ run.calls = runs[r].calls /\ run.refused = runs[r].refused
      BY <1>0, <2>1 DEF RunRows
    <3>2. Set(r, run)
      BY <2>2
    <3> HIDE DEF run
    <3>3. Sound(run)
      BY <1>0, <2>1, <2>2, <3>1 DEF Sound, Waiting, Working
    <3> QED BY <2>1, <2>2, <3>1, <3>2, <3>3, RunHandsOver
  <2>3. ASSUME Set(r, [runs[r] EXCEPT !.stage = "reply", !.escalated = TRUE]),
               UNCHANGED escalations, trouble' \in Nat
        PROVE  Core'
    <3> DEFINE run == [runs[r] EXCEPT !.stage = "reply", !.escalated = TRUE]
    <3>1. /\ run \in RunRows /\ run.stage = "reply" /\ run.status = "RUNNING"
          /\ run.failures = runs[r].failures /\ run.escalated /\ run.calls = runs[r].calls
      BY <1>0, <2>1 DEF RunRows
    <3>2. Set(r, run)
      BY <2>3
    <3> HIDE DEF run
    <3>3. Sound(run) /\ Keeps(runs[r], run)
      BY <1>0, <2>1, <3>1 DEF Sound, Keeps, Waiting, Working
    <3> QED BY <1>a, <2>1, <2>3, <3>1, <3>2, <3>3, RunMovesOn
  <2>4. \/ /\ Set(r, [runs[r] EXCEPT !.stage = "telling"]) /\ escalateToHuman(r)
           /\ UNCHANGED trouble
        \/ /\ Set(r, [runs[r] EXCEPT !.stage = "reply", !.escalated = TRUE])
           /\ UNCHANGED escalations /\ trouble' \in Nat
    BY <1>0, <1>3 DEF StubEscalates, Troubled
  <2> QED BY <1>0, <2>1, <2>2, <2>3, <2>4
<1> QED BY <1>1, <1>2, <1>3

LEMMA ModelKeeps ==
  ASSUME Core, NEW r \in DOMAIN runs,
         \/ \E failed \in BOOLEAN : ModelReads(r, failed)
         \/ ModelOpensCase(r) \/ ModelFails(r) \/ ModelEscalates(r)
         \/ \E refused \in BOOLEAN : ModelEnds(r, refused)
  PROVE  Core'
<1>0. /\ runs[r] \in RunRows /\ Sound(runs[r]) /\ trouble \in Nat /\ MaxTurns \in Nat
      /\ runs[r].calls \in Nat /\ runs[r].failures \in Nat
  BY LiveRun, SupportAssumption DEF SupportAssumption, Core, Shapes
<1>1. /\ runs[r].stage = "begun" /\ runs[r].status = "RUNNING" /\ runtime = "claude"
      /\ PastTheCheck(r)
      /\ UNCHANGED <<runtime, transcript, desk, inFlight, staff>>
  BY <1>0 DEF ModelReads, ModelOpensCase, ModelFails, ModelEscalates, ModelEnds, At, Live,
     PastTheCheck, Sound, Working
<1>a. ticket \in Tickets /\ transcript' \in SUBSET Messages
  BY <1>1 DEF Core, Shapes
<1>2. ASSUME NEW failed \in BOOLEAN, ModelReads(r, failed) PROVE Core'
  <2> DEFINE failures == IF failed THEN runs[r].failures + 1 ELSE runs[r].failures
             run == [runs[r] EXCEPT !.calls = @ + 1, !.failures = failures]
  <2>1. /\ runs[r].calls + 1 \in 0 .. MaxTurns /\ failures \in 0 .. MaxTurns
        /\ failures <= runs[r].calls + 1 /\ trouble' \in Nat
        /\ failures >= runs[r].failures
    <3>1. runs[r].calls < MaxTurns /\ runs[r].failures <= runs[r].calls
      BY <1>0, <1>2 DEF ModelReads, Sound
    <3>2. trouble' \in Nat
      <4>1. trouble' = trouble \/ Troubled
        BY <1>2 DEF ModelReads, Reads
      <4> QED BY <1>0, <4>1 DEF Troubled
    <3>3. failures = runs[r].failures + 1 \/ failures = runs[r].failures
      OBVIOUS
    <3> QED BY <1>0, <3>1, <3>2, <3>3
  <2>2. Set(r, run) /\ UNCHANGED <<ticket, escalations>>
    BY <1>0, <1>2 DEF ModelReads, RunRows
  <2> HIDE DEF failures
  <2>3. /\ run \in RunRows /\ run.stage = "begun" /\ run.status = "RUNNING"
        /\ run.failures = failures /\ run.calls = runs[r].calls + 1
        /\ run.escalated = runs[r].escalated /\ run.refused = runs[r].refused
    BY <1>0, <1>1, <2>1 DEF RunRows
  <2> HIDE DEF run
  <2>4. Sound(run) /\ Keeps(runs[r], run)
    BY <1>0, <1>1, <2>1, <2>3 DEF Sound, Keeps, Lost, Waiting, Working
  <2> QED BY <1>1, <1>a, <2>1, <2>2, <2>3, <2>4, RunMovesOn
<1>3. CASE ModelOpensCase(r)
  <2> DEFINE run == [runs[r] EXCEPT !.calls = @ + 1]
  <2>1. runs[r].calls + 1 \in 0 .. MaxTurns
    BY <1>0, <1>3 DEF ModelOpensCase
  <2>2. Set(r, run) /\ UNCHANGED <<escalations, trouble>>
    BY <1>3 DEF ModelOpensCase
  <2>3. /\ run \in RunRows /\ run.stage = "begun" /\ run.status = "RUNNING"
        /\ run.failures = runs[r].failures /\ run.calls = runs[r].calls + 1
        /\ run.escalated = runs[r].escalated /\ run.refused = runs[r].refused
    BY <1>0, <1>1, <2>1 DEF RunRows
  <2> HIDE DEF run
  <2>4. Sound(run) /\ Keeps(runs[r], run)
    BY <1>0, <1>1, <2>3 DEF Sound, Keeps, Lost, Waiting, Working
  <2>5. ticket' \in Tickets /\ ticket'.status = ticket.status
    BY <1>3 DEF ModelOpensCase, ensureCaseId, Core, Shapes, Tickets
  <2> QED BY <1>0, <1>1, <1>a, <2>2, <2>3, <2>4, <2>5, RunMovesOn
<1>4. CASE ModelFails(r)
  <2> DEFINE run == [runs[r] EXCEPT !.stage = "reply", !.escalated = TRUE, !.confidence = 0]
  <2>1. trouble' \in Nat /\ Set(r, run) /\ UNCHANGED <<ticket, escalations>>
    BY <1>0, <1>4 DEF ModelFails, Troubled
  <2>2. run \in RunRows /\ run.escalated /\ run.stage = "reply"
        /\ run.status = "RUNNING" /\ run.calls = runs[r].calls
        /\ run.failures = runs[r].failures
    <3> DEFINE half == [runs[r] EXCEPT !.stage = "reply", !.escalated = TRUE]
    <3>1. half \in RunRows /\ half.escalated /\ half.stage = "reply"
          /\ half.status = "RUNNING" /\ half.calls = runs[r].calls
          /\ half.failures = runs[r].failures
      BY <1>0, <1>1 DEF RunRows
    <3>2. run = [half EXCEPT !.confidence = 0] /\ 0 \in Int
      OBVIOUS
    <3> HIDE DEF half, run
    <3> QED BY <3>1, <3>2 DEF RunRows
  <2> HIDE DEF run
  <2>3. Sound(run) /\ Keeps(runs[r], run)
    BY <1>0, <1>1, <2>2 DEF Sound, Keeps, Waiting, Working
  <2> QED BY <1>1, <1>a, <2>1, <2>2, <2>3, RunMovesOn
<1>5. CASE ModelEscalates(r)
  <2> DEFINE run == [runs[r] EXCEPT !.calls = @ + 1, !.stage = "telling"]
  <2>1. runs[r].calls + 1 \in 0 .. MaxTurns
    BY <1>0, <1>5 DEF ModelEscalates
  <2>2. Set(r, run) /\ escalateToHuman(r) /\ UNCHANGED <<ticket, trouble>>
    BY <1>5 DEF ModelEscalates
  <2>3. /\ run \in RunRows /\ run.stage = "telling" /\ run.status = "RUNNING"
        /\ run.failures = runs[r].failures /\ run.calls = runs[r].calls + 1
        /\ run.escalated = runs[r].escalated /\ run.refused = runs[r].refused
    <3> DEFINE half == [runs[r] EXCEPT !.calls = @ + 1]
    <3>1. /\ half \in RunRows /\ half.status = "RUNNING"
          /\ half.failures = runs[r].failures /\ half.calls = runs[r].calls + 1
          /\ half.escalated = runs[r].escalated /\ half.refused = runs[r].refused
      BY <1>0, <1>1, <2>1 DEF RunRows
    <3>2. run = [half EXCEPT !.stage = "telling"]
      BY <1>0 DEF RunRows
    <3> HIDE DEF half, run
    <3> QED BY <3>1, <3>2 DEF RunRows
  <2> HIDE DEF run
  <2>4. Sound(run)
    BY <1>0, <1>1, <2>3 DEF Sound, Waiting, Working
  <2> QED BY <1>1, <2>2, <2>3, <2>4, RunHandsOver
<1>6. ASSUME NEW refused \in BOOLEAN, ModelEnds(r, refused) PROVE Core'
  <2> DEFINE asked == [intent |-> runs[r].intent, confidence |-> runs[r].confidence,
                       turnCount |-> runs[r].calls, maxTurns |-> MaxTurns,
                       toolFailures |-> runs[r].failures, priorTickets |-> 0,
                       sentiment |-> runs[r].text.sentiment, askedForHuman |-> FALSE,
                       mentionsRegulator |-> FALSE]
             handed == runs[r].escalated \/ refused \/ shouldEscalate(asked) # "none"
             conf   == IF refused THEN 0 ELSE runs[r].confidence
             run == [runs[r] EXCEPT !.stage = "reply", !.refused = refused,
                                    !.escalated = handed, !.confidence = conf]
  <2>1. Set(r, run) /\ UNCHANGED <<ticket, escalations, trouble>>
    BY <1>0, <1>6 DEF ModelEnds, RunRows
  <2>2. ~handed =>
          /\ ~INTENT_POLICY[runs[r].intent].requiresHuman
          /\ ~(runs[r].confidence < INTENT_POLICY[runs[r].intent].minConfidence)
          /\ ~(runs[r].text.sentiment <= -6) /\ ~(runs[r].calls >= MaxTurns)
          /\ ~(runs[r].failures >= 2)
    <3>1. asked.intent \in SUPPORT_INTENTS
      BY LiveRun
    <3>2. shouldEscalate(asked) = "none" =>
            /\ ~INTENT_POLICY[asked.intent].requiresHuman
            /\ ~(asked.confidence < INTENT_POLICY[asked.intent].minConfidence)
            /\ ~(asked.sentiment <= -6) /\ ~(asked.turnCount >= asked.maxTurns)
            /\ ~(asked.toolFailures >= 2)
      BY <3>1, NothingApplies
    <3> QED BY <3>2
  <2>3. /\ conf \in Int /\ (~handed => conf = runs[r].confidence) /\ handed \in BOOLEAN
        /\ refused => handed
        /\ runs[r].escalated => handed
    BY LiveRun
  <2> HIDE DEF handed, conf
  <2>4. /\ run \in RunRows /\ run.escalated = handed /\ run.refused = refused
        /\ run.stage = "reply" /\ run.status = "RUNNING" /\ run.confidence = conf
        /\ run.calls = runs[r].calls /\ run.failures = runs[r].failures
        /\ run.intent = runs[r].intent /\ run.text = runs[r].text
    <3> DEFINE half == [runs[r] EXCEPT !.stage = "reply", !.refused = refused]
    <3>1. half \in RunRows /\ half.refused = refused /\ half.stage = "reply"
          /\ half.status = "RUNNING" /\ half.calls = runs[r].calls
          /\ half.failures = runs[r].failures /\ half.intent = runs[r].intent
          /\ half.text = runs[r].text
      BY <1>0, <1>1 DEF RunRows
    <3>2. run = [half EXCEPT !.escalated = handed, !.confidence = conf]
      OBVIOUS
    <3> HIDE DEF half, run
    <3> QED BY <2>3, <3>1, <3>2 DEF RunRows
  <2> HIDE DEF run
  <2>5. ~handed => Answerable(run)
    BY <2>2, <2>3, <2>4, LiveRun, <1>0 DEF Answerable
  <2>6. Sound(run) /\ Keeps(runs[r], run)
    BY <1>0, <1>1, <2>3, <2>4, <2>5 DEF Sound, Keeps, Lost, Waiting, Working
  <2> QED BY <1>0, <1>1, <1>a, <2>1, <2>3, <2>4, <2>6, RunMovesOn
<1> QED BY <1>2, <1>3, <1>4, <1>5, <1>6

LEMMA FaultKeeps ==
  ASSUME Core, NEW r \in DOMAIN runs, PastTheCheck(r), RunThrows(r) \/ ProcessDies(r)
  PROVE  Core'
<1> DEFINE outcome == IF runs[r].status = "none" THEN "none" ELSE "FAILED"
           failed  == [runs[r] EXCEPT !.stage = "over", !.status = outcome]
           dead    == [runs[r] EXCEPT !.stage = "dead"]
<1>1. /\ runs[r] \in RunRows /\ Sound(runs[r]) /\ runs[r].status \in {"none", "RUNNING"}
      /\ trouble' \in Nat /\ ticket' \in Tickets /\ transcript' \in SUBSET Messages
      /\ UNCHANGED <<runtime, ticket, transcript, escalations, desk, inFlight, staff>>
      /\ runs[r].failures \in Nat
  BY LiveRun DEF RunThrows, ProcessDies, Live, Troubled, Core, Shapes
<1>2. CASE RunThrows(r)
  <2>1. outcome \in {"none", "FAILED"} /\ runs[r].stage # "telling"
    BY <1>2 DEF RunThrows
  <2>2. Set(r, failed)
    BY <1>1, <1>2 DEF RunThrows, RunRows
  <2> HIDE DEF outcome
  <2>3. /\ failed \in RunRows /\ failed.stage = "over" /\ failed.status = outcome
        /\ failed.failures = runs[r].failures /\ failed.calls = runs[r].calls
        /\ failed.escalated = runs[r].escalated /\ failed.refused = runs[r].refused
    BY <1>1, <2>1 DEF RunRows
  <2> HIDE DEF failed
  <2>4. Sound(failed) /\ Keeps(runs[r], failed)
    BY <1>1, <2>1, <2>3 DEF Sound, Keeps, Lost, Waiting, Working
  <2> QED BY <1>1, <2>2, <2>3, <2>4, RunMovesOn
<1>3. CASE ProcessDies(r)
  <2>1. dead \in RunRows /\ Sound(dead) /\ Keeps(runs[r], dead) /\ Set(r, dead)
    BY <1>3, StageChanges DEF ProcessDies
  <2> HIDE DEF dead
  <2> QED BY <1>1, <2>1, RunMovesOn
<1> QED BY <1>2, <1>3

\* A request at the check, which goes on when nobody has the ticket.
LEMMA CheckKeeps ==
  ASSUME Core, NEW r \in DOMAIN runs, At(r, "check"),
         CheckTicket(r) \/ RunThrows(r) \/ ProcessDies(r)
  PROVE  Core'
<1>1. /\ runs[r] \in RunRows /\ Sound(runs[r]) /\ runs[r].status = "none"
      /\ runs[r].stage = "check" /\ runs[r].failures \in Nat
      /\ trouble' \in Nat
      /\ UNCHANGED <<runtime, ticket, transcript, escalations, desk, inFlight, staff>>
  BY LiveRun DEF CheckTicket, RunThrows, ProcessDies, At, Troubled, Core, Shapes, Sound,
     Waiting
<1>2. \E stage \in {"create", "over", "dead"} :
        /\ Set(r, [runs[r] EXCEPT !.stage = stage])
        /\ stage = "create" => ticket.status \notin WithHuman
  <2>1. CASE CheckTicket(r)
    BY <2>1 DEF CheckTicket
  <2>2. CASE RunThrows(r)
    <3>1. [runs[r] EXCEPT !.stage = "over", !.status = "none"]
            = [runs[r] EXCEPT !.stage = "over"]
      BY <1>1 DEF RunRows
    <3> QED BY <1>1, <2>2, <3>1 DEF RunThrows
  <2>3. CASE ProcessDies(r)
    BY <2>3 DEF ProcessDies
  <2> QED BY <2>1, <2>2, <2>3
<1>3. PICK stage \in {"create", "over", "dead"} :
        /\ Set(r, [runs[r] EXCEPT !.stage = stage])
        /\ stage = "create" => ticket.status \notin WithHuman
  BY <1>2
<1> DEFINE now == [runs[r] EXCEPT !.stage = stage]
<1>4. /\ now \in RunRows /\ now.stage = stage /\ now.status = "none"
      /\ now.failures = runs[r].failures /\ now.calls = runs[r].calls
      /\ now.escalated = runs[r].escalated /\ now.refused = runs[r].refused
      /\ Set(r, now)
  BY <1>1, <1>3 DEF RunRows
<1> HIDE DEF now
<1>5. Sound(now) /\ Keeps(runs[r], now)
  BY <1>1, <1>4 DEF Sound, Keeps, Lost, Waiting, Working
<1>6. /\ runs' \in Seq(RunRows) /\ DOMAIN runs' = DOMAIN runs /\ AllSound' /\ runs'[r] = now
      /\ \A k \in DOMAIN runs : k # r => runs'[k] = runs[k]
  BY <1>1, <1>4, <1>5, RunMoves
<1>7. InboxKnown'
  BY <1>1, <1>4, <1>6 DEF Core, InboxKnown, Rows, Lost
<1>8. Held'
  <2>1. ASSUME NEW k \in DOMAIN runs, PastTheCheck(k)', ticket.status = "PENDING_HUMAN"
        PROVE  PastTheCheck(k)
    BY <1>3, <1>4, <1>6, <2>1 DEF PastTheCheck, Live, WithHuman
  <2> QED BY <1>1, <1>6, <2>1 DEF Core, Held
<1> QED BY <1>1, <1>6, <1>7, <1>8 DEF Core, Shapes

\* A message is kept, and a run created.
LEMMA StartKeeps ==
  ASSUME Core, NEW r \in DOMAIN runs, KeepMessage(r) \/ StartRun(r)
  PROVE  Core'
<1>1. /\ runs[r] \in RunRows /\ Sound(runs[r]) /\ runs[r].stage \in {"message", "create"}
      /\ runs[r].status = "none" /\ PastTheCheck(r) /\ r \in Nat
      /\ ticket' \in Tickets /\ trouble' \in Nat /\ runs[r].failures \in Nat
      /\ UNCHANGED <<runtime, ticket, escalations, desk, inFlight, staff>>
  BY LiveRun DEF KeepMessage, StartRun, At, PastTheCheck, Core, Shapes, Sound, Waiting
<1>2. transcript' \in SUBSET Messages
  <2>1. [role |-> "APPLICANT", run |-> r] \in Messages
    BY <1>1 DEF Messages
  <2> QED BY <2>1 DEF KeepMessage, StartRun, Core, Shapes
<1>3. CASE KeepMessage(r)
  <2> DEFINE run == [runs[r] EXCEPT !.stage = "create"]
  <2>1. /\ run \in RunRows /\ run.stage = "create" /\ run.status = "none"
        /\ run.failures = runs[r].failures /\ run.calls = runs[r].calls
        /\ run.escalated = runs[r].escalated /\ run.refused = runs[r].refused
        /\ Set(r, run)
    BY <1>1, <1>3 DEF RunRows, KeepMessage
  <2> HIDE DEF run
  <2>2. Sound(run) /\ Keeps(runs[r], run)
    BY <1>1, <2>1 DEF Sound, Keeps, Lost, Waiting, Working
  <2> QED BY <1>1, <1>2, <2>1, <2>2, RunMovesOn
<1>4. CASE StartRun(r)
  <2> DEFINE run == [runs[r] EXCEPT !.stage = "begun", !.status = "RUNNING"]
  <2>1. /\ run \in RunRows /\ run.stage = "begun" /\ run.status = "RUNNING"
        /\ run.failures = runs[r].failures /\ run.calls = runs[r].calls
        /\ run.escalated = runs[r].escalated /\ run.refused = runs[r].refused
        /\ Set(r, run)
    BY <1>1, <1>4 DEF RunRows, StartRun
  <2> HIDE DEF run
  <2>2. Sound(run) /\ Keeps(runs[r], run)
    BY <1>1, <2>1 DEF Sound, Keeps, Lost, Waiting, Working
  <2> QED BY <1>1, <1>2, <2>1, <2>2, RunMovesOn
<1> QED BY <1>3, <1>4

\* A new request.
LEMMA Begun ==
  ASSUME NEW text \in Texts, NEW intent \in SUPPORT_INTENTS, NEW stage \in {"check", "message"}
  PROVE  NewRun(text, intent, stage) \in RunRows /\ Sound(NewRun(text, intent, stage))
<1>1. 0 \in 0 .. MaxTurns /\ 80 \in Int
  BY SupportAssumption DEF SupportAssumption
<1>2. NewRun(text, intent, stage) \in RunRows
  BY <1>1 DEF NewRun, RunRows
<1>3. Sound(NewRun(text, intent, stage))
  BY DEF NewRun, Sound, Waiting, Working
<1> QED BY <1>2, <1>3

LEMMA AskingKeeps ==
  ASSUME IInv, Asking
  PROVE  Core'
<1> USE DEF IInv
<1>0. /\ ticket \in Tickets /\ transcript \in SUBSET Messages /\ runs \in Seq(RunRows)
      /\ escalations \in Seq(Escalations)
  BY DEF Core, Shapes
<1>1. ASSUME NEW text \in Texts, handleApplicantMessage(text) PROVE Core'
  <2> DEFINE run == NewRun(text, ticket.intent, "message")
  <2>1. /\ ticket.status \notin WithHuman /\ runs' = Append(runs, run)
        /\ UNCHANGED <<runtime, ticket, transcript, escalations, desk, inFlight, staff,
                       trouble>>
    BY <1>1 DEF handleApplicantMessage
  <2>2. run \in RunRows /\ Sound(run)
    BY <1>0, Begun DEF Tickets
  <2> HIDE DEF run
  <2>3. /\ runs' \in Seq(RunRows) /\ DOMAIN runs' = DOMAIN runs \cup {Len(runs) + 1}
        /\ Len(runs) + 1 \notin DOMAIN runs
        /\ \A k \in DOMAIN runs : runs'[k] = runs[k]
        /\ runs'[Len(runs) + 1] = run
    BY <1>0, <2>1, <2>2
  <2>4. \A k \in DOMAIN runs' : Sound(runs'[k])
    BY <2>2, <2>3 DEF Core, AllSound
  <2>5. AllSound'
    BY <2>1, <2>4 DEF AllSound, Sound, Answerable
  <2>6. ticket'.status # "PENDING_HUMAN"
    BY <2>1 DEF WithHuman
  <2>7. InboxKnown'
    <3>1. \A k : Rows(k)' = Rows(k)
      BY <2>1 DEF Rows
    <3>2. Rows(Len(runs) + 1) = {}
      BY <2>3 DEF Core, InboxKnown, Rows
    <3> QED BY <2>1, <2>3, <3>1, <3>2 DEF Core, InboxKnown, Lost
  <2> QED BY <2>1, <2>3, <2>5, <2>6, <2>7 DEF Core, Shapes, Held
<1>2. ASSUME NEW text \in Texts, NEW i \in {"none", text.chosen}, CreateTicket(text, i)
      PROVE  Core'
  <2>1. ticket = NoTicket /\ ticket.status = "none" /\ escalations = <<>>
    BY <1>2 DEF CreateTicket, NoTicket, Opened
  <2> DEFINE intent == IF i # "none" THEN i ELSE classifyIntentHeuristic(text.matched).intent
             run    == NewRun(text, intent, "check")
             m      == [role |-> "APPLICANT", run |-> 1]
  <2>2. intent \in SUPPORT_INTENTS
    BY <1>2, Classified, SupportAssumption DEF SupportAssumption
  <2>3. ticket' = [NoTicket EXCEPT !.status = "OPEN", !.intent = intent]
    BY <1>2 DEF CreateTicket
  <2> HIDE DEF intent
  <2>4. ticket' \in Tickets /\ ticket'.status = "OPEN" /\ ticket'.intent = intent
    BY <2>2, <2>3 DEF NoTicket, Tickets
  <2>5. runs' = <<run>> /\ transcript' = {m}
        /\ UNCHANGED <<runtime, escalations, desk, inFlight, staff, trouble>>
    BY <1>2, <2>4 DEF CreateTicket
  <2>6. run \in RunRows /\ Sound(run) /\ m \in Messages
    BY <2>2, Begun DEF Messages
  <2> HIDE DEF run, m
  <2>7. runs' \in Seq(RunRows) /\ transcript' \in SUBSET Messages
        /\ \A k \in DOMAIN runs' : runs'[k] = run
    BY <2>5, <2>6
  <2>8. AllSound'
    BY <2>5, <2>6, <2>7 DEF AllSound, Sound, Answerable
  <2>9. InboxKnown'
    <3>1. DOMAIN escalations' = {} /\ \A k : Rows(k)' = {}
      BY <2>1, <2>5 DEF Rows
    <3> QED BY <3>1 DEF InboxKnown
  <2> QED BY <2>4, <2>5, <2>7, <2>8, <2>9 DEF Core, Shapes, Held
<1> QED BY <1>1, <1>2 DEF Asking

LEMMA StaffKeeps ==
  ASSUME Core, Staff
  PROVE  Core'
<1>0. /\ ticket \in Tickets /\ transcript \in SUBSET Messages /\ runs \in Seq(RunRows)
      /\ escalations \in Seq(Escalations) /\ staff \in Nat /\ desk \in Desks
  BY DEF Core, Shapes
\* What they do to the escalations does not change whose they are.
<1>1. ASSUME NEW i \in DOMAIN escalations,
             NEW status \in {"PENDING", "ACCEPTED", "RETURNED_TO_AGENT", "RESOLVED"},
             escalations' = [escalations EXCEPT ![i].status = status],
             UNCHANGED runs
      PROVE  escalations' \in Seq(Escalations) /\ InboxKnown'
  <2> DEFINE e == [escalations[i] EXCEPT !.status = status]
  <2>1. e \in Escalations /\ e.run = escalations[i].run
    <3>1. escalations[i] \in Escalations
      BY <1>0
    <3> QED BY <3>1 DEF Escalations
  <2>2. escalations' = [escalations EXCEPT ![i] = e]
    BY <1>1
  <2> HIDE DEF e
  <2>3. /\ escalations' \in Seq(Escalations) /\ DOMAIN escalations' = DOMAIN escalations
        /\ \A k \in DOMAIN escalations : escalations'[k].run = escalations[k].run
    BY <1>0, <2>1, <2>2
  <2>4. \A k : Rows(k)' = Rows(k)
    BY <2>3 DEF Rows
  <2> QED BY <1>1, <2>3, <2>4 DEF Core, InboxKnown, Lost
<1>2. UNCHANGED <<runtime, runs, trouble>> /\ staff' \in Nat
  <2>1. UNCHANGED <<runtime, runs, trouble>> /\ (staff' = staff \/ staff' = staff + 1)
    BY DEF Staff, Accept, TakeTicket, resolveEscalation, postHumanReply, StandDown, Rate, Acts
  <2> QED BY <1>0, <2>1
<1>3. AllSound' /\ (UNCHANGED escalations => InboxKnown')
  BY <1>2 DEF Core, AllSound, Sound, Answerable, InboxKnown, Lost, Rows
\* A ticket nobody has is held from nobody.
<1>4. ASSUME ticket' \in Tickets, transcript' \in SUBSET Messages, desk' \in Desks,
             escalations' \in Seq(Escalations), InboxKnown', Held'
      PROVE  Core'
  BY <1>0, <1>2, <1>3, <1>4 DEF Core, Shapes
<1>5. ASSUME ticket'.status # "PENDING_HUMAN" \/ UNCHANGED <<ticket, inFlight>>
      PROVE  Held'
  BY <1>2, <1>5 DEF Core, Held, PastTheCheck, Live
<1>6. ASSUME NEW i \in DOMAIN escalations, Accept(i) PROVE Core'
  <2>1. desk' \in Desks /\ UNCHANGED <<ticket, transcript, inFlight>>
    BY <1>0, <1>6 DEF Accept, Desks
  <2>2. escalations' \in Seq(Escalations) /\ InboxKnown'
    BY <1>1, <1>2, <1>6 DEF Accept
  <2> QED BY <1>0, <1>4, <1>5, <2>1, <2>2
<1>7. CASE TakeTicket
  <2>0. desk' \in Desks
    BY <1>0, <1>7 DEF TakeTicket, Desks
  <2>1. /\ ticket' \in Tickets /\ desk' \in Desks
        /\ UNCHANGED <<transcript, escalations>>
        /\ inFlight' = {r \in DOMAIN runs : PastTheCheck(r)}
    BY <1>0, <1>7, <2>0 DEF TakeTicket, Tickets
  <2>2. Held'
    BY <1>2, <2>1 DEF Held, PastTheCheck, Live
  <2> QED BY <1>0, <1>3, <1>4, <2>1, <2>2
<1>8. ASSUME NEW i \in DOMAIN escalations, NEW back \in BOOLEAN, resolveEscalation(i, back)
      PROVE  Core'
  <2>1. /\ ticket' \in Tickets /\ ticket'.status # "PENDING_HUMAN"
        /\ UNCHANGED <<transcript, desk>>
    BY <1>0, <1>8 DEF resolveEscalation, Tickets
  <2>2. escalations' \in Seq(Escalations) /\ InboxKnown'
    BY <1>1, <1>2, <1>8 DEF resolveEscalation
  <2> QED BY <1>0, <1>4, <1>5, <2>1, <2>2
<1>9. CASE postHumanReply
  <2>1. [role |-> "HUMAN_AGENT", run |-> 0] \in Messages
    BY DEF Messages
  <2>2. transcript' \in SUBSET Messages /\ desk' \in Desks
        /\ UNCHANGED <<ticket, escalations, inFlight>>
    BY <1>0, <1>9, <2>1 DEF postHumanReply, Desks
  <2> QED BY <1>0, <1>3, <1>4, <1>5, <2>2
<1>10. CASE StandDown \/ Rate
  <2>0. desk' \in Desks
    BY <1>0, <1>10 DEF StandDown, Rate, Desks
  <2>1. /\ ticket' \in Tickets /\ ticket'.status # "PENDING_HUMAN" /\ desk' \in Desks
        /\ UNCHANGED <<transcript, escalations>>
    BY <1>0, <1>10, <2>0 DEF StandDown, Rate, Tickets
  <2> QED BY <1>0, <1>3, <1>4, <1>5, <2>1
<1> QED BY <1>6, <1>7, <1>8, <1>9, <1>10 DEF Staff

LEMMA OpenedKept ==
  ASSUME IInv, Next
  PROVE  Opened'
<1> USE DEF IInv
<1>0. ticket \in Tickets
  BY DEF Core, Shapes
<1>1. ASSUME NEW r \in DOMAIN runs PROVE ticket.status # "none"
  BY <1>1 DEF Opened
<1>2. ASSUME NEW r \in DOMAIN runs, RunStep(r) \/ Fault(r)
      PROVE  ticket'.status # "none"
  BY <1>0, <1>1, <1>2 DEF RunStep, Fault, RunThrows, ProcessDies, TellingFails, ModelFails,
     CheckTicket, KeepMessage, StartRun, Reply, Settle, StubGate, StubEscalates, StubReads,
     ModelReads, ModelOpensCase, ModelEscalates, ModelEnds, TellTicket, ensureCaseId, Tickets
<1>3. ASSUME Staff PROVE ticket'.status # "none"
  <2>1. TakeTicket => ticket'.status = "PENDING_HUMAN"
    BY <1>0 DEF TakeTicket, Tickets
  <2>2. StandDown => ticket'.status = "AWAITING_APPLICANT"
    BY <1>0 DEF StandDown, Tickets
  <2>3. Rate => ticket'.status = "RESOLVED"
    BY <1>0 DEF Rate, Tickets
  <2>4. ASSUME NEW i \in DOMAIN escalations, NEW back \in BOOLEAN, resolveEscalation(i, back)
        PROVE  ticket'.status # "none"
    BY <1>0, <2>4 DEF resolveEscalation, Tickets
  <2>5. ASSUME NEW i \in DOMAIN escalations, Accept(i) PROVE ticket'.status # "none"
    BY <2>5 DEF Accept, Acts, Opened
  <2>6. postHumanReply => ticket'.status # "none"
    BY DEF postHumanReply, Acts, Opened
  <2> QED BY <1>3, <2>1, <2>2, <2>3, <2>4, <2>5, <2>6 DEF Staff
<1>4. ASSUME NEW text \in Texts, NEW i \in {"none", text.chosen}, CreateTicket(text, i)
      PROVE  ticket'.status # "none"
  BY <1>4 DEF CreateTicket, NoTicket
<1>5. ASSUME NEW text \in Texts, handleApplicantMessage(text) PROVE ticket'.status # "none"
  BY <1>5 DEF handleApplicantMessage, Opened
<1> QED BY <1>2, <1>3, <1>4, <1>5 DEF Next, Asking, Opened

LEMMA StepKeeps ==
  ASSUME IInv, [Next]_vars
  PROVE  IInv'
<1>1. CASE Next
  <2>1. ASSUME NEW r \in DOMAIN runs, RunStep(r) PROVE Core'
    <3>1. CheckTicket(r) => At(r, "check")
      BY DEF CheckTicket
    <3> QED BY <2>1, <3>1, CheckKeeps, StartKeeps, ReplyKeeps, SettleKeeps, StubKeeps,
               ModelKeeps, TellingKeeps DEF IInv, RunStep
  <2>2. ASSUME NEW r \in DOMAIN runs, Fault(r) PROVE Core'
    <3>1. RunThrows(r) \/ ProcessDies(r) => PastTheCheck(r) \/ At(r, "check")
      BY DEF RunThrows, ProcessDies, PastTheCheck, At
    <3> QED BY <2>2, <3>1, CheckKeeps, FaultKeeps, ModelKeeps, TellingKeeps DEF IInv, Fault
  <2>3. Core'
    BY <1>1, <2>1, <2>2, AskingKeeps, StaffKeeps DEF IInv, Next
  <2> QED BY <1>1, <2>3, OpenedKept DEF IInv
<1>2. CASE UNCHANGED vars
  <2>1. Shapes' /\ AllSound' /\ Opened'
    BY <1>2 DEF vars, IInv, Core, Shapes, AllSound, Sound, Answerable, Opened
  <2>2. InboxKnown' /\ Held'
    BY <1>2 DEF vars, IInv, Core, InboxKnown, Rows, Lost, Held, PastTheCheck, Live
  <2> QED BY <2>1, <2>2 DEF IInv, Core
<1> QED BY <1>1, <1>2

----------------------------------------------------------------------------
(* What follows.                                                           *)

\* The inductive invariant holds in every reachable state.
THEOREM SupportInvariant == Spec => []IInv
<1> QED BY InitHolds, StepKeeps, PTL DEF Spec

\* Types: statuses, stages and intents are those the schema has, a request has no row
\* before its run starts and a RUNNING one while it is worked on, and an escalation
\* is of a request that is there.
THEOREM TypesHold == Spec => []TypeOK
<1>1. IInv => TypeOK
  <2> SUFFICES ASSUME IInv PROVE TypeOK
    OBVIOUS
  <2>1. ticket \in Tickets /\ \A r \in DOMAIN runs : runs[r] \in RunRows /\ Sound(runs[r])
    BY DEF IInv, Core, Shapes, AllSound
  <2>2. \A r \in DOMAIN runs :
          /\ runs[r].stage \in {"check", "message", "create", "begun", "read", "escalate",
                                "telling", "reply", "settle", "over", "dead"}
          /\ runs[r].calls \in 0 .. MaxTurns /\ runs[r].failures \in 0 .. MaxTurns
    BY <2>1 DEF RunRows
  <2>3. \A r \in DOMAIN runs :
          /\ runs[r].stage \in {"check", "message", "create"} => runs[r].status = "none"
          /\ runs[r].stage \in {"begun", "read", "escalate", "telling", "reply", "settle"} =>
               runs[r].status = "RUNNING"
          /\ runs[r].stage = "over" => runs[r].status # "RUNNING"
    BY <2>1 DEF Sound, Waiting, Working
  <2>4. /\ ticket.intent \in SUPPORT_INTENTS
        /\ ticket.status \in {"none", "OPEN", "AGENT_HANDLING", "AWAITING_APPLICANT",
                              "ESCALATED", "PENDING_HUMAN", "RESOLVED"}
    BY <2>1 DEF Tickets
  <2> QED BY <2>2, <2>3, <2>4 DEF TypeOK, IInv, Core, InboxKnown
<1> QED BY <1>1, SupportInvariant, PTL

\* A run that leaves the ticket with the applicant had an intent the agent may own,
\* enough confidence, no upset applicant, no second failure, and did not run out of
\* turns: in both runtimes the policy is asked after what could change its answer.
THEOREM PolicyHolds == Spec => []PolicyOnTheWayOut
<1>1. IInv => PolicyOnTheWayOut
  BY DEF IInv, Core, AllSound, Sound, Answerable, PolicyOnTheWayOut
<1> QED BY <1>1, SupportInvariant, PTL

\* The inbox and the outcome the service records agree but for one lost call: what a
\* run that has answered leaves in the inbox is the one row of the model's one call
\* that failed between its two writes (tools.ts:617-630).
THEOREM InboxHolds == Spec => []InboxMatchesOutcome
<1>1. IInv => InboxMatchesOutcome
  <2> SUFFICES ASSUME IInv, NEW r \in DOMAIN runs,
                      runs[r].status \in {"COMPLETED", "BLOCKED_BY_POLICY"}, Rows(r) # {}
               PROVE  /\ runtime # "stub" /\ runs[r].failures = 1
                      /\ \A i, j \in Rows(r) : i = j
    BY DEF InboxMatchesOutcome
  <2>1. /\ Sound(runs[r]) /\ runs[r] \in RunRows /\ runs[r].failures \in Nat
        /\ runs[r].calls \in Nat
    BY LiveRun DEF IInv
  <2>2. /\ ~runs[r].escalated /\ Answerable(runs[r]) /\ runs[r].stage = "over"
    BY <2>1 DEF Sound, RunRows, Waiting, Working
  <2>3. Lost(runs[r]) = runs[r].failures
    BY <2>1, <2>2 DEF Lost
  <2>4. /\ runs[r].failures >= 1
        /\ \A i, j \in Rows(r) : i # j => runs[r].failures >= 2
    BY <2>2, <2>3 DEF IInv, Core, InboxKnown
  <2>5. runs[r].failures < 2
    BY <2>2 DEF Answerable
  <2>6. runtime # "stub"
    BY <2>1, <2>4 DEF Sound
  <2> QED BY <2>1, <2>4, <2>5, <2>6
<1> QED BY <1>1, SupportInvariant, PTL

\* While somebody has accepted the ticket, only requests that had passed the check
\* before it was taken can still add a message or an answer (service.ts:171).
THEOREM InFlightHolds == Spec => OnlyAnswersInFlight
<1> DEFINE Old == \A m \in transcript' \ transcript : m.run \in inFlight \cup {0}
<1>1. ASSUME IInv, [Next]_vars, ticket.status = "PENDING_HUMAN" PROVE Old
  <2>1. \A r \in DOMAIN runs : PastTheCheck(r) => r \in inFlight
    BY <1>1 DEF IInv, Core, Held
  <2>2. ASSUME UNCHANGED transcript PROVE Old
    BY <2>2
  <2>3. ASSUME NEW r \in DOMAIN runs, Reply(r) \/ KeepMessage(r) PROVE Old
    <3>1. PastTheCheck(r)
      BY <2>3 DEF Reply, KeepMessage, At, PastTheCheck
    <3>2. \A m \in transcript' \ transcript : m.run = r
      BY <2>3 DEF Reply, KeepMessage
    <3> QED BY <2>1, <3>1, <3>2
  <2>4. ASSUME postHumanReply PROVE Old
    <3>1. \A m \in transcript' \ transcript : m.run = 0
      BY <2>4 DEF postHumanReply
    <3> QED BY <3>1
  <2>5. ASSUME NEW text \in Texts, NEW i \in {"none", text.chosen}, CreateTicket(text, i)
        PROVE  FALSE
    BY <1>1, <2>5 DEF CreateTicket, NoTicket
  <2> HIDE DEF Old
  <2>6. ASSUME NEW r \in DOMAIN runs, RunStep(r) \/ Fault(r) PROVE Old
    <3>1. Reply(r) \/ KeepMessage(r) \/ UNCHANGED transcript
      BY <2>6 DEF RunStep, Fault, RunThrows, ProcessDies, TellingFails, ModelFails,
         CheckTicket, StartRun, Settle, StubGate, StubEscalates, StubReads, ModelReads,
         ModelOpensCase, ModelEscalates, ModelEnds, TellTicket
    <3> QED BY <2>2, <2>3, <2>6, <3>1
  <2>7. ASSUME Staff PROVE Old
    <3>1. postHumanReply \/ UNCHANGED transcript
      BY <2>7 DEF Staff, Accept, TakeTicket, resolveEscalation, StandDown, Rate
    <3> QED BY <2>2, <2>4, <3>1
  <2>8. ASSUME Asking PROVE Old
    <3>1. UNCHANGED transcript
      BY <2>5, <2>8 DEF Asking, handleApplicantMessage
    <3> QED BY <2>2, <3>1
  <2>9. CASE Next
    BY <2>6, <2>7, <2>8, <2>9 DEF Next
  <2>10. CASE UNCHANGED vars
    BY <2>2, <2>10 DEF vars
  <2> QED BY <1>1, <2>9, <2>10
<1>2. IInv /\ [Next]_vars => [ticket.status = "PENDING_HUMAN" => Old]_vars
  BY <1>1
<1> QED BY <1>2, SupportInvariant, PTL DEF Spec, OnlyAnswersInFlight
=============================================================================
