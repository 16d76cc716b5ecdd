------------------------- MODULE VerificationProofs -------------------------
(***************************************************************************)
(* Verification, whatever the levels, photographs and residences: a level  *)
(* of due diligence that has been reached is never left downwards, a score *)
(* is a percentage, at levels that do not reject for a score alone nobody  *)
(* is rejected but on what some run has found, and at levels laid out as   *)
(* the built-in ones are an approval rests on what its own run saw.        *)
(*                                                                         *)
(* And MrzReader, for any documents and any number of glyphs changed: a    *)
(* zone as issued gives its document back, and exactly one wrong glyph in  *)
(* a group is caught, but for one of the number that counts the same.      *)
(***************************************************************************)
EXTENDS Verification, MrzReader, FiniteSetTheorems, SequenceTheorems,
        WellFoundedInduction, TLAPS

----------------------------------------------------------------------------
(* Due diligence.                                                          *)

\* The levels of due diligence.
Levels3 == {"SDD", "CDD", "EDD"}

\* The inductive invariant: the row has a level of due diligence, one of the three.
DdInvariant == "ddLevel" \in DOMAIN row /\ row.ddLevel \in Levels3

\* Their ranks.
LEMMA Ranks == Rank("SDD") = 1 /\ Rank("CDD") = 2 /\ Rank("EDD") = 3
<1>1. /\ DOMAIN DdLevels = 1..3 /\ DdLevels[1] = "SDD" /\ DdLevels[2] = "CDD"
      /\ DdLevels[3] = "EDD"
  BY DEF DdLevels
<1>2. ASSUME NEW i \in 1..3 PROVE Rank(DdLevels[i]) = i
  <2>1. \A j \in 1..3 : DdLevels[j] = DdLevels[i] => j = i
    BY <1>1
  <2> QED BY <1>1, <2>1 DEF Rank
<1> QED BY <1>1, <1>2

\* Whatever the score and the rules ask for, the level that comes of it is not lower.
LEMMA NeverLower ==
  ASSUME NEW score, NEW current \in Levels3, NEW forceEdd
  PROVE  LET new == ddLevelFor(score, current, forceEdd)
         IN  new \in Levels3 /\ Rank(new) >= Rank(current)
<1> DEFINE computed == IF forceEdd \/ score >= 55 THEN "EDD"
                       ELSE IF score >= 25 THEN "CDD" ELSE "SDD"
<1>1. ddLevelFor(score, current, forceEdd) =
        IF Rank(computed) >= Rank(current) THEN computed ELSE current
  BY Zenon DEF ddLevelFor
<1>2. computed \in Levels3
  BY Zenon DEF Levels3
<1> HIDE DEF computed
<1>3. \A l \in Levels3 : Rank(l) \in 1..3
  BY Ranks DEF Levels3
<1> QED BY <1>1, <1>2, <1>3

\* What the other steps leave alone.
LevelKept == DOMAIN row' = DOMAIN row /\ row'.ddLevel = row.ddLevel

\* What happens between the runs leaves it alone.
LEMMA BetweenKeeps ==
  ASSUME DdInvariant, Between
  PROVE  LevelKept
<1> USE DEF DdInvariant, LevelKept
<1>1. ASSUME NEW image \in Images, Upload(image) PROVE LevelKept
  BY <1>1 DEF Upload
<1>2. ASSUME NEW country \in Residences, Declare(country) PROVE LevelKept
  BY <1>2 DEF Declare
<1>3. ASSUME NEW genuine \in BOOLEAN, ReadChip(genuine) PROVE LevelKept
  BY <1>3 DEF ReadChip
<1>4. ASSUME NEW e \in Entries, ListUpdate(e) PROVE LevelKept
  BY <1>4 DEF ListUpdate
<1>5. ASSUME NEW e \in Entries, NEW resolution, ResolveHit(e, resolution) PROVE LevelKept
  BY <1>5 DEF ResolveHit
<1>6. CASE RequestResubmission
  BY <1>6 DEF RequestResubmission
<1>7. ASSUME NEW trigger, ReviewerDecides(trigger) PROVE LevelKept
  BY <1>7 DEF ReviewerDecides
<1>8. CASE Submit
  BY <1>8 DEF Submit
<1>9. CASE PeriodicReview
  BY <1>9 DEF PeriodicReview
<1> QED BY <1>1, <1>2, <1>3, <1>4, <1>5, <1>6, <1>7, <1>8, <1>9 DEF Between

\* So does every step of a run but the last.
LEMMA StepKeeps ==
  ASSUME DdInvariant, RunStep, \A idDoc \in IdDocs : ~Finalize(idDoc)
  PROVE  LevelKept
<1> USE DEF DdInvariant, LevelKept
<1>1. CASE StepThrows
  BY <1>1 DEF StepThrows
<1>2. CASE DocumentMissing \/ OcrFails
  BY <1>2 DEF DocumentMissing, OcrFails
<1>3. ASSUME NEW examined \in BOOLEAN, ReadDocument(examined) PROVE LevelKept
  <2>1. PICK number : row' = IF number = "" THEN row ELSE [row EXCEPT !.registered = number]
    BY <1>3, Zenon DEF ReadDocument
  <2> QED BY <2>1
<1>4. CASE BiometricsMissing \/ BiometricsFail
  BY <1>4 DEF BiometricsMissing, BiometricsFail
<1>5. CASE CheckLiveness \/ MatchFace
  BY <1>5, Zenon DEF CheckLiveness, MatchFace
<1>6. ASSUME NEW d, AssessDevice(d) PROVE LevelKept
  <2>1. PICK country : row' = [row EXCEPT !.ipCountry = country]
    BY <1>6, Zenon DEF AssessDevice
  <2> QED BY <2>1
<1>7. ASSUME NEW answer, AssessContact(answer) PROVE LevelKept
  BY <1>7, Zenon DEF AssessContact
<1>8. CASE CheckApplicantData \/ LookForChip \/ NoAutomatedCheck
  BY <1>8, Zenon DEF CheckApplicantData, LookForChip, NoAutomatedCheck
<1>9. ASSUME NEW answered \in BOOLEAN, CheckAddress(answered) \/ Screen(answered)
      PROVE  LevelKept
  BY <1>9, Zenon DEF CheckAddress, Screen
<1>10. CASE ScreeningUnnamed
  BY <1>10, Zenon DEF ScreeningUnnamed
<1> QED BY <1>1, <1>2, <1>3, <1>4, <1>5, <1>6, <1>7, <1>8, <1>9, <1>10 DEF RunStep

\* Only the decision writes the level.
LEMMA DecisionRatchets ==
  ASSUME DdInvariant, NEW idDoc, Finalize(idDoc)
  PROVE  DdInvariant' /\ Rank(row'.ddLevel) >= Rank(row.ddLevel)
<1> DEFINE s == Snapshot(idDoc)
           decision == Decision(s)
<1>1. s.ddLevel = row.ddLevel
  BY DEF Snapshot
<1>2. PICK score, edd : decision.ddLevel = ddLevelFor(score, s.ddLevel, edd)
  BY Zenon DEF Decision, assessRisk
<1>3. row'.ddLevel = decision.ddLevel /\ "ddLevel" \in DOMAIN row'
  <2> HIDE DEF decision
  <2>1. row' = [row EXCEPT
         !.reviewStatus = decision.reviewStatus,
         !.verdict = decision.reviewStatus,
         !.riskScore = decision.riskScore,
         !.ddLevel = decision.ddLevel,
         !.monitored = @ \/ (decision.monitor
                              /\ decision.reviewStatus = "APPROVED")]
    BY Zenon DEF Finalize, decision
  <2> QED BY <2>1 DEF DdInvariant
<1> HIDE DEF decision, s
<1> QED BY <1>1, <1>2, <1>3, NeverLower DEF DdInvariant

\* The level of due diligence never falls, whatever levels, images and residences
\* there are, whatever the rules and the score come to.
THEOREM DueDiligenceHolds == Spec => DueDiligenceRatchets
<1>1. Init => DdInvariant
  BY DEF Init, DdInvariant, NewRow, Levels3
<1>2. ASSUME DdInvariant, [Next]_vars
      PROVE  DdInvariant' /\ Rank(row'.ddLevel) >= Rank(row.ddLevel)
  <2>1. \A l \in Levels3 : Rank(l) \in 1..3
    BY Ranks DEF Levels3
  <2>2. CASE LevelKept
    BY <1>2, <2>1, <2>2 DEF LevelKept, DdInvariant
  <2>3. CASE UNCHANGED vars
    BY <1>2, <2>1, <2>3 DEF vars, DdInvariant
  <2>4. CASE \E idDoc \in IdDocs : Finalize(idDoc)
    BY <1>2, <2>4, DecisionRatchets
  <2> QED BY <1>2, <2>2, <2>3, <2>4, BetweenKeeps, StepKeeps DEF Next
<1> QED BY <1>1, <1>2, PTL DEF Spec, DueDiligenceRatchets

----------------------------------------------------------------------------
(* Induction.                                                              *)

\* Induction over the naturals, with the property as a set: what holds of zero and
\* passes from each number to the next holds of all.
LEMMA SetInduction ==
  ASSUME NEW T, 0 \in T, \A n \in Nat : n \in T => n + 1 \in T
  PROVE  \A n \in Nat : n \in T
<1> DEFINE Rest == {n \in Nat : n \notin T}
           Less == {pair \in Nat \X Nat : pair[1] < pair[2]}
<1>1. SUFFICES ASSUME Rest # {} PROVE FALSE
  OBVIOUS
<1>2. IsWellFoundedOn(Less, Nat)
  BY NatLessThanWellFounded, Zenon DEF OpToRel
<1>3. PICK x \in Rest : \A y \in Rest : <<y, x>> \notin Less
  <2>1. Rest \subseteq Nat
    OBVIOUS
  <2> HIDE DEF Rest
  <2> QED BY <1>1, <1>2, <2>1, WFMin
<1>4. x # 0 /\ x \in Nat
  OBVIOUS
<1>5. x - 1 \in Rest
  BY <1>4
<1>6. <<x - 1, x>> \in Less
  BY <1>4
<1> QED BY <1>3, <1>5, <1>6

----------------------------------------------------------------------------
(* The rules engine: what fires, and what is asked for.                    *)

\* What the engine computes, rule by rule.
Runs(after, ordered, facts) ==
  /\ after[0] = [fired |-> <<>>, facts |-> facts]
  /\ \A i \in 1..Len(ordered) : after[i] = Applied(after[i - 1], ordered[i])

\* The recursion of evaluateRules has a solution, and it is the one that runs.
LEMMA EngineRuns ==
  ASSUME NEW S, NEW ordered \in Seq(S), NEW facts
  PROVE  \E after : /\ Runs(after, ordered, facts)
                    /\ evaluateRules(ordered, facts) = after[Len(ordered)]
<1> DEFINE Start == [fired |-> <<>>, facts |-> facts]
           Body(f) == [i \in 0..Len(ordered) |->
                         IF i = 0 THEN Start ELSE Applied(f[i - 1], ordered[i])]
           Upto(f, n) == /\ f[0] = Start
                         /\ \A i \in 1..n : f[i] = Applied(f[i - 1], ordered[i])
           T == {n \in Nat : \E f : Upto(f, n)}
<1>1. 0 \in T
  <2>1. Upto([i \in {0} |-> Start], 0)
    OBVIOUS
  <2> QED BY <2>1
<1>2. ASSUME NEW n \in Nat, n \in T PROVE n + 1 \in T
  <2>1. PICK f : Upto(f, n)
    BY <1>2
  <2> DEFINE g == [i \in 0..(n + 1) |-> IF i = n + 1 THEN Applied(f[n], ordered[n + 1])
                                        ELSE f[i]]
  <2>2. g[0] = Start
    BY <2>1
  <2>3. ASSUME NEW i \in 1..(n + 1) PROVE g[i] = Applied(g[i - 1], ordered[i])
    <3>1. CASE i = n + 1
      BY <3>1
    <3>2. CASE i # n + 1
      <4>1. i \in 1..n /\ i - 1 \in 0..(n + 1) /\ i - 1 # n + 1
        BY <3>2
      <4>2. g[i] = f[i] /\ g[i - 1] = f[i - 1]
        BY <4>1, <3>2
      <4>3. f[i] = Applied(f[i - 1], ordered[i])
        BY <2>1, <4>1
      <4> QED BY <4>2, <4>3
    <3> QED BY <3>1, <3>2
  <2>4. Upto(g, n + 1)
    BY <2>2, <2>3
  <2> HIDE DEF Upto
  <2> QED BY <2>4
<1>3. PICK f : Upto(f, Len(ordered))
  <2> HIDE DEF Upto
  <2>1. Len(ordered) \in T
    <3> HIDE DEF T
    <3> QED BY <1>1, <1>2, SetInduction
  <2> QED BY <2>1
<1> DEFINE g == [i \in 0..Len(ordered) |-> f[i]]
<1>4. g = Body(g)
  <2>1. Len(ordered) \in Nat
    OBVIOUS
  <2>2. ASSUME NEW i \in 0..Len(ordered) PROVE g[i] = Body(g)[i]
    <3>1. CASE i = 0
      BY <1>3, <3>1
    <3>2. CASE i # 0
      <4>1. g[i] = Applied(f[i - 1], ordered[i])
        BY <1>3, <3>2
      <4>2. g[i - 1] = f[i - 1]
        BY <3>2
      <4> QED BY <4>1, <4>2, <3>2
    <3> QED BY <3>1, <3>2
  <2> QED BY <2>2
<1> HIDE DEF g
<1> DEFINE h == CHOOSE after : after = Body(after)
<1>5. h = Body(h)
  BY <1>4
<1>6. evaluateRules(ordered, facts) = h[Len(ordered)]
  BY Zenon DEF evaluateRules
<1>7. Runs(h, ordered, facts)
  <2> HIDE DEF h
  <2>1. h[0] = Start
    BY <1>5
  <2>2. ASSUME NEW i \in 1..Len(ordered) PROVE h[i] = Applied(h[i - 1], ordered[i])
    BY <1>5
  <2> QED BY <2>1, <2>2 DEF Runs
<1> QED BY <1>6, <1>7

SetsNothing(rule) == \A k \in DOMAIN rule.actions : rule.actions[k].type # "SET_FACT"

\* A rule that sets no fact leaves them as they are.
LEMMA NothingDerived ==
  ASSUME NEW facts, facts = [n \in DOMAIN facts |-> facts[n]],
         NEW rule, SetsNothing(rule)
  PROVE  Derived(facts, rule.actions) = facts
<1>1. {i \in DOMAIN rule.actions : rule.actions[i].type = "SET_FACT"} = {}
  BY DEF SetsNothing
<1> DEFINE names == {rule.actions[i].name :
                       i \in {j \in DOMAIN rule.actions : rule.actions[j].type = "SET_FACT"}}
<1>2. names = {}
  BY <1>1
<1> QED BY <1>2, Zenon DEF Derived

\* What the rules that fired ask for, one after the other.
Collects(asked, fired) ==
  /\ asked[0] = <<>>
  /\ \A i \in 1..Len(fired) :
       asked[i] = asked[i - 1] \o (IF fired[i].isShadow THEN <<>> ELSE fired[i].actions)

\* The recursion of ActionsOf has a solution as well.
LEMMA ActionsCollected ==
  ASSUME NEW S, NEW fired \in Seq(S)
  PROVE  \E asked : Collects(asked, fired) /\ ActionsOf(fired) = asked[Len(fired)]
<1> DEFINE Part(i) == IF fired[i].isShadow THEN <<>> ELSE fired[i].actions
           Body(f) == [i \in 0..Len(fired) |-> IF i = 0 THEN <<>> ELSE f[i - 1] \o Part(i)]
           Upto(f, n) == f[0] = <<>> /\ \A i \in 1..n : f[i] = f[i - 1] \o Part(i)
           T == {n \in Nat : \E f : Upto(f, n)}
<1>0. ActionsOf(fired) = (CHOOSE asked : asked = Body(asked))[Len(fired)]
  BY Zenon DEF ActionsOf
<1> HIDE DEF Part
<1>1. 0 \in T
  <2>1. Upto([i \in {0} |-> <<>>], 0)
    OBVIOUS
  <2> QED BY <2>1
<1>2. ASSUME NEW n \in Nat, n \in T PROVE n + 1 \in T
  <2>1. PICK f : Upto(f, n)
    BY <1>2
  <2> DEFINE g == [i \in 0..(n + 1) |-> IF i = n + 1 THEN f[n] \o Part(n + 1) ELSE f[i]]
  <2>2. g[0] = <<>>
    BY <2>1
  <2>3. ASSUME NEW i \in 1..(n + 1) PROVE g[i] = g[i - 1] \o Part(i)
    <3>1. CASE i = n + 1
      BY <3>1
    <3>2. CASE i # n + 1
      <4>1. i \in 1..n /\ i - 1 \in 0..(n + 1) /\ i - 1 # n + 1
        BY <3>2
      <4>2. g[i] = f[i] /\ g[i - 1] = f[i - 1]
        BY <4>1, <3>2
      <4>3. f[i] = f[i - 1] \o Part(i)
        BY <2>1, <4>1
      <4> QED BY <4>2, <4>3
    <3> QED BY <3>1, <3>2
  <2>4. Upto(g, n + 1)
    BY <2>2, <2>3
  <2> HIDE DEF Upto
  <2> QED BY <2>4
<1>3. PICK f : Upto(f, Len(fired))
  <2> HIDE DEF Upto
  <2>1. Len(fired) \in T
    <3> HIDE DEF T
    <3> QED BY <1>1, <1>2, SetInduction
  <2> QED BY <2>1
<1> DEFINE g == [i \in 0..Len(fired) |-> f[i]]
<1>4. g = Body(g)
  <2>1. Len(fired) \in Nat
    OBVIOUS
  <2>2. ASSUME NEW i \in 0..Len(fired) PROVE g[i] = Body(g)[i]
    <3>1. CASE i = 0
      BY <1>3, <3>1
    <3>2. CASE i # 0
      <4>1. g[i] = f[i - 1] \o Part(i)
        BY <1>3, <3>2
      <4>2. g[i - 1] = f[i - 1]
        BY <3>2
      <4> QED BY <4>1, <4>2, <3>2
    <3> QED BY <3>1, <3>2
  <2> QED BY <2>2
<1> HIDE DEF g
<1> DEFINE h == CHOOSE asked : asked = Body(asked)
<1>5. h = Body(h)
  BY <1>4
<1>7. Collects(h, fired)
  <2> HIDE DEF h
  <2>1. h[0] = <<>>
    BY <1>5
  <2>2. ASSUME NEW i \in 1..Len(fired) PROVE h[i] = h[i - 1] \o Part(i)
    <3>1. i \in 0..Len(fired) /\ i # 0
      OBVIOUS
    <3>2. Body(h)[i] = h[i - 1] \o Part(i)
      BY <3>1, Zenon
    <3> QED BY <1>5, <3>2, Zenon
  <2> QED BY <2>1, <2>2 DEF Collects, Part
<1> QED BY <1>0, <1>7

----------------------------------------------------------------------------
(* The rules a run goes by.                                                *)

\* A rule that sets no fact and rejects only with one label at a time.

Scopes == {"APPLICANT_RISK", "DOCUMENT", "SCREENING", "ONGOING_MONITORING"}

\* What is needed of each rule: it is active, it has a place in the order, its
\* actions are a list, none of them sets a fact, and one rule only approves.
Fits(rule, priority) ==
  /\ rule.priority = priority /\ rule.isActive = TRUE /\ rule.scope \in Scopes
  /\ rule.actions \in Seq(Range(rule.actions))
  /\ SetsNothing(rule)
  /\ \A k \in DOMAIN rule.actions :
       /\ rule.actions[k].type = "ADD_RISK" => rule.actions[k].value \in 0..100
       /\ rule.actions[k].type = "AUTO_APPROVE" => priority = 300

\* A list is a list of what it lists.
LEMMA OfItsOwn ==
  /\ \A a : <<a>> \in Seq(Range(<<a>>))
  /\ \A a, b : <<a, b>> \in Seq(Range(<<a, b>>))
  /\ \A a, b, c : <<a, b, c>> \in Seq(Range(<<a, b, c>>))
  /\ \A a, b, c, d : <<a, b, c, d>> \in Seq(Range(<<a, b, c, d>>))
BY DEF Range

PlacesScreeningRules == <<1, 2, 10, 20, 21, 30>>
PlacesDocumentRules  == <<100, 101, 102, 110, 111, 112, 120, 121>>
PlacesRiskRules      == <<200, 201, 210, 211, 212, 213, 214, 220, 221, 222>>
PlacesWorkflowRules  == <<300, 301, 310, 311>>

\* The rules about screening: their places, and what they ask for.
LEMMA ScreeningRulesFit ==
  \A i \in 1..6 : Fits(ScreeningRules[i], PlacesScreeningRules[i])
<1> USE DEF PlacesScreeningRules
<1>1. Fits(ScreeningRules[1], 1)
  <2>1. /\ ScreeningRules[1].priority = 1 /\ ScreeningRules[1].isActive = TRUE
        /\ ScreeningRules[1].scope = "APPLICANT_RISK"
        /\ ScreeningRules[1].actions =
             <<AutoReject("PROHIBITED_COUNTRY"), AddRisk(100)>>
    BY DEF ScreeningRules, Rule
  <2>2. ScreeningRules[1].actions \in Seq(Range(ScreeningRules[1].actions))
    BY <2>1, OfItsOwn, Zenon
  <2> QED BY <2>1, <2>2 DEF Fits, SetsNothing, AddRisk, AutoReject, With, Scopes
<1>2. Fits(ScreeningRules[2], 2)
  <2>1. /\ ScreeningRules[2].priority = 2 /\ ScreeningRules[2].isActive = TRUE
        /\ ScreeningRules[2].scope = "SCREENING"
        /\ ScreeningRules[2].actions =
             <<AutoReject("SANCTIONS_MATCH"), AddRisk(100),
               OpenCase("AML_HIT_REVIEW"), Notify("MLRO")>>
    BY DEF ScreeningRules, Rule
  <2>2. ScreeningRules[2].actions \in Seq(Range(ScreeningRules[2].actions))
    BY <2>1, OfItsOwn, Zenon
  <2> QED BY <2>1, <2>2 DEF Fits, SetsNothing, AddRisk, AutoReject, Notify, OpenCase, With, Scopes
<1>3. Fits(ScreeningRules[3], 10)
  <2>1. /\ ScreeningRules[3].priority = 10 /\ ScreeningRules[3].isActive = TRUE
        /\ ScreeningRules[3].scope = "SCREENING"
        /\ ScreeningRules[3].actions =
             <<ManualReview, Queue("aml-hits"), AddRisk(55),
               OpenCase("AML_HIT_REVIEW")>>
    BY DEF ScreeningRules, Rule
  <2>2. ScreeningRules[3].actions \in Seq(Range(ScreeningRules[3].actions))
    BY <2>1, OfItsOwn, Zenon
  <2> QED BY <2>1, <2>2 DEF Fits, SetsNothing, AddRisk, ManualReview, OpenCase, Queue, Do, With,
            Scopes
<1>4. Fits(ScreeningRules[4], 20)
  <2>1. /\ ScreeningRules[4].priority = 20 /\ ScreeningRules[4].isActive = TRUE
        /\ ScreeningRules[4].scope = "SCREENING"
        /\ ScreeningRules[4].actions =
             <<Do("REQUIRE_EDD"), AddRisk(45), Queue("edd-review"), Monitor>>
    BY DEF ScreeningRules, Rule
  <2>2. ScreeningRules[4].actions \in Seq(Range(ScreeningRules[4].actions))
    BY <2>1, OfItsOwn, Zenon
  <2> QED BY <2>1, <2>2 DEF Fits, SetsNothing, AddRisk, Do, Monitor, Queue, With, Scopes
<1>5. Fits(ScreeningRules[5], 21)
  <2>1. /\ ScreeningRules[5].priority = 21 /\ ScreeningRules[5].isActive = TRUE
        /\ ScreeningRules[5].scope = "SCREENING"
        /\ ScreeningRules[5].actions =
             <<AddRisk(18), Monitor>>
    BY DEF ScreeningRules, Rule
  <2>2. ScreeningRules[5].actions \in Seq(Range(ScreeningRules[5].actions))
    BY <2>1, OfItsOwn, Zenon
  <2> QED BY <2>1, <2>2 DEF Fits, SetsNothing, AddRisk, Monitor, Do, With, Scopes
<1>6. Fits(ScreeningRules[6], 30)
  <2>1. /\ ScreeningRules[6].priority = 30 /\ ScreeningRules[6].isActive = TRUE
        /\ ScreeningRules[6].scope = "SCREENING"
        /\ ScreeningRules[6].actions =
             <<ManualReview, AddRisk(35), Queue("aml-hits")>>
    BY DEF ScreeningRules, Rule
  <2>2. ScreeningRules[6].actions \in Seq(Range(ScreeningRules[6].actions))
    BY <2>1, OfItsOwn, Zenon
  <2> QED BY <2>1, <2>2 DEF Fits, SetsNothing, AddRisk, ManualReview, Queue, Do, With, Scopes
<1> QED BY <1>1, <1>2, <1>3, <1>4, <1>5, <1>6

\* The rules about documents and faces.
LEMMA DocumentRulesFit ==
  \A i \in 1..8 : Fits(DocumentRules[i], PlacesDocumentRules[i])
<1> USE DEF PlacesDocumentRules
<1>1. Fits(DocumentRules[1], 100)
  <2>1. /\ DocumentRules[1].priority = 100 /\ DocumentRules[1].isActive = TRUE
        /\ DocumentRules[1].scope = "DOCUMENT"
        /\ DocumentRules[1].actions =
             <<AutoReject("FORGED_DOCUMENT"), AddRisk(100),
               OpenCase("FRAUD_INVESTIGATION")>>
    BY DEF DocumentRules, Rule
  <2>2. DocumentRules[1].actions \in Seq(Range(DocumentRules[1].actions))
    BY <2>1, OfItsOwn
  <2> QED BY <2>1, <2>2 DEF Fits, SetsNothing, AddRisk, AutoReject, OpenCase, With, Scopes
<1>2. Fits(DocumentRules[2], 101)
  <2>1. /\ DocumentRules[2].priority = 101 /\ DocumentRules[2].isActive = TRUE
        /\ DocumentRules[2].scope = "APPLICANT_RISK"
        /\ DocumentRules[2].actions =
             <<AutoReject("SPOOF_ATTEMPT"), AddRisk(95),
               OpenCase("FRAUD_INVESTIGATION")>>
    BY DEF DocumentRules, Rule
  <2>2. DocumentRules[2].actions \in Seq(Range(DocumentRules[2].actions))
    BY <2>1, OfItsOwn, Zenon
  <2> QED BY <2>1, <2>2 DEF Fits, SetsNothing, AddRisk, AutoReject, OpenCase, With, Scopes
<1>3. Fits(DocumentRules[3], 102)
  <2>1. /\ DocumentRules[3].priority = 102 /\ DocumentRules[3].isActive = TRUE
        /\ DocumentRules[3].scope = "APPLICANT_RISK"
        /\ DocumentRules[3].actions =
             <<AutoReject("DUPLICATE_FACE"), AddRisk(85),
               OpenCase("DUPLICATE_ACCOUNT")>>
    BY DEF DocumentRules, Rule
  <2>2. DocumentRules[3].actions \in Seq(Range(DocumentRules[3].actions))
    BY <2>1, OfItsOwn, Zenon
  <2> QED BY <2>1, <2>2 DEF Fits, SetsNothing, AddRisk, AutoReject, OpenCase, With, Scopes
<1>4. Fits(DocumentRules[4], 110)
  <2>1. /\ DocumentRules[4].priority = 110 /\ DocumentRules[4].isActive = TRUE
        /\ DocumentRules[4].scope = "DOCUMENT"
        /\ DocumentRules[4].actions =
             <<AutoReject("DOCUMENT_EXPIRED")>>
    BY DEF DocumentRules, Rule
  <2>2. DocumentRules[4].actions \in Seq(Range(DocumentRules[4].actions))
    BY <2>1, OfItsOwn, Zenon
  <2> QED BY <2>1, <2>2 DEF Fits, SetsNothing, AutoReject, With, Scopes
<1>5. Fits(DocumentRules[5], 111)
  <2>1. /\ DocumentRules[5].priority = 111 /\ DocumentRules[5].isActive = TRUE
        /\ DocumentRules[5].scope = "APPLICANT_RISK"
        /\ DocumentRules[5].actions =
             <<RejectLabel("SELFIE_MISMATCH"), ManualReview, AddRisk(45)>>
    BY DEF DocumentRules, Rule
  <2>2. DocumentRules[5].actions \in Seq(Range(DocumentRules[5].actions))
    BY <2>1, OfItsOwn, Zenon
  <2> QED BY <2>1, <2>2 DEF Fits, SetsNothing, AddRisk, ManualReview, RejectLabel, Do, With, Scopes
<1>6. Fits(DocumentRules[6], 112)
  <2>1. /\ DocumentRules[6].priority = 112 /\ DocumentRules[6].isActive = TRUE
        /\ DocumentRules[6].scope = "DOCUMENT"
        /\ DocumentRules[6].actions =
             <<ManualReview, RejectLabel("MRZ_CHECKSUM_FAILED"), AddRisk(40)>>
    BY DEF DocumentRules, Rule
  <2>2. DocumentRules[6].actions \in Seq(Range(DocumentRules[6].actions))
    BY <2>1, OfItsOwn, Zenon
  <2> QED BY <2>1, <2>2 DEF Fits, SetsNothing, AddRisk, ManualReview, RejectLabel, Do, With, Scopes
<1>7. Fits(DocumentRules[7], 120)
  <2>1. /\ DocumentRules[7].priority = 120 /\ DocumentRules[7].isActive = TRUE
        /\ DocumentRules[7].scope = "APPLICANT_RISK"
        /\ DocumentRules[7].actions =
             <<ManualReview, RejectLabel("DATA_MISMATCH"), AddRisk(25)>>
    BY DEF DocumentRules, Rule
  <2>2. DocumentRules[7].actions \in Seq(Range(DocumentRules[7].actions))
    BY <2>1, OfItsOwn, Zenon
  <2> QED BY <2>1, <2>2 DEF Fits, SetsNothing, AddRisk, ManualReview, RejectLabel, Do, With, Scopes
<1>8. Fits(DocumentRules[8], 121)
  <2>1. /\ DocumentRules[8].priority = 121 /\ DocumentRules[8].isActive = TRUE
        /\ DocumentRules[8].scope = "APPLICANT_RISK"
        /\ DocumentRules[8].actions =
             <<AutoReject("UNDERAGE")>>
    BY DEF DocumentRules, Rule
  <2>2. DocumentRules[8].actions \in Seq(Range(DocumentRules[8].actions))
    BY <2>1, OfItsOwn, Zenon
  <2> QED BY <2>1, <2>2 DEF Fits, SetsNothing, AutoReject, With, Scopes
<1> QED BY <1>1, <1>2, <1>3, <1>4, <1>5, <1>6, <1>7, <1>8

\* The rules about risk.
LEMMA RiskRulesFit ==
  \A i \in 1..10 : Fits(RiskRules[i], PlacesRiskRules[i])
<1> USE DEF PlacesRiskRules
<1>1. Fits(RiskRules[1], 200)
  <2>1. /\ RiskRules[1].priority = 200 /\ RiskRules[1].isActive = TRUE
        /\ RiskRules[1].scope = "APPLICANT_RISK"
        /\ RiskRules[1].actions =
             <<AddRisk(50), Do("REQUIRE_EDD")>>
    BY DEF RiskRules, Rule
  <2>2. RiskRules[1].actions \in Seq(Range(RiskRules[1].actions))
    BY <2>1, OfItsOwn, Zenon
  <2> QED BY <2>1, <2>2 DEF Fits, SetsNothing, AddRisk, Do, With, Scopes
<1>2. Fits(RiskRules[2], 201)
  <2>1. /\ RiskRules[2].priority = 201 /\ RiskRules[2].isActive = TRUE
        /\ RiskRules[2].scope = "APPLICANT_RISK"
        /\ RiskRules[2].actions =
             <<AddRisk(20)>>
    BY DEF RiskRules, Rule
  <2>2. RiskRules[2].actions \in Seq(Range(RiskRules[2].actions))
    BY <2>1, OfItsOwn, Zenon
  <2> QED BY <2>1, <2>2 DEF Fits, SetsNothing, AddRisk, With, Scopes
<1>3. Fits(RiskRules[3], 210)
  <2>1. /\ RiskRules[3].priority = 210 /\ RiskRules[3].isActive = TRUE
        /\ RiskRules[3].scope = "APPLICANT_RISK"
        /\ RiskRules[3].actions =
             <<AddRisk(15)>>
    BY DEF RiskRules, Rule
  <2>2. RiskRules[3].actions \in Seq(Range(RiskRules[3].actions))
    BY <2>1, OfItsOwn, Zenon
  <2> QED BY <2>1, <2>2 DEF Fits, SetsNothing, AddRisk, With, Scopes
<1>4. Fits(RiskRules[4], 211)
  <2>1. /\ RiskRules[4].priority = 211 /\ RiskRules[4].isActive = TRUE
        /\ RiskRules[4].scope = "APPLICANT_RISK"
        /\ RiskRules[4].actions =
             <<AddRisk(30), ManualReview>>
    BY DEF RiskRules, Rule
  <2>2. RiskRules[4].actions \in Seq(Range(RiskRules[4].actions))
    BY <2>1, OfItsOwn, Zenon
  <2> QED BY <2>1, <2>2 DEF Fits, SetsNothing, AddRisk, ManualReview, Do, With, Scopes
<1>5. Fits(RiskRules[5], 212)
  <2>1. /\ RiskRules[5].priority = 212 /\ RiskRules[5].isActive = TRUE
        /\ RiskRules[5].scope = "APPLICANT_RISK"
        /\ RiskRules[5].actions =
             <<AddRisk(10)>>
    BY DEF RiskRules, Rule
  <2>2. RiskRules[5].actions \in Seq(Range(RiskRules[5].actions))
    BY <2>1, OfItsOwn, Zenon
  <2> QED BY <2>1, <2>2 DEF Fits, SetsNothing, AddRisk, With, Scopes
<1>6. Fits(RiskRules[6], 213)
  <2>1. /\ RiskRules[6].priority = 213 /\ RiskRules[6].isActive = TRUE
        /\ RiskRules[6].scope = "APPLICANT_RISK"
        /\ RiskRules[6].actions =
             <<AddRisk(12)>>
    BY DEF RiskRules, Rule
  <2>2. RiskRules[6].actions \in Seq(Range(RiskRules[6].actions))
    BY <2>1, OfItsOwn, Zenon
  <2> QED BY <2>1, <2>2 DEF Fits, SetsNothing, AddRisk, With, Scopes
<1>7. Fits(RiskRules[7], 214)
  <2>1. /\ RiskRules[7].priority = 214 /\ RiskRules[7].isActive = TRUE
        /\ RiskRules[7].scope = "APPLICANT_RISK"
        /\ RiskRules[7].actions =
             <<AddRisk(20)>>
    BY DEF RiskRules, Rule
  <2>2. RiskRules[7].actions \in Seq(Range(RiskRules[7].actions))
    BY <2>1, OfItsOwn, Zenon
  <2> QED BY <2>1, <2>2 DEF Fits, SetsNothing, AddRisk, With, Scopes
<1>8. Fits(RiskRules[8], 220)
  <2>1. /\ RiskRules[8].priority = 220 /\ RiskRules[8].isActive = TRUE
        /\ RiskRules[8].scope = "APPLICANT_RISK"
        /\ RiskRules[8].actions =
             <<ManualReview, AddRisk(35), Queue("fraud-review")>>
    BY DEF RiskRules, Rule
  <2>2. RiskRules[8].actions \in Seq(Range(RiskRules[8].actions))
    BY <2>1, OfItsOwn, Zenon
  <2> QED BY <2>1, <2>2 DEF Fits, SetsNothing, AddRisk, ManualReview, Queue, Do, With, Scopes
<1>9. Fits(RiskRules[9], 221)
  <2>1. /\ RiskRules[9].priority = 221 /\ RiskRules[9].isActive = TRUE
        /\ RiskRules[9].scope = "APPLICANT_RISK"
        /\ RiskRules[9].actions =
             <<ManualReview, AddRisk(40), OpenCase("FRAUD_INVESTIGATION")>>
    BY DEF RiskRules, Rule
  <2>2. RiskRules[9].actions \in Seq(Range(RiskRules[9].actions))
    BY <2>1, OfItsOwn, Zenon
  <2> QED BY <2>1, <2>2 DEF Fits, SetsNothing, AddRisk, ManualReview, OpenCase, Do, With, Scopes
<1>10. Fits(RiskRules[10], 222)
  <2>1. /\ RiskRules[10].priority = 222 /\ RiskRules[10].isActive = TRUE
        /\ RiskRules[10].scope = "APPLICANT_RISK"
        /\ RiskRules[10].actions =
             <<ManualReview, RejectLabel("DUPLICATE_ACCOUNT"), AddRisk(50),
               Queue("fraud-review")>>
    BY DEF RiskRules, Rule
  <2>2. RiskRules[10].actions \in Seq(Range(RiskRules[10].actions))
    BY <2>1, OfItsOwn, Zenon
  <2> QED BY <2>1, <2>2 DEF Fits, SetsNothing, AddRisk, ManualReview, Queue, RejectLabel, Do, With,
            Scopes
<1> QED BY <1>1, <1>2, <1>3, <1>4, <1>5, <1>6, <1>7, <1>8, <1>9, <1>10

\* The rules about what becomes of the review.
LEMMA WorkflowRulesFit ==
  \A i \in 1..4 : Fits(WorkflowRules[i], PlacesWorkflowRules[i])
<1> USE DEF PlacesWorkflowRules
<1>1. Fits(WorkflowRules[1], 300)
  <2>1. /\ WorkflowRules[1].priority = 300 /\ WorkflowRules[1].isActive = TRUE
        /\ WorkflowRules[1].scope = "APPLICANT_RISK"
        /\ WorkflowRules[1].actions =
             <<Do("AUTO_APPROVE")>>
    BY DEF WorkflowRules, Rule
  <2>2. WorkflowRules[1].actions \in Seq(Range(WorkflowRules[1].actions))
    BY <2>1, OfItsOwn, Zenon
  <2> QED BY <2>1, <2>2 DEF Fits, SetsNothing, Do, Scopes
<1>2. Fits(WorkflowRules[2], 301)
  <2>1. /\ WorkflowRules[2].priority = 301 /\ WorkflowRules[2].isActive = TRUE
        /\ WorkflowRules[2].scope = "APPLICANT_RISK"
        /\ WorkflowRules[2].actions =
             <<ManualReview, Queue("edd-review")>>
    BY DEF WorkflowRules, Rule
  <2>2. WorkflowRules[2].actions \in Seq(Range(WorkflowRules[2].actions))
    BY <2>1, OfItsOwn, Zenon
  <2> QED BY <2>1, <2>2 DEF Fits, SetsNothing, ManualReview, Queue, Do, With, Scopes
<1>3. Fits(WorkflowRules[3], 310)
  <2>1. /\ WorkflowRules[3].priority = 310 /\ WorkflowRules[3].isActive = TRUE
        /\ WorkflowRules[3].scope = "ONGOING_MONITORING"
        /\ WorkflowRules[3].actions =
             <<Monitor>>
    BY DEF WorkflowRules, Rule
  <2>2. WorkflowRules[3].actions \in Seq(Range(WorkflowRules[3].actions))
    BY <2>1, OfItsOwn, Zenon
  <2> QED BY <2>1, <2>2 DEF Fits, SetsNothing, Monitor, Do, Scopes
<1>4. Fits(WorkflowRules[4], 311)
  <2>1. /\ WorkflowRules[4].priority = 311 /\ WorkflowRules[4].isActive = TRUE
        /\ WorkflowRules[4].scope = "ONGOING_MONITORING"
        /\ WorkflowRules[4].actions =
             <<OpenCase("AML_HIT_REVIEW"), Notify("COMPLIANCE_OFFICER"),
               RaiseAlert("CRITICAL")>>
    BY DEF WorkflowRules, Rule
  <2>2. WorkflowRules[4].actions \in Seq(Range(WorkflowRules[4].actions))
    BY <2>1, OfItsOwn, Zenon
  <2> QED BY <2>1, <2>2 DEF Fits, SetsNothing, Notify, OpenCase, RaiseAlert, With, Scopes
<1> QED BY <1>1, <1>2, <1>3, <1>4

----------------------------------------------------------------------------
\* What a concatenation is.
LEMMA Concat ==
  ASSUME NEW A, NEW s \in Seq(A), NEW u \in Seq(A)
  PROVE  /\ s \o u \in Seq(A) /\ Len(s \o u) = Len(s) + Len(u)
         /\ DOMAIN (s \o u) = 1 .. (Len(s) + Len(u))
         /\ \A i \in 1..Len(s) : (s \o u)[i] = s[i]
         /\ \A i \in (Len(s) + 1) .. (Len(s) + Len(u)) : (s \o u)[i] = u[i - Len(s)]
OBVIOUS

\* All the rules about applicants.
Listed == {ScreeningRules[i] : i \in 1..6} \cup {DocumentRules[i] : i \in 1..8}
            \cup {RiskRules[i] : i \in 1..10} \cup {WorkflowRules[i] : i \in 1..4}

\* Each part lists some of them.
LEMMA Parts ==
  /\ ScreeningRules \in Seq(Listed) /\ Len(ScreeningRules) = 6
  /\ DocumentRules \in Seq(Listed) /\ Len(DocumentRules) = 8
  /\ RiskRules \in Seq(Listed) /\ Len(RiskRules) = 10
  /\ WorkflowRules \in Seq(Listed) /\ Len(WorkflowRules) = 4
<1>1. ScreeningRules \in Seq({ScreeningRules[i] : i \in 1..6}) /\ Len(ScreeningRules) = 6
  BY DEF ScreeningRules
<1>2. DocumentRules \in Seq({DocumentRules[i] : i \in 1..8}) /\ Len(DocumentRules) = 8
  BY DEF DocumentRules
<1>3. RiskRules \in Seq({RiskRules[i] : i \in 1..10}) /\ Len(RiskRules) = 10
  BY DEF RiskRules
<1>4. WorkflowRules \in Seq({WorkflowRules[i] : i \in 1..4}) /\ Len(WorkflowRules) = 4
  BY DEF WorkflowRules
<1>5. /\ {ScreeningRules[i] : i \in 1..6} \subseteq Listed
      /\ {DocumentRules[i] : i \in 1..8} \subseteq Listed
      /\ {RiskRules[i] : i \in 1..10} \subseteq Listed
      /\ {WorkflowRules[i] : i \in 1..4} \subseteq Listed
  BY DEF Listed
<1> QED BY <1>1, <1>2, <1>3, <1>4, <1>5

\* The library is the four parts, one after the other.
LEMMA LibraryShape ==
  /\ APPLICANT_RULES \in Seq(Listed) /\ Len(APPLICANT_RULES) = 28
  /\ \A i \in 1..6   : APPLICANT_RULES[i] = ScreeningRules[i]
  /\ \A i \in 7..14  : APPLICANT_RULES[i] = DocumentRules[i - 6]
  /\ \A i \in 15..24 : APPLICANT_RULES[i] = RiskRules[i - 14]
  /\ \A i \in 25..28 : APPLICANT_RULES[i] = WorkflowRules[i - 24]
<1> DEFINE two == ScreeningRules \o DocumentRules
           three == two \o RiskRules
           four == three \o WorkflowRules
<1>1. /\ two \in Seq(Listed) /\ Len(two) = Len(ScreeningRules) + Len(DocumentRules)
      /\ \A i \in 1..Len(ScreeningRules) : two[i] = ScreeningRules[i]
      /\ \A i \in (Len(ScreeningRules) + 1)..(Len(ScreeningRules) + Len(DocumentRules)) :
           two[i] = DocumentRules[i - Len(ScreeningRules)]
  BY Parts, Concat, Zenon
<1>2. /\ two \in Seq(Listed) /\ Len(two) = 14
      /\ \A i \in 1..6  : two[i] = ScreeningRules[i]
      /\ \A i \in 7..14 : two[i] = DocumentRules[i - 6]
  <2> HIDE DEF two
  <2> QED BY <1>1, Parts
<1> HIDE DEF two
<1>3. /\ three \in Seq(Listed) /\ Len(three) = Len(two) + Len(RiskRules)
      /\ \A i \in 1..Len(two) : three[i] = two[i]
      /\ \A i \in (Len(two) + 1)..(Len(two) + Len(RiskRules)) :
           three[i] = RiskRules[i - Len(two)]
  <2>1. two \in Seq(Listed) /\ RiskRules \in Seq(Listed)
    BY <1>2, Parts
  <2> QED BY <2>1, Concat, Zenon
<1>4. /\ three \in Seq(Listed) /\ Len(three) = 24
      /\ \A i \in 1..14  : three[i] = two[i]
      /\ \A i \in 15..24 : three[i] = RiskRules[i - 14]
  <2> HIDE DEF three
  <2> QED BY <1>2, <1>3, Parts
<1> HIDE DEF three
<1>5. /\ four \in Seq(Listed) /\ Len(four) = Len(three) + Len(WorkflowRules)
      /\ \A i \in 1..Len(three) : four[i] = three[i]
      /\ \A i \in (Len(three) + 1)..(Len(three) + Len(WorkflowRules)) :
           four[i] = WorkflowRules[i - Len(three)]
  <2>1. three \in Seq(Listed) /\ WorkflowRules \in Seq(Listed)
    BY <1>4, Parts
  <2> QED BY <2>1, Concat, Zenon
<1>6. /\ four \in Seq(Listed) /\ Len(four) = 28
      /\ \A i \in 1..24  : four[i] = three[i]
      /\ \A i \in 25..28 : four[i] = WorkflowRules[i - 24]
  <2> HIDE DEF four
  <2> QED BY <1>4, <1>5, Parts
<1>7. APPLICANT_RULES = four
  BY Zenon DEF APPLICANT_RULES, four, three, two
<1> HIDE DEF four
<1>8. ASSUME NEW i \in 1..6 PROVE four[i] = ScreeningRules[i]
  <2>1. i \in 1..14 /\ i \in 1..24
    OBVIOUS
  <2> QED BY <1>2, <1>4, <1>6, <2>1, Zenon
<1>9. ASSUME NEW i \in 7..14 PROVE four[i] = DocumentRules[i - 6]
  <2>1. i \in 1..14 /\ i \in 1..24
    OBVIOUS
  <2> QED BY <1>2, <1>4, <1>6, <2>1, Zenon
<1>10. ASSUME NEW i \in 15..24 PROVE four[i] = RiskRules[i - 14]
  <2>1. i \in 1..24
    OBVIOUS
  <2> QED BY <1>4, <1>6, <2>1, Zenon
<1> QED BY <1>6, <1>7, <1>8, <1>9, <1>10, Zenon

\* The places of all of them.
PlaceOf == [i \in 1..28 |->
              IF i <= 6 THEN PlacesScreeningRules[i]
              ELSE IF i <= 14 THEN PlacesDocumentRules[i - 6]
              ELSE IF i <= 24 THEN PlacesRiskRules[i - 14]
              ELSE PlacesWorkflowRules[i - 24]]

\* Each rule fits its place.
LEMMA AllFit == \A i \in 1..28 : Fits(APPLICANT_RULES[i], PlaceOf[i])
<1> SUFFICES ASSUME NEW i \in 1..28 PROVE Fits(APPLICANT_RULES[i], PlaceOf[i])
  OBVIOUS
<1>1. CASE i \in 1..6
  <2>1. APPLICANT_RULES[i] = ScreeningRules[i]
    BY <1>1, LibraryShape, Zenon
  <2>2. PlaceOf[i] = PlacesScreeningRules[i]
    BY <1>1 DEF PlaceOf
  <2>3. i \in 1..6
    BY <1>1
  <2> QED BY <2>1, <2>2, <2>3, ScreeningRulesFit
<1>2. CASE i \in 7..14
  <2>1. APPLICANT_RULES[i] = DocumentRules[i - 6]
    BY <1>2, LibraryShape, Zenon
  <2>2. PlaceOf[i] = PlacesDocumentRules[i - 6]
    BY <1>2 DEF PlaceOf
  <2>3. i - 6 \in 1..8
    BY <1>2
  <2> QED BY <2>1, <2>2, <2>3, DocumentRulesFit
<1>3. CASE i \in 15..24
  <2>1. APPLICANT_RULES[i] = RiskRules[i - 14]
    BY <1>3, LibraryShape, Zenon
  <2>2. PlaceOf[i] = PlacesRiskRules[i - 14]
    BY <1>3 DEF PlaceOf
  <2>3. i - 14 \in 1..10
    BY <1>3
  <2> QED BY <2>1, <2>2, <2>3, RiskRulesFit
<1>4. CASE i \in 25..28
  <2>1. APPLICANT_RULES[i] = WorkflowRules[i - 24]
    BY <1>4, LibraryShape, Zenon
  <2>2. PlaceOf[i] = PlacesWorkflowRules[i - 24]
    BY <1>4 DEF PlaceOf
  <2>3. i - 24 \in 1..4
    BY <1>4
  <2> QED BY <2>1, <2>2, <2>3, WorkflowRulesFit
<1> QED BY <1>1, <1>2, <1>3, <1>4

\* So each precedes those after it, and no other.
LEMMA Ascending ==
  ASSUME NEW i \in 1..28, NEW j \in 1..28, i < j
  PROVE  PlaceOf[i] < PlaceOf[j]
<1>1. /\ \A k \in 1..6   : PlaceOf[k] = PlacesScreeningRules[k]
      /\ \A k \in 7..14  : PlaceOf[k] = PlacesDocumentRules[k - 6]
      /\ \A k \in 15..24 : PlaceOf[k] = PlacesRiskRules[k - 14]
      /\ \A k \in 25..28 : PlaceOf[k] = PlacesWorkflowRules[k - 24]
  BY DEF PlaceOf
<1>2. \A k \in 1..6 : PlacesScreeningRules[k] \in 1..30
  BY DEF PlacesScreeningRules
<1>3. \A k \in 1..8 : PlacesDocumentRules[k] \in 100..121
  BY DEF PlacesDocumentRules
<1>4. \A k \in 1..10 : PlacesRiskRules[k] \in 200..222
  BY DEF PlacesRiskRules
<1>5. \A k \in 1..4 : PlacesWorkflowRules[k] \in 300..311
  BY DEF PlacesWorkflowRules
<1>6. \A k \in 1..6 : \A l \in 1..6 : k < l => PlacesScreeningRules[k] < PlacesScreeningRules[l]
  BY DEF PlacesScreeningRules
<1>7. \A k \in 1..8 : \A l \in 1..8 : k < l => PlacesDocumentRules[k] < PlacesDocumentRules[l]
  BY DEF PlacesDocumentRules
<1>8. \A k \in 1..10 : \A l \in 1..10 : k < l => PlacesRiskRules[k] < PlacesRiskRules[l]
  BY DEF PlacesRiskRules
<1>9. \A k \in 1..4 : \A l \in 1..4 : k < l => PlacesWorkflowRules[k] < PlacesWorkflowRules[l]
  BY DEF PlacesWorkflowRules
<1>10. ASSUME NEW k \in 1..28
       PROVE  \/ k \in 1..6 /\ PlaceOf[k] \in 1..30
              \/ k \in 7..14 /\ PlaceOf[k] \in 100..121
              \/ k \in 15..24 /\ PlaceOf[k] \in 200..222
              \/ k \in 25..28 /\ PlaceOf[k] \in 300..311
  <2>1. CASE k \in 1..6
    BY <1>1, <1>2, <2>1
  <2>2. CASE k \in 7..14
    <3>1. k - 6 \in 1..8
      BY <2>2
    <3> QED BY <1>1, <1>3, <2>2, <3>1
  <2>3. CASE k \in 15..24
    <3>1. k - 14 \in 1..10
      BY <2>3
    <3> QED BY <1>1, <1>4, <2>3, <3>1
  <2>4. CASE k \in 25..28
    <3>1. k - 24 \in 1..4
      BY <2>4
    <3> QED BY <1>1, <1>5, <2>4, <3>1
  <2> QED BY <2>1, <2>2, <2>3, <2>4
<1>11. CASE i \in 1..6 /\ j \in 1..6
  BY <1>1, <1>6, <1>11
<1>12. CASE i \in 7..14 /\ j \in 7..14
  <2>1. i - 6 \in 1..8 /\ j - 6 \in 1..8 /\ i - 6 < j - 6
    BY <1>12
  <2> QED BY <1>1, <1>7, <1>12, <2>1
<1>13. CASE i \in 15..24 /\ j \in 15..24
  <2>1. i - 14 \in 1..10 /\ j - 14 \in 1..10 /\ i - 14 < j - 14
    BY <1>13
  <2> QED BY <1>1, <1>8, <1>13, <2>1
<1>14. CASE i \in 25..28 /\ j \in 25..28
  <2>1. i - 24 \in 1..4 /\ j - 24 \in 1..4 /\ i - 24 < j - 24
    BY <1>14
  <2> QED BY <1>1, <1>9, <1>14, <2>1
<1> HIDE DEF PlaceOf
<1> QED BY <1>10, <1>11, <1>12, <1>13, <1>14

\* A run goes by the rules in the order the library lists them.
LEMMA ListedInOrder == RunRules = APPLICANT_RULES
<1> DEFINE rules == APPLICANT_RULES
           eligible  ==
             {i \in DOMAIN rules : rules[i].isActive /\ rules[i].scope \in
                {"APPLICANT_RISK", "DOCUMENT", "SCREENING", "ONGOING_MONITORING"}}
           Before(i) == {j \in eligible \ {i} :
                           \/ Precedes(rules[j], rules[i])
                           \/ j < i /\ ~Precedes(rules[i], rules[j])}
           Place(k)  == CHOOSE i \in eligible : Cardinality(Before(i)) = k - 1
           placed    == [k \in 1..Cardinality(eligible) |-> rules[Place(k)]]
<1>1. RunRules = placed
  BY Zenon DEF RunRules, Ordered
<1>2. DOMAIN rules = 1..28 /\ rules \in Seq(Listed) /\ Len(rules) = 28
  BY LibraryShape
<1>3. eligible = 1..28
  <2>1. \A i \in 1..28 : rules[i].isActive = TRUE /\ rules[i].scope \in Scopes
    BY AllFit DEF Fits
  <2> HIDE DEF rules
  <2> QED BY <1>2, <2>1 DEF Scopes
<1> HIDE DEF eligible
<1>4. ASSUME NEW i \in 1..28 PROVE Cardinality(Before(i)) = i - 1
  <2>1. ASSUME NEW j \in 1..28, j # i
        PROVE  /\ Precedes(rules[j], rules[i]) <=> j < i
               /\ Precedes(rules[i], rules[j]) <=> i < j
    <3>1. rules[i].priority = PlaceOf[i] /\ rules[j].priority = PlaceOf[j]
      BY AllFit DEF Fits
    <3>2. /\ i < j => PlaceOf[i] < PlaceOf[j]
          /\ j < i => PlaceOf[j] < PlaceOf[i]
      BY Ascending
    <3>3. PlaceOf[i] \in Int /\ PlaceOf[j] \in Int
      BY DEF PlaceOf, PlacesScreeningRules, PlacesDocumentRules, PlacesRiskRules,
             PlacesWorkflowRules
    <3>4. i < j \/ j < i
      BY <2>1
    <3> HIDE DEF rules
    <3> QED BY <3>1, <3>2, <3>3, <3>4 DEF Precedes
  <2> HIDE DEF rules
  <2>2. \A j : j \in Before(i) <=> j \in 1..28 /\ j < i
    <3> SUFFICES ASSUME NEW j PROVE j \in Before(i) <=> j \in 1..28 /\ j < i
      OBVIOUS
    <3>1. j \in Before(i) <=> /\ j \in 1..28 /\ j # i
                              /\ \/ Precedes(rules[j], rules[i])
                                 \/ j < i /\ ~Precedes(rules[i], rules[j])
      BY <1>3
    <3> QED BY <2>1, <3>1
  <2> HIDE DEF Before
  <2>3. Before(i) = 1..(i - 1)
    <3>1. \A j : j \in 1..(i - 1) <=> j \in 1..28 /\ j < i
      OBVIOUS
    <3> QED BY <2>2, <3>1, Zenon
  <2>4. Cardinality(1..(i - 1)) = i - 1
    BY FS_Interval
  <2> QED BY <2>3, <2>4
<1>5. Cardinality(eligible) = 28
  <2>1. \A n \in Nat : Cardinality(1..n) = n
    BY FS_Interval
  <2> QED BY <1>3, <2>1
<1> HIDE DEF Before, rules
<1>6. ASSUME NEW k \in 1..28 PROVE Place(k) = k
  <2>1. Cardinality(Before(k)) = k - 1
    BY <1>4
  <2>2. \A i \in 1..28 : Cardinality(Before(i)) = k - 1 => i = k
    BY <1>4
  <2> QED BY <1>3, <2>1, <2>2
<1> HIDE DEF Place
<1>7. placed = [k \in 1..28 |-> rules[k]]
  BY <1>5, <1>6
<1>8. rules = [k \in 1..28 |-> rules[k]]
  BY <1>2
<1> HIDE DEF placed
<1>9. RunRules = rules
  BY <1>1, <1>7, <1>8
<1> QED BY <1>9 DEF rules

\* What fires are rules whose conditions hold of the facts, when no rule sets one.
LEMMA OnlyHeldFire ==
  ASSUME NEW S, NEW ordered \in Seq(S), NEW facts,
         facts = [n \in DOMAIN facts |-> facts[n]],
         \A r \in S : SetsNothing(r)
  PROVE  evaluateRules(ordered, facts).fired
           \in Seq({r \in S : evaluateCondition(r.conditions, facts)})
<1> DEFINE H == {r \in S : evaluateCondition(r.conditions, facts)}
<1>1. PICK after : /\ Runs(after, ordered, facts)
                   /\ evaluateRules(ordered, facts) = after[Len(ordered)]
  BY EngineRuns
<1> DEFINE Good(i) == /\ DOMAIN after[i] = {"fired", "facts"}
                      /\ after[i].fired \in Seq(H) /\ after[i].facts = facts
           T == {i \in Nat : i <= Len(ordered) => Good(i)}
<1>2. 0 \in T
  <2>1. /\ after[0].fired = <<>> /\ after[0].facts = facts
        /\ DOMAIN after[0] = {"fired", "facts"}
    BY <1>1 DEF Runs
  <2>2. <<>> \in Seq(H)
    OBVIOUS
  <2>3. Good(0)
    BY <2>1, <2>2
  <2> QED BY <2>3
<1>3. ASSUME NEW i \in Nat, i \in T PROVE i + 1 \in T
  <2> SUFFICES ASSUME i + 1 <= Len(ordered) PROVE Good(i + 1)
    OBVIOUS
  <2> DEFINE before == after[i]
             rule   == ordered[i + 1]
             fires  == rule.wellFormed /\ evaluateCondition(rule.conditions, before.facts)
  <2>1. Good(i) /\ rule \in S
    BY <1>3
  <2>2. after[i + 1] = Applied(before, rule)
    <3>1. i + 1 \in 1..Len(ordered) /\ (i + 1) - 1 = i
      OBVIOUS
    <3>2. after[i + 1] = Applied(after[(i + 1) - 1], rule)
      BY <1>1, <3>1 DEF Runs
    <3> QED BY <3>1, <3>2
  <2>3. /\ DOMAIN after[i + 1] = {"fired", "facts"}
        /\ after[i + 1].fired = IF fires THEN Append(before.fired, rule) ELSE before.fired
        /\ after[i + 1].facts = IF ~fires \/ rule.isShadow THEN before.facts
                                ELSE Derived(before.facts, rule.actions)
    BY <2>1, <2>2 DEF Applied
  <2>4. before.facts = facts /\ before.fired \in Seq(H)
    BY <2>1
  <2> HIDE DEF before, rule
  <2>5. fires => rule \in H
    BY <2>1, <2>4
  <2>6. Derived(before.facts, rule.actions) = facts
    BY <2>1, <2>4, NothingDerived
  <2> HIDE DEF H, fires
  <2>7. after[i + 1].fired \in Seq(H)
    <3>1. CASE fires
      <4>1. Append(before.fired, rule) \in Seq(H)
        BY <2>4, <2>5, <3>1
      <4> QED BY <2>3, <3>1, <4>1
    <3>2. CASE ~fires
      BY <2>3, <2>4, <3>2
    <3> QED BY <3>1, <3>2
  <2> QED BY <2>3, <2>4, <2>6, <2>7
<1>4. Len(ordered) \in T
  <2> HIDE DEF T
  <2> QED BY <1>2, <1>3, SetInduction
<1> QED BY <1>1, <1>4

\* What is asked for is what the rules that fired ask for.
LEMMA OnlyAsked ==
  ASSUME NEW A, NEW S, \A r \in S : r.actions \in Seq(A), NEW fired \in Seq(S)
  PROVE  ActionsOf(fired) \in Seq(A)
<1>1. PICK asked : Collects(asked, fired) /\ ActionsOf(fired) = asked[Len(fired)]
  BY ActionsCollected
<1> DEFINE T == {i \in Nat : i <= Len(fired) => asked[i] \in Seq(A)}
<1>3. 0 \in T
  <2>1. asked[0] = <<>> /\ <<>> \in Seq(A)
    BY <1>1 DEF Collects
  <2> QED BY <2>1, Zenon
<1>4. ASSUME NEW i \in Nat, i \in T PROVE i + 1 \in T
  <2> SUFFICES ASSUME i + 1 <= Len(fired) PROVE asked[i + 1] \in Seq(A)
    OBVIOUS
  <2> DEFINE part == IF fired[i + 1].isShadow THEN <<>> ELSE fired[i + 1].actions
  <2>1. asked[i] \in Seq(A) /\ fired[i + 1] \in S
    BY <1>4
  <2>2. asked[i + 1] = asked[i] \o part
    <3>1. i + 1 \in 1..Len(fired) /\ (i + 1) - 1 = i
      OBVIOUS
    <3>2. asked[i + 1] = asked[(i + 1) - 1] \o part
      BY <1>1, <3>1 DEF Collects
    <3> QED BY <3>1, <3>2
  <2>3. part \in Seq(A)
    BY <2>1
  <2> HIDE DEF part
  <2> QED BY <2>1, <2>2, <2>3
<1>5. Len(fired) \in T
  <2> HIDE DEF T
  <2> QED BY <1>3, <1>4, SetInduction
<1> QED BY <1>1, <1>5

\* What a run's rules ask for: a list, and each item of it is an action of a rule of
\* the library whose condition holds of the facts.
LEMMA Requested ==
  ASSUME NEW facts, facts = [n \in DOMAIN facts |-> facts[n]]
  PROVE  LET actions == ActionsOf(evaluateRules(RunRules, facts).fired)
         IN /\ actions \in Seq(UNION {Range(r.actions) : r \in Listed})
            /\ \A i \in DOMAIN actions : \E j \in 1..28 :
                 /\ evaluateCondition(APPLICANT_RULES[j].conditions, facts)
                 /\ actions[i] \in Range(APPLICANT_RULES[j].actions)
<1> DEFINE fired   == evaluateRules(RunRules, facts).fired
           H       == {r \in Listed : evaluateCondition(r.conditions, facts)}
           A       == UNION {Range(r.actions) : r \in H}
           actions == ActionsOf(fired)
<1>1. \A r \in Listed : \E j \in 1..28 : r = APPLICANT_RULES[j]
  <2> SUFFICES ASSUME NEW r \in Listed PROVE \E j \in 1..28 : r = APPLICANT_RULES[j]
    OBVIOUS
  <2>1. ASSUME NEW i \in 1..6, r = ScreeningRules[i] PROVE r = APPLICANT_RULES[i]
    BY <2>1, LibraryShape, Zenon
  <2>2. ASSUME NEW i \in 1..8, r = DocumentRules[i] PROVE r = APPLICANT_RULES[i + 6]
    <3>1. i + 6 \in 7..14 /\ (i + 6) - 6 = i
      OBVIOUS
    <3>2. APPLICANT_RULES[i + 6] = DocumentRules[(i + 6) - 6]
      BY <3>1, LibraryShape, Zenon
    <3> QED BY <2>2, <3>1, <3>2
  <2>3. ASSUME NEW i \in 1..10, r = RiskRules[i] PROVE r = APPLICANT_RULES[i + 14]
    <3>1. i + 14 \in 15..24 /\ (i + 14) - 14 = i
      OBVIOUS
    <3>2. APPLICANT_RULES[i + 14] = RiskRules[(i + 14) - 14]
      BY <3>1, LibraryShape, Zenon
    <3> QED BY <2>3, <3>1, <3>2
  <2>4. ASSUME NEW i \in 1..4, r = WorkflowRules[i] PROVE r = APPLICANT_RULES[i + 24]
    <3>1. i + 24 \in 25..28 /\ (i + 24) - 24 = i
      OBVIOUS
    <3>2. APPLICANT_RULES[i + 24] = WorkflowRules[(i + 24) - 24]
      BY <3>1, LibraryShape, Zenon
    <3> QED BY <2>4, <3>1, <3>2
  <2>5. CASE \E i \in 1..6 : r = ScreeningRules[i]
    BY <2>1, <2>5
  <2>6. CASE \E i \in 1..8 : r = DocumentRules[i]
    <3>1. PICK i \in 1..8 : r = DocumentRules[i]
      BY <2>6
    <3>2. i + 6 \in 1..28
      OBVIOUS
    <3> QED BY <2>2, <3>1, <3>2
  <2>7. CASE \E i \in 1..10 : r = RiskRules[i]
    <3>1. PICK i \in 1..10 : r = RiskRules[i]
      BY <2>7
    <3>2. i + 14 \in 1..28
      OBVIOUS
    <3> QED BY <2>3, <3>1, <3>2
  <2>8. CASE \E i \in 1..4 : r = WorkflowRules[i]
    <3>1. PICK i \in 1..4 : r = WorkflowRules[i]
      BY <2>8
    <3>2. i + 24 \in 1..28
      OBVIOUS
    <3> QED BY <2>4, <3>1, <3>2
  <2> QED BY <2>5, <2>6, <2>7, <2>8, Zenon DEF Listed
<1>2. \A r \in Listed : SetsNothing(r) /\ r.actions \in Seq(Range(r.actions))
  <2>1. ASSUME NEW r \in Listed
        PROVE  SetsNothing(r) /\ r.actions \in Seq(Range(r.actions))
    <3>1. PICK j \in 1..28 : r = APPLICANT_RULES[j]
      BY <1>1, <2>1
    <3>2. Fits(r, PlaceOf[j])
      BY <3>1, AllFit
    <3> QED BY <3>2, Zenon DEF Fits
  <2> QED BY <2>1
<1>3. fired \in Seq(H)
  <2>1. RunRules \in Seq(Listed)
    BY ListedInOrder, LibraryShape
  <2> QED BY <1>2, <2>1, OnlyHeldFire, Zenon
<1>4. \A r \in H : r.actions \in Seq(A)
  <2> SUFFICES ASSUME NEW r \in H PROVE r.actions \in Seq(A)
    OBVIOUS
  <2>1. Range(r.actions) \subseteq A
    OBVIOUS
  <2>2. r.actions \in Seq(Range(r.actions))
    BY <1>2
  <2> HIDE DEF A
  <2> QED BY <2>1, <2>2
<1>5. actions \in Seq(A)
  <2> HIDE DEF fired, A, H
  <2> QED BY <1>3, <1>4, OnlyAsked
<1> HIDE DEF actions
<1>6. ASSUME NEW i \in DOMAIN actions
      PROVE  \E j \in 1..28 : /\ evaluateCondition(APPLICANT_RULES[j].conditions, facts)
                              /\ actions[i] \in Range(APPLICANT_RULES[j].actions)
  <2>1. actions[i] \in A
    <3> HIDE DEF A
    <3> QED BY <1>5
  <2>2. PICK r \in H : actions[i] \in Range(r.actions)
    BY <2>1
  <2>3. PICK j \in 1..28 : r = APPLICANT_RULES[j]
    BY <1>1
  <2> QED BY <2>2, <2>3
<1>7. actions \in Seq(UNION {Range(r.actions) : r \in Listed})
  <2>1. A \subseteq UNION {Range(r.actions) : r \in Listed}
    OBVIOUS
  <2> HIDE DEF A
  <2> QED BY <1>5, <2>1
<1> QED BY <1>6, <1>7 DEF actions

----------------------------------------------------------------------------
(* What a rejection by a rule rests on.                                    *)

\* A condition that is one fact holds when the comparison does.
LEMMA FactHeld ==
  ASSUME NEW fact, NEW op, NEW value, NEW facts,
         evaluateCondition(If(fact, op, value), facts)
  PROVE  evaluatePredicate(If(fact, op, value), facts)
<1>1. If(fact, op, value).node = "fact"
  BY DEF If
<1> QED BY <1>1 DEF evaluateCondition, NodeHolds

\* Of an alternative of facts one holds,
LEMMA AnyHeld ==
  ASSUME NEW of, NEW facts, \A i \in DOMAIN of : of[i].node = "fact",
         evaluateCondition(AnyOf(of), facts)
  PROVE  \E i \in DOMAIN of : evaluatePredicate(of[i], facts)
<1>1. AnyOf(of).node = "any" /\ AnyOf(of).of = of
  BY DEF AnyOf
<1>2. {i \in DOMAIN of : InnerHolds(of[i], facts)} # {}
  BY <1>1 DEF evaluateCondition, NodeHolds
<1>3. PICK i \in DOMAIN of : InnerHolds(of[i], facts)
  BY <1>2
<1> QED BY <1>3 DEF InnerHolds, NodeHolds

\* of a conjunction each.
LEMMA AllHeld ==
  ASSUME NEW of, NEW facts, \A i \in DOMAIN of : of[i].node = "fact",
         evaluateCondition(AllOf(of), facts)
  PROVE  \A i \in DOMAIN of : evaluatePredicate(of[i], facts)
<1>1. AllOf(of).node = "all" /\ AllOf(of).of = of
  BY DEF AllOf
<1>2. {i \in DOMAIN of : InnerHolds(of[i], facts)} = DOMAIN of
  BY <1>1 DEF evaluateCondition, NodeHolds
<1>3. \A i \in DOMAIN of : InnerHolds(of[i], facts)
  BY <1>2
<1> QED BY <1>3 DEF InnerHolds, NodeHolds

\* What a comparison that holds says of the fact.
LEMMA Compared ==
  ASSUME NEW fact, NEW value, NEW facts
  PROVE  LET says(op) == evaluatePredicate(If(fact, op, value), facts)
             known    == fact \in DOMAIN facts
         IN /\ says("in") => known /\ facts[fact] \in value
            /\ says("eq") => known /\ facts[fact] = value
            /\ says("gte") => known /\ facts[fact] >= value
            /\ says("lt") => known /\ facts[fact] < value
            /\ says("olderThan") => known /\ facts[fact] > value
            /\ says("containsAny") => known /\ facts[fact] \cap value # {}
BY DEF evaluatePredicate, If

CountryFacts == {"applicant.country", "applicant.nationality", "document.issuingCountry"}

\* A fact is given, and is of these values.
Among(facts, fact, values) == fact \in DOMAIN facts /\ facts[fact] \in values

\* The facts say what the label is for.
Shown(l, facts) ==
  \/ /\ l = "PROHIBITED_COUNTRY"
     /\ \E f \in CountryFacts : Among(facts, f, EMBARGOED_COUNTRIES)
  \/ /\ l = "SANCTIONS_MATCH"
     /\ "screening.confirmedSanctionsHits" \in DOMAIN facts
     /\ facts["screening.confirmedSanctionsHits"] >= 1
  \/ /\ l = "FORGED_DOCUMENT"
     /\ \/ /\ "document.authenticityScore" \in DOMAIN facts
           /\ facts["document.authenticityScore"] < 30
        \/ /\ "document.tamperFlags" \in DOMAIN facts
           /\ facts["document.tamperFlags"] # {}
  \/ /\ l = "SPOOF_ATTEMPT"
     /\ \/ Among(facts, "liveness.spoofDetected", {TRUE})
        \/ "liveness.attackType" \in DOMAIN facts
  \/ /\ l = "DUPLICATE_FACE"
     /\ Among(facts, "duplicate.sameIdentity", {FALSE})
  \/ /\ l = "DOCUMENT_EXPIRED"
     /\ "document.expiryDate" \in DOMAIN facts /\ facts["document.expiryDate"] > 0
  \/ /\ l = "UNDERAGE"
     /\ "applicant.age" \in DOMAIN facts /\ facts["applicant.age"] < 18
  \/ /\ l = "DUPLICATE_ACCOUNT"
     /\ "duplicate.identityMatchCount" \in DOMAIN facts
     /\ facts["duplicate.identityMatchCount"] >= 1

\* Labels that leave the applicant a way back.
MayRetry == {"SELFIE_MISMATCH", "MRZ_CHECKSUM_FAILED", "DATA_MISMATCH"}

\* The facts show what the rule rejects for; a label it only adds they show, or it
\* leaves a way back.
Founded(rule, facts) ==
  \A k \in DOMAIN rule.actions :
    LET a == rule.actions[k]
    IN /\ a.type = "AUTO_REJECT" => \E l \in Labels : a.value = {l} /\ Shown(l, facts)
       /\ a.type = "ADD_REJECT_LABEL" =>
            \E l \in Labels : a.value = {l} /\ (l \in MayRetry \/ Shown(l, facts))

\* Labels of the taxonomy that rules and steps use.
LEMMA Taxonomy ==
  {"PROHIBITED_COUNTRY", "SANCTIONS_MATCH", "FORGED_DOCUMENT", "SPOOF_ATTEMPT",
   "DUPLICATE_FACE", "DOCUMENT_EXPIRED", "UNDERAGE", "DUPLICATE_ACCOUNT",
   "SELFIE_MISMATCH", "MRZ_CHECKSUM_FAILED", "DATA_MISMATCH"} \subseteq Labels
<1> DEFINE All == {<<"PROHIBITED_COUNTRY", FALSE, 100>>, <<"SANCTIONS_MATCH", FALSE, 100>>,
                   <<"FORGED_DOCUMENT", FALSE, 100>>, <<"SPOOF_ATTEMPT", FALSE, 90>>,
                   <<"DUPLICATE_FACE", FALSE, 85>>, <<"DOCUMENT_EXPIRED", TRUE, 0>>,
                   <<"UNDERAGE", FALSE, 0>>, <<"DUPLICATE_ACCOUNT", FALSE, 70>>,
                   <<"SELFIE_MISMATCH", TRUE, 45>>, <<"MRZ_CHECKSUM_FAILED", TRUE, 40>>,
                   <<"DATA_MISMATCH", TRUE, 25>>}
<1>1. All \subseteq REJECT_LABELS
  BY DEF REJECT_LABELS, ValidityLabels, BiometricLabels, MismatchLabels, FraudLabels,
         ComplianceLabels
<1>2. \A l \in All : l[1] \in Labels
  BY <1>1 DEF Labels
<1> QED BY <1>2

\* So is what these rules reject for.
LEMMA ScreeningRulesFounded ==
  ASSUME NEW facts, NEW i \in 1..6, evaluateCondition(ScreeningRules[i].conditions, facts)
  PROVE  Founded(ScreeningRules[i], facts)
<1>1. CASE i = 1
  <2>1. ScreeningRules[1].actions =
             <<AutoReject("PROHIBITED_COUNTRY"), AddRisk(100)>>
    BY DEF ScreeningRules, Rule
  <2>2. ScreeningRules[1].conditions =
             AnyOf(<<If("applicant.country", "in", EMBARGOED_COUNTRIES),
               If("applicant.nationality", "in", EMBARGOED_COUNTRIES),
               If("document.issuingCountry", "in", EMBARGOED_COUNTRIES)>>)
    BY DEF ScreeningRules, Rule
  <2> DEFINE of == <<If("applicant.country", "in", EMBARGOED_COUNTRIES),
                     If("applicant.nationality", "in", EMBARGOED_COUNTRIES),
                     If("document.issuingCountry", "in", EMBARGOED_COUNTRIES)>>
  <2>p. \A j \in DOMAIN of : of[j].node = "fact"
    BY DEF If, On, Off, Known
  <2>q. \E j \in DOMAIN of : evaluatePredicate(of[j], facts)
    <3> HIDE DEF of
    <3>1. evaluateCondition(AnyOf(of), facts)
      BY <1>1, <2>2 DEF of
    <3> QED BY <2>p, <3>1, AnyHeld
  <2>3. evaluatePredicate(of[1], facts) \/ evaluatePredicate(of[2], facts) \/ evaluatePredicate(of[3], facts)
    BY <2>q
  <2>4. Shown("PROHIBITED_COUNTRY", facts)
    BY <2>3, Compared DEF Shown, Among, On, Off, CountryFacts
  <2> HIDE DEF Shown
  <2> QED BY <1>1, <2>1, <2>4, Taxonomy DEF Founded, AddRisk, AutoReject, With
<1>2. CASE i = 2
  <2>1. ScreeningRules[2].actions =
             <<AutoReject("SANCTIONS_MATCH"), AddRisk(100),
               OpenCase("AML_HIT_REVIEW"), Notify("MLRO")>>
    BY DEF ScreeningRules, Rule
  <2>2. ScreeningRules[2].conditions =
             If("screening.confirmedSanctionsHits", "gte", 1)
    BY DEF ScreeningRules, Rule
  <2>3. evaluatePredicate(If("screening.confirmedSanctionsHits", "gte", 1), facts)
    BY <1>2, <2>2, FactHeld
  <2>4. Shown("SANCTIONS_MATCH", facts)
    BY <2>3, Compared DEF Shown, Among, On, Off
  <2> HIDE DEF Shown
  <2> QED BY <1>2, <2>1, <2>4, Taxonomy DEF Founded, AddRisk, AutoReject, Notify, OpenCase, With
<1>3. CASE i = 3
  <2>1. ScreeningRules[3].actions =
             <<ManualReview, Queue("aml-hits"), AddRisk(55),
               OpenCase("AML_HIT_REVIEW")>>
    BY DEF ScreeningRules, Rule
  <2> QED BY <1>3, <2>1 DEF Founded, AddRisk, ManualReview, OpenCase, Queue, Do, With
<1>4. CASE i = 4
  <2>1. ScreeningRules[4].actions =
             <<Do("REQUIRE_EDD"), AddRisk(45), Queue("edd-review"), Monitor>>
    BY DEF ScreeningRules, Rule
  <2> QED BY <1>4, <2>1 DEF Founded, AddRisk, Do, Monitor, Queue, With
<1>5. CASE i = 5
  <2>1. ScreeningRules[5].actions =
             <<AddRisk(18), Monitor>>
    BY DEF ScreeningRules, Rule
  <2> QED BY <1>5, <2>1 DEF Founded, AddRisk, Monitor, Do, With
<1>6. CASE i = 6
  <2>1. ScreeningRules[6].actions =
             <<ManualReview, AddRisk(35), Queue("aml-hits")>>
    BY DEF ScreeningRules, Rule
  <2> QED BY <1>6, <2>1 DEF Founded, AddRisk, ManualReview, Queue, Do, With
<1> QED BY <1>1, <1>2, <1>3, <1>4, <1>5, <1>6

\* So is what these rules reject for.
LEMMA DocumentRulesFounded ==
  ASSUME NEW facts, NEW i \in 1..8, evaluateCondition(DocumentRules[i].conditions, facts)
  PROVE  Founded(DocumentRules[i], facts)
<1>1. CASE i = 1
  <2>1. DocumentRules[1].actions =
             <<AutoReject("FORGED_DOCUMENT"), AddRisk(100),
               OpenCase("FRAUD_INVESTIGATION")>>
    BY DEF DocumentRules, Rule
  <2>2. DocumentRules[1].conditions =
             AnyOf(<<If("document.authenticityScore", "lt", 30),
               If("document.tamperFlags", "containsAny", {"DIGITAL_EDIT",
               "FONT_MISMATCH", "PHOTO_SUBSTITUTION", "TEMPLATE_MISMATCH"})>>)
    BY DEF DocumentRules, Rule
  <2> DEFINE of == <<If("document.authenticityScore", "lt", 30),
                     If("document.tamperFlags", "containsAny", {"DIGITAL_EDIT",
                     "FONT_MISMATCH", "PHOTO_SUBSTITUTION", "TEMPLATE_MISMATCH"})>>
  <2>p. \A j \in DOMAIN of : of[j].node = "fact"
    BY DEF If, On, Off, Known
  <2>q. \E j \in DOMAIN of : evaluatePredicate(of[j], facts)
    <3> HIDE DEF of
    <3>1. evaluateCondition(AnyOf(of), facts)
      BY <1>1, <2>2 DEF of
    <3> QED BY <2>p, <3>1, AnyHeld
  <2>3. evaluatePredicate(of[1], facts) \/ evaluatePredicate(of[2], facts)
    BY <2>q
  <2> DEFINE flags == {"DIGITAL_EDIT", "FONT_MISMATCH", "PHOTO_SUBSTITUTION",
                       "TEMPLATE_MISMATCH"}
  <2>f. evaluatePredicate(of[2], facts) =>
             /\ "document.tamperFlags" \in DOMAIN facts
             /\ facts["document.tamperFlags"] \cap flags # {}
    BY Compared, Zenon
  <2>g. evaluatePredicate(of[1], facts) =>
             /\ "document.authenticityScore" \in DOMAIN facts
             /\ facts["document.authenticityScore"] < 30
    BY Compared
  <2>4. Shown("FORGED_DOCUMENT", facts)
    <3> HIDE DEF of, flags
    <3>1. CASE evaluatePredicate(of[1], facts)
      BY <2>g, <3>1 DEF Shown
    <3>2. CASE evaluatePredicate(of[2], facts)
      <4>1. facts["document.tamperFlags"] # {}
        BY <2>f, <3>2
      <4> QED BY <2>f, <3>2, <4>1 DEF Shown
    <3> QED BY <2>3, <3>1, <3>2
  <2> HIDE DEF Shown
  <2> QED BY <1>1, <2>1, <2>4, Taxonomy DEF Founded, AddRisk, AutoReject, OpenCase, With
<1>2. CASE i = 2
  <2>1. DocumentRules[2].actions =
             <<AutoReject("SPOOF_ATTEMPT"), AddRisk(95),
               OpenCase("FRAUD_INVESTIGATION")>>
    BY DEF DocumentRules, Rule
  <2>2. DocumentRules[2].conditions =
             AnyOf(<<On("liveness.spoofDetected"), If("liveness.attackType", "in",
               {"MASK", "REPLAY", "DEEPFAKE", "PRINTED_PHOTO"})>>)
    BY DEF DocumentRules, Rule
  <2> DEFINE of == <<On("liveness.spoofDetected"), If("liveness.attackType", "in",
                     {"MASK", "REPLAY", "DEEPFAKE", "PRINTED_PHOTO"})>>
  <2>p. \A j \in DOMAIN of : of[j].node = "fact"
    BY DEF If, On, Off, Known
  <2>q. \E j \in DOMAIN of : evaluatePredicate(of[j], facts)
    <3> HIDE DEF of
    <3>1. evaluateCondition(AnyOf(of), facts)
      BY <1>2, <2>2 DEF of
    <3> QED BY <2>p, <3>1, AnyHeld
  <2>3. evaluatePredicate(of[1], facts) \/ evaluatePredicate(of[2], facts)
    BY <2>q
  <2>f. ASSUME evaluatePredicate(of[1], facts)
        PROVE  Among(facts, "liveness.spoofDetected", {TRUE})
    <3>1. evaluatePredicate(If("liveness.spoofDetected", "eq", TRUE), facts)
      BY <2>f DEF On
    <3>2. /\ "liveness.spoofDetected" \in DOMAIN facts
          /\ facts["liveness.spoofDetected"] = TRUE
      BY <3>1, Compared, Zenon
    <3> QED BY <3>2, Zenon DEF Among
  <2>g. ASSUME evaluatePredicate(of[2], facts)
        PROVE  "liveness.attackType" \in DOMAIN facts
    BY <2>g, Compared
  <2>4. Shown("SPOOF_ATTEMPT", facts)
    <3> HIDE DEF of
    <3> QED BY <2>3, <2>f, <2>g, Zenon DEF Shown
  <2> HIDE DEF Shown
  <2> QED BY <1>2, <2>1, <2>4, Taxonomy DEF Founded, AddRisk, AutoReject, OpenCase, With
<1>3. CASE i = 3
  <2>1. DocumentRules[3].actions =
             <<AutoReject("DUPLICATE_FACE"), AddRisk(85),
               OpenCase("DUPLICATE_ACCOUNT")>>
    BY DEF DocumentRules, Rule
  <2>2. DocumentRules[3].conditions =
             AllOf(<<If("duplicate.faceMatchCount", "gte", 1),
               Off("duplicate.sameIdentity")>>)
    BY DEF DocumentRules, Rule
  <2> DEFINE of == <<If("duplicate.faceMatchCount", "gte", 1),
                     Off("duplicate.sameIdentity")>>
  <2>p. \A j \in DOMAIN of : of[j].node = "fact"
    BY DEF If, On, Off, Known
  <2>q. \A j \in DOMAIN of : evaluatePredicate(of[j], facts)
    <3> HIDE DEF of
    <3>1. evaluateCondition(AllOf(of), facts)
      BY <1>3, <2>2 DEF of
    <3> QED BY <2>p, <3>1, AllHeld
  <2>3. evaluatePredicate(of[1], facts) /\ evaluatePredicate(of[2], facts)
    BY <2>q
  <2>f. /\ "duplicate.sameIdentity" \in DOMAIN facts
        /\ facts["duplicate.sameIdentity"] = FALSE
    <3>1. evaluatePredicate(If("duplicate.sameIdentity", "eq", FALSE), facts)
      BY <2>3 DEF Off
    <3> QED BY <3>1, Compared, Zenon
  <2>4. Shown("DUPLICATE_FACE", facts)
    BY <2>f, Zenon DEF Shown, Among
  <2> HIDE DEF Shown
  <2> QED BY <1>3, <2>1, <2>4, Taxonomy DEF Founded, AddRisk, AutoReject, OpenCase, With
<1>4. CASE i = 4
  <2>1. DocumentRules[4].actions =
             <<AutoReject("DOCUMENT_EXPIRED")>>
    BY DEF DocumentRules, Rule
  <2>2. DocumentRules[4].conditions =
             If("document.expiryDate", "olderThan", 0)
    BY DEF DocumentRules, Rule
  <2>3. evaluatePredicate(If("document.expiryDate", "olderThan", 0), facts)
    BY <1>4, <2>2, FactHeld
  <2>4. Shown("DOCUMENT_EXPIRED", facts)
    BY <2>3, Compared DEF Shown, Among, On, Off
  <2> HIDE DEF Shown
  <2> QED BY <1>4, <2>1, <2>4, Taxonomy DEF Founded, AutoReject, With
<1>5. CASE i = 5
  <2>1. DocumentRules[5].actions =
             <<RejectLabel("SELFIE_MISMATCH"), ManualReview, AddRisk(45)>>
    BY DEF DocumentRules, Rule
  <2> QED BY <1>5, <2>1, Taxonomy DEF Founded, AddRisk, ManualReview, RejectLabel, Do, With, MayRetry
<1>6. CASE i = 6
  <2>1. DocumentRules[6].actions =
             <<ManualReview, RejectLabel("MRZ_CHECKSUM_FAILED"), AddRisk(40)>>
    BY DEF DocumentRules, Rule
  <2> QED BY <1>6, <2>1, Taxonomy DEF Founded, AddRisk, ManualReview, RejectLabel, Do, With, MayRetry
<1>7. CASE i = 7
  <2>1. DocumentRules[7].actions =
             <<ManualReview, RejectLabel("DATA_MISMATCH"), AddRisk(25)>>
    BY DEF DocumentRules, Rule
  <2> QED BY <1>7, <2>1, Taxonomy DEF Founded, AddRisk, ManualReview, RejectLabel, Do, With, MayRetry
<1>8. CASE i = 8
  <2>1. DocumentRules[8].actions =
             <<AutoReject("UNDERAGE")>>
    BY DEF DocumentRules, Rule
  <2>2. DocumentRules[8].conditions =
             AllOf(<<Known("applicant.age"), If("applicant.age", "lt", 18)>>)
    BY DEF DocumentRules, Rule
  <2> DEFINE of == <<Known("applicant.age"), If("applicant.age", "lt", 18)>>
  <2>p. \A j \in DOMAIN of : of[j].node = "fact"
    BY DEF If, On, Off, Known
  <2>q. \A j \in DOMAIN of : evaluatePredicate(of[j], facts)
    <3> HIDE DEF of
    <3>1. evaluateCondition(AllOf(of), facts)
      BY <1>8, <2>2 DEF of
    <3> QED BY <2>p, <3>1, AllHeld
  <2>3. evaluatePredicate(of[1], facts) /\ evaluatePredicate(of[2], facts)
    BY <2>q
  <2>4. Shown("UNDERAGE", facts)
    BY <2>3, Compared DEF Shown, Among, On, Off
  <2> HIDE DEF Shown
  <2> QED BY <1>8, <2>1, <2>4, Taxonomy DEF Founded, AutoReject, With
<1> QED BY <1>1, <1>2, <1>3, <1>4, <1>5, <1>6, <1>7, <1>8

\* So is what these rules reject for.
LEMMA RiskRulesFounded ==
  ASSUME NEW facts, NEW i \in 1..10, evaluateCondition(RiskRules[i].conditions, facts)
  PROVE  Founded(RiskRules[i], facts)
<1>1. CASE i = 1
  <2>1. RiskRules[1].actions =
             <<AddRisk(50), Do("REQUIRE_EDD")>>
    BY DEF RiskRules, Rule
  <2> QED BY <1>1, <2>1 DEF Founded, AddRisk, Do, With
<1>2. CASE i = 2
  <2>1. RiskRules[2].actions =
             <<AddRisk(20)>>
    BY DEF RiskRules, Rule
  <2> QED BY <1>2, <2>1 DEF Founded, AddRisk, With
<1>3. CASE i = 3
  <2>1. RiskRules[3].actions =
             <<AddRisk(15)>>
    BY DEF RiskRules, Rule
  <2> QED BY <1>3, <2>1 DEF Founded, AddRisk, With
<1>4. CASE i = 4
  <2>1. RiskRules[4].actions =
             <<AddRisk(30), ManualReview>>
    BY DEF RiskRules, Rule
  <2> QED BY <1>4, <2>1 DEF Founded, AddRisk, ManualReview, Do, With
<1>5. CASE i = 5
  <2>1. RiskRules[5].actions =
             <<AddRisk(10)>>
    BY DEF RiskRules, Rule
  <2> QED BY <1>5, <2>1 DEF Founded, AddRisk, With
<1>6. CASE i = 6
  <2>1. RiskRules[6].actions =
             <<AddRisk(12)>>
    BY DEF RiskRules, Rule
  <2> QED BY <1>6, <2>1 DEF Founded, AddRisk, With
<1>7. CASE i = 7
  <2>1. RiskRules[7].actions =
             <<AddRisk(20)>>
    BY DEF RiskRules, Rule
  <2> QED BY <1>7, <2>1 DEF Founded, AddRisk, With
<1>8. CASE i = 8
  <2>1. RiskRules[8].actions =
             <<ManualReview, AddRisk(35), Queue("fraud-review")>>
    BY DEF RiskRules, Rule
  <2> QED BY <1>8, <2>1 DEF Founded, AddRisk, ManualReview, Queue, Do, With
<1>9. CASE i = 9
  <2>1. RiskRules[9].actions =
             <<ManualReview, AddRisk(40), OpenCase("FRAUD_INVESTIGATION")>>
    BY DEF RiskRules, Rule
  <2> QED BY <1>9, <2>1 DEF Founded, AddRisk, ManualReview, OpenCase, Do, With
<1>10. CASE i = 10
  <2>1. RiskRules[10].actions =
             <<ManualReview, RejectLabel("DUPLICATE_ACCOUNT"), AddRisk(50),
               Queue("fraud-review")>>
    BY DEF RiskRules, Rule
  <2>2. RiskRules[10].conditions =
             If("duplicate.identityMatchCount", "gte", 1)
    BY DEF RiskRules, Rule
  <2>3. evaluatePredicate(If("duplicate.identityMatchCount", "gte", 1), facts)
    BY <1>10, <2>2, FactHeld
  <2>4. Shown("DUPLICATE_ACCOUNT", facts)
    BY <2>3, Compared DEF Shown, Among, On, Off
  <2> HIDE DEF Shown
  <2> QED BY <1>10, <2>1, <2>4, Taxonomy DEF Founded, AddRisk, ManualReview, Queue, RejectLabel, Do, With
<1> QED BY <1>1, <1>2, <1>3, <1>4, <1>5, <1>6, <1>7, <1>8, <1>9, <1>10

\* So is what these rules reject for.
LEMMA WorkflowRulesFounded ==
  ASSUME NEW facts, NEW i \in 1..4, evaluateCondition(WorkflowRules[i].conditions, facts)
  PROVE  Founded(WorkflowRules[i], facts)
<1>1. CASE i = 1
  <2>1. WorkflowRules[1].actions =
             <<Do("AUTO_APPROVE")>>
    BY DEF WorkflowRules, Rule
  <2> QED BY <1>1, <2>1 DEF Founded, Do
<1>2. CASE i = 2
  <2>1. WorkflowRules[2].actions =
             <<ManualReview, Queue("edd-review")>>
    BY DEF WorkflowRules, Rule
  <2> QED BY <1>2, <2>1 DEF Founded, ManualReview, Queue, Do, With
<1>3. CASE i = 3
  <2>1. WorkflowRules[3].actions =
             <<Monitor>>
    BY DEF WorkflowRules, Rule
  <2> QED BY <1>3, <2>1 DEF Founded, Monitor, Do
<1>4. CASE i = 4
  <2>1. WorkflowRules[4].actions =
             <<OpenCase("AML_HIT_REVIEW"), Notify("COMPLIANCE_OFFICER"),
               RaiseAlert("CRITICAL")>>
    BY DEF WorkflowRules, Rule
  <2> QED BY <1>4, <2>1 DEF Founded, Notify, OpenCase, RaiseAlert, With
<1> QED BY <1>1, <1>2, <1>3, <1>4

\* What any rule of the library rejects for is shown by the facts it fires on.
LEMMA RulesFounded ==
  ASSUME NEW facts, NEW j \in 1..28,
         evaluateCondition(APPLICANT_RULES[j].conditions, facts)
  PROVE  Founded(APPLICANT_RULES[j], facts)
<1>1. CASE j \in 1..6
  <2>1. APPLICANT_RULES[j] = ScreeningRules[j]
    BY <1>1, LibraryShape
  <2> QED BY <1>1, <2>1, ScreeningRulesFounded
<1>2. CASE j \in 7..14
  <2>1. APPLICANT_RULES[j] = DocumentRules[j - 6]
    BY <1>2, LibraryShape, Zenon
  <2>2. j - 6 \in 1..8
    BY <1>2
  <2> QED BY <2>1, <2>2, DocumentRulesFounded
<1>3. CASE j \in 15..24
  <2>1. APPLICANT_RULES[j] = RiskRules[j - 14]
    BY <1>3, LibraryShape, Zenon
  <2>2. j - 14 \in 1..10
    BY <1>3
  <2> QED BY <2>1, <2>2, RiskRulesFounded
<1>4. CASE j \in 25..28
  <2>1. APPLICANT_RULES[j] = WorkflowRules[j - 24]
    BY <1>4, LibraryShape, Zenon
  <2>2. j - 24 \in 1..4
    BY <1>4
  <2> QED BY <2>1, <2>2, WorkflowRulesFounded
<1> QED BY <1>1, <1>2, <1>3, <1>4

----------------------------------------------------------------------------
(* The inductive invariant.                                                *)

\* Labels of what was never done. They leave a way back.
Excused == {"ADDITIONAL_DOCUMENTS_REQUIRED", "REQUIRED_STEP_NOT_PERFORMED"}

\* A check of the first n runs, on one of m documents or none: its labels have been
\* found, or say that something was not done, and one that fails for a duplicate has
\* the label for it.
SoundCheck(k, c, found, n, m) ==
  /\ k[2] \in 0..m /\ c.at \in 0..n /\ c.score \in Int
  /\ c.labels \subseteq Labels /\ c.labels \subseteq found \cup Excused
  /\ k[1] = "DUPLICATE_IDENTITY" /\ c.result = "FAIL" => "DUPLICATE_ACCOUNT" \in c.labels
  /\ k[1] = "DUPLICATE_FACE" /\ c.result = "FAIL" => "DUPLICATE_FACE" \in c.labels

\* A check that the run under way may record.
Fresh(check) == check.at = runs /\ check.score \in Int

SoundChecks(those, found, n, m) ==
  \A k \in DOMAIN those : SoundCheck(k, those[k], found, n, m)

\* What a row keeps of what was read and examined has been found.
SoundDoc(doc, found) ==
  /\ doc.read # "none" =>
       /\ Picture(doc.read).expiredFor > 0 => "DOCUMENT_EXPIRED" \in found
       /\ isEmbargoed(Picture(doc.read).country) => "PROHIBITED_COUNTRY" \in found
  /\ doc.examined # "none" /\ isForged(Picture(doc.examined)) =>
       "FORGED_DOCUMENT" \in found

DocRows ==
  [image : Images, status : {"UPLOADED", "EXTRACTED", "REJECTED", "SUPERSEDED"},
   read : Images \cup {"none"}, examined : Images \cup {"none"}]

RowFields == {"reviewStatus", "country", "name", "age", "riskScore", "ddLevel",
              "ipCountry", "registered", "twin", "monitored", "verdict"}

RunInv ==
  /\ level \in LevelsInUse /\ runs \in Nat
  /\ DOMAIN run = {"wave", "todo", "forced"} /\ run.wave \in Nat
  /\ run.forced \in BOOLEAN /\ run.todo \subseteq level.steps
  /\ run.wave = 0 => run = Idle
  /\ run.wave # 0 /\ ~run.forced => isCountryAllowedForLevel(row.country, level)
  /\ run.forced => "PROHIBITED_COUNTRY" \in findings

RowInv ==
  /\ DOMAIN row = RowFields /\ row.age \in {-1, 30}
  /\ row.reviewStatus \in ReviewStatuses
  /\ row.verdict \in {"none", "QUEUED", "APPROVED", "REJECTED_RETRY", "REJECTED_FINAL"}
  /\ row.ddLevel \in Levels3 /\ row.riskScore \in 0..100

DocsInv ==
  docs \in Seq(DocRows) /\ \A d \in DOMAIN docs : SoundDoc(docs[d], findings)

ChecksInv == findings \subseteq Labels /\ SoundChecks(checks, findings, runs, Len(docs))

ScreeningInv ==
  /\ DOMAIN screening = {"listed", "matched", "resolved"}
  /\ DOMAIN screening.resolved = Entries
  /\ screening.listed \subseteq Entries /\ screening.matched \subseteq Entries
  /\ screening.resolved["SANCTIONS"] = "TRUE_POSITIVE" => "SANCTIONS_MATCH" \in findings

FoundInv == RunInv /\ RowInv /\ DocsInv /\ ChecksInv /\ ScreeningInv

----------------------------------------------------------------------------
(* Rows of checks, the newest of some documents, and waves.                *)

\* What the rows of a check hold.
LEMMA CheckFields ==
  ASSUME NEW result, NEW labels, NEW score, NEW required, NEW label
  PROVE  /\ Fresh(Completed(result, labels))
         /\ Completed(result, labels).labels = labels
         /\ Completed(result, labels).result = result
         /\ score \in Int => Fresh(Scored(result, labels, score))
         /\ Scored(result, labels, score).labels = labels
         /\ Fresh(Failed) /\ Failed.labels = {} /\ Failed.result = "none"
         /\ Fresh(Skipped(required, label))
         /\ Skipped(required, label).labels \subseteq {label} \ {""}
         /\ Skipped(required, label).result = "INCONCLUSIVE"
<1>1. /\ Fresh(Completed(result, labels))
      /\ Completed(result, labels).labels = labels
      /\ Completed(result, labels).result = result
  BY DEF Completed, Fresh
<1>2. /\ score \in Int => Fresh(Scored(result, labels, score))
      /\ Scored(result, labels, score).labels = labels
  BY DEF Scored, Completed, Fresh
<1>3. Fresh(Failed) /\ Failed.labels = {} /\ Failed.result = "none"
  BY DEF Failed, Fresh
<1>4. /\ Fresh(Skipped(required, label))
      /\ Skipped(required, label).labels = IF required THEN {label} \ {""} ELSE {}
      /\ Skipped(required, label).result = "INCONCLUSIVE"
  BY DEF Skipped, Fresh
<1> QED BY <1>1, <1>2, <1>3, <1>4

\* Sound checks stay sound when rows that are sound come with them.
LEMMA RecordedSound ==
  ASSUME NEW new, recordChecks(new), NEW found, NEW n, NEW m,
         SoundChecks(checks, found, n, m),
         \A r \in new : SoundCheck(r.key, r.check, found, n, m)
  PROVE  SoundChecks(checks', found, n, m)
<1> DEFINE keys == {r.key : r \in new}
           row1(k) == CHOOSE r \in new : r.key = k
<1>1. checks' = [k \in DOMAIN checks \cup keys |->
                   IF k \in keys THEN row1(k).check ELSE checks[k]]
  BY DEF recordChecks
<1>2. ASSUME NEW k \in DOMAIN checks' PROVE SoundCheck(k, checks'[k], found, n, m)
  <2>1. CASE k \in keys
    <3>1. checks'[k] = row1(k).check
      BY <1>1, <1>2, <2>1
    <3>2. row1(k) \in new /\ row1(k).key = k
      BY <2>1
    <3> HIDE DEF row1
    <3> QED BY <3>1, <3>2
  <2>2. CASE k \notin keys
    <3>1. k \in DOMAIN checks /\ checks'[k] = checks[k]
      BY <1>1, <1>2, <2>2
    <3> QED BY <3>1 DEF SoundChecks
  <2> QED BY <2>1, <2>2
<1> QED BY <1>2 DEF SoundChecks

\* And as more is found, more runs start and more documents come.
LEMMA SoundLonger ==
  ASSUME NEW those, NEW found, NEW more, found \subseteq more,
         NEW n \in Nat, NEW n2 \in Nat, n <= n2,
         NEW m \in Nat, NEW m2 \in Nat, m <= m2,
         SoundChecks(those, found, n, m)
  PROVE  SoundChecks(those, more, n2, m2)
<1> SUFFICES ASSUME NEW k \in DOMAIN those
             PROVE  SoundCheck(k, those[k], more, n2, m2)
  BY DEF SoundChecks
<1>1. SoundCheck(k, those[k], found, n, m)
  BY DEF SoundChecks
<1> QED BY <1>1 DEF SoundCheck

\* The highest of some numbers.
LEMMA Highest ==
  ASSUME NEW m \in Nat, NEW S, S \subseteq 0..m, S # {}
  PROVE  Max(S) \in S /\ \A x \in S : Max(S) >= x
<1> DEFINE Has(U) == \E x \in U : \A y \in U : x >= y
           T == {n \in Nat : \A U \in SUBSET (0..n) : U # {} => Has(U)}
<1>1. 0 \in T
  <2> SUFFICES ASSUME NEW U \in SUBSET (0..0), U # {} PROVE Has(U)
    OBVIOUS
  <2>1. PICK x : x \in U
    OBVIOUS
  <2>2. \A y \in U : y \in 0..0
    OBVIOUS
  <2>3. \A y \in U : y = 0
    BY <2>2
  <2> QED BY <2>1, <2>3
<1>2. ASSUME NEW n \in Nat, n \in T PROVE n + 1 \in T
  <2> SUFFICES ASSUME NEW U \in SUBSET (0..(n + 1)), U # {} PROVE Has(U)
    OBVIOUS
  <2>1. CASE n + 1 \in U
    BY <2>1
  <2>2. CASE n + 1 \notin U
    <3>1. U \in SUBSET (0..n)
      BY <2>2
    <3> QED BY <1>2, <3>1
  <2> QED BY <2>1, <2>2
<1>3. m \in T
  <2> HIDE DEF T
  <2> QED BY <1>1, <1>2, SetInduction
<1>4. Has(S)
  BY <1>3
<1> QED BY <1>4 DEF Max

\* The newest is one of them, or 0 when there is none.
LEMMA NewestIs ==
  ASSUME NEW m \in Nat, NEW S, S \subseteq 1..m
  PROVE  /\ Newest(S) \in S \cup {0} /\ Newest(S) \in 0..m
         /\ Newest(S) # 0 => Newest(S) \in 1..m
<1>1. {0} \cup S \subseteq 0..m /\ {0} \cup S # {}
  OBVIOUS
<1>2. Max({0} \cup S) \in {0} \cup S
  BY <1>1, Highest
<1> QED BY <1>1, <1>2 DEF Newest

\* A level's waves: at least one, each of the level's steps.
LEMMA WavesShape ==
  ASSUME level \in LevelsInUse
  PROVE  /\ Len(Waves) \in Nat \ {0}
         /\ \A i \in 1..Len(Waves) : Waves[i] \subseteq level.steps
<1> DEFINE orders == {s.order : s \in level.steps}
           Wave(i) == {s \in level.steps : Cardinality({o \in orders : o < s.order}) = i - 1}
<1>1. Waves = [i \in 1..Cardinality(orders) |-> Wave(i)]
  BY Zenon DEF Waves, Plans, planSteps
<1>2. IsFiniteSet(level.steps) /\ level.steps # {}
  BY LevelAssumption
<1>3. IsFiniteSet(orders) /\ orders # {}
  <2> DEFINE f == [s \in level.steps |-> s.order]
  <2>1. f \in Surjection(level.steps, orders)
    BY DEF Surjection
  <2>2. IsFiniteSet(orders)
    <3> HIDE DEF f, orders
    <3> QED BY <1>2, <2>1, FS_Surjection
  <2> QED BY <1>2, <2>2
<1>4. Cardinality(orders) \in Nat \ {0}
  <2> HIDE DEF orders
  <2> QED BY <1>3, FS_CardinalityType, FS_EmptySet
<1> DEFINE n == Cardinality(orders)
<1>5. \A i : Wave(i) \subseteq level.steps
  OBVIOUS
<1> HIDE DEF n, Wave
<1>6. Waves = [i \in 1..n |-> Wave(i)]
  BY <1>1 DEF n
<1>7. n \in Nat \ {0}
  BY <1>4 DEF n
<1>8. Len(Waves) = n /\ \A i \in 1..n : Waves[i] = Wave(i)
  BY <1>6, <1>7
<1> QED BY <1>5, <1>7, <1>8

----------------------------------------------------------------------------
(* Labels of the steps.                                                    *)

\* Labels that leave a way back, and labels that do not.
RetryLabels ==
  {"BLURRY_IMAGE", "GLARE_OR_REFLECTION", "DOCUMENT_CROPPED",
   "SCREENSHOT_OR_SCREEN_PHOTO", "BLACK_AND_WHITE", "DOCUMENT_UNREADABLE",
   "MRZ_INCOMPLETE", "OBSCURED_DATA", "DOCUMENT_EXPIRED", "DOCUMENT_EXPIRING_SOON",
   "NAME_MISMATCH", "DOB_MISMATCH", "MRZ_CHECKSUM_FAILED", "SELFIE_MISMATCH",
   "NO_FACE_DETECTED", "MULTIPLE_FACES", "LIVENESS_FAILED", "FACE_OBSCURED",
   "PROOF_OF_ADDRESS_TOO_OLD", "ADDITIONAL_DOCUMENTS_REQUIRED",
   "REQUIRED_STEP_NOT_PERFORMED"}
HardLabels ==
  {"NOT_MACHINE_READABLE", "UNDERAGE", "FORGED_DOCUMENT", "DUPLICATE_ACCOUNT",
   "SPOOF_ATTEMPT", "DUPLICATE_FACE", "CHIP_AUTHENTICATION_FAILED",
   "PROHIBITED_COUNTRY", "SANCTIONS_MATCH"}

\* All of them are in the taxonomy.
LEMMA StepLabels == RetryLabels \cup HardLabels \subseteq Labels
<1>1. \A l \in REJECT_LABELS : l[1] \in Labels
  BY DEF Labels
<1>2. /\ QualityLabels \subseteq REJECT_LABELS /\ ValidityLabels \subseteq REJECT_LABELS
      /\ BiometricLabels \subseteq REJECT_LABELS /\ MismatchLabels \subseteq REJECT_LABELS
      /\ FraudLabels \subseteq REJECT_LABELS /\ ComplianceLabels \subseteq REJECT_LABELS
      /\ ProcessLabels \subseteq REJECT_LABELS
  BY DEF REJECT_LABELS
<1>3. {"BLURRY_IMAGE", "GLARE_OR_REFLECTION", "DOCUMENT_CROPPED",
       "SCREENSHOT_OR_SCREEN_PHOTO", "BLACK_AND_WHITE", "DOCUMENT_UNREADABLE",
       "MRZ_INCOMPLETE", "OBSCURED_DATA", "REQUIRED_STEP_NOT_PERFORMED",
       "NOT_MACHINE_READABLE"} \subseteq Labels
  <2>1. /\ <<"BLURRY_IMAGE", TRUE, 0>> \in QualityLabels
        /\ <<"GLARE_OR_REFLECTION", TRUE, 0>> \in QualityLabels
        /\ <<"DOCUMENT_CROPPED", TRUE, 0>> \in QualityLabels
        /\ <<"SCREENSHOT_OR_SCREEN_PHOTO", TRUE, 25>> \in QualityLabels
        /\ <<"BLACK_AND_WHITE", TRUE, 5>> \in QualityLabels
        /\ <<"DOCUMENT_UNREADABLE", TRUE, 0>> \in QualityLabels
        /\ <<"MRZ_INCOMPLETE", TRUE, 5>> \in QualityLabels
        /\ <<"OBSCURED_DATA", TRUE, 10>> \in QualityLabels
        /\ <<"REQUIRED_STEP_NOT_PERFORMED", TRUE, 0>> \in QualityLabels
        /\ <<"NOT_MACHINE_READABLE", FALSE, 0>> \in QualityLabels
    BY DEF QualityLabels
  <2> QED BY <1>1, <1>2, <2>1
<1>4. {"DOCUMENT_EXPIRED", "DOCUMENT_EXPIRING_SOON", "UNDERAGE", "MRZ_CHECKSUM_FAILED",
       "CHIP_AUTHENTICATION_FAILED"} \subseteq Labels
  <2>1. /\ <<"DOCUMENT_EXPIRED", TRUE, 0>> \in ValidityLabels
        /\ <<"DOCUMENT_EXPIRING_SOON", TRUE, 0>> \in ValidityLabels
        /\ <<"UNDERAGE", FALSE, 0>> \in ValidityLabels
        /\ <<"MRZ_CHECKSUM_FAILED", TRUE, 40>> \in ValidityLabels
        /\ <<"CHIP_AUTHENTICATION_FAILED", FALSE, 60>> \in ValidityLabels
    BY DEF ValidityLabels
  <2> QED BY <1>1, <1>2, <2>1
<1>5. {"SELFIE_MISMATCH", "LIVENESS_FAILED", "SPOOF_ATTEMPT", "NO_FACE_DETECTED",
       "MULTIPLE_FACES", "FACE_OBSCURED"} \subseteq Labels
  <2>1. /\ <<"SELFIE_MISMATCH", TRUE, 45>> \in BiometricLabels
        /\ <<"LIVENESS_FAILED", TRUE, 20>> \in BiometricLabels
        /\ <<"SPOOF_ATTEMPT", FALSE, 90>> \in BiometricLabels
        /\ <<"NO_FACE_DETECTED", TRUE, 0>> \in BiometricLabels
        /\ <<"MULTIPLE_FACES", TRUE, 15>> \in BiometricLabels
        /\ <<"FACE_OBSCURED", TRUE, 10>> \in BiometricLabels
    BY DEF BiometricLabels
  <2> QED BY <1>1, <1>2, <2>1
<1>6. {"NAME_MISMATCH", "DOB_MISMATCH", "PROOF_OF_ADDRESS_TOO_OLD"} \subseteq Labels
  <2>1. /\ <<"NAME_MISMATCH", TRUE, 25>> \in MismatchLabels
        /\ <<"DOB_MISMATCH", TRUE, 35>> \in MismatchLabels
        /\ <<"PROOF_OF_ADDRESS_TOO_OLD", TRUE, 0>> \in MismatchLabels
    BY DEF MismatchLabels
  <2> QED BY <1>1, <1>2, <2>1
<1>7. {"FORGED_DOCUMENT", "DUPLICATE_ACCOUNT", "DUPLICATE_FACE", "SANCTIONS_MATCH",
       "PROHIBITED_COUNTRY", "ADDITIONAL_DOCUMENTS_REQUIRED"} \subseteq Labels
  <2>1. /\ <<"FORGED_DOCUMENT", FALSE, 100>> \in FraudLabels
        /\ <<"DUPLICATE_ACCOUNT", FALSE, 70>> \in FraudLabels
        /\ <<"DUPLICATE_FACE", FALSE, 85>> \in FraudLabels
        /\ <<"SANCTIONS_MATCH", FALSE, 100>> \in ComplianceLabels
        /\ <<"PROHIBITED_COUNTRY", FALSE, 100>> \in ComplianceLabels
        /\ <<"ADDITIONAL_DOCUMENTS_REQUIRED", TRUE, 0>> \in ProcessLabels
    BY DEF FraudLabels, ComplianceLabels, ProcessLabels
  <2> QED BY <1>1, <1>2, <2>1
<1> QED BY <1>3, <1>4, <1>5, <1>6, <1>7 DEF RetryLabels, HardLabels

\* What the applicant is excused for and what a rule may add leave a way back. (The
\* provers do better with names for the two answers.)
LEMMA WayBack ==
  ASSUME NEW l \in REJECT_LABELS, l[1] \in Excused \cup MayRetry
  PROVE  l[2] = TRUE
<1> DEFINE T == TRUE
           F == FALSE
<1>1. QualityLabels =
    {<<"BLURRY_IMAGE", T, 0>>, <<"GLARE_OR_REFLECTION", T, 0>>,
     <<"DOCUMENT_CROPPED", T, 0>>, <<"LOW_RESOLUTION", T, 0>>,
     <<"BLACK_AND_WHITE", T, 5>>, <<"SCREENSHOT_OR_SCREEN_PHOTO", T, 25>>,
     <<"MISSING_BACK_SIDE", T, 0>>, <<"WRONG_DOCUMENT_TYPE", T, 0>>,
     <<"DOCUMENT_UNREADABLE", T, 0>>, <<"MRZ_INCOMPLETE", T, 5>>,
     <<"REQUIRED_STEP_NOT_PERFORMED", T, 0>>, <<"NOT_MACHINE_READABLE", F, 0>>,
     <<"OBSCURED_DATA", T, 10>>}
  BY DEF QualityLabels
<1>2. ValidityLabels =
    {<<"DOCUMENT_EXPIRED", T, 0>>, <<"DOCUMENT_EXPIRING_SOON", T, 0>>,
     <<"DOCUMENT_NOT_SUPPORTED", T, 0>>, <<"UNDERAGE", F, 0>>,
     <<"CHIP_AUTHENTICATION_FAILED", F, 60>>, <<"MRZ_CHECKSUM_FAILED", T, 40>>}
  BY DEF ValidityLabels
<1>3. BiometricLabels =
    {<<"SELFIE_MISMATCH", T, 45>>, <<"LIVENESS_FAILED", T, 20>>,
     <<"SPOOF_ATTEMPT", F, 90>>, <<"NO_FACE_DETECTED", T, 0>>,
     <<"MULTIPLE_FACES", T, 15>>, <<"FACE_OBSCURED", T, 10>>}
  BY DEF BiometricLabels
<1>4. MismatchLabels =
    {<<"DATA_MISMATCH", T, 25>>, <<"NAME_MISMATCH", T, 25>>, <<"DOB_MISMATCH", T, 35>>,
     <<"ADDRESS_MISMATCH", T, 15>>, <<"PROOF_OF_ADDRESS_TOO_OLD", T, 0>>}
  BY DEF MismatchLabels
<1>5. FraudLabels =
    {<<"FORGED_DOCUMENT", F, 100>>, <<"DIGITAL_MANIPULATION", F, 100>>,
     <<"TEMPLATE_MISMATCH", F, 80>>, <<"DUPLICATE_ACCOUNT", F, 70>>,
     <<"DUPLICATE_FACE", F, 85>>, <<"STOLEN_IDENTITY_SUSPECTED", F, 95>>,
     <<"DEVICE_FRAUD_SIGNALS", F, 60>>, <<"THIRD_PARTY_ASSISTANCE", F, 70>>,
     <<"BLOCKLISTED", F, 100>>}
  BY DEF FraudLabels
<1>6. ComplianceLabels =
    {<<"SANCTIONS_MATCH", F, 100>>, <<"PEP_UNACCEPTABLE_RISK", F, 80>>,
     <<"ADVERSE_MEDIA_CONFIRMED", F, 75>>, <<"PROHIBITED_COUNTRY", F, 100>>,
     <<"PROHIBITED_OCCUPATION", F, 50>>, <<"SOURCE_OF_FUNDS_UNCLEAR", T, 50>>,
     <<"REGULATORY_REQUIREMENT", F, 40>>}
  BY DEF ComplianceLabels
<1>7. ProcessLabels =
    {<<"APPLICANT_ABANDONED", T, 0>>, <<"CONSENT_WITHDRAWN", T, 0>>,
     <<"ADDITIONAL_DOCUMENTS_REQUIRED", T, 0>>, <<"MANUAL_REVIEW_TIMEOUT", T, 0>>,
     <<"PROVIDER_UNAVAILABLE", T, 0>>}
  BY DEF ProcessLabels
<1>8. CompanyLabels =
    {<<"COMPANY_NOT_FOUND", T, 20>>, <<"COMPANY_DISSOLVED", F, 60>>,
     <<"UBO_UNRESOLVED", T, 55>>, <<"UBO_REFUSED_VERIFICATION", T, 45>>,
     <<"NOMINEE_STRUCTURE", T, 50>>, <<"SHELL_COMPANY_INDICATORS", F, 70>>}
  BY DEF CompanyLabels
<1> HIDE DEF T, F
<1>11. CASE l \in QualityLabels
  <2>1. l[2] = T
    BY <1>1, <1>11 DEF Excused, MayRetry
  <2> QED BY <2>1 DEF T
<1>12. CASE l \in ValidityLabels
  <2>1. l[2] = T
    BY <1>2, <1>12 DEF Excused, MayRetry
  <2> QED BY <2>1 DEF T
<1>13. CASE l \in BiometricLabels
  <2>1. l[2] = T
    BY <1>3, <1>13 DEF Excused, MayRetry
  <2> QED BY <2>1 DEF T
<1>14. CASE l \in MismatchLabels
  <2>1. l[2] = T
    BY <1>4, <1>14 DEF Excused, MayRetry
  <2> QED BY <2>1 DEF T
<1>15. CASE l \in FraudLabels
  <2>1. l[2] = T
    BY <1>5, <1>15 DEF Excused, MayRetry
  <2> QED BY <2>1 DEF T
<1>16. CASE l \in ComplianceLabels
  <2>1. l[2] = T
    BY <1>6, <1>16 DEF Excused, MayRetry
  <2> QED BY <2>1 DEF T
<1>17. CASE l \in ProcessLabels
  <2>1. l[2] = T
    BY <1>7, <1>17 DEF Excused, MayRetry
  <2> QED BY <2>1 DEF T
<1>18. CASE l \in CompanyLabels
  <2>1. l[2] = T
    BY <1>8, <1>18 DEF Excused, MayRetry
  <2> QED BY <2>1 DEF T
<1> QED BY <1>11, <1>12, <1>13, <1>14, <1>15, <1>16, <1>17, <1>18 DEF REJECT_LABELS

\* So a final rejection is final for what was found.
LEMMA FinalForFindings ==
  ASSUME NEW labels, NEW found, labels \subseteq found \cup Excused \cup MayRetry,
         isFinalRejection(labels)
  PROVE  isFinalRejection(found)
<1>1. PICK l \in REJECT_LABELS : l[1] \in labels /\ ~l[2]
  BY DEF isFinalRejection
<1>2. l[1] \notin Excused \cup MayRetry
  BY <1>1, WayBack
<1> QED BY <1>1, <1>2 DEF isFinalRejection

\* A photograph that an identity step takes shows one.
LEMMA IdPicture ==
  ASSUME NEW image \in Images, Picture(image).type \in IdTypes
  PROVE  image \in IdImages
<1>1. image \in Described /\ Picture(image) = PictureOf(image)
  BY PictureAssumption DEF Pictures, Picture
<1>2. SelfiePicture.type = "SELFIE" /\ BillPicture.type = "UTILITY_BILL"
  BY DEF SelfiePicture, BillPicture
<1>3. \A i \in Described \ IdImages :
        PictureOf(i).type \in {"SELFIE", "UTILITY_BILL"}
  <2> SUFFICES ASSUME NEW i \in Described \ IdImages
               PROVE  PictureOf(i).type \in {"SELFIE", "UTILITY_BILL"}
    OBVIOUS
  <2>1. i \in {"selfie", "mask", "no face", "crowd", "sunglasses", "still", "other face",
               "seen face", "own face", "bill", "old bill", "bad bill"}
    BY DEF Described
  <2>2. CASE i = "selfie"
    BY <2>2, <1>2 DEF PictureOf, QualityDefects
  <2>3. CASE i = "mask"
    <3>1. PictureOf(i) = [SelfiePicture EXCEPT !.spoof = TRUE]
      BY <2>3 DEF PictureOf, QualityDefects
    <3>2. [SelfiePicture EXCEPT !.spoof = TRUE].type = SelfiePicture.type
      OBVIOUS
    <3> QED BY <1>2, <3>1, <3>2
  <2>4. CASE i = "no face"
    <3>1. PictureOf(i) = [SelfiePicture EXCEPT !.faces = 0]
      BY <2>4 DEF PictureOf, QualityDefects
    <3>2. [SelfiePicture EXCEPT !.faces = 0].type = SelfiePicture.type
      OBVIOUS
    <3> QED BY <1>2, <3>1, <3>2
  <2>5. CASE i = "crowd"
    <3>1. PictureOf(i) = [SelfiePicture EXCEPT !.faces = 2]
      BY <2>5 DEF PictureOf, QualityDefects
    <3>2. [SelfiePicture EXCEPT !.faces = 2].type = SelfiePicture.type
      OBVIOUS
    <3> QED BY <1>2, <3>1, <3>2
  <2>6. CASE i = "sunglasses"
    <3>1. PictureOf(i) = [SelfiePicture EXCEPT !.occluded = TRUE]
      BY <2>6 DEF PictureOf, QualityDefects
    <3>2. [SelfiePicture EXCEPT !.occluded = TRUE].type = SelfiePicture.type
      OBVIOUS
    <3> QED BY <1>2, <3>1, <3>2
  <2>7. CASE i = "still"
    <3>1. PictureOf(i) = [SelfiePicture EXCEPT !.live = 60]
      BY <2>7 DEF PictureOf, QualityDefects
    <3>2. [SelfiePicture EXCEPT !.live = 60].type = SelfiePicture.type
      OBVIOUS
    <3> QED BY <1>2, <3>1, <3>2
  <2>8. CASE i = "other face"
    <3>1. PictureOf(i) = [SelfiePicture EXCEPT !.similarity = 55]
      BY <2>8 DEF PictureOf, QualityDefects
    <3>2. [SelfiePicture EXCEPT !.similarity = 55].type = SelfiePicture.type
      OBVIOUS
    <3> QED BY <1>2, <3>1, <3>2
  <2>9. CASE i = "seen face"
    <3>1. PictureOf(i) = [SelfiePicture EXCEPT !.knownFace = "other"]
      BY <2>9 DEF PictureOf, QualityDefects
    <3>2. [SelfiePicture EXCEPT !.knownFace = "other"].type = SelfiePicture.type
      OBVIOUS
    <3> QED BY <1>2, <3>1, <3>2
  <2>10. CASE i = "own face"
    <3>1. PictureOf(i) = [SelfiePicture EXCEPT !.knownFace = "same"]
      BY <2>10 DEF PictureOf, QualityDefects
    <3>2. [SelfiePicture EXCEPT !.knownFace = "same"].type = SelfiePicture.type
      OBVIOUS
    <3> QED BY <1>2, <3>1, <3>2
  <2>11. CASE i = "bill"
    BY <2>11, <1>2 DEF PictureOf, QualityDefects
  <2>12. CASE i = "old bill"
    <3>1. PictureOf(i) = [BillPicture EXCEPT !.age = 200]
      BY <2>12 DEF PictureOf, QualityDefects
    <3>2. [BillPicture EXCEPT !.age = 200].type = BillPicture.type
      OBVIOUS
    <3> QED BY <1>2, <3>1, <3>2
  <2>13. CASE i = "bad bill"
    <3>1. PictureOf(i) = [BillPicture EXCEPT !.legible = FALSE]
      BY <2>13 DEF PictureOf, QualityDefects
    <3>2. [BillPicture EXCEPT !.legible = FALSE].type = BillPicture.type
      OBVIOUS
    <3> QED BY <1>2, <3>1, <3>2
  <2> QED BY <2>1, <2>2, <2>3, <2>4, <2>5, <2>6, <2>7, <2>8, <2>9, <2>10, <2>11, <2>12,
             <2>13
<1> QED BY <1>1, <1>3 DEF IdTypes

\* Its faults are labels.
LEMMA Faults ==
  ASSUME NEW image \in Images, image \in IdImages
  PROVE  Picture(image).defects \subseteq QualityDefects
<1>1. Picture(image) = PictureOf(image)
  BY DEF Pictures, Picture
<1>2. PassportPicture.defects = {} /\ DOMAIN PassportPicture =
        {"type", "defects", "mrz", "partialMrz", "number", "name", "age", "country",
         "expiredFor", "authenticity", "tamperFlags"}
  BY DEF PassportPicture
<1>3. CASE image \in QualityDefects
  <2>1. PictureOf(image) = [PassportPicture EXCEPT !.defects = {image}]
    BY <1>3 DEF PictureOf, QualityDefects
  <2> QED BY <1>1, <1>2, <1>3, <2>1
<1>4. CASE image \notin QualityDefects
  <2>1. image \in {"passport", "expired", "expiring", "child's", "stranger's", "nameless",
                   "altered", "partial", "forged", "worn", "registered", "syrian",
                   "illegible", "licence"}
    BY <1>4 DEF IdImages
  <2>2. PictureOf(image).defects = {}
    BY <2>1, <1>4, <1>2 DEF PictureOf
  <2> QED BY <1>1, <2>2
<1> QED BY <1>3, <1>4

\* A photograph of a document shows no face to compare.
LEMMA IdShowsId == \A i \in IdImages : PictureOf(i).type \in {"PASSPORT", "DRIVERS_LICENSE"}
<1> SUFFICES ASSUME NEW i \in IdImages
             PROVE  PictureOf(i).type \in {"PASSPORT", "DRIVERS_LICENSE"}
  OBVIOUS
<1>1. CASE i = "passport"
  BY <1>1 DEF PictureOf, PassportPicture
<1>2. CASE i \in QualityDefects
  <2>1. PictureOf(i) = [PassportPicture EXCEPT !.defects = {i}]
    BY <1>2 DEF PictureOf, QualityDefects
  <2>2. [PassportPicture EXCEPT !.defects = {i}].type = "PASSPORT"
    BY DEF PassportPicture
  <2> QED BY <2>1, <2>2
<1>3. CASE i = "expired"
  <2>1. PictureOf(i) = [PassportPicture EXCEPT !.expiredFor = 5]
    BY <1>3 DEF PictureOf, QualityDefects
  <2>2. [PassportPicture EXCEPT !.expiredFor = 5].type = "PASSPORT"
    BY DEF PassportPicture
  <2> QED BY <2>1, <2>2
<1>4. CASE i = "expiring"
  <2>1. PictureOf(i) = [PassportPicture EXCEPT !.expiredFor = -20]
    BY <1>4 DEF PictureOf, QualityDefects
  <2>2. [PassportPicture EXCEPT !.expiredFor = -20].type = "PASSPORT"
    BY DEF PassportPicture
  <2> QED BY <2>1, <2>2
<1>5. CASE i = "child's"
  <2>1. PictureOf(i) = [PassportPicture EXCEPT !.age = 16]
    BY <1>5 DEF PictureOf, QualityDefects
  <2>2. [PassportPicture EXCEPT !.age = 16].type = "PASSPORT"
    BY DEF PassportPicture
  <2> QED BY <2>1, <2>2
<1>6. CASE i = "stranger's"
  <2>1. PictureOf(i) = [PassportPicture EXCEPT !.name = "eve"]
    BY <1>6 DEF PictureOf, QualityDefects
  <2>2. [PassportPicture EXCEPT !.name = "eve"].type = "PASSPORT"
    BY Zenon DEF PassportPicture
  <2> QED BY <2>1, <2>2
<1>7. CASE i = "nameless"
  <2>1. PictureOf(i) = [PassportPicture EXCEPT !.name = ""]
    BY <1>7 DEF PictureOf, QualityDefects
  <2>2. [PassportPicture EXCEPT !.name = ""].type = "PASSPORT"
    BY Zenon DEF PassportPicture
  <2> QED BY <2>1, <2>2
<1>8. CASE i = "altered"
  <2>1. PictureOf(i) = [PassportPicture EXCEPT !.mrz = "invalid"]
    BY <1>8 DEF PictureOf, QualityDefects
  <2>2. [PassportPicture EXCEPT !.mrz = "invalid"].type = "PASSPORT"
    BY DEF PassportPicture
  <2> QED BY <2>1, <2>2
<1>9. CASE i = "partial"
  <2>1. PictureOf(i) = [PassportPicture EXCEPT !.partialMrz = TRUE]
    BY <1>9 DEF PictureOf, QualityDefects
  <2>2. [PassportPicture EXCEPT !.partialMrz = TRUE].type = "PASSPORT"
    BY DEF PassportPicture
  <2> QED BY <2>1, <2>2
<1>10. CASE i = "forged"
  <2>1. PictureOf(i) = [PassportPicture EXCEPT !.tamperFlags = {"DIGITAL_EDIT"}]
    BY <1>10 DEF PictureOf, QualityDefects
  <2>2. [PassportPicture EXCEPT !.tamperFlags = {"DIGITAL_EDIT"}].type = "PASSPORT"
    BY DEF PassportPicture
  <2> QED BY <2>1, <2>2
<1>11. CASE i = "worn"
  <2>1. PictureOf(i) = [PassportPicture EXCEPT !.authenticity = 50]
    BY <1>11 DEF PictureOf, QualityDefects
  <2>2. [PassportPicture EXCEPT !.authenticity = 50].type = "PASSPORT"
    BY DEF PassportPicture
  <2> QED BY <2>1, <2>2
<1>12. CASE i = "registered"
  <2>1. PictureOf(i) = [PassportPicture EXCEPT !.number = "taken"]
    BY <1>12 DEF PictureOf, QualityDefects
  <2>2. [PassportPicture EXCEPT !.number = "taken"].type = "PASSPORT"
    BY DEF PassportPicture
  <2> QED BY <2>1, <2>2
<1>13. CASE i = "syrian"
  <2>1. PictureOf(i) = [PassportPicture EXCEPT !.country = "SYR"]
    BY <1>13 DEF PictureOf, QualityDefects
  <2>2. [PassportPicture EXCEPT !.country = "SYR"].type = "PASSPORT"
    BY DEF PassportPicture
  <2> QED BY <2>1, <2>2
<1>14. CASE i = "illegible"
  <2>1. PictureOf(i) = [PassportPicture EXCEPT !.mrz = "none", !.number = "", !.name = "",
                          !.age = -1, !.expiredFor = Unread]
    BY <1>14 DEF PictureOf, QualityDefects
  <2>2. [PassportPicture EXCEPT !.mrz = "none", !.number = "", !.name = "",
          !.age = -1, !.expiredFor = Unread].type = "PASSPORT"
    BY Zenon DEF PassportPicture
  <2> QED BY <2>1, <2>2
<1>15. CASE i = "licence"
  <2>1. PictureOf(i) = [PassportPicture EXCEPT !.type = "DRIVERS_LICENSE", !.mrz = "none",
                          !.number = "", !.name = "", !.age = -1, !.expiredFor = Unread]
    BY <1>15 DEF PictureOf, QualityDefects
  <2>2. [PassportPicture EXCEPT !.type = "DRIVERS_LICENSE", !.mrz = "none",
          !.number = "", !.name = "", !.age = -1, !.expiredFor = Unread].type = "DRIVERS_LICENSE"
    BY Zenon DEF PassportPicture
  <2> QED BY <2>1, <2>2
<1> QED BY <1>1, <1>2, <1>3, <1>4, <1>5, <1>6, <1>7, <1>8, <1>9, <1>10, <1>11, <1>12, <1>13,
           <1>14, <1>15 DEF IdImages

\* One of a face has a likeness to compare.
LEMMA FacePicture ==
  ASSUME NEW image \in Images, Picture(image).type \in SelfieTypes
  PROVE  Picture(image).similarity \in Int
<1>1. image \in Described /\ Picture(image) = PictureOf(image)
  BY PictureAssumption DEF Pictures, Picture
<1>2. image \notin IdImages
  BY <1>1, IdShowsId DEF SelfieTypes
<1>3. SelfiePicture.similarity \in Int /\ BillPicture.type = "UTILITY_BILL"
  BY DEF SelfiePicture, BillPicture
<1>4. /\ \A v : /\ [SelfiePicture EXCEPT !.spoof = v].similarity \in Int
               /\ [SelfiePicture EXCEPT !.faces = v].similarity \in Int
               /\ [SelfiePicture EXCEPT !.occluded = v].similarity \in Int
               /\ [SelfiePicture EXCEPT !.live = v].similarity \in Int
               /\ [SelfiePicture EXCEPT !.knownFace = v].similarity \in Int
               /\ [BillPicture EXCEPT !.age = v].type = "UTILITY_BILL"
               /\ [BillPicture EXCEPT !.legible = v].type = "UTILITY_BILL"
      /\ [SelfiePicture EXCEPT !.similarity = 55].similarity \in Int
  BY DEF SelfiePicture, BillPicture
<1>5. CASE image = "selfie"
  <2>1. Picture(image) = SelfiePicture
    BY <1>1, <1>5 DEF PictureOf, QualityDefects
  <2> QED BY <1>3, <1>4, <2>1, Zenon
<1>6. CASE image = "mask"
  <2>1. Picture(image) = [SelfiePicture EXCEPT !.spoof = TRUE]
    BY <1>1, <1>6 DEF PictureOf, QualityDefects
  <2> QED BY <1>3, <1>4, <2>1, Zenon
<1>7. CASE image = "no face"
  <2>1. Picture(image) = [SelfiePicture EXCEPT !.faces = 0]
    BY <1>1, <1>7 DEF PictureOf, QualityDefects
  <2> QED BY <1>3, <1>4, <2>1, Zenon
<1>8. CASE image = "crowd"
  <2>1. Picture(image) = [SelfiePicture EXCEPT !.faces = 2]
    BY <1>1, <1>8 DEF PictureOf, QualityDefects
  <2> QED BY <1>3, <1>4, <2>1, Zenon
<1>9. CASE image = "sunglasses"
  <2>1. Picture(image) = [SelfiePicture EXCEPT !.occluded = TRUE]
    BY <1>1, <1>9 DEF PictureOf, QualityDefects
  <2> QED BY <1>3, <1>4, <2>1, Zenon
<1>10. CASE image = "still"
  <2>1. Picture(image) = [SelfiePicture EXCEPT !.live = 60]
    BY <1>1, <1>10 DEF PictureOf, QualityDefects
  <2> QED BY <1>3, <1>4, <2>1, Zenon
<1>11. CASE image = "other face"
  <2>1. Picture(image) = [SelfiePicture EXCEPT !.similarity = 55]
    BY <1>1, <1>11 DEF PictureOf, QualityDefects
  <2> QED BY <1>3, <1>4, <2>1, Zenon
<1>12. CASE image = "seen face"
  <2>1. Picture(image) = [SelfiePicture EXCEPT !.knownFace = "other"]
    BY <1>1, <1>12 DEF PictureOf, QualityDefects
  <2> QED BY <1>3, <1>4, <2>1, Zenon
<1>13. CASE image = "own face"
  <2>1. Picture(image) = [SelfiePicture EXCEPT !.knownFace = "same"]
    BY <1>1, <1>13 DEF PictureOf, QualityDefects
  <2> QED BY <1>3, <1>4, <2>1, Zenon
<1>14. CASE image = "bill"
  <2>1. Picture(image) = BillPicture
    BY <1>1, <1>14 DEF PictureOf, QualityDefects
  <2>2. Picture(image).type = "UTILITY_BILL"
    BY <1>3, <1>4, <2>1, Zenon
  <2> QED BY <2>2 DEF SelfieTypes
<1>15. CASE image = "old bill"
  <2>1. Picture(image) = [BillPicture EXCEPT !.age = 200]
    BY <1>1, <1>15 DEF PictureOf, QualityDefects
  <2>2. Picture(image).type = "UTILITY_BILL"
    BY <1>3, <1>4, <2>1, Zenon
  <2> QED BY <2>2 DEF SelfieTypes
<1>16. CASE image = "bad bill"
  <2>1. Picture(image) = [BillPicture EXCEPT !.legible = FALSE]
    BY <1>1, <1>16 DEF PictureOf, QualityDefects
  <2>2. Picture(image).type = "UTILITY_BILL"
    BY <1>3, <1>4, <2>1, Zenon
  <2> QED BY <2>2 DEF SelfieTypes
<1> QED BY <1>1, <1>2, <1>5, <1>6, <1>7, <1>8, <1>9, <1>10, <1>11, <1>12, <1>13,
           <1>14, <1>15, <1>16 DEF Described

----------------------------------------------------------------------------
(* A step of a run keeps the invariant.                                    *)

\* Of levels that do not reject for a score alone.
Promise  == (\A l \in LevelsInUse : ~l.autoReject) => RejectedOnFindings
FoundAll == FoundInv /\ Promise

\* What is final stays final as more is found.
LEMMA FinalGrows ==
  ASSUME NEW found, NEW more, found \subseteq more, isFinalRejection(found)
  PROVE  isFinalRejection(more)
BY DEF isFinalRejection

\* What was rejected on findings is so on more of them.
LEMMA RejectionKept ==
  ASSUME Promise, findings \subseteq findings',
         row'.verdict \in {row.verdict, "none"}
  PROVE  Promise'
<1> SUFFICES ASSUME \A l \in LevelsInUse : ~l.autoReject PROVE RejectedOnFindings'
  BY DEF Promise
<1>0. RejectedOnFindings
  BY DEF Promise
<1>1. row'.verdict = "REJECTED_RETRY" => findings' # {}
  BY <1>0 DEF RejectedOnFindings
<1>2. row'.verdict = "REJECTED_FINAL" => isFinalRejection(findings')
  BY <1>0, FinalGrows DEF RejectedOnFindings
<1> QED BY <1>1, <1>2 DEF RejectedOnFindings

\* Documents' findings stay findings.
LEMMA DocsKept ==
  ASSUME DocsInv, docs' = docs, findings \subseteq findings'
  PROVE  DocsInv'
<1>1. ASSUME NEW d \in DOMAIN docs PROVE SoundDoc(docs[d], findings')
  <2>1. SoundDoc(docs[d], findings)
    BY DEF DocsInv
  <2> QED BY <2>1 DEF SoundDoc
<1>2. docs' \in Seq(DocRows) /\ DOMAIN docs' = DOMAIN docs
  BY DEF DocsInv
<1>3. \A d \in DOMAIN docs' : SoundDoc(docs'[d], findings')
  BY <1>1, <1>2
<1> QED BY <1>2, <1>3 DEF DocsInv, DocRows, SoundDoc

\* The screening and its resolutions, too.
LEMMA ScreeningKept ==
  ASSUME ScreeningInv, screening' = screening, findings \subseteq findings'
  PROVE  ScreeningInv'
BY DEF ScreeningInv

\* The end of a step: the next one of its wave, or the next wave.
LEMMA AdvanceShape ==
  ASSUME RunInv, run.todo # {}, Advance
  PROVE  /\ DOMAIN run' = {"wave", "todo", "forced"} /\ run'.wave \in Nat \ {0}
         /\ run'.forced = run.forced /\ run'.todo \subseteq level.steps
<1>1. run.wave # 0
  BY DEF RunInv, Idle
<1> DEFINE left == run.todo \ {Current}
<1>2. CASE left # {}
  <2>1. run' = [run EXCEPT !.todo = left]
    BY <1>2, Zenon DEF Advance
  <2> QED BY <1>1, <2>1 DEF RunInv
<1>3. CASE left = {}
  <2> DEFINE next == IF run.wave < Len(Waves) THEN Waves[run.wave + 1] ELSE {}
  <2>1. run' = [run EXCEPT !.wave = @ + 1, !.todo = next]
    BY <1>3, Zenon DEF Advance
  <2>2. next \subseteq level.steps
    <3>1. CASE run.wave < Len(Waves)
      <4>1. /\ Len(Waves) \in Nat \ {0}
            /\ \A i \in 1..Len(Waves) : Waves[i] \subseteq level.steps
        BY WavesShape DEF RunInv
      <4>2. run.wave + 1 \in 1..Len(Waves)
        BY <3>1, <4>1 DEF RunInv
      <4> QED BY <3>1, <4>1, <4>2
    <3> QED BY <3>1
  <2> HIDE DEF next
  <2> QED BY <1>1, <2>1, <2>2 DEF RunInv
<1> QED BY <1>2, <1>3

\* What the applicant row keeps.
RowKept ==
  /\ RowInv' /\ row'.country = row.country /\ row'.verdict = row.verdict

\* A step that records sound rows and tells what they found.
LEMMA RecordKeeps ==
  ASSUME FoundAll, run.todo # {}, NEW new, NEW told,
         recordChecks(new), findings' = findings \cup told, Advance,
         UNCHANGED <<level, runs>>,
         told \subseteq Labels,
         \A r \in new : SoundCheck(r.key, r.check, findings \cup told, runs, Len(docs)),
         RowKept, DocsInv', Len(docs') = Len(docs), ScreeningInv'
  PROVE  FoundAll'
<1>1. /\ DOMAIN run' = {"wave", "todo", "forced"} /\ run'.wave \in Nat \ {0}
      /\ run'.forced = run.forced /\ run'.todo \subseteq level.steps
  BY AdvanceShape DEF FoundAll, FoundInv
<1>2. run.wave # 0
  BY DEF FoundAll, FoundInv, RunInv, Idle
<1>3. RunInv'
  BY <1>1, <1>2 DEF FoundAll, FoundInv, RunInv, RowKept
<1>4. ChecksInv'
  <2>1. Len(docs) \in Nat /\ runs \in Nat
    BY DEF FoundAll, FoundInv, RunInv, DocsInv
  <2>2. SoundChecks(checks, findings \cup told, runs, Len(docs))
    BY <2>1, SoundLonger DEF FoundAll, FoundInv, ChecksInv
  <2>3. SoundChecks(checks', findings \cup told, runs, Len(docs))
    BY <2>2, RecordedSound
  <2>4. findings' \subseteq Labels
    BY DEF FoundAll, FoundInv, ChecksInv
  <2> QED BY <2>3, <2>4 DEF ChecksInv
<1>5. Promise'
  BY RejectionKept DEF FoundAll, RowKept
<1> QED BY <1>3, <1>4, <1>5 DEF FoundAll, FoundInv, RowKept

\* When it leaves the applicant, the documents and the screening as they are.
LEMMA QuietStep ==
  ASSUME FoundAll, run.todo # {}, NEW new, NEW told, Record(new, told),
         UNCHANGED <<row, docs, screening>>,
         told \subseteq Labels,
         \A r \in new : SoundCheck(r.key, r.check, findings \cup told, runs, Len(docs))
  PROVE  FoundAll'
<1>1. /\ recordChecks(new) /\ findings' = findings \cup told /\ Advance
      /\ UNCHANGED <<level, runs>>
  BY DEF Record
<1>2. RowKept
  BY DEF RowKept, RowInv, FoundAll, FoundInv
<1>3. DocsInv'
  BY <1>1, DocsKept DEF FoundAll, FoundInv
<1>4. ScreeningInv'
  BY <1>1, ScreeningKept DEF FoundAll, FoundInv
<1>5. Len(docs') = Len(docs)
  OBVIOUS
<1> QED BY <1>1, <1>2, <1>3, <1>4, <1>5, RecordKeeps

\* A row is sound when its labels are told.
LEMMA SoundRow ==
  ASSUME FoundInv, NEW type, NEW d \in 0..Len(docs), NEW check, NEW told,
         Fresh(check), check.labels \subseteq Labels,
         check.labels \subseteq told \cup Excused,
         type = "DUPLICATE_IDENTITY" /\ check.result = "FAIL"
           => "DUPLICATE_ACCOUNT" \in check.labels,
         type = "DUPLICATE_FACE" /\ check.result = "FAIL"
           => "DUPLICATE_FACE" \in check.labels,
         NEW r, r = Recorded(type, d, check)
  PROVE  /\ SoundCheck(r.key, r.check, findings \cup told, runs, Len(docs))
         /\ r.check = check
<1>1. r.key = <<type, d>> /\ r.check = check
  BY DEF Recorded
<1>2. r.key[1] = type /\ r.key[2] = d
  BY <1>1
<1>3. runs \in Nat
  BY DEF FoundInv, RunInv
<1>4. check.at \in 0..runs /\ check.score \in Int
  BY <1>3 DEF Fresh
<1> QED BY <1>1, <1>2, <1>4 DEF SoundCheck

\* So a step that fails, is skipped, or passes tells nothing.
LEMMA NothingTold ==
  ASSUME FoundAll, run.todo # {}, NEW type, NEW d \in 0..Len(docs), NEW check,
         Record({Recorded(type, d, check)}, {}),
         UNCHANGED <<row, docs, screening>>,
         type \notin {"DUPLICATE_IDENTITY", "DUPLICATE_FACE"},
         Fresh(check), check.labels \subseteq Excused
  PROVE  FoundAll'
<1>1. Excused \subseteq Labels
  BY StepLabels DEF Excused, RetryLabels
<1>2. SoundCheck(Recorded(type, d, check).key, Recorded(type, d, check).check,
                 findings \cup {}, runs, Len(docs))
  BY <1>1, SoundRow DEF FoundAll
<1> DEFINE new  == {Recorded(type, d, check)}
           told == {}
<1>3. \A r \in new : SoundCheck(r.key, r.check, findings \cup told, runs, Len(docs))
  BY <1>2
<1>4. Record(new, told) /\ told \subseteq Labels
  OBVIOUS
<1> HIDE DEF new, told
<1> QED BY <1>3, <1>4, QuietStep

----------------------------------------------------------------------------
(* The steps of a run, one by one.                                         *)

\* Documents of some types are among the documents.
LEMMA OfTypes == \A types : OfType(types) \subseteq Rows /\ (DocsInv => Rows = 1..Len(docs))
BY DEF OfType, Rows, DocsInv

\* The document of a step, the selfie, the identity document: one of the documents,
\* or none.
LEMMA Picked ==
  ASSUME FoundAll, NEW types
  PROVE  /\ Newest(OfType(types)) \in 0..Len(docs)
         /\ Newest(OfType(types)) # 0 =>
              /\ Newest(OfType(types)) \in 1..Len(docs)
              /\ Newest(OfType(types)) \in OfType(types)
         /\ Newest(OfType(types) \cap Live) \in 0..Len(docs)
         /\ Newest(OfType(types) \cap Live) # 0 =>
              /\ Newest(OfType(types) \cap Live) \in 1..Len(docs)
              /\ Newest(OfType(types) \cap Live) \in OfType(types)
<1>1. DocsInv
  BY DEF FoundAll, FoundInv
<1>2. Len(docs) \in Nat
  BY <1>1 DEF DocsInv
<1>3. OfType(types) \subseteq 1..Len(docs) /\ OfType(types) \cap Live \subseteq 1..Len(docs)
  BY <1>1, OfTypes
<1> DEFINE all  == OfType(types)
           live == all \cap Live
<1>5. all \subseteq 1..Len(docs) /\ live \subseteq 1..Len(docs) /\ live \subseteq all
  BY <1>3
<1> HIDE DEF all, live
<1>6. /\ Newest(all) \in all \cup {0} /\ Newest(all) \in 0..Len(docs)
      /\ Newest(all) # 0 => Newest(all) \in 1..Len(docs)
  BY <1>2, <1>5, NewestIs
<1>7. /\ Newest(live) \in live \cup {0} /\ Newest(live) \in 0..Len(docs)
      /\ Newest(live) # 0 => Newest(live) \in 1..Len(docs)
  BY <1>2, <1>5, NewestIs
<1> QED BY <1>5, <1>6, <1>7 DEF all, live

\* No step's check is one of a duplicate.
LEMMA OwnType == \A s : checkTypeForStep(s) \notin {"DUPLICATE_IDENTITY", "DUPLICATE_FACE"}
<1> SUFFICES ASSUME NEW s
             PROVE  checkTypeForStep(s) \notin {"DUPLICATE_IDENTITY", "DUPLICATE_FACE"}
  OBVIOUS
<1>1. CASE s.type \in {"LIVENESS", "AML_SCREENING", "PROOF_OF_ADDRESS",
                       "AGE_ESTIMATION", "APPLICANT_DATA"}
  BY <1>1 DEF checkTypeForStep
<1>2. CASE s.type \notin {"LIVENESS", "AML_SCREENING", "PROOF_OF_ADDRESS",
                          "AGE_ESTIMATION", "APPLICANT_DATA"}
  BY <1>2 DEF checkTypeForStep
<1> QED BY <1>1, <1>2

\* A step under way.
LEMMA UnderWay == \A types : At(types) => run.todo # {} /\ Current \in run.todo
                                             /\ Current.type \in types
BY DEF At, Current

\* A step throws.
LEMMA ThrowKeeps ==
  ASSUME FoundAll, StepThrows
  PROVE  FoundAll'
<1>1. /\ run.todo # {} /\ Record({Recorded(checkTypeForStep(Current), 0, Failed)}, {})
      /\ UNCHANGED <<row, docs, screening>>
  BY DEF StepThrows, Record
<1>2. Fresh(Failed) /\ Failed.labels \subseteq Excused
  BY CheckFields
<1>3. 0 \in 0..Len(docs)
  BY DEF FoundAll, FoundInv, DocsInv
<1> QED BY <1>1, <1>2, <1>3, OwnType, NothingTold

\* What a step that is skipped leaves is excused.
LEMMA SkippedIs ==
  ASSUME NEW required, NEW label \in Excused \cup {""}
  PROVE  Fresh(Skipped(required, label)) /\ Skipped(required, label).labels \subseteq Excused
<1>1. Skipped(required, label).labels \subseteq {label} \ {""}
  BY CheckFields
<1>2. Fresh(Skipped(required, label))
  BY CheckFields
<1>3. {label} \ {""} \subseteq Excused
  OBVIOUS
<1> QED BY <1>1, <1>2, <1>3, Zenon

\* No document to read, or OCR fails.
LEMMA UnreadKeeps ==
  ASSUME FoundAll, DocumentMissing \/ OcrFails
  PROVE  FoundAll'
<1>0. 0 \in 0..Len(docs)
  BY DEF FoundAll, FoundInv, DocsInv
<1>1. CASE DocumentMissing
  <2> DEFINE check == Skipped(Current.required, "ADDITIONAL_DOCUMENTS_REQUIRED")
  <2>1. run.todo # {}
    BY <1>1, UnderWay DEF DocumentMissing
  <2>2. /\ Record({Recorded("DOCUMENT_OCR", 0, check)}, {})
        /\ UNCHANGED <<row, docs, screening>>
    BY <1>1, Zenon DEF DocumentMissing
  <2>3. Fresh(check) /\ check.labels \subseteq Excused
    BY SkippedIs DEF Excused
  <2> HIDE DEF check
  <2> QED BY <1>0, <2>1, <2>2, <2>3, NothingTold
<1>2. CASE OcrFails
  <2>1. run.todo # {}
    BY <1>2, UnderWay DEF OcrFails
  <2>2. /\ Record({Recorded("DOCUMENT_OCR", DocumentOfStep, Failed)}, {})
        /\ UNCHANGED <<row, docs, screening>>
    BY <1>2, Zenon DEF OcrFails
  <2>3. Fresh(Failed) /\ Failed.labels \subseteq Excused
    BY CheckFields
  <2>4. DocumentOfStep \in 0..Len(docs)
    BY Picked, Zenon DEF DocumentOfStep
  <2> QED BY <2>1, <2>2, <2>3, <2>4, NothingTold
<1> QED BY <1>1, <1>2

\* Nothing to compare a face with, or the provider fails.
LEMMA UncomparedKeeps ==
  ASSUME FoundAll, BiometricsMissing \/ BiometricsFail
  PROVE  FoundAll'
<1>0. 0 \in 0..Len(docs) /\ Selfie \in 0..Len(docs)
  <2>1. 0 \in 0..Len(docs)
    BY DEF FoundAll, FoundInv, DocsInv
  <2>2. Selfie \in 0..Len(docs)
    BY Picked, Zenon DEF Selfie
  <2> QED BY <2>1, <2>2
<1>1. CASE BiometricsMissing
  <2>1. run.todo # {}
    BY <1>1, UnderWay DEF BiometricsMissing
  <2>2. /\ Record({Recorded(checkTypeForStep(Current), 0, Skipped(FALSE, ""))}, {})
        /\ UNCHANGED <<row, docs, screening>>
    BY <1>1, Zenon DEF BiometricsMissing
  <2>3. Fresh(Skipped(FALSE, "")) /\ Skipped(FALSE, "").labels \subseteq Excused
    BY SkippedIs
  <2> QED BY <1>0, <2>1, <2>2, <2>3, OwnType, NothingTold
<1>2. CASE BiometricsFail
  <2>1. run.todo # {}
    BY <1>2, UnderWay DEF BiometricsFail
  <2>2. /\ Record({Recorded(checkTypeForStep(Current), Selfie, Failed)}, {})
        /\ UNCHANGED <<row, docs, screening>>
    BY <1>2, Zenon DEF BiometricsFail
  <2>3. Fresh(Failed) /\ Failed.labels \subseteq Excused
    BY CheckFields
  <2> QED BY <1>0, <2>1, <2>2, <2>3, OwnType, NothingTold
<1> QED BY <1>1, <1>2

\* A label that applies when a condition holds.
LEMMA WhenIs == \A c, l : When(c, l) \subseteq {l} /\ (c => When(c, l) = {l})
                                                /\ (~c => When(c, l) = {})
BY DEF When

\* What OCR finds fault with.
LEMMA OcrLabelsAre ==
  ASSUME NEW p, p.defects \subseteq QualityDefects
  PROVE  /\ OcrLabels(p) \subseteq Labels
         /\ p.expiredFor > 0 => "DOCUMENT_EXPIRED" \in OcrLabels(p)
<1> DEFINE S == RetryLabels \cup HardLabels
<1>1. \A c, l : l \in S => When(c, l) \subseteq S
  BY WhenIs, Zenon
<1>2. QualityDefects \subseteq S
  BY DEF QualityDefects, RetryLabels
<1>3. /\ (IF hasMachineReadableZone(p.type) THEN "DOCUMENT_UNREADABLE"
          ELSE "NOT_MACHINE_READABLE") \in S
      /\ "MRZ_INCOMPLETE" \in S /\ "OBSCURED_DATA" \in S /\ "DOCUMENT_EXPIRED" \in S
      /\ "DOCUMENT_EXPIRING_SOON" \in S /\ "UNDERAGE" \in S /\ "NAME_MISMATCH" \in S
      /\ "DOB_MISMATCH" \in S
  BY DEF RetryLabels, HardLabels
<1>4. S \subseteq Labels
  BY StepLabels
<1> HIDE DEF S
<1> DEFINE any == p.number # "" \/ p.age >= 0 \/ p.name # ""
           c4  == /\ p.expiredFor # Unread /\ p.expiredFor <= 0
                  /\ level.minValidityDays > 0 /\ -p.expiredFor < level.minValidityDays
           c5  == p.age >= 0 /\ p.age < level.minAge
           c6  == p.name \notin {"", row.name}
           c7  == p.age >= 0 /\ p.age # row.age
           l1  == IF hasMachineReadableZone(p.type) THEN "DOCUMENT_UNREADABLE"
                  ELSE "NOT_MACHINE_READABLE"
           c1  == ~any
           c2  == any /\ p.partialMrz
           c3  == any /\ p.name = ""
<1>5. OcrLabels(p) = UNION {When(c1, l1), When(c2, "MRZ_INCOMPLETE"),
        When(c3, "OBSCURED_DATA"), p.defects, When(p.expiredFor > 0, "DOCUMENT_EXPIRED"),
        When(c4, "DOCUMENT_EXPIRING_SOON"), When(c5, "UNDERAGE"),
        When(c6, "NAME_MISMATCH"), When(c7, "DOB_MISMATCH")}
  BY Zenon DEF OcrLabels
<1>l. l1 \in S
  BY <1>3, Zenon
<1> HIDE DEF any, c1, c2, c3, c4, c5, c6, c7, l1
<1>6. p.defects \subseteq S
  BY <1>2
<1>7. /\ When(c1, l1) \subseteq S /\ When(c2, "MRZ_INCOMPLETE") \subseteq S
      /\ When(c3, "OBSCURED_DATA") \subseteq S
      /\ When(p.expiredFor > 0, "DOCUMENT_EXPIRED") \subseteq S
      /\ When(c4, "DOCUMENT_EXPIRING_SOON") \subseteq S /\ When(c5, "UNDERAGE") \subseteq S
      /\ When(c6, "NAME_MISMATCH") \subseteq S /\ When(c7, "DOB_MISMATCH") \subseteq S
  BY <1>1, <1>3, <1>l, Zenon
<1>8. \A x \in OcrLabels(p) : x \in S
  BY <1>5, <1>6, <1>7, Zenon
<1>9. p.expiredFor > 0 => "DOCUMENT_EXPIRED" \in OcrLabels(p)
  <2> SUFFICES ASSUME p.expiredFor > 0 PROVE "DOCUMENT_EXPIRED" \in OcrLabels(p)
    OBVIOUS
  <2>1. "DOCUMENT_EXPIRED" \in When(p.expiredFor > 0, "DOCUMENT_EXPIRED")
    BY Zenon DEF When
  <2> QED BY <1>5, <2>1, Zenon
<1> QED BY <1>4, <1>8, <1>9

\* What the liveness check finds fault with.
LEMMA LivenessLabelsAre == \A p : LivenessLabels(p) \subseteq Labels
<1> SUFFICES ASSUME NEW p PROVE LivenessLabels(p) \subseteq Labels
  OBVIOUS
<1> DEFINE S == RetryLabels \cup HardLabels
<1>1. {"SPOOF_ATTEMPT", "NO_FACE_DETECTED", "MULTIPLE_FACES", "LIVENESS_FAILED",
       "FACE_OBSCURED"} \subseteq S
  BY DEF RetryLabels, HardLabels
<1>2. S \subseteq Labels
  BY StepLabels
<1> HIDE DEF S
<1>3. \A c, l : When(c, l) \subseteq {l}
  BY WhenIs, Zenon
<1> DEFINE first == CASE p.spoof -> {"SPOOF_ATTEMPT"}
                      [] ~p.spoof /\ p.faces = 0 -> {"NO_FACE_DETECTED"}
                      [] ~p.spoof /\ p.faces > 1 -> {"MULTIPLE_FACES"}
                      [] OTHER -> When(p.live < level.livenessThreshold, "LIVENESS_FAILED")
<1>4. first \subseteq S
  BY <1>1, <1>3
<1>5. LivenessLabels(p) = first \cup When(p.occluded, "FACE_OBSCURED")
  BY Zenon DEF LivenessLabels
<1>6. When(p.occluded, "FACE_OBSCURED") \subseteq S
  BY <1>1, <1>3
<1> HIDE DEF first
<1> QED BY <1>2, <1>4, <1>5, <1>6

\* And the check of an address.
LEMMA AddressLabelsAre == \A p : AddressLabels(p) \subseteq Labels
<1> SUFFICES ASSUME NEW p PROVE AddressLabels(p) \subseteq Labels
  OBVIOUS
<1>1. {"PROOF_OF_ADDRESS_TOO_OLD", "NOT_MACHINE_READABLE"} \subseteq Labels
  BY StepLabels DEF RetryLabels, HardLabels
<1>2. \A c, l : When(c, l) \subseteq {l}
  BY WhenIs, Zenon
<1>3. PICK c1, c2 : AddressLabels(p) = When(c1, "PROOF_OF_ADDRESS_TOO_OLD")
                                         \cup When(c2, "NOT_MACHINE_READABLE")
  BY Zenon DEF AddressLabels
<1>4. /\ When(c1, "PROOF_OF_ADDRESS_TOO_OLD") \subseteq {"PROOF_OF_ADDRESS_TOO_OLD"}
      /\ When(c2, "NOT_MACHINE_READABLE") \subseteq {"NOT_MACHINE_READABLE"}
  BY <1>2
<1> QED BY <1>1, <1>3, <1>4

\* A row of this run that holds labels of the taxonomy, and one for a duplicate.
RowFits(r) ==
  \E type, check : \E d \in 0..Len(docs) :
    /\ r = Recorded(type, d, check)
    /\ Fresh(check) /\ check.labels \subseteq Labels
    /\ (type = "DUPLICATE_IDENTITY" /\ check.result = "FAIL"
          => "DUPLICATE_ACCOUNT" \in check.labels)
    /\ (type = "DUPLICATE_FACE" /\ check.result = "FAIL"
          => "DUPLICATE_FACE" \in check.labels)

\* Such rows are sound when their labels are told.
LEMMA AllTold ==
  ASSUME FoundInv, NEW new, NEW more, \A r \in new : RowFits(r)
  PROVE  /\ LabelsOf(new) \subseteq Labels
         /\ \A r \in new : SoundCheck(r.key, r.check, findings \cup (LabelsOf(new) \cup more),
                                      runs, Len(docs))
<1> DEFINE told == LabelsOf(new) \cup more
<1>1. ASSUME NEW r \in new
      PROVE  /\ r.check.labels \subseteq Labels
             /\ SoundCheck(r.key, r.check, findings \cup told, runs, Len(docs))
  <2>1. PICK type, check : \E d \in 0..Len(docs) :
          /\ r = Recorded(type, d, check)
          /\ Fresh(check) /\ check.labels \subseteq Labels
          /\ (type = "DUPLICATE_IDENTITY" /\ check.result = "FAIL"
                => "DUPLICATE_ACCOUNT" \in check.labels)
          /\ (type = "DUPLICATE_FACE" /\ check.result = "FAIL"
                => "DUPLICATE_FACE" \in check.labels)
    BY Zenon DEF RowFits
  <2>2. PICK d \in 0..Len(docs) : r = Recorded(type, d, check)
    BY <2>1
  <2>3. r.check = check /\ r.key = <<type, d>>
    BY <2>2 DEF Recorded
  <2>4. check.labels \subseteq told
    BY <2>3 DEF LabelsOf
  <2> HIDE DEF told
  <2>5. check.labels \subseteq told \cup Excused
    BY <2>4
  <2>6. r.key[1] = type /\ r.key[2] = d
    BY <2>3
  <2>7. check.at \in 0..runs /\ check.score \in Int
    BY <2>1 DEF FoundInv, RunInv, Fresh
  <2>8. SoundCheck(r.key, r.check, findings \cup told, runs, Len(docs))
    BY <2>1, <2>3, <2>5, <2>6, <2>7 DEF SoundCheck
  <2> QED BY <2>1, <2>3, <2>8
<1>2. LabelsOf(new) \subseteq Labels
  <2>1. \A r \in new : r.check.labels \subseteq Labels
    BY <1>1
  <2>2. \A x \in LabelsOf(new) : \E r \in new : x \in r.check.labels
    BY DEF LabelsOf
  <2> QED BY <2>1, <2>2
<1> QED BY <1>1, <1>2

\* A step that tells the labels of its rows.
LEMMA ToldStep ==
  ASSUME FoundAll, run.todo # {}, NEW new, Record(new, LabelsOf(new)),
         UNCHANGED <<row, docs, screening>>, \A r \in new : RowFits(r)
  PROVE  FoundAll'
<1> DEFINE told == LabelsOf(new)
<1>1. told \cup {} = told
  OBVIOUS
<1>2. /\ LabelsOf(new) \subseteq Labels
      /\ \A r \in new : SoundCheck(r.key, r.check, findings \cup (told \cup {}),
                                   runs, Len(docs))
  BY AllTold DEF FoundAll
<1> HIDE DEF told
<1>3. \A r \in new : SoundCheck(r.key, r.check, findings \cup told, runs, Len(docs))
  BY <1>1, <1>2
<1>4. told \subseteq Labels /\ Record(new, told)
  BY <1>2 DEF told
<1> QED BY <1>3, <1>4, QuietStep

\* A row of a check that comes to no duplicate,
LEMMA PlainFits ==
  ASSUME NEW type, NEW d \in 0..Len(docs), NEW check,
         Fresh(check), check.labels \subseteq Labels,
         type \notin {"DUPLICATE_IDENTITY", "DUPLICATE_FACE"}
  PROVE  RowFits(Recorded(type, d, check))
BY DEF RowFits

\* and of one that does, or ends without.
LEMMA DuplicateFits ==
  ASSUME NEW type, NEW d \in 0..Len(docs), NEW check, NEW result, NEW labels,
         check = Completed(result, labels), labels \subseteq Labels,
         \/ result # "FAIL"
         \/ type = "DUPLICATE_IDENTITY" /\ "DUPLICATE_ACCOUNT" \in labels
         \/ type = "DUPLICATE_FACE" /\ "DUPLICATE_FACE" \in labels
  PROVE  RowFits(Recorded(type, d, check))
<1>1. Fresh(check) /\ check.labels = labels /\ check.result = result
  BY DEF Completed, Fresh
<1> QED BY <1>1 DEF RowFits

\* A selfie is examined: is it a live face, and one that is known?
LEMMA LivenessKeeps ==
  ASSUME FoundAll, CheckLiveness
  PROVE  FoundAll'
<1> DEFINE p      == Picture(docs[Selfie].image)
           labels == LivenessLabels(p)
           first  == Recorded("LIVENESS", Selfie,
                       Completed(IF labels = {} THEN "PASS" ELSE "FAIL", labels))
           new    == {first} \cup FaceIndexCheck(p)
<1>1. /\ run.todo # {} /\ Record(new, LabelsOf(new)) /\ UNCHANGED <<row, docs, screening>>
  <2>1. At({"LIVENESS"}) /\ Record(new, LabelsOf(new)) /\ UNCHANGED <<row, docs, screening>>
    BY Zenon DEF CheckLiveness
  <2> HIDE DEF new
  <2> QED BY <2>1, UnderWay
<1>2. Selfie \in 0..Len(docs) /\ 0 \in 0..Len(docs)
  <2>1. Selfie \in 0..Len(docs)
    BY Picked, Zenon DEF Selfie
  <2> QED BY <2>1 DEF FoundAll, FoundInv, DocsInv
<1>3. RowFits(first)
  <2>1. labels \subseteq Labels
    BY LivenessLabelsAre
  <2> DEFINE result == IF labels = {} THEN "PASS" ELSE "FAIL"
             check  == Completed(result, labels)
  <2> HIDE DEF labels, result
  <2>2. Fresh(check) /\ check.labels \subseteq Labels
    BY <2>1 DEF Completed, Fresh
  <2> HIDE DEF check
  <2>3. RowFits(Recorded("LIVENESS", Selfie, check))
    BY <1>2, <2>2, PlainFits
  <2> QED BY <2>3 DEF check, result
<1>4. \A r \in FaceIndexCheck(p) : RowFits(r)
  <2> DEFINE result == IF p.knownFace = "other" THEN "FAIL" ELSE "WARNING"
             told   == IF p.knownFace = "other" THEN {"DUPLICATE_FACE"} ELSE {}
             check  == IF p.knownFace = "other" THEN Completed("FAIL", {"DUPLICATE_FACE"})
                       ELSE Completed("WARNING", {})
  <2>1. FaceIndexCheck(p) \subseteq {Recorded("DUPLICATE_FACE", 0, check)}
    BY WhenIs, Zenon DEF FaceIndexCheck
  <2>2. check = Completed(result, told)
    BY Zenon
  <2>3. told \subseteq Labels /\ (result = "FAIL" => "DUPLICATE_FACE" \in told)
    BY StepLabels DEF HardLabels
  <2> HIDE DEF check, result, told
  <2>4. RowFits(Recorded("DUPLICATE_FACE", 0, check))
    BY <1>2, <2>2, <2>3, DuplicateFits
  <2> QED BY <2>1, <2>4, Zenon
<1>5. \A r \in new : RowFits(r)
  <2> HIDE DEF first, p
  <2> QED BY <1>3, <1>4
<1> HIDE DEF new
<1> QED BY <1>1, <1>5, ToldStep

\* Two faces are compared.
LEMMA FaceMatchKeeps ==
  ASSUME FoundAll, MatchFace
  PROVE  FoundAll'
<1> DEFINE similarity == Picture(docs[Selfie].image).similarity
           mismatch   == When(similarity < level.faceMatchThreshold, "SELFIE_MISMATCH")
           check      == Scored(IF mismatch = {} THEN "PASS" ELSE "FAIL", mismatch, similarity)
           new        == {Recorded("FACE_MATCH", Selfie, check)}
<1>1. /\ run.todo # {} /\ Record(new, mismatch) /\ UNCHANGED <<row, docs, screening>>
  <2>1. At({"SELFIE"}) /\ Record(new, mismatch) /\ UNCHANGED <<row, docs, screening>>
    BY Zenon DEF MatchFace
  <2> HIDE DEF new
  <2> QED BY <2>1, UnderWay
<1>2. Selfie \in 0..Len(docs)
  BY Picked, Zenon DEF Selfie
<1>3. mismatch \subseteq Labels
  <2>1. mismatch \subseteq {"SELFIE_MISMATCH"}
    BY WhenIs, Zenon
  <2> HIDE DEF mismatch
  <2> QED BY <2>1, StepLabels DEF RetryLabels
<1>s. similarity \in Int
  <2>1. Selfie \in 1..Len(docs) /\ Selfie \in OfType(SelfieTypes)
    BY Picked, Zenon DEF Selfie, MatchFace
  <2>2. Picture(docs[Selfie].image).type \in SelfieTypes
    BY <2>1 DEF OfType
  <2>3. docs[Selfie].image \in Images
    <3>1. docs \in Seq(DocRows)
      BY DEF FoundAll, FoundInv, DocsInv
    <3>2. docs[Selfie] \in DocRows
      BY <2>1, <3>1
    <3> QED BY <3>2 DEF DocRows
  <2> QED BY <2>2, <2>3, FacePicture
<1>4. Fresh(check) /\ check.labels = mismatch
  <2> HIDE DEF similarity
  <2> QED BY <1>s DEF Scored, Completed, Fresh
<1>5. LabelsOf(new) = mismatch
  <2>1. Recorded("FACE_MATCH", Selfie, check).check = check
    BY Zenon DEF Recorded
  <2> HIDE DEF check, mismatch
  <2> QED BY <1>4, <2>1 DEF LabelsOf
<1>6. RowFits(Recorded("FACE_MATCH", Selfie, check))
  <2> HIDE DEF check, mismatch
  <2> QED BY <1>2, <1>3, <1>4, PlainFits
<1>7. \A r \in new : RowFits(r)
  BY <1>6
<1> HIDE DEF new
<1> QED BY <1>1, <1>5, <1>7, ToldStep

\* A telephone number or an address is looked up.
LEMMA ContactKeeps ==
  ASSUME FoundAll, NEW answer \in Contacts, AssessContact(answer)
  PROVE  FoundAll'
<1> DEFINE check == CASE answer = "valid"   -> Completed("PASS", {})
                      [] answer = "risky"   -> Completed("WARNING", {})
                      [] answer = "invalid" -> Completed("FAIL", {})
                      [] answer = "missing" -> Skipped(FALSE, "")
                      [] answer = "outage"  -> Failed
<1>1. /\ run.todo # {} /\ UNCHANGED <<row, docs, screening>>
      /\ Record({Recorded(checkTypeForStep(Current), 0, check)}, {})
  <2>1. /\ At({"EMAIL_VERIFICATION", "PHONE_VERIFICATION"})
        /\ Record({Recorded(checkTypeForStep(Current), 0, check)}, {})
        /\ UNCHANGED <<row, docs, screening>>
    BY Zenon DEF AssessContact
  <2> HIDE DEF check
  <2> QED BY <2>1, UnderWay
<1>2. Fresh(check) /\ check.labels \subseteq Excused
  <2>1. /\ Fresh(Failed) /\ Failed.labels = {}
        /\ Fresh(Skipped(FALSE, "")) /\ Skipped(FALSE, "").labels = {}
        /\ \A result : /\ Fresh(Completed(result, {}))
                       /\ Completed(result, {}).labels = {}
    BY DEF Failed, Skipped, Completed, Fresh
  <2>2. check \in {Completed("PASS", {}), Completed("WARNING", {}), Completed("FAIL", {}),
                   Skipped(FALSE, ""), Failed}
    BY Zenon DEF Contacts
  <2> HIDE DEF check
  <2> QED BY <2>1, <2>2
<1>3. 0 \in 0..Len(docs)
  BY DEF FoundAll, FoundInv, DocsInv
<1> HIDE DEF check
<1> QED BY <1>1, <1>2, <1>3, OwnType, NothingTold

\* What the applicant has declared is looked at.
LEMMA DeclaredKeeps ==
  ASSUME FoundAll, CheckApplicantData
  PROVE  FoundAll'
<1> DEFINE missing == missingApplicantFields(DEFAULT_REQUIRED_APPLICANT_FIELDS, Declared)
           check   == IF missing = {} THEN Completed("PASS", {})
                      ELSE Completed("FAIL", {"ADDITIONAL_DOCUMENTS_REQUIRED"})
           twin    == Recorded("DUPLICATE_IDENTITY", 0,
                               Completed("FAIL", {"DUPLICATE_ACCOUNT"}))
           new     == {Recorded("APPLICANT_DATA", 0, check)}
                        \cup When(row.name # "" /\ row.twin, twin)
<1>1. /\ run.todo # {} /\ Record(new, LabelsOf(new)) /\ UNCHANGED <<row, docs, screening>>
  <2>1. /\ At({"APPLICANT_DATA"}) /\ Record(new, LabelsOf(new))
        /\ UNCHANGED <<row, docs, screening>>
    BY Zenon DEF CheckApplicantData
  <2> HIDE DEF new
  <2> QED BY <2>1, UnderWay
<1>2. 0 \in 0..Len(docs)
  BY DEF FoundAll, FoundInv, DocsInv
<1>3. {"ADDITIONAL_DOCUMENTS_REQUIRED", "DUPLICATE_ACCOUNT"} \subseteq Labels
  BY StepLabels DEF RetryLabels, HardLabels
<1>4. Fresh(check) /\ check.labels \subseteq Labels
  <2>1. \A result, labels : /\ Fresh(Completed(result, labels))
                            /\ Completed(result, labels).labels = labels
    BY DEF Completed, Fresh
  <2>2. check \in {Completed("PASS", {}),
                   Completed("FAIL", {"ADDITIONAL_DOCUMENTS_REQUIRED"})}
    BY Zenon
  <2> HIDE DEF check
  <2> QED BY <1>3, <2>1, <2>2
<1>5. RowFits(Recorded("APPLICANT_DATA", 0, check))
  <2> HIDE DEF check
  <2> QED BY <1>2, <1>4, PlainFits
<1>6. RowFits(twin)
  <2> DEFINE double == Completed("FAIL", {"DUPLICATE_ACCOUNT"})
             told   == {"DUPLICATE_ACCOUNT"}
  <2>1. told \subseteq Labels /\ "DUPLICATE_ACCOUNT" \in told
    BY <1>3
  <2>2. double = Completed("FAIL", told)
    OBVIOUS
  <2> HIDE DEF double, told
  <2>3. RowFits(Recorded("DUPLICATE_IDENTITY", 0, double))
    BY <1>2, <2>1, <2>2, DuplicateFits
  <2> QED BY <2>3 DEF double
<1> HIDE DEF twin, check
<1>7. \A r \in new : RowFits(r)
  BY <1>5, <1>6, WhenIs
<1> HIDE DEF new
<1> QED BY <1>1, <1>7, ToldStep

\* A proof of address is examined.
LEMMA AddressKeeps ==
  ASSUME FoundAll, NEW answered \in BOOLEAN, CheckAddress(answered)
  PROVE  FoundAll'
<1> DEFINE d      == Newest(OfType(Current.acceptedDocumentTypes))
           labels == AddressLabels(Picture(docs[d].image))
           check  == CASE d = 0 -> Skipped(Current.required, "ADDITIONAL_DOCUMENTS_REQUIRED")
                       [] d # 0 /\ ~answered -> Failed
                       [] OTHER -> Completed(IF labels = {} THEN "PASS" ELSE "FAIL", labels)
           told   == IF d # 0 /\ answered THEN labels ELSE {}
           new    == {Recorded("PROOF_OF_ADDRESS", d, check)}
<1>1. /\ run.todo # {} /\ UNCHANGED <<row, docs, screening>> /\ Record(new, told)
  <2>1. /\ At({"PROOF_OF_ADDRESS"}) /\ Record(new, told)
        /\ UNCHANGED <<row, docs, screening>>
    BY Zenon DEF CheckAddress
  <2> HIDE DEF new, told
  <2> QED BY <2>1, UnderWay
<1>2. d \in 0..Len(docs)
  BY Picked, Zenon
<1>3. labels \subseteq Labels
  BY AddressLabelsAre
<1> HIDE DEF labels, d
<1>4. Fresh(check) /\ check.labels \subseteq told \cup Excused
  <2>1. CASE d = 0
    <3>1. check = Skipped(Current.required, "ADDITIONAL_DOCUMENTS_REQUIRED")
      BY <2>1, Zenon
    <3> HIDE DEF check, told
    <3> QED BY <3>1, SkippedIs DEF Excused
  <2>2. CASE d # 0 /\ ~answered
    <3>1. check = Failed
      BY <2>2, Zenon
    <3> HIDE DEF check, told
    <3> QED BY <3>1 DEF Failed, Fresh
  <2>3. CASE d # 0 /\ answered
    <3> DEFINE result == IF labels = {} THEN "PASS" ELSE "FAIL"
    <3>1. check = Completed(result, labels) /\ told = labels
      BY <2>3, Zenon
    <3> HIDE DEF check, told, result
    <3> QED BY <3>1 DEF Completed, Fresh
  <2> QED BY <2>1, <2>2, <2>3
<1>5. told \subseteq Labels
  BY <1>3
<1> HIDE DEF check, told
<1>6. check.labels \subseteq Labels
  BY <1>4, <1>5, StepLabels DEF Excused, RetryLabels
<1>7. SoundCheck(Recorded("PROOF_OF_ADDRESS", d, check).key,
                 Recorded("PROOF_OF_ADDRESS", d, check).check,
                 findings \cup told, runs, Len(docs))
  BY <1>2, <1>4, <1>6, SoundRow DEF FoundAll
<1>8. \A r \in new : SoundCheck(r.key, r.check, findings \cup told, runs, Len(docs))
  BY <1>7
<1> HIDE DEF new
<1> QED BY <1>1, <1>5, <1>8, QuietStep

\* The step of the chip looks for what the phone has read.
LEMMA ChipKeeps ==
  ASSUME FoundAll, LookForChip
  PROVE  FoundAll'
<1> DEFINE check == Skipped(Current.required, "REQUIRED_STEP_NOT_PERFORMED")
           read  == /\ <<"NFC_CHIP", 0>> \in DOMAIN checks
                    /\ checks[<<"NFC_CHIP", 0>>].status = "COMPLETED"
<1>1. /\ run.todo # {} /\ UNCHANGED <<row, docs, screening>>
      /\ Record(IF read THEN {} ELSE {Recorded("NFC_CHIP", 0, check)}, {})
  <2>1. /\ At({"NFC_READ"}) /\ UNCHANGED <<row, docs, screening>>
        /\ Record(IF read THEN {} ELSE {Recorded("NFC_CHIP", 0, check)}, {})
    BY Zenon DEF LookForChip
  <2> HIDE DEF check, read
  <2> QED BY <2>1, UnderWay
<1>2. 0 \in 0..Len(docs)
  BY DEF FoundAll, FoundInv, DocsInv
<1>3. Fresh(check) /\ check.labels \subseteq Excused
  BY SkippedIs DEF Excused
<1> HIDE DEF check, read
<1>4. CASE read
  <2> DEFINE new  == {}
             told == {}
  <2>1. /\ Record(new, told) /\ told \subseteq Labels
        /\ \A r \in new : SoundCheck(r.key, r.check, findings \cup told, runs, Len(docs))
    BY <1>1, <1>4
  <2> HIDE DEF new, told
  <2> QED BY <1>1, <2>1, QuietStep
<1>5. CASE ~read
  <2>1. Record({Recorded("NFC_CHIP", 0, check)}, {})
    BY <1>1, <1>5
  <2> QED BY <1>1, <1>2, <1>3, <2>1, NothingTold
<1> QED BY <1>4, <1>5

\* A screening answers, fails, or has no name to look for; and a step nothing automates.
LEMMA ScreenKeeps ==
  ASSUME FoundAll, NEW answered \in BOOLEAN, Screen(answered)
  PROVE  FoundAll'
<1> DEFINE check == IF ~answered THEN Failed
                    ELSE Completed(IF screening.listed = {} THEN "PASS" ELSE "WARNING", {})
           matches == IF answered THEN screening.listed ELSE {}
           new  == {Recorded("AML_SCREENING", 0, check)}
           told == {}
<1>1. /\ run.todo # {} /\ UNCHANGED <<row, docs>> /\ Record(new, told)
      /\ screening' = [screening EXCEPT !.matched = matches]
  <2>1. /\ At({"AML_SCREENING"}) /\ Record(new, told) /\ UNCHANGED <<row, docs>>
        /\ screening' = [screening EXCEPT !.matched = matches]
    BY Zenon DEF Screen
  <2> HIDE DEF new, told, matches
  <2> QED BY <2>1, UnderWay
<1>2. Fresh(check) /\ check.labels = {}
  <2>1. /\ Fresh(Failed) /\ Failed.labels = {}
        /\ \A result : Fresh(Completed(result, {})) /\ Completed(result, {}).labels = {}
    BY DEF Failed, Completed, Fresh
  <2>2. check = Failed \/ \E result : check = Completed(result, {})
    BY Zenon
  <2> HIDE DEF check
  <2> QED BY <2>1, <2>2
<1>3. 0 \in 0..Len(docs)
  BY DEF FoundAll, FoundInv, DocsInv
<1>m. matches \subseteq Entries
  BY DEF FoundAll, FoundInv, ScreeningInv
<1> HIDE DEF check, matches
<1>4. SoundCheck(Recorded("AML_SCREENING", 0, check).key,
                 Recorded("AML_SCREENING", 0, check).check,
                 findings \cup told, runs, Len(docs))
  BY <1>2, <1>3, SoundRow DEF FoundAll
<1>5. /\ told \subseteq Labels
      /\ \A r \in new : SoundCheck(r.key, r.check, findings \cup told, runs, Len(docs))
  BY <1>4
<1>6. /\ recordChecks(new) /\ findings' = findings \cup told /\ Advance
      /\ UNCHANGED <<level, runs>>
  <2> HIDE DEF new, told
  <2> QED BY <1>1 DEF Record
<1>7. findings \subseteq findings'
  BY <1>6
<1> HIDE DEF new, told
<1>8. RowKept
  BY <1>1 DEF RowKept, RowInv, FoundAll, FoundInv
<1>9. DocsInv' /\ Len(docs') = Len(docs)
  BY <1>1, <1>7, DocsKept DEF FoundAll, FoundInv
<1>10. ScreeningInv'
  BY <1>1, <1>7, <1>m DEF ScreeningInv, FoundAll, FoundInv
<1> QED BY <1>1, <1>5, <1>6, <1>8, <1>9, <1>10, RecordKeeps

\* A step that has nothing to look at, or that no program performs, skips its check.
LEMMA UnperformedKeeps ==
  ASSUME FoundAll, ScreeningUnnamed \/ NoAutomatedCheck
  PROVE  FoundAll'
<1>0. 0 \in 0..Len(docs)
  BY DEF FoundAll, FoundInv, DocsInv
<1>1. CASE ScreeningUnnamed
  <2>1. run.todo # {}
    BY <1>1, UnderWay DEF ScreeningUnnamed
  <2>2. Record({Recorded("AML_SCREENING", 0, Failed)}, {}) /\ UNCHANGED <<row, docs, screening>>
    BY <1>1, Zenon DEF ScreeningUnnamed
  <2>3. Fresh(Failed) /\ Failed.labels \subseteq Excused
    BY CheckFields
  <2> QED BY <1>0, <2>1, <2>2, <2>3, NothingTold
<1>2. CASE NoAutomatedCheck
  <2> DEFINE check == Skipped(Current.required, "REQUIRED_STEP_NOT_PERFORMED")
  <2>1. run.todo # {} /\ Record({Recorded("MANUAL", 0, check)}, {})
        /\ UNCHANGED <<row, docs, screening>>
    BY <1>2, Zenon DEF NoAutomatedCheck
  <2>2. Fresh(check) /\ check.labels \subseteq Excused
    BY SkippedIs DEF Excused
  <2> HIDE DEF check
  <2> QED BY <1>0, <2>1, <2>2, NothingTold
<1> QED BY <1>1, <1>2

\* The device is assessed: its country goes on the applicant's row.
LEMMA DeviceKeeps ==
  ASSUME FoundAll, NEW d, AssessDevice(d)
  PROVE  FoundAll'
<1> DEFINE ipCountry == IF d = "abroad" THEN "USA" ELSE row.country
           first  == IF d \in {"emulator", "shared"} THEN "WARNING" ELSE "PASS"
           second == IF d = "abroad" /\ row.country # "USA" THEN "WARNING" ELSE "PASS"
           print  == Completed(first, {})
           place  == Completed(second, {})
           new    == {Recorded("DEVICE_FINGERPRINT", 0, print),
                      Recorded("IP_GEOLOCATION", 0, place)}
           told   == {}
<1>1. /\ run.todo # {} /\ UNCHANGED <<docs, screening>> /\ Record(new, told)
      /\ row' = [row EXCEPT !.ipCountry = ipCountry]
  <2>1. /\ At({"DEVICE_INTELLIGENCE"}) /\ Record(new, told) /\ UNCHANGED <<docs, screening>>
        /\ row' = [row EXCEPT !.ipCountry = ipCountry]
    BY Zenon DEF AssessDevice
  <2> HIDE DEF new, told, ipCountry
  <2> QED BY <2>1, UnderWay
<1>2. Fresh(print) /\ print.labels = {} /\ Fresh(place) /\ place.labels = {}
  <2> HIDE DEF first, second
  <2> QED BY DEF Completed, Fresh
<1>3. 0 \in 0..Len(docs)
  BY DEF FoundAll, FoundInv, DocsInv
<1> HIDE DEF print, place, ipCountry
<1>4. /\ SoundCheck(Recorded("DEVICE_FINGERPRINT", 0, print).key,
                    Recorded("DEVICE_FINGERPRINT", 0, print).check,
                    findings \cup told, runs, Len(docs))
      /\ SoundCheck(Recorded("IP_GEOLOCATION", 0, place).key,
                    Recorded("IP_GEOLOCATION", 0, place).check,
                    findings \cup told, runs, Len(docs))
  BY <1>2, <1>3, SoundRow DEF FoundAll
<1>5. /\ told \subseteq Labels
      /\ \A r \in new : SoundCheck(r.key, r.check, findings \cup told, runs, Len(docs))
  BY <1>4
<1>6. /\ recordChecks(new) /\ findings' = findings \cup told /\ Advance
      /\ UNCHANGED <<level, runs>>
  <2> HIDE DEF new, told
  <2> QED BY <1>1 DEF Record
<1>7. findings \subseteq findings'
  BY <1>6
<1> HIDE DEF new, told
<1>8. RowKept
  BY <1>1 DEF RowKept, RowInv, FoundAll, FoundInv, RowFields
<1>9. DocsInv' /\ Len(docs') = Len(docs)
  BY <1>1, <1>7, DocsKept DEF FoundAll, FoundInv
<1>10. ScreeningInv'
  BY <1>1, <1>7, ScreeningKept DEF FoundAll, FoundInv
<1> QED BY <1>1, <1>5, <1>6, <1>8, <1>9, <1>10, RecordKeeps

\* The document a step reads is one of an identity.
LEMMA DocumentRead ==
  ASSUME FoundAll, At({"IDENTITY_DOCUMENT"}), DocumentOfStep # 0
  PROVE  /\ DocumentOfStep \in 1..Len(docs)
         /\ docs[DocumentOfStep].image \in Images
         /\ Picture(docs[DocumentOfStep].image).defects \subseteq QualityDefects
<1> DEFINE accepted == IF Current.acceptedDocumentTypes # {}
                       THEN Current.acceptedDocumentTypes ELSE AnyId
           d == Newest(OfType(accepted) \cap Live)
<1>1. DocumentOfStep = d
  BY Zenon DEF DocumentOfStep
<1>2. accepted \subseteq IdTypes
  <2>1. AnyId \subseteq IdTypes
    BY DEF AnyId, IdTypes
  <2>2. Current \in level.steps /\ Current.type = "IDENTITY_DOCUMENT" /\ level \in LevelsInUse
    BY UnderWay DEF FoundAll, FoundInv, RunInv
  <2>3. Current.acceptedDocumentTypes \subseteq IdTypes
    BY <2>2, PictureAssumption
  <2> QED BY <2>1, <2>3
<1>3. d \in 1..Len(docs) /\ d \in OfType(accepted)
  <2> HIDE DEF accepted
  <2> QED BY <1>1, Picked
<1> HIDE DEF accepted, d
<1>4. Picture(docs[d].image).type \in IdTypes
  BY <1>2, <1>3 DEF OfType
<1>5. docs[d] \in DocRows
  BY <1>3 DEF FoundAll, FoundInv, DocsInv
<1>6. docs[d].image \in Images
  BY <1>5 DEF DocRows
<1>7. Picture(docs[d].image).defects \subseteq QualityDefects
  BY <1>4, <1>6, IdPicture, Faults
<1> QED BY <1>1, <1>3, <1>6, <1>7

\* The rows of a document that has been read.
LEMMA ReadingFits ==
  ASSUME FoundAll, NEW d \in 0..Len(docs), NEW p, p.defects \subseteq QualityDefects,
         NEW examined \in BOOLEAN, NEW new,
         new = {Recorded("DOCUMENT_OCR", d,
                  Completed(IF OcrLabels(p) = {} THEN "PASS" ELSE "FAIL", OcrLabels(p))),
                Recorded("DOCUMENT_AUTHENTICITY", d,
                  IF examined THEN AuthenticityCheck(p) ELSE Failed)}
            \cup When(p.mrz # "none",
                   Recorded("MRZ_VALIDATION", d,
                     IF p.mrz = "valid" THEN Completed("PASS", {})
                     ELSE Completed("FAIL", {"MRZ_CHECKSUM_FAILED"})))
            \cup When(p.number = "taken",
                   Recorded("DUPLICATE_IDENTITY", d,
                     Completed("FAIL", {"DUPLICATE_ACCOUNT"})))
  PROVE  /\ \A r \in new : RowFits(r)
         /\ p.expiredFor > 0 => "DOCUMENT_EXPIRED" \in LabelsOf(new)
         /\ examined /\ isForged(p) => "FORGED_DOCUMENT" \in LabelsOf(new)
<1> DEFINE labels == OcrLabels(p)
           result == IF labels = {} THEN "PASS" ELSE "FAIL"
           ocr    == Completed(result, labels)
           exam   == IF examined THEN AuthenticityCheck(p) ELSE Failed
           mrz    == IF p.mrz = "valid" THEN Completed("PASS", {})
                     ELSE Completed("FAIL", {"MRZ_CHECKSUM_FAILED"})
           double == Completed("FAIL", {"DUPLICATE_ACCOUNT"})
           told   == {"DUPLICATE_ACCOUNT"}
<1>1. new = {Recorded("DOCUMENT_OCR", d, ocr), Recorded("DOCUMENT_AUTHENTICITY", d, exam)}
            \cup When(p.mrz # "none", Recorded("MRZ_VALIDATION", d, mrz))
            \cup When(p.number = "taken", Recorded("DUPLICATE_IDENTITY", d, double))
  BY Zenon
<1>2. {"FORGED_DOCUMENT", "MRZ_CHECKSUM_FAILED", "DUPLICATE_ACCOUNT"} \subseteq Labels
  BY StepLabels DEF RetryLabels, HardLabels
<1>3. \A x, y : Fresh(Completed(x, y)) /\ Completed(x, y).labels = y
  BY DEF Completed, Fresh
<1>4. labels \subseteq Labels /\ (p.expiredFor > 0 => "DOCUMENT_EXPIRED" \in labels)
  BY OcrLabelsAre
<1>5. RowFits(Recorded("DOCUMENT_OCR", d, ocr)) /\ ocr.labels = labels
  <2> HIDE DEF labels, result
  <2>1. Fresh(ocr) /\ ocr.labels = labels
    BY <1>3
  <2> HIDE DEF ocr
  <2> QED BY <1>4, <2>1, PlainFits
<1>6. /\ Fresh(exam) /\ exam.labels \subseteq Labels
      /\ examined /\ isForged(p) => "FORGED_DOCUMENT" \in exam.labels
  <2> DEFINE grade == IF p.authenticity < 70 THEN "WARNING" ELSE "PASS"
  <2>1. CASE examined /\ isForged(p)
    <3>1. exam = Completed("FAIL", {"FORGED_DOCUMENT"})
      BY <2>1, Zenon DEF AuthenticityCheck
    <3> HIDE DEF exam
    <3> QED BY <1>2, <1>3, <3>1
  <2>2. CASE examined /\ ~isForged(p)
    <3>1. exam = Completed(grade, {})
      BY <2>2, Zenon DEF AuthenticityCheck
    <3> HIDE DEF exam, grade
    <3> QED BY <1>3, <2>2, <3>1
  <2>3. CASE ~examined
    <3>1. exam = Failed
      BY <2>3, Zenon
    <3>2. Fresh(Failed) /\ Failed.labels = {}
      BY DEF Failed, Fresh
    <3> HIDE DEF exam
    <3> QED BY <2>3, <3>1, <3>2
  <2> QED BY <2>1, <2>2, <2>3
<1>7. RowFits(Recorded("DOCUMENT_AUTHENTICITY", d, exam))
  <2> HIDE DEF exam
  <2> QED BY <1>6, PlainFits
<1>8. RowFits(Recorded("MRZ_VALIDATION", d, mrz))
  <2>1. mrz \in {Completed("PASS", {}), Completed("FAIL", {"MRZ_CHECKSUM_FAILED"})}
    BY Zenon
  <2> HIDE DEF mrz
  <2>2. Fresh(mrz) /\ mrz.labels \subseteq Labels
    BY <1>2, <1>3, <2>1
  <2> QED BY <2>2, PlainFits
<1>9. RowFits(Recorded("DUPLICATE_IDENTITY", d, double))
  <2>1. told \subseteq Labels /\ "DUPLICATE_ACCOUNT" \in told /\ double = Completed("FAIL", told)
    BY <1>2
  <2> HIDE DEF double, told
  <2> QED BY <2>1, DuplicateFits
<1> HIDE DEF ocr, exam, mrz, double, labels
<1>10. \A r \in new : RowFits(r)
  <2> DEFINE first  == Recorded("DOCUMENT_OCR", d, ocr)
             second == Recorded("DOCUMENT_AUTHENTICITY", d, exam)
             third  == Recorded("MRZ_VALIDATION", d, mrz)
             fourth == Recorded("DUPLICATE_IDENTITY", d, double)
             some   == When(p.mrz # "none", third)
             others == When(p.number = "taken", fourth)
  <2>1. some \subseteq {third} /\ others \subseteq {fourth}
    BY WhenIs
  <2>2. new = {first, second} \cup some \cup others
    BY <1>1
  <2>3. RowFits(first) /\ RowFits(second) /\ RowFits(third) /\ RowFits(fourth)
    BY <1>5, <1>7, <1>8, <1>9
  <2> HIDE DEF first, second, third, fourth, some, others
  <2>4. \A r \in new : r \in {first, second, third, fourth}
    BY <2>1, <2>2
  <2> QED BY <2>3, <2>4, Zenon
<1>11. labels \subseteq LabelsOf(new) /\ exam.labels \subseteq LabelsOf(new)
  <2>1. /\ Recorded("DOCUMENT_OCR", d, ocr) \in new
        /\ Recorded("DOCUMENT_AUTHENTICITY", d, exam) \in new
    BY <1>1, Zenon
  <2>2. /\ Recorded("DOCUMENT_OCR", d, ocr).check = ocr
        /\ Recorded("DOCUMENT_AUTHENTICITY", d, exam).check = exam
    BY DEF Recorded
  <2> QED BY <1>5, <2>1, <2>2 DEF LabelsOf
<1> QED BY <1>4, <1>6, <1>10, <1>11

\* A document is read.
LEMMA ReadingKeeps ==
  ASSUME FoundAll, NEW examined \in BOOLEAN, ReadDocument(examined)
  PROVE  FoundAll'
<1> DEFINE d   == DocumentOfStep
           p   == Picture(docs[d].image)
           new == {Recorded("DOCUMENT_OCR", d,
                  Completed(IF OcrLabels(p) = {} THEN "PASS" ELSE "FAIL", OcrLabels(p))),
                Recorded("DOCUMENT_AUTHENTICITY", d,
                  IF examined THEN AuthenticityCheck(p) ELSE Failed)}
            \cup When(p.mrz # "none",
                   Recorded("MRZ_VALIDATION", d,
                     IF p.mrz = "valid" THEN Completed("PASS", {})
                     ELSE Completed("FAIL", {"MRZ_CHECKSUM_FAILED"})))
            \cup When(p.number = "taken",
                   Recorded("DUPLICATE_IDENTITY", d,
                     Completed("FAIL", {"DUPLICATE_ACCOUNT"})))
           more   == When(isEmbargoed(p.country), "PROHIBITED_COUNTRY")
           told   == LabelsOf(new) \cup more
           status == IF OcrLabels(p) # {} \/ (examined /\ isForged(p))
                     THEN "REJECTED" ELSE "EXTRACTED"
<1>1. /\ At({"IDENTITY_DOCUMENT"}) /\ d # 0 /\ Record(new, told) /\ UNCHANGED screening
      /\ row' = IF p.number = "" THEN row ELSE [row EXCEPT !.registered = p.number]
      /\ docs' = [docs EXCEPT ![d].read = docs[d].image,
                              ![d].examined = IF examined THEN docs[d].image ELSE @,
                              ![d].status = status]
  BY Zenon DEF ReadDocument
<1>2. /\ d \in 1..Len(docs) /\ docs[d].image \in Images
      /\ p.defects \subseteq QualityDefects
  BY <1>1, DocumentRead
<1>s. status \in {"REJECTED", "EXTRACTED"}
  BY Zenon
<1>3. /\ \A r \in new : RowFits(r)
      /\ p.expiredFor > 0 => "DOCUMENT_EXPIRED" \in LabelsOf(new)
      /\ examined /\ isForged(p) => "FORGED_DOCUMENT" \in LabelsOf(new)
  <2>1. d \in 0..Len(docs)
    BY <1>2
  <2> HIDE DEF d, p
  <2> QED BY <1>2, <2>1, ReadingFits
<1> HIDE DEF new, status
<1>4. /\ LabelsOf(new) \subseteq Labels
      /\ \A r \in new : SoundCheck(r.key, r.check, findings \cup told, runs, Len(docs))
  <2> HIDE DEF more
  <2> QED BY <1>3, AllTold DEF FoundAll
<1>5. told \subseteq Labels
  <2>1. more \subseteq {"PROHIBITED_COUNTRY"}
    BY WhenIs
  <2> HIDE DEF more
  <2> QED BY <1>4, <2>1, StepLabels DEF HardLabels
<1>6. isEmbargoed(p.country) => "PROHIBITED_COUNTRY" \in told
  <2>1. isEmbargoed(p.country) => more = {"PROHIBITED_COUNTRY"}
    BY WhenIs
  <2> HIDE DEF more
  <2> QED BY <2>1
<1>7. /\ p.expiredFor > 0 => "DOCUMENT_EXPIRED" \in told
      /\ examined /\ isForged(p) => "FORGED_DOCUMENT" \in told
  BY <1>3
<1> HIDE DEF told
<1>8. /\ recordChecks(new) /\ findings' = findings \cup told /\ Advance
      /\ UNCHANGED <<level, runs>>
  BY <1>1 DEF Record
<1>9. run.todo # {}
  BY <1>1, UnderWay
<1>10. RowKept
  <2>1. \/ row' = row
        \/ \E number : row' = [row EXCEPT !.registered = number]
    BY <1>1
  <2> QED BY <2>1 DEF RowKept, RowInv, FoundAll, FoundInv, RowFields
<1>11. ScreeningInv'
  BY <1>1, <1>8, ScreeningKept DEF FoundAll, FoundInv
<1>12. DocsInv' /\ Len(docs') = Len(docs)
  <2> DEFINE doc == docs[d]
             new2 == [doc EXCEPT !.read = doc.image,
                                 !.examined = IF examined THEN doc.image ELSE @,
                                 !.status = status]
  <2>0. DocsInv
    BY DEF FoundAll, FoundInv
  <2>1. doc \in DocRows /\ docs \in Seq(DocRows) /\ SoundDoc(doc, findings)
    BY <1>2, <2>0 DEF DocsInv
  <2>2. docs' = [docs EXCEPT ![d] = new2]
    BY <1>1, <1>2, <2>1
  <2>3. /\ new2 \in DocRows /\ new2.read = doc.image
        /\ new2.examined = IF examined THEN doc.image ELSE doc.examined
    BY <1>2, <1>s, <2>1 DEF DocRows
  <2>4. findings \subseteq findings' /\ told \subseteq findings'
    BY <1>8
  <2>5. SoundDoc(new2, findings')
    <3>1. new2.read # "none" => /\ Picture(new2.read).expiredFor > 0
                                     => "DOCUMENT_EXPIRED" \in findings'
                                /\ isEmbargoed(Picture(new2.read).country)
                                     => "PROHIBITED_COUNTRY" \in findings'
      <4> HIDE DEF new2
      <4> QED BY <1>6, <1>7, <2>3, <2>4
    <3>2. new2.examined # "none" /\ isForged(Picture(new2.examined))
            => "FORGED_DOCUMENT" \in findings'
      <4> HIDE DEF new2
      <4>1. CASE examined
        BY <1>7, <2>3, <2>4, <4>1
      <4>2. CASE ~examined
        <5>1. doc.examined # "none" /\ isForged(Picture(doc.examined))
                => "FORGED_DOCUMENT" \in findings
          BY <2>1 DEF SoundDoc
        <5> QED BY <2>3, <2>4, <4>2, <5>1
      <4> QED BY <4>1, <4>2
    <3> HIDE DEF new2
    <3> QED BY <3>1, <3>2 DEF SoundDoc
  <2> HIDE DEF new2
  <2>6. docs' \in Seq(DocRows) /\ Len(docs') = Len(docs) /\ DOMAIN docs' = DOMAIN docs
    BY <1>2, <2>1, <2>2, <2>3
  <2>7. \A e \in DOMAIN docs' : SoundDoc(docs'[e], findings')
    <3> SUFFICES ASSUME NEW e \in DOMAIN docs PROVE SoundDoc(docs'[e], findings')
      BY <2>6
    <3>1. CASE e = d
      BY <1>2, <2>1, <2>2, <2>5, <3>1
    <3>2. CASE e # d
      <4>1. docs'[e] = docs[e] /\ SoundDoc(docs[e], findings)
        BY <2>0, <2>1, <2>2, <3>2 DEF DocsInv
      <4> QED BY <2>4, <4>1 DEF SoundDoc
    <3> QED BY <3>1, <3>2
  <2> QED BY <2>6, <2>7 DEF DocsInv, SoundDoc, DocRows
<1> QED BY <1>4, <1>5, <1>8, <1>9, <1>10, <1>11, <1>12, RecordKeeps


\* One step of a run other than its decision keeps it.
LEMMA StepsKeepFound ==
  ASSUME FoundAll, RunStep, \A idDoc \in IdDocs : ~Finalize(idDoc)
  PROVE  FoundAll'
<1>1. CASE StepThrows
  BY <1>1, ThrowKeeps
<1>2. CASE DocumentMissing \/ OcrFails
  BY <1>2, UnreadKeeps
<1>3. ASSUME NEW examined \in BOOLEAN, ReadDocument(examined) PROVE FoundAll'
  BY <1>3, ReadingKeeps
<1>4. CASE BiometricsMissing \/ BiometricsFail
  BY <1>4, UncomparedKeeps
<1>5. CASE CheckLiveness
  BY <1>5, LivenessKeeps
<1>6. CASE MatchFace
  BY <1>6, FaceMatchKeeps
<1>7. ASSUME NEW d \in Devices, AssessDevice(d) PROVE FoundAll'
  BY <1>7, DeviceKeeps
<1>8. ASSUME NEW answer \in Contacts, AssessContact(answer) PROVE FoundAll'
  BY <1>8, ContactKeeps
<1>9. CASE CheckApplicantData
  BY <1>9, DeclaredKeeps
<1>10. CASE LookForChip
  BY <1>10, ChipKeeps
<1>11. CASE NoAutomatedCheck \/ ScreeningUnnamed
  BY <1>11, UnperformedKeeps
<1>12. ASSUME NEW answered \in BOOLEAN, CheckAddress(answered) PROVE FoundAll'
  BY <1>12, AddressKeeps
<1>13. ASSUME NEW answered \in BOOLEAN, Screen(answered) PROVE FoundAll'
  BY <1>13, ScreenKeeps
<1> QED BY <1>1, <1>2, <1>3, <1>4, <1>5, <1>6, <1>7, <1>8, <1>9, <1>10, <1>11, <1>12,
           <1>13 DEF RunStep

----------------------------------------------------------------------------
(* What happens between the runs keeps it, too.                            *)

\* Somebody acts while no run is under way.
LEMMA IdleKeeps ==
  ASSUME FoundAll, run = Idle, UNCHANGED <<level, run, runs>>,
         RowInv', row'.verdict \in {row.verdict, "none"},
         findings \subseteq findings', findings' \subseteq Labels,
         DocsInv', Len(docs) <= Len(docs'),
         \A k \in DOMAIN checks' :
            \/ k \in DOMAIN checks /\ checks'[k] = checks[k]
            \/ SoundCheck(k, checks'[k], findings', runs, Len(docs')),
         ScreeningInv'
  PROVE  FoundAll'
<1>1. RunInv'
  <2>1. run.wave = 0 /\ ~run.forced /\ run.todo = {}
    BY DEF Idle
  <2> QED BY <2>1 DEF RunInv, FoundAll, FoundInv, Idle
<1>2. ChecksInv'
  <2>1. Len(docs) \in Nat /\ Len(docs') \in Nat /\ runs \in Nat
    BY DEF FoundAll, FoundInv, RunInv, DocsInv
  <2>2. SoundChecks(checks, findings', runs, Len(docs'))
    BY <2>1, SoundLonger DEF FoundAll, FoundInv, ChecksInv
  <2>3. SoundChecks(checks', findings', runs, Len(docs'))
    BY <2>2 DEF SoundChecks
  <2> QED BY <2>3 DEF ChecksInv
<1>3. Promise'
  BY RejectionKept DEF FoundAll
<1> QED BY <1>1, <1>2, <1>3 DEF FoundAll, FoundInv

\* The applicant uploads a photograph: it has not been read or examined.
LEMMA UploadKeeps ==
  ASSUME FoundAll, NEW image \in Images, Upload(image)
  PROVE  FoundAll'
<1> DEFINE reused == Newest({d \in OfType({Picture(image).type}) :
                               docs[d].status \notin {"SUPERSEDED", "REJECTED"}})
           fresh  == [image |-> image, status |-> "UPLOADED", read |-> "none",
                      examined |-> "none"]
<1>1. /\ run = Idle
      /\ UNCHANGED <<level, row, checks, screening, device, run, runs, findings>>
      /\ IF reused # 0
         THEN docs' = [docs EXCEPT ![reused].image = image, ![reused].status = "UPLOADED"]
         ELSE docs' = Append(docs, fresh)
  BY Zenon DEF Upload
<1>2. DocsInv /\ docs \in Seq(DocRows) /\ Len(docs) \in Nat
  BY DEF FoundAll, FoundInv, DocsInv
<1>3. DocsInv' /\ Len(docs) <= Len(docs')
  <2>1. CASE reused # 0
    <3> DEFINE row1 == [docs[reused] EXCEPT !.image = image, !.status = "UPLOADED"]
    <3>1. reused \in 1..Len(docs)
      <4> DEFINE S == {d \in OfType({Picture(image).type}) :
                         docs[d].status \notin {"SUPERSEDED", "REJECTED"}}
      <4>1. S \subseteq 1..Len(docs)
        BY <1>2 DEF OfType, Rows
      <4>2. reused = Newest(S)
        OBVIOUS
      <4> HIDE DEF S, reused
      <4> QED BY <1>2, <2>1, <4>1, <4>2, NewestIs
    <3> HIDE DEF reused
    <3>2. docs[reused] \in DocRows /\ SoundDoc(docs[reused], findings)
      BY <1>2, <3>1 DEF DocsInv
    <3>3. docs' = [docs EXCEPT ![reused] = row1]
      BY <1>1, <1>2, <2>1, <3>1, <3>2
    <3>4. row1 \in DocRows /\ row1.read = docs[reused].read
          /\ row1.examined = docs[reused].examined
      BY <3>2 DEF DocRows
    <3>5. SoundDoc(row1, findings)
      <4> HIDE DEF row1
      <4> QED BY <3>2, <3>4 DEF SoundDoc
    <3> HIDE DEF row1
    <3>6. docs' \in Seq(DocRows) /\ Len(docs') = Len(docs) /\ DOMAIN docs' = DOMAIN docs
      BY <1>2, <3>1, <3>3, <3>4
    <3>7. ASSUME NEW e \in DOMAIN docs' PROVE SoundDoc(docs'[e], findings')
      <4>1. CASE e = reused
        BY <1>1, <1>2, <3>1, <3>3, <3>5, <3>6, <4>1
      <4>2. CASE e # reused
        <5>1. docs'[e] = docs[e] /\ SoundDoc(docs[e], findings)
          BY <1>2, <3>3, <3>6, <4>2 DEF DocsInv
        <5> QED BY <1>1, <5>1
      <4> QED BY <4>1, <4>2
    <3> QED BY <1>2, <3>6, <3>7 DEF DocsInv, SoundDoc, DocRows
  <2>2. CASE reused = 0
    <3>1. docs' = Append(docs, fresh)
      BY <1>1, <2>2
    <3>2. fresh \in DocRows /\ SoundDoc(fresh, findings)
      BY DEF DocRows, SoundDoc
    <3> HIDE DEF fresh, reused
    <3>3. docs' \in Seq(DocRows) /\ Len(docs') = Len(docs) + 1
      BY <1>2, <3>1, <3>2
    <3>4. \A e \in DOMAIN docs' : SoundDoc(docs'[e], findings)
      <4> SUFFICES ASSUME NEW e \in 1..(Len(docs) + 1) PROVE SoundDoc(docs'[e], findings)
        BY <3>3
      <4>1. CASE e = Len(docs) + 1
        BY <1>2, <3>1, <3>2, <4>1
      <4>2. CASE e # Len(docs) + 1
        <5>1. e \in DOMAIN docs /\ docs'[e] = docs[e]
          BY <1>2, <3>1, <4>2
        <5> QED BY <1>2, <5>1 DEF DocsInv
      <4> QED BY <4>1, <4>2
    <3>5. \A e \in DOMAIN docs' : SoundDoc(docs'[e], findings')
      BY <1>1, <3>4
    <3> QED BY <1>2, <3>3, <3>5 DEF DocsInv, SoundDoc, DocRows
  <2> QED BY <2>1, <2>2
<1>4. RowInv' /\ ScreeningInv' /\ findings' \subseteq Labels
  BY <1>1 DEF FoundAll, FoundInv, RowInv, ScreeningInv, ChecksInv
<1> QED BY <1>1, <1>3, <1>4, IdleKeeps

\* The applicant declares who they are.
LEMMA DeclareKeeps ==
  ASSUME FoundAll, NEW country, Declare(country)
  PROVE  FoundAll'
<1>1. /\ run = Idle /\ row' = [row EXCEPT !.name = "ada", !.age = 30, !.country = country]
      /\ UNCHANGED <<level, docs, checks, screening, device, run, runs, findings>>
  BY DEF Declare
<1>2. RowInv' /\ row'.verdict = row.verdict
  BY <1>1 DEF FoundAll, FoundInv, RowInv, RowFields
<1>3. DocsInv' /\ ScreeningInv' /\ findings' \subseteq Labels
  BY <1>1, DocsKept, ScreeningKept DEF FoundAll, FoundInv, ChecksInv
<1>4. Len(docs) <= Len(docs')
  BY <1>1 DEF FoundAll, FoundInv, DocsInv
<1> QED BY <1>1, <1>2, <1>3, <1>4, IdleKeeps

\* A chip is read.
LEMMA ReadChipKeeps ==
  ASSUME FoundAll, NEW genuine \in BOOLEAN, ReadChip(genuine)
  PROVE  FoundAll'
<1> DEFINE check == IF genuine THEN Completed("PASS", {})
                    ELSE Completed("FAIL", {"CHIP_AUTHENTICATION_FAILED"})
           told  == When(~genuine, "CHIP_AUTHENTICATION_FAILED")
           new   == {Recorded("NFC_CHIP", 0, check)}
<1>1. /\ run = Idle /\ recordChecks(new) /\ findings' = findings \cup told
      /\ UNCHANGED <<level, row, docs, screening, device, run, runs>>
  BY Zenon DEF ReadChip
<1>2. Fresh(check) /\ check.labels = told
  BY DEF Completed, When, Fresh
<1>3. told \subseteq Labels
  BY StepLabels DEF When, HardLabels
<1>4. 0 \in 0..Len(docs) /\ Len(docs) \in Nat /\ runs \in Nat
  BY DEF FoundAll, FoundInv, DocsInv, RunInv
<1> HIDE DEF check, told
<1>s. SoundCheck(Recorded("NFC_CHIP", 0, check).key, Recorded("NFC_CHIP", 0, check).check,
                 findings \cup told, runs, Len(docs))
  BY <1>2, <1>3, <1>4, SoundRow DEF FoundAll
<1>5. \A r \in new : SoundCheck(r.key, r.check, findings \cup told, runs, Len(docs))
  BY <1>s
<1>6. SoundChecks(checks', findings \cup told, runs, Len(docs))
  <2>1. SoundChecks(checks, findings \cup told, runs, Len(docs))
    BY <1>4, SoundLonger DEF FoundAll, FoundInv, ChecksInv
  <2> HIDE DEF new
  <2> QED BY <1>1, <1>5, <2>1, RecordedSound
<1>7. RowInv' /\ DocsInv' /\ ScreeningInv' /\ findings' \subseteq Labels
  BY <1>1, <1>3, DocsKept, ScreeningKept DEF FoundAll, FoundInv, ChecksInv, RowInv
<1>8. Len(docs) <= Len(docs')
  BY <1>1, <1>4
<1> QED BY <1>1, <1>6, <1>7, <1>8, IdleKeeps DEF SoundChecks

\* A list names somebody more, or an analyst decides a hit.
LEMMA ScreenedKeeps ==
  ASSUME FoundAll,
         \/ \E e \in Entries : ListUpdate(e)
         \/ \E e \in Entries, resolution \in {"TRUE_POSITIVE", "FALSE_POSITIVE"} :
              ResolveHit(e, resolution)
  PROVE  FoundAll'
<1>0. ScreeningInv /\ Len(docs) \in Nat
  BY DEF FoundAll, FoundInv, DocsInv
<1>1. ASSUME NEW e \in Entries, ListUpdate(e) PROVE FoundAll'
  <2>1. /\ run = Idle /\ screening' = [screening EXCEPT !.listed = screening.listed \cup {e}]
        /\ UNCHANGED <<level, row, docs, checks, device, run, runs, findings>>
    BY <1>1 DEF ListUpdate
  <2>2. ScreeningInv'
    BY <1>0, <2>1 DEF ScreeningInv
  <2>3. RowInv' /\ DocsInv' /\ findings' \subseteq Labels
    BY <2>1, DocsKept DEF FoundAll, FoundInv, ChecksInv, RowInv
  <2>4. Len(docs) <= Len(docs')
    BY <1>0, <2>1
  <2> QED BY <2>1, <2>2, <2>3, <2>4, IdleKeeps
<1>2. ASSUME NEW e \in Entries, NEW resolution \in {"TRUE_POSITIVE", "FALSE_POSITIVE"},
             ResolveHit(e, resolution)
      PROVE  FoundAll'
  <2> DEFINE told == When(e = "SANCTIONS" /\ resolution = "TRUE_POSITIVE", "SANCTIONS_MATCH")
  <2>1. /\ run = Idle /\ screening' = [screening EXCEPT !.resolved[e] = resolution]
        /\ findings' = findings \cup told
        /\ UNCHANGED <<level, row, docs, checks, device, run, runs>>
    BY <1>2, Zenon DEF ResolveHit
  <2>2. /\ told \subseteq Labels
        /\ e = "SANCTIONS" /\ resolution = "TRUE_POSITIVE" => "SANCTIONS_MATCH" \in told
    BY StepLabels DEF When, HardLabels
  <2> HIDE DEF told
  <2>3. ScreeningInv'
    <3>1. /\ DOMAIN screening' = {"listed", "matched", "resolved"}
          /\ screening'.resolved = [screening.resolved EXCEPT ![e] = resolution]
      BY <1>0, <2>1 DEF ScreeningInv
    <3> QED BY <1>0, <2>1, <2>2, <3>1 DEF ScreeningInv, Entries
  <2>4. RowInv' /\ DocsInv' /\ findings' \subseteq Labels
    BY <2>1, <2>2, DocsKept DEF FoundAll, FoundInv, ChecksInv, RowInv
  <2>5. Len(docs) <= Len(docs')
    BY <1>0, <2>1
  <2> QED BY <2>1, <2>3, <2>4, <2>5, IdleKeeps
<1> QED BY <1>1, <1>2

\* Where the transitions of an applicant and a reviewer lead.
LEMMA Targets ==
  /\ Target("REVIEWER_APPROVED") = "APPROVED"
  /\ Target("REVIEWER_REJECTED_RETRY") = "REJECTED_RETRY"
  /\ Target("APPLICANT_SUBMITTED") = "PENDING" /\ Target("APPLICANT_RESUBMITTED") = "PENDING"
<1> DEFINE anyone == Anyone({"NOT_STARTED", "PENDING", "REJECTED_RETRY"}, "PENDING")
<1>1. /\ TRANSITIONS.REVIEWER_APPROVED = Human({"QUEUED", "ON_HOLD", "PENDING"}, "APPROVED")
      /\ TRANSITIONS.REVIEWER_REJECTED_RETRY =
           Human({"QUEUED", "ON_HOLD", "PENDING"}, "REJECTED_RETRY")
      /\ TRANSITIONS.APPLICANT_SUBMITTED =
           Anyone({"NOT_STARTED", "PENDING", "REJECTED_RETRY"}, "PENDING")
      /\ TRANSITIONS.APPLICANT_RESUBMITTED = Anyone({"REJECTED_RETRY", "ON_HOLD"}, "PENDING")
  BY DEF TRANSITIONS
<1> QED BY <1>1 DEF Target, Human, Anyone

\* Staff ask for everything again, or decide.
LEMMA StaffKeep ==
  ASSUME FoundAll,
         \/ RequestResubmission
         \/ \E trigger \in {"REVIEWER_APPROVED", "REVIEWER_REJECTED_RETRY"} :
              ReviewerDecides(trigger)
  PROVE  FoundAll'
<1>0. RowInv /\ DocsInv /\ docs \in Seq(DocRows) /\ Len(docs) \in Nat
  BY DEF FoundAll, FoundInv, DocsInv
<1>1. CASE RequestResubmission
  <2>1. /\ run = Idle /\ docs' = [d \in Rows |-> [docs[d] EXCEPT !.status = "SUPERSEDED"]]
        /\ row' = [row EXCEPT !.reviewStatus = "REJECTED_RETRY"]
        /\ UNCHANGED <<level, checks, screening, device, run, runs, findings>>
    BY <1>1 DEF RequestResubmission
  <2>2. RowInv' /\ row'.verdict = row.verdict
    BY <1>0, <2>1 DEF RowInv, RowFields, ReviewStatuses
  <2>3. ASSUME NEW d \in 1..Len(docs)
        PROVE  docs'[d] \in DocRows /\ SoundDoc(docs'[d], findings)
    <3>1. docs'[d] = [docs[d] EXCEPT !.status = "SUPERSEDED"] /\ docs[d] \in DocRows
          /\ SoundDoc(docs[d], findings)
      BY <1>0, <2>1 DEF Rows, DocsInv
    <3>2. docs'[d] \in DocRows /\ docs'[d].read = docs[d].read
          /\ docs'[d].examined = docs[d].examined
      BY <3>1 DEF DocRows
    <3> QED BY <3>1, <3>2 DEF SoundDoc
  <2>4. DOMAIN docs' = 1..Len(docs) /\ docs' = [d \in 1..Len(docs) |-> docs'[d]]
    BY <1>0, <2>1 DEF Rows
  <2>5. docs' \in Seq(DocRows) /\ Len(docs') = Len(docs)
    BY <1>0, <2>3, <2>4
  <2>6. DocsInv' /\ Len(docs) <= Len(docs')
    <3>1. \A e \in DOMAIN docs' : SoundDoc(docs'[e], findings')
      BY <2>1, <2>3, <2>4
    <3> QED BY <1>0, <2>5, <3>1 DEF DocsInv, SoundDoc, DocRows
  <2>7. ScreeningInv' /\ findings' \subseteq Labels
    BY <2>1, ScreeningKept DEF FoundAll, FoundInv, ChecksInv
  <2> QED BY <2>1, <2>2, <2>6, <2>7, IdleKeeps
<1>2. ASSUME NEW trigger \in {"REVIEWER_APPROVED", "REVIEWER_REJECTED_RETRY"},
             ReviewerDecides(trigger)
      PROVE  FoundAll'
  <2>1. /\ run = Idle /\ row' = [row EXCEPT !.reviewStatus = Target(trigger), !.verdict = "none"]
        /\ UNCHANGED <<level, docs, checks, screening, device, run, runs, findings>>
    BY <1>2 DEF ReviewerDecides
  <2>2. Target(trigger) \in ReviewStatuses
    BY Targets DEF ReviewStatuses
  <2>3. RowInv' /\ row'.verdict = "none"
    BY <1>0, <2>1, <2>2 DEF RowInv, RowFields
  <2>4. DocsInv' /\ ScreeningInv' /\ findings' \subseteq Labels
    BY <2>1, DocsKept, ScreeningKept DEF FoundAll, FoundInv, ChecksInv
  <2>5. Len(docs) <= Len(docs')
    BY <1>0, <2>1
  <2> QED BY <2>1, <2>3, <2>4, <2>5, IdleKeeps
<1> QED BY <1>1, <1>2

\* A run begins, or ends at once when the level does not take the country.
LEMMA BeginKeeps ==
  ASSUME FoundAll, Begin, RowInv', row'.verdict = "none", row'.country = row.country
  PROVE  FoundAll'
<1> DEFINE allowed == isCountryAllowedForLevel(row.country, level)
           check == [Completed("FAIL", {"PROHIBITED_COUNTRY"}) EXCEPT !.at = runs']
           entry == Recorded("SANCTIONED_COUNTRY", 0, check)
           new   == IF allowed THEN {} ELSE {entry}
           told  == When(~allowed, "PROHIBITED_COUNTRY")
           first == [wave |-> 1, todo |-> Waves[1], forced |-> FALSE]
           over  == [wave |-> Len(Waves) + 1, todo |-> {}, forced |-> TRUE]
<1>1. /\ run = Idle /\ runs' = runs + 1 /\ run' = IF allowed THEN first ELSE over
      /\ recordChecks(new) /\ findings' = findings \cup told
      /\ UNCHANGED <<level, docs, screening, device, trouble>>
  BY Zenon DEF Begin
<1>2. /\ level \in LevelsInUse /\ runs \in Nat /\ Len(docs) \in Nat
      /\ findings \subseteq Labels
  BY DEF FoundAll, FoundInv, RunInv, DocsInv, ChecksInv
<1>3. /\ Len(Waves) \in Nat \ {0} /\ Waves[1] \subseteq level.steps
  BY <1>2, WavesShape
<1>4. told \subseteq Labels /\ told \subseteq {"PROHIBITED_COUNTRY"}
      /\ (~allowed => told = {"PROHIBITED_COUNTRY"})
  BY StepLabels, WhenIs DEF HardLabels
<1>5. check.at = runs + 1 /\ check.score \in Int /\ check.labels = {"PROHIBITED_COUNTRY"}
  BY <1>1 DEF Completed
<1> HIDE DEF told
<1>6. RunInv'
  <2>1. CASE allowed
    <3>1. run' = first
      BY <1>1, <2>1
    <3> HIDE DEF allowed
    <3>2. DOMAIN run' = {"wave", "todo", "forced"} /\ run'.wave = 1 /\ ~run'.forced
          /\ run'.forced \in BOOLEAN /\ run'.todo \subseteq level.steps
      BY <1>3, <3>1
    <3>3. isCountryAllowedForLevel(row'.country, level')
      BY <1>1, <2>1 DEF allowed
    <3> QED BY <1>1, <1>2, <3>2, <3>3 DEF RunInv
  <2>2. CASE ~allowed
    <3>1. run' = over /\ "PROHIBITED_COUNTRY" \in findings'
      BY <1>1, <1>4, <2>2
    <3> HIDE DEF allowed
    <3>2. DOMAIN run' = {"wave", "todo", "forced"} /\ run'.wave \in Nat \ {0}
          /\ run'.forced = TRUE /\ run'.todo = {}
      BY <1>3, <3>1
    <3> QED BY <1>1, <1>2, <3>1, <3>2 DEF RunInv
  <2> QED BY <2>1, <2>2
<1>7. ChecksInv'
  <2>1. SoundChecks(checks, findings \cup told, runs + 1, Len(docs))
    BY <1>2, SoundLonger DEF FoundAll, FoundInv, ChecksInv
  <2>2. ASSUME NEW r \in new
        PROVE  SoundCheck(r.key, r.check, findings \cup told, runs + 1, Len(docs))
    <3>1. r = entry /\ ~allowed
      BY <2>2
    <3>2. r.key = <<"SANCTIONED_COUNTRY", 0>> /\ r.check = check
      BY <3>1 DEF Recorded
    <3> HIDE DEF check
    <3>3. r.key[1] = "SANCTIONED_COUNTRY" /\ r.key[2] = 0
      BY <3>2
    <3> QED BY <1>2, <1>4, <1>5, <3>1, <3>2, <3>3 DEF SoundCheck
  <2> HIDE DEF new
  <2>3. SoundChecks(checks', findings \cup told, runs + 1, Len(docs))
    BY <1>1, <2>1, <2>2, RecordedSound
  <2> QED BY <1>1, <1>2, <1>4, <2>3 DEF ChecksInv
<1>8. DocsInv' /\ ScreeningInv'
  BY <1>1, DocsKept, ScreeningKept DEF FoundAll, FoundInv
<1>9. Promise'
  BY DEF Promise, RejectedOnFindings
<1> QED BY <1>6, <1>7, <1>8, <1>9 DEF FoundAll, FoundInv

\* The applicant submits, or the sweep runs them again.
LEMMA RunBegins ==
  ASSUME FoundAll, Submit \/ PeriodicReview
  PROVE  FoundAll'
<1>0. RowInv
  BY DEF FoundAll, FoundInv
<1>1. CASE Submit
  <2> DEFINE trigger == IF row.reviewStatus = "REJECTED_RETRY"
                        THEN "APPLICANT_RESUBMITTED" ELSE "APPLICANT_SUBMITTED"
  <2>1. row' = [row EXCEPT !.reviewStatus = Target(trigger), !.verdict = "none"] /\ Begin
    BY <1>1, Zenon DEF Submit
  <2>2. Target(trigger) = "PENDING"
    BY Targets
  <2> HIDE DEF trigger
  <2>3. RowInv' /\ row'.verdict = "none" /\ row'.country = row.country
    BY <1>0, <2>1, <2>2 DEF RowInv, RowFields, ReviewStatuses
  <2> QED BY <2>1, <2>3, BeginKeeps
<1>2. CASE PeriodicReview
  <2>1. row' = [row EXCEPT !.verdict = "none"] /\ Begin
    BY <1>2 DEF PeriodicReview
  <2>2. RowInv' /\ row'.verdict = "none" /\ row'.country = row.country
    BY <1>0, <2>1 DEF RowInv, RowFields
  <2> QED BY <2>1, <2>2, BeginKeeps
<1> QED BY <1>1, <1>2

\* Whatever comes between the runs keeps it.
LEMMA BetweenKeepsFound ==
  ASSUME FoundAll, Between
  PROVE  FoundAll'
<1>1. ASSUME NEW image \in Images, Upload(image) PROVE FoundAll'
  BY <1>1, UploadKeeps
<1>2. ASSUME NEW country \in Residences, Declare(country) PROVE FoundAll'
  BY <1>2, DeclareKeeps
<1>3. ASSUME NEW genuine \in BOOLEAN, ReadChip(genuine) PROVE FoundAll'
  BY <1>3, ReadChipKeeps
<1>4. CASE \/ \E e \in Entries : ListUpdate(e)
           \/ \E e \in Entries, resolution \in {"TRUE_POSITIVE", "FALSE_POSITIVE"} :
                ResolveHit(e, resolution)
  BY <1>4, ScreenedKeeps
<1>5. CASE \/ RequestResubmission
           \/ \E trigger \in {"REVIEWER_APPROVED", "REVIEWER_REJECTED_RETRY"} :
                ReviewerDecides(trigger)
  BY <1>5, StaffKeep
<1>6. CASE Submit \/ PeriodicReview
  BY <1>6, RunBegins
<1> QED BY <1>1, <1>2, <1>3, <1>4, <1>5, <1>6 DEF Between

\* An applicant starts without findings.
LEMMA FoundStarts == Init => FoundAll
<1> SUFFICES ASSUME Init PROVE FoundAll
  OBVIOUS
<1>z. 0 \in 0..100
  OBVIOUS
<1>1. RunInv
  BY DEF Init, RunInv, Idle
<1>2. RowInv /\ row.verdict = "none"
  <2>1. PICK country \in Residences, name \in {"ada", ""}, twin \in BOOLEAN :
          row = [NewRow(country, name) EXCEPT !.twin = twin]
    BY Zenon DEF Init
  <2>2. (IF name = "" THEN -1 ELSE 30) \in {-1, 30}
    OBVIOUS
  <2>3. DOMAIN row = RowFields /\ row.age \in {-1, 30}
    BY <2>1, <2>2 DEF NewRow, RowFields
  <2>4. /\ row.reviewStatus = "NOT_STARTED" /\ row.verdict = "none" /\ row.ddLevel = "SDD"
        /\ row.riskScore = 0
    BY <2>1 DEF NewRow
  <2> QED BY <1>z, <2>3, <2>4 DEF RowInv, Levels3, ReviewStatuses
<1>0. <<>> \in Seq(DocRows) /\ Len(<<>>) = 0 /\ DOMAIN <<>> = {}
  OBVIOUS
<1>3. DocsInv /\ Len(docs) = 0
  <2>1. docs = <<>>
    BY DEF Init
  <2> QED BY <1>0, <2>1 DEF DocsInv
<1>4. ChecksInv
  <2>1. checks = <<>> /\ findings = {}
    BY DEF Init
  <2> QED BY <1>0, <2>1 DEF ChecksInv, SoundChecks
<1>5. ScreeningInv
  BY DEF Init, ScreeningInv, Entries
<1> QED BY <1>1, <1>2, <1>3, <1>4, <1>5 DEF FoundAll, FoundInv, Promise, RejectedOnFindings

----------------------------------------------------------------------------
(* The decision.                                                           *)

\* A fact that is known is the one the snapshot has.
LEMMA FactKnown ==
  ASSUME NEW s, NEW f \in DOMAIN buildApplicantFacts(s)
  PROVE  f \in ApplicantFacts /\ Supplied(f, s) /\ buildApplicantFacts(s)[f] = FactOf(f, s)
<1> DEFINE D == {x \in ApplicantFacts : Supplied(x, s)}
<1>1. buildApplicantFacts(s) = [x \in D |-> FactOf(x, s)]
  BY Zenon DEF buildApplicantFacts
<1> HIDE DEF D
<1>2. f \in D /\ buildApplicantFacts(s)[f] = FactOf(f, s)
  BY <1>1
<1> QED BY <1>2 DEF D

\* When a fact has been supplied.
LEMMA SuppliedWhen ==
  ASSUME NEW s
  PROVE  /\ Supplied("applicant.country", s) => s.country # ""
         /\ Supplied("applicant.nationality", s) => s.nationality # ""
         /\ Supplied("applicant.age", s) => s.age >= 0
         /\ Supplied("document.issuingCountry", s) => s.document.present
         /\ Supplied("document.expiryDate", s) => s.document.present /\ s.document.extracted
         /\ Supplied("document.authenticityScore", s)
              => s.document.present /\ s.document.authenticity >= 0
         /\ Supplied("document.tamperFlags", s) => s.document.present
BY DEF Supplied

\* What the facts are that rules reject for.
LEMMA FactsAre ==
  ASSUME NEW s
  PROVE  /\ FactOf("applicant.country", s) = s.country
         /\ FactOf("applicant.nationality", s) = s.nationality
         /\ FactOf("applicant.age", s) = s.age
         /\ FactOf("document.issuingCountry", s) = s.document.country
         /\ FactOf("document.expiryDate", s) = s.document.expiredFor
         /\ FactOf("document.authenticityScore", s) = s.document.authenticity
         /\ FactOf("document.tamperFlags", s) = s.document.tamperFlags
         /\ FactOf("screening.confirmedSanctionsHits", s) = s.confirmedSanctionsHits
         /\ FactOf("duplicate.identityMatchCount", s) = s.identityMatchCount
         /\ FactOf("duplicate.sameIdentity", s) = s.sameIdentity
         /\ FactOf("liveness.spoofDetected", s) = s.spoofDetected
BY DEF FactOf

\* The newest check of a type is a check of that type, if there is one.
LEMMA ByTypeIs ==
  ASSUME FoundInv, NEW type
  PROVE  \/ ByType(type) = NoCheck
         \/ \E k \in DOMAIN checks : k[1] = type /\ ByType(type) = checks[k]
<1> DEFINE keys == LatestOf(type)
           Newer(k, j) == \/ checks[k].at > checks[j].at
                          \/ checks[k].at = checks[j].at /\ (k[2] = 0 \/ j[2] # 0)
           Newest1(k) == \A j \in keys : Newer(k, j)
<1>1. ByType(type) = IF keys = {} THEN NoCheck
                     ELSE checks[CHOOSE k \in keys : Newest1(k)]
  BY Zenon DEF ByType
<1>2. \A k \in keys : k \in DOMAIN checks /\ k[1] = type /\ checks[k].at \in 0..runs
  BY DEF LatestOf, FoundInv, ChecksInv, SoundChecks, SoundCheck
<1>3. runs \in Nat
  BY DEF FoundInv, RunInv
<1> HIDE DEF keys
<1>4. ASSUME keys # {} PROVE \E k \in keys : Newest1(k)
  <2> DEFINE times == {checks[k].at : k \in keys}
  <2>1. times \subseteq 0..runs /\ times # {}
    BY <1>2, <1>4
  <2>2. Max(times) \in times /\ \A x \in times : Max(times) >= x
    <3> HIDE DEF times
    <3> QED BY <1>3, <2>1, Highest
  <2> DEFINE last == {k \in keys : checks[k].at = Max(times)}
  <2>3. PICK k1 \in keys : checks[k1].at = Max(times)
    BY <2>2
  <2>4. \A k \in last, j \in keys : checks[k].at >= checks[j].at
    BY <2>2
  <2>5. \A k \in keys, j \in keys : checks[k].at >= checks[j].at =>
          checks[k].at > checks[j].at \/ checks[k].at = checks[j].at
    BY <1>2, <1>3
  <2> HIDE DEF times
  <2>6. CASE \E k \in last : k[2] = 0
    <3>1. PICK k \in last : k[2] = 0
      BY <2>6
    <3>2. Newest1(k)
      BY <2>4, <2>5, <3>1
    <3> QED BY <3>1, <3>2
  <2>7. CASE \A k \in last : k[2] # 0
    <3>1. \A j \in keys : checks[k1].at = checks[j].at => j[2] # 0
      BY <2>3, <2>7
    <3>2. Newest1(k1)
      BY <2>3, <2>4, <2>5, <3>1
    <3> QED BY <3>2
  <2> QED BY <2>6, <2>7
<1>5. CASE keys = {}
  BY <1>1, <1>5
<1>6. CASE keys # {}
  <2> DEFINE k == CHOOSE k \in keys : Newest1(k)
  <2>1. k \in keys
    <3> HIDE DEF Newest1
    <3> QED BY <1>4, <1>6
  <2>2. ByType(type) = checks[k]
    BY <1>1, <1>6
  <2> HIDE DEF k
  <2> QED BY <1>2, <2>1, <2>2
<1> QED BY <1>5, <1>6

\* What a failure or a label of the newest check of a type has told.
LEMMA ByTypeTold ==
  ASSUME FoundInv
  PROVE  /\ "SPOOF_ATTEMPT" \in ByType("LIVENESS").labels => "SPOOF_ATTEMPT" \in findings
         /\ ByType("DUPLICATE_FACE").result = "FAIL" => "DUPLICATE_FACE" \in findings
         /\ ByType("DUPLICATE_IDENTITY").result = "FAIL" => "DUPLICATE_ACCOUNT" \in findings
<1>1. NoCheck.labels = {} /\ NoCheck.result = "none"
  BY DEF NoCheck, Failed
<1>2. \A k \in DOMAIN checks :
        /\ checks[k].labels \subseteq findings \cup Excused
        /\ k[1] = "DUPLICATE_IDENTITY" /\ checks[k].result = "FAIL"
             => "DUPLICATE_ACCOUNT" \in checks[k].labels
        /\ k[1] = "DUPLICATE_FACE" /\ checks[k].result = "FAIL"
             => "DUPLICATE_FACE" \in checks[k].labels
  BY DEF FoundInv, ChecksInv, SoundChecks, SoundCheck
<1>3. {"SPOOF_ATTEMPT", "DUPLICATE_FACE", "DUPLICATE_ACCOUNT"} \cap Excused = {}
  BY DEF Excused
<1>4. "SPOOF_ATTEMPT" \in ByType("LIVENESS").labels => "SPOOF_ATTEMPT" \in findings
  BY <1>1, <1>2, <1>3, ByTypeIs
<1>5. ByType("DUPLICATE_FACE").result = "FAIL" => "DUPLICATE_FACE" \in findings
  BY <1>1, <1>2, <1>3, ByTypeIs
<1>6. ByType("DUPLICATE_IDENTITY").result = "FAIL" => "DUPLICATE_ACCOUNT" \in findings
  BY <1>1, <1>2, <1>3, ByTypeIs
<1> QED BY <1>4, <1>5, <1>6

\* What the snapshot's document is: of nothing, or what its row keeps.
LEMMA DocumentIs ==
  ASSUME FoundInv, NEW d \in IdDocs, DocumentFacts(d).present
  PROVE  LET f == DocumentFacts(d)
         IN /\ isEmbargoed(f.country) => "PROHIBITED_COUNTRY" \in findings
            /\ f.extracted /\ f.expiredFor > 0 => "DOCUMENT_EXPIRED" \in findings
            /\ f.authenticity >= 0 /\ f.authenticity < 30 => "FORGED_DOCUMENT" \in findings
            /\ f.tamperFlags # {} => "FORGED_DOCUMENT" \in findings
<1> DEFINE none == [present |-> FALSE, extracted |-> FALSE, country |-> "",
                    expiredFor |-> Unread, authenticity |-> -1, tamperFlags |-> {},
                    name |-> "", age |-> -1]
           isId == d # 0 /\ docs[d].read # "none"
           read == Picture(docs[d].read)
           exam == Picture(docs[d].examined)
           extracted == isId /\ read.expiredFor # Unread
           country == IF isId THEN read.country ELSE ""
           expired == IF isId THEN read.expiredFor ELSE Unread
           score == IF docs[d].examined = "none" THEN -1 ELSE exam.authenticity
           flags == IF docs[d].examined = "none" THEN {} ELSE exam.tamperFlags
           f == DocumentFacts(d)
<1>1. d # 0
  <2>1. CASE d = 0
    <3>1. f = none
      BY <2>1, Zenon DEF DocumentFacts
    <3>2. none.present = FALSE
      OBVIOUS
    <3> HIDE DEF none
    <3> QED BY <3>1, <3>2, Zenon
  <2> QED BY <2>1
<1>2. d \in DOMAIN docs
  BY <1>1 DEF IdDocs, OfType, Rows
<1>3. SoundDoc(docs[d], findings)
  BY <1>2 DEF FoundInv, DocsInv
<1>4. /\ f.extracted = extracted /\ f.country = country /\ f.expiredFor = expired
      /\ f.authenticity = score /\ f.tamperFlags = flags
  <2>1. f = [none EXCEPT
       !.present = TRUE,
       !.extracted = extracted,
       !.country = country,
       !.expiredFor = expired,
       !.name = IF isId THEN read.name ELSE "",
       !.age = IF isId THEN read.age ELSE -1,
       !.authenticity = score,
       !.tamperFlags = flags]
    BY <1>1, Zenon DEF DocumentFacts
  <2> HIDE DEF f, extracted, country, expired, score, flags, isId, read, exam
  <2> QED BY <2>1
<1> HIDE DEF f
<1>5. isEmbargoed(f.country) => "PROHIBITED_COUNTRY" \in findings
  <2>1. ~isEmbargoed("")
    BY DEF isEmbargoed, EMBARGOED_COUNTRIES
  <2>2. CASE isId
    BY <1>3, <1>4, <2>2 DEF SoundDoc
  <2>3. CASE ~isId
    <3>1. country = ""
      BY <2>3, Zenon
    <3>2. f.country = ""
      <4> HIDE DEF country, isId
      <4> QED BY <1>4, <3>1, Zenon
    <3> QED BY <2>1, <3>2, Zenon
  <2> QED BY <2>2, <2>3
<1>6. f.extracted /\ f.expiredFor > 0 => "DOCUMENT_EXPIRED" \in findings
  <2> SUFFICES ASSUME f.extracted, f.expiredFor > 0 PROVE "DOCUMENT_EXPIRED" \in findings
    OBVIOUS
  <2>1. isId
    <3>1. extracted
      <4> HIDE DEF extracted
      <4> QED BY <1>4, Zenon
    <3> QED BY <3>1
  <2>2. expired = read.expiredFor
    BY <2>1, Zenon
  <2>3. read.expiredFor > 0
    <3> HIDE DEF expired, read
    <3>1. f.expiredFor = read.expiredFor
      BY <1>4, <2>2, Zenon
    <3> QED BY <3>1
  <2> QED BY <1>3, <2>1, <2>3 DEF SoundDoc
<1>7. docs[d].examined # "none" /\ (exam.tamperFlags # {} \/ exam.authenticity < 30)
        => "FORGED_DOCUMENT" \in findings
  BY <1>3 DEF SoundDoc, isForged
<1>8. f.authenticity >= 0 /\ f.authenticity < 30 => "FORGED_DOCUMENT" \in findings
  <2>1. CASE docs[d].examined = "none"
    <3>1. score = -1
      BY <2>1, Zenon
    <3> HIDE DEF score
    <3>2. f.authenticity = -1
      BY <1>4, <3>1, Zenon
    <3> QED BY <3>2
  <2>2. CASE docs[d].examined # "none"
    <3>1. score = exam.authenticity
      BY <2>2, Zenon
    <3> HIDE DEF score, exam
    <3>2. f.authenticity = exam.authenticity
      BY <1>4, <3>1, Zenon
    <3> QED BY <1>7, <2>2, <3>2
  <2> QED BY <2>1, <2>2
<1>9. f.tamperFlags # {} => "FORGED_DOCUMENT" \in findings
  <2>1. CASE docs[d].examined = "none"
    <3>1. flags = {}
      BY <2>1, Zenon
    <3> HIDE DEF flags
    <3> QED BY <1>4, <3>1, Zenon
  <2>2. CASE docs[d].examined # "none"
    <3>1. flags = exam.tamperFlags
      BY <2>2, Zenon
    <3> HIDE DEF flags, exam
    <3>2. f.tamperFlags = exam.tamperFlags
      BY <1>4, <3>1, Zenon
    <3> QED BY <1>7, <2>2, <3>2
  <2> QED BY <2>1, <2>2
<1> QED BY <1>5, <1>6, <1>8, <1>9 DEF f

\* The fields of the snapshot that rules reject for.
LEMMA SnapshotIs ==
  ASSUME NEW d
  PROVE  LET s == Snapshot(d)
         IN /\ s.country = row.country /\ s.nationality = "" /\ s.age = row.age
            /\ s.document = DocumentFacts(d) /\ s.checks = LatestChecks
            /\ s.confirmedSanctionsHits =
                 Cardinality({e \in screening.matched : ListType(e) = "SANCTIONS"
                                /\ screening.resolved[e] = "TRUE_POSITIVE"})
            /\ s.spoofDetected = ("SPOOF_ATTEMPT" \in ByType("LIVENESS").labels)
            /\ s.identityMatchCount =
                 IF ByType("DUPLICATE_IDENTITY").result = "FAIL" THEN 1 ELSE 0
            /\ s.sameIdentity = (ByType("DUPLICATE_FACE").result # "FAIL")
BY DEF Snapshot

\* What a rule rejects for has been found.
LEMMA ShownIsFound ==
  ASSUME FoundInv, run.wave # 0, NEW d \in IdDocs, NEW l,
         Shown(l, buildApplicantFacts(Snapshot(d)))
  PROVE  l \in findings
<1> DEFINE s     == Snapshot(d)
           facts == buildApplicantFacts(s)
<1>0. /\ s.country = row.country /\ s.nationality = "" /\ s.age = row.age
      /\ s.document = DocumentFacts(d)
      /\ s.confirmedSanctionsHits =
           Cardinality({e \in screening.matched : ListType(e) = "SANCTIONS"
                          /\ screening.resolved[e] = "TRUE_POSITIVE"})
      /\ s.spoofDetected = ("SPOOF_ATTEMPT" \in ByType("LIVENESS").labels)
      /\ s.identityMatchCount = IF ByType("DUPLICATE_IDENTITY").result = "FAIL" THEN 1 ELSE 0
      /\ s.sameIdentity = (ByType("DUPLICATE_FACE").result # "FAIL")
  BY SnapshotIs, Zenon
<1>1. Shown(l, facts)
  OBVIOUS
<1> HIDE DEF s
<1>2. \A f \in DOMAIN facts : f \in ApplicantFacts /\ Supplied(f, s) /\ facts[f] = FactOf(f, s)
  BY FactKnown
<1> HIDE DEF facts
<1>a. /\ FactOf("applicant.country", s) = row.country
      /\ FactOf("applicant.age", s) = row.age
      /\ FactOf("document.issuingCountry", s) = DocumentFacts(d).country
      /\ FactOf("document.expiryDate", s) = DocumentFacts(d).expiredFor
      /\ FactOf("document.authenticityScore", s) = DocumentFacts(d).authenticity
      /\ FactOf("document.tamperFlags", s) = DocumentFacts(d).tamperFlags
      /\ FactOf("screening.confirmedSanctionsHits", s) =
           Cardinality({e \in screening.matched : ListType(e) = "SANCTIONS"
                          /\ screening.resolved[e] = "TRUE_POSITIVE"})
      /\ FactOf("duplicate.identityMatchCount", s) =
           IF ByType("DUPLICATE_IDENTITY").result = "FAIL" THEN 1 ELSE 0
  BY <1>0, FactsAre, Zenon
<1>b. /\ Supplied("applicant.nationality", s) => FALSE
      /\ Supplied("document.issuingCountry", s) => DocumentFacts(d).present
      /\ Supplied("document.expiryDate", s) =>
           DocumentFacts(d).present /\ DocumentFacts(d).extracted
      /\ Supplied("document.authenticityScore", s) =>
           DocumentFacts(d).present /\ DocumentFacts(d).authenticity >= 0
      /\ Supplied("document.tamperFlags", s) => DocumentFacts(d).present
      /\ Supplied("applicant.age", s) => row.age >= 0
  BY <1>0, SuppliedWhen, Zenon
<1>3. CASE /\ l = "PROHIBITED_COUNTRY"
           /\ \E f \in CountryFacts : Among(facts, f, EMBARGOED_COUNTRIES)
  <2>1. PICK f \in CountryFacts : f \in DOMAIN facts /\ facts[f] \in EMBARGOED_COUNTRIES
    BY <1>3 DEF Among
  <2>2. Supplied(f, s) /\ FactOf(f, s) \in EMBARGOED_COUNTRIES
    BY <1>2, <2>1
  <2>3. CASE f = "applicant.country"
    <3>1. isEmbargoed(row.country)
      BY <1>a, <2>2, <2>3 DEF isEmbargoed
    <3>2. ~isCountryAllowedForLevel(row.country, level)
      BY <3>1 DEF isCountryAllowedForLevel
    <3>3. run.forced
      BY <3>2 DEF FoundInv, RunInv
    <3> QED BY <1>3, <3>3 DEF FoundInv, RunInv
  <2>4. CASE f = "applicant.nationality"
    BY <1>b, <2>2, <2>4
  <2>5. CASE f = "document.issuingCountry"
    <3>1. DocumentFacts(d).present /\ DocumentFacts(d).country \in EMBARGOED_COUNTRIES
      BY <1>a, <1>b, <2>2, <2>5
    <3> QED BY <1>3, <3>1, DocumentIs DEF isEmbargoed
  <2> QED BY <2>3, <2>4, <2>5 DEF CountryFacts
<1>4. CASE /\ l = "SANCTIONS_MATCH"
           /\ "screening.confirmedSanctionsHits" \in DOMAIN facts
           /\ facts["screening.confirmedSanctionsHits"] >= 1
  <2> DEFINE hits == {e \in screening.matched : ListType(e) = "SANCTIONS"
                        /\ screening.resolved[e] = "TRUE_POSITIVE"}
  <2>1. Cardinality(hits) >= 1
    BY <1>a, <1>2, <1>4
  <2>2. hits # {}
    <3> HIDE DEF hits
    <3> QED BY <2>1, FS_EmptySet
  <2>3. PICK e \in hits : TRUE
    BY <2>2
  <2>4. e = "SANCTIONS"
    <3>1. ListType(e) = "SANCTIONS"
      BY <2>3
    <3> QED BY <3>1 DEF ListType
  <2>5. screening.resolved["SANCTIONS"] = "TRUE_POSITIVE"
    BY <2>3, <2>4
  <2> QED BY <1>4, <2>5 DEF FoundInv, ScreeningInv
<1>5. CASE /\ l = "FORGED_DOCUMENT"
           /\ \/ /\ "document.authenticityScore" \in DOMAIN facts
                 /\ facts["document.authenticityScore"] < 30
              \/ /\ "document.tamperFlags" \in DOMAIN facts
                 /\ facts["document.tamperFlags"] # {}
  <2>1. CASE "document.authenticityScore" \in DOMAIN facts
             /\ facts["document.authenticityScore"] < 30
    <3>1. /\ DocumentFacts(d).present /\ DocumentFacts(d).authenticity >= 0
          /\ DocumentFacts(d).authenticity < 30
      BY <1>a, <1>b, <1>2, <2>1
    <3> QED BY <1>5, <3>1, DocumentIs
  <2>2. CASE "document.tamperFlags" \in DOMAIN facts /\ facts["document.tamperFlags"] # {}
    <3>1. DocumentFacts(d).present /\ DocumentFacts(d).tamperFlags # {}
      BY <1>a, <1>b, <1>2, <2>2
    <3> QED BY <1>5, <3>1, DocumentIs
  <2> QED BY <1>5, <2>1, <2>2
<1>6. CASE /\ l = "SPOOF_ATTEMPT"
           /\ \/ Among(facts, "liveness.spoofDetected", {TRUE})
              \/ "liveness.attackType" \in DOMAIN facts
  <2>1. "liveness.attackType" \notin ApplicantFacts
    BY DEF ApplicantFacts
  <2>2. Among(facts, "liveness.spoofDetected", {TRUE})
    BY <1>2, <1>6, <2>1
  <2>3. "liveness.spoofDetected" \in DOMAIN facts /\ facts["liveness.spoofDetected"] = TRUE
    BY <2>2, Zenon DEF Among
  <2>4. s.spoofDetected = TRUE
    BY <1>2, <2>3, FactsAre, Zenon
  <2>5. "SPOOF_ATTEMPT" \in ByType("LIVENESS").labels
    BY <1>0, <2>4, Zenon
  <2> QED BY <1>6, <2>5, ByTypeTold
<1>7. CASE l = "DUPLICATE_FACE" /\ Among(facts, "duplicate.sameIdentity", {FALSE})
  <2>1. "duplicate.sameIdentity" \in DOMAIN facts /\ facts["duplicate.sameIdentity"] = FALSE
    BY <1>7, Zenon DEF Among
  <2>2. s.sameIdentity = FALSE
    BY <1>2, <2>1, FactsAre, Zenon
  <2>3. ByType("DUPLICATE_FACE").result = "FAIL"
    BY <1>0, <2>2, Zenon
  <2> QED BY <1>7, <2>3, ByTypeTold
<1>8. CASE /\ l = "DOCUMENT_EXPIRED"
           /\ "document.expiryDate" \in DOMAIN facts /\ facts["document.expiryDate"] > 0
  <2>1. /\ DocumentFacts(d).present /\ DocumentFacts(d).extracted
        /\ DocumentFacts(d).expiredFor > 0
    BY <1>a, <1>b, <1>2, <1>8
  <2> QED BY <1>8, <2>1, DocumentIs
<1>9. CASE l = "UNDERAGE" /\ "applicant.age" \in DOMAIN facts /\ facts["applicant.age"] < 18
  <2>1. row.age >= 0 /\ row.age < 18
    BY <1>a, <1>b, <1>2, <1>9
  <2> QED BY <2>1 DEF FoundInv, RowInv
<1>10. CASE /\ l = "DUPLICATE_ACCOUNT"
            /\ "duplicate.identityMatchCount" \in DOMAIN facts
            /\ facts["duplicate.identityMatchCount"] >= 1
  <2>1. (IF ByType("DUPLICATE_IDENTITY").result = "FAIL" THEN 1 ELSE 0) >= 1
    BY <1>a, <1>2, <1>10
  <2>2. ByType("DUPLICATE_IDENTITY").result = "FAIL"
    BY <2>1
  <2> QED BY <1>10, <2>2, ByTypeTold
<1> QED BY <1>1, <1>3, <1>4, <1>5, <1>6, <1>7, <1>8, <1>9, <1>10 DEF Shown

\* What the summary of a list of actions says of rejections.
LEMMA SummaryIs ==
  ASSUME NEW actions
  PROVE  LET hints == summarizeActions(actions)
             asks(types) == {i \in DOMAIN actions : actions[i].type \in types}
         IN /\ hints.autoReject => asks({"AUTO_REJECT"}) # {}
            /\ hints.rejectLabels =
                 UNION {actions[i].value : i \in asks({"AUTO_REJECT", "ADD_REJECT_LABEL"})}
<1> DEFINE hints == summarizeActions(actions)
           Asked(types)  == \E i \in DOMAIN actions : actions[i].type \in types
           Values1(types) == UNION {actions[i].value :
                              i \in {j \in DOMAIN actions : actions[j].type \in types}}
<1>1. /\ hints.autoReject = Asked({"AUTO_REJECT"})
      /\ hints.rejectLabels = Values1({"AUTO_REJECT", "ADD_REJECT_LABEL"})
  BY DEF summarizeActions
<1> HIDE DEF hints
<1> QED BY <1>1 DEF hints

\* So a run's rules reject for what has been found, and label with that or with what
\* leaves a way back.
LEMMA HintsFounded ==
  ASSUME FoundInv, run.wave # 0, NEW d \in IdDocs
  PROVE  LET facts == buildApplicantFacts(Snapshot(d))
             hints == summarizeActions(ActionsOf(evaluateRules(RunRules, facts).fired))
         IN /\ hints.autoReject => findings # {}
            /\ hints.rejectLabels \subseteq findings \cup MayRetry
<1> DEFINE facts   == buildApplicantFacts(Snapshot(d))
           actions == ActionsOf(evaluateRules(RunRules, facts).fired)
           hints   == summarizeActions(actions)
           asks(types) == {i \in DOMAIN actions : actions[i].type \in types}
<1>1. facts = [n \in DOMAIN facts |-> facts[n]]
  BY DEF buildApplicantFacts
<1>2. \A l : Shown(l, facts) => l \in findings
  BY ShownIsFound
<1> HIDE DEF facts
<1>3. \A i \in DOMAIN actions : \E j \in 1..28 :
        /\ evaluateCondition(APPLICANT_RULES[j].conditions, facts)
        /\ actions[i] \in Range(APPLICANT_RULES[j].actions)
  BY <1>1, Requested
<1>4. /\ hints.autoReject => asks({"AUTO_REJECT"}) # {}
      /\ hints.rejectLabels =
           UNION {actions[i].value : i \in asks({"AUTO_REJECT", "ADD_REJECT_LABEL"})}
  BY SummaryIs, Zenon
<1> HIDE DEF actions
<1>5. ASSUME NEW i \in DOMAIN actions
      PROVE  /\ actions[i].type = "AUTO_REJECT" => \E l \in findings : actions[i].value = {l}
             /\ actions[i].type = "ADD_REJECT_LABEL" =>
                  \E l \in findings \cup MayRetry : actions[i].value = {l}
  <2>1. PICK j \in 1..28 : /\ evaluateCondition(APPLICANT_RULES[j].conditions, facts)
                           /\ actions[i] \in Range(APPLICANT_RULES[j].actions)
    BY <1>3
  <2>2. PICK k \in DOMAIN APPLICANT_RULES[j].actions :
          actions[i] = APPLICANT_RULES[j].actions[k]
    BY <2>1 DEF Range
  <2>3. Founded(APPLICANT_RULES[j], facts)
    BY <2>1, RulesFounded
  <2> QED BY <1>2, <2>2, <2>3, Zenon DEF Founded
<1>6. hints.autoReject => findings # {}
  BY <1>4, <1>5
<1>7. hints.rejectLabels \subseteq findings \cup MayRetry
  BY <1>4, <1>5
<1> QED BY <1>6, <1>7 DEF facts, actions

----------------------------------------------------------------------------
(* Scores.                                                                 *)

\* A number kept within 0 and 100.
LEMMA Clamped ==
  ASSUME NEW n \in Int
  PROVE  Max({0, Min({100, n})}) \in 0..100
<1> DEFINE least == Min({100, n})
<1>1. least \in {100, n} /\ \A y \in {100, n} : least <= y
  <2>1. \E x \in {100, n} : \A y \in {100, n} : x <= y
    OBVIOUS
  <2> QED BY <2>1 DEF Min
<1> HIDE DEF least
<1>2. least \in Int /\ least <= 100
  BY <1>1
<1> DEFINE most == Max({0, least})
<1>3. most \in {0, least} /\ \A y \in {0, least} : most >= y
  <2>1. \E x \in {0, least} : \A y \in {0, least} : x >= y
    BY <1>2
  <2> QED BY <2>1 DEF Max
<1> HIDE DEF most
<1>4. most \in 0..100
  BY <1>2, <1>3
<1> QED BY <1>4 DEF most, least

\* What is needed of the scale.
LEMMA PercentIs == Percent \in Nat /\ Percent > 0
BY SMT DEF Percent

\* The recursion of combineRiskFactors, weight by weight.
Survives(f, weights) ==
  /\ f[0] = Whole
  /\ \A i \in 1..Len(weights) :
       f[i] = (f[i - 1] * (100 - Max({0, Min({100, weights[i]})}))) \div 100

\* It has a solution, and that is what the score is computed from.
LEMMA SurvivalRuns ==
  ASSUME NEW weights \in Seq(Int)
  PROVE  \E f : /\ Survives(f, weights)
                /\ combineRiskFactors(weights)
                     = (Whole - f[Len(weights)] + Percent \div 2) \div Percent
<1> DEFINE Next1(x, i) == (x * (100 - Max({0, Min({100, weights[i]})}))) \div 100
           Body(f) == [i \in 0..Len(weights) |-> IF i = 0 THEN Whole
                                                 ELSE Next1(f[i - 1], i)]
           Upto(f, n) == f[0] = Whole /\ \A i \in 1..n : f[i] = Next1(f[i - 1], i)
           T == {n \in Nat : \E f : Upto(f, n)}
<1>0. combineRiskFactors(weights) =
        (Whole - (CHOOSE f : f = Body(f))[Len(weights)] + Percent \div 2) \div Percent
  BY Zenon DEF combineRiskFactors
<1> HIDE DEF Next1
<1>1. 0 \in T
  <2>1. Upto([i \in {0} |-> Whole], 0)
    OBVIOUS
  <2> QED BY <2>1
<1>2. ASSUME NEW n \in Nat, n \in T PROVE n + 1 \in T
  <2>1. PICK f : Upto(f, n)
    BY <1>2
  <2> DEFINE g == [i \in 0..(n + 1) |-> IF i = n + 1 THEN Next1(f[n], n + 1) ELSE f[i]]
  <2>2. g[0] = Whole
    BY <2>1
  <2>3. ASSUME NEW i \in 1..(n + 1) PROVE g[i] = Next1(g[i - 1], i)
    <3>1. CASE i = n + 1
      BY <3>1
    <3>2. CASE i # n + 1
      <4>1. i \in 1..n /\ i - 1 \in 0..(n + 1) /\ i - 1 # n + 1
        BY <3>2
      <4>2. g[i] = f[i] /\ g[i - 1] = f[i - 1]
        BY <4>1, <3>2
      <4>3. f[i] = Next1(f[i - 1], i)
        BY <2>1, <4>1
      <4> QED BY <4>2, <4>3
    <3> QED BY <3>1, <3>2
  <2>4. Upto(g, n + 1)
    BY <2>2, <2>3
  <2> HIDE DEF Upto
  <2> QED BY <2>4
<1>3. PICK f : Upto(f, Len(weights))
  <2> HIDE DEF Upto
  <2>1. Len(weights) \in T
    <3> HIDE DEF T
    <3> QED BY <1>1, <1>2, SetInduction
  <2> QED BY <2>1
<1> DEFINE g == [i \in 0..Len(weights) |-> f[i]]
<1>4. g = Body(g)
  <2>1. Len(weights) \in Nat
    OBVIOUS
  <2>2. ASSUME NEW i \in 0..Len(weights) PROVE g[i] = Body(g)[i]
    <3>1. CASE i = 0
      BY <1>3, <3>1
    <3>2. CASE i # 0
      <4>1. g[i] = Next1(f[i - 1], i)
        BY <1>3, <3>2
      <4>2. g[i - 1] = f[i - 1]
        BY <3>2
      <4> QED BY <4>1, <4>2, <3>2
    <3> QED BY <3>1, <3>2
  <2> QED BY <2>2
<1> HIDE DEF g
<1> DEFINE h == CHOOSE after : after = Body(after)
<1>5. h = Body(h)
  BY <1>4
<1>6. Survives(h, weights)
  <2> HIDE DEF h
  <2>1. h[0] = Whole
    BY <1>5
  <2>2. ASSUME NEW i \in 1..Len(weights) PROVE h[i] = Next1(h[i - 1], i)
    <3>1. i \in 0..Len(weights) /\ i # 0
      OBVIOUS
    <3>2. Body(h)[i] = Next1(h[i - 1], i)
      BY <3>1, Zenon
    <3> QED BY <1>5, <3>2, Zenon
  <2> QED BY <2>1, <2>2 DEF Survives, Next1
<1> QED BY <1>0, <1>6

\* So risk scores are percentages.
LEMMA ScoreRange ==
  ASSUME NEW weights \in Seq(Int)
  PROVE  combineRiskFactors(weights) \in 0..100
<1>1. PICK f : /\ Survives(f, weights)
               /\ combineRiskFactors(weights)
                    = (Whole - f[Len(weights)] + Percent \div 2) \div Percent
  BY SurvivalRuns
<1>0. Whole \in Nat
  BY PercentIs DEF Whole
<1> DEFINE T == {n \in Nat : n <= Len(weights) => f[n] \in 0..Whole}
<1>2. 0 \in T
  BY <1>0, <1>1 DEF Survives
<1>3. ASSUME NEW n \in Nat, n \in T PROVE n + 1 \in T
  <2> SUFFICES ASSUME n + 1 <= Len(weights) PROVE f[n + 1] \in 0..Whole
    OBVIOUS
  <2> DEFINE w == Max({0, Min({100, weights[n + 1]})})
  <2>1. w \in 0..100
    <3>1. weights[n + 1] \in Int
      OBVIOUS
    <3> QED BY <3>1, Clamped
  <2>2. f[n + 1] = (f[n] * (100 - w)) \div 100
    <3>1. n + 1 \in 1..Len(weights) /\ (n + 1) - 1 = n
      OBVIOUS
    <3>2. f[n + 1] = (f[(n + 1) - 1] * (100 - w)) \div 100
      BY <1>1, <3>1 DEF Survives
    <3> QED BY <3>1, <3>2
  <2>3. f[n] \in 0..Whole
    BY <1>3
  <2> HIDE DEF w
  <2> DEFINE x == f[n]
             k == 100 - w
  <2>4. x \in 0..Whole /\ k \in 0..100
    BY <2>1, <2>3
  <2>5. f[n + 1] = (x * k) \div 100
    BY <2>2
  <2> HIDE DEF x, k
  <2> DEFINE p == x * k
  <2>6. p \in Int /\ p >= 0 /\ p <= x * 100
    BY <1>0, <2>4
  <2> HIDE DEF p
  <2>7. p \div 100 \in 0..Whole
    BY <1>0, <2>4, <2>6
  <2> QED BY <2>5, <2>7 DEF p
<1>4. f[Len(weights)] \in 0..Whole
  <2>1. Len(weights) \in T
    <3> HIDE DEF T
    <3> QED BY <1>2, <1>3, SetInduction
  <2> QED BY <2>1
<1>5. ASSUME NEW x \in 0..Whole
      PROVE  (Whole - x + Percent \div 2) \div Percent \in 0..100
  <2>1. Percent \in Nat /\ Percent > 0 /\ Whole = 100 * Percent
    BY PercentIs DEF Whole
  <2>2. x \in Int /\ 0 <= x /\ x <= 100 * Percent
    BY <2>1
  <2> DEFINE half == Percent \div 2
             y    == Whole - x + half
  <2>3. half \in Int /\ 0 <= half /\ half < Percent
    BY <2>1
  <2> HIDE DEF half
  <2>4. y \in Int /\ 0 <= y /\ y < 101 * Percent
    BY <2>1, <2>2, <2>3
  <2> HIDE DEF y
  <2> DEFINE q == y \div Percent
  <2> DEFINE low  == q * Percent
             high == (q + 1) * Percent
  <2>5. q \in Int /\ low \in Int /\ high \in Int /\ low <= y /\ y < high
    BY <2>1, <2>4
  <2> HIDE DEF q
  <2>6. 0 <= q
    <3> SUFFICES ASSUME q <= -1 PROVE FALSE
      BY <2>5
    <3>1. high <= 0
      BY <2>1, <2>5
    <3> HIDE DEF high
    <3> QED BY <2>4, <2>5, <3>1
  <2>7. q <= 100
    <3> SUFFICES ASSUME q >= 101 PROVE FALSE
      BY <2>5
    <3>1. low >= 101 * Percent
      BY <2>1, <2>5
    <3> HIDE DEF low
    <3> QED BY <2>1, <2>4, <2>5, <3>1
  <2>8. q \in 0..100
    BY <2>5, <2>6, <2>7
  <2> QED BY <2>8 DEF q, y, half
<1> QED BY <1>1, <1>4, <1>5

\* The weight of a country, and of labels, is a percentage.
LEMMA HeaviestIs ==
  ASSUME NEW c, NEW labels
  PROVE  CountryScore(c) \in 0..100 /\ riskWeightFor(labels) \in 0..100
<1>1. CountryScore(c) \in 0..100
  <2> DEFINE those == {0} \cup {cw[2] : cw \in {x \in CATEGORY_WEIGHTS : c \in x[1]}}
  <2>1. \A x \in CATEGORY_WEIGHTS : x[2] \in 0..100
    BY DEF CATEGORY_WEIGHTS
  <2>2. those \subseteq 0..100 /\ those # {}
    BY <2>1
  <2> HIDE DEF those
  <2>3. Max(those) \in 0..100
    BY <2>2, Highest
  <2> QED BY <2>3 DEF CountryScore, those
<1>2. riskWeightFor(labels) \in 0..100
  <2> DEFINE those == {0} \cup {l[3] : l \in {x \in REJECT_LABELS : x[1] \in labels}}
  <2>1. /\ \A x \in QualityLabels : x[3] \in 0..100
        /\ \A x \in ValidityLabels : x[3] \in 0..100
        /\ \A x \in BiometricLabels : x[3] \in 0..100
        /\ \A x \in MismatchLabels : x[3] \in 0..100
    BY DEF QualityLabels, ValidityLabels, BiometricLabels, MismatchLabels
  <2>2. /\ \A x \in FraudLabels : x[3] \in 0..100
        /\ \A x \in ComplianceLabels : x[3] \in 0..100
        /\ \A x \in ProcessLabels : x[3] \in 0..100
        /\ \A x \in CompanyLabels : x[3] \in 0..100
    BY DEF FraudLabels, ComplianceLabels, ProcessLabels, CompanyLabels
  <2>3. \A x \in REJECT_LABELS : x[3] \in 0..100
    BY <2>1, <2>2 DEF REJECT_LABELS
  <2>4. those \subseteq 0..100 /\ those # {}
    BY <2>3
  <2> HIDE DEF those
  <2>5. Max(those) \in 0..100
    BY <2>4, Highest
  <2> QED BY <2>5 DEF riskWeightFor, those
<1> QED BY <1>1, <1>2

\* The factors of an applicant's risk are numbers.
LEMMA FactorsAreNumbers ==
  ASSUME NEW s, s.openHits \in Int, s.faceMatch \in Int
  PROVE  deriveRiskFactors(s) \in Seq(Int)
<1> DEFINE d == s.device
           f1 == CountryScore(s.country)
           f2 == IF s.nationality = s.country THEN 0
                 ELSE (CountryScore(s.nationality) * 6 + 5) \div 10
           f3 == IF s.confirmedSanctionsHits > 0 THEN 100
                 ELSE IF s.openHits > 0 THEN Min({60, 25 + s.openHits * 10}) ELSE 0
           f4 == IF s.pepHits = 0 THEN 0
                 ELSE CASE s.maxPepTier <= 1 -> 50
                        [] s.maxPepTier = 2  -> 40
                        [] s.maxPepTier = 3  -> 22
                        [] OTHER             -> 15
           f5 == IF s.adverseMediaHits > 0 THEN 30 ELSE 0
           f6 == riskWeightFor(UNION {c.labels : c \in s.checks})
           f7 == IF d.isEmulator \/ d.isRooted THEN 30 ELSE 0
           f8 == IF d.isTor THEN 20 ELSE IF d.isVpn \/ d.isProxy THEN 10 ELSE 0
           f9 == IF d.botScore >= 60 THEN 25 ELSE 0
           f10 == IF s.faceMatchCount > 0 /\ ~s.sameIdentity THEN 85 ELSE 0
           f11 == IF s.identityMatchCount > 0 THEN 50 ELSE 0
           f12 == IF s.deviceSharedWithCount >= 5 THEN 40 ELSE 0
           f13 == IF s.spoofDetected THEN 95 ELSE 0
           f14 == IF s.faceMatch >= 0 /\ s.faceMatch < 80
                  THEN Min({70, (80 - s.faceMatch) * 2}) ELSE 0
           f15 == IF s.emailDisposable THEN 12 ELSE 0
           f16 == IF s.phoneVoip THEN 10 ELSE 0
<1>1. deriveRiskFactors(s) =
        <<f1, f2, f3, f4, f5, f6, f7, f8, f9, f10, f11, f12, f13, f14, f15, f16>>
  BY Zenon DEF deriveRiskFactors
<1>2. \A n \in Int, m \in Int : Min({n, m}) \in Int
  <2> SUFFICES ASSUME NEW n \in Int, NEW m \in Int PROVE Min({n, m}) \in Int
    OBVIOUS
  <2>1. \E x \in {n, m} : \A y \in {n, m} : x <= y
    OBVIOUS
  <2> QED BY <2>1 DEF Min
<1>3. f1 \in Int /\ f6 \in Int
  BY HeaviestIs
<1>4. f2 \in Int
  BY HeaviestIs
<1>5. f3 \in Int
  BY <1>2
<1>6. f14 \in Int
  BY <1>2
<1>7. f4 \in Int /\ f5 \in Int
  OBVIOUS
<1>8. f7 \in Int /\ f8 \in Int /\ f9 \in Int /\ f10 \in Int /\ f11 \in Int
  OBVIOUS
<1>9. f12 \in Int /\ f13 \in Int /\ f15 \in Int /\ f16 \in Int
  OBVIOUS
<1> HIDE DEF f1, f2, f3, f4, f5, f6, f7, f8, f9, f10, f11, f12, f13, f14, f15, f16
<1> QED BY <1>1, <1>3, <1>4, <1>5, <1>6, <1>7, <1>8, <1>9

\* What rules add to the risk, action by action.
Adds(f, actions) ==
  /\ f[0] = 0
  /\ \A i \in 1..Len(actions) :
       f[i] = f[i - 1] + (IF actions[i].type = "ADD_RISK" THEN actions[i].value ELSE 0)

\* The sum has a solution, and that is what is added.
LEMMA DeltaRuns ==
  ASSUME NEW A, NEW actions \in Seq(A)
  PROVE  \E f : /\ Adds(f, actions)
                /\ riskDelta(actions) = Max({0, Min({100, f[Len(actions)]})})
<1> DEFINE Part(i) == IF actions[i].type = "ADD_RISK" THEN actions[i].value ELSE 0
           Body(f) == [i \in 0..Len(actions) |-> IF i = 0 THEN 0 ELSE f[i - 1] + Part(i)]
           Upto(f, n) == f[0] = 0 /\ \A i \in 1..n : f[i] = f[i - 1] + Part(i)
           T == {n \in Nat : \E f : Upto(f, n)}
<1>0. riskDelta(actions) =
        Max({0, Min({100, (CHOOSE f : f = Body(f))[Len(actions)]})})
  BY Zenon DEF riskDelta
<1> HIDE DEF Part
<1>1. 0 \in T
  <2>1. Upto([i \in {0} |-> 0], 0)
    OBVIOUS
  <2> QED BY <2>1
<1>2. ASSUME NEW n \in Nat, n \in T PROVE n + 1 \in T
  <2>1. PICK f : Upto(f, n)
    BY <1>2
  <2> DEFINE g == [i \in 0..(n + 1) |-> IF i = n + 1 THEN f[n] + Part(n + 1) ELSE f[i]]
  <2>2. g[0] = 0
    BY <2>1
  <2>3. ASSUME NEW i \in 1..(n + 1) PROVE g[i] = g[i - 1] + Part(i)
    <3>1. CASE i = n + 1
      BY <3>1
    <3>2. CASE i # n + 1
      <4>1. i \in 1..n /\ i - 1 \in 0..(n + 1) /\ i - 1 # n + 1
        BY <3>2
      <4>2. g[i] = f[i] /\ g[i - 1] = f[i - 1]
        BY <4>1, <3>2
      <4>3. f[i] = f[i - 1] + Part(i)
        BY <2>1, <4>1
      <4> QED BY <4>2, <4>3
    <3> QED BY <3>1, <3>2
  <2>4. Upto(g, n + 1)
    BY <2>2, <2>3
  <2> HIDE DEF Upto
  <2> QED BY <2>4
<1>3. PICK f : Upto(f, Len(actions))
  <2> HIDE DEF Upto
  <2>1. Len(actions) \in T
    <3> HIDE DEF T
    <3> QED BY <1>1, <1>2, SetInduction
  <2> QED BY <2>1
<1> DEFINE g == [i \in 0..Len(actions) |-> f[i]]
<1>4. g = Body(g)
  <2>1. Len(actions) \in Nat
    OBVIOUS
  <2>2. ASSUME NEW i \in 0..Len(actions) PROVE g[i] = Body(g)[i]
    <3>1. CASE i = 0
      BY <1>3, <3>1
    <3>2. CASE i # 0
      <4>1. g[i] = f[i - 1] + Part(i)
        BY <1>3, <3>2
      <4>2. g[i - 1] = f[i - 1]
        BY <3>2
      <4> QED BY <4>1, <4>2, <3>2
    <3> QED BY <3>1, <3>2
  <2> QED BY <2>2
<1> HIDE DEF g
<1> DEFINE h == CHOOSE after : after = Body(after)
<1>5. h = Body(h)
  BY <1>4
<1>6. Adds(h, actions)
  <2> HIDE DEF h
  <2>1. h[0] = 0
    BY <1>5
  <2>2. ASSUME NEW i \in 1..Len(actions) PROVE h[i] = h[i - 1] + Part(i)
    <3>1. i \in 0..Len(actions) /\ i # 0
      OBVIOUS
    <3>2. Body(h)[i] = h[i - 1] + Part(i)
      BY <3>1, Zenon
    <3> QED BY <1>5, <3>2, Zenon
  <2> QED BY <2>1, <2>2 DEF Adds, Part
<1> QED BY <1>0, <1>6

\* What rules add is a percentage when each adds a number.
LEMMA DeltaRange ==
  ASSUME NEW A, NEW actions \in Seq(A),
         \A i \in DOMAIN actions : actions[i].type = "ADD_RISK" => actions[i].value \in Int
  PROVE  riskDelta(actions) \in 0..100
<1>1. PICK f : /\ Adds(f, actions)
               /\ riskDelta(actions) = Max({0, Min({100, f[Len(actions)]})})
  BY DeltaRuns
<1> DEFINE T == {n \in Nat : n <= Len(actions) => f[n] \in Int}
<1>2. 0 \in T
  BY <1>1 DEF Adds
<1>3. ASSUME NEW n \in Nat, n \in T PROVE n + 1 \in T
  <2> SUFFICES ASSUME n + 1 <= Len(actions) PROVE f[n + 1] \in Int
    OBVIOUS
  <2> DEFINE part == IF actions[n + 1].type = "ADD_RISK" THEN actions[n + 1].value ELSE 0
  <2>1. n + 1 \in 1..Len(actions) /\ (n + 1) - 1 = n /\ DOMAIN actions = 1..Len(actions)
    OBVIOUS
  <2>2. f[n + 1] = f[(n + 1) - 1] + part
    BY <1>1, <2>1 DEF Adds
  <2>3. part \in Int
    BY <2>1
  <2>4. f[n] \in Int
    BY <1>3
  <2> HIDE DEF part
  <2> QED BY <2>1, <2>2, <2>3, <2>4
<1>4. f[Len(actions)] \in Int
  <2>1. Len(actions) \in T
    <3> HIDE DEF T
    <3> QED BY <1>2, <1>3, SetInduction
  <2> QED BY <2>1
<1> QED BY <1>1, <1>4, Clamped

\* The numbers of the snapshot that the factors weigh.
LEMMA SnapshotNumbers ==
  ASSUME FoundInv, NEW d
  PROVE  Snapshot(d).openHits \in Int /\ Snapshot(d).faceMatch \in Int
<1>1. Snapshot(d).openHits = Cardinality(OpenHits)
      /\ Snapshot(d).faceMatch = ByType("FACE_MATCH").score
  BY DEF Snapshot
<1>2. IsFiniteSet(Entries)
  <2>1. IsFiniteSet({"SANCTIONS"})
    BY FS_Singleton
  <2>2. IsFiniteSet({"SANCTIONS"} \cup {"PEP 1"})
    BY <2>1, FS_AddElement
  <2>3. IsFiniteSet(({"SANCTIONS"} \cup {"PEP 1"}) \cup {"PEP 4"})
    BY <2>2, FS_AddElement
  <2>4. IsFiniteSet((({"SANCTIONS"} \cup {"PEP 1"}) \cup {"PEP 4"}) \cup {"ADVERSE_MEDIA"})
    BY <2>3, FS_AddElement
  <2>5. Entries = (({"SANCTIONS"} \cup {"PEP 1"}) \cup {"PEP 4"}) \cup {"ADVERSE_MEDIA"}
    BY DEF Entries
  <2> QED BY <2>4, <2>5
<1>3. OpenHits \subseteq Entries
  BY DEF OpenHits, FoundInv, ScreeningInv
<1>4. Cardinality(OpenHits) \in Int
  BY <1>2, <1>3, FS_Subset, FS_CardinalityType
<1>5. ByType("FACE_MATCH").score \in Int
  <2>1. NoCheck.score = -1
    BY DEF NoCheck, Failed
  <2>2. \A k \in DOMAIN checks : checks[k].score \in Int
    BY DEF FoundInv, ChecksInv, SoundChecks, SoundCheck
  <2> QED BY <2>1, <2>2, ByTypeIs
<1> QED BY <1>1, <1>4, <1>5

\* The score a run ends with is a percentage.
LEMMA DecisionScored ==
  ASSUME FoundInv, NEW d
  PROVE  Decision(Snapshot(d)).riskScore \in 0..100
<1> DEFINE s       == Snapshot(d)
           facts   == buildApplicantFacts(s)
           actions == ActionsOf(evaluateRules(RunRules, facts).fired)
           weights == Append(deriveRiskFactors(s), riskDelta(actions))
<1>1. Decision(s).riskScore = combineRiskFactors(weights)
  BY DEF Decision, assessRisk
<1>2. facts = [n \in DOMAIN facts |-> facts[n]]
  BY DEF buildApplicantFacts
<1>3. deriveRiskFactors(s) \in Seq(Int)
  BY SnapshotNumbers, FactorsAreNumbers
<1> HIDE DEF facts, s
<1>4. /\ actions \in Seq(UNION {Range(r.actions) : r \in Listed})
      /\ \A i \in DOMAIN actions : \E j \in 1..28 :
           /\ evaluateCondition(APPLICANT_RULES[j].conditions, facts)
           /\ actions[i] \in Range(APPLICANT_RULES[j].actions)
  BY <1>2, Requested
<1> HIDE DEF actions
<1>5. ASSUME NEW i \in DOMAIN actions, actions[i].type = "ADD_RISK"
      PROVE  actions[i].value \in Int
  <2>1. PICK j \in 1..28 : actions[i] \in Range(APPLICANT_RULES[j].actions)
    BY <1>4
  <2>2. PICK k \in DOMAIN APPLICANT_RULES[j].actions :
          actions[i] = APPLICANT_RULES[j].actions[k]
    BY <2>1 DEF Range
  <2>3. Fits(APPLICANT_RULES[j], PlaceOf[j])
    BY AllFit
  <2>4. APPLICANT_RULES[j].actions[k].type = "ADD_RISK" =>
          APPLICANT_RULES[j].actions[k].value \in 0..100
    BY <2>2, <2>3, Zenon DEF Fits
  <2>5. actions[i].value \in 0..100
    BY <1>5, <2>2, <2>4, Zenon
  <2> QED BY <2>5
<1>6. riskDelta(actions) \in 0..100
  BY <1>4, <1>5, DeltaRange
<1>7. weights \in Seq(Int)
  <2> DEFINE base == deriveRiskFactors(s)
             more == riskDelta(actions)
  <2>0. base \in Seq(Int)
    BY <1>3
  <2>1. more \in 0..100
    BY <1>6
  <2> HIDE DEF base, more
  <2>2. Append(base, more) \in Seq(Int)
    BY <2>0, <2>1
  <2> QED BY <2>2 DEF base, more
<1> HIDE DEF weights
<1> QED BY <1>1, <1>7, ScoreRange DEF s

\* A run's decision: where it leaves the applicant, and what that rests on.
LEMMA DecisionFounded ==
  ASSUME FoundInv, run.wave # 0, NEW d \in IdDocs
  PROVE  LET verdict == Decision(Snapshot(d)).reviewStatus
         IN /\ verdict \in {"APPROVED", "QUEUED", "REJECTED_RETRY", "REJECTED_FINAL"}
            /\ verdict = "REJECTED_RETRY" /\ ~level.autoReject => findings # {}
            /\ verdict = "REJECTED_FINAL" /\ ~level.autoReject
                 => isFinalRejection(findings)
<1> DEFINE s          == Snapshot(d)
           facts      == buildApplicantFacts(s)
           actions    == ActionsOf(evaluateRules(RunRules, facts).fired)
           hints      == summarizeActions(actions)
           assessment == assessRisk(Append(deriveRiskFactors(s), riskDelta(actions)),
                                    s.ddLevel, hints.requiresEdd)
           told       == UNION {c.labels : c \in s.checks}
           forced     == When(run.forced, "PROHIBITED_COUNTRY")
           labels     == told \cup hints.rejectLabels \cup forced
           reject     == \/ run.forced
                         \/ hints.autoReject
                         \/ level.autoReject /\ assessment.score >= level.autoRejectScore
           approve    == /\ level.autoApprove
                         /\ hints.autoApprove
                         /\ ~hints.requiresManualReview
                         /\ assessment.score < level.manualReviewScore
                         /\ labels = {}
           verdict    == Decision(s).reviewStatus
<1>1. verdict = CASE reject -> IF isFinalRejection(labels) THEN "REJECTED_FINAL"
                               ELSE "REJECTED_RETRY"
                  [] ~reject /\ approve -> "APPROVED"
                  [] OTHER -> "QUEUED"
  BY DEF Decision
<1>2. /\ hints.autoReject => findings # {}
      /\ hints.rejectLabels \subseteq findings \cup MayRetry
  BY HintsFounded
<1>3. run.forced => "PROHIBITED_COUNTRY" \in findings
  BY DEF FoundInv, RunInv
<1>4. told \subseteq findings \cup Excused
  <2>1. \A k \in DOMAIN checks : checks[k].labels \subseteq findings \cup Excused
    BY DEF FoundInv, ChecksInv, SoundChecks, SoundCheck
  <2>2. s.checks = LatestChecks
    BY SnapshotIs
  <2>3. ASSUME NEW c \in s.checks PROVE c.labels \subseteq findings \cup Excused
    <3>1. PICK k \in LatestKeys :
            c = [type |-> k[1], doc |-> k[2], status |-> checks[k].status,
                 result |-> checks[k].result, labels |-> checks[k].labels]
      BY <2>2, <2>3 DEF LatestChecks
    <3>2. k \in DOMAIN checks /\ c.labels = checks[k].labels
      BY <3>1 DEF LatestKeys
    <3> QED BY <2>1, <3>2
  <2> HIDE DEF s
  <2> QED BY <2>3
<1>5. forced \subseteq findings
  <2>1. CASE run.forced
    <3>1. forced \subseteq {"PROHIBITED_COUNTRY"}
      BY WhenIs
    <3> QED BY <1>3, <2>1, <3>1
  <2>2. CASE ~run.forced
    <3>1. forced = {}
      BY <2>2, WhenIs
    <3> QED BY <3>1
  <2> QED BY <2>1, <2>2
<1> HIDE DEF s, facts, actions, hints, assessment
<1> HIDE DEF told, forced
<1>6. labels \subseteq findings \cup Excused \cup MayRetry
  BY <1>2, <1>4, <1>5
<1>7. reject /\ ~level.autoReject => findings # {}
  BY <1>2, <1>3
<1> HIDE DEF labels, reject, approve
<1>8. CASE reject
  <2>1. CASE isFinalRejection(labels)
    <3>1. verdict = "REJECTED_FINAL"
      BY <1>1, <1>8, <2>1
    <3>2. isFinalRejection(findings)
      BY <1>6, <2>1, FinalForFindings
    <3> QED BY <3>1, <3>2 DEF s
  <2>2. CASE ~isFinalRejection(labels)
    <3>1. verdict = "REJECTED_RETRY"
      BY <1>1, <1>8, <2>2
    <3> QED BY <1>7, <1>8, <3>1 DEF s
  <2> QED BY <2>1, <2>2
<1>9. CASE ~reject
  <2>1. verdict \in {"APPROVED", "QUEUED"}
    BY <1>1, <1>9
  <2> QED BY <2>1 DEF s
<1> QED BY <1>8, <1>9

\* The decision keeps the invariant, too.
LEMMA FinalizeKeeps ==
  ASSUME FoundAll, NEW d \in IdDocs, Finalize(d)
  PROVE  FoundAll'
<1> DEFINE decision == Decision(Snapshot(d))
           monitored == row.monitored \/ (decision.monitor
                                            /\ decision.reviewStatus = "APPROVED")
<1>0. FoundInv
  BY DEF FoundAll
<1>1. /\ run.wave = Len(Waves) + 1 /\ run' = Idle
      /\ row' = [row EXCEPT
           !.reviewStatus = decision.reviewStatus,
           !.verdict = decision.reviewStatus,
           !.riskScore = decision.riskScore,
           !.ddLevel = decision.ddLevel,
           !.monitored = monitored]
      /\ UNCHANGED <<level, docs, checks, screening, device, runs, trouble, findings>>
  BY Zenon DEF Finalize
<1>2. run.wave # 0 /\ level \in LevelsInUse
  <2>1. Len(Waves) \in Nat \ {0}
    BY <1>0, WavesShape DEF FoundInv, RunInv
  <2> QED BY <1>0, <1>1, <2>1 DEF FoundInv, RunInv
<1>3. /\ decision.reviewStatus \in {"APPROVED", "QUEUED", "REJECTED_RETRY", "REJECTED_FINAL"}
      /\ decision.reviewStatus = "REJECTED_RETRY" /\ ~level.autoReject => findings # {}
      /\ decision.reviewStatus = "REJECTED_FINAL" /\ ~level.autoReject
           => isFinalRejection(findings)
  BY <1>0, <1>2, DecisionFounded
<1>a. decision.riskScore \in 0..100
  BY <1>0, DecisionScored
<1>4. row'.ddLevel \in Levels3
  <2>1. DdInvariant
    BY <1>0 DEF FoundInv, RowInv, RowFields, DdInvariant
  <2> QED BY <2>1, DecisionRatchets DEF DdInvariant
<1> HIDE DEF decision, monitored
<1>5. RowInv' /\ row'.verdict = decision.reviewStatus
  <2>1. /\ DOMAIN row' = RowFields /\ row'.age = row.age
        /\ row'.reviewStatus = decision.reviewStatus
        /\ row'.verdict = decision.reviewStatus
        /\ row'.riskScore = decision.riskScore
    BY <1>0, <1>1 DEF FoundInv, RowInv, RowFields
  <2> QED BY <1>0, <1>a, <1>3, <1>4, <2>1 DEF FoundInv, RowInv, ReviewStatuses
<1>6. RunInv'
  <2>1. run'.wave = 0 /\ ~run'.forced /\ run'.todo = {} /\ run'.forced \in BOOLEAN
        /\ DOMAIN run' = {"wave", "todo", "forced"}
    BY <1>1 DEF Idle
  <2> QED BY <1>0, <1>1, <2>1 DEF FoundInv, RunInv, Idle
<1>7. DocsInv' /\ ScreeningInv'
  BY <1>0, <1>1, DocsKept, ScreeningKept DEF FoundInv
<1>8. ChecksInv'
  BY <1>0, <1>1 DEF FoundInv, ChecksInv, SoundChecks, SoundCheck
<1>9. Promise'
  BY <1>1, <1>2, <1>3, <1>5 DEF Promise, RejectedOnFindings
<1> QED BY <1>5, <1>6, <1>7, <1>8, <1>9 DEF FoundAll, FoundInv

\* The invariant holds.
LEMMA FoundHolds == Spec => []FoundAll
<1>1. Init => FoundAll
  BY FoundStarts
<1>2. FoundAll /\ [Next]_vars => FoundAll'
  <2> SUFFICES ASSUME FoundAll, [Next]_vars PROVE FoundAll'
    OBVIOUS
  <2>1. CASE Between
    BY <2>1, BetweenKeepsFound
  <2>2. ASSUME NEW d \in IdDocs, Finalize(d) PROVE FoundAll'
    BY <2>2, FinalizeKeeps
  <2>3. CASE RunStep /\ \A d \in IdDocs : ~Finalize(d)
    BY <2>3, StepsKeepFound
  <2>4. CASE UNCHANGED vars
    BY <2>4, DocsKept, ScreeningKept
       DEF vars, FoundAll, FoundInv, RunInv, RowInv, ChecksInv, SoundChecks, SoundCheck,
           Promise, RejectedOnFindings, isFinalRejection
  <2> QED BY <2>1, <2>2, <2>3, <2>4 DEF Next
<1> QED BY <1>1, <1>2, PTL DEF Spec

\* Nobody is rejected on what did not happen, at levels that do not reject for a
\* score alone (no template does; levels.ts, `autoReject`).
THEOREM RejectionsRestOnFindings ==
  ASSUME \A l \in LevelsInUse : ~l.autoReject
  PROVE  Spec => []RejectedOnFindings
<1>1. FoundAll => RejectedOnFindings
  BY DEF FoundAll, Promise
<1> QED BY <1>1, FoundHolds, PTL

\* What an applicant's row, the findings and the checks hold is what pipeline.ts may
\* write: scores are percentages, labels are of the taxonomy, documents exist.
THEOREM TypesHold == Spec => []TypeOK
<1>1. FoundAll => TypeOK
  <2> SUFFICES ASSUME FoundAll PROVE TypeOK
    OBVIOUS
  <2>1. Range(DdLevels) = Levels3
    <3>1. DdLevels[1] = "SDD" /\ DdLevels[2] = "CDD" /\ DdLevels[3] = "EDD"
          /\ DOMAIN DdLevels = {1, 2, 3}
      BY DEF DdLevels
    <3> QED BY <3>1 DEF Range, Levels3
  <2>2. \A k \in DOMAIN checks : k[2] \in Rows \cup {0} /\ checks[k].labels \subseteq Labels
    BY DEF FoundAll, FoundInv, ChecksInv, SoundChecks, SoundCheck, DocsInv, Rows
  <2>3. RowInv /\ findings \subseteq Labels
    BY DEF FoundAll, FoundInv, ChecksInv
  <2> QED BY <2>1, <2>2, <2>3 DEF TypeOK, RowInv
<1> QED BY <1>1, FoundHolds, PTL
----------------------------------------------------------------------------
(* What an approval rests on.                                              *)

\* Levels as the templates are: a step is told by its identifier and has a place in
\* the order, at most one asks for proof of address, a chip is not required (the phone
\* reads it before the run), and what is checked on a face or a bill is.
Usual(l) ==
  /\ \A s \in l.steps : s.order \in Int
  /\ \A s, t \in l.steps : s.id = t.id => s = t
  /\ \A s, t \in l.steps :
       s.type = "PROOF_OF_ADDRESS" /\ t.type = "PROOF_OF_ADDRESS" => s = t
  /\ \A s \in l.steps : s.type = "NFC_READ" => ~s.required
  /\ \A s \in l.steps :
       s.type \in {"SELFIE", "LIVENESS", "PROOF_OF_ADDRESS"} => s.required

\* Checks made of the newest picture of a kind, superseded or not, and the pictures
\* they are made of.
PictureChecks == {"LIVENESS", "FACE_MATCH", "PROOF_OF_ADDRESS"}
AddressTypes  ==
  UNION {s.acceptedDocumentTypes : s \in {t \in level.steps : t.type = "PROOF_OF_ADDRESS"}}
Sighted(type) == OfType(IF type = "PROOF_OF_ADDRESS" THEN AddressTypes ELSE SelfieTypes)

\* Checks no program performs.
NeverDone == {"MANUAL", "WALLET_SCREENING", "COMPANY_REGISTRY", "AGE_ESTIMATION"}

\* A check that has come to an end was performed, and on a picture of its kind.
Backed(k, c) ==
  /\ k[1] \in NeverDone => c.status # "COMPLETED"
  /\ k[1] \in PictureChecks =>
       \/ k[2] = 0 /\ c.status # "COMPLETED"
       \/ k[2] # 0 /\ k[2] \in Sighted(k[1])

\* A check of this run is of a live document, or of the newest picture of its kind
\* for a step of the level.
Timely(k) ==
  \/ k[2] = 0 \/ docs[k[2]].status # "SUPERSEDED"
  \/ /\ k[1] \in PictureChecks /\ k[2] = Newest(Sighted(k[1]))
     /\ \E s \in level.steps : checkTypeForStep(s) = k[1]

\* Documents are superseded all together: what came before a superseded one is.
Prefix ==
  \A d, e \in Rows : d <= e /\ docs[e].status = "SUPERSEDED" => docs[d].status = "SUPERSEDED"

\* A step the run has yet to do, and one it has left a check of.
Ahead(s)    == s \in run.todo \/ \E i \in (run.wave + 1) .. Len(Waves) : s \in Waves[i]
Performed   == Automated \ {"NFC_READ"}
Reported(s) == s.type \in Performed =>
  \E k \in DOMAIN checks : k[1] = checkTypeForStep(s) /\ checks[k].at = runs

RunRests ==
  /\ run.wave > Len(Waves) => run.todo = {}
  /\ run.wave # 0 =>
       /\ \A k \in DOMAIN checks : checks[k].at = runs => Timely(k)
       /\ ~run.forced => \A s \in level.steps : Ahead(s) \/ Reported(s)

RestInv ==
  /\ Usual(level) /\ Prefix /\ IsFiniteSet(DOMAIN checks)
  /\ \A k \in DOMAIN checks : Backed(k, checks[k])
  /\ RunRests

\* One rule of the library asks for an approval, when its condition holds.
LEMMA ApprovalAsked ==
  ASSUME NEW facts, facts = [n \in DOMAIN facts |-> facts[n]],
         summarizeActions(ActionsOf(evaluateRules(RunRules, facts).fired)).autoApprove
  PROVE  evaluateCondition(WorkflowRules[1].conditions, facts)
<1> DEFINE actions == ActionsOf(evaluateRules(RunRules, facts).fired)
           hints   == summarizeActions(actions)
           Asked(types) == \E i \in DOMAIN actions : actions[i].type \in types
<1>1. \A i \in DOMAIN actions : \E j \in 1..28 :
        /\ evaluateCondition(APPLICANT_RULES[j].conditions, facts)
        /\ actions[i] \in Range(APPLICANT_RULES[j].actions)
  BY Requested
<1>2. hints.autoApprove
  OBVIOUS
<1> HIDE DEF actions
<1>3. hints.autoApprove =
        (Asked({"AUTO_APPROVE"}) /\ ~Asked({"AUTO_REJECT"})
          /\ ~(Asked({"REQUIRE_EDD"}) \/ Asked({"REQUIRE_MANUAL_REVIEW"})))
  BY DEF summarizeActions
<1> HIDE DEF hints
<1>4. Asked({"AUTO_APPROVE"})
  BY <1>2, <1>3
<1>5. PICK i \in DOMAIN actions : actions[i].type = "AUTO_APPROVE"
  BY <1>4
<1>6. PICK j \in 1..28 : /\ evaluateCondition(APPLICANT_RULES[j].conditions, facts)
                         /\ actions[i] \in Range(APPLICANT_RULES[j].actions)
  BY <1>1
<1>7. PICK k \in DOMAIN APPLICANT_RULES[j].actions :
        actions[i] = APPLICANT_RULES[j].actions[k]
  BY <1>6 DEF Range
<1>8. PlaceOf[j] = 300
  <2>1. Fits(APPLICANT_RULES[j], PlaceOf[j])
    BY AllFit
  <2> QED BY <1>5, <1>7, <2>1, Zenon DEF Fits
<1>9. j = 25
  BY <1>8 DEF PlaceOf, PlacesScreeningRules, PlacesDocumentRules, PlacesRiskRules,
              PlacesWorkflowRules
<1>10. APPLICANT_RULES[25] = WorkflowRules[1]
  <2>1. \A n \in 25..28 : APPLICANT_RULES[n] = WorkflowRules[n - 24]
    BY LibraryShape, Zenon
  <2> QED BY <2>1
<1> QED BY <1>6, <1>9, <1>10

\* What that rule's condition says of a snapshot.
LEMMA ApprovalShows ==
  ASSUME NEW s, evaluateCondition(WorkflowRules[1].conditions, buildApplicantFacts(s))
  PROVE  allRequiredPassed(s) /\ Count(s.checks, "WARNING") = 0
<1> DEFINE facts == buildApplicantFacts(s)
           of == <<On("checks.allRequiredPassed"), If("checks.failedCount", "eq", 0),
                   If("checks.warningCount", "eq", 0), If("screening.openHits", "eq", 0),
                   If("applicant.riskScore", "lt", 30), If("applicant.ddLevel", "neq", "EDD")>>
<1>1. evaluateCondition(AllOf(of), facts)
  BY DEF WorkflowRules, Rule
<1>2. \A f \in DOMAIN facts : facts[f] = FactOf(f, s)
  BY FactKnown
<1> HIDE DEF facts
<1>3. \A i \in DOMAIN of : of[i].node = "fact"
  BY DEF If, On
<1>4. \A i \in DOMAIN of : evaluatePredicate(of[i], facts)
  <2> HIDE DEF of
  <2> QED BY <1>1, <1>3, AllHeld
<1>5. /\ evaluatePredicate(If("checks.allRequiredPassed", "eq", TRUE), facts)
      /\ evaluatePredicate(If("checks.warningCount", "eq", 0), facts)
  <2>1. /\ of[1] = If("checks.allRequiredPassed", "eq", TRUE) /\ 1 \in DOMAIN of
        /\ of[3] = If("checks.warningCount", "eq", 0) /\ 3 \in DOMAIN of
    BY DEF On
  <2> HIDE DEF of
  <2> QED BY <1>4, <2>1, Zenon
<1>6. /\ FactOf("checks.allRequiredPassed", s) = TRUE
      /\ FactOf("checks.warningCount", s) = 0
  BY <1>2, <1>5, Compared, Zenon
<1>7. /\ FactOf("checks.allRequiredPassed", s) = allRequiredPassed(s)
      /\ FactOf("checks.warningCount", s) = Count(s.checks, "WARNING")
  BY DEF FactOf
<1> QED BY <1>6, <1>7, Zenon

\* What a run that approves has seen: each required step is complete, and nothing of
\* concern is in the current checks.
LEMMA ApprovalSees ==
  ASSUME IsFiniteSet(DOMAIN checks), NEW d,
         Decision(Snapshot(d)).reviewStatus = "APPROVED"
  PROVE  /\ ~run.forced
         /\ \A t \in level.steps : t.required => t.id \in completedStepIds
         /\ \A k \in LatestKeys :
              checks[k].labels = {} /\ checks[k].result \notin {"FAIL", "WARNING"}
<1> DEFINE s          == Snapshot(d)
           facts      == buildApplicantFacts(s)
           actions    == ActionsOf(evaluateRules(RunRules, facts).fired)
           hints      == summarizeActions(actions)
           assessment == assessRisk(Append(deriveRiskFactors(s), riskDelta(actions)),
                                    s.ddLevel, hints.requiresEdd)
           told       == UNION {c.labels : c \in s.checks}
           forced     == When(run.forced, "PROHIBITED_COUNTRY")
           labels     == told \cup hints.rejectLabels \cup forced
           reject     == \/ run.forced
                         \/ hints.autoReject
                         \/ level.autoReject /\ assessment.score >= level.autoRejectScore
           approve    == /\ level.autoApprove
                         /\ hints.autoApprove
                         /\ ~hints.requiresManualReview
                         /\ assessment.score < level.manualReviewScore
                         /\ labels = {}
           verdict    == Decision(s).reviewStatus
<1>1. verdict = CASE reject -> IF isFinalRejection(labels) THEN "REJECTED_FINAL"
                               ELSE "REJECTED_RETRY"
                  [] ~reject /\ approve -> "APPROVED"
                  [] OTHER -> "QUEUED"
  BY DEF Decision
<1>2. verdict = "APPROVED"
  OBVIOUS
<1>3. facts = [n \in DOMAIN facts |-> facts[n]]
  BY DEF buildApplicantFacts
<1>4. s.checks = LatestChecks
  BY SnapshotIs
<1>5. /\ s.required = {t.id : t \in {u \in level.steps : u.required}}
      /\ s.completed = completedStepIds
  BY DEF Snapshot
<1>6. hints.autoApprove => evaluateCondition(WorkflowRules[1].conditions, facts)
  <2> HIDE DEF facts
  <2> QED BY <1>3, ApprovalAsked
<1> HIDE DEF s
<1>7. evaluateCondition(WorkflowRules[1].conditions, facts) =>
        allRequiredPassed(s) /\ Count(s.checks, "WARNING") = 0
  BY ApprovalShows
<1> HIDE DEF facts, actions, hints, assessment, told, forced
<1>8. ~reject /\ approve
  <2> HIDE DEF reject, approve, labels, verdict
  <2> QED BY <1>1, <1>2
<1>9. ~run.forced /\ hints.autoApprove /\ told = {}
  BY <1>8
<1>10. /\ s.required \subseteq s.completed
       /\ \A c \in s.checks : c.result # "FAIL"
       /\ Cardinality({c \in s.checks : c.result = "WARNING"}) = 0
  BY <1>6, <1>7, <1>9 DEF allRequiredPassed, Count
<1>11. \A c \in s.checks : c.labels = {}
  BY <1>9 DEF told
<1>12. \A c \in s.checks : c.result # "WARNING"
  <2> DEFINE warned == {c \in s.checks : c.result = "WARNING"}
             row1(k) == [type |-> k[1], doc |-> k[2], status |-> checks[k].status,
                         result |-> checks[k].result, labels |-> checks[k].labels]
  <2>1. IsFiniteSet(LatestKeys)
    BY FS_Subset DEF LatestKeys
  <2>2. IsFiniteSet(LatestChecks)
    <3> DEFINE f == [k \in LatestKeys |-> row1(k)]
    <3>1. LatestChecks = {row1(k) : k \in LatestKeys}
      BY Zenon DEF LatestChecks
    <3> HIDE DEF row1
    <3>2. f \in Surjection(LatestKeys, LatestChecks)
      BY <3>1 DEF Surjection
    <3> HIDE DEF f
    <3> QED BY <2>1, <3>2, FS_Surjection
  <2>3. IsFiniteSet(warned)
    BY <1>4, <2>2, FS_Subset
  <2>4. Cardinality(warned) = 0
    BY <1>10
  <2>5. warned = {}
    <3> HIDE DEF warned
    <3> QED BY <2>3, <2>4, FS_EmptySet
  <2> QED BY <2>5
<1>13. ASSUME NEW k \in LatestKeys
       PROVE  checks[k].labels = {} /\ checks[k].result \notin {"FAIL", "WARNING"}
  <2> DEFINE c == [type |-> k[1], doc |-> k[2], status |-> checks[k].status,
                   result |-> checks[k].result, labels |-> checks[k].labels]
  <2>1. c \in LatestChecks
    BY Zenon DEF LatestChecks
  <2>2. c.labels = checks[k].labels /\ c.result = checks[k].result
    OBVIOUS
  <2> HIDE DEF c
  <2> QED BY <1>4, <1>10, <1>11, <1>12, <2>1, <2>2
<1>14. \A t \in level.steps : t.required => t.id \in completedStepIds
  BY <1>5, <1>10
<1> QED BY <1>9, <1>13, <1>14

\* The newest of some documents comes after the others.
LEMMA NoneNewer ==
  ASSUME NEW m \in Nat, NEW S, S \subseteq 1..m, NEW d \in S
  PROVE  d <= Newest(S)
<1>1. {0} \cup S \subseteq 0..m /\ {0} \cup S # {}
  OBVIOUS
<1>2. \A x \in {0} \cup S : Max({0} \cup S) >= x
  BY <1>1, Highest
<1>3. Max({0} \cup S) \in 0..m
  BY <1>1, Highest
<1> QED BY <1>2, <1>3 DEF Newest

\* So, at the end of a run, a complete step whose checks are made of pictures has seen
\* the newest, and a check of this run on a superseded one cannot be.
LEMMA NothingSuperseded ==
  ASSUME FoundInv, RestInv, run.wave # 0,
         NEW t \in level.steps, t.required, t.id \in completedStepIds,
         NEW k \in DOMAIN checks, checks[k].at = runs, k[1] = checkTypeForStep(t)
  PROVE  k \in LatestKeys /\ checks[k].status = "COMPLETED"
<1>1. /\ LatestOf(checkTypeForStep(t)) # {}
      /\ \A j \in LatestOf(checkTypeForStep(t)) : checks[j].status = "COMPLETED"
  <2>1. PICK u \in level.steps :
          /\ u.id = t.id /\ LatestOf(checkTypeForStep(u)) # {}
          /\ \A j \in LatestOf(checkTypeForStep(u)) : checks[j].status = "COMPLETED"
    BY DEF completedStepIds
  <2>2. u = t
    BY <2>1 DEF RestInv, Usual
  <2> QED BY <2>1, <2>2
<1>2. CASE IsLatest(k)
  <2>1. k \in LatestOf(checkTypeForStep(t)) /\ k \in LatestKeys
    BY <1>2 DEF LatestOf, LatestKeys
  <2> QED BY <1>1, <2>1
<1>3. CASE ~IsLatest(k)
  <2>1. /\ k[2] # 0 /\ docs[k[2]].status = "SUPERSEDED"
        /\ k[1] \in PictureChecks /\ k[2] = Newest(Sighted(k[1]))
    <3>1. k[2] # 0 /\ docs[k[2]].status = "SUPERSEDED"
      BY <1>3 DEF IsLatest
    <3>2. Timely(k)
      BY DEF RestInv, RunRests
    <3> QED BY <3>1, <3>2 DEF Timely
  <2>2. PICK j \in LatestOf(checkTypeForStep(t)) : TRUE
    BY <1>1
  <2>3. j \in DOMAIN checks /\ j[1] = k[1] /\ IsLatest(j) /\ checks[j].status = "COMPLETED"
    BY <1>1, <2>2 DEF LatestOf
  <2>4. j[2] # 0 /\ j[2] \in Sighted(k[1])
    <3>1. Backed(j, checks[j])
      BY <2>3 DEF RestInv
    <3> QED BY <2>1, <2>3, <3>1 DEF Backed
  <2>5. docs[j[2]].status # "SUPERSEDED"
    BY <2>3, <2>4 DEF IsLatest
  <2>6. Len(docs) \in Nat /\ Sighted(k[1]) \subseteq 1..Len(docs) /\ Rows = 1..Len(docs)
    BY OfTypes DEF Sighted, FoundInv, DocsInv
  <2>7. j[2] <= k[2]
    BY <2>1, <2>4, <2>6, NoneNewer
  <2>8. k[2] \in Rows /\ j[2] \in Rows
    <3>1. k[2] \in 0..Len(docs)
      BY DEF FoundInv, ChecksInv, SoundChecks, SoundCheck
    <3> QED BY <2>1, <2>4, <2>6, <3>1
  <2> QED BY <2>1, <2>5, <2>7, <2>8 DEF RestInv, Prefix
<1> QED BY <1>2, <1>3

\* Which steps have checks no program performs, and which have checks of pictures.
LEMMA OfWhichStep ==
  ASSUME NEW s
  PROVE  /\ s.type \notin Automated => checkTypeForStep(s) \in NeverDone
         /\ checkTypeForStep(s) \in PictureChecks =>
              s.type \in {"SELFIE", "LIVENESS", "PROOF_OF_ADDRESS"}
<1> DEFINE own == {"LIVENESS", "AML_SCREENING", "PROOF_OF_ADDRESS",
                   "AGE_ESTIMATION", "APPLICANT_DATA"}
<1>1. CASE s.type \in own
  BY <1>1 DEF checkTypeForStep, Automated, NeverDone, PictureChecks
<1>2. CASE s.type \notin own
  BY <1>2 DEF checkTypeForStep, Automated, NeverDone, PictureChecks
<1> QED BY <1>1, <1>2

\* What an approval rests on, at the state where it is decided.
Rests ==
  /\ \A s \in level.steps : s.required =>
       \E k \in DOMAIN checks :
         /\ k[1] = checkTypeForStep(s)
         /\ checks[k].at = runs
         /\ checks[k].status = "COMPLETED"
  /\ \A k \in DOMAIN checks : checks[k].at = runs =>
       checks[k].labels = {} /\ checks[k].result \notin {"FAIL", "WARNING"}

\* A run that approves rests on what it has seen.
LEMMA FinalizeRests ==
  ASSUME FoundInv, RestInv, NEW d, Finalize(d), row'.verdict = "APPROVED"
  PROVE  Rests
<1>1. Decision(Snapshot(d)).reviewStatus = "APPROVED" /\ run.wave = Len(Waves) + 1
  <2> DEFINE decision == Decision(Snapshot(d))
             monitored == row.monitored \/ (decision.monitor
                                              /\ decision.reviewStatus = "APPROVED")
  <2>1. /\ run.wave = Len(Waves) + 1
        /\ row' = [row EXCEPT
             !.reviewStatus = decision.reviewStatus,
             !.verdict = decision.reviewStatus,
             !.riskScore = decision.riskScore,
             !.ddLevel = decision.ddLevel,
             !.monitored = monitored]
    BY Zenon DEF Finalize
  <2> HIDE DEF decision, monitored
  <2>2. row'.verdict = decision.reviewStatus
    BY <2>1 DEF FoundInv, RowInv, RowFields
  <2> QED BY <2>1, <2>2 DEF decision
<1>2. /\ ~run.forced
      /\ \A t \in level.steps : t.required => t.id \in completedStepIds
      /\ \A k \in LatestKeys :
           checks[k].labels = {} /\ checks[k].result \notin {"FAIL", "WARNING"}
  BY <1>1, ApprovalSees DEF RestInv
<1>3. Len(Waves) \in Nat \ {0} /\ run.wave # 0 /\ run.todo = {}
  <2>1. Len(Waves) \in Nat \ {0}
    BY WavesShape DEF FoundInv, RunInv
  <2> QED BY <1>1, <2>1 DEF RestInv, RunRests
<1>4. ASSUME NEW s \in level.steps, s.required
      PROVE  \E k \in DOMAIN checks : /\ k[1] = checkTypeForStep(s)
                                      /\ checks[k].at = runs
                                      /\ checks[k].status = "COMPLETED"
  <2>1. CASE s.type \in Performed
    <3>1. ~Ahead(s)
      BY <1>1, <1>3 DEF Ahead
    <3>2. PICK k \in DOMAIN checks : k[1] = checkTypeForStep(s) /\ checks[k].at = runs
      BY <1>2, <1>3, <2>1, <3>1 DEF RestInv, RunRests, Reported
    <3>3. checks[k].status = "COMPLETED"
      BY <1>2, <1>3, <1>4, <3>2, NothingSuperseded
    <3> QED BY <3>2, <3>3
  <2>2. CASE s.type = "NFC_READ"
    BY <1>4, <2>2 DEF RestInv, Usual
  <2>3. CASE s.type \notin Automated
    <3>1. PICK u \in level.steps :
            /\ u.id = s.id /\ LatestOf(checkTypeForStep(u)) # {}
            /\ \A j \in LatestOf(checkTypeForStep(u)) : checks[j].status = "COMPLETED"
      BY <1>2, <1>4 DEF completedStepIds
    <3>2. u = s
      BY <3>1 DEF RestInv, Usual
    <3>3. PICK j \in DOMAIN checks :
            j[1] = checkTypeForStep(s) /\ checks[j].status = "COMPLETED"
      BY <3>1, <3>2 DEF LatestOf
    <3>4. Backed(j, checks[j]) /\ j[1] \in NeverDone
      BY <2>3, <3>3, OfWhichStep DEF RestInv
    <3> QED BY <3>3, <3>4 DEF Backed
  <2> QED BY <2>1, <2>2, <2>3 DEF Performed
<1>5. ASSUME NEW k \in DOMAIN checks, checks[k].at = runs
      PROVE  k \in LatestKeys
  <2>1. CASE IsLatest(k)
    BY <2>1 DEF LatestKeys
  <2>2. CASE ~IsLatest(k)
    <3>1. Timely(k)
      BY <1>3, <1>5 DEF RestInv, RunRests
    <3>2. PICK s \in level.steps : checkTypeForStep(s) = k[1] /\ k[1] \in PictureChecks
      BY <2>2, <3>1 DEF Timely, IsLatest
    <3>3. s.required
      BY <3>2, OfWhichStep DEF RestInv, Usual
    <3> QED BY <1>2, <1>3, <1>5, <3>2, <3>3, NothingSuperseded
  <2> QED BY <2>1, <2>2
<1> QED BY <1>2, <1>4, <1>5 DEF Rests

----------------------------------------------------------------------------
(* A run keeps it.                                                         *)

\* Every step of a level is in one of its waves.
LEMMA WavesCover ==
  ASSUME level \in LevelsInUse, Usual(level), NEW s \in level.steps
  PROVE  \E i \in 1..Len(Waves) : s \in Waves[i]
<1> DEFINE orders == {t.order : t \in level.steps}
           below  == {o \in orders : o < s.order}
           Wave(i) == {t \in level.steps : Cardinality({o \in orders : o < t.order}) = i - 1}
           n == Cardinality(orders)
           i == Cardinality(below) + 1
<1>1. Waves = [j \in 1..n |-> Wave(j)]
  BY Zenon DEF Waves, Plans, planSteps
<1>2. IsFiniteSet(orders)
  <2> DEFINE f == [t \in level.steps |-> t.order]
  <2>1. f \in Surjection(level.steps, orders)
    BY DEF Surjection
  <2>2. IsFiniteSet(level.steps)
    BY LevelAssumption
  <2> HIDE DEF f, orders
  <2> QED BY <2>1, <2>2, FS_Surjection
<1>3. s.order \in orders /\ s.order \notin below
  BY DEF Usual
<1>4. n \in Nat /\ Cardinality(below) \in Nat /\ Cardinality(below) < n
  <2>1. below \subseteq orders
    OBVIOUS
  <2>2. IsFiniteSet(below)
    <3> HIDE DEF orders, below
    <3> QED BY <1>2, <2>1, FS_Subset
  <2>3. below # orders
    BY <1>3
  <2> HIDE DEF orders, below
  <2> QED BY <1>2, <2>1, <2>2, <2>3, FS_Subset, FS_CardinalityType DEF n
<1>5. s \in Wave(i)
  <2>1. Cardinality(below) = i - 1
    <3> HIDE DEF below
    <3> QED BY <1>4
  <2> HIDE DEF i, orders
  <2> QED BY <2>1
<1>6. i \in 1..n
  <2> HIDE DEF below, n
  <2> QED BY <1>4
<1> HIDE DEF i, n, Wave, below, orders
<1>7. Waves[i] = Wave(i) /\ Len(Waves) = n
  BY <1>1, <1>4, <1>6
<1> QED BY <1>5, <1>6, <1>7

\* A step done, the others are still to come.
LEMMA AdvanceAhead ==
  ASSUME FoundInv, RestInv, run.todo # {}, Advance, level' = level
  PROVE  /\ run.wave # 0
         /\ run'.forced = run.forced
         /\ run'.wave > Len(Waves)' => run'.todo = {}
         /\ \A s : Ahead(s) /\ s # Current => Ahead(s)'
<1>1. run.wave # 0 /\ run.wave \in Nat /\ DOMAIN run = {"wave", "todo", "forced"}
  BY DEF FoundInv, RunInv, Idle
<1>2. Len(Waves) \in Nat \ {0} /\ Waves' = Waves
  BY WavesShape DEF FoundInv, RunInv, Waves
<1>3. run.wave <= Len(Waves)
  BY <1>1, <1>2 DEF RestInv, RunRests
<1> DEFINE left == run.todo \ {Current}
<1>4. CASE left # {}
  <2>1. run' = [run EXCEPT !.todo = left]
    BY <1>4, Zenon DEF Advance
  <2>2. run'.wave = run.wave /\ run'.forced = run.forced /\ run'.todo = left
    BY <1>1, <2>1
  <2> QED BY <1>1, <1>2, <1>3, <2>2 DEF Ahead
<1>5. CASE left = {}
  <2> DEFINE next == IF run.wave < Len(Waves) THEN Waves[run.wave + 1] ELSE {}
  <2>1. run' = [run EXCEPT !.wave = @ + 1, !.todo = next]
    BY <1>5, Zenon DEF Advance
  <2>2. run'.wave = run.wave + 1 /\ run'.forced = run.forced /\ run'.todo = next
    <3> HIDE DEF next
    <3> QED BY <1>1, <2>1
  <2>3. run'.wave > Len(Waves)' => run'.todo = {}
    BY <1>1, <1>2, <2>2
  <2>4. ASSUME NEW s, Ahead(s), s # Current PROVE Ahead(s)'
    <3>1. PICK i \in (run.wave + 1) .. Len(Waves) : s \in Waves[i]
      BY <1>5, <2>4 DEF Ahead
    <3>2. CASE i = run.wave + 1
      BY <1>1, <1>2, <2>2, <3>1, <3>2 DEF Ahead
    <3>3. CASE i # run.wave + 1
      <4>1. i \in (run'.wave + 1) .. Len(Waves)'
        BY <1>1, <1>2, <2>2, <3>1, <3>3
      <4> QED BY <1>2, <3>1, <4>1 DEF Ahead
    <3> QED BY <3>2, <3>3
  <2> QED BY <1>1, <2>2, <2>3, <2>4
<1> QED BY <1>4, <1>5

\* Documents of which the same are superseded, and of the same pictures.
SameDocs ==
  /\ DOMAIN docs' = DOMAIN docs
  /\ \A d \in DOMAIN docs :
       /\ docs'[d].image = docs[d].image
       /\ (docs'[d].status = "SUPERSEDED") <=> (docs[d].status = "SUPERSEDED")

\* They are seen by the same checks.
LEMMA SightKept ==
  ASSUME SameDocs, level' = level
  PROVE  \A type : Sighted(type)' = Sighted(type)
<1>1. \A types : OfType(types)' = OfType(types)
  BY DEF OfType, Rows, SameDocs
<1>2. AddressTypes' = AddressTypes
  BY DEF AddressTypes
<1> QED BY <1>1, <1>2, Zenon DEF Sighted

\* A record of a step: of this run, backed and timely; one of them of the step's type.
Attested(r) ==
  /\ r.check.at = runs /\ r.key[2] \in 0..Len(docs)
  /\ Backed(r.key, r.check) /\ Timely(r.key)
Attests(new) ==
  /\ IsFiniteSet(new) /\ \A r \in new : Attested(r)
  /\ Current.type \in Performed => \E r \in new : r.key[1] = checkTypeForStep(Current)

\* What a record makes of the checks.
LEMMA RecordedAre ==
  ASSUME NEW new, recordChecks(new)
  PROVE  /\ DOMAIN checks' = DOMAIN checks \cup {r.key : r \in new}
         /\ \A k \in DOMAIN checks' :
              \/ \E r \in new : r.key = k /\ checks'[k] = r.check
              \/ k \in DOMAIN checks /\ checks'[k] = checks[k]
         /\ \A r \in new : \E s \in new : s.key = r.key /\ checks'[r.key] = s.check
<1> DEFINE keys == {r.key : r \in new}
           row1(k) == CHOOSE r \in new : r.key = k
<1>1. checks' = [k \in DOMAIN checks \cup keys |->
                   IF k \in keys THEN row1(k).check ELSE checks[k]]
  BY DEF recordChecks
<1>2. \A k \in keys : row1(k) \in new /\ row1(k).key = k
  OBVIOUS
<1> HIDE DEF row1
<1>3. \A k \in keys : checks'[k] = row1(k).check
  BY <1>1
<1>4. \A k \in DOMAIN checks \ keys : checks'[k] = checks[k]
  BY <1>1
<1>5. DOMAIN checks' = DOMAIN checks \cup keys
  BY <1>1
<1> QED BY <1>2, <1>3, <1>4, <1>5

\* A step that attests to what it did keeps what an approval rests on.
LEMMA RecordRests ==
  ASSUME FoundInv, RestInv, run.todo # {}, NEW new, recordChecks(new), Advance,
         UNCHANGED <<level, runs>>, SameDocs, Attests(new)
  PROVE  RestInv'
<1>1. /\ run.wave # 0
      /\ run'.forced = run.forced
      /\ run'.wave > Len(Waves)' => run'.todo = {}
      /\ \A s : Ahead(s) /\ s # Current => Ahead(s)'
  BY AdvanceAhead
<1>2. \A type : Sighted(type)' = Sighted(type)
  BY SightKept
<1>4. ASSUME NEW k, k[2] \in 0..Len(docs), Timely(k) PROVE Timely(k)'
  <2>1. Sighted(k[1])' = Sighted(k[1])
    BY <1>2
  <2>2. Newest(Sighted(k[1]))' = Newest(Sighted(k[1]))
    BY <2>1 DEF Newest
  <2>3. k[2] = 0 \/ k[2] \in DOMAIN docs
    BY <1>4 DEF FoundInv, DocsInv
  <2> QED BY <1>4, <2>2, <2>3 DEF Timely, SameDocs
<1>5. /\ DOMAIN checks' = DOMAIN checks \cup {r.key : r \in new}
      /\ \A k \in DOMAIN checks' :
           \/ \E r \in new : r.key = k /\ checks'[k] = r.check
           \/ k \in DOMAIN checks /\ checks'[k] = checks[k]
      /\ \A r \in new : \E s \in new : s.key = r.key /\ checks'[r.key] = s.check
  BY RecordedAre
<1>6. IsFiniteSet(DOMAIN checks')
  <2> DEFINE f == [r \in new |-> r.key]
             keys == {r.key : r \in new}
  <2>1. f \in Surjection(new, keys)
    BY DEF Surjection
  <2>2. IsFiniteSet(keys)
    <3> HIDE DEF f, keys
    <3> QED BY <2>1, FS_Surjection DEF Attests, Attested
  <2>3. DOMAIN checks' = DOMAIN checks \cup keys /\ IsFiniteSet(DOMAIN checks)
    BY <1>5 DEF RestInv
  <2> HIDE DEF keys
  <2> QED BY <2>2, <2>3, FS_Union
<1>7. ASSUME NEW k \in DOMAIN checks' PROVE Backed(k, checks[k])'
  <2>1. Sighted(k[1])' = Sighted(k[1])
    BY <1>2
  <2>2. Backed(k, checks'[k])
    BY <1>5, <1>7 DEF RestInv, Attests, Attested
  <2> QED BY <2>1, <2>2 DEF Backed
<1>8. ASSUME NEW k \in DOMAIN checks', checks'[k].at = runs PROVE Timely(k)'
  <2>1. k[2] \in 0..Len(docs) /\ Timely(k)
    <3>1. CASE \E r \in new : r.key = k
      BY <3>1 DEF Attests, Attested
    <3>2. CASE k \in DOMAIN checks /\ checks'[k] = checks[k]
      BY <1>1, <1>8, <3>2
         DEF RestInv, RunRests, FoundInv, ChecksInv, SoundChecks, SoundCheck
    <3> QED BY <1>5, <1>8, <3>1, <3>2
  <2> QED BY <1>4, <2>1
<1>9. ASSUME NEW s \in level.steps, ~run.forced, ~Ahead(s)' PROVE Reported(s)'
  <2> SUFFICES ASSUME s.type \in Performed
               PROVE  \E k \in DOMAIN checks' :
                        k[1] = checkTypeForStep(s) /\ checks'[k].at = runs
    BY DEF Reported
  <2>1. CASE s = Current
    <3>1. PICK r \in new : r.key[1] = checkTypeForStep(s)
      BY <2>1 DEF Attests, Attested
    <3>2. r.key \in DOMAIN checks' /\ checks'[r.key].at = runs
      BY <1>5, <3>1 DEF Attests, Attested
    <3> QED BY <3>1, <3>2
  <2>2. CASE s # Current
    <3>1. PICK k \in DOMAIN checks : k[1] = checkTypeForStep(s) /\ checks[k].at = runs
      BY <1>1, <1>9, <2>2 DEF RestInv, RunRests, Reported
    <3>2. k \in DOMAIN checks' /\ checks'[k].at = runs
      BY <1>5, <3>1 DEF Attests, Attested
    <3> QED BY <3>1, <3>2
  <2> QED BY <2>1, <2>2
<1>10. Prefix'
  BY DEF RestInv, Prefix, SameDocs, Rows
<1>11. RunRests'
  BY <1>1, <1>8, <1>9 DEF RunRests
<1> QED BY <1>6, <1>7, <1>10, <1>11 DEF RestInv, Usual

\* What the rows of a check say of when it was made, and of whether.
LEMMA Stamped ==
  ASSUME NEW result, NEW labels, NEW score, NEW required, NEW label
  PROVE  /\ Completed(result, labels).at = runs
         /\ Scored(result, labels, score).at = runs
         /\ Failed.at = runs /\ Failed.status # "COMPLETED"
         /\ Skipped(required, label).at = runs
         /\ Skipped(required, label).status # "COMPLETED"
<1>1. Completed(result, labels).at = runs /\ Scored(result, labels, score).at = runs
  BY DEF Completed, Scored
<1>2. Failed.at = runs /\ Failed.status # "COMPLETED"
  BY DEF Failed
<1>3. Skipped(required, label).at = runs /\ Skipped(required, label).status # "COMPLETED"
  <2> DEFINE labels1 == IF required THEN {label} \ {""} ELSE {}
  <2>1. Skipped(required, label) =
          [status |-> "SKIPPED", result |-> "INCONCLUSIVE", score |-> -1,
           labels |-> labels1, at |-> runs]
    BY Zenon DEF Skipped
  <2> HIDE DEF labels1
  <2> QED BY <2>1
<1> QED BY <1>1, <1>2, <1>3

\* A row attests to what was done: of no document, when nothing came of it or its type
\* is not one of pictures; of a live document; of the newest picture the step sees.
LEMMA RowAttests ==
  ASSUME FoundInv, NEW type, NEW d, NEW check, check.at = runs,
         \/ /\ d = 0
            /\ check.status # "COMPLETED" \/ type \notin NeverDone \cup PictureChecks
         \/ /\ d \in 1..Len(docs) /\ docs[d].status # "SUPERSEDED"
            /\ type \notin NeverDone \cup PictureChecks
         \/ /\ d \in 1..Len(docs) /\ type \in PictureChecks
            /\ d \in Sighted(type) /\ d = Newest(Sighted(type))
            /\ Current \in level.steps /\ type = checkTypeForStep(Current)
  PROVE  Attested(Recorded(type, d, check))
<1> DEFINE r == Recorded(type, d, check)
<1>1. r.key[1] = type /\ r.key[2] = d /\ r.check = check
  BY DEF Recorded
<1>2. Len(docs) \in Nat
  BY DEF FoundInv, DocsInv
<1>3. PictureChecks \cap NeverDone = {}
  BY DEF PictureChecks, NeverDone
<1> HIDE DEF r
<1> QED BY <1>1, <1>2, <1>3 DEF Attested, Backed, Timely, r

\* With one record, and the documents as they are.
LEMMA OneRests ==
  ASSUME FoundInv, RestInv, run.todo # {}, NEW type, NEW d, NEW check, NEW told,
         Record({Recorded(type, d, check)}, told), docs' = docs,
         Attested(Recorded(type, d, check)),
         Current.type \in Performed => type = checkTypeForStep(Current)
  PROVE  RestInv'
<1> DEFINE r   == Recorded(type, d, check)
           new == {r}
<1>1. r.key[1] = type
  BY DEF Recorded
<1>2. recordChecks(new) /\ Advance /\ UNCHANGED <<level, runs>>
  BY Zenon DEF Record
<1>3. Attested(r)
  OBVIOUS
<1> HIDE DEF r
<1>4. Attests(new)
  <2>1. IsFiniteSet(new)
    BY FS_Singleton
  <2> QED BY <1>1, <1>3, <2>1 DEF Attests
<1>5. SameDocs
  BY DEF SameDocs
<1> HIDE DEF new
<1> QED BY <1>2, <1>4, <1>5, RecordRests

\* A step that comes to nothing.
LEMMA NothingRests ==
  ASSUME FoundInv, RestInv, run.todo # {}, NEW type, NEW check, NEW told,
         Record({Recorded(type, 0, check)}, told), docs' = docs,
         check.at = runs, check.status # "COMPLETED",
         Current.type \in Performed => type = checkTypeForStep(Current)
  PROVE  RestInv'
<1>1. Attested(Recorded(type, 0, check))
  BY RowAttests
<1> QED BY <1>1, OneRests

\* The checks of steps that are performed, by the type of the step.
LEMMA PerformedType ==
  ASSUME NEW s
  PROVE  /\ s.type = "IDENTITY_DOCUMENT" => checkTypeForStep(s) = "DOCUMENT_OCR"
         /\ s.type = "SELFIE" => checkTypeForStep(s) = "FACE_MATCH"
         /\ s.type = "LIVENESS" => checkTypeForStep(s) = "LIVENESS"
         /\ s.type = "DEVICE_INTELLIGENCE" => checkTypeForStep(s) = "DEVICE_FINGERPRINT"
         /\ s.type = "PHONE_VERIFICATION" => checkTypeForStep(s) = "PHONE_RISK"
         /\ s.type = "EMAIL_VERIFICATION" => checkTypeForStep(s) = "EMAIL_RISK"
         /\ s.type \in {"AML_SCREENING", "PROOF_OF_ADDRESS", "APPLICANT_DATA"} =>
              checkTypeForStep(s) = s.type
<1>1. ASSUME s.type \in {"LIVENESS", "AML_SCREENING", "PROOF_OF_ADDRESS", "APPLICANT_DATA"}
      PROVE  checkTypeForStep(s) = s.type
  BY <1>1 DEF checkTypeForStep
<1>2. ASSUME s.type \in {"IDENTITY_DOCUMENT", "SELFIE", "DEVICE_INTELLIGENCE",
                         "PHONE_VERIFICATION", "EMAIL_VERIFICATION"}
      PROVE  /\ s.type = "IDENTITY_DOCUMENT" => checkTypeForStep(s) = "DOCUMENT_OCR"
             /\ s.type = "SELFIE" => checkTypeForStep(s) = "FACE_MATCH"
             /\ s.type = "DEVICE_INTELLIGENCE" => checkTypeForStep(s) = "DEVICE_FINGERPRINT"
             /\ s.type = "PHONE_VERIFICATION" => checkTypeForStep(s) = "PHONE_RISK"
             /\ s.type = "EMAIL_VERIFICATION" => checkTypeForStep(s) = "EMAIL_RISK"
  BY <1>2 DEF checkTypeForStep
<1> QED BY <1>1, <1>2

\* Steps that throw, that find nothing to work on, or that no program performs.
LEMMA UndoneRests ==
  ASSUME FoundInv, RestInv,
         \/ StepThrows \/ DocumentMissing \/ BiometricsMissing
         \/ ScreeningUnnamed \/ NoAutomatedCheck
  PROVE  RestInv'
<1>1. CASE StepThrows
  <2>1. /\ run.todo # {} /\ Record({Recorded(checkTypeForStep(Current), 0, Failed)}, {})
        /\ docs' = docs
    BY <1>1 DEF StepThrows, Record
  <2> QED BY <2>1, Stamped, NothingRests
<1>2. CASE DocumentMissing
  <2> DEFINE check == Skipped(Current.required, "ADDITIONAL_DOCUMENTS_REQUIRED")
  <2>1. run.todo # {} /\ Current.type = "IDENTITY_DOCUMENT"
    BY <1>2, UnderWay DEF DocumentMissing
  <2>2. Record({Recorded("DOCUMENT_OCR", 0, check)}, {}) /\ docs' = docs
    BY <1>2, Zenon DEF DocumentMissing
  <2>3. check.at = runs /\ check.status # "COMPLETED"
    BY Stamped
  <2> HIDE DEF check
  <2> QED BY <2>1, <2>2, <2>3, PerformedType, NothingRests
<1>3. CASE BiometricsMissing
  <2> DEFINE check == Skipped(FALSE, "")
  <2>1. run.todo # {}
    BY <1>3, UnderWay DEF BiometricsMissing
  <2>2. Record({Recorded(checkTypeForStep(Current), 0, check)}, {}) /\ docs' = docs
    BY <1>3, Zenon DEF BiometricsMissing
  <2>3. check.at = runs /\ check.status # "COMPLETED"
    BY Stamped, Zenon
  <2> HIDE DEF check
  <2> QED BY <2>1, <2>2, <2>3, NothingRests
<1>4. CASE ScreeningUnnamed
  <2>1. run.todo # {} /\ Current.type = "AML_SCREENING"
    <3>1. At({"AML_SCREENING"})
      BY <1>4, Zenon DEF ScreeningUnnamed
    <3> QED BY <3>1, UnderWay
  <2>2. Record({Recorded("AML_SCREENING", 0, Failed)}, {}) /\ docs' = docs
    BY <1>4, Zenon DEF ScreeningUnnamed
  <2> QED BY <2>1, <2>2, Stamped, PerformedType, NothingRests
<1>5. CASE NoAutomatedCheck
  <2> DEFINE check == Skipped(Current.required, "REQUIRED_STEP_NOT_PERFORMED")
  <2>1. run.todo # {} /\ Current.type \notin Performed
    BY <1>5 DEF NoAutomatedCheck, Performed
  <2>2. Record({Recorded("MANUAL", 0, check)}, {}) /\ docs' = docs
    BY <1>5, Zenon DEF NoAutomatedCheck
  <2>3. check.at = runs /\ check.status # "COMPLETED"
    BY Stamped
  <2> HIDE DEF check
  <2> QED BY <2>1, <2>2, <2>3, NothingRests
<1> QED BY <1>1, <1>2, <1>3, <1>4, <1>5

\* A step whose check is of no document and not one of pictures.
LEMMA PlainRests ==
  ASSUME FoundInv, RestInv, run.todo # {}, NEW type, NEW check, NEW told,
         Record({Recorded(type, 0, check)}, told), docs' = docs, check.at = runs,
         type \notin NeverDone \cup PictureChecks,
         Current.type \in Performed => type = checkTypeForStep(Current)
  PROVE  RestInv'
<1>1. Attested(Recorded(type, 0, check))
  BY RowAttests
<1> QED BY <1>1, OneRests

\* An answer about a telephone or an address, or a screening.
LEMMA AnswerRests ==
  ASSUME FoundInv, RestInv,
         \/ \E answer \in Contacts : AssessContact(answer)
         \/ \E answered \in BOOLEAN : Screen(answered)
  PROVE  RestInv'
<1>1. ASSUME NEW answer \in Contacts, AssessContact(answer) PROVE RestInv'
  <2> DEFINE type  == checkTypeForStep(Current)
             check == CASE answer = "valid"   -> Completed("PASS", {})
                        [] answer = "risky"   -> Completed("WARNING", {})
                        [] answer = "invalid" -> Completed("FAIL", {})
                        [] answer = "missing" -> Skipped(FALSE, "")
                        [] answer = "outage"  -> Failed
  <2>1. /\ run.todo # {}
        /\ Current.type \in {"EMAIL_VERIFICATION", "PHONE_VERIFICATION"}
    BY <1>1, UnderWay DEF AssessContact
  <2>2. Record({Recorded(type, 0, check)}, {}) /\ docs' = docs
    BY <1>1, Zenon DEF AssessContact
  <2>3. check.at = runs
    <3>1. /\ Completed("PASS", {}).at = runs /\ Completed("WARNING", {}).at = runs
          /\ Completed("FAIL", {}).at = runs /\ Failed.at = runs
      BY Stamped
    <3>2. Skipped(FALSE, "").at = runs
      BY Stamped, Zenon
    <3> QED BY <3>1, <3>2, Zenon DEF Contacts
  <2>4. type \in {"EMAIL_RISK", "PHONE_RISK"}
    BY <2>1, PerformedType
  <2>5. type \notin NeverDone \cup PictureChecks
    BY <2>4 DEF NeverDone, PictureChecks
  <2> HIDE DEF check
  <2> QED BY <2>1, <2>2, <2>3, <2>5, PlainRests
<1>2. ASSUME NEW answered \in BOOLEAN, Screen(answered) PROVE RestInv'
  <2> DEFINE check == IF ~answered THEN Failed
                      ELSE Completed(IF screening.listed = {} THEN "PASS" ELSE "WARNING", {})
  <2>1. run.todo # {} /\ Current.type = "AML_SCREENING"
    <3>1. At({"AML_SCREENING"})
      BY <1>2, Zenon DEF Screen
    <3> QED BY <3>1, UnderWay
  <2>2. Record({Recorded("AML_SCREENING", 0, check)}, {}) /\ docs' = docs
    BY <1>2, Zenon DEF Screen
  <2>3. check.at = runs
    BY Stamped
  <2>4. "AML_SCREENING" \notin NeverDone \cup PictureChecks
    BY DEF NeverDone, PictureChecks
  <2> HIDE DEF check
  <2> QED BY <2>1, <2>2, <2>3, <2>4, PerformedType, PlainRests
<1> QED BY <1>1, <1>2

\* Two records, or one.
LEMMA PairFinite == \A a, b : IsFiniteSet({a, b})
<1> SUFFICES ASSUME NEW a, NEW b PROVE IsFiniteSet({a, b})
  OBVIOUS
<1>1. IsFiniteSet({a}) /\ IsFiniteSet({b})
  BY FS_Singleton
<1>2. {a, b} = {a} \cup {b}
  OBVIOUS
<1> QED BY <1>1, <1>2, FS_Union

\* The chip of a document, which the phone has read or nobody has.
LEMMA ChipRests ==
  ASSUME FoundInv, RestInv, LookForChip
  PROVE  RestInv'
<1> DEFINE check == Skipped(Current.required, "REQUIRED_STEP_NOT_PERFORMED")
           new == IF <<"NFC_CHIP", 0>> \in DOMAIN checks
                      /\ checks[<<"NFC_CHIP", 0>>].status = "COMPLETED"
                  THEN {} ELSE {Recorded("NFC_CHIP", 0, check)}
<1>1. run.todo # {} /\ Current.type = "NFC_READ"
  BY UnderWay DEF LookForChip
<1>2. Record(new, {}) /\ docs' = docs
  BY Zenon DEF LookForChip
<1>3. Attested(Recorded("NFC_CHIP", 0, check))
  <2>1. check.at = runs /\ check.status # "COMPLETED"
    BY Stamped
  <2> HIDE DEF check
  <2> QED BY <2>1, RowAttests
<1>4. IsFiniteSet(new) /\ new \subseteq {Recorded("NFC_CHIP", 0, check)}
  BY FS_EmptySet, FS_Singleton
<1> HIDE DEF new
<1>5. Attests(new)
  BY <1>1, <1>3, <1>4 DEF Attests, Performed
<1>6. recordChecks(new) /\ Advance /\ UNCHANGED <<level, runs>>
  BY <1>2, Zenon DEF Record
<1>7. SameDocs
  BY <1>2 DEF SameDocs
<1> QED BY <1>1, <1>5, <1>6, <1>7, RecordRests

\* What the applicant has declared, and who else has.
LEMMA DeclaredRests ==
  ASSUME FoundInv, RestInv, CheckApplicantData
  PROVE  RestInv'
<1> DEFINE missing == missingApplicantFields(DEFAULT_REQUIRED_APPLICANT_FIELDS, Declared)
           check == IF missing = {} THEN Completed("PASS", {})
                    ELSE Completed("FAIL", {"ADDITIONAL_DOCUMENTS_REQUIRED"})
           own  == Recorded("APPLICANT_DATA", 0, check)
           dup  == Recorded("DUPLICATE_IDENTITY", 0, Completed("FAIL", {"DUPLICATE_ACCOUNT"}))
           new  == {own} \cup When(row.name # "" /\ row.twin, dup)
<1>1. run.todo # {} /\ Current.type = "APPLICANT_DATA"
  <2>1. At({"APPLICANT_DATA"})
    BY Zenon DEF CheckApplicantData
  <2> QED BY <2>1, UnderWay
<1>2. Record(new, LabelsOf(new)) /\ docs' = docs
  BY Zenon DEF CheckApplicantData
<1>3. Attested(own) /\ own.key[1] = "APPLICANT_DATA"
  <2>1. check.at = runs
    BY Stamped
  <2>2. "APPLICANT_DATA" \notin NeverDone \cup PictureChecks
    BY DEF NeverDone, PictureChecks
  <2> HIDE DEF check
  <2>3. Attested(own)
    BY <2>1, <2>2, RowAttests
  <2> QED BY <2>3 DEF Recorded
<1>4. Attested(dup)
  <2>1. "DUPLICATE_IDENTITY" \notin NeverDone \cup PictureChecks
    BY DEF NeverDone, PictureChecks
  <2> QED BY <2>1, Stamped, RowAttests
<1>5. new \subseteq {own, dup} /\ own \in new
  <2> HIDE DEF own, dup
  <2> QED BY WhenIs
<1> HIDE DEF own, dup, new
<1>6. IsFiniteSet(new)
  <2>1. IsFiniteSet({own, dup})
    BY PairFinite
  <2> QED BY <1>5, <2>1, FS_Subset
<1>7. Attests(new)
  BY <1>1, <1>3, <1>4, <1>5, <1>6, PerformedType DEF Attests
<1>8. recordChecks(new) /\ Advance /\ UNCHANGED <<level, runs>>
  BY <1>2, Zenon DEF Record
<1>9. SameDocs
  BY <1>2 DEF SameDocs
<1> QED BY <1>1, <1>7, <1>8, <1>9, RecordRests

\* The device, and where it is.
LEMMA DeviceRests ==
  ASSUME FoundInv, RestInv, NEW d, AssessDevice(d)
  PROVE  RestInv'
<1> DEFINE print == Completed(IF d \in {"emulator", "shared"} THEN "WARNING" ELSE "PASS", {})
           place == Completed(IF d = "abroad" /\ row.country # "USA" THEN "WARNING"
                              ELSE "PASS", {})
           own   == Recorded("DEVICE_FINGERPRINT", 0, print)
           other == Recorded("IP_GEOLOCATION", 0, place)
           new   == {own, other}
<1>1. run.todo # {} /\ Current.type = "DEVICE_INTELLIGENCE"
  BY UnderWay DEF AssessDevice
<1>2. Record(new, {}) /\ docs' = docs
  BY Zenon DEF AssessDevice
<1>3. print.at = runs /\ place.at = runs
  BY Stamped
<1>4. {"DEVICE_FINGERPRINT", "IP_GEOLOCATION"} \cap (NeverDone \cup PictureChecks) = {}
  BY DEF NeverDone, PictureChecks
<1> HIDE DEF print, place
<1>5. Attested(own) /\ Attested(other) /\ own.key[1] = "DEVICE_FINGERPRINT"
  <2>1. Attested(own) /\ Attested(other)
    BY <1>3, <1>4, RowAttests
  <2> QED BY <2>1 DEF Recorded
<1> HIDE DEF own, other
<1>6. IsFiniteSet(new)
  BY PairFinite
<1>7. Attests(new)
  BY <1>1, <1>5, <1>6, PerformedType DEF Attests
<1>8. recordChecks(new) /\ Advance /\ UNCHANGED <<level, runs>>
  BY <1>2, Zenon DEF Record
<1>9. SameDocs
  BY <1>2 DEF SameDocs
<1> HIDE DEF new
<1> QED BY <1>1, <1>7, <1>8, <1>9, RecordRests

\* The selfie, and the bill a step takes: the newest of its kind, if there is one.
LEMMA SelfieIs ==
  ASSUME FoundAll, Selfie # 0, NEW type \in {"LIVENESS", "FACE_MATCH"}
  PROVE  /\ Selfie \in 1..Len(docs) /\ Selfie \in Sighted(type)
         /\ Selfie = Newest(Sighted(type))
<1>1. Sighted(type) = OfType(SelfieTypes)
  BY DEF Sighted
<1> QED BY <1>1, Picked, Zenon DEF Selfie

\* What is checked of a face: whether it is alive, and whose it is.
LEMMA FaceRests ==
  ASSUME FoundAll, RestInv, BiometricsFail \/ CheckLiveness \/ MatchFace
  PROVE  RestInv'
<1>0. FoundInv
  BY DEF FoundAll
<1>a. ASSUME NEW type \in {"LIVENESS", "FACE_MATCH"}, Selfie # 0, NEW check,
             check.at = runs, run.todo # {}, type = checkTypeForStep(Current)
      PROVE  Attested(Recorded(type, Selfie, check))
  <2>1. /\ Selfie \in 1..Len(docs) /\ Selfie \in Sighted(type)
        /\ Selfie = Newest(Sighted(type))
    BY <1>a, SelfieIs
  <2>2. type \in PictureChecks
    BY DEF PictureChecks
  <2>3. Current \in level.steps
    BY <1>0, <1>a DEF Current, FoundInv, RunInv
  <2> QED BY <1>0, <1>a, <2>1, <2>2, <2>3, RowAttests
<1>1. CASE BiometricsFail
  <2>1. /\ run.todo # {} /\ Current.type \in {"LIVENESS", "SELFIE"} /\ Selfie # 0
    BY <1>1, UnderWay DEF BiometricsFail
  <2>2. Record({Recorded(checkTypeForStep(Current), Selfie, Failed)}, {}) /\ docs' = docs
    BY <1>1, Zenon DEF BiometricsFail
  <2>3. checkTypeForStep(Current) \in {"LIVENESS", "FACE_MATCH"}
    BY <2>1, PerformedType
  <2>4. Attested(Recorded(checkTypeForStep(Current), Selfie, Failed))
    BY <1>a, <2>1, <2>3, Stamped
  <2> QED BY <1>0, <2>1, <2>2, <2>4, OneRests
<1>2. CASE CheckLiveness
  <2> DEFINE p     == Picture(docs[Selfie].image)
             found == LivenessLabels(p)
             check == Completed(IF found = {} THEN "PASS" ELSE "FAIL", found)
             own   == Recorded("LIVENESS", Selfie, check)
             known == IF p.knownFace = "other" THEN Completed("FAIL", {"DUPLICATE_FACE"})
                      ELSE Completed("WARNING", {})
             dup   == Recorded("DUPLICATE_FACE", 0, known)
             new   == {own} \cup FaceIndexCheck(p)
  <2>1. run.todo # {} /\ Current.type = "LIVENESS" /\ Selfie # 0
    BY <1>2, UnderWay DEF CheckLiveness
  <2>2. Record(new, LabelsOf(new)) /\ docs' = docs
    BY <1>2, Zenon DEF CheckLiveness
  <2>3. check.at = runs /\ known.at = runs
    BY Stamped
  <2>4. FaceIndexCheck(p) \subseteq {dup}
    BY WhenIs, Zenon DEF FaceIndexCheck
  <2> HIDE DEF p, check, known
  <2>5. Attested(own) /\ own.key[1] = "LIVENESS" /\ checkTypeForStep(Current) = "LIVENESS"
    <3>1. checkTypeForStep(Current) = "LIVENESS"
      BY <2>1, PerformedType
    <3>2. Attested(own)
      BY <1>a, <2>1, <2>3, <3>1
    <3> QED BY <3>1, <3>2 DEF Recorded
  <2>6. Attested(dup)
    <3>1. "DUPLICATE_FACE" \notin NeverDone \cup PictureChecks
      BY DEF NeverDone, PictureChecks
    <3> QED BY <1>0, <2>3, <3>1, RowAttests
  <2>7. new \subseteq {own, dup} /\ own \in new
    <3> HIDE DEF own, dup
    <3> QED BY <2>4
  <2> HIDE DEF own, dup, new
  <2>8. IsFiniteSet(new)
    <3>1. IsFiniteSet({own, dup})
      BY PairFinite
    <3> QED BY <2>7, <3>1, FS_Subset
  <2>9. Attests(new)
    BY <2>5, <2>6, <2>7, <2>8 DEF Attests
  <2>10. recordChecks(new) /\ Advance /\ UNCHANGED <<level, runs>>
    BY <2>2, Zenon DEF Record
  <2>11. SameDocs
    BY <2>2 DEF SameDocs
  <2> QED BY <1>0, <2>1, <2>9, <2>10, <2>11, RecordRests
<1>3. CASE MatchFace
  <2> DEFINE similarity == Picture(docs[Selfie].image).similarity
             mismatch   == When(similarity < level.faceMatchThreshold, "SELFIE_MISMATCH")
             check == Scored(IF mismatch = {} THEN "PASS" ELSE "FAIL", mismatch, similarity)
  <2>1. run.todo # {} /\ Current.type = "SELFIE" /\ Selfie # 0
    BY <1>3, UnderWay DEF MatchFace
  <2>2. Record({Recorded("FACE_MATCH", Selfie, check)}, mismatch) /\ docs' = docs
    BY <1>3, Zenon DEF MatchFace
  <2>3. check.at = runs
    BY Stamped
  <2> HIDE DEF check, mismatch
  <2>4. checkTypeForStep(Current) = "FACE_MATCH"
    BY <2>1, PerformedType
  <2>5. Attested(Recorded("FACE_MATCH", Selfie, check))
    BY <1>a, <2>1, <2>3, <2>4
  <2> QED BY <1>0, <2>1, <2>2, <2>4, <2>5, OneRests
<1> QED BY <1>1, <1>2, <1>3

\* A proof of address, of the newest of the types that the step takes.
LEMMA AddressRests ==
  ASSUME FoundAll, RestInv, NEW answered \in BOOLEAN, CheckAddress(answered)
  PROVE  RestInv'
<1> DEFINE d      == Newest(OfType(Current.acceptedDocumentTypes))
           labels == AddressLabels(Picture(docs[d].image))
           check  == CASE d = 0 -> Skipped(Current.required, "ADDITIONAL_DOCUMENTS_REQUIRED")
                       [] d # 0 /\ ~answered -> Failed
                       [] OTHER -> Completed(IF labels = {} THEN "PASS" ELSE "FAIL", labels)
           told   == IF d # 0 /\ answered THEN labels ELSE {}
<1>0. FoundInv
  BY DEF FoundAll
<1>1. run.todo # {} /\ Current \in level.steps /\ Current.type = "PROOF_OF_ADDRESS"
  <2>1. At({"PROOF_OF_ADDRESS"})
    BY Zenon DEF CheckAddress
  <2> QED BY <1>0, <2>1, UnderWay DEF FoundInv, RunInv
<1>2. Record({Recorded("PROOF_OF_ADDRESS", d, check)}, told) /\ docs' = docs
  BY Zenon DEF CheckAddress
<1>3. /\ Failed.at = runs
      /\ Skipped(Current.required, "ADDITIONAL_DOCUMENTS_REQUIRED").at = runs
      /\ Skipped(Current.required, "ADDITIONAL_DOCUMENTS_REQUIRED").status # "COMPLETED"
      /\ Completed(IF labels = {} THEN "PASS" ELSE "FAIL", labels).at = runs
  BY Stamped
<1>4. check.at = runs /\ (d = 0 => check.status # "COMPLETED")
  <2> HIDE DEF d, labels
  <2>1. CASE d = 0
    BY <1>3, <2>1
  <2>2. CASE d # 0 /\ ~answered
    BY <1>3, <2>2
  <2>3. CASE d # 0 /\ answered
    BY <1>3, <2>3
  <2> QED BY <2>1, <2>2, <2>3
<1>5. d # 0 => d \in 1..Len(docs) /\ d \in OfType(Current.acceptedDocumentTypes)
  BY Picked, Zenon
<1>6. Sighted("PROOF_OF_ADDRESS") = OfType(Current.acceptedDocumentTypes)
  <2>1. {t \in level.steps : t.type = "PROOF_OF_ADDRESS"} = {Current}
    BY <1>1 DEF RestInv, Usual
  <2>2. AddressTypes = Current.acceptedDocumentTypes
    BY <2>1 DEF AddressTypes
  <2> QED BY <2>2 DEF Sighted
<1>7. d # 0 => d \in Sighted("PROOF_OF_ADDRESS") /\ d = Newest(Sighted("PROOF_OF_ADDRESS"))
  BY <1>5, <1>6, Zenon
<1>8. "PROOF_OF_ADDRESS" \in PictureChecks /\ checkTypeForStep(Current) = "PROOF_OF_ADDRESS"
  BY <1>1, PerformedType DEF PictureChecks
<1> HIDE DEF d, labels, check, told
<1>9. Attested(Recorded("PROOF_OF_ADDRESS", d, check))
  <2>1. CASE d = 0
    BY <1>0, <1>4, <2>1, RowAttests
  <2>2. CASE d # 0
    BY <1>0, <1>1, <1>4, <1>5, <1>7, <1>8, <2>2, RowAttests
  <2> QED BY <2>1, <2>2
<1> QED BY <1>0, <1>1, <1>2, <1>8, <1>9, OneRests

\* The document a step reads is not superseded.
LEMMA DocumentLive ==
  ASSUME FoundAll, DocumentOfStep # 0
  PROVE  DocumentOfStep \in 1..Len(docs) /\ docs[DocumentOfStep].status # "SUPERSEDED"
<1> DEFINE accepted == IF Current.acceptedDocumentTypes # {}
                       THEN Current.acceptedDocumentTypes ELSE AnyId
           live == OfType(accepted) \cap Live
<1>1. DocumentOfStep = Newest(live)
  BY Zenon DEF DocumentOfStep
<1>2. Len(docs) \in Nat /\ live \subseteq 1..Len(docs)
  BY OfTypes DEF FoundAll, FoundInv, DocsInv
<1>3. live \subseteq Live
  OBVIOUS
<1> HIDE DEF live
<1>4. Newest(live) \in live \cup {0}
  BY <1>2, NewestIs
<1> QED BY <1>1, <1>2, <1>3, <1>4 DEF Live

\* OCR fails.
LEMMA OcrFailureRests ==
  ASSUME FoundAll, RestInv, OcrFails
  PROVE  RestInv'
<1>0. FoundInv
  BY DEF FoundAll
<1>1. run.todo # {} /\ Current.type = "IDENTITY_DOCUMENT" /\ DocumentOfStep # 0
  BY UnderWay DEF OcrFails
<1>2. Record({Recorded("DOCUMENT_OCR", DocumentOfStep, Failed)}, {}) /\ docs' = docs
  BY Zenon DEF OcrFails
<1>3. "DOCUMENT_OCR" \notin NeverDone \cup PictureChecks
  BY DEF NeverDone, PictureChecks
<1>4. Attested(Recorded("DOCUMENT_OCR", DocumentOfStep, Failed))
  BY <1>0, <1>1, <1>3, DocumentLive, Stamped, RowAttests
<1> QED BY <1>0, <1>1, <1>2, <1>4, PerformedType, OneRests

\* A document is read, and is as it was but for what is known of it.
LEMMA ReadingRests ==
  ASSUME FoundAll, RestInv, NEW examined \in BOOLEAN, ReadDocument(examined)
  PROVE  RestInv'
<1> DEFINE d      == DocumentOfStep
           p      == Picture(docs[d].image)
           labels == OcrLabels(p)
           ocr    == Completed(IF labels = {} THEN "PASS" ELSE "FAIL", labels)
           auth   == IF examined THEN AuthenticityCheck(p) ELSE Failed
           mrz    == IF p.mrz = "valid" THEN Completed("PASS", {})
                     ELSE Completed("FAIL", {"MRZ_CHECKSUM_FAILED"})
           r1     == Recorded("DOCUMENT_OCR", d, ocr)
           r2     == Recorded("DOCUMENT_AUTHENTICITY", d, auth)
           r3     == Recorded("MRZ_VALIDATION", d, mrz)
           r4     == Recorded("DUPLICATE_IDENTITY", d, Completed("FAIL", {"DUPLICATE_ACCOUNT"}))
           new    == {r1, r2} \cup When(p.mrz # "none", r3) \cup When(p.number = "taken", r4)
           status == IF labels # {} \/ (examined /\ isForged(p)) THEN "REJECTED" ELSE "EXTRACTED"
           seen   == IF examined THEN docs[d].image ELSE docs[d].examined
           more   == LabelsOf(new) \cup When(isEmbargoed(p.country), "PROHIBITED_COUNTRY")
<1>0. FoundInv
  BY DEF FoundAll
<1>1. run.todo # {} /\ Current.type = "IDENTITY_DOCUMENT" /\ d # 0
  <2>1. At({"IDENTITY_DOCUMENT"}) /\ d # 0
    BY Zenon DEF ReadDocument
  <2> QED BY <2>1, UnderWay
<1>2. /\ Record(new, more)
      /\ docs' = [docs EXCEPT ![d].read = docs[d].image, ![d].examined = seen,
                              ![d].status = status]
  BY Zenon DEF ReadDocument
<1>3. d \in 1..Len(docs) /\ docs[d].status # "SUPERSEDED"
  BY <1>1, DocumentLive
<1>4. ocr.at = runs /\ auth.at = runs /\ mrz.at = runs
  <2>1. AuthenticityCheck(p).at = runs
    <3> HIDE DEF p
    <3> QED BY Stamped, Zenon DEF AuthenticityCheck
  <2>2. ocr.at = runs /\ Failed.at = runs /\ mrz.at = runs
    BY Stamped
  <2> HIDE DEF ocr, mrz, p
  <2> QED BY <2>1, <2>2
<1>5. {"DOCUMENT_OCR", "DOCUMENT_AUTHENTICITY", "MRZ_VALIDATION", "DUPLICATE_IDENTITY"}
        \cap (NeverDone \cup PictureChecks) = {}
  BY DEF NeverDone, PictureChecks
<1>6. status # "SUPERSEDED"
  OBVIOUS
<1> HIDE DEF p, labels, ocr, auth, mrz, d, status, seen, more
<1>7. Attested(r1) /\ Attested(r2) /\ Attested(r3) /\ Attested(r4)
  <2>1. Attested(r1) /\ Attested(r2) /\ Attested(r3)
    BY <1>0, <1>3, <1>4, <1>5, RowAttests
  <2>2. Attested(r4)
    BY <1>0, <1>3, <1>5, Stamped, RowAttests
  <2> QED BY <2>1, <2>2
<1>8. r1.key[1] = checkTypeForStep(Current)
  BY <1>1, PerformedType DEF Recorded
<1> HIDE DEF r1, r2, r3, r4
<1>9. new \subseteq {r1, r2} \cup {r3, r4} /\ r1 \in new
  BY WhenIs
<1> HIDE DEF new
<1>10. IsFiniteSet(new)
  BY <1>9, PairFinite, FS_Union, FS_Subset
<1>11. Attests(new)
  BY <1>7, <1>8, <1>9, <1>10 DEF Attests
<1>12. recordChecks(new) /\ Advance /\ UNCHANGED <<level, runs>>
  BY <1>2, Zenon DEF Record
<1>13. SameDocs
  <2>1. DOMAIN docs = 1..Len(docs) /\ \A e \in DOMAIN docs : docs[e] \in DocRows
    BY <1>0 DEF FoundInv, DocsInv
  <2>2. DOMAIN docs' = DOMAIN docs
    BY <1>2
  <2>3. \A e \in DOMAIN docs : e # d => docs'[e] = docs[e]
    BY <1>2
  <2>4. docs'[d].image = docs[d].image /\ docs'[d].status = status
    BY <1>2, <1>3, <2>1 DEF DocRows
  <2> QED BY <1>3, <1>6, <2>2, <2>3, <2>4 DEF SameDocs
<1> QED BY <1>0, <1>1, <1>11, <1>12, <1>13, RecordRests

\* Every step of a run keeps it.
LEMMA StepsKeepRest ==
  ASSUME FoundAll, RestInv, RunStep, \A idDoc \in IdDocs : ~Finalize(idDoc)
  PROVE  RestInv'
<1>0. FoundInv
  BY DEF FoundAll
<1>1. CASE \/ StepThrows \/ DocumentMissing \/ BiometricsMissing
           \/ ScreeningUnnamed \/ NoAutomatedCheck
  BY <1>0, <1>1, UndoneRests
<1>2. CASE OcrFails
  BY <1>2, OcrFailureRests
<1>3. ASSUME NEW examined \in BOOLEAN, ReadDocument(examined) PROVE RestInv'
  BY <1>3, ReadingRests
<1>4. CASE BiometricsFail \/ CheckLiveness \/ MatchFace
  BY <1>4, FaceRests
<1>5. ASSUME NEW d \in Devices, AssessDevice(d) PROVE RestInv'
  BY <1>0, <1>5, DeviceRests
<1>6. CASE \/ \E answer \in Contacts : AssessContact(answer)
           \/ \E answered \in BOOLEAN : Screen(answered)
  BY <1>0, <1>6, AnswerRests
<1>7. CASE CheckApplicantData
  BY <1>0, <1>7, DeclaredRests
<1>8. CASE LookForChip
  BY <1>0, <1>8, ChipRests
<1>9. ASSUME NEW answered \in BOOLEAN, CheckAddress(answered) PROVE RestInv'
  BY <1>9, AddressRests
<1> QED BY <1>1, <1>2, <1>3, <1>4, <1>5, <1>6, <1>7, <1>8, <1>9 DEF RunStep

----------------------------------------------------------------------------
(* What happens between the runs keeps it.                                 *)

\* Somebody acts while no run is under way.
LEMMA IdleRests ==
  ASSUME RestInv, run = Idle, UNCHANGED <<level, run, runs>>, Prefix',
         \A types : OfType(types) \subseteq OfType(types)',
         IsFiniteSet(DOMAIN checks'),
         \A k \in DOMAIN checks' :
            \/ k \in DOMAIN checks /\ checks'[k] = checks[k]
            \/ k[1] \notin NeverDone \cup PictureChecks
  PROVE  RestInv'
<1>1. AddressTypes' = AddressTypes
  BY DEF AddressTypes
<1>2. \A type : Sighted(type) \subseteq Sighted(type)'
  BY <1>1, Zenon DEF Sighted
<1>3. ASSUME NEW k \in DOMAIN checks' PROVE Backed(k, checks[k])'
  <2>1. Sighted(k[1]) \subseteq Sighted(k[1])'
    BY <1>2
  <2>2. CASE k \in DOMAIN checks /\ checks'[k] = checks[k]
    <3>1. Backed(k, checks'[k])
      BY <2>2 DEF RestInv
    <3> QED BY <2>1, <3>1 DEF Backed
  <2>3. CASE k[1] \notin NeverDone \cup PictureChecks
    BY <2>3 DEF Backed
  <2> QED BY <1>3, <2>2, <2>3
<1>4. RunRests'
  <2>1. run'.wave = 0 /\ run'.todo = {}
    BY DEF Idle
  <2> QED BY <2>1 DEF RunRests
<1> QED BY <1>3, <1>4 DEF RestInv, Usual

\* The same documents, and checks.
LEMMA QuietRests ==
  ASSUME RestInv, run = Idle, UNCHANGED <<level, docs, checks, run, runs>>
  PROVE  RestInv'
<1>1. Prefix'
  BY DEF RestInv, Prefix, Rows
<1>2. \A types : OfType(types) \subseteq OfType(types)'
  BY DEF OfType, Rows
<1>3. IsFiniteSet(DOMAIN checks')
  BY DEF RestInv
<1> QED BY <1>1, <1>2, <1>3, IdleRests

\* An upload takes the place of a live picture of its type, or comes after all.
LEMMA UploadRests ==
  ASSUME FoundAll, RestInv, NEW image \in Images, Upload(image)
  PROVE  RestInv'
<1> DEFINE free   == {d \in OfType({Picture(image).type}) :
                        docs[d].status \notin {"SUPERSEDED", "REJECTED"}}
           reused == Newest(free)
           fresh  == [image |-> image, status |-> "UPLOADED", read |-> "none",
                      examined |-> "none"]
<1>1. /\ run = Idle /\ UNCHANGED <<level, checks, run, runs>>
      /\ IF reused # 0
         THEN docs' = [docs EXCEPT ![reused].image = image, ![reused].status = "UPLOADED"]
         ELSE docs' = Append(docs, fresh)
  BY Zenon DEF Upload
<1>2. /\ docs \in Seq(DocRows) /\ Len(docs) \in Nat /\ DOMAIN docs = 1..Len(docs)
      /\ \A d \in DOMAIN docs : docs[d] \in DocRows
  BY DEF FoundAll, FoundInv, DocsInv
<1>3. IsFiniteSet(DOMAIN checks')
  BY <1>1 DEF RestInv
<1>4. CASE reused # 0
  <2>1. free \subseteq 1..Len(docs)
    BY <1>2 DEF OfType, Rows
  <2>2. \A d \in free : Picture(docs[d].image).type = Picture(image).type
    BY DEF OfType
  <2> HIDE DEF free
  <2>3. reused \in free /\ reused \in DOMAIN docs
    BY <1>2, <1>4, <2>1, NewestIs
  <2>4. Picture(docs[reused].image).type = Picture(image).type
    BY <2>2, <2>3
  <2> HIDE DEF reused
  <2>5. DOMAIN docs' = DOMAIN docs
    BY <1>1, <1>4
  <2>6. \A d \in DOMAIN docs : d # reused => docs'[d] = docs[d]
    BY <1>1, <1>4
  <2>7. docs'[reused].image = image /\ docs'[reused].status = "UPLOADED"
    BY <1>1, <1>2, <1>4, <2>3 DEF DocRows
  <2>8. \A d \in DOMAIN docs : Picture(docs'[d].image).type = Picture(docs[d].image).type
    BY <2>4, <2>6, <2>7
  <2>9. \A types : OfType(types) \subseteq OfType(types)'
    BY <2>5, <2>8, Zenon DEF OfType, Rows
  <2>10. docs[reused].status # "SUPERSEDED"
    <3>1. reused \in free
      BY <2>3
    <3> QED BY <3>1 DEF free
  <2>11. \A d \in DOMAIN docs : docs'[d].status = "SUPERSEDED" <=> docs[d].status = "SUPERSEDED"
    BY <2>6, <2>7, <2>10
  <2>12. Prefix'
    BY <2>5, <2>11 DEF RestInv, Prefix, Rows
  <2> QED BY <1>1, <1>3, <2>9, <2>12, IdleRests
<1>5. CASE reused = 0
  <2>1. docs' = Append(docs, fresh)
    BY <1>1, <1>5
  <2>2. fresh.status # "SUPERSEDED" /\ fresh \in DocRows
    BY DEF DocRows
  <2> HIDE DEF free, reused, fresh
  <2>3. /\ DOMAIN docs' = 1..(Len(docs) + 1) /\ docs'[Len(docs) + 1] = fresh
        /\ \A d \in 1..Len(docs) : docs'[d] = docs[d]
    BY <1>2, <2>1
  <2>4. \A types : OfType(types) \subseteq OfType(types)'
    <3>1. \A d \in DOMAIN docs : d \in DOMAIN docs' /\ docs'[d] = docs[d]
      BY <1>2, <2>3
    <3> QED BY <3>1 DEF OfType, Rows
  <2>5. Prefix'
    <3> SUFFICES ASSUME NEW d \in 1..(Len(docs) + 1), NEW e \in 1..(Len(docs) + 1),
                        d <= e, docs'[e].status = "SUPERSEDED"
                 PROVE  docs'[d].status = "SUPERSEDED"
      BY <2>3 DEF Prefix, Rows
    <3>1. e # Len(docs) + 1
      BY <2>2, <2>3
    <3>2. e \in DOMAIN docs /\ d \in DOMAIN docs
      BY <1>2, <3>1
    <3> QED BY <1>2, <2>3, <3>2 DEF RestInv, Prefix, Rows
  <2> QED BY <1>1, <1>3, <2>4, <2>5, IdleRests
<1> QED BY <1>4, <1>5

\* The phone reads the chip.
LEMMA ReadChipRests ==
  ASSUME RestInv, NEW genuine \in BOOLEAN, ReadChip(genuine)
  PROVE  RestInv'
<1> DEFINE check == IF genuine THEN Completed("PASS", {})
                    ELSE Completed("FAIL", {"CHIP_AUTHENTICATION_FAILED"})
           r     == Recorded("NFC_CHIP", 0, check)
           new   == {r}
<1>1. run = Idle /\ recordChecks(new) /\ UNCHANGED <<level, docs, run, runs>>
  BY Zenon DEF ReadChip
<1>2. r.key[1] = "NFC_CHIP"
  BY DEF Recorded
<1> HIDE DEF r
<1>3. /\ DOMAIN checks' = DOMAIN checks \cup {r.key}
      /\ \A k \in DOMAIN checks' :
           k = r.key \/ (k \in DOMAIN checks /\ checks'[k] = checks[k])
  <2>1. {x.key : x \in new} = {r.key}
    OBVIOUS
  <2>2. \A x \in new : x = r
    OBVIOUS
  <2> HIDE DEF new
  <2> QED BY <1>1, <2>1, <2>2, RecordedAre
<1>4. "NFC_CHIP" \notin NeverDone \cup PictureChecks
  BY DEF NeverDone, PictureChecks
<1>5. IsFiniteSet(DOMAIN checks')
  BY <1>3, FS_AddElement DEF RestInv
<1>6. Prefix'
  BY <1>1 DEF RestInv, Prefix, Rows
<1>7. \A types : OfType(types) \subseteq OfType(types)'
  BY <1>1 DEF OfType, Rows
<1> QED BY <1>1, <1>2, <1>3, <1>4, <1>5, <1>6, <1>7, IdleRests

\* Everything is asked for again.
LEMMA ResubmissionRests ==
  ASSUME FoundAll, RestInv, RequestResubmission
  PROVE  RestInv'
<1>1. /\ run = Idle /\ docs' = [d \in Rows |-> [docs[d] EXCEPT !.status = "SUPERSEDED"]]
      /\ UNCHANGED <<level, checks, run, runs>>
  BY DEF RequestResubmission
<1>2. \A d \in DOMAIN docs : docs[d] \in DocRows
  BY DEF FoundAll, FoundInv, DocsInv
<1>3. /\ DOMAIN docs' = DOMAIN docs
      /\ \A d \in DOMAIN docs : docs'[d].image = docs[d].image
      /\ \A d \in DOMAIN docs : docs'[d].status = "SUPERSEDED"
  BY <1>1, <1>2 DEF Rows, DocRows
<1>4. \A types : OfType(types) \subseteq OfType(types)'
  BY <1>3 DEF OfType, Rows
<1>5. Prefix'
  BY <1>3 DEF Prefix, Rows
<1>6. IsFiniteSet(DOMAIN checks')
  BY <1>1 DEF RestInv
<1> QED BY <1>1, <1>4, <1>5, <1>6, IdleRests

\* A run begins with all its steps to come, or with none and forced.
LEMMA BeginRests ==
  ASSUME FoundInv, RestInv, Begin
  PROVE  RestInv'
<1> DEFINE allowed == isCountryAllowedForLevel(row.country, level)
           check == [Completed("FAIL", {"PROHIBITED_COUNTRY"}) EXCEPT !.at = runs']
           r     == Recorded("SANCTIONED_COUNTRY", 0, check)
           new   == IF allowed THEN {} ELSE {r}
           first == [wave |-> 1, todo |-> Waves[1], forced |-> FALSE]
           over  == [wave |-> Len(Waves) + 1, todo |-> {}, forced |-> TRUE]
<1>1. /\ runs' = runs + 1 /\ run' = IF allowed THEN first ELSE over
      /\ recordChecks(new) /\ level' = level /\ docs' = docs
  BY Zenon DEF Begin
<1>2. /\ level \in LevelsInUse /\ runs \in Nat
      /\ \A k \in DOMAIN checks : checks[k].at \in 0..runs
  BY DEF FoundInv, RunInv, ChecksInv, SoundChecks, SoundCheck
<1>3. Len(Waves) \in Nat \ {0} /\ Waves' = Waves
  BY <1>1, <1>2, WavesShape DEF Waves
<1>4. r.key[1] = "SANCTIONED_COUNTRY" /\ r.key[2] = 0
  BY DEF Recorded
<1>5. new \subseteq {r}
  OBVIOUS
<1> HIDE DEF r, new
<1>6. /\ DOMAIN checks' = DOMAIN checks \cup {x.key : x \in new}
      /\ \A k \in DOMAIN checks' :
           \/ \E x \in new : x.key = k /\ checks'[k] = x.check
           \/ k \in DOMAIN checks /\ checks'[k] = checks[k]
  BY <1>1, RecordedAre
<1>7. "SANCTIONED_COUNTRY" \notin NeverDone \cup PictureChecks
  BY DEF NeverDone, PictureChecks
<1>8. \A k \in DOMAIN checks' :
        \/ k[1] = "SANCTIONED_COUNTRY" /\ k[2] = 0
        \/ k \in DOMAIN checks /\ checks'[k] = checks[k]
  BY <1>4, <1>5, <1>6
<1>9. IsFiniteSet(DOMAIN checks')
  <2> DEFINE keys == {x.key : x \in new}
  <2>1. keys \subseteq {r.key}
    BY <1>5
  <2>2. IsFiniteSet({r.key})
    BY FS_Singleton
  <2>3. DOMAIN checks' = DOMAIN checks \cup keys /\ IsFiniteSet(DOMAIN checks)
    BY <1>6 DEF RestInv
  <2> HIDE DEF keys
  <2> QED BY <2>1, <2>2, <2>3, FS_Subset, FS_Union
<1>10. \A type : Sighted(type)' = Sighted(type)
  <2>1. SameDocs
    BY <1>1 DEF SameDocs
  <2> QED BY <1>1, <2>1, SightKept
<1>11. ASSUME NEW k \in DOMAIN checks' PROVE Backed(k, checks[k])'
  <2>1. Sighted(k[1])' = Sighted(k[1])
    BY <1>10
  <2>2. Backed(k, checks'[k])
    BY <1>7, <1>8, <1>11 DEF RestInv, Backed
  <2> QED BY <2>1, <2>2 DEF Backed
<1>12. ASSUME NEW k \in DOMAIN checks', checks'[k].at = runs' PROVE Timely(k)'
  <2>1. k[2] = 0
    BY <1>1, <1>2, <1>8, <1>12
  <2> QED BY <2>1 DEF Timely
<1>13. RunRests'
  <2>1. CASE allowed
    <3>1. run' = first
      BY <1>1, <2>1
    <3>2. run'.wave = 1 /\ run'.todo = Waves[1]
      BY <3>1
    <3> HIDE DEF allowed
    <3>3. ASSUME NEW s \in level.steps PROVE Ahead(s)'
      <4>1. PICK i \in 1..Len(Waves) : s \in Waves[i]
        BY <1>2, WavesCover DEF RestInv
      <4>2. CASE i = 1
        BY <3>2, <4>1, <4>2 DEF Ahead
      <4>3. CASE i # 1
        <5>1. i \in (run'.wave + 1) .. Len(Waves)'
          BY <1>3, <3>2, <4>1, <4>3
        <5> QED BY <1>3, <4>1, <5>1 DEF Ahead
      <4> QED BY <4>2, <4>3
    <3> QED BY <1>1, <1>3, <1>12, <3>2, <3>3 DEF RunRests
  <2>2. CASE ~allowed
    <3>1. run' = over
      BY <1>1, <2>2
    <3>2. run'.todo = {} /\ run'.forced = TRUE
      BY <3>1
    <3> HIDE DEF allowed
    <3> QED BY <1>12, <3>2 DEF RunRests
  <2> QED BY <2>1, <2>2
<1>14. Prefix'
  BY <1>1 DEF RestInv, Prefix, Rows
<1> QED BY <1>1, <1>9, <1>11, <1>13, <1>14 DEF RestInv, Usual

\* Whatever comes between the runs keeps it.
LEMMA BetweenKeepsRest ==
  ASSUME FoundAll, RestInv, Between
  PROVE  RestInv'
<1>1. ASSUME NEW image \in Images, Upload(image) PROVE RestInv'
  BY <1>1, UploadRests
<1>2. ASSUME NEW country \in Residences, Declare(country) PROVE RestInv'
  <2>1. run = Idle /\ UNCHANGED <<level, docs, checks, run, runs>>
    BY <1>2, Zenon DEF Declare
  <2> QED BY <2>1, QuietRests
<1>3. ASSUME NEW genuine \in BOOLEAN, ReadChip(genuine) PROVE RestInv'
  BY <1>3, ReadChipRests
<1>4. ASSUME NEW e \in Entries, ListUpdate(e) PROVE RestInv'
  <2>1. run = Idle /\ UNCHANGED <<level, docs, checks, run, runs>>
    BY <1>4, Zenon DEF ListUpdate
  <2> QED BY <2>1, QuietRests
<1>5. ASSUME NEW e \in Entries, NEW resolution \in {"TRUE_POSITIVE", "FALSE_POSITIVE"},
             ResolveHit(e, resolution)
      PROVE  RestInv'
  <2>1. run = Idle /\ UNCHANGED <<level, docs, checks, run, runs>>
    BY <1>5, Zenon DEF ResolveHit
  <2> QED BY <2>1, QuietRests
<1>6. CASE RequestResubmission
  BY <1>6, ResubmissionRests
<1>7. ASSUME NEW trigger \in {"REVIEWER_APPROVED", "REVIEWER_REJECTED_RETRY"},
             ReviewerDecides(trigger)
      PROVE  RestInv'
  <2>1. run = Idle /\ UNCHANGED <<level, docs, checks, run, runs>>
    BY <1>7, Zenon DEF ReviewerDecides
  <2> QED BY <2>1, QuietRests
<1>8. CASE Submit \/ PeriodicReview
  <2>1. Begin
    BY <1>8, Zenon DEF Submit, PeriodicReview
  <2> QED BY <2>1, BeginRests DEF FoundAll
<1> QED BY <1>1, <1>2, <1>3, <1>4, <1>5, <1>6, <1>7, <1>8 DEF Between

\* And so does the end of a run, after which none is under way.
LEMMA EndRests ==
  ASSUME RestInv, NEW d, Finalize(d)
  PROVE  RestInv'
<1>1. run' = Idle /\ UNCHANGED <<level, docs, checks, runs>>
  BY Zenon DEF Finalize
<1>2. RunRests'
  <2>1. run'.wave = 0 /\ run'.todo = {}
    BY <1>1 DEF Idle
  <2> QED BY <2>1 DEF RunRests
<1>3. Prefix'
  BY <1>1 DEF RestInv, Prefix, Rows
<1>4. \A type : Sighted(type)' = Sighted(type)
  <2>1. SameDocs
    BY <1>1 DEF SameDocs
  <2> QED BY <1>1, <2>1, SightKept
<1>5. ASSUME NEW k \in DOMAIN checks' PROVE Backed(k, checks[k])'
  <2>1. Sighted(k[1])' = Sighted(k[1])
    BY <1>4
  <2>2. Backed(k, checks'[k])
    BY <1>1, <1>5 DEF RestInv
  <2> QED BY <2>1, <2>2 DEF Backed
<1> QED BY <1>1, <1>2, <1>3, <1>5 DEF RestInv, Usual

\* No other step than the end of a run approves in its name.
LEMMA OnlyRunsApprove ==
  ASSUME RowInv, Next, \A idDoc \in IdDocs : ~Finalize(idDoc)
  PROVE  row'.verdict \in {row.verdict, "none"}
<1> DEFINE Kept == row'.verdict \in {row.verdict, "none"}
<1>0. DOMAIN row = RowFields
  BY DEF RowInv
<1>1. CASE StepThrows \/ DocumentMissing \/ OcrFails \/ BiometricsMissing \/ BiometricsFail
  <2>1. row' = row
    BY <1>1, Zenon DEF StepThrows, DocumentMissing, OcrFails, BiometricsMissing, BiometricsFail
  <2> QED BY <2>1
<1>2. CASE \/ CheckLiveness \/ MatchFace \/ CheckApplicantData \/ LookForChip
           \/ NoAutomatedCheck \/ ScreeningUnnamed
  <2>1. row' = row
    BY <1>2, Zenon DEF CheckLiveness, MatchFace, CheckApplicantData, LookForChip,
                       NoAutomatedCheck, ScreeningUnnamed
  <2> QED BY <2>1
<1>3. ASSUME NEW examined \in BOOLEAN, ReadDocument(examined) PROVE Kept
  <2>1. PICK number : row' = IF number = "" THEN row ELSE [row EXCEPT !.registered = number]
    BY <1>3, Zenon DEF ReadDocument
  <2> QED BY <1>0, <2>1 DEF RowFields
<1>4. ASSUME NEW d \in Devices, AssessDevice(d) PROVE Kept
  <2>1. PICK country : row' = [row EXCEPT !.ipCountry = country]
    BY <1>4, Zenon DEF AssessDevice
  <2> QED BY <1>0, <2>1 DEF RowFields
<1>5. ASSUME NEW answer \in Contacts, AssessContact(answer) PROVE Kept
  <2>1. row' = row
    BY <1>5, Zenon DEF AssessContact
  <2> QED BY <2>1
<1>6. ASSUME NEW answered \in BOOLEAN, CheckAddress(answered) \/ Screen(answered) PROVE Kept
  <2>1. row' = row
    BY <1>6, Zenon DEF CheckAddress, Screen
  <2> QED BY <2>1
<1>7. CASE Between
  <2>1. ASSUME NEW image \in Images, Upload(image) PROVE Kept
    BY <2>1 DEF Upload
  <2>2. ASSUME NEW country \in Residences, Declare(country) PROVE Kept
    <3>1. row' = [row EXCEPT !.name = "ada", !.age = 30, !.country = country]
      BY <2>2, Zenon DEF Declare
    <3> QED BY <1>0, <3>1 DEF RowFields
  <2>3. ASSUME NEW genuine \in BOOLEAN, ReadChip(genuine) PROVE Kept
    BY <2>3 DEF ReadChip
  <2>4. ASSUME NEW e \in Entries, ListUpdate(e) PROVE Kept
    BY <2>4 DEF ListUpdate
  <2>5. ASSUME NEW e \in Entries, NEW resolution, ResolveHit(e, resolution) PROVE Kept
    BY <2>5 DEF ResolveHit
  <2>6. CASE RequestResubmission
    <3>1. row' = [row EXCEPT !.reviewStatus = "REJECTED_RETRY"]
      BY <2>6 DEF RequestResubmission
    <3> QED BY <1>0, <3>1 DEF RowFields
  <2>7. ASSUME NEW trigger, ReviewerDecides(trigger) PROVE Kept
    <3>1. row' = [row EXCEPT !.reviewStatus = Target(trigger), !.verdict = "none"]
      BY <2>7, Zenon DEF ReviewerDecides
    <3> QED BY <1>0, <3>1 DEF RowFields
  <2>8. CASE Submit \/ PeriodicReview
    <3>1. \/ \E status : row' = [row EXCEPT !.reviewStatus = status, !.verdict = "none"]
          \/ row' = [row EXCEPT !.verdict = "none"]
      BY <2>8, Zenon DEF Submit, PeriodicReview
    <3> QED BY <1>0, <3>1 DEF RowFields
  <2> QED BY <1>7, <2>1, <2>2, <2>3, <2>4, <2>5, <2>6, <2>7, <2>8 DEF Between
<1> QED BY <1>1, <1>2, <1>3, <1>4, <1>5, <1>6, <1>7 DEF Next, RunStep

\* The invariant holds, at levels as the templates are.
LEMMA RestHolds ==
  ASSUME \A l \in LevelsInUse : Usual(l)
  PROVE  Spec => [](FoundAll /\ RestInv)
<1>1. Init => RestInv
  <2> SUFFICES ASSUME Init PROVE RestInv
    OBVIOUS
  <2>1. /\ level \in LevelsInUse /\ docs = <<>> /\ checks = <<>> /\ run = Idle
    BY DEF Init
  <2>2. DOMAIN docs = {} /\ DOMAIN checks = {} /\ run.wave = 0 /\ run.todo = {}
    BY <2>1 DEF Idle
  <2>3. IsFiniteSet(DOMAIN checks)
    BY <2>2, FS_EmptySet
  <2>4. RunRests
    BY <2>2 DEF RunRests
  <2> QED BY <2>1, <2>2, <2>3, <2>4 DEF RestInv, Prefix, Rows
<1>2. FoundAll /\ RestInv /\ [Next]_vars => RestInv'
  <2> SUFFICES ASSUME FoundAll, RestInv, [Next]_vars PROVE RestInv'
    OBVIOUS
  <2>1. CASE Between
    BY <2>1, BetweenKeepsRest
  <2>2. ASSUME NEW d \in IdDocs, Finalize(d) PROVE RestInv'
    BY <2>2, EndRests
  <2>3. CASE RunStep /\ \A d \in IdDocs : ~Finalize(d)
    BY <2>3, StepsKeepRest
  <2>4. CASE UNCHANGED vars
    <3>1. UNCHANGED <<level, docs, checks, run, runs>>
      BY <2>4 DEF vars
    <3>2. \A type : Sighted(type)' = Sighted(type)
      BY <3>1, SightKept DEF SameDocs
    <3>3. \A k : Timely(k) => Timely(k)'
      <4> SUFFICES ASSUME NEW k, Timely(k) PROVE Timely(k)'
        OBVIOUS
      <4>1. Newest(Sighted(k[1]))' = Newest(Sighted(k[1]))
        BY <3>2 DEF Newest
      <4> QED BY <3>1, <4>1 DEF Timely
    <3>4. ASSUME NEW k \in DOMAIN checks' PROVE Backed(k, checks[k])'
      <4>1. Sighted(k[1])' = Sighted(k[1]) /\ Backed(k, checks[k])
        BY <3>1, <3>2, <3>4 DEF RestInv
      <4> QED BY <3>1, <4>1 DEF Backed
    <3>5. Waves' = Waves
      BY <3>1 DEF Waves
    <3>6. RunRests'
      BY <3>1, <3>3, <3>5 DEF RestInv, RunRests, Ahead, Reported
    <3> QED BY <3>1, <3>4, <3>6 DEF RestInv, Prefix, Rows, Usual
  <2> QED BY <2>1, <2>2, <2>3, <2>4 DEF Next
<1> QED BY <1>1, <1>2, FoundHolds, PTL DEF Spec

\* An approval rests on what its own run saw: each required step passed in it, and it
\* recorded nothing of concern, not even on a superseded document (pipeline.ts,
\* `finalize`); at levels as the templates are.
THEOREM ApprovalRestsHold ==
  ASSUME \A l \in LevelsInUse : Usual(l)
  PROVE  Spec => ApprovalRestsOnThisRun
<1>1. FoundAll /\ RestInv /\ [Next]_vars =>
        [row'.verdict = "APPROVED" /\ row.verdict # "APPROVED" => Rests]_vars
  <2> SUFFICES ASSUME FoundAll, RestInv, Next, row'.verdict = "APPROVED",
                      row.verdict # "APPROVED"
               PROVE  Rests
    OBVIOUS
  <2>1. PICK d \in IdDocs : Finalize(d)
    BY OnlyRunsApprove DEF FoundAll, FoundInv
  <2> QED BY <2>1, FinalizeRests DEF FoundAll
<1> QED BY <1>1, RestHolds, PTL DEF Spec, ApprovalRestsOnThisRun, Rests


\* Every built-in level is one its steps are told apart on: what the theorem above
\* asks of a level holds of all the templates a tenant may start from (levels.ts).
THEOREM TemplatesAreUsual == \A l \in LEVEL_TEMPLATES : Usual(l)
<1>1. Usual(basic_kyc)
  <2> DEFINE s1 == Req("data", "APPLICANT_DATA", 0)
             s2 == Docs("id-doc", "IDENTITY_DOCUMENT", 1, AnyId)
             s3 == Req("selfie", "SELFIE", 2)
             s4 == Req("liveness", "LIVENESS", 2)
             s5 == Opt("device", "DEVICE_INTELLIGENCE", 3)
             steps == {s1, s2, s3, s4, s5}
  <2>1. basic_kyc.steps = steps
    BY SMTT(30) DEF basic_kyc, Level
  <2>2. s1.id = "data" /\ s1.type = "APPLICANT_DATA" /\ s1.order = 0 /\ s1.required = TRUE
    BY DEF Req, Step
  <2>3. s2.id = "id-doc" /\ s2.type = "IDENTITY_DOCUMENT" /\ s2.order = 1 /\ s2.required = TRUE
    BY DEF Docs, Step
  <2>4. s3.id = "selfie" /\ s3.type = "SELFIE" /\ s3.order = 2 /\ s3.required = TRUE
    BY DEF Req, Step
  <2>5. s4.id = "liveness" /\ s4.type = "LIVENESS" /\ s4.order = 2 /\ s4.required = TRUE
    BY DEF Req, Step
  <2>6. s5.id = "device" /\ s5.type = "DEVICE_INTELLIGENCE" /\ s5.order = 3 /\ s5.required = FALSE
    BY DEF Opt, Step
  <2> HIDE DEF s1, s2, s3, s4, s5
  <2>7. /\ \A s \in steps : s.order \in Int
        /\ \A s, u \in steps : s.id = u.id => s = u
    BY <2>2, <2>3, <2>4, <2>5, <2>6
  <2>8. \A s, u \in steps :
          s.type = "PROOF_OF_ADDRESS" /\ u.type = "PROOF_OF_ADDRESS" => s = u
    BY <2>2, <2>3, <2>4, <2>5, <2>6
  <2>9. /\ \A s \in steps : s.type = "NFC_READ" => ~s.required
        /\ \A s \in steps :
             s.type \in {"SELFIE", "LIVENESS", "PROOF_OF_ADDRESS"} => s.required
    BY <2>2, <2>3, <2>4, <2>5, <2>6
  <2> HIDE DEF steps
  <2> QED BY <2>1, <2>7, <2>8, <2>9, Zenon DEF Usual
<1>2. Usual(standard_kyc_aml)
  <2> DEFINE s1 == Req("data", "APPLICANT_DATA", 0)
             s2 == Docs("id-doc", "IDENTITY_DOCUMENT", 1, AnyId)
             s3 == Req("selfie", "SELFIE", 2)
             s4 == Req("liveness", "LIVENESS", 2)
             s5 == Opt("chip", "NFC_READ", 2)
             s6 == Docs("poa", "PROOF_OF_ADDRESS", 3, {"UTILITY_BILL", "BANK_STATEMENT", "TAX_DOCUMENT"})
             s7 == Req("screening", "AML_SCREENING", 4)
             s8 == Req("device", "DEVICE_INTELLIGENCE", 4)
             steps == {s1, s2, s3, s4, s5, s6, s7, s8}
  <2>1. standard_kyc_aml.steps = steps
    BY SMTT(30) DEF standard_kyc_aml, Within, Level
  <2>2. s1.id = "data" /\ s1.type = "APPLICANT_DATA" /\ s1.order = 0 /\ s1.required = TRUE
    BY DEF Req, Step
  <2>3. s2.id = "id-doc" /\ s2.type = "IDENTITY_DOCUMENT" /\ s2.order = 1 /\ s2.required = TRUE
    BY DEF Docs, Step
  <2>4. s3.id = "selfie" /\ s3.type = "SELFIE" /\ s3.order = 2 /\ s3.required = TRUE
    BY DEF Req, Step
  <2>5. s4.id = "liveness" /\ s4.type = "LIVENESS" /\ s4.order = 2 /\ s4.required = TRUE
    BY DEF Req, Step
  <2>6. s5.id = "chip" /\ s5.type = "NFC_READ" /\ s5.order = 2 /\ s5.required = FALSE
    BY DEF Opt, Step
  <2>7. s6.id = "poa" /\ s6.type = "PROOF_OF_ADDRESS" /\ s6.order = 3 /\ s6.required = TRUE
    BY DEF Docs, Step
  <2>8. s7.id = "screening" /\ s7.type = "AML_SCREENING" /\ s7.order = 4 /\ s7.required = TRUE
    BY DEF Req, Step
  <2>9. s8.id = "device" /\ s8.type = "DEVICE_INTELLIGENCE" /\ s8.order = 4 /\ s8.required = TRUE
    BY DEF Req, Step
  <2> HIDE DEF s1, s2, s3, s4, s5, s6, s7, s8
  <2>10. /\ \A s \in steps : s.order \in Int
        /\ \A s, u \in steps : s.id = u.id => s = u
    BY <2>2, <2>3, <2>4, <2>5, <2>6, <2>7, <2>8, <2>9
  <2>11. \A s, u \in steps :
          s.type = "PROOF_OF_ADDRESS" /\ u.type = "PROOF_OF_ADDRESS" => s = u
    BY <2>2, <2>3, <2>4, <2>5, <2>6, <2>7, <2>8, <2>9
  <2>12. /\ \A s \in steps : s.type = "NFC_READ" => ~s.required
        /\ \A s \in steps :
             s.type \in {"SELFIE", "LIVENESS", "PROOF_OF_ADDRESS"} => s.required
    BY <2>2, <2>3, <2>4, <2>5, <2>6, <2>7, <2>8, <2>9
  <2> HIDE DEF steps
  <2> QED BY <2>1, <2>10, <2>11, <2>12, Zenon DEF Usual
<1>3. Usual(enhanced_due_diligence)
  <2> DEFINE s1 == Req("data", "APPLICANT_DATA", 0)
             s2 == Docs("id-doc", "IDENTITY_DOCUMENT", 1, {"PASSPORT", "ID_CARD"})
             s3 == Opt("nfc", "NFC_READ", 1)
             s4 == Req("selfie", "SELFIE", 2)
             s5 == Req("liveness", "LIVENESS", 2)
             s6 == Docs("poa", "PROOF_OF_ADDRESS", 3, {"UTILITY_BILL", "BANK_STATEMENT"})
             s7 == Docs("sof", "SOURCE_OF_FUNDS", 3, {"SOURCE_OF_FUNDS", "PAYSLIP", "TAX_DOCUMENT", "BANK_STATEMENT"})
             s8 == Req("wealth-questionnaire", "QUESTIONNAIRE", 3)
             s9 == Req("screening", "AML_SCREENING", 4)
             s10 == Req("interview", "VIDEO_INTERVIEW", 5)
             steps == {s1, s2, s3, s4, s5, s6, s7, s8, s9, s10}
  <2>1. enhanced_due_diligence.steps = steps
    BY SMTT(30) DEF enhanced_due_diligence, Within, Level
  <2>2. s1.id = "data" /\ s1.type = "APPLICANT_DATA" /\ s1.order = 0 /\ s1.required = TRUE
    BY DEF Req, Step
  <2>3. s2.id = "id-doc" /\ s2.type = "IDENTITY_DOCUMENT" /\ s2.order = 1 /\ s2.required = TRUE
    BY DEF Docs, Step
  <2>4. s3.id = "nfc" /\ s3.type = "NFC_READ" /\ s3.order = 1 /\ s3.required = FALSE
    BY DEF Opt, Step
  <2>5. s4.id = "selfie" /\ s4.type = "SELFIE" /\ s4.order = 2 /\ s4.required = TRUE
    BY DEF Req, Step
  <2>6. s5.id = "liveness" /\ s5.type = "LIVENESS" /\ s5.order = 2 /\ s5.required = TRUE
    BY DEF Req, Step
  <2>7. s6.id = "poa" /\ s6.type = "PROOF_OF_ADDRESS" /\ s6.order = 3 /\ s6.required = TRUE
    BY DEF Docs, Step
  <2>8. s7.id = "sof" /\ s7.type = "SOURCE_OF_FUNDS" /\ s7.order = 3 /\ s7.required = TRUE
    BY DEF Docs, Step
  <2>9. s8.id = "wealth-questionnaire" /\ s8.type = "QUESTIONNAIRE" /\ s8.order = 3 /\ s8.required = TRUE
    BY DEF Req, Step
  <2>10. s9.id = "screening" /\ s9.type = "AML_SCREENING" /\ s9.order = 4 /\ s9.required = TRUE
    BY DEF Req, Step
  <2>11. s10.id = "interview" /\ s10.type = "VIDEO_INTERVIEW" /\ s10.order = 5 /\ s10.required = TRUE
    BY DEF Req, Step
  <2> HIDE DEF s1, s2, s3, s4, s5, s6, s7, s8, s9, s10
  <2>12. /\ \A s \in steps : s.order \in Int
        /\ \A s, u \in steps : s.id = u.id => s = u
    BY <2>2, <2>3, <2>4, <2>5, <2>6, <2>7, <2>8, <2>9, <2>10, <2>11
  <2>13. \A s, u \in steps :
          s.type = "PROOF_OF_ADDRESS" /\ u.type = "PROOF_OF_ADDRESS" => s = u
    BY <2>2, <2>3, <2>4, <2>5, <2>6, <2>7, <2>8, <2>9, <2>10, <2>11
  <2>14. /\ \A s \in steps : s.type = "NFC_READ" => ~s.required
        /\ \A s \in steps :
             s.type \in {"SELFIE", "LIVENESS", "PROOF_OF_ADDRESS"} => s.required
    BY <2>2, <2>3, <2>4, <2>5, <2>6, <2>7, <2>8, <2>9, <2>10, <2>11
  <2> HIDE DEF steps
  <2> QED BY <2>1, <2>12, <2>13, <2>14, Zenon DEF Usual
<1>4. Usual(crypto_onboarding)
  <2> DEFINE s1 == Req("data", "APPLICANT_DATA", 0)
             s2 == Docs("id-doc", "IDENTITY_DOCUMENT", 1, AnyId)
             s3 == Req("selfie", "SELFIE", 2)
             s4 == Req("liveness", "LIVENESS", 2)
             s5 == Req("screening", "AML_SCREENING", 3)
             s6 == Req("wallet", "WALLET_OWNERSHIP", 3)
             s7 == Req("sof-questionnaire", "QUESTIONNAIRE", 4)
             s8 == Req("device", "DEVICE_INTELLIGENCE", 4)
             steps == {s1, s2, s3, s4, s5, s6, s7, s8}
  <2>1. crypto_onboarding.steps = steps
    BY SMTT(30) DEF crypto_onboarding, Within, Level
  <2>2. s1.id = "data" /\ s1.type = "APPLICANT_DATA" /\ s1.order = 0 /\ s1.required = TRUE
    BY DEF Req, Step
  <2>3. s2.id = "id-doc" /\ s2.type = "IDENTITY_DOCUMENT" /\ s2.order = 1 /\ s2.required = TRUE
    BY DEF Docs, Step
  <2>4. s3.id = "selfie" /\ s3.type = "SELFIE" /\ s3.order = 2 /\ s3.required = TRUE
    BY DEF Req, Step
  <2>5. s4.id = "liveness" /\ s4.type = "LIVENESS" /\ s4.order = 2 /\ s4.required = TRUE
    BY DEF Req, Step
  <2>6. s5.id = "screening" /\ s5.type = "AML_SCREENING" /\ s5.order = 3 /\ s5.required = TRUE
    BY DEF Req, Step
  <2>7. s6.id = "wallet" /\ s6.type = "WALLET_OWNERSHIP" /\ s6.order = 3 /\ s6.required = TRUE
    BY DEF Req, Step
  <2>8. s7.id = "sof-questionnaire" /\ s7.type = "QUESTIONNAIRE" /\ s7.order = 4 /\ s7.required = TRUE
    BY DEF Req, Step
  <2>9. s8.id = "device" /\ s8.type = "DEVICE_INTELLIGENCE" /\ s8.order = 4 /\ s8.required = TRUE
    BY DEF Req, Step
  <2> HIDE DEF s1, s2, s3, s4, s5, s6, s7, s8
  <2>10. /\ \A s \in steps : s.order \in Int
        /\ \A s, u \in steps : s.id = u.id => s = u
    BY <2>2, <2>3, <2>4, <2>5, <2>6, <2>7, <2>8, <2>9
  <2>11. \A s, u \in steps :
          s.type = "PROOF_OF_ADDRESS" /\ u.type = "PROOF_OF_ADDRESS" => s = u
    BY <2>2, <2>3, <2>4, <2>5, <2>6, <2>7, <2>8, <2>9
  <2>12. /\ \A s \in steps : s.type = "NFC_READ" => ~s.required
        /\ \A s \in steps :
             s.type \in {"SELFIE", "LIVENESS", "PROOF_OF_ADDRESS"} => s.required
    BY <2>2, <2>3, <2>4, <2>5, <2>6, <2>7, <2>8, <2>9
  <2> HIDE DEF steps
  <2> QED BY <2>1, <2>10, <2>11, <2>12, Zenon DEF Usual
<1>5. Usual(age_verification)
  <2> DEFINE s1 == Req("age-estimate", "AGE_ESTIMATION", 0)
             s2 == Step("id-doc", "IDENTITY_DOCUMENT", 1, FALSE, AnyId)
             steps == {s1, s2}
  <2>1. age_verification.steps = steps
    BY SMTT(30) DEF age_verification, Level
  <2>2. s1.id = "age-estimate" /\ s1.type = "AGE_ESTIMATION" /\ s1.order = 0 /\ s1.required = TRUE
    BY DEF Req, Step
  <2>3. s2.id = "id-doc" /\ s2.type = "IDENTITY_DOCUMENT" /\ s2.order = 1 /\ s2.required = FALSE
    BY DEF Step
  <2> HIDE DEF s1, s2
  <2>4. /\ \A s \in steps : s.order \in Int
        /\ \A s, u \in steps : s.id = u.id => s = u
    BY <2>2, <2>3
  <2>5. \A s, u \in steps :
          s.type = "PROOF_OF_ADDRESS" /\ u.type = "PROOF_OF_ADDRESS" => s = u
    BY <2>2, <2>3
  <2>6. /\ \A s \in steps : s.type = "NFC_READ" => ~s.required
        /\ \A s \in steps :
             s.type \in {"SELFIE", "LIVENESS", "PROOF_OF_ADDRESS"} => s.required
    BY <2>2, <2>3
  <2> HIDE DEF steps
  <2> QED BY <2>1, <2>4, <2>5, <2>6, Zenon DEF Usual
<1>6. Usual(kyb_standard)
  <2> DEFINE s1 == Req("company-data", "COMPANY_DATA", 0)
             s2 == Docs("company-docs", "COMPANY_DOCUMENTS", 1, {"COMPANY_REGISTRATION", "ARTICLES_OF_ASSOCIATION", "SHAREHOLDER_REGISTRY"})
             s3 == Req("representative", "REPRESENTATIVE_KYC", 1)
             s4 == Req("ubo-discovery", "UBO_DISCOVERY", 2)
             s5 == Req("ubo-kyc", "UBO_VERIFICATION", 3)
             s6 == Req("screening", "AML_SCREENING", 4)
             steps == {s1, s2, s3, s4, s5, s6}
  <2>1. kyb_standard.steps = steps
    BY SMTT(30) DEF kyb_standard, Level
  <2>2. s1.id = "company-data" /\ s1.type = "COMPANY_DATA" /\ s1.order = 0 /\ s1.required = TRUE
    BY DEF Req, Step
  <2>3. s2.id = "company-docs" /\ s2.type = "COMPANY_DOCUMENTS" /\ s2.order = 1 /\ s2.required = TRUE
    BY DEF Docs, Step
  <2>4. s3.id = "representative" /\ s3.type = "REPRESENTATIVE_KYC" /\ s3.order = 1 /\ s3.required = TRUE
    BY DEF Req, Step
  <2>5. s4.id = "ubo-discovery" /\ s4.type = "UBO_DISCOVERY" /\ s4.order = 2 /\ s4.required = TRUE
    BY DEF Req, Step
  <2>6. s5.id = "ubo-kyc" /\ s5.type = "UBO_VERIFICATION" /\ s5.order = 3 /\ s5.required = TRUE
    BY DEF Req, Step
  <2>7. s6.id = "screening" /\ s6.type = "AML_SCREENING" /\ s6.order = 4 /\ s6.required = TRUE
    BY DEF Req, Step
  <2> HIDE DEF s1, s2, s3, s4, s5, s6
  <2>8. /\ \A s \in steps : s.order \in Int
        /\ \A s, u \in steps : s.id = u.id => s = u
    BY <2>2, <2>3, <2>4, <2>5, <2>6, <2>7
  <2>9. \A s, u \in steps :
          s.type = "PROOF_OF_ADDRESS" /\ u.type = "PROOF_OF_ADDRESS" => s = u
    BY <2>2, <2>3, <2>4, <2>5, <2>6, <2>7
  <2>10. /\ \A s \in steps : s.type = "NFC_READ" => ~s.required
        /\ \A s \in steps :
             s.type \in {"SELFIE", "LIVENESS", "PROOF_OF_ADDRESS"} => s.required
    BY <2>2, <2>3, <2>4, <2>5, <2>6, <2>7
  <2> HIDE DEF steps
  <2> QED BY <2>1, <2>8, <2>9, <2>10, Zenon DEF Usual
<1>7. Usual(non_doc_verification)
  <2> DEFINE s1 == Req("data", "APPLICANT_DATA", 0)
             s2 == Req("phone", "PHONE_VERIFICATION", 1)
             s3 == Req("email", "EMAIL_VERIFICATION", 1)
             s4 == Opt("tin", "TIN_VALIDATION", 2)
             s5 == Req("screening", "AML_SCREENING", 2)
             s6 == Req("device", "DEVICE_INTELLIGENCE", 2)
             steps == {s1, s2, s3, s4, s5, s6}
  <2>1. non_doc_verification.steps = steps
    BY SMTT(30) DEF non_doc_verification, Level
  <2>2. s1.id = "data" /\ s1.type = "APPLICANT_DATA" /\ s1.order = 0 /\ s1.required = TRUE
    BY DEF Req, Step
  <2>3. s2.id = "phone" /\ s2.type = "PHONE_VERIFICATION" /\ s2.order = 1 /\ s2.required = TRUE
    BY DEF Req, Step
  <2>4. s3.id = "email" /\ s3.type = "EMAIL_VERIFICATION" /\ s3.order = 1 /\ s3.required = TRUE
    BY DEF Req, Step
  <2>5. s4.id = "tin" /\ s4.type = "TIN_VALIDATION" /\ s4.order = 2 /\ s4.required = FALSE
    BY DEF Opt, Step
  <2>6. s5.id = "screening" /\ s5.type = "AML_SCREENING" /\ s5.order = 2 /\ s5.required = TRUE
    BY DEF Req, Step
  <2>7. s6.id = "device" /\ s6.type = "DEVICE_INTELLIGENCE" /\ s6.order = 2 /\ s6.required = TRUE
    BY DEF Req, Step
  <2> HIDE DEF s1, s2, s3, s4, s5, s6
  <2>8. /\ \A s \in steps : s.order \in Int
        /\ \A s, u \in steps : s.id = u.id => s = u
    BY <2>2, <2>3, <2>4, <2>5, <2>6, <2>7
  <2>9. \A s, u \in steps :
          s.type = "PROOF_OF_ADDRESS" /\ u.type = "PROOF_OF_ADDRESS" => s = u
    BY <2>2, <2>3, <2>4, <2>5, <2>6, <2>7
  <2>10. /\ \A s \in steps : s.type = "NFC_READ" => ~s.required
        /\ \A s \in steps :
             s.type \in {"SELFIE", "LIVENESS", "PROOF_OF_ADDRESS"} => s.required
    BY <2>2, <2>3, <2>4, <2>5, <2>6, <2>7
  <2> HIDE DEF steps
  <2> QED BY <2>1, <2>8, <2>9, <2>10, Zenon DEF Usual
<1> QED BY <1>1, <1>2, <1>3, <1>4, <1>5, <1>6, <1>7, Zenon DEF LEVEL_TEMPLATES

----------------------------------------------------------------------------
(* Machine-readable zones.                                                *)

\* What a zone is made of.
Glyphs == 0..Filler

Running(sum, group) ==
  sum = [i \in 0..Len(group) |->
           IF i = 0 THEN 0 ELSE sum[i - 1] + Weight(i) * Value(group[i])]

\* The weights.
LEMMA Weights ==
  ASSUME NEW i \in Nat
  PROVE  Weight(i) \in {1, 3, 7}
BY DEF Weight

\* What a glyph counts for.
LEMMA Values ==
  ASSUME NEW g \in Glyphs
  PROVE  Value(g) \in Nat
BY DEF Value, Glyphs, Filler

\* One term of the sum.
LEMMA Terms ==
  ASSUME NEW group \in Seq(Glyphs), NEW i \in 1..Len(group)
  PROVE  Weight(i) * Value(group[i]) \in Nat
<1>1. Value(group[i]) \in Nat
  BY Values
<1>2. Weight(i) \in {1, 3, 7}
  BY Weights
<1> QED BY <1>1, <1>2

\* The check digit's recursive function, named.
LEMMA Computed ==
  ASSUME NEW group
  PROVE  computeCheckDigit(group) = (CHOOSE sum : Running(sum, group))[Len(group)] % 10
BY Zenon DEF computeCheckDigit, Running

\* There is a running sum: it can be extended by one glyph at a time.
LEMMA SumExists ==
  ASSUME NEW group \in Seq(Glyphs)
  PROVE  \E sum \in [0..Len(group) -> Nat] : Running(sum, group)
<1> DEFINE Term(i) == Weight(i) * Value(group[i])
           Upto(sum, n) == /\ sum \in [0..n -> Nat] /\ sum[0] = 0
                           /\ \A i \in 1..n : sum[i] = sum[i - 1] + Term(i)
           T == {n \in Nat : n <= Len(group) => \E sum : Upto(sum, n)}
<1>0. \A i \in 1..Len(group) : Term(i) \in Nat
  BY Terms
<1>1. 0 \in T
  <2>1. Upto([i \in 0..0 |-> 0], 0)
    OBVIOUS
  <2> QED BY <2>1
<1>2. ASSUME NEW n \in Nat, n \in T PROVE n + 1 \in T
  <2> SUFFICES ASSUME n + 1 <= Len(group) PROVE \E sum : Upto(sum, n + 1)
    OBVIOUS
  <2> HIDE DEF Term
  <2>1. PICK f : Upto(f, n)
    BY <1>2
  <2> DEFINE g == [i \in 0..(n + 1) |-> IF i = n + 1 THEN f[n] + Term(n + 1) ELSE f[i]]
  <2>2. Term(n + 1) \in Nat
    BY <1>0
  <2>3. g \in [0..(n + 1) -> Nat] /\ g[0] = 0
    BY <2>1, <2>2
  <2>4. ASSUME NEW i \in 1..(n + 1) PROVE g[i] = g[i - 1] + Term(i)
    BY <2>1
  <2>5. Upto(g, n + 1)
    BY <2>3, <2>4
  <2> HIDE DEF Upto
  <2> QED BY <2>5
<1>3. Len(group) \in T
  <2> HIDE DEF T
  <2> QED BY <1>1, <1>2, SetInduction
<1>4. PICK sum : Upto(sum, Len(group))
  BY <1>3
<1>5. Running(sum, group)
  BY <1>4 DEF Running
<1> QED BY <1>4, <1>5

\* What the check digit is computed from: a sum that grows glyph by glyph.
Sums(sum, group) ==
  /\ sum \in [0..Len(group) -> Nat] /\ sum[0] = 0
  /\ \A i \in 1..Len(group) : sum[i] = sum[i - 1] + Weight(i) * Value(group[i])
  /\ computeCheckDigit(group) = sum[Len(group)] % 10

\* So the function the check digit chooses is such a sum.
LEMMA HasSum ==
  ASSUME NEW group \in Seq(Glyphs)
  PROVE  \E sum : Sums(sum, group)
<1> DEFINE sum == CHOOSE s : Running(s, group)
<1>1. Running(sum, group)
  BY SumExists
<1>2. computeCheckDigit(group) = sum[Len(group)] % 10
  BY Computed
<1> HIDE DEF sum
<1>3. Len(group) \in Nat
  OBVIOUS
<1>4. /\ DOMAIN sum = 0..Len(group) /\ sum = [i \in 0..Len(group) |-> sum[i]]
      /\ sum[0] = 0
      /\ \A i \in 1..Len(group) : sum[i] = sum[i - 1] + Weight(i) * Value(group[i])
  <2> DEFINE F == [i \in 0..Len(group) |->
           IF i = 0 THEN 0 ELSE sum[i - 1] + Weight(i) * Value(group[i])]
  <2>1. sum = F
    BY <1>1 DEF Running
  <2>2. /\ DOMAIN F = 0..Len(group) /\ F = [i \in 0..Len(group) |-> F[i]]
        /\ F[0] = 0
        /\ \A i \in 1..Len(group) : F[i] = sum[i - 1] + Weight(i) * Value(group[i])
    BY <1>3
  <2> HIDE DEF F
  <2> QED BY <2>1, <2>2
<1> DEFINE T == {n \in Nat : n <= Len(group) => sum[n] \in Nat}
<1>5. 0 \in T
  BY <1>4
<1>6. ASSUME NEW n \in Nat, n \in T PROVE n + 1 \in T
  <2> SUFFICES ASSUME n + 1 <= Len(group) PROVE sum[n + 1] \in Nat
    OBVIOUS
  <2>1. Weight(n + 1) * Value(group[n + 1]) \in Nat
    BY <1>3, Terms
  <2>2. sum[n + 1] = sum[n] + Weight(n + 1) * Value(group[n + 1])
    BY <1>3, <1>4
  <2>3. sum[n] \in Nat
    BY <1>3, <1>6
  <2> QED BY <2>1, <2>2, <2>3
<1>7. \A n \in Nat : n \in T
  <2> HIDE DEF T
  <2> QED BY <1>5, <1>6, SetInduction
<1>8. sum \in [0..Len(group) -> Nat]
  BY <1>3, <1>4, <1>7
<1> QED BY <1>2, <1>4, <1>8 DEF Sums

\* A check digit is a digit.
LEMMA CheckDigitType ==
  ASSUME NEW group \in Seq(Glyphs)
  PROVE  computeCheckDigit(group) \in Digits
<1>1. PICK sum : Sums(sum, group)
  BY HasSum
<1>2. sum[Len(group)] \in Nat
  BY <1>1 DEF Sums
<1>3. sum[Len(group)] % 10 \in 0..9
  BY <1>2
<1> QED BY <1>1, <1>3 DEF Sums, Digits

\* Weighted by 7, 3 or 1, values that differ modulo ten leave different remainders by
\* ten: no weight has a factor in common with it.
LEMMA ModTen ==
  ASSUME NEW w \in {1, 3, 7}, NEW x \in 0..35, NEW y \in 0..35, x % 10 # y % 10,
         NEW a \in Nat, NEW b \in Nat, a - b = w * x - w * y
  PROVE  a % 10 # b % 10
<1>1. CASE w = 1
  BY <1>1
<1>2. CASE w = 3
  BY <1>2
<1>3. CASE w = 7
  BY <1>3
<1> QED BY <1>1, <1>2, <1>3

\* Two groups that differ at one place, where their glyphs do not count alike, have
\* different check digits.
LEMMA OneGlyph ==
  ASSUME NEW g \in Seq(Glyphs), NEW h \in Seq(Glyphs), Len(g) = Len(h),
         NEW i \in 1..Len(g),
         Value(g[i]) % 10 # Value(h[i]) % 10,
         \A j \in 1..Len(g) : j # i => g[j] = h[j]
  PROVE  computeCheckDigit(g) # computeCheckDigit(h)
<1>1. PICK s : Sums(s, g)
  BY HasSum
<1>2. PICK t : Sums(t, h)
  BY HasSum
<1> DEFINE d == Weight(i) * Value(g[i]) - Weight(i) * Value(h[i])
           T == {n \in Nat : n <= Len(g) => s[n] - t[n] = IF n < i THEN 0 ELSE d}
<1>3. Len(g) \in Nat /\ i \in Nat /\ i <= Len(g)
  OBVIOUS
<1>w. Weight(i) \in {1, 3, 7}
  BY <1>3, Weights
<1>v. Value(g[i]) \in 0..35 /\ Value(h[i]) \in 0..35
  <2>1. ASSUME NEW x \in Glyphs PROVE Value(x) \in 0..35
    BY <2>1 DEF Value, Filler, Glyphs
  <2>2. g[i] \in Glyphs /\ h[i] \in Glyphs
    OBVIOUS
  <2> QED BY <2>1, <2>2
<1>u. d \in Int
  BY Terms, <1>3
<1>4. 0 \in T
  BY <1>1, <1>2 DEF Sums
<1>5. ASSUME NEW n \in Nat, n \in T PROVE n + 1 \in T
  <2> SUFFICES ASSUME n + 1 <= Len(g)
               PROVE  s[n + 1] - t[n + 1] = IF n + 1 < i THEN 0 ELSE d
    OBVIOUS
  <2> DEFINE x == Weight(n + 1) * Value(g[n + 1])
             y == Weight(n + 1) * Value(h[n + 1])
  <2>1. s[n + 1] = s[n] + x /\ t[n + 1] = t[n] + y
    BY <1>1, <1>2, <1>3 DEF Sums
  <2>2. s[n] \in Nat /\ t[n] \in Nat
    BY <1>1, <1>2, <1>3 DEF Sums
  <2>3. x \in Nat /\ y \in Nat
    BY Terms, <1>3
  <2>4. s[n] - t[n] = IF n < i THEN 0 ELSE d
    BY <1>3, <1>5
  <2>5. n + 1 # i => x = y
    BY <1>3
  <2>6. n + 1 = i => x - y = d
    OBVIOUS
  <2>7. d \in Int
    BY <1>u
  <2> HIDE DEF d, x, y
  <2> QED BY <1>3, <2>1, <2>2, <2>3, <2>4, <2>5, <2>6, <2>7
<1>6. \A n \in Nat : n \in T
  <2> HIDE DEF T
  <2> QED BY <1>4, <1>5, SetInduction
<1> DEFINE a == s[Len(g)]
           b == t[Len(g)]
<1>7. a \in Nat /\ b \in Nat
  BY <1>1, <1>2 DEF Sums
<1>8. a - b = d
  BY <1>3, <1>6
<1>9. a % 10 # b % 10
  <2> DEFINE w == Weight(i)
             x == Value(g[i])
             y == Value(h[i])
  <2>1. a - b = w * x - w * y
    BY <1>8
  <2>2. x % 10 # y % 10
    OBVIOUS
  <2> HIDE DEF a, b, d, w, x, y
  <2>3. w \in {1, 3, 7} /\ x \in 0..35 /\ y \in 0..35
    BY <1>w, <1>v DEF w, x, y
  <2> QED BY <1>7, <2>1, <2>2, <2>3, ModTen
<1> QED BY <1>1, <1>2, <1>9 DEF Sums

----------------------------------------------------------------------------
\* The groups of a zone.
LEMMA IsGroup ==
  ASSUME NEW n \in Nat, NEW group \in [1..n -> Glyphs]
  PROVE  group \in Seq(Glyphs) /\ Len(group) = n
OBVIOUS

\* Padding gives a group of its length.
LEMMA Padded ==
  ASSUME NEW group \in Seq(Glyphs), NEW n \in Nat
  PROVE  pad(group, n) \in [1..n -> Glyphs]
<1>1. ASSUME NEW i \in 1..n
      PROVE  (IF i <= Len(group) THEN group[i] ELSE Filler) \in Glyphs
  <2>1. CASE i <= Len(group)
    BY <2>1
  <2>2. CASE ~(i <= Len(group))
    BY <2>2 DEF Glyphs, Filler
  <2> QED BY <2>1, <2>2
<1> QED BY <1>1 DEF pad

Join(t, g, h) ==
  /\ Len(t) = Len(g) + Len(h)
  /\ \A i \in 1..Len(g) : t[i] = g[i]
  /\ \A i \in 1..Len(h) : t[Len(g) + i] = h[i]

\* What a concatenation holds.
LEMMA Joined ==
  ASSUME NEW S, NEW g \in Seq(S), NEW h \in Seq(S)
  PROVE  g \o h \in Seq(S) /\ Join(g \o h, g, h)
BY DEF Join

\* A date is written with six digits.
Written(glyphs, date) ==
  /\ glyphs \in [1..6 -> Digits]
  /\ glyphs[1] = (date[1] % 100) \div 10 /\ glyphs[2] = date[1] % 10
  /\ glyphs[3] = (date[2] % 100) \div 10 /\ glyphs[4] = date[2] % 10
  /\ glyphs[5] = (date[3] % 100) \div 10 /\ glyphs[6] = date[3] % 10

\* The two digits of the year, the month and the day, in that order.
LEMMA DateWritten ==
  ASSUME NEW date \in Int \X Int \X Int
  PROVE  Written(toYymmdd(date), date)
<1> DEFINE Pair(n) == <<(n % 100) \div 10, n % 10>>
           p == Pair(date[1])
           q == Pair(date[2])
           r == Pair(date[3])
<1>1. ASSUME NEW n \in Int
      PROVE  /\ Pair(n) \in Seq(Digits) /\ Len(Pair(n)) = 2
             /\ Pair(n)[1] = (n % 100) \div 10 /\ Pair(n)[2] = n % 10
  <2>1. (n % 100) \div 10 \in 0..9 /\ n % 10 \in 0..9
    OBVIOUS
  <2> QED BY <2>1 DEF Digits
<1>2. /\ p \in Seq(Digits) /\ Len(p) = 2
      /\ q \in Seq(Digits) /\ Len(q) = 2
      /\ r \in Seq(Digits) /\ Len(r) = 2
  BY <1>1
<1>3. toYymmdd(date) = (p \o q) \o r
  BY DEF toYymmdd
<1>4. p[1] = (date[1] % 100) \div 10 /\ p[2] = date[1] % 10
  BY <1>1
<1>5. q[1] = (date[2] % 100) \div 10 /\ q[2] = date[2] % 10
  BY <1>1
<1>6. r[1] = (date[3] % 100) \div 10 /\ r[2] = date[3] % 10
  BY <1>1
<1> HIDE DEF p, q, r
<1> DEFINE s == p \o q
<1>7. /\ s \in Seq(Digits) /\ Len(s) = 4
      /\ s[1] = p[1] /\ s[2] = p[2] /\ s[3] = q[1] /\ s[4] = q[2]
  <2>1. s \in Seq(Digits) /\ Join(s, p, q)
    BY <1>2, Joined
  <2> HIDE DEF s
  <2> QED BY <1>2, <2>1 DEF Join
<1>8. toYymmdd(date) = s \o r
  BY <1>3
<1> HIDE DEF s
<1>9. /\ s \o r \in Seq(Digits) /\ Len(s \o r) = 6
      /\ (s \o r)[1] = s[1] /\ (s \o r)[2] = s[2] /\ (s \o r)[3] = s[3]
      /\ (s \o r)[4] = s[4] /\ (s \o r)[5] = r[1] /\ (s \o r)[6] = r[2]
  <2> DEFINE t == s \o r
  <2>1. t \in Seq(Digits) /\ Join(t, s, r)
    BY <1>2, <1>7, Joined
  <2> HIDE DEF t
  <2>2. /\ t \in Seq(Digits) /\ Len(t) = 6
        /\ t[1] = s[1] /\ t[2] = s[2] /\ t[3] = s[3]
        /\ t[4] = s[4] /\ t[5] = r[1] /\ t[6] = r[2]
    BY <1>2, <1>7, <2>1 DEF Join
  <2> QED BY <2>2 DEF t
<1>10. s \o r \in [1..6 -> Digits]
  BY <1>9, LenProperties
<1> QED BY <1>4, <1>5, <1>6, <1>7, <1>8, <1>9, <1>10 DEF Written

\* Two digits give back the year.
LEMMA YearBack ==
  ASSUME Year \in Nat, NEW y \in Int
  PROVE  /\ y \in (Year - 99) .. Year => expandYear(y % 100, "birth") = y
         /\ LET from == IF (Year % 100) > 80 THEN Year - 80 ELSE Century
            IN  y \in from .. (from + 99) => expandYear(y % 100, "expiry") = y
<1> DEFINE n == y % 100
<1>0. /\ expandYear(n, "birth") =
           IF n > (Year % 100) THEN Century - 100 + n ELSE Century + n
      /\ expandYear(n, "expiry") =
           IF n < (Year % 100) - 80 THEN Century + 100 + n ELSE Century + n
  BY Zenon DEF expandYear
<1>1. y \in (Year - 99) .. Year => expandYear(y % 100, "birth") = y
  BY <1>0 DEF Century
<1>2. ASSUME (Year % 100) > 80, y \in (Year - 80) .. (Year - 80 + 99)
      PROVE  expandYear(y % 100, "expiry") = y
  BY <1>0, <1>2 DEF Century
<1>3. ASSUME ~((Year % 100) > 80), y \in Century .. (Century + 99)
      PROVE  expandYear(y % 100, "expiry") = y
  BY <1>0, <1>3 DEF Century
<1> QED BY <1>1, <1>2, <1>3

\* So a date that two digits tell is read as it was written.
LEMMA DateBack ==
  ASSUME NEW date \in Int \X (1..12) \X (1..31), NEW kind,
         date[3] <= DaysIn(date[2], date[1]),
         expandYear(date[1] % 100, kind) = date[1],
         NEW glyphs, Written(glyphs, date)
  PROVE  parseMrzDate(glyphs, kind) = date /\ date # NoDate
<1> DEFINE Two(i) == 10 * glyphs[i] + glyphs[i + 1]
           year   == expandYear(Two(1), kind)
<1>0. date[1] \in Int /\ date[2] \in 1..12 /\ date[3] \in 1..31
  OBVIOUS
<1>1. Two(1) = date[1] % 100
  BY <1>0 DEF Written
<1>2. Two(3) = date[2]
  BY <1>0 DEF Written
<1>3. Two(5) = date[3]
  BY <1>0 DEF Written
<1>4. \A i \in 1..6 : glyphs[i] \in Digits
  BY DEF Written
<1>5. parseMrzDate(glyphs, kind) =
        IF /\ \A i \in 1..6 : glyphs[i] \in Digits
           /\ Two(3) \in 1..12
           /\ Two(5) \in 1..DaysIn(Two(3), year)
        THEN <<year, Two(3), Two(5)>> ELSE NoDate
  BY DEF parseMrzDate
<1>6. year = date[1]
  BY <1>1
<1> HIDE DEF year, Two
<1>7. DaysIn(date[2], date[1]) \in Int
  BY <1>0 DEF DaysIn
<1>8. date[3] \in 1..DaysIn(date[2], date[1])
  BY <1>0, <1>7
<1>9. parseMrzDate(glyphs, kind) = <<date[1], date[2], date[3]>>
  BY <1>0, <1>2, <1>3, <1>4, <1>5, <1>6, <1>8
<1>10. date = <<date[1], date[2], date[3]>>
  OBVIOUS
<1>11. date # NoDate
  BY <1>0 DEF NoDate
<1> QED BY <1>9, <1>10, <1>11

----------------------------------------------------------------------------
CheckDigits == {"numberCd", "dobCd", "expiryCd", "optionalCd", "compositeCd"}

Zones ==
  [format : Formats,
   number : [1..9 -> Glyphs], dob : [1..6 -> Glyphs], expiry : [1..6 -> Glyphs],
   optional : Seq(Glyphs),
   numberCd : Glyphs, dobCd : Glyphs, expiryCd : Glyphs, optionalCd : Glyphs,
   compositeCd : Glyphs]

\* Digits and the filler are glyphs, and the filler is no digit.
LEMMA DigitsAreGlyphs == Digits \subseteq Glyphs /\ Filler \in Glyphs /\ Filler \notin Digits
BY DEF Digits, Glyphs, Filler

\* What the composite digit runs over is a sequence of glyphs.
LEMMA CompositeType ==
  ASSUME NEW z \in Zones
  PROVE  Composite(z) \in Seq(Glyphs)
<1> DEFINE number == Append(z.number, z.numberCd)
           birth  == Append(z.dob, z.dobCd)
           expires == Append(z.expiry, z.expiryCd)
           dates  == birth \o expires
           blank  == pad(<<>>, 11)
<1>1. /\ z.number \in Seq(Glyphs) /\ z.dob \in Seq(Glyphs) /\ z.expiry \in Seq(Glyphs)
      /\ z.optional \in Seq(Glyphs)
  BY IsGroup DEF Zones
<1>2. /\ z.numberCd \in Glyphs /\ z.dobCd \in Glyphs /\ z.expiryCd \in Glyphs
      /\ z.optionalCd \in Glyphs
  BY DEF Zones
<1>3. number \in Seq(Glyphs) /\ birth \in Seq(Glyphs) /\ expires \in Seq(Glyphs)
  BY <1>1, <1>2, AppendProperties
<1>4. Append(z.optional, z.optionalCd) \in Seq(Glyphs)
  BY <1>1, <1>2, AppendProperties
<1>5. blank \in Seq(Glyphs)
  <2>1. <<>> \in Seq(Glyphs)
    OBVIOUS
  <2> QED BY <2>1, Padded, IsGroup
<1>6. dates \in Seq(Glyphs)
  <2> HIDE DEF birth, expires
  <2> QED BY <1>3, ConcatProperties
<1>7. CASE z.format = "TD3"
  <2>1. Composite(z) = number \o dates \o Append(z.optional, z.optionalCd)
    BY <1>7 DEF Composite
  <2> HIDE DEF number, dates
  <2>2. number \o dates \in Seq(Glyphs)
    BY <1>3, <1>6, ConcatProperties
  <2> QED BY <2>1, <2>2, <1>4, ConcatProperties
<1>8. CASE z.format = "TD2"
  <2>1. Composite(z) = number \o dates \o z.optional
    BY <1>8 DEF Composite
  <2> HIDE DEF number, dates
  <2>2. number \o dates \in Seq(Glyphs)
    BY <1>3, <1>6, ConcatProperties
  <2> QED BY <2>1, <2>2, <1>1, ConcatProperties
<1>9. CASE z.format = "TD1"
  <2>1. Composite(z) = number \o z.optional \o dates \o blank
    BY <1>9 DEF Composite
  <2> HIDE DEF number, dates, blank
  <2>2. number \o z.optional \in Seq(Glyphs)
    BY <1>3, <1>1, ConcatProperties
  <2>3. number \o z.optional \o dates \in Seq(Glyphs)
    BY <2>2, <1>6, ConcatProperties
  <2> QED BY <2>1, <2>3, <1>5, ConcatProperties
<1>10. z.format \in {"TD1", "TD2", "TD3"}
  BY DEF Zones, Formats
<1> QED BY <1>7, <1>8, <1>9, <1>10

\* Putting the composite digit in leaves what it runs over alone.
LEMMA CompositeLeavesItselfOut ==
  ASSUME NEW z \in Zones, NEW g
  PROVE  Composite([z EXCEPT !.compositeCd = g]) = Composite(z)
<1> DEFINE y == [z EXCEPT !.compositeCd = g]
<1>1. /\ y.format = z.format /\ y.number = z.number /\ y.numberCd = z.numberCd
      /\ y.dob = z.dob /\ y.dobCd = z.dobCd
      /\ y.expiry = z.expiry /\ y.expiryCd = z.expiryCd
      /\ y.optional = z.optional /\ y.optionalCd = z.optionalCd
  BY DEF Zones
<1> HIDE DEF y
<1>2. Composite(y) = Composite(z)
  BY Zenon, <1>1 DEF Composite
<1> QED BY <1>2 DEF y

\* A zone whose check digits are right, made from the document.
Made(z, d) ==
  /\ z \in Zones
  /\ z.number = pad(d.number, 9)
  /\ z.dob = toYymmdd(d.dob) /\ z.expiry = toYymmdd(d.expiry)
  /\ z.numberCd = computeCheckDigit(z.number)
  /\ z.dobCd = computeCheckDigit(z.dob) /\ z.expiryCd = computeCheckDigit(z.expiry)
  /\ z.optionalCd = computeCheckDigit(z.optional)
  /\ z.compositeCd = computeCheckDigit(Composite(z))

\* What a date that two digits tell is.
LEMMA DateType ==
  ASSUME NEW from \in Int, NEW date, IsDate(date, from)
  PROVE  /\ date \in Int \X Int \X Int /\ date \in Int \X (1..12) \X (1..31)
         /\ date[1] \in from .. (from + 99)
         /\ date[3] <= DaysIn(date[2], date[1])
<1>1. from .. (from + 99) \subseteq Int
  OBVIOUS
<1>2. date \in (from .. (from + 99)) \X (1..12) \X (1..31)
  BY DEF IsDate
<1>3. date \in Int \X (1..12) \X (1..31) /\ date[1] \in from .. (from + 99)
  BY <1>1, <1>2
<1>4. date \in Int \X Int \X Int
  BY <1>3
<1> QED BY <1>3, <1>4 DEF IsDate

\* The dates of a document are dates that two digits tell.
LEMMA DocumentDates ==
  ASSUME MrzAssumption, NEW d \in Documents
  PROVE  /\ d.dob \in Int \X Int \X Int /\ d.expiry \in Int \X Int \X Int
         /\ d.dob \in Int \X (1..12) \X (1..31) /\ d.expiry \in Int \X (1..12) \X (1..31)
         /\ d.dob[3] <= DaysIn(d.dob[2], d.dob[1])
         /\ d.expiry[3] <= DaysIn(d.expiry[2], d.expiry[1])
         /\ expandYear(d.dob[1] % 100, "birth") = d.dob[1]
         /\ expandYear(d.expiry[1] % 100, "expiry") = d.expiry[1]
<1> DEFINE from == IF (Year % 100) > 80 THEN Year - 80 ELSE Century
<1>1. Year \in Nat /\ IsDate(d.dob, Year - 99) /\ IsDate(d.expiry, from)
  BY Zenon DEF MrzAssumption
<1>2. Year - 99 \in Int /\ from \in Int
  BY <1>1 DEF Century
<1> HIDE DEF from
<1>3. /\ d.dob \in Int \X Int \X Int /\ d.dob \in Int \X (1..12) \X (1..31)
      /\ d.dob[1] \in (Year - 99) .. (Year - 99 + 99)
      /\ d.dob[3] <= DaysIn(d.dob[2], d.dob[1])
  BY <1>1, <1>2, DateType
<1>4. /\ d.expiry \in Int \X Int \X Int /\ d.expiry \in Int \X (1..12) \X (1..31)
      /\ d.expiry[1] \in from .. (from + 99)
      /\ d.expiry[3] <= DaysIn(d.expiry[2], d.expiry[1])
  BY <1>1, <1>2, DateType
<1>5. expandYear(d.dob[1] % 100, "birth") = d.dob[1]
  <2>1. d.dob[1] \in (Year - 99) .. Year /\ d.dob[1] \in Int
    BY <1>1, <1>3
  <2> QED BY <1>1, <2>1, YearBack
<1>6. expandYear(d.expiry[1] % 100, "expiry") = d.expiry[1]
  <2>1. d.expiry[1] \in Int
    BY <1>4
  <2> QED BY <1>1, <1>4, <2>1, YearBack DEF from
<1> QED BY <1>3, <1>4, <1>5, <1>6

\* The builder makes such a zone from each document.
LEMMA IssueMakes ==
  ASSUME MrzAssumption, NEW d \in Documents, NEW format \in Formats
  PROVE  Made(Issue(format, d), d)
<1> DEFINE padded  == pad(d.number, 9)
           birth   == toYymmdd(d.dob)
           expires == toYymmdd(d.expiry)
           extra   == pad(d.optional, OptionalLength(format))
           z == [format   |-> format,  compositeCd |-> Filler,
                 number   |-> padded,  numberCd    |-> computeCheckDigit(padded),
                 dob      |-> birth,   dobCd       |-> computeCheckDigit(birth),
                 expiry   |-> expires, expiryCd    |-> computeCheckDigit(expires),
                 optional |-> extra,   optionalCd  |-> computeCheckDigit(extra)]
           base == [z EXCEPT !.compositeCd = computeCheckDigit(Composite(z))]
<1>1. Issue(format, d) = base
  BY DEF Issue, buildMrz
<1>2. padded \in [1..9 -> Glyphs]
  BY Padded DEF MrzAssumption, Glyphs
<1>3. extra \in Seq(Glyphs)
  <2>1. OptionalLength(format) \in Nat
    BY DEF OptionalLength, Formats
  <2>2. d.optional \in Seq(Glyphs)
    BY DEF MrzAssumption, Glyphs
  <2> QED BY <2>1, <2>2, Padded, IsGroup
<1>4. birth \in [1..6 -> Digits] /\ expires \in [1..6 -> Digits]
  <2>1. d.dob \in Int \X Int \X Int /\ d.expiry \in Int \X Int \X Int
    BY DocumentDates
  <2> QED BY <2>1, DateWritten DEF Written
<1>5. birth \in [1..6 -> Glyphs] /\ expires \in [1..6 -> Glyphs]
  BY <1>4, DigitsAreGlyphs
<1>6. /\ computeCheckDigit(padded) \in Digits /\ computeCheckDigit(birth) \in Digits
      /\ computeCheckDigit(expires) \in Digits /\ computeCheckDigit(extra) \in Digits
  <2> HIDE DEF padded, birth, expires, extra
  <2> QED BY <1>2, <1>3, <1>5, IsGroup, CheckDigitType
<1> HIDE DEF padded, birth, expires, extra
<1>7. z \in Zones
  BY <1>2, <1>3, <1>5, <1>6, DigitsAreGlyphs DEF Zones
<1> DEFINE c == computeCheckDigit(Composite(z))
<1>8. c \in Digits
  <2> HIDE DEF z
  <2> QED BY <1>7, CompositeType, CheckDigitType
<1>9. Composite(base) = Composite(z)
  <2> HIDE DEF z
  <2> QED BY <1>7, CompositeLeavesItselfOut
<1>10. base.compositeCd = computeCheckDigit(Composite(base))
  <2>1. base.compositeCd = c
    <3> HIDE DEF c
    <3> QED BY DEF c
  <2> HIDE DEF base, z
  <2> QED BY <2>1, <1>9
<1> HIDE DEF c
<1>11. base = [z EXCEPT !.compositeCd = c]
  BY DEF c
<1>12. base \in Zones
  <2>1. c \in Glyphs
    BY <1>8, DigitsAreGlyphs
  <2>2. [z EXCEPT !.compositeCd = c] \in Zones
    <3> HIDE DEF z
    <3> QED BY <1>7, <2>1 DEF Zones
  <2> HIDE DEF base
  <2> QED BY <1>11, <2>2
<1>13. /\ base.number = padded /\ base.numberCd = computeCheckDigit(padded)
       /\ base.dob = birth /\ base.dobCd = computeCheckDigit(birth)
       /\ base.expiry = expires /\ base.expiryCd = computeCheckDigit(expires)
       /\ base.optional = extra /\ base.optionalCd = computeCheckDigit(extra)
  OBVIOUS
<1> HIDE DEF base
<1>14. Made(base, d)
  BY <1>10, <1>12, <1>13 DEF Made, padded, birth, expires
<1> QED BY <1>1, <1>14

\* A zone as it was made is read as the document it was made from.
LEMMA ReadBack ==
  ASSUME MrzAssumption, NEW d \in Documents, NEW z, Made(z, d)
  PROVE  LET read == parseMrz(z)
         IN  read.valid /\ ~read.warning /\ read.dob = d.dob /\ read.expiry = d.expiry
<1>1. Written(z.dob, d.dob) /\ Written(z.expiry, d.expiry)
  BY DocumentDates, DateWritten DEF Made
<1>2. parseMrzDate(z.dob, "birth") = d.dob /\ d.dob # NoDate
  BY <1>1, DocumentDates, DateBack
<1>3. parseMrzDate(z.expiry, "expiry") = d.expiry /\ d.expiry # NoDate
  BY <1>1, DocumentDates, DateBack
<1>4. z \in Zones
  BY DEF Made
<1>5. /\ z.number \in Seq(Glyphs) /\ z.dob \in Seq(Glyphs) /\ z.expiry \in Seq(Glyphs)
      /\ z.optional \in Seq(Glyphs) /\ Composite(z) \in Seq(Glyphs)
  BY <1>4, IsGroup, CompositeType DEF Zones
<1>6. ASSUME NEW group \in Seq(Glyphs), NEW optional
      PROVE  verifyDigit(group, computeCheckDigit(group), optional)
  BY CheckDigitType, DigitsAreGlyphs DEF verifyDigit
<1>7. /\ verifyDigit(z.number, z.numberCd, FALSE)
      /\ verifyDigit(z.dob, z.dobCd, FALSE)
      /\ verifyDigit(z.expiry, z.expiryCd, FALSE)
      /\ verifyDigit(Composite(z), z.compositeCd, FALSE)
      /\ verifyDigit(z.optional, z.optionalCd, TRUE)
  BY <1>5, <1>6 DEF Made
<1>8. \E i \in 1..9 : z.number[i] # Filler
  <2>1. d.number \in Seq(Glyphs)
    BY DEF MrzAssumption, Glyphs
  <2>2. PICK i \in DOMAIN d.number : i <= 9 /\ d.number[i] # Filler
    BY DEF MrzAssumption
  <2>3. i \in 1..9 /\ i <= Len(d.number)
    BY <2>1, <2>2
  <2>4. pad(d.number, 9)[i] = d.number[i]
    BY <2>3 DEF pad
  <2> QED BY <2>2, <2>3, <2>4 DEF Made
<1>9. /\ parseMrz(z).dob = d.dob /\ parseMrz(z).expiry = d.expiry
      /\ parseMrz(z).valid = TRUE /\ parseMrz(z).warning = FALSE
  BY <1>2, <1>3, <1>7, <1>8, Zenon DEF parseMrz
<1> QED BY <1>9

----------------------------------------------------------------------------
Places ==
  ({"number"} \X (1..9)) \cup ({"dob", "expiry"} \X (1..6)) \cup (CheckDigits \X {0})

\* What is at a place: as issued, unless it slipped; then something else.
Slipped(base) ==
  /\ zone \in Zones
  /\ slips \subseteq Places
  /\ \A group \in Groups : \A i \in DOMAIN zone[group] :
       IF <<group, i>> \in slips
       THEN zone[group][i] # base[group][i]
       ELSE zone[group][i] = base[group][i]
  /\ \A cd \in CheckDigits : <<cd, 0>> \in slips <=> zone[cd] # base[cd]
  /\ zone.format = base.format /\ zone.optional = base.optional

\* The inductive invariant.
MrzInvariant ==
  issued \in Documents /\ \E base : Made(base, issued) /\ Slipped(base)

Size(group) == IF group = "number" THEN 9 ELSE 6

\* The three groups, their lengths and their places.
LEMMA GroupType ==
  ASSUME NEW z \in Zones, NEW group \in Groups
  PROVE  /\ z[group] \in [1..Size(group) -> Glyphs] /\ DOMAIN z[group] = 1..Size(group)
         /\ z[group] \in Seq(Glyphs) /\ Len(z[group]) = Size(group)
         /\ \A i \in 1..Size(group) : <<group, i>> \in Places
<1>1. z[group] \in [1..Size(group) -> Glyphs]
  BY DEF Zones, Groups, Size
<1>2. Size(group) \in Nat
  BY DEF Size
<1>3. \A i \in 1..Size(group) : <<group, i>> \in Places
  BY DEF Groups, Size, Places
<1> QED BY <1>1, <1>2, <1>3, IsGroup

\* It holds of a zone as issued,
LEMMA MrzStarts ==
  ASSUME MrzAssumption, MrzInit
  PROVE  MrzInvariant
<1>1. PICK format \in Formats : zone = Issue(format, issued)
  BY DEF MrzInit
<1>2. issued \in Documents /\ slips = {}
  BY DEF MrzInit
<1>3. Made(zone, issued)
  BY <1>1, <1>2, IssueMakes
<1>4. Slipped(zone)
  BY <1>2, <1>3 DEF Slipped, Made
<1> QED BY <1>2, <1>3, <1>4 DEF MrzInvariant

\* a glyph of a group misread keeps it,
LEMMA MisreadKeeps ==
  ASSUME MrzAssumption, MrzInvariant, NEW group \in Groups, NEW i \in DOMAIN zone[group],
         NEW g \in Misreadings, Misread(group, i, g)
  PROVE  MrzInvariant'
<1>1. PICK base : Made(base, issued) /\ Slipped(base)
  BY DEF MrzInvariant
<1>2. zone \in Zones
  BY <1>1 DEF Slipped
<1>3. i \in 1..Size(group) /\ DOMAIN zone[group] = 1..Size(group)
  BY <1>2, GroupType
<1>4. /\ zone' = [zone EXCEPT ![group] = [zone[group] EXCEPT ![i] = g]]
      /\ slips' = slips \cup {<<group, i>>} /\ issued' = issued
      /\ zone[group][i] # g /\ <<group, i>> \notin slips
  BY DEF Misread
<1>g. g \in Glyphs
  BY DEF MrzAssumption, Glyphs
<1> DEFINE new == [zone[group] EXCEPT ![i] = g]
<1>5. /\ new \in [1..Size(group) -> Glyphs] /\ DOMAIN new = 1..Size(group)
      /\ new[i] = g /\ \A j \in 1..Size(group) : j # i => new[j] = zone[group][j]
  BY <1>2, <1>3, <1>g, GroupType
<1>6. zone' = [zone EXCEPT ![group] = new]
  BY <1>4
<1> HIDE DEF new
<1>7. /\ zone' \in Zones /\ zone'[group] = new
      /\ \A other \in Groups : other # group => zone'[other] = zone[other]
      /\ \A cd \in CheckDigits : zone'[cd] = zone[cd]
      /\ zone'.format = zone.format /\ zone'.optional = zone.optional
  <2>1. CASE group = "number"
    BY <1>2, <1>5, <1>6, <2>1 DEF Zones, Size, Groups, CheckDigits
  <2>2. CASE group = "dob"
    BY <1>2, <1>5, <1>6, <2>2 DEF Zones, Size, Groups, CheckDigits
  <2>3. CASE group = "expiry"
    BY <1>2, <1>5, <1>6, <2>3 DEF Zones, Size, Groups, CheckDigits
  <2> QED BY <2>1, <2>2, <2>3 DEF Groups
<1>8. slips' \subseteq Places
  BY <1>1, <1>2, <1>3, <1>4, GroupType DEF Slipped
<1>9. ASSUME NEW other \in Groups, NEW j \in DOMAIN zone'[other]
      PROVE  IF <<other, j>> \in slips'
             THEN zone'[other][j] # base[other][j]
             ELSE zone'[other][j] = base[other][j]
  <2>1. CASE other = group /\ j = i
    <3>1. zone[group][i] = base[group][i]
      BY <1>1, <1>4 DEF Slipped
    <3>2. zone'[other][j] = g /\ <<other, j>> \in slips'
      BY <1>4, <1>5, <1>7, <2>1
    <3> QED BY <1>4, <2>1, <3>1, <3>2
  <2>2. CASE ~(other = group /\ j = i)
    <3>1. j \in DOMAIN zone[other] /\ zone'[other][j] = zone[other][j]
      BY <1>3, <1>5, <1>7, <2>2
    <3>2. <<other, j>> \in slips' <=> <<other, j>> \in slips
      BY <1>4, <2>2
    <3> QED BY <1>1, <3>1, <3>2 DEF Slipped
  <2> QED BY <2>1, <2>2
<1>10. ASSUME NEW cd \in CheckDigits
       PROVE  <<cd, 0>> \in slips' <=> zone'[cd] # base[cd]
  <2>1. <<cd, 0>> # <<group, i>>
    BY <1>3
  <2> QED BY <1>1, <1>4, <1>7, <2>1 DEF Slipped
<1>11. Slipped(base)'
  BY <1>1, <1>7, <1>8, <1>9, <1>10 DEF Slipped
<1>12. Made(base, issued')
  BY <1>1, <1>4
<1> QED BY <1>4, <1>11, <1>12 DEF MrzInvariant

\* and so does a check digit that is changed or blotted out.
LEMMA BlotKeeps ==
  ASSUME MrzAssumption, MrzInvariant, NEW cd \in CheckDigits,
         NEW g \in Misreadings \cup {Filler}, Blot(cd, g)
  PROVE  MrzInvariant'
<1>1. PICK base : Made(base, issued) /\ Slipped(base)
  BY DEF MrzInvariant
<1>2. zone \in Zones
  BY <1>1 DEF Slipped
<1>3. /\ zone' = [zone EXCEPT ![cd] = g] /\ slips' = slips \cup {<<cd, 0>>}
      /\ issued' = issued /\ <<cd, 0>> \notin slips /\ zone[cd] # g
  BY DEF Blot
<1>4. g \in Glyphs
  BY DigitsAreGlyphs DEF MrzAssumption, Glyphs
<1>5. /\ zone' \in Zones /\ zone'[cd] = g
      /\ \A other \in CheckDigits : other # cd => zone'[other] = zone[other]
      /\ \A group \in Groups : zone'[group] = zone[group]
      /\ zone'.format = zone.format /\ zone'.optional = zone.optional
  BY <1>2, <1>3, <1>4 DEF Zones, CheckDigits, Groups
<1>6. slips' \subseteq Places
  BY <1>1, <1>3 DEF Slipped, Places
<1>7. ASSUME NEW group \in Groups, NEW j \in DOMAIN zone'[group]
      PROVE  IF <<group, j>> \in slips'
             THEN zone'[group][j] # base[group][j]
             ELSE zone'[group][j] = base[group][j]
  <2>1. j \in DOMAIN zone[group] /\ zone'[group][j] = zone[group][j]
    BY <1>5
  <2>2. j # 0
    BY <2>1, <1>2, GroupType
  <2>3. <<group, j>> \in slips' <=> <<group, j>> \in slips
    BY <1>3, <2>2
  <2> QED BY <1>1, <2>1, <2>3 DEF Slipped
<1>8. ASSUME NEW other \in CheckDigits
      PROVE  <<other, 0>> \in slips' <=> zone'[other] # base[other]
  <2>1. CASE other = cd
    <3>1. zone[cd] = base[cd]
      BY <1>1, <1>3 DEF Slipped
    <3> QED BY <1>3, <1>5, <2>1, <3>1
  <2>2. CASE other # cd
    BY <1>1, <1>3, <1>5, <2>2 DEF Slipped
  <2> QED BY <2>1, <2>2
<1>9. Slipped(base)'
  BY <1>1, <1>5, <1>6, <1>7, <1>8 DEF Slipped
<1>10. Made(base, issued')
  BY <1>1, <1>3
<1> QED BY <1>3, <1>9, <1>10 DEF MrzInvariant

\* So every step keeps it.
LEMMA MrzInvariantKept == MrzInvariant /\ [MrzNext]_mrzVars => MrzInvariant'
<1> SUFFICES ASSUME MrzInvariant, [MrzNext]_mrzVars PROVE MrzInvariant'
  OBVIOUS
<1>1. ASSUME NEW group \in Groups, NEW i \in DOMAIN zone[group], NEW g \in Misreadings,
             Misread(group, i, g)
      PROVE  MrzInvariant'
  BY <1>1, MrzAssumption, MisreadKeeps
<1>2. ASSUME NEW cd \in CheckDigits, NEW g \in Misreadings \cup {Filler}, Blot(cd, g)
      PROVE  MrzInvariant'
  BY <1>2, MrzAssumption, BlotKeeps
<1>3. CASE UNCHANGED mrzVars
  BY <1>3 DEF mrzVars, MrzInvariant, Slipped
<1> QED BY <1>1, <1>2, <1>3 DEF MrzNext, CheckDigits

----------------------------------------------------------------------------
\* Groups with the same glyphs are the same.
LEMMA SameGroup ==
  ASSUME NEW y \in Zones, NEW z \in Zones, NEW group \in Groups,
         \A i \in 1..Size(group) : y[group][i] = z[group][i]
  PROVE  y[group] = z[group]
<1>1. ASSUME NEW D, NEW f \in [D -> Glyphs], NEW g \in [D -> Glyphs],
             \A i \in D : f[i] = g[i]
      PROVE  f = g
  BY <1>1
<1> DEFINE D == 1..Size(group)
<1>2. /\ y[group] \in [D -> Glyphs] /\ z[group] \in [D -> Glyphs]
      /\ \A i \in D : y[group][i] = z[group][i]
  BY GroupType
<1> HIDE DEF D
<1> QED BY <1>1, <1>2

\* Nothing slipped: the zone is as it was made.
LEMMA UnslippedIsMade ==
  ASSUME NEW base, Made(base, issued), Slipped(base), slips = {}
  PROVE  zone = base
<1>1. zone \in Zones /\ base \in Zones
  BY DEF Slipped, Made
<1>2. ASSUME NEW group \in Groups PROVE zone[group] = base[group]
  <2>1. \A i \in 1..Size(group) : zone[group][i] = base[group][i]
    BY <1>1, GroupType DEF Slipped
  <2> QED BY <1>1, <2>1, SameGroup
<1>3. zone.number = base.number /\ zone.dob = base.dob /\ zone.expiry = base.expiry
  BY <1>2 DEF Groups
<1>4. \A cd \in CheckDigits : zone[cd] = base[cd]
  BY DEF Slipped
<1>5. /\ zone.numberCd = base.numberCd /\ zone.dobCd = base.dobCd
      /\ zone.expiryCd = base.expiryCd /\ zone.optionalCd = base.optionalCd
      /\ zone.compositeCd = base.compositeCd
  BY <1>4 DEF CheckDigits
<1>6. zone.format = base.format /\ zone.optional = base.optional
  BY DEF Slipped
<1> QED BY <1>1, <1>3, <1>5, <1>6 DEF Zones

\* A valid zone has the right digit for each group.
LEMMA ValidDigits ==
  ASSUME parseMrz(zone).valid, NEW group \in Groups
  PROVE  /\ zone[DigitOf(group)] = computeCheckDigit(zone[group])
         /\ zone[DigitOf(group)] \in Digits
<1>1. /\ verifyDigit(zone.number, zone.numberCd, FALSE)
      /\ verifyDigit(zone.dob, zone.dobCd, FALSE)
      /\ verifyDigit(zone.expiry, zone.expiryCd, FALSE)
  BY DEF parseMrz
<1>2. verifyDigit(zone[group], zone[DigitOf(group)], FALSE)
  BY <1>1 DEF Groups, DigitOf
<1> QED BY <1>2 DEF verifyDigit

\* The glyphs of a date that is read as one are digits, as are those of a document's.
LEMMA DatesAreDigits ==
  ASSUME MrzAssumption, NEW d \in Documents, NEW base, Made(base, d),
         parseMrz(zone).valid, NEW group \in {"dob", "expiry"}, NEW i \in 1..6
  PROVE  zone[group][i] \in Digits /\ base[group][i] \in Digits
<1>1. parseMrzDate(zone.dob, "birth") # NoDate /\ parseMrzDate(zone.expiry, "expiry") # NoDate
  BY DEF parseMrz
<1>2. ASSUME NEW glyphs, NEW kind, parseMrzDate(glyphs, kind) # NoDate
      PROVE  glyphs[i] \in Digits
  BY <1>2, Zenon DEF parseMrzDate
<1>3. zone.dob[i] \in Digits /\ zone.expiry[i] \in Digits
  BY <1>1, <1>2
<1>4. Written(base.dob, d.dob) /\ Written(base.expiry, d.expiry)
  BY DocumentDates, DateWritten DEF Made
<1>5. base.dob[i] \in Digits /\ base.expiry[i] \in Digits
  BY <1>4 DEF Written
<1> QED BY <1>3, <1>5

\* Digits that differ do not count alike.
LEMMA DigitsCount ==
  ASSUME NEW x \in Digits, NEW y \in Digits, x # y
  PROVE  Value(x) % 10 # Value(y) % 10
BY DEF Digits, Value, Filler

\* One slip in a group, for a glyph that does not count alike: its check digit is not
\* that of its glyphs any more.
LEMMA OneSlipSpoils ==
  ASSUME MrzAssumption, issued \in Documents,
         NEW base, Made(base, issued), Slipped(base),
         NEW group \in Groups, Cardinality(SlipsIn(group)) = 1,
         ~(group = "number" /\ TakenForItsLike)
  PROVE  ~parseMrz(zone).valid
<1> DEFINE cd == DigitOf(group)
<1>1. IsFiniteSet(Places)
  <2>0. IsFiniteSet(1..9) /\ IsFiniteSet(1..6)
    <3>1. ASSUME NEW n \in Int PROVE IsFiniteSet(1..n)
      BY FS_Interval
    <3>2. 9 \in Int /\ 6 \in Int
      OBVIOUS
    <3> QED BY <3>1, <3>2, Zenon
  <2>1. IsFiniteSet({"number"} \X (1..9))
    BY <2>0, FS_Singleton, FS_Product
  <2>2. IsFiniteSet({"dob", "expiry"} \X (1..6))
    <3>1. IsFiniteSet({"dob"} \cup {"expiry"})
      BY FS_Singleton, FS_Union
    <3>2. {"dob", "expiry"} = {"dob"} \cup {"expiry"}
      OBVIOUS
    <3>3. IsFiniteSet({"dob", "expiry"})
      BY <3>1, <3>2
    <3> QED BY <2>0, <3>3, FS_Product
  <2>3. IsFiniteSet(CheckDigits \X {0})
    <3>1. CheckDigits = ((({"numberCd"} \cup {"dobCd"}) \cup {"expiryCd"})
                          \cup {"optionalCd"}) \cup {"compositeCd"}
      BY DEF CheckDigits
    <3>2. IsFiniteSet(CheckDigits)
      BY <3>1, FS_Singleton, FS_Union
    <3> QED BY <3>2, FS_Singleton, FS_Product
  <2> QED BY <2>1, <2>2, <2>3, FS_Union DEF Places
<1>2. SlipsIn(group) \subseteq slips /\ slips \subseteq Places
  BY DEF SlipsIn, Slipped
<1>3. IsFiniteSet(SlipsIn(group))
  BY <1>1, <1>2, FS_Subset
<1>4. PICK p : SlipsIn(group) = {p}
  BY <1>3, FS_Singleton
<1>5. zone \in Zones /\ base \in Zones
  BY DEF Slipped, Made
<1>6. cd \in CheckDigits /\ base[cd] = computeCheckDigit(base[group])
  BY DEF DigitOf, CheckDigits, Groups, Made
<1>7. /\ p \in slips /\ p \in Places /\ p[1] \in {group, cd}
      /\ \A q \in slips : q[1] \in {group, cd} => q = p
  BY <1>2, <1>4 DEF SlipsIn
<1>8. SUFFICES ASSUME parseMrz(zone).valid PROVE FALSE
  OBVIOUS
<1>9. zone[cd] = computeCheckDigit(zone[group])
  BY <1>8, ValidDigits
<1>10. CASE p[1] = group
  <2>1. PICK i \in 1..Size(group) : p = <<group, i>>
    BY <1>7, <1>10 DEF Places, CheckDigits, Groups, Size
  <2>2. zone[cd] = base[cd]
    <3>1. <<cd, 0>> \notin slips
      BY <1>7, <2>1
    <3> QED BY <1>6, <3>1 DEF Slipped
  <2>3. Value(zone[group][i]) % 10 # Value(base[group][i]) % 10
    <3>1. zone[group][i] # base[group][i] /\ <<group, i>> \in slips
      BY <1>5, <1>7, <2>1, GroupType DEF Slipped
    <3>2. CASE group = "number"
      <4>1. i \in DOMAIN zone.number /\ <<"number", i>> \in slips
        BY <1>5, <3>1, <3>2, GroupType
      <4>2. base.number = pad(issued.number, 9)
        BY DEF Made
      <4>3. Value(zone.number[i]) % 10 # Value(base.number[i]) % 10
        BY <3>2, <4>1, <4>2, Zenon DEF TakenForItsLike
      <4> QED BY <3>2, <4>3
    <3>3. CASE group # "number"
      <4>1. group \in {"dob", "expiry"} /\ i \in 1..6
        BY <3>3 DEF Groups, Size
      <4>2. zone[group][i] \in Digits /\ base[group][i] \in Digits
        BY <1>8, <4>1, DatesAreDigits
      <4> QED BY <3>1, <4>2, DigitsCount
    <3> QED BY <3>2, <3>3
  <2>4. \A j \in 1..Size(group) : j # i => zone[group][j] = base[group][j]
    <3> SUFFICES ASSUME NEW j \in 1..Size(group), j # i
                 PROVE  zone[group][j] = base[group][j]
      OBVIOUS
    <3>1. <<group, j>> \notin slips
      BY <1>7, <2>1
    <3> QED BY <1>5, <3>1, GroupType DEF Slipped
  <2>5. computeCheckDigit(zone[group]) # computeCheckDigit(base[group])
    BY <1>5, <2>3, <2>4, GroupType, OneGlyph
  <2> QED BY <1>6, <1>9, <2>2, <2>5
<1>11. CASE p[1] = cd
  <2>1. p = <<cd, 0>>
    BY <1>6, <1>7, <1>11 DEF Places, CheckDigits
  <2>2. zone[cd] # base[cd]
    BY <1>6, <1>7, <2>1 DEF Slipped
  <2>3. zone[group] = base[group]
    <3>1. \A i \in 1..Size(group) : <<group, i>> \notin slips
      <4>1. cd # group
        BY DEF DigitOf, Groups
      <4> QED BY <1>7, <2>1, <4>1
    <3>2. \A i \in 1..Size(group) : zone[group][i] = base[group][i]
      BY <1>5, <3>1, GroupType DEF Slipped
    <3> QED BY <1>5, <3>2, SameGroup
  <2> QED BY <1>6, <1>9, <2>2, <2>3
<1> QED BY <1>7, <1>10, <1>11

\* A zone as issued is read as its document. Whatever the document, the glyphs taken
\* for others and their number, a zone is not valid when exactly one glyph is wrong in
\* a date or its check digit, or in the number or its check digit, and it was not taken
\* for its like.
THEOREM OneSlipCaught == MrzSpec => []OneSlipIsCaught
<1>1. MrzInit => MrzInvariant
  BY MrzStarts, MrzAssumption
<1>2. MrzInvariant => OneSlipIsCaught
  <2> SUFFICES ASSUME MrzInvariant PROVE OneSlipIsCaught
    OBVIOUS
  <2>1. PICK base : Made(base, issued) /\ Slipped(base)
    BY DEF MrzInvariant
  <2> DEFINE read == parseMrz(zone)
  <2>2. slips = {} => /\ read.valid /\ ~read.warning
                      /\ read.dob = issued.dob /\ read.expiry = issued.expiry
    <3>1. issued \in Documents
      BY DEF MrzInvariant
    <3> HIDE DEF Slipped
    <3>2. slips = {} => Made(zone, issued)
      BY <2>1, UnslippedIsMade
    <3> QED BY <3>1, <3>2, MrzAssumption, ReadBack
  <2>3. ASSUME NEW group \in Groups, Cardinality(SlipsIn(group)) = 1,
               ~(group = "number" /\ TakenForItsLike)
        PROVE  ~read.valid
    <3>1. issued \in Documents
      BY DEF MrzInvariant
    <3> QED BY <2>1, <2>3, <3>1, MrzAssumption, OneSlipSpoils
  <2> HIDE DEF read
  <2> QED BY <2>2, <2>3 DEF OneSlipIsCaught, read
<1> QED BY <1>1, <1>2, MrzInvariantKept, PTL DEF MrzSpec
=============================================================================
