---------------------------- MODULE EvidenceProofs ----------------------------
(* What is proved about Evidence, for any number of documents and requests,   *)
(* any images and either setting of automatic rejection: a verdict rests on   *)
(* what the runs were shown.                                                  *)
EXTENDS Evidence, TLAPS

DocFields == {"status", "image", "expired", "forged"}
RunFields == {"pc", "doc", "image", "read", "forced", "verdict", "risky", "edd",
              "subscribe"}

\* The shapes of the variables, as far as the proof needs them.
Shapes ==
  /\ DOMAIN docs = Docs /\ \A d \in Docs : DOMAIN docs[d] = DocFields
  /\ DOMAIN ocrCheck = 0 .. MaxDocs /\ DOMAIN authCheck = 0 .. MaxDocs
  /\ DOMAIN run = JobTriggers /\ \A t \in JobTriggers : DOMAIN run[t] = RunFields

\* What is on record, superseded or not, was shown to a run that could find it.
DocFounded(d) ==
  /\ docs[d].forged => "forged" \in shown
  /\ docs[d].expired => "expired" \in shown

ChecksFounded ==
  /\ countryCheck = "fail" => "blocked" \in shown
  /\ \A d \in 0 .. MaxDocs :
       /\ authCheck[d] = "fail" => "forged" \in shown
       /\ ocrCheck[d] = "pass" => passed

\* What a run holds in its locals was shown to it, and it has no verdict before it
\* has decided.
RunFounded(t) ==
  /\ run[t].pc = "country" => run[t].forced
  /\ run[t].forced => "blocked" \in shown
  /\ run[t].pc = "extract" /\ run[t].read = "expired" => "expired" \in shown
  /\ run[t].pc \in {"authenticity", "authCheck"} /\ run[t].read = "forged" =>
       "forged" \in shown
  /\ run[t].pc \notin {"commit", "monitoring"} => run[t].verdict = "QUEUED"
  /\ run[t].verdict = "REJECTED_RETRY" => "expired" \in shown
  /\ run[t].verdict = "REJECTED_FINAL" => shown \cap {"forged", "blocked"} # {}

\* The inductive invariant.
IInv ==
  /\ Shapes
  /\ \A d \in Docs : DocFounded(d)
  /\ ChecksFounded
  /\ \A t \in JobTriggers : RunFounded(t)

\* The initial states satisfy it.
LEMMA InitFounded == Init => IInv
<1> SUFFICES ASSUME Init PROVE IInv
  OBVIOUS
<1>1. Shapes
  BY DEF Init, Shapes, NoDoc, NoRun, DocFields, RunFields
<1>2. \A d \in Docs : DocFounded(d)
  BY DEF Init, DocFounded, NoDoc
<1>3. ChecksFounded
  BY DEF Init, ChecksFounded
<1>4. \A t \in JobTriggers : RunFounded(t)
  BY DEF Init, RunFounded, NoRun
<1> QED BY <1>1, <1>2, <1>3, <1>4 DEF IInv

\* What was shown is not forgotten.
LEMMA RunsKept ==
  ASSUME IInv, UNCHANGED run, shown \subseteq shown'
  PROVE  \A t \in JobTriggers : RunFounded(t)'
  BY DEF IInv, RunFounded

LEMMA DocsKept ==
  ASSUME IInv, UNCHANGED docs, shown \subseteq shown'
  PROVE  \A d \in Docs : DocFounded(d)'
  BY DEF IInv, DocFounded, Docs

LEMMA ChecksKept ==
  ASSUME IInv, UNCHANGED checkVars, shown \subseteq shown', passed => passed'
  PROVE  ChecksFounded'
  BY DEF IInv, ChecksFounded, checkVars

\* A step that leaves runs, documents and checks alone.
LEMMA NothingRecorded ==
  ASSUME IInv, UNCHANGED <<docs, checkVars, run, shown, passed>>
  PROVE  IInv'
<1>1. Shapes'
  BY DEF IInv, Shapes, checkVars, Docs
<1> QED BY <1>1, RunsKept, DocsKept, ChecksKept DEF IInv

\* A step of one run that leaves documents and checks alone.
LEMMA OneRun ==
  ASSUME IInv, NEW t \in JobTriggers, UNCHANGED <<docs, checkVars, passed>>,
         shown \subseteq shown', NEW r, run' = [run EXCEPT ![t] = r],
         DOMAIN r = RunFields, RunFounded(t)'
  PROVE  IInv'
<1>1. Shapes'
  BY DEF IInv, Shapes, checkVars, Docs
<1>2. \A u \in JobTriggers : RunFounded(u)'
  BY DEF IInv, Shapes, RunFounded
<1> QED BY <1>1, <1>2, DocsKept, ChecksKept DEF IInv

\* A run that goes on to a place where nothing is owed, its locals as they were.
LEMMA MoveKeeps ==
  ASSUME IInv, NEW t \in JobTriggers, NEW pc, Move(t, pc), shown \subseteq shown',
         run[t].pc \notin {"commit", "monitoring"},
         pc \in {"ocrCheck", "auth", "authCheck", "facts"},
         pc = "authCheck" => run[t].pc = "authenticity"
  PROVE  /\ DOMAIN run' = JobTriggers
         /\ \A u \in JobTriggers : DOMAIN run'[u] = RunFields /\ RunFounded(u)'
<1> USE DEF IInv, Shapes, Move, RunFields
<1>1. DOMAIN run' = JobTriggers /\ \A u \in JobTriggers : DOMAIN run'[u] = RunFields
  OBVIOUS
<1>2. ASSUME NEW u \in JobTriggers, u # t PROVE RunFounded(u)'
  BY <1>2 DEF RunFounded
<1>3. RunFounded(t)'
  <2>1. /\ run'[t].pc = pc /\ run'[t].forced = run[t].forced
        /\ run'[t].read = run[t].read /\ run'[t].verdict = run[t].verdict
    OBVIOUS
  <2>2. RunFounded(t)'
    BY <2>1 DEF RunFounded
  <2> QED BY <2>2
<1> QED BY <1>1, <1>2, <1>3

\* The requests of the applicant and of the staff: documents lose their status and
\* get other images, and keep what was recorded on them.
LEMMA RequestFounded ==
  ASSUME IInv, ApplicantStep \/ StaffStep
  PROVE  IInv'
<1> USE DEF IInv
<1>1. ASSUME UNCHANGED <<checkVars, run, shown, passed>>,
             DOMAIN docs' = Docs,
             \A d \in Docs : /\ DOMAIN docs'[d] = DocFields
                             /\ docs'[d].forged => docs[d].forged
                             /\ docs'[d].expired => docs[d].expired
      PROVE  IInv'
  <2>1. Shapes'
    BY <1>1 DEF Shapes, checkVars, Docs
  <2>2. \A d \in Docs : DocFounded(d)'
    BY <1>1 DEF DocFounded, Docs
  <2> QED BY <1>1, <2>1, <2>2, RunsKept, ChecksKept
<1>2. CASE UploadEnds
  <2> DEFINE reused == Newest(RowsNotIn({"SUPERSEDED", "REJECTED"}))
             new    == [NoDoc EXCEPT !.status = "UPLOADED", !.image = form.value]
  <2>1. /\ DOMAIN new = DocFields /\ ~new.forged /\ ~new.expired
    BY DEF NoDoc, DocFields
  <2>2. \/ docs' = [docs EXCEPT ![reused].status = "UPLOADED",
                                ![reused].image = form.value]
        \/ docs' = [docs EXCEPT ![Newest(Rows) + 1] = new]
    BY <1>2 DEF UploadEnds
  <2> HIDE DEF reused, new
  <2>3. /\ DOMAIN docs' = Docs
        /\ \A d \in Docs : /\ DOMAIN docs'[d] = DocFields
                           /\ docs'[d].forged => docs[d].forged
                           /\ docs'[d].expired => docs[d].expired
    BY <2>1, <2>2 DEF Shapes, DocFields
  <2> QED BY <1>1, <1>2, <2>3 DEF UploadEnds, history
<1>3. CASE Submit
  <2>1. UNCHANGED <<docs, checkVars, shown, passed>>
    BY <1>3 DEF Submit, history
  <2>2. PICK job \in JobTriggers :
          \/ UNCHANGED run
          \/ run[job].pc = "none" /\ run' = [run EXCEPT ![job].pc = "waiting"]
    BY <1>3 DEF Submit, JobTriggers
  <2>3. CASE run[job].pc = "none" /\ run' = [run EXCEPT ![job].pc = "waiting"]
    <3> DEFINE r == [run[job] EXCEPT !.pc = "waiting"]
    <3>1. run' = [run EXCEPT ![job] = r] /\ DOMAIN r = RunFields
      BY <2>3 DEF Shapes
    <3>2. /\ r.pc = "waiting" /\ r.forced = run[job].forced
          /\ r.read = run[job].read /\ r.verdict = run[job].verdict
      BY DEF Shapes, RunFields
    <3> HIDE DEF r
    <3>3. run'[job] = r
      BY <3>1 DEF Shapes
    <3>4. RunFounded(job)'
      BY <2>1, <2>3, <3>2, <3>3 DEF RunFounded
    <3> QED BY <2>1, <3>1, <3>4, OneRun
  <2> QED BY <2>1, <2>2, <2>3, NothingRecorded
<1>4. CASE Reset \/ AgentSupersedes
  <2>1. /\ DOMAIN docs' = Docs
        /\ \A d \in Docs : /\ DOMAIN docs'[d] = DocFields
                           /\ docs'[d].forged = docs[d].forged
                           /\ docs'[d].expired = docs[d].expired
    BY <1>4 DEF Reset, AgentSupersedes, Superseded, Shapes, DocFields
  <2>2. CASE AgentSupersedes
    BY <1>1, <2>1, <2>2 DEF AgentSupersedes, history
  <2>3. CASE Reset
    <3>1. Shapes'
      BY <2>1, <2>3 DEF Reset, Shapes, Docs
    <3>2. \A d \in Docs : DocFounded(d)'
      BY <2>1, <2>3 DEF Reset, DocFounded, Docs
    <3>3. ChecksFounded'
      BY <2>3 DEF Reset, ChecksFounded
    <3> QED BY <2>3, <3>1, <3>2, <3>3, RunsKept DEF Reset
  <2> QED BY <1>4, <2>2, <2>3
<1>5. CASE \/ \E image \in Images : UploadBegins(image)
           \/ \E to \in Countries : PatchBegins(to)
           \/ PatchEnds \/ AgentReopens
           \/ \E trigger \in {"REVIEWER_APPROVED", "REVIEWER_REJECTED_RETRY",
                              "REVIEWER_REJECTED_FINAL", "PUT_ON_HOLD"} :
                ReviewerDecides(trigger)
  BY <1>5, NothingRecorded
     DEF UploadBegins, PatchBegins, PatchEnds, AgentReopens, ReviewerDecides, history
<1> QED BY <1>2, <1>3, <1>4, <1>5 DEF ApplicantStep, StaffStep

\* The calls that read the applicant or ask a provider.
LEMMA ReadFounded ==
  ASSUME IInv, NEW t \in JobTriggers,
         \/ StartRun(t) \/ \E image \in Images : CallOcr(t, image) \/ CallAuth(t, image)
  PROVE  IInv'
<1> USE DEF IInv
<1>1. RunFounded(t) /\ DOMAIN run = JobTriggers /\ DOMAIN run[t] = RunFields
  BY DEF Shapes
<1>2. CASE StartRun(t)
  <2> DEFINE d == Newest(RowsNotIn({"SUPERSEDED"}))
             blocked == country = "blocked"
             r == [NoRun EXCEPT !.pc = IF blocked THEN "country" ELSE "ocr",
                                !.doc = d,
                                !.image = IF d = 0 THEN "none" ELSE docs[d].image,
                                !.forced = blocked]
  <2>1. run' = [run EXCEPT ![t] = r]
    BY <1>2 DEF StartRun
  <2>2. /\ DOMAIN r = RunFields /\ r.pc \in {"country", "ocr"}
        /\ r.pc = "country" => r.forced
        /\ r.forced = (country = "blocked") /\ r.verdict = "QUEUED"
    BY DEF NoRun, RunFields
  <2>3. /\ UNCHANGED <<docs, checkVars, passed>> /\ shown \subseteq shown'
        /\ country = "blocked" => "blocked" \in shown'
    BY <1>2 DEF StartRun
  <2> HIDE DEF r
  <2>4. run'[t] = r
    BY <1>1, <2>1
  <2>5. RunFounded(t)'
    BY <2>2, <2>3, <2>4 DEF RunFounded
  <2> QED BY <2>1, <2>2, <2>3, <2>5, OneRun
<1>3. ASSUME NEW image \in Images, CallOcr(t, image) PROVE IInv'
  <2> DEFINE r == [run[t] EXCEPT !.pc = "extract", !.read = image]
  <2>1. run' = [run EXCEPT ![t] = r]
    BY <1>1, <1>3 DEF CallOcr
  <2>2. /\ DOMAIN r = RunFields /\ r.pc = "extract" /\ r.read = image
        /\ r.forced = run[t].forced /\ r.verdict = run[t].verdict
    BY <1>1 DEF RunFields
  <2>3. /\ UNCHANGED <<docs, checkVars, passed>> /\ shown \subseteq shown'
        /\ image = "expired" => "expired" \in shown'
        /\ run[t].pc = "ocr"
    BY <1>3 DEF CallOcr, At
  <2> HIDE DEF r
  <2>4. run'[t] = r
    BY <1>1, <2>1
  <2>5. RunFounded(t)'
    BY <1>1, <2>2, <2>3, <2>4 DEF RunFounded
  <2> QED BY <2>1, <2>2, <2>3, <2>5, OneRun
<1>4. ASSUME NEW image \in Images, CallAuth(t, image) PROVE IInv'
  <2> DEFINE r == [run[t] EXCEPT !.pc = "authenticity", !.read = image]
  <2>1. run' = [run EXCEPT ![t] = r]
    BY <1>1, <1>4 DEF CallAuth
  <2>2. /\ DOMAIN r = RunFields /\ r.pc = "authenticity" /\ r.read = image
        /\ r.forced = run[t].forced /\ r.verdict = run[t].verdict
    BY <1>1 DEF RunFields
  <2>3. /\ UNCHANGED <<docs, checkVars, passed>> /\ shown \subseteq shown'
        /\ image = "forged" => "forged" \in shown'
        /\ run[t].pc = "auth"
    BY <1>4 DEF CallAuth, At
  <2> HIDE DEF r
  <2>4. run'[t] = r
    BY <1>1, <2>1
  <2>5. RunFounded(t)'
    BY <1>1, <2>2, <2>3, <2>4 DEF RunFounded
  <2> QED BY <2>1, <2>2, <2>3, <2>5, OneRun
<1> QED BY <1>2, <1>3, <1>4

\* What is recorded is what was shown: a finding when there was one, an error when
\* the provider failed.
LEMMA RecordFounded ==
  ASSUME IInv, NEW t \in JobTriggers,
         \/ RecordBlockedCountry(t) \/ NoDocument(t) \/ OcrFails(t)
         \/ SaveExtraction(t) \/ RecordOcr(t) \/ AuthFails(t)
         \/ SaveAuthenticity(t) \/ RecordAuth(t) \/ StepThrows(t)
  PROVE  IInv'
<1> USE DEF IInv, At
<1>1. RunFounded(t)
  OBVIOUS
<1>2. ASSUME \A u \in JobTriggers : DOMAIN run'[u] = RunFields /\ RunFounded(u)',
             DOMAIN run' = JobTriggers, UNCHANGED <<docs, shown>>,
             passed => passed', DOMAIN ocrCheck' = 0 .. MaxDocs,
             DOMAIN authCheck' = 0 .. MaxDocs,
             countryCheck' = "fail" => countryCheck = "fail" \/ "blocked" \in shown,
             \A d \in 0 .. MaxDocs :
               /\ authCheck'[d] = "fail" => authCheck[d] = "fail" \/ "forged" \in shown
               /\ ocrCheck'[d] = "pass" => ocrCheck[d] = "pass" \/ passed'
      PROVE  IInv'
  <2>1. Shapes'
    BY <1>2 DEF Shapes, Docs
  <2>2. ChecksFounded'
    BY <1>2 DEF ChecksFounded
  <2> QED BY <1>2, <2>1, <2>2, DocsKept
<1>3. CASE RecordBlockedCountry(t)
  <2>1. Move(t, "facts") /\ run[t].pc = "country" /\ UNCHANGED shown
    BY <1>3 DEF RecordBlockedCountry, history
  <2>2. "blocked" \in shown
    BY <1>1, <2>1 DEF RunFounded
  <2> QED BY <1>2, <1>3, <2>1, <2>2, MoveKeeps DEF RecordBlockedCountry, history, Shapes
<1>4. CASE NoDocument(t) \/ OcrFails(t) \/ StepThrows(t)
  <2>1. PICK d, result : /\ ocrCheck' = [ocrCheck EXCEPT ![d] = result]
                         /\ result \in {"missing", "error"}
    BY <1>4 DEF NoDocument, OcrFails, StepThrows
  <2>2. /\ Move(t, "facts") /\ run[t].pc \notin {"commit", "monitoring"}
        /\ UNCHANGED <<docs, authCheck, countryCheck, shown, passed>>
    BY <1>4 DEF NoDocument, OcrFails, StepThrows, history
  <2>3. \A u \in JobTriggers : DOMAIN run'[u] = RunFields /\ RunFounded(u)'
    BY <2>2, MoveKeeps
  <2>4. DOMAIN run' = JobTriggers
    BY <2>2, MoveKeeps
  <2>5. /\ DOMAIN ocrCheck' = 0 .. MaxDocs
        /\ \A x \in 0 .. MaxDocs : ocrCheck'[x] = "pass" => ocrCheck[x] = "pass"
    BY <2>1 DEF Shapes
  <2> QED BY <1>2, <2>2, <2>3, <2>4, <2>5 DEF Shapes
<1>5. CASE RecordOcr(t)
  <2>1. /\ Move(t, "auth") /\ run[t].pc = "ocrCheck"
        /\ UNCHANGED <<docs, authCheck, countryCheck, shown>>
    BY <1>5 DEF RecordOcr
  <2>2. /\ passed => passed'
        /\ DOMAIN ocrCheck' = 0 .. MaxDocs
        /\ \A d \in 0 .. MaxDocs : ocrCheck'[d] = "pass" => ocrCheck[d] = "pass" \/ passed'
    BY <1>5 DEF RecordOcr, Shapes
  <2>3. /\ DOMAIN run' = JobTriggers
        /\ \A u \in JobTriggers : DOMAIN run'[u] = RunFields /\ RunFounded(u)'
    BY <2>1, MoveKeeps
  <2> QED BY <1>2, <2>1, <2>2, <2>3 DEF Shapes
<1>6. CASE AuthFails(t) \/ RecordAuth(t)
  <2>1. PICK result : /\ authCheck' = [authCheck EXCEPT ![run[t].doc] = result]
                      /\ result = "fail" => "forged" \in shown
    BY <1>1, <1>6 DEF AuthFails, RecordAuth, RunFounded
  <2>2. /\ Move(t, "facts") /\ run[t].pc \in {"auth", "authCheck"}
        /\ UNCHANGED <<docs, ocrCheck, countryCheck, shown, passed>>
    BY <1>6 DEF AuthFails, RecordAuth, history
  <2>3. \A u \in JobTriggers : DOMAIN run'[u] = RunFields /\ RunFounded(u)'
    BY <2>2, MoveKeeps
  <2>4. DOMAIN run' = JobTriggers
    BY <2>2, MoveKeeps
  <2>5. /\ DOMAIN authCheck' = 0 .. MaxDocs
        /\ \A d \in 0 .. MaxDocs :
             authCheck'[d] = "fail" => authCheck[d] = "fail" \/ "forged" \in shown
    BY <2>1 DEF Shapes
  <2> QED BY <1>2, <2>2, <2>3, <2>4, <2>5 DEF Shapes
<1>7. CASE SaveExtraction(t) \/ SaveAuthenticity(t)
  <2>1. PICK pc \in {"ocrCheck", "authCheck"} :
          /\ Move(t, pc) /\ UNCHANGED <<checkVars, shown, passed>>
          /\ run[t].pc \notin {"commit", "monitoring"}
          /\ pc = "authCheck" => run[t].pc = "authenticity"
    BY <1>7 DEF SaveExtraction, SaveAuthenticity, history
  <2>2. /\ DOMAIN run' = JobTriggers
        /\ \A u \in JobTriggers : DOMAIN run'[u] = RunFields /\ RunFounded(u)'
    BY <2>1, MoveKeeps
  <2>3. /\ DOMAIN docs' = Docs
        /\ \A d \in Docs :
             /\ DOMAIN docs'[d] = DocFields
             /\ docs'[d].forged => docs[d].forged \/ "forged" \in shown
             /\ docs'[d].expired => docs[d].expired \/ "expired" \in shown
    <3>1. CASE SaveExtraction(t)
      BY <1>1, <3>1 DEF SaveExtraction, Shapes, DocFields, RunFounded
    <3>2. CASE SaveAuthenticity(t)
      BY <1>1, <3>2 DEF SaveAuthenticity, Shapes, DocFields, RunFounded
    <3> QED BY <1>7, <3>1, <3>2
  <2>4. Shapes'
    BY <2>1, <2>2, <2>3 DEF Shapes, Docs, checkVars
  <2>5. \A d \in Docs : DocFounded(d)'
    BY <2>1, <2>3 DEF DocFounded, Docs
  <2> QED BY <2>1, <2>2, <2>4, <2>5, ChecksKept
<1> QED BY <1>3, <1>4, <1>5, <1>6, <1>7

\* A verdict rests on the facts, and the facts on what is on record.
LEMMA VerdictFounded ==
  ASSUME IInv, NEW t \in JobTriggers, NEW idDoc \in IdDocs
  PROVE  LET verdict == Verdict(run[t].forced, idDoc) IN
           /\ verdict = "REJECTED_RETRY" => "expired" \in shown
           /\ verdict = "REJECTED_FINAL" => shown \cap {"forged", "blocked"} # {}
           /\ verdict = "APPROVED" => passed
<1> USE DEF IInv
<1>1. Current \subseteq 0 .. MaxDocs
  BY BoundsAssumption DEF Current, Docs
<1>2. run[t].forced => "blocked" \in shown
  BY DEF RunFounded
<1>3. GraveCheck => shown \cap {"forged", "blocked"} # {}
  BY <1>1 DEF GraveCheck, ChecksFounded
<1>4. ForgedFact(idDoc) => "forged" \in shown
  BY DEF ForgedFact, IdDocs, Rows, DocFounded
<1>5. ExpiredFact(idDoc) => "expired" \in shown
  BY DEF ExpiredFact, IdDocs, Rows, DocFounded
<1>6. RequiredStepPassed => passed
  BY <1>1 DEF RequiredStepPassed, ChecksFounded
<1> QED BY <1>2, <1>3, <1>4, <1>5, <1>6 DEF Verdict

\* Deciding, committing, and starting again.
LEMMA DecideFounded ==
  ASSUME IInv, NEW t \in JobTriggers,
         \/ \E idDoc \in IdDocs : AssembleFacts(t, idDoc)
         \/ CommitVerdict(t) \/ SubscribeMonitoring(t) \/ RunRestarts(t)
  PROVE  IInv'
<1> USE DEF IInv, At
<1>1. RunFounded(t) /\ DOMAIN run = JobTriggers /\ DOMAIN run[t] = RunFields
  BY DEF Shapes
<1>2. ASSUME NEW idDoc \in IdDocs, AssembleFacts(t, idDoc) PROVE IInv'
  <2> DEFINE verdict == Verdict(run[t].forced, idDoc)
             r == [run[t] EXCEPT !.pc = "commit", !.verdict = verdict,
                                 !.risky = run'[t].risky, !.edd = run'[t].edd,
                                 !.subscribe = run'[t].subscribe]
  <2>1. run' = [run EXCEPT ![t] = r]
    BY <1>1, <1>2 DEF AssembleFacts, RunFields
  <2>2. /\ DOMAIN r = RunFields /\ r.pc = "commit" /\ r.verdict = verdict
        /\ r.forced = run[t].forced
    BY <1>1 DEF RunFields
  <2>3. UNCHANGED <<docs, checkVars, shown, passed>>
    BY <1>2 DEF AssembleFacts, history
  <2>4. /\ verdict = "REJECTED_RETRY" => "expired" \in shown
        /\ verdict = "REJECTED_FINAL" => shown \cap {"forged", "blocked"} # {}
    BY VerdictFounded
  <2> HIDE DEF r, verdict
  <2>5. run'[t] = r
    BY <1>1, <2>1
  <2>6. RunFounded(t)'
    BY <1>1, <2>2, <2>3, <2>4, <2>5 DEF RunFounded
  <2> QED BY <2>1, <2>2, <2>3, <2>6, OneRun
<1>3. CASE CommitVerdict(t)
  <2> DEFINE r == [run[t] EXCEPT !.pc = "monitoring"]
  <2>1. run' = [run EXCEPT ![t] = r]
    BY <1>3 DEF CommitVerdict, Move
  <2>2. /\ DOMAIN r = RunFields /\ r.pc = "monitoring"
        /\ r.verdict = run[t].verdict /\ r.forced = run[t].forced
    BY <1>1 DEF RunFields
  <2>3. UNCHANGED <<docs, checkVars, shown, passed>>
    BY <1>3 DEF CommitVerdict, history
  <2> HIDE DEF r
  <2>4. run'[t] = r
    BY <1>1, <2>1
  <2>5. RunFounded(t)'
    BY <1>1, <2>2, <2>3, <2>4 DEF RunFounded
  <2> QED BY <2>1, <2>2, <2>3, <2>5, OneRun
<1>4. CASE SubscribeMonitoring(t) \/ RunRestarts(t)
  <2>1. PICK r : /\ run' = [run EXCEPT ![t] = r] /\ DOMAIN r = RunFields
                 /\ r.pc \in {"none", "waiting"} /\ ~r.forced /\ r.verdict = "QUEUED"
    BY <1>4 DEF SubscribeMonitoring, RunRestarts, NoRun, RunFields
  <2>2. UNCHANGED <<docs, checkVars, shown, passed>>
    BY <1>4 DEF SubscribeMonitoring, RunRestarts, history
  <2>3. run'[t] = r
    BY <1>1, <2>1
  <2>4. RunFounded(t)'
    BY <2>1, <2>2, <2>3 DEF RunFounded
  <2> QED BY <2>1, <2>2, <2>4, OneRun
<1> QED BY <1>2, <1>3, <1>4

\* Every step keeps it.
LEMMA NextFounded == IInv /\ [Next]_vars => IInv'
<1> SUFFICES ASSUME IInv, [Next]_vars PROVE IInv'
  OBVIOUS
<1>1. CASE UNCHANGED vars
  BY <1>1, NothingRecorded DEF vars, history
<1>2. CASE ApplicantStep \/ StaffStep
  BY <1>2, RequestFounded
<1>3. ASSUME NEW t \in JobTriggers, RunStep(t) PROVE IInv'
  BY <1>3, ReadFounded, RecordFounded, DecideFounded DEF RunStep
<1> QED BY <1>1, <1>2, <1>3 DEF Next

LEMMA EvidenceInvariant == Spec => []IInv
  BY InitFounded, NextFounded, PTL DEF Spec

\* Whatever fails, throws, is replaced, superseded, reset or run again, a rejection
\* rests on something a run was shown.
THEOREM RejectionsFounded == Spec => []RejectionNeedsFinding
<1>1. IInv => RejectionNeedsFinding
  BY DEF IInv, RunFounded, RejectionNeedsFinding
<1> QED BY <1>1, EvidenceInvariant, PTL

\* Only its own decision gives a run that is about to decide a verdict.
LEMMA VerdictDecided ==
  ASSUME IInv, Next, NEW t \in JobTriggers, run[t].pc = "facts",
         run'[t].verdict = "APPROVED"
  PROVE  \E idDoc \in IdDocs : AssembleFacts(t, idDoc)
<1>1. /\ DOMAIN run = JobTriggers /\ DOMAIN run[t] = RunFields
      /\ run[t].verdict = "QUEUED"
  BY DEF IInv, Shapes, RunFounded
<1>2. CASE ApplicantStep \/ StaffStep
  <2>1. UNCHANGED run \/ \E job \in JobTriggers : run' = [run EXCEPT ![job].pc = "waiting"]
    BY <1>2 DEF ApplicantStep, StaffStep, UploadBegins, UploadEnds, PatchBegins, PatchEnds,
                Submit, JobTriggers, ReviewerDecides, Reset, AgentSupersedes, AgentReopens
  <2> QED BY <1>1, <2>1 DEF RunFields
<1>3. ASSUME NEW u \in JobTriggers, RunStep(u), u # t PROVE FALSE
  <2>1. \E r : run' = [run EXCEPT ![u] = r]
    BY <1>3 DEF RunStep, StartRun, RecordBlockedCountry, NoDocument, OcrFails, CallOcr,
                SaveExtraction, RecordOcr, CallAuth, AuthFails, SaveAuthenticity, RecordAuth,
                StepThrows, AssembleFacts, CommitVerdict, SubscribeMonitoring, RunRestarts,
                Move
  <2> QED BY <1>1, <1>3, <2>1
<1>4. CASE RunStep(t)
  <2>1. CASE RunRestarts(t)
    BY <1>1, <2>1 DEF RunRestarts, NoRun
  <2> QED BY <1>4, <2>1
          DEF RunStep, At, StartRun, RecordBlockedCountry, NoDocument, OcrFails, CallOcr,
              SaveExtraction, RecordOcr, CallAuth, AuthFails, SaveAuthenticity, RecordAuth,
              StepThrows, CommitVerdict, SubscribeMonitoring
<1> QED BY <1>2, <1>3, <1>4 DEF Next

\* A run decides APPROVED only when a passing OCR check was recorded since the last
\* reset.
THEOREM ApprovalsFounded == Spec => ApprovalNeedsReading
<1> DEFINE Step == \A t \in JobTriggers :
                     run[t].pc = "facts" /\ run'[t].verdict = "APPROVED" => passed
<1>1. IInv /\ [Next]_vars => [Step]_vars
  <2> SUFFICES ASSUME IInv, Next, NEW t \in JobTriggers, run[t].pc = "facts",
                      run'[t].verdict = "APPROVED"
               PROVE  passed
    OBVIOUS
  <2>1. PICK idDoc \in IdDocs : AssembleFacts(t, idDoc)
    BY VerdictDecided
  <2>2. run'[t].verdict = Verdict(run[t].forced, idDoc)
    BY <2>1 DEF AssembleFacts, IInv, Shapes, RunFields
  <2> QED BY <2>2, VerdictFounded
<1> QED BY <1>1, EvidenceInvariant, PTL DEF Spec, ApprovalNeedsReading
=============================================================================
