---------------------------- MODULE Verification ----------------------------
(***************************************************************************)
(* Verification runs of one applicant through all the steps of a level     *)
(* (worker/src/pipeline.ts): what each step records of what it was shown,   *)
(* the facts and the risk the decision rests on, and the decision, over     *)
(* several runs. Evidence interleaves the calls inside a run with requests; *)
(* here a step is one action, the requests come between runs, and what is   *)
(* wrong with the evidence or with a provider is counted by MaxTrouble.     *)
(***************************************************************************)
EXTENDS ReviewStateMachine, Risk, Levels, RuleLibrary, RuleEngine

CONSTANTS
  LevelsInUse,  \* the levels an applicant may be at
  Residences,   \* countries of residence an applicant may declare
  Images,       \* the photographs they may upload
  MaxTrouble,   \* bound on defective evidence and failing calls
  MaxRuns,      \* bound on verification runs
  MaxDocs       \* bound on document rows

ASSUME TroubleAssumption ==
  MaxTrouble \in Nat /\ MaxRuns \in Nat /\ MaxDocs \in Nat

\* A level has steps, and not endlessly many (levels.ts).
ASSUME LevelAssumption ==
  \A l \in LevelsInUse : l.steps # {} /\ IsFiniteSet(l.steps)

VARIABLES
  level,        \* the applicant's level
  row,          \* the columns of the applicant row a decision reads or writes
  docs,         \* the document rows, oldest first
  checks,       \* the newest check of each type and document, 0 for none
  screening,    \* what the latest screening matched, and the analysts' word
  device,       \* the device session, as last assessed
  run,          \* the run under way: its wave and the steps left of it
  runs,         \* verification runs started
  trouble,      \* what is left of MaxTrouble
  findings      \* history: what the runs have been shown that is wrong

vars == <<level, row, docs, checks, screening, device, run, runs, trouble,
          findings>>

----------------------------------------------------------------------------
(* What a photograph shows, as the providers read it.                      *)

IdTypes     == {"PASSPORT", "ID_CARD", "DRIVERS_LICENSE", "RESIDENCE_PERMIT"}
SelfieTypes == {"SELFIE", "VIDEO_SELFIE"}

\* Days since expiry of a document whose expiry nobody could read.
Unread == -9999

PassportPicture ==
  [type |-> "PASSPORT", defects |-> {}, mrz |-> "valid", partialMrz |-> FALSE,
   number |-> "own", name |-> "ada", age |-> 30, country |-> "GBR",
   expiredFor |-> -400, authenticity |-> 90, tamperFlags |-> {}]
SelfiePicture ==
  [type |-> "SELFIE", spoof |-> FALSE, faces |-> 1, live |-> 95,
   occluded |-> FALSE, similarity |-> 95, knownFace |-> "no"]
BillPicture == [type |-> "UTILITY_BILL", age |-> 20, legible |-> TRUE]

\* OCR finds these faults with a photograph, one label each.
QualityDefects ==
  {"BLURRY_IMAGE", "GLARE_OR_REFLECTION", "DOCUMENT_CROPPED",
   "SCREENSHOT_OR_SCREEN_PHOTO", "BLACK_AND_WHITE"}

PictureOf(image) ==
  CASE image = "passport"   -> PassportPicture
    [] image \in QualityDefects -> [PassportPicture EXCEPT !.defects = {image}]
    [] image = "expired"    -> [PassportPicture EXCEPT !.expiredFor = 5]
    [] image = "expiring"   -> [PassportPicture EXCEPT !.expiredFor = -20]
    [] image = "child's"    -> [PassportPicture EXCEPT !.age = 16]
    [] image = "stranger's" -> [PassportPicture EXCEPT !.name = "eve"]
    [] image = "nameless"   -> [PassportPicture EXCEPT !.name = ""]
    [] image = "altered"    -> [PassportPicture EXCEPT !.mrz = "invalid"]
    [] image = "partial"    -> [PassportPicture EXCEPT !.partialMrz = TRUE]
    [] image = "forged"     -> [PassportPicture EXCEPT
                                  !.tamperFlags = {"DIGITAL_EDIT"}]
    [] image = "worn"       -> [PassportPicture EXCEPT !.authenticity = 50]
    [] image = "registered" -> [PassportPicture EXCEPT !.number = "taken"]
    [] image = "syrian"     -> [PassportPicture EXCEPT !.country = "SYR"]
    [] image = "illegible"  -> [PassportPicture EXCEPT !.mrz = "none",
                                  !.number = "", !.name = "", !.age = -1,
                                  !.expiredFor = Unread]
    [] image = "licence"    -> [PassportPicture EXCEPT !.type = "DRIVERS_LICENSE",
                                  !.mrz = "none", !.number = "", !.name = "",
                                  !.age = -1, !.expiredFor = Unread]
    [] image = "selfie"     -> SelfiePicture
    [] image = "mask"       -> [SelfiePicture EXCEPT !.spoof = TRUE]
    [] image = "no face"    -> [SelfiePicture EXCEPT !.faces = 0]
    [] image = "crowd"      -> [SelfiePicture EXCEPT !.faces = 2]
    [] image = "sunglasses" -> [SelfiePicture EXCEPT !.occluded = TRUE]
    [] image = "still"      -> [SelfiePicture EXCEPT !.live = 60]
    [] image = "other face" -> [SelfiePicture EXCEPT !.similarity = 55]
    [] image = "seen face"  -> [SelfiePicture EXCEPT !.knownFace = "other"]
    [] image = "own face"   -> [SelfiePicture EXCEPT !.knownFace = "same"]
    [] image = "bill"       -> BillPicture
    [] image = "old bill"   -> [BillPicture EXCEPT !.age = 200]
    [] image = "bad bill"   -> [BillPicture EXCEPT !.legible = FALSE]

\* The photographs of identity documents, and all that are described.
IdImages ==
  QualityDefects \cup
  {"passport", "expired", "expiring", "child's", "stranger's", "nameless", "altered",
   "partial", "forged", "worn", "registered", "syrian", "illegible", "licence"}
Described ==
  IdImages \cup
  {"selfie", "mask", "no face", "crowd", "sunglasses", "still", "other face",
   "seen face", "own face", "bill", "old bill", "bad bill"}

\* Photographs are as described, and a step that reads identity documents takes
\* no photograph of anything else.
ASSUME PictureAssumption ==
  /\ Images \subseteq Described
  /\ \A l \in LevelsInUse : \A s \in l.steps :
       s.type = "IDENTITY_DOCUMENT" => s.acceptedDocumentTypes \subseteq IdTypes

Pictures       == [image \in Images |-> PictureOf(image)]
Picture(image) == Pictures[image]

InOrder == {"passport", "selfie", "bill"}

\* Document types that carry a machine-readable zone.
hasMachineReadableZone(type) == type \in {"PASSPORT", "ID_CARD", "VISA",
                                          "RESIDENCE_PERMIT"}

When(condition, label) == IF condition THEN {label} ELSE {}

\* The labels of the OCR check: what could not be read, the quality of the
\* photograph, the document's validity, and how it differs from what was declared.
OcrLabels(p) ==
  LET readAnything == p.number # "" \/ p.age >= 0 \/ p.name # ""
      minValidity  == level.minValidityDays
  IN UNION {
       When(~readAnything, IF hasMachineReadableZone(p.type)
                           THEN "DOCUMENT_UNREADABLE" ELSE "NOT_MACHINE_READABLE"),
       When(readAnything /\ p.partialMrz, "MRZ_INCOMPLETE"),
       When(readAnything /\ p.name = "", "OBSCURED_DATA"),
       p.defects,
       When(p.expiredFor > 0, "DOCUMENT_EXPIRED"),
       When(p.expiredFor # Unread /\ p.expiredFor <= 0
              /\ minValidity > 0 /\ -p.expiredFor < minValidity,
            "DOCUMENT_EXPIRING_SOON"),
       When(p.age >= 0 /\ p.age < level.minAge, "UNDERAGE"),
       When(p.name \notin {"", row.name}, "NAME_MISMATCH"),
       When(p.age >= 0 /\ p.age # row.age, "DOB_MISMATCH")}

LivenessLabels(p) ==
  (CASE p.spoof -> {"SPOOF_ATTEMPT"}
     [] ~p.spoof /\ p.faces = 0 -> {"NO_FACE_DETECTED"}
     [] ~p.spoof /\ p.faces > 1 -> {"MULTIPLE_FACES"}
     [] OTHER -> When(p.live < level.livenessThreshold, "LIVENESS_FAILED"))
  \cup When(p.occluded, "FACE_OBSCURED")

\* Mutant: a label that is not in the taxonomy.
AddressLabelsMisspelt(p) ==
  When(p.legible /\ p.age > level.maxDocumentAgeDays, "POA_TOO_OLD")

AddressLabels(p) ==
  When(p.legible /\ p.age > level.maxDocumentAgeDays, "PROOF_OF_ADDRESS_TOO_OLD")
    \cup When(~p.legible, "NOT_MACHINE_READABLE")

----------------------------------------------------------------------------
(* The database.                                                           *)

Rows          == DOMAIN docs
Newest(those) == Max({0} \cup those)
OfType(types) == {d \in Rows : Picture(docs[d].image).type \in types}
Live          == {d \in Rows : docs[d].status # "SUPERSEDED"}

Completed(result, labels) ==
  [status |-> "COMPLETED", result |-> result, score |-> 100, labels |-> labels,
   at |-> runs]
Scored(result, labels, score) == [Completed(result, labels) EXCEPT !.score = score]
Failed == [status |-> "FAILED", result |-> "none", score |-> -1, labels |-> {},
           at |-> runs]
Skipped(required, label) ==
  [status |-> "SKIPPED", result |-> "INCONCLUSIVE", score |-> -1,
   labels |-> IF required THEN {label} \ {""} ELSE {}, at |-> runs]

\* A new row of the check table, which keeps the newest of each type and document.
Recorded(type, d, check) == [key |-> <<type, d>>, check |-> check]
recordChecks(new) ==
  LET keys == {r.key : r \in new} IN
    checks' = [k \in DOMAIN checks \cup keys |->
                 IF k \in keys THEN (CHOOSE r \in new : r.key = k).check ELSE checks[k]]
LabelsOf(new) == UNION {r.check.labels : r \in new}

\* Mutant: most steps are taken to have a check of their own name.
checkTypeOfName(s) ==
  IF s.type = "IDENTITY_DOCUMENT" THEN "DOCUMENT_OCR" ELSE s.type

checkTypeForStep(s) ==
  CASE s.type = "IDENTITY_DOCUMENT"   -> "DOCUMENT_OCR"
    [] s.type = "SELFIE"              -> "FACE_MATCH"
    [] s.type = "DEVICE_INTELLIGENCE" -> "DEVICE_FINGERPRINT"
    [] s.type = "NFC_READ"            -> "NFC_CHIP"
    [] s.type = "PHONE_VERIFICATION"  -> "PHONE_RISK"
    [] s.type = "EMAIL_VERIFICATION"  -> "EMAIL_RISK"
    [] s.type = "WALLET_OWNERSHIP"    -> "WALLET_SCREENING"
    [] s.type = "COMPANY_DATA"        -> "COMPANY_REGISTRY"
    [] s.type \in {"LIVENESS", "AML_SCREENING", "PROOF_OF_ADDRESS",
                   "AGE_ESTIMATION", "APPLICANT_DATA"} -> s.type
    [] OTHER -> "MANUAL"

----------------------------------------------------------------------------
Entries == {"SANCTIONS", "PEP 1", "PEP 4", "ADVERSE_MEDIA"}
ListType(e) == IF e \in {"PEP 1", "PEP 4"} THEN "PEP" ELSE e

Idle == [wave |-> 0, todo |-> {}, forced |-> FALSE]

NewRow(country, name) ==
  [reviewStatus |-> "NOT_STARTED", country |-> country, name |-> name,
   age |-> IF name = "" THEN -1 ELSE 30, riskScore |-> 0, ddLevel |-> "SDD",
   ipCountry |-> "", registered |-> "", twin |-> FALSE, monitored |-> FALSE,
   verdict |-> "none"]

\* An applicant has declared all that the level asks for, or nothing; somebody
\* else may have declared the same.
Init ==
  /\ level \in LevelsInUse
  /\ \E country \in Residences, name \in {"ada", ""}, twin \in BOOLEAN :
       /\ row = [NewRow(country, name) EXCEPT !.twin = twin]
       /\ trouble = MaxTrouble - (IF name = "" THEN 1 ELSE 0)
                               - (IF twin THEN 1 ELSE 0)
       /\ trouble >= 0
  /\ docs = <<>>
  /\ checks = <<>>
  /\ screening = [listed |-> {}, matched |-> {},
                  resolved |-> [e \in Entries |-> "OPEN"]]
  /\ device = "none"
  /\ run = Idle
  /\ runs = 0
  /\ findings = {}

\* What goes wrong uses up trouble.
Trouble(wrong) ==
  /\ wrong => trouble > 0
  /\ trouble' = IF wrong THEN trouble - 1 ELSE trouble

----------------------------------------------------------------------------
(* The applicant, the staff and the world, between runs.                   *)

\* The newest document of the type that is neither superseded nor rejected
\* takes the image; what earlier runs read stays on its row.
Upload(image) ==
  LET reused == Newest({d \in OfType({Picture(image).type}) :
                          docs[d].status \notin {"SUPERSEDED", "REJECTED"}})
  IN /\ run = Idle
     /\ acceptsSubmissions(row.reviewStatus)
     /\ reused # 0 => docs[reused].image # image
     /\ IF reused # 0
        THEN docs' = [docs EXCEPT ![reused].image = image,
                                  ![reused].status = "UPLOADED"]
        ELSE /\ Len(docs) < MaxDocs
             /\ docs' = Append(docs, [image |-> image, status |-> "UPLOADED",
                                      read |-> "none", examined |-> "none"])
     /\ Trouble(image \notin InOrder)
     /\ UNCHANGED <<level, row, checks, screening, device, run, runs, findings>>

\* The applicant declares, or corrects, who they are and where they live.
Declare(country) ==
  /\ run = Idle
  /\ acceptsSubmissions(row.reviewStatus)
  /\ <<row.name, row.country>> # <<"ada", country>>
  /\ row' = [row EXCEPT !.name = "ada", !.age = 30, !.country = country]
  /\ Trouble(TRUE)
  /\ UNCHANGED <<level, docs, checks, screening, device, run, runs, findings>>

\* A phone has read the chip of the document, and its verdict is a check.
ReadChip(genuine) ==
  /\ run = Idle
  /\ acceptsSubmissions(row.reviewStatus)
  /\ \E s \in level.steps : s.type = "NFC_READ"
  /\ recordChecks({Recorded("NFC_CHIP", 0,
       IF genuine THEN Completed("PASS", {})
       ELSE Completed("FAIL", {"CHIP_AUTHENTICATION_FAILED"}))})
  /\ findings' = findings \cup When(~genuine, "CHIP_AUTHENTICATION_FAILED")
  /\ Trouble(TRUE)
  /\ UNCHANGED <<level, row, docs, screening, device, run, runs>>

\* A list begins to name somebody the applicant matches.
ListUpdate(e) ==
  /\ run = Idle
  /\ e \notin screening.listed
  /\ screening' = [screening EXCEPT !.listed = @ \cup {e}]
  /\ Trouble(TRUE)
  /\ UNCHANGED <<level, row, docs, checks, device, run, runs, findings>>

\* An analyst decides a hit of the latest screening. A run that comes later
\* matches it again and carries the decision forward.
ResolveHit(e, resolution) ==
  /\ run = Idle
  /\ e \in screening.matched
  /\ screening.resolved[e] = "OPEN"
  /\ screening' = [screening EXCEPT !.resolved[e] = resolution]
  /\ findings' = findings \cup When(e = "SANCTIONS" /\ resolution = "TRUE_POSITIVE",
                                   "SANCTIONS_MATCH")
  /\ UNCHANGED <<level, row, docs, checks, device, run, runs, trouble>>

\* The support agent asks for everything again.
RequestResubmission ==
  /\ run = Idle
  /\ row.reviewStatus \notin {"REJECTED_FINAL", "APPROVED"}
  /\ docs # <<>>
  /\ docs' = [d \in Rows |-> [docs[d] EXCEPT !.status = "SUPERSEDED"]]
  /\ row' = [row EXCEPT !.reviewStatus = "REJECTED_RETRY"]
  /\ Trouble(TRUE)
  /\ UNCHANGED <<level, checks, screening, device, run, runs, findings>>

ReviewerDecides(trigger) ==
  /\ run = Idle
  /\ canTransition(row.reviewStatus, trigger, "USER", "COMPLIANCE_OFFICER")
  /\ row' = [row EXCEPT !.reviewStatus = Target(trigger), !.verdict = "none"]
  /\ UNCHANGED <<level, docs, checks, screening, device, run, runs, trouble,
                 findings>>

----------------------------------------------------------------------------
(* A run: its waves, one step after another.                               *)

Plans == [l \in LevelsInUse |-> planSteps(l)]
Waves == Plans[level]

\* A country the level does not accept ends the run before any step.
Begin ==
  LET allowed == isCountryAllowedForLevel(row.country, level) IN
    /\ run = Idle
    /\ runs < MaxRuns
    /\ runs' = runs + 1
    /\ run' = IF allowed
              THEN [wave |-> 1, todo |-> Waves[1], forced |-> FALSE]
              ELSE [wave |-> Len(Waves) + 1, todo |-> {}, forced |-> TRUE]
    /\ recordChecks(IF allowed THEN {}
                    ELSE {Recorded("SANCTIONED_COUNTRY", 0,
                            [Completed("FAIL", {"PROHIBITED_COUNTRY"})
                               EXCEPT !.at = runs'])})
    /\ findings' = findings \cup When(~allowed, "PROHIBITED_COUNTRY")
    /\ UNCHANGED <<level, docs, screening, device, trouble>>

Submit ==
  LET trigger == IF row.reviewStatus = "REJECTED_RETRY"
                 THEN "APPLICANT_RESUBMITTED" ELSE "APPLICANT_SUBMITTED"
  IN /\ canTransition(row.reviewStatus, trigger, "APPLICANT", NoRole)
     /\ row' = [row EXCEPT !.reviewStatus = Target(trigger), !.verdict = "none"]
     /\ Begin

\* The sweep runs an approved customer again when their review is due.
PeriodicReview ==
  /\ row.reviewStatus = "APPROVED"
  /\ row' = [row EXCEPT !.verdict = "none"]
  /\ Begin

\* Steps of a wave run together and touch different checks: one order is enough.
At(types) == run.todo # {} /\ (CHOOSE s \in run.todo : TRUE).type \in types
Current   == CHOOSE s \in run.todo : TRUE

Advance ==
  LET left == run.todo \ {Current} IN
    run' = IF left # {} THEN [run EXCEPT !.todo = left]
           ELSE [run EXCEPT !.wave = @ + 1,
                            !.todo = IF run.wave < Len(Waves)
                                     THEN Waves[run.wave + 1] ELSE {}]

\* A step that throws leaves an incomplete check of no document.
StepThrows ==
  /\ run.todo # {}
  /\ recordChecks({Recorded(checkTypeForStep(Current), 0, Failed)})
  /\ Trouble(TRUE)
  /\ Advance
  /\ UNCHANGED <<level, row, docs, screening, device, runs, findings>>

Record(new, labels) ==
  /\ recordChecks(new)
  /\ findings' = findings \cup labels
  /\ Advance
  /\ UNCHANGED <<level, runs>>

DocumentOfStep ==
  LET accepted == IF Current.acceptedDocumentTypes # {}
                  THEN Current.acceptedDocumentTypes ELSE AnyId
  IN Newest(OfType(accepted) \cap Live)

DocumentMissing ==
  /\ At({"IDENTITY_DOCUMENT"})
  /\ DocumentOfStep = 0
  /\ Record({Recorded("DOCUMENT_OCR", 0,
               Skipped(Current.required, "ADDITIONAL_DOCUMENTS_REQUIRED"))}, {})
  /\ UNCHANGED <<row, docs, screening, device, trouble>>

\* A provider that fails is recorded as FAILED, never as a finding.
OcrFails ==
  /\ At({"IDENTITY_DOCUMENT"})
  /\ DocumentOfStep # 0
  /\ Record({Recorded("DOCUMENT_OCR", DocumentOfStep, Failed)}, {})
  /\ Trouble(TRUE)
  /\ UNCHANGED <<row, docs, screening, device>>

isForged(p) == p.tamperFlags # {} \/ p.authenticity < 30

AuthenticityCheck(p) ==
  IF isForged(p) THEN Completed("FAIL", {"FORGED_DOCUMENT"})
  ELSE Completed(IF p.authenticity < 70 THEN "WARNING" ELSE "PASS", {})

\* OCR, the MRZ's own check digits, authenticity and the document number, all
\* of them recorded on the document. `examined`: the authenticity check answers.
ReadDocument(examined) ==
  LET d      == DocumentOfStep
      p      == Picture(docs[d].image)
      labels == OcrLabels(p)
      new    == {Recorded("DOCUMENT_OCR", d,
                   Completed(IF labels = {} THEN "PASS" ELSE "FAIL", labels)),
                 Recorded("DOCUMENT_AUTHENTICITY", d,
                   IF examined THEN AuthenticityCheck(p) ELSE Failed)}
             \cup When(p.mrz # "none",
                    Recorded("MRZ_VALIDATION", d,
                      IF p.mrz = "valid" THEN Completed("PASS", {})
                      ELSE Completed("FAIL", {"MRZ_CHECKSUM_FAILED"})))
             \cup When(p.number = "taken",
                    Recorded("DUPLICATE_IDENTITY", d,
                      Completed("FAIL", {"DUPLICATE_ACCOUNT"})))
  IN /\ At({"IDENTITY_DOCUMENT"})
     /\ d # 0
     /\ docs' = [docs EXCEPT
          ![d].read = docs[d].image,
          ![d].examined = IF examined THEN docs[d].image ELSE @,
          ![d].status = IF labels # {} \/ (examined /\ isForged(p))
                        THEN "REJECTED" ELSE "EXTRACTED"]
     /\ row' = IF p.number = "" THEN row ELSE [row EXCEPT !.registered = p.number]
     /\ Trouble(~examined)
     /\ Record(new, LabelsOf(new)
                      \cup When(isEmbargoed(p.country), "PROHIBITED_COUNTRY"))
     /\ UNCHANGED <<screening, device>>

Selfie  == Newest(OfType(SelfieTypes))
IdPhoto == Newest(OfType(IdTypes))

BiometricsMissing ==
  /\ \/ At({"LIVENESS"}) /\ Selfie = 0
     \/ At({"SELFIE"}) /\ 0 \in {Selfie, IdPhoto}
  /\ Record({Recorded(checkTypeForStep(Current), 0, Skipped(FALSE, ""))}, {})
  /\ UNCHANGED <<row, docs, screening, device, trouble>>

BiometricsFail ==
  /\ \/ At({"LIVENESS"}) /\ Selfie # 0
     \/ At({"SELFIE"}) /\ 0 \notin {Selfie, IdPhoto}
  /\ Record({Recorded(checkTypeForStep(Current), Selfie, Failed)}, {})
  /\ Trouble(TRUE)
  /\ UNCHANGED <<row, docs, screening, device>>

\* The same face under another identity is a finding, under the same one a
\* returning customer. Only a live face is indexed and looked for.
FaceIndexCheck(p) ==
  When(~p.spoof /\ p.knownFace # "no",
       Recorded("DUPLICATE_FACE", 0,
         IF p.knownFace = "other" THEN Completed("FAIL", {"DUPLICATE_FACE"})
         ELSE Completed("WARNING", {})))

CheckLiveness ==
  LET p      == Picture(docs[Selfie].image)
      labels == LivenessLabels(p)
      new    == {Recorded("LIVENESS", Selfie,
                   Completed(IF labels = {} THEN "PASS" ELSE "FAIL", labels))}
             \cup FaceIndexCheck(p)
  IN /\ At({"LIVENESS"})
     /\ Selfie # 0
     /\ Record(new, LabelsOf(new))
     /\ UNCHANGED <<row, docs, screening, device, trouble>>

\* The level's threshold decides, whatever the provider makes of its own score.
MatchFace ==
  LET similarity == Picture(docs[Selfie].image).similarity
      mismatch   == When(similarity < level.faceMatchThreshold, "SELFIE_MISMATCH")
  IN /\ At({"SELFIE"})
     /\ 0 \notin {Selfie, IdPhoto}
     /\ Record({Recorded("FACE_MATCH", Selfie,
          Scored(IF mismatch = {} THEN "PASS" ELSE "FAIL", mismatch, similarity))},
          mismatch)
     /\ UNCHANGED <<row, docs, screening, device, trouble>>

DeviceSession(d) ==
  [isVpn |-> d = "vpn", isTor |-> d = "tor", isProxy |-> FALSE,
   isEmulator |-> d = "emulator", isRooted |-> FALSE,
   botScore |-> IF d = "bot" THEN 80 ELSE 0]

\* What is suspicious about a device is a warning: it has no reject label.
AssessDevice(d) ==
  LET ipCountry == IF d = "abroad" THEN "USA" ELSE row.country IN
    /\ At({"DEVICE_INTELLIGENCE"})
    /\ device' = d
    /\ row' = [row EXCEPT !.ipCountry = ipCountry]
    /\ Record({Recorded("DEVICE_FINGERPRINT", 0,
                 Completed(IF d \in {"emulator", "shared"} THEN "WARNING"
                           ELSE "PASS", {})),
               Recorded("IP_GEOLOCATION", 0,
                 Completed(IF d = "abroad" /\ row.country # "USA" THEN "WARNING"
                           ELSE "PASS", {}))}, {})
    /\ Trouble(d # "plain")
    /\ UNCHANGED <<docs, screening>>

AssessContact(answer) ==
  /\ At({"EMAIL_VERIFICATION", "PHONE_VERIFICATION"})
  /\ Record({Recorded(checkTypeForStep(Current), 0,
       CASE answer = "valid"   -> Completed("PASS", {})
         [] answer = "risky"   -> Completed("WARNING", {})
         [] answer = "invalid" -> Completed("FAIL", {})
         [] answer = "missing" -> Skipped(FALSE, "")
         [] answer = "outage"  -> Failed)}, {})
  /\ Trouble(answer # "valid")
  /\ UNCHANGED <<row, docs, screening, device>>

\* The fields the applicant has declared.
Declared == {"country"} \cup
            IF row.name = "" THEN {} ELSE {"firstName", "lastName", "dob"}

\* What is missing of the declaration, and who else has declared the same.
CheckApplicantData ==
  LET missing == missingApplicantFields(DEFAULT_REQUIRED_APPLICANT_FIELDS, Declared)
      new == {Recorded("APPLICANT_DATA", 0,
                IF missing = {} THEN Completed("PASS", {})
                ELSE Completed("FAIL", {"ADDITIONAL_DOCUMENTS_REQUIRED"}))}
          \cup When(row.name # "" /\ row.twin,
                 Recorded("DUPLICATE_IDENTITY", 0,
                   Completed("FAIL", {"DUPLICATE_ACCOUNT"})))
  IN /\ At({"APPLICANT_DATA"})
     /\ Record(new, LabelsOf(new))
     /\ UNCHANGED <<row, docs, screening, device, trouble>>

CheckAddress(answered) ==
  LET d      == Newest(OfType(Current.acceptedDocumentTypes))
      labels == AddressLabels(Picture(docs[d].image))
      new    == Recorded("PROOF_OF_ADDRESS", d,
                  CASE d = 0 -> Skipped(Current.required,
                                        "ADDITIONAL_DOCUMENTS_REQUIRED")
                    [] d # 0 /\ ~answered -> Failed
                    [] OTHER -> Completed(IF labels = {} THEN "PASS" ELSE "FAIL",
                                          labels))
  IN /\ At({"PROOF_OF_ADDRESS"})
     /\ d = 0 => answered
     /\ Record({new}, IF d # 0 /\ answered THEN labels ELSE {})
     /\ Trouble(~answered)
     /\ UNCHANGED <<row, docs, screening, device>>

\* The chip's verdict came from the phone; the step only says whether one came.
LookForChip ==
  /\ At({"NFC_READ"})
  /\ Record(IF <<"NFC_CHIP", 0>> \in DOMAIN checks
               /\ checks[<<"NFC_CHIP", 0>>].status = "COMPLETED"
            THEN {}
            ELSE {Recorded("NFC_CHIP", 0,
                    Skipped(Current.required, "REQUIRED_STEP_NOT_PERFORMED"))}, {})
  /\ UNCHANGED <<row, docs, screening, device, trouble>>

\* A screening without a name throws before it is a run of its own.
Screen(answered) ==
  /\ At({"AML_SCREENING"})
  /\ row.name # ""
  /\ screening' = [screening EXCEPT !.matched = IF answered THEN screening.listed
                                                ELSE {}]
  /\ Record({Recorded("AML_SCREENING", 0,
       IF ~answered THEN Failed
       ELSE Completed(IF screening.listed = {} THEN "PASS" ELSE "WARNING", {}))}, {})
  /\ Trouble(~answered)
  /\ UNCHANGED <<row, docs, device>>

ScreeningUnnamed ==
  /\ At({"AML_SCREENING"})
  /\ row.name = ""
  /\ Record({Recorded("AML_SCREENING", 0, Failed)}, {})
  /\ UNCHANGED <<row, docs, screening, device, trouble>>

Automated == {"IDENTITY_DOCUMENT", "LIVENESS", "SELFIE", "AML_SCREENING",
              "DEVICE_INTELLIGENCE", "EMAIL_VERIFICATION", "PHONE_VERIFICATION",
              "PROOF_OF_ADDRESS", "APPLICANT_DATA", "NFC_READ"}

\* A required step no check performs waits for a person.
NoAutomatedCheck ==
  /\ run.todo # {} /\ Current.type \notin Automated
  /\ Record({Recorded("MANUAL", 0,
               Skipped(Current.required, "REQUIRED_STEP_NOT_PERFORMED"))}, {})
  /\ UNCHANGED <<row, docs, screening, device, trouble>>

----------------------------------------------------------------------------
(* The facts and the decision (finalize).                                  *)

\* The current checks: the newest of each type and document, without those of
\* documents that are superseded.
IsLatest(k)    == k[2] = 0 \/ docs[k[2]].status # "SUPERSEDED"
LatestKeys     == {k \in DOMAIN checks : IsLatest(k)}
LatestOf(type) == {k \in DOMAIN checks : k[1] = type /\ IsLatest(k)}
LatestChecks ==
  {[type |-> k[1], doc |-> k[2], status |-> checks[k].status,
    result |-> checks[k].result, labels |-> checks[k].labels] : k \in LatestKeys}

NoCheck == [Failed EXCEPT !.status = "none"]

\* The newest current check of a type.
ByType(type) ==
  LET keys == LatestOf(type)
      Newer(k, j) == \/ checks[k].at > checks[j].at
                     \/ checks[k].at = checks[j].at /\ (k[2] = 0 \/ j[2] # 0)
  IN IF keys = {} THEN NoCheck
     ELSE checks[CHOOSE k \in keys : \A j \in keys : Newer(k, j)]

\* Mutant: a check that came to no end counts as one that found nothing.
stepIdsWithoutFailure ==
  {s.id : s \in {t \in level.steps :
     LET relevant == LatestOf(checkTypeForStep(t)) IN
       relevant # {} /\ \A k \in relevant : checks[k].result # "FAIL"}}

\* A step is complete when it has current checks, and all of them came to an
\* end and found nothing.
completedStepIds ==
  {s.id : s \in {t \in level.steps :
     LET relevant == LatestOf(checkTypeForStep(t)) IN
       /\ relevant # {}
       /\ \A k \in relevant : /\ checks[k].status = "COMPLETED"
                              /\ checks[k].result # "FAIL"}}

OpenHits == {e \in screening.matched : screening.resolved[e] = "OPEN"}
PepHits  == {e \in OpenHits : ListType(e) = "PEP"}

\* The identity document: the first of an unordered list, of any status; or
\* whatever document there is.
IdDocs ==
  CASE OfType(IdTypes) # {} -> OfType(IdTypes)
    [] OfType(IdTypes) = {} /\ Rows # {} -> Rows
    [] OTHER -> {0}

\* Mutant: a score nobody has given counts as none at all.
DocumentFactsFromZero(d) ==
  LET none == [present |-> FALSE, extracted |-> FALSE, country |-> "",
               expiredFor |-> Unread, authenticity |-> 0, tamperFlags |-> {},
               name |-> "", age |-> -1]
  IN IF d = 0 THEN none ELSE [none EXCEPT !.present = TRUE]

\* What its row keeps of what was read and examined, perhaps of an image that
\* has been replaced since.
DocumentFacts(d) ==
  LET none == [present |-> FALSE, extracted |-> FALSE, country |-> "",
               expiredFor |-> Unread, authenticity |-> -1, tamperFlags |-> {},
               name |-> "", age |-> -1]
      isId == d # 0 /\ docs[d].read # "none"
      read == Picture(docs[d].read)
      exam == Picture(docs[d].examined)
  IN IF d = 0 THEN none
     ELSE [none EXCEPT
       !.present = TRUE,
       !.extracted = isId /\ read.expiredFor # Unread,
       !.country = IF isId THEN read.country ELSE "",
       !.expiredFor = IF isId THEN read.expiredFor ELSE Unread,
       !.name = IF isId THEN read.name ELSE "",
       !.age = IF isId THEN read.age ELSE -1,
       !.authenticity = IF docs[d].examined = "none" THEN -1 ELSE exam.authenticity,
       !.tamperFlags = IF docs[d].examined = "none" THEN {} ELSE exam.tamperFlags]

Snapshot(idDoc) ==
  [reviewStatus |-> row.reviewStatus, riskScore |-> row.riskScore,
   ddLevel |-> row.ddLevel, country |-> row.country, nationality |-> "",
   ipCountry |-> row.ipCountry, name |-> row.name, age |-> row.age,
   submissionAttempts |->
     Cardinality({k \in DOMAIN checks : k[1] = "DOCUMENT_OCR"}),
   document |-> DocumentFacts(idDoc), checks |-> LatestChecks,
   trigger |-> "INITIAL", openHits |-> Cardinality(OpenHits),
   confirmedSanctionsHits |->
     Cardinality({e \in screening.matched : ListType(e) = "SANCTIONS"
                    /\ screening.resolved[e] = "TRUE_POSITIVE"}),
   pepHits |-> Cardinality(PepHits),
   maxPepTier |-> IF "PEP 1" \in PepHits THEN 1 ELSE 4,
   adverseMediaHits |-> Cardinality(OpenHits \cap {"ADVERSE_MEDIA"}),
   adverseMediaCategories |->
     IF "ADVERSE_MEDIA" \in OpenHits THEN {"fraud"} ELSE {},
   openHitListTypes |-> {ListType(e) : e \in OpenHits},
   device |-> DeviceSession(device),
   spoofDetected |-> "SPOOF_ATTEMPT" \in ByType("LIVENESS").labels,
   faceMatch |-> ByType("FACE_MATCH").score,
   identityMatchCount |->
     IF ByType("DUPLICATE_IDENTITY").result = "FAIL" THEN 1 ELSE 0,
   faceMatchCount |->
     IF ByType("DUPLICATE_FACE").status = "none" THEN 0 ELSE 1,
   sameIdentity |-> ByType("DUPLICATE_FACE").result # "FAIL",
   deviceSharedWithCount |-> 0, emailDisposable |-> FALSE, phoneVoip |-> FALSE,
   required |-> {s.id : s \in {t \in level.steps : t.required}},
   completed |-> completedStepIds]

\* The rules a run loads, highest priority first.
RunRules == Ordered(APPLICANT_RULES, {"APPLICANT_RISK", "DOCUMENT", "SCREENING",
                                      "ONGOING_MONITORING"})

\* The rules, the risk and what the run comes to.
Decision(s) ==
  LET evaluation == evaluateRules(RunRules, buildApplicantFacts(s))
      actions    == ActionsOf(evaluation.fired)
      hints      == summarizeActions(actions)
      assessment == assessRisk(Append(deriveRiskFactors(s), riskDelta(actions)),
                               s.ddLevel, hints.requiresEdd)
      labels     == (UNION {c.labels : c \in s.checks}) \cup hints.rejectLabels
                      \cup When(run.forced, "PROHIBITED_COUNTRY")
      reject     == \/ run.forced
                    \/ hints.autoReject
                    \/ level.autoReject /\ assessment.score >= level.autoRejectScore
      approve    == /\ level.autoApprove
                    /\ hints.autoApprove
                    /\ ~hints.requiresManualReview
                    /\ assessment.score < level.manualReviewScore
                    /\ labels = {}
  IN [reviewStatus |->
        CASE reject -> IF isFinalRejection(labels) THEN "REJECTED_FINAL"
                                                   ELSE "REJECTED_RETRY"
          [] ~reject /\ approve -> "APPROVED"
          [] OTHER -> "QUEUED",
      riskScore |-> assessment.score, ddLevel |-> assessment.ddLevel,
      monitor |-> hints.enableMonitoring]

Finalize(idDoc) ==
  LET decision == Decision(Snapshot(idDoc)) IN
    /\ run.wave = Len(Waves) + 1
    /\ row' = [row EXCEPT
         !.reviewStatus = decision.reviewStatus,
         !.verdict = decision.reviewStatus,
         !.riskScore = decision.riskScore,
         !.ddLevel = decision.ddLevel,
         !.monitored = @ \/ (decision.monitor
                              /\ decision.reviewStatus = "APPROVED")]
    /\ run' = Idle
    /\ UNCHANGED <<level, docs, checks, screening, device, runs, trouble, findings>>

----------------------------------------------------------------------------
(* What the applicant is still asked for.                                  *)

\* A step is satisfied by a declaration, or by a live document of a type it takes.
isSatisfied(s) ==
  IF s.type = "APPLICANT_DATA"
  THEN missingApplicantFields(DEFAULT_REQUIRED_APPLICANT_FIELDS, Declared) = {}
  ELSE OfType(documentTypesForStep(s))
         \cap {d \in Rows : docs[d].status \notin {"REJECTED", "SUPERSEDED"}} # {}

requirements ==
  outstandingSteps(level.steps, {s.id : s \in {t \in level.steps : isSatisfied(t)}})

----------------------------------------------------------------------------
Devices  == {"plain", "vpn", "tor", "emulator", "shared", "bot", "abroad"}
Contacts == {"valid", "risky", "invalid", "missing", "outage"}

RunStep ==
  \/ StepThrows
  \/ DocumentMissing \/ OcrFails
  \/ \E examined \in BOOLEAN : ReadDocument(examined)
  \/ BiometricsMissing \/ BiometricsFail \/ CheckLiveness \/ MatchFace
  \/ \E d \in Devices : AssessDevice(d)
  \/ \E answer \in Contacts : AssessContact(answer)
  \/ CheckApplicantData \/ LookForChip \/ NoAutomatedCheck
  \/ \E answered \in BOOLEAN : CheckAddress(answered)
  \/ \E answered \in BOOLEAN : Screen(answered)
  \/ ScreeningUnnamed
  \/ \E idDoc \in IdDocs : Finalize(idDoc)

Between ==
  \/ \E image \in Images : Upload(image)
  \/ \E country \in Residences : Declare(country)
  \/ \E genuine \in BOOLEAN : ReadChip(genuine)
  \/ \E e \in Entries : ListUpdate(e)
  \/ \E e \in Entries, resolution \in {"TRUE_POSITIVE", "FALSE_POSITIVE"} :
       ResolveHit(e, resolution)
  \/ RequestResubmission
  \/ \E trigger \in {"REVIEWER_APPROVED", "REVIEWER_REJECTED_RETRY"} :
       ReviewerDecides(trigger)
  \/ Submit \/ PeriodicReview

Next == RunStep \/ Between

Spec == Init /\ [][Next]_vars

----------------------------------------------------------------------------
(* What holds. `findings`: every label a run has recorded, or could have    *)
(* derived from what it was shown; it is not what the decision reads.       *)

Labels == {l[1] : l \in REJECT_LABELS}

TypeOK ==
  /\ row.reviewStatus \in ReviewStatuses
  /\ row.verdict \in {"none", "QUEUED", "APPROVED", "REJECTED_RETRY",
                      "REJECTED_FINAL"}
  /\ row.riskScore \in 0 .. 100 /\ row.ddLevel \in Range(DdLevels)
  /\ findings \subseteq Labels
  /\ \A k \in DOMAIN checks : k[2] \in Rows \cup {0} /\ checks[k].labels \subseteq Labels

\* No run rejects on what did not happen: whatever providers fail, steps throw
\* or are skipped, a rejection needs a finding some run was shown, and a final
\* one a finding that leaves no way back (pipeline.ts, isFinalRejection).
RejectedOnFindings ==
  /\ row.verdict = "REJECTED_RETRY" => findings # {}
  /\ row.verdict = "REJECTED_FINAL" => isFinalRejection(findings)

\* Due diligence is never relaxed, though a later run scores lower or finds
\* nothing (risk.ts:57, "Ratchets upward only").
DueDiligenceRatchets == [][Rank(row'.ddLevel) >= Rank(row.ddLevel)]_vars

\* An approval rests on what its own run saw: each required step passed in it,
\* and it recorded nothing of concern, not even on a superseded document.
ApprovalRestsOnThisRun ==
  [][ row'.verdict = "APPROVED" /\ row.verdict # "APPROVED" =>
        /\ \A s \in level.steps : s.required =>
             \E k \in DOMAIN checks :
               /\ k[1] = checkTypeForStep(s)
               /\ checks[k].at = runs
               /\ checks[k].status = "COMPLETED"
        /\ \A k \in DOMAIN checks : checks[k].at = runs =>
             checks[k].labels = {} /\ checks[k].result \notin {"FAIL", "WARNING"}
    ]_vars

\* An applicant with everything in order is approved by their first run: every
\* required step a template of these levels has can complete; and they are asked
\* for nothing more that they could photograph.
InOrderIsApproved ==
  /\ row.verdict # "none" /\ runs = 1 /\ trouble = MaxTrouble
  /\ CountryScore(row.country) = 0 /\ level.autoApprove
  /\ \A s \in level.steps : s.type \in Automated \/ ~s.required
  /\ {docs[d].image : d \in Rows} = InOrder
  => /\ row.verdict = "APPROVED"
     /\ \A s \in requirements : s.type \in NON_DOCUMENT_STEPS

\* What the repository says and the code does not do. pipeline.ts:1237: a
\* failure the applicant has since corrected must not keep counting. A required
\* step that has passed in this run, with nothing else recorded of its type, is
\* complete.
PassedStepCompletes ==
  run.wave = Len(Waves) + 1 /\ ~run.forced =>
    \A s \in level.steps :
      LET now == {k \in LatestKeys : k[1] = checkTypeForStep(s) /\ checks[k].at = runs}
      IN /\ now # {}
         /\ \A k \in now : checks[k].status = "COMPLETED" /\ checks[k].result # "FAIL"
         => s.id \in completedStepIds
=============================================================================
