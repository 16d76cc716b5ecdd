------------------------------ MODULE Duplicates ------------------------------
(***************************************************************************)
(* One person under several accounts: what the verification runs of        *)
(* different applicants learn of each other (worker/src/pipeline.ts) from  *)
(* the tables they share. A run compares the declared identity (the step   *)
(* APPLICANT_DATA), then the document's number (IDENTITY_DOCUMENT), then   *)
(* the face (LIVENESS), one wave each, and decides. Number and face are    *)
(* looked up and stored in opposite orders.                                *)
(***************************************************************************)
EXTENDS Integers

CONSTANTS
  Accounts,     \* the applicants
  DupTenants,   \* the tenants they belong to
  Faces,
  Identities,   \* name, date of birth and country, as declared; "none" if incomplete
  Numbers,      \* of documents
  MaxRows,      \* bound on an applicant's document rows
  MaxActs       \* bound on requests and faults

ASSUME DuplicatesAssumption == MaxRows \in Nat \ {0} /\ "none" \notin Numbers

VARIABLES
  person,      \* of each applicant, the tenant and the face
  profile,     \* the identity columns of the row
  account,     \* identityFingerprint, docNumberHash and approval by a run
  document,    \* the newest row that is not superseded, and its number
  gone,        \* the newest row that is
  faceIndex,   \* whose faces are in the index
  findings,    \* the current checks a decision looks at
  check,       \* the verification run, if any, and its locals
  acts,        \* what is left of MaxActs
  moved,       \* history: patched since the last run loaded the applicant
  lastNumber,  \* history: the number the last run read
  overlapped   \* history: who stored one number between each other's two calls

dupVars == <<person, profile, account, document, gone, faceIndex, findings, check,
             acts, moved, lastNumber, overlapped>>

----------------------------------------------------------------------------
DocIds == 1 .. MaxRows
Waves  == {"data", "document", "face"}
DupPcs == {"idle", "waiting", "identity", "sameIdentity", "ocr", "count", "sameNumber",
           "store", "liveness", "index", "search", "sameFace", "decide", "commit"}

NoDocument == [id |-> 0, number |-> "none"]
NoFindings ==
  [identity |-> FALSE,                          \* DUPLICATE_IDENTITY of no document
   numbers  |-> {},                             \* and of documents
   face     |-> "none",                         \* DUPLICATE_FACE
   ocr      |-> [d \in DocIds |-> "none"],      \* DOCUMENT_OCR
   live     |-> FALSE,                          \* LIVENESS has passed
   broken   |-> {}]                             \* waves with an incomplete check
NoCheck ==
  [pc |-> "idle", fingerprint |-> "none", doc |-> NoDocument, number |-> "none",
   face |-> "none", approve |-> FALSE]

DupInit ==
  /\ person \in [Accounts -> [tenant : DupTenants, face : Faces]]
  /\ profile \in [Accounts -> Identities]
  /\ account = [a \in Accounts |->
       [fingerprint |-> profile[a], docNumberHash |-> "none", approved |-> FALSE]]
  /\ document \in [Accounts -> [id : {1}, number : Numbers \cup {"none"}]]
  /\ gone = [a \in Accounts |-> 0]
  /\ faceIndex = {}
  /\ findings = [a \in Accounts |-> NoFindings]
  /\ check = [a \in Accounts |-> NoCheck]
  /\ acts = MaxActs
  /\ moved = [a \in Accounts |-> FALSE]
  /\ lastNumber = [a \in Accounts |-> "none"]
  /\ overlapped = {}

Act == acts > 0 /\ acts' = acts - 1

\* Other applicants of the same tenant.
Others(a) == {b \in Accounts \ {a} : person[b].tenant = person[a].tenant}

----------------------------------------------------------------------------
(* Requests. An upload or a patch that was accepted before a decision may be *)
(* written after it (Evidence has the two steps).                            *)

Upload(a, number, reuse) ==
  /\ IF reuse
     THEN /\ document[a].id # 0
          /\ document' = [document EXCEPT ![a].number = number]
     ELSE LET newest == IF document[a].id = 0 THEN gone[a] ELSE document[a].id IN
          /\ newest < MaxRows
          /\ document' = [document EXCEPT ![a] = [id |-> newest + 1, number |-> number]]
  /\ Act
  /\ UNCHANGED <<person, profile, account, gone, faceIndex, findings, check, moved,
                 lastNumber, overlapped>>

Patch(a, identity) ==
  /\ profile' = [profile EXCEPT ![a] = identity]
  /\ account' = [account EXCEPT ![a].fingerprint = identity]
  /\ moved' = [moved EXCEPT ![a] = TRUE]
  /\ Act
  /\ UNCHANGED <<person, document, gone, faceIndex, findings, check, lastNumber,
                 overlapped>>

Submit(a) ==
  /\ ~account[a].approved
  /\ check[a].pc = "idle"
  /\ check' = [check EXCEPT ![a] = [NoCheck EXCEPT !.pc = "waiting"]]
  /\ Act
  /\ UNCHANGED <<person, profile, account, document, gone, faceIndex, findings, moved,
                 lastNumber, overlapped>>

\* Checks of superseded documents drop out of what a decision looks at.
Supersede(a) ==
  /\ gone' = [gone EXCEPT ![a] = IF document[a].id = 0 THEN @ ELSE document[a].id]
  /\ document' = [document EXCEPT ![a] = NoDocument]

\* The support agent asks for another document, or for another selfie.
request_resubmission(a, selfie) ==
  /\ ~account[a].approved
  /\ IF selfie
     THEN /\ findings' = [findings EXCEPT ![a].live = FALSE]
          /\ UNCHANGED <<document, gone>>
     ELSE /\ Supersede(a)
          /\ findings' = [findings EXCEPT ![a].numbers = {}, ![a].ocr = NoFindings.ocr]
  /\ Act
  /\ UNCHANGED <<person, profile, account, faceIndex, check, moved, lastNumber,
                 overlapped>>

\* The administrator: the checks go, fingerprint, number and face stay.
ResetAccount(a) ==
  /\ Supersede(a)
  /\ findings' = [findings EXCEPT ![a] = NoFindings]
  /\ account' = [account EXCEPT ![a].approved = FALSE]
  /\ Act
  /\ UNCHANGED <<person, profile, faceIndex, check, moved, lastNumber, overlapped>>

\* Monitoring or the staff take the approval back.
Suspend(a) ==
  /\ account[a].approved
  /\ account' = [account EXCEPT ![a].approved = FALSE]
  /\ Act
  /\ UNCHANGED <<person, profile, document, gone, faceIndex, findings, check, moved,
                 lastNumber, overlapped>>

----------------------------------------------------------------------------
(* A run.                                                                    *)

AtCheck(a, pc) == check[a].pc = pc
GoTo(a, pc)    == check' = [check EXCEPT ![a].pc = pc]

Load(a) ==
  /\ AtCheck(a, "waiting")
  /\ check' = [check EXCEPT ![a] =
       [NoCheck EXCEPT !.pc = "identity", !.fingerprint = account[a].fingerprint,
                       !.doc = document[a]]]
  /\ moved' = [moved EXCEPT ![a] = FALSE]
  /\ UNCHANGED <<person, profile, account, document, gone, faceIndex, findings, acts,
                 lastNumber, overlapped>>

\* The step's own check passes, and replaces one that a run left incomplete. An
\* identity that is not known is not compared.
CompareIdentity(a) ==
  LET others == {b \in Others(a) : account[b].fingerprint = check[a].fingerprint} IN
    /\ AtCheck(a, "identity")
    /\ GoTo(a, IF check[a].fingerprint = "none" \/ others = {} THEN "ocr"
                                                                ELSE "sameIdentity")
    /\ findings' = [findings EXCEPT ![a].broken = @ \ {"data"}]
    /\ UNCHANGED <<person, profile, account, document, gone, faceIndex, acts, moved,
                   lastNumber, overlapped>>

FindIdentity(a) ==
  /\ AtCheck(a, "sameIdentity")
  /\ findings' = [findings EXCEPT ![a].identity = TRUE]
  /\ GoTo(a, "ocr")
  /\ UNCHANGED <<person, profile, account, document, gone, faceIndex, acts, moved,
                 lastNumber, overlapped>>

\* A check of a document that has been superseded meanwhile is not a current one.
OcrOf(a, result) ==
  IF check[a].doc.id > gone[a]
  THEN [findings EXCEPT ![a].ocr[check[a].doc.id] = result]
  ELSE findings

\* OCR reads the image that was loaded, or the one an upload has put in its place;
\* the document passes, or has a fault; and the provider may fail.
ReadNumber(a, number, result) ==
  /\ AtCheck(a, "ocr")
  /\ check[a].doc.id # 0
  /\ \/ number = check[a].doc.number
     \/ document[a].id = check[a].doc.id /\ number = document[a].number
  /\ findings' = OcrOf(a, result)
  /\ check' = [check EXCEPT ![a].number = number,
                            ![a].pc = IF number = "none" THEN "liveness" ELSE "count"]
  /\ lastNumber' = [lastNumber EXCEPT ![a] = number]
  /\ UNCHANGED <<person, profile, account, document, gone, faceIndex, acts, moved,
                 overlapped>>

NothingRead(a) ==
  /\ AtCheck(a, "ocr")
  /\ findings' = IF check[a].doc.id = 0
                 THEN [findings EXCEPT ![a].broken = @ \cup {"document"}]
                 ELSE OcrOf(a, "fail")
  /\ lastNumber' = [lastNumber EXCEPT ![a] = "none"]
  /\ GoTo(a, "liveness")
  /\ UNCHANGED <<person, profile, account, document, gone, faceIndex, acts, moved,
                 overlapped>>

\* The number is looked up first and stored later.
CountNumber(a) ==
  LET duplicates == {b \in Others(a) : account[b].docNumberHash = check[a].number} IN
    /\ AtCheck(a, "count")
    /\ GoTo(a, IF duplicates = {} THEN "store" ELSE "sameNumber")
    /\ overlapped' = {pair \in overlapped : a \notin pair}
    /\ UNCHANGED <<person, profile, account, document, gone, faceIndex, findings, acts,
                   moved, lastNumber>>

FindNumber(a) ==
  /\ AtCheck(a, "sameNumber")
  /\ findings' = IF check[a].doc.id > gone[a]
                 THEN [findings EXCEPT ![a].numbers = @ \cup {check[a].doc.id}]
                 ELSE findings
  /\ GoTo(a, "store")
  /\ UNCHANGED <<person, profile, account, document, gone, faceIndex, acts, moved,
                 lastNumber, overlapped>>

StoreNumber(a) ==
  /\ AtCheck(a, "store")
  /\ account' = [account EXCEPT ![a].docNumberHash = check[a].number]
  /\ overlapped' = overlapped \cup
       {{a, b} : b \in {c \in Accounts \ {a} :
                          check[c].pc = "store" /\ check[c].number = check[a].number}}
  /\ GoTo(a, "liveness")
  /\ UNCHANGED <<person, profile, document, gone, faceIndex, findings, acts, moved,
                 lastNumber>>

\* The selfie shows a face, live or not, which is looked up too.
RecordLiveness(a, live) ==
  /\ AtCheck(a, "liveness")
  /\ findings' = [findings EXCEPT ![a].live = live]
  /\ GoTo(a, "index")
  /\ UNCHANGED <<person, profile, account, document, gone, faceIndex, acts, moved,
                 lastNumber, overlapped>>

\* A selfie without a face, or a fake, is not looked up; a run without a selfie
\* leaves a check of no document that is never replaced.
NoFace(a, selfie) ==
  /\ AtCheck(a, "liveness")
  /\ findings' = IF selfie THEN [findings EXCEPT ![a].live = FALSE]
                           ELSE [findings EXCEPT ![a].broken = @ \cup {"face"}]
  /\ GoTo(a, "decide")
  /\ UNCHANGED <<person, profile, account, document, gone, faceIndex, acts, moved,
                 lastNumber, overlapped>>

\* The face is stored first and looked up later.
IndexFace(a) ==
  /\ AtCheck(a, "index")
  /\ faceIndex' = faceIndex \cup {a}
  /\ GoTo(a, "search")
  /\ UNCHANGED <<person, profile, account, document, gone, findings, acts, moved,
                 lastNumber, overlapped>>

\* Mutant: only approved applicants are compared with.
SearchFaceOfApproved(a) ==
  LET matches   == {b \in faceIndex \ {a} : /\ person[b].face = person[a].face
                                           /\ account[b].approved}
      different == {b \in matches : \/ check[a].fingerprint = "none"
                                    \/ account[b].fingerprint # check[a].fingerprint}
  IN /\ AtCheck(a, "search")
     /\ check' = [check EXCEPT
          ![a].pc = IF matches = {} THEN "decide" ELSE "sameFace",
          ![a].face = IF different = {} THEN "WARNING" ELSE "FAIL"]
     /\ UNCHANGED <<person, profile, account, document, gone, faceIndex, findings, acts,
                    moved, lastNumber, overlapped>>

\* Of the whole index, the tenants' together. The fingerprint of the others is read
\* now, the applicant's own was loaded.
SearchFace(a) ==
  LET matches   == {b \in faceIndex \ {a} : person[b].face = person[a].face}
      different == {b \in matches : \/ check[a].fingerprint = "none"
                                    \/ account[b].fingerprint # check[a].fingerprint}
  IN /\ AtCheck(a, "search")
     /\ check' = [check EXCEPT
          ![a].pc = IF matches = {} THEN "decide" ELSE "sameFace",
          ![a].face = IF different = {} THEN "WARNING" ELSE "FAIL"]
     /\ UNCHANGED <<person, profile, account, document, gone, faceIndex, findings, acts,
                    moved, lastNumber, overlapped>>

FindFace(a) ==
  /\ AtCheck(a, "sameFace")
  /\ findings' = [findings EXCEPT ![a].face = check[a].face]
  /\ GoTo(a, "decide")
  /\ UNCHANGED <<person, profile, account, document, gone, faceIndex, acts, moved,
                 lastNumber, overlapped>>

\* Nothing was found and each required step has a check, and only checks that passed.
Approvable(a) ==
  LET f    == findings[a]
      read == {d \in DocIds : f.ocr[d] # "none"} IN
    /\ ~f.identity /\ f.numbers = {} /\ f.face # "FAIL"
    /\ f.live /\ f.broken = {}
    /\ read # {} /\ \A d \in read : f.ocr[d] = "pass"

\* finalize reads, and commits later what it has read. It may have other reasons not
\* to approve.
Decide(a, approve) ==
  /\ AtCheck(a, "decide")
  /\ approve => Approvable(a)
  /\ check' = [check EXCEPT ![a].pc = "commit", ![a].approve = approve,
                            ![a].fingerprint = account[a].fingerprint]
  /\ UNCHANGED <<person, profile, account, document, gone, faceIndex, findings, acts,
                 moved, lastNumber, overlapped>>

CommitDecision(a) ==
  /\ AtCheck(a, "commit")
  /\ account' = [account EXCEPT ![a].approved = check[a].approve,
                                ![a].fingerprint = check[a].fingerprint]
  /\ check' = [check EXCEPT ![a] = NoCheck]
  /\ UNCHANGED <<person, profile, document, gone, faceIndex, findings, acts, moved,
                 lastNumber, overlapped>>

WaveOf(pc) ==
  CASE pc \in {"identity", "sameIdentity"}           -> "data"
    [] pc \in {"ocr", "count", "sameNumber", "store"} -> "document"
    [] pc \in {"liveness", "index", "search", "sameFace"} -> "face"
    [] OTHER                                         -> "none"

\* Mutant: the results of a wave are not looked at.
StepThrowsUnseen(a) ==
  LET wave == WaveOf(check[a].pc) IN
    /\ wave # "none"
    /\ GoTo(a, CASE wave = "data"     -> "ocr"
                 [] wave = "document" -> "liveness"
                 [] OTHER             -> "decide")
    /\ Act
    /\ UNCHANGED <<person, profile, account, document, gone, faceIndex, findings, moved,
                   lastNumber, overlapped>>

\* A step that throws leaves an incomplete check of no document, and the run goes on.
StepThrowsAt(a) ==
  LET wave == WaveOf(check[a].pc) IN
    /\ wave # "none"
    /\ findings' = [findings EXCEPT ![a].broken = @ \cup {wave}]
    /\ GoTo(a, CASE wave = "data"     -> "ocr"
                 [] wave = "document" -> "liveness"
                 [] OTHER             -> "decide")
    /\ Act
    /\ UNCHANGED <<person, profile, account, document, gone, faceIndex, moved,
                   lastNumber, overlapped>>

\* The worker dies, or finalize throws: the job runs again, or has failed for good.
CheckStops(a, again) ==
  /\ check[a].pc \notin {"idle", "waiting"}
  /\ check' = [check EXCEPT ![a] = [NoCheck EXCEPT !.pc = IF again THEN "waiting" ELSE "idle"]]
  /\ Act
  /\ UNCHANGED <<person, profile, account, document, gone, faceIndex, findings, moved,
                 lastNumber, overlapped>>

----------------------------------------------------------------------------
CheckStep(a) ==
  \/ Load(a) \/ CompareIdentity(a) \/ FindIdentity(a)
  \/ \E number \in Numbers \cup {"none"}, result \in {"pass", "fail"} :
       ReadNumber(a, number, result)
  \/ NothingRead(a) \/ CountNumber(a) \/ FindNumber(a) \/ StoreNumber(a)
  \/ \E live \in BOOLEAN : RecordLiveness(a, live)
  \/ \E selfie \in BOOLEAN : NoFace(a, selfie)
  \/ IndexFace(a) \/ SearchFace(a) \/ FindFace(a)
  \/ \E approve \in BOOLEAN : Decide(a, approve)
  \/ CommitDecision(a) \/ StepThrowsAt(a)
  \/ \E again \in BOOLEAN : CheckStops(a, again)

AccountRequest(a) ==
  \/ \E number \in Numbers \cup {"none"}, reuse \in BOOLEAN : Upload(a, number, reuse)
  \/ \E identity \in Identities : Patch(a, identity)
  \/ \E selfie \in BOOLEAN : request_resubmission(a, selfie)
  \/ Submit(a) \/ ResetAccount(a) \/ Suspend(a)

DupNext == \E a \in Accounts : CheckStep(a) \/ AccountRequest(a)

DupSpec == DupInit /\ [][DupNext]_dupVars
----------------------------------------------------------------------------
(* What holds of two applicants whom runs have approved.                     *)

BothApproved(a, b) == a # b /\ account[a].approved /\ account[b].approved

\* One face does not carry two names: however the two runs interleave, fail and run
\* again, of whichever tenants, one of them has seen the other, unless a name was
\* changed behind a run.
SameFaceSameName ==
  \A a, b \in Accounts :
    BothApproved(a, b) /\ person[a].face = person[b].face =>
      \/ account[a].fingerprint = account[b].fingerprint
      \/ moved[a] \/ moved[b]

\* Within a tenant neither an identity nor a document is approved twice, unless a name
\* was changed behind a run, or both runs had looked the number up before either
\* stored it.
RepeatIsNoticed ==
  \A a, b \in Accounts :
    BothApproved(a, b) /\ person[a].tenant = person[b].tenant =>
      /\ account[a].fingerprint = account[b].fingerprint =>
           account[a].fingerprint = "none" \/ moved[a] \/ moved[b]
      /\ lastNumber[a] = lastNumber[b] =>
           lastNumber[a] = "none" \/ {a, b} \in overlapped

----------------------------------------------------------------------------
(* What the repository says and the code does not do.                        *)

\* schema.prisma:246: the fingerprint is that of the name, date of birth and country.
FingerprintDescribes == \A a \in Accounts : account[a].fingerprint = profile[a]

\* pipeline.ts:1237: what the applicant has corrected does not keep rejecting them.
CorrectedIdentityClears ==
  [][ \A a \in Accounts :
        AtCheck(a, "identity") /\ check'[a].pc = "ocr" /\
        "data" \notin findings'[a].broken => ~findings'[a].identity ]_dupVars
=============================================================================
