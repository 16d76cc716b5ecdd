------------------------------- MODULE Levels -------------------------------
(* Verification levels: their steps, what satisfies them, the order they run *)
(* in, and the built-in templates (levels.ts).                               *)
EXTENDS Integers, Sequences, FiniteSets, FiniteSetsExt, SequencesExt

\* Steps the applicant has to do something for.
APPLICANT_FACING_STEPS ==
  {"APPLICANT_DATA", "IDENTITY_DOCUMENT", "SELFIE", "LIVENESS", "NFC_READ",
   "PROOF_OF_ADDRESS", "QUESTIONNAIRE", "PHONE_VERIFICATION",
   "EMAIL_VERIFICATION", "VIDEO_INTERVIEW", "COMPANY_DATA",
   "COMPANY_DOCUMENTS", "WALLET_OWNERSHIP", "SOURCE_OF_FUNDS",
   "E_SIGNATURE", "AGE_ESTIMATION"}

\* Steps satisfied by information; no upload ticks them off.
NON_DOCUMENT_STEPS ==
  {"APPLICANT_DATA", "QUESTIONNAIRE", "PHONE_VERIFICATION",
   "EMAIL_VERIFICATION", "VIDEO_INTERVIEW", "E_SIGNATURE", "COMPANY_DATA",
   "WALLET_OWNERSHIP"}

DEFAULT_DOCUMENT_TYPES(type) ==
  CASE type = "IDENTITY_DOCUMENT" ->
         {"PASSPORT", "ID_CARD", "DRIVERS_LICENSE", "RESIDENCE_PERMIT", "VISA"}
    [] type = "NFC_READ" -> {"PASSPORT", "ID_CARD", "RESIDENCE_PERMIT"}
    [] type \in {"SELFIE", "LIVENESS", "AGE_ESTIMATION"} ->
         {"SELFIE", "VIDEO_SELFIE"}
    [] type = "PROOF_OF_ADDRESS" ->
         {"UTILITY_BILL", "BANK_STATEMENT", "TAX_DOCUMENT",
          "PROOF_OF_ADDRESS", "PAYSLIP"}
    [] type = "SOURCE_OF_FUNDS" ->
         {"SOURCE_OF_FUNDS", "BANK_STATEMENT", "PAYSLIP", "TAX_DOCUMENT"}
    [] type = "COMPANY_DOCUMENTS" ->
         {"COMPANY_REGISTRATION", "ARTICLES_OF_ASSOCIATION",
          "SHAREHOLDER_REGISTRY", "UBO_DECLARATION", "POWER_OF_ATTORNEY"}
    [] OTHER -> {}

\* A step of a template. `documents` narrows what satisfies it, {} if it does not.
Step(id, type, order, required, documents) ==
  [id |-> id, type |-> type, order |-> order, required |-> required,
   acceptedDocumentTypes |-> documents]

Req(id, type, order)           == Step(id, type, order, TRUE, {})
Opt(id, type, order)           == Step(id, type, order, FALSE, {})
Docs(id, type, order, accepted) == Step(id, type, order, TRUE, accepted)

documentTypesForStep(s) ==
  IF s.acceptedDocumentTypes # {} THEN s.acceptedDocumentTypes
  ELSE DEFAULT_DOCUMENT_TYPES(s.type)

DEFAULT_REQUIRED_APPLICANT_FIELDS == {"firstName", "lastName", "dob", "country"}

\* Which of the fields a step asks for are missing or blank.
missingApplicantFields(required, supplied) == required \ supplied

Level(steps, autoApprove, manualReviewScore, autoRejectScore, blocked) ==
  [steps |-> steps, autoApprove |-> autoApprove, autoReject |-> FALSE,
   manualReviewScore |-> manualReviewScore, autoRejectScore |-> autoRejectScore,
   allowedCountries |-> {}, blockedCountries |-> blocked,
   minValidityDays |-> 0, minAge |-> 18, maxDocumentAgeDays |-> 90,
   faceMatchThreshold |-> 80, livenessThreshold |-> 85]

\* The thresholds of a template's steps that differ from these.
Within(level, minValidityDays, faceMatchThreshold, livenessThreshold) ==
  [level EXCEPT !.minValidityDays = minValidityDays,
                !.faceMatchThreshold = faceMatchThreshold,
                !.livenessThreshold = livenessThreshold]

AnyId == {"PASSPORT", "ID_CARD", "DRIVERS_LICENSE"}

basic_kyc ==
  Level({Req("data", "APPLICANT_DATA", 0),
         Docs("id-doc", "IDENTITY_DOCUMENT", 1, AnyId),
         Req("selfie", "SELFIE", 2), Req("liveness", "LIVENESS", 2),
         Opt("device", "DEVICE_INTELLIGENCE", 3)}, TRUE, 40, 85, {})

standard_kyc_aml ==
  Within(Level({Req("data", "APPLICANT_DATA", 0),
         Docs("id-doc", "IDENTITY_DOCUMENT", 1, AnyId),
         Req("selfie", "SELFIE", 2), Req("liveness", "LIVENESS", 2),
         Opt("chip", "NFC_READ", 2),
         Docs("poa", "PROOF_OF_ADDRESS", 3,
              {"UTILITY_BILL", "BANK_STATEMENT", "TAX_DOCUMENT"}),
         Req("screening", "AML_SCREENING", 4),
         Req("device", "DEVICE_INTELLIGENCE", 4)}, TRUE, 35, 80, {}), 30, 82, 85)

enhanced_due_diligence ==
  Within(Level({Req("data", "APPLICANT_DATA", 0),
         Docs("id-doc", "IDENTITY_DOCUMENT", 1, {"PASSPORT", "ID_CARD"}),
         Opt("nfc", "NFC_READ", 1),
         Req("selfie", "SELFIE", 2), Req("liveness", "LIVENESS", 2),
         Docs("poa", "PROOF_OF_ADDRESS", 3, {"UTILITY_BILL", "BANK_STATEMENT"}),
         Docs("sof", "SOURCE_OF_FUNDS", 3,
              {"SOURCE_OF_FUNDS", "PAYSLIP", "TAX_DOCUMENT", "BANK_STATEMENT"}),
         Req("wealth-questionnaire", "QUESTIONNAIRE", 3),
         Req("screening", "AML_SCREENING", 4),
         Req("interview", "VIDEO_INTERVIEW", 5)}, FALSE, 0, 95, {}), 90, 86, 90)

crypto_onboarding ==
  Within(Level({Req("data", "APPLICANT_DATA", 0),
         Docs("id-doc", "IDENTITY_DOCUMENT", 1, AnyId),
         Req("selfie", "SELFIE", 2), Req("liveness", "LIVENESS", 2),
         Req("screening", "AML_SCREENING", 3),
         Req("wallet", "WALLET_OWNERSHIP", 3),
         Req("sof-questionnaire", "QUESTIONNAIRE", 4),
         Req("device", "DEVICE_INTELLIGENCE", 4)},
        TRUE, 30, 75, {"PRK", "IRN", "SYR", "CUB", "USA"}), 30, 84, 88)

age_verification ==
  Level({Req("age-estimate", "AGE_ESTIMATION", 0),
         Step("id-doc", "IDENTITY_DOCUMENT", 1, FALSE, AnyId)}, TRUE, 50, 90, {})

kyb_standard ==
  Level({Req("company-data", "COMPANY_DATA", 0),
         Docs("company-docs", "COMPANY_DOCUMENTS", 1,
              {"COMPANY_REGISTRATION", "ARTICLES_OF_ASSOCIATION",
               "SHAREHOLDER_REGISTRY"}),
         Req("representative", "REPRESENTATIVE_KYC", 1),
         Req("ubo-discovery", "UBO_DISCOVERY", 2),
         Req("ubo-kyc", "UBO_VERIFICATION", 3),
         Req("screening", "AML_SCREENING", 4)}, FALSE, 25, 80, {})

non_doc_verification ==
  Level({Req("data", "APPLICANT_DATA", 0),
         Req("phone", "PHONE_VERIFICATION", 1),
         Req("email", "EMAIL_VERIFICATION", 1),
         Opt("tin", "TIN_VALIDATION", 2),
         Req("screening", "AML_SCREENING", 2),
         Req("device", "DEVICE_INTELLIGENCE", 2)}, TRUE, 30, 70, {})

LEVEL_TEMPLATES ==
  {basic_kyc, standard_kyc_aml, enhanced_due_diligence, crypto_onboarding,
   age_verification, kyb_standard, non_doc_verification}

\* The waves of a level, first to last: the steps of a wave run concurrently.
planSteps(level) ==
  LET orders == {s.order : s \in level.steps} IN
    [i \in 1..Cardinality(orders) |->
       {s \in level.steps : Cardinality({o \in orders : o < s.order}) = i - 1}]

\* What the applicant still has to do.
outstandingSteps(steps, completed) ==
  {s \in steps : /\ s.required
                 /\ s.id \notin completed
                 /\ s.type \in APPLICANT_FACING_STEPS}
=============================================================================
