---------------------------- MODULE RejectLabels ----------------------------
(* The labels a check or a rule puts on an applicant (reject-labels.ts), each *)
(* with whether the applicant may try again and with what it weighs. The texts *)
(* shown to applicants are left out.                                          *)
EXTENDS Naturals, FiniteSets, FiniteSetsExt

QualityLabels ==
  {<<"BLURRY_IMAGE", TRUE, 0>>, <<"GLARE_OR_REFLECTION", TRUE, 0>>,
   <<"DOCUMENT_CROPPED", TRUE, 0>>, <<"LOW_RESOLUTION", TRUE, 0>>,
   <<"BLACK_AND_WHITE", TRUE, 5>>,
   <<"SCREENSHOT_OR_SCREEN_PHOTO", TRUE, 25>>,
   <<"MISSING_BACK_SIDE", TRUE, 0>>, <<"WRONG_DOCUMENT_TYPE", TRUE, 0>>,
   <<"DOCUMENT_UNREADABLE", TRUE, 0>>, <<"MRZ_INCOMPLETE", TRUE, 5>>,
   <<"REQUIRED_STEP_NOT_PERFORMED", TRUE, 0>>,
   <<"NOT_MACHINE_READABLE", FALSE, 0>>, <<"OBSCURED_DATA", TRUE, 10>>}

ValidityLabels ==
  {<<"DOCUMENT_EXPIRED", TRUE, 0>>, <<"DOCUMENT_EXPIRING_SOON", TRUE, 0>>,
   <<"DOCUMENT_NOT_SUPPORTED", TRUE, 0>>, <<"UNDERAGE", FALSE, 0>>,
   <<"CHIP_AUTHENTICATION_FAILED", FALSE, 60>>,
   <<"MRZ_CHECKSUM_FAILED", TRUE, 40>>}

BiometricLabels ==
  {<<"SELFIE_MISMATCH", TRUE, 45>>, <<"LIVENESS_FAILED", TRUE, 20>>,
   <<"SPOOF_ATTEMPT", FALSE, 90>>, <<"NO_FACE_DETECTED", TRUE, 0>>,
   <<"MULTIPLE_FACES", TRUE, 15>>, <<"FACE_OBSCURED", TRUE, 10>>}

MismatchLabels ==
  {<<"DATA_MISMATCH", TRUE, 25>>, <<"NAME_MISMATCH", TRUE, 25>>,
   <<"DOB_MISMATCH", TRUE, 35>>, <<"ADDRESS_MISMATCH", TRUE, 15>>,
   <<"PROOF_OF_ADDRESS_TOO_OLD", TRUE, 0>>}

FraudLabels ==
  {<<"FORGED_DOCUMENT", FALSE, 100>>,
   <<"DIGITAL_MANIPULATION", FALSE, 100>>,
   <<"TEMPLATE_MISMATCH", FALSE, 80>>, <<"DUPLICATE_ACCOUNT", FALSE, 70>>,
   <<"DUPLICATE_FACE", FALSE, 85>>,
   <<"STOLEN_IDENTITY_SUSPECTED", FALSE, 95>>,
   <<"DEVICE_FRAUD_SIGNALS", FALSE, 60>>,
   <<"THIRD_PARTY_ASSISTANCE", FALSE, 70>>, <<"BLOCKLISTED", FALSE, 100>>}

ComplianceLabels ==
  {<<"SANCTIONS_MATCH", FALSE, 100>>,
   <<"PEP_UNACCEPTABLE_RISK", FALSE, 80>>,
   <<"ADVERSE_MEDIA_CONFIRMED", FALSE, 75>>,
   <<"PROHIBITED_COUNTRY", FALSE, 100>>,
   <<"PROHIBITED_OCCUPATION", FALSE, 50>>,
   <<"SOURCE_OF_FUNDS_UNCLEAR", TRUE, 50>>,
   <<"REGULATORY_REQUIREMENT", FALSE, 40>>}

ProcessLabels ==
  {<<"APPLICANT_ABANDONED", TRUE, 0>>, <<"CONSENT_WITHDRAWN", TRUE, 0>>,
   <<"ADDITIONAL_DOCUMENTS_REQUIRED", TRUE, 0>>,
   <<"MANUAL_REVIEW_TIMEOUT", TRUE, 0>>,
   <<"PROVIDER_UNAVAILABLE", TRUE, 0>>}

CompanyLabels ==
  {<<"COMPANY_NOT_FOUND", TRUE, 20>>, <<"COMPANY_DISSOLVED", FALSE, 60>>,
   <<"UBO_UNRESOLVED", TRUE, 55>>,
   <<"UBO_REFUSED_VERIFICATION", TRUE, 45>>,
   <<"NOMINEE_STRUCTURE", TRUE, 50>>,
   <<"SHELL_COMPANY_INDICATORS", FALSE, 70>>}

REJECT_LABELS ==
  UNION {QualityLabels, ValidityLabels, BiometricLabels, MismatchLabels,
         FraudLabels, ComplianceLabels, ProcessLabels, CompanyLabels}

\* One label without a way back makes the rejection final.
isFinalRejection(labels) ==
  \E l \in REJECT_LABELS : l[1] \in labels /\ ~l[2]

\* The heaviest label, not the sum: three labels on one photograph are one problem.
riskWeightFor(labels) ==
  Max({0} \cup {l[3] : l \in {x \in REJECT_LABELS : x[1] \in labels}})
=============================================================================
