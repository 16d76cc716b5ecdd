--------------------------- MODULE MCVerification ---------------------------
(* Instances of Verification for TLC, and what levels.test.ts expects of the *)
(* built-in levels.                                                          *)
EXTENDS Verification

Templates == {standard_kyc_aml, enhanced_due_diligence, non_doc_verification}

\* Whatever the applicant is asked for, a document or an answer can satisfy.
ASSUME StepsCanBeSatisfied ==
  \A l \in LEVEL_TEMPLATES : \A s \in l.steps :
    s.type \in APPLICANT_FACING_STEPS =>
      documentTypesForStep(s) # {} \/ s.type \in NON_DOCUMENT_STEPS

\* Every step of a level runs in one wave, and the waves in the steps' order.
ASSUME EveryStepIsPlanned ==
  \A l \in LEVEL_TEMPLATES :
    LET waves == planSteps(l) IN
      /\ UNION Range(waves) = l.steps
      /\ \A i, j \in DOMAIN waves : i < j =>
           \A s \in waves[i], t \in waves[j] : s.order < t.order
=============================================================================
