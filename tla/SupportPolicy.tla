--------------------------- MODULE SupportPolicy ----------------------------
(* What the support agent may do and when it must hand over                  *)
(* (core/src/support.ts). Confidences are percentages, sentiments tenths.    *)
EXTENDS Integers, Sequences, FiniteSets, FiniteSetsExt

SUPPORT_INTENTS ==
  {"UNKNOWN", "VERIFICATION_STATUS", "DOCUMENT_REJECTED", "UPLOAD_HELP",
   "LIVENESS_FAILURE", "APPEAL_DECISION", "DATA_CORRECTION", "DATA_DELETION",
   "SCREENING_DISPUTE", "ACCOUNT_ACCESS", "TIMELINE_QUESTION", "TECHNICAL_ISSUE",
   "COMPLAINT", "FRAUD_REPORT", "OTHER"}

OwnedByHuman == {"APPEAL_DECISION", "DATA_CORRECTION", "DATA_DELETION",
                 "SCREENING_DISPUTE", "COMPLAINT", "FRAUD_REPORT"}

\* The tools of each intent, next to get_applicant_status, which all of them have.
Answering == {"search_knowledge_base", "send_applicant_message"}
HandingOn == {"create_case", "escalate_to_human"}

Tools(intent) ==
  CASE intent = "UNKNOWN" -> {"search_knowledge_base", "classify_intent"}
    [] intent = "VERIFICATION_STATUS" -> Answering \cup
         {"get_outstanding_requirements", "get_check_results",
          "estimate_completion_time"}
    [] intent = "DOCUMENT_REJECTED" -> Answering \cup
         {"get_rejection_reasons", "get_check_results", "request_resubmission",
          "generate_upload_link"}
    [] intent = "UPLOAD_HELP" -> Answering \cup
         {"get_outstanding_requirements", "generate_upload_link"}
    [] intent = "LIVENESS_FAILURE" -> Answering \cup
         {"get_check_results", "request_resubmission", "generate_upload_link"}
    [] intent = "APPEAL_DECISION" -> HandingOn \cup
         {"get_rejection_reasons", "get_check_results", "send_applicant_message"}
    [] intent \in {"DATA_CORRECTION", "COMPLAINT"} ->
         HandingOn \cup {"send_applicant_message"}
    [] intent \in {"DATA_DELETION", "SCREENING_DISPUTE", "FRAUD_REPORT"} -> HandingOn
    [] intent = "ACCOUNT_ACCESS" -> Answering \cup {"generate_upload_link"}
    [] intent = "TIMELINE_QUESTION" -> Answering \cup {"estimate_completion_time"}
    [] intent = "TECHNICAL_ISSUE" -> Answering \cup {"generate_upload_link", "create_case"}
    [] intent = "OTHER" -> {"search_knowledge_base", "escalate_to_human"}

\* What confidence an answer of the agent takes.
Confidence(intent) ==
  CASE intent = "UNKNOWN" -> 50
    [] intent = "TIMELINE_QUESTION" -> 55
    [] intent \in {"VERIFICATION_STATUS", "UPLOAD_HELP", "ACCOUNT_ACCESS",
                   "TECHNICAL_ISSUE"} -> 60
    [] intent \in {"DOCUMENT_REJECTED", "LIVENESS_FAILURE"} -> 65
    [] intent = "OTHER" -> 70
    [] intent \in {"APPEAL_DECISION", "DATA_CORRECTION", "COMPLAINT"} -> 90
    [] intent \in {"DATA_DELETION", "SCREENING_DISPUTE", "FRAUD_REPORT"} -> 95

INTENT_POLICY == [intent \in SUPPORT_INTENTS |->
  [requiresHuman |-> intent \in OwnedByHuman,
   minConfidence |-> Confidence(intent),
   allowedTools  |-> {"get_applicant_status"} \cup Tools(intent)]]

FORBIDDEN_TOOLS == {"approve_applicant", "reject_applicant", "resolve_aml_hit",
                    "override_risk_score", "delete_applicant", "update_applicant_pii",
                    "file_sar"}

isToolAllowed(intent, tool) ==
  tool \notin FORBIDDEN_TOOLS /\ tool \in INTENT_POLICY[intent].allowedTools

\* The patterns of the keyword classifier, in their order, with their weights.
INTENT_PATTERNS ==
  <<<<"FRAUD_REPORT", 100>>, <<"SCREENING_DISPUTE", 100>>, <<"DATA_DELETION", 100>>,
    <<"DATA_CORRECTION", 90>>, <<"COMPLAINT", 90>>, <<"APPEAL_DECISION", 90>>,
    <<"LIVENESS_FAILURE", 85>>, <<"DOCUMENT_REJECTED", 85>>, <<"UPLOAD_HELP", 80>>,
    <<"ACCOUNT_ACCESS", 80>>, <<"TIMELINE_QUESTION", 75>>, <<"TECHNICAL_ISSUE", 70>>,
    <<"VERIFICATION_STATUS", 70>>>>

\* What a text comes to, given the intents whose pattern it matches: the first of
\* the heaviest, and less confidence the closer the next one is.
classifyIntentHeuristic(matched) ==
  LET hits     == {i \in DOMAIN INTENT_PATTERNS : INTENT_PATTERNS[i][1] \in matched}
      Weight(i) == INTENT_PATTERNS[i][2]
      top      == Min(hits)      \* the table is sorted by weight
      runnerUp == IF Cardinality(hits) = 1 THEN 0 ELSE Weight(Min(hits \ {top}))
      margin   == Min({30, Weight(top) - runnerUp})
  IN IF hits = {} THEN [intent |-> "UNKNOWN", confidence |-> 20]
     ELSE [intent |-> INTENT_PATTERNS[top][1],
           confidence |-> Min({95, (Weight(top) * (70 + margin) + 50) \div 100})]

\* Why a human owns the intents that are theirs.
HumanReason(intent) ==
  CASE intent = "FRAUD_REPORT"      -> "SUSPECTED_FRAUD"
    [] intent = "COMPLAINT"         -> "COMPLAINT"
    [] intent = "SCREENING_DISPUTE" -> "REGULATORY_DECISION"
    [] intent \in {"DATA_DELETION", "DATA_CORRECTION"} -> "DATA_SUBJECT_RIGHTS"
    [] intent = "APPEAL_DECISION"   -> "POLICY_REQUIRES_HUMAN"

\* Why the conversation must go to a person, or "none": the first that applies.
shouldEscalate(a) ==
  LET policy  == INTENT_POLICY[a.intent]
      reasons == <<<<a.askedForHuman, "APPLICANT_REQUESTED">>,
                   <<a.mentionsRegulator, "COMPLAINT">>,
                   <<a.toolFailures >= 2, "TOOL_FAILURE">>,
                   <<a.priorTickets >= 2, "REPEAT_CONTACT">>,
                   <<a.confidence < policy.minConfidence, "LOW_CONFIDENCE">>,
                   <<a.sentiment <= -6, "SENTIMENT_NEGATIVE">>,
                   <<a.turnCount >= a.maxTurns, "MAX_TURNS_REACHED">>>>
      apply   == {i \in DOMAIN reasons : reasons[i][1]}
  IN CASE policy.requiresHuman              -> HumanReason(a.intent)
       [] ~policy.requiresHuman /\ apply = {}  -> "none"
       [] ~policy.requiresHuman /\ apply # {}  -> reasons[Min(apply)][2]
=============================================================================
