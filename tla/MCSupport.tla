------------------------------ MODULE MCSupport -----------------------------
(* Instances of Support for TLC.                                             *)
EXTENDS Support

Text(matched, chosen) ==
  [matched |-> matched, chosen |-> chosen, sentiment |-> 0, asksHuman |-> FALSE,
   regulator |-> FALSE]

\* Where is my verification; somebody who disputes a match, upset, and names a
\* regulator.
MCTexts ==
  {Text({"VERIFICATION_STATUS"}, "OTHER"),
   [Text({"SCREENING_DISPUTE", "COMPLAINT"}, "TECHNICAL_ISSUE")
      EXCEPT !.regulator = TRUE, !.asksHuman = TRUE, !.sentiment = -7]}

MCApplicants ==
  {[known |-> FALSE, reviewStatus |-> "none", finalReview |-> FALSE],
   [known |-> TRUE, reviewStatus |-> "REJECTED_FINAL", finalReview |-> TRUE]}
=============================================================================
