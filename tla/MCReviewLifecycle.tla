------------------------- MODULE MCReviewLifecycle -------------------------
(* Instances of ReviewLifecycle for TLC: the mixes of requests of a run.   *)
EXTENDS ReviewLifecycle, TLC

NoRequests == [k \in Kinds |-> 0]

\* Two reviewers and the case endpoints against runs that fail and retry.
ReviewersAndRuns ==
  ("submit" :> 1) @@ ("decision" :> 2) @@ ("sar" :> 1)
    @@ ("crash" :> 1) @@ NoRequests

\* Everyone who sends an applicant back: the administrator and the agent.
ResetsAndResubmissions ==
  ("submit" :> 2) @@ ("reset" :> 1) @@ ("agent" :> 1) @@ ("retention" :> 1)
    @@ NoRequests

\* Monitoring and periodic reviews of an applicant a run has approved.
AfterApproval ==
  ("submit" :> 1) @@ ("decision" :> 1) @@ ("screening" :> 1) @@ ("sweep" :> 1)
    @@ ("assign" :> 1) @@ NoRequests

\* A submission and a resubmission, whose runs fail and stall.
FailingRuns == ("submit" :> 2) @@ NoRequests

\* The mixes of the runs.
Races    == {ReviewersAndRuns}
SentBack == {ResetsAndResubmissions, AfterApproval}
Failing  == {FailingRuns}
OneDecision == {("submit" :> 1) @@ ("decision" :> 1) @@ NoRequests}
============================================================================
