----------------------------- MODULE JobStates -----------------------------
(***************************************************************************)
(* The vocabulary of the Local Connector's invoice job: its states, the    *)
(* table of allowed transitions and the groups of states that the workflow *)
(* service, the restart recovery and the API test for.                     *)
(*                                                                         *)
(* Source: local-connector/src/Connector.Domain/PhaseOneModels.cs and the  *)
(* switch expressions of InvoiceWorkflowService.cs and                     *)
(* ConnectorBackgroundServices.cs.                                         *)
(***************************************************************************)

\* enum InvoiceJobState.
InvoiceJobState ==
  {"Captured", "LocallyValidated", "OcrReserved", "OcrProcessing",
   "OcrValidated", "Matching", "AwaitingUserReview", "Confirmed",
   "Rejected", "OcrFailed", "MatchingFailed"}

\* InvoiceJobTransitions.Allowed: the states a state may move to.
Allowed ==
  [s \in InvoiceJobState |->
     CASE s = "Captured"           -> {"LocallyValidated", "Rejected"}
       [] s = "LocallyValidated"   -> {"OcrReserved", "Rejected"}
       [] s = "OcrReserved"        -> {"OcrProcessing", "OcrFailed"}
       [] s = "OcrProcessing"      -> {"OcrValidated", "OcrFailed"}
       [] s = "OcrValidated"       -> {"Matching", "MatchingFailed"}
       [] s = "Matching"           -> {"AwaitingUserReview", "MatchingFailed"}
       [] s = "AwaitingUserReview" -> {"Confirmed", "Rejected"}
       [] s = "OcrFailed"          -> {"OcrReserved", "Rejected"}
       [] s = "MatchingFailed"     -> {"OcrReserved", "Matching", "Rejected"}
       [] OTHER                    -> {}]

\* The states an invoice may be submitted from and processed from.
Submittable == {"LocallyValidated", "OcrFailed", "MatchingFailed"}

\* The states a job is in only while ProcessAsync works on it, up to publication.
InFlight == {"OcrReserved", "OcrProcessing", "OcrValidated", "Matching"}

\* Seeded fault: recovery forgets the jobs interrupted while reserving.
RecoverableWithoutReserved ==
  {"LocallyValidated", "OcrProcessing", "OcrValidated", "Matching"}

\* What restart recovery looks for.
RecoverableStates == InFlight \cup {"LocallyValidated"}

\* Seeded fault: the switch misses Matching.
FailedStateWithoutMatching(s) ==
  CASE s \in {"OcrReserved", "OcrProcessing"} -> "OcrFailed"
    [] s = "OcrValidated"                     -> "MatchingFailed"
    [] OTHER                                  -> s

\* The failed state an in-flight state falls back to; any other state is kept.
\* Both MarkFailedAsync and restart recovery use this switch.
FailedState(s) ==
  CASE s \in {"OcrReserved", "OcrProcessing"} -> "OcrFailed"
    [] s \in {"OcrValidated", "Matching"}     -> "MatchingFailed"
    [] OTHER                                  -> s

=============================================================================
