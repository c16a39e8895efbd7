------------------------- MODULE MCInvoiceWorkflow -------------------------
(* Constants and symmetry for model-checking InvoiceWorkflow.              *)
EXTENDS InvoiceWorkflow, TLC

CONSTANTS r1, r2, s1

OneSubmitter == {s1}
TwoReviewers == {r1, r2}
Nobody == {}

\* Review requests are interchangeable; used only without liveness properties.
ReviewerSymmetry == Permutations(TwoReviewers)

=============================================================================
