----------------------------- MODULE MCOcrQuota -----------------------------
(* Constants and symmetry for model-checking OcrQuota.                     *)
EXTENDS OcrQuota, TLC

CONSTANTS j1, j2, q1, q2

TwoJobs == {j1, j2}
TwoRequests == {q1, q2}
SmallPageCounts == {1, 2}

\* Jobs are interchangeable, and so are requests.
QuotaSymmetry == Permutations(TwoJobs) \cup Permutations(TwoRequests)

=============================================================================
