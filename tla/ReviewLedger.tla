---------------------------- MODULE ReviewLedger ----------------------------
(***************************************************************************)
(* What the Local Connector promises about invoice jobs, without saying    *)
(* how: no queue, no worker, no restart, no concurrent requests.           *)
(*                                                                         *)
(* A job collects its pages, becomes ready, is worked on (possibly several *)
(* times, each failed attempt leaving it retryable), is published for      *)
(* review exactly once, is edited one revision after another, and is       *)
(* confirmed once, at its latest revision, with one audit event.           *)
(*                                                                         *)
(* InvoiceWorkflow implements this module (InvoiceWorkflow!Ledger).        *)
(***************************************************************************)
EXTENDS Naturals

CONSTANT Jobs

VARIABLES
  phase,       \* where each job stands
  length,      \* how many revisions each job has
  confirmed,   \* the revision number confirmed, 0 before
  audited      \* how many confirmations were audited

ledgerVars == <<phase, length, confirmed, audited>>

Phase == {"absent", "collecting", "ready", "working", "failed", "review", "confirmed"}

LedgerInit ==
  /\ phase = [j \in Jobs |-> "absent"]
  /\ length = [j \in Jobs |-> 0]
  /\ confirmed = [j \in Jobs |-> 0]
  /\ audited = [j \in Jobs |-> 0]

Move(j, from, to) ==
  /\ phase[j] \in from
  /\ phase' = [phase EXCEPT ![j] = to]

Open(j)   == Move(j, {"absent"}, "collecting")        /\ UNCHANGED <<length, confirmed, audited>>
Complete(j) == Move(j, {"collecting"}, "ready")       /\ UNCHANGED <<length, confirmed, audited>>
Attempt(j)  == Move(j, {"ready", "failed"}, "working") /\ UNCHANGED <<length, confirmed, audited>>
Fail(j)     == Move(j, {"working"}, "failed")         /\ UNCHANGED <<length, confirmed, audited>>

\* The first revision appears together with the move to review.
Publish(j) ==
  /\ Move(j, {"working"}, "review")
  /\ length[j] = 0
  /\ length' = [length EXCEPT ![j] = 1]
  /\ UNCHANGED <<confirmed, audited>>

\* An edit adds the next revision and keeps the job in review.
Edit(j) ==
  /\ phase[j] = "review"
  /\ length' = [length EXCEPT ![j] = @ + 1]
  /\ UNCHANGED <<phase, confirmed, audited>>

\* Confirmation closes the job at its latest revision, with one audit event.
Confirm(j) ==
  /\ Move(j, {"review"}, "confirmed")
  /\ confirmed' = [confirmed EXCEPT ![j] = length[j]]
  /\ audited' = [audited EXCEPT ![j] = @ + 1]
  /\ UNCHANGED length

LedgerNext ==
  \E j \in Jobs :
    Open(j) \/ Complete(j) \/ Attempt(j) \/ Fail(j) \/ Publish(j) \/ Edit(j) \/ Confirm(j)

LedgerSpec == LedgerInit /\ [][LedgerNext]_ledgerVars

=============================================================================
