------------------------------ MODULE OcrQuota ------------------------------
(***************************************************************************)
(* The SaaS platform's OCR page quota: OcrOrchestrator.ProcessAsync over   *)
(* StartOcrJobAsync, CompleteOcrJobAsync and FailOcrJobAsync of the        *)
(* PostgreSQL store.                                                       *)
(*                                                                         *)
(* Several requests for the same or different jobs of one tenant run at    *)
(* once. Each reserves pages in one transaction, calls the OCR provider    *)
(* outside any transaction, and settles or releases the pages in another.  *)
(* A request may die between the two; the lease on its attempt then lets   *)
(* another request supersede it, while its own answer may still arrive.    *)
(*                                                                         *)
(* Each transaction locks the job with its reservation (an advisory lock   *)
(* and FOR UPDATE) and the subscription period (FOR UPDATE or the UPDATE   *)
(* itself) before it uses what it read, so it is one atomic step here; a   *)
(* transaction that throws is rolled back and changes nothing.             *)
(*                                                                         *)
(* Sources: saas-platform/src/Saas.Application/OcrOrchestrator.cs,         *)
(* Saas.Infrastructure/PostgresSaasStore.cs, db/001-phase-1.sql.           *)
(***************************************************************************)
EXTENDS Naturals, Functions

CONSTANTS
  Jobs,        \* OCR jobs of the tenant
  Requests,    \* requests the platform handles at the same time
  NumPeriods,  \* bound of the model: subscription periods, one after the other
  PageCounts,  \* page counts a request may declare
  PageLimit,   \* page_limit of every period
  MaxAttempts  \* bound of the model: attempts (fresh attempt identifiers)

ASSUME NumPeriodsAssumption == NumPeriods \in Nat \ {0}
ASSUME PageCountsAssumption == PageCounts \subseteq 1..100
ASSUME PageLimitAssumption == PageLimit \in Nat
ASSUME MaxAttemptsAssumption == MaxAttempts \in Nat

Periods == 1..NumPeriods

VARIABLES
  job,          \* ocr_jobs.state, "ABSENT" before the row exists
  attempt,      \* ocr_jobs.attempt_id
  leased,       \* whether updated_at is within the processing lease
  pages,        \* page_count of the job and of its reservation
  result,       \* the attempt whose result_json is stored, 0 when NULL
  reservation,  \* quota_reservations: held, settled (settled_at) or released (released_at)
  entitlement,  \* quota_reservations.entitlement_id: the period charged
  reserved,     \* subscription_periods.pages_reserved
  settled,      \* subscription_periods.pages_settled
  audits,       \* how many OCR_SETTLED and OCR_RELEASED audit events a job has
  period,       \* the period now falls in, NumPeriods + 1 when none is active
  attempts,     \* attempt identifiers handed out
  requests      \* the requests being handled

ledger == <<job, attempt, leased, pages, result, reservation, entitlement, reserved, settled, audits>>
clock == <<period, attempts>>
vars == <<ledger, clock, requests>>

JobState == {"ABSENT", "PROCESSING", "COMPLETED", "FAILED"}
ReservationState == {"none", "held", "settled", "released"}
RequestPc == {"idle", "extract", "complete", "fail", "answered"}
IdleRequest == [pc |-> "idle", job |-> "none", attempt |-> 0]

TypeOK ==
  /\ job \in [Jobs -> JobState]
  /\ attempt \in [Jobs -> 0..attempts]
  /\ leased \in [Jobs -> BOOLEAN]
  /\ pages \in [Jobs -> Nat]
  /\ result \in [Jobs -> 0..attempts]
  /\ reservation \in [Jobs -> ReservationState]
  /\ entitlement \in [Jobs -> 0..NumPeriods]
  /\ reserved \in [Periods -> Nat]
  /\ settled \in [Periods -> Nat]
  /\ audits \in [Jobs -> [settled : Nat, released : Nat]]
  /\ period \in 1..(NumPeriods + 1)
  /\ attempts \in Nat
  /\ requests \in [Requests -> [pc : RequestPc, job : Jobs \cup {"none"}, attempt : Nat]]
  /\ \A r \in Requests :
       requests[r].pc # "idle" => requests[r].job \in Jobs /\ requests[r].attempt \in 1..attempts

Init ==
  /\ job = [j \in Jobs |-> "ABSENT"]
  /\ attempt = [j \in Jobs |-> 0]
  /\ leased = [j \in Jobs |-> FALSE]
  /\ pages = [j \in Jobs |-> 0]
  /\ result = [j \in Jobs |-> 0]
  /\ reservation = [j \in Jobs |-> "none"]
  /\ entitlement = [j \in Jobs |-> 0]
  /\ reserved = [p \in Periods |-> 0]
  /\ settled = [p \in Periods |-> 0]
  /\ audits = [j \in Jobs |-> [settled |-> 0, released |-> 0]]
  /\ period = 1
  /\ attempts = 0
  /\ requests = [r \in Requests |-> IdleRequest]

-----------------------------------------------------------------------------
(* StartOcrJobAsync. A request it refuses changes nothing.                 *)

Free(r) == requests[r].pc \in {"idle", "answered"}

\* The attempt that now owns the job.
NewAttempt(r, j) ==
  /\ attempts < MaxAttempts
  /\ attempts' = attempts + 1
  /\ attempt' = [attempt EXCEPT ![j] = attempts + 1]
  /\ leased' = [leased EXCEPT ![j] = TRUE]
  /\ job' = [job EXCEPT ![j] = "PROCESSING"]
  /\ requests' = [requests EXCEPT ![r] = [pc |-> "extract", job |-> j, attempt |-> attempts + 1]]

\* Seeded fault: pages that are reserved but not settled are not counted.
RemainingOfSettled(p) == PageLimit - settled[p]

Remaining(p) == PageLimit - reserved[p] - settled[p]

\* Charge the pages to the period that is active now.
Reserve(j, n) ==
  /\ period \in Periods
  /\ n <= Remaining(period)
  /\ reservation' = [reservation EXCEPT ![j] = "held"]
  /\ entitlement' = [entitlement EXCEPT ![j] = period]
  /\ reserved' = [reserved EXCEPT ![period] = @ + n]

\* A job the platform has not seen.
StartNew(r, j, n) ==
  /\ Free(r)
  /\ job[j] = "ABSENT"
  /\ Reserve(j, n)
  /\ NewAttempt(r, j)
  /\ pages' = [pages EXCEPT ![j] = n]
  /\ UNCHANGED <<result, settled, audits, period>>

\* Seeded fault: the declared page count is not compared with the stored one.
AnyJob(j, n) == TRUE

\* EnsureSameOcrJob: a retry declares the same document.
SameOcrJob(j, n) == pages[j] = n

\* Seeded fault: any job that has ended is reserved again, a completed one too.
StartRetryOfEnded(r, j, n) ==
  /\ Free(r)
  /\ job[j] \in {"FAILED", "COMPLETED"}
  /\ SameOcrJob(j, n)
  /\ Reserve(j, n)
  /\ NewAttempt(r, j)
  /\ UNCHANGED <<pages, result, settled, audits, period>>

\* A failed job is reserved again: the same reservation row, the current period.
StartRetry(r, j, n) ==
  /\ Free(r)
  /\ job[j] = "FAILED"
  /\ SameOcrJob(j, n)
  /\ reservation[j] = "released"
  /\ Reserve(j, n)
  /\ NewAttempt(r, j)
  /\ UNCHANGED <<pages, result, settled, audits, period>>

\* A job whose lease ran out is taken over, on the pages already reserved.
StartRecovery(r, j, n) ==
  /\ Free(r)
  /\ job[j] = "PROCESSING"
  /\ SameOcrJob(j, n)
  /\ reservation[j] = "held"
  /\ ~leased[j]
  /\ NewAttempt(r, j)
  /\ UNCHANGED <<pages, result, reservation, entitlement, reserved, settled, audits, period>>

\* Seeded fault: a job that is still being processed is answered as well.
StartReplayEarly(r, j, n) ==
  /\ Free(r)
  /\ job[j] \in {"PROCESSING", "COMPLETED"}
  /\ SameOcrJob(j, n)
  /\ requests' = [requests EXCEPT ![r] = [pc |-> "answered", job |-> j, attempt |-> result[j]]]
  /\ UNCHANGED <<ledger, clock>>

\* A completed job answers with its stored result and calls no provider.
StartReplay(r, j, n) ==
  /\ Free(r)
  /\ job[j] = "COMPLETED"
  /\ SameOcrJob(j, n)
  /\ reservation[j] = "settled"
  /\ requests' = [requests EXCEPT ![r] = [pc |-> "answered", job |-> j, attempt |-> result[j]]]
  /\ UNCHANGED <<ledger, clock>>

-----------------------------------------------------------------------------
(* The provider call, and what may happen during it.                       *)

Extracted(r) ==
  /\ requests[r].pc = "extract"
  /\ requests' = [requests EXCEPT ![r].pc = "complete"]
  /\ UNCHANGED <<ledger, clock>>

\* The provider refuses, times out, or the caller disconnects.
ExtractionFails(r) ==
  /\ requests[r].pc = "extract"
  /\ requests' = [requests EXCEPT ![r].pc = "fail"]
  /\ UNCHANGED <<ledger, clock>>

\* Fifteen minutes pass on an attempt.
LeaseExpires(j) ==
  /\ leased[j]
  /\ job[j] = "PROCESSING"
  /\ leased' = [leased EXCEPT ![j] = FALSE]
  /\ UNCHANGED <<job, attempt, pages, result, reservation, entitlement, reserved, settled, audits>>
  /\ UNCHANGED <<clock, requests>>

NextPeriod ==
  /\ period <= NumPeriods
  /\ period' = period + 1
  /\ UNCHANGED <<ledger, attempts, requests>>

-----------------------------------------------------------------------------
(* FinalizeOcrJobAsync.                                                    *)

Ends(r) == requests' = [requests EXCEPT ![r] = IdleRequest]

\* Seeded faults: the rows are not checked again after the provider's answer;
\* whichever attempt answers may finalize the job.
FinalizableUnchecked(r) == TRUE

FinalizableByAnyone(r) ==
  LET j == requests[r].job IN
  /\ job[j] = "PROCESSING"
  /\ reservation[j] = "held"
  /\ reserved[entitlement[j]] >= pages[j]

\* The checks and WHERE clauses of the transaction: the attempt still owns the
\* job, which is being processed on a reservation that is held.
Finalizable(r) ==
  LET j == requests[r].job IN
  /\ attempt[j] = requests[r].attempt
  /\ job[j] = "PROCESSING"
  /\ reservation[j] = "held"
  /\ reserved[entitlement[j]] >= pages[j]

\* The pages move from reserved to settled and the result is stored.
Settle(r) ==
  LET j == requests[r].job
      p == entitlement[j]
  IN
  /\ requests[r].pc = "complete"
  /\ Finalizable(r)
  /\ job' = [job EXCEPT ![j] = "COMPLETED"]
  /\ result' = [result EXCEPT ![j] = requests[r].attempt]
  /\ reservation' = [reservation EXCEPT ![j] = "settled"]
  /\ reserved' = [reserved EXCEPT ![p] = @ - pages[j]]
  /\ settled' = [settled EXCEPT ![p] = @ + pages[j]]
  /\ audits' = [audits EXCEPT ![j].settled = @ + 1]
  /\ requests' = [requests EXCEPT ![r].pc = "answered"]
  /\ UNCHANGED <<attempt, leased, pages, entitlement, clock>>

\* Seeded fault: the release forgets to give the pages back to the period.
ReleaseKeepsPages(r) ==
  LET j == requests[r].job IN
  /\ requests[r].pc = "fail"
  /\ Finalizable(r)
  /\ job' = [job EXCEPT ![j] = "FAILED"]
  /\ reservation' = [reservation EXCEPT ![j] = "released"]
  /\ audits' = [audits EXCEPT ![j].released = @ + 1]
  /\ Ends(r)
  /\ UNCHANGED <<attempt, leased, pages, result, entitlement, reserved, settled, clock>>

\* The pages are given back.
Release(r) ==
  LET j == requests[r].job
      p == entitlement[j]
  IN
  /\ requests[r].pc = "fail"
  /\ Finalizable(r)
  /\ job' = [job EXCEPT ![j] = "FAILED"]
  /\ reservation' = [reservation EXCEPT ![j] = "released"]
  /\ reserved' = [reserved EXCEPT ![p] = @ - pages[j]]
  /\ audits' = [audits EXCEPT ![j].released = @ + 1]
  /\ Ends(r)
  /\ UNCHANGED <<attempt, leased, pages, result, entitlement, settled, clock>>

\* The transaction refuses a superseded attempt, or fails and is rolled back,
\* or the platform stops: the request ends and the job stays as it is.
RequestLost(r) ==
  /\ requests[r].pc \in {"extract", "complete", "fail"}
  /\ Ends(r)
  /\ UNCHANGED <<ledger, clock>>

-----------------------------------------------------------------------------
Next ==
  \/ \E r \in Requests, j \in Jobs, n \in PageCounts :
       StartNew(r, j, n) \/ StartRetry(r, j, n) \/ StartRecovery(r, j, n) \/ StartReplay(r, j, n)
  \/ \E r \in Requests :
       Extracted(r) \/ ExtractionFails(r) \/ Settle(r) \/ Release(r) \/ RequestLost(r)
  \/ \E j \in Jobs : LeaseExpires(j)
  \/ NextPeriod

Spec == Init /\ [][Next]_vars

-----------------------------------------------------------------------------
(* Safety.                                                                 *)

\* Job, reservation, result and audit trail tell the same story, so that none of
\* the "do not agree" exceptions of StartOcrJobAsync and FinalizeOcrJobAsync can
\* be reached: a job is settled exactly once, when it completes, and never both
\* settled and released.
RowsAgree ==
  \A j \in Jobs :
    /\ reservation[j] =
         CASE job[j] = "ABSENT"     -> "none"
           [] job[j] = "PROCESSING" -> "held"
           [] job[j] = "COMPLETED"  -> "settled"
           [] job[j] = "FAILED"     -> "released"
    /\ audits[j].settled = IF job[j] = "COMPLETED" THEN 1 ELSE 0
    /\ result[j] = IF job[j] = "COMPLETED" THEN attempt[j] ELSE 0
    /\ job[j] # "ABSENT" => entitlement[j] \in Periods

\* No period is ever charged more pages than it has, whatever requests overlap:
\* the CHECK of subscription_periods cannot fail.
WithinLimit == \A p \in Periods : reserved[p] + settled[p] <= PageLimit

\* Every answer a caller gets for a job is the one result that was paid for.
AnswersAgree ==
  \A r \in Requests :
    requests[r].pc = "answered" =>
      /\ job[requests[r].job] = "COMPLETED"
      /\ requests[r].attempt = result[requests[r].job]

\* The counters of a period are the sums of its reservations, across retries,
\* takeovers and period changes: pages are neither leaked nor counted twice
\* (the migration in db/002 rebuilds the counters by this very formula).
Charged(p, s) ==
  SumFunctionOnSet(pages, {j \in Jobs : entitlement[j] = p /\ reservation[j] = s})

CountersMatchReservations ==
  \A p \in Periods : reserved[p] = Charged(p, "held") /\ settled[p] = Charged(p, "settled")

\* The attempt that owns a job can finish it: while its request is at work, no
\* other request, period change or counter can make its transaction refuse.
OwnerCanFinalize ==
  \A r \in Requests :
    (/\ requests[r].pc \in {"extract", "complete", "fail"}
     /\ requests[r].attempt = attempt[requests[r].job])
      => Finalizable(r)

\* A completed job is final: no late answer, retry or takeover changes its row,
\* its result or what it was charged.
CompletedIsFinal ==
  [][\A j \in Jobs : job[j] = "COMPLETED" =>
       /\ job'[j] = "COMPLETED"
       /\ result'[j] = result[j]
       /\ reservation'[j] = "settled"
       /\ entitlement'[j] = entitlement[j]
       /\ audits'[j] = audits[j]]_vars

\* The answer of a superseded attempt changes nothing: a job is settled or
\* released only by the attempt that owns it, and its pages leave the period
\* they were reserved in.
OnlyOwnerFinalizes ==
  [][\A r \in Requests :
       (requests[r].pc \in {"complete", "fail"}
          /\ requests[r].attempt # attempt[requests[r].job]
          /\ requests'[r] # requests[r])
         => UNCHANGED <<job, result, reservation, reserved, settled, audits>>]_vars

=============================================================================
