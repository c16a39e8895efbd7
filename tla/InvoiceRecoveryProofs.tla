----------------------- MODULE InvoiceRecoveryProofs -----------------------
(***************************************************************************)
(* Nobody is left behind: with the restart recovery running beside the     *)
(* worker and the Local API, every job in flight has somebody who will     *)
(* move it on, and every accepted first submission is still to be taken    *)
(* up. Proved for any number of jobs and requests, any page size and any   *)
(* queue capacity, if no store call outside ProcessAsync's try throws      *)
(* (~StoreMayFail): the worker loop drops the job of a call that does.     *)
(*                                                                         *)
(* The argument: at a start the watermark covers every row, because rows   *)
(* are numbered without gaps. From then on the loop passes a job only by   *)
(* handling it as an item: a listing takes the first rows ahead of the     *)
(* cursor and leaves the rest behind the last of them. What the listing    *)
(* read may be old when the item is handled; an item that is then skipped  *)
(* or queued while its job is in flight belongs to the worker.             *)
(***************************************************************************)
EXTENDS InvoiceWorkflowProofs, FiniteSums

-----------------------------------------------------------------------------
(* The invariant.                                                          *)

\* The worker holds the job from the reservation to the end of ProcessAsync.
Held(j) == workerPc \notin {"idle", "load", "reserve"} /\ workerJob = j

\* The states a job has before it was submitted, and before it was taken up.
Collecting == {"Absent", "Captured"}
Waiting == Collecting \cup {"LocallyValidated"}

\* Rows are created in rowid order, so the watermark covers every row.
Contiguous ==
  \A j \in Jobs : state[j] # "Absent" => \A k \in 1..(j - 1) : state[k] # "Absent"

\* The page holds what ListJobsByStatePageAsync selects, read at the listing; a
\* job listed in flight has been taken up and stays so.
PageHolds ==
  /\ recoveryPc \in {"list", "done"} => page = EmptyPage
  /\ \A j \in Jobs : page[j] # NoState =>
       /\ page[j] \in RecoverableStates
       /\ page[j] \in InFlight => state[j] \notin Waiting

\* What MarkFailedAsync read is current unless recovery ended the attempt.
FailSeen ==
  (workerPc = "fail" /\ state[workerJob] \in InFlight) => state[workerJob] = workerSeen

\* Only complete invoices are submitted.
OwedHolds ==
  /\ \A j \in owed : state[j] \notin Collecting
  /\ \A s \in Submitters : submits[s].pc = "enqueue" => state[submits[s].job] \notin Collecting

\* Recovery will read the job as it is now: it is listed with its present state
\* and is not the item just handled, or it is still ahead of the cursor.
Awaits(j) ==
  /\ RecoveryPending(j)
  /\ page[j] \in {NoState, state[j]}
  /\ ~(recoveryPc = "enqueue" /\ IsNextItem(j))

\* InFlightOwned, with the item recovery is enqueuing excluded.
FlightHeld == up => \A j \in Jobs : state[j] \in InFlight => Held(j) \/ Awaits(j)

RInv ==
  /\ IInv
  /\ Contiguous
  /\ PageHolds
  /\ FailSeen
  /\ OwedHolds
  /\ FlightHeld
  /\ AcceptedFirstSubmissionScheduled

-----------------------------------------------------------------------------
(* How the steps move a job.                                               *)

\* A job never returns to capture, nor to waiting for its first attempt.
LEMMA StateMoves ==
  ASSUME IInv, [Next]_vars, NEW j \in Jobs
  PROVE  /\ state[j] # "Absent" => state'[j] # "Absent"
         /\ state[j] \notin Collecting => state'[j] \notin Collecting
         /\ state[j] \notin Waiting => state'[j] \notin Waiting
<1> USE DEF Collecting, Waiting
<1>0. TypeOK /\ StepKinds
  BY StepClasses DEF IInv
<1>1. CASE UNCHANGED durable
  BY <1>1 DEF durable
<1>2. ASSUME NEW k \in Jobs, NEW t \in Unpublished, MoveStep(k, t)
      PROVE  /\ state[j] # "Absent" => state'[j] # "Absent"
             /\ state[j] \notin Collecting => state'[j] \notin Collecting
             /\ state[j] \notin Waiting => state'[j] \notin Waiting
  BY <1>0, <1>2 DEF TypeOK, MoveStep, Edge, Submittable, InFlight
<1>3. ASSUME NEW k \in Jobs, NEW ok \in BOOLEAN, SaveStep(k, ok)
      PROVE  /\ state[j] # "Absent" => state'[j] # "Absent"
             /\ state[j] \notin Collecting => state'[j] \notin Collecting
             /\ state[j] \notin Waiting => state'[j] \notin Waiting
  BY <1>0, <1>3 DEF TypeOK, SaveStep, SaveRevision
<1>4. ASSUME NEW k \in Jobs, ConfirmStep(k)
      PROVE  /\ state[j] # "Absent" => state'[j] # "Absent"
             /\ state[j] \notin Collecting => state'[j] \notin Collecting
             /\ state[j] \notin Waiting => state'[j] \notin Waiting
  BY <1>0, <1>4 DEF TypeOK, ConfirmStep
<1> QED
  BY <1>0, <1>1, <1>2, <1>3, <1>4 DEF StepKinds

\* The compare-and-sets that always have an edge to follow.
LEMMA FailedEdge ==
  ASSUME NEW s \in InFlight
  PROVE  /\ FailedState(s) \in {"OcrFailed", "MatchingFailed"}
         /\ FailedState(s) \in Allowed[s]
  BY DEF FailedState, Allowed, InvoiceJobState, InFlight

\* The steps outside the worker, the recovery loop and the process itself.
Outside ==
  \/ UNCHANGED vars
  \/ \E j \in Jobs : CreateJob(j) \/ FinishUpload(j)
  \/ \E s \in Submitters : SubmitAborted(s) \/ \E j \in Jobs : SubmitRead(s, j)
  \/ \E r \in Reviewers : ReviewStep(r)

\* They leave the queue and both loops alone and put no job in flight; only
\* FinishUpload makes an invoice ready.
LEMMA OutsideIsQuiet ==
  ASSUME TypeOK, Outside
  PROVE  /\ UNCHANGED <<up, queue, worker, recovery, owed>>
         /\ \A j \in Jobs : state'[j] \in InFlight => state'[j] = state[j]
         /\ \A j \in Jobs : state'[j] = "LocallyValidated" =>
              state[j] \in {"Captured", "LocallyValidated"}
<1> DEFINE Quiet == /\ UNCHANGED <<up, queue, worker, recovery, owed>>
                    /\ \A j \in Jobs : state'[j] \in InFlight => state'[j] = state[j]
                    /\ \A j \in Jobs : state'[j] = "LocallyValidated" =>
                         state[j] \in {"Captured", "LocallyValidated"}
<1>1. CASE UNCHANGED vars
  BY <1>1 DEF vars, durable
<1>2. ASSUME NEW j \in Jobs, CreateJob(j) \/ FinishUpload(j) PROVE Quiet
  BY <1>2 DEF TypeOK, CreateJob, FinishUpload, InFlight
<1>3. ASSUME NEW s \in Submitters, SubmitAborted(s) \/ \E j \in Jobs : SubmitRead(s, j)
      PROVE  Quiet
  BY <1>3 DEF SubmitAborted, SubmitRead, durable
<1>4. ASSUME NEW r \in Reviewers, ReviewStep(r) PROVE Quiet
  <2>1. CASE EditSave(r)
    <3>1. state' = [state EXCEPT ![reviews[r].job] = "AwaitingUserReview"]
      BY <2>1 DEF EditSave, SaveRevision
    <3> QED
      BY <2>1, <3>1 DEF TypeOK, EditSave, InFlight
  <2>2. CASE ConfirmCommit(r)
    <3>1. state' = state \/ state' = [state EXCEPT ![reviews[r].job] = "Confirmed"]
      BY <2>2 DEF ConfirmCommit, durable
    <3> QED
      BY <2>2, <3>1 DEF TypeOK, ConfirmCommit, InFlight
  <2>3. CASE RequestEnds(r) \/ ConfirmReadJob(r)
             \/ \E j \in Jobs, i \in 1..MaxRevisions :
                  EditRead(r, j, i) \/ ConfirmReadRevision(r, j, i)
    BY <2>3 DEF RequestEnds, ConfirmReadJob, EditRead, ConfirmReadRevision, durable
  <2> QED
    BY <1>4, <2>1, <2>2, <2>3 DEF ReviewStep
<1> QED
  BY <1>1, <1>2, <1>3, <1>4 DEF Outside

LEMMA NextCases ==
  ASSUME [Next]_vars, ~StoreMayFail
  PROVE  \/ Outside
         \/ \E s \in Submitters : SubmitEnqueue(s)
         \/ WorkerStep
         \/ RecoveryStep
         \/ Start
         \/ Stop
  BY DEF Next, Outside, StoreThrows

-----------------------------------------------------------------------------
(* The parts that do not need each other.                                  *)

\* Only CreateJobAsync makes a row.
LEMMA OnlyCreate ==
  ASSUME IInv, PageHolds, [Next]_vars, ~StoreMayFail,
         NEW j \in Jobs, state[j] = "Absent", state'[j] # "Absent"
  PROVE  CreateJob(j)
<1>0. TypeOK /\ WorkerHolds
  BY DEF IInv
<1>1. CASE Outside
  <2>1. ASSUME NEW r \in Reviewers, ReviewStep(r) PROVE FALSE
    <3>1. CASE EditSave(r)
      BY <1>0, <3>1 DEF TypeOK, EditSave, CanSaveRevision, SaveRevision
    <3>2. CASE ConfirmCommit(r)
      BY <1>0, <3>2 DEF TypeOK, ConfirmCommit, CanConfirm, durable
    <3> QED
      BY <2>1, <3>1, <3>2
      DEF ReviewStep, RequestEnds, ConfirmReadJob, EditRead, ConfirmReadRevision, durable
  <2> QED
    BY <1>0, <1>1, <2>1
    DEF Outside, vars, durable, CreateJob, FinishUpload, SubmitAborted, SubmitRead, TypeOK
<1>2. ASSUME NEW s \in Submitters, SubmitEnqueue(s) PROVE FALSE
  BY <1>2 DEF SubmitEnqueue, durable
<1>3. CASE WorkerStep
  <2>1. CASE Reserve
    BY <1>0, <2>1 DEF TypeOK, WorkerHolds, Reserve, WorkerAt, CanTransition, Submittable
  <2>2. CASE Entitled \/ OcrDone \/ StartMatch
    BY <1>0, <2>2
    DEF TypeOK, Entitled, OcrDone, StartMatch, Advance, WorkerAt, CanTransition
  <2>3. CASE PublishRevision
    BY <1>0, <2>3
    DEF TypeOK, PublishRevision, WorkerAt, CanSaveRevision, SaveRevision, durable
  <2>4. CASE MarkFailed
    BY <1>0, <2>4 DEF TypeOK, WorkerHolds, MarkFailed, WorkerAt, CanTransition, InFlight
  <2> QED
    BY <1>3, <2>1, <2>2, <2>3, <2>4
    DEF WorkerStep, Dequeue, Load, StepFails, MarkRead, durable
<1>4. CASE RecoveryStep
  <2>1. ASSUME NEW k \in Jobs, RecoverItem(k) PROVE FALSE
    BY <1>0, <2>1
    DEF TypeOK, PageHolds, RecoverItem, IsNextItem, CanTransition, RecoverableStates, InFlight
  <2> QED
    BY <1>4, <2>1 DEF RecoveryStep, ListPage, EnqueueItem, durable
<1> QED
  BY <1>1, <1>2, <1>3, <1>4, NextCases DEF Start, Stop, durable

LEMMA ContiguousStep ==
  ASSUME IInv, PageHolds, Contiguous, [Next]_vars, ~StoreMayFail
  PROVE  Contiguous'
<1> SUFFICES ASSUME NEW j \in Jobs, state'[j] # "Absent", NEW k \in 1..(j - 1)
             PROVE  state'[k] # "Absent"
  BY DEF Contiguous
<1>1. k \in Jobs
  BY NumJobsAssumption DEF Jobs
<1>2. state[k] # "Absent"
  BY OnlyCreate DEF Contiguous, CreateJob
<1> QED
  BY <1>1, <1>2, StateMoves

\* The watermark covers every row there is.
LEMMA CreatedBelowMark ==
  ASSUME TypeOK, Contiguous, NEW j \in Created
  PROVE  j <= Cardinality(Created)
<1>1. j \in Jobs /\ j \in Nat /\ state[j] # "Absent"
  BY DEF Created, Jobs
<1>2. 1..j \subseteq Created
  <2>1. ASSUME NEW k \in 1..j PROVE k \in Created
    <3>1. k \in Jobs /\ (k = j \/ k \in 1..(j - 1))
      BY <1>1, NumJobsAssumption DEF Jobs
    <3> QED
      BY <1>1, <3>1 DEF Contiguous, Created
  <2> QED
    BY <2>1
<1>3. IsFiniteSet(Created)
  BY JobsFinite, FS_Subset DEF Created
<1>4. Cardinality(1..j) = j
  <2>1. Cardinality(1..j) = IF 1 > j THEN 0 ELSE j - 1 + 1
    BY <1>1, FS_Interval
  <2> QED
    BY <1>1, <2>1 DEF Jobs
<1> QED
  BY <1>2, <1>3, <1>4, FS_Subset

\* A page is emptied as its items are done, and read as a whole.
LEMMA PageStep ==
  ASSUME IInv, PageHolds, [Next]_vars, ~StoreMayFail
  PROVE  PageHolds'
<1>0. TypeOK /\ \A j \in Jobs : state[j] \notin Waiting => state'[j] \notin Waiting
  BY StateMoves DEF IInv
<1>1. CASE UNCHANGED recovery
  BY <1>0, <1>1 DEF PageHolds, recovery
<1>2. CASE Start \/ Stop
  BY <1>2 DEF Start, Stop, RecoveryOver, PageHolds, EmptyPage
<1>3. CASE ListPage
  <2>1. CASE Listed = {}
    BY <1>3, <2>1 DEF ListPage, RecoveryOver, PageHolds, EmptyPage
  <2>2. CASE Listed # {}
    <3>1. /\ recoveryPc' = "item" /\ state' = state
          /\ \A j \in Jobs : page'[j] = IF j \in Listed THEN state[j] ELSE NoState
      BY <1>3, <2>2 DEF ListPage, durable
    <3>2. \A j \in Listed : state[j] \in RecoverableStates
      BY DEF Listed, Candidates
    <3> QED
      BY <3>1, <3>2 DEF PageHolds, InFlight, Waiting, Collecting
  <2> QED
    BY <2>1, <2>2
<1>4. ASSUME NEW j \in Jobs, RecoverItem(j) \/ EnqueueItem(j) PROVE PageHolds'
  <2>1. CASE page' = page /\ recoveryPc' = "enqueue"
    BY <1>0, <2>1 DEF PageHolds
  <2>2. CASE ItemDone(j)
    <3>1. /\ recoveryPc' \in {"list", "item"}
          /\ recoveryPc' = "list" => page' = EmptyPage
          /\ \A k \in Jobs : page'[k] = IF k = j THEN NoState ELSE page[k]
      BY <1>0, <2>2 DEF TypeOK, ItemDone, PageWithout
    <3> QED
      BY <1>0, <3>1 DEF PageHolds
  <2> QED
    BY <1>4, <2>1, <2>2 DEF RecoverItem, EnqueueItem
<1>5. CASE Outside
  BY <1>0, <1>1, <1>5, OutsideIsQuiet
<1>6. ASSUME NEW s \in Submitters, SubmitEnqueue(s) PROVE PageHolds'
  BY <1>1, <1>6 DEF SubmitEnqueue
<1>7. CASE WorkerStep
  BY <1>1, <1>7
  DEF WorkerStep, Dequeue, Load, Reserve, Entitled, OcrDone, StartMatch, Advance, StepFails,
      PublishRevision, MarkRead, MarkFailed, WorkerUnchanged
<1> QED
  BY <1>2, <1>3, <1>4, <1>5, <1>6, <1>7, NextCases DEF RecoveryStep

LEMMA OwedStep ==
  ASSUME IInv, OwedHolds, [Next]_vars, ~StoreMayFail
  PROVE  OwedHolds'
<1>0. /\ TypeOK
      /\ \A j \in Jobs : state[j] \notin Collecting => state'[j] \notin Collecting
  BY StateMoves DEF IInv
<1>1. CASE UNCHANGED submits /\ owed' \subseteq owed
  BY <1>0, <1>1 DEF TypeOK, OwedHolds
<1>2. ASSUME NEW s \in Submitters, SubmitEnqueue(s) \/ SubmitAborted(s) PROVE OwedHolds'
  <2>1. /\ \A t \in Submitters : submits'[t].pc = "enqueue" => submits'[t] = submits[t]
        /\ state' = state
    BY <1>0, <1>2 DEF TypeOK, SubmitEnqueue, SubmitAborted, IdleSubmit, durable
  <2>2. submits[s].pc = "enqueue" /\ owed' \subseteq owed \cup {submits[s].job}
    BY <1>2 DEF SubmitEnqueue, SubmitAborted
  <2> QED
    BY <2>1, <2>2 DEF OwedHolds
<1>3. ASSUME NEW s \in Submitters, NEW j \in Jobs, SubmitRead(s, j) PROVE OwedHolds'
  BY <1>0, <1>3 DEF TypeOK, OwedHolds, SubmitRead, Submittable, Collecting
<1>4. CASE WorkerStep
  BY <1>1, <1>4
  DEF WorkerStep, Dequeue, Load, Reserve, Entitled, OcrDone, StartMatch, Advance, StepFails,
      PublishRevision, MarkRead, MarkFailed, WorkerUnchanged, calls
<1>5. CASE RecoveryStep
  BY <1>1, <1>5 DEF RecoveryStep, ListPage, RecoverItem, EnqueueItem, calls
<1>6. CASE Start
  BY <1>1, <1>6 DEF Start, calls
<1>10. CASE Stop
  <2>1. /\ owed' = owed /\ state' = state
        /\ \A s \in Submitters : submits'[s].pc = "idle"
    BY <1>10 DEF Stop, IdleSubmit, durable
  <2> QED
    BY <2>1 DEF OwedHolds
<1>7. ASSUME NEW r \in Reviewers, ReviewStep(r) PROVE OwedHolds'
  BY <1>1, <1>7
  DEF ReviewStep, RequestEnds, EditSave, ConfirmReadJob, ConfirmCommit, EditRead,
      ConfirmReadRevision
<1>8. ASSUME NEW j \in Jobs, CreateJob(j) \/ FinishUpload(j) PROVE OwedHolds'
  BY <1>1, <1>8 DEF CreateJob, FinishUpload, calls
<1>9. CASE UNCHANGED vars
  BY <1>1, <1>9 DEF vars, calls
<1> QED
  BY <1>2, <1>3, <1>4, <1>5, <1>6, <1>7, <1>8, <1>9, <1>10, NextCases DEF Outside

-----------------------------------------------------------------------------
(* What the recovery loop does to a job it has yet to handle.              *)

LEMMA CandidatesFinite ==
  /\ Candidates \subseteq Jobs /\ Candidates \subseteq Nat /\ IsFiniteSet(Candidates)
  /\ Listed = {j \in Candidates : Cardinality(Below(Candidates, j)) < BatchSize}
<1>1. Candidates \subseteq Jobs /\ Candidates \subseteq Nat
  BY DEF Candidates, Jobs
<1> QED
  BY <1>1, JobsFinite, FS_Subset DEF Listed, Below

\* The loop does not end while something is left to recover.
LEMMA ListingNotEmpty == Candidates # {} => Listed # {}
<1> SUFFICES ASSUME Candidates # {} PROVE Listed # {}
  OBVIOUS
<1>1. PICK m \in Candidates : Below(Candidates, m) = {}
  BY CandidatesFinite, LeastElement
<1>2. Cardinality(Below(Candidates, m)) < BatchSize
  BY <1>1, FS_EmptySet, BatchSizeAssumption
<1> QED
  BY <1>2, CandidatesFinite

\* A candidate that is not listed lies behind every row of the page.
LEMMA UnlistedIsBehind ==
  ASSUME NEW j \in Candidates, j \notin Listed, NEW k \in Listed
  PROVE  k < j
<1>1. k \in Candidates /\ k \in Nat /\ j \in Nat /\ k # j
  BY CandidatesFinite
<1>2. /\ Cardinality(Below(Candidates, k)) < BatchSize
      /\ ~(Cardinality(Below(Candidates, j)) < BatchSize)
  BY CandidatesFinite
<1>3. IsFiniteSet(Below(Candidates, j)) /\ IsFiniteSet(Below(Candidates, k))
  BY CandidatesFinite, FS_Subset DEF Below
<1>4. Cardinality(Below(Candidates, j)) \in Nat /\ Cardinality(Below(Candidates, k)) \in Nat
  BY <1>3, FS_CardinalityType
<1>5. j < k => Cardinality(Below(Candidates, j)) < Cardinality(Below(Candidates, k))
  BY CandidatesFinite, <1>1, BelowGrows
<1> QED
  BY <1>1, <1>2, <1>4, <1>5, BatchSizeAssumption

\* A listing takes up a job still ahead of it, or leaves it ahead.
LEMMA ListingKeeps ==
  ASSUME TypeOK, PageHolds, ListPage,
         NEW j \in Jobs, RecoveryPending(j), state[j] \in RecoverableStates
  PROVE  /\ RecoveryPending(j)' /\ recoveryPc' = "item"
         /\ page'[j] \in {NoState, state[j]}
<1>1. j \in Candidates
  BY DEF ListPage, RecoveryPending, Candidates
<1>2. /\ recoveryPc' = "item" /\ UNCHANGED <<after, mark>>
      /\ \A k \in Jobs : page'[k] = IF k \in Listed THEN state[k] ELSE NoState
  BY <1>1, ListingNotEmpty DEF ListPage
<1>3. state[j] # NoState
  BY DEF RecoverableStates, InFlight, NoState
<1>4. CASE j \in Listed
  BY <1>2, <1>3, <1>4 DEF RecoveryPending
<1>5. CASE j \notin Listed
  <2>1. \A k \in Jobs : page'[k] # NoState => k < j
    BY <1>1, <1>2, <1>5, UnlistedIsBehind
  <2>2. after < j /\ j <= mark
    BY <1>1 DEF Candidates
  <2> QED
    BY <1>2, <1>5, <2>1, <2>2 DEF RecoveryPending
<1> QED
  BY <1>4, <1>5

\* Handling one item leaves every other job where it was: listed, or ahead.
LEMMA ItemKeeps ==
  ASSUME TypeOK, recoveryPc \in {"item", "enqueue"},
         NEW i \in Jobs, IsNextItem(i), ItemDone(i),
         NEW j \in Jobs, j # i, RecoveryPending(j)
  PROVE  RecoveryPending(j)' /\ recoveryPc' # "enqueue" /\ page'[j] = page[j]
<1>1. /\ after' = i /\ mark' = mark
      /\ \A k \in Jobs : page'[k] = IF k = i THEN NoState ELSE page[k]
      /\ recoveryPc' \in {"list", "item"}
  BY DEF TypeOK, ItemDone, PageWithout
<1>2. CASE page[j] # NoState
  <2>1. PageWithout(i) # EmptyPage
    BY <1>2 DEF TypeOK, PageWithout, EmptyPage
  <2> QED
    BY <1>1, <1>2, <2>1 DEF ItemDone, RecoveryPending
<1>3. CASE page[j] = NoState
  <2>1. /\ j <= mark
        /\ \A k \in Jobs : page[k] # NoState => k < j
    BY <1>3 DEF RecoveryPending
  <2>2. i < j
    BY <2>1 DEF IsNextItem
  <2> QED
    BY <1>1, <2>1, <2>2 DEF RecoveryPending
<1> QED
  BY <1>2, <1>3

\* After a start every row is ahead of the loop.
LEMMA StartKeeps ==
  ASSUME TypeOK, Contiguous, Start, NEW j \in Jobs, state[j] # "Absent"
  PROVE  RecoveryPending(j)' /\ recoveryPc' = "list" /\ page'[j] = NoState
<1>1. /\ recoveryPc' = "list" /\ after' = 0 /\ mark' = Cardinality(Created)
      /\ \A k \in Jobs : page'[k] = NoState
  BY DEF Start, EmptyPage
<1>2. j <= Cardinality(Created) /\ 0 < j
  BY CreatedBelowMark DEF Created, Jobs
<1> QED
  BY <1>1, <1>2 DEF RecoveryPending

-----------------------------------------------------------------------------
(* Jobs in flight.                                                         *)

\* What the worker read before it marks the job failed.
LEMMA FailSeenStep ==
  ASSUME IInv, PageHolds, FailSeen, [Next]_vars, ~StoreMayFail
  PROVE  FailSeen'
<1>0. TypeOK
  BY DEF IInv
<1>1. CASE UNCHANGED worker /\ \A j \in Jobs : state'[j] \in InFlight => state'[j] = state[j]
  BY <1>0, <1>1 DEF TypeOK, FailSeen, worker
<1>2. CASE WorkerStep
  BY <1>2
  DEF WorkerStep, Dequeue, Load, Reserve, Entitled, OcrDone, StartMatch, Advance, StepFails,
      PublishRevision, MarkRead, MarkFailed, Finish, GoTo, FailSeen, durable
<1>3. CASE RecoveryStep
  <2>1. ASSUME NEW j \in Jobs, RecoverItem(j)
        PROVE  UNCHANGED worker /\ \A k \in Jobs : state'[k] \in InFlight => state'[k] = state[k]
    <3>1. FailedState(page[j]) # page[j] => page[j] \in InFlight
      BY <1>0, <2>1, FailedStates DEF TypeOK, PageHolds, RecoverItem, IsNextItem, JobState
    <3>2. page[j] \in InFlight => FailedState(page[j]) \notin InFlight
      BY FailedEdge DEF InFlight
    <3> QED
      BY <1>0, <2>1, <3>1, <3>2 DEF TypeOK, RecoverItem
  <2> QED
    BY <1>1, <1>3, <2>1 DEF RecoveryStep, ListPage, EnqueueItem, durable
<1>4. CASE Outside
  BY <1>0, <1>1, <1>4, OutsideIsQuiet
<1>5. ASSUME NEW s \in Submitters, SubmitEnqueue(s) PROVE FailSeen'
  BY <1>1, <1>5 DEF SubmitEnqueue, durable
<1>6. CASE Start
  BY <1>1, <1>6 DEF Start, durable
<1>7. CASE Stop
  BY <1>7 DEF Stop, Finish, FailSeen
<1> QED
  BY <1>2, <1>3, <1>4, <1>5, <1>6, <1>7, NextCases

\* A step that leaves the worker and the recovery loop alone and puts no job in
\* flight changes nobody's claim.
LEMMA QuietKeepsFlight ==
  ASSUME FlightHeld, UNCHANGED <<up, worker, recovery>>,
         \A j \in Jobs : state'[j] \in InFlight => state'[j] = state[j]
  PROVE  FlightHeld'
  BY DEF FlightHeld, Held, Awaits, RecoveryPending, IsNextItem, worker, recovery

\* The worker takes a job in flight and gives it up only when it no longer is.
LEMMA WorkerKeepsFlight ==
  ASSUME IInv, FailSeen, FlightHeld, WorkerStep
  PROVE  FlightHeld'
<1>0. TypeOK /\ WorkerHolds
  BY DEF IInv
<1>1. UNCHANGED <<up, recovery>>
  BY DEF WorkerStep, Dequeue, Load, Reserve, Entitled, OcrDone, StartMatch, Advance, StepFails,
         PublishRevision, MarkRead, MarkFailed, WorkerUnchanged
<1>2. SUFFICES ASSUME NEW j \in Jobs, state'[j] \in InFlight, ~Held(j)'
               PROVE  state'[j] = state[j] /\ ~Held(j)
  BY <1>1 DEF FlightHeld, Awaits, RecoveryPending, IsNextItem, recovery
<1>3. CASE Dequeue
  BY <1>2, <1>3 DEF Dequeue, Held, WorkerAt, durable
<1>4. CASE Load
  BY <1>2, <1>4 DEF Load, Held, WorkerAt, durable
<1>5. CASE Reserve
  BY <1>0, <1>2, <1>5 DEF TypeOK, Reserve, Held, WorkerAt, GoTo
<1>6. CASE Entitled \/ OcrDone \/ StartMatch
  BY <1>0, <1>2, <1>6
  DEF TypeOK, Entitled, OcrDone, StartMatch, Advance, Held, WorkerAt, GoTo
<1>7. CASE StepFails
  BY <1>2, <1>7 DEF StepFails, Held, GoTo, durable
<1>8. CASE PublishRevision
  <2>1. CASE CanSaveRevision(workerJob, "Matching", None, 1)
    <3>1. state' = [state EXCEPT ![workerJob] = "AwaitingUserReview"] /\ WorkerAt("publish")
      BY <1>8, <2>1 DEF PublishRevision, SaveRevision
    <3> QED
      BY <1>0, <1>2, <3>1 DEF TypeOK, Held, InFlight
  <2>2. CASE ~CanSaveRevision(workerJob, "Matching", None, 1)
    BY <1>2, <1>8, <2>2 DEF PublishRevision, Held, WorkerAt, GoTo, durable
  <2> QED
    BY <2>1, <2>2
<1>9. CASE MarkRead
  <2>1. state[j] \in InFlight => FailedState(state[j]) # state[j]
    BY FailedEdge DEF InFlight
  <2> QED
    BY <1>2, <1>9, <2>1 DEF MarkRead, Held, WorkerAt, durable
<1>10. CASE MarkFailed
  <2>1. workerSeen \in InFlight /\ workerJob \in Jobs
    BY <1>0, <1>10 DEF TypeOK, WorkerHolds, MarkFailed, WorkerAt
  <2>2. /\ FailedState(workerSeen) \notin InFlight
        /\ FailedState(workerSeen) \in Allowed[workerSeen]
    BY <2>1, FailedEdge DEF InFlight
  <2>3. state[workerJob] \in InFlight =>
          CanTransition(workerJob, workerSeen, FailedState(workerSeen))
    BY <1>10, <2>2 DEF FailSeen, MarkFailed, WorkerAt, CanTransition
  <2> QED
    BY <1>0, <1>2, <1>10, <2>1, <2>2, <2>3 DEF TypeOK, MarkFailed, Held, WorkerAt
<1> QED
  BY <1>3, <1>4, <1>5, <1>6, <1>7, <1>8, <1>9, <1>10 DEF WorkerStep

\* The recovery loop passes a job in flight only when the worker holds it.
LEMMA RecoveryKeepsFlight ==
  ASSUME IInv, PageHolds, FlightHeld, RecoveryStep
  PROVE  FlightHeld'
<1>0. TypeOK
  BY DEF IInv
<1>1. SUFFICES ASSUME up, NEW j \in Jobs, state'[j] \in InFlight, ~Held(j)
               PROVE  Awaits(j)'
  BY DEF FlightHeld, Held, RecoveryStep, ListPage, RecoverItem, EnqueueItem, worker
<1>2. CASE ListPage
  <2>1. state' = state /\ RecoveryPending(j) /\ state[j] \in RecoverableStates
    BY <1>1, <1>2 DEF ListPage, FlightHeld, Awaits, RecoverableStates, durable
  <2> QED
    BY <1>0, <1>2, <2>1, ListingKeeps DEF Awaits
<1>3. ASSUME NEW i \in Jobs, RecoverItem(i) PROVE Awaits(j)'
  <2>0. page[i] # NoState /\ recoveryPc = "item" /\ page[i] \in InvoiceJobState
    BY <1>0, <1>3 DEF TypeOK, RecoverItem, IsNextItem
  <2>1. FailedState(page[i]) # page[i] => page[i] \in InFlight
    BY <2>0, FailedStates DEF JobState
  <2>2. page[i] \in InFlight =>
          FailedState(page[i]) \notin InFlight /\ FailedState(page[i]) \in Allowed[page[i]]
    BY FailedEdge DEF InFlight
  <2>3. \A k \in Jobs : IsNextItem(k) => k = i
    BY <1>3 DEF RecoverItem, IsNextItem, Jobs
  <2>4. state'[j] = state[j] /\ Awaits(j)
    BY <1>0, <1>1, <1>3, <2>1, <2>2 DEF TypeOK, RecoverItem, FlightHeld
  <2>5. CASE FailedState(page[i]) = page[i]
    <3>1. UNCHANGED <<state, page, after, mark>> /\ recoveryPc' = "enqueue"
      BY <1>3, <2>5 DEF RecoverItem
    <3>2. page[i] \notin InFlight
      BY <2>2, <2>5
    <3>3. j # i
      BY <1>1, <2>0, <2>4, <3>2 DEF Awaits
    <3> QED
      BY <2>0, <2>3, <2>4, <3>1, <3>3 DEF Awaits, RecoveryPending, IsNextItem
  <2>6. CASE FailedState(page[i]) # page[i] /\ CanTransition(i, page[i], FailedState(page[i]))
    <3>1. /\ state' = [state EXCEPT ![i] = FailedState(page[i])]
          /\ UNCHANGED <<page, after, mark>> /\ recoveryPc' = "enqueue"
      BY <1>3, <2>6 DEF RecoverItem
    <3>2. j # i
      BY <1>0, <1>1, <2>1, <2>2, <2>6, <3>1 DEF TypeOK
    <3> QED
      BY <2>0, <2>3, <2>4, <3>1, <3>2 DEF Awaits, RecoveryPending, IsNextItem
  <2>7. CASE FailedState(page[i]) # page[i] /\ ~CanTransition(i, page[i], FailedState(page[i]))
    <3>1. ItemDone(i) /\ IsNextItem(i)
      BY <1>3, <2>7 DEF RecoverItem
    <3>2. state[i] # page[i]
      BY <2>1, <2>2, <2>7 DEF CanTransition
    <3>3. j # i
      BY <2>0, <2>4, <3>2 DEF Awaits
    <3>4. RecoveryPending(j)' /\ recoveryPc' # "enqueue" /\ page'[j] = page[j]
      BY <1>0, <2>0, <2>4, <3>1, <3>3, ItemKeeps DEF Awaits
    <3> QED
      BY <2>4, <3>4 DEF Awaits
  <2> QED
    BY <2>5, <2>6, <2>7
<1>4. ASSUME NEW i \in Jobs, EnqueueItem(i) PROVE Awaits(j)'
  <2>1. state' = state /\ recoveryPc = "enqueue" /\ IsNextItem(i) /\ ItemDone(i)
    BY <1>4 DEF EnqueueItem, durable
  <2>2. Awaits(j) /\ j # i
    BY <1>1, <2>1 DEF FlightHeld, Awaits
  <2>3. RecoveryPending(j)' /\ recoveryPc' # "enqueue" /\ page'[j] = page[j]
    BY <1>0, <2>1, <2>2, ItemKeeps DEF Awaits
  <2> QED
    BY <2>1, <2>2, <2>3 DEF Awaits
<1> QED
  BY <1>2, <1>3, <1>4 DEF RecoveryStep

LEMMA FlightStep ==
  ASSUME IInv, Contiguous, PageHolds, FailSeen, FlightHeld, [Next]_vars, ~StoreMayFail
  PROVE  FlightHeld'
<1>0. TypeOK
  BY DEF IInv
<1>1. CASE Outside
  BY <1>0, <1>1, OutsideIsQuiet, QuietKeepsFlight
<1>2. ASSUME NEW s \in Submitters, SubmitEnqueue(s) PROVE FlightHeld'
  BY <1>2, QuietKeepsFlight DEF SubmitEnqueue, durable
<1>3. CASE Start
  <2>1. ASSUME NEW j \in Jobs, state'[j] \in InFlight PROVE Awaits(j)'
    <3>1. state[j] # "Absent"
      BY <1>3, <2>1 DEF Start, durable, InFlight
    <3> QED
      BY <1>0, <1>3, <3>1, StartKeeps DEF Awaits
  <2> QED
    BY <2>1 DEF FlightHeld
<1>4. CASE Stop
  BY <1>4 DEF Stop, FlightHeld
<1> QED
  BY <1>1, <1>2, <1>3, <1>4, NextCases, WorkerKeepsFlight, RecoveryKeepsFlight

-----------------------------------------------------------------------------
(* Accepted first submissions.                                             *)

Queued(j) == \E n \in DOMAIN queue : queue[n] = j
TakenUp(j) == workerPc \in {"load", "reserve"} /\ workerJob = j

LEMMA ScheduledIs ==
  ASSUME NEW j
  PROVE  Scheduled(j) <=> Queued(j) \/ TakenUp(j) \/ RecoveryPending(j)
  BY DEF Scheduled, Queued, TakenUp

\* Appending keeps every entry and adds its own.
LEMMA AppendKeeps ==
  ASSUME TypeOK, NEW i \in Jobs, queue' = Append(queue, i)
  PROVE  Queued(i)' /\ \A j \in Jobs : Queued(j) => Queued(j)'
<1>1. /\ Len(queue) \in Nat /\ DOMAIN queue = 1..Len(queue)
      /\ DOMAIN queue' = 1..(Len(queue) + 1)
      /\ queue'[Len(queue) + 1] = i
      /\ \A n \in 1..Len(queue) : queue'[n] = queue[n]
  BY AppendProperties, LenProperties DEF TypeOK
<1> QED
  BY <1>1 DEF Queued

\* The entry taken from the queue is the worker's; the others move up.
LEMMA DequeueKeeps ==
  ASSUME TypeOK, Dequeue, NEW j \in Jobs, Queued(j)
  PROVE  Queued(j)' \/ TakenUp(j)'
<1>1. queue \in Seq(Jobs) /\ queue # <<>> /\ queue' = Tail(queue)
  BY DEF TypeOK, Dequeue
<1>2. /\ Len(queue) \in Nat /\ DOMAIN queue = 1..Len(queue)
      /\ queue' \in Seq(Jobs) /\ Len(queue') = Len(queue) - 1
      /\ Head(queue) = queue[1]
      /\ \A n \in 1..Len(queue') : queue'[n] = queue[n + 1]
  BY <1>1, HeadTailProperties, LenProperties
<1>3. DOMAIN queue' = 1..Len(queue')
  BY <1>2, LenProperties
<1>4. PICK n \in 1..Len(queue) : queue[n] = j
  BY <1>2 DEF Queued
<1>5. CASE n = 1
  BY <1>2, <1>4, <1>5 DEF Dequeue, TakenUp
<1>6. CASE n # 1
  <2>1. n - 1 \in 1..Len(queue') /\ (n - 1) + 1 = n
    BY <1>2, <1>4, <1>6
  <2>2. queue'[n - 1] = j
    BY <1>2, <1>4, <2>1
  <2> QED
    BY <1>3, <2>1, <2>2 DEF Queued
<1> QED
  BY <1>5, <1>6

LEMMA ReadyStays ==
  ASSUME IInv, [Next]_vars, NEW j \in Jobs, state'[j] = "LocallyValidated",
         state[j] \notin Collecting
  PROVE  state[j] = "LocallyValidated"
<1>1. TypeOK /\ (state[j] \notin Waiting => state'[j] \notin Waiting)
  BY StateMoves DEF IInv
<1> QED
  BY <1>1 DEF Waiting, Collecting

\* The worker forgets a submission only after it has read the job.
LEMMA WorkerKeepsScheduled ==
  ASSUME TypeOK, WorkerStep, NEW j \in owed', Scheduled(j), state[j] = "LocallyValidated"
  PROVE  Scheduled(j)'
<1>0. j \in owed /\ j \in Jobs
  BY DEF TypeOK, WorkerStep, Dequeue, Load, Reserve, Entitled, OcrDone, StartMatch, Advance,
         StepFails, PublishRevision, MarkRead, MarkFailed
<1>1. CASE RecoveryPending(j)
  <2>1. UNCHANGED recovery
    BY DEF WorkerStep, Dequeue, Load, Reserve, Entitled, OcrDone, StartMatch, Advance,
           StepFails, PublishRevision, MarkRead, MarkFailed, WorkerUnchanged
  <2> QED
    BY <1>1, <2>1 DEF RecoveryPending, recovery, Scheduled
<1>2. CASE Queued(j)
  <2>1. CASE Dequeue
    BY <1>0, <1>2, <2>1, DequeueKeeps, ScheduledIs DEF Scheduled, Queued, TakenUp
  <2>2. CASE ~Dequeue
    <3>1. queue' = queue
      BY <2>2 DEF WorkerStep, Load, Reserve, Entitled, OcrDone, StartMatch, Advance,
                  StepFails, PublishRevision, MarkRead, MarkFailed, WorkerUnchanged
    <3> QED
      BY <1>2, <3>1 DEF Scheduled, Queued
  <2> QED
    BY <2>1, <2>2
<1>3. CASE TakenUp(j)
  <2>1. CASE Load
    BY <1>3, <2>1 DEF Load, WorkerAt, Submittable, TakenUp, Scheduled
  <2>2. CASE Reserve
    BY <1>3, <2>2 DEF Reserve, WorkerAt, TakenUp
  <2> QED
    BY <1>3, <2>1, <2>2
    DEF TakenUp, WorkerStep, Dequeue, Entitled, OcrDone, StartMatch, Advance, StepFails,
        PublishRevision, MarkRead, MarkFailed, WorkerAt
<1> QED
  BY <1>1, <1>2, <1>3, ScheduledIs

\* The recovery loop passes a ready job only by queueing it.
LEMMA RecoveryKeepsScheduled ==
  ASSUME TypeOK, PageHolds, RecoveryStep,
         NEW j \in Jobs, Scheduled(j), state[j] = "LocallyValidated"
  PROVE  Scheduled(j)'
<1>1. CASE TakenUp(j)
  BY <1>1
  DEF TakenUp, RecoveryStep, ListPage, RecoverItem, EnqueueItem, worker, Scheduled
<1>2. CASE Queued(j)
  <2>1. ASSUME NEW i \in Jobs, EnqueueItem(i) PROVE Queued(j)'
    BY <1>2, <2>1, AppendKeeps DEF EnqueueItem
  <2>2. ASSUME queue' = queue PROVE Queued(j)'
    BY <1>2, <2>2 DEF Queued
  <2>3. Queued(j)'
    BY <2>1, <2>2 DEF RecoveryStep, ListPage, RecoverItem
  <2> QED
    BY <2>3 DEF Queued, Scheduled
<1>3. CASE RecoveryPending(j)
  <2>1. CASE ListPage
    BY <1>3, <2>1, ListingKeeps DEF RecoverableStates, Scheduled
  <2>2. ASSUME NEW i \in Jobs, RecoverItem(i) PROVE Scheduled(j)'
    <3>0. page[i] # NoState /\ recoveryPc = "item" /\ page[i] \in InvoiceJobState
      BY <2>2 DEF TypeOK, RecoverItem, IsNextItem
    <3>1. CASE UNCHANGED <<page, after, mark>> /\ recoveryPc' = "enqueue"
      BY <1>3, <3>0, <3>1 DEF RecoveryPending, Scheduled
    <3>2. CASE /\ ItemDone(i) /\ IsNextItem(i)
               /\ FailedState(page[i]) # page[i]
      <4>1. page[i] \in InFlight
        BY <3>0, <3>2, FailedStates DEF JobState
      <4>2. j # i
        BY <3>0, <4>1 DEF PageHolds, Waiting
      <4> QED
        BY <1>3, <3>0, <3>2, <4>2, ItemKeeps DEF Scheduled
    <3> QED
      BY <2>2, <3>1, <3>2 DEF RecoverItem
  <2>3. ASSUME NEW i \in Jobs, EnqueueItem(i) PROVE Scheduled(j)'
    <3>1. IsNextItem(i) /\ ItemDone(i) /\ recoveryPc = "enqueue" /\ Queued(i)'
      BY <2>3, AppendKeeps DEF EnqueueItem
    <3>2. CASE j = i
      BY <3>1, <3>2 DEF Queued, Scheduled
    <3>3. CASE j # i
      BY <1>3, <3>1, <3>3, ItemKeeps DEF Scheduled
    <3> QED
      BY <3>2, <3>3
  <2> QED
    BY <2>1, <2>2, <2>3 DEF RecoveryStep
<1> QED
  BY <1>1, <1>2, <1>3, ScheduledIs

LEMMA ScheduledStep ==
  ASSUME IInv, Contiguous, PageHolds, OwedHolds, AcceptedFirstSubmissionScheduled,
         [Next]_vars, ~StoreMayFail
  PROVE  AcceptedFirstSubmissionScheduled'
<1>0. TypeOK /\ owed \subseteq Jobs
  BY DEF IInv, TypeOK
<1>1. SUFFICES ASSUME up', NEW j \in owed', state'[j] = "LocallyValidated"
               PROVE  Scheduled(j)'
  BY DEF AcceptedFirstSubmissionScheduled
<1>2. ASSUME NEW s \in Submitters, SubmitEnqueue(s) PROVE Scheduled(j)'
  <2>0. PICK i \in Jobs : i = submits[s].job
    BY <1>0, <1>2 DEF TypeOK, SubmitEnqueue
  <2>1. queue' = Append(queue, i)
    BY <1>2, <2>0 DEF SubmitEnqueue
  <2>2. Queued(i)' /\ \A k \in Jobs : Queued(k) => Queued(k)'
    BY <1>0, <2>1, AppendKeeps
  <2>3. CASE j = i
    BY <2>2, <2>3 DEF Queued, Scheduled
  <2>4. CASE j # i
    <3>1. j \in owed /\ j \in Jobs /\ Scheduled(j)
      BY <1>0, <1>1, <1>2, <2>0, <2>4 DEF SubmitEnqueue, AcceptedFirstSubmissionScheduled, durable
    <3>2. CASE Queued(j)
      BY <2>2, <3>1, <3>2 DEF Queued, Scheduled
    <3>3. CASE TakenUp(j) \/ RecoveryPending(j)
      BY <1>2, <3>3
      DEF SubmitEnqueue, TakenUp, RecoveryPending, worker, recovery, Scheduled
    <3> QED
      BY <3>1, <3>2, <3>3, ScheduledIs
  <2> QED
    BY <2>3, <2>4
<1>3. CASE Start
  <2>1. j \in Jobs /\ state[j] # "Absent"
    BY <1>0, <1>1, <1>3 DEF Start, durable
  <2> QED
    BY <1>0, <1>3, <2>1, StartKeeps DEF Scheduled
<1>4. CASE Stop
  BY <1>1, <1>4 DEF Stop
<1>5. ASSUME up' = up, owed' \subseteq owed
      PROVE  j \in Jobs /\ Scheduled(j) /\ state[j] = "LocallyValidated"
  <2>1. j \in owed /\ j \in Jobs /\ state[j] \notin Collecting
    BY <1>0, <1>5 DEF OwedHolds
  <2>2. state[j] = "LocallyValidated"
    BY <1>1, <2>1, ReadyStays
  <2> QED
    BY <1>1, <1>5, <2>1, <2>2 DEF AcceptedFirstSubmissionScheduled
<1>6. CASE Outside
  <2>1. UNCHANGED <<up, queue, worker, recovery, owed>>
    BY <1>0, <1>6, OutsideIsQuiet
  <2> QED
    BY <1>5, <2>1 DEF Scheduled, RecoveryPending, worker, recovery
<1>7. CASE WorkerStep
  <2>1. up' = up /\ owed' \subseteq owed
    BY <1>7
    DEF WorkerStep, Dequeue, Load, Reserve, Entitled, OcrDone, StartMatch, Advance, StepFails,
        PublishRevision, MarkRead, MarkFailed, WorkerUnchanged
  <2> QED
    BY <1>0, <1>5, <1>7, <2>1, WorkerKeepsScheduled
<1>8. CASE RecoveryStep
  <2>1. up' = up /\ owed' = owed
    BY <1>8 DEF RecoveryStep, ListPage, RecoverItem, EnqueueItem
  <2> QED
    BY <1>0, <1>5, <1>8, <2>1, RecoveryKeepsScheduled
<1> QED
  BY <1>2, <1>3, <1>4, <1>6, <1>7, <1>8, NextCases

-----------------------------------------------------------------------------
(* Theorems.                                                               *)

LEMMA RecoveryInit == Init => RInv
<1> SUFFICES ASSUME Init PROVE RInv
  OBVIOUS
<1>1. IInv
  BY InitHolds
<1>2. Contiguous /\ PageHolds /\ FailSeen
  BY DEF Init, Contiguous, PageHolds, FailSeen, EmptyPage
<1>3. OwedHolds /\ FlightHeld /\ AcceptedFirstSubmissionScheduled
  BY DEF Init, OwedHolds, FlightHeld, AcceptedFirstSubmissionScheduled, IdleSubmit
<1> QED
  BY <1>1, <1>2, <1>3 DEF RInv

LEMMA RecoveryInductive == ~StoreMayFail /\ RInv /\ [Next]_vars => RInv'
<1> SUFFICES ASSUME ~StoreMayFail, RInv, [Next]_vars PROVE RInv'
  OBVIOUS
<1>1. /\ IInv /\ Contiguous /\ PageHolds /\ FailSeen /\ OwedHolds /\ FlightHeld
      /\ AcceptedFirstSubmissionScheduled
  BY DEF RInv
<1>2. IInv'
  BY <1>1, Inductive
<1>3. Contiguous' /\ PageHolds' /\ FailSeen'
  BY <1>1, ContiguousStep, PageStep, FailSeenStep
<1>4. OwedHolds' /\ FlightHeld' /\ AcceptedFirstSubmissionScheduled'
  BY <1>1, OwedStep, FlightStep, ScheduledStep
<1> QED
  BY <1>2, <1>3, <1>4 DEF RInv

\* If no store call outside ProcessAsync's try throws, RInv always holds.
THEOREM RecoveryInvariance == ~StoreMayFail => (Spec => []RInv)
<1> SUFFICES ASSUME ~StoreMayFail PROVE Spec => []RInv
  OBVIOUS
<1>1. Init => RInv
  BY RecoveryInit
<1>2. RInv /\ [Next]_vars => RInv'
  BY RecoveryInductive
<1> QED
  BY <1>1, <1>2, PTL DEF Spec

\* Unless the store fails outside ProcessAsync's try, SidecarInitializationService
\* and the worker together leave no job stranded:
\* whatever crashes and restarts happen between their steps, every job in an
\* in-flight state is the worker's or still ahead of recovery, for any number of
\* jobs, any RecoveryBatchSize and any queue capacity.
THEOREM NoJobIsStranded == ~StoreMayFail => (Spec => []InFlightOwned)
<1> SUFFICES ASSUME ~StoreMayFail PROVE Spec => []InFlightOwned
  OBVIOUS
<1>1. RInv => InFlightOwned
  BY DEF RInv, FlightHeld, InFlightOwned, Held, Awaits
<1> QED
  BY <1>1, RecoveryInvariance, PTL

\* Under the same hypothesis a first submission answered 202 Accepted is in the queue, in the worker's
\* hands or ahead of recovery for as long as the job has not been taken up.
THEOREM FirstSubmissionIsKept ==
  ~StoreMayFail => (Spec => []AcceptedFirstSubmissionScheduled)
<1> SUFFICES ASSUME ~StoreMayFail PROVE Spec => []AcceptedFirstSubmissionScheduled
  OBVIOUS
<1>1. RInv => AcceptedFirstSubmissionScheduled
  BY DEF RInv
<1> QED
  BY <1>1, RecoveryInvariance, PTL

=============================================================================
