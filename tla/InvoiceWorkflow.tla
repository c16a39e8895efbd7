-------------------------- MODULE InvoiceWorkflow --------------------------
(***************************************************************************)
(* The Local Connector's invoice workflow: the job rows of the SQLite      *)
(* sidecar, the in-memory queue, the single background worker that runs    *)
(* ProcessAsync, the restart recovery that runs beside it, and the         *)
(* concurrent Local API requests that submit, edit and confirm.            *)
(*                                                                         *)
(* Every SQLite statement or transaction is one atomic step; everything    *)
(* the program does between two of them (an await on the SaaS platform, on *)
(* the object store or on the queue) may interleave with every other       *)
(* actor. A stop or crash loses what is in memory and nothing else.        *)
(*                                                                         *)
(* Sources: InvoiceWorkflowService.cs, InvoiceWorkflowQueue.cs,            *)
(* SqliteSidecarStore.cs and ConnectorBackgroundServices.cs under          *)
(* local-connector/src. Page upload is summarised by FinishUpload; what    *)
(* OCR and matching compute is external and only its outcome is kept.      *)
(***************************************************************************)
EXTENDS Naturals, Sequences, FiniteSets, JobStates

CONSTANTS
  NumJobs,        \* how many invoice jobs may be created
  BatchSize,      \* RecoveryBatchSize
  QueueCapacity,  \* capacity of the bounded channel
  MaxRevisions,   \* bound of the model: revisions one job may have
  Submitters,     \* concurrent submit requests
  Reviewers,      \* concurrent edit and confirm requests
  StoreMayFail    \* whether a store call outside ProcessAsync's try may throw

ASSUME NumJobsAssumption == NumJobs \in Nat
ASSUME BatchSizeAssumption == BatchSize \in Nat \ {0}
ASSUME QueueCapacityAssumption == QueueCapacity \in Nat \ {0}
ASSUME MaxRevisionsAssumption == MaxRevisions \in Nat \ {0}
ASSUME StoreMayFailAssumption == StoreMayFail \in BOOLEAN

\* A job is identified by its rowid: rows are created in rowid order.
Jobs == 1..NumJobs

\* No job, no revision (a NULL column), no snapshot.
None == 0
NoState == "none"

VARIABLES
  state,       \* invoice_jobs.state, "Absent" before the row exists
  current,     \* invoice_jobs.current_revision_id, None when NULL
  revisions,   \* the invoice_revisions rows of a job in insertion order
  audits,      \* targets of its REVISION_CONFIRMED_READ_ONLY audit events
  up,          \* whether the connector process runs
  queue,       \* the channel of InvoiceWorkflowQueue
  workerPc,    \* the step ProcessAsync is at
  workerJob,   \* the job it works on
  workerSeen,  \* the job state it read last
  recoveryPc,  \* the step restart recovery is at
  after,       \* afterStoreSequence
  mark,        \* recoveryHighWatermark
  page,        \* what the last listing read and is still to be handled
  submits,     \* the submit requests
  reviews,     \* the edit and confirm requests
  owed         \* history: jobs whose accepted submission was not yet taken up

durable  == <<state, current, revisions, audits>>
rows     == <<current, revisions, audits>>
worker   == <<workerPc, workerJob, workerSeen>>
recovery == <<recoveryPc, after, mark, page>>
calls    == <<submits, reviews>>
vars     == <<durable, up, queue, worker, recovery, calls, owed>>

JobState == InvoiceJobState \cup {"Absent"}

\* A stored revision: revision_number, the revision it was edited from,
\* whether its JSON passes ReviewRevisionGuard.EnsureConfirmable, its status.
Revision ==
  [number : Nat, source : Nat, confirmable : BOOLEAN,
   status : {"AWAITING_USER_REVIEW", "CONFIRMED"}]

WorkerPc == {"idle", "load", "reserve", "entitle", "ocr", "match", "publish", "mark", "fail"}
RecoveryPc == {"list", "item", "enqueue", "done"}
ReviewPc == {"idle", "edit", "readjob", "commit", "confirmed", "refused"}

TypeOK ==
  /\ state \in [Jobs -> JobState]
  /\ current \in [Jobs -> Nat]
  /\ revisions \in [Jobs -> Seq(Revision)]
  /\ audits \in [Jobs -> Seq(Nat)]
  /\ up \in BOOLEAN
  /\ queue \in Seq(Jobs)
  /\ Len(queue) <= QueueCapacity
  /\ workerPc \in WorkerPc
  /\ workerJob \in Jobs \cup {None}
  /\ workerPc # "idle" => workerJob \in Jobs
  /\ workerSeen \in JobState
  /\ recoveryPc \in RecoveryPc
  /\ after \in Nat
  /\ mark \in 0..NumJobs
  /\ page \in [Jobs -> InvoiceJobState \cup {NoState}]
  /\ submits \in [Submitters -> [pc : {"idle", "enqueue"}, job : Jobs \cup {None}]]
  /\ \A s \in Submitters : submits[s].pc = "enqueue" => submits[s].job \in Jobs
  /\ reviews \in [Reviewers -> [pc : ReviewPc, job : Jobs \cup {None}, rev : Nat,
                                status : {"AWAITING_USER_REVIEW", "CONFIRMED"}]]
  /\ \A r \in Reviewers : reviews[r].pc # "idle" => reviews[r].job \in Jobs
  /\ owed \subseteq Jobs

IdleSubmit == [pc |-> "idle", job |-> None]
IdleReview == [pc |-> "idle", job |-> None, rev |-> None, status |-> "AWAITING_USER_REVIEW"]
EmptyPage == [j \in Jobs |-> NoState]

Init ==
  /\ state = [j \in Jobs |-> "Absent"]
  /\ current = [j \in Jobs |-> None]
  /\ revisions = [j \in Jobs |-> <<>>]
  /\ audits = [j \in Jobs |-> <<>>]
  /\ up = FALSE
  /\ queue = <<>>
  /\ workerPc = "idle" /\ workerJob = None /\ workerSeen = "Absent"
  /\ recoveryPc = "done" /\ after = 0 /\ mark = 0 /\ page = EmptyPage
  /\ submits = [s \in Submitters |-> IdleSubmit]
  /\ reviews = [r \in Reviewers |-> IdleReview]
  /\ owed = {}

-----------------------------------------------------------------------------
(* The store: SqliteSidecarStore's conditional updates.                    *)

\* TransitionJobAsync's UPDATE ... WHERE state = $expected, after EnsureAllowed.
CanTransition(j, expected, next) ==
  /\ state[j] = expected
  /\ next = expected \/ next \in Allowed[expected]

Created == {j \in Jobs : state[j] # "Absent"}

\* Seeded faults: only the state is compared; only the revision is compared.
CanSaveOnState(j, expected, source, number) == state[j] = expected
CanSaveOnRevision(j, expected, source, number) ==
  current[j] = source /\ \A i \in DOMAIN revisions[j] : revisions[j][i].number # number

\* SaveRevisionAndTransitionJobAsync: the job row must still have the expected
\* state and current revision, and UNIQUE(job_id, revision_number) must hold.
CanSaveRevision(j, expected, source, number) ==
  /\ state[j] = expected
  /\ current[j] = source
  /\ \A i \in DOMAIN revisions[j] : revisions[j][i].number # number

SaveRevision(j, source, number, ok) ==
  /\ state' = [state EXCEPT ![j] = "AwaitingUserReview"]
  /\ current' = [current EXCEPT ![j] = Len(revisions[j]) + 1]
  /\ revisions' = [revisions EXCEPT ![j] =
       Append(@, [number |-> number, source |-> source, confirmable |-> ok,
                  status |-> "AWAITING_USER_REVIEW"])]
  /\ UNCHANGED audits

\* Seeded fault: any confirmed job counts as a replay of this confirmation.
AlreadyConfirmedLoosely(j, i) == state[j] = "Confirmed"

\* The idempotency query of ConfirmRevisionAndTransitionJobAsync: confirmed at
\* this revision, with exactly one audit event for it.
AlreadyConfirmed(j, i) ==
  /\ state[j] = "Confirmed"
  /\ current[j] = i
  /\ revisions[j][i].status = "CONFIRMED"
  /\ \E k \in DOMAIN audits[j] :
       /\ audits[j][k] = i
       /\ \A n \in DOMAIN audits[j] : audits[j][n] = i => n = k

\* Seeded faults: the current revision, or the job state, is not compared.
CanConfirmAnyRevision(j, i) ==
  state[j] = "AwaitingUserReview" /\ revisions[j][i].status = "AWAITING_USER_REVIEW"
CanConfirmInAnyState(j, i) == current[j] = i

\* The WHERE clauses of its two UPDATEs; either one failing rolls both back.
CanConfirm(j, i) ==
  /\ state[j] = "AwaitingUserReview"
  /\ current[j] = i
  /\ revisions[j][i].status = "AWAITING_USER_REVIEW"

-----------------------------------------------------------------------------
(* Capture, as far as the workflow sees it.                                *)

\* CreateJobAsync: the next row.
CreateJob(j) ==
  /\ up
  /\ state[j] = "Absent"
  /\ \A k \in 1..(j - 1) : state[k] # "Absent"
  /\ state' = [state EXCEPT ![j] = "Captured"]
  /\ UNCHANGED <<rows, up, queue, worker, recovery, calls, owed>>

\* FinalizePageUploadAsync stores the last missing page and moves the job on.
FinishUpload(j) ==
  /\ up
  /\ state[j] = "Captured"
  /\ state' = [state EXCEPT ![j] = "LocallyValidated"]
  /\ UNCHANGED <<rows, up, queue, worker, recovery, calls, owed>>

-----------------------------------------------------------------------------
(* SubmitAsync: read the job, then enqueue it, waiting while the channel is *)
(* full. A job in another state is refused without any effect.              *)

SubmitRead(s, j) ==
  /\ up
  /\ submits[s].pc = "idle"
  /\ state[j] \in Submittable
  /\ submits' = [submits EXCEPT ![s] = [pc |-> "enqueue", job |-> j]]
  /\ UNCHANGED <<durable, up, queue, worker, recovery, reviews, owed>>

\* Seeded fault: the writer does not wait for room.
SubmitEnqueueUnbounded(s) ==
  /\ submits[s].pc = "enqueue"
  /\ queue' = Append(queue, submits[s].job)
  /\ owed' = owed \cup {submits[s].job}
  /\ submits' = [submits EXCEPT ![s] = IdleSubmit]
  /\ UNCHANGED <<durable, up, worker, recovery, reviews>>

\* EnqueueAsync returns and the request is answered 202 Accepted.
SubmitEnqueue(s) ==
  /\ submits[s].pc = "enqueue"
  /\ Len(queue) < QueueCapacity
  /\ queue' = Append(queue, submits[s].job)
  /\ owed' = owed \cup {submits[s].job}
  /\ submits' = [submits EXCEPT ![s] = IdleSubmit]
  /\ UNCHANGED <<durable, up, worker, recovery, reviews>>

\* The caller disconnects while its request waits for room.
SubmitAborted(s) ==
  /\ submits[s].pc = "enqueue"
  /\ submits' = [submits EXCEPT ![s] = IdleSubmit]
  /\ UNCHANGED <<durable, up, queue, worker, recovery, reviews, owed>>

-----------------------------------------------------------------------------
(* The worker: one job at a time, ProcessAsync step by step.               *)

WorkerUnchanged == <<up, queue, recovery, calls>>

WorkerAt(pc) == workerPc = pc

\* The state read earlier is not used again after this step.
GoTo(pc) ==
  /\ workerPc' = pc
  /\ workerSeen' = "Absent"
  /\ UNCHANGED workerJob

\* ProcessAsync returns or throws: the loop awaits the next queue entry.
Finish == workerPc' = "idle" /\ workerJob' = None /\ workerSeen' = "Absent"

Dequeue ==
  /\ up
  /\ WorkerAt("idle")
  /\ queue # <<>>
  /\ workerPc' = "load" /\ workerJob' = Head(queue) /\ workerSeen' = "Absent"
  /\ queue' = Tail(queue)
  /\ UNCHANGED <<durable, up, recovery, calls, owed>>

\* The first read: a job that needs no processing is skipped.
Load ==
  /\ WorkerAt("load")
  /\ IF state[workerJob] \in Submittable
       THEN /\ workerPc' = "reserve" /\ workerSeen' = state[workerJob]
            /\ UNCHANGED <<workerJob, owed>>
       ELSE /\ Finish
            /\ owed' = owed \ {workerJob}
  /\ UNCHANGED <<durable, WorkerUnchanged>>

\* The compare-and-set from the state just read to OcrReserved.
Reserve ==
  /\ WorkerAt("reserve")
  /\ owed' = owed \ {workerJob}
  /\ IF CanTransition(workerJob, workerSeen, "OcrReserved")
       THEN state' = [state EXCEPT ![workerJob] = "OcrReserved"] /\ GoTo("entitle")
       ELSE UNCHANGED state /\ Finish
  /\ UNCHANGED <<rows, WorkerUnchanged>>

\* A step inside ProcessAsync's try: the preceding external call succeeded, and
\* RequireTransitionAsync moves the job on or throws STATE_CONFLICT.
Advance(from, expected, next, to) ==
  /\ WorkerAt(from)
  /\ IF CanTransition(workerJob, expected, next)
       THEN state' = [state EXCEPT ![workerJob] = next] /\ GoTo(to)
       ELSE UNCHANGED state /\ GoTo("mark")
  /\ UNCHANGED <<rows, WorkerUnchanged, owed>>

Entitled  == Advance("entitle", "OcrReserved", "OcrProcessing", "ocr")
OcrDone   == Advance("ocr", "OcrProcessing", "OcrValidated", "match")
StartMatch == Advance("match", "OcrValidated", "Matching", "publish")

\* Any exception inside the try: the entitlement or OCR call fails or times
\* out, a page object is unreadable, the draft cannot be built, the store throws.
StepFails ==
  /\ workerPc \in {"entitle", "ocr", "match", "publish"}
  /\ GoTo("mark")
  /\ UNCHANGED <<durable, WorkerUnchanged, owed>>

\* BuildRevisionAsync succeeded: publish the first revision or STATE_CONFLICT.
PublishRevision ==
  /\ WorkerAt("publish")
  /\ IF CanSaveRevision(workerJob, "Matching", None, 1)
       THEN (\E ok \in BOOLEAN : SaveRevision(workerJob, None, 1, ok)) /\ Finish
       ELSE UNCHANGED durable /\ GoTo("mark")
  /\ UNCHANGED <<WorkerUnchanged, owed>>

\* MarkFailedAsync reads the state ...
MarkRead ==
  /\ WorkerAt("mark")
  /\ IF FailedState(state[workerJob]) = state[workerJob]
       THEN Finish
       ELSE workerPc' = "fail" /\ workerSeen' = state[workerJob] /\ UNCHANGED workerJob
  /\ UNCHANGED <<durable, WorkerUnchanged, owed>>

\* ... and compare-and-sets it to the failed state, ignoring the result.
MarkFailed ==
  /\ WorkerAt("fail")
  /\ IF CanTransition(workerJob, workerSeen, FailedState(workerSeen))
       THEN state' = [state EXCEPT ![workerJob] = FailedState(workerSeen)]
       ELSE UNCHANGED state
  /\ Finish
  /\ UNCHANGED <<rows, WorkerUnchanged, owed>>

\* A store call outside the try, or in MarkFailedAsync, throws: the exception
\* reaches the worker loop, which logs it and takes the next queue entry.
StoreThrows ==
  /\ StoreMayFail
  /\ workerPc \in {"load", "reserve", "mark", "fail"}
  /\ Finish
  /\ UNCHANGED <<durable, WorkerUnchanged, owed>>

WorkerStep ==
  \/ Dequeue \/ Load \/ Reserve \/ Entitled \/ OcrDone \/ StartMatch
  \/ StepFails \/ PublishRevision \/ MarkRead \/ MarkFailed

-----------------------------------------------------------------------------
(* Restart recovery: SidecarInitializationService.                         *)

\* The loop has ended; its variables are gone.
RecoveryOver == recoveryPc' = "done" /\ after' = 0 /\ mark' = 0 /\ page' = EmptyPage

\* StartAsync takes the high watermark; then the worker, the recovery loop and
\* the API run concurrently.
Start ==
  /\ ~up
  /\ up' = TRUE
  /\ mark' = Cardinality(Created)
  /\ recoveryPc' = "list" /\ after' = 0 /\ page' = EmptyPage
  /\ UNCHANGED <<durable, queue, worker, calls, owed>>

\* The process stops, gracefully or not: the queue, the worker's position, the
\* recovery loop and the requests in progress are gone.
Stop ==
  /\ up
  /\ up' = FALSE
  /\ queue' = <<>>
  /\ Finish
  /\ RecoveryOver
  /\ submits' = [s \in Submitters |-> IdleSubmit]
  /\ reviews' = [r \in Reviewers |-> IdleReview]
  /\ UNCHANGED <<durable, owed>>

\* Seeded fault: the watermark row itself is left out.
CandidatesBelowMark == {j \in Jobs : after < j /\ j < mark /\ state[j] \in RecoverableStates}

\* The rows one ListJobsByStatePageAsync returns: the first BatchSize of them.
Candidates == {j \in Jobs : after < j /\ j <= mark /\ state[j] \in RecoverableStates}
Listed == {j \in Candidates : Cardinality({k \in Candidates : k < j}) < BatchSize}

\* The loop ends when the watermark is reached or nothing is left to recover.
ListPage ==
  /\ recoveryPc = "list"
  /\ IF Listed = {}
       THEN RecoveryOver
       ELSE /\ recoveryPc' = "item"
            /\ page' = [j \in Jobs |-> IF j \in Listed THEN state[j] ELSE NoState]
            /\ UNCHANGED <<after, mark>>
  /\ UNCHANGED <<durable, up, queue, worker, calls, owed>>

\* The next item of the page, in rowid order.
IsNextItem(j) == page[j] # NoState /\ \A k \in 1..(j - 1) : page[k] = NoState

PageWithout(j) == [page EXCEPT ![j] = NoState]

\* Seeded fault: the cursor jumps to the watermark.
ItemDoneToMark(j) ==
  /\ page' = PageWithout(j)
  /\ after' = mark
  /\ recoveryPc' = IF PageWithout(j) = EmptyPage THEN "list" ELSE "item"
  /\ UNCHANGED mark

\* The item is done: the next one, or the next page.
ItemDone(j) ==
  /\ page' = PageWithout(j)
  /\ after' = j
  /\ recoveryPc' = IF PageWithout(j) = EmptyPage THEN "list" ELSE "item"
  /\ UNCHANGED mark

\* An interrupted job falls back to its failed state before it is queued again;
\* a job whose state changed since the listing is skipped.
RecoverItem(j) ==
  /\ recoveryPc = "item"
  /\ IsNextItem(j)
  /\ IF FailedState(page[j]) = page[j]
       THEN recoveryPc' = "enqueue" /\ UNCHANGED <<state, page, after, mark>>
       ELSE IF CanTransition(j, page[j], FailedState(page[j]))
              THEN /\ state' = [state EXCEPT ![j] = FailedState(page[j])]
                   /\ recoveryPc' = "enqueue"
                   /\ UNCHANGED <<page, after, mark>>
              ELSE ItemDone(j) /\ UNCHANGED state
  /\ UNCHANGED <<rows, up, queue, worker, calls, owed>>

EnqueueItem(j) ==
  /\ recoveryPc = "enqueue"
  /\ IsNextItem(j)
  /\ Len(queue) < QueueCapacity
  /\ queue' = Append(queue, j)
  /\ ItemDone(j)
  /\ UNCHANGED <<durable, up, worker, calls, owed>>

RecoveryStep == ListPage \/ \E j \in Jobs : RecoverItem(j) \/ EnqueueItem(j)

-----------------------------------------------------------------------------
(* Review requests.                                                        *)

\* A request may arrive when its predecessor was answered.
Free(r) == reviews[r].pc \in {"idle", "confirmed", "refused"}

Answer(r, pc) == reviews' = [reviews EXCEPT ![r].pc = pc]
Done(r) == reviews' = [reviews EXCEPT ![r] = IdleReview]

\* SaveEditedRevisionAsync: the job must await review at the edited revision.
\* A request that fails this test has no effect.
EditRead(r, j, i) ==
  /\ up
  /\ Free(r)
  /\ i \in DOMAIN revisions[j]
  /\ state[j] = "AwaitingUserReview"
  /\ current[j] = i
  /\ reviews' = [reviews EXCEPT ![r] =
       [pc |-> "edit", job |-> j, rev |-> i, status |-> IdleReview.status]]
  /\ UNCHANGED <<durable, up, queue, worker, recovery, submits, owed>>

\* A request ends without effect: the guard refuses the edit, the row changed
\* since it was read, the store throws, or the caller disconnects.
RequestEnds(r) ==
  /\ reviews[r].pc \in {"edit", "readjob", "commit"}
  /\ Done(r)
  /\ UNCHANGED <<durable, up, queue, worker, recovery, submits, owed>>

\* The guard accepts it and the compare-and-set stores the next revision.
EditSave(r) ==
  LET j == reviews[r].job
      i == reviews[r].rev
      number == revisions[j][i].number + 1
  IN
  /\ reviews[r].pc = "edit"
  /\ Len(revisions[j]) < MaxRevisions
  /\ CanSaveRevision(j, "AwaitingUserReview", i, number)
  /\ \E ok \in BOOLEAN : SaveRevision(j, i, number, ok)
  /\ Done(r)
  /\ UNCHANGED <<up, queue, worker, recovery, submits, owed>>

\* ConfirmRevisionAsync reads the revision row first ...
ConfirmReadRevision(r, j, i) ==
  /\ up
  /\ Free(r)
  /\ i \in DOMAIN revisions[j]
  /\ reviews' = [reviews EXCEPT ![r] =
       [pc |-> "readjob", job |-> j, rev |-> i, status |-> revisions[j][i].status]]
  /\ UNCHANGED <<durable, up, queue, worker, recovery, submits, owed>>

\* ... then the job row, and checks the two against each other: the revision is
\* current, and either awaits review and is confirmable, or was already confirmed.
ConfirmReadJob(r) ==
  LET j == reviews[r].job
      i == reviews[r].rev
      ready == \/ state[j] = "AwaitingUserReview" /\ revisions[j][i].confirmable
               \/ state[j] = "Confirmed" /\ reviews[r].status = "CONFIRMED"
  IN
  /\ reviews[r].pc = "readjob"
  /\ Answer(r, IF current[j] = i /\ ready THEN "commit" ELSE "refused")
  /\ UNCHANGED <<durable, up, queue, worker, recovery, submits, owed>>

\* One transaction: nothing to do, or job, revision and audit event together.
ConfirmCommit(r) ==
  LET j == reviews[r].job
      i == reviews[r].rev
  IN
  /\ reviews[r].pc = "commit"
  /\ \/ /\ AlreadyConfirmed(j, i)
        /\ Answer(r, "confirmed")
        /\ UNCHANGED durable
     \/ /\ CanConfirm(j, i)
        /\ state' = [state EXCEPT ![j] = "Confirmed"]
        /\ revisions' = [revisions EXCEPT ![j][i].status = "CONFIRMED"]
        /\ audits' = [audits EXCEPT ![j] = Append(@, i)]
        /\ Answer(r, "confirmed")
        /\ UNCHANGED current
     \/ /\ ~AlreadyConfirmed(j, i)
        /\ ~CanConfirm(j, i)
        /\ Answer(r, "refused")
        /\ UNCHANGED durable
  /\ UNCHANGED <<up, queue, worker, recovery, submits, owed>>

ReviewStep(r) ==
  \/ RequestEnds(r) \/ EditSave(r) \/ ConfirmReadJob(r) \/ ConfirmCommit(r)
  \/ \E j \in Jobs, i \in 1..MaxRevisions : EditRead(r, j, i) \/ ConfirmReadRevision(r, j, i)

-----------------------------------------------------------------------------
Next ==
  \/ \E j \in Jobs : CreateJob(j) \/ FinishUpload(j)
  \/ \E s \in Submitters : SubmitEnqueue(s) \/ SubmitAborted(s) \/ \E j \in Jobs : SubmitRead(s, j)
  \/ WorkerStep
  \/ StoreThrows
  \/ RecoveryStep
  \/ \E r \in Reviewers : ReviewStep(r)
  \/ Start
  \/ Stop

Spec == Init /\ [][Next]_vars

\* The worker loop and the recovery loop are never suspended while the process
\* runs, and every external call returns (the HTTP client times out after three
\* minutes). Writers waiting on the full channel are served in arrival order,
\* so an enqueue cannot be passed over for ever: strong fairness. Nothing is
\* assumed of users, of uploads or of restarts.
Fairness ==
  /\ WF_vars(WorkerStep)
  /\ WF_vars(RecoveryStep)
  /\ SF_vars(\E j \in Jobs : EnqueueItem(j))
  /\ \A s \in Submitters : SF_vars(SubmitEnqueue(s))

FairSpec == Spec /\ Fairness

-----------------------------------------------------------------------------
(* Safety.                                                                 *)

\* The revision history of every job is a chain: numbers 1, 2, 3, ... without a
\* gap or a repeat, each revision edited from its immediate predecessor, the
\* current one the last, and none before publication. Concurrent edits from the
\* same source must not both succeed or fork the history (SaveEditedRevisionAsync).
ReviewChain ==
  \A j \in Jobs :
    /\ current[j] = Len(revisions[j])
    /\ (state[j] \in {"AwaitingUserReview", "Confirmed"}) <=> (revisions[j] # <<>>)
    /\ \A i \in DOMAIN revisions[j] :
         revisions[j][i].number = i /\ revisions[j][i].source = i - 1

\* A confirmed job has exactly one confirmed revision, the current one, it was
\* confirmable, and exactly one audit event names it; a job that is not
\* confirmed has neither (ConfirmRevisionAndTransitionJobAsync).
ConfirmedExactlyOnce ==
  \A j \in Jobs :
    /\ audits[j] = IF state[j] = "Confirmed" THEN <<current[j]>> ELSE <<>>
    /\ \A i \in DOMAIN revisions[j] :
         (revisions[j][i].status = "CONFIRMED") <=> (state[j] = "Confirmed" /\ i = current[j])
    /\ state[j] = "Confirmed" => revisions[j][current[j]].confirmable

\* A confirm request answered with success speaks of a job that is confirmed at
\* the revision the caller named (ConfirmRevisionAsync).
ConfirmAnswerIsTrue ==
  \A r \in Reviewers :
    reviews[r].pc = "confirmed" =>
      /\ state[reviews[r].job] = "Confirmed"
      /\ current[reviews[r].job] = reviews[r].rev

\* Recovery has yet to handle job j: it is on the page, or behind it.
RecoveryPending(j) ==
  \/ recoveryPc \in {"item", "enqueue"} /\ page[j] # NoState
  \/ /\ recoveryPc # "done"
     /\ after < j /\ j <= mark
     /\ \A k \in Jobs : page[k] # NoState => k < j

\* While the connector runs, a job in an in-flight state belongs to the worker
\* or is still ahead of restart recovery. Otherwise nobody would ever move it:
\* it can be neither submitted nor confirmed until the next restart.
InFlightOwned ==
  up => \A j \in Jobs :
    state[j] \in InFlight =>
      \/ workerPc \notin {"idle", "load", "reserve"} /\ workerJob = j
      \/ RecoveryPending(j) /\ page[j] \in {NoState, state[j]}

\* A submission that was accepted is still going to be taken up.
Scheduled(j) ==
  \/ \E n \in DOMAIN queue : queue[n] = j
  \/ workerPc \in {"load", "reserve"} /\ workerJob = j
  \/ RecoveryPending(j)

\* The first submission of an invoice, once accepted, survives restarts: while
\* the connector runs, the job is queued or recovery will queue it.
AcceptedFirstSubmissionScheduled ==
  up => \A j \in owed : state[j] = "LocallyValidated" => Scheduled(j)

\* The same for every accepted submission, retries of a failed job included.
AcceptedSubmissionScheduled ==
  up => \A j \in owed : Scheduled(j)

-----------------------------------------------------------------------------
(* Action properties.                                                      *)

\* A confirmed invoice is frozen: no worker, recovery, edit, second confirm or
\* restart changes its row, its revisions or its audit trail.
ConfirmedIsFrozen ==
  [][\A j \in Jobs : state[j] = "Confirmed" =>
       /\ state'[j] = "Confirmed"
       /\ current'[j] = current[j]
       /\ revisions'[j] = revisions[j]
       /\ audits'[j] = audits[j]]_vars

\* Restart recovery moves only jobs whose processing was interrupted, never one
\* the running worker holds.
RecoveryTouchesOnlyInterrupted ==
  [][\A j \in Jobs :
       (RecoverItem(j) /\ state'[j] # state[j]) =>
          ~(workerPc # "idle" /\ workerJob = j)]_vars

\* A confirm request that names the confirmed revision is not refused.
RepeatedConfirmAccepted ==
  [][\A r \in Reviewers :
       (reviews[r].pc \in {"readjob", "commit"} /\ reviews'[r].pc = "refused") =>
          ~(state[reviews[r].job] = "Confirmed" /\ current[reviews[r].job] = reviews[r].rev)]_vars

-----------------------------------------------------------------------------
(* Liveness, for executions in which the connector eventually stays up.    *)

\* No job stays in flight for ever: whatever was interrupted, and whoever raced
\* with whom, it reaches review or a failed state it can be retried from.
InFlightEnds ==
  (<>[]up) => \A j \in Jobs : (state[j] \in InFlight) ~> (state[j] \notin InFlight)

\* The first submission of an invoice, once accepted, is eventually processed,
\* through any number of restarts and a queue that fills up.
FirstSubmissionProcessed ==
  (<>[]up) =>
    \A j \in Jobs :
      (j \in owed /\ state[j] = "LocallyValidated") ~> (state[j] # "LocallyValidated")

-----------------------------------------------------------------------------
(* Refinement.                                                             *)

PhaseOf(s) ==
  CASE s = "Absent"             -> "absent"
    [] s = "Captured"           -> "collecting"
    [] s = "LocallyValidated"   -> "ready"
    [] s \in InFlight           -> "working"
    [] s = "AwaitingUserReview" -> "review"
    [] s = "Confirmed"          -> "confirmed"
    [] OTHER                    -> "failed"

Ledger == INSTANCE ReviewLedger WITH
  phase     <- [j \in Jobs |-> PhaseOf(state[j])],
  length    <- [j \in Jobs |-> Len(revisions[j])],
  confirmed <- [j \in Jobs |-> IF state[j] = "Confirmed" THEN revisions[j][current[j]].number ELSE 0],
  audited   <- [j \in Jobs |-> Len(audits[j])]

\* The workflow implements the ledger: published once, edited one revision at a
\* time, confirmed once at the latest revision with one audit event.
ImplementsLedger == Ledger!LedgerSpec


=============================================================================
