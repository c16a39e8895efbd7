--------------------------- MODULE AndroidUpload ---------------------------
(***************************************************************************)
(* The upload of captured invoices from the Android phone: the drafts in   *)
(* its database, the unique WorkManager work of each draft and its worker, *)
(* the pairing and the access token the workers share, and as much of the  *)
(* Local Connector as they talk to.                                        *)
(*                                                                         *)
(* The process of the app may die anywhere: running work is started again  *)
(* and what was only in memory is gone. A request may be lost, or its      *)
(* answer. The user pairs, forgets the pairing and retries; a technician   *)
(* revokes devices; the connector processes submitted jobs.                *)
(*                                                                         *)
(* Sources: android-client data/InvoiceUploadWorker.kt,                    *)
(* data/PharmaAutoDatabase.kt, data/PharmaAutoRepository.kt,               *)
(* network/ConnectorSessionRepository.kt, ui/PharmaAutoApp.kt; and         *)
(* Connector.LocalApi, InvoiceWorkflowService.cs and                       *)
(* PairingAndAuthenticationServices.cs of the connector. A page is one     *)
(* request here (ChunkUpload has its chunks), and the connector's          *)
(* processing is its outcome (InvoiceWorkflow has its steps).              *)
(***************************************************************************)
EXTENDS Naturals, FiniteSets, Sequences

CONSTANTS
  Drafts,      \* captured invoices
  PageCount,   \* the pages of each
  MaxDevices,  \* bound of the model: how often the phone is paired
  MaxRetries,  \* bound of the model: how often the user retries
  MaxFaults    \* bound of the model: app deaths, failed requests and slow jobs, all together

ASSUME PageCountAssumption == PageCount \in Nat \ {0}
ASSUME BoundsAssumption == MaxDevices \in Nat /\ MaxRetries \in Nat /\ MaxFaults \in Nat

VARIABLES
  draft,    \* the rows of invoice_drafts and invoice_pages
  work,     \* WorkManager's unique work of a draft
  worker,   \* the run of a draft's worker
  ui,       \* what the app is doing for a draft
  profile,  \* the device the phone is paired as
  token,    \* the device its cached access token is of
  jobs,     \* the connector's invoice jobs, in the order of their creation
  paired,   \* how many devices the connector has registered
  revoked,  \* those it has revoked
  retries,  \* how often the user has retried
  overtaken,\* history: drafts that were retried while a run of theirs was under way
  faults    \* how many faults have happened

phone == <<draft, work, worker, ui, profile, token>>
connector == <<jobs, paired, revoked>>
retried == <<retries, overtaken>>
vars == <<phone, connector, retried, faults>>

Pages == 1..PageCount
NoJob == 0
NoDevice == 0

FailedStates == {"OCR_FAILED", "MATCHING_FAILED"}
JobStates ==
  {"CAPTURED", "LOCALLY_VALIDATED", "OCR_PROCESSING", "AWAITING_USER_REVIEW"} \cup FailedStates
DraftStates ==
  {"NONE", "LOCAL_DRAFT", "UPLOADING", "PROCESSING", "PAIRING_REQUIRED", "REJECTED"} \cup JobStates

\* What the connector may be asked to submit, and what the app offers to retry.
Submittable == {"LOCALLY_VALIDATED"} \cup FailedStates
Retryable == {"PAIRING_REQUIRED", "OCR_FAILED"}

Fault == faults < MaxFaults /\ faults' = faults + 1

\* Seeded fault: a fresh draft has a state that nothing knows.
FreshDraftMisnamed == [state |-> "DRAFT", job |-> NoJob, uploaded |-> {}, revision |-> FALSE]

NoDraft == [state |-> "NONE", job |-> NoJob, uploaded |-> {}, revision |-> FALSE]
FreshDraft == [NoDraft EXCEPT !.state = "LOCAL_DRAFT"]

\* at: the request it is about to make, or the local step; job, todo: what it
\* has read and keeps; device: whom it is authenticating as; bearer: whose token
\* the request carries; forced: whether the token was renewed for this request.
NoWorker ==
  [at |-> "none", job |-> NoJob, todo |-> {}, device |-> NoDevice, bearer |-> NoDevice, forced |-> FALSE]

Requests == {"create", "upload", "submit", "poll", "revision"}

Init ==
  /\ draft = [d \in Drafts |-> NoDraft]
  /\ work = [d \in Drafts |-> "none"]
  /\ worker = [d \in Drafts |-> NoWorker]
  /\ ui = [d \in Drafts |-> "idle"]
  /\ profile = NoDevice /\ token = NoDevice
  /\ jobs = <<>>
  /\ paired = 0 /\ revoked = {}
  /\ retries = 0 /\ overtaken = {} /\ faults = 0

-----------------------------------------------------------------------------
(* The app.                                                                *)

SetDraftState(d, state) == draft' = [draft EXCEPT ![d].state = state]

\* createDraft and then enqueueUpload, two steps: the app may die in between.
CreateDraft(d) ==
  /\ draft[d].state = "NONE" /\ profile # NoDevice
  /\ draft' = [draft EXCEPT ![d] = FreshDraft]
  /\ ui' = [ui EXCEPT ![d] = "enqueue"]
  /\ UNCHANGED <<work, worker, profile, token, connector, retried, faults>>

\* A run of the worker is under way, with what it read of the draft at its start.
InRun(d) == worker[d].at \notin {"none", "ending"}

\* Seeded fault: the pages stay marked.
RetryKeepingPages(d) ==
  /\ draft[d].state \in Retryable /\ profile # NoDevice
  /\ ui[d] = "idle" /\ retries < MaxRetries
  /\ retries' = retries + 1
  /\ overtaken' = IF InRun(d) THEN overtaken \cup {d} ELSE overtaken
  /\ draft' = [draft EXCEPT ![d] = [FreshDraft EXCEPT !.uploaded = draft[d].uploaded]]
  /\ ui' = [ui EXCEPT ![d] = "enqueue"]
  /\ UNCHANGED <<work, worker, profile, token, connector, faults>>

\* retryUpload: the pages have to be sent again, to a job of their own. A run that
\* is under way goes on with the job it has read.
Retry(d) ==
  /\ draft[d].state \in Retryable /\ profile # NoDevice
  /\ ui[d] = "idle" /\ retries < MaxRetries
  /\ retries' = retries + 1
  /\ overtaken' = IF InRun(d) THEN overtaken \cup {d} ELSE overtaken
  /\ draft' = [draft EXCEPT ![d] = FreshDraft]
  /\ ui' = [ui EXCEPT ![d] = "enqueue"]
  /\ UNCHANGED <<work, worker, profile, token, connector, faults>>

\* ExistingWorkPolicy.KEEP: work that has not ended is left alone.
EnqueueUpload(d) ==
  /\ ui[d] = "enqueue"
  /\ ui' = [ui EXCEPT ![d] = "idle"]
  /\ work' = [work EXCEPT ![d] = IF @ \in {"none", "finished"} THEN "enqueued" ELSE @]
  /\ UNCHANGED <<draft, worker, profile, token, connector, retried, faults>>

\* claimPairing: the connector registers the device before the phone hears of
\* it; the answer may not arrive.
ClaimPairing ==
  /\ profile = NoDevice /\ paired < MaxDevices
  /\ paired' = paired + 1
  /\ \/ profile' = paired' /\ token' = NoDevice
     \/ UNCHANGED <<profile, token>>
  /\ UNCHANGED <<draft, work, worker, ui, jobs, revoked, retried, faults>>

ForgetPairing ==
  /\ profile # NoDevice
  /\ profile' = NoDevice /\ token' = NoDevice
  /\ UNCHANGED <<draft, work, worker, ui, connector, retried, faults>>

\* The process dies: WorkManager runs again what was running.
AppStop ==
  /\ Fault
  /\ worker' = [d \in Drafts |-> NoWorker]
  /\ work' = [d \in Drafts |-> IF work[d] = "running" THEN "enqueued" ELSE work[d]]
  /\ ui' = [d \in Drafts |-> "idle"]
  /\ token' = NoDevice
  /\ UNCHANGED <<draft, profile, connector, retried>>

-----------------------------------------------------------------------------
(* The worker between its requests. A run reads the draft once.            *)

\* Result.failure or Result.success, still to be recorded by WorkManager.
Ending == [NoWorker EXCEPT !.at = "ending"]

\* The page a run is at: the first of those it has still to send.
IsAt(d, page) == page \in worker[d].todo /\ \A other \in worker[d].todo : page <= other

FirstRequest(job, todo) ==
  IF job = NoJob THEN "create" ELSE IF todo # {} THEN "upload" ELSE "submit"

Start(d) ==
  LET todo == Pages \ draft[d].uploaded
  IN /\ work[d] = "enqueued"
     /\ work' = [work EXCEPT ![d] = "running"]
     /\ IF profile = NoDevice
          THEN /\ SetDraftState(d, "PAIRING_REQUIRED")
               /\ worker' = [worker EXCEPT ![d] = Ending]
          ELSE /\ worker' = [worker EXCEPT ![d] = [NoWorker EXCEPT
                    !.at = FirstRequest(draft[d].job, todo), !.job = draft[d].job, !.todo = todo]]
               /\ UNCHANGED draft
     /\ UNCHANGED <<ui, profile, token, connector, retried, faults>>

\* Result.retry: the work is run again from its start, after a pause.
RetryLater(d) ==
  /\ worker' = [worker EXCEPT ![d] = NoWorker]
  /\ work' = [work EXCEPT ![d] = "enqueued"]

Fail(d, state) ==
  /\ SetDraftState(d, state)
  /\ worker' = [worker EXCEPT ![d] = Ending]
  /\ UNCHANGED work

\* The next request, with a token still to be got.
GoTo(d, at) ==
  worker' = [worker EXCEPT ![d] = [@ EXCEPT !.at = at, !.bearer = NoDevice, !.forced = FALSE]]

\* Seeded fault: the identifier of the job is kept by the worker only.
AttachInMemory(d) ==
  /\ worker[d].at = "attach"
  /\ SetDraftState(d, "CAPTURED")
  /\ GoTo(d, FirstRequest(worker[d].job, worker[d].todo))
  /\ UNCHANGED <<work, ui, profile, token, connector, retried, faults>>

AttachRemoteJob(d) ==
  /\ worker[d].at = "attach"
  /\ draft' = [draft EXCEPT ![d].job = worker[d].job, ![d].state = "CAPTURED"]
  /\ GoTo(d, FirstRequest(worker[d].job, worker[d].todo))
  /\ UNCHANGED <<work, ui, profile, token, connector, retried, faults>>

\* The page is marked, then the draft: what shows progress is one step here.
MarkPageUploaded(d) ==
  /\ worker[d].at = "mark"
  /\ \E page \in Pages :
       /\ IsAt(d, page)
       /\ draft' = [draft EXCEPT ![d].uploaded = @ \cup {page}, ![d].state = "UPLOADING"]
       /\ worker' = [worker EXCEPT
            ![d].at = FirstRequest(worker[d].job, worker[d].todo \ {page}), ![d].todo = @ \ {page}]
  /\ UNCHANGED <<work, ui, profile, token, connector, retried, faults>>

End(d) ==
  /\ worker[d].at = "ending"
  /\ worker' = [worker EXCEPT ![d] = NoWorker]
  /\ work' = [work EXCEPT ![d] = "finished"]
  /\ UNCHANGED <<draft, ui, profile, token, connector, retried, faults>>

-----------------------------------------------------------------------------
(* authorization(): the token is shared by the workers, one of them at a   *)
(* time may renew it.                                                      *)

NeedsToken(d) ==
  /\ worker[d].at \in Requests /\ worker[d].bearer = NoDevice
  /\ \A e \in Drafts : worker[e].device = NoDevice

UseToken(d) ==
  /\ NeedsToken(d) /\ token # NoDevice /\ ~worker[d].forced
  /\ worker' = [worker EXCEPT ![d].bearer = token]
  /\ UNCHANGED <<draft, work, ui, profile, token, connector, retried, faults>>

\* There is no token, it was refused, or it has run out.
AskChallenge(d) ==
  /\ NeedsToken(d) /\ profile # NoDevice
  /\ worker' = [worker EXCEPT ![d].device = profile]
  /\ UNCHANGED <<draft, work, ui, profile, token, connector, retried, faults>>

\* Without a profile it throws what doWork does not catch.
NotPaired(d) ==
  /\ NeedsToken(d) /\ profile = NoDevice
  /\ token = NoDevice \/ worker[d].forced
  /\ worker' = [worker EXCEPT ![d] = Ending]
  /\ UNCHANGED <<draft, work, ui, profile, token, connector, retried, faults>>

\* A device that is not registered any more is forgotten by the phone.
ExchangeToken(d) ==
  LET device == worker[d].device
  IN /\ device # NoDevice
     /\ \/ /\ device \notin revoked
           /\ token' = device
           /\ worker' = [worker EXCEPT ![d].device = NoDevice, ![d].bearer = device]
           /\ UNCHANGED <<draft, work, profile>>
        \/ /\ device \in revoked
           /\ token' = NoDevice /\ profile' = NoDevice
           /\ Fail(d, "PAIRING_REQUIRED")
     /\ UNCHANGED <<ui, connector, retried, faults>>

-----------------------------------------------------------------------------
(* Requests to the connector. A request takes effect in one step with its  *)
(* answer, which the worker may miss.                                      *)

Accepted(d) == worker[d].bearer # NoDevice /\ worker[d].bearer \notin revoked

Complete(job) == job.pages = Pages

\* A job of another device: the connector has no authentication scheme for its
\* Forbid, so the answer is 500, which is tried again.
Mine(d) == jobs[worker[d].job].device = worker[d].bearer

SetJob(d, job) == jobs' = [jobs EXCEPT ![worker[d].job] = job]

\* The connector's side of a request, and whether it takes it.
CreateInvoiceJob(d) ==
  jobs' = Append(jobs, [draft |-> d, device |-> worker[d].bearer, state |-> "CAPTURED",
                        pages |-> {}, queued |-> 0])

\* Seeded fault: a page that is there already is refused.
TakesNewPage(job, page) == job.state = "CAPTURED" /\ page \notin job.pages

TakesPage(job, page) == job.state = "CAPTURED"

UploadPage(d, page) ==
  LET job == jobs[worker[d].job]
      pages == job.pages \cup {page}
  IN SetJob(d, [job EXCEPT !.pages = pages,
                           !.state = IF pages = Pages THEN "LOCALLY_VALIDATED" ELSE @])

SubmitInvoiceJob(d) == SetJob(d, [jobs[worker[d].job] EXCEPT !.queued = @ + 1])

\* The request may be lost, or answered 429 or 5xx: nothing has happened.
RequestFails(d) ==
  /\ worker[d].at \in Requests /\ (worker[d].bearer # NoDevice \/ worker[d].device # NoDevice)
  /\ RetryLater(d) /\ Fault
  /\ UNCHANGED <<draft, ui, profile, token, connector, retried>>

\* 401: once more with a new token, and then the draft is rejected.
Unauthorized(d) ==
  /\ worker[d].bearer \in revoked
  /\ IF worker[d].forced
       THEN Fail(d, "REJECTED")
       ELSE /\ worker' = [worker EXCEPT ![d].bearer = NoDevice, ![d].forced = TRUE]
            /\ UNCHANGED <<draft, work>>
  /\ UNCHANGED <<ui, profile, token, connector, retried, faults>>

\* Every request for a job of another device.
Forbidden(d) ==
  /\ worker[d].at \in Requests \ {"create"} /\ Accepted(d) /\ ~Mine(d)
  /\ RetryLater(d)
  /\ UNCHANGED <<draft, ui, profile, token, connector, retried, faults>>

\* Seeded fault: what is refused is tried again.
RefusedForNow(d) ==
  /\ Accepted(d)
  /\ \/ /\ worker[d].at = "upload" /\ Mine(d)
        /\ \E page \in Pages : IsAt(d, page) /\ ~TakesPage(jobs[worker[d].job], page)
     \/ worker[d].at = "submit" /\ Mine(d) /\ jobs[worker[d].job].state \notin Submittable
  /\ RetryLater(d)
  /\ UNCHANGED <<draft, ui, profile, token, connector, retried, faults>>

\* 400 and 409: an upload to a job that has all its pages, a submission of one
\* that has not, or that is being processed or reviewed.
Refused(d) ==
  /\ Accepted(d)
  /\ \/ /\ worker[d].at = "upload" /\ Mine(d)
        /\ \E page \in Pages : IsAt(d, page) /\ ~TakesPage(jobs[worker[d].job], page)
     \/ worker[d].at = "submit" /\ Mine(d) /\ jobs[worker[d].job].state \notin Submittable
  /\ Fail(d, "REJECTED")
  /\ UNCHANGED <<ui, profile, token, connector, retried, faults>>

\* What the connector does with a request it takes.
Effect(d) ==
  \/ worker[d].at = "create" /\ CreateInvoiceJob(d)
  \/ /\ worker[d].at = "upload" /\ Mine(d)
     /\ \E page \in Pages : IsAt(d, page) /\ TakesPage(jobs[worker[d].job], page) /\ UploadPage(d, page)
  \/ worker[d].at = "submit" /\ Mine(d) /\ jobs[worker[d].job].state \in Submittable /\ SubmitInvoiceJob(d)

AnswerLost(d) ==
  /\ Accepted(d) /\ Effect(d)
  /\ RetryLater(d) /\ Fault
  /\ UNCHANGED <<draft, ui, profile, token, paired, revoked, retried>>

\* The worker's side of an answer: PROCESSING is written before the first poll.
Answered(d) ==
  /\ Accepted(d) /\ Effect(d)
  /\ \/ /\ worker[d].at = "create"
        /\ worker' = [worker EXCEPT ![d].at = "attach", ![d].job = Len(jobs')]
        /\ UNCHANGED draft
     \/ worker[d].at = "upload" /\ GoTo(d, "mark") /\ UNCHANGED draft
     \/ worker[d].at = "submit" /\ GoTo(d, "poll") /\ SetDraftState(d, "PROCESSING")
  /\ UNCHANGED <<work, ui, profile, token, paired, revoked, retried, faults>>

\* A poll copies the state of the job; a state that is none of the ends is
\* polled again, thirty times in all.
Poll(d) ==
  LET state == jobs[worker[d].job].state
  IN /\ worker[d].at = "poll" /\ Accepted(d) /\ Mine(d)
     /\ \/ /\ state \in FailedStates /\ Fail(d, state) /\ UNCHANGED faults
        \/ /\ state = "AWAITING_USER_REVIEW"
           /\ SetDraftState(d, state) /\ GoTo(d, "revision") /\ UNCHANGED <<work, faults>>
        \/ /\ state \notin FailedStates \cup {"AWAITING_USER_REVIEW"} /\ SetDraftState(d, state)
           /\ \/ GoTo(d, "poll") /\ UNCHANGED <<work, faults>>
              \/ RetryLater(d) /\ Fault
     /\ UNCHANGED <<ui, profile, token, connector, retried>>

SaveRevision(d) ==
  /\ worker[d].at = "revision" /\ Accepted(d) /\ Mine(d)
  /\ draft' = [draft EXCEPT ![d].state = "AWAITING_USER_REVIEW", ![d].revision = TRUE]
  /\ worker' = [worker EXCEPT ![d] = Ending]
  /\ UNCHANGED <<work, ui, profile, token, connector, retried, faults>>

-----------------------------------------------------------------------------
(* The connector.                                                          *)

RevokeDevice(v) ==
  /\ v \in 1..paired \ revoked
  /\ revoked' = revoked \cup {v}
  /\ UNCHANGED <<phone, jobs, paired, retried, faults>>

\* The queue: a job that is not submittable any more is skipped.
Process(j) ==
  /\ jobs[j].queued > 0
  /\ jobs' = [jobs EXCEPT ![j].queued = @ - 1,
                          ![j].state = IF @ \in Submittable THEN "OCR_PROCESSING" ELSE @]
  /\ UNCHANGED <<phone, paired, revoked, retried, faults>>

Publish(j) ==
  /\ jobs[j].state = "OCR_PROCESSING"
  /\ \E state \in FailedStates \cup {"AWAITING_USER_REVIEW"} : jobs' = [jobs EXCEPT ![j].state = state]
  /\ UNCHANGED <<phone, paired, revoked, retried, faults>>

-----------------------------------------------------------------------------
Authorize(d) == UseToken(d) \/ AskChallenge(d) \/ NotPaired(d) \/ ExchangeToken(d)

WorkerStep(d) ==
  \/ Start(d) \/ AttachRemoteJob(d) \/ MarkPageUploaded(d) \/ End(d)
  \/ Authorize(d)
  \/ Unauthorized(d) \/ Forbidden(d) \/ Refused(d) \/ Answered(d) \/ Poll(d) \/ SaveRevision(d)

ConnectorStep(j) == Process(j) \/ Publish(j)

UserStep ==
  \/ \E d \in Drafts : CreateDraft(d) \/ Retry(d)
  \/ ClaimPairing
  \/ ForgetPairing
  \/ \E v \in 1..MaxDevices : RevokeDevice(v)

FaultStep ==
  \/ AppStop
  \/ \E d \in Drafts : RequestFails(d) \/ AnswerLost(d)

Next ==
  \/ UserStep
  \/ FaultStep
  \/ \E d \in Drafts : EnqueueUpload(d) \/ WorkerStep(d)
  \/ \E j \in DOMAIN jobs : ConnectorStep(j)

Spec == Init /\ [][Next]_vars

(* WorkManager runs what is enqueued, a worker goes on, the app enqueues   *)
(* what it has begun to and the connector processes its queue. The user    *)
(* and the technician need not do anything, and no fault has to happen.    *)
Fairness ==
  /\ \A d \in Drafts : WF_vars(EnqueueUpload(d)) /\ WF_vars(WorkerStep(d))
  /\ WF_vars(\E j \in DOMAIN jobs : ConnectorStep(j))

FairSpec == Spec /\ Fairness

-----------------------------------------------------------------------------
(* Every variable has the shape the code gives it. *)
TypeOK ==
  /\ draft \in [Drafts -> [state : DraftStates, job : 0..Len(jobs), uploaded : SUBSET Pages, revision : BOOLEAN]]
  /\ work \in [Drafts -> {"none", "enqueued", "running", "finished"}]
  /\ worker \in [Drafts -> [at : Requests \cup {"none", "attach", "mark", "ending"}, job : 0..Len(jobs),
                            todo : SUBSET Pages, device : 0..paired, bearer : 0..paired, forced : BOOLEAN]]
  /\ ui \in [Drafts -> {"idle", "enqueue"}]
  /\ profile \in 0..paired /\ token \in 0..paired
  /\ jobs \in Seq([draft : Drafts, device : 1..paired, state : JobStates, pages : SUBSET Pages, queued : Nat])
  /\ paired \in 0..MaxDevices /\ revoked \subseteq 1..paired
  /\ retries \in 0..MaxRetries /\ overtaken \subseteq Drafts /\ faults \in 0..MaxFaults

(* The pages of an invoice reach more than one job only when the user asks *)
(* for it: what a death of the app or a lost answer leaves behind is empty.*)
PagesSentOncePerTry ==
  Cardinality({j \in DOMAIN jobs : jobs[j].pages # {}})
    <= Cardinality({d \in Drafts : draft[d].state # "NONE"}) + retries

(* A page a run will skip, because it is marked as uploaded, is stored in  *)
(* the job that the draft is attached to. A retry that overtakes a run     *)
(* forfeits this: the run marks its pages in the draft that was reset.     *)
MarkedPagesAreStored ==
  \A d \in Drafts \ overtaken : draft[d].job # NoJob => draft[d].uploaded \subseteq jobs[draft[d].job].pages

(* A rejected draft is not a lost invoice: the connector has all its pages,*)
(* or has revoked the phone, or a retry has overtaken a run.               *)
RejectedIsNotLost ==
  \A d \in Drafts \ overtaken : draft[d].state = "REJECTED" =>
    \/ \E j \in DOMAIN jobs : jobs[j].draft = d /\ Complete(jobs[j])
    \/ revoked # {}

Foreign(d) == draft[d].job # NoJob /\ jobs[draft[d].job].device # profile

(* Upload work ends: no answer of the connector is tried again for ever,   *)
(* unless the job belongs to a device the phone no longer is.              *)
UploadEnds == \A d \in Drafts : work[d] = "enqueued" ~> work[d] = "finished" \/ Foreign(d)

=============================================================================
