# Verification of Pharma Auto

TLA+ models of the parts of Pharma Auto that carry its own concurrent logic, the
TLC configurations that check them, and TLAPS proofs of their safety properties.
Pharma Auto turns photographs of supplier invoices into reviewed, confirmed
records: an Android client captures pages, a Local Connector in the pharmacy
keeps the invoice and runs the workflow, and a SaaS platform performs OCR and
matching against a page quota. The product is written in C# and Kotlin. Nearly
all JavaScript of the repository is a vendored design skill for coding agents
(`.agents/skills/impeccable`); its live mode, the one part of it that coordinates
processes, is modelled too.

    cd tla
    tlc -workers 2 -config MCWorkflowReview.cfg MCInvoiceWorkflow.tla
    tlapm InvoiceWorkflowProofs.tla
    tlapm InvoiceRecoveryProofs.tla
    tlapm OcrQuotaProofs.tla
    tlapm ChunkUploadProofs.tla
    tlapm AndroidUploadProofs.tla
    tlapm LiveSessionProofs.tla
    tlapm LiveQueueProofs.tla
    tlapm FiniteSums.tla

## 1. Inventory

| Component | State it keeps | Operations | Interacts through |
|---|---|---|---|
| Invoice job lifecycle (`PhaseOneModels.cs`, `InvoiceWorkflowService.cs`, `SqliteSidecarStore.cs`) | the `invoice_jobs`, `invoice_revisions`, `audit_events` rows in SQLite | create, submit, process, edit, confirm | store transactions, the queue |
| Queue and worker (`InvoiceWorkflowQueue.cs`, `InvoiceWorkflowWorker`) | a bounded in-memory channel; the job in hand | enqueue (waits when full), process one job at a time | the channel; SaaS calls; the store |
| Restart recovery (`SidecarInitializationService`) | watermark, cursor, the page just listed | list, mark interrupted jobs failed, enqueue | the store, the channel; runs beside worker and API |
| Chunked page upload (`UploadChunkAsync` and below) | `upload_chunks`, `document_pages`, the job's page count | store chunk, assemble page, recover a completed page | store and object store, which share no transaction |
| Object store and retention (`EncryptedDocumentObjectStore.cs`, `DocumentRetentionWorker`) | encrypted files | write, read, delete, delete expired | file references in rows |
| OCR quota and jobs (`OcrOrchestrator.cs`, `PostgresSaasStore.cs`) | `ocr_jobs`, `quota_reservations`, `subscription_periods` | start, retry, take over, replay, settle, release | PostgreSQL transactions; the OCR provider between them |
| Pairing and device authentication (`PairingAndAuthenticationServices.cs`, `LocalAuthorizationMiddleware.cs`) | devices, codes, challenges, tokens | pair, challenge, authenticate, revoke | Local API middleware |
| Connector authentication (SaaS) | nonces seen | verify signature, timestamp and nonce | every connector request |
| Android upload worker (`InvoiceUploadWorker.kt`, `PharmaAutoRepository.kt`, `PharmaAutoDatabase.kt`, `ConnectorSessionRepository.kt`) | drafts and pages in Room, unique works, the pairing profile, a token in memory | create draft, create job, upload, submit, poll, retry | Local API over HTTP, WorkManager |
| Impeccable live mode (`live-server.mjs`, `live/session-store.mjs`, `live-poll.mjs`, `live-accept.mjs`, `live-complete.mjs`, the page's `live-browser.js`) | session journals, accept receipts and source files on disk; an event queue with leases in memory | generate, checkpoint, accept, discard, poll, reply, complete | HTTP between page, server and agents; the source lock |
| Impeccable detector, hooks, command line | none between two evaluations | | |
| Commercial rules, review guard, canonical matching, `splitExpiry` | none: pure functions | | called from the workflow and the review screen |
| Catalog sync and search, OCR contract guard, entitlement signer, SaaS client, secrets, control UI, admin portal, contracts, tools, infrastructure | caches, files or nothing | | |

What is hard, and what makes each part correct:

* **Workflow, worker, recovery.** Recovery pages through rows while the worker and
  the API change them; the queue is lost at every stop; shutdown abandons a job
  in the middle of processing. Correct means: no job stays in an in-flight state
  that nobody will move, an accepted invoice is processed, and nothing is
  published twice.
* **Review.** Edits and confirmations read in several statements and write in one
  transaction. Correct means: one unforked chain of revisions, one confirmation,
  of the revision that the user named, after which the invoice is frozen.
* **Upload.** Files and rows share no transaction, and clients repeat chunks
  while the first request still runs. Correct means: a page is one content, no
  row loses its file to a clean-up, no file is left over, and a persistent
  client succeeds.
* **Quota.** The provider call lies between two transactions, and a lease lets a
  second request supersede the first. Correct means: a job is charged once, to
  the right period, within the limit, and late answers change nothing.
* **Android upload.** A run may die between a remote call and its local record, an
  answer may be lost, and the phone may be paired anew under a running work.
  Correct means: pages are sent once per try, no page is skipped that the
  connector does not have, a rejected draft is not a lost invoice, and the work
  ends.
* **Live mode.** The page's requests overtake each other, agents are killed or slow,
  and the server is restarted from its journals. Correct means: a decision of the
  user is durable, is applied to the source exactly once, nothing late undoes it,
  and no event comes back for ever.
* **Pairing codes, pure rules** (not modelled): codes and challenges used once, the
  order of the two discounts of a line, the quantities of a line that is split.

`PROJECT.json` lists the hazards at their lines.

## 2. Modules

| Module | Models | Role |
|---|---|---|
| `JobStates` | the states, the transition table and the state groups of the code's switches | vocabulary |
| `ReviewLedger` | what the connector promises about a job: publish once, edit in sequence, confirm once | abstract specification |
| `InvoiceWorkflow` | job rows, queue, worker, recovery and concurrent requests | detailed specification |
| `InvoiceWorkflowProofs`, `InvoiceRecoveryProofs` | | TLAPS theorems |
| `PageCapture` | each page gets one content; capture closes with the last | abstract specification |
| `ChunkUpload` | upload requests, chunk and page rows, objects, retention | detailed specification |
| `ChunkUploadProofs` | | TLAPS theorems |
| `OcrQuota` | OCR jobs, reservations, periods, attempts and leases | specification |
| `OcrQuotaProofs` | | TLAPS theorems |
| `AndroidUpload` | drafts, works and workers of the phone, its pairing and token, and the connector it talks to | specification |
| `AndroidUploadProofs` | | TLAPS theorems |
| `LiveSession` | sessions, queue, leases, agents, source and receipts of the live mode | specification |
| `LiveSessionProofs`, `LiveQueueProofs` | | TLAPS theorems |
| `FiniteSums` | | lemmas of the proofs: least numbers, smallest subsets, sums over finite sets |
| `MCInvoiceWorkflow`, `MCChunkUpload`, `MCOcrQuota`, `MCAndroidUpload`, `MCLiveSession` | | constants and symmetry for TLC |

Operators whose comment begins with *Seeded fault* are not part of any model. They
are plausible wrong versions of the definition they precede, kept so that each
property can be seen to fail when the code goes wrong in that way.

### InvoiceWorkflow

One action per store transaction or await. `CreateJob` and `FinishUpload` are the
capture side (detailed in `ChunkUpload`); `SubmitRead` and `SubmitEnqueue` are
`SubmitAsync`, split where it waits for room in the channel. `Dequeue`, `Load`,
`Reserve`, `Entitled`, `OcrDone`, `StartMatch` and `PublishRevision` are
`ProcessAsync`; `StepFails`, `MarkRead`, `MarkFailed` and `StoreThrows` its
exception paths. `Start`, `ListPage`, `RecoverItem` and `EnqueueItem` are
`SidecarInitializationService`. `EditRead`/`EditSave` and
`ConfirmReadRevision`/`ConfirmReadJob`/`ConfirmCommit` are requests, any number of
which overlap; `RequestEnds` is one that fails, whatever the reason. `Stop` is any
end of the process: everything in memory is lost and every row stays.

A job is its rowid, so creation order, the watermark and the recovery cursor are
comparisons of numbers, as in the code. A revision is its number, the revision
it was edited from, its status, and whether `ReviewRevisionGuard.EnsureConfirmable`
accepts it (chosen freely). `owed` is a history variable: jobs whose submission
was answered 202 and not yet taken up. It is never read by an action.

### ChunkUpload

A request is a record that goes through `Arrive` (object written), `Save`
(`SaveChunkAsync` decides), `Discard` (an object that was not kept), `List`,
`Assemble`/`HashMismatch`/`ChunkObjectMissing`, `Finalize` and `DeleteObjects`, or
`Recover` and `Refinalize` when the page turns out to be complete. `RequestEnds`
ends a request at any step: an exception, a disconnect or a stop of the process.
`TimePasses` and `Expire` are the retention worker, which looks only at files.
Content is abstract: a chunk knows which version of the page it declares and to
which it really belongs; the hash of a page fails when the two differ. A new
object takes the least reference that nothing mentions, which stands for a GUID.

### OcrQuota

`StartNew`, `StartRetry`, `StartRecovery` and `StartReplay` are the four ways through
`StartOcrJobAsync`; a request that it refuses changes nothing and is not an
action. `Extracted` and `ExtractionFails` are the provider. `Settle` and `Release`
are `FinalizeOcrJobAsync`; `RequestLost` is a refused or failed transaction or a
process that died. `LeaseExpires` lets fifteen minutes pass on an attempt, and
`NextPeriod` moves time into the next subscription period (or past the last).
Each transaction locks what it reads before it uses it (advisory lock, FOR
UPDATE), which is why it is one step.

### AndroidUpload

`CreateDraft`, `Retry` and `EnqueueUpload` are the app, `Start` to `SaveRevision` one
run of `doWork`, step by step at its suspension points: `UseToken`, `AskChallenge`,
`NotPaired` and `ExchangeToken` are `authorization()`; a request takes effect in the
connector in one step and is `Answered`, `AnswerLost`, `Refused` (400 and 409),
`Unauthorized` (401, once more with a new token) or `Forbidden`. `AppStop` is the
death of the process: the worker's memory and the token are gone, WorkManager
enqueues the work again, and the rows stay. `RevokeDevice`, `Process` and `Publish`
are as much of the connector as the phone can notice. `overtaken` is a history
variable, read by properties only: the drafts that were retried while a run of
theirs was under way.

Assumed: one connector (a draft of another connector does not exist), a page is
one request, and the images are still there and unchanged when they are sent. The
tap on *retry* and the reset of the draft are one step. A token runs out whenever
a worker asks for a new one.

### LiveSession

`Go`, `SendCheckpoint`, `Decide` and `ReportOrphan` put requests of the page on the
wire, from which `ServeBrowser` takes them in any order. A journal is the snapshot
it replays to; the `Apply...` operators are the cases of `applyEvent`. `Poll`, `Lease`
and `PreflightDone` are `leaseEvent`, split where it waits for the scaffold; `Expire`
is a lease that runs out, under an agent that is gone (`ExpireAbandoned`) or merely
slow (`ExpireHeld`, a fault). `Reply` and `PostResult` are replies, which `ServeReply`
answers with the type inference of `inferSourceEventType`. `ReadReceipt`, `Lock`,
`EditSource` and `WriteReceipt` are `live-accept`, a step for each access to disk,
run by the poll process before it reports; `AcceptFails` is that script throwing, or
being killed when its thirty seconds are over, before or after it has written
(a fault). `Complete` is `live-complete`, through the server or straight into the
journal; it refuses an accept whose source still carries the wrapper. `Crash` stops
the server, `Restart` rebuilds its queue from the journals, in any order of the
sessions.

The script may also refuse while the wrapper stands: the session lives in a
generated file (`live-accept.mjs:242`), its preview is one no longer supported
(`:233`), or the accepted variant is not there (`:492`). Which of these holds is a
free choice in `ReadReceipt` and `EditSource`. `NotHandled` is what
`completionTypeForAcceptResult` makes of it: an accept is acknowledged as done and
leaves the queue, a discard is acknowledged as an error. `LeftTo` is what the agent is
then told (`instructions.mjs`, `reference/live.md`): to merge an accept by hand, to
remove the temporary wrapper of a discard if it heeds that, to clean up after a
carbonize, or to end a session whose result did not reach the server. `MergeByHand` is
that edit. `handed` is a history variable, read by properties only: the sessions whose
accept was acknowledged though it was left to an agent, until a new decision or the next
stop of the server.

Assumed: the agent, which is not this code, writes variants only over the plain
element, and merges by hand in one step and only where the wrapper still stands (its
edit takes no lock); it does not run `live-accept` again by itself after `source_locked`;
a preflight (15 s) is shorter than a lease (600 s); all sessions share one
source file, hence one lock; a session has one mount failure at a time. The page
offers Discard only while it shows variants, and Accept once one has arrived.

## 3. Runs

| Run | Configuration | Shows |
|---|---|---|
| `workflow_review` | `MCWorkflowReview.cfg` | Two review requests at once, a submitter, a store that may throw, restarts; up to three revisions. `ReviewChain`, `ConfirmedExactlyOnce`, `ConfirmAnswerIsTrue`, `ConfirmedIsFrozen` and the refinement of `ReviewLedger`. |
| `workflow_recovery` | `MCWorkflowRecovery.cfg` | Two jobs, recovery pages of one row, a queue of one entry. Every in-flight job is owned by the worker or ahead of recovery; it leaves that state eventually; a first submission is never lost and is eventually processed. |
| `chunk_upload` | `MCChunkUpload.cfg` | Two contents, a corrupt chunk and one too long for its page, two overlapping requests, one early end, retention. |
| `chunk_upload_resume` | `MCChunkUploadResume.cfg` | Two pages, two early ends, a client that does not give up: capture completes. |
| `ocr_quota` | `MCOcrQuota.cfg` | Two jobs, two requests, two periods of three pages, four attempts. |
| `android_upload` | `MCAndroidUpload.cfg` | One draft of two pages, two pairings, a retry, two faults: sent once per try, no page skipped, nothing rejected that is lost, and every work ends. |
| `live_session` | `MCLiveSession.cfg` | One session, two agents, three requests of the page, two faults, and a script that may refuse: a decision is durable or in an agent's hand, is applied once or seen to fail, late events change nothing, there is one valid lease per event, and the queue drains. |
| `workflow_lost_retry` | `MCWorkflowLostRetry.cfg` | *Counterexample*: an accepted retry of a failed job does not survive a restart. |
| `workflow_live_recovery` | `MCWorkflowLiveRecovery.cfg` | *Counterexample*: recovery fails a job that the running worker has just reserved. The job is queued again, so work is repeated, not lost (`InFlightEnds` holds). |
| `workflow_repeated_confirm` | `MCWorkflowRepeatedConfirm.cfg` | *Counterexample*: a repeated confirmation that overlaps the first is refused. |
| `chunk_upload_expired` | `MCChunkUploadExpired.cfg` | *Counterexample*: an upload resumed after the retention time can never complete. |
| `live_late_reply` | `MCLiveSessionLateReply.cfg` | *Counterexample*: the failure of a stale generate worker takes the accept that another agent holds out of the queue. |

Each counterexample is a finding in `PROJECT.json` with the sentence of the
documentation, test or log that it contradicts.

**Bounds.** Interference in the workflow is between the worker, recovery and requests
on *one* job, so one job suffices for the review properties; a second job is needed
for the queue to be full and for the recovery cursor to move from page to page, and
`BatchSize = 1`, `QueueCapacity = 1` make both happen at once. Three revisions give an
edit of an edit. `MaxRevisions` disables `EditSave` above the bound and is the only
artificial guard there. In `ChunkUpload` two requests are the fewest that race and two
chunks the fewest that can be mixed; chunk 1 of the first content exists with its
proper length 1 and with length 3, so that with `MaximumPageBytes = 3` the page gets
too large whichever of its two chunks comes second, and that one is refused (the
mutant of `OpenPageIsOneUpload` compares the limit with the chunk alone); `MaxFaults`
bounds early ends and `Refs` the references (eight are never exhausted, since a
request holds at most one and deletes what it lists). In `OcrQuota` a limit of three
with pages of one or two makes two jobs compete; four attempts allow attempt, failure
or takeover, and retry for one job beside the other. `MaxAttempts` and `NumPeriods`
bound the counters. In `AndroidUpload` drafts share only the token and the pairing, so
that one draft with two pairings meets every answer of the connector; two pages tell a
first, a marked and a last page apart, and two faults allow a lost answer and a death
in one run. In `LiveSession` three requests are a generation, a decision and one more
of any kind, before or after them; two agents are the fewest that compete for an
event, and two faults let a lease run out and the server stop, or a script fail and
its agent die. Symmetry is used only in runs without liveness properties, over
requests, jobs or reviewers that no definition tells apart.

**Deadlock** is checked in the workflow runs, where the process can always stop or
start. It is switched off in `ChunkUpload` (the job is captured and the client has
nothing left to send), in `OcrQuota` (attempts and periods are bounded), in
`AndroidUpload` (every draft has ended and nobody retries) and in `LiveSession` (the
page is silent and the queue empty).

**Fairness.** In `InvoiceWorkflow` the worker and recovery are background loops that
run as long as the process does, and every external call ends (the SaaS client
times out after three minutes): weak fairness of `WorkerStep` and `RecoveryStep`.
Writers waiting on the channel are served in order of arrival, so that a writer
is not overtaken for ever while room comes and goes: strong fairness of the two
enqueue actions. Nothing is assumed of users or restarts; the liveness
properties speak of executions in which the connector eventually stays up. In
`ChunkUpload` the server continues each request it took (weak fairness of
`RequestStep`), and the client sends every chunk again as long as the job takes
uploads, as WorkManager's retries do (strong fairness of `Arrive`, because a
request slot is not always free). In `AndroidUpload` WorkManager runs what is
enqueued and a run goes on (weak fairness per draft), and the connector works off
its queue; users, technicians and faults owe nothing. `UploadEnds` excepts a job of
a device the phone no longer is: the connector's refusal of it is a server error
(no authentication scheme is registered for `Results.Forbid`), which the worker
tries again for ever. In `LiveSession` timers fire, requests arrive, a stopped server
is started again, and an agent goes on with what it does (`SystemStep`). Only weak
fairness of all of it together is assumed: as long as something of the system can go on,
something does, whatever it is. That is enough because no part of it can go on for ever
by itself, which is what `QueueDrains` says. Two things are assumed where they are named:
`StoreMayFail = FALSE` in `workflow_recovery`, because a store that throws in
`MarkFailedAsync` does leave a job in flight until the next restart, and
`Retention = FALSE` in `chunk_upload_resume`, because of the finding above.

## 4. What is proved

Every safety property of every run that expects no violation, invariant or action
property, is a theorem of its specification, for every value of the constants that
satisfies the named assumptions; so are both refinements. Two of the theorems have the
hypothesis `~StoreMayFail`, without which they are false (section 3).

`InvoiceWorkflowProofs` proves, for every number of jobs, submitters, reviewers and
revisions, every batch size and every queue capacity:

* `TypeCorrect`: `Spec => []TypeOK`
* `RevisionHistoryIsAChain`: `Spec => []ReviewChain`
* `ConfirmedOnce`: `Spec => []ConfirmedExactlyOnce`
* `ConfirmAnswers`: `Spec => []ConfirmAnswerIsTrue`
* `ConfirmedStaysFrozen`: `Spec => ConfirmedIsFrozen`
* `Implements`: `Spec => ImplementsLedger`, the refinement of `ReviewLedger`

The assumptions are those of `InvoiceWorkflow`: the constants are natural numbers,
positive where the code requires it, and `StoreMayFail` is a Boolean. Every
safety property of the `workflow_review` run is thereby a theorem.

The inductive invariant is

    IInv == TypeOK /\ ReviewChain /\ ConfirmedExactlyOnce /\ ConfirmAnswerIsTrue
              /\ ReviewsHold /\ WorkerHolds

The last two conjuncts strengthen it. `ReviewsHold` says what a request may still
rely on between its reads and its commit: the revision it read still exists, and
if a request is about to commit it, it is confirmable or the job is confirmed. Without it a commit could confirm
a revision that does not exist. `WorkerHolds` says the same of the state that the
worker remembers between two steps. The proof classifies every step by what it
does to the tables (`StepClasses`): nothing, one edge of the transition table, one
saved revision or one confirmation. Preservation of the table invariants is then
shown once per class and not once per action, and the refinement maps each class
to a ledger step or a stutter (`MapsMove`, `MapsSave`, `MapsConfirm`).

`InvoiceRecoveryProofs` extends it with what recovery and the worker owe each other,
again for every value of the constants, but under the hypothesis `~StoreMayFail` that
stands in each statement (a store call that throws outside `ProcessAsync`'s `try` does
strand a job, see section 3):

* `NoJobIsStranded`: `~StoreMayFail => (Spec => []InFlightOwned)`
* `FirstSubmissionIsKept`: `~StoreMayFail => (Spec => []AcceptedFirstSubmissionScheduled)`

Neither is inductive. The invariant `RInv` adds to `IInv`: rows are numbered without
gaps (`Contiguous`), so that the watermark taken at a start covers every row; what the
page may hold, and that a job listed in flight never waits for its first attempt
again (`PageHolds`), so that skipping it loses no first submission; what
`MarkFailedAsync` read is current unless recovery has ended the attempt (`FailSeen`);
only complete invoices are submitted (`OwedHolds`); and in `FlightHeld` that the item
recovery is about to queue is not one it still has to reset. The listing needs an
argument by counting (`ListingNotEmpty`, `UnlistedIsBehind`): while a row is left to
recover the page is not empty, and a row that does not fit on the page lies behind
every row that does.

`OcrQuotaProofs` proves, for every set of jobs and requests, every number of periods
and attempts, every page limit and all page counts a request may declare:

* `TypeCorrect`: `Spec => []TypeOK`
* `RowsAlwaysAgree`: `Spec => []RowsAgree`
* `LimitRespected`: `Spec => []WithinLimit`
* `AnswersAlwaysAgree`: `Spec => []AnswersAgree`
* `CompletedStaysFinal`: `Spec => CompletedIsFinal`
* `SupersededChangesNothing`: `Spec => OnlyOwnerFinalizes`

Here the properties are nearly inductive together: `RowsAgree` says that a job being
processed is charged to a period, which `TypeOK` needs for its counters;
`AnswersAgree` needs that completed jobs never change (`CompletedStep`); and the one
strengthening, `OwnersExist`, says that a job that exists is owned by an attempt
that was handed out, without which a replay could answer with attempt 0.

The counters rest on a second invariant, on top of `IInv`:

* `CountersAlwaysMatch`: `Spec => []CountersMatchReservations`
* `OwnerCanAlwaysFinalize`: `Spec => []OwnerCanFinalize`

    CountersInv == StartedFinite /\ CountersMatchReservations /\ AttemptsApart
                     /\ OwnedIsProcessing

A counter is the sum of the pages of its reservations, and the sum over a set changes
by one summand when a job changes its row. `AttemptsApart` (no two requests work under
one attempt) and `OwnedIsProcessing` (the job of the request that owns it is
PROCESSING) say that a settlement or a release meets a reservation that is still held:
without them the same pages could leave a counter twice. `StartedFinite` lets the set of
jobs be infinite, as only those that have started are summed.

`ChunkUploadProofs` proves, for every finite set of pages and for all versions, chunks,
lengths, requests, references and faults:

* `TypeCorrect`: `Spec => []TypeOK`
* `CaptureAgrees`: `Spec => []CaptureMatchesPages`
* `NeverRefused`: `Spec => []FinalizeNeverRefused`
* `RowsStayReadable`: `Spec => []RowsReadable`
* `NothingOrphaned`: `Spec => []NoOrphans`
* `Implements`: `Spec => ImplementsCapture`, the refinement of `PageCapture`

Its invariant has a part for each kind of state that a request, between two of its
steps, relies on while others overlap it:

    IInv == TypeInv /\ RowsInv /\ RequestsInv /\ RefsInv /\ DiskInv

`RequestsInv` says that the list of chunks a request has read is still backed by rows of
its page, or the page is complete (`ListHolds`), which is why two requests may both
finalize it. `RefsInv` says that rows, requests and lists do not share a reference
unless they mean the same object: every clean-up deletes only what is its own.
`DiskInv` is what follows for the files. That the chunks counted by SQL are all the chunks
of the page, when their number is the page's, is a pigeonhole argument over their
indices (`CountedListIsComplete`).

`OpenPagesAreOneUpload`: `Spec => []OpenPageIsOneUpload`, has two halves. That the rows of an
open page are one upload follows from `RowsInv` and `RefsInv`. That their bytes stay
within the limit is the invariant `PagesFit`: `SaveChunkAsync` compares the sum of the
stored lengths and the new one with the limit in the transaction that writes the row,
so a row adds exactly what was compared, and a step that removes rows leaves a sum that
is no greater.

`AndroidUploadProofs` proves, for every set of drafts and every number of pages, pairings,
retries and faults:

* `TypeCorrect`: `Spec => []TypeOK`
* `MarkedAreStored`: `Spec => []MarkedPagesAreStored`
* `RejectedNotLost`: `Spec => []RejectedIsNotLost`

    IInv == TypeOK /\ JobsComplete /\ \A d \in Drafts : Holds(d)

A run reads its draft once and works for minutes. `Holds` says that the job and the pages
it has in mind still agree with the row (`Agrees`), that both belong to the draft, and,
for a run that has sent a page and not yet marked it, that the connector has it.
`JobsComplete` says that the connector validates a job exactly with its last page: what
it refuses, it has. Every step leaves the jobs growing (`Grows`) and moves at most one
draft (`Moves`), except the death of the app, which ends every run.

`PagesSentOnce`: `Spec => []PagesSentOncePerTry`, counts jobs, and needs an account of what a
draft may still do:

    Budget == Finite /\ WithinBudget /\ \A d \in Drafts : RunJob(d)

`WithinBudget` says that the jobs that have pages (`Sent`), the drafts that have sent none
since they were made or retried (`Unsent`), and the runs that a retry has overtaken while
their job was empty (`Strays`) are together at most the drafts made and the retries. The
first page sent under a job moves one chance into `Sent`; a retry adds one to both sides;
and a retry never adds to `Unsent` and `Strays` at once, because a run that goes astray
with an empty job had been counted as unsent before. `RunJob` is why a run never changes
its job under the draft.

`LiveSessionProofs` proves, for any sessions and agents and any number of requests and
faults:

* `SourceIsDecidedOnce`: `Spec => SourceDecidedOnce`
* `ReceiptsAreTrue`: `Spec => []ReceiptTellsTheTruth`

The inductive invariant `ReceiptInv` needs of the types only that rows are rows
(`Shapes`), and strengthens the property with `RecordHolds`: an agent that has rewritten
the source and is about to write its receipt will write what the source says. Whatever
the queue, the leases and the journal do, they leave the source alone, so nothing about
them is needed; the weight is on `EditSource` being one step, which the source lock
justifies, and on the agent's own edits (`MergeByHand`) touching only a wrapper that
stands, which is an assumption about the agent.

`LiveQueueProofs` extends it with the rest of the safety of live mode:

* `TypesAreKept`: `Spec => []TypeOK`
* `LateGenerationNeverCounts`: `Spec => []LateGenerationIgnored`
* `LeasesAreExclusive`: `Spec => []LeaseIsExclusive`
* `DecisionsAreDurable`: `Spec => []DecisionDurable`
* `OverStaysOver`: `Spec => OverUnlessAsked`

No one of them is inductive; they hold together, because journal, queue, agents and the
requests on the wire are four accounts of one session. `SessionInv` says how they fit:

    SessionInv == Typed /\ EpochBound /\ SessionsFit /\ QueueFits /\ PreflightFits /\ WireFits
                    /\ AgentsFit /\ LeasesFit /\ LeaseIsExclusive /\ DecisionDurable
                    /\ IsFiniteSet(Begun)

`SessionsFit` ties the journal to the source: a session whose source shows variants is
ready, a decided one is under no review, one whose accept is completed has a decided
source, and a pending decision means that the session is not over. `QueueFits` says that no event is
queued twice (`Distinct`) and that an entry knows whether its scaffold exists, which is
what a poll that comes back from the scaffold relies on (`PreflightFits`). `WireFits` and
`AgentsFit` bound what a late request or a slow agent can still ask for: without them a
checkpoint from before the decision, or the failure of a stale generation, could be
anything. Of an agent that is about to report, `AgentsFit` says no more than the script
does: a result other than a refusal or an error means that the source is decided, and a
refusal is that of an accept. So a reply that takes an undecided decision out of the queue
either fails it or is the refusal of an accept, which stays pending on disk and in `handed`.
`LeasesFit` puts every lease that counts on an entry of the queue, hence the
exclusiveness from `Distinct`. `IsFiniteSet(Begun)` is needed by `Restart`, which lines up
the sessions that have something pending. There is one lemma per action; most of them are
instances of two, one for a step of one session (`RowKeeps`) and one for a step of one
agent (`OwnKeeps`).

**Sums and recursion.** A sum over a set (`SumFunctionOnSet`) and the removal of a session's
generations from the queue (`WithoutGeneration`) are recursive functions. tlapm takes such
a definition as the choice of a function that satisfies the equation, so that its
existence has to be proved before anything is known of it, and the induction theorems of
the library take an operator as a parameter, which the provers cannot instantiate.
`FiniteSums` argues by the least counterexample instead: a set of natural numbers that is
not empty has a least member (`LeastElement`, from cardinalities), a set of finite sets has
a smallest one (`MinimalSubset`). From these follow that the sum exists (`SumExists`), that it
is the one the models use (`FunctionSum`), and what it does when a summand is added, removed
or left alone. `InvoiceRecoveryProofs`, which needs the least of a set of rows, and the
lemmas on the queue at the end of `LiveSessionProofs` use the same lemmas.
`WithoutGeneration` is written as a recursive function, and not with `SelectSeq`, because
tlapm cannot expand that operator and its library states nothing about it.

**Model-checked only.** Liveness: `InFlightEnds`, `FirstSubmissionProcessed`, `UploadCompletes`,
`UploadEnds`, `DecisionSettled` and `QueueDrains` rest on fairness and on when actions are
enabled, which the prover does not support. And the runs that expect a violation: each
shows a behaviour that TLC finds, and there is nothing to prove.

## 5. What is not modelled, and why

The encryption, the JSON documents, the contents of OCR and matching results, the
text of errors and the user interfaces: no property here is about them. The
in-memory SaaS store duplicates the PostgreSQL one for development. Writing to the
pharmacy database and reconciling with it do not exist in this repository yet.
In `InvoiceWorkflow` the state Rejected is in the table and is not reached, because
no code moves a job there. Device ownership checks are left out of it: all requests
come from the device that owns the job; `AndroidUpload` has them.

Pairing codes, challenges and the nonces of the SaaS platform are single tables with
an atomic test and set, and the commercial rules, the review guard and the split by
expiry are arithmetic over one invoice line; these have unit tests in the
repository, and are the next candidates. Of the vendored skill, the detector, the
hooks and the command line evaluate rules over one file at a time and keep no state;
in live mode steering, prefetched plans, manual edits, component previews and the
exit timer are left out, as is what the page shows and stores.

### Behaviour met while modelling

Not every disagreement has a run of its own. These were met on the way and are
visible in the models:

* *Android.* A job that is processed for longer than thirty polls, or an app that dies
  after submitting, makes the next run submit again; the connector answers 409 and
  the draft becomes REJECTED while its invoice is processed or waits for review
  (`RejectedIsNotLost` states what is left of it: nothing is lost in the connector,
  but the phone neither opens nor retries such a draft). A lost answer to the last
  page has the same effect through 400.
* *Android.* A retry can overtake a run: the draft still shows PAIRING_REQUIRED or
  OCR_FAILED while the run that will change it is under way (after a death of the app,
  or before the run's first write). The row is reset, the enqueueing is dropped by
  `ExistingWorkPolicy.KEEP`, and the run goes on with the job it has read: it marks the
  pages it sends in a draft that has no job any more, so that a later run creates a job
  and skips those pages. `MarkedPagesAreStored` and `RejectedIsNotLost` except such
  drafts (`overtaken`).
* *Android.* A death between creating the job and storing its identifier leaves an empty
  job behind (`PagesSentOncePerTry` counts only jobs with pages). A death between
  `createDraft` or `resetForRetry` and the enqueueing leaves a draft without work. A
  pairing that is forgotten in the middle of a run ends it with an exception that
  `doWork` does not catch.
* *Quota.* A provider failure releases the reservation (`Release`), and the retry has to
  reserve again (`StartRetry`): another job may have taken the pages meanwhile, so that the
  retry is refused. `docs/05-api-and-contracts.md:227` speaks of a retry inside the same
  reservation.
* *Live mode.* An `error` reply without its event type is attributed to whatever is
  leased for the session. A stale generate worker that fails after the user's decision
  thus takes a leased accept out of the queue (`live_late_reply`), which the comment at
  `live-server.mjs:1242` says cannot happen. When it does find no match, it is journaled
  without a type (`live-server.mjs:1406`), passes the fence of `session-store.mjs:528`, and
  clears the decision on disk, so that a restart cannot restore it. Both leave the phase
  `agent_error`, which `Failed` counts as a decision seen to fail; `DecisionDurable` and
  `DecisionSettled` speak of the others.
* *Live mode.* An accept that the script refuses is acknowledged although the wrapper is
  still in the source. If the agent dies before it merges, nothing delivers the accept
  again while the server stays up; its next start does, because the journal still has it
  pending (`Dropped`).
* *Live mode.* A refused discard is acknowledged as an error and leaves the wrapper, while
  `instructions.mjs:43` tells the agent that the original has been restored, and only
  `reference/live.md:261` to remove a temporary wrapper. If its result did not reach the
  server, `live-complete --discarded` closes the session with the wrapper in place.
  `Failed` includes both.
* *Live mode.* `handleGo` sends its checkpoint before the event that creates the session,
  and the gate that is meant to order the two (`live-browser.js:7138`) is still that of
  the previous session. If the checkpoint lands first, the page abandons the session.
* *Live mode.* An accept acknowledged by a reply without carbonize stays pending in the
  journal and is delivered again after a restart; the receipt makes that harmless.

## 6. Plan

In order of importance:

1. `DeviceAuth` (codes, challenges, tokens, revocation).
2. `CommercialRules`, `SplitExpiry` and `ReviewGuard` as pure operators against
   reference definitions over bounded inputs.
3. A composition of `InvoiceWorkflow` with `OcrQuota`: a connector that repeats a
   submission is charged once.
4. The safety properties of each of these as theorems, as for the modules that exist.
