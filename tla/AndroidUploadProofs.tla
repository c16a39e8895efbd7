------------------------ MODULE AndroidUploadProofs ------------------------
(***************************************************************************)
(* Proofs about AndroidUpload, for any drafts, any number of pages,        *)
(* pairings, retries and faults: what is marked as uploaded is stored, and *)
(* a rejected draft is not a lost invoice, unless a retry has overtaken a  *)
(* run of the worker; and the pages of an invoice are sent to one job for  *)
(* every time the user has asked for it.                                   *)
(*                                                                         *)
(* A run reads its draft once and talks to the connector for minutes; the  *)
(* strengthening says that what it has read still agrees with the draft    *)
(* (Agrees), and that the connector validates a job exactly when it has    *)
(* all its pages (JobsComplete). The last part counts jobs and chances to  *)
(* open one (Budget).                                                      *)
(***************************************************************************)
EXTENDS AndroidUpload, SequenceTheorems, FiniteSetTheorems, TLAPS

WorkerAt == Requests \cup {"none", "attach", "mark", "ending"}

DraftRow ==
  [state : DraftStates, job : 0 .. Len(jobs), uploaded : SUBSET Pages, revision : BOOLEAN]
WorkerRow ==
  [at : WorkerAt, job : 0 .. Len(jobs), todo : SUBSET Pages, device : 0 .. paired,
   bearer : 0 .. paired, forced : BOOLEAN]
JobRow ==
  [draft : Drafts, device : 1 .. paired, state : JobStates, pages : SUBSET Pages, queued : Nat]

\* The connector validates a job with its last page.
JobsComplete == \A j \in DOMAIN jobs : jobs[j].state = "CAPTURED" <=> jobs[j].pages # Pages

\* The jobs a draft and its worker know are jobs of this draft.
OwnJobs(d) ==
  /\ draft[d].job # NoJob => jobs[draft[d].job].draft = d
  /\ worker[d].job # NoJob => jobs[worker[d].job].draft = d

\* What a run has, by the step it is at.
RunHolds(d) ==
  /\ InRun(d) /\ worker[d].at # "create" => worker[d].job # NoJob
  /\ worker[d].at = "create" => worker[d].job = NoJob

\* What a run has read still agrees with its draft.
Agrees(d) ==
  InRun(d) =>
    /\ worker[d].at \in {"create", "attach"} => draft[d].job = NoJob
    /\ worker[d].at \notin {"create", "attach"} => draft[d].job = worker[d].job
    /\ worker[d].todo = Pages \ draft[d].uploaded
    /\ worker[d].at \in {"submit", "poll", "revision"} => worker[d].todo = {}
    /\ worker[d].at = "mark" =>
         \A page \in Pages : IsAt(d, page) => page \in jobs[worker[d].job].pages

Marked(d) ==
  draft[d].uploaded \subseteq IF draft[d].job = NoJob THEN {} ELSE jobs[draft[d].job].pages

NotLost(d) ==
  draft[d].state = "REJECTED" =>
    (\E j \in DOMAIN jobs : jobs[j].draft = d /\ Complete(jobs[j])) \/ revoked # {}

\* A draft that is not there yet has nothing to lose.
Untouched(d) == draft[d].state = "NONE" => draft[d].job = NoJob /\ draft[d].uploaded = {}

Holds(d) ==
  /\ OwnJobs(d) /\ RunHolds(d) /\ Untouched(d)
  /\ d \notin overtaken => Agrees(d) /\ Marked(d) /\ NotLost(d)

\* The inductive invariant.
IInv == TypeOK /\ JobsComplete /\ \A d \in Drafts : Holds(d)

-----------------------------------------------------------------------------
(* The connector's jobs.                                                   *)

\* Jobs are only added, and keep their draft and the pages they have.
JobsGrow ==
  /\ paired' \in 0 .. MaxDevices /\ paired <= paired'
  /\ Len(jobs) <= Len(jobs')
  /\ (jobs \in Seq(JobRow))'
  /\ \A j \in 1 .. Len(jobs) : jobs'[j].draft = jobs[j].draft /\ jobs[j].pages \subseteq jobs'[j].pages
  /\ JobsComplete'

LEMMA Types ==
  ASSUME TypeOK
  PROVE  /\ draft \in [Drafts -> DraftRow] /\ worker \in [Drafts -> WorkerRow]
         /\ jobs \in Seq(JobRow) /\ Len(jobs) \in Nat /\ DOMAIN jobs = 1 .. Len(jobs)
         /\ paired \in 0 .. MaxDevices /\ MaxDevices \in Nat /\ PageCount \in Nat \ {0}
         /\ Pages # {}
<1>1. jobs \in Seq(JobRow)
  BY DEF TypeOK, JobRow
<1>2. Len(jobs) \in Nat /\ DOMAIN jobs = 1 .. Len(jobs)
  BY <1>1, LenProperties
<1>3. Pages # {}
  BY PageCountAssumption DEF Pages
<1> QED
  BY <1>1, <1>2, <1>3, BoundsAssumption, PageCountAssumption
  DEF TypeOK, DraftRow, WorkerRow, WorkerAt

\* Nothing happens to the jobs.
LEMMA JobsUnchanged ==
  ASSUME IInv, jobs' = jobs, paired' \in 0 .. MaxDevices, paired <= paired'
  PROVE  JobsGrow
<1>1. jobs \in Seq(JobRow) /\ paired \in Nat /\ paired' \in Nat
  BY Types DEF IInv
<1>2. JobRow \subseteq JobRow'
  BY <1>1 DEF JobRow
<1>3. \A j \in 1 .. Len(jobs) : jobs[j] \in JobRow
  BY <1>1, ElementOfSeq
<1>4. (jobs \in Seq(JobRow))'
  BY <1>1, <1>2, SeqMonotonic
<1> QED
  BY <1>1, <1>4 DEF JobsGrow, JobsComplete, IInv

\* One job changes, keeping its draft and its pages.
LEMMA JobChanges ==
  ASSUME IInv, NEW i \in 1 .. Len(jobs), NEW job \in JobRow,
         jobs' = [jobs EXCEPT ![i] = job], paired' = paired,
         job.draft = jobs[i].draft, jobs[i].pages \subseteq job.pages,
         job.state = "CAPTURED" <=> job.pages # Pages
  PROVE  JobsGrow
<1>1. jobs \in Seq(JobRow) /\ paired \in 0 .. MaxDevices /\ MaxDevices \in Nat
      /\ DOMAIN jobs = 1 .. Len(jobs) /\ Len(jobs) \in Nat
  BY Types DEF IInv
<1>2. /\ jobs' \in Seq(JobRow) /\ Len(jobs') = Len(jobs)
      /\ \A j \in 1 .. Len(jobs) : jobs'[j] = IF j = i THEN job ELSE jobs[j]
  BY <1>1, ExceptSeq
<1>3. JobRow' = JobRow
  BY DEF JobRow
<1>4. DOMAIN jobs' = 1 .. Len(jobs)
  BY <1>2, LenProperties
<1>5. JobsComplete'
  BY <1>1, <1>2, <1>4 DEF JobsComplete, IInv
<1> QED
  BY <1>1, <1>2, <1>3, <1>5 DEF JobsGrow

LEMMA JobAdded ==
  ASSUME IInv, NEW job \in JobRow, jobs' = Append(jobs, job), paired' = paired,
         job.state = "CAPTURED", job.pages = {}
  PROVE  /\ JobsGrow
         /\ Len(jobs') = Len(jobs) + 1
         /\ jobs'[Len(jobs')] = job
<1>1. jobs \in Seq(JobRow) /\ paired \in 0 .. MaxDevices /\ MaxDevices \in Nat
      /\ DOMAIN jobs = 1 .. Len(jobs) /\ Len(jobs) \in Nat /\ Pages # {}
  BY Types DEF IInv
<1>2. /\ jobs' \in Seq(JobRow) /\ Len(jobs') = Len(jobs) + 1
      /\ \A j \in 1 .. Len(jobs) : jobs'[j] = jobs[j]
      /\ jobs'[Len(jobs) + 1] = job
  BY <1>1, AppendProperties
<1>3. JobRow' = JobRow
  BY DEF JobRow
<1>4. DOMAIN jobs' = 1 .. (Len(jobs) + 1)
  BY <1>2, LenProperties
<1>5. JobsComplete'
  BY <1>1, <1>2, <1>4 DEF JobsComplete, IInv
<1> QED
  BY <1>1, <1>2, <1>3, <1>5 DEF JobsGrow

-----------------------------------------------------------------------------
(* The rows of one draft and its worker.                                   *)

\* What no step takes back.
Grows == JobsGrow /\ overtaken \subseteq overtaken' /\ revoked \subseteq revoked'

LEMMA Rows ==
  ASSUME IInv, Grows, NEW d \in Drafts
  PROVE  /\ DraftRow \subseteq DraftRow' /\ WorkerRow \subseteq WorkerRow'
         /\ draft[d].job \in 0 .. Len(jobs) /\ worker[d].job \in 0 .. Len(jobs)
         /\ \A j \in 1 .. Len(jobs) : j \in DOMAIN jobs /\ j \in DOMAIN jobs'
         /\ Len(jobs) \in Nat /\ Len(jobs') \in Nat /\ Len(jobs) <= Len(jobs')
<1>1. /\ draft \in [Drafts -> DraftRow] /\ worker \in [Drafts -> WorkerRow]
      /\ Len(jobs) \in Nat /\ DOMAIN jobs = 1 .. Len(jobs) /\ paired \in Nat
  BY Types DEF IInv
<1>2. Len(jobs') \in Nat /\ DOMAIN jobs' = 1 .. Len(jobs') /\ paired' \in Nat
  BY LenProperties, BoundsAssumption DEF Grows, JobsGrow
<1>3. draft[d] \in DraftRow /\ worker[d] \in WorkerRow
  BY <1>1
<1>4. draft[d].job \in 0 .. Len(jobs) /\ worker[d].job \in 0 .. Len(jobs)
  BY <1>3 DEF DraftRow, WorkerRow
<1>5. 0 .. Len(jobs) \subseteq 0 .. Len(jobs') /\ 0 .. paired \subseteq 0 .. paired'
  BY <1>1, <1>2 DEF Grows, JobsGrow
<1>6. DraftRow \subseteq DraftRow' /\ WorkerRow \subseteq WorkerRow'
  BY <1>5 DEF DraftRow, WorkerRow
<1>7. \A j \in 1 .. Len(jobs) : j \in DOMAIN jobs /\ j \in DOMAIN jobs'
  BY <1>1, <1>2 DEF Grows, JobsGrow
<1> QED
  BY <1>1, <1>2, <1>4, <1>6, <1>7 DEF Grows, JobsGrow

\* The pages of a draft's jobs stay, and so does what keeps a rejected draft.
LEMMA StaysStored ==
  ASSUME IInv, Grows, NEW d \in Drafts, draft'[d].job = draft[d].job
  PROVE  /\ draft'[d].job # NoJob => jobs'[draft'[d].job].draft = d
         /\ Marked(d) /\ draft'[d].uploaded = draft[d].uploaded => Marked(d)'
         /\ (\E j \in DOMAIN jobs : jobs[j].draft = d /\ Complete(jobs[j]))
              => \E j \in DOMAIN jobs' : jobs'[j].draft = d /\ Complete(jobs'[j])
         /\ revoked # {} => revoked' # {}
<1>1. /\ draft[d].job \in 0 .. Len(jobs) /\ Len(jobs) \in Nat
      /\ \A j \in 1 .. Len(jobs) : j \in DOMAIN jobs /\ j \in DOMAIN jobs'
      /\ DOMAIN jobs = 1 .. Len(jobs)
  BY Rows, Types DEF IInv
<1>2. \A j \in 1 .. Len(jobs) : jobs'[j].draft = jobs[j].draft /\ jobs[j].pages \subseteq jobs'[j].pages
  BY DEF Grows, JobsGrow
<1>3. draft'[d].job # NoJob => jobs'[draft'[d].job].draft = d
  BY <1>1, <1>2 DEF IInv, Holds, OwnJobs, NoJob
<1>4. ASSUME Marked(d), draft'[d].uploaded = draft[d].uploaded PROVE Marked(d)'
  BY <1>1, <1>2, <1>4 DEF Marked, NoJob
<1>5. ASSUME NEW j \in DOMAIN jobs, jobs[j].draft = d, Complete(jobs[j])
      PROVE  \E i \in DOMAIN jobs' : jobs'[i].draft = d /\ Complete(jobs'[i])
  <2>1. j \in DOMAIN jobs' /\ jobs'[j].draft = d /\ Pages \subseteq jobs'[j].pages
    BY <1>1, <1>2, <1>5 DEF Complete
  <2>2. jobs'[j] \in JobRow'
    <3>1. (jobs \in Seq(JobRow))'
      BY DEF Grows, JobsGrow
    <3>2. j \in 1 .. Len(jobs')
      BY <2>1, <3>1, LenProperties
    <3> QED
      BY <3>1, <3>2, ElementOfSeq
  <2>3. Complete(jobs'[j])
    BY <2>1, <2>2 DEF JobRow, Complete
  <2> QED
    BY <2>1, <2>3
<1>6. revoked # {} => revoked' # {}
  BY DEF Grows
<1> QED
  BY <1>3, <1>4, <1>5, <1>6

\* What a step may leave to a draft: its job and its pages stay, and it is
\* rejected only if it was, or if it is not lost.
Kept(d) ==
  /\ draft'[d].job = draft[d].job /\ draft'[d].uploaded = draft[d].uploaded
  /\ draft'[d].state = draft[d].state \/ draft'[d].state # "NONE"
  /\ draft'[d].state = "REJECTED" /\ d \notin overtaken =>
       \/ draft[d].state = "REJECTED"
       \/ \E j \in DOMAIN jobs : jobs[j].draft = d /\ Complete(jobs[j])
       \/ revoked # {}

LEMMA DraftKept ==
  ASSUME IInv, Grows, NEW d \in Drafts, Kept(d)
  PROVE  /\ draft'[d].job # NoJob => jobs'[draft'[d].job].draft = d
         /\ Untouched(d)'
         /\ d \notin overtaken' => d \notin overtaken /\ Marked(d)' /\ NotLost(d)'
<1>1. draft'[d].job # NoJob => jobs'[draft'[d].job].draft = d
  BY StaysStored DEF Kept
<1>2. Untouched(d)'
  BY DEF IInv, Holds, Untouched, Kept
<1>3. ASSUME d \notin overtaken' PROVE d \notin overtaken /\ Marked(d)' /\ NotLost(d)'
  <2>1. d \notin overtaken
    BY <1>3 DEF Grows
  <2>2. Marked(d) /\ NotLost(d)
    BY <2>1 DEF IInv, Holds
  <2>3. Marked(d)'
    BY <2>2, StaysStored DEF Kept
  <2>4. ASSUME draft'[d].state = "REJECTED"
        PROVE  (\E j \in DOMAIN jobs' : jobs'[j].draft = d /\ Complete(jobs'[j])) \/ revoked' # {}
    <3>1. (\E j \in DOMAIN jobs : jobs[j].draft = d /\ Complete(jobs[j])) \/ revoked # {}
      BY <2>1, <2>2, <2>4 DEF Kept, NotLost
    <3> QED
      BY <3>1, StaysStored DEF Kept
  <2>5. NotLost(d)'
    BY <2>4 DEF NotLost, Complete
  <2> QED
    BY <2>1, <2>3, <2>5
<1> QED
  BY <1>1, <1>2, <1>3

\* A job that a run has is still there, with its draft and its pages.
LEMMA RunKept ==
  ASSUME IInv, Grows, NEW d \in Drafts, worker[d].job # NoJob
  PROVE  /\ worker[d].job \in 1 .. Len(jobs) /\ worker[d].job \in DOMAIN jobs
         /\ jobs[worker[d].job] \in JobRow
         /\ jobs'[worker[d].job].draft = d
         /\ jobs[worker[d].job].pages \subseteq jobs'[worker[d].job].pages
<1>1. worker[d].job \in 1 .. Len(jobs)
  BY Rows DEF NoJob
<1>2. jobs[worker[d].job] \in JobRow
  BY <1>1, Types, ElementOfSeq DEF IInv
<1> QED
  BY <1>1, <1>2, Rows DEF Grows, JobsGrow, IInv, Holds, OwnJobs

\* The run is where it was, whatever it knows of tokens.
SameRun(d) ==
  worker'[d].at = worker[d].at /\ worker'[d].job = worker[d].job /\ worker'[d].todo = worker[d].todo

LEMMA Undisturbed ==
  ASSUME IInv, Grows, NEW d \in Drafts, Kept(d), SameRun(d)
  PROVE  Holds(d)'
<1>1. OwnJobs(d)'
  BY DraftKept, RunKept DEF OwnJobs, SameRun
<1>2. RunHolds(d)'
  BY DEF IInv, Holds, RunHolds, InRun, SameRun
<1>3. ASSUME Agrees(d) PROVE Agrees(d)'
  <2>1. \A page \in Pages : IsAt(d, page)' <=> IsAt(d, page)
    BY DEF IsAt, SameRun
  <2>2. InRun(d)' <=> InRun(d)
    BY DEF InRun, SameRun
  <2>3. worker[d].at = "mark" => worker[d].job # NoJob
    BY DEF IInv, Holds, RunHolds, InRun
  <2>4. ASSUME worker'[d].at = "mark", NEW page \in Pages, IsAt(d, page)'
        PROVE  page \in jobs'[worker'[d].job].pages
    <3>1. worker[d].at = "mark" /\ IsAt(d, page) /\ InRun(d) /\ worker[d].job # NoJob
      BY <2>1, <2>3, <2>4 DEF SameRun, InRun
    <3>2. page \in jobs[worker[d].job].pages
      BY <1>3, <3>1 DEF Agrees
    <3> QED
      BY <3>1, <3>2, RunKept DEF SameRun
  <2> QED
    BY <1>3, <2>2, <2>4 DEF Agrees, SameRun, Kept
<1> QED
  BY <1>1, <1>2, <1>3, DraftKept DEF Holds, IInv

\* The run has ended, and its draft keeps its job and its pages.
Stops(d) == worker'[d].at \in {"none", "ending"} /\ worker'[d].job = NoJob

LEMMA Stopped ==
  ASSUME IInv, Grows, NEW d \in Drafts, Kept(d), Stops(d)
  PROVE  Holds(d)'
BY DraftKept DEF Holds, OwnJobs, RunHolds, Agrees, InRun, Stops

\* The run has submitted its job and waits for it.
LEMMA Waits ==
  ASSUME IInv, Grows, NEW d \in Drafts, Kept(d),
         worker[d].at \in {"submit", "poll", "revision"}, worker'[d].at \in {"poll", "revision"},
         worker'[d].job = worker[d].job, worker'[d].todo = worker[d].todo
  PROVE  Holds(d)'
<1>1. InRun(d) /\ worker[d].job # NoJob
  BY DEF IInv, Holds, RunHolds, InRun
<1>2. OwnJobs(d)' /\ RunHolds(d)'
  BY <1>1, DraftKept, RunKept DEF OwnJobs, RunHolds, InRun
<1>3. Agrees(d) => Agrees(d)'
  BY <1>1 DEF Agrees, InRun, Kept
<1> QED
  BY <1>2, <1>3, DraftKept DEF Holds, IInv

-----------------------------------------------------------------------------
(* The steps of one draft: it still holds, and the others are left alone.  *)

DraftMoves(d) ==
  draft' \in [Drafts -> DraftRow'] /\ \A e \in Drafts \ {d} : draft'[e] = draft[e]

WorkerMoves(d) ==
  worker' \in [Drafts -> WorkerRow'] /\ \A e \in Drafts \ {d} : worker'[e] = worker[e]

Moves(d) == DraftMoves(d) /\ WorkerMoves(d) /\ Holds(d)'

LEMMA DraftSet ==
  ASSUME IInv, Grows, NEW d \in Drafts, NEW row \in DraftRow', draft' = [draft EXCEPT ![d] = row]
  PROVE  DraftMoves(d) /\ draft'[d] = row
<1>1. draft \in [Drafts -> DraftRow] /\ DraftRow \subseteq DraftRow'
  BY Types, Rows DEF IInv
<1> QED
  BY <1>1 DEF DraftMoves

LEMMA WorkerSet ==
  ASSUME IInv, Grows, NEW d \in Drafts, NEW row \in WorkerRow', worker' = [worker EXCEPT ![d] = row]
  PROVE  WorkerMoves(d) /\ worker'[d] = row
<1>1. worker \in [Drafts -> WorkerRow] /\ WorkerRow \subseteq WorkerRow'
  BY Types, Rows DEF IInv
<1> QED
  BY <1>1 DEF WorkerMoves

\* A draft's row that loses nothing but its state.
LEMMA StateSet ==
  ASSUME IInv, Grows, NEW d \in Drafts, NEW state \in DraftStates, SetDraftState(d, state)
  PROVE  /\ DraftMoves(d)
         /\ draft'[d].state = state
         /\ draft'[d].job = draft[d].job /\ draft'[d].uploaded = draft[d].uploaded
<1> DEFINE row == [draft[d] EXCEPT !.state = state]
<1>1. draft \in [Drafts -> DraftRow] /\ draft[d] \in DraftRow
  BY Types DEF IInv
<1>2. /\ row \in DraftRow
      /\ row.state = state /\ row.job = draft[d].job /\ row.uploaded = draft[d].uploaded
  BY <1>1 DEF DraftRow
<1>3. draft' = [draft EXCEPT ![d] = row]
  BY <1>1 DEF SetDraftState
<1>4. row \in DraftRow'
  BY <1>2, Rows
<1> HIDE DEF row
<1> QED
  BY <1>2, <1>3, <1>4, DraftSet

LEMMA SameDrafts ==
  ASSUME IInv, Grows, NEW d \in Drafts, draft' = draft
  PROVE  DraftMoves(d) /\ Kept(d)
<1>1. draft \in [Drafts -> DraftRow] /\ DraftRow \subseteq DraftRow'
  BY Types, Rows DEF IInv
<1> QED
  BY <1>1 DEF DraftMoves, Kept

LEMMA Idle ==
  ASSUME IInv, Grows, NEW d \in Drafts,
         NEW row \in {NoWorker, Ending}, worker' = [worker EXCEPT ![d] = row]
  PROVE  WorkerMoves(d) /\ Stops(d)
<1>1. NoWorker \in WorkerRow /\ NoWorker.at = "none" /\ NoWorker.job = NoJob
  <2>1. paired \in Nat /\ Len(jobs) \in Nat
    BY Types DEF IInv
  <2> QED
    BY <2>1 DEF NoWorker, WorkerRow, WorkerAt, NoJob, NoDevice
<1>2. Ending \in WorkerRow /\ Ending.at = "ending" /\ Ending.job = NoJob
  BY <1>1 DEF Ending, WorkerRow, WorkerAt
<1>3. row \in WorkerRow'
  BY <1>1, <1>2, Rows
<1>4. WorkerMoves(d) /\ worker'[d] = row
  BY <1>3, WorkerSet
<1> QED
  BY <1>1, <1>2, <1>4 DEF Stops

\* The ways a run ends: tried later, or over, with or without a word to the user.
LEMMA GoesLater ==
  ASSUME IInv, Grows, NEW d \in Drafts, RetryLater(d), draft' = draft
  PROVE  Moves(d)
BY Idle, SameDrafts, Stopped DEF RetryLater, Moves

LEMMA Fails ==
  ASSUME IInv, Grows, NEW d \in Drafts, NEW state \in DraftStates \ {"NONE"}, Fail(d, state),
         state = "REJECTED" /\ d \notin overtaken =>
           (\E j \in DOMAIN jobs : jobs[j].draft = d /\ Complete(jobs[j])) \/ revoked # {}
  PROVE  Moves(d)
<1>1. /\ DraftMoves(d) /\ draft'[d].state = state
      /\ draft'[d].job = draft[d].job /\ draft'[d].uploaded = draft[d].uploaded
  BY StateSet DEF Fail
<1>2. Kept(d)
  BY <1>1 DEF Kept
<1>3. WorkerMoves(d) /\ Stops(d)
  BY Idle DEF Fail
<1> QED
  BY <1>1, <1>2, <1>3, Stopped DEF Moves

\* What changes of a run when it goes to its next request.
LEMMA Goes ==
  ASSUME IInv, Grows, NEW d \in Drafts, NEW at \in WorkerAt, GoTo(d, at)
  PROVE  /\ WorkerMoves(d)
         /\ worker'[d].at = at /\ worker'[d].job = worker[d].job /\ worker'[d].todo = worker[d].todo
<1> DEFINE row == [worker[d] EXCEPT !.at = at, !.bearer = NoDevice, !.forced = FALSE]
<1>1. worker \in [Drafts -> WorkerRow] /\ worker[d] \in WorkerRow /\ NoDevice \in 0 .. paired
  BY Types DEF IInv, NoDevice
<1>2. row \in WorkerRow /\ row.at = at /\ row.job = worker[d].job /\ row.todo = worker[d].todo
  BY <1>1 DEF WorkerRow
<1>3. worker' = [worker EXCEPT ![d] = row]
  BY <1>1 DEF GoTo
<1>4. row \in WorkerRow'
  BY <1>2, Rows
<1> HIDE DEF row
<1> QED
  BY <1>2, <1>3, <1>4, WorkerSet

\* What changes of a run when it gets or loses a token.
LEMMA RunUnchanged ==
  ASSUME IInv, Grows, NEW d \in Drafts, draft' = draft,
         NEW row \in WorkerRow, worker' = [worker EXCEPT ![d] = row],
         row.at = worker[d].at, row.job = worker[d].job, row.todo = worker[d].todo
  PROVE  Moves(d)
<1>1. row \in WorkerRow'
  BY Rows
<1>2. WorkerMoves(d) /\ worker'[d] = row
  BY <1>1, WorkerSet
<1> QED
  BY <1>2, SameDrafts, Undisturbed DEF Moves, SameRun

-----------------------------------------------------------------------------
(* The connector's side of every step.                                     *)

\* A run that has a job has one of the connector's.
LEMMA RunHasJob ==
  ASSUME IInv, NEW d \in Drafts, worker[d].at \in {"upload", "mark", "submit", "poll", "revision", "attach"}
  PROVE  /\ worker[d].job # NoJob /\ worker[d].job \in 1 .. Len(jobs)
         /\ jobs[worker[d].job] \in JobRow /\ InRun(d)
<1>1. InRun(d) /\ worker[d].job # NoJob
  BY DEF IInv, Holds, RunHolds, InRun
<1>2. worker[d] \in WorkerRow /\ jobs \in Seq(JobRow) /\ Len(jobs) \in Nat
  BY Types DEF IInv
<1>3. worker[d].job \in 0 .. Len(jobs)
  BY <1>2 DEF WorkerRow
<1>4. worker[d].job \in 1 .. Len(jobs)
  BY <1>1, <1>2, <1>3 DEF NoJob
<1> QED
  BY <1>1, <1>2, <1>4, ElementOfSeq

LEMMA JobHolds ==
  ASSUME IInv, NEW j \in 1 .. Len(jobs)
  PROVE  jobs[j] \in JobRow /\ (jobs[j].state = "CAPTURED" <=> jobs[j].pages # Pages)
BY Types, ElementOfSeq DEF IInv, JobsComplete

LEMMA CreateGrows ==
  ASSUME IInv, NEW d \in Drafts, Accepted(d), CreateInvoiceJob(d), paired' = paired
  PROVE  JobsGrow /\ Len(jobs') = Len(jobs) + 1 /\ jobs'[Len(jobs')].draft = d
<1> DEFINE job == [draft |-> d, device |-> worker[d].bearer, state |-> "CAPTURED",
                   pages |-> {}, queued |-> 0]
<1>1. worker[d] \in WorkerRow /\ paired \in Nat
  BY Types DEF IInv
<1>2. worker[d].bearer \in 1 .. paired
  BY <1>1 DEF WorkerRow, Accepted, NoDevice
<1>3. job \in JobRow /\ job.state = "CAPTURED" /\ job.pages = {} /\ job.draft = d
  BY <1>2 DEF JobRow, JobStates
<1>4. jobs' = Append(jobs, job)
  BY DEF CreateInvoiceJob
<1> HIDE DEF job
<1> QED
  BY <1>3, <1>4, JobAdded

LEMMA UploadGrows ==
  ASSUME IInv, NEW d \in Drafts, worker[d].at = "upload", NEW page \in Pages,
         TakesPage(jobs[worker[d].job], page), UploadPage(d, page), paired' = paired
  PROVE  JobsGrow /\ Len(jobs') = Len(jobs) /\ page \in jobs'[worker[d].job].pages
<1> DEFINE job == jobs[worker[d].job]
           pages == job.pages \cup {page}
           new == [job EXCEPT !.pages = pages,
                              !.state = IF pages = Pages THEN "LOCALLY_VALIDATED" ELSE @]
<1>1. worker[d].job \in 1 .. Len(jobs) /\ job \in JobRow /\ job.state = "CAPTURED"
  BY RunHasJob DEF TakesPage
<1>2. pages \in SUBSET Pages /\ job.pages \subseteq pages /\ page \in pages
  BY <1>1 DEF JobRow
<1>3. /\ new \in JobRow /\ new.draft = job.draft /\ new.pages = pages
      /\ new.state = IF pages = Pages THEN "LOCALLY_VALIDATED" ELSE "CAPTURED"
  <2> HIDE DEF pages
  <2> HIDE DEF job
  <2> QED
    BY <1>1, <1>2 DEF JobRow, JobStates
<1>4. jobs' = [jobs EXCEPT ![worker[d].job] = new]
  BY DEF UploadPage, SetJob
<1>5. new.state = "CAPTURED" <=> new.pages # Pages
  BY <1>3
<1> HIDE DEF new
<1>6. JobsGrow
  BY <1>1, <1>2, <1>3, <1>4, <1>5, JobChanges
<1>7. Len(jobs') = Len(jobs) /\ jobs'[worker[d].job] = new
  BY <1>1, <1>3, <1>4, Types, ExceptSeq DEF IInv
<1> QED
  BY <1>2, <1>3, <1>6, <1>7

LEMMA SubmitGrows ==
  ASSUME IInv, NEW d \in Drafts, worker[d].at = "submit", SubmitInvoiceJob(d), paired' = paired
  PROVE  JobsGrow /\ Len(jobs') = Len(jobs)
<1> DEFINE job == jobs[worker[d].job]
           new == [job EXCEPT !.queued = @ + 1]
<1>1. worker[d].job \in 1 .. Len(jobs) /\ job \in JobRow /\ (job.state = "CAPTURED" <=> job.pages # Pages)
  BY RunHasJob, JobHolds
<1>2. new \in JobRow /\ new.draft = job.draft /\ new.pages = job.pages /\ new.state = job.state
  <2> HIDE DEF job
  <2> QED
    BY <1>1 DEF JobRow
<1>3. jobs' = [jobs EXCEPT ![worker[d].job] = new]
  BY DEF SubmitInvoiceJob, SetJob
<1> HIDE DEF new
<1>4. JobsGrow
  BY <1>1, <1>2, <1>3, JobChanges
<1>5. Len(jobs') = Len(jobs)
  BY <1>1, <1>2, <1>3, Types, ExceptSeq DEF IInv
<1> QED
  BY <1>4, <1>5

LEMMA EffectGrows ==
  ASSUME IInv, NEW d \in Drafts, Accepted(d), Effect(d), paired' = paired
  PROVE  JobsGrow
BY CreateGrows, UploadGrows, SubmitGrows DEF Effect

LEMMA ConnectorGrows ==
  ASSUME IInv, NEW j \in DOMAIN jobs, ConnectorStep(j)
  PROVE  JobsGrow
<1>1. j \in 1 .. Len(jobs) /\ paired' = paired
  BY Types DEF IInv, ConnectorStep, Process, Publish
<1>2. jobs[j] \in JobRow /\ (jobs[j].state = "CAPTURED" <=> jobs[j].pages # Pages)
  BY <1>1, JobHolds
<1>3. CASE Process(j)
  <2> DEFINE job == jobs[j]
             new == [job EXCEPT !.queued = @ - 1,
                                !.state = IF @ \in Submittable THEN "OCR_PROCESSING" ELSE @]
  <2>1. job \in JobRow /\ job.queued > 0 /\ (job.state = "CAPTURED" <=> job.pages # Pages)
    BY <1>2, <1>3 DEF Process
  <2>2. /\ new \in JobRow /\ new.draft = job.draft /\ new.pages = job.pages
        /\ new.state = IF job.state \in Submittable THEN "OCR_PROCESSING" ELSE job.state
    <3> DEFINE state == IF job.state \in Submittable THEN "OCR_PROCESSING" ELSE job.state
               queued == job.queued - 1
    <3>1. state \in JobStates /\ queued \in Nat
      BY <2>1 DEF JobRow, JobStates
    <3>2. new = [job EXCEPT !.queued = queued, !.state = state]
      BY <2>1 DEF JobRow
    <3> HIDE DEF state, queued, job, new
    <3>3. [job EXCEPT !.queued = queued, !.state = state] \in JobRow
      BY <2>1, <3>1 DEF JobRow
    <3>4. new.draft = job.draft /\ new.pages = job.pages /\ new.state = state
      BY <2>1, <3>2 DEF JobRow
    <3> QED
      BY <3>2, <3>3, <3>4 DEF state
  <2>3. new.state = "CAPTURED" <=> new.pages # Pages
    BY <2>1, <2>2 DEF Submittable, FailedStates
  <2>4. jobs' = [jobs EXCEPT ![j] = new]
    BY <1>3, <1>1, Types DEF Process, IInv
  <2> HIDE DEF new
  <2> QED
    BY <1>1, <2>1, <2>2, <2>3, <2>4, JobChanges
<1>4. CASE Publish(j)
  <2>1. PICK state \in FailedStates \cup {"AWAITING_USER_REVIEW"} : jobs' = [jobs EXCEPT ![j].state = state]
    BY <1>4 DEF Publish
  <2> DEFINE job == jobs[j]
             new == [job EXCEPT !.state = state]
  <2>2. job \in JobRow /\ job.pages = Pages /\ state # "CAPTURED"
    BY <1>2, <1>4 DEF Publish, FailedStates
  <2>3. new \in JobRow /\ new.draft = job.draft /\ new.pages = job.pages /\ new.state = state
    <3> HIDE DEF job
    <3> QED
      BY <2>2 DEF JobRow, JobStates
  <2>4. jobs' = [jobs EXCEPT ![j] = new]
    BY <2>1, <1>1, Types DEF IInv
  <2> HIDE DEF new
  <2> QED
    BY <1>1, <2>2, <2>3, <2>4, JobChanges
<1> QED
  BY <1>3, <1>4 DEF ConnectorStep

-----------------------------------------------------------------------------
(* Every step of the app and of the worker.                                *)

\* The work, the app's screen, the token and the counters.
LEMMA SameWorkers ==
  ASSUME IInv, Grows, NEW d \in Drafts, worker' = worker
  PROVE  WorkerMoves(d) /\ SameRun(d)
<1>1. worker \in [Drafts -> WorkerRow] /\ WorkerRow \subseteq WorkerRow'
  BY Types, Rows DEF IInv
<1> QED
  BY <1>1 DEF WorkerMoves, SameRun

LEMMA StartMoves ==
  ASSUME IInv, Grows, NEW d \in Drafts, Start(d)
  PROVE  Moves(d)
<1> DEFINE todo == Pages \ draft[d].uploaded
           row == [NoWorker EXCEPT !.at = FirstRequest(draft[d].job, todo), !.job = draft[d].job, !.todo = todo]
<1>1. CASE profile = NoDevice
  <2>1. SetDraftState(d, "PAIRING_REQUIRED") /\ worker' = [worker EXCEPT ![d] = Ending]
    BY <1>1 DEF Start
  <2>2. /\ DraftMoves(d) /\ draft'[d].state = "PAIRING_REQUIRED"
        /\ draft'[d].job = draft[d].job /\ draft'[d].uploaded = draft[d].uploaded
    BY <2>1, StateSet DEF DraftStates
  <2>3. Kept(d)
    BY <2>2 DEF Kept
  <2>4. WorkerMoves(d) /\ Stops(d)
    BY <2>1, Idle
  <2> QED
    BY <2>2, <2>3, <2>4, Stopped DEF Moves
<1>2. CASE profile # NoDevice
  <2>1. worker' = [worker EXCEPT ![d] = row] /\ draft' = draft
    BY <1>2 DEF Start
  <2>2. draft[d] \in DraftRow /\ paired \in Nat /\ Len(jobs) \in Nat
    BY Types DEF IInv
  <2>3. FirstRequest(draft[d].job, todo) \in WorkerAt
    BY DEF FirstRequest, WorkerAt, Requests
  <2>4. todo \in SUBSET Pages /\ draft[d].job \in 0 .. Len(jobs)
    BY <2>2 DEF DraftRow
  <2>5. /\ row \in WorkerRow /\ row.at = FirstRequest(draft[d].job, todo)
        /\ row.job = draft[d].job /\ row.todo = todo
    <3> HIDE DEF todo
    <3>1. NoWorker \in WorkerRow
      BY <2>2 DEF NoWorker, WorkerRow, WorkerAt, NoJob, NoDevice
    <3> QED
      BY <3>1, <2>2, <2>3, <2>4 DEF WorkerRow
  <2>6. row \in WorkerRow'
    BY <2>5, Rows
  <2>7. WorkerMoves(d) /\ worker'[d] = row
    <3> HIDE DEF row
    <3> QED
      BY <2>1, <2>6, WorkerSet
  <2>8. DraftMoves(d) /\ Kept(d) /\ draft'[d] = draft[d]
    BY <2>1, SameDrafts
  <2>9. /\ worker'[d].at = FirstRequest(draft[d].job, todo)
        /\ worker'[d].job = draft[d].job /\ worker'[d].todo = todo
    BY <2>5, <2>7
  <2>10. OwnJobs(d)' /\ RunHolds(d)'
    BY <2>8, <2>9, DraftKept DEF OwnJobs, RunHolds, FirstRequest, InRun
  <2>11. Agrees(d)'
    BY <2>8, <2>9 DEF Agrees, FirstRequest
  <2> QED
    BY <2>7, <2>8, <2>10, <2>11, DraftKept DEF Moves, Holds
<1> QED
  BY <1>1, <1>2

LEMMA Fresh ==
  ASSUME IInv
  PROVE  /\ FreshDraft \in DraftRow /\ FreshDraft.job = NoJob /\ FreshDraft.uploaded = {}
         /\ FreshDraft.state = "LOCAL_DRAFT"
<1>1. Len(jobs) \in Nat
  BY Types DEF IInv
<1>2. NoDraft \in DraftRow /\ NoDraft.job = NoJob /\ NoDraft.uploaded = {}
  BY <1>1 DEF NoDraft, DraftRow, DraftStates, NoJob
<1>3. "LOCAL_DRAFT" \in DraftStates
  BY DEF DraftStates
<1> QED
  BY <1>2, <1>3 DEF FreshDraft, DraftRow

LEMMA CreateDraftMoves ==
  ASSUME IInv, Grows, NEW d \in Drafts, CreateDraft(d)
  PROVE  Moves(d)
<1>1. /\ FreshDraft \in DraftRow /\ FreshDraft.job = NoJob /\ FreshDraft.uploaded = {}
      /\ FreshDraft.state = "LOCAL_DRAFT"
  BY Fresh
<1>2. FreshDraft \in DraftRow'
  BY <1>1, Rows
<1>3. DraftMoves(d) /\ draft'[d] = FreshDraft
  BY <1>2, DraftSet DEF CreateDraft
<1>4. draft[d].job = NoJob /\ draft[d].uploaded = {}
  BY DEF CreateDraft, IInv, Holds, Untouched
<1>5. Kept(d)
  BY <1>1, <1>3, <1>4 DEF Kept
<1>6. WorkerMoves(d) /\ SameRun(d)
  BY SameWorkers DEF CreateDraft
<1> QED
  BY <1>3, <1>5, <1>6, Undisturbed DEF Moves

\* A retry resets the draft; a run that is under way does not hear of it.
LEMMA RetryMoves ==
  ASSUME IInv, Grows, NEW d \in Drafts, Retry(d)
  PROVE  Moves(d)
<1>1. /\ FreshDraft \in DraftRow /\ FreshDraft.job = NoJob /\ FreshDraft.uploaded = {}
      /\ FreshDraft.state = "LOCAL_DRAFT"
  BY Fresh
<1>2. FreshDraft \in DraftRow'
  BY <1>1, Rows
<1>3. DraftMoves(d) /\ draft'[d] = FreshDraft
  BY <1>2, DraftSet DEF Retry
<1>4. WorkerMoves(d) /\ SameRun(d) /\ worker'[d] = worker[d]
  BY SameWorkers DEF Retry
<1>5. OwnJobs(d)'
  BY <1>1, <1>3, <1>4, RunKept DEF OwnJobs
<1>6. RunHolds(d)' /\ Untouched(d)'
  BY <1>1, <1>3, <1>4 DEF IInv, Holds, RunHolds, InRun, Untouched
<1>7. ASSUME d \notin overtaken' PROVE Agrees(d)' /\ Marked(d)' /\ NotLost(d)'
  <2>1. ~InRun(d)
    BY <1>7 DEF Retry
  <2>2. ~InRun(d)'
    BY <2>1, <1>4 DEF InRun
  <2> QED
    BY <2>2, <1>1, <1>3 DEF Agrees, Marked, NotLost
<1> QED
  BY <1>3, <1>4, <1>5, <1>6, <1>7 DEF Moves, Holds

\* The draft learns its job: a run that has created one has all its pages to send.
LEMMA AttachMoves ==
  ASSUME IInv, Grows, NEW d \in Drafts, AttachRemoteJob(d)
  PROVE  Moves(d)
<1> DEFINE row == [draft[d] EXCEPT !.job = worker[d].job, !.state = "CAPTURED"]
           at == FirstRequest(worker[d].job, worker[d].todo)
<1>1. draft \in [Drafts -> DraftRow] /\ draft[d] \in DraftRow
  BY Types DEF IInv
<1>2. worker[d].job # NoJob /\ worker[d].job \in 1 .. Len(jobs) /\ InRun(d)
  BY RunHasJob DEF AttachRemoteJob
<1>3. /\ row \in DraftRow /\ row.job = worker[d].job /\ row.state = "CAPTURED"
      /\ row.uploaded = draft[d].uploaded
  <2>1. worker[d].job \in 0 .. Len(jobs) /\ "CAPTURED" \in DraftStates
    BY <1>2, Rows DEF DraftStates, JobStates
  <2> QED
    BY <1>1, <2>1 DEF DraftRow
<1>4. draft' = [draft EXCEPT ![d] = row]
  BY <1>1 DEF AttachRemoteJob
<1>5. row \in DraftRow'
  BY <1>3, Rows
<1>6. DraftMoves(d) /\ draft'[d] = row
  <2> HIDE DEF row
  <2> QED
    BY <1>4, <1>5, DraftSet
<1>7. /\ draft'[d].job = worker[d].job /\ draft'[d].state = "CAPTURED"
      /\ draft'[d].uploaded = draft[d].uploaded
  BY <1>3, <1>6
<1>8. at \in {"upload", "submit"} /\ at \in WorkerAt /\ (at = "submit" <=> worker[d].todo = {})
  BY <1>2 DEF FirstRequest, WorkerAt, Requests
<1>9. /\ WorkerMoves(d)
      /\ worker'[d].at = at /\ worker'[d].job = worker[d].job /\ worker'[d].todo = worker[d].todo
  BY <1>8, Goes DEF AttachRemoteJob
<1> HIDE DEF row, at
<1>10. OwnJobs(d)' /\ RunHolds(d)' /\ Untouched(d)'
  BY <1>2, <1>7, <1>8, <1>9, RunKept DEF OwnJobs, RunHolds, Untouched
<1>11. ASSUME d \notin overtaken' PROVE Agrees(d)' /\ Marked(d)' /\ NotLost(d)'
  <2>1. Agrees(d) /\ Marked(d)
    BY <1>11 DEF Grows, IInv, Holds
  <2>2. draft[d].uploaded = {} /\ worker[d].todo = Pages \ draft[d].uploaded
    BY <1>2, <2>1 DEF Agrees, Marked, AttachRemoteJob
  <2>3. Agrees(d)'
    BY <1>7, <1>8, <1>9, <2>2 DEF Agrees
  <2> QED
    BY <1>7, <2>2, <2>3 DEF Marked, NotLost
<1> QED
  BY <1>6, <1>9, <1>10, <1>11 DEF Moves, Holds

\* The page that is marked is the page that has been stored.
LEMMA MarkMoves ==
  ASSUME IInv, Grows, NEW d \in Drafts, MarkPageUploaded(d)
  PROVE  Moves(d)
<1>1. PICK page \in Pages :
        /\ IsAt(d, page)
        /\ draft' = [draft EXCEPT ![d].uploaded = @ \cup {page}, ![d].state = "UPLOADING"]
        /\ worker' = [worker EXCEPT
             ![d].at = FirstRequest(worker[d].job, worker[d].todo \ {page}), ![d].todo = @ \ {page}]
  BY DEF MarkPageUploaded
<1> DEFINE uploaded == draft[d].uploaded \cup {page}
           todo == worker[d].todo \ {page}
           at == FirstRequest(worker[d].job, todo)
           row == [draft[d] EXCEPT !.uploaded = uploaded, !.state = "UPLOADING"]
           run == [worker[d] EXCEPT !.at = at, !.todo = todo]
<1>2. /\ draft \in [Drafts -> DraftRow] /\ draft[d] \in DraftRow
      /\ worker \in [Drafts -> WorkerRow] /\ worker[d] \in WorkerRow
  BY Types DEF IInv
<1>3. worker[d].at = "mark" /\ worker[d].job # NoJob /\ worker[d].job \in 1 .. Len(jobs) /\ InRun(d)
  BY RunHasJob DEF MarkPageUploaded
<1>4. uploaded \in SUBSET Pages /\ todo \in SUBSET Pages
  BY <1>2 DEF DraftRow, WorkerRow
<1>5. at \in {"upload", "submit"} /\ at \in WorkerAt /\ (at = "submit" <=> todo = {})
  BY <1>3 DEF FirstRequest, WorkerAt, Requests
<1>6. draft' = [draft EXCEPT ![d] = row] /\ worker' = [worker EXCEPT ![d] = run]
  <2>1. draft' = [draft EXCEPT ![d] = row]
    BY <1>1, <1>2
  <2>2. worker' = [worker EXCEPT ![d] = run]
    BY <1>1, <1>2
  <2> QED
    BY <2>1, <2>2
<1>7. /\ row \in DraftRow /\ row.job = draft[d].job /\ row.uploaded = uploaded
      /\ row.state = "UPLOADING" /\ "UPLOADING" \in DraftStates
  <2> HIDE DEF uploaded
  <2> QED
    BY <1>2, <1>4 DEF DraftRow, DraftStates
<1>8. /\ run \in WorkerRow /\ run.job = worker[d].job /\ run.todo = todo /\ run.at = at
  <2> HIDE DEF todo, at
  <2> QED
    BY <1>2, <1>4, <1>5 DEF WorkerRow
<1>9. DraftMoves(d) /\ draft'[d] = row /\ WorkerMoves(d) /\ worker'[d] = run
  <2>1. row \in DraftRow' /\ run \in WorkerRow'
    BY <1>7, <1>8, Rows
  <2> HIDE DEF row, run
  <2> QED
    BY <1>6, <2>1, DraftSet, WorkerSet
<1>10. /\ draft'[d].job = draft[d].job /\ draft'[d].uploaded = uploaded /\ draft'[d].state = "UPLOADING"
       /\ worker'[d].at = at /\ worker'[d].job = worker[d].job /\ worker'[d].todo = todo
  BY <1>7, <1>8, <1>9
<1> HIDE DEF row, run, at
<1>11. OwnJobs(d)' /\ RunHolds(d)' /\ Untouched(d)'
  BY <1>3, <1>5, <1>10, RunKept, StaysStored DEF OwnJobs, RunHolds, Untouched
<1>12. ASSUME d \notin overtaken' PROVE Agrees(d)' /\ Marked(d)' /\ NotLost(d)'
  <2>1. Agrees(d) /\ Marked(d)
    BY <1>12 DEF Grows, IInv, Holds
  <2>2. /\ draft[d].job = worker[d].job /\ worker[d].todo = Pages \ draft[d].uploaded
        /\ page \in jobs[worker[d].job].pages
    BY <1>1, <1>3, <2>1 DEF Agrees
  <2>3. draft[d].uploaded \subseteq jobs[worker[d].job].pages
    BY <1>3, <2>1, <2>2 DEF Marked
  <2>4. uploaded \subseteq jobs'[worker[d].job].pages
    BY <1>3, <2>2, <2>3, RunKept
  <2>5. todo = Pages \ uploaded
    BY <2>2
  <2>6. Agrees(d)'
    BY <1>5, <1>10, <2>2, <2>5 DEF Agrees
  <2>7. Marked(d)'
    BY <1>3, <1>10, <2>2, <2>4 DEF Marked
  <2> QED
    BY <1>10, <2>6, <2>7 DEF NotLost
<1> QED
  BY <1>9, <1>11, <1>12 DEF Moves, Holds

LEMMA EndMoves ==
  ASSUME IInv, Grows, NEW d \in Drafts, End(d) \/ NotPaired(d)
  PROVE  Moves(d)
BY Idle, SameDrafts, Stopped DEF End, NotPaired, Moves

LEMMA AuthorizeMoves ==
  ASSUME IInv, Grows, NEW d \in Drafts, Authorize(d)
  PROVE  Moves(d)
<1>1. worker \in [Drafts -> WorkerRow] /\ worker[d] \in WorkerRow /\ NoDevice \in 0 .. paired
      /\ token \in 0 .. paired /\ profile \in 0 .. paired
  BY Types DEF IInv, NoDevice, TypeOK
<1>2. CASE UseToken(d)
  <2> DEFINE row == [worker[d] EXCEPT !.bearer = token]
  <2>1. /\ row \in WorkerRow /\ row.at = worker[d].at /\ row.job = worker[d].job
        /\ row.todo = worker[d].todo
    BY <1>1 DEF WorkerRow
  <2>2. draft' = draft /\ worker' = [worker EXCEPT ![d] = row]
    BY <1>1, <1>2 DEF UseToken
  <2> HIDE DEF row
  <2> QED
    BY <2>1, <2>2, RunUnchanged
<1>3. CASE AskChallenge(d)
  <2> DEFINE row == [worker[d] EXCEPT !.device = profile]
  <2>1. /\ row \in WorkerRow /\ row.at = worker[d].at /\ row.job = worker[d].job
        /\ row.todo = worker[d].todo
    BY <1>1 DEF WorkerRow
  <2>2. draft' = draft /\ worker' = [worker EXCEPT ![d] = row]
    BY <1>1, <1>3 DEF AskChallenge
  <2> HIDE DEF row
  <2> QED
    BY <2>1, <2>2, RunUnchanged
<1>4. CASE NotPaired(d)
  BY <1>4, EndMoves
<1>5. CASE ExchangeToken(d)
  <2> DEFINE device == worker[d].device
             row == [worker[d] EXCEPT !.device = NoDevice, !.bearer = device]
  <2>1. CASE device \notin revoked
    <3>1. device \in 0 .. paired
      BY <1>1 DEF WorkerRow
    <3>2. /\ row \in WorkerRow /\ row.at = worker[d].at /\ row.job = worker[d].job
          /\ row.todo = worker[d].todo
      BY <1>1, <3>1 DEF WorkerRow
    <3>3. draft' = draft /\ worker' = [worker EXCEPT ![d] = row]
      BY <1>1, <1>5, <2>1 DEF ExchangeToken
    <3> HIDE DEF row
    <3> QED
      BY <3>2, <3>3, RunUnchanged
  <2>2. CASE device \in revoked
    BY <1>5, <2>2, Fails DEF ExchangeToken, DraftStates
  <2> QED
    BY <2>1, <2>2
<1> QED
  BY <1>2, <1>3, <1>4, <1>5 DEF Authorize

LEMMA UnauthorizedMoves ==
  ASSUME IInv, Grows, NEW d \in Drafts, Unauthorized(d)
  PROVE  Moves(d)
<1>1. CASE worker[d].forced
  BY <1>1, Fails DEF Unauthorized, DraftStates
<1>2. CASE ~worker[d].forced
  <2> DEFINE row == [worker[d] EXCEPT !.bearer = NoDevice, !.forced = TRUE]
  <2>1. worker \in [Drafts -> WorkerRow] /\ worker[d] \in WorkerRow /\ NoDevice \in 0 .. paired
    BY Types DEF IInv, NoDevice
  <2>2. /\ row \in WorkerRow /\ row.at = worker[d].at /\ row.job = worker[d].job
        /\ row.todo = worker[d].todo
    BY <2>1 DEF WorkerRow
  <2>3. draft' = draft /\ worker' = [worker EXCEPT ![d] = row]
    BY <1>2, <2>1 DEF Unauthorized
  <2> HIDE DEF row
  <2> QED
    BY <2>2, <2>3, RunUnchanged
<1> QED
  BY <1>1, <1>2

\* What the connector refuses it has: the pages are all there.
LEMMA RefusedMoves ==
  ASSUME IInv, Grows, NEW d \in Drafts, Refused(d)
  PROVE  Moves(d)
<1>1. /\ worker[d].job # NoJob /\ worker[d].job \in 1 .. Len(jobs) /\ worker[d].job \in DOMAIN jobs
      /\ jobs[worker[d].job] \in JobRow /\ InRun(d) /\ worker[d].at \in {"upload", "submit"}
      /\ jobs[worker[d].job].draft = d
  BY RunHasJob, Types DEF Refused, IInv, Holds, OwnJobs
<1>2. ASSUME d \notin overtaken
      PROVE  \E j \in DOMAIN jobs : jobs[j].draft = d /\ Complete(jobs[j])
  <2>1. CASE worker[d].at = "upload"
    <3>1. jobs[worker[d].job].state # "CAPTURED"
      BY <2>1 DEF Refused, TakesPage
    <3>2. Complete(jobs[worker[d].job])
      BY <1>1, <3>1, JobHolds DEF Complete
    <3> QED
      BY <1>1, <3>2
  <2>2. CASE worker[d].at = "submit"
    <3>1. Agrees(d) /\ Marked(d)
      BY <1>2 DEF IInv, Holds
    <3>2. draft[d].job = worker[d].job /\ worker[d].todo = {} /\ worker[d].todo = Pages \ draft[d].uploaded
      BY <1>1, <2>2, <3>1 DEF Agrees
    <3>3. draft[d].uploaded \subseteq jobs[worker[d].job].pages
      BY <1>1, <3>1, <3>2 DEF Marked
    <3>4. Complete(jobs[worker[d].job])
      BY <1>1, <3>2, <3>3 DEF Complete, JobRow
    <3> QED
      BY <1>1, <3>4
  <2> QED
    BY <1>1, <2>1, <2>2
<1>3. Fail(d, "REJECTED")
  BY DEF Refused
<1>4. "REJECTED" \in DraftStates \ {"NONE"}
  BY DEF DraftStates
<1> QED
  BY <1>2, <1>3, <1>4, Fails

LEMMA TriesLaterMoves ==
  ASSUME IInv, Grows, NEW d \in Drafts, RequestFails(d) \/ Forbidden(d) \/ AnswerLost(d)
  PROVE  Moves(d)
BY GoesLater DEF RequestFails, Forbidden, AnswerLost

\* The worker hears that the connector has created its job.
LEMMA CreatedMoves ==
  ASSUME IInv, Grows, NEW d \in Drafts, worker[d].at = "create", draft' = draft,
         worker' = [worker EXCEPT ![d].at = "attach", ![d].job = Len(jobs')],
         Len(jobs') = Len(jobs) + 1, jobs'[Len(jobs')].draft = d
  PROVE  Moves(d)
<1> DEFINE row == [worker[d] EXCEPT !.at = "attach", !.job = Len(jobs')]
<1>1. worker \in [Drafts -> WorkerRow] /\ worker[d] \in WorkerRow /\ Len(jobs) \in Nat
  BY Types DEF IInv
<1>2. worker[d] \in WorkerRow'
  BY <1>1, Rows
<1>3. Len(jobs') \in 0 .. Len(jobs') /\ Len(jobs') # NoJob
  BY <1>1 DEF NoJob
<1>4. /\ row \in WorkerRow' /\ row.at = "attach" /\ row.job = Len(jobs') /\ row.todo = worker[d].todo
  BY <1>2, <1>3 DEF WorkerRow, WorkerAt
<1>5. worker' = [worker EXCEPT ![d] = row]
  BY <1>1
<1> HIDE DEF row
<1>6. WorkerMoves(d) /\ worker'[d] = row
  BY <1>4, <1>5, WorkerSet
<1>7. DraftMoves(d) /\ Kept(d) /\ draft'[d] = draft[d]
  BY SameDrafts
<1>8. OwnJobs(d)' /\ RunHolds(d)'
  BY <1>3, <1>4, <1>6, <1>7, DraftKept DEF OwnJobs, RunHolds, InRun
<1>9. Agrees(d) => Agrees(d)'
  BY <1>4, <1>6, <1>7 DEF Agrees, InRun
<1> QED
  BY <1>6, <1>7, <1>8, <1>9, DraftKept DEF Moves, Holds, IInv

\* The worker hears that its page is stored.
LEMMA UploadedMoves ==
  ASSUME IInv, Grows, NEW d \in Drafts, worker[d].at = "upload", draft' = draft, GoTo(d, "mark"),
         NEW page \in Pages, IsAt(d, page), page \in jobs'[worker[d].job].pages
  PROVE  Moves(d)
<1>1. /\ WorkerMoves(d)
      /\ worker'[d].at = "mark" /\ worker'[d].job = worker[d].job /\ worker'[d].todo = worker[d].todo
  BY Goes DEF WorkerAt
<1>2. DraftMoves(d) /\ Kept(d) /\ draft'[d] = draft[d]
  BY SameDrafts
<1>3. worker[d].job # NoJob /\ InRun(d)
  BY RunHasJob
<1>4. OwnJobs(d)' /\ RunHolds(d)'
  BY <1>1, <1>2, <1>3, DraftKept, RunKept DEF OwnJobs, RunHolds, InRun
<1>5. \A other \in Pages : IsAt(d, other)' => other = page
  BY <1>1, Types DEF IsAt, Pages, IInv
<1>6. Agrees(d) => Agrees(d)'
  BY <1>1, <1>2, <1>3, <1>5 DEF Agrees
<1> QED
  BY <1>1, <1>2, <1>4, <1>6, DraftKept DEF Moves, Holds, IInv

LEMMA AnsweredMoves ==
  ASSUME IInv, Grows, NEW d \in Drafts, Answered(d)
  PROVE  Moves(d)
<1>1. Accepted(d) /\ Effect(d) /\ paired' = paired
  BY DEF Answered
<1>2. CASE worker[d].at = "create"
  <2>1. CreateInvoiceJob(d) /\ draft' = draft
        /\ worker' = [worker EXCEPT ![d].at = "attach", ![d].job = Len(jobs')]
    BY <1>2 DEF Answered, Effect
  <2>2. Len(jobs') = Len(jobs) + 1 /\ jobs'[Len(jobs')].draft = d
    BY <1>1, <2>1, CreateGrows
  <2> QED
    BY <1>2, <2>1, <2>2, CreatedMoves
<1>3. CASE worker[d].at = "upload"
  <2>1. GoTo(d, "mark") /\ draft' = draft
    BY <1>3 DEF Answered
  <2>2. PICK page \in Pages : IsAt(d, page) /\ TakesPage(jobs[worker[d].job], page) /\ UploadPage(d, page)
    BY <1>1, <1>3 DEF Effect
  <2>3. page \in jobs'[worker[d].job].pages
    BY <1>1, <1>3, <2>2, UploadGrows
  <2> QED
    BY <1>3, <2>1, <2>2, <2>3, UploadedMoves
<1>4. CASE worker[d].at = "submit"
  <2>1. GoTo(d, "poll") /\ SetDraftState(d, "PROCESSING")
    BY <1>4 DEF Answered
  <2>2. /\ DraftMoves(d) /\ draft'[d].state = "PROCESSING"
        /\ draft'[d].job = draft[d].job /\ draft'[d].uploaded = draft[d].uploaded
    BY <2>1, StateSet DEF DraftStates
  <2>3. /\ WorkerMoves(d) /\ worker'[d].at = "poll"
        /\ worker'[d].job = worker[d].job /\ worker'[d].todo = worker[d].todo
    BY <2>1, Goes DEF WorkerAt, Requests
  <2>4. Kept(d)
    BY <2>2 DEF Kept
  <2> QED
    BY <1>4, <2>2, <2>3, <2>4, Waits DEF Moves
<1> QED
  BY <1>1, <1>2, <1>3, <1>4 DEF Effect

\* A poll writes a state of the connector, and goes on or ends.
LEMMA PollMoves ==
  ASSUME IInv, Grows, NEW d \in Drafts, Poll(d)
  PROVE  Moves(d)
<1> DEFINE state == jobs[worker[d].job].state
<1>1. worker[d].at = "poll" /\ state \in JobStates
  BY RunHasJob DEF Poll, JobRow
<1>2. state \in DraftStates \ {"NONE"} /\ state # "REJECTED"
  BY <1>1 DEF DraftStates, JobStates, FailedStates
<1> HIDE DEF state
<1>3. CASE Fail(d, state)
  BY <1>2, <1>3, Fails
<1>4. ASSUME SetDraftState(d, state), NEW at \in {"poll", "revision"}, GoTo(d, at)
      PROVE  Moves(d)
  <2>1. /\ DraftMoves(d) /\ draft'[d].state = state
        /\ draft'[d].job = draft[d].job /\ draft'[d].uploaded = draft[d].uploaded
    BY <1>2, <1>4, StateSet
  <2>2. /\ WorkerMoves(d) /\ worker'[d].at = at
        /\ worker'[d].job = worker[d].job /\ worker'[d].todo = worker[d].todo
    BY <1>4, Goes DEF WorkerAt, Requests
  <2>3. Kept(d)
    BY <1>2, <2>1 DEF Kept
  <2> QED
    BY <1>1, <2>1, <2>2, <2>3, Waits DEF Moves
<1>5. ASSUME SetDraftState(d, state), RetryLater(d) PROVE Moves(d)
  <2>1. /\ DraftMoves(d) /\ draft'[d].state = state
        /\ draft'[d].job = draft[d].job /\ draft'[d].uploaded = draft[d].uploaded
    BY <1>2, <1>5, StateSet
  <2>2. WorkerMoves(d) /\ Stops(d)
    BY <1>5, Idle DEF RetryLater
  <2>3. Kept(d)
    BY <1>2, <2>1 DEF Kept
  <2> QED
    BY <2>1, <2>2, <2>3, Stopped DEF Moves
<1> QED
  BY <1>3, <1>4, <1>5 DEF Poll, state

LEMMA SaveRevisionMoves ==
  ASSUME IInv, Grows, NEW d \in Drafts, SaveRevision(d)
  PROVE  Moves(d)
<1> DEFINE row == [draft[d] EXCEPT !.state = "AWAITING_USER_REVIEW", !.revision = TRUE]
<1>1. draft \in [Drafts -> DraftRow] /\ draft[d] \in DraftRow
  BY Types DEF IInv
<1>2. /\ row \in DraftRow /\ row.job = draft[d].job /\ row.uploaded = draft[d].uploaded
      /\ row.state = "AWAITING_USER_REVIEW"
  BY <1>1 DEF DraftRow, DraftStates, JobStates
<1>3. draft' = [draft EXCEPT ![d] = row]
  BY <1>1 DEF SaveRevision
<1>4. DraftMoves(d) /\ draft'[d] = row
  <2>1. row \in DraftRow'
    BY <1>2, Rows
  <2> HIDE DEF row
  <2> QED
    BY <1>3, <2>1, DraftSet
<1>5. Kept(d)
  BY <1>2, <1>4 DEF Kept
<1>6. WorkerMoves(d) /\ Stops(d)
  BY Idle DEF SaveRevision
<1> QED
  BY <1>4, <1>5, <1>6, Stopped DEF Moves

-----------------------------------------------------------------------------
(* Every step.                                                             *)

LEMMA AnsweredGrows ==
  ASSUME IInv, NEW d \in Drafts, Answered(d) \/ AnswerLost(d)
  PROVE  Grows
<1>1. Accepted(d) /\ Effect(d) /\ paired' = paired
  BY DEF Answered, AnswerLost
<1>2. UNCHANGED <<overtaken, revoked>>
  BY DEF Answered, AnswerLost, retried
<1> QED
  BY <1>1, <1>2, EffectGrows DEF Grows

\* Most steps leave the connector alone.
LEMMA QuietGrows ==
  ASSUME IInv, UNCHANGED connector, overtaken \subseteq overtaken'
  PROVE  Grows
<1>1. paired' \in 0 .. MaxDevices /\ paired <= paired' /\ jobs' = jobs /\ revoked' = revoked
  BY Types DEF IInv, connector
<1> QED
  BY <1>1, JobsUnchanged DEF Grows

LEMMA WorkerStepGrows ==
  ASSUME IInv, NEW d \in Drafts, WorkerStep(d)
  PROVE  Grows
<1>1. CASE Answered(d)
  BY <1>1, AnsweredGrows
<1>2. CASE Start(d) \/ AttachRemoteJob(d) \/ MarkPageUploaded(d) \/ End(d)
  BY <1>2, QuietGrows DEF Start, AttachRemoteJob, MarkPageUploaded, End, retried
<1>3. CASE Authorize(d)
  BY <1>3, QuietGrows DEF Authorize, UseToken, AskChallenge, NotPaired, ExchangeToken, retried
<1>4. CASE Unauthorized(d) \/ Forbidden(d) \/ Refused(d)
  BY <1>4, QuietGrows DEF Unauthorized, Forbidden, Refused, retried
<1>5. CASE Poll(d) \/ SaveRevision(d)
  BY <1>5, QuietGrows DEF Poll, SaveRevision, retried
<1> QED
  BY <1>1, <1>2, <1>3, <1>4, <1>5 DEF WorkerStep

LEMMA UserStepGrows ==
  ASSUME IInv, UserStep
  PROVE  Grows
<1>1. CASE \E d \in Drafts : CreateDraft(d) \/ Retry(d)
  BY <1>1, QuietGrows DEF CreateDraft, Retry, retried
<1>2. CASE ClaimPairing
  <2>1. paired' \in 0 .. MaxDevices /\ paired <= paired' /\ jobs' = jobs
    BY <1>2, Types DEF ClaimPairing, IInv
  <2> QED
    BY <1>2, <2>1, JobsUnchanged DEF ClaimPairing, retried, Grows
<1>3. CASE ForgetPairing
  BY <1>3, QuietGrows DEF ForgetPairing, retried
<1>4. CASE \E v \in 1 .. MaxDevices : RevokeDevice(v)
  <2>1. paired' \in 0 .. MaxDevices /\ paired <= paired' /\ jobs' = jobs
    BY <1>4, Types DEF RevokeDevice, IInv
  <2> QED
    BY <1>4, <2>1, JobsUnchanged DEF RevokeDevice, retried, Grows
<1> QED
  BY <1>1, <1>2, <1>3, <1>4 DEF UserStep

LEMMA StepGrows ==
  ASSUME IInv, Next
  PROVE  Grows
<1>1. CASE UserStep
  BY <1>1, UserStepGrows
<1>2. CASE FaultStep
  <2>1. CASE AppStop
    BY <2>1, QuietGrows DEF AppStop, retried
  <2>2. ASSUME NEW d \in Drafts, RequestFails(d) PROVE Grows
    BY <2>2, QuietGrows DEF RequestFails, retried
  <2>3. ASSUME NEW d \in Drafts, AnswerLost(d) PROVE Grows
    BY <2>3, AnsweredGrows
  <2> QED
    BY <1>2, <2>1, <2>2, <2>3 DEF FaultStep
<1>3. ASSUME NEW d \in Drafts, EnqueueUpload(d) PROVE Grows
  BY <1>3, QuietGrows DEF EnqueueUpload, retried
<1>4. ASSUME NEW d \in Drafts, WorkerStep(d) PROVE Grows
  BY <1>4, WorkerStepGrows
<1>5. ASSUME NEW j \in DOMAIN jobs, ConnectorStep(j) PROVE Grows
  <2>1. overtaken' = overtaken /\ revoked' = revoked
    BY <1>5 DEF ConnectorStep, Process, Publish, retried
  <2> QED
    BY <1>5, <2>1, ConnectorGrows DEF Grows
<1> QED
  BY <1>1, <1>2, <1>3, <1>4, <1>5 DEF Next

\* The drafts and their workers, after a step.
RowsHold ==
  /\ draft' \in [Drafts -> DraftRow'] /\ worker' \in [Drafts -> WorkerRow']
  /\ \A e \in Drafts : Holds(e)'

LEMMA OneMoves ==
  ASSUME IInv, Grows, NEW d \in Drafts, Moves(d)
  PROVE  RowsHold
<1>1. ASSUME NEW e \in Drafts PROVE Holds(e)'
  <2>1. CASE e = d
    BY <2>1 DEF Moves
  <2>2. CASE e # d
    <3>1. draft'[e] = draft[e] /\ worker'[e] = worker[e]
      BY <2>2 DEF Moves, DraftMoves, WorkerMoves
    <3> QED
      BY <3>1, Undisturbed DEF Kept, SameRun
  <2> QED
    BY <2>1, <2>2
<1> QED
  BY <1>1 DEF Moves, DraftMoves, WorkerMoves, RowsHold

LEMMA NoneMoves ==
  ASSUME IInv, Grows, draft' = draft, worker' = worker
  PROVE  RowsHold
<1>1. draft \in [Drafts -> DraftRow] /\ worker \in [Drafts -> WorkerRow]
  BY Types DEF IInv
<1>2. draft' \in [Drafts -> DraftRow'] /\ worker' \in [Drafts -> WorkerRow']
  <2>1. CASE Drafts = {}
    BY <1>1, <2>1
  <2>2. CASE Drafts # {}
    BY <1>1, <2>2, Rows
  <2> QED
    BY <2>1, <2>2
<1>3. \A e \in Drafts : Holds(e)'
  BY Undisturbed DEF Kept, SameRun
<1> QED
  BY <1>2, <1>3 DEF RowsHold

\* Every run ends with the process; the drafts are on disk.
LEMMA AppStopRows ==
  ASSUME IInv, Grows, AppStop
  PROVE  RowsHold
<1>1. draft' = draft /\ worker' = [d \in Drafts |-> NoWorker]
  BY DEF AppStop
<1>2. NoWorker \in WorkerRow' /\ NoWorker.at = "none" /\ NoWorker.job = NoJob
  <2>1. paired' \in Nat /\ Len(jobs') \in Nat
    <3>1. paired' \in 0 .. MaxDevices /\ (jobs \in Seq(JobRow))'
      BY DEF Grows, JobsGrow
    <3> QED
      BY <3>1, LenProperties, BoundsAssumption
  <2> QED
    BY <2>1 DEF NoWorker, WorkerRow, WorkerAt, NoJob, NoDevice
<1>3. ASSUME NEW e \in Drafts PROVE Holds(e)'
  <2>1. Kept(e)
    BY <1>1 DEF Kept
  <2>2. Stops(e)
    BY <1>1, <1>2 DEF Stops
  <2> QED
    BY <2>1, <2>2, Stopped
<1>4. draft' \in [Drafts -> DraftRow']
  <2>1. draft \in [Drafts -> DraftRow]
    BY Types DEF IInv
  <2>2. CASE Drafts = {}
    BY <1>1, <2>1, <2>2
  <2>3. CASE Drafts # {}
    BY <1>1, <2>1, <2>3, Rows
  <2> QED
    BY <2>2, <2>3
<1> QED
  BY <1>1, <1>2, <1>3, <1>4 DEF RowsHold

LEMMA WorkerStepMoves ==
  ASSUME IInv, Grows, NEW d \in Drafts, WorkerStep(d)
  PROVE  Moves(d)
BY StartMoves, AttachMoves, MarkMoves, EndMoves, AuthorizeMoves, UnauthorizedMoves, TriesLaterMoves,
   RefusedMoves, AnsweredMoves, PollMoves, SaveRevisionMoves
DEF WorkerStep

LEMMA StepRows ==
  ASSUME IInv, Grows, Next
  PROVE  RowsHold
<1>1. CASE UserStep
  <2>1. ASSUME NEW d \in Drafts, CreateDraft(d) PROVE RowsHold
    BY <2>1, CreateDraftMoves, OneMoves
  <2>2. ASSUME NEW d \in Drafts, Retry(d) PROVE RowsHold
    BY <2>2, RetryMoves, OneMoves
  <2>3. CASE ClaimPairing \/ ForgetPairing \/ \E v \in 1 .. MaxDevices : RevokeDevice(v)
    BY <2>3, NoneMoves DEF ClaimPairing, ForgetPairing, RevokeDevice, phone
  <2> QED
    BY <1>1, <2>1, <2>2, <2>3 DEF UserStep
<1>2. CASE FaultStep
  <2>1. CASE AppStop
    BY <2>1, AppStopRows
  <2>2. ASSUME NEW d \in Drafts, RequestFails(d) \/ AnswerLost(d) PROVE RowsHold
    BY <2>2, TriesLaterMoves, OneMoves
  <2> QED
    BY <1>2, <2>1, <2>2 DEF FaultStep
<1>3. ASSUME NEW d \in Drafts, EnqueueUpload(d) PROVE RowsHold
  BY <1>3, NoneMoves DEF EnqueueUpload
<1>4. ASSUME NEW d \in Drafts, WorkerStep(d) PROVE RowsHold
  BY <1>4, WorkerStepMoves, OneMoves
<1>5. ASSUME NEW j \in DOMAIN jobs, ConnectorStep(j) PROVE RowsHold
  BY <1>5, NoneMoves DEF ConnectorStep, Process, Publish, phone
<1> QED
  BY <1>1, <1>2, <1>3, <1>4, <1>5 DEF Next

\* Everything but the drafts, the workers and the jobs.
WorkTyped == work \in [Drafts -> {"none", "enqueued", "running", "finished"}]
UiTyped == ui \in [Drafts -> {"idle", "enqueue"}]
DevicesTyped == profile \in 0 .. paired /\ token \in 0 .. paired /\ revoked \subseteq 1 .. paired
CountersTyped == retries \in 0 .. MaxRetries /\ overtaken \subseteq Drafts /\ faults \in 0 .. MaxFaults

RestTyped == WorkTyped /\ UiTyped /\ DevicesTyped /\ CountersTyped

LEMMA RestIsTyped ==
  ASSUME TypeOK
  PROVE  /\ RestTyped /\ paired \in Nat /\ MaxRetries \in Nat /\ MaxFaults \in Nat
         /\ retries \in Nat /\ faults \in Nat
         /\ \A d \in Drafts : worker[d].device \in 0 .. paired
<1>1. RestTyped
  BY DEF TypeOK, RestTyped, WorkTyped, UiTyped, DevicesTyped, CountersTyped
<1>2. worker \in [Drafts -> WorkerRow]
  BY Types
<1>3. \A d \in Drafts : worker[d].device \in 0 .. paired
  BY <1>2 DEF WorkerRow
<1> QED
  BY <1>1, <1>3, BoundsAssumption DEF TypeOK

LEMMA FaultTyped ==
  ASSUME TypeOK, retries' = retries, overtaken' = overtaken, Fault \/ faults' = faults
  PROVE  CountersTyped'
BY RestIsTyped DEF Fault, RestTyped, CountersTyped

LEMMA DevicesStay ==
  ASSUME TypeOK, UNCHANGED <<paired, revoked>>, profile' \in {profile, NoDevice},
         token' \in {token, NoDevice} \/ \E d \in Drafts : token' = worker[d].device
  PROVE  DevicesTyped'
BY RestIsTyped DEF RestTyped, DevicesTyped, NoDevice

LEMMA WorkStays ==
  ASSUME TypeOK, NEW d \in Drafts, work' = work \/ RetryLater(d) \/ work' = [work EXCEPT ![d] = "running"]
                   \/ work' = [work EXCEPT ![d] = "finished"]
  PROVE  WorkTyped'
BY RestIsTyped DEF RestTyped, WorkTyped, RetryLater

LEMMA WorkerStepTyped ==
  ASSUME TypeOK, NEW d \in Drafts, WorkerStep(d) \/ RequestFails(d) \/ AnswerLost(d)
  PROVE  RestTyped'
<1>1. WorkTyped'
  BY WorkStays DEF WorkerStep, Authorize, RequestFails, AnswerLost, Start, AttachRemoteJob,
     MarkPageUploaded, End, UseToken, AskChallenge, NotPaired, ExchangeToken, Unauthorized,
     Forbidden, Refused, Answered, Poll, SaveRevision, Fail
<1>2. UiTyped'
  BY RestIsTyped DEF RestTyped, UiTyped, WorkerStep, Authorize, RequestFails, AnswerLost, Start, AttachRemoteJob,
     MarkPageUploaded, End, UseToken, AskChallenge, NotPaired, ExchangeToken, Unauthorized,
     Forbidden, Refused, Answered, Poll, SaveRevision
<1>3. DevicesTyped'
  BY DevicesStay DEF WorkerStep, Authorize, RequestFails, AnswerLost, Start, AttachRemoteJob,
     MarkPageUploaded, End, UseToken, AskChallenge, NotPaired, ExchangeToken, Unauthorized,
     Forbidden, Refused, Answered, Poll, SaveRevision, connector
<1>4. CountersTyped'
  BY FaultTyped DEF WorkerStep, Authorize, RequestFails, AnswerLost, Start, AttachRemoteJob,
     MarkPageUploaded, End, UseToken, AskChallenge, NotPaired, ExchangeToken, Unauthorized,
     Forbidden, Refused, Answered, Poll, SaveRevision, retried
<1> QED
  BY <1>1, <1>2, <1>3, <1>4 DEF RestTyped

LEMMA AppStepTyped ==
  ASSUME TypeOK, NEW d \in Drafts, CreateDraft(d) \/ Retry(d) \/ EnqueueUpload(d)
  PROVE  RestTyped'
<1>1. WorkTyped'
  BY RestIsTyped DEF RestTyped, WorkTyped, CreateDraft, Retry, EnqueueUpload
<1>2. UiTyped'
  BY RestIsTyped DEF RestTyped, UiTyped, CreateDraft, Retry, EnqueueUpload
<1>3. DevicesTyped'
  BY DevicesStay DEF CreateDraft, Retry, EnqueueUpload, connector
<1>4. CountersTyped'
  BY RestIsTyped DEF RestTyped, CountersTyped, CreateDraft, Retry, EnqueueUpload, retried
<1> QED
  BY <1>1, <1>2, <1>3, <1>4 DEF RestTyped

LEMMA OtherStepTyped ==
  ASSUME TypeOK, ClaimPairing \/ ForgetPairing \/ AppStop
                   \/ (\E v \in 1 .. MaxDevices : RevokeDevice(v))
                   \/ (\E j \in DOMAIN jobs : ConnectorStep(j))
  PROVE  RestTyped'
<1>1. WorkTyped'
  BY RestIsTyped DEF RestTyped, WorkTyped, ClaimPairing, ForgetPairing, AppStop, RevokeDevice,
     ConnectorStep, Process, Publish, phone
<1>2. UiTyped'
  BY RestIsTyped DEF RestTyped, UiTyped, ClaimPairing, ForgetPairing, AppStop, RevokeDevice,
     ConnectorStep, Process, Publish, phone
<1>3. CountersTyped'
  BY FaultTyped DEF ClaimPairing, ForgetPairing, AppStop, RevokeDevice,
     ConnectorStep, Process, Publish, retried
<1>4. DevicesTyped'
  <2>1. CASE ClaimPairing
    BY <2>1, RestIsTyped DEF RestTyped, DevicesTyped, ClaimPairing, NoDevice
  <2>2. CASE \E v \in 1 .. MaxDevices : RevokeDevice(v)
    BY <2>2, RestIsTyped DEF RestTyped, DevicesTyped, RevokeDevice, phone
  <2>3. CASE ForgetPairing \/ AppStop \/ \E j \in DOMAIN jobs : ConnectorStep(j)
    BY <2>3, DevicesStay DEF ForgetPairing, AppStop, ConnectorStep, Process, Publish, phone, connector
  <2> QED
    BY <2>1, <2>2, <2>3
<1> QED
  BY <1>1, <1>2, <1>3, <1>4 DEF RestTyped

LEMMA StepTyped ==
  ASSUME TypeOK, Next
  PROVE  RestTyped'
BY WorkerStepTyped, AppStepTyped, OtherStepTyped DEF Next, UserStep, FaultStep

-----------------------------------------------------------------------------
(* The theorems.                                                           *)

\* The type invariant, in the parts it is proved in.
TypeParts ==
  /\ RestTyped /\ draft \in [Drafts -> DraftRow] /\ worker \in [Drafts -> WorkerRow]
  /\ jobs \in Seq(JobRow) /\ paired \in 0 .. MaxDevices

LEMMA PartsAreTyped == TypeParts => TypeOK
BY DEF TypeParts, TypeOK, RestTyped, WorkTyped, UiTyped, DevicesTyped, CountersTyped,
   DraftRow, WorkerRow, WorkerAt, JobRow

LEMMA InitIInv == Init => IInv
<1> SUFFICES ASSUME Init PROVE IInv
  OBVIOUS
<1>1. jobs \in Seq(JobRow) /\ Len(jobs) = 0 /\ DOMAIN jobs = {} /\ paired = 0
  BY DEF Init
<1>2. NoDraft \in DraftRow /\ NoDraft.job = NoJob /\ NoDraft.uploaded = {} /\ NoDraft.state = "NONE"
  BY <1>1 DEF NoDraft, DraftRow, DraftStates, NoJob
<1>3. NoWorker \in WorkerRow /\ NoWorker.job = NoJob /\ NoWorker.at = "none"
  BY <1>1 DEF NoWorker, WorkerRow, WorkerAt, NoJob, NoDevice
<1>4. draft \in [Drafts -> DraftRow] /\ worker \in [Drafts -> WorkerRow]
  BY <1>2, <1>3 DEF Init
<1>5. RestTyped /\ paired \in 0 .. MaxDevices
  BY <1>1, BoundsAssumption
  DEF Init, RestTyped, WorkTyped, UiTyped, DevicesTyped, CountersTyped, NoDevice
<1>6. TypeOK
  BY <1>1, <1>4, <1>5, PartsAreTyped DEF TypeParts
<1>7. ASSUME NEW d \in Drafts PROVE Holds(d)
  <2>1. draft[d] = NoDraft /\ worker[d] = NoWorker
    BY DEF Init
  <2> QED
    BY <2>1, <1>2, <1>3
    DEF Holds, OwnJobs, RunHolds, Untouched, Agrees, Marked, NotLost, InRun
<1> QED
  BY <1>1, <1>6, <1>7 DEF IInv, JobsComplete

LEMMA NextIInv == IInv /\ [Next]_vars => IInv'
<1> SUFFICES ASSUME IInv, [Next]_vars PROVE IInv'
  OBVIOUS
<1>1. CASE Next
  <2>1. Grows
    BY <1>1, StepGrows
  <2>2. RowsHold
    BY <1>1, <2>1, StepRows
  <2>3. RestTyped'
    BY <1>1, StepTyped DEF IInv
  <2>4. paired' \in 0 .. MaxDevices /\ (jobs \in Seq(JobRow))' /\ JobsComplete'
    BY <2>1 DEF Grows, JobsGrow
  <2>5. TypeParts'
    BY <2>2, <2>3, <2>4 DEF RowsHold, TypeParts
  <2>6. TypeOK'
    BY <2>5, PartsAreTyped, PTL
  <2> QED
    BY <2>2, <2>4, <2>6 DEF IInv, RowsHold
<1>2. CASE UNCHANGED vars
  <2>1. TypeOK'
    <3>1. /\ draft' = draft /\ work' = work /\ worker' = worker /\ ui' = ui /\ profile' = profile
          /\ token' = token /\ jobs' = jobs /\ paired' = paired /\ revoked' = revoked
          /\ retries' = retries /\ overtaken' = overtaken /\ faults' = faults
      BY <1>2 DEF vars, phone, connector, retried
    <3>2. RestTyped'
      BY <3>1, RestIsTyped DEF IInv, RestTyped, WorkTyped, UiTyped, DevicesTyped, CountersTyped
    <3>3. Grows
      BY <3>1, QuietGrows DEF connector
    <3>4. RowsHold
      BY <3>1, <3>3, NoneMoves
    <3>5. TypeParts'
      BY <3>1, <3>2, <3>3, <3>4 DEF RowsHold, Grows, JobsGrow, TypeParts
    <3> QED
      BY <3>5, PartsAreTyped, PTL
  <2>2. JobsComplete'
    BY <1>2 DEF vars, phone, connector, retried, JobsComplete, IInv
  <2>3. \A d \in Drafts : Holds(d)'
    BY <1>2 DEF vars, phone, connector, retried, IInv, Holds, OwnJobs, RunHolds, Untouched, Agrees,
       Marked, NotLost, InRun, IsAt, Complete
  <2> QED
    BY <2>1, <2>2, <2>3 DEF IInv
<1> QED
  BY <1>1, <1>2

(* The inductive invariant holds in every run of the app, the worker and   *)
(* the connector.                                                          *)
THEOREM Invariance == Spec => []IInv
BY InitIInv, NextIInv, PTL DEF Spec

(* Every row, work, token and job keeps its shape: what a run holds always *)
(* names a job that the connector has.                                     *)
THEOREM TypeCorrect == Spec => []TypeOK
<1>1. IInv => TypeOK
  BY DEF IInv
<1> QED
  BY <1>1, Invariance, PTL

(* Whatever is lost, and whenever the app dies, a page that a run will skip*)
(* is stored in the job that its draft is attached to, unless a retry has  *)
(* overtaken a run.                                                        *)
THEOREM MarkedAreStored == Spec => []MarkedPagesAreStored
<1>1. IInv => MarkedPagesAreStored
  BY DEF IInv, Holds, Marked, MarkedPagesAreStored
<1> QED
  BY <1>1, Invariance, PTL

(* A draft that ends rejected has all its pages with the connector, or the *)
(* phone was revoked, or a retry has overtaken a run.                      *)
THEOREM RejectedNotLost == Spec => []RejectedIsNotLost
<1>1. IInv => RejectedIsNotLost
  BY DEF IInv, Holds, NotLost, RejectedIsNotLost
<1> QED
  BY <1>1, Invariance, PTL

-----------------------------------------------------------------------------
(* The budget of an invoice: its pages are sent to one job, and to one     *)
(* more for every retry of the user, whatever is lost and whenever the app *)
(* dies. A draft that has not yet sent a page since it was made, or since  *)
(* it was last retried, may still open one job with pages (Unsent). A      *)
(* retry gives it another such chance, and so does it to the run that it   *)
(* overtakes, if that run still has an empty job (Strays). Jobs with pages *)
(* and chances together are never more than drafts and retries             *)
(* (WithinBudget).                                                         *)

Sent == {j \in DOMAIN jobs : jobs[j].pages # {}}
Created == {d \in Drafts : draft[d].state # "NONE"}
Unsent == {d \in Created : draft[d].job = NoJob \/ jobs[draft[d].job].pages = {}}

\* A run whose draft has been reset while it was sending pages.
Astray(d) ==
  InRun(d) /\ worker[d].at # "attach" /\ worker[d].job # NoJob /\ draft[d].job = NoJob

Strays == {d \in Drafts : Astray(d) /\ jobs[worker[d].job].pages = {}}

\* A draft has no job but that of its run, which attaches a job to none that has one.
RunJob(d) ==
  InRun(d) =>
    /\ draft[d].job \in {NoJob, worker[d].job}
    /\ worker[d].at = "attach" => draft[d].job = NoJob

Finite == IsFiniteSet(Created) /\ IsFiniteSet(overtaken)

WithinBudget ==
  Cardinality(Sent) + Cardinality(Unsent) + Cardinality(Strays) <= Cardinality(Created) + retries

\* The inductive invariant, on top of IInv.
Budget == Finite /\ WithinBudget /\ \A d \in Drafts : RunJob(d)

-----------------------------------------------------------------------------
(* What a step that is no retry does to a draft and its run.               *)

\* The job of a draft stays, and a run goes astray only by a retry.
Steady(d) ==
  /\ draft[d].job # NoJob => draft'[d].job = draft[d].job
  /\ draft[d].state # "NONE" => draft'[d].state # "NONE"
  /\ RunJob(d)'
  /\ Astray(d)' => Astray(d) /\ worker'[d].job = worker[d].job

JobStays(d) ==
  /\ draft'[d].job = draft[d].job
  /\ draft[d].state # "NONE" => draft'[d].state # "NONE"

LEMMA SteadyEnd ==
  ASSUME NEW d \in Drafts, JobStays(d), Stops(d)
  PROVE  Steady(d)
BY DEF Steady, JobStays, Stops, RunJob, Astray, InRun

\* The run keeps its job, and has attached it before and after, or not.
LEMMA SteadyRun ==
  ASSUME NEW d \in Drafts, RunJob(d), JobStays(d), InRun(d)' => InRun(d),
         worker'[d].job = worker[d].job, worker'[d].at = "attach" <=> worker[d].at = "attach"
  PROVE  Steady(d)
BY DEF Steady, JobStays, RunJob, Astray

LEMMA SteadyRest ==
  ASSUME NEW d \in Drafts, RunJob(d), draft'[d] = draft[d], worker'[d] = worker[d]
  PROVE  Steady(d)
BY SteadyRun DEF JobStays, InRun

\* A state is written, or none.
LEMMA StateStays ==
  ASSUME IInv, Grows, NEW d \in Drafts,
         draft' = draft \/ \E state \in DraftStates \ {"NONE"} : SetDraftState(d, state)
  PROVE  JobStays(d)
BY StateSet DEF JobStays

LEMMA EndSteady ==
  ASSUME IInv, Grows, NEW d \in Drafts,
         draft' = draft \/ \E state \in DraftStates \ {"NONE"} : SetDraftState(d, state),
         \E row \in {NoWorker, Ending} : worker' = [worker EXCEPT ![d] = row]
  PROVE  Steady(d)
BY StateStays, Idle, SteadyEnd

\* The next request of the same run.
LEMMA GoSteady ==
  ASSUME IInv, Grows, NEW d \in Drafts, RunJob(d), InRun(d), worker[d].at # "attach",
         draft' = draft \/ \E state \in DraftStates \ {"NONE"} : SetDraftState(d, state),
         NEW at \in WorkerAt \ {"attach"}, GoTo(d, at)
  PROVE  Steady(d)
<1>1. worker'[d].at = at /\ worker'[d].job = worker[d].job
  BY Goes
<1> QED
  BY <1>1, StateStays, SteadyRun

\* A token is got or lost.
LEMMA TokenSteady ==
  ASSUME IInv, Grows, NEW d \in Drafts, RunJob(d), draft' = draft,
         NEW row \in WorkerRow, worker' = [worker EXCEPT ![d] = row],
         row.at = worker[d].at, row.job = worker[d].job
  PROVE  Steady(d)
<1>1. worker'[d] = row
  BY WorkerSet, Rows
<1> QED
  BY <1>1, SteadyRun DEF JobStays, InRun

-----------------------------------------------------------------------------
(* Every step of a worker is steady.                                       *)

LEMMA StartSteady ==
  ASSUME IInv, Grows, NEW d \in Drafts, Start(d)
  PROVE  Steady(d)
<1> DEFINE todo == Pages \ draft[d].uploaded
           row == [NoWorker EXCEPT !.at = FirstRequest(draft[d].job, todo), !.job = draft[d].job, !.todo = todo]
<1>1. CASE profile = NoDevice
  BY <1>1, EndSteady DEF Start, DraftStates
<1>2. CASE profile # NoDevice
  <2>1. worker' = [worker EXCEPT ![d] = row] /\ draft' = draft
    BY <1>2 DEF Start
  <2>2. worker \in [Drafts -> WorkerRow]
    BY Types DEF IInv
  <2>3. worker'[d] = row
    BY <2>1, <2>2
  <2>4. row.job = draft[d].job /\ row.at = FirstRequest(draft[d].job, todo)
    BY DEF NoWorker
  <2>5. row.at # "attach"
    BY <2>4 DEF FirstRequest
  <2> QED
    BY <2>1, <2>3, <2>4, <2>5 DEF Steady, RunJob, Astray
<1> QED
  BY <1>1, <1>2

LEMMA AttachSteady ==
  ASSUME IInv, Grows, NEW d \in Drafts, RunJob(d), AttachRemoteJob(d)
  PROVE  Steady(d)
<1> DEFINE at == FirstRequest(worker[d].job, worker[d].todo)
<1>1. draft \in [Drafts -> DraftRow] /\ draft[d] \in DraftRow
  BY Types DEF IInv
<1>2. draft'[d].job = worker[d].job /\ draft'[d].state = "CAPTURED"
  BY <1>1 DEF AttachRemoteJob, DraftRow
<1>3. worker[d].job # NoJob /\ InRun(d) /\ draft[d].job = NoJob
  BY RunHasJob DEF AttachRemoteJob, RunJob
<1>4. at \in WorkerAt \ {"attach"}
  BY DEF FirstRequest, WorkerAt, Requests
<1>5. worker'[d].at = at /\ worker'[d].job = worker[d].job
  BY <1>4, Goes DEF AttachRemoteJob
<1> QED
  BY <1>2, <1>3, <1>4, <1>5 DEF Steady, RunJob, Astray

LEMMA MarkSteady ==
  ASSUME IInv, Grows, NEW d \in Drafts, RunJob(d), MarkPageUploaded(d)
  PROVE  Steady(d)
<1>1. PICK page \in Pages :
        /\ draft' = [draft EXCEPT ![d].uploaded = @ \cup {page}, ![d].state = "UPLOADING"]
        /\ worker' = [worker EXCEPT
             ![d].at = FirstRequest(worker[d].job, worker[d].todo \ {page}), ![d].todo = @ \ {page}]
  BY DEF MarkPageUploaded
<1>2. /\ draft \in [Drafts -> DraftRow] /\ draft[d] \in DraftRow
      /\ worker \in [Drafts -> WorkerRow] /\ worker[d] \in WorkerRow
  BY Types DEF IInv
<1>3. draft'[d].job = draft[d].job /\ draft'[d].state = "UPLOADING"
  BY <1>1, <1>2 DEF DraftRow
<1>4. worker'[d].job = worker[d].job
      /\ worker'[d].at = FirstRequest(worker[d].job, worker[d].todo \ {page})
  BY <1>1, <1>2 DEF WorkerRow
<1>5. worker'[d].at # "attach" /\ worker[d].at # "attach" /\ InRun(d)
  BY <1>4, RunHasJob DEF FirstRequest, MarkPageUploaded
<1> QED
  BY <1>3, <1>4, <1>5, SteadyRun DEF JobStays

LEMMA AuthorizeSteady ==
  ASSUME IInv, Grows, NEW d \in Drafts, RunJob(d), Authorize(d)
  PROVE  Steady(d)
<1>1. worker \in [Drafts -> WorkerRow] /\ worker[d] \in WorkerRow /\ NoDevice \in 0 .. paired
      /\ token \in 0 .. paired /\ profile \in 0 .. paired
  BY Types DEF IInv, NoDevice, TypeOK
<1>2. CASE UseToken(d)
  <2> DEFINE row == [worker[d] EXCEPT !.bearer = token]
  <2>1. row \in WorkerRow /\ row.at = worker[d].at /\ row.job = worker[d].job
    BY <1>1 DEF WorkerRow
  <2>2. draft' = draft /\ worker' = [worker EXCEPT ![d] = row]
    BY <1>1, <1>2 DEF UseToken
  <2> HIDE DEF row
  <2> QED
    BY <2>1, <2>2, TokenSteady
<1>3. CASE AskChallenge(d)
  <2> DEFINE row == [worker[d] EXCEPT !.device = profile]
  <2>1. row \in WorkerRow /\ row.at = worker[d].at /\ row.job = worker[d].job
    BY <1>1 DEF WorkerRow
  <2>2. draft' = draft /\ worker' = [worker EXCEPT ![d] = row]
    BY <1>1, <1>3 DEF AskChallenge
  <2> HIDE DEF row
  <2> QED
    BY <2>1, <2>2, TokenSteady
<1>4. CASE NotPaired(d)
  BY <1>4, EndSteady DEF NotPaired
<1>5. CASE ExchangeToken(d) /\ worker[d].device \in revoked
  BY <1>5, EndSteady DEF ExchangeToken, Fail, DraftStates
<1>6. CASE ExchangeToken(d) /\ worker[d].device \notin revoked
  <2> DEFINE device == worker[d].device
             row == [worker[d] EXCEPT !.device = NoDevice, !.bearer = device]
  <2>1. device \in 0 .. paired
    BY <1>1 DEF WorkerRow
  <2>2. row \in WorkerRow /\ row.at = worker[d].at /\ row.job = worker[d].job
    BY <1>1, <2>1 DEF WorkerRow
  <2>3. draft' = draft /\ worker' = [worker EXCEPT ![d] = row]
    BY <1>1, <1>6 DEF ExchangeToken
  <2> HIDE DEF row
  <2> QED
    BY <2>2, <2>3, TokenSteady
<1> QED
  BY <1>2, <1>3, <1>4, <1>5, <1>6 DEF Authorize

LEMMA UnauthorizedSteady ==
  ASSUME IInv, Grows, NEW d \in Drafts, RunJob(d), Unauthorized(d)
  PROVE  Steady(d)
<1>1. CASE worker[d].forced
  BY <1>1, EndSteady DEF Unauthorized, Fail, DraftStates
<1>2. CASE ~worker[d].forced
  <2> DEFINE row == [worker[d] EXCEPT !.bearer = NoDevice, !.forced = TRUE]
  <2>1. worker \in [Drafts -> WorkerRow] /\ worker[d] \in WorkerRow /\ NoDevice \in 0 .. paired
    BY Types DEF IInv, NoDevice
  <2>2. row \in WorkerRow /\ row.at = worker[d].at /\ row.job = worker[d].job
    BY <2>1 DEF WorkerRow
  <2>3. draft' = draft /\ worker' = [worker EXCEPT ![d] = row]
    BY <1>2, <2>1 DEF Unauthorized
  <2> HIDE DEF row
  <2> QED
    BY <2>2, <2>3, TokenSteady
<1> QED
  BY <1>1, <1>2

LEMMA AnsweredSteady ==
  ASSUME IInv, Grows, NEW d \in Drafts, RunJob(d), Answered(d)
  PROVE  Steady(d)
<1>1. CASE worker[d].at = "create"
  <2>1. draft' = draft /\ worker' = [worker EXCEPT ![d].at = "attach", ![d].job = Len(jobs')]
    BY <1>1 DEF Answered
  <2>2. worker \in [Drafts -> WorkerRow] /\ worker[d] \in WorkerRow
    BY Types DEF IInv
  <2>3. worker'[d].at = "attach"
    BY <2>1, <2>2 DEF WorkerRow
  <2>4. draft[d].job = NoJob
    BY <1>1 DEF RunJob, InRun, IInv, Holds, RunHolds
  <2> QED
    BY <2>1, <2>3, <2>4 DEF Steady, RunJob, Astray
<1>2. CASE worker[d].at = "upload"
  BY <1>2, RunHasJob, GoSteady DEF Answered, WorkerAt
<1>3. CASE worker[d].at = "submit"
  <2>1. GoTo(d, "poll") /\ SetDraftState(d, "PROCESSING") /\ InRun(d)
    BY <1>3, RunHasJob DEF Answered
  <2>2. "poll" \in WorkerAt \ {"attach"} /\ "PROCESSING" \in DraftStates \ {"NONE"}
    BY DEF WorkerAt, Requests, DraftStates
  <2> QED
    BY <1>3, <2>1, <2>2, GoSteady
<1> QED
  BY <1>1, <1>2, <1>3 DEF Answered, Effect

LEMMA PollSteady ==
  ASSUME IInv, Grows, NEW d \in Drafts, RunJob(d), Poll(d)
  PROVE  Steady(d)
<1> DEFINE state == jobs[worker[d].job].state
<1>1. worker[d].at = "poll" /\ state \in JobStates /\ InRun(d)
  BY RunHasJob DEF Poll, JobRow
<1>2. state \in DraftStates \ {"NONE"}
  BY <1>1 DEF DraftStates, JobStates, FailedStates
<1>3. {"poll", "revision"} \subseteq WorkerAt \ {"attach"}
  BY DEF WorkerAt, Requests
<1> HIDE DEF state
<1>4. CASE Fail(d, state)
  BY <1>2, <1>4, EndSteady DEF Fail
<1>5. ASSUME SetDraftState(d, state), NEW at \in {"poll", "revision"}, GoTo(d, at)
      PROVE  Steady(d)
  BY <1>1, <1>2, <1>3, <1>5, GoSteady
<1>6. CASE SetDraftState(d, state) /\ RetryLater(d)
  BY <1>2, <1>6, EndSteady DEF RetryLater
<1> QED
  BY <1>4, <1>5, <1>6 DEF Poll, state

LEMMA SaveRevisionSteady ==
  ASSUME IInv, Grows, NEW d \in Drafts, SaveRevision(d)
  PROVE  Steady(d)
<1>1. draft \in [Drafts -> DraftRow] /\ draft[d] \in DraftRow
  BY Types DEF IInv
<1>2. draft'[d].job = draft[d].job /\ draft'[d].state = "AWAITING_USER_REVIEW"
  BY <1>1 DEF SaveRevision, DraftRow
<1>3. Stops(d)
  BY Idle DEF SaveRevision
<1> QED
  BY <1>2, <1>3, SteadyEnd DEF JobStays

LEMMA WorkerStepSteady ==
  ASSUME IInv, Grows, NEW d \in Drafts, RunJob(d), WorkerStep(d) \/ RequestFails(d) \/ AnswerLost(d)
  PROVE  Steady(d)
<1>1. CASE End(d) \/ Forbidden(d) \/ RequestFails(d) \/ AnswerLost(d)
  BY <1>1, EndSteady DEF End, Forbidden, RequestFails, AnswerLost, RetryLater
<1>2. CASE Refused(d)
  BY <1>2, EndSteady DEF Refused, Fail, DraftStates
<1> QED
  BY <1>1, <1>2, StartSteady, AttachSteady, MarkSteady, AuthorizeSteady, UnauthorizedSteady,
     AnsweredSteady, PollSteady, SaveRevisionSteady
  DEF WorkerStep

-----------------------------------------------------------------------------
(* Sets that grow or shrink by one.                                        *)

LEMMA NotLarger ==
  ASSUME NEW S, IsFiniteSet(S), NEW T, T \subseteq S
  PROVE  IsFiniteSet(T) /\ Cardinality(T) \in Nat /\ Cardinality(S) \in Nat
         /\ Cardinality(T) <= Cardinality(S)
BY FS_Subset, FS_CardinalityType

LEMMA OneLarger ==
  ASSUME NEW S, IsFiniteSet(S), NEW x, NEW T, T \subseteq S \cup {x}
  PROVE  IsFiniteSet(T) /\ Cardinality(T) \in Nat /\ Cardinality(S) \in Nat
         /\ Cardinality(T) <= Cardinality(S) + 1
<1>1. IsFiniteSet(S \cup {x}) /\ Cardinality(S) \in Nat
      /\ (Cardinality(S \cup {x}) = Cardinality(S) \/ Cardinality(S \cup {x}) = Cardinality(S) + 1)
  BY FS_AddElement, FS_CardinalityType
<1>2. IsFiniteSet(T) /\ Cardinality(T) \in Nat /\ Cardinality(T) <= Cardinality(S \cup {x})
  BY <1>1, NotLarger
<1> QED
  BY <1>1, <1>2

LEMMA OneSmaller ==
  ASSUME NEW S, IsFiniteSet(S), NEW x \in S, NEW T, T \subseteq S \ {x}
  PROVE  IsFiniteSet(T) /\ Cardinality(T) \in Nat /\ Cardinality(S) \in Nat
         /\ Cardinality(T) <= Cardinality(S) - 1
<1>1. IsFiniteSet(S \ {x}) /\ Cardinality(S \ {x}) = Cardinality(S) - 1 /\ Cardinality(S) \in Nat
  BY FS_RemoveElement, FS_CardinalityType
<1>2. IsFiniteSet(T) /\ Cardinality(T) \in Nat /\ Cardinality(T) <= Cardinality(S \ {x})
  BY <1>1, NotLarger
<1> QED
  BY <1>1, <1>2

\* Jobs, chances and strays are finitely many.
LEMMA BudgetTypes ==
  ASSUME IInv, Budget
  PROVE  /\ IsFiniteSet(Sent) /\ IsFiniteSet(Unsent) /\ IsFiniteSet(Strays)
         /\ IsFiniteSet(Created) /\ IsFiniteSet(overtaken)
         /\ Cardinality(Sent) \in Nat /\ Cardinality(Unsent) \in Nat
         /\ Cardinality(Strays) \in Nat /\ Cardinality(Created) \in Nat /\ retries \in Nat
<1>1. IsFiniteSet(Created) /\ IsFiniteSet(overtaken)
  BY DEF Budget, Finite
<1>2. Unsent \subseteq Created
  BY DEF Unsent
<1>3. Strays \subseteq overtaken
  <2> SUFFICES ASSUME NEW d \in Strays, d \notin overtaken PROVE FALSE
    OBVIOUS
  <2>1. d \in Drafts /\ Astray(d)
    BY DEF Strays
  <2>2. RunHolds(d) /\ Agrees(d)
    BY <2>1 DEF IInv, Holds
  <2> QED
    BY <2>1, <2>2 DEF Astray, RunHolds, Agrees
<1>4. Sent \subseteq 1 .. Len(jobs) /\ Len(jobs) \in Nat
  BY Types DEF IInv, Sent
<1>5. IsFiniteSet(1 .. Len(jobs))
  BY <1>4, FS_Interval
<1>6. retries \in Nat
  BY RestIsTyped DEF IInv
<1> QED
  BY <1>1, <1>2, <1>3, <1>4, <1>5, <1>6, NotLarger

-----------------------------------------------------------------------------
(* The budget after a step.                                                *)

\* Only one draft may be made in a step, and none is taken away.
OneMade == \E d \in Drafts : \A e \in Drafts \ {d} : draft'[e].state = draft[e].state

AllSteady == \A d \in Drafts : Steady(d)

\* A steady step gives nobody a new chance, but a draft that it makes.
LEMMA SteadySets ==
  ASSUME IInv, Grows, AllSteady
  PROVE  /\ Created \subseteq Created'
         /\ Unsent' \subseteq Unsent \cup (Created' \ Created)
         /\ Strays' \subseteq Strays
<1>1. ASSUME NEW d \in Created PROVE d \in Created'
  BY <1>1 DEF Created, AllSteady, Steady
<1>2. ASSUME NEW d \in Unsent', d \in Created PROVE d \in Unsent
  <2>1. d \in Drafts /\ (draft'[d].job = NoJob \/ jobs'[draft'[d].job].pages = {})
    BY <1>2 DEF Unsent, Created
  <2>2. draft[d].job # NoJob => draft'[d].job = draft[d].job /\ draft[d].job \in 1 .. Len(jobs)
    BY <2>1, Rows DEF AllSteady, Steady, NoJob
  <2>3. \A j \in 1 .. Len(jobs) : jobs[j].pages \subseteq jobs'[j].pages
    BY DEF Grows, JobsGrow
  <2>4. draft[d].job = NoJob \/ jobs[draft[d].job].pages = {}
    BY <2>1, <2>2, <2>3
  <2> QED
    BY <1>2, <2>4 DEF Unsent
<1>3. ASSUME NEW d \in Strays' PROVE d \in Strays
  <2>1. d \in Drafts /\ Astray(d)' /\ jobs'[worker'[d].job].pages = {}
    BY <1>3 DEF Strays
  <2>2. Astray(d) /\ worker'[d].job = worker[d].job
    BY <2>1 DEF AllSteady, Steady
  <2>3. jobs[worker[d].job].pages \subseteq jobs'[worker[d].job].pages
    BY <2>1, <2>2, RunKept DEF Astray
  <2>4. jobs[worker[d].job].pages = {}
    BY <2>1, <2>2, <2>3
  <2> QED
    BY <2>1, <2>2, <2>4 DEF Strays
<1>4. Unsent' \subseteq Created'
  BY DEF Unsent
<1> QED
  BY <1>1, <1>2, <1>3, <1>4

LEMMA SteadyFinite ==
  ASSUME IInv, Grows, Budget, AllSteady, OneMade \/ Created' = Created, overtaken' = overtaken
  PROVE  /\ Finite'
         /\ \/ Created' = Created
            \/ \E d \in Drafts : d \notin Created /\ Created' = Created \cup {d}
<1>1. Created \subseteq Created'
  BY SteadySets
<1>2. \/ Created' = Created
      \/ \E d \in Drafts : d \notin Created /\ Created' = Created \cup {d}
  <2>1. CASE Created' = Created
    BY <2>1
  <2>2. CASE OneMade
    <3>1. PICK d \in Drafts : \A e \in Drafts \ {d} : draft'[e].state = draft[e].state
      BY <2>2 DEF OneMade
    <3>2. \A e \in Created' : e = d \/ e \in Created
      BY <3>1 DEF Created
    <3> QED
      BY <1>1, <3>2
  <2> QED
    BY <2>1, <2>2
<1>3. IsFiniteSet(Created) /\ IsFiniteSet(overtaken)
  BY DEF Budget, Finite
<1>4. IsFiniteSet(Created')
  BY <1>2, <1>3, FS_AddElement
<1> QED
  BY <1>2, <1>3, <1>4 DEF Finite

\* A step that sends no page to a job that has none.
LEMMA NothingSent ==
  ASSUME IInv, Grows, Budget, AllSteady, OneMade \/ Created' = Created,
         Sent' \subseteq Sent, overtaken' = overtaken, retries' = retries
  PROVE  Budget'
<1>1. /\ Unsent' \subseteq Unsent \cup (Created' \ Created) /\ Strays' \subseteq Strays
  BY SteadySets
<1>2. /\ Finite'
      /\ \/ Created' = Created
         \/ \E d \in Drafts : d \notin Created /\ Created' = Created \cup {d}
  BY SteadyFinite
<1>3. /\ Cardinality(Sent') \in Nat /\ Cardinality(Sent') <= Cardinality(Sent)
      /\ Cardinality(Strays') \in Nat /\ Cardinality(Strays') <= Cardinality(Strays)
      /\ Cardinality(Sent) \in Nat /\ Cardinality(Unsent) \in Nat
      /\ Cardinality(Strays) \in Nat /\ Cardinality(Created) \in Nat /\ retries \in Nat
  BY <1>1, BudgetTypes, NotLarger
<1>4. Cardinality(Sent) + Cardinality(Unsent) + Cardinality(Strays) <= Cardinality(Created) + retries
  BY DEF Budget, WithinBudget
<1>5. \/ Cardinality(Unsent') \in Nat /\ Cardinality(Unsent') <= Cardinality(Unsent)
         /\ Cardinality(Created') = Cardinality(Created)
      \/ Cardinality(Unsent') \in Nat /\ Cardinality(Unsent') <= Cardinality(Unsent) + 1
         /\ Cardinality(Created') = Cardinality(Created) + 1
  <2>1. CASE Created' = Created
    BY <1>1, <2>1, BudgetTypes, NotLarger
  <2>2. ASSUME NEW d \in Drafts, d \notin Created, Created' = Created \cup {d}
        PROVE  /\ Cardinality(Unsent') \in Nat /\ Cardinality(Unsent') <= Cardinality(Unsent) + 1
               /\ Cardinality(Created') = Cardinality(Created) + 1
    <3>1. Unsent' \subseteq Unsent \cup {d}
      BY <1>1, <2>2
    <3>2. Cardinality(Unsent') \in Nat /\ Cardinality(Unsent') <= Cardinality(Unsent) + 1
      BY <3>1, BudgetTypes, OneLarger
    <3>3. Cardinality(Created \cup {d}) = Cardinality(Created) + 1
      BY <2>2, BudgetTypes, FS_AddElement
    <3> QED
      BY <2>2, <3>2, <3>3
  <2> QED
    BY <1>2, <2>1, <2>2
<1>6. Cardinality(Sent') + Cardinality(Unsent') + Cardinality(Strays')
        <= Cardinality(Created') + retries
  BY <1>3, <1>4, <1>5
<1>7. WithinBudget'
  BY <1>6 DEF WithinBudget
<1> QED
  BY <1>2, <1>7 DEF Budget, AllSteady, Steady

\* The first page of a job uses up the chance of its draft, or of a stray run.
LEMMA PageSent ==
  ASSUME IInv, Grows, Budget, AllSteady, NEW d \in Drafts, worker[d].at = "upload",
         jobs'[worker[d].job].pages # {}, Sent' \subseteq Sent \cup {worker[d].job},
         draft' = draft, overtaken' = overtaken, retries' = retries
  PROVE  Budget'
<1> DEFINE job == worker[d].job
<1>1. Created' = Created
  BY DEF Created
<1>2. Unsent' \subseteq Unsent /\ Strays' \subseteq Strays
  BY <1>1, SteadySets
<1>3. CASE job \in Sent
  <2>1. Sent' \subseteq Sent
    BY <1>3
  <2> QED
    BY <1>1, <2>1, NothingSent
<1>4. CASE job \notin Sent
  <2>1. job # NoJob /\ job \in DOMAIN jobs /\ InRun(d) /\ jobs[job].pages = {}
    BY <1>4, RunHasJob, Types DEF Sent, IInv
  <2>2. ASSUME draft[d].job = NoJob
        PROVE  /\ Cardinality(Unsent') \in Nat /\ Cardinality(Strays') \in Nat
               /\ Cardinality(Unsent') <= Cardinality(Unsent)
               /\ Cardinality(Strays') <= Cardinality(Strays) - 1
    <3>1. d \in Strays
      BY <2>1, <2>2 DEF Strays, Astray
    <3>2. d \notin Strays'
      <4>1. Astray(d)' => worker'[d].job = job
        BY DEF AllSteady, Steady
      <4> QED
        BY <4>1 DEF Strays
    <3>3. Cardinality(Strays') \in Nat /\ Cardinality(Strays') <= Cardinality(Strays) - 1
      BY <1>2, <3>1, <3>2, BudgetTypes, OneSmaller
    <3>4. Cardinality(Unsent') \in Nat /\ Cardinality(Unsent') <= Cardinality(Unsent)
      BY <1>2, BudgetTypes, NotLarger
    <3> QED
      BY <3>3, <3>4
  <2>3. ASSUME draft[d].job # NoJob
        PROVE  /\ Cardinality(Unsent') \in Nat /\ Cardinality(Strays') \in Nat
               /\ Cardinality(Unsent') <= Cardinality(Unsent) - 1
               /\ Cardinality(Strays') <= Cardinality(Strays)
    <3>1. draft[d].job = job
      BY <2>1, <2>3 DEF Budget, RunJob
    <3>2. d \in Created
      BY <2>3 DEF Created, IInv, Holds, Untouched
    <3>3. d \in Unsent /\ d \notin Unsent'
      BY <2>1, <3>1, <3>2 DEF Unsent
    <3>4. Cardinality(Unsent') \in Nat /\ Cardinality(Unsent') <= Cardinality(Unsent) - 1
      BY <1>2, <3>3, BudgetTypes, OneSmaller
    <3>5. Cardinality(Strays') \in Nat /\ Cardinality(Strays') <= Cardinality(Strays)
      BY <1>2, BudgetTypes, NotLarger
    <3> QED
      BY <3>4, <3>5
  <2>4. /\ Cardinality(Unsent') \in Nat /\ Cardinality(Strays') \in Nat
        /\ \/ Cardinality(Unsent') <= Cardinality(Unsent) - 1
              /\ Cardinality(Strays') <= Cardinality(Strays)
           \/ Cardinality(Unsent') <= Cardinality(Unsent)
              /\ Cardinality(Strays') <= Cardinality(Strays) - 1
    BY <2>2, <2>3
  <2>5. Cardinality(Sent') \in Nat /\ Cardinality(Sent') <= Cardinality(Sent) + 1
    BY BudgetTypes, OneLarger
  <2>6. /\ Cardinality(Sent) \in Nat /\ Cardinality(Unsent) \in Nat
        /\ Cardinality(Strays) \in Nat /\ Cardinality(Created) \in Nat /\ retries \in Nat
        /\ Cardinality(Sent) + Cardinality(Unsent) + Cardinality(Strays) <= Cardinality(Created) + retries
    BY BudgetTypes DEF Budget, WithinBudget
  <2>7. Cardinality(Sent') + Cardinality(Unsent') + Cardinality(Strays') <= Cardinality(Created) + retries
    BY <2>4, <2>5, <2>6
  <2>8. WithinBudget'
    BY <1>1, <2>7 DEF WithinBudget
  <2> QED
    BY <1>1, <2>8 DEF Budget, Finite, AllSteady, Steady
<1> QED
  BY <1>3, <1>4

\* A retry gives one more chance: to the draft, or to the run that it overtakes.
LEMMA RetryWithin ==
  ASSUME IInv, Grows, Budget, NEW d \in Drafts, Retry(d)
  PROVE  Budget'
<1>1. /\ draft' = [draft EXCEPT ![d] = FreshDraft] /\ worker' = worker /\ jobs' = jobs
      /\ retries' = retries + 1 /\ overtaken' \subseteq overtaken \cup {d}
      /\ draft[d].state # "NONE"
  BY DEF Retry, connector, Retryable
<1>2. draft \in [Drafts -> DraftRow] /\ FreshDraft.job = NoJob /\ FreshDraft.state = "LOCAL_DRAFT"
  BY Types, Fresh DEF IInv
<1>3. /\ \A e \in Drafts \ {d} : draft'[e] = draft[e]
      /\ draft'[d].job = NoJob /\ draft'[d].state = "LOCAL_DRAFT"
  BY <1>1, <1>2
<1>4. Created' = Created /\ Sent' = Sent
  BY <1>1, <1>3 DEF Created, Sent
<1>5. Unsent' \subseteq Unsent \cup {d} /\ Strays' \subseteq Strays \cup {d}
  BY <1>1, <1>3, <1>4 DEF Unsent, Strays, Astray, InRun
<1>6. d \in Unsent \/ Strays' \subseteq Strays
  <2> SUFFICES ASSUME d \notin Unsent, d \in Strays' PROVE FALSE
    BY <1>5
  <2>1. d \in Created /\ draft[d].job # NoJob /\ jobs[draft[d].job].pages # {}
    BY <1>1 DEF Unsent, Created
  <2>2. InRun(d) /\ jobs[worker[d].job].pages = {}
    BY <1>1 DEF Strays, Astray, InRun
  <2>3. draft[d].job = worker[d].job
    BY <2>1, <2>2 DEF Budget, RunJob
  <2> QED
    BY <2>1, <2>2, <2>3
<1>7. /\ Cardinality(Unsent') \in Nat /\ Cardinality(Strays') \in Nat
      /\ \/ Cardinality(Unsent') <= Cardinality(Unsent)
            /\ Cardinality(Strays') <= Cardinality(Strays) + 1
         \/ Cardinality(Unsent') <= Cardinality(Unsent) + 1
            /\ Cardinality(Strays') <= Cardinality(Strays)
  <2>1. CASE d \in Unsent
    <3>1. Unsent' \subseteq Unsent
      BY <1>5, <2>1
    <3> QED
      BY <1>5, <3>1, BudgetTypes, NotLarger, OneLarger
  <2>2. CASE Strays' \subseteq Strays
    BY <1>5, <2>2, BudgetTypes, NotLarger, OneLarger
  <2> QED
    BY <1>6, <2>1, <2>2
<1>8. /\ Cardinality(Sent) \in Nat /\ Cardinality(Unsent) \in Nat
      /\ Cardinality(Strays) \in Nat /\ Cardinality(Created) \in Nat /\ retries \in Nat
      /\ Cardinality(Sent) + Cardinality(Unsent) + Cardinality(Strays) <= Cardinality(Created) + retries
  BY BudgetTypes DEF Budget, WithinBudget
<1>9. Cardinality(Sent) + Cardinality(Unsent') + Cardinality(Strays')
        <= Cardinality(Created) + (retries + 1)
  BY <1>7, <1>8
<1>10. WithinBudget'
  BY <1>1, <1>4, <1>9 DEF WithinBudget
<1>11. Finite'
  BY <1>1, <1>4, BudgetTypes, OneLarger DEF Finite
<1>12. \A e \in Drafts : RunJob(e)'
  BY <1>1, <1>3 DEF Budget, RunJob, InRun
<1> QED
  BY <1>10, <1>11, <1>12 DEF Budget

-----------------------------------------------------------------------------
(* Which jobs have pages after a step.                                     *)

LEMMA SameJobs ==
  ASSUME jobs' = jobs
  PROVE  Sent' \subseteq Sent
BY DEF Sent

LEMMA ConnectorSends ==
  ASSUME IInv, NEW j \in DOMAIN jobs, ConnectorStep(j)
  PROVE  Sent' \subseteq Sent
<1>1. jobs \in Seq(JobRow) /\ DOMAIN jobs = 1 .. Len(jobs) /\ jobs[j] \in JobRow
  BY Types, ElementOfSeq DEF IInv
<1>2. PICK state, queued : jobs' = [jobs EXCEPT ![j] = [jobs[j] EXCEPT !.state = state, !.queued = queued]]
  <2>1. CASE Process(j)
    <3>1. jobs' = [jobs EXCEPT ![j] = [jobs[j] EXCEPT
              !.state = IF jobs[j].state \in Submittable THEN "OCR_PROCESSING" ELSE jobs[j].state,
              !.queued = jobs[j].queued - 1]]
      BY <1>1, <2>1 DEF Process, JobRow
    <3> QED
      BY <3>1
  <2>2. CASE Publish(j)
    <3>1. PICK state : jobs' = [jobs EXCEPT ![j].state = state]
      BY <2>2 DEF Publish
    <3>2. jobs' = [jobs EXCEPT ![j] = [jobs[j] EXCEPT !.state = state, !.queued = jobs[j].queued]]
      BY <1>1, <3>1 DEF JobRow
    <3> QED
      BY <3>2
  <2> QED
    BY <2>1, <2>2 DEF ConnectorStep
<1>3. DOMAIN jobs' = DOMAIN jobs /\ \A i \in DOMAIN jobs : jobs'[i].pages = jobs[i].pages
  BY <1>1, <1>2 DEF JobRow
<1> QED
  BY <1>3 DEF Sent

LEMMA CreateSends ==
  ASSUME IInv, NEW d \in Drafts, CreateInvoiceJob(d)
  PROVE  Sent' \subseteq Sent
<1> DEFINE job == [draft |-> d, device |-> worker[d].bearer, state |-> "CAPTURED",
                   pages |-> {}, queued |-> 0]
<1>1. jobs \in Seq(JobRow) /\ DOMAIN jobs = 1 .. Len(jobs) /\ Len(jobs) \in Nat
  BY Types DEF IInv
<1>2. jobs' = Append(jobs, job) /\ job.pages = {}
  BY DEF CreateInvoiceJob
<1> HIDE DEF job
<1>3. jobs \in Seq(JobRow \cup {job})
  BY <1>1, SeqMonotonic
<1>4. /\ DOMAIN jobs' = 1 .. Len(jobs) + 1 /\ jobs'[Len(jobs) + 1] = job
      /\ \A i \in 1 .. Len(jobs) : jobs'[i] = jobs[i]
  BY <1>2, <1>3, AppendProperties, LenProperties
<1>5. \A i \in DOMAIN jobs' : IF i \in DOMAIN jobs THEN jobs'[i] = jobs[i] ELSE jobs'[i].pages = {}
  BY <1>1, <1>2, <1>4
<1> QED
  BY <1>5 DEF Sent

LEMMA SubmitSends ==
  ASSUME IInv, NEW d \in Drafts, SubmitInvoiceJob(d), worker[d].at = "submit"
  PROVE  Sent' \subseteq Sent
<1> DEFINE job == jobs[worker[d].job]
           new == [job EXCEPT !.queued = @ + 1]
<1>1. jobs' = [jobs EXCEPT ![worker[d].job] = new] /\ job \in JobRow
  BY RunHasJob DEF SubmitInvoiceJob, SetJob
<1>2. new.pages = job.pages
  BY <1>1 DEF JobRow
<1> HIDE DEF new
<1>3. DOMAIN jobs' = DOMAIN jobs /\ \A i \in DOMAIN jobs : jobs'[i].pages = jobs[i].pages
  BY <1>1, <1>2
<1> QED
  BY <1>3 DEF Sent

LEMMA UploadSends ==
  ASSUME NEW d \in Drafts, NEW page \in Pages, UploadPage(d, page)
  PROVE  Sent' \subseteq Sent \cup {worker[d].job}
BY DEF UploadPage, SetJob, Sent

-----------------------------------------------------------------------------
(* Every step keeps within the budget.                                     *)

\* One draft and its run move, steadily.
LEMMA OneSteady ==
  ASSUME IInv, Grows, Budget, NEW d \in Drafts, Moves(d), Steady(d)
  PROVE  AllSteady /\ OneMade
<1>1. \A e \in Drafts \ {d} : draft'[e] = draft[e] /\ worker'[e] = worker[e]
  BY DEF Moves, DraftMoves, WorkerMoves
<1>2. ASSUME NEW e \in Drafts PROVE Steady(e)
  BY <1>1, SteadyRest DEF Budget
<1> QED
  BY <1>1, <1>2 DEF AllSteady, OneMade

LEMMA RestSteady ==
  ASSUME IInv, Budget, draft' = draft, worker' = worker
  PROVE  AllSteady /\ Created' = Created
BY SteadyRest DEF AllSteady, Created, Budget

\* The connector takes a request, and the worker hears of it or not.
LEMMA EffectWithin ==
  ASSUME IInv, Grows, Budget, NEW d \in Drafts, Answered(d) \/ AnswerLost(d)
  PROVE  Budget'
<1>1. AllSteady /\ OneMade
  BY OneSteady, AnsweredMoves, TriesLaterMoves, WorkerStepSteady DEF WorkerStep, Budget
<1>2. Effect(d) /\ overtaken' = overtaken /\ retries' = retries /\ paired' = paired
  BY DEF Answered, AnswerLost, retried
<1>3. CASE worker[d].at = "create" /\ CreateInvoiceJob(d)
  BY <1>1, <1>2, <1>3, CreateSends, NothingSent
<1>4. CASE worker[d].at = "submit" /\ SubmitInvoiceJob(d)
  BY <1>1, <1>2, <1>4, SubmitSends, NothingSent
<1>5. ASSUME worker[d].at = "upload", NEW page \in Pages, TakesPage(jobs[worker[d].job], page),
             UploadPage(d, page)
      PROVE  Budget'
  <2>1. draft' = draft
    BY <1>5 DEF Answered, AnswerLost
  <2>2. jobs'[worker[d].job].pages # {}
    BY <1>2, <1>5, UploadGrows
  <2>3. Sent' \subseteq Sent \cup {worker[d].job}
    BY <1>5, UploadSends
  <2> QED
    BY <1>1, <1>2, <1>5, <2>1, <2>2, <2>3, PageSent
<1> QED
  BY <1>2, <1>3, <1>4, <1>5 DEF Effect

LEMMA WorkerWithin ==
  ASSUME IInv, Grows, Budget, NEW d \in Drafts, WorkerStep(d) \/ RequestFails(d)
  PROVE  Budget'
<1>1. CASE Answered(d)
  BY <1>1, EffectWithin
<1>2. CASE ~Answered(d)
  <2>1. AllSteady /\ OneMade
    BY OneSteady, WorkerStepMoves, TriesLaterMoves, WorkerStepSteady DEF Budget
  <2>2. jobs' = jobs /\ retries' = retries /\ overtaken' = overtaken
    BY <1>2 DEF WorkerStep, RequestFails, Start, AttachRemoteJob, MarkPageUploaded, End, Authorize,
       UseToken, AskChallenge, NotPaired, ExchangeToken, Unauthorized, Forbidden, Refused, Poll,
       SaveRevision, connector, retried
  <2> QED
    BY <2>1, <2>2, SameJobs, NothingSent
<1> QED
  BY <1>1, <1>2

LEMMA CreateDraftWithin ==
  ASSUME IInv, Grows, Budget, NEW d \in Drafts, CreateDraft(d)
  PROVE  Budget'
<1>1. /\ draft' = [draft EXCEPT ![d] = FreshDraft] /\ worker' = worker /\ jobs' = jobs
      /\ retries' = retries /\ overtaken' = overtaken /\ draft[d].state = "NONE"
  BY DEF CreateDraft, connector, retried
<1>2. draft \in [Drafts -> DraftRow] /\ FreshDraft.job = NoJob /\ FreshDraft.state = "LOCAL_DRAFT"
  BY Types, Fresh DEF IInv
<1>3. draft[d].job = NoJob
  BY <1>1 DEF IInv, Holds, Untouched
<1>4. JobStays(d) /\ worker'[d] = worker[d]
  BY <1>1, <1>2, <1>3 DEF JobStays
<1>5. Steady(d)
  BY <1>4, SteadyRun DEF Budget, InRun
<1>6. AllSteady /\ OneMade
  BY <1>5, CreateDraftMoves, OneSteady
<1> QED
  BY <1>1, <1>6, SameJobs, NothingSent

LEMMA AppStopWithin ==
  ASSUME IInv, Grows, Budget, AppStop
  PROVE  Budget'
<1>1. /\ draft' = draft /\ worker' = [d \in Drafts |-> NoWorker] /\ jobs' = jobs
      /\ retries' = retries /\ overtaken' = overtaken
  BY DEF AppStop, connector, retried
<1>2. ASSUME NEW d \in Drafts PROVE Steady(d)
  BY <1>1, SteadyEnd DEF JobStays, Stops, NoWorker
<1>3. AllSteady /\ Created' = Created
  BY <1>1, <1>2 DEF AllSteady, Created
<1> QED
  BY <1>1, <1>3, SameJobs, NothingSent

\* Nothing of the drafts, their runs and the pages of the jobs.
LEMMA OthersWithin ==
  ASSUME IInv, Grows, Budget, draft' = draft, worker' = worker, Sent' \subseteq Sent,
         retries' = retries, overtaken' = overtaken
  PROVE  Budget'
BY RestSteady, NothingSent

LEMMA InitBudget == Init => Budget
<1> SUFFICES ASSUME Init PROVE Budget
  OBVIOUS
<1>1. Created = {}
  BY DEF Init, Created, NoDraft
<1>2. Unsent = {}
  BY <1>1 DEF Unsent
<1>3. Strays = {} /\ \A d \in Drafts : RunJob(d)
  BY DEF Init, Strays, Astray, RunJob, InRun, NoWorker
<1>4. Sent = {} /\ retries = 0 /\ overtaken = {}
  BY DEF Init, Sent
<1>5. WithinBudget
  BY <1>1, <1>2, <1>3, <1>4, FS_EmptySet DEF WithinBudget
<1> QED
  BY <1>1, <1>3, <1>4, <1>5, FS_EmptySet DEF Budget, Finite

LEMMA NextBudget == IInv /\ Budget /\ [Next]_vars => Budget'
<1> SUFFICES ASSUME IInv, Budget, [Next]_vars PROVE Budget'
  OBVIOUS
<1>1. CASE UNCHANGED vars
  <2>1. /\ draft' = draft /\ worker' = worker /\ jobs' = jobs /\ retries' = retries
        /\ overtaken' = overtaken
    BY <1>1 DEF vars, phone, connector, retried
  <2>2. Grows
    BY <1>1, QuietGrows DEF vars, connector, retried
  <2> QED
    BY <2>1, <2>2, SameJobs, OthersWithin
<1>2. CASE Next
  <2>1. Grows
    BY <1>2, StepGrows
  <2>2. ASSUME NEW d \in Drafts, CreateDraft(d) PROVE Budget'
    BY <2>1, <2>2, CreateDraftWithin
  <2>3. ASSUME NEW d \in Drafts, Retry(d) PROVE Budget'
    BY <2>1, <2>3, RetryWithin
  <2>4. CASE ClaimPairing \/ ForgetPairing \/ \E v \in 1 .. MaxDevices : RevokeDevice(v)
    BY <2>1, <2>4, SameJobs, OthersWithin
    DEF ClaimPairing, ForgetPairing, RevokeDevice, phone, connector, retried
  <2>5. CASE AppStop
    BY <2>1, <2>5, AppStopWithin
  <2>6. ASSUME NEW d \in Drafts, AnswerLost(d) PROVE Budget'
    BY <2>1, <2>6, EffectWithin
  <2>7. ASSUME NEW d \in Drafts, WorkerStep(d) \/ RequestFails(d) PROVE Budget'
    BY <2>1, <2>7, WorkerWithin
  <2>8. ASSUME NEW d \in Drafts, EnqueueUpload(d) PROVE Budget'
    BY <2>1, <2>8, SameJobs, OthersWithin DEF EnqueueUpload, connector, retried
  <2>9. ASSUME NEW j \in DOMAIN jobs, ConnectorStep(j) PROVE Budget'
    <3>1. Sent' \subseteq Sent
      BY <2>9, ConnectorSends
    <3>2. draft' = draft /\ worker' = worker /\ retries' = retries /\ overtaken' = overtaken
      BY <2>9 DEF ConnectorStep, Process, Publish, phone, retried
    <3> QED
      BY <2>1, <3>1, <3>2, OthersWithin
  <2> QED
    BY <1>2, <2>2, <2>3, <2>4, <2>5, <2>6, <2>7, <2>8, <2>9 DEF Next, UserStep, FaultStep
<1> QED
  BY <1>1, <1>2

(* The jobs that have pages, and the chances left to give pages to one     *)
(* more, are never more than the drafts made and the retries asked for.    *)
THEOREM BudgetInvariance == Spec => []Budget
BY InitBudget, NextBudget, Invariance, PTL DEF Spec

(* The pages of an invoice reach a second job only when the user asks for  *)
(* it: a lost answer, a death of the app or a run that a retry overtakes   *)
(* leaves no more than one job with pages behind for each draft and retry. *)
THEOREM PagesSentOnce == Spec => []PagesSentOncePerTry
<1>1. IInv /\ Budget => PagesSentOncePerTry
  <2> SUFFICES ASSUME IInv, Budget PROVE PagesSentOncePerTry
    OBVIOUS
  <2>1. /\ Cardinality(Sent) \in Nat /\ Cardinality(Unsent) \in Nat
        /\ Cardinality(Strays) \in Nat /\ Cardinality(Created) \in Nat /\ retries \in Nat
        /\ Cardinality(Sent) + Cardinality(Unsent) + Cardinality(Strays) <= Cardinality(Created) + retries
    BY BudgetTypes DEF Budget, WithinBudget
  <2>2. Cardinality(Sent) <= Cardinality(Created) + retries
    BY <2>1
  <2> QED
    BY <2>2 DEF PagesSentOncePerTry, Sent, Created
<1> QED
  BY <1>1, Invariance, BudgetInvariance, PTL

=============================================================================
