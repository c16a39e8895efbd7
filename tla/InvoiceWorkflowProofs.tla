----------------------- MODULE InvoiceWorkflowProofs -----------------------
(***************************************************************************)
(* What holds of InvoiceWorkflow for any number of jobs, requests and      *)
(* revisions, any page size and any queue capacity, with or without store  *)
(* failures.                                                               *)
(*                                                                         *)
(* The argument: every step either leaves the four durable tables alone or *)
(* is one of three kinds of change to one job (StepKinds): a move between  *)
(* two states before publication, a new revision, or a confirmation. The   *)
(* invariants about the tables follow from that classification alone; what *)
(* a request remembers between its reads and its commit (ReviewsHold) is   *)
(* what the classification needs.                                          *)
(***************************************************************************)
EXTENDS InvoiceWorkflow, SequenceTheorems, FiniteSetTheorems, TLAPS

\* The states a job has before its first revision is published.
Unpublished == JobState \ {"AwaitingUserReview", "Confirmed"}

\* What a request knows about the rows it read is still true when it uses it:
\* its revision exists, and a confirmation that passed the checks is of a
\* confirmable revision or repeats one that was made.
ReviewsHold ==
  \A r \in Reviewers :
    LET j == reviews[r].job
        i == reviews[r].rev
    IN
    /\ reviews[r].pc # "idle" => i \in DOMAIN revisions[j]
    /\ reviews[r].pc = "commit" => revisions[j][i].confirmable \/ state[j] = "Confirmed"

\* The worker's compare-and-sets start from the states its reads let through.
WorkerHolds ==
  /\ workerPc = "reserve" => workerSeen \in Submittable
  /\ workerPc = "fail" => workerSeen \in InFlight

\* The inductive invariant.
IInv ==
  /\ TypeOK
  /\ ReviewChain
  /\ ConfirmedExactlyOnce
  /\ ConfirmAnswerIsTrue
  /\ ReviewsHold
  /\ WorkerHolds

-----------------------------------------------------------------------------
(* The transition table.                                                   *)

LEMMA JobsFinite == IsFiniteSet(Jobs) /\ Cardinality(Jobs) = NumJobs
  BY NumJobsAssumption, FS_Interval, SMT DEF Jobs

LEMMA WatermarkBounded == Cardinality(Created) \in 0..NumJobs
<1>1. Created \subseteq Jobs
  BY DEF Created
<1>2. IsFiniteSet(Created) /\ Cardinality(Created) <= Cardinality(Jobs)
  BY <1>1, JobsFinite, FS_Subset
<1>3. Cardinality(Created) \in Nat
  BY <1>2, FS_CardinalityType
<1> QED
  BY <1>2, <1>3, JobsFinite, NumJobsAssumption

\* Which states the table lets a job reserve from, and advance from.
LEMMA ReserveFrom ==
  ASSUME NEW s \in InvoiceJobState, "OcrReserved" \in Allowed[s]
  PROVE  s \in Submittable
  BY DEF Allowed, InvoiceJobState, Submittable

\* The failed state of a state is itself, or ends an attempt in flight.
LEMMA FailedStates ==
  ASSUME NEW s \in JobState
  PROVE  /\ FailedState(s) \in JobState
         /\ FailedState(s) # s => s \in InFlight
         /\ s \in InFlight => FailedState(s) \in {"OcrFailed", "MatchingFailed"}
  BY DEF FailedState, JobState, InvoiceJobState, InFlight

-----------------------------------------------------------------------------
(* Typing.                                                                 *)

LEMMA InitHolds == Init => IInv
<1> SUFFICES ASSUME Init PROVE IInv
  OBVIOUS
<1>1. TypeOK
  <2>1. /\ revisions \in [Jobs -> Seq(Revision)]
        /\ audits \in [Jobs -> Seq(Nat)]
        /\ queue \in Seq(Jobs)
    BY EmptySeq DEF Init
  <2>2. Len(queue) <= QueueCapacity
    BY QueueCapacityAssumption DEF Init
  <2>3. /\ state \in [Jobs -> JobState]
        /\ current \in [Jobs -> Nat]
        /\ page \in [Jobs -> InvoiceJobState \cup {NoState}]
        /\ mark \in 0..NumJobs
    BY NumJobsAssumption DEF Init, JobState, None, EmptyPage
  <2>4. /\ submits \in [Submitters -> [pc : {"idle", "enqueue"}, job : Jobs \cup {None}]]
        /\ \A s \in Submitters : submits[s].pc = "enqueue" => submits[s].job \in Jobs
    BY DEF Init, IdleSubmit
  <2>5. /\ reviews \in [Reviewers -> [pc : ReviewPc, job : Jobs \cup {None}, rev : Nat,
                                     status : {"AWAITING_USER_REVIEW", "CONFIRMED"}]]
        /\ \A r \in Reviewers : reviews[r].pc # "idle" => reviews[r].job \in Jobs
    BY DEF Init, IdleReview, ReviewPc, None
  <2> QED
    BY <2>1, <2>2, <2>3, <2>4, <2>5 DEF Init, TypeOK, JobState, WorkerPc, RecoveryPc
<1>2. ReviewChain /\ ConfirmedExactlyOnce
  BY SMT DEF Init, ReviewChain, ConfirmedExactlyOnce, None
<1>3. ConfirmAnswerIsTrue /\ ReviewsHold /\ WorkerHolds
  BY SMT DEF Init, ConfirmAnswerIsTrue, ReviewsHold, WorkerHolds, IdleReview
<1> QED
  BY <1>1, <1>2, <1>3 DEF IInv

\* A stored revision keeps the revisions of its job a sequence of revisions.
LEMMA SaveTyped ==
  ASSUME TypeOK, NEW j \in Jobs, NEW source \in Nat, NEW number \in Nat, NEW ok \in BOOLEAN,
         SaveRevision(j, source, number, ok)
  PROVE  /\ state' \in [Jobs -> JobState]
         /\ current' \in [Jobs -> Nat]
         /\ revisions' \in [Jobs -> Seq(Revision)]
         /\ audits' \in [Jobs -> Seq(Nat)]
<1> DEFINE new == [number |-> number, source |-> source, confirmable |-> ok,
                   status |-> "AWAITING_USER_REVIEW"]
<1>1. new \in Revision
  BY DEF Revision
<1>2. revisions[j] \in Seq(Revision) /\ Len(revisions[j]) \in Nat
  BY LenProperties DEF TypeOK
<1>3. Append(revisions[j], new) \in Seq(Revision)
  BY <1>1, <1>2, AppendProperties
<1> QED
  BY <1>2, <1>3 DEF TypeOK, SaveRevision, JobState, InvoiceJobState

\* Marking a revision confirmed keeps the type, the length and the other fields.
LEMMA ConfirmTyped ==
  ASSUME NEW s \in Seq(Revision), NEW i \in DOMAIN s
  PROVE  /\ [s EXCEPT ![i].status = "CONFIRMED"] \in Seq(Revision)
         /\ Len([s EXCEPT ![i].status = "CONFIRMED"]) = Len(s)
         /\ \A k \in 1..Len(s) :
              [s EXCEPT ![i].status = "CONFIRMED"][k] =
                IF k = i THEN [s[i] EXCEPT !.status = "CONFIRMED"] ELSE s[k]
<1>1. DOMAIN s = 1..Len(s)
  BY LenProperties
<1>2. s[i] \in Revision
  BY <1>1, ElementOfSeq
<1>3. [s[i] EXCEPT !.status = "CONFIRMED"] \in Revision
  BY <1>2 DEF Revision
<1> DEFINE t == [s EXCEPT ![i] = [s[i] EXCEPT !.status = "CONFIRMED"]]
<1>4. [s EXCEPT ![i].status = "CONFIRMED"] = t
  OBVIOUS
<1>5. /\ t \in Seq(Revision)
      /\ Len(t) = Len(s)
      /\ \A k \in 1..Len(s) : t[k] = IF k = i THEN [s[i] EXCEPT !.status = "CONFIRMED"] ELSE s[k]
  BY <1>1, <1>3, ExceptSeq
<1> QED
  BY <1>4, <1>5

\* Answering a request changes nothing but where it stands.
LEMMA AnswerTyped ==
  ASSUME TypeOK, NEW r \in Reviewers, NEW pc \in ReviewPc, reviews[r].job \in Jobs, Answer(r, pc)
  PROVE  /\ reviews' \in [Reviewers -> [pc : ReviewPc, job : Jobs \cup {None}, rev : Nat,
                                        status : {"AWAITING_USER_REVIEW", "CONFIRMED"}]]
         /\ \A q \in Reviewers : reviews'[q].pc # "idle" => reviews'[q].job \in Jobs
<1> DEFINE new == [reviews[r] EXCEPT !.pc = pc]
<1>1. reviews' = [reviews EXCEPT ![r] = new]
  BY DEF Answer
<1>2. reviews[r] \in [pc : ReviewPc, job : Jobs \cup {None}, rev : Nat,
                     status : {"AWAITING_USER_REVIEW", "CONFIRMED"}]
  BY DEF TypeOK
<1>3. new \in [pc : ReviewPc, job : Jobs \cup {None}, rev : Nat,
              status : {"AWAITING_USER_REVIEW", "CONFIRMED"}] /\ new.job = reviews[r].job
  BY <1>2
<1> HIDE DEF new
<1> QED
  BY <1>1, <1>3 DEF TypeOK

\* Every step keeps the type invariant.
LEMMA TypeStep == IInv /\ [Next]_vars => TypeOK'
<1> SUFFICES ASSUME IInv, [Next]_vars PROVE TypeOK'
  OBVIOUS
<1> USE DEF durable, rows, worker, recovery, calls, WorkerUnchanged
<1>0. TypeOK /\ ReviewChain /\ ReviewsHold /\ WorkerHolds
  BY DEF IInv
<1>1. CASE UNCHANGED vars
  BY <1>0, <1>1 DEF TypeOK, vars
<1>2. ASSUME NEW j \in Jobs, CreateJob(j) PROVE TypeOK'
  BY <1>0, <1>2 DEF TypeOK, CreateJob, JobState, InvoiceJobState
<1>3. ASSUME NEW j \in Jobs, FinishUpload(j) PROVE TypeOK'
  BY <1>0, <1>3 DEF TypeOK, FinishUpload, JobState, InvoiceJobState
<1>4. ASSUME NEW s \in Submitters, SubmitEnqueue(s) PROVE TypeOK'
  <2>1. submits[s].job \in Jobs
    BY <1>0, <1>4 DEF TypeOK, SubmitEnqueue
  <2>2. queue' \in Seq(Jobs) /\ Len(queue') = Len(queue) + 1 /\ Len(queue) \in Nat
    BY <1>0, <1>4, <2>1, AppendProperties, LenProperties DEF TypeOK, SubmitEnqueue
  <2>3. Len(queue') <= QueueCapacity
    BY <1>4, <2>2, QueueCapacityAssumption DEF SubmitEnqueue
  <2> QED
    BY <1>0, <1>4, <2>1, <2>2, <2>3 DEF TypeOK, SubmitEnqueue, IdleSubmit
<1>5. ASSUME NEW s \in Submitters, NEW j \in Jobs, SubmitRead(s, j) PROVE TypeOK'
  BY <1>0, <1>5 DEF TypeOK, SubmitRead
<1>4a. ASSUME NEW s \in Submitters, SubmitAborted(s) PROVE TypeOK'
  BY <1>0, <1>4a DEF TypeOK, SubmitAborted, IdleSubmit, None
<1>6. CASE Dequeue
  <2>1. /\ Head(queue) \in Jobs
        /\ Tail(queue) \in Seq(Jobs)
        /\ Len(Tail(queue)) = Len(queue) - 1
        /\ Len(queue) \in Nat
    BY <1>0, <1>6, HeadTailProperties, LenProperties DEF TypeOK, Dequeue
  <2>2. queue' \in Seq(Jobs) /\ Len(queue') <= QueueCapacity
    BY <1>0, <1>6, <2>1, QueueCapacityAssumption DEF TypeOK, Dequeue
  <2>3. workerPc' = "load" /\ workerJob' \in Jobs /\ workerSeen' = "Absent"
    BY <1>6, <2>1 DEF Dequeue
  <2>4. UNCHANGED <<durable, up, recovery, calls, owed>>
    BY <1>6 DEF Dequeue
  <2> QED
    BY <1>0, <2>2, <2>3, <2>4 DEF TypeOK, WorkerPc, JobState
<1>7. CASE Load
  BY <1>0, <1>7 DEF TypeOK, Load, WorkerAt, Finish, WorkerPc, JobState, None
<1>8. CASE Reserve
  BY <1>0, <1>8
  DEF TypeOK, Reserve, WorkerAt, Finish, GoTo, WorkerPc, JobState, InvoiceJobState, None
<1>9. CASE Entitled \/ OcrDone \/ StartMatch
  BY <1>0, <1>9
  DEF TypeOK, Entitled, OcrDone, StartMatch, Advance, WorkerAt, GoTo, WorkerPc, JobState,
      InvoiceJobState
<1>10. CASE StepFails
  BY <1>0, <1>10 DEF TypeOK, StepFails, GoTo, WorkerPc, JobState
<1>11. CASE PublishRevision
  <2>1. CASE CanSaveRevision(workerJob, "Matching", None, 1)
    <3>1. PICK ok \in BOOLEAN : SaveRevision(workerJob, None, 1, ok)
      BY <1>11, <2>1 DEF PublishRevision
    <3>2. workerJob \in Jobs /\ None \in Nat
      BY <1>0, <1>11 DEF TypeOK, PublishRevision, WorkerAt, None
    <3>3. /\ state' \in [Jobs -> JobState]
          /\ current' \in [Jobs -> Nat]
          /\ revisions' \in [Jobs -> Seq(Revision)]
          /\ audits' \in [Jobs -> Seq(Nat)]
      BY <1>0, <3>1, <3>2, SaveTyped
    <3> QED
      BY <1>0, <1>11, <2>1, <3>3 DEF TypeOK, PublishRevision, Finish, WorkerPc, JobState
  <2>2. CASE ~CanSaveRevision(workerJob, "Matching", None, 1)
    BY <1>0, <1>11, <2>2 DEF TypeOK, PublishRevision, WorkerAt, GoTo, WorkerPc, JobState
  <2> QED
    BY <2>1, <2>2
<1>12. CASE MarkRead
  BY <1>0, <1>12 DEF TypeOK, MarkRead, WorkerAt, Finish, WorkerPc, JobState, None
<1>13. CASE MarkFailed
  <2>1. workerJob \in Jobs /\ FailedState(workerSeen) \in JobState
    BY <1>0, <1>13, FailedStates DEF TypeOK, MarkFailed, WorkerAt
  <2> QED
    BY <1>0, <1>13, <2>1 DEF TypeOK, MarkFailed, Finish, WorkerPc, JobState, None
<1>14. CASE StoreThrows
  BY <1>0, <1>14 DEF TypeOK, StoreThrows, Finish, WorkerPc, JobState, None
<1>15. CASE Start
  BY <1>0, <1>15, WatermarkBounded DEF TypeOK, Start, RecoveryPc, EmptyPage
<1>16. CASE Stop
  <2>1. <<>> \in Seq(Jobs) /\ Len(<<>>) = 0
    BY EmptySeq
  <2>2. IdleReview \in [pc : ReviewPc, job : Jobs \cup {None}, rev : Nat,
                        status : {"AWAITING_USER_REVIEW", "CONFIRMED"}]
    BY DEF IdleReview, ReviewPc, None
  <2>3. /\ submits' \in [Submitters -> [pc : {"idle", "enqueue"}, job : Jobs \cup {None}]]
        /\ \A s \in Submitters : submits'[s].pc = "idle"
        /\ reviews' \in [Reviewers -> [pc : ReviewPc, job : Jobs \cup {None}, rev : Nat,
                                       status : {"AWAITING_USER_REVIEW", "CONFIRMED"}]]
        /\ \A r \in Reviewers : reviews'[r].pc = "idle"
    BY <1>16, <2>2 DEF Stop, IdleSubmit, IdleReview
  <2>4. /\ recoveryPc' = "done" /\ after' = 0 /\ mark' \in 0..NumJobs
        /\ page' \in [Jobs -> InvoiceJobState \cup {NoState}]
        /\ workerPc' = "idle" /\ workerJob' = None /\ workerSeen' = "Absent"
    BY <1>16, NumJobsAssumption DEF Stop, RecoveryOver, Finish, EmptyPage
  <2>5. queue' \in Seq(Jobs) /\ Len(queue') <= QueueCapacity /\ up' \in BOOLEAN
    <3>1. queue' = <<>> /\ up' = FALSE
      BY <1>16 DEF Stop
    <3>2. QueueCapacity \in Nat
      BY QueueCapacityAssumption
    <3>3. up' \in BOOLEAN
      BY <3>1
    <3> QED
      BY <2>1, <3>1, <3>2, <3>3
  <2>6. UNCHANGED <<durable, owed>>
    BY <1>16 DEF Stop
  <2> QED
    BY <1>0, <2>3, <2>4, <2>5, <2>6 DEF TypeOK, WorkerPc, RecoveryPc, JobState
<1>17. CASE ListPage
  <2>1. \A j \in Listed : state[j] \in InvoiceJobState
    BY DEF Listed, Candidates, RecoverableStates, InFlight, InvoiceJobState
  <2> QED
    BY <1>0, <1>17, <2>1, NumJobsAssumption
    DEF TypeOK, ListPage, RecoveryOver, EmptyPage, RecoveryPc
<1>18. ASSUME NEW j \in Jobs, RecoverItem(j) PROVE TypeOK'
  <2>1. page[j] \in InvoiceJobState
    BY <1>0, <1>18 DEF TypeOK, RecoverItem, IsNextItem
  <2>2. FailedState(page[j]) \in JobState
    BY <2>1, FailedStates DEF JobState
  <2>3. j \in Nat
    BY DEF Jobs
  <2> QED
    BY <1>0, <1>18, <2>2, <2>3 DEF TypeOK, RecoverItem, ItemDone, PageWithout, RecoveryPc
<1>19. ASSUME NEW j \in Jobs, EnqueueItem(j) PROVE TypeOK'
  <2>1. queue' \in Seq(Jobs) /\ Len(queue') = Len(queue) + 1 /\ Len(queue) \in Nat
    BY <1>0, <1>19, AppendProperties, LenProperties DEF TypeOK, EnqueueItem
  <2>2. Len(queue') <= QueueCapacity
    BY <1>19, <2>1, QueueCapacityAssumption DEF EnqueueItem
  <2>3. j \in Nat
    BY DEF Jobs
  <2> QED
    BY <1>0, <1>19, <2>1, <2>2, <2>3 DEF TypeOK, EnqueueItem, ItemDone, PageWithout, RecoveryPc
<1>20. ASSUME NEW r \in Reviewers, NEW j \in Jobs, NEW i \in 1..MaxRevisions,
              EditRead(r, j, i) \/ ConfirmReadRevision(r, j, i)
       PROVE  TypeOK'
  <2>1. i \in Nat /\ i \in DOMAIN revisions[j]
    BY <1>20 DEF EditRead, ConfirmReadRevision
  <2>2. revisions[j][i].status \in {"AWAITING_USER_REVIEW", "CONFIRMED"}
    <3>1. revisions[j][i] \in Revision
      BY <1>0, <2>1, LenProperties, ElementOfSeq DEF TypeOK
    <3> QED
      BY <3>1 DEF Revision
  <2>3. PICK new \in [pc : ReviewPc, job : Jobs, rev : Nat,
                      status : {"AWAITING_USER_REVIEW", "CONFIRMED"}] :
          reviews' = [reviews EXCEPT ![r] = new]
    <3>1. CASE EditRead(r, j, i)
      BY <2>1, <3>1 DEF EditRead, IdleReview, ReviewPc
    <3>2. CASE ConfirmReadRevision(r, j, i)
      BY <2>1, <2>2, <3>2 DEF ConfirmReadRevision, ReviewPc
    <3> QED
      BY <1>20, <3>1, <3>2
  <2>4. UNCHANGED <<durable, up, queue, worker, recovery, submits, owed>>
    BY <1>20 DEF EditRead, ConfirmReadRevision
  <2> QED
    BY <1>0, <2>3, <2>4 DEF TypeOK
<1>21. ASSUME NEW r \in Reviewers, RequestEnds(r) PROVE TypeOK'
  BY <1>0, <1>21 DEF TypeOK, RequestEnds, Done, IdleReview, ReviewPc, None
<1>22. ASSUME NEW r \in Reviewers, EditSave(r) PROVE TypeOK'
  <2> DEFINE j == reviews[r].job
             i == reviews[r].rev
             number == revisions[j][i].number + 1
  <2>1. j \in Jobs /\ i \in Nat /\ i \in DOMAIN revisions[j]
    BY <1>0, <1>22 DEF TypeOK, EditSave, ReviewsHold
  <2>2. revisions[j][i] \in Revision
    BY <1>0, <2>1, LenProperties, ElementOfSeq DEF TypeOK
  <2>3. number \in Nat
    BY <2>2 DEF Revision
  <2>4. PICK ok \in BOOLEAN : SaveRevision(j, i, number, ok)
    BY <1>22 DEF EditSave
  <2>5. /\ state' \in [Jobs -> JobState]
        /\ current' \in [Jobs -> Nat]
        /\ revisions' \in [Jobs -> Seq(Revision)]
        /\ audits' \in [Jobs -> Seq(Nat)]
    BY <1>0, <2>1, <2>3, <2>4, SaveTyped
  <2> HIDE DEF j, i, number
  <2> QED
    BY <1>0, <1>22, <2>5 DEF TypeOK, EditSave, Done, IdleReview, ReviewPc, None
<1>23. ASSUME NEW r \in Reviewers, ConfirmReadJob(r) PROVE TypeOK'
  <2>1. PICK pc \in ReviewPc : Answer(r, pc)
    BY <1>23 DEF ConfirmReadJob, ReviewPc
  <2>2. reviews[r].job \in Jobs
    BY <1>0, <1>23 DEF TypeOK, ConfirmReadJob
  <2> QED
    BY <1>0, <1>23, <2>1, <2>2, AnswerTyped DEF TypeOK, ConfirmReadJob
<1>24. ASSUME NEW r \in Reviewers, ConfirmCommit(r) PROVE TypeOK'
  <2> DEFINE j == reviews[r].job
             i == reviews[r].rev
  <2>1. j \in Jobs /\ i \in Nat /\ i \in DOMAIN revisions[j]
    BY <1>0, <1>24 DEF TypeOK, ConfirmCommit, ReviewsHold
  <2>2. PICK pc \in ReviewPc : Answer(r, pc)
    BY <1>24 DEF ConfirmCommit, ReviewPc
  <2>3. /\ reviews' \in [Reviewers -> [pc : ReviewPc, job : Jobs \cup {None}, rev : Nat,
                                       status : {"AWAITING_USER_REVIEW", "CONFIRMED"}]]
        /\ \A q \in Reviewers : reviews'[q].pc # "idle" => reviews'[q].job \in Jobs
    BY <1>0, <2>1, <2>2, AnswerTyped
  <2>4. CASE UNCHANGED durable
    BY <1>0, <1>24, <2>3, <2>4 DEF TypeOK, ConfirmCommit
  <2>5. CASE ~UNCHANGED durable
    <3>1. /\ state' = [state EXCEPT ![j] = "Confirmed"]
          /\ revisions' = [revisions EXCEPT ![j][i].status = "CONFIRMED"]
          /\ audits' = [audits EXCEPT ![j] = Append(@, i)]
          /\ UNCHANGED current
      BY <1>24, <2>5 DEF ConfirmCommit
    <3>2. [revisions[j] EXCEPT ![i].status = "CONFIRMED"] \in Seq(Revision)
      BY <1>0, <2>1, ConfirmTyped DEF TypeOK
    <3>3. Append(audits[j], i) \in Seq(Nat)
      BY <1>0, <2>1, AppendProperties DEF TypeOK
    <3>4. /\ state' \in [Jobs -> JobState]
          /\ revisions' \in [Jobs -> Seq(Revision)]
          /\ audits' \in [Jobs -> Seq(Nat)]
      BY <1>0, <2>1, <3>1, <3>2, <3>3 DEF TypeOK, JobState, InvoiceJobState
    <3> QED
      BY <1>0, <1>24, <2>3, <3>1, <3>4 DEF TypeOK, ConfirmCommit
  <2> QED
    BY <2>4, <2>5
<1> QED
  BY <1>1, <1>2, <1>3, <1>4, <1>5, <1>6, <1>7, <1>8, <1>9, <1>10, <1>11, <1>12, <1>13, <1>14,
     <1>15, <1>16, <1>17, <1>18, <1>19, <1>20, <1>21, <1>22, <1>23, <1>24, <1>4a
  DEF Next, WorkerStep, RecoveryStep, ReviewStep

-----------------------------------------------------------------------------
(* What a step may do to the durable tables.                               *)

\* The moves of a job before publication, as the lifecycle of the ledger sees them.
Edge(s, t) ==
  \/ s = "Absent" /\ t = "Captured"
  \/ s = "Captured" /\ t = "LocallyValidated"
  \/ s \in Submittable /\ t = "OcrReserved"
  \/ s \in InFlight /\ t \in InFlight
  \/ s \in InFlight /\ t \in {"OcrFailed", "MatchingFailed"}

MoveStep(j, t) ==
  /\ Edge(state[j], t)
  /\ state' = [state EXCEPT ![j] = t]
  /\ UNCHANGED rows

\* The first revision of a job in Matching, or the next one of a job in review.
SaveStep(j, ok) ==
  /\ state[j] \in {"Matching", "AwaitingUserReview"}
  /\ SaveRevision(j, current[j], current[j] + 1, ok)

ConfirmStep(j) ==
  /\ state[j] = "AwaitingUserReview"
  /\ current[j] \in DOMAIN revisions[j]
  /\ revisions[j][current[j]].confirmable
  /\ state' = [state EXCEPT ![j] = "Confirmed"]
  /\ revisions' = [revisions EXCEPT ![j][current[j]].status = "CONFIRMED"]
  /\ audits' = [audits EXCEPT ![j] = Append(@, current[j])]
  /\ UNCHANGED current

StepKinds ==
  \/ UNCHANGED durable
  \/ \E j \in Jobs : \E t \in Unpublished : MoveStep(j, t)
  \/ \E j \in Jobs : \E ok \in BOOLEAN : SaveStep(j, ok)
  \/ \E j \in Jobs : ConfirmStep(j)

\* An effective compare-and-set is an edge; one to the same state changes nothing.
LEMMA TransitionIsEdge ==
  ASSUME TypeOK, NEW j \in Jobs, NEW t \in Unpublished, Edge(state[j], t),
         state' = [state EXCEPT ![j] = t], UNCHANGED rows
  PROVE  StepKinds
  BY DEF StepKinds, MoveStep

LEMMA StepClasses == IInv /\ [Next]_vars => StepKinds
<1> SUFFICES ASSUME IInv, [Next]_vars PROVE StepKinds
  OBVIOUS
<1>0. TypeOK /\ ReviewChain /\ ReviewsHold /\ WorkerHolds
  BY DEF IInv
<1>1. CASE UNCHANGED vars
  BY <1>1 DEF StepKinds, vars, durable
<1>2. ASSUME NEW j \in Jobs, CreateJob(j) PROVE StepKinds
  BY <1>0, <1>2, TransitionIsEdge
  DEF CreateJob, Edge, Unpublished, JobState, InvoiceJobState
<1>3. ASSUME NEW j \in Jobs, FinishUpload(j) PROVE StepKinds
  BY <1>0, <1>3, TransitionIsEdge
  DEF FinishUpload, Edge, Unpublished, JobState, InvoiceJobState
<1>4. ASSUME NEW s \in Submitters, SubmitEnqueue(s) \/ SubmitAborted(s) PROVE StepKinds
  BY <1>4 DEF SubmitEnqueue, SubmitAborted, StepKinds
<1>5. ASSUME NEW s \in Submitters, NEW j \in Jobs, SubmitRead(s, j) PROVE StepKinds
  BY <1>5 DEF SubmitRead, StepKinds
<1>6. CASE Dequeue \/ Load \/ MarkRead \/ StepFails \/ StoreThrows \/ Start \/ Stop \/ ListPage
  BY <1>6 DEF Dequeue, Load, MarkRead, StepFails, StoreThrows, Start, Stop, ListPage, StepKinds
<1>7. CASE Reserve
  <2>1. CASE CanTransition(workerJob, workerSeen, "OcrReserved")
    <3>1. workerJob \in Jobs /\ state[workerJob] = workerSeen /\ workerSeen \in Submittable
      BY <1>0, <1>7, <2>1 DEF TypeOK, WorkerHolds, Reserve, WorkerAt, CanTransition
    <3> QED
      BY <1>0, <1>7, <2>1, <3>1, TransitionIsEdge
      DEF Reserve, Edge, Unpublished, JobState, InvoiceJobState
  <2>2. CASE ~CanTransition(workerJob, workerSeen, "OcrReserved")
    BY <1>7, <2>2 DEF Reserve, StepKinds, durable, rows
  <2> QED
    BY <2>1, <2>2
<1>8. ASSUME NEW from \in WorkerPc, NEW expected \in InFlight, NEW next \in InFlight,
             NEW to \in WorkerPc, from # "idle", Advance(from, expected, next, to)
      PROVE  StepKinds
  <2>1. CASE CanTransition(workerJob, expected, next)
    <3>1. workerJob \in Jobs /\ state[workerJob] = expected
      BY <1>0, <1>8, <2>1 DEF TypeOK, Advance, WorkerAt, CanTransition
    <3>2. next \in Unpublished
      BY DEF InFlight, Unpublished, JobState, InvoiceJobState
    <3> QED
      BY <1>0, <1>8, <2>1, <3>1, <3>2, TransitionIsEdge DEF Advance, Edge
  <2>2. CASE ~CanTransition(workerJob, expected, next)
    BY <1>8, <2>2 DEF Advance, StepKinds, durable, rows
  <2> QED
    BY <2>1, <2>2
<1>9. CASE Entitled \/ OcrDone \/ StartMatch
  BY <1>8, <1>9 DEF Entitled, OcrDone, StartMatch, WorkerPc, InFlight
<1>10. CASE PublishRevision
  <2>1. CASE CanSaveRevision(workerJob, "Matching", None, 1)
    <3>1. PICK ok \in BOOLEAN : SaveRevision(workerJob, None, 1, ok)
      BY <1>10, <2>1 DEF PublishRevision
    <3>2. workerJob \in Jobs /\ state[workerJob] = "Matching" /\ current[workerJob] = 0
      BY <1>0, <1>10, <2>1 DEF TypeOK, PublishRevision, WorkerAt, CanSaveRevision, None
    <3>3. SaveStep(workerJob, ok)
      BY <3>1, <3>2 DEF SaveStep, None
    <3> QED
      BY <3>2, <3>3 DEF StepKinds
  <2>2. CASE ~CanSaveRevision(workerJob, "Matching", None, 1)
    BY <1>10, <2>2 DEF PublishRevision, StepKinds
  <2> QED
    BY <2>1, <2>2
<1>11. CASE MarkFailed
  <2>1. CASE CanTransition(workerJob, workerSeen, FailedState(workerSeen))
    <3>1. workerJob \in Jobs /\ state[workerJob] = workerSeen /\ workerSeen \in InFlight
      BY <1>0, <1>11, <2>1 DEF TypeOK, WorkerHolds, MarkFailed, WorkerAt, CanTransition
    <3>2. FailedState(workerSeen) \in {"OcrFailed", "MatchingFailed"}
      BY <3>1, FailedStates DEF InFlight, JobState, InvoiceJobState
    <3> QED
      BY <1>0, <1>11, <2>1, <3>1, <3>2, TransitionIsEdge
      DEF MarkFailed, Edge, Unpublished, JobState, InvoiceJobState
  <2>2. CASE ~CanTransition(workerJob, workerSeen, FailedState(workerSeen))
    BY <1>11, <2>2 DEF MarkFailed, StepKinds, durable, rows
  <2> QED
    BY <2>1, <2>2
<1>12. ASSUME NEW j \in Jobs, RecoverItem(j) PROVE StepKinds
  <2>1. CASE UNCHANGED state
    BY <1>12, <2>1 DEF RecoverItem, StepKinds, durable, rows
  <2>2. CASE ~UNCHANGED state
    <3>1. /\ FailedState(page[j]) # page[j]
          /\ CanTransition(j, page[j], FailedState(page[j]))
          /\ state' = [state EXCEPT ![j] = FailedState(page[j])]
          /\ UNCHANGED rows
      BY <1>12, <2>2 DEF RecoverItem
    <3>2. state[j] = page[j] /\ page[j] \in JobState
      BY <1>0, <3>1 DEF TypeOK, CanTransition
    <3>3. page[j] \in InFlight /\ FailedState(page[j]) \in {"OcrFailed", "MatchingFailed"}
      BY <3>1, <3>2, FailedStates
    <3> QED
      BY <1>0, <3>1, <3>2, <3>3, TransitionIsEdge
      DEF Edge, Unpublished, JobState, InvoiceJobState
  <2> QED
    BY <2>1, <2>2
<1>13. ASSUME NEW j \in Jobs, EnqueueItem(j) PROVE StepKinds
  BY <1>13 DEF EnqueueItem, StepKinds
<1>14. ASSUME NEW r \in Reviewers, NEW j \in Jobs, NEW i \in 1..MaxRevisions,
              EditRead(r, j, i) \/ ConfirmReadRevision(r, j, i)
       PROVE  StepKinds
  BY <1>14 DEF EditRead, ConfirmReadRevision, StepKinds
<1>15. ASSUME NEW r \in Reviewers, RequestEnds(r) \/ ConfirmReadJob(r) PROVE StepKinds
  BY <1>15 DEF RequestEnds, ConfirmReadJob, StepKinds
<1>16. ASSUME NEW r \in Reviewers, EditSave(r) PROVE StepKinds
  <2> DEFINE j == reviews[r].job
             i == reviews[r].rev
             number == revisions[j][i].number + 1
  <2>1. /\ j \in Jobs
        /\ CanSaveRevision(j, "AwaitingUserReview", i, number)
        /\ i \in DOMAIN revisions[j]
    BY <1>0, <1>16 DEF TypeOK, EditSave, ReviewsHold
  <2>2. PICK ok \in BOOLEAN : SaveRevision(j, i, number, ok)
    BY <1>16 DEF EditSave
  <2>3. state[j] = "AwaitingUserReview" /\ current[j] = i
    BY <2>1 DEF CanSaveRevision
  <2>4. revisions[j][i].number = i
    BY <1>0, <2>1 DEF ReviewChain
  <2>5. number = current[j] + 1
    BY <2>3, <2>4
  <2>6. SaveRevision(j, current[j], current[j] + 1, ok)
    BY <2>2, <2>3, <2>5
  <2> QED
    BY <2>1, <2>3, <2>6 DEF StepKinds, SaveStep
<1>17. ASSUME NEW r \in Reviewers, ConfirmCommit(r) PROVE StepKinds
  <2> DEFINE j == reviews[r].job
             i == reviews[r].rev
  <2>1. CASE UNCHANGED durable
    BY <2>1 DEF StepKinds
  <2>2. CASE ~UNCHANGED durable
    <3>1. /\ CanConfirm(j, i)
          /\ state' = [state EXCEPT ![j] = "Confirmed"]
          /\ revisions' = [revisions EXCEPT ![j][i].status = "CONFIRMED"]
          /\ audits' = [audits EXCEPT ![j] = Append(@, i)]
          /\ UNCHANGED current
      BY <1>17, <2>2 DEF ConfirmCommit
    <3>2. state[j] = "AwaitingUserReview" /\ current[j] = i
      BY <3>1 DEF CanConfirm
    <3>3. j \in Jobs /\ i \in DOMAIN revisions[j] /\ revisions[j][i].confirmable
      BY <1>0, <1>17, <3>2 DEF TypeOK, ConfirmCommit, ReviewsHold
    <3>4. ConfirmStep(j)
      BY <3>1, <3>2, <3>3 DEF ConfirmStep
    <3> QED
      BY <3>3, <3>4 DEF StepKinds
  <2> QED
    BY <2>1, <2>2
<1> QED
  BY <1>1, <1>2, <1>3, <1>4, <1>5, <1>6, <1>7, <1>9, <1>10, <1>11, <1>12, <1>13, <1>14, <1>15,
     <1>16, <1>17
  DEF Next, WorkerStep, RecoveryStep, ReviewStep

-----------------------------------------------------------------------------
(* What each kind of step preserves.                                       *)

\* What a request may rely on between two of its reads: revisions are only
\* appended, whether one is confirmable never changes, and a confirmed job is
\* left exactly as it is.
Stable ==
  \A j \in Jobs :
    /\ \A i \in DOMAIN revisions[j] :
         i \in DOMAIN revisions'[j] /\ revisions'[j][i].confirmable = revisions[j][i].confirmable
    /\ state[j] = "Confirmed" =>
         state'[j] = "Confirmed" /\ current'[j] = current[j]
           /\ revisions'[j] = revisions[j] /\ audits'[j] = audits[j]

TableInv == TypeOK /\ ReviewChain /\ ConfirmedExactlyOnce

LEMMA UnpublishedHasNoRevision ==
  ASSUME TableInv, NEW j \in Jobs, state[j] \in Unpublished
  PROVE  current[j] = 0 /\ revisions[j] = <<>> /\ audits[j] = <<>>
<1>1. revisions[j] = <<>> /\ current[j] = Len(revisions[j])
  BY DEF TableInv, ReviewChain, Unpublished
<1>2. audits[j] = <<>>
  BY DEF TableInv, ConfirmedExactlyOnce, Unpublished
<1> QED
  BY <1>1, <1>2

LEMMA MovePreserves ==
  ASSUME TableInv, NEW j \in Jobs, NEW t \in Unpublished, MoveStep(j, t)
  PROVE  ReviewChain' /\ ConfirmedExactlyOnce' /\ Stable
<1>1. state[j] \in Unpublished
  BY DEF MoveStep, Edge, Unpublished, JobState, InvoiceJobState, Submittable, InFlight
<1>2. /\ state' = [state EXCEPT ![j] = t]
      /\ current' = current /\ revisions' = revisions /\ audits' = audits
  BY DEF MoveStep, rows
<1>3. /\ state' \in [Jobs -> JobState] /\ state'[j] = t
      /\ \A k \in Jobs : k # j => state'[k] = state[k]
  BY <1>2 DEF TableInv, TypeOK, Unpublished
<1>4. \A k \in Jobs : (state'[k] = "Confirmed" <=> state[k] = "Confirmed")
                   /\ (state'[k] = "AwaitingUserReview" <=> state[k] = "AwaitingUserReview")
  BY <1>1, <1>3 DEF Unpublished
<1>5. ReviewChain'
  BY <1>2, <1>4 DEF TableInv, ReviewChain
<1>6. ConfirmedExactlyOnce'
  BY <1>2, <1>4 DEF TableInv, ConfirmedExactlyOnce
<1>7. Stable
  BY <1>2, <1>4 DEF Stable
<1> QED
  BY <1>5, <1>6, <1>7

LEMMA SavePreserves ==
  ASSUME TableInv, NEW j \in Jobs, NEW ok \in BOOLEAN, SaveStep(j, ok)
  PROVE  ReviewChain' /\ ConfirmedExactlyOnce' /\ Stable
<1> DEFINE n == Len(revisions[j])
           new == [number |-> n + 1, source |-> n, confirmable |-> ok,
                   status |-> "AWAITING_USER_REVIEW"]
           next == Append(revisions[j], new)
<1>1. n \in Nat /\ current[j] = n /\ revisions[j] \in Seq(Revision) /\ DOMAIN revisions[j] = 1..n
  BY LenProperties DEF TableInv, TypeOK, ReviewChain
<1>2. /\ state' = [state EXCEPT ![j] = "AwaitingUserReview"]
      /\ current' = [current EXCEPT ![j] = n + 1]
      /\ revisions' = [revisions EXCEPT ![j] = next]
      /\ audits' = audits
  BY <1>1 DEF SaveStep, SaveRevision
<1>3. new \in Revision
  BY <1>1 DEF Revision
<1>4. /\ DOMAIN next = 1..(n + 1)
      /\ Len(next) = n + 1
      /\ \A i \in 1..n : next[i] = revisions[j][i]
      /\ next[n + 1] = new
  BY <1>1, <1>3, AppendProperties, LenProperties
<1>5. /\ state'[j] = "AwaitingUserReview" /\ current'[j] = n + 1 /\ revisions'[j] = next
      /\ audits'[j] = audits[j]
      /\ \A k \in Jobs : k # j => /\ state'[k] = state[k] /\ current'[k] = current[k]
                                  /\ revisions'[k] = revisions[k] /\ audits'[k] = audits[k]
  BY <1>2 DEF TableInv, TypeOK
<1>6. state[j] # "Confirmed"
  BY DEF SaveStep
<1> HIDE DEF next
<1>7. ReviewChain'
  <2> SUFFICES ASSUME NEW k \in Jobs
               PROVE  /\ current'[k] = Len(revisions'[k])
                      /\ (state'[k] \in {"AwaitingUserReview", "Confirmed"}) <=> (revisions'[k] # <<>>)
                      /\ \A i \in DOMAIN revisions'[k] :
                           revisions'[k][i].number = i /\ revisions'[k][i].source = i - 1
    BY DEF ReviewChain
  <2>1. CASE k # j
    BY <1>5, <2>1 DEF TableInv, ReviewChain
  <2>2. CASE k = j
    <3>1. next # <<>>
      BY <1>1, <1>4
    <3>2. \A i \in 1..n : revisions[j][i].number = i /\ revisions[j][i].source = i - 1
      BY <1>1 DEF TableInv, ReviewChain
    <3>3. \A i \in 1..(n + 1) : next[i].number = i /\ next[i].source = i - 1
      BY <1>1, <1>4, <3>2
    <3> QED
      BY <1>4, <1>5, <2>2, <3>1, <3>3
  <2> QED
    BY <2>1, <2>2
<1>8. ConfirmedExactlyOnce'
  <2> SUFFICES ASSUME NEW k \in Jobs
               PROVE  /\ audits'[k] = IF state'[k] = "Confirmed" THEN <<current'[k]>> ELSE <<>>
                      /\ \A i \in DOMAIN revisions'[k] :
                           (revisions'[k][i].status = "CONFIRMED")
                             <=> (state'[k] = "Confirmed" /\ i = current'[k])
                      /\ state'[k] = "Confirmed" => revisions'[k][current'[k]].confirmable
    BY DEF ConfirmedExactlyOnce
  <2>1. CASE k # j
    BY <1>5, <2>1 DEF TableInv, ConfirmedExactlyOnce
  <2>2. CASE k = j
    <3>1. audits[j] = <<>> /\ \A i \in 1..n : revisions[j][i].status # "CONFIRMED"
      BY <1>1, <1>6 DEF TableInv, ConfirmedExactlyOnce
    <3>2. \A i \in 1..(n + 1) : next[i].status # "CONFIRMED"
      BY <1>1, <1>4, <3>1
    <3> QED
      BY <1>4, <1>5, <2>2, <3>1, <3>2
  <2> QED
    BY <2>1, <2>2
<1>9. Stable
  BY <1>1, <1>4, <1>5, <1>6 DEF Stable
<1> QED
  BY <1>7, <1>8, <1>9

LEMMA ConfirmPreserves ==
  ASSUME TableInv, NEW j \in Jobs, ConfirmStep(j)
  PROVE  ReviewChain' /\ ConfirmedExactlyOnce' /\ Stable
<1> DEFINE n == Len(revisions[j])
           next == [revisions[j] EXCEPT ![n].status = "CONFIRMED"]
<1>1. n \in Nat /\ current[j] = n /\ revisions[j] \in Seq(Revision) /\ DOMAIN revisions[j] = 1..n
  BY LenProperties DEF TableInv, TypeOK, ReviewChain
<1>2. n \in 1..n /\ revisions[j][n].confirmable /\ state[j] = "AwaitingUserReview"
  BY <1>1 DEF ConfirmStep
<1>3. /\ state' = [state EXCEPT ![j] = "Confirmed"]
      /\ current' = current
      /\ revisions' = [revisions EXCEPT ![j] = next]
      /\ audits' = [audits EXCEPT ![j] = Append(@, n)]
  BY <1>1 DEF ConfirmStep
<1>4. /\ next \in Seq(Revision)
      /\ Len(next) = n
      /\ \A i \in 1..n :
           next[i] = IF i = n THEN [revisions[j][n] EXCEPT !.status = "CONFIRMED"] ELSE revisions[j][i]
  BY <1>1, <1>2, ConfirmTyped
<1>5. DOMAIN next = 1..n
  BY <1>4, LenProperties
<1>6. \A i \in 1..n : revisions[j][i] \in Revision
  BY <1>1, ElementOfSeq
<1> HIDE DEF next
<1>7. \A i \in 1..n :
        /\ next[i].number = revisions[j][i].number /\ next[i].source = revisions[j][i].source
        /\ next[i].confirmable = revisions[j][i].confirmable
        /\ next[i].status = IF i = n THEN "CONFIRMED" ELSE revisions[j][i].status
  <2> TAKE i \in 1..n
  <2> DEFINE old == revisions[j][i]
  <2>1. old \in Revision
    BY <1>6
  <2>2. next[i] = IF i = n THEN [old EXCEPT !.status = "CONFIRMED"] ELSE old
    BY <1>4
  <2>3. /\ [old EXCEPT !.status = "CONFIRMED"].number = old.number
        /\ [old EXCEPT !.status = "CONFIRMED"].source = old.source
        /\ [old EXCEPT !.status = "CONFIRMED"].confirmable = old.confirmable
        /\ [old EXCEPT !.status = "CONFIRMED"].status = "CONFIRMED"
    BY <2>1 DEF Revision
  <2> HIDE DEF old
  <2> QED
    BY <2>2, <2>3 DEF old
<1>8. /\ state'[j] = "Confirmed" /\ current'[j] = n /\ revisions'[j] = next
      /\ audits'[j] = Append(audits[j], n)
      /\ \A k \in Jobs : k # j => /\ state'[k] = state[k] /\ current'[k] = current[k]
                                  /\ revisions'[k] = revisions[k] /\ audits'[k] = audits[k]
  BY <1>1, <1>3 DEF TableInv, TypeOK
<1>9. ReviewChain'
  <2> SUFFICES ASSUME NEW k \in Jobs
               PROVE  /\ current'[k] = Len(revisions'[k])
                      /\ (state'[k] \in {"AwaitingUserReview", "Confirmed"}) <=> (revisions'[k] # <<>>)
                      /\ \A i \in DOMAIN revisions'[k] :
                           revisions'[k][i].number = i /\ revisions'[k][i].source = i - 1
    BY DEF ReviewChain
  <2>1. CASE k # j
    BY <1>8, <2>1 DEF TableInv, ReviewChain
  <2>2. CASE k = j
    <3>1. next # <<>>
      BY <1>2, <1>5
    <3>2. \A i \in 1..n : revisions[j][i].number = i /\ revisions[j][i].source = i - 1
      BY <1>1 DEF TableInv, ReviewChain
    <3> QED
      BY <1>4, <1>5, <1>7, <1>8, <2>2, <3>1, <3>2
  <2> QED
    BY <2>1, <2>2
<1>10. ConfirmedExactlyOnce'
  <2> SUFFICES ASSUME NEW k \in Jobs
               PROVE  /\ audits'[k] = IF state'[k] = "Confirmed" THEN <<current'[k]>> ELSE <<>>
                      /\ \A i \in DOMAIN revisions'[k] :
                           (revisions'[k][i].status = "CONFIRMED")
                             <=> (state'[k] = "Confirmed" /\ i = current'[k])
                      /\ state'[k] = "Confirmed" => revisions'[k][current'[k]].confirmable
    BY DEF ConfirmedExactlyOnce
  <2>1. CASE k # j
    BY <1>8, <2>1 DEF TableInv, ConfirmedExactlyOnce
  <2>2. CASE k = j
    <3>1. audits[j] = <<>> /\ \A i \in 1..n : revisions[j][i].status # "CONFIRMED"
      BY <1>1, <1>2 DEF TableInv, ConfirmedExactlyOnce
    <3>2. Append(audits[j], n) = <<n>>
      BY <3>1
    <3> QED
      BY <1>2, <1>5, <1>7, <1>8, <2>2, <3>1, <3>2
  <2> QED
    BY <2>1, <2>2
<1>11. Stable
  BY <1>1, <1>2, <1>5, <1>7, <1>8 DEF Stable
<1> QED
  BY <1>9, <1>10, <1>11

LEMMA TablesPreserved ==
  ASSUME TableInv, StepKinds
  PROVE  ReviewChain' /\ ConfirmedExactlyOnce' /\ Stable
<1>1. CASE UNCHANGED durable
  BY <1>1 DEF durable, TableInv, ReviewChain, ConfirmedExactlyOnce, Stable
<1> QED
  BY <1>1, MovePreserves, SavePreserves, ConfirmPreserves DEF StepKinds

-----------------------------------------------------------------------------
(* What the worker and the requests remember.                              *)

LEMMA WorkerStepHolds == IInv /\ [Next]_vars => WorkerHolds'
<1> SUFFICES ASSUME IInv, [Next]_vars PROVE WorkerHolds'
  OBVIOUS
<1> USE DEF worker, WorkerHolds
<1>0. TypeOK /\ WorkerHolds
  BY DEF IInv
<1>1. CASE UNCHANGED vars
  BY <1>0, <1>1 DEF vars
<1>2. CASE Dequeue \/ StepFails \/ PublishRevision \/ MarkFailed \/ StoreThrows \/ Stop
  BY <1>2 DEF Dequeue, StepFails, PublishRevision, MarkFailed, StoreThrows, Stop, Finish, GoTo
<1>3. CASE Load
  BY <1>3 DEF Load, Finish
<1>4. CASE Reserve \/ Entitled \/ OcrDone \/ StartMatch
  BY <1>4 DEF Reserve, Entitled, OcrDone, StartMatch, Advance, Finish, GoTo
<1>5. CASE MarkRead
  <2>1. state[workerJob] \in JobState
    BY <1>0, <1>5 DEF TypeOK, MarkRead, WorkerAt
  <2> QED
    BY <1>5, <2>1, FailedStates DEF MarkRead, Finish
<1>6. CASE Start \/ \E j \in Jobs : CreateJob(j) \/ FinishUpload(j)
  BY <1>0, <1>6 DEF Start, CreateJob, FinishUpload
<1>7. ASSUME NEW s \in Submitters, SubmitEnqueue(s) \/ SubmitAborted(s) \/ \E j \in Jobs : SubmitRead(s, j)
      PROVE  WorkerHolds'
  BY <1>0, <1>7 DEF SubmitEnqueue, SubmitAborted, SubmitRead
<1>8. CASE RecoveryStep
  BY <1>0, <1>8 DEF RecoveryStep, ListPage, RecoverItem, EnqueueItem
<1>9. ASSUME NEW r \in Reviewers, ReviewStep(r) PROVE WorkerHolds'
  BY <1>0, <1>9
  DEF ReviewStep, RequestEnds, EditSave, ConfirmReadJob, ConfirmCommit, EditRead,
      ConfirmReadRevision
<1> QED
  BY <1>1, <1>2, <1>3, <1>4, <1>5, <1>6, <1>7, <1>8, <1>9 DEF Next, WorkerStep

\* The part of ReviewsHold and ConfirmAnswerIsTrue that is about one request.
RequestHolds(r) ==
  LET j == reviews[r].job
      i == reviews[r].rev
  IN
  /\ reviews[r].pc # "idle" => i \in DOMAIN revisions[j]
  /\ reviews[r].pc = "commit" => revisions[j][i].confirmable \/ state[j] = "Confirmed"
  /\ reviews[r].pc = "confirmed" => state[j] = "Confirmed" /\ current[j] = i

LEMMA RequestsAre ==
  (ReviewsHold /\ ConfirmAnswerIsTrue) <=> \A r \in Reviewers : RequestHolds(r)
  BY DEF ReviewsHold, ConfirmAnswerIsTrue, RequestHolds

\* A request that does nothing in a step keeps what it knows.
LEMMA IdleRequestHolds ==
  ASSUME TypeOK, Stable, NEW r \in Reviewers, RequestHolds(r),
         reviews'[r] = reviews[r] \/ reviews'[r].pc = "idle"
  PROVE  RequestHolds(r)'
<1>1. CASE reviews'[r].pc = "idle"
  BY <1>1 DEF RequestHolds
<1>2. CASE reviews'[r] = reviews[r] /\ reviews[r].pc # "idle"
  <2>1. reviews[r].job \in Jobs
    BY <1>2 DEF TypeOK
  <2> QED
    BY <1>2, <2>1 DEF RequestHolds, Stable
<1> QED
  BY <1>1, <1>2

LEMMA RequestStep ==
  ASSUME TypeOK, ReviewsHold, ConfirmAnswerIsTrue, Stable,
         NEW r \in Reviewers, ReviewStep(r)
  PROVE  RequestHolds(r)'
<1> DEFINE job == reviews[r].job
           rev == reviews[r].rev
<1>0. RequestHolds(r)
  BY RequestsAre
<1>1. ASSUME RequestEnds(r) \/ EditSave(r) PROVE RequestHolds(r)'
  <2>1. reviews'[r].pc = "idle"
    BY <1>1 DEF RequestEnds, EditSave, Done, IdleReview, TypeOK
  <2> QED
    BY <1>0, <2>1, IdleRequestHolds
<1>2. ASSUME NEW j \in Jobs, NEW i \in 1..MaxRevisions, EditRead(r, j, i) \/ ConfirmReadRevision(r, j, i)
      PROVE  RequestHolds(r)'
  <2>1. /\ reviews'[r].pc \in {"edit", "readjob"}
        /\ reviews'[r].job = j /\ reviews'[r].rev = i
        /\ i \in DOMAIN revisions[j]
    <3>1. CASE EditRead(r, j, i)
      BY <3>1 DEF EditRead, TypeOK
    <3>2. CASE ConfirmReadRevision(r, j, i)
      BY <3>2 DEF ConfirmReadRevision, TypeOK
    <3> QED
      BY <1>2, <3>1, <3>2
  <2> QED
    BY <2>1 DEF RequestHolds, Stable
<1>3. ASSUME NEW pc \in ReviewPc, Answer(r, pc)
      PROVE  reviews'[r].pc = pc /\ reviews'[r].job = job /\ reviews'[r].rev = rev
  BY <1>3 DEF Answer, TypeOK
<1>4. CASE ConfirmReadJob(r)
  <2>1. job \in Jobs /\ rev \in DOMAIN revisions[job]
    BY <1>0, <1>4 DEF ConfirmReadJob, RequestHolds, TypeOK
  <2>2. PICK pc \in {"commit", "refused"} :
          Answer(r, pc) /\ (pc = "commit" => revisions[job][rev].confirmable \/ state[job] = "Confirmed")
    BY <1>4 DEF ConfirmReadJob
  <2>3. reviews'[r].pc = pc /\ reviews'[r].job = job /\ reviews'[r].rev = rev
    BY <1>3, <2>2 DEF ReviewPc
  <2>4. state' = state /\ revisions' = revisions /\ current' = current
    BY <1>4 DEF ConfirmReadJob, durable
  <2> QED
    BY <2>1, <2>2, <2>3, <2>4 DEF RequestHolds
<1>5. CASE ConfirmCommit(r)
  <2>1. job \in Jobs /\ rev \in DOMAIN revisions[job]
    BY <1>0, <1>5 DEF ConfirmCommit, RequestHolds, TypeOK
  <2>2. PICK pc \in {"confirmed", "refused"} :
          Answer(r, pc) /\ (pc = "confirmed" => state'[job] = "Confirmed" /\ current'[job] = rev)
    <3>1. CASE AlreadyConfirmed(job, rev) /\ Answer(r, "confirmed") /\ UNCHANGED durable
      BY <3>1 DEF AlreadyConfirmed, durable
    <3>2. CASE /\ CanConfirm(job, rev)
               /\ state' = [state EXCEPT ![job] = "Confirmed"]
               /\ Answer(r, "confirmed")
               /\ UNCHANGED current
      BY <2>1, <3>2 DEF CanConfirm, TypeOK
    <3> QED
      BY <1>5, <3>1, <3>2 DEF ConfirmCommit
  <2>3. reviews'[r].pc = pc /\ reviews'[r].job = job /\ reviews'[r].rev = rev
    BY <1>3, <2>2 DEF ReviewPc
  <2> QED
    BY <2>1, <2>2, <2>3 DEF RequestHolds, Stable
<1> QED
  BY <1>1, <1>2, <1>4, <1>5 DEF ReviewStep

LEMMA RequestsHold ==
  ASSUME IInv, [Next]_vars, Stable
  PROVE  ReviewsHold' /\ ConfirmAnswerIsTrue'
<1> SUFFICES \A r \in Reviewers : RequestHolds(r)'
  BY DEF RequestHolds, ReviewsHold, ConfirmAnswerIsTrue
<1>0. TypeOK /\ ReviewsHold /\ ConfirmAnswerIsTrue /\ \A r \in Reviewers : RequestHolds(r)
  BY RequestsAre DEF IInv
<1>1. ASSUME \A r \in Reviewers : reviews'[r] = reviews[r] \/ reviews'[r].pc = "idle"
      PROVE  \A r \in Reviewers : RequestHolds(r)'
  BY <1>0, <1>1, IdleRequestHolds
<1>2. ASSUME NEW r \in Reviewers, ReviewStep(r) PROVE \A q \in Reviewers : RequestHolds(q)'
  <2>1. RequestHolds(r)'
    BY <1>0, <1>2, RequestStep
  <2>2. ASSUME NEW q \in Reviewers, q # r PROVE reviews'[q] = reviews[q]
    BY <1>0, <1>2, <2>2
    DEF TypeOK, ReviewStep, RequestEnds, EditSave, ConfirmReadJob, ConfirmCommit, EditRead,
        ConfirmReadRevision, Answer, Done
  <2> QED
    BY <1>0, <2>1, <2>2, IdleRequestHolds
<1>3. CASE UNCHANGED vars
  BY <1>1, <1>3 DEF vars, calls
<1>4. CASE Stop
  BY <1>1, <1>4 DEF Stop, IdleReview
<1>5. CASE WorkerStep \/ StoreThrows
  <2>1. reviews' = reviews
    BY <1>5
    DEF WorkerStep, StoreThrows, Dequeue, Load, Reserve, Entitled, OcrDone, StartMatch, Advance,
        StepFails, PublishRevision, MarkRead, MarkFailed, WorkerUnchanged, calls
  <2> QED
    BY <1>1, <2>1
<1>6. CASE RecoveryStep \/ Start
  <2>1. reviews' = reviews
    BY <1>6 DEF RecoveryStep, Start, ListPage, RecoverItem, EnqueueItem, calls
  <2> QED
    BY <1>1, <2>1
<1>7. CASE \/ \E j \in Jobs : CreateJob(j) \/ FinishUpload(j)
           \/ \E s \in Submitters : SubmitEnqueue(s) \/ SubmitAborted(s) \/ \E j \in Jobs : SubmitRead(s, j)
  <2>1. reviews' = reviews
    BY <1>7 DEF CreateJob, FinishUpload, SubmitEnqueue, SubmitAborted, SubmitRead, calls
  <2> QED
    BY <1>1, <2>1
<1> QED
  BY <1>2, <1>3, <1>4, <1>5, <1>6, <1>7 DEF Next

-----------------------------------------------------------------------------
(* The theorems.                                                           *)

LEMMA Inductive == IInv /\ [Next]_vars => IInv' /\ Stable
<1> SUFFICES ASSUME IInv, [Next]_vars PROVE IInv' /\ Stable
  OBVIOUS
<1>1. TypeOK' /\ WorkerHolds'
  BY TypeStep, WorkerStepHolds
<1>2. ReviewChain' /\ ConfirmedExactlyOnce' /\ Stable
  BY StepClasses, TablesPreserved DEF IInv, TableInv
<1>3. ReviewsHold' /\ ConfirmAnswerIsTrue'
  BY <1>2, RequestsHold
<1> QED
  BY <1>1, <1>2, <1>3 DEF IInv

\* The inductive invariant holds in every reachable state of the workflow.
THEOREM Invariance == Spec => []IInv
<1>1. Init => IInv
  BY InitHolds
<1>2. IInv /\ [Next]_vars => IInv'
  BY Inductive
<1> QED
  BY <1>1, <1>2, PTL DEF Spec

\* Every variable keeps its type: the queue its capacity, the watermark the row
\* count, the worker and every request a job that exists.
THEOREM TypeCorrect == Spec => []TypeOK
<1>1. IInv => TypeOK
  BY DEF IInv
<1> QED
  BY <1>1, Invariance, PTL

\* SaveEditedRevisionAsync and the publication of the first revision never fork
\* or gap the revision history, whatever requests, workers and restarts do.
THEOREM RevisionHistoryIsAChain == Spec => []ReviewChain
<1>1. IInv => ReviewChain
  BY DEF IInv
<1> QED
  BY <1>1, Invariance, PTL

\* ConfirmRevisionAndTransitionJobAsync confirms a job at most once, at its
\* current and confirmable revision, with exactly one audit event.
THEOREM ConfirmedOnce == Spec => []ConfirmedExactlyOnce
<1>1. IInv => ConfirmedExactlyOnce
  BY DEF IInv
<1> QED
  BY <1>1, Invariance, PTL

\* ConfirmRevisionAsync answers success only for the revision that is confirmed.
THEOREM ConfirmAnswers == Spec => []ConfirmAnswerIsTrue
<1>1. IInv => ConfirmAnswerIsTrue
  BY DEF IInv
<1> QED
  BY <1>1, Invariance, PTL

\* Nothing the connector does changes a confirmed invoice.
THEOREM ConfirmedStaysFrozen == Spec => ConfirmedIsFrozen
<1>1. IInv /\ [Next]_vars =>
        [\A j \in Jobs : state[j] = "Confirmed" =>
           /\ state'[j] = "Confirmed"
           /\ current'[j] = current[j]
           /\ revisions'[j] = revisions[j]
           /\ audits'[j] = audits[j]]_vars
  BY Inductive DEF Stable
<1> QED
  BY <1>1, Invariance, PTL DEF Spec, ConfirmedIsFrozen

-----------------------------------------------------------------------------
(* The workflow implements the ledger.                                     *)

\* The mapped variables.
LPhase == [j \in Jobs |-> PhaseOf(state[j])]
LLength == [j \in Jobs |-> Len(revisions[j])]
LConfirmed ==
  [j \in Jobs |-> IF state[j] = "Confirmed" THEN revisions[j][current[j]].number ELSE 0]
LAudited == [j \in Jobs |-> Len(audits[j])]

LEMMA EdgePhases ==
  ASSUME NEW s, NEW t, Edge(s, t)
  PROVE  \/ PhaseOf(s) = "absent" /\ PhaseOf(t) = "collecting"
         \/ PhaseOf(s) = "collecting" /\ PhaseOf(t) = "ready"
         \/ PhaseOf(s) \in {"ready", "failed"} /\ PhaseOf(t) = "working"
         \/ PhaseOf(s) = "working" /\ PhaseOf(t) = "working"
         \/ PhaseOf(s) = "working" /\ PhaseOf(t) = "failed"
  BY DEF Edge, PhaseOf, Submittable, InFlight

LEMMA ReviewPhases ==
  /\ PhaseOf("Matching") = "working"
  /\ PhaseOf("AwaitingUserReview") = "review"
  /\ PhaseOf("Confirmed") = "confirmed"
  BY DEF PhaseOf, InFlight

\* In a table that satisfies the invariant, the number confirmed is the length.
LEMMA ConfirmedIsLength ==
  ASSUME TypeOK, ReviewChain, NEW j \in Jobs, state[j] = "Confirmed"
  PROVE  revisions[j][current[j]].number = Len(revisions[j])
<1>1. revisions[j] # <<>> /\ current[j] = Len(revisions[j]) /\ revisions[j] \in Seq(Revision)
  BY DEF TypeOK, ReviewChain
<1>2. current[j] \in DOMAIN revisions[j]
  BY <1>1, LenProperties, EmptySeq
<1> QED
  BY <1>1, <1>2 DEF ReviewChain

LEMMA MapsInit == Init => Ledger!LedgerInit
  BY DEF Init, Ledger!LedgerInit, PhaseOf, InFlight

LEMMA MapsMove ==
  ASSUME TableInv, NEW j \in Jobs, NEW t \in Unpublished, MoveStep(j, t)
  PROVE  Ledger!LedgerNext \/ UNCHANGED Ledger!ledgerVars
<1>1. state[j] \in Unpublished
  BY DEF MoveStep, Edge, Unpublished, JobState, InvoiceJobState, Submittable, InFlight
<1>2. /\ state' = [state EXCEPT ![j] = t]
      /\ current' = current /\ revisions' = revisions /\ audits' = audits
  BY DEF MoveStep, rows
<1>3. state'[j] = t /\ \A k \in Jobs : k # j => state'[k] = state[k]
  BY <1>2 DEF TableInv, TypeOK
<1>4. LPhase' = [LPhase EXCEPT ![j] = PhaseOf(t)] /\ LPhase[j] = PhaseOf(state[j])
  BY <1>3 DEF LPhase
<1>5. LLength' = LLength /\ LAudited' = LAudited
  BY <1>2 DEF LLength, LAudited
<1>6. LConfirmed' = LConfirmed
  BY <1>1, <1>2, <1>3 DEF LConfirmed, Unpublished
<1>7. CASE PhaseOf(state[j]) = "working" /\ PhaseOf(t) = "working"
  <2>1. LPhase' = LPhase
    BY <1>4, <1>7 DEF LPhase
  <2> QED
    BY <2>1, <1>5, <1>6 DEF Ledger!ledgerVars, LPhase, LLength, LConfirmed, LAudited
<1>8. CASE PhaseOf(state[j]) = "absent" /\ PhaseOf(t) = "collecting"
  <2>1. Ledger!Open(j)
    BY <1>4, <1>5, <1>6, <1>8
    DEF Ledger!Open, Ledger!Move, LPhase, LLength, LConfirmed, LAudited
  <2> QED
    BY <2>1 DEF Ledger!LedgerNext
<1>9. CASE PhaseOf(state[j]) = "collecting" /\ PhaseOf(t) = "ready"
  <2>1. Ledger!Complete(j)
    BY <1>4, <1>5, <1>6, <1>9
    DEF Ledger!Complete, Ledger!Move, LPhase, LLength, LConfirmed, LAudited
  <2> QED
    BY <2>1 DEF Ledger!LedgerNext
<1>10. CASE PhaseOf(state[j]) \in {"ready", "failed"} /\ PhaseOf(t) = "working"
  <2>1. Ledger!Attempt(j)
    BY <1>4, <1>5, <1>6, <1>10
    DEF Ledger!Attempt, Ledger!Move, LPhase, LLength, LConfirmed, LAudited
  <2> QED
    BY <2>1 DEF Ledger!LedgerNext
<1>11. CASE PhaseOf(state[j]) = "working" /\ PhaseOf(t) = "failed"
  <2>1. Ledger!Fail(j)
    BY <1>4, <1>5, <1>6, <1>11
    DEF Ledger!Fail, Ledger!Move, LPhase, LLength, LConfirmed, LAudited
  <2> QED
    BY <2>1 DEF Ledger!LedgerNext
<1> QED
  BY <1>7, <1>8, <1>9, <1>10, <1>11, EdgePhases DEF MoveStep

LEMMA MapsSave ==
  ASSUME TableInv, NEW j \in Jobs, NEW ok \in BOOLEAN, SaveStep(j, ok)
  PROVE  Ledger!LedgerNext
<1> DEFINE n == Len(revisions[j])
           new == [number |-> current[j] + 1, source |-> current[j], confirmable |-> ok,
                   status |-> "AWAITING_USER_REVIEW"]
<1>1. n \in Nat /\ revisions[j] \in Seq(Revision) /\ current[j] = n
  BY LenProperties DEF TableInv, TypeOK, ReviewChain
<1>2. /\ state' = [state EXCEPT ![j] = "AwaitingUserReview"]
      /\ current' = [current EXCEPT ![j] = n + 1]
      /\ revisions' = [revisions EXCEPT ![j] = Append(revisions[j], new)]
      /\ audits' = audits
  BY DEF SaveStep, SaveRevision
<1>3. new \in Revision
  BY <1>1 DEF Revision
<1>4. Len(Append(revisions[j], new)) = n + 1
  BY <1>1, <1>3, AppendProperties
<1> HIDE DEF new
<1>5. /\ state'[j] = "AwaitingUserReview" /\ Len(revisions'[j]) = n + 1
      /\ \A k \in Jobs : k # j => /\ state'[k] = state[k] /\ current'[k] = current[k]
                                  /\ revisions'[k] = revisions[k]
  BY <1>2, <1>4 DEF TableInv, TypeOK
<1>6. LPhase' = [LPhase EXCEPT ![j] = "review"] /\ LPhase[j] = PhaseOf(state[j])
  BY <1>5, ReviewPhases DEF LPhase
<1>7. LLength' = [LLength EXCEPT ![j] = n + 1] /\ LLength[j] = n
  BY <1>5 DEF LLength
<1>8. LAudited' = LAudited /\ LConfirmed' = LConfirmed
  <2>1. state[j] # "Confirmed"
    BY DEF SaveStep
  <2> QED
    BY <1>2, <1>5, <2>1 DEF LAudited, LConfirmed
<1>9. CASE state[j] = "Matching"
  <2>1. n = 0
    <3>1. state[j] \in Unpublished
      BY <1>9 DEF Unpublished, JobState, InvoiceJobState
    <3> QED
      BY <1>1, <3>1, UnpublishedHasNoRevision
  <2>2. LPhase[j] \in {"working"}
    BY <1>6, <1>9, ReviewPhases
  <2>3. Ledger!Publish(j)
    BY <1>6, <1>7, <1>8, <2>1, <2>2
    DEF Ledger!Publish, Ledger!Move, LPhase, LLength, LConfirmed, LAudited
  <2> QED
    BY <2>3 DEF Ledger!LedgerNext
<1>10. CASE state[j] = "AwaitingUserReview"
  <2>1. LPhase[j] = "review"
    BY <1>6, <1>10, ReviewPhases
  <2>2. LPhase' = LPhase
    BY <1>6, <2>1 DEF LPhase
  <2>3. LLength' = [LLength EXCEPT ![j] = @ + 1]
    BY <1>7
  <2>4. Ledger!Edit(j)
    BY <1>8, <2>1, <2>2, <2>3 DEF Ledger!Edit, LPhase, LLength, LConfirmed, LAudited
  <2> QED
    BY <2>4 DEF Ledger!LedgerNext
<1> QED
  BY <1>9, <1>10 DEF SaveStep

LEMMA MapsConfirm ==
  ASSUME TableInv, TypeOK', ReviewChain', NEW j \in Jobs, ConfirmStep(j)
  PROVE  Ledger!LedgerNext
<1> DEFINE n == Len(revisions[j])
           next == [revisions[j] EXCEPT ![n].status = "CONFIRMED"]
<1>1. n \in Nat /\ revisions[j] \in Seq(Revision) /\ current[j] = n /\ audits[j] \in Seq(Nat)
  BY LenProperties DEF TableInv, TypeOK, ReviewChain
<1>2. n \in DOMAIN revisions[j] /\ state[j] = "AwaitingUserReview"
  BY <1>1 DEF ConfirmStep
<1>3. /\ state' = [state EXCEPT ![j] = "Confirmed"]
      /\ current' = current
      /\ revisions' = [revisions EXCEPT ![j] = next]
      /\ audits' = [audits EXCEPT ![j] = Append(@, n)]
  BY <1>1 DEF ConfirmStep
<1>4. Len(next) = n
  BY <1>1, <1>2, ConfirmTyped
<1> HIDE DEF next
<1>5. Len(Append(audits[j], n)) = Len(audits[j]) + 1
  BY <1>1, AppendProperties
<1>6. /\ state'[j] = "Confirmed" /\ Len(revisions'[j]) = n /\ audits'[j] = Append(audits[j], n)
      /\ \A k \in Jobs : k # j => /\ state'[k] = state[k] /\ current'[k] = current[k]
                                  /\ revisions'[k] = revisions[k] /\ audits'[k] = audits[k]
  BY <1>3, <1>4 DEF TableInv, TypeOK
<1>7. LPhase' = [LPhase EXCEPT ![j] = "confirmed"] /\ LPhase[j] \in {"review"}
  BY <1>2, <1>6, ReviewPhases DEF LPhase
<1>8. LLength' = LLength /\ LLength[j] = n
  BY <1>6 DEF LLength
<1>9. LConfirmed' = [LConfirmed EXCEPT ![j] = n]
  <2>1. revisions'[j][current'[j]].number = Len(revisions'[j])
    <3>1. (TypeOK /\ ReviewChain /\ state[j] = "Confirmed"
             => revisions[j][current[j]].number = Len(revisions[j]))'
      BY ConfirmedIsLength, PTL
    <3> QED
      BY <1>6, <3>1
  <2> QED
    BY <1>6, <2>1 DEF LConfirmed
<1>10. LAudited' = [LAudited EXCEPT ![j] = @ + 1]
  BY <1>5, <1>6 DEF LAudited
<1>11. Ledger!Confirm(j)
  BY <1>7, <1>8, <1>9, <1>10
  DEF Ledger!Confirm, Ledger!Move, LPhase, LLength, LConfirmed, LAudited
<1> QED
  BY <1>11 DEF Ledger!LedgerNext

\* The workflow, with its queue, its worker, restarts and concurrent requests,
\* does nothing to an invoice that the ledger does not allow.
THEOREM Implements == Spec => ImplementsLedger
<1>1. Init => Ledger!LedgerInit
  BY MapsInit
<1>2. IInv /\ IInv' /\ [Next]_vars => [Ledger!LedgerNext]_(Ledger!ledgerVars)
  <2> SUFFICES ASSUME IInv, IInv', [Next]_vars
               PROVE  Ledger!LedgerNext \/ UNCHANGED Ledger!ledgerVars
    OBVIOUS
  <2>1. TableInv /\ TypeOK' /\ ReviewChain' /\ StepKinds
    BY StepClasses DEF IInv, TableInv
  <2>2. CASE UNCHANGED durable
    BY <2>2 DEF durable, Ledger!ledgerVars
  <2> QED
    BY <2>1, <2>2, MapsMove, MapsSave, MapsConfirm DEF StepKinds
<1> QED
  BY <1>1, <1>2, Invariance, PTL DEF Spec, ImplementsLedger, Ledger!LedgerSpec

=============================================================================
