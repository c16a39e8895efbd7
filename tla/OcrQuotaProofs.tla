--------------------------- MODULE OcrQuotaProofs ---------------------------
(***************************************************************************)
(* Proofs about OcrQuota: type correctness, the agreement of the rows, the *)
(* page limit, the agreement of answers, that a completed job is final,    *)
(* that a superseded attempt changes nothing, that the counters of every   *)
(* period are the sums of its reservations, and that the owner of a job is *)
(* never refused, for any number of jobs, requests, periods, pages and     *)
(* attempts.                                                               *)
(*                                                                         *)
(* IInv is the conjunction of the safety properties themselves, each of    *)
(* which is needed to carry another over a step, with OwnersExist added:   *)
(* without it a completed job could answer with the attempt 0 that nobody  *)
(* made.  CountersInv rests on IInv and speaks of the rows behind the      *)
(* counters: finitely many jobs were started (a sum over them exists), no  *)
(* two requests hold one attempt, and a request at work with the current   *)
(* attempt finds its job PROCESSING.  Without the last two a request could *)
(* settle pages that another one had settled before.                       *)
(***************************************************************************)
EXTENDS OcrQuota, FiniteSums

\* A job that exists is owned by an attempt that was handed out.
OwnersExist == \A j \in Jobs : job[j] # "ABSENT" => attempt[j] \in 1..attempts

\* The inductive invariant.
IInv == TypeOK /\ RowsAgree /\ WithinLimit /\ AnswersAgree /\ OwnersExist

-----------------------------------------------------------------------------
(* Facts about parts of actions.                                           *)

LEMMA InitHolds == Init => IInv
<1> SUFFICES ASSUME Init PROVE IInv
  OBVIOUS
<1>1. TypeOK
  <2>1. NumPeriods \in Nat /\ Periods = 1..NumPeriods
    BY NumPeriodsAssumption DEF Periods
  <2>2. audits \in [Jobs -> [settled : Nat, released : Nat]]
    BY DEF Init
  <2>3. requests \in [Requests -> [pc : RequestPc, job : Jobs \cup {"none"}, attempt : Nat]]
    BY DEF Init, IdleRequest, RequestPc
  <2>4. \A r \in Requests : requests[r].pc = "idle"
    BY DEF Init, IdleRequest
  <2> QED
    BY <2>1, <2>2, <2>3, <2>4 DEF Init, TypeOK, JobState, ReservationState
<1>2. RowsAgree
  BY DEF Init, RowsAgree
<1>3. WithinLimit
  BY PageLimitAssumption DEF Init, WithinLimit
<1>4. AnswersAgree
  BY DEF Init, AnswersAgree, IdleRequest
<1>5. OwnersExist
  BY DEF Init, OwnersExist
<1> QED
  BY <1>1, <1>2, <1>3, <1>4, <1>5 DEF IInv

\* A fresh attempt takes the job over and leaves everything typed.
LEMMA NewAttemptTyped ==
  ASSUME TypeOK, NEW r \in Requests, NEW j \in Jobs, NewAttempt(r, j)
  PROVE  /\ attempts' \in Nat
         /\ job' \in [Jobs -> JobState]
         /\ attempt' \in [Jobs -> 0..attempts']
         /\ leased' \in [Jobs -> BOOLEAN]
         /\ requests' \in [Requests -> [pc : RequestPc, job : Jobs \cup {"none"}, attempt : Nat]]
         /\ \A s \in Requests : requests'[s].pc # "idle" =>
              requests'[s].job \in Jobs /\ requests'[s].attempt \in 1..attempts'
         /\ 0..attempts \subseteq 0..attempts'
<1> DEFINE new == [pc |-> "extract", job |-> j, attempt |-> attempts + 1]
<1>1. attempts \in Nat /\ attempts' = attempts + 1 /\ attempts' \in Nat
  BY DEF TypeOK, NewAttempt
<1>2. 0..attempts \subseteq 0..attempts'
  BY <1>1
<1>3. attempt' \in [Jobs -> 0..attempts']
  BY <1>1, <1>2 DEF TypeOK, NewAttempt
<1>4. job' \in [Jobs -> JobState] /\ leased' \in [Jobs -> BOOLEAN]
  BY DEF TypeOK, NewAttempt, JobState
<1>5. new \in [pc : RequestPc, job : Jobs \cup {"none"}, attempt : Nat]
  BY <1>1 DEF RequestPc
<1>6. new.pc # "idle" /\ new.job \in Jobs /\ new.attempt \in 1..attempts'
  BY <1>1
<1>7. requests' = [requests EXCEPT ![r] = new]
  BY DEF NewAttempt
<1> HIDE DEF new
<1>8. requests' \in [Requests -> [pc : RequestPc, job : Jobs \cup {"none"}, attempt : Nat]]
  BY <1>5, <1>7 DEF TypeOK
<1>9. \A s \in Requests : requests'[s].pc # "idle" =>
        requests'[s].job \in Jobs /\ requests'[s].attempt \in 1..attempts'
  BY <1>1, <1>6, <1>7 DEF TypeOK
<1> QED
  BY <1>1, <1>2, <1>3, <1>4, <1>8, <1>9

\* Reserving charges the active period, within its limit.
LEMMA ReserveTyped ==
  ASSUME TypeOK, NEW j \in Jobs, NEW n \in PageCounts, Reserve(j, n)
  PROVE  /\ n \in Nat
         /\ period \in Periods
         /\ reservation' \in [Jobs -> ReservationState]
         /\ entitlement' \in [Jobs -> 0..NumPeriods]
         /\ reserved' \in [Periods -> Nat]
         /\ (WithinLimit /\ settled' = settled) => WithinLimit'
<1>1. n \in Nat
  BY PageCountsAssumption
<1>2. period \in Periods /\ period \in 0..NumPeriods
  BY NumPeriodsAssumption DEF Reserve, Periods
<1>3. reservation' \in [Jobs -> ReservationState]
  BY DEF TypeOK, Reserve, ReservationState
<1>4. entitlement' \in [Jobs -> 0..NumPeriods]
  BY <1>2 DEF TypeOK, Reserve
<1>5. reserved' \in [Periods -> Nat]
  BY <1>1, <1>2 DEF TypeOK, Reserve
<1>6. ASSUME WithinLimit, settled' = settled PROVE WithinLimit'
  <2> SUFFICES ASSUME NEW p \in Periods
               PROVE  reserved'[p] + settled'[p] <= PageLimit
    BY DEF WithinLimit
  <2>1. reserved[p] \in Nat /\ settled[p] \in Nat
    BY DEF TypeOK
  <2>2. CASE p = period
    BY <1>1, <1>2, <1>6, <2>1, <2>2, PageLimitAssumption DEF Reserve, Remaining, TypeOK
  <2>3. CASE p # period
    BY <1>6, <2>1, <2>3 DEF Reserve, TypeOK, WithinLimit
  <2> QED
    BY <2>2, <2>3
<1> QED
  BY <1>1, <1>2, <1>3, <1>4, <1>5, <1>6

\* What an attempt that may finalize its job relies on.
LEMMA Owner ==
  ASSUME TypeOK, RowsAgree, NEW r \in Requests, requests[r].pc # "idle", Finalizable(r)
  PROVE  /\ requests[r].job \in Jobs
         /\ job[requests[r].job] = "PROCESSING"
         /\ attempt[requests[r].job] = requests[r].attempt
         /\ requests[r].attempt \in 1..attempts
         /\ attempts \in Nat
         /\ entitlement[requests[r].job] \in Periods
         /\ pages[requests[r].job] \in Nat
         /\ pages[requests[r].job] <= reserved[entitlement[requests[r].job]]
<1>1. requests[r].job \in Jobs /\ requests[r].attempt \in 1..attempts /\ attempts \in Nat
  BY DEF TypeOK
<1>2. /\ job[requests[r].job] = "PROCESSING"
      /\ attempt[requests[r].job] = requests[r].attempt
      /\ reserved[entitlement[requests[r].job]] >= pages[requests[r].job]
  BY DEF Finalizable
<1>3. entitlement[requests[r].job] \in Periods
  BY <1>1, <1>2 DEF RowsAgree
<1>4. pages[requests[r].job] \in Nat /\ reserved[entitlement[requests[r].job]] \in Nat
  BY <1>1, <1>3 DEF TypeOK
<1> QED
  BY <1>1, <1>2, <1>3, <1>4

-----------------------------------------------------------------------------
(* Types.                                                                  *)

\* The declarations a step that only moves a request leaves as they are.
LEMMA LedgerKept ==
  ASSUME TypeOK, UNCHANGED <<ledger, clock>>,
         requests' \in [Requests -> [pc : RequestPc, job : Jobs \cup {"none"}, attempt : Nat]],
         \A s \in Requests : requests'[s].pc # "idle" =>
           requests'[s].job \in Jobs /\ requests'[s].attempt \in 1..attempts'
  PROVE  TypeOK'
BY DEF TypeOK, ledger, clock

\* A request that only changes its program counter stays typed.
LEMMA PcTyped ==
  ASSUME TypeOK, NEW r \in Requests, requests[r].pc # "idle", NEW pc \in RequestPc,
         requests' = [requests EXCEPT ![r].pc = pc], attempts' = attempts
  PROVE  /\ requests' \in [Requests -> [pc : RequestPc, job : Jobs \cup {"none"}, attempt : Nat]]
         /\ \A s \in Requests : requests'[s].pc # "idle" =>
              requests'[s].job \in Jobs /\ requests'[s].attempt \in 1..attempts'
BY DEF TypeOK

\* A request that ends stays typed.
LEMMA EndsTyped ==
  ASSUME TypeOK, NEW r \in Requests, Ends(r), attempts' = attempts
  PROVE  /\ requests' \in [Requests -> [pc : RequestPc, job : Jobs \cup {"none"}, attempt : Nat]]
         /\ \A s \in Requests : requests'[s].pc # "idle" =>
              requests'[s].job \in Jobs /\ requests'[s].attempt \in 1..attempts'
<1>1. IdleRequest \in [pc : RequestPc, job : Jobs \cup {"none"}, attempt : Nat]
  BY DEF IdleRequest, RequestPc
<1>2. IdleRequest.pc = "idle"
  BY DEF IdleRequest
<1>3. requests' = [requests EXCEPT ![r] = IdleRequest]
  BY DEF Ends
<1> QED
  BY <1>1, <1>2, <1>3 DEF TypeOK

LEMMA TypeStep == IInv /\ [Next]_vars => TypeOK'
<1> SUFFICES ASSUME TypeOK, RowsAgree, OwnersExist, [Next]_vars PROVE TypeOK'
  BY DEF IInv
<1>1. ASSUME NEW r \in Requests, NEW j \in Jobs, NEW n \in PageCounts, StartNew(r, j, n)
      PROVE  TypeOK'
  <2>1. NewAttempt(r, j) /\ Reserve(j, n)
    BY <1>1 DEF StartNew
  <2>2. pages' \in [Jobs -> Nat]
    BY <1>1, <2>1, ReserveTyped DEF StartNew, TypeOK
  <2>3. result' \in [Jobs -> 0..attempts']
    BY <1>1, <2>1, NewAttemptTyped DEF StartNew, TypeOK
  <2> QED
    BY <1>1, <2>1, <2>2, <2>3, NewAttemptTyped, ReserveTyped DEF StartNew, TypeOK
<1>2. ASSUME NEW r \in Requests, NEW j \in Jobs, NEW n \in PageCounts, StartRetry(r, j, n)
      PROVE  TypeOK'
  <2>1. NewAttempt(r, j) /\ Reserve(j, n)
    BY <1>2 DEF StartRetry
  <2>2. result' \in [Jobs -> 0..attempts']
    BY <1>2, <2>1, NewAttemptTyped DEF StartRetry, TypeOK
  <2> QED
    BY <1>2, <2>1, <2>2, NewAttemptTyped, ReserveTyped DEF StartRetry, TypeOK
<1>3. ASSUME NEW r \in Requests, NEW j \in Jobs, NEW n \in PageCounts, StartRecovery(r, j, n)
      PROVE  TypeOK'
  <2>1. NewAttempt(r, j)
    BY <1>3 DEF StartRecovery
  <2>2. result' \in [Jobs -> 0..attempts']
    BY <1>3, <2>1, NewAttemptTyped DEF StartRecovery, TypeOK
  <2> QED
    BY <1>3, <2>1, <2>2, NewAttemptTyped DEF StartRecovery, TypeOK
<1>4. ASSUME NEW r \in Requests, NEW j \in Jobs, NEW n \in PageCounts, StartReplay(r, j, n)
      PROVE  TypeOK'
  <2> DEFINE new == [pc |-> "answered", job |-> j, attempt |-> result[j]]
  <2>1. result[j] \in 1..attempts /\ attempts \in Nat
    BY <1>4 DEF StartReplay, RowsAgree, OwnersExist, TypeOK
  <2>2. requests' = [requests EXCEPT ![r] = new] /\ UNCHANGED <<ledger, clock>>
    BY <1>4 DEF StartReplay
  <2>3. attempts' = attempts
    BY <2>2 DEF clock
  <2>4. new \in [pc : RequestPc, job : Jobs \cup {"none"}, attempt : Nat]
    BY <2>1 DEF RequestPc
  <2>5. new.job \in Jobs /\ new.attempt \in 1..attempts'
    BY <2>1, <2>3
  <2> HIDE DEF new
  <2>6. requests' \in [Requests -> [pc : RequestPc, job : Jobs \cup {"none"}, attempt : Nat]]
    BY <2>2, <2>4 DEF TypeOK
  <2>7. \A s \in Requests : requests'[s].pc # "idle" =>
          requests'[s].job \in Jobs /\ requests'[s].attempt \in 1..attempts'
    BY <2>2, <2>3, <2>5 DEF TypeOK
  <2> QED
    BY <2>2, <2>6, <2>7, LedgerKept
<1>5. ASSUME NEW r \in Requests, Extracted(r) \/ ExtractionFails(r)
      PROVE  TypeOK'
  <2>1. PICK pc \in {"complete", "fail"} : requests' = [requests EXCEPT ![r].pc = pc]
    BY <1>5 DEF Extracted, ExtractionFails
  <2>2. UNCHANGED <<ledger, clock>> /\ attempts' = attempts /\ requests[r].pc # "idle"
    BY <1>5 DEF Extracted, ExtractionFails, clock
  <2>3. pc \in RequestPc
    BY DEF RequestPc
  <2> QED
    BY <2>1, <2>2, <2>3, PcTyped, LedgerKept
<1>6. ASSUME NEW r \in Requests, Settle(r) PROVE TypeOK'
  <2> DEFINE j == requests[r].job
             p == entitlement[j]
  <2>1. requests[r].pc # "idle" /\ Finalizable(r)
    BY <1>6 DEF Settle
  <2>2. /\ j \in Jobs /\ p \in Periods /\ pages[j] \in Nat
        /\ pages[j] <= reserved[p] /\ requests[r].attempt \in 0..attempts
    BY <2>1, Owner
  <2>3. attempts' = attempts /\ period' = period
    BY <1>6 DEF Settle, clock
  <2>4. job' \in [Jobs -> JobState] /\ reservation' \in [Jobs -> ReservationState]
    BY <1>6, <2>2 DEF Settle, TypeOK, JobState, ReservationState
  <2>5. result' \in [Jobs -> 0..attempts']
    BY <1>6, <2>2, <2>3 DEF Settle, TypeOK
  <2>6. reserved' \in [Periods -> Nat] /\ settled' \in [Periods -> Nat]
    <3>1. reserved[p] - pages[j] \in Nat /\ settled[p] + pages[j] \in Nat
      BY <2>2 DEF TypeOK
    <3>2. /\ reserved' = [reserved EXCEPT ![p] = reserved[p] - pages[j]]
          /\ settled' = [settled EXCEPT ![p] = settled[p] + pages[j]]
      BY <1>6 DEF Settle
    <3> QED
      BY <3>1, <3>2 DEF TypeOK
  <2>7. audits' \in [Jobs -> [settled : Nat, released : Nat]]
    <3>1. audits[j] \in [settled : Nat, released : Nat]
      BY <2>2 DEF TypeOK
    <3>2. [audits[j] EXCEPT !.settled = @ + 1] \in [settled : Nat, released : Nat]
      BY <3>1
    <3>3. audits' = [audits EXCEPT ![j] = [audits[j] EXCEPT !.settled = @ + 1]]
      BY <1>6, <2>2 DEF Settle, TypeOK
    <3> QED
      BY <3>2, <3>3, <2>2 DEF TypeOK
  <2>8. /\ requests' \in [Requests -> [pc : RequestPc, job : Jobs \cup {"none"}, attempt : Nat]]
        /\ \A s \in Requests : requests'[s].pc # "idle" =>
             requests'[s].job \in Jobs /\ requests'[s].attempt \in 1..attempts'
    BY <1>6, <2>1, <2>3, PcTyped DEF Settle, RequestPc
  <2> QED
    BY <1>6, <2>3, <2>4, <2>5, <2>6, <2>7, <2>8 DEF Settle, TypeOK
<1>7. ASSUME NEW r \in Requests, Release(r) PROVE TypeOK'
  <2> DEFINE j == requests[r].job
             p == entitlement[j]
  <2>1. requests[r].pc # "idle" /\ Finalizable(r)
    BY <1>7 DEF Release
  <2>2. j \in Jobs /\ p \in Periods /\ pages[j] \in Nat /\ pages[j] <= reserved[p]
    BY <2>1, Owner
  <2>3. attempts' = attempts /\ period' = period
    BY <1>7 DEF Release, clock
  <2>4. job' \in [Jobs -> JobState] /\ reservation' \in [Jobs -> ReservationState]
    BY <1>7, <2>2 DEF Release, TypeOK, JobState, ReservationState
  <2>5. reserved' \in [Periods -> Nat]
    <3>1. reserved[p] - pages[j] \in Nat
      BY <2>2 DEF TypeOK
    <3>2. reserved' = [reserved EXCEPT ![p] = reserved[p] - pages[j]]
      BY <1>7 DEF Release
    <3> QED
      BY <3>1, <3>2 DEF TypeOK
  <2>6. audits' \in [Jobs -> [settled : Nat, released : Nat]]
    <3>1. audits[j] \in [settled : Nat, released : Nat]
      BY <2>2 DEF TypeOK
    <3>2. [audits[j] EXCEPT !.released = @ + 1] \in [settled : Nat, released : Nat]
      BY <3>1
    <3>3. audits' = [audits EXCEPT ![j] = [audits[j] EXCEPT !.released = @ + 1]]
      BY <1>7, <2>2 DEF Release, TypeOK
    <3> QED
      BY <3>2, <3>3, <2>2 DEF TypeOK
  <2>7. /\ requests' \in [Requests -> [pc : RequestPc, job : Jobs \cup {"none"}, attempt : Nat]]
        /\ \A s \in Requests : requests'[s].pc # "idle" =>
             requests'[s].job \in Jobs /\ requests'[s].attempt \in 1..attempts'
    BY <1>7, <2>3, EndsTyped DEF Release
  <2> QED
    BY <1>7, <2>3, <2>4, <2>5, <2>6, <2>7 DEF Release, TypeOK
<1>8. ASSUME NEW r \in Requests, RequestLost(r) PROVE TypeOK'
  <2>1. Ends(r) /\ UNCHANGED <<ledger, clock>> /\ attempts' = attempts
    BY <1>8 DEF RequestLost, clock
  <2> QED
    BY <2>1, EndsTyped, LedgerKept
<1>9. ASSUME NEW j \in Jobs, LeaseExpires(j) PROVE TypeOK'
  BY <1>9 DEF LeaseExpires, clock, TypeOK
<1>10. CASE NextPeriod
  BY <1>10, NumPeriodsAssumption DEF NextPeriod, ledger, TypeOK
<1>11. CASE UNCHANGED vars
  BY <1>11 DEF vars, ledger, clock, TypeOK
<1> QED
  BY <1>1, <1>2, <1>3, <1>4, <1>5, <1>6, <1>7, <1>8, <1>9, <1>10, <1>11 DEF Next

-----------------------------------------------------------------------------
(* The rows.                                                               *)

\* The state a reservation is in while its job is in state s.
ReservationOf(s) ==
  CASE s = "ABSENT"     -> "none"
    [] s = "PROCESSING" -> "held"
    [] s = "COMPLETED"  -> "settled"
    [] s = "FAILED"     -> "released"

\* RowsAgree for one job, with its values as parameters.
Agree(s, reservationState, settledEvents, storedResult, owner, charged) ==
  /\ reservationState = ReservationOf(s)
  /\ settledEvents = IF s = "COMPLETED" THEN 1 ELSE 0
  /\ storedResult = IF s = "COMPLETED" THEN owner ELSE 0
  /\ s # "ABSENT" => charged \in Periods

RowOf(j) == Agree(job[j], reservation[j], audits[j].settled, result[j], attempt[j], entitlement[j])

EachRow == \A j \in Jobs : RowOf(j)

LEMMA RowsAreAgreeing == RowsAgree <=> EachRow
BY DEF RowsAgree, EachRow, RowOf, Agree, ReservationOf

\* A fresh attempt on pages that were just reserved.
LEMMA ReservedRow ==
  ASSUME TypeOK, RowsAgree, OwnersExist, NEW r \in Requests, NEW j \in Jobs, NEW n \in PageCounts,
         job[j] \in {"ABSENT", "FAILED"}, Reserve(j, n), NewAttempt(r, j),
         UNCHANGED <<result, audits>>
  PROVE  RowsAgree' /\ OwnersExist'
<1>1. /\ job' = [job EXCEPT ![j] = "PROCESSING"]
      /\ reservation' = [reservation EXCEPT ![j] = "held"]
      /\ attempt' = [attempt EXCEPT ![j] = attempts + 1]
      /\ entitlement' = [entitlement EXCEPT ![j] = period]
      /\ attempts' = attempts + 1 /\ attempts \in Nat /\ period \in Periods
  BY DEF Reserve, NewAttempt, TypeOK
<1>2. audits[j].settled = 0 /\ result[j] = 0
  BY DEF RowsAgree
<1>3. ASSUME NEW k \in Jobs PROVE RowOf(k)'
  <2>1. CASE k = j
    BY <1>1, <1>2, <2>1 DEF TypeOK, RowOf, Agree, ReservationOf
  <2>2. CASE k # j
    <3>1. RowOf(k)
      BY RowsAreAgreeing DEF EachRow
    <3> QED
      BY <1>1, <2>2, <3>1 DEF TypeOK, RowOf
  <2> QED
    BY <2>1, <2>2
<1>4. RowsAgree'
  <2>1. EachRow'
    BY <1>3 DEF EachRow
  <2> QED
    BY <2>1, RowsAreAgreeing, PTL
<1>5. OwnersExist'
  BY <1>1 DEF TypeOK, OwnersExist
<1> QED
  BY <1>4, <1>5

\* A job is finalized by its owner: to COMPLETED with its result, or to FAILED.
LEMMA FinalizedRow ==
  ASSUME TypeOK, RowsAgree, OwnersExist, NEW r \in Requests, Settle(r) \/ Release(r)
  PROVE  RowsAgree' /\ OwnersExist'
<1> DEFINE j == requests[r].job
<1>1. requests[r].pc # "idle" /\ Finalizable(r)
  BY DEF Settle, Release
<1>2. j \in Jobs /\ job[j] = "PROCESSING" /\ attempt[j] = requests[r].attempt /\ entitlement[j] \in Periods
  BY <1>1, Owner
<1>3. audits[j].settled = 0 /\ result[j] = 0 /\ audits[j] \in [settled : Nat, released : Nat]
  BY <1>2 DEF RowsAgree, TypeOK
<1>4. attempts' = attempts /\ attempt' = attempt /\ entitlement' = entitlement
  BY DEF Settle, Release, clock
<1>5. ASSUME NEW k \in Jobs, k # j
      PROVE  /\ job'[k] = job[k] /\ reservation'[k] = reservation[k]
             /\ audits'[k] = audits[k] /\ result'[k] = result[k]
  BY <1>2, <1>5 DEF Settle, Release, TypeOK
<1>6. ASSUME NEW k \in Jobs, k = j PROVE RowOf(k)'
  <2>1. CASE Settle(r)
    <3>1. job'[k] = "COMPLETED" /\ reservation'[k] = "settled" /\ result'[k] = attempt[k]
      BY <1>2, <1>6, <2>1 DEF Settle, TypeOK
    <3>2. audits'[k].settled = 1
      BY <1>2, <1>3, <1>6, <2>1 DEF Settle, TypeOK
    <3> QED
      BY <1>2, <1>4, <1>6, <3>1, <3>2 DEF RowOf, Agree, ReservationOf
  <2>2. CASE Release(r)
    <3>1. job'[k] = "FAILED" /\ reservation'[k] = "released" /\ result'[k] = 0
      BY <1>2, <1>3, <1>6, <2>2 DEF Release, TypeOK
    <3>2. audits'[k].settled = 0
      BY <1>2, <1>3, <1>6, <2>2 DEF Release, TypeOK
    <3> QED
      BY <1>2, <1>4, <1>6, <3>1, <3>2 DEF RowOf, Agree, ReservationOf
  <2> QED
    BY <2>1, <2>2
<1>7. ASSUME NEW k \in Jobs PROVE RowOf(k)'
  <2>1. CASE k = j
    BY <1>6, <2>1
  <2>2. CASE k # j
    <3>1. RowOf(k)
      BY RowsAreAgreeing DEF EachRow
    <3> QED
      BY <1>4, <1>5, <2>2, <3>1 DEF RowOf
  <2> QED
    BY <2>1, <2>2
<1>8. RowsAgree'
  <2>1. EachRow'
    BY <1>7 DEF EachRow
  <2> QED
    BY <2>1, RowsAreAgreeing, PTL
<1>9. OwnersExist'
  BY <1>2, <1>4, <1>5 DEF OwnersExist
<1> QED
  BY <1>8, <1>9

LEMMA RowsStep == IInv /\ [Next]_vars => RowsAgree' /\ OwnersExist'
<1> SUFFICES ASSUME TypeOK, RowsAgree, OwnersExist, [Next]_vars
             PROVE  RowsAgree' /\ OwnersExist'
  BY DEF IInv
<1>1. ASSUME NEW r \in Requests, NEW j \in Jobs, NEW n \in PageCounts,
             StartNew(r, j, n) \/ StartRetry(r, j, n)
      PROVE  RowsAgree' /\ OwnersExist'
  <2>1. /\ job[j] \in {"ABSENT", "FAILED"} /\ Reserve(j, n) /\ NewAttempt(r, j)
        /\ UNCHANGED <<result, audits>>
    BY <1>1 DEF StartNew, StartRetry
  <2> QED
    BY <2>1, ReservedRow
<1>2. ASSUME NEW r \in Requests, NEW j \in Jobs, NEW n \in PageCounts, StartRecovery(r, j, n)
      PROVE  RowsAgree' /\ OwnersExist'
  <2>1. /\ job[j] = "PROCESSING" /\ job' = [job EXCEPT ![j] = "PROCESSING"]
        /\ attempt' = [attempt EXCEPT ![j] = attempts + 1] /\ attempts' = attempts + 1
        /\ attempts \in Nat
        /\ UNCHANGED <<result, reservation, entitlement, audits>>
    BY <1>2 DEF StartRecovery, NewAttempt, TypeOK
  <2>2. job' = job
    BY <2>1 DEF TypeOK
  <2>3. ASSUME NEW k \in Jobs PROVE RowOf(k)'
    <3>1. RowOf(k)
      BY RowsAreAgreeing DEF EachRow
    <3>2. CASE k = j
      <4>1. result[k] = 0
        BY <2>1, <3>2 DEF RowsAgree
      <4> QED
        BY <2>1, <2>2, <3>1, <3>2, <4>1 DEF RowOf, Agree
    <3>3. CASE k # j
      <4>1. attempt'[k] = attempt[k]
        BY <2>1, <3>3 DEF TypeOK
      <4> QED
        BY <2>1, <2>2, <3>1, <4>1 DEF RowOf
    <3> QED
      BY <3>2, <3>3
  <2>4. RowsAgree'
    <3>1. EachRow'
      BY <2>3 DEF EachRow
    <3> QED
      BY <3>1, RowsAreAgreeing, PTL
  <2>5. OwnersExist'
    BY <2>1, <2>2 DEF OwnersExist, TypeOK
  <2> QED
    BY <2>4, <2>5
<1>3. ASSUME NEW r \in Requests, Settle(r) \/ Release(r)
      PROVE  RowsAgree' /\ OwnersExist'
  BY <1>3, FinalizedRow
<1>4. ASSUME UNCHANGED <<job, attempt, result, reservation, entitlement, audits, attempts>>
      PROVE  RowsAgree' /\ OwnersExist'
  BY <1>4 DEF RowsAgree, OwnersExist
<1>5. ASSUME NEW r \in Requests, Extracted(r) \/ ExtractionFails(r) \/ RequestLost(r)
      PROVE  UNCHANGED <<job, attempt, result, reservation, entitlement, audits, attempts>>
  BY <1>5 DEF Extracted, ExtractionFails, RequestLost, ledger, clock
<1>6. ASSUME NEW r \in Requests, NEW j \in Jobs, NEW n \in PageCounts, StartReplay(r, j, n)
      PROVE  UNCHANGED <<job, attempt, result, reservation, entitlement, audits, attempts>>
  BY <1>6 DEF StartReplay, ledger, clock
<1>7. ASSUME (\E j \in Jobs : LeaseExpires(j)) \/ NextPeriod \/ UNCHANGED vars
      PROVE  UNCHANGED <<job, attempt, result, reservation, entitlement, audits, attempts>>
  BY <1>7 DEF LeaseExpires, NextPeriod, vars, ledger, clock
<1> QED
  BY <1>1, <1>2, <1>3, <1>4, <1>5, <1>6, <1>7 DEF Next

-----------------------------------------------------------------------------
(* The limit.                                                              *)

LEMMA LimitStep == IInv /\ [Next]_vars => WithinLimit'
<1> SUFFICES ASSUME TypeOK, RowsAgree, WithinLimit, [Next]_vars PROVE WithinLimit'
  BY DEF IInv
<1>1. ASSUME NEW r \in Requests, NEW j \in Jobs, NEW n \in PageCounts,
             StartNew(r, j, n) \/ StartRetry(r, j, n)
      PROVE  WithinLimit'
  <2>1. Reserve(j, n) /\ settled' = settled
    BY <1>1 DEF StartNew, StartRetry
  <2> QED
    BY <2>1, ReserveTyped
<1>2. ASSUME NEW r \in Requests, Settle(r) \/ Release(r) PROVE WithinLimit'
  <2> DEFINE j == requests[r].job
             p == entitlement[j]
  <2>1. requests[r].pc # "idle" /\ Finalizable(r)
    BY <1>2 DEF Settle, Release
  <2>2. p \in Periods /\ pages[j] \in Nat
    BY <2>1, Owner
  <2>3. /\ reserved' = [reserved EXCEPT ![p] = reserved[p] - pages[j]]
        /\ settled' \in {settled, [settled EXCEPT ![p] = settled[p] + pages[j]]}
    BY <1>2 DEF Settle, Release
  <2> SUFFICES ASSUME NEW q \in Periods PROVE reserved'[q] + settled'[q] <= PageLimit
    BY DEF WithinLimit
  <2>4. reserved[q] \in Nat /\ settled[q] \in Nat /\ reserved[q] + settled[q] <= PageLimit
    BY DEF TypeOK, WithinLimit
  <2>5. CASE q = p
    <3>1. reserved'[q] = reserved[q] - pages[j] /\ settled'[q] \in {settled[q], settled[q] + pages[j]}
      BY <2>2, <2>3, <2>5 DEF TypeOK
    <3> QED
      BY <2>2, <2>4, <3>1, PageLimitAssumption
  <2>6. CASE q # p
    BY <2>3, <2>4, <2>6 DEF TypeOK
  <2> QED
    BY <2>5, <2>6
<1>3. ASSUME UNCHANGED <<reserved, settled>> PROVE WithinLimit'
  BY <1>3 DEF WithinLimit
<1>4. ASSUME NEW r \in Requests, NEW j \in Jobs, NEW n \in PageCounts,
             StartRecovery(r, j, n) \/ StartReplay(r, j, n)
      PROVE  UNCHANGED <<reserved, settled>>
  BY <1>4 DEF StartRecovery, StartReplay, ledger
<1>5. ASSUME NEW r \in Requests, Extracted(r) \/ ExtractionFails(r) \/ RequestLost(r)
      PROVE  UNCHANGED <<reserved, settled>>
  BY <1>5 DEF Extracted, ExtractionFails, RequestLost, ledger
<1>6. ASSUME (\E j \in Jobs : LeaseExpires(j)) \/ NextPeriod \/ UNCHANGED vars
      PROVE  UNCHANGED <<reserved, settled>>
  BY <1>6 DEF LeaseExpires, NextPeriod, vars, ledger
<1> QED
  BY <1>1, <1>2, <1>3, <1>4, <1>5, <1>6 DEF Next

-----------------------------------------------------------------------------
(* Completed jobs and the answers about them.                              *)

\* What a step may do to a completed job: nothing but settle others.
CompletedKept ==
  \A j \in Jobs : job[j] = "COMPLETED" =>
    /\ job'[j] = "COMPLETED"
    /\ result'[j] = result[j]
    /\ reservation'[j] = "settled"
    /\ entitlement'[j] = entitlement[j]
    /\ audits'[j] = audits[j]

LEMMA CompletedStep == IInv /\ [Next]_vars => CompletedKept
<1> SUFFICES ASSUME TypeOK, RowsAgree, [Next]_vars,
                    NEW k \in Jobs, job[k] = "COMPLETED"
             PROVE  /\ job'[k] = job[k] /\ result'[k] = result[k]
                    /\ reservation'[k] = reservation[k]
                    /\ entitlement'[k] = entitlement[k] /\ audits'[k] = audits[k]
  BY DEF IInv, CompletedKept, RowsAgree
<1> DEFINE Kept == /\ job'[k] = job[k] /\ result'[k] = result[k]
                   /\ reservation'[k] = reservation[k]
                   /\ entitlement'[k] = entitlement[k] /\ audits'[k] = audits[k]
<1>1. ASSUME NEW r \in Requests, NEW j \in Jobs, NEW n \in PageCounts,
             StartNew(r, j, n) \/ StartRetry(r, j, n)
      PROVE  Kept
  <2>1. /\ job[j] # "COMPLETED" /\ Reserve(j, n) /\ NewAttempt(r, j)
        /\ UNCHANGED <<result, audits>>
    BY <1>1 DEF StartNew, StartRetry
  <2> QED
    BY <2>1 DEF Reserve, NewAttempt, TypeOK
<1>2. ASSUME NEW r \in Requests, NEW j \in Jobs, NEW n \in PageCounts, StartRecovery(r, j, n)
      PROVE  Kept
  BY <1>2 DEF StartRecovery, NewAttempt, TypeOK
<1>3. ASSUME NEW r \in Requests, Settle(r) \/ Release(r) PROVE Kept
  <2>1. requests[r].pc # "idle" /\ Finalizable(r)
    BY <1>3 DEF Settle, Release
  <2>2. requests[r].job \in Jobs /\ requests[r].job # k
    BY <2>1, Owner
  <2> QED
    BY <1>3, <2>2 DEF Settle, Release, TypeOK
<1>4. ASSUME UNCHANGED <<job, result, reservation, entitlement, audits>> PROVE Kept
  BY <1>4
<1>5. ASSUME NEW r \in Requests, Extracted(r) \/ ExtractionFails(r) \/ RequestLost(r)
      PROVE  UNCHANGED <<job, result, reservation, entitlement, audits>>
  BY <1>5 DEF Extracted, ExtractionFails, RequestLost, ledger
<1>6. ASSUME NEW r \in Requests, NEW j \in Jobs, NEW n \in PageCounts, StartReplay(r, j, n)
      PROVE  UNCHANGED <<job, result, reservation, entitlement, audits>>
  BY <1>6 DEF StartReplay, ledger
<1>7. ASSUME (\E j \in Jobs : LeaseExpires(j)) \/ NextPeriod \/ UNCHANGED vars
      PROVE  UNCHANGED <<job, result, reservation, entitlement, audits>>
  BY <1>7 DEF LeaseExpires, NextPeriod, vars, ledger
<1> QED
  BY <1>1, <1>2, <1>3, <1>4, <1>5, <1>6, <1>7 DEF Next

\* A request that is answered now was answered before or is answered by this step,
\* and then with the result its job has after the step.
LEMMA AnswerIsNew ==
  IInv /\ [Next]_vars =>
    \A r \in Requests : requests'[r].pc = "answered" =>
      \/ requests'[r] = requests[r]
      \/ /\ job'[requests'[r].job] = "COMPLETED"
         /\ requests'[r].attempt = result'[requests'[r].job]
<1> SUFFICES ASSUME TypeOK, RowsAgree, [Next]_vars,
                    NEW r \in Requests, requests'[r].pc = "answered", requests'[r] # requests[r]
             PROVE  /\ job'[requests'[r].job] = "COMPLETED"
                    /\ requests'[r].attempt = result'[requests'[r].job]
  BY DEF IInv
<1>1. ASSUME NEW s \in Requests, NEW j \in Jobs, NEW n \in PageCounts,
             StartNew(s, j, n) \/ StartRetry(s, j, n) \/ StartRecovery(s, j, n)
      PROVE  FALSE
  <2>1. NewAttempt(s, j)
    BY <1>1 DEF StartNew, StartRetry, StartRecovery
  <2> QED
    BY <2>1 DEF NewAttempt, TypeOK
<1>2. ASSUME NEW s \in Requests, NEW j \in Jobs, NEW n \in PageCounts, StartReplay(s, j, n)
      PROVE  /\ job'[requests'[r].job] = "COMPLETED"
             /\ requests'[r].attempt = result'[requests'[r].job]
  <2>1. requests'[r] = [pc |-> "answered", job |-> j, attempt |-> result[j]]
    BY <1>2 DEF StartReplay, TypeOK
  <2> QED
    BY <1>2, <2>1 DEF StartReplay, ledger
<1>3. ASSUME NEW s \in Requests, Settle(s)
      PROVE  /\ job'[requests'[r].job] = "COMPLETED"
             /\ requests'[r].attempt = result'[requests'[r].job]
  <2>1. requests[s].pc # "idle" /\ Finalizable(s)
    BY <1>3 DEF Settle
  <2>2. requests[s].job \in Jobs
    BY <2>1, Owner
  <2>3. s = r /\ requests'[r].job = requests[r].job /\ requests'[r].attempt = requests[r].attempt
    BY <1>3 DEF Settle, TypeOK
  <2> QED
    BY <1>3, <2>2, <2>3 DEF Settle, TypeOK
<1>4. ASSUME NEW s \in Requests, Release(s) \/ RequestLost(s) PROVE FALSE
  <2>1. requests' = [requests EXCEPT ![s] = IdleRequest] /\ IdleRequest.pc = "idle"
    BY <1>4 DEF Release, RequestLost, Ends, IdleRequest
  <2> QED
    BY <2>1 DEF TypeOK
<1>5. ASSUME NEW s \in Requests, Extracted(s) \/ ExtractionFails(s) PROVE FALSE
  BY <1>5 DEF Extracted, ExtractionFails, TypeOK
<1>6. ASSUME (\E j \in Jobs : LeaseExpires(j)) \/ NextPeriod \/ UNCHANGED vars PROVE FALSE
  BY <1>6 DEF LeaseExpires, NextPeriod, vars
<1> QED
  BY <1>1, <1>2, <1>3, <1>4, <1>5, <1>6 DEF Next

LEMMA AnswersStep == IInv /\ [Next]_vars => AnswersAgree'
<1> SUFFICES ASSUME IInv, [Next]_vars, NEW r \in Requests, requests'[r].pc = "answered"
             PROVE  /\ job'[requests'[r].job] = "COMPLETED"
                    /\ requests'[r].attempt = result'[requests'[r].job]
  BY DEF AnswersAgree
<1>1. CASE requests'[r] = requests[r]
  <2>1. /\ requests[r].job \in Jobs /\ job[requests[r].job] = "COMPLETED"
        /\ requests[r].attempt = result[requests[r].job]
    BY <1>1 DEF IInv, AnswersAgree, TypeOK
  <2>2. CompletedKept
    BY CompletedStep
  <2> QED
    BY <1>1, <2>1, <2>2 DEF CompletedKept
<1>2. CASE requests'[r] # requests[r]
  BY <1>2, AnswerIsNew
<1> QED
  BY <1>1, <1>2

\* A request whose attempt does not own its job leaves the job and the counters as
\* they are when it moves on.
SupersededKept ==
  \A r \in Requests :
    (requests[r].pc \in {"complete", "fail"}
       /\ requests[r].attempt # attempt[requests[r].job]
       /\ requests'[r] # requests[r])
      => UNCHANGED <<job, result, reservation, reserved, settled, audits>>

LEMMA SupersededStep == IInv /\ [Next]_vars => SupersededKept
<1> SUFFICES ASSUME TypeOK, [Next]_vars, NEW r \in Requests,
                    requests[r].pc \in {"complete", "fail"},
                    requests[r].attempt # attempt[requests[r].job],
                    requests'[r] # requests[r]
             PROVE  UNCHANGED <<job, result, reservation, reserved, settled, audits>>
  BY DEF IInv, SupersededKept
<1>1. ASSUME NEW s \in Requests, NEW j \in Jobs, NEW n \in PageCounts,
             StartNew(s, j, n) \/ StartRetry(s, j, n) \/ StartRecovery(s, j, n) \/ StartReplay(s, j, n)
      PROVE  FALSE
  <2>1. Free(s) /\ \E new : requests' = [requests EXCEPT ![s] = new]
    BY <1>1 DEF StartNew, StartRetry, StartRecovery, StartReplay, NewAttempt
  <2>2. s = r
    BY <2>1 DEF TypeOK
  <2> QED
    BY <2>1, <2>2 DEF Free
<1>2. ASSUME NEW s \in Requests, Settle(s) \/ Release(s) PROVE FALSE
  <2>1. Finalizable(s) /\ \E new : requests' = [requests EXCEPT ![s] = new]
    BY <1>2 DEF Settle, Release, Ends
  <2>2. s = r
    BY <2>1 DEF TypeOK
  <2> QED
    BY <2>1, <2>2 DEF Finalizable
<1>3. ASSUME NEW s \in Requests, Extracted(s) \/ ExtractionFails(s) \/ RequestLost(s)
      PROVE  UNCHANGED <<job, result, reservation, reserved, settled, audits>>
  BY <1>3 DEF Extracted, ExtractionFails, RequestLost, ledger
<1>4. ASSUME (\E j \in Jobs : LeaseExpires(j)) \/ NextPeriod \/ UNCHANGED vars PROVE FALSE
  BY <1>4 DEF LeaseExpires, NextPeriod, vars
<1> QED
  BY <1>1, <1>2, <1>3, <1>4 DEF Next

-----------------------------------------------------------------------------
(* The counters.                                                           *)

\* The jobs charged to period p by reservations in state s, for the columns e and q.
Rows(e, q, p, s) == {k \in Jobs : e[k] = p /\ q[k] = s}

\* What one row adds to the sum of those jobs.
Adds(e, q, n, j, p, s) == IF e[j] = p /\ q[j] = s THEN n[j] ELSE 0

\* When one row changes, the sum changes by what the row adds.
LEMMA OneRowMoves ==
  ASSUME NEW e, NEW q, NEW n, NEW e2, NEW q2, NEW n2, NEW p, NEW s, NEW j \in Jobs,
         IsFiniteSet(Rows(e, q, p, s)),
         \A k \in Jobs : n[k] \in Nat /\ n2[k] \in Nat,
         \A k \in Jobs \ {j} : e2[k] = e[k] /\ q2[k] = q[k] /\ n2[k] = n[k]
  PROVE  /\ SumOver(n, Rows(e, q, p, s)) \in Nat
         /\ SumOver(n2, Rows(e2, q2, p, s)) =
              SumOver(n, Rows(e, q, p, s)) - Adds(e, q, n, j, p, s) + Adds(e2, q2, n2, j, p, s)
<1> DEFINE A == Rows(e, q, p, s)
           B == Rows(e2, q2, p, s)
           R == A \ {j}
<1>1. A \subseteq Jobs /\ B \subseteq Jobs /\ R \subseteq Jobs /\ B \ {j} = R
  BY DEF Rows
<1>2. IsFiniteSet(A) /\ IsFiniteSet(R)
  BY FS_Subset
<1>3. j \in A <=> e[j] = p /\ q[j] = s
  BY DEF Rows
<1>4. j \in B <=> e2[j] = p /\ q2[j] = s
  BY DEF Rows
<1>5. \A k \in R : n[k] = n2[k] /\ n[k] \in Nat
  BY <1>1
<1> HIDE DEF A, B
<1>6. SumOver(n, R) = SumOver(n2, R)
  BY <1>2, <1>5, SumOverSame
<1>7. SumOver(n, R) \in Nat /\ n[j] \in Nat /\ n2[j] \in Nat
  BY <1>2, <1>5, SumOverType
<1>8. SumOver(n, A) = SumOver(n, R) + Adds(e, q, n, j, p, s)
  <2>1. CASE j \in A
    <3>1. SumOver(n, A) = n[j] + SumOver(n, R)
      BY <1>1, <1>2, <2>1, SumOverRemove
    <3> HIDE DEF R
    <3> QED
      BY <1>3, <1>7, <2>1, <3>1 DEF Adds
  <2>2. CASE j \notin A
    <3>1. A = R
      BY <2>2
    <3>2. SumOver(n, A) = SumOver(n, R)
      BY <3>1, Zenon
    <3> HIDE DEF R
    <3> QED
      BY <1>3, <1>7, <2>2, <3>2 DEF Adds
  <2> QED
    BY <2>1, <2>2
<1>9. SumOver(n2, B) = SumOver(n2, R) + Adds(e2, q2, n2, j, p, s)
  <2>1. CASE j \in B
    <3>1. B = R \cup {j} /\ j \notin R
      BY <1>1, <2>1
    <3>2. SumOver(n2, R \cup {j}) = SumOver(n2, R) + n2[j]
      BY <1>2, <1>5, <1>7, <3>1, SumOverAdd
    <3>3. SumOver(n2, B) = SumOver(n2, R) + n2[j]
      BY <3>1, <3>2, Zenon
    <3> HIDE DEF R
    <3> QED
      BY <1>4, <1>7, <2>1, <3>3 DEF Adds
  <2>2. CASE j \notin B
    <3>1. B = R
      BY <1>1, <2>2
    <3>2. SumOver(n2, B) = SumOver(n2, R)
      BY <3>1, Zenon
    <3> HIDE DEF R
    <3> QED
      BY <1>4, <1>6, <1>7, <2>2, <3>2 DEF Adds
  <2> QED
    BY <2>1, <2>2
<1>10. Adds(e, q, n, j, p, s) \in Nat /\ Adds(e2, q2, n2, j, p, s) \in Nat
  BY <1>7 DEF Adds
<1> HIDE DEF R
<1>11. /\ SumOver(n, A) \in Nat
       /\ SumOver(n2, B) = SumOver(n, A) - Adds(e, q, n, j, p, s) + Adds(e2, q2, n2, j, p, s)
  BY <1>6, <1>7, <1>8, <1>9, <1>10
<1> QED
  BY <1>11 DEF A, B

\* Only finitely many jobs exist, whatever Jobs is.
StartedFinite == IsFiniteSet({j \in Jobs : job[j] # "ABSENT"})

\* What row j adds to the counters of period p.
Held(p, j) == Adds(entitlement, reservation, pages, j, p, "held")
SettledBy(p, j) == Adds(entitlement, reservation, pages, j, p, "settled")

LEMMA ChargedIsSum ==
  \A p, s : Charged(p, s) = SumOver(pages, Rows(entitlement, reservation, p, s))
BY FunctionSum DEF Charged, Rows

LEMMA ChargedFinite ==
  ASSUME RowsAgree, StartedFinite, NEW p, NEW s \in {"held", "settled"}
  PROVE  IsFiniteSet(Rows(entitlement, reservation, p, s))
<1>1. Rows(entitlement, reservation, p, s) \subseteq {j \in Jobs : job[j] # "ABSENT"}
  BY DEF Rows, RowsAgree
<1> QED
  BY <1>1, FS_Subset DEF StartedFinite

\* The counters still match when each moves by what the changed row adds to it.
LEMMA CountersMove ==
  ASSUME TypeOK, TypeOK', RowsAgree, StartedFinite, CountersMatchReservations, NEW j \in Jobs,
         \A k \in Jobs \ {j} : /\ entitlement'[k] = entitlement[k]
                                /\ reservation'[k] = reservation[k]
                                /\ pages'[k] = pages[k],
         \A p \in Periods : /\ reserved'[p] = reserved[p] - Held(p, j) + Held(p, j)'
                             /\ settled'[p] = settled[p] - SettledBy(p, j) + SettledBy(p, j)'
  PROVE  CountersMatchReservations'
<1> SUFFICES ASSUME NEW p \in Periods
             PROVE  reserved'[p] = Charged(p, "held")' /\ settled'[p] = Charged(p, "settled")'
  BY DEF CountersMatchReservations
<1>1. \A k \in Jobs : pages[k] \in Nat /\ pages'[k] \in Nat
  BY DEF TypeOK
<1>2. \A s : Charged(p, s)' = SumOver(pages', Rows(entitlement', reservation', p, s))
  <2>1. \A s : Charged(p, s) = SumOver(pages, Rows(entitlement, reservation, p, s))
    BY ChargedIsSum
  <2> QED
    BY FunctionSum DEF Charged, Rows
<1>3. \A s \in {"held", "settled"} :
         Charged(p, s)' = Charged(p, s) - Adds(entitlement, reservation, pages, j, p, s)
                                        + Adds(entitlement', reservation', pages', j, p, s)
  <2> TAKE s \in {"held", "settled"}
  <2>1. IsFiniteSet(Rows(entitlement, reservation, p, s))
    BY ChargedFinite
  <2>2. SumOver(pages', Rows(entitlement', reservation', p, s)) =
          SumOver(pages, Rows(entitlement, reservation, p, s))
            - Adds(entitlement, reservation, pages, j, p, s)
            + Adds(entitlement', reservation', pages', j, p, s)
    BY <1>1, <2>1, OneRowMoves
  <2>3. Charged(p, s) = SumOver(pages, Rows(entitlement, reservation, p, s))
    BY ChargedIsSum
  <2> QED
    BY <1>2, <2>2, <2>3
<1>4. reserved[p] = Charged(p, "held") /\ settled[p] = Charged(p, "settled")
  BY DEF CountersMatchReservations
<1>5. /\ Held(p, j)' = Adds(entitlement', reservation', pages', j, p, "held")
      /\ SettledBy(p, j)' = Adds(entitlement', reservation', pages', j, p, "settled")
  BY DEF Held, SettledBy, Adds
<1> QED
  BY <1>3, <1>4, <1>5 DEF Held, SettledBy

LEMMA CountersStep ==
  ASSUME IInv, IInv', StartedFinite, CountersMatchReservations, [Next]_vars
  PROVE  CountersMatchReservations'
<1> USE DEF IInv
<1>1. ASSUME NEW r \in Requests, NEW j \in Jobs, NEW n \in PageCounts,
             StartNew(r, j, n) \/ StartRetry(r, j, n)
      PROVE  CountersMatchReservations'
  <2>1. Reserve(j, n) /\ settled' = settled
    BY <1>1 DEF StartNew, StartRetry
  <2>2. reservation[j] \in {"none", "released"}
    BY <1>1 DEF StartNew, StartRetry, RowsAgree
  <2>3. pages'[j] = n /\ \A k \in Jobs \ {j} : pages'[k] = pages[k]
    BY <1>1 DEF StartNew, StartRetry, SameOcrJob, TypeOK
  <2>4. /\ reservation'[j] = "held" /\ entitlement'[j] = period /\ period \in Periods
        /\ \A k \in Jobs \ {j} : entitlement'[k] = entitlement[k] /\ reservation'[k] = reservation[k]
    BY <2>1 DEF Reserve, TypeOK
  <2>5. n \in Nat
    BY PageCountsAssumption
  <2>6. ASSUME NEW p \in Periods
        PROVE  /\ reserved'[p] = reserved[p] - Held(p, j) + Held(p, j)'
               /\ settled'[p] = settled[p] - SettledBy(p, j) + SettledBy(p, j)'
    <3>1. reserved[p] \in Nat /\ settled[p] \in Nat
      BY DEF TypeOK
    <3>2. Held(p, j) = 0 /\ SettledBy(p, j) = 0
      BY <2>2 DEF Held, SettledBy, Adds
    <3>3. Held(p, j)' = (IF p = period THEN n ELSE 0) /\ SettledBy(p, j)' = 0
      BY <2>3, <2>4 DEF Held, SettledBy, Adds
    <3>4. reserved'[p] = reserved[p] + (IF p = period THEN n ELSE 0)
      BY <2>1, <2>5, <3>1 DEF Reserve, TypeOK
    <3> QED
      BY <2>1, <2>5, <3>1, <3>2, <3>3, <3>4
  <2> QED
    BY <2>3, <2>4, <2>6, CountersMove
<1>2. ASSUME NEW r \in Requests, Settle(r) \/ Release(r)
      PROVE  CountersMatchReservations'
  <2> DEFINE j == requests[r].job
             p0 == entitlement[j]
  <2>1. requests[r].pc # "idle" /\ Finalizable(r)
    BY <1>2 DEF Settle, Release
  <2>2. j \in Jobs /\ p0 \in Periods /\ pages[j] \in Nat /\ reservation[j] = "held"
    BY <2>1, Owner DEF Finalizable
  <2>3. UNCHANGED <<pages, entitlement>>
    BY <1>2 DEF Settle, Release
  <2>4. \A k \in Jobs \ {j} : reservation'[k] = reservation[k]
    BY <1>2 DEF Settle, Release, TypeOK
  <2>5. PICK i \in Jobs : i = j
    BY <2>2
  <2>6. ASSUME NEW p \in Periods
        PROVE  /\ reserved'[p] = reserved[p] - Held(p, i) + Held(p, i)'
               /\ settled'[p] = settled[p] - SettledBy(p, i) + SettledBy(p, i)'
    <3>1. reserved[p] \in Nat /\ settled[p] \in Nat
      BY DEF TypeOK
    <3>2. Held(p, i) = (IF p = p0 THEN pages[j] ELSE 0) /\ SettledBy(p, i) = 0
      BY <2>2, <2>5 DEF Held, SettledBy, Adds
    <3>3. reserved'[p] = reserved[p] - (IF p = p0 THEN pages[j] ELSE 0)
      BY <1>2, <2>2, <3>1 DEF Settle, Release, TypeOK
    <3>4. CASE Settle(r)
      <4>1. reservation'[j] = "settled"
        BY <2>2, <3>4 DEF Settle, TypeOK
      <4>2. Held(p, i)' = 0 /\ SettledBy(p, i)' = (IF p = p0 THEN pages[j] ELSE 0)
        BY <2>3, <2>5, <4>1 DEF Held, SettledBy, Adds
      <4>3. settled'[p] = settled[p] + (IF p = p0 THEN pages[j] ELSE 0)
        BY <2>2, <3>1, <3>4 DEF Settle, TypeOK
      <4> HIDE DEF j, p0
      <4> QED
        BY <2>2, <3>1, <3>2, <3>3, <4>2, <4>3
    <3>5. CASE Release(r)
      <4>1. reservation'[j] = "released" /\ settled' = settled
        BY <2>2, <3>5 DEF Release, TypeOK
      <4>2. Held(p, i)' = 0 /\ SettledBy(p, i)' = 0
        BY <2>3, <2>5, <4>1 DEF Held, SettledBy, Adds
      <4> HIDE DEF j, p0
      <4> QED
        BY <2>2, <3>1, <3>2, <3>3, <4>1, <4>2
    <3> QED
      BY <1>2, <3>4, <3>5
  <2> QED
    BY <2>3, <2>4, <2>5, <2>6, CountersMove
<1>3. ASSUME UNCHANGED <<pages, reservation, entitlement, reserved, settled>>
      PROVE  CountersMatchReservations'
  BY <1>3 DEF CountersMatchReservations, Charged
<1>4. ASSUME NEW r \in Requests, NEW j \in Jobs, NEW n \in PageCounts,
             StartRecovery(r, j, n) \/ StartReplay(r, j, n)
      PROVE  UNCHANGED <<pages, reservation, entitlement, reserved, settled>>
  BY <1>4 DEF StartRecovery, StartReplay, ledger
<1>5. ASSUME NEW r \in Requests, Extracted(r) \/ ExtractionFails(r) \/ RequestLost(r)
      PROVE  UNCHANGED <<pages, reservation, entitlement, reserved, settled>>
  BY <1>5 DEF Extracted, ExtractionFails, RequestLost, ledger
<1>6. ASSUME (\E j \in Jobs : LeaseExpires(j)) \/ NextPeriod \/ UNCHANGED vars
      PROVE  UNCHANGED <<pages, reservation, entitlement, reserved, settled>>
  BY <1>6 DEF LeaseExpires, NextPeriod, vars, ledger
<1> QED
  BY <1>1, <1>2, <1>3, <1>4, <1>5, <1>6 DEF Next

LEMMA StartedStep == ASSUME TypeOK, RowsAgree, StartedFinite, [Next]_vars PROVE StartedFinite'
<1> DEFINE Started == {j \in Jobs : job[j] # "ABSENT"}
           Started2 == {j \in Jobs : job'[j] # "ABSENT"}
<1> SUFFICES IsFiniteSet(Started2)
  BY DEF StartedFinite
<1>1. ASSUME NEW j \in Jobs, \A k \in Jobs \ {j} : job'[k] = job[k] PROVE IsFiniteSet(Started2)
  <2>1. Started2 \subseteq Started \cup {j}
    BY <1>1
  <2>2. IsFiniteSet(Started \cup {j})
    BY FS_AddElement DEF StartedFinite
  <2> HIDE DEF Started, Started2
  <2> QED
    BY <2>1, <2>2, FS_Subset
<1>2. ASSUME job' = job PROVE IsFiniteSet(Started2)
  BY <1>2 DEF StartedFinite
<1>3. ASSUME NEW r \in Requests, NEW j \in Jobs, NEW n \in PageCounts,
             StartNew(r, j, n) \/ StartRetry(r, j, n) \/ StartRecovery(r, j, n)
      PROVE  \A k \in Jobs \ {j} : job'[k] = job[k]
  BY <1>3 DEF StartNew, StartRetry, StartRecovery, NewAttempt, TypeOK
<1>4. ASSUME NEW r \in Requests, Settle(r) \/ Release(r)
      PROVE  requests[r].job \in Jobs /\ \A k \in Jobs \ {requests[r].job} : job'[k] = job[k]
  <2>1. requests[r].job \in Jobs
    BY <1>4, Owner DEF Settle, Release
  <2> QED
    BY <1>4, <2>1 DEF Settle, Release, TypeOK
<1>5. ASSUME NEW r \in Requests, NEW j \in Jobs, NEW n \in PageCounts, StartReplay(r, j, n)
      PROVE  job' = job
  BY <1>5 DEF StartReplay, ledger
<1>6. ASSUME NEW r \in Requests, Extracted(r) \/ ExtractionFails(r) \/ RequestLost(r)
      PROVE  job' = job
  BY <1>6 DEF Extracted, ExtractionFails, RequestLost, ledger
<1>7. ASSUME (\E j \in Jobs : LeaseExpires(j)) \/ NextPeriod \/ UNCHANGED vars
      PROVE  job' = job
  BY <1>7 DEF LeaseExpires, NextPeriod, vars, ledger
<1> QED
  BY <1>1, <1>2, <1>3, <1>4, <1>5, <1>6, <1>7 DEF Next

-----------------------------------------------------------------------------
(* The owner of a job.                                                     *)

AtWork(r) == requests[r].pc \in {"extract", "complete", "fail"}

\* An attempt is one request's at a time ...
AttemptsApart ==
  \A r, s \in Requests :
    (AtWork(r) /\ AtWork(s) /\ r # s) => requests[r].attempt # requests[s].attempt

\* ... and the job whose attempt is at work is being processed.
OwnedIsProcessing ==
  \A r \in Requests :
    (AtWork(r) /\ requests[r].attempt = attempt[requests[r].job]) => job[requests[r].job] = "PROCESSING"

\* A request that is at work after a step was at work on the same attempt before,
\* or has just been given a fresh one.
LEMMA AtWorkBefore ==
  ASSUME TypeOK, [Next]_vars, NEW r \in Requests, AtWork(r)'
  PROVE  \/ /\ AtWork(r)
            /\ requests'[r].attempt = requests[r].attempt
            /\ requests'[r].job = requests[r].job
         \/ /\ requests'[r].attempt = attempts + 1
            /\ requests'[r].job \in Jobs
            /\ job'[requests'[r].job] = "PROCESSING"
            /\ \A s \in Requests \ {r} : requests'[s] = requests[s]
<1> DEFINE Stays == /\ AtWork(r)
                    /\ requests'[r].attempt = requests[r].attempt
                    /\ requests'[r].job = requests[r].job
<1> SUFFICES ASSUME ~Stays
             PROVE  /\ requests'[r].attempt = attempts + 1
                    /\ requests'[r].job \in Jobs
                    /\ job'[requests'[r].job] = "PROCESSING"
                    /\ \A s \in Requests \ {r} : requests'[s] = requests[s]
  OBVIOUS
<1>1. requests'[r] # requests[r]
  BY DEF AtWork
<1>2. ASSUME NEW s \in Requests, NEW j \in Jobs, NEW n \in PageCounts,
             StartNew(s, j, n) \/ StartRetry(s, j, n) \/ StartRecovery(s, j, n)
      PROVE  /\ requests'[r].attempt = attempts + 1
             /\ requests'[r].job \in Jobs
             /\ job'[requests'[r].job] = "PROCESSING"
             /\ \A q \in Requests \ {r} : requests'[q] = requests[q]
  <2>1. NewAttempt(s, j)
    BY <1>2 DEF StartNew, StartRetry, StartRecovery
  <2>2. s = r
    BY <1>1, <2>1 DEF NewAttempt, TypeOK
  <2>3. requests'[r] = [pc |-> "extract", job |-> j, attempt |-> attempts + 1]
    BY <2>1, <2>2 DEF NewAttempt, TypeOK
  <2> QED
    BY <2>1, <2>2, <2>3 DEF NewAttempt, TypeOK
<1>3. ASSUME NEW s \in Requests, NEW j \in Jobs, NEW n \in PageCounts, StartReplay(s, j, n)
      PROVE  FALSE
  <2>1. requests' = [requests EXCEPT ![s] = [pc |-> "answered", job |-> j, attempt |-> result[j]]]
    BY <1>3 DEF StartReplay
  <2> QED
    BY <1>1, <2>1 DEF AtWork, TypeOK
<1>4. ASSUME NEW s \in Requests, Extracted(s) \/ ExtractionFails(s) PROVE FALSE
  BY <1>1, <1>4 DEF Extracted, ExtractionFails, AtWork, TypeOK
<1>5. ASSUME NEW s \in Requests, Settle(s) PROVE FALSE
  BY <1>1, <1>5 DEF Settle, AtWork, TypeOK
<1>6. ASSUME NEW s \in Requests, Release(s) \/ RequestLost(s) PROVE FALSE
  <2>1. requests' = [requests EXCEPT ![s] = IdleRequest] /\ IdleRequest.pc = "idle"
    BY <1>6 DEF Release, RequestLost, Ends, IdleRequest
  <2>2. requests'[r].pc = "idle"
    BY <1>1, <2>1 DEF TypeOK
  <2> QED
    BY <2>2 DEF AtWork
<1>7. ASSUME (\E j \in Jobs : LeaseExpires(j)) \/ NextPeriod \/ UNCHANGED vars PROVE FALSE
  BY <1>1, <1>7 DEF LeaseExpires, NextPeriod, vars
<1> QED
  BY <1>2, <1>3, <1>4, <1>5, <1>6, <1>7 DEF Next

LEMMA ApartStep == ASSUME TypeOK, AttemptsApart, [Next]_vars PROVE AttemptsApart'
<1> SUFFICES ASSUME NEW r \in Requests, NEW s \in Requests, AtWork(r)', AtWork(s)', r # s,
                    requests'[r].attempt = requests'[s].attempt
             PROVE  FALSE
  BY DEF AttemptsApart, AtWork
<1>1. attempts \in Nat /\ \A q \in Requests : AtWork(q) => requests[q].attempt \in 1..attempts
  BY DEF TypeOK, AtWork
<1>2. CASE AtWork(r) /\ requests'[r].attempt = requests[r].attempt
  <2>1. requests[r].attempt # attempts + 1
    BY <1>1, <1>2
  <2>2. AtWork(s) /\ requests'[s].attempt = requests[s].attempt
    BY <1>2, <2>1, AtWorkBefore
  <2> QED
    BY <1>2, <2>2 DEF AttemptsApart
<1>3. CASE ~(AtWork(r) /\ requests'[r].attempt = requests[r].attempt)
  <2>1. requests'[r].attempt = attempts + 1 /\ requests'[s] = requests[s]
    BY <1>3, AtWorkBefore
  <2>2. AtWork(s) /\ requests[s].attempt = attempts + 1
    BY <2>1 DEF AtWork
  <2>3. requests[s].attempt \in 1..attempts
    BY <1>1, <2>2
  <2> QED
    BY <1>1, <2>2, <2>3
<1> QED
  BY <1>2, <1>3

\* What a step may do to a job that is being processed, other than by its owner.
LEMMA ProcessedKept ==
  ASSUME TypeOK, RowsAgree, [Next]_vars, NEW j \in Jobs,
         job[j] = "PROCESSING", job'[j] # "PROCESSING"
  PROVE  \E r \in Requests : /\ AtWork(r) /\ ~AtWork(r)'
                             /\ requests[r].job = j /\ requests[r].attempt = attempt[j]
<1>1. ASSUME NEW s \in Requests, NEW k \in Jobs, NEW n \in PageCounts,
             StartNew(s, k, n) \/ StartRetry(s, k, n) \/ StartRecovery(s, k, n)
      PROVE  FALSE
  BY <1>1 DEF StartNew, StartRetry, StartRecovery, NewAttempt, TypeOK
<1>2. ASSUME NEW s \in Requests, Settle(s) \/ Release(s)
      PROVE  /\ AtWork(s) /\ ~AtWork(s)'
             /\ requests[s].job = j /\ requests[s].attempt = attempt[j]
  <2>1. AtWork(s) /\ Finalizable(s) /\ requests[s].job \in Jobs
    BY <1>2 DEF Settle, Release, AtWork, TypeOK
  <2>2. requests[s].job = j
    BY <1>2, <2>1 DEF Settle, Release, TypeOK
  <2>3. requests'[s].pc \in {"answered", "idle"}
    BY <1>2 DEF Settle, Release, Ends, IdleRequest, TypeOK
  <2> QED
    BY <2>1, <2>2, <2>3 DEF Finalizable, AtWork
<1>3. ASSUME NEW s \in Requests, NEW k \in Jobs, NEW n \in PageCounts, StartReplay(s, k, n)
      PROVE  FALSE
  BY <1>3 DEF StartReplay, ledger
<1>4. ASSUME NEW s \in Requests, Extracted(s) \/ ExtractionFails(s) \/ RequestLost(s)
      PROVE  FALSE
  BY <1>4 DEF Extracted, ExtractionFails, RequestLost, ledger
<1>5. ASSUME (\E k \in Jobs : LeaseExpires(k)) \/ NextPeriod \/ UNCHANGED vars
      PROVE  FALSE
  BY <1>5 DEF LeaseExpires, NextPeriod, vars, ledger
<1> QED
  BY <1>1, <1>2, <1>3, <1>4, <1>5 DEF Next

\* An attempt is replaced only by a fresh one.
LEMMA AttemptKept ==
  ASSUME TypeOK, [Next]_vars, NEW j \in Jobs
  PROVE  attempt'[j] \in {attempt[j], attempts + 1}
<1>1. ASSUME NEW s \in Requests, NEW k \in Jobs, NEW n \in PageCounts,
             StartNew(s, k, n) \/ StartRetry(s, k, n) \/ StartRecovery(s, k, n)
      PROVE  attempt'[j] \in {attempt[j], attempts + 1}
  BY <1>1 DEF StartNew, StartRetry, StartRecovery, NewAttempt, TypeOK
<1>2. ASSUME NEW s \in Requests, NEW k \in Jobs, NEW n \in PageCounts, StartReplay(s, k, n)
      PROVE  attempt' = attempt
  BY <1>2 DEF StartReplay, ledger
<1>3. ASSUME NEW s \in Requests,
             Extracted(s) \/ ExtractionFails(s) \/ RequestLost(s) \/ Settle(s) \/ Release(s)
      PROVE  attempt' = attempt
  BY <1>3 DEF Extracted, ExtractionFails, RequestLost, Settle, Release, ledger
<1>4. ASSUME (\E k \in Jobs : LeaseExpires(k)) \/ NextPeriod \/ UNCHANGED vars
      PROVE  attempt' = attempt
  BY <1>4 DEF LeaseExpires, NextPeriod, vars, ledger
<1> QED
  BY <1>1, <1>2, <1>3, <1>4 DEF Next

LEMMA OwnedStep ==
  ASSUME TypeOK, RowsAgree, AttemptsApart, OwnedIsProcessing, [Next]_vars
  PROVE  OwnedIsProcessing'
<1> SUFFICES ASSUME NEW r \in Requests, AtWork(r)',
                    requests'[r].attempt = attempt'[requests'[r].job],
                    job'[requests'[r].job] # "PROCESSING"
             PROVE  FALSE
  BY DEF OwnedIsProcessing, AtWork
<1>1. /\ AtWork(r)
      /\ requests'[r].attempt = requests[r].attempt
      /\ requests'[r].job = requests[r].job
  BY AtWorkBefore
<1>2. requests[r].job \in Jobs /\ requests[r].attempt \in 1..attempts /\ attempts \in Nat
  BY <1>1 DEF TypeOK, AtWork
<1>3. requests[r].attempt = attempt[requests[r].job]
  <2>1. attempt'[requests[r].job] \in {attempt[requests[r].job], attempts + 1}
    BY <1>2, AttemptKept
  <2>2. requests[r].attempt # attempts + 1
    BY <1>2
  <2>3. requests[r].attempt = attempt'[requests[r].job]
    BY <1>1
  <2> QED
    BY <2>1, <2>2, <2>3
<1>4. job[requests[r].job] = "PROCESSING"
  BY <1>1, <1>3 DEF OwnedIsProcessing
<1>5. PICK s \in Requests : /\ AtWork(s) /\ ~AtWork(s)'
                            /\ requests[s].attempt = attempt[requests[r].job]
  BY <1>1, <1>2, <1>4, ProcessedKept
<1>6. s # r
  BY <1>5
<1> QED
  BY <1>1, <1>3, <1>5, <1>6 DEF AttemptsApart

\* The pages of a job that holds its reservation are among those of the counter.
LEMMA OwnerFinalizes ==
  ASSUME IInv, StartedFinite, CountersMatchReservations, OwnedIsProcessing
  PROVE  OwnerCanFinalize
<1> SUFFICES ASSUME NEW r \in Requests, AtWork(r), requests[r].attempt = attempt[requests[r].job]
             PROVE  Finalizable(r)
  BY DEF OwnerCanFinalize, AtWork
<1> DEFINE j == requests[r].job
           p == entitlement[j]
           rows == Rows(entitlement, reservation, p, "held")
<1>1. j \in Jobs /\ job[j] = "PROCESSING"
  BY DEF IInv, TypeOK, AtWork, OwnedIsProcessing
<1>2. reservation[j] = "held" /\ p \in Periods
  BY <1>1 DEF IInv, RowsAgree
<1>3. IsFiniteSet(rows) /\ j \in rows /\ rows \subseteq Jobs
  <2>1. IsFiniteSet(rows)
    BY ChargedFinite DEF IInv
  <2> QED
    BY <1>1, <1>2, <2>1 DEF Rows
<1>4. \A k \in rows : pages[k] \in Nat
  BY <1>3 DEF IInv, TypeOK
<1>5. pages[j] <= SumOver(pages, rows) /\ SumOver(pages, rows) \in Nat
  <2> HIDE DEF rows, j
  <2> QED
    BY <1>3, <1>4, SummandAtMost, SumOverType
<1>6. reserved[p] = SumOver(pages, rows)
  BY <1>2, ChargedIsSum DEF CountersMatchReservations
<1>7. pages[j] \in Nat
  BY <1>3, <1>4
<1>8. reserved[p] >= pages[j]
  <2> HIDE DEF rows, j, p
  <2> QED
    BY <1>5, <1>6, <1>7
<1> QED
  BY <1>1, <1>2, <1>8 DEF Finalizable

-----------------------------------------------------------------------------
(* Theorems.                                                               *)

\* The inductive invariant holds in every reachable state.
THEOREM Invariance == Spec => []IInv
<1>1. Init => IInv
  BY InitHolds
<1>2. IInv /\ [Next]_vars => IInv'
  BY TypeStep, RowsStep, LimitStep, AnswersStep DEF IInv
<1> QED
  BY <1>1, <1>2, PTL DEF Spec

\* The quota store is type correct; in particular no counter ever gets negative.
THEOREM TypeCorrect == Spec => []TypeOK
<1>1. IInv => TypeOK
  BY DEF IInv
<1> QED
  BY <1>1, Invariance, PTL

\* Job, reservation, result and settlement audit always agree: a job is settled
\* once, when it completes, whatever attempts, takeovers and retries there were.
THEOREM RowsAlwaysAgree == Spec => []RowsAgree
<1>1. IInv => RowsAgree
  BY DEF IInv
<1> QED
  BY <1>1, Invariance, PTL

\* No subscription period is charged beyond its limit.
THEOREM LimitRespected == Spec => []WithinLimit
<1>1. IInv => WithinLimit
  BY DEF IInv
<1> QED
  BY <1>1, Invariance, PTL

\* Every answer about a job is the one result that was paid for.
THEOREM AnswersAlwaysAgree == Spec => []AnswersAgree
<1>1. IInv => AnswersAgree
  BY DEF IInv
<1> QED
  BY <1>1, Invariance, PTL

\* No step changes a completed job, its result, or what it was charged.
THEOREM CompletedStaysFinal == Spec => CompletedIsFinal
<1>1. IInv /\ [Next]_vars => CompletedKept
  BY CompletedStep
<1>2. Spec => [][CompletedKept]_vars
  BY <1>1, Invariance, PTL DEF Spec
<1> QED
  BY <1>2 DEF CompletedIsFinal, CompletedKept

\* The late answer of a superseded attempt changes nothing.
THEOREM SupersededChangesNothing == Spec => OnlyOwnerFinalizes
<1>1. IInv /\ [Next]_vars => SupersededKept
  BY SupersededStep
<1>2. Spec => [][SupersededKept]_vars
  BY <1>1, Invariance, PTL DEF Spec
<1> QED
  BY <1>2 DEF OnlyOwnerFinalizes, SupersededKept

\* The rows and requests behind the counters: with IInv an inductive invariant.
CountersInv ==
  StartedFinite /\ CountersMatchReservations /\ AttemptsApart /\ OwnedIsProcessing

LEMMA CountersInit == Init => CountersInv
<1> SUFFICES ASSUME Init PROVE CountersInv
  OBVIOUS
<1>1. StartedFinite
  <2>1. {j \in Jobs : job[j] # "ABSENT"} = {}
    BY DEF Init
  <2> QED
    BY <2>1, FS_EmptySet DEF StartedFinite
<1>2. CountersMatchReservations
  <2>1. \A p, s : s # "none" => Rows(entitlement, reservation, p, s) = {}
    BY DEF Init, Rows
  <2>2. \A p : Charged(p, "held") = 0 /\ Charged(p, "settled") = 0
    BY <2>1, ChargedIsSum, SumOverEmpty
  <2> QED
    BY <2>2 DEF Init, CountersMatchReservations
<1>3. \A r \in Requests : ~AtWork(r)
  BY DEF Init, AtWork, IdleRequest
<1> QED
  BY <1>1, <1>2, <1>3 DEF CountersInv, AttemptsApart, OwnedIsProcessing

\* Started jobs stay finitely many, the counters match the reservations, and an
\* attempt belongs to one request, whose job is PROCESSING while it owns it.
THEOREM CountersInvariance == Spec => []CountersInv
<1>1. Init => CountersInv
  BY CountersInit
<1>2. IInv /\ IInv' /\ CountersInv /\ [Next]_vars => CountersInv'
  BY StartedStep, CountersStep, ApartStep, OwnedStep DEF CountersInv, IInv
<1> QED
  BY <1>1, <1>2, Invariance, PTL DEF Spec

\* The counters of every period are the sums of its reservations, across retries,
\* takeovers and period changes: no page is leaked and none is counted twice.
THEOREM CountersAlwaysMatch == Spec => []CountersMatchReservations
<1>1. CountersInv => CountersMatchReservations
  BY DEF CountersInv
<1> QED
  BY <1>1, CountersInvariance, PTL

\* While the request that owns a job is at work its transaction will be taken: no
\* other request, period change or counter can make it refuse.
THEOREM OwnerCanAlwaysFinalize == Spec => []OwnerCanFinalize
<1>1. IInv /\ CountersInv => OwnerCanFinalize
  BY OwnerFinalizes DEF CountersInv
<1> QED
  BY <1>1, Invariance, CountersInvariance, PTL

=============================================================================
