-------------------------- MODULE LiveQueueProofs --------------------------
(***************************************************************************)
(* Proofs about LiveSession: what the journals, the queue, the requests on *)
(* their way and the agents say of a session always fits together, for any *)
(* sessions and agents and any number of requests and faults. From that    *)
(* follow its type invariant, that late generation events never count,     *)
(* that leases are exclusive, that decisions are durable, and that what is *)
(* over stays over unless it is asked for again.                           *)
(*                                                                         *)
(* None of these is inductive as it stands. SessionInv adds, among others: *)
(* how far a session has come by what its source shows (Fits); that no     *)
(* event is queued twice and a scaffold is made of a leased generation     *)
(* only; that a lease that counts is on an entry of the queue; and that    *)
(* only finitely many sessions have begun, without which a restart could   *)
(* not line them up. Each action has its lemma; most come down to RowKeeps *)
(* (one session goes on) or OwnKeeps (one agent goes on).                  *)
(***************************************************************************)
EXTENDS LiveSessionProofs

-----------------------------------------------------------------------------
(* The shapes of the rows.                                                 *)

SnapRow ==
  [phase : Phases, pending : EventTypes \cup {"none"}, ready : BOOLEAN, canceled : BOOLEAN,
   revision : 0 .. MaxRequests]
EntryRow == [id : Sessions, type : EventTypes, ready : BOOLEAN, leased : BOOLEAN]
PreflightRow == [id : Sessions, agent : Agents]
RequestRow ==
  [kind : {"checkpoint", "orphan"} \cup EventTypes, id : Sessions, phase : Phases \cup {"none"},
   revision : 0 .. MaxRequests]
AgentAt == {"idle", "waiting", "work", "apply", "lock", "edit", "record", "report", "merge", "cleanup"}
Results == {"none", "complete", "carbonize", "handoff", "discarded", "error"}
AgentRow(start) ==
  [at : AgentAt, id : Sessions \cup {Nobody}, type : EventTypes \cup {"none"}, result : Results,
   epoch : 0 .. start, held : BOOLEAN]

\* The type invariant, by these rows.
Typed ==
  /\ snap \in [Sessions -> SnapRow]
  /\ source \in [Sessions -> {"plain", "wrapped", "accepted", "restored"}]
  /\ receipt \in [Sessions -> {"none", "complete", "carbonize", "discarded"}]
  /\ up \in BOOLEAN /\ epoch \in 1 .. (MaxFaults + 1)
  /\ queue \in Seq(EntryRow)
  /\ preflight \subseteq PreflightRow
  /\ wire \subseteq RequestRow
  /\ sent \in [Sessions -> 0 .. MaxRequests]
  /\ agent \in [Agents -> AgentRow(epoch)]
  /\ faults \in 0 .. MaxFaults /\ handed \subseteq Sessions

\* The rows put together are the type invariant.
LEMMA TypedIsTypeOK == Typed <=> TypeOK
BY DEF Typed, TypeOK, SnapRow, EntryRow, PreflightRow, RequestRow, AgentRow, AgentAt, Results

\* The server has started once, and once more after every stop.
EpochBound == epoch <= IF up THEN faults + 1 ELSE faults

\* How far a session has come on disk, by what its source shows.
Fits(r, src) ==
  /\ r.phase = "new" => ~r.ready /\ ~r.canceled /\ r.pending = "none"
  /\ src # "plain" => r.ready
  /\ r.canceled => src # "plain" /\ r.phase \notin ReviewPhases
  /\ r.phase = "completed" => src \in Decided
  /\ r.phase = "discarded" => src # "plain"
  /\ r.pending \in Decisions => r.canceled /\ r.phase \notin CompletedPhases

SessionsFit ==
  \A s \in Sessions : Fits(snap[s], source[s]) /\ (sent[s] = 0 => snap[s].phase = "new")

\* What waits for an agent belongs to a session that has begun.
EntryFits(e, r, src) ==
  /\ r.phase # "new"
  /\ IF e.type = "generate" THEN e.ready = r.ready ELSE e.ready
  /\ e.type \in Decisions => src # "plain"

QueueFits == Distinct(queue) /\ \A e \in Entries(queue) : EntryFits(e, snap[e.id], source[e.id])

\* Only one scaffold is under way for a session, of an event that is leased.
PreflightFits ==
  /\ \A p \in preflight :
       /\ snap[p.id].phase # "new" /\ ~snap[p.id].ready
       /\ \A e \in Entries(queue) : IsGeneration(e, p.id) => e.leased
  /\ \A p, q \in preflight : p.id = q.id => p = q

\* What a request on its way says of its session.
RequestFits(m, r, src) ==
  /\ m.kind = "generate" => r.phase = "new" /\ m.phase = "none" /\ m.revision = 0
  /\ m.kind = "checkpoint" => m.phase \in ReviewPhases
  /\ m.kind \in Decisions \cup {"variant_mount_failed", "orphan"} => src # "plain"
  /\ m.kind = "orphan" => src \in Decided

WireFits == \A m \in wire : sent[m.id] # 0 /\ RequestFits(m, snap[m.id], source[m.id])

\* What an agent that is not idle is at.
RowFits(g) ==
  g.at # "idle" =>
    /\ g.id \in Sessions /\ g.type \in EventTypes
    /\ g.at \in {"apply", "lock", "edit", "record", "report", "merge", "cleanup"} => g.type \in Decisions
    /\ g.at = "record" => g.result \in {"complete", "carbonize", "discarded"}
    /\ g.at = "report" => g.result # "none" /\ (g.result = "handoff" => g.type = "accept")

\* What its session has come to.
Knows(g, r, src) ==
  g.at # "idle" =>
    /\ r.phase # "new"
    /\ g.at = "work" /\ g.type = "generate" => r.ready
    /\ g.type \in Decisions => src # "plain"
    /\ g.at = "report" /\ g.result \in {"complete", "carbonize"} => src \in Decided

AgentsFit == \A a \in Agents : RowFits(agent[a]) /\ Knows(agent[a], snap[agent[a].id], source[agent[a].id])

\* A lease that counts is on an entry of the queue.
LeasesFit ==
  /\ \A a \in Agents : agent[a].held =>
       up /\ \E e \in Entries(queue) : e.id = agent[a].id /\ e.type = agent[a].type /\ e.leased
  /\ ~up => preflight = {}

Begun == {s \in Sessions : snap[s].phase # "new"}

\* The inductive invariant.
SessionInv ==
  /\ Typed /\ EpochBound /\ SessionsFit /\ QueueFits /\ PreflightFits /\ WireFits
  /\ AgentsFit /\ LeasesFit /\ LeaseIsExclusive /\ DecisionDurable /\ IsFiniteSet(Begun)

-----------------------------------------------------------------------------
(* What the journal makes of a session.                                    *)

\* A session that has begun goes on: what was ready or decided stays so.
Goes(r, r1) ==
  /\ r1 \in SnapRow /\ r1.phase # "new" /\ r1.ready = r.ready
  /\ r.canceled => r1.canceled

\* How the lists of phases lie to each other.
LEMMA Phasing ==
  /\ FencedPhases \cup ReviewPhases \cup {"agent_error"} \subseteq Phases
  /\ CompletedPhases \subseteq FencedPhases
  /\ FencedPhases \cap ReviewPhases = {} /\ "new" \notin FencedPhases \cup ReviewPhases
  /\ {"accept_requested", "discard_requested", "carbonize_required"} \subseteq FencedPhases \ CompletedPhases
  /\ "agent_error" \notin FencedPhases \cup ReviewPhases
  /\ {"generate_requested", "variants_ready"} \subseteq ReviewPhases
BY DEF FencedPhases, ReviewPhases, CompletedPhases, Phases

\* A generation that is journaled, first or scaffolded, makes a row that fits.
LEMMA GenerateFits ==
  ASSUME NEW r \in SnapRow, NEW src, NEW ready \in BOOLEAN, ~r.canceled, src # "plain" => ready
  PROVE  /\ ApplyGenerate(r, ready) \in SnapRow /\ Fits(ApplyGenerate(r, ready), src)
         /\ ApplyGenerate(r, ready).phase # "new" /\ ApplyGenerate(r, ready).ready = ready
         /\ ~ApplyGenerate(r, ready).canceled
<1> DEFINE r1 == ApplyGenerate(r, ready)
<1>1. /\ r1 \in SnapRow /\ r1.phase = "generate_requested" /\ r1.pending = "generate"
      /\ r1.ready = ready /\ r1.canceled = r.canceled
  BY Phasing DEF ApplyGenerate, SnapRow, EventTypes
<1> HIDE DEF r1
<1>2. Fits(r1, src) /\ r1.phase # "new"
  BY <1>1, Phasing DEF Fits, Decisions
<1> QED
  BY <1>1, <1>2 DEF r1

\* Progress is taken of an open session only.
LEMMA CheckpointFits ==
  ASSUME NEW r \in SnapRow, NEW src, Fits(r, src), r.phase # "new",
         NEW phase \in ReviewPhases, NEW revision \in 0 .. MaxRequests
  PROVE  /\ Fits(ApplyCheckpoint(r, phase, revision), src)
         /\ Goes(r, ApplyCheckpoint(r, phase, revision))
         /\ r.canceled \/ r.phase \in CompletedPhases => ApplyCheckpoint(r, phase, revision) = r
<1> DEFINE r1 == ApplyCheckpoint(r, phase, revision)
<1>1. CASE r1 = r
  BY <1>1 DEF Goes
<1>2. CASE r1 # r
  <2>1. /\ r1 \in SnapRow /\ r1.phase = phase /\ r1.pending = r.pending /\ r1.ready = r.ready
        /\ r1.canceled = r.canceled /\ ~r.canceled /\ r.phase \notin CompletedPhases
    BY <1>2, Phasing DEF ApplyCheckpoint, SnapRow, Closed
  <2> HIDE DEF r1
  <2>2. Fits(r1, src) /\ Goes(r, r1)
    <3>1. phase \notin CompletedPhases \cup {"new"}
      BY Phasing
    <3>2. phase \notin {"completed", "discarded"}
      BY <3>1 DEF CompletedPhases
    <3> QED
      BY <2>1, <3>1, <3>2 DEF Fits, Goes
  <2> QED
    BY <2>1, <2>2 DEF r1
<1> QED
  BY <1>1, <1>2

\* A decision is pending once it is journaled.
LEMMA DecisionFits ==
  ASSUME NEW r \in SnapRow, NEW src, Fits(r, src), NEW type \in Decisions, src # "plain"
  PROVE  /\ Fits(ApplyDecision(r, type), src) /\ Goes(r, ApplyDecision(r, type))
         /\ ApplyDecision(r, type).pending = type /\ ApplyDecision(r, type).canceled
<1> DEFINE r1 == ApplyDecision(r, type)
<1>1. /\ r1 \in SnapRow /\ r1.phase \in {"accept_requested", "discard_requested"} /\ r1.pending = type
      /\ r1.ready = r.ready /\ r1.canceled
  BY Phasing DEF ApplyDecision, SnapRow, EventTypes
<1> HIDE DEF r1
<1>2. Fits(r1, src) /\ Goes(r, r1)
  BY <1>1, Phasing DEF Fits, Goes
<1> QED
  BY <1>1, <1>2 DEF r1

\* A session may end once its source is decided; a discard that was given up, before that.
LEMMA EndFits ==
  ASSUME NEW r \in SnapRow, NEW src, Fits(r, src), NEW phase \in CompletedPhases,
         phase = "completed" => src \in Decided, src # "plain"
  PROVE  /\ Fits(ApplyEnd(r, phase), src) /\ Goes(r, ApplyEnd(r, phase))
         /\ ApplyEnd(r, phase).phase = phase
<1> DEFINE r1 == ApplyEnd(r, phase)
<1>1. /\ r1 \in SnapRow /\ r1.phase = phase /\ r1.pending = "none"
      /\ r1.ready = r.ready /\ r1.canceled = r.canceled
  BY Phasing DEF ApplyEnd, SnapRow
<1> HIDE DEF r1
<1>2. Fits(r1, src) /\ Goes(r, r1)
  <2>1. phase \in FencedPhases /\ phase \notin ReviewPhases /\ phase # "new"
    BY Phasing
  <2>2. phase \in {"completed", "discarded"} /\ "none" \notin Decisions
    BY DEF CompletedPhases, Decisions
  <2> QED
    BY <1>1, <2>1, <2>2 DEF Fits, Goes
<1> QED
  BY <1>1, <1>2 DEF r1

\* A discard of what is already decided ends the session at once.
LEMMA OrphanFits ==
  ASSUME NEW r \in SnapRow, NEW src, Fits(r, src), src \in Decided
  PROVE  /\ Fits(ApplyEnd(ApplyDecision(r, "discard"), "discarded"), src)
         /\ Goes(r, ApplyEnd(ApplyDecision(r, "discard"), "discarded"))
         /\ ApplyEnd(ApplyDecision(r, "discard"), "discarded").phase \in CompletedPhases
<1>1. "discard" \in Decisions /\ src # "plain" /\ "discarded" \in CompletedPhases
  BY DEF Decisions, Decided, CompletedPhases
<1>2. Fits(ApplyDecision(r, "discard"), src) /\ Goes(r, ApplyDecision(r, "discard"))
  BY <1>1, DecisionFits
<1> QED
  BY <1>1, <1>2, EndFits DEF Goes

\* A variant that cannot be shown displaces nothing that is pending.
LEMMA MountFits ==
  ASSUME NEW r \in SnapRow, NEW src, Fits(r, src), src # "plain"
  PROVE  /\ Fits(ApplyMountFailed(r), src) /\ Goes(r, ApplyMountFailed(r))
         /\ ApplyMountFailed(r).phase = r.phase /\ ApplyMountFailed(r).canceled = r.canceled
         /\ r.pending # "none" => ApplyMountFailed(r).pending = r.pending
<1> DEFINE r1 == ApplyMountFailed(r)
<1>1. /\ r1 \in SnapRow /\ r1.phase = r.phase /\ r1.ready = r.ready /\ r1.canceled = r.canceled
      /\ r1.pending = IF r.pending = "none" THEN "variant_mount_failed" ELSE r.pending
  BY DEF ApplyMountFailed, SnapRow, EventTypes
<1>2. r.phase # "new"
  BY DEF Fits
<1> HIDE DEF r1
<1>3. Fits(r1, src) /\ Goes(r, r1)
  BY <1>1, <1>2 DEF Fits, Goes, Decisions
<1> QED
  BY <1>1, <1>3 DEF r1

\* A session is completed, and its variants are cleaned up after, once its source is decided.
Replies == {"complete", "discarded", "carbonize", "handoff", "done", "error"}
MayReply(kind, src) ==
  /\ kind \in Replies
  /\ kind \in {"complete", "carbonize"} => src \in Decided
  /\ kind = "discarded" => src # "plain"

\* What a reply makes of a row that fits, fits.
LEMMA ReplyFits ==
  ASSUME NEW r \in SnapRow, NEW src, Fits(r, src), r.phase # "new", NEW kind, MayReply(kind, src),
         NEW acknowledged
  PROVE  /\ Fits(ApplyReply(r, kind, acknowledged), src)
         /\ Goes(r, ApplyReply(r, kind, acknowledged))
<1> DEFINE r1 == ApplyReply(r, kind, acknowledged)
<1>1. CASE kind \in {"complete", "discarded"}
  BY <1>1, EndFits DEF ApplyReply, MayReply, CompletedPhases, Decided
<1>2. CASE r1 = r
  BY <1>2 DEF Goes
<1>3. CASE kind = "error" /\ r1 # r
  <2>1. r1 = [r EXCEPT !.phase = "agent_error", !.pending = "none"]
    BY <1>3 DEF ApplyReply, ApplyAgentError
  <2>2. /\ r1 \in SnapRow /\ r1.phase = "agent_error" /\ r1.pending = "none"
        /\ r1.ready = r.ready /\ r1.canceled = r.canceled
    BY <2>1, Phasing DEF SnapRow
  <2> HIDE DEF r1
  <2>3. Fits(r1, src) /\ Goes(r, r1)
    BY <2>2, Phasing DEF Fits, Goes, Decisions
  <2> QED
    BY <2>3 DEF r1
<1>4. CASE kind \in {"carbonize", "done", "handoff"} /\ r1 # r
  <2> DEFINE phase == IF kind = "carbonize" THEN "carbonize_required" ELSE "variants_ready"
  <2>1. /\ r1 = [r EXCEPT !.phase = phase, !.pending = "none"]
        /\ Closed(r) => kind = "carbonize" /\ r.phase = "accept_requested"
    BY <1>4 DEF ApplyReply, ApplyAgentDone
  <2>2. /\ r1 \in SnapRow /\ r1.phase = phase /\ r1.pending = "none"
        /\ r1.ready = r.ready /\ r1.canceled = r.canceled
    BY <2>1, Phasing DEF SnapRow
  <2>3. r1.canceled => phase = "carbonize_required"
    BY <2>1, <2>2 DEF Closed
  <2> HIDE DEF r1
  <2>4. Fits(r1, src) /\ Goes(r, r1)
    BY <1>4, <2>2, <2>3, Phasing DEF Fits, Goes, Decisions, MayReply
  <2> QED
    BY <2>4 DEF r1
<1> QED
  BY <1>1, <1>2, <1>3, <1>4 DEF MayReply, Replies

\* A reply that leaves a decision undone: the session has failed, or nothing has changed.
LEMMA ReplyUndecided ==
  ASSUME NEW r \in SnapRow, NEW src, src \notin Decided, NEW kind, MayReply(kind, src), NEW acknowledged,
         r.canceled
  PROVE  \/ ApplyReply(r, kind, acknowledged).phase \in {"agent_error", "discarded"}
         \/ /\ ApplyReply(r, kind, acknowledged) = r
            /\ kind \in {"done", "handoff"} \/ acknowledged = "generate"
<1>1. kind \in {"done", "handoff", "error", "discarded"}
  BY DEF MayReply, Replies
<1>2. CASE kind \in {"done", "handoff"}
  BY <1>2 DEF ApplyReply, ApplyAgentDone, Closed
<1>3. CASE kind = "error"
  BY <1>3 DEF ApplyReply, ApplyAgentError, SnapRow
<1>4. CASE kind = "discarded"
  BY <1>4 DEF ApplyReply, ApplyEnd, SnapRow
<1> QED
  BY <1>1, <1>2, <1>3, <1>4

\* A reply decides nothing.
LEMMA ReplyCancels ==
  ASSUME NEW r \in SnapRow, NEW kind \in Replies, NEW acknowledged
  PROVE  ApplyReply(r, kind, acknowledged).canceled = r.canceled
BY DEF ApplyReply, ApplyEnd, ApplyAgentDone, ApplyAgentError, SnapRow, Replies

\* A session that is over stays over, but for a failure.
LEMMA ReplyOver ==
  ASSUME NEW r \in SnapRow, r.phase \in CompletedPhases, NEW kind \in Replies, NEW acknowledged
  PROVE  \/ ApplyReply(r, kind, acknowledged).phase \in CompletedPhases
         \/ ApplyReply(r, kind, acknowledged).phase = "agent_error"
<1>1. CASE kind \in {"complete", "discarded"}
  BY <1>1 DEF ApplyReply, ApplyEnd, SnapRow, CompletedPhases
<1>2. CASE kind = "error"
  BY <1>2 DEF ApplyReply, ApplyAgentError, SnapRow
<1>3. CASE kind \in {"carbonize", "done", "handoff"}
  <2>1. Closed(r) /\ r.phase # "accept_requested"
    BY Phasing DEF Closed
  <2> QED
    BY <1>3, <2>1 DEF ApplyReply, ApplyAgentDone
<1> QED
  BY <1>1, <1>2, <1>3 DEF Replies

-----------------------------------------------------------------------------
(* What most steps keep.                                                   *)

\* What is known of a session stays true.
Onward ==
  \A s \in Sessions :
    /\ snap[s].phase # "new" => snap'[s].phase # "new"
    /\ snap[s].ready => snap'[s].ready
    /\ source[s] # "plain" => source'[s] # "plain"
    /\ source[s] \in Decided => source'[s] \in Decided

\* No scaffold gets ready either.
Calm == Onward /\ \A s \in Sessions : snap[s].phase # "new" => snap'[s].ready = snap[s].ready

\* And no session begins.
Quiet == Calm /\ \A s \in Sessions : snap[s].phase = "new" => snap'[s].phase = "new"

\* A step keeps what OverUnlessAsked says.
Over ==
  \A s \in Sessions :
    snap[s].phase \in CompletedPhases /\ snap'[s].phase \notin CompletedPhases =>
      \/ \E m \in wire \ wire' : m.id = s /\ m.kind \in Decisions
      \/ snap'[s].phase = "agent_error" /\ Len(queue') < Len(queue)

\* One row of the journals changes.
LEMMA OneSession ==
  ASSUME NEW s \in Sessions, snap \in [Sessions -> SnapRow], NEW r \in SnapRow,
         snap' = [snap EXCEPT ![s] = r]
  PROVE  /\ snap' \in [Sessions -> SnapRow] /\ snap'[s] = r
         /\ \A t \in Sessions : t # s => snap'[t] = snap[t]
OBVIOUS

\* One session goes on, and its source stays.
LEMMA GoesOn ==
  ASSUME NEW s \in Sessions, snap \in [Sessions -> SnapRow], NEW r \in SnapRow,
         snap' = [snap EXCEPT ![s] = r], snap[s].phase # "new", Goes(snap[s], r), UNCHANGED source
  PROVE  Quiet
<1>1. snap'[s] = r /\ \A t \in Sessions : t # s => snap'[t] = snap[t]
  BY OneSession
<1> QED
  BY <1>1 DEF Quiet, Calm, Onward, Goes

\* Nothing that is known of any session changes.
LEMMA Stays ==
  ASSUME UNCHANGED <<snap, source>>
  PROVE  Quiet
BY DEF Quiet, Calm, Onward

\* Only one session is touched: the rows of all are as they must be.
LEMMA SessionsGoOn ==
  ASSUME NEW s \in Sessions, snap \in [Sessions -> SnapRow], NEW r \in SnapRow, SessionsFit,
         snap' = [snap EXCEPT ![s] = r], Fits(r, source[s]), UNCHANGED source,
         r.phase = "new" \/ sent[s] # 0, UNCHANGED sent
  PROVE  SessionsFit'
<1>1. snap'[s] = r /\ \A t \in Sessions : t # s => snap'[t] = snap[t]
  BY OneSession
<1> QED
  BY <1>1 DEF SessionsFit

\* At most one session begins at a step.
LEMMA BegunGrows ==
  ASSUME NEW s \in Sessions, IsFiniteSet(Begun), NEW r,
         snap' = [snap EXCEPT ![s] = r], snap \in [Sessions -> SnapRow]
  PROVE  IsFiniteSet(Begun)'
<1>1. Begun' \subseteq Begun \cup {s}
  BY DEF Begun
<1>2. IsFiniteSet(Begun \cup {s})
  BY FS_AddElement
<1> QED
  BY <1>1, <1>2, FS_Subset

\* An agent goes on with what it was at.
SameWork(g, h) == h.at = g.at /\ h.id = g.id /\ h.type = g.type /\ h.result = g.result

\* Agents are idle, at what they were at, or at something that fits.
LEMMA AgentsGoOn ==
  ASSUME AgentsFit, Onward,
         \A a \in Agents :
           \/ agent'[a].at = "idle"
           \/ SameWork(agent[a], agent'[a])
           \/ RowFits(agent'[a]) /\ Knows(agent'[a], snap'[agent'[a].id], source'[agent'[a].id])
  PROVE  AgentsFit'
<1> SUFFICES ASSUME NEW a \in Agents
             PROVE  RowFits(agent'[a]) /\ Knows(agent'[a], snap'[agent'[a].id], source'[agent'[a].id])
  BY DEF AgentsFit
<1>1. CASE agent'[a].at = "idle"
  BY <1>1 DEF RowFits, Knows
<1>2. CASE SameWork(agent[a], agent'[a])
  <2>1. RowFits(agent[a]) /\ Knows(agent[a], snap[agent[a].id], source[agent[a].id])
    BY DEF AgentsFit
  <2>2. RowFits(agent'[a])
    BY <1>2, <2>1 DEF RowFits, SameWork
  <2>3. Knows(agent'[a], snap'[agent'[a].id], source'[agent'[a].id])
    BY <1>2, <2>1 DEF RowFits, SameWork, Knows, Onward
  <2> QED
    BY <2>2, <2>3
<1> QED
  BY <1>1, <1>2

\* The leases that count are among those that counted.
Loosened ==
  \A a \in Agents : agent'[a].held =>
    agent[a].held /\ agent'[a].id = agent[a].id /\ agent'[a].type = agent[a].type

\* No lease is shared that was not.
LEMMA LeasesLoosen ==
  ASSUME LeaseIsExclusive, Loosened
  PROVE  LeaseIsExclusive'
BY DEF LeaseIsExclusive, Loosened

\* Every lease that still counts keeps its entry.
LEMMA LeasesKept ==
  ASSUME LeasesFit, Loosened, UNCHANGED up, preflight' \subseteq preflight,
         \A e \in Entries(queue), a \in Agents :
           agent'[a].held /\ e.id = agent[a].id /\ e.type = agent[a].type /\ e.leased =>
             \E f \in Entries(queue') : f.id = e.id /\ f.type = e.type /\ f.leased
  PROVE  LeasesFit'
<1>1. ASSUME NEW a \in Agents, agent'[a].held
      PROVE  up' /\ \E e \in Entries(queue') : e.id = agent'[a].id /\ e.type = agent'[a].type /\ e.leased
  BY <1>1 DEF LeasesFit, Loosened
<1> QED
  BY <1>1 DEF LeasesFit

\* Entries stay as they are but for their lease, or fit anew.
LEMMA QueueKept ==
  ASSUME QueueFits, Calm, queue \in Seq(EntryRow), Distinct(queue'),
         \A e \in Entries(queue') :
           \/ \E f \in Entries(queue) : e.id = f.id /\ e.type = f.type /\ e.ready = f.ready
           \/ EntryFits(e, snap'[e.id], source'[e.id])
  PROVE  QueueFits'
<1> SUFFICES ASSUME NEW e \in Entries(queue')
             PROVE  EntryFits(e, snap'[e.id], source'[e.id])
  BY DEF QueueFits
<1>1. ASSUME NEW f \in Entries(queue), e.id = f.id, e.type = f.type, e.ready = f.ready
      PROVE  EntryFits(e, snap'[e.id], source'[e.id])
  <2>1. f \in EntryRow
    BY ElementOfSeq DEF Entries
  <2>2. EntryFits(f, snap[f.id], source[f.id]) /\ f.id \in Sessions
    BY <2>1 DEF QueueFits, EntryRow
  <2> QED
    BY <1>1, <2>2 DEF EntryFits, Calm, Onward
<1> QED
  BY <1>1

\* No free generation appears under a scaffold that is being made.
LEMMA PreflightKept ==
  ASSUME PreflightFits, Calm, preflight \subseteq PreflightRow, preflight' \subseteq preflight,
         \A e \in Entries(queue') : e.type = "generate" =>
           \/ e.leased
           \/ e \in Entries(queue)
           \/ \A p \in preflight : p.id # e.id
  PROVE  PreflightFits'
<1>1. ASSUME NEW p \in preflight'
      PROVE  /\ snap'[p.id].phase # "new" /\ ~snap'[p.id].ready
             /\ \A e \in Entries(queue') : IsGeneration(e, p.id) => e.leased
  <2>1. p \in preflight /\ p.id \in Sessions
    BY DEF PreflightRow
  <2> QED
    BY <2>1 DEF PreflightFits, Calm, Onward, IsGeneration
<1> QED
  BY <1>1 DEF PreflightFits

\* The requests on their way stay, or fit anew.
LEMMA WireKept ==
  ASSUME WireFits, Onward, wire \subseteq RequestRow,
         \A s \in Sessions : sent[s] # 0 => sent'[s] # 0,
         \A m \in wire' :
           \/ /\ m \in wire
              /\ m.kind = "generate" => snap'[m.id].phase = "new"
           \/ sent'[m.id] # 0 /\ RequestFits(m, snap'[m.id], source'[m.id])
  PROVE  WireFits'
<1> SUFFICES ASSUME NEW m \in wire'
             PROVE  sent'[m.id] # 0 /\ RequestFits(m, snap'[m.id], source'[m.id])
  BY DEF WireFits
<1>1. CASE m \in wire /\ (m.kind = "generate" => snap'[m.id].phase = "new")
  <2>1. m.id \in Sessions /\ sent[m.id] # 0 /\ RequestFits(m, snap[m.id], source[m.id])
    BY <1>1 DEF WireFits, RequestRow
  <2> QED
    BY <1>1, <2>1 DEF RequestFits, Onward
<1> QED
  BY <1>1

\* What every step has to show.
Kept == SessionInv' /\ Over

\* What is queued, by entries.
LEMMA QueuedIs ==
  ASSUME NEW s, NEW type
  PROVE  Queued(s, type) <=> \E e \in Entries(queue) : e.id = s /\ e.type = type
BY DEF Queued, Entries

\* A decision stays pending, and queued or left to an agent, or is made so.
LEMMA DurableKept ==
  ASSUME DecisionDurable,
         \A s \in Sessions :
           snap'[s].canceled /\ source'[s] = "wrapped" /\ snap'[s].phase \notin {"agent_error", "discarded"} =>
             \/ /\ snap[s].canceled /\ source[s] = "wrapped"
                /\ snap[s].phase \notin {"agent_error", "discarded"}
                /\ snap'[s].pending = snap[s].pending
                /\ up' => up /\ (s \in handed => s \in handed')
                /\ up' => \A e \in Entries(queue) : e.id = s /\ e.type \in Decisions =>
                            \/ \E f \in Entries(queue') : f.id = e.id /\ f.type = e.type
                            \/ (e.type = "accept" /\ s \in handed')
             \/ /\ snap'[s].pending \in Decisions
                /\ up' => \E f \in Entries(queue') : f.id = s /\ f.type = snap'[s].pending
  PROVE  DecisionDurable'
<1>1. ASSUME NEW s \in Sessions, snap'[s].canceled, source'[s] = "wrapped",
             snap'[s].phase \notin {"agent_error", "discarded"}
      PROVE  /\ snap'[s].pending \in Decisions
             /\ up' => \/ \E f \in Entries(queue') : f.id = s /\ f.type = snap'[s].pending
                      \/ (snap'[s].pending = "accept" /\ s \in handed')
  <2>1. CASE /\ snap'[s].pending \in Decisions
             /\ up' => \E f \in Entries(queue') : f.id = s /\ f.type = snap'[s].pending
    BY <2>1
  <2>2. CASE /\ snap[s].canceled /\ source[s] = "wrapped"
             /\ snap[s].phase \notin {"agent_error", "discarded"}
             /\ snap'[s].pending = snap[s].pending
             /\ up' => up /\ (s \in handed => s \in handed')
             /\ up' => \A e \in Entries(queue) : e.id = s /\ e.type \in Decisions =>
                         \/ \E f \in Entries(queue') : f.id = e.id /\ f.type = e.type
                         \/ (e.type = "accept" /\ s \in handed')
    <3>1. /\ snap[s].pending \in Decisions
          /\ up => Queued(s, snap[s].pending) \/ (snap[s].pending = "accept" /\ s \in handed)
      BY <2>2 DEF DecisionDurable, Failed
    <3>2. Queued(s, snap[s].pending) => \E e \in Entries(queue) : e.id = s /\ e.type = snap[s].pending
      BY QueuedIs
    <3> QED
      BY <2>2, <3>1, <3>2
  <2> QED
    BY <1>1, <2>1, <2>2
<1> QED
  BY <1>1 DEF DecisionDurable, Queued, Entries, Failed

-----------------------------------------------------------------------------
(* The page.                                                               *)

\* Requests leave that fit their session.
LEMMA SendKeeps ==
  ASSUME SessionInv, NEW s \in Sessions, NEW requests \in SUBSET RequestRow,
         \A m \in requests : m.id = s /\ RequestFits(m, snap[s], source[s]),
         Send(s, requests)
  PROVE  Kept
<1> USE DEF disk, server, browser
<1>1. /\ sent[s] \in 0 .. MaxRequests /\ sent[s] < MaxRequests /\ MaxRequests \in Nat
      /\ sent' = [sent EXCEPT ![s] = @ + 1] /\ wire' = wire \cup requests
      /\ UNCHANGED <<snap, source, receipt, up, epoch, queue, preflight, agent, faults, handed>>
  BY BoundsAssumption DEF Send, SessionInv, Typed
<1>2. /\ sent' \in [Sessions -> 0 .. MaxRequests] /\ sent'[s] # 0
      /\ \A t \in Sessions : (sent[t] # 0 => sent'[t] # 0) /\ (sent'[t] = 0 => sent[t] = 0)
  <2>1. sent[s] + 1 \in 0 .. MaxRequests /\ sent[s] + 1 # 0
    BY <1>1
  <2>2. sent \in [Sessions -> 0 .. MaxRequests]
    BY DEF SessionInv, Typed
  <2> HIDE DEF SessionInv
  <2> QED
    BY <1>1, <2>1, <2>2
<1>3. Typed' /\ EpochBound'
  BY <1>1, <1>2 DEF SessionInv, Typed, EpochBound
<1>4. SessionsFit'
  BY <1>1, <1>2 DEF SessionInv, SessionsFit
<1>5. QueueFits' /\ PreflightFits' /\ AgentsFit' /\ LeasesFit' /\ LeaseIsExclusive'
  BY <1>1 DEF SessionInv, QueueFits, PreflightFits, AgentsFit, LeasesFit, LeaseIsExclusive
<1>6. Quiet
  BY <1>1, Stays
<1>7. WireFits'
  <2>1. \A m \in wire : m.id \in Sessions
    BY DEF SessionInv, Typed, RequestRow
  <2>2. \A m \in wire' :
           \/ /\ m \in wire
              /\ m.kind = "generate" => snap'[m.id].phase = "new"
           \/ sent'[m.id] # 0 /\ RequestFits(m, snap'[m.id], source'[m.id])
    BY <1>1, <1>2 DEF SessionInv, WireFits, RequestFits
  <2> QED
    BY <1>2, <1>6, <2>2, WireKept DEF SessionInv, Quiet, Calm, Typed
<1>8. DecisionDurable' /\ IsFiniteSet(Begun)'
  BY <1>1 DEF SessionInv, DecisionDurable, Failed, Queued, Begun
<1>9. Over
  BY <1>1 DEF Over
<1> QED
  BY <1>3, <1>4, <1>5, <1>7, <1>8, <1>9 DEF Kept, SessionInv

\* Go, a checkpoint, a decision, a report of an orphan.
LEMMA PageKeeps ==
  ASSUME SessionInv, NEW s \in Sessions, PageStep(s)
  PROVE  Kept
<1>1. /\ \A kind \in {"orphan"} \cup EventTypes :
           /\ Request(kind, s) \in RequestRow /\ Request(kind, s).kind = kind /\ Request(kind, s).id = s
           /\ Request(kind, s).phase = "none" /\ Request(kind, s).revision = 0
  BY BoundsAssumption DEF Request, RequestRow
<1>2. ASSUME NEW phase \in ReviewPhases, sent[s] < MaxRequests
      PROVE  /\ Checkpoint(s, phase) \in RequestRow /\ Checkpoint(s, phase).id = s
             /\ Checkpoint(s, phase).kind = "checkpoint" /\ Checkpoint(s, phase).phase = phase
  <2>1. sent[s] + 1 \in 0 .. MaxRequests
    BY <1>2, BoundsAssumption DEF SessionInv, Typed
  <2>2. phase \in Phases
    BY Phasing
  <2> QED
    BY <2>1, <2>2 DEF Checkpoint, RequestRow
<1>3. {"generating", "cycling", "saving"} \subseteq ReviewPhases
  BY DEF ReviewPhases
<1>4. CASE Go(s)
  <2>1. sent[s] < MaxRequests /\ snap[s].phase = "new"
    BY <1>4 DEF Go, Send, SessionInv, SessionsFit
  <2> DEFINE g == Request("generate", s)
             c == Checkpoint(s, "generating")
  <2>2. g \in RequestRow /\ g.kind = "generate" /\ g.id = s /\ g.phase = "none" /\ g.revision = 0
    BY <1>1 DEF EventTypes
  <2>3. c \in RequestRow /\ c.kind = "checkpoint" /\ c.id = s /\ c.phase \in ReviewPhases
    BY <1>2, <1>3, <2>1
  <2>4. Send(s, {g, c})
    BY <1>4 DEF Go
  <2> HIDE DEF g, c
  <2>5. \A m \in {g, c} : m.id = s /\ RequestFits(m, snap[s], source[s])
    BY <2>1, <2>2, <2>3 DEF RequestFits, Decisions
  <2> QED
    BY <2>2, <2>3, <2>4, <2>5, SendKeeps
<1>5. CASE SendCheckpoint(s)
  <2>1. PICK phase \in {"generating", "cycling", "saving"} : Send(s, {Checkpoint(s, phase)})
    BY <1>5 DEF SendCheckpoint
  <2>2. sent[s] < MaxRequests
    BY <2>1 DEF Send
  <2> DEFINE c == Checkpoint(s, phase)
  <2>3. c \in RequestRow /\ c.kind = "checkpoint" /\ c.id = s /\ c.phase \in ReviewPhases
    BY <1>2, <1>3, <2>2
  <2>4. Send(s, {c})
    BY <2>1
  <2> HIDE DEF c
  <2>5. RequestFits(c, snap[s], source[s])
    BY <2>3 DEF RequestFits, Decisions
  <2> QED
    BY <2>3, <2>4, <2>5, SendKeeps
<1>6. CASE Decide(s) \/ ReportOrphan(s)
  <2>1. PICK kind \in Decisions \cup {"variant_mount_failed", "orphan"} :
          /\ Send(s, {Request(kind, s)}) /\ source[s] # "plain"
          /\ kind = "orphan" => source[s] \in Decided
    BY <1>6 DEF Decide, ReportOrphan, Decided, Decisions
  <2> DEFINE c == Request(kind, s)
  <2>2. c \in RequestRow /\ c.kind = kind /\ c.id = s
    BY <1>1, <2>1 DEF EventTypes
  <2>3. Send(s, {c})
    BY <2>1
  <2> HIDE DEF c
  <2>4. RequestFits(c, snap[s], source[s])
    BY <2>1, <2>2 DEF RequestFits, Decisions
  <2> QED
    BY <2>2, <2>3, <2>4, SendKeeps
<1> QED
  BY <1>4, <1>5, <1>6 DEF PageStep

-----------------------------------------------------------------------------
(* The server, one session at a time.                                      *)

\* An event is queued, once.
LEMMA Enqueued ==
  ASSUME NEW S, NEW q \in Seq(S), NEW e \in S, Distinct(q)
  PROVE  /\ Enqueue(q, e) \in Seq(S) /\ Distinct(Enqueue(q, e))
         /\ Entries(q) \subseteq Entries(Enqueue(q, e))
         /\ Entries(Enqueue(q, e)) \subseteq Entries(q) \cup {e}
         /\ \E f \in Entries(Enqueue(q, e)) : f.id = e.id /\ f.type = e.type
<1>1. CASE \E f \in Entries(q) : f.id = e.id /\ f.type = e.type
  <2>1. Enqueue(q, e) = q
    BY <1>1 DEF Enqueue, Entries
  <2> QED
    BY <1>1, <2>1
<1>2. CASE ~(\E f \in Entries(q) : f.id = e.id /\ f.type = e.type)
  <2>1. Enqueue(q, e) = Append(q, e)
    BY <1>2 DEF Enqueue, Entries
  <2>2. /\ Append(q, e) \in Seq(S) /\ Entries(Append(q, e)) = Entries(q) \cup {e}
        /\ Distinct(Append(q, e))
    BY <1>2, Appended
  <2> QED
    BY <2>1, <2>2
<1> QED
  BY <1>1, <1>2

\* Leases that no longer count change nothing else of an agent, by type.
LEMMA ReleasedIs ==
  ASSUME NEW e, agent \in [Agents -> AgentRow(e)], NEW id, NEW types
  PROVE  /\ Released(id, types) \in [Agents -> AgentRow(e)]
         /\ \A a \in Agents :
              /\ SameWork(agent[a], Released(id, types)[a])
              /\ Released(id, types)[a].held =>
                   agent[a].held /\ ~(agent[a].id = id /\ agent[a].type \in types)
<1> SUFFICES ASSUME NEW a \in Agents
             PROVE  /\ Released(id, types)[a] \in AgentRow(e)
                    /\ SameWork(agent[a], Released(id, types)[a])
                    /\ Released(id, types)[a].held =>
                         agent[a].held /\ ~(agent[a].id = id /\ agent[a].type \in types)
  BY DEF Released
<1> DEFINE counts == agent[a].held /\ ~(agent[a].id = id /\ agent[a].type \in types)
<1>1. agent[a] \in AgentRow(e)
  OBVIOUS
<1>2. Released(id, types)[a] = [agent[a] EXCEPT !.held = counts]
  BY DEF Released
<1>3. counts \in BOOLEAN
  BY <1>1 DEF AgentRow
<1> HIDE DEF counts
<1>4. /\ Released(id, types)[a] \in AgentRow(e)
      /\ SameWork(agent[a], Released(id, types)[a])
      /\ Released(id, types)[a].held = counts
  BY <1>1, <1>2, <1>3 DEF AgentRow, SameWork
<1> QED
  BY <1>4 DEF counts

\* One session goes on or stays, and nothing that matters to the others changes.
LEMMA RowKeeps ==
  ASSUME SessionInv, NEW s \in Sessions, NEW r, snap' = [snap EXCEPT ![s] = r],
         \/ snap[s].phase # "new" /\ Goes(snap[s], r) /\ Fits(r, source[s])
         \/ r = snap[s],
         UNCHANGED <<source, receipt, up, epoch, preflight, sent, faults>>, wire' \subseteq wire, handed' \subseteq Sessions,
         queue' \in Seq(EntryRow), Distinct(queue'),
         \A e \in Entries(queue') :
           e \in Entries(queue) \/ (e.type # "generate" /\ EntryFits(e, snap'[e.id], source'[e.id])),
         agent' \in [Agents -> AgentRow(epoch)],
         \A a \in Agents :
           \/ agent'[a].at = "idle"
           \/ SameWork(agent[a], agent'[a])
           \/ RowFits(agent'[a]) /\ Knows(agent'[a], snap'[agent'[a].id], source'[agent'[a].id]),
         Loosened,
         \A e \in Entries(queue), a \in Agents :
           agent'[a].held /\ e.id = agent[a].id /\ e.type = agent[a].type /\ e.leased =>
             e \in Entries(queue'),
         DecisionDurable', Over
  PROVE  Kept
<1>1. /\ snap \in [Sessions -> SnapRow] /\ r \in SnapRow /\ Fits(r, source[s])
      /\ queue \in Seq(EntryRow) /\ preflight \subseteq PreflightRow /\ wire \subseteq RequestRow
      /\ SessionsFit
  BY DEF SessionInv, Typed, Goes, SessionsFit
<1>2. snap' \in [Sessions -> SnapRow] /\ snap'[s] = r /\ \A t \in Sessions : t # s => snap'[t] = snap[t]
  BY <1>1, OneSession
<1>3. Quiet
  <2>1. CASE r = snap[s]
    <3>1. snap' = snap
      BY <1>1, <2>1
    <3> QED
      BY <3>1, Stays
  <2>2. CASE r # snap[s]
    BY <1>1, <2>2, GoesOn
  <2> QED
    BY <2>1, <2>2
<1>4. Calm /\ Onward
  BY <1>3 DEF Quiet, Calm
<1>5. Typed' /\ EpochBound'
  BY <1>1, <1>2 DEF SessionInv, Typed, EpochBound
<1>6. SessionsFit'
  <2>1. r.phase = "new" \/ sent[s] # 0
    BY <1>1 DEF SessionsFit
  <2> QED
    BY <1>1, <2>1, SessionsGoOn
<1>7. QueueFits'
  BY <1>1, <1>4, QueueKept DEF SessionInv
<1>8. PreflightFits'
  BY <1>1, <1>4, PreflightKept DEF SessionInv
<1>9. WireFits'
  <2>1. \A m \in wire' : m \in wire /\ (m.kind = "generate" => snap'[m.id].phase = "new")
    BY <1>1, <1>3 DEF SessionInv, WireFits, RequestFits, Quiet, RequestRow
  <2> QED
    BY <1>1, <1>4, <2>1, WireKept DEF SessionInv
<1>10. AgentsFit'
  BY <1>4, AgentsGoOn DEF SessionInv
<1>11. LeasesFit' /\ LeaseIsExclusive'
  BY LeasesKept, LeasesLoosen DEF SessionInv
<1>12. IsFiniteSet(Begun)'
  BY <1>1, BegunGrows DEF SessionInv
<1> QED
  BY <1>5, <1>6, <1>7, <1>8, <1>9, <1>10, <1>11, <1>12 DEF Kept, SessionInv

\* A request on its way, and what its session shows.
LEMMA RequestKnown ==
  ASSUME SessionInv, NEW m \in wire
  PROVE  /\ m \in RequestRow /\ m.id \in Sessions /\ sent[m.id] # 0
         /\ snap[m.id] \in SnapRow /\ Fits(snap[m.id], source[m.id])
         /\ RequestFits(m, snap[m.id], source[m.id])
         /\ m.kind \in Decisions \cup {"variant_mount_failed", "orphan"} => snap[m.id].phase # "new"
<1>1. m \in RequestRow /\ m.id \in Sessions
  BY DEF SessionInv, Typed, RequestRow
<1>2. snap[m.id] \in SnapRow /\ Fits(snap[m.id], source[m.id])
  BY <1>1 DEF SessionInv, Typed, SessionsFit
<1>3. sent[m.id] # 0 /\ RequestFits(m, snap[m.id], source[m.id])
  BY DEF SessionInv, WireFits
<1> QED
  BY <1>1, <1>2, <1>3 DEF Fits, RequestFits

\* Progress changes neither the queue nor the agents.
LEMMA CheckpointKeeps ==
  ASSUME SessionInv, NEW m \in wire, m.kind = "checkpoint", RecordCheckpoint(m),
         wire' = wire \ {m}, UNCHANGED <<source, receipt, up, epoch, preflight, sent, faults, handed>>
  PROVE  Kept
<1> DEFINE s == m.id
           r == IF snap[s].phase = "new" THEN snap[s] ELSE ApplyCheckpoint(snap[s], m.phase, m.revision)
<1>1. /\ s \in Sessions /\ snap[s] \in SnapRow /\ Fits(snap[s], source[s]) /\ m \in RequestRow
      /\ m.phase \in ReviewPhases /\ m.revision \in 0 .. MaxRequests
  BY RequestKnown DEF RequestFits, RequestRow
<1>2. snap' = [snap EXCEPT ![s] = r] /\ UNCHANGED <<queue, agent>>
  <2>1. snap \in [Sessions -> SnapRow]
    BY DEF SessionInv, Typed
  <2> QED
    BY <2>1 DEF RecordCheckpoint
<1>3. /\ \/ snap[s].phase # "new" /\ Goes(snap[s], r) /\ Fits(r, source[s])
         \/ r = snap[s]
      /\ snap[s].canceled \/ snap[s].phase \in CompletedPhases => r = snap[s]
      /\ r.canceled => snap[s].canceled
  <2>1. CASE snap[s].phase = "new"
    BY <2>1
  <2>2. CASE snap[s].phase # "new"
    <3>1. /\ Fits(ApplyCheckpoint(snap[s], m.phase, m.revision), source[s])
          /\ Goes(snap[s], ApplyCheckpoint(snap[s], m.phase, m.revision))
          /\ snap[s].canceled \/ snap[s].phase \in CompletedPhases
               => ApplyCheckpoint(snap[s], m.phase, m.revision) = snap[s]
      BY <1>1, <2>2, CheckpointFits
    <3>2. ApplyCheckpoint(snap[s], m.phase, m.revision).canceled = snap[s].canceled
      BY <1>1 DEF ApplyCheckpoint, SnapRow
    <3> QED
      BY <2>2, <3>1, <3>2
  <2> QED
    BY <2>1, <2>2
<1> HIDE DEF r
<1>4. r \in SnapRow
  BY <1>1, <1>3 DEF Goes
<1>5. snap'[s] = r /\ \A t \in Sessions : t # s => snap'[t] = snap[t]
  BY <1>1, <1>2, <1>4, OneSession DEF SessionInv, Typed
<1>6. DecisionDurable'
  BY <1>2, <1>3, <1>5, DurableKept DEF SessionInv
<1>7. Over
  BY <1>3, <1>5 DEF Over
<1>8. Loosened /\ \A a \in Agents : SameWork(agent[a], agent'[a])
  BY <1>2 DEF Loosened, SameWork
<1> QED
  BY <1>1, <1>2, <1>3, <1>6, <1>7, <1>8, RowKeeps DEF SessionInv, Typed, QueueFits

\* A generation is retired, and something that is not one may be queued.
LEMMA RetiredAndQueued ==
  ASSUME SessionInv, NEW id \in Sessions, NEW q,
         \/ q = WithoutGeneration(queue, id)
         \/ \E e \in EntryRow : e.type # "generate" /\ EntryFits(e, snap'[e.id], source'[e.id])
                                /\ q = Enqueue(WithoutGeneration(queue, id), e)
  PROVE  /\ q \in Seq(EntryRow) /\ Distinct(q)
         /\ \A e \in Entries(queue) : e \in Entries(q) \/ IsGeneration(e, id)
         /\ \A e \in Entries(q) :
              e \in Entries(queue) \/ (e.type # "generate" /\ EntryFits(e, snap'[e.id], source'[e.id]))
<1> DEFINE w == WithoutGeneration(queue, id)
<1>1. queue \in Seq(EntryRow) /\ Distinct(queue)
  BY DEF SessionInv, Typed, QueueFits
<1>2. /\ w \in Seq(EntryRow) /\ Distinct(w)
      /\ Entries(w) = {e \in Entries(queue) : ~IsGeneration(e, id)}
  BY <1>1, Retired
<1> HIDE DEF w
<1>3. CASE q = w
  BY <1>2, <1>3
<1>4. ASSUME NEW e \in EntryRow, e.type # "generate", EntryFits(e, snap'[e.id], source'[e.id]),
             q = Enqueue(w, e)
      PROVE  /\ q \in Seq(EntryRow) /\ Distinct(q)
             /\ Entries(w) \subseteq Entries(q) /\ Entries(q) \subseteq Entries(w) \cup {e}
  BY <1>2, <1>4, Enqueued
<1> QED
  <2>1. CASE q = WithoutGeneration(queue, id)
    BY <1>3, <2>1, <1>2 DEF w
  <2>2. ASSUME NEW e \in EntryRow, e.type # "generate", EntryFits(e, snap'[e.id], source'[e.id]),
               q = Enqueue(WithoutGeneration(queue, id), e)
        PROVE  /\ q \in Seq(EntryRow) /\ Distinct(q)
               /\ \A f \in Entries(queue) : f \in Entries(q) \/ IsGeneration(f, id)
               /\ \A f \in Entries(q) :
                    f \in Entries(queue) \/ (f.type # "generate" /\ EntryFits(f, snap'[f.id], source'[f.id]))
    <3>1. q = Enqueue(w, e)
      BY <2>2 DEF w
    <3>2. /\ q \in Seq(EntryRow) /\ Distinct(q)
          /\ Entries(w) \subseteq Entries(q) /\ Entries(q) \subseteq Entries(w) \cup {e}
      BY <1>4, <2>2, <3>1
    <3> QED
      BY <1>2, <2>2, <3>2
  <2> QED
    BY <2>1, <2>2

\* The leases of a generation end with it.
LEMMA RetiredLeases ==
  ASSUME SessionInv, NEW id \in Sessions, agent' = Released(id, {"generate"})
  PROVE  /\ agent' \in [Agents -> AgentRow(epoch)] /\ Loosened
         /\ \A a \in Agents : SameWork(agent[a], agent'[a])
         /\ \A e \in Entries(queue), a \in Agents :
              agent'[a].held /\ e.id = agent[a].id /\ e.type = agent[a].type => ~IsGeneration(e, id)
<1>1. /\ agent' \in [Agents -> AgentRow(epoch)]
      /\ \A a \in Agents :
           /\ SameWork(agent[a], agent'[a])
           /\ agent'[a].held => agent[a].held /\ ~(agent[a].id = id /\ agent[a].type = "generate")
  <2>1. agent \in [Agents -> AgentRow(epoch)]
    BY DEF SessionInv, Typed
  <2> HIDE DEF SessionInv
  <2> QED
    BY <2>1, ReleasedIs
<1> QED
  BY <1>1 DEF Loosened, SameWork, IsGeneration

\* A decision retires the generation and is queued in its place.
LEMMA DecisionKeeps ==
  ASSUME SessionInv, NEW m \in wire, m.kind \in Decisions, RecordDecision(m),
         wire' = wire \ {m}, UNCHANGED <<source, receipt, up, epoch, preflight, sent, faults>>, handed' = handed \ {m.id}
  PROVE  Kept
<1> DEFINE s == m.id
           r == ApplyDecision(snap[s], m.kind)
           e == Entry(s, m.kind, TRUE)
<1>1. /\ s \in Sessions /\ snap[s] \in SnapRow /\ Fits(snap[s], source[s]) /\ snap[s].phase # "new"
      /\ source[s] # "plain" /\ snap \in [Sessions -> SnapRow]
  BY RequestKnown DEF RequestFits, SessionInv, Typed
<1>2. /\ snap' = [snap EXCEPT ![s] = r]
      /\ queue' = Enqueue(WithoutGeneration(queue, s), e)
      /\ agent' = Released(s, {"generate"})
  BY <1>1 DEF RecordDecision
<1>3. Fits(r, source[s]) /\ Goes(snap[s], r) /\ r.pending = m.kind /\ r.canceled /\ r \in SnapRow
  BY <1>1, DecisionFits DEF Goes
<1>4. /\ e \in EntryRow /\ e.id = s /\ e.type = m.kind /\ e.type # "generate" /\ e.ready
  BY <1>1 DEF Entry, EntryRow, EventTypes, Decisions
<1> HIDE DEF r, e
<1>5. snap'[s] = r /\ \A t \in Sessions : t # s => snap'[t] = snap[t]
  BY <1>1, <1>2, <1>3, OneSession
<1>6. EntryFits(e, snap'[e.id], source'[e.id])
  BY <1>1, <1>3, <1>4, <1>5 DEF EntryFits, Goes
<1>7. /\ queue' \in Seq(EntryRow) /\ Distinct(queue')
      /\ \A f \in Entries(queue) : f \in Entries(queue') \/ IsGeneration(f, s)
      /\ \A f \in Entries(queue') :
           f \in Entries(queue) \/ (f.type # "generate" /\ EntryFits(f, snap'[f.id], source'[f.id]))
  BY <1>1, <1>2, <1>4, <1>6, RetiredAndQueued
<1>8. /\ agent' \in [Agents -> AgentRow(epoch)] /\ Loosened
      /\ \A a \in Agents : SameWork(agent[a], agent'[a])
      /\ \A f \in Entries(queue), a \in Agents :
           agent'[a].held /\ f.id = agent[a].id /\ f.type = agent[a].type => ~IsGeneration(f, s)
  BY <1>1, <1>2, RetiredLeases
<1>9. DecisionDurable'
  <2>1. \E f \in Entries(queue') : f.id = s /\ f.type = m.kind
    <3>1. queue \in Seq(EntryRow) /\ Distinct(queue)
      BY DEF SessionInv, Typed, QueueFits
    <3>2. WithoutGeneration(queue, s) \in Seq(EntryRow) /\ Distinct(WithoutGeneration(queue, s))
      BY <3>1, Retired
    <3> QED
      BY <1>2, <1>4, <3>2, Enqueued
  <2>2. \A f \in Entries(queue) : f.type \in Decisions => f \in Entries(queue')
    BY <1>7 DEF IsGeneration, Decisions
  <2> QED
    BY <1>3, <1>5, <2>1, <2>2, DurableKept DEF SessionInv
<1>10. Over
  BY <1>5 DEF Over
<1>11. handed' \subseteq Sessions
  BY DEF SessionInv, Typed
<1> QED
  BY <1>1, <1>2, <1>3, <1>7, <1>8, <1>9, <1>10, <1>11, RowKeeps

\* The orphan of a decided source is ended, and its generation retired.
LEMMA OrphanKeeps ==
  ASSUME SessionInv, NEW m \in wire, m.kind = "orphan", DiscardOrphan(m),
         wire' = wire \ {m}, UNCHANGED <<source, receipt, up, epoch, preflight, sent, faults, handed>>
  PROVE  Kept
<1> DEFINE s == m.id
           r == ApplyEnd(ApplyDecision(snap[s], "discard"), "discarded")
<1>1. /\ s \in Sessions /\ snap[s] \in SnapRow /\ Fits(snap[s], source[s]) /\ snap[s].phase # "new"
      /\ source[s] \in Decided /\ snap \in [Sessions -> SnapRow]
  BY RequestKnown DEF RequestFits, SessionInv, Typed
<1>2. /\ snap' = [snap EXCEPT ![s] = r]
      /\ queue' = WithoutGeneration(queue, s)
      /\ agent' = Released(s, {"generate"})
  BY <1>1 DEF DiscardOrphan
<1>3. Fits(r, source[s]) /\ Goes(snap[s], r) /\ r.phase \in CompletedPhases /\ r \in SnapRow
  BY <1>1, OrphanFits DEF Goes
<1> HIDE DEF r
<1>5. snap'[s] = r /\ \A t \in Sessions : t # s => snap'[t] = snap[t]
  BY <1>1, <1>2, <1>3, OneSession
<1>7. /\ queue' \in Seq(EntryRow) /\ Distinct(queue')
      /\ \A f \in Entries(queue) : f \in Entries(queue') \/ IsGeneration(f, s)
      /\ \A f \in Entries(queue') :
           f \in Entries(queue) \/ (f.type # "generate" /\ EntryFits(f, snap'[f.id], source'[f.id]))
  BY <1>1, <1>2, RetiredAndQueued
<1>8. /\ agent' \in [Agents -> AgentRow(epoch)] /\ Loosened
      /\ \A a \in Agents : SameWork(agent[a], agent'[a])
      /\ \A f \in Entries(queue), a \in Agents :
           agent'[a].held /\ f.id = agent[a].id /\ f.type = agent[a].type => ~IsGeneration(f, s)
  BY <1>1, <1>2, RetiredLeases
<1>9. DecisionDurable'
  <2>1. source'[s] # "wrapped"
    BY <1>1 DEF Decided
  <2>2. \A f \in Entries(queue) : f.type \in Decisions => f \in Entries(queue')
    BY <1>7 DEF IsGeneration, Decisions
  <2> QED
    BY <1>5, <2>1, <2>2, DurableKept DEF SessionInv
<1>10. Over
  BY <1>3, <1>5 DEF Over
<1>11. handed' \subseteq Sessions
  BY DEF SessionInv, Typed
<1> QED
  BY <1>1, <1>2, <1>3, <1>7, <1>8, <1>9, <1>10, <1>11, RowKeeps

\* A mount failure is queued beside what waits.
LEMMA MountKeeps ==
  ASSUME SessionInv, NEW m \in wire, m.kind = "variant_mount_failed", RecordMountFailure(m),
         wire' = wire \ {m}, UNCHANGED <<source, receipt, up, epoch, preflight, sent, faults, handed>>
  PROVE  Kept
<1> DEFINE s == m.id
           r == ApplyMountFailed(snap[s])
           e == Entry(s, m.kind, TRUE)
<1>1. /\ s \in Sessions /\ snap[s] \in SnapRow /\ Fits(snap[s], source[s]) /\ snap[s].phase # "new"
      /\ source[s] # "plain" /\ snap \in [Sessions -> SnapRow]
  BY RequestKnown DEF RequestFits, SessionInv, Typed
<1>2. /\ snap' = [snap EXCEPT ![s] = r] /\ queue' = Enqueue(queue, e) /\ UNCHANGED agent
  BY <1>1 DEF RecordMountFailure
<1>3. /\ Fits(r, source[s]) /\ Goes(snap[s], r) /\ r.phase = snap[s].phase /\ r \in SnapRow
      /\ r.canceled = snap[s].canceled
      /\ snap[s].pending # "none" => r.pending = snap[s].pending
  BY <1>1, MountFits DEF Goes
<1>4. /\ e \in EntryRow /\ e.id = s /\ e.type = "variant_mount_failed" /\ e.ready
  BY <1>1 DEF Entry, EntryRow, EventTypes, Decisions
<1> HIDE DEF r, e
<1>5. snap'[s] = r /\ \A t \in Sessions : t # s => snap'[t] = snap[t]
  BY <1>1, <1>2, <1>3, OneSession
<1>6. EntryFits(e, snap'[e.id], source'[e.id]) /\ e.type # "generate"
  BY <1>1, <1>3, <1>4, <1>5 DEF EntryFits, Goes, Decisions
<1>7. /\ queue' \in Seq(EntryRow) /\ Distinct(queue')
      /\ Entries(queue) \subseteq Entries(queue') /\ Entries(queue') \subseteq Entries(queue) \cup {e}
  BY <1>2, <1>4, Enqueued DEF SessionInv, Typed, QueueFits
<1>8. Loosened /\ \A a \in Agents : SameWork(agent[a], agent'[a])
  BY <1>2 DEF Loosened, SameWork
<1>9. DecisionDurable'
  <2>1. ASSUME NEW t \in Sessions, snap[t].canceled, source[t] = "wrapped", ~Failed(t)
        PROVE  snap[t].pending # "none"
    BY <2>1 DEF SessionInv, DecisionDurable, Decisions
  <2> QED
    BY <1>2, <1>3, <1>5, <1>7, <2>1, DurableKept DEF SessionInv, Failed
<1>10. Over
  BY <1>3, <1>5 DEF Over
<1> QED
  BY <1>1, <1>2, <1>3, <1>6, <1>7, <1>8, <1>9, <1>10, RowKeeps DEF SessionInv, Typed

\* The event that creates the session comes once: no other request for it is on its way.
LEMMA CreationKeeps ==
  ASSUME SessionInv, NEW m \in wire, m.kind = "generate", CreateSession(m),
         wire' = wire \ {m}, UNCHANGED <<source, receipt, up, epoch, preflight, sent, faults, handed>>
  PROVE  Kept
<1> DEFINE s == m.id
           r == ApplyGenerate(snap[s], FALSE)
           e == Entry(s, "generate", FALSE)
<1>1. /\ s \in Sessions /\ snap[s] \in SnapRow /\ Fits(snap[s], source[s]) /\ snap[s].phase = "new"
      /\ m \in RequestRow /\ m.phase = "none" /\ m.revision = 0 /\ sent[s] # 0
  BY RequestKnown DEF RequestFits
<1>2. /\ snap \in [Sessions -> SnapRow] /\ queue \in Seq(EntryRow) /\ Distinct(queue)
      /\ preflight \subseteq PreflightRow /\ wire \subseteq RequestRow
  BY DEF SessionInv, Typed, QueueFits
<1>3. /\ snap' = [snap EXCEPT ![s] = r] /\ queue' = Enqueue(queue, e) /\ UNCHANGED agent
  BY <1>1, <1>2 DEF CreateSession
<1>4. ~snap[s].ready /\ ~snap[s].canceled /\ source[s] = "plain"
  BY <1>1 DEF Fits
<1>5. r \in SnapRow /\ Fits(r, source[s]) /\ r.phase # "new" /\ r.ready = FALSE /\ ~r.canceled
  <2>1. FALSE \in BOOLEAN
    OBVIOUS
  <2> QED
    BY <1>1, <1>4, <2>1, GenerateFits
<1>6. /\ e \in EntryRow /\ e.id = s /\ e.type = "generate" /\ e.ready = FALSE /\ ~e.leased
  BY <1>1 DEF Entry, EntryRow, EventTypes
<1> HIDE DEF r, e
<1>7. /\ snap' \in [Sessions -> SnapRow] /\ snap'[s] = r
      /\ \A t \in Sessions : t # s => snap'[t] = snap[t]
  BY <1>1, <1>2, <1>3, <1>5, OneSession
<1>8. Calm /\ Onward
  BY <1>1, <1>4, <1>5, <1>7 DEF Calm, Onward
<1>9. /\ queue' \in Seq(EntryRow) /\ Distinct(queue')
      /\ Entries(queue) \subseteq Entries(queue') /\ Entries(queue') \subseteq Entries(queue) \cup {e}
  BY <1>2, <1>3, <1>6, Enqueued
<1>10. Typed' /\ EpochBound'
  BY <1>3, <1>7, <1>9 DEF SessionInv, Typed, EpochBound
<1>11. SessionsFit'
  BY <1>1, <1>2, <1>3, <1>5, SessionsGoOn DEF SessionInv
<1>12. QueueFits'
  <2>1. EntryFits(e, snap'[e.id], source'[e.id])
    BY <1>5, <1>6, <1>7 DEF EntryFits, Decisions
  <2> QED
    BY <1>2, <1>8, <1>9, <2>1, QueueKept DEF SessionInv
<1>13. PreflightFits'
  <2>1. \A p \in preflight : p.id # s
    BY <1>1 DEF SessionInv, PreflightFits
  <2> QED
    BY <1>2, <1>6, <1>8, <1>9, <2>1, PreflightKept DEF SessionInv
<1>14. WireFits'
  <2>1. ASSUME NEW n \in wire', n.kind = "generate" PROVE snap'[n.id].phase = "new"
    <3>1. n \in wire /\ n # m /\ n \in RequestRow /\ n.id \in Sessions
      BY <1>2 DEF RequestRow
    <3>2. snap[n.id].phase = "new" /\ n.phase = "none" /\ n.revision = 0
      BY <2>1, <3>1, RequestKnown DEF RequestFits
    <3>3. n.id # s
      BY <1>1, <2>1, <3>1, <3>2 DEF RequestRow
    <3> QED
      BY <1>7, <3>1, <3>2, <3>3
  <2> QED
    BY <1>2, <1>8, <2>1, WireKept DEF SessionInv
<1>15. Loosened /\ \A a \in Agents : SameWork(agent[a], agent'[a])
  BY <1>3 DEF Loosened, SameWork
<1>16. AgentsFit'
  BY <1>8, <1>15, AgentsGoOn DEF SessionInv
<1>17. LeasesFit' /\ LeaseIsExclusive'
  BY <1>9, <1>15, LeasesKept, LeasesLoosen DEF SessionInv
<1>18. DecisionDurable'
  BY <1>5, <1>7, <1>9, DurableKept DEF SessionInv
<1>19. IsFiniteSet(Begun)'
  BY <1>1, <1>2, <1>3, BegunGrows DEF SessionInv
<1>20. Over
  BY <1>1, <1>7 DEF Over, CompletedPhases
<1> QED
  BY <1>10, <1>11, <1>12, <1>13, <1>14, <1>16, <1>17, <1>18, <1>19, <1>20 DEF Kept, SessionInv

\* Whatever the server makes of a browser request.
LEMMA BrowserKeeps ==
  ASSUME SessionInv, NEW m \in wire, ServeBrowser(m)
  PROVE  Kept
<1> USE DEF disk, browser
<1>1. /\ wire' = wire \ {m} /\ UNCHANGED <<source, receipt, up, epoch, preflight, sent, faults>>
      /\ m.kind \in Decisions => handed' = handed \ {m.id}
      /\ m.kind \notin Decisions => handed' = handed
  BY DEF ServeBrowser
<1>2. {"generate", "checkpoint", "variant_mount_failed", "orphan"} \cap Decisions = {}
  BY DEF Decisions
<1> QED
  BY <1>1, <1>2, CreationKeeps, CheckpointKeeps, MountKeeps, DecisionKeeps, OrphanKeeps DEF ServeBrowser

-----------------------------------------------------------------------------
(* Polls, leases and scaffolds.                                            *)

\* Two entries of one event are one.
LEMMA SameKey ==
  ASSUME NEW q, Distinct(q), NEW e \in Entries(q), NEW f \in Entries(q), e.id = f.id, e.type = f.type
  PROVE  e = f
BY DEF Distinct, Entries

\* The row of an agent that has just been given an event.
LEMMA LeasedRow ==
  ASSUME NEW i, NEW a, NEW at \in {"apply", "work", "waiting"}, Lease(i, a, at),
         agent \in [Agents -> AgentRow(epoch)], a \in Agents, epoch \in Nat, queue[i] \in EntryRow
  PROVE  \E g \in AgentRow(epoch) :
           /\ agent' = [agent EXCEPT ![a] = g]
           /\ g.at = at /\ g.id = queue[i].id /\ g.type = queue[i].type /\ g.result = "none" /\ g.held
<1> DEFINE g == [IdleAgent EXCEPT !.at = at, !.id = queue[i].id, !.type = queue[i].type,
                                  !.epoch = epoch, !.held = TRUE]
<1>1. IdleAgent \in AgentRow(epoch) /\ IdleAgent.result = "none"
  BY DEF IdleAgent, AgentRow, AgentAt, Results
<1>2. /\ g \in AgentRow(epoch) /\ g.at = at /\ g.id = queue[i].id /\ g.type = queue[i].type
      /\ g.result = "none" /\ g.held
  <2>1. at \in AgentAt /\ queue[i].id \in Sessions /\ queue[i].type \in EventTypes /\ epoch \in 0 .. epoch
    BY DEF AgentAt, EntryRow
  <2> QED
    BY <1>1, <2>1 DEF AgentRow
<1>3. agent' = [agent EXCEPT ![a] = g]
  BY DEF Lease
<1> QED
  BY <1>2, <1>3

\* An event that is free has no holder: a lease that counts is on a leased entry, and every
\* event has one entry.
LEMMA PollKeeps ==
  ASSUME SessionInv, NEW a \in Agents, Poll(a)
  PROVE  Kept
<1> USE DEF disk, browser
<1>1. PICK i \in DOMAIN queue, at \in {"apply", "work", "waiting"} :
        /\ ~queue[i].leased /\ Lease(i, a, at)
        /\ at = "apply" => queue[i].type \in Decisions /\ preflight' = preflight
        /\ at = "work" => queue[i].type \notin Decisions /\ queue[i].ready /\ preflight' = preflight
        /\ at = "waiting" => /\ ~queue[i].ready
                             /\ preflight' = preflight \cup {[id |-> queue[i].id, agent |-> a]}
  BY DEF Poll, IsNext
<1>2. /\ UNCHANGED <<snap, source, receipt, up, epoch, wire, sent, faults, handed>> /\ up
  BY DEF Poll
<1>3. /\ queue \in Seq(EntryRow) /\ Distinct(queue) /\ agent \in [Agents -> AgentRow(epoch)]
      /\ preflight \subseteq PreflightRow /\ epoch \in Nat
  BY BoundsAssumption DEF SessionInv, Typed, QueueFits
<1> DEFINE old == queue[i]
           e == [old EXCEPT !.leased = TRUE]
<1>4. old \in EntryRow /\ old \in Entries(queue)
  BY <1>3, ElementOfSeq DEF Entries
<1>5. EntryFits(old, snap[old.id], source[old.id]) /\ old.id \in Sessions /\ old.type \in EventTypes
  BY <1>4 DEF SessionInv, QueueFits, EntryRow
<1>6. /\ e \in EntryRow /\ e.id = old.id /\ e.type = old.type /\ e.ready = old.ready /\ e.leased
  BY <1>4 DEF EntryRow
<1>7. queue' = [queue EXCEPT ![i] = e]
  BY <1>1 DEF Lease
<1>8. PICK g \in AgentRow(epoch) :
        /\ agent' = [agent EXCEPT ![a] = g]
        /\ g.at = at /\ g.id = old.id /\ g.type = old.type /\ g.result = "none" /\ g.held
  BY <1>1, <1>3, <1>4, LeasedRow
<1> HIDE DEF e
<1>9. /\ queue' \in Seq(EntryRow) /\ Distinct(queue') /\ e \in Entries(queue')
      /\ \A f \in Entries(queue') : f = e \/ f \in Entries(queue)
      /\ \A f \in Entries(queue) : f # old => f \in Entries(queue')
  <2>1. e.id = queue[i].id /\ e.type = queue[i].type
    BY <1>6
  <2>2. /\ [queue EXCEPT ![i] = e] \in Seq(EntryRow)
        /\ \A f \in Entries([queue EXCEPT ![i] = e]) : f = e \/ \E h \in Entries(queue) : f = h
        /\ e \in Entries([queue EXCEPT ![i] = e])
        /\ \A f \in Entries(queue) : f # queue[i] => f \in Entries([queue EXCEPT ![i] = e])
        /\ Distinct(queue) => Distinct([queue EXCEPT ![i] = e])
    BY <1>3, <1>6, <2>1, Changed
  <2> QED
    BY <1>3, <1>7, <2>2
<1> HIDE DEF old
<1>10. /\ agent' \in [Agents -> AgentRow(epoch)] /\ agent'[a] = g
       /\ \A b \in Agents : b # a => agent'[b] = agent[b]
  BY <1>3, <1>8
<1>11. Calm /\ Onward
  BY <1>2, Stays DEF Quiet, Calm
<1>12. Typed' /\ EpochBound' /\ SessionsFit' /\ WireFits'
  <2>1. preflight' \subseteq PreflightRow
    BY <1>1, <1>3, <1>5 DEF PreflightRow, old
  <2>2. Typed' /\ EpochBound'
    BY <1>2, <1>9, <1>10, <2>1 DEF SessionInv, Typed, EpochBound
  <2> QED
    BY <1>2, <2>2 DEF SessionInv, SessionsFit, WireFits
<1>13. QueueFits'
  BY <1>3, <1>4, <1>6, <1>9, <1>11, QueueKept DEF SessionInv
<1>14. ASSUME NEW f \in Entries(queue'), f.id = old.id, f.type = old.type PROVE f = e
  BY <1>6, <1>9, <1>14, SameKey
<1>15. PreflightFits'
  <2>1. ASSUME NEW p \in preflight
        PROVE  /\ snap'[p.id].phase # "new" /\ ~snap'[p.id].ready
               /\ \A f \in Entries(queue') : IsGeneration(f, p.id) => f.leased
    BY <1>2, <1>6, <1>9 DEF SessionInv, PreflightFits
  <2>2. CASE preflight' = preflight
    BY <2>1, <2>2 DEF SessionInv, PreflightFits
  <2>3. CASE at = "waiting"
    <3> DEFINE p == [id |-> old.id, agent |-> a]
    <3>1. preflight' = preflight \cup {p} /\ ~old.ready /\ p.id = old.id
      BY <1>1, <2>3 DEF old
    <3>2. old.type = "generate" /\ snap[old.id].phase # "new" /\ ~snap[old.id].ready
      BY <1>5, <3>1 DEF EntryFits
    <3>3. \A f \in Entries(queue') : IsGeneration(f, old.id) => f.leased
      BY <1>6, <1>14, <3>2 DEF IsGeneration
    <3>4. \A q \in preflight : q.id # old.id
      BY <1>1, <1>4, <3>2 DEF SessionInv, PreflightFits, IsGeneration, old
    <3> HIDE DEF p
    <3> QED
      BY <1>2, <2>1, <3>1, <3>2, <3>3, <3>4 DEF SessionInv, PreflightFits
  <2> QED
    BY <1>1, <2>2, <2>3
<1>16. AgentsFit'
  <2>1. RowFits(g)
    BY <1>1, <1>5, <1>8 DEF RowFits, old
  <2>2. Knows(g, snap[old.id], source[old.id])
    BY <1>1, <1>5, <1>8 DEF Knows, EntryFits, old
  <2>3. \A b \in Agents : b # a => SameWork(agent[b], agent'[b])
    BY <1>10 DEF SameWork
  <2>4. RowFits(agent'[a]) /\ Knows(agent'[a], snap'[agent'[a].id], source'[agent'[a].id])
    BY <1>2, <1>8, <1>10, <2>1, <2>2
  <2> QED
    BY <1>11, <2>3, <2>4, AgentsGoOn DEF SessionInv
<1>17. LeasesFit'
  <2>1. ASSUME NEW b \in Agents, agent'[b].held
        PROVE  up' /\ \E f \in Entries(queue') :
                        f.id = agent'[b].id /\ f.type = agent'[b].type /\ f.leased
    <3>1. CASE b = a
      BY <1>2, <1>6, <1>8, <1>9, <1>10, <3>1
    <3>2. CASE b # a
      <4>1. agent'[b] = agent[b]
        BY <1>10, <3>2
      <4>2. PICK f \in Entries(queue) : f.id = agent[b].id /\ f.type = agent[b].type /\ f.leased
        BY <2>1, <4>1 DEF SessionInv, LeasesFit
      <4>3. f # old
        BY <1>1, <4>2 DEF old
      <4> QED
        BY <1>2, <1>9, <4>1, <4>2, <4>3
    <3> QED
      BY <3>1, <3>2
  <2> QED
    BY <1>2, <2>1 DEF LeasesFit
<1>18. LeaseIsExclusive'
  <2>1. ASSUME NEW b \in Agents, b # a, agent'[b].held
        PROVE  ~(agent'[b].id = old.id /\ agent'[b].type = old.type)
    <3> SUFFICES ASSUME agent'[b].id = old.id, agent'[b].type = old.type PROVE FALSE
      OBVIOUS
    <3>1. agent'[b] = agent[b]
      BY <1>10, <2>1
    <3>2. PICK f \in Entries(queue) : f.id = agent[b].id /\ f.type = agent[b].type /\ f.leased
      BY <2>1, <3>1 DEF SessionInv, LeasesFit
    <3>3. f = old
      BY <1>3, <1>4, <3>1, <3>2, SameKey
    <3> QED
      BY <1>1, <3>2, <3>3 DEF old
  <2> QED
    BY <1>8, <1>10, <2>1 DEF SessionInv, LeaseIsExclusive
<1>19. DecisionDurable'
  <2>1. \A f \in Entries(queue) : \E h \in Entries(queue') : h.id = f.id /\ h.type = f.type
    BY <1>6, <1>9
  <2> QED
    BY <1>2, <2>1, DurableKept DEF SessionInv
<1>20. IsFiniteSet(Begun)' /\ Over
  BY <1>2 DEF SessionInv, Begun, Over
<1> QED
  BY <1>12, <1>13, <1>15, <1>16, <1>17, <1>18, <1>19, <1>20 DEF Kept, SessionInv

\* A lease that runs out takes every holder with it, and no scaffold is under way for it.
LEMMA ExpireKeeps ==
  ASSUME SessionInv, NEW i \in DOMAIN queue, Expire(i), UNCHANGED faults \/ Fault
  PROVE  Kept
<1> USE DEF disk, browser
<1>1. /\ UNCHANGED <<snap, source, receipt, up, epoch, preflight, wire, sent, handed>> /\ queue[i].leased
      /\ ~\E p \in preflight : p.id = queue[i].id /\ queue[i].type = "generate"
  BY DEF Expire
<1>2. /\ queue \in Seq(EntryRow) /\ Distinct(queue) /\ agent \in [Agents -> AgentRow(epoch)]
      /\ preflight \subseteq PreflightRow
  BY DEF SessionInv, Typed, QueueFits
<1> DEFINE old == queue[i]
           e == [old EXCEPT !.leased = FALSE]
<1>3. old \in EntryRow /\ old \in Entries(queue)
  BY <1>2, ElementOfSeq DEF Entries
<1>4. e \in EntryRow /\ e.id = old.id /\ e.type = old.type /\ e.ready = old.ready
  BY <1>3 DEF EntryRow
<1>5. queue' = [queue EXCEPT ![i] = e] /\ agent' = Released(old.id, {old.type})
  BY DEF Expire
<1> HIDE DEF e
<1>6. /\ queue' \in Seq(EntryRow) /\ Distinct(queue') /\ e \in Entries(queue')
      /\ \A f \in Entries(queue') : f = e \/ f \in Entries(queue)
      /\ \A f \in Entries(queue) : f # old => f \in Entries(queue')
  <2>1. e.id = queue[i].id /\ e.type = queue[i].type
    BY <1>4
  <2>2. /\ [queue EXCEPT ![i] = e] \in Seq(EntryRow)
        /\ \A f \in Entries([queue EXCEPT ![i] = e]) : f = e \/ \E h \in Entries(queue) : f = h
        /\ e \in Entries([queue EXCEPT ![i] = e])
        /\ \A f \in Entries(queue) : f # queue[i] => f \in Entries([queue EXCEPT ![i] = e])
        /\ Distinct(queue) => Distinct([queue EXCEPT ![i] = e])
    BY <1>2, <1>4, <2>1, Changed
  <2> QED
    BY <1>2, <1>5, <2>2
<1>7. /\ agent' \in [Agents -> AgentRow(epoch)]
      /\ \A a \in Agents :
           /\ SameWork(agent[a], agent'[a])
           /\ agent'[a].held => agent[a].held /\ ~(agent[a].id = old.id /\ agent[a].type = old.type)
  <2> HIDE DEF SessionInv, old
  <2> QED
    BY <1>2, <1>5, ReleasedIs
<1>8. ~\E p \in preflight : p.id = old.id /\ old.type = "generate"
  BY <1>1
<1> HIDE DEF old
<1>9. Calm /\ Onward
  BY <1>1, Stays DEF Quiet, Calm
<1>10. faults' \in 0 .. MaxFaults /\ faults' >= faults
  BY BoundsAssumption DEF SessionInv, Typed, Fault
<1>11. Typed' /\ EpochBound' /\ SessionsFit' /\ WireFits'
  <2>1. Typed'
    BY <1>1, <1>6, <1>7, <1>10 DEF SessionInv, Typed
  <2>2. EpochBound'
    BY <1>1, <1>10, BoundsAssumption DEF SessionInv, Typed, EpochBound
  <2> QED
    BY <1>1, <2>1, <2>2 DEF SessionInv, SessionsFit, WireFits
<1>12. QueueFits'
  BY <1>2, <1>3, <1>4, <1>6, <1>9, QueueKept DEF SessionInv
<1>13. PreflightFits'
  BY <1>1, <1>2, <1>4, <1>6, <1>8, <1>9, PreflightKept DEF SessionInv
<1>14. AgentsFit'
  BY <1>7, <1>9, AgentsGoOn DEF SessionInv
<1>15. Loosened
  BY <1>7 DEF Loosened, SameWork
<1>16. LeasesFit' /\ LeaseIsExclusive'
  BY <1>1, <1>6, <1>7, <1>15, LeasesKept, LeasesLoosen DEF SessionInv
<1>17. DecisionDurable'
  <2>1. \A f \in Entries(queue) : \E h \in Entries(queue') : h.id = f.id /\ h.type = f.type
    BY <1>4, <1>6
  <2> QED
    BY <1>1, <2>1, DurableKept DEF SessionInv
<1>18. IsFiniteSet(Begun)' /\ Over
  BY <1>1 DEF SessionInv, Begun, Over
<1> QED
  BY <1>11, <1>12, <1>13, <1>14, <1>16, <1>17, <1>18 DEF Kept, SessionInv

\* The scaffold is of an open session that nothing was written of yet.
LEMMA ScaffoldKeeps ==
  ASSUME SessionInv, NEW p \in preflight, PreflightDone(p)
  PROVE  Kept
<1> USE DEF disk, browser
<1> DEFINE s == p.id
           b == p.agent
           r == ApplyGenerate(snap[s], TRUE)
<1>1. /\ UNCHANGED <<source, receipt, up, epoch, wire, sent, faults, handed>> /\ preflight' = preflight \ {p}
  BY DEF PreflightDone
<1>2. /\ queue \in Seq(EntryRow) /\ Distinct(queue) /\ agent \in [Agents -> AgentRow(epoch)]
      /\ preflight \subseteq PreflightRow /\ snap \in [Sessions -> SnapRow] /\ wire \subseteq RequestRow
  BY DEF SessionInv, Typed, QueueFits
<1>3. /\ s \in Sessions /\ b \in Agents /\ snap[s] \in SnapRow
      /\ Fits(snap[s], source[s]) /\ snap[s].phase # "new" /\ ~snap[s].ready /\ sent[s] # 0
  BY <1>2 DEF PreflightRow, SessionInv, PreflightFits, SessionsFit
<1>4. source[s] = "plain" /\ ~snap[s].canceled /\ snap[s].phase \notin CompletedPhases
  BY <1>3 DEF Fits, Decided, CompletedPhases
<1>5. r \in SnapRow /\ Fits(r, source[s]) /\ r.phase # "new" /\ r.ready = TRUE /\ ~r.canceled
  <2>1. TRUE \in BOOLEAN
    OBVIOUS
  <2> QED
    BY <1>3, <1>4, <2>1, GenerateFits
<1>6. snap' = [snap EXCEPT ![s] = r]
  BY <1>2, <1>3 DEF PreflightDone
<1> DEFINE ready(e) == IF IsGeneration(e, s) THEN [e EXCEPT !.ready = TRUE] ELSE e
<1>7. queue' = [i \in DOMAIN queue |-> ready(queue[i])]
  BY DEF PreflightDone, IsGeneration
<1>8. \A e \in EntryRow :
        /\ ready(e) \in EntryRow /\ ready(e).id = e.id /\ ready(e).type = e.type
        /\ ready(e).leased = e.leased
        /\ ready(e).ready = IF IsGeneration(e, s) THEN TRUE ELSE e.ready
  BY DEF EntryRow
<1> HIDE DEF r, ready
<1>9. snap' \in [Sessions -> SnapRow] /\ snap'[s] = r /\ \A t \in Sessions : t # s => snap'[t] = snap[t]
  BY <1>2, <1>3, <1>5, <1>6, OneSession
<1>10. Onward
  BY <1>1, <1>5, <1>9 DEF Onward
<1>11. /\ queue' \in Seq(EntryRow) /\ DOMAIN queue' = DOMAIN queue
       /\ \A i \in DOMAIN queue : queue[i] \in EntryRow /\ queue'[i] = ready(queue[i])
  <2>1. \A i \in DOMAIN queue : queue[i] \in EntryRow
    BY <1>2, ElementOfSeq
  <2>2. DOMAIN queue = 1 .. Len(queue) /\ Len(queue) \in Nat
    BY <1>2, LenProperties
  <2>3. queue' \in [1 .. Len(queue) -> EntryRow]
    BY <1>7, <1>8, <2>1, <2>2
  <2>4. queue' \in Seq(EntryRow)
    BY <2>2, <2>3, SeqDef
  <2> QED
    BY <1>7, <2>1, <2>4
<1>12. /\ Distinct(queue')
       /\ \A f \in Entries(queue') : \E e \in Entries(queue) : e \in EntryRow /\ f = ready(e)
       /\ \A e \in Entries(queue) : e \in EntryRow /\ ready(e) \in Entries(queue')
  <2>1. Distinct(queue')
    <3>1. \A i \in DOMAIN queue : queue'[i].id = queue[i].id /\ queue'[i].type = queue[i].type
      BY <1>8, <1>11
    <3>2. DOMAIN queue' = DOMAIN queue
      BY <1>11
    <3>3. \A i, j \in DOMAIN queue : queue[i].id = queue[j].id /\ queue[i].type = queue[j].type => i = j
      BY <1>2 DEF Distinct
    <3> QED
      BY <3>1, <3>2, <3>3 DEF Distinct
  <2> QED
    BY <1>11, <2>1 DEF Entries
<1>13. /\ agent' \in [Agents -> AgentRow(epoch)]
       /\ \A a \in Agents : a # b => agent'[a] = agent[a]
       /\ agent'[b].id = agent[b].id /\ agent'[b].type = agent[b].type /\ agent'[b].held = agent[b].held
       /\ \/ agent'[b] = agent[b]
          \/ agent[b].at = "waiting" /\ agent[b].id = s /\ agent'[b].at = "work"
             /\ agent'[b].result = agent[b].result
  <2>1. CASE agent' = agent
    BY <1>2, <2>1
  <2>2. CASE agent[b].at = "waiting" /\ agent[b].id = s /\ Step(b, "work")
    <3> DEFINE g == [agent[b] EXCEPT !.at = "work"]
    <3>1. agent' = [agent EXCEPT ![b] = g]
      BY <2>2 DEF Step
    <3>2. /\ g \in AgentRow(epoch) /\ g.at = "work" /\ g.id = agent[b].id /\ g.type = agent[b].type
          /\ g.result = agent[b].result /\ g.held = agent[b].held
      BY <1>2, <1>3 DEF AgentRow, AgentAt
    <3> HIDE DEF g
    <3> QED
      BY <1>2, <1>3, <2>2, <3>1, <3>2
  <2> QED
    BY <2>1, <2>2 DEF PreflightDone
<1>14. Typed' /\ EpochBound'
  BY <1>1, <1>9, <1>11, <1>13 DEF SessionInv, Typed, EpochBound
<1>15. SessionsFit'
  BY <1>1, <1>2, <1>3, <1>5, <1>6, SessionsGoOn DEF SessionInv
<1>16. QueueFits'
  <2>1. ASSUME NEW e \in Entries(queue), e \in EntryRow
        PROVE  EntryFits(ready(e), snap'[ready(e).id], source'[ready(e).id])
    <3>1. EntryFits(e, snap[e.id], source[e.id]) /\ e.id \in Sessions
      BY <2>1 DEF SessionInv, QueueFits, EntryRow
    <3>2. CASE e.id = s
      BY <1>1, <1>5, <1>8, <1>9, <2>1, <3>1, <3>2 DEF EntryFits, IsGeneration
    <3>3. CASE e.id # s
      BY <1>1, <1>8, <1>9, <2>1, <3>1, <3>3 DEF EntryFits, IsGeneration
    <3> QED
      BY <3>2, <3>3
  <2> QED
    BY <1>12, <2>1 DEF QueueFits
<1>17. PreflightFits'
  <2>1. ASSUME NEW q \in preflight'
        PROVE  /\ snap'[q.id].phase # "new" /\ ~snap'[q.id].ready
               /\ \A f \in Entries(queue') : IsGeneration(f, q.id) => f.leased
    <3>1. q \in preflight /\ q.id \in Sessions /\ q.id # s
      BY <1>1, <1>2 DEF SessionInv, PreflightFits, PreflightRow
    <3>2. snap'[q.id] = snap[q.id]
      BY <1>9, <3>1
    <3>3. \A f \in Entries(queue') : IsGeneration(f, q.id) => f.leased
      <4> SUFFICES ASSUME NEW f \in Entries(queue'), IsGeneration(f, q.id) PROVE f.leased
        OBVIOUS
      <4>1. PICK e \in Entries(queue) : e \in EntryRow /\ f = ready(e)
        BY <1>12
      <4>2. f.id = e.id /\ f.type = e.type /\ f.leased = e.leased
        BY <1>8, <4>1
      <4>3. IsGeneration(e, q.id)
        BY <4>2 DEF IsGeneration
      <4> QED
        BY <3>1, <4>2, <4>3 DEF SessionInv, PreflightFits
    <3> QED
      BY <3>1, <3>2, <3>3 DEF SessionInv, PreflightFits
  <2> QED
    BY <1>1, <2>1 DEF SessionInv, PreflightFits
<1>18. WireFits'
  <2>1. \A m \in wire : m.kind = "generate" => snap'[m.id].phase = "new"
    BY <1>2, <1>3, <1>9 DEF SessionInv, WireFits, RequestFits, RequestRow
  <2> QED
    BY <1>1, <1>2, <1>10, <2>1, WireKept DEF SessionInv
<1>19. AgentsFit'
  <2>1. \A a \in Agents : a # b => SameWork(agent[a], agent'[a])
    BY <1>13 DEF SameWork
  <2>2. CASE agent'[b] = agent[b]
    <3>1. SameWork(agent[b], agent'[b])
      BY <2>2 DEF SameWork
    <3> QED
      BY <1>10, <2>1, <3>1, AgentsGoOn DEF SessionInv
  <2>3. CASE agent'[b].at = "work" /\ agent[b].at = "waiting" /\ agent[b].id = s
    <3>1. RowFits(agent[b]) /\ Knows(agent[b], snap[s], source[s])
      BY <1>3, <2>3 DEF SessionInv, AgentsFit
    <3>2. RowFits(agent'[b])
      BY <1>13, <2>3, <3>1 DEF RowFits
    <3>3. Knows(agent'[b], snap'[agent'[b].id], source'[agent'[b].id])
      BY <1>1, <1>5, <1>9, <1>13, <2>3, <3>1 DEF Knows
    <3> QED
      BY <1>10, <2>1, <3>2, <3>3, AgentsGoOn DEF SessionInv
  <2> QED
    BY <1>13, <2>2, <2>3
<1>20. LeasesFit' /\ LeaseIsExclusive'
  <2>1. Loosened
    BY <1>13 DEF Loosened
  <2>2. preflight' \subseteq preflight
    BY <1>1
  <2>3. \A e \in Entries(queue) : e.leased =>
          \E f \in Entries(queue') : f.id = e.id /\ f.type = e.type /\ f.leased
    BY <1>8, <1>12
  <2> QED
    BY <1>1, <2>1, <2>2, <2>3, LeasesKept, LeasesLoosen DEF SessionInv
<1>21. DecisionDurable'
  <2>1. \A e \in Entries(queue) : \E f \in Entries(queue') : f.id = e.id /\ f.type = e.type
    BY <1>8, <1>12
  <2> QED
    BY <1>1, <1>5, <1>9, <2>1, DurableKept DEF SessionInv
<1>22. IsFiniteSet(Begun)'
  BY <1>2, <1>3, <1>6, BegunGrows DEF SessionInv
<1>23. Over
  BY <1>4, <1>9 DEF Over
<1> QED
  BY <1>14, <1>15, <1>16, <1>17, <1>18, <1>19, <1>20, <1>21, <1>22, <1>23 DEF Kept, SessionInv

-----------------------------------------------------------------------------
(* Replies.                                                                *)

\* What a reply acknowledges, and what it leaves behind.
LEMMA Replied ==
  ASSUME NEW e \in Nat, agent \in [Agents -> AgentRow(e)], queue \in Seq(EntryRow), Distinct(queue),
         NEW a \in Agents, NEW id, NEW kind, NEW type, NEW next \in AgentRow(e), ~next.held,
         ServeReply(a, id, kind, type, next)
  PROVE  \E ack \in EventTypes \cup {"none"} :
           /\ queue' \in Seq(EntryRow) /\ Distinct(queue')
           /\ Entries(queue') = {f \in Entries(queue) : ~(f.id = id /\ f.type = ack)}
           /\ ack = "none" => queue' = queue
           /\ ack # "none" => Len(queue') < Len(queue) /\ type \in {ack, "any"}
           /\ snap' = IF ack = "none" /\ snap[id].phase \in CompletedPhases THEN snap
                      ELSE [snap EXCEPT ![id] = ApplyReply(snap[id], kind, ack)]
           /\ agent' \in [Agents -> AgentRow(e)] /\ agent'[a] = next
           /\ \A b \in Agents : b # a => SameWork(agent[b], agent'[b])
           /\ \A b \in Agents : agent'[b].held =>
                agent[b].held /\ ~(agent[b].id = id /\ agent[b].type = ack)
                /\ agent'[b].id = agent[b].id /\ agent'[b].type = agent[b].type
<1> DEFINE acked == Matching(id, type)
           ack == IF acked = {} THEN "none" ELSE queue[First(acked)].type
<1>1. /\ queue' = IF acked = {} THEN queue ELSE RemoveAt(queue, First(acked))
      /\ snap' = IF acked = {} /\ snap[id].phase \in CompletedPhases THEN snap
                 ELSE [snap EXCEPT ![id] = ApplyReply(snap[id], kind, ack)]
      /\ agent' = [Released(id, {ack}) EXCEPT ![a] = next]
  <2> USE DEF ServeReply
  <2> QED
    BY Zenon
<1>2. acked \in SUBSET (1 .. Len(queue)) /\ Len(queue) \in Nat /\ DOMAIN queue = 1 .. Len(queue)
  BY LenProperties DEF Matching
<1>3. \A i \in DOMAIN queue : queue[i] \in EntryRow
  BY ElementOfSeq
<1>4. "none" \notin EventTypes
  BY DEF EventTypes, Decisions
<1>5. /\ queue' \in Seq(EntryRow) /\ Distinct(queue') /\ ack \in EventTypes \cup {"none"}
      /\ Entries(queue') = {f \in Entries(queue) : ~(f.id = id /\ f.type = ack)}
      /\ ack = "none" => queue' = queue
      /\ ack # "none" => Len(queue') < Len(queue) /\ type \in {ack, "any"}
      /\ ack = "none" <=> acked = {}
  <2>1. CASE acked = {}
    <3>1. queue' = queue /\ ack = "none"
      BY <1>1, <2>1
    <3>2. Entries(queue) = {f \in Entries(queue) : ~(f.id = id /\ f.type = "none")}
      BY <1>3, <1>4 DEF Entries, EntryRow
    <3> QED
      BY <2>1, <3>1, <3>2
  <2>2. CASE acked # {}
    <3> DEFINE i == First(acked)
    <3>1. i \in acked
      BY <1>2, <2>2, FirstOf
    <3>2. i \in DOMAIN queue /\ queue[i].id = id /\ type \in {queue[i].type, "any"}
      BY <3>1 DEF Matching
    <3>3. queue' = RemoveAt(queue, i) /\ ack = queue[i].type
      BY <1>1, <2>2
    <3> HIDE DEF i, ack, acked
    <3>4. ack \in EventTypes
      BY <1>3, <3>2, <3>3 DEF EntryRow
    <3>5. /\ RemoveAt(queue, i) \in Seq(EntryRow) /\ Len(RemoveAt(queue, i)) < Len(queue)
          /\ Entries(RemoveAt(queue, i)) =
               {f \in Entries(queue) : ~(f.id = queue[i].id /\ f.type = queue[i].type)}
          /\ Distinct(RemoveAt(queue, i))
      BY <3>2, Removed
    <3> QED
      BY <1>4, <2>2, <3>2, <3>3, <3>4, <3>5
  <2> QED
    BY <2>1, <2>2
<1> HIDE DEF ack, acked
<1>6. /\ Released(id, {ack}) \in [Agents -> AgentRow(e)]
      /\ \A b \in Agents :
           /\ SameWork(agent[b], Released(id, {ack})[b])
           /\ Released(id, {ack})[b].held => agent[b].held /\ ~(agent[b].id = id /\ agent[b].type = ack)
  BY ReleasedIs
<1>7. /\ agent' \in [Agents -> AgentRow(e)] /\ agent'[a] = next
      /\ \A b \in Agents : b # a => agent'[b] = Released(id, {ack})[b]
  BY <1>1, <1>6
<1>8. /\ \A b \in Agents : b # a => SameWork(agent[b], agent'[b])
      /\ \A b \in Agents : agent'[b].held =>
           agent[b].held /\ ~(agent[b].id = id /\ agent[b].type = ack)
           /\ agent'[b].id = agent[b].id /\ agent'[b].type = agent[b].type
  BY <1>6, <1>7 DEF SameWork
<1> QED
  BY <1>1, <1>5, <1>7, <1>8

\* A reply, of an agent or of its poll process.
LEMMA ReplyKeeps ==
  ASSUME SessionInv, NEW a \in Agents, NEW id \in Sessions, snap[id].phase # "new",
         NEW kind, MayReply(kind, source[id]), NEW type,
         kind = "done" => type \in {"generate", "variant_mount_failed"},
         kind = "handoff" => type = "accept",
         handed' = IF kind = "handoff" THEN handed \cup {id} ELSE handed,
         NEW next \in AgentRow(epoch), ~next.held, RowFits(next),
         next.at # "idle" => next.id = id /\ next.at \in {"merge", "cleanup"} /\ source[id] # "plain",
         ServeReply(a, id, kind, type, next),
         UNCHANGED <<source, receipt, up, epoch, preflight, wire, sent, faults>>
  PROVE  Kept
<1>1. /\ queue \in Seq(EntryRow) /\ Distinct(queue) /\ agent \in [Agents -> AgentRow(epoch)]
      /\ snap \in [Sessions -> SnapRow] /\ epoch \in Nat
  BY BoundsAssumption DEF SessionInv, Typed, QueueFits
<1>2. PICK ack \in EventTypes \cup {"none"} :
           /\ queue' \in Seq(EntryRow) /\ Distinct(queue')
           /\ Entries(queue') = {f \in Entries(queue) : ~(f.id = id /\ f.type = ack)}
           /\ ack = "none" => queue' = queue
           /\ ack # "none" => Len(queue') < Len(queue) /\ type \in {ack, "any"}
           /\ snap' = IF ack = "none" /\ snap[id].phase \in CompletedPhases THEN snap
                      ELSE [snap EXCEPT ![id] = ApplyReply(snap[id], kind, ack)]
           /\ agent' \in [Agents -> AgentRow(epoch)] /\ agent'[a] = next
           /\ \A b \in Agents : b # a => SameWork(agent[b], agent'[b])
           /\ \A b \in Agents : agent'[b].held =>
                agent[b].held /\ ~(agent[b].id = id /\ agent[b].type = ack)
                /\ agent'[b].id = agent[b].id /\ agent'[b].type = agent[b].type
  <2> HIDE DEF SessionInv
  <2> QED
    BY <1>1, Replied
<1> DEFINE old == snap[id]
           over == ack = "none" /\ old.phase \in CompletedPhases
           r == IF over THEN old ELSE ApplyReply(old, kind, ack)
<1>3. old \in SnapRow /\ Fits(old, source[id])
  BY <1>1 DEF SessionInv, SessionsFit
<1>4. snap' = [snap EXCEPT ![id] = r]
  BY <1>1, <1>2
<1>5. Fits(r, source[id]) /\ Goes(old, r) /\ r.canceled = old.canceled
  <2>1. CASE over
    BY <1>3, <2>1 DEF Goes
  <2>2. CASE ~over
    <3>1. Fits(ApplyReply(old, kind, ack), source[id]) /\ Goes(old, ApplyReply(old, kind, ack))
      BY <1>3, ReplyFits
    <3>2. ApplyReply(old, kind, ack).canceled = old.canceled
      BY <1>3, ReplyCancels DEF MayReply
    <3> QED
      BY <2>2, <3>1, <3>2
  <2> QED
    BY <2>1, <2>2
<1>6. source[id] \notin Decided /\ old.canceled =>
        \/ r.phase \in {"agent_error", "discarded"}
        \/ r = old /\ (ack \in Decisions => ack = "accept" /\ id \in handed')
  <2>1. CASE over
    BY <2>1 DEF Decisions
  <2>2. CASE ~over /\ source[id] \notin Decided /\ old.canceled
    <3>1. \/ ApplyReply(old, kind, ack).phase \in {"agent_error", "discarded"}
          \/ ApplyReply(old, kind, ack) = old /\ (kind \in {"done", "handoff"} \/ ack = "generate")
      BY <1>3, <2>2, ReplyUndecided
    <3>2. /\ kind = "done" => ack \notin Decisions
          /\ kind = "handoff" => ack \in {"accept", "none"} /\ id \in handed'
      BY <1>2 DEF Decisions
    <3> QED
      BY <2>2, <3>1, <3>2 DEF Decisions
  <2> QED
    BY <2>1, <2>2
<1>7. old.phase \in CompletedPhases =>
        \/ r.phase \in CompletedPhases
        \/ r.phase = "agent_error" /\ Len(queue') < Len(queue)
  <2>1. old.phase \in CompletedPhases => \/ ApplyReply(old, kind, ack).phase \in CompletedPhases
                                         \/ ApplyReply(old, kind, ack).phase = "agent_error"
    BY <1>3, ReplyOver DEF MayReply
  <2> QED
    BY <1>2, <2>1
<1> HIDE DEF r, over
<1>8. snap'[id] = r /\ \A t \in Sessions : t # id => snap'[t] = snap[t]
  BY <1>1, <1>4, <1>5, OneSession DEF Goes
<1>9. DecisionDurable'
  <2>1. \A f \in Entries(queue) : f.id # id \/ f.type # ack => f \in Entries(queue')
    BY <1>2
  <2>2. source[id] = "wrapped" => source[id] \notin Decided
    BY DEF Decided
  <2>3. handed \subseteq handed'
    OBVIOUS
  <2> QED
    BY <1>5, <1>6, <1>8, <2>1, <2>2, <2>3, DurableKept DEF SessionInv
<1>10. Over
  BY <1>7, <1>8 DEF Over
<1>11. Loosened
  BY <1>2 DEF Loosened
<1>12. \A b \in Agents :
         \/ agent'[b].at = "idle"
         \/ SameWork(agent[b], agent'[b])
         \/ RowFits(agent'[b]) /\ Knows(agent'[b], snap'[agent'[b].id], source'[agent'[b].id])
  <2>1. next.at # "idle" => Knows(next, snap'[next.id], source'[next.id])
    BY <1>5, <1>8 DEF Knows, Goes
  <2> QED
    BY <1>2, <2>1
<1>13. \A f \in Entries(queue), b \in Agents :
         agent'[b].held /\ f.id = agent[b].id /\ f.type = agent[b].type => f \in Entries(queue')
  BY <1>2
<1>14. handed' \subseteq Sessions
  BY DEF SessionInv, Typed
<1> QED
  BY <1>1, <1>2, <1>4, <1>5, <1>9, <1>10, <1>11, <1>12, <1>13, <1>14, RowKeeps

\* An agent that is not idle, and what it knows of its session.
LEMMA AgentKnown ==
  ASSUME SessionInv, NEW a \in Agents, agent[a].at # "idle"
  PROVE  /\ agent[a] \in AgentRow(epoch) /\ RowFits(agent[a]) /\ agent[a].id \in Sessions
         /\ Knows(agent[a], snap[agent[a].id], source[agent[a].id])
         /\ snap[agent[a].id].phase # "new"
         /\ Fits(snap[agent[a].id], source[agent[a].id])
<1>1. agent[a] \in AgentRow(epoch)
  BY DEF SessionInv, Typed
<1>2. RowFits(agent[a]) /\ Knows(agent[a], snap[agent[a].id], source[agent[a].id])
  BY DEF SessionInv, AgentsFit
<1>3. agent[a].id \in Sessions /\ snap[agent[a].id].phase # "new"
  BY <1>2 DEF RowFits, Knows
<1> QED
  BY <1>1, <1>2, <1>3 DEF SessionInv, SessionsFit

\* An idle agent claims nothing.
LEMMA IdleFits ==
  ASSUME NEW e \in Nat
  PROVE  IdleAgent \in AgentRow(e) /\ IdleAgent.at = "idle" /\ ~IdleAgent.held /\ RowFits(IdleAgent)
BY DEF IdleAgent, AgentRow, AgentAt, Results, RowFits

\* An agent answers a generation or a mount failure.
LEMMA AnswerKeeps ==
  ASSUME SessionInv, NEW a \in Agents, Reply(a)
  PROVE  Kept
<1> USE DEF browser
<1> DEFINE id == agent[a].id
<1>1. epoch \in Nat /\ agent[a].at = "work"
  BY BoundsAssumption DEF SessionInv, Typed, Reply
<1>2. id \in Sessions /\ snap[id].phase # "new"
  BY <1>1, AgentKnown
<1>3. PICK kind \in {"done", "error"} : ServeReply(a, id, kind, Infer(id, kind), IdleAgent)
  BY DEF Reply
<1>4. UNCHANGED <<source, receipt, up, epoch, preflight, wire, sent, faults, handed>>
  BY DEF Reply
<1>5. kind = "done" => Infer(id, kind) \in {"generate", "variant_mount_failed"}
  BY DEF Infer
<1>6. MayReply(kind, source[id])
  BY DEF MayReply, Replies
<1> QED
  BY <1>1, <1>2, <1>3, <1>4, <1>5, <1>6, IdleFits, ReplyKeeps

\* The bound on start numbers, of any numbers.
StartsWithin(start, stops, running) == start <= IF running THEN stops + 1 ELSE stops

LEMMA StartsStayWithin ==
  ASSUME NEW start \in Nat, NEW stops \in Nat, NEW later \in Nat, later >= stops, NEW running,
         StartsWithin(start, stops, running)
  PROVE  StartsWithin(start, later, running)
BY DEF StartsWithin

\* No fault is taken back.
LEMMA BoundKept ==
  ASSUME epoch \in Nat, faults \in Nat, faults' \in Nat, faults' >= faults, UNCHANGED <<up, epoch>>,
         EpochBound
  PROVE  EpochBound'
<1>1. StartsWithin(epoch, faults, up)
  BY DEF EpochBound, StartsWithin
<1>2. StartsWithin(epoch', faults', up')
  BY <1>1, StartsStayWithin
<1> QED
  BY <1>2 DEF EpochBound, StartsWithin

\* What an agent does without the server.
LEMMA OwnKeeps ==
  ASSUME SessionInv, UNCHANGED <<snap, up, epoch, queue, preflight, wire, sent, handed>>,
         UNCHANGED faults \/ Fault,
         source' \in [Sessions -> {"plain", "wrapped", "accepted", "restored"}],
         receipt' \in [Sessions -> {"none", "complete", "carbonize", "discarded"}],
         \A s \in Sessions :
           \/ source'[s] = source[s]
           \/ source[s] = "plain" /\ source'[s] = "wrapped" /\ snap[s].ready
           \/ source[s] = "wrapped" /\ source'[s] \in Decided,
         NEW a \in Agents, NEW g \in AgentRow(epoch), agent' = [agent EXCEPT ![a] = g],
         RowFits(g), Knows(g, snap[g.id], source'[g.id]),
         g.held => agent[a].held /\ g.id = agent[a].id /\ g.type = agent[a].type
  PROVE  Kept
<1>1. /\ agent' \in [Agents -> AgentRow(epoch)] /\ agent'[a] = g
      /\ \A b \in Agents : b # a => agent'[b] = agent[b]
  BY DEF SessionInv, Typed
<1>2. Quiet /\ Calm /\ Onward
  <2>1. \A s \in Sessions : source[s] # "plain" => source'[s] # "plain"
    BY DEF Decided
  <2>2. \A s \in Sessions : source[s] \in Decided => source'[s] \in Decided
    BY DEF Decided
  <2> QED
    BY <2>1, <2>2 DEF Quiet, Calm, Onward
<1>3. faults' \in 0 .. MaxFaults /\ faults' >= faults
  BY BoundsAssumption DEF SessionInv, Typed, Fault
<1>4. Typed' /\ EpochBound'
  <2>1. Typed'
    BY <1>1, <1>3 DEF SessionInv, Typed
  <2>2. epoch \in Nat /\ faults \in Nat /\ faults' \in Nat /\ UNCHANGED <<up, epoch>>
    BY <1>3, BoundsAssumption DEF SessionInv, Typed
  <2>3. EpochBound
    BY DEF SessionInv
  <2> QED
    BY <1>3, <2>1, <2>2, <2>3, BoundKept
<1>5. SessionsFit'
  <2>1. ASSUME NEW s \in Sessions PROVE Fits(snap[s], source'[s])
    <3>1. Fits(snap[s], source[s])
      BY DEF SessionInv, SessionsFit
    <3> QED
      BY <3>1 DEF Fits, Decided
  <2> QED
    BY <2>1 DEF SessionInv, SessionsFit
<1>6. QueueFits'
  BY <1>2, QueueKept DEF SessionInv, Typed, QueueFits
<1>7. PreflightFits'
  BY DEF SessionInv, PreflightFits
<1>8. WireFits'
  <2>1. \A m \in wire : m.kind = "generate" => snap'[m.id].phase = "new"
    BY DEF SessionInv, WireFits, RequestFits
  <2> QED
    BY <1>2, <2>1, WireKept DEF SessionInv, Typed
<1>9. AgentsFit'
  BY <1>1, <1>2, AgentsGoOn DEF SessionInv, SameWork
<1>10. Loosened
  BY <1>1 DEF Loosened
<1>11. LeasesFit' /\ LeaseIsExclusive'
  BY <1>10, LeasesKept, LeasesLoosen DEF SessionInv
<1>12. DecisionDurable'
  <2>1. \A s \in Sessions : snap[s].canceled /\ source'[s] = "wrapped" => source[s] = "wrapped"
    BY DEF SessionInv, SessionsFit, Fits, Decided
  <2> QED
    BY <2>1, DurableKept DEF SessionInv
<1>13. IsFiniteSet(Begun)' /\ Over
  BY DEF SessionInv, Begun, Over
<1> QED
  BY <1>4, <1>5, <1>6, <1>7, <1>8, <1>9, <1>11, <1>12, <1>13 DEF Kept, SessionInv

\* The agent writes variants of a scaffolded session.
LEMMA WrapKeeps ==
  ASSUME SessionInv, NEW a \in Agents, WriteVariants(a)
  PROVE  Kept
<1> USE DEF server, browser
<1> DEFINE id == agent[a].id
<1>1. /\ agent[a].at = "work" /\ agent[a].type = "generate" /\ source[id] = "plain"
      /\ source' = [source EXCEPT ![id] = "wrapped"]
      /\ UNCHANGED <<snap, receipt, up, epoch, queue, preflight, wire, sent, agent, faults, handed>>
  BY DEF WriteVariants
<1>2. /\ agent[a] \in AgentRow(epoch) /\ RowFits(agent[a]) /\ id \in Sessions
      /\ Knows(agent[a], snap[id], source[id])
  BY <1>1, AgentKnown
<1>3. /\ source' \in [Sessions -> {"plain", "wrapped", "accepted", "restored"}] /\ source'[id] = "wrapped"
      /\ \A s \in Sessions : s # id => source'[s] = source[s]
  BY <1>1, <1>2 DEF SessionInv, Typed
<1>4. agent' = [agent EXCEPT ![a] = agent[a]]
  BY <1>1 DEF SessionInv, Typed
<1>5. snap[id].ready /\ Knows(agent[a], snap[id], source'[id])
  BY <1>1, <1>2, <1>3 DEF Knows, Decisions
<1> QED
  BY <1>1, <1>2, <1>3, <1>4, <1>5, OwnKeeps DEF SessionInv, Typed

\* A killed agent leaves its lease to the timer.
LEMMA StopKeeps ==
  ASSUME SessionInv, NEW a \in Agents, AgentStop(a)
  PROVE  Kept
<1> USE DEF disk, server, browser
<1>1. /\ agent' = [agent EXCEPT ![a] = IdleAgent] /\ Fault
      /\ UNCHANGED <<snap, source, receipt, up, epoch, queue, preflight, wire, sent, handed>>
  BY DEF AgentStop
<1>2. epoch \in Nat
  BY BoundsAssumption DEF SessionInv, Typed
<1>3. Knows(IdleAgent, snap[IdleAgent.id], source'[IdleAgent.id])
  BY <1>2, IdleFits DEF Knows
<1> QED
  BY <1>1, <1>2, <1>3, IdleFits, OwnKeeps DEF SessionInv, Typed

\* An agent that applies a decision moves on to the next step or to its report.
LEMMA MoveKeeps ==
  ASSUME SessionInv, NEW a \in Agents, agent[a].at \in {"apply", "lock", "edit", "record"},
         NEW at \in {"lock", "edit", "record", "report"}, NEW result \in Results,
         \/ Step(a, at) /\ result = agent[a].result
         \/ Outcome(a, at, result),
         at = "record" => result \in {"complete", "carbonize", "discarded"},
         at = "report" => result # "none",
         at = "report" /\ result = "handoff" => agent[a].type = "accept",
         at = "report" /\ result \in {"complete", "carbonize"} => source'[agent[a].id] \in Decided,
         UNCHANGED <<snap, up, epoch, queue, preflight, wire, sent, handed>>, UNCHANGED faults \/ Fault,
         source' \in [Sessions -> {"plain", "wrapped", "accepted", "restored"}],
         receipt' \in [Sessions -> {"none", "complete", "carbonize", "discarded"}],
         \A s \in Sessions :
           source'[s] = source[s] \/ (source[s] = "wrapped" /\ source'[s] \in Decided)
  PROVE  Kept
<1> DEFINE id == agent[a].id
           g == Ending(At(agent[a], at), result)
<1>1. /\ agent[a] \in AgentRow(epoch) /\ RowFits(agent[a]) /\ id \in Sessions
      /\ Knows(agent[a], snap[id], source[id])
  BY AgentKnown
<1>2. at \in AgentAt
  BY DEF AgentAt
<1>3. agent' = [agent EXCEPT ![a] = g]
  <2>1. CASE Step(a, at) /\ result = agent[a].result
    <3>1. agent' = [agent EXCEPT ![a] = At(agent[a], at)]
      BY <2>1 DEF Step, At
    <3>2. Ending(At(agent[a], at), agent[a].result) = At(agent[a], at)
      BY <1>1, <1>2 DEF Ending, At, AgentRow
    <3> QED
      BY <2>1, <3>1, <3>2
  <2>2. CASE Outcome(a, at, result)
    <3>1. agent' = [agent EXCEPT ![a].at = at, ![a].result = result]
      BY <2>2 DEF Outcome
    <3>2. agent \in [Agents -> AgentRow(epoch)]
      BY DEF SessionInv, Typed
    <3> QED
      BY <3>1, <3>2 DEF At, Ending
  <2> QED
    BY <2>1, <2>2
<1>4. /\ g \in AgentRow(epoch) /\ g.at = at /\ g.id = id /\ g.type = agent[a].type
      /\ g.result = result /\ g.held = agent[a].held
  <2>1. \A h \in AgentRow(epoch) :
          /\ Ending(At(h, at), result) \in AgentRow(epoch)
          /\ Ending(At(h, at), result).at = at /\ Ending(At(h, at), result).id = h.id
          /\ Ending(At(h, at), result).type = h.type /\ Ending(At(h, at), result).result = result
          /\ Ending(At(h, at), result).held = h.held
    BY <1>2 DEF At, Ending, AgentRow
  <2> QED
    BY <1>1, <2>1
<1> HIDE DEF g
<1>5. agent[a].type \in Decisions
  BY <1>1 DEF RowFits
<1>6. RowFits(g)
  BY <1>1, <1>4, <1>5 DEF RowFits
<1>7. Knows(g, snap[g.id], source'[g.id])
  <2>1. source[id] # "plain" /\ snap[id].phase # "new"
    BY <1>1, <1>5 DEF Knows
  <2>2. source'[id] # "plain"
    BY <1>1, <2>1 DEF Decided
  <2> QED
    BY <1>1, <1>4, <2>1, <2>2 DEF Knows
<1> QED
  BY <1>1, <1>3, <1>4, <1>6, <1>7, OwnKeeps

\* What a decision that is not applied comes to.
LEMMA NotHandledIs ==
  ASSUME NEW type \in Decisions
  PROVE  /\ NotHandled(type) \in {"handoff", "error"}
         /\ NotHandled(type) = "handoff" => type = "accept"
BY DEF NotHandled

\* What the receipt and the source say before the lock is taken, and who gets the lock.
LEMMA ReadKeeps ==
  ASSUME SessionInv, ReceiptInv, NEW a \in Agents, ReadReceipt(a) \/ Lock(a)
  PROVE  Kept
<1> USE DEF disk, server, browser
<1> DEFINE id == agent[a].id
           type == agent[a].type
<1>1. agent[a].at \in {"apply", "lock"} /\ UNCHANGED <<snap, source, receipt, up, epoch, queue, preflight, wire, sent, faults, handed>>
  BY DEF ReadReceipt, Lock
<1>2. /\ RowFits(agent[a]) /\ id \in Sessions /\ Knows(agent[a], snap[id], source[id])
      /\ agent[a] \in AgentRow(epoch)
  BY <1>1, AgentKnown
<1>3. /\ type \in Decisions /\ source[id] # "plain" /\ agent[a].result \in Results
      /\ source[id] \in {"plain", "wrapped", "accepted", "restored"}
      /\ receipt[id] \in {"none", "complete", "carbonize", "discarded"}
  BY <1>1, <1>2 DEF RowFits, Knows, AgentRow, SessionInv, Typed
<1>4. receipt[id] # "none" => source[id] \in Decided
  BY <1>2 DEF ReceiptInv, ReceiptTellsTheTruth, Decided
<1>5. \/ \E at \in {"lock", "edit"} : Step(a, at)
      \/ \E result \in Results :
           /\ Outcome(a, "report", result) /\ result # "none"
           /\ result = "handoff" => type = "accept"
           /\ result \in {"complete", "carbonize"} => source[id] \in Decided
  <2>1. CASE ReadReceipt(a)
    <3>1. "error" \in Results /\ receipt[id] \in Results \ {"handoff"} /\ NotHandled(type) \in Results
      BY <1>3, NotHandledIs DEF Results
    <3>2. /\ NotHandled(type) \in {"handoff", "error"}
          /\ NotHandled(type) = "handoff" => type = "accept"
      BY <1>3, NotHandledIs
    <3>3. \/ receipt[id] # "none" /\ Outcome(a, "report", receipt[id])
          \/ Outcome(a, "report", "error")
          \/ Step(a, "lock")
          \/ Outcome(a, "report", NotHandled(type))
      BY <2>1 DEF ReadReceipt
    <3> QED
      BY <1>4, <3>1, <3>2, <3>3
  <2>2. CASE Lock(a)
    BY <2>2 DEF Lock, Results
  <2> QED
    BY <2>1, <2>2
<1>6. CASE \E at \in {"lock", "edit"} : Step(a, at)
  BY <1>1, <1>3, <1>6, MoveKeeps DEF SessionInv, Typed
<1>7. CASE \E result \in Results :
             /\ Outcome(a, "report", result) /\ result # "none"
             /\ result = "handoff" => type = "accept"
             /\ result \in {"complete", "carbonize"} => source[id] \in Decided
  BY <1>1, <1>7, MoveKeeps DEF SessionInv, Typed
<1> QED
  BY <1>5, <1>6, <1>7

\* The source is decided under the lock, or the decision is not applied.
LEMMA EditKeeps ==
  ASSUME SessionInv, NEW a \in Agents, EditSource(a)
  PROVE  Kept
<1> USE DEF server, browser
<1> DEFINE id == agent[a].id
           type == agent[a].type
<1>1. /\ agent[a].at = "edit"
      /\ UNCHANGED <<snap, receipt, up, epoch, queue, preflight, wire, sent, faults, handed>>
  BY DEF EditSource
<1>2. /\ RowFits(agent[a]) /\ id \in Sessions /\ Knows(agent[a], snap[id], source[id])
      /\ source \in [Sessions -> {"plain", "wrapped", "accepted", "restored"}]
      /\ receipt \in [Sessions -> {"none", "complete", "carbonize", "discarded"}]
  BY <1>1, AgentKnown DEF SessionInv, Typed
<1>3. type \in Decisions /\ source[id] # "plain"
  BY <1>1, <1>2 DEF RowFits, Knows
<1>4. \/ \E result \in {"complete", "carbonize", "discarded"}, decision \in Decided :
           /\ source[id] = "wrapped"
           /\ source' = [source EXCEPT ![id] = decision] /\ Outcome(a, "record", result)
      \/ Outcome(a, "report", NotHandled(type)) /\ source' = source
  BY DEF EditSource, Decided
<1>5. ASSUME NEW result \in {"complete", "carbonize", "discarded"}, NEW decision \in Decided,
             source[id] = "wrapped",
             source' = [source EXCEPT ![id] = decision], Outcome(a, "record", result)
      PROVE  Kept
  <2>1. result \in Results
    BY DEF Results
  <2>2. /\ source' \in [Sessions -> {"plain", "wrapped", "accepted", "restored"}]
        /\ \A s \in Sessions :
             source'[s] = source[s] \/ (source[s] = "wrapped" /\ source'[s] \in Decided)
    BY <1>2, <1>5 DEF Decided
  <2> QED
    BY <1>1, <1>2, <1>5, <2>1, <2>2, MoveKeeps
<1>6. CASE Outcome(a, "report", NotHandled(type)) /\ source' = source
  <2>1. /\ NotHandled(type) \in {"handoff", "error"} /\ NotHandled(type) \in Results
        /\ NotHandled(type) = "handoff" => type = "accept"
    BY <1>3, NotHandledIs DEF Results
  <2> QED
    BY <1>1, <1>2, <1>6, <2>1, MoveKeeps
<1> QED
  BY <1>4, <1>5, <1>6

\* The script fails: what is reported is an error.
LEMMA FailKeeps ==
  ASSUME SessionInv, NEW a \in Agents, AcceptFails(a)
  PROVE  Kept
<1> USE DEF disk, server, browser
<1>1. /\ agent[a].at \in {"apply", "lock", "edit", "record"} /\ Outcome(a, "report", "error") /\ Fault
      /\ UNCHANGED <<snap, source, receipt, up, epoch, queue, preflight, wire, sent, handed>>
  BY DEF AcceptFails
<1>2. "error" \in Results
  BY DEF Results
<1> QED
  BY <1>1, <1>2, MoveKeeps DEF SessionInv, Typed

\* The receipt is written of a source that is decided.
LEMMA RecordKeeps ==
  ASSUME SessionInv, ReceiptInv, NEW a \in Agents, WriteReceipt(a)
  PROVE  Kept
<1> USE DEF server, browser
<1> DEFINE id == agent[a].id
<1>1. /\ agent[a].at = "record" /\ receipt' = [receipt EXCEPT ![id] = agent[a].result]
      /\ Step(a, "report")
      /\ UNCHANGED <<snap, source, up, epoch, queue, preflight, wire, sent, faults, handed>>
  BY DEF WriteReceipt
<1>2. /\ RowFits(agent[a]) /\ id \in Sessions
      /\ source \in [Sessions -> {"plain", "wrapped", "accepted", "restored"}]
      /\ receipt \in [Sessions -> {"none", "complete", "carbonize", "discarded"}]
  BY <1>1, AgentKnown DEF SessionInv, Typed
<1>3. agent[a].result \in {"complete", "carbonize", "discarded"}
  BY <1>1, <1>2 DEF RowFits
<1>4. source[id] \in Decided
  BY <1>1, <1>2 DEF ReceiptInv, RecordHolds, DecidedAs, Decided
<1>5. receipt' \in [Sessions -> {"none", "complete", "carbonize", "discarded"}]
  BY <1>1, <1>2, <1>3
<1>6. agent[a].result \in Results /\ agent[a].result \notin {"none", "handoff"}
  BY <1>3 DEF Results
<1> QED
  BY <1>1, <1>2, <1>4, <1>5, <1>6, MoveKeeps

\* The result reaches the server, or is left to the agent.
LEMMA PostKeeps ==
  ASSUME SessionInv, NEW a \in Agents, PostResult(a)
  PROVE  Kept
<1> USE DEF browser
<1> DEFINE id == agent[a].id
           result == agent[a].result
           left(at) == Held(At(agent[a], at), FALSE)
<1>1. agent[a].at = "report" /\ UNCHANGED <<source, receipt, up, epoch, preflight, wire, sent, faults>>
  BY DEF PostResult
<1>2. PICK next :
        /\ next \in {left("merge"), left("cleanup"), IdleAgent}
        /\ \/ /\ ServeReply(a, id, result, agent[a].type, next)
              /\ handed' = IF result = "handoff" THEN handed \cup {id} ELSE handed
           \/ agent' = [agent EXCEPT ![a] = next] /\ UNCHANGED <<snap, queue, handed>>
  BY DEF PostResult, LeftTo, Held, At
<1>3. /\ agent[a] \in AgentRow(epoch) /\ RowFits(agent[a]) /\ id \in Sessions
      /\ Knows(agent[a], snap[id], source[id]) /\ snap[id].phase # "new" /\ epoch \in Nat
  BY <1>1, AgentKnown, BoundsAssumption DEF SessionInv, Typed
<1>4. /\ agent[a].type \in Decisions /\ result # "none" /\ result \in Results
      /\ agent[a].type \in EventTypes /\ source[id] # "plain"
      /\ result = "handoff" => agent[a].type = "accept"
      /\ result \in {"complete", "carbonize"} => source[id] \in Decided
  BY <1>1, <1>3 DEF RowFits, Knows, AgentRow
<1>5. ASSUME NEW at \in {"merge", "cleanup"}
      PROVE  /\ left(at) \in AgentRow(epoch) /\ left(at).at = at /\ left(at).id = id
             /\ left(at).type = agent[a].type /\ ~left(at).held
  BY <1>3 DEF Held, At, AgentRow, AgentAt
<1> HIDE DEF left
<1>6. ASSUME NEW at \in {"merge", "cleanup"}
      PROVE  RowFits(left(at)) /\ Knows(left(at), snap[id], source[id])
  BY <1>3, <1>4, <1>5 DEF RowFits, Knows
<1>7. MayReply(result, source[id]) /\ result # "done"
  BY <1>4 DEF MayReply, Replies, Results
<1>8. /\ next \in AgentRow(epoch) /\ ~next.held /\ RowFits(next)
      /\ next.at # "idle" => next.id = id /\ next.at \in {"merge", "cleanup"} /\ source[id] # "plain"
  BY <1>2, <1>3, <1>4, <1>5, <1>6, IdleFits
<1>9. Knows(next, snap[next.id], source[next.id])
  BY <1>2, <1>3, <1>5, <1>6, IdleFits DEF Knows
<1>10. CASE /\ ServeReply(a, id, result, agent[a].type, next)
            /\ handed' = IF result = "handoff" THEN handed \cup {id} ELSE handed
  BY <1>1, <1>3, <1>4, <1>7, <1>8, <1>10, ReplyKeeps
<1>11. CASE agent' = [agent EXCEPT ![a] = next] /\ UNCHANGED <<snap, queue, handed>>
  BY <1>1, <1>8, <1>9, <1>11, OwnKeeps DEF SessionInv, Typed
<1> QED
  BY <1>2, <1>10, <1>11

\* What was left to the agent's hand is decided by it, or is found decided.
LEMMA MergeKeeps ==
  ASSUME SessionInv, NEW a \in Agents, MergeByHand(a)
  PROVE  Kept
<1> USE DEF server, browser
<1> DEFINE id == agent[a].id
<1>1. /\ agent[a].at \in {"merge", "cleanup"}
      /\ UNCHANGED <<snap, receipt, up, epoch, queue, preflight, wire, sent, faults, handed>>
      /\ \/ UNCHANGED source
         \/ source[id] = "wrapped" /\ \E decision \in Decided : source' = [source EXCEPT ![id] = decision]
      /\ agent' = [agent EXCEPT ![a] = IdleAgent] \/ UNCHANGED agent
  BY DEF MergeByHand, Decided
<1>2. /\ agent[a] \in AgentRow(epoch) /\ RowFits(agent[a]) /\ id \in Sessions
      /\ Knows(agent[a], snap[id], source[id]) /\ epoch \in Nat
      /\ source \in [Sessions -> {"plain", "wrapped", "accepted", "restored"}]
      /\ receipt \in [Sessions -> {"none", "complete", "carbonize", "discarded"}]
      /\ agent \in [Agents -> AgentRow(epoch)]
  BY <1>1, AgentKnown, BoundsAssumption DEF SessionInv, Typed
<1>3. /\ source' \in [Sessions -> {"plain", "wrapped", "accepted", "restored"}]
      /\ \A s \in Sessions : source'[s] = source[s] \/ (source[s] = "wrapped" /\ source'[s] \in Decided)
  BY <1>1, <1>2 DEF Decided
<1>4. Knows(agent[a], snap[id], source'[id])
  BY <1>1, <1>2, <1>3 DEF Knows, Decided
<1>5. CASE UNCHANGED agent
  <2>1. agent' = [agent EXCEPT ![a] = agent[a]]
    BY <1>2, <1>5
  <2> QED
    BY <1>1, <1>2, <1>3, <1>4, <2>1, OwnKeeps
<1>6. CASE agent' = [agent EXCEPT ![a] = IdleAgent]
  <2>1. Knows(IdleAgent, snap[IdleAgent.id], source'[IdleAgent.id])
    BY <1>2, IdleFits DEF Knows
  <2> QED
    BY <1>1, <1>2, <1>3, <1>6, <2>1, IdleFits, OwnKeeps
<1> QED
  BY <1>1, <1>5, <1>6

\* The end of a session, through the server or straight into its journal.
LEMMA CompleteKeeps ==
  ASSUME SessionInv, NEW a \in Agents, Complete(a)
  PROVE  Kept
<1> USE DEF browser
<1> DEFINE id == agent[a].id
           kind == IF agent[a].type = "discard" THEN "discarded" ELSE "complete"
<1>1. /\ agent[a].at = "cleanup" /\ (kind = "complete" => source[id] # "wrapped")
      /\ UNCHANGED <<source, receipt, up, epoch, preflight, wire, sent, faults, handed>>
  BY DEF Complete
<1>2. \/ ServeReply(a, id, kind, Infer(id, kind), IdleAgent)
      \/ /\ snap' = [snap EXCEPT ![id] = ApplyReply(@, kind, "none")]
         /\ agent' = [agent EXCEPT ![a] = IdleAgent] /\ UNCHANGED queue
  BY DEF Complete
<1>3. /\ id \in Sessions /\ Knows(agent[a], snap[id], source[id]) /\ snap[id].phase # "new"
      /\ Fits(snap[id], source[id]) /\ epoch \in Nat /\ snap \in [Sessions -> SnapRow]
      /\ agent \in [Agents -> AgentRow(epoch)]
  BY <1>1, AgentKnown, BoundsAssumption DEF SessionInv, Typed
<1>4. source[id] # "plain" /\ (kind = "complete" => source[id] \in Decided)
  <2>1. agent[a].type \in Decisions
    BY <1>1, <1>3, AgentKnown DEF RowFits
  <2>2. source[id] \in {"plain", "wrapped", "accepted", "restored"}
    BY <1>3 DEF SessionInv, Typed
  <2> QED
    BY <1>1, <1>3, <2>1, <2>2 DEF Knows, Decided
<1>5. MayReply(kind, source[id]) /\ kind \in {"complete", "discarded"}
  BY <1>4 DEF MayReply, Replies
<1>6. CASE ServeReply(a, id, kind, Infer(id, kind), IdleAgent)
  BY <1>1, <1>3, <1>5, <1>6, IdleFits, ReplyKeeps
<1>7. CASE /\ snap' = [snap EXCEPT ![id] = ApplyReply(@, kind, "none")]
           /\ agent' = [agent EXCEPT ![a] = IdleAgent] /\ UNCHANGED queue
  <2> DEFINE phase == IF kind = "complete" THEN "completed" ELSE "discarded"
             r == ApplyEnd(snap[id], phase)
  <2>1. snap' = [snap EXCEPT ![id] = r]
    BY <1>3, <1>7 DEF ApplyReply
  <2>2. /\ Fits(r, source[id]) /\ Goes(snap[id], r) /\ r.phase \in CompletedPhases /\ r \in SnapRow
        /\ kind = "discarded" => r.phase = "discarded"
    BY <1>3, <1>4, EndFits DEF CompletedPhases, Goes
  <2> HIDE DEF r
  <2>3. snap'[id] = r /\ \A t \in Sessions : t # id => snap'[t] = snap[t]
    BY <1>3, <2>1, <2>2, OneSession
  <2>4. agent' \in [Agents -> AgentRow(epoch)] /\ agent'[a] = IdleAgent
        /\ \A b \in Agents : b # a => agent'[b] = agent[b]
    BY <1>3, <1>7, IdleFits
  <2>5. Loosened /\ \A b \in Agents : agent'[b].at = "idle" \/ SameWork(agent[b], agent'[b])
    BY <1>3, <2>4, IdleFits DEF Loosened, SameWork
  <2>6. DecisionDurable'
    <3>1. source'[id] # "wrapped" \/ snap'[id].phase = "discarded"
      BY <1>1, <1>4, <2>2, <2>3 DEF Decided
    <3> QED
      BY <1>1, <1>7, <2>3, <3>1, DurableKept DEF SessionInv
  <2>7. Over
    BY <2>2, <2>3 DEF Over
  <2>8. queue' \in Seq(EntryRow) /\ Distinct(queue') /\ Entries(queue') = Entries(queue)
    BY <1>7 DEF SessionInv, Typed, QueueFits
  <2>9. handed' \subseteq Sessions
    BY <1>1 DEF SessionInv, Typed
  <2> QED
    BY <1>1, <1>3, <2>1, <2>2, <2>4, <2>5, <2>6, <2>7, <2>8, <2>9, RowKeeps
<1> QED
  BY <1>2, <1>6, <1>7

\* Every step of an agent.
LEMMA AgentKeeps ==
  ASSUME SessionInv, ReceiptInv, NEW a \in Agents, AgentStep(a)
  PROVE  Kept
BY PollKeeps, WrapKeeps, AnswerKeeps, ReadKeeps, EditKeeps, RecordKeeps, PostKeeps,
   MergeKeeps, CompleteKeeps
DEF AgentStep

-----------------------------------------------------------------------------
(* Stops and restarts.                                                     *)

\* A stop takes the queue, the requests and the leases, and nothing of the journals.
LEMMA CrashKeeps ==
  ASSUME SessionInv, Crash
  PROVE  Kept
<1> USE DEF disk
<1>1. /\ up /\ up' = FALSE /\ queue' = <<>> /\ preflight' = {} /\ wire' = {} /\ Fault
      /\ UNCHANGED <<snap, source, receipt, epoch, sent>> /\ handed' = {}
      /\ agent' = [a \in Agents |-> IF agent[a].at = "waiting" THEN IdleAgent ELSE [agent[a] EXCEPT !.held = FALSE]]
  BY DEF Crash
<1>2. <<>> \in Seq(EntryRow) /\ Entries(<<>>) = {} /\ Distinct(<<>>)
  BY DEF Entries, Distinct
<1>3. agent \in [Agents -> AgentRow(epoch)] /\ epoch \in Nat /\ faults \in Nat /\ faults < MaxFaults
      /\ faults' = faults + 1 /\ faults' \in 0 .. MaxFaults
  BY <1>1, BoundsAssumption DEF SessionInv, Typed, Fault
<1>4. \A a \in Agents :
        /\ agent'[a] \in AgentRow(epoch) /\ ~agent'[a].held
        /\ agent'[a].at = "idle" \/ SameWork(agent[a], agent'[a])
  <2> SUFFICES ASSUME NEW a \in Agents
               PROVE  /\ agent'[a] \in AgentRow(epoch) /\ ~agent'[a].held
                      /\ agent'[a].at = "idle" \/ SameWork(agent[a], agent'[a])
    OBVIOUS
  <2>1. CASE agent[a].at = "waiting"
    BY <1>1, <1>3, <2>1, IdleFits
  <2>2. CASE agent[a].at # "waiting"
    <3>1. agent'[a] = [agent[a] EXCEPT !.held = FALSE]
      BY <1>1, <2>2
    <3> QED
      BY <1>3, <3>1 DEF AgentRow, SameWork
  <2> QED
    BY <2>1, <2>2
<1>5. Calm /\ Onward
  BY <1>1, Stays DEF Quiet, Calm
<1>6. Typed'
  <2>1. agent' \in [Agents -> AgentRow(epoch)]
    BY <1>1, <1>4
  <2> QED
    BY <1>1, <1>2, <1>3, <2>1 DEF SessionInv, Typed
<1>7. EpochBound'
  BY <1>1, <1>3 DEF SessionInv, EpochBound
<1>8. SessionsFit' /\ WireFits' /\ PreflightFits' /\ QueueFits'
  BY <1>1, <1>2 DEF SessionInv, SessionsFit, WireFits, PreflightFits, QueueFits
<1>9. AgentsFit'
  BY <1>4, <1>5, AgentsGoOn DEF SessionInv
<1>10. LeasesFit' /\ LeaseIsExclusive'
  BY <1>1, <1>4 DEF LeasesFit, LeaseIsExclusive
<1>11. DecisionDurable'
  BY <1>1, DurableKept DEF SessionInv
<1>12. IsFiniteSet(Begun)' /\ Over
  BY <1>1 DEF SessionInv, Begun, Over
<1> QED
  BY <1>6, <1>7, <1>8, <1>9, <1>10, <1>11, <1>12 DEF Kept, SessionInv

\* An order of a finite set lists each of its members, once.
LEMMA Listed ==
  ASSUME NEW P, IsFiniteSet(P), NEW order \in SetToSeqs(P)
  PROVE  /\ Cardinality(P) \in Nat /\ order \in [1 .. Cardinality(P) -> P]
         /\ \A i, j \in 1 .. Cardinality(P) : order[i] = order[j] => i = j
         /\ \A x \in P : \E i \in 1 .. Cardinality(P) : order[i] = x
<1> DEFINE n == Cardinality(P)
<1>1. n \in Nat
  BY FS_CardinalityType
<1>2. order \in [1 .. n -> P] /\ \A i, j \in 1 .. n : i # j => order[i] # order[j]
  BY DEF SetToSeqs
<1>3. order \in Injection(1 .. n, P)
  BY <1>2 DEF Injection, IsInjective
<1>4. Cardinality(1 .. n) = n
  <2>1. 1 \in Int /\ n \in Int
    BY <1>1
  <2>2. Cardinality(1 .. n) = IF 1 > n THEN 0 ELSE n - 1 + 1
    BY <2>1, FS_Interval
  <2> QED
    BY <1>1, <2>2
<1>5. order \in Surjection(1 .. n, P)
  BY <1>3, <1>4, FS_Injection
<1> QED
  BY <1>1, <1>2, <1>5 DEF Surjection

\* The queue is rebuilt of what the journals say is pending.
LEMMA RestartKeeps ==
  ASSUME SessionInv, Restart
  PROVE  Kept
<1> USE DEF disk, browser
<1>1. /\ ~up /\ up' = TRUE /\ epoch' = epoch + 1
      /\ UNCHANGED <<snap, source, receipt, preflight, wire, sent, agent, faults, handed>>
  BY DEF Restart
<1>2. PICK order \in SetToSeqs(Pending) :
        queue' = [i \in DOMAIN order |->
          Entry(order[i], snap[order[i]].pending, snap[order[i]].pending = "generate" => snap[order[i]].ready)]
  BY DEF Restart
<1>3. /\ snap \in [Sessions -> SnapRow] /\ agent \in [Agents -> AgentRow(epoch)]
      /\ epoch \in Nat /\ faults \in Nat /\ MaxFaults \in Nat /\ faults <= MaxFaults /\ epoch <= faults
      /\ 1 <= epoch
  BY <1>1, BoundsAssumption DEF SessionInv, Typed, EpochBound
<1>4. \A s \in Pending :
        /\ s \in Sessions /\ snap[s] \in SnapRow /\ snap[s].pending \in EventTypes
        /\ Fits(snap[s], source[s]) /\ snap[s].phase # "new"
  BY <1>3 DEF Pending, SessionInv, SessionsFit, Fits, SnapRow
<1>5. IsFiniteSet(Pending)
  <2>1. Pending \subseteq Begun
    BY <1>4 DEF Begun
  <2> QED
    BY <2>1, FS_Subset DEF SessionInv
<1> DEFINE n == Cardinality(Pending)
<1>6. /\ n \in Nat /\ order \in [1 .. n -> Pending]
      /\ \A i, j \in 1 .. n : order[i] = order[j] => i = j
      /\ \A s \in Pending : \E i \in 1 .. n : order[i] = s
  BY <1>5, Listed
<1> HIDE DEF n
<1> DEFINE row(s) == Entry(s, snap[s].pending, snap[s].pending = "generate" => snap[s].ready)
<1>7. queue' = [i \in 1 .. n |-> row(order[i])]
  BY <1>2, <1>6
<1>8. \A s \in Pending :
        /\ row(s) \in EntryRow /\ row(s).id = s /\ row(s).type = snap[s].pending
        /\ row(s).ready = (snap[s].pending = "generate" => snap[s].ready)
  <2> SUFFICES ASSUME NEW s \in Pending
               PROVE  /\ row(s) \in EntryRow /\ row(s).id = s /\ row(s).type = snap[s].pending
                      /\ row(s).ready = (snap[s].pending = "generate" => snap[s].ready)
    OBVIOUS
  <2> DEFINE ready == snap[s].pending = "generate" => snap[s].ready
  <2>1. ready \in BOOLEAN
    OBVIOUS
  <2> HIDE DEF ready
  <2>2. row(s) = Entry(s, snap[s].pending, ready)
    BY DEF ready
  <2>3. /\ row(s) \in EntryRow /\ row(s).id = s /\ row(s).type = snap[s].pending
        /\ row(s).ready = ready
    BY <1>4, <2>1, <2>2 DEF Entry, EntryRow
  <2> QED
    BY <2>3 DEF ready
<1> HIDE DEF row
<1>9. queue' \in Seq(EntryRow) /\ DOMAIN queue' = 1 .. n
  <2>1. queue' \in [1 .. n -> EntryRow]
    BY <1>6, <1>7, <1>8
  <2> QED
    BY <1>6, <1>7, <2>1, SeqDef
<1>10. /\ \A e \in Entries(queue') : \E s \in Pending : e = row(s)
       /\ \A s \in Pending : row(s) \in Entries(queue')
       /\ Distinct(queue')
  <2>1. \A i \in 1 .. n : queue'[i] = row(order[i]) /\ order[i] \in Pending
    BY <1>6, <1>7
  <2>2. Distinct(queue')
    BY <1>6, <1>8, <1>9, <2>1 DEF Distinct
  <2>3. ASSUME NEW s \in Pending PROVE row(s) \in Entries(queue')
    BY <1>6, <1>9, <2>1 DEF Entries
  <2> QED
    BY <1>9, <2>1, <2>2, <2>3 DEF Entries
<1>11. Typed' /\ EpochBound'
  <2>1. epoch' \in 1 .. (MaxFaults + 1) /\ epoch' <= faults' + 1 /\ 0 .. epoch \subseteq 0 .. epoch'
    BY <1>1, <1>3
  <2>2. agent' \in [Agents -> AgentRow(epoch')]
    BY <1>1, <1>3, <2>1 DEF AgentRow
  <2> QED
    BY <1>1, <1>9, <2>1, <2>2 DEF SessionInv, Typed, EpochBound
<1>12. QueueFits'
  <2> SUFFICES ASSUME NEW s \in Pending
               PROVE  EntryFits(row(s), snap[s], source[s])
    BY <1>1, <1>8, <1>10 DEF QueueFits
  <2>1. snap[s].pending \in Decisions => source[s] # "plain"
    BY <1>4 DEF Fits
  <2>2. snap[s].pending = "generate" => row(s).ready = snap[s].ready
    <3>1. snap[s].ready \in BOOLEAN
      BY <1>4 DEF SnapRow
    <3> QED
      BY <1>8, <3>1
  <2>3. snap[s].pending # "generate" => row(s).ready
    BY <1>8
  <2> QED
    BY <1>4, <1>8, <2>1, <2>2, <2>3 DEF EntryFits
<1>13. SessionsFit' /\ WireFits' /\ AgentsFit' /\ LeaseIsExclusive'
  BY <1>1 DEF SessionInv, SessionsFit, WireFits, AgentsFit, LeaseIsExclusive
<1>14. PreflightFits' /\ LeasesFit'
  BY <1>1 DEF SessionInv, LeasesFit, PreflightFits
<1>15. DecisionDurable'
  <2>1. ASSUME NEW s \in Sessions, snap[s].canceled, source[s] = "wrapped", ~Failed(s)
        PROVE  /\ snap[s].pending \in Decisions
               /\ \E f \in Entries(queue') : f.id = s /\ f.type = snap[s].pending
    <3>1. snap[s].pending \in Decisions
      BY <2>1 DEF SessionInv, DecisionDurable
    <3>2. snap[s].phase \notin CompletedPhases
      BY <2>1 DEF SessionInv, SessionsFit, Fits, Decided, Failed, CompletedPhases
    <3>3. s \in Pending
      BY <3>1, <3>2 DEF Pending, Decisions
    <3> QED
      BY <1>8, <1>10, <3>1, <3>3
  <2> QED
    BY <1>1, <2>1, DurableKept DEF SessionInv, Failed
<1>16. IsFiniteSet(Begun)' /\ Over
  BY <1>1 DEF SessionInv, Begun, Over
<1> QED
  BY <1>11, <1>12, <1>13, <1>14, <1>15, <1>16 DEF Kept, SessionInv

-----------------------------------------------------------------------------
(* The theorems.                                                           *)

\* Nothing has begun.
LEMMA SessionInit == Init => SessionInv
<1> SUFFICES ASSUME Init PROVE SessionInv
  OBVIOUS
<1>1. /\ snap = [s \in Sessions |-> BaseSnapshot] /\ source = [s \in Sessions |-> "plain"]
      /\ receipt = [s \in Sessions |-> "none"] /\ up = TRUE /\ epoch = 1 /\ queue = <<>>
      /\ preflight = {} /\ wire = {} /\ sent = [s \in Sessions |-> 0]
      /\ agent = [a \in Agents |-> IdleAgent] /\ faults = 0 /\ handed = {}
  BY DEF Init
<1>2. BaseSnapshot \in SnapRow /\ BaseSnapshot.phase = "new" /\ Fits(BaseSnapshot, "plain")
      /\ ~BaseSnapshot.canceled
  BY BoundsAssumption
  DEF BaseSnapshot, SnapRow, Fits, Phases, ReviewPhases, CompletedPhases, Decisions
<1>3. IdleAgent \in AgentRow(1) /\ IdleAgent.at = "idle" /\ ~IdleAgent.held
  BY IdleFits
<1>4. <<>> \in Seq(EntryRow) /\ Entries(<<>>) = {} /\ Distinct(<<>>)
  BY DEF Entries, Distinct
<1>5. 0 \in 0 .. MaxRequests /\ 0 \in 0 .. MaxFaults /\ 1 \in 1 .. (MaxFaults + 1)
  BY BoundsAssumption
<1>6. Typed
  BY <1>1, <1>2, <1>3, <1>4, <1>5 DEF Typed
<1>7. EpochBound /\ SessionsFit /\ QueueFits /\ PreflightFits /\ WireFits
  BY <1>1, <1>2, <1>4 DEF EpochBound, SessionsFit, QueueFits, PreflightFits, WireFits
<1>8. AgentsFit /\ LeasesFit /\ LeaseIsExclusive
  BY <1>1, <1>3 DEF AgentsFit, LeasesFit, LeaseIsExclusive, RowFits, Knows
<1>9. DecisionDurable
  BY <1>1, <1>2 DEF DecisionDurable
<1>10. IsFiniteSet(Begun)
  <2>1. Begun = {}
    BY <1>1, <1>2 DEF Begun
  <2> QED
    BY <2>1, FS_EmptySet
<1> QED
  BY <1>6, <1>7, <1>8, <1>9, <1>10 DEF SessionInv

\* Every step keeps the invariant, and what is over stays over unless asked.
LEMMA SessionStep == SessionInv /\ ReceiptInv /\ [Next]_vars => SessionInv' /\ Over
<1> SUFFICES ASSUME SessionInv, ReceiptInv, [Next]_vars PROVE Kept
  BY DEF Kept
<1>1. ASSUME NEW i \in DOMAIN queue, ExpireAbandoned(i) \/ ExpireHeld(i) PROVE Kept
  BY <1>1, ExpireKeeps DEF ExpireAbandoned, ExpireHeld
<1>2. CASE UNCHANGED vars
  <2>1. UNCHANGED <<snap, source, receipt, up, epoch, queue, preflight, wire, sent, agent, faults, handed>>
    BY <1>2 DEF vars, disk, server, browser
  <2>2. Typed' /\ EpochBound' /\ SessionsFit' /\ QueueFits' /\ PreflightFits' /\ WireFits'
    BY <2>1 DEF SessionInv, Typed, EpochBound, SessionsFit, QueueFits, PreflightFits, WireFits
  <2>3. AgentsFit' /\ LeasesFit' /\ LeaseIsExclusive' /\ DecisionDurable' /\ IsFiniteSet(Begun)' /\ Over
    BY <2>1 DEF SessionInv, AgentsFit, LeasesFit, LeaseIsExclusive, DecisionDurable, Failed, Queued, Begun, Over
  <2> QED
    BY <2>2, <2>3 DEF Kept, SessionInv
<1>3. CASE Next
  BY <1>1, <1>3, PageKeeps, BrowserKeeps, ScaffoldKeeps, AgentKeeps, FailKeeps, StopKeeps, CrashKeeps, RestartKeeps
  DEF Next, ServerStep
<1> QED
  BY <1>2, <1>3

\* The inductive invariant holds of every behaviour: journals, queue, wire and agents fit
\* together.
THEOREM SessionInvariance == Spec => []SessionInv
<1>1. Init => SessionInv
  BY SessionInit
<1>2. SessionInv /\ ReceiptInv /\ [Next]_vars => SessionInv'
  BY SessionStep
<1>3. Spec => []ReceiptInv
  BY ReceiptInvariance
<1> QED
  BY <1>1, <1>2, <1>3, PTL DEF Spec

(* Every variable keeps the shape the code gives it. *)
THEOREM TypesAreKept == Spec => []TypeOK
<1>1. SessionInv => TypeOK
  BY TypedIsTypeOK DEF SessionInv
<1> QED
  BY <1>1, SessionInvariance, PTL

\* A session the user has decided is never brought back under review, whatever generation
\* event comes late: no journal entry takes the cancellation back, and none but a decided phase
\* goes with it (the guard of ApplyCheckpoint and ApplyAgentDone).
THEOREM LateGenerationNeverCounts == Spec => []LateGenerationIgnored
<1>1. SessionInv => LateGenerationIgnored
  BY DEF SessionInv, SessionsFit, Fits, LateGenerationIgnored
<1> QED
  BY <1>1, SessionInvariance, PTL

\* No event is in the hands of two agents whose leases both count: the entry is claimed before
\* the wait for its scaffold begins, and a lease ends for every holder at once.
THEOREM LeasesAreExclusive == Spec => []LeaseIsExclusive
<1>1. SessionInv => LeaseIsExclusive
  BY DEF SessionInv
<1> QED
  BY <1>1, SessionInvariance, PTL

\* Until the source is decided, a decision that has not failed is pending on disk, and while the
\* server runs it is queued, or it is an accept the script refused and left to an agent: a
\* generation or a mount failure that is done takes neither away (the phases ApplyAgentDone
\* does not leave), and a restart queues the decision again. What may take a decision away for
\* good, an error reply or a discard given up, is in its journal as its phase.
THEOREM DecisionsAreDurable == Spec => []DecisionDurable
<1>1. SessionInv => DecisionDurable
  BY DEF SessionInv
<1> QED
  BY <1>1, SessionInvariance, PTL

\* A session that is over comes back only by a decision of the user or by the failure of an
\* event that was still queued: a reply that acknowledges nothing is dropped.
THEOREM OverStaysOver == Spec => OverUnlessAsked
<1>1. SessionInv /\ ReceiptInv /\ [Next]_vars => Over
  BY SessionStep
<1>2. Spec => []ReceiptInv
  BY ReceiptInvariance
<1> QED
  BY <1>1, <1>2, SessionInvariance, PTL DEF Spec, OverUnlessAsked, Over
=============================================================================
