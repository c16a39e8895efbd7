---------------------------- MODULE LiveSession ----------------------------
(***************************************************************************)
(* Live mode of the vendored design skill: a helper server between one     *)
(* browser page and the coding agents that poll it.                        *)
(*                                                                         *)
(* The page asks for variants of an element (generate) and then decides:   *)
(* accept or discard. The server journals every event of a session on disk *)
(* and keeps the events that wait for an agent in memory; a poll leases    *)
(* one of them, and a reply acknowledges it. Leases run out, agents are    *)
(* killed, browser requests overtake each other, and the server may stop   *)
(* at any point and rebuild its queue from the journals. An accept or a    *)
(* discard rewrites the source file in the poll process, under a lock, and *)
(* leaves a receipt so that a repeated one is harmless.                    *)
(*                                                                         *)
(* Sources, under src/.agents/skills/impeccable/scripts: live-server.mjs,  *)
(* live/session-store.mjs, live/poll-lanes.mjs, live/completion.mjs,       *)
(* live/instructions.mjs, live-poll.mjs, live-accept.mjs,                  *)
(* live-complete.mjs. The page (live-browser.js) is here as the requests   *)
(* it may send: what it shows and what it is pushed is left out. Previews  *)
(* are source previews; steering, prefetching, manual edits and the exit   *)
(* timer are left out.                                                     *)
(***************************************************************************)
EXTENDS Naturals, SequencesExt

CONSTANTS
  Sessions,          \* identifiers of variant sessions
  Agents,            \* agent harnesses that poll
  Nobody,            \* no session, no agent
  MaxFaults,         \* bound of the model: server stops, agents killed and leases that run
                     \* out under a busy agent, all together
  MaxRequests        \* bound of the model: requests the page sends for one session

ASSUME NobodyAssumption == Nobody \notin Sessions /\ Nobody \notin Agents
ASSUME BoundsAssumption == MaxFaults \in Nat /\ MaxRequests \in Nat

VARIABLES
  snap,       \* what replaying a session's journal gives (on disk)
  source,     \* the element in the source file: plain, wrapped, accepted or restored
  receipt,    \* the accept receipt of a session (on disk)
  up,         \* whether the server runs
  epoch,      \* its start number: a token is valid for one start
  queue,      \* state.pendingEvents
  preflight,  \* preflights the server awaits: the event's session and the poll's agent
  wire,       \* browser requests under way
  sent,       \* how many requests the page has sent, by session
  agent,      \* what each agent does
  faults,     \* how many faults have happened
  handed      \* for the properties only: sessions whose accept was acknowledged though
              \* it was left to an agent's hand

disk == <<snap, source, receipt>>
server == <<up, epoch, queue, preflight>>
browser == <<wire, sent>>
vars == <<disk, server, browser, agent, faults, handed>>

Decisions == {"accept", "discard"}
EventTypes == {"generate", "variant_mount_failed"} \cup Decisions
CompletedPhases == {"completed", "discarded"}
FencedPhases == CompletedPhases \cup {"accept_requested", "discard_requested", "carbonize_required"}
ReviewPhases == {"generate_requested", "generating", "cycling", "saving", "variants_ready"}
Phases == {"new", "agent_error"} \cup ReviewPhases \cup FencedPhases

Fault == faults < MaxFaults /\ faults' = faults + 1

-----------------------------------------------------------------------------
(* The session store: what one more journal entry makes of a snapshot.     *)

BaseSnapshot ==
  [phase |-> "new", pending |-> "none", ready |-> FALSE, canceled |-> FALSE, revision |-> 0]

Closed(s) == s.canceled \/ s.phase \in FencedPhases

ApplyGenerate(s, ready) ==
  [s EXCEPT !.phase = "generate_requested", !.pending = "generate", !.ready = ready]

\* Seeded fault: a checkpoint of a decided session is applied.
ApplyLateCheckpoint(s, phase, revision) ==
  IF revision < s.revision THEN s ELSE [s EXCEPT !.phase = phase, !.revision = revision]

ApplyCheckpoint(s, phase, revision) ==
  IF Closed(s) \/ revision < s.revision THEN s ELSE [s EXCEPT !.phase = phase, !.revision = revision]

ApplyDecision(s, type) ==
  [s EXCEPT !.phase = IF type = "accept" THEN "accept_requested" ELSE "discard_requested",
            !.canceled = TRUE, !.pending = type]

\* Seeded fault: a mount failure takes the place of what is pending.
ApplyMountFailedAlways(s) == [s EXCEPT !.pending = "variant_mount_failed"]

ApplyMountFailed(s) == IF s.pending = "none" THEN [s EXCEPT !.pending = "variant_mount_failed"] ELSE s

ApplyAgentDone(s, carbonize) ==
  IF Closed(s) /\ ~(carbonize /\ s.phase = "accept_requested") THEN s
  ELSE [s EXCEPT !.phase = IF carbonize THEN "carbonize_required" ELSE "variants_ready",
                 !.pending = "none"]

ApplyAgentError(s, acknowledged) ==
  IF s.canceled /\ acknowledged = "generate" THEN s
  ELSE [s EXCEPT !.phase = "agent_error", !.pending = "none"]

\* Seeded fault: the session ends in a phase that no list of phases knows.
ApplyEndMisnamed(s, phase) ==
  [s EXCEPT !.phase = IF phase = "completed" THEN "complete" ELSE phase, !.pending = "none"]

ApplyEnd(s, phase) == [s EXCEPT !.phase = phase, !.pending = "none"]

(* A reply as the journal sees it: its kind and the event it acknowledged. *)
(* A merge that is left to the agent's hand is a done without carbonize.   *)
ApplyReply(s, kind, acknowledged) ==
  CASE kind = "complete" -> ApplyEnd(s, "completed")
    [] kind = "discarded" -> ApplyEnd(s, "discarded")
    [] kind = "error" -> ApplyAgentError(s, acknowledged)
    [] kind = "carbonize" -> ApplyAgentDone(s, TRUE)
    [] kind \in {"done", "handoff"} -> ApplyAgentDone(s, FALSE)

-----------------------------------------------------------------------------
(* The queue of events that wait for an agent.                             *)

Entry(id, type, ready) == [id |-> id, type |-> type, ready |-> ready, leased |-> FALSE]

Queued(id, type) == \E i \in DOMAIN queue : queue[i].id = id /\ queue[i].type = type

Enqueue(q, entry) ==
  IF \E i \in DOMAIN q : q[i].id = entry.id /\ q[i].type = entry.type THEN q ELSE Append(q, entry)

(* The queue with every generation of a session taken out of it.           *)
WithoutGeneration(q, id) ==
  LET kept[n \in 0..Len(q)] ==
        IF n = 0 THEN <<>>
        ELSE IF q[n].id = id /\ q[n].type = "generate" THEN kept[n - 1]
        ELSE Append(kept[n - 1], q[n])
  IN kept[Len(q)]

Priority(type) == CASE type \in Decisions -> 0 [] type = "generate" -> 2 [] OTHER -> 3

(* The free entry of the best lane, the oldest of them. *)
IsNext(i) ==
  /\ ~queue[i].leased
  /\ \A j \in DOMAIN queue \ {i} :
       \/ queue[j].leased
       \/ Priority(queue[i].type) < Priority(queue[j].type)
       \/ Priority(queue[i].type) = Priority(queue[j].type) /\ i < j

-----------------------------------------------------------------------------
(* Agents.                                                                 *)

IdleAgent == [at |-> "idle", id |-> Nobody, type |-> "none", result |-> "none", epoch |-> 0, held |-> FALSE]

Holds(a, id, type) == agent[a].id = id /\ agent[a].type = type /\ agent[a].held

Step(a, at) == agent' = [agent EXCEPT ![a].at = at]

(* Agent states once the leases of an entry no longer protect anybody. *)
Released(id, types) ==
  [a \in Agents |-> [agent[a] EXCEPT !.held = @ /\ ~(agent[a].id = id /\ agent[a].type \in types)]]

-----------------------------------------------------------------------------
Init ==
  /\ snap = [s \in Sessions |-> BaseSnapshot]
  /\ source = [s \in Sessions |-> "plain"]
  /\ receipt = [s \in Sessions |-> "none"]
  /\ up = TRUE
  /\ epoch = 1
  /\ queue = <<>>
  /\ preflight = {}
  /\ wire = {}
  /\ sent = [s \in Sessions |-> 0]
  /\ agent = [a \in Agents |-> IdleAgent]
  /\ faults = 0
  /\ handed = {}

-----------------------------------------------------------------------------
(* The page. Its requests are concurrent fetches: nothing orders them.     *)

Request(kind, id) == [kind |-> kind, id |-> id, phase |-> "none", revision |-> 0]

Checkpoint(id, phase) == [kind |-> "checkpoint", id |-> id, phase |-> phase, revision |-> sent[id] + 1]

Send(s, requests) ==
  /\ up /\ sent[s] < MaxRequests
  /\ sent' = [sent EXCEPT ![s] = @ + 1]
  /\ wire' = wire \cup requests
  /\ UNCHANGED <<disk, server, agent, faults, handed>>

(* Go: the first checkpoint and the event that creates the session leave   *)
(* together.                                                               *)
Go(s) == sent[s] = 0 /\ Send(s, {Request("generate", s), Checkpoint(s, "generating")})

(* Progress, of a page that shows the variants or, reloaded, does not yet. *)
SendCheckpoint(s) ==
  /\ sent[s] > 0
  /\ \/ Send(s, {Checkpoint(s, "generating")})
     \/ source[s] # "plain" /\ \E phase \in {"cycling", "saving"} : Send(s, {Checkpoint(s, phase)})

(* Accept, Discard and the report of a variant that cannot be shown, once  *)
(* the variants have reached the page; a page may repeat them, reloaded or *)
(* out of patience.                                                        *)
Decide(s) ==
  /\ source[s] # "plain"
  /\ \E kind \in Decisions \cup {"variant_mount_failed"} : Send(s, {Request(kind, s)})

(* The reloaded page finds no wrapper of the session it has saved. *)
ReportOrphan(s) == source[s] \in {"accepted", "restored"} /\ Send(s, {Request("orphan", s)})

-----------------------------------------------------------------------------
(* The server: what it makes of a browser request.                         *)

CreateSession(m) ==
  /\ snap' = [snap EXCEPT ![m.id] = ApplyGenerate(@, FALSE)]
  /\ queue' = Enqueue(queue, Entry(m.id, "generate", FALSE))
  /\ UNCHANGED agent

(* Progress of a session that this store has never seen is refused. *)
RecordCheckpoint(m) ==
  /\ snap' = IF snap[m.id].phase = "new" THEN snap
             ELSE [snap EXCEPT ![m.id] = ApplyCheckpoint(@, m.phase, m.revision)]
  /\ UNCHANGED <<queue, agent>>

RecordMountFailure(m) ==
  /\ snap' = [snap EXCEPT ![m.id] = ApplyMountFailed(@)]
  /\ queue' = Enqueue(queue, Entry(m.id, m.kind, TRUE))
  /\ UNCHANGED agent

RecordDecision(m) ==
  /\ snap' = [snap EXCEPT ![m.id] = ApplyDecision(@, m.kind)]
  /\ queue' = Enqueue(WithoutGeneration(queue, m.id), Entry(m.id, m.kind, TRUE))
  /\ agent' = Released(m.id, {"generate"})

(* A discard of a session whose wrapper is gone asks nothing of an agent.  *)
DiscardOrphan(m) ==
  /\ snap' = [snap EXCEPT ![m.id] = ApplyEnd(ApplyDecision(@, "discard"), "discarded")]
  /\ queue' = WithoutGeneration(queue, m.id)
  /\ agent' = Released(m.id, {"generate"})

ServeBrowser(m) ==
  /\ up /\ m \in wire
  /\ wire' = wire \ {m}
  /\ \/ m.kind = "generate" /\ CreateSession(m)
     \/ m.kind = "checkpoint" /\ RecordCheckpoint(m)
     \/ m.kind = "variant_mount_failed" /\ RecordMountFailure(m)
     \/ m.kind \in Decisions /\ RecordDecision(m)
     \/ m.kind = "orphan" /\ DiscardOrphan(m)
  /\ handed' = IF m.kind \in Decisions THEN handed \ {m.id} ELSE handed
  /\ UNCHANGED <<source, receipt, up, epoch, preflight, sent, faults>>

-----------------------------------------------------------------------------
(* The server: polls and leases. A generate event is scaffolded on its     *)
(* first lease; the entry is claimed before that wait begins.              *)

\* Seeded fault: an event that needs its scaffold is claimed only when it is delivered.
LeaseLate(i, a, at) ==
  /\ queue' = [queue EXCEPT ![i].leased = at # "waiting"]
  /\ agent' = [agent EXCEPT ![a] = [IdleAgent EXCEPT !.at = at, !.id = queue[i].id, !.type = queue[i].type,
                                                     !.epoch = epoch, !.held = TRUE]]

Lease(i, a, at) ==
  /\ queue' = [queue EXCEPT ![i].leased = TRUE]
  /\ agent' = [agent EXCEPT ![a] = [IdleAgent EXCEPT !.at = at, !.id = queue[i].id, !.type = queue[i].type,
                                                     !.epoch = epoch, !.held = TRUE]]

Poll(a) ==
  /\ up /\ agent[a].at = "idle"
  /\ \E i \in DOMAIN queue :
       /\ IsNext(i)
       /\ \/ /\ queue[i].type \in Decisions
             /\ Lease(i, a, "apply") /\ UNCHANGED preflight
          \/ /\ queue[i].type \notin Decisions /\ queue[i].ready
             /\ Lease(i, a, "work") /\ UNCHANGED preflight
          \/ /\ ~queue[i].ready
             /\ Lease(i, a, "waiting")
             /\ preflight' = preflight \cup {[id |-> queue[i].id, agent |-> a]}
  /\ UNCHANGED <<disk, up, epoch, browser, faults, handed>>

(* The scaffold is ready: the event is journaled again and delivered to    *)
(* the poll, if that still waits.                                          *)
PreflightDone(p) ==
  /\ up /\ p \in preflight
  /\ preflight' = preflight \ {p}
  /\ snap' = [snap EXCEPT ![p.id] = ApplyGenerate(@, TRUE)]
  /\ queue' = [i \in DOMAIN queue |->
       IF queue[i].id = p.id /\ queue[i].type = "generate" THEN [queue[i] EXCEPT !.ready = TRUE] ELSE queue[i]]
  /\ IF agent[p.agent].at = "waiting" /\ agent[p.agent].id = p.id
     THEN Step(p.agent, "work") ELSE UNCHANGED agent
  /\ UNCHANGED <<source, receipt, up, epoch, browser, faults, handed>>

(* A lease runs out, after its agent is gone or under one that is slow. A  *)
(* lease outlasts every preflight.                                         *)
Expire(i) ==
  /\ up /\ queue[i].leased
  /\ ~\E p \in preflight : p.id = queue[i].id /\ queue[i].type = "generate"
  /\ queue' = [queue EXCEPT ![i].leased = FALSE]
  /\ agent' = Released(queue[i].id, {queue[i].type})
  /\ UNCHANGED <<disk, up, epoch, preflight, browser, handed>>

Abandoned(i) == \A a \in Agents : ~Holds(a, queue[i].id, queue[i].type)

ExpireAbandoned(i) == Abandoned(i) /\ Expire(i) /\ UNCHANGED faults

ExpireHeld(i) == ~Abandoned(i) /\ Expire(i) /\ Fault

-----------------------------------------------------------------------------
(* The server: an agent's reply. One without the type of its event gets it *)
(* from what is queued for its session; "any" stands for undefined, which  *)
(* matches whatever comes first.                                           *)
LeasedOf(id) == {i \in DOMAIN queue : queue[i].id = id /\ queue[i].leased}

First(is) == CHOOSE i \in is : \A j \in is : i <= j

\* Seeded fault: the answer to a mount failure is taken for that to a generation.
InferWithoutMount(id, kind) ==
  CASE kind = "discarded" -> "discard"
    [] kind = "complete" -> IF Queued(id, "accept") THEN "accept"
                            ELSE IF Queued(id, "generate") THEN "generate" ELSE "any"
    [] kind \in {"done", "error"} -> "generate"

Infer(id, kind) ==
  CASE kind = "discarded" -> "discard"
    [] kind = "complete" -> IF Queued(id, "accept") THEN "accept"
                            ELSE IF Queued(id, "generate") THEN "generate" ELSE "any"
    [] kind = "done" -> IF ~Queued(id, "generate") /\ Queued(id, "variant_mount_failed")
                        THEN "variant_mount_failed" ELSE "generate"
    [] kind = "error" -> IF LeasedOf(id) = {} THEN "generate" ELSE queue[First(LeasedOf(id))].type

Matching(id, type) == {i \in DOMAIN queue : queue[i].id = id /\ type \in {queue[i].type, "any"}}

\* Seeded fault: the journal takes every reply.
ServeReplyAlways(a, id, kind, type, next) ==
  LET acked == Matching(id, type)
      acknowledged == IF acked = {} THEN "none" ELSE queue[First(acked)].type
  IN /\ queue' = IF acked = {} THEN queue ELSE RemoveAt(queue, First(acked))
     /\ snap' = [snap EXCEPT ![id] = ApplyReply(@, kind, acknowledged)]
     /\ agent' = [Released(id, {acknowledged}) EXCEPT ![a] = next]

(* What the reply acknowledges goes; the journal takes the reply, unless   *)
(* it acknowledges nothing of a session that is over;                     *)
(* Agent a then is as next says.                                           *)
ServeReply(a, id, kind, type, next) ==
  LET acked == Matching(id, type)
      acknowledged == IF acked = {} THEN "none" ELSE queue[First(acked)].type
  IN /\ queue' = IF acked = {} THEN queue ELSE RemoveAt(queue, First(acked))
     /\ snap' = IF acked = {} /\ snap[id].phase \in CompletedPhases THEN snap
                ELSE [snap EXCEPT ![id] = ApplyReply(@, kind, acknowledged)]
     /\ agent' = [Released(id, {acknowledged}) EXCEPT ![a] = next]

-----------------------------------------------------------------------------
(* Agents at work on a generate event or on a mount failure. The agent is  *)
(* not this code: it is assumed to write over the plain element only.      *)
WriteVariants(a) ==
  /\ agent[a].at = "work" /\ agent[a].type = "generate"
  /\ source[agent[a].id] = "plain"
  /\ source' = [source EXCEPT ![agent[a].id] = "wrapped"]
  /\ UNCHANGED <<snap, receipt, server, browser, agent, faults, handed>>

(* live-poll --reply: a process of its own, which reads the token anew. *)
Reply(a) ==
  /\ up /\ agent[a].at = "work"
  /\ \E kind \in {"done", "error"} :
       /\ kind = "done" => source[agent[a].id] # "plain"
       /\ ServeReply(a, agent[a].id, kind, Infer(agent[a].id, kind), IdleAgent)
  /\ UNCHANGED <<source, receipt, up, epoch, preflight, browser, faults, handed>>

-----------------------------------------------------------------------------
(* The poll process applies a decision to the source before it reports it. *)

Outcome(a, at, result) == agent' = [agent EXCEPT ![a].at = at, ![a].result = result]

ReceiptOf(result) == IF result = "discarded" THEN "discard" ELSE "accept"

(* A decision the script does not apply, for want of markers or because it *)
(* refuses: an accept is left to the agent's hand, a discard has failed.   *)
NotHandled(type) == IF type = "accept" THEN "handoff" ELSE "error"

(* A receipt, or markers that are missing, settle it; so does a wrapper in *)
(* a generated file or of a preview no longer supported, which the script  *)
(* refuses to touch.                                                       *)
ReadReceipt(a) ==
  LET id == agent[a].id
      type == agent[a].type
      prior == receipt[id]
  IN /\ agent[a].at = "apply"
     /\ \/ prior # "none" /\ ReceiptOf(prior) = type /\ Outcome(a, "report", prior)
        \/ prior # "none" /\ ReceiptOf(prior) # type /\ Outcome(a, "report", "error")
        \/ prior = "none" /\ source[id] = "wrapped" /\ Step(a, "lock")
        \/ prior = "none" /\ Outcome(a, "report", NotHandled(type))
     /\ UNCHANGED <<disk, server, browser, faults, handed>>

(* The source lock; the lock of a process that is gone counts for nothing. *)
Lock(a) ==
  LET free == \A b \in Agents : agent[b].at # "edit"
  IN /\ agent[a].at = "lock"
     /\ \/ free /\ Step(a, "edit")
        \/ ~free /\ Outcome(a, "report", "error")
     /\ UNCHANGED <<disk, server, browser, faults, handed>>

\* Seeded fault: what was found before the lock is rewritten.
EditFoundSource(a) ==
  LET id == agent[a].id
      accepting == agent[a].type = "accept"
  IN /\ agent[a].at = "edit"
     /\ source' = [source EXCEPT ![id] = IF accepting THEN "accepted" ELSE "restored"]
     /\ Outcome(a, "record", IF accepting THEN "complete" ELSE "discarded")
     /\ UNCHANGED <<snap, receipt, server, browser, faults, handed>>

\* Seeded fault: a decision that found no markers leaves a receipt too.
EditRecordingFailure(a) ==
  LET id == agent[a].id
      accepting == agent[a].type = "accept"
  IN /\ agent[a].at = "edit"
     /\ source' = [source EXCEPT ![id] = IF @ # "wrapped" THEN @ ELSE IF accepting THEN "accepted" ELSE "restored"]
     /\ Outcome(a, "record", IF accepting THEN "complete" ELSE "discarded")
     /\ UNCHANGED <<snap, receipt, server, browser, faults, handed>>

(* The file is read again under the lock and rewritten, unless the markers *)
(* are gone or the accepted variant is not among the written ones.         *)
EditSource(a) ==
  LET id == agent[a].id
      type == agent[a].type
      decide(decision, result) ==
        /\ source' = [source EXCEPT ![id] = decision]
        /\ Outcome(a, "record", result)
  IN /\ agent[a].at = "edit"
     /\ \/ source[id] = "wrapped" /\ type = "accept" /\ \E result \in {"complete", "carbonize"} : decide("accepted", result)
        \/ source[id] = "wrapped" /\ type = "discard" /\ decide("restored", "discarded")
        \/ (source[id] # "wrapped" \/ type = "accept") /\ Outcome(a, "report", NotHandled(type)) /\ UNCHANGED source
     /\ UNCHANGED <<snap, receipt, server, browser, faults, handed>>

WriteReceipt(a) ==
  /\ agent[a].at = "record"
  /\ receipt' = [receipt EXCEPT ![agent[a].id] = agent[a].result]
  /\ Step(a, "report")
  /\ UNCHANGED <<snap, source, server, browser, faults, handed>>

(* The script throws, or is killed after its time: an error, and whatever  *)
(* was written stays.                                                      *)
AcceptFails(a) ==
  /\ agent[a].at \in {"apply", "lock", "edit", "record"}
  /\ Outcome(a, "report", "error")
  /\ Fault
  /\ UNCHANGED <<disk, server, browser, handed>>

(* What is left to the agent: to merge what was not handled (the temporary *)
(* wrapper of a discard too, if it heeds that), carbonize cleanup, or the  *)
(* end of a session whose result did not arrive; not the end of an accept  *)
(* that failed, which live-complete refuses while the wrapper stands.      *)
LeftTo(a, delivered) ==
  LET on(at) == [agent[a] EXCEPT !.at = at, !.held = FALSE]
      result == agent[a].result
  IN CASE result = "carbonize" -> {on("cleanup")}
       [] delivered /\ result = "handoff" -> {on("merge")}
       [] delivered /\ result = "error" /\ agent[a].type = "discard" -> {on("merge"), IdleAgent}
       [] ~delivered /\ ~(result = "error" /\ agent[a].type = "accept" /\ source[agent[a].id] = "wrapped") -> {on("cleanup")}
       [] OTHER -> {IdleAgent}

(* The result is posted with the type of its event and with the token of   *)
(* the poll.                                                               *)
PostResult(a) ==
  LET id == agent[a].id
      delivered == up /\ agent[a].epoch = epoch
  IN /\ agent[a].at = "report"
     /\ \E next \in LeftTo(a, delivered) :
          \/ delivered /\ ServeReply(a, id, agent[a].result, agent[a].type, next)
          \/ ~delivered /\ agent' = [agent EXCEPT ![a] = next] /\ UNCHANGED <<snap, queue>>
     /\ handed' = IF delivered /\ agent[a].result = "handoff" THEN handed \cup {id} ELSE handed
     /\ UNCHANGED <<source, receipt, up, epoch, preflight, browser, faults>>

(* The agent's own edit, which takes no lock: it is assumed to be one step *)
(* and to touch only a wrapper that still stands.                          *)
MergeByHand(a) ==
  LET id == agent[a].id
      edit == source' = [source EXCEPT ![id] = IF agent[a].type = "accept" THEN "accepted" ELSE "restored"]
  IN /\ \/ agent[a].at = "merge" /\ source[id] = "wrapped" /\ edit /\ agent' = [agent EXCEPT ![a] = IdleAgent]
        \/ agent[a].at = "merge" /\ source[id] # "wrapped" /\ UNCHANGED source /\ agent' = [agent EXCEPT ![a] = IdleAgent]
        \/ agent[a].at = "cleanup" /\ agent[a].type = "accept" /\ source[id] = "wrapped" /\ edit /\ UNCHANGED agent
     /\ UNCHANGED <<snap, receipt, server, browser, faults, handed>>

(* live-complete: through the server, or straight into the journal; it     *)
(* refuses an accept whose source still carries the wrapper.               *)
Complete(a) ==
  LET id == agent[a].id
      kind == IF agent[a].type = "discard" THEN "discarded" ELSE "complete"
  IN /\ agent[a].at = "cleanup"
     /\ kind = "complete" => source[id] # "wrapped"
     /\ \/ up /\ ServeReply(a, id, kind, Infer(id, kind), IdleAgent)
        \/ /\ ~up /\ snap' = [snap EXCEPT ![id] = ApplyReply(@, kind, "none")]
           /\ agent' = [agent EXCEPT ![a] = IdleAgent] /\ UNCHANGED queue
     /\ UNCHANGED <<source, receipt, up, epoch, preflight, browser, faults, handed>>

(* An agent, or its poll process, is killed. *)
AgentStop(a) ==
  /\ agent[a].at # "idle"
  /\ agent' = [agent EXCEPT ![a] = IdleAgent]
  /\ Fault
  /\ UNCHANGED <<disk, server, browser, handed>>

-----------------------------------------------------------------------------
(* The server stops, and starts again from the journals.                   *)

Crash ==
  /\ up
  /\ up' = FALSE
  /\ queue' = <<>> /\ preflight' = {} /\ wire' = {}
  /\ agent' = [a \in Agents |-> IF agent[a].at = "waiting" THEN IdleAgent ELSE [agent[a] EXCEPT !.held = FALSE]]
  /\ handed' = {}
  /\ Fault
  /\ UNCHANGED <<disk, epoch, sent>>

\* Seeded fault: a session that is fenced against late variants counts as over.
PendingUnfenced == {s \in Sessions : snap[s].phase \notin FencedPhases /\ snap[s].pending # "none"}

Pending == {s \in Sessions : snap[s].phase \notin CompletedPhases /\ snap[s].pending # "none"}

Restart ==
  /\ ~up
  /\ up' = TRUE /\ epoch' = epoch + 1
  /\ \E order \in SetToSeqs(Pending) :
       queue' = [i \in DOMAIN order |->
         Entry(order[i], snap[order[i]].pending, snap[order[i]].pending = "generate" => snap[order[i]].ready)]
  /\ UNCHANGED <<disk, preflight, browser, agent, faults, handed>>

-----------------------------------------------------------------------------
PageStep(s) == Go(s) \/ SendCheckpoint(s) \/ Decide(s) \/ ReportOrphan(s)

ServerStep ==
  \/ \E m \in wire : ServeBrowser(m)
  \/ \E p \in preflight : PreflightDone(p)
  \/ \E i \in DOMAIN queue : ExpireAbandoned(i)

AgentStep(a) ==
  Poll(a) \/ WriteVariants(a) \/ Reply(a) \/ ReadReceipt(a) \/ Lock(a) \/ EditSource(a)
    \/ WriteReceipt(a) \/ PostResult(a) \/ MergeByHand(a) \/ Complete(a)

Next ==
  \/ \E s \in Sessions : PageStep(s)
  \/ ServerStep
  \/ \E i \in DOMAIN queue : ExpireHeld(i)
  \/ \E a \in Agents : AgentStep(a) \/ AcceptFails(a) \/ AgentStop(a)
  \/ Crash
  \/ Restart

Spec == Init /\ [][Next]_vars

(* What goes on by itself: timers fire, requests arrive, a stopped server  *)
(* is started again, and an agent polls, replies and finishes what it does.*)
SystemStep == ServerStep \/ Restart \/ \E a \in Agents : AgentStep(a)

(* Some of it goes on as long as any of it can. Nobody has to press a      *)
(* button, no fault has to happen, and no agent has to keep up with others.*)
Fairness == WF_vars(SystemStep)

FairSpec == Spec /\ Fairness

-----------------------------------------------------------------------------
(* Every variable has the shape the code gives it. *)
TypeOK ==
  /\ snap \in [Sessions -> [phase : Phases, pending : EventTypes \cup {"none"}, ready : BOOLEAN,
                            canceled : BOOLEAN, revision : 0..MaxRequests]]
  /\ source \in [Sessions -> {"plain", "wrapped", "accepted", "restored"}]
  /\ receipt \in [Sessions -> {"none", "complete", "carbonize", "discarded"}]
  /\ up \in BOOLEAN /\ epoch \in 1..(MaxFaults + 1)
  /\ queue \in Seq([id : Sessions, type : EventTypes, ready : BOOLEAN, leased : BOOLEAN])
  /\ preflight \subseteq [id : Sessions, agent : Agents]
  /\ wire \subseteq [kind : {"checkpoint", "orphan"} \cup EventTypes, id : Sessions,
                     phase : Phases \cup {"none"}, revision : 0..MaxRequests]
  /\ sent \in [Sessions -> 0..MaxRequests]
  /\ agent \in [Agents ->
       [at : {"idle", "waiting", "work", "apply", "lock", "edit", "record", "report", "merge", "cleanup"},
        id : Sessions \cup {Nobody}, type : EventTypes \cup {"none"},
        result : {"none", "complete", "carbonize", "handoff", "discarded", "error"},
        epoch : 0..epoch, held : BOOLEAN]]
  /\ faults \in 0..MaxFaults /\ handed \subseteq Sessions

(* Once the user has decided, no generation event that comes late, in any  *)
(* order, brings the session back to a phase in which it is under review.  *)
LateGenerationIgnored == \A s \in Sessions : snap[s].canceled => snap[s].phase \notin ReviewPhases

(* An event is never in the hands of two agents whose leases both count. *)
LeaseIsExclusive ==
  \A a, b \in Agents : a # b /\ agent[a].held /\ agent[b].held =>
    ~(agent[a].id = agent[b].id /\ agent[a].type = agent[b].type)

(* A decision that ended in a failure: the journal says so, or says that a *)
(* discard that was refused is done with.                                  *)
Failed(s) == snap[s].phase \in {"agent_error", "discarded"}

(* Until the source is decided, a decision the user has made and that has  *)
(* not failed is on disk, and while the server runs it waits for an agent; *)
(* an accept that the script refused is on disk and left to the agent that *)
(* was told to merge it.                                                   *)
DecisionDurable ==
  \A s \in Sessions :
    snap[s].canceled /\ source[s] = "wrapped" /\ ~Failed(s) =>
      /\ snap[s].pending \in Decisions
      /\ up => \/ Queued(s, snap[s].pending)
               \/ (snap[s].pending = "accept" /\ s \in handed)

(* A receipt says what the source says. *)
ReceiptTellsTheTruth ==
  \A s \in Sessions : receipt[s] # "none" =>
    source[s] = IF receipt[s] = "discarded" THEN "restored" ELSE "accepted"

(* What accept or discard has made of the source is never undone or redone. *)
SourceDecidedOnce ==
  [][\A s \in Sessions : source[s] \in {"accepted", "restored"} => source'[s] = source[s]]_vars

(* A session that is over is taken up again only by a decision of the user *)
(* or by the failure of an event that was still queued for it, never by a  *)
(* reply that acknowledges nothing.                                        *)
OverUnlessAsked ==
  [][\A s \in Sessions :
       snap[s].phase \in CompletedPhases /\ snap'[s].phase \notin CompletedPhases =>
         \/ \E m \in wire \ wire' : m.id = s /\ m.kind \in Decisions
         \/ snap'[s].phase = "agent_error" /\ Len(queue') < Len(queue)]_vars

(* The agent an accept was left to has been killed before it merged it. *)
Dropped(s) == s \in handed /\ ~\E a \in Agents : agent[a].at = "merge" /\ agent[a].id = s

(* A decision the user has made reaches the source or is seen to fail; but *)
(* an accept left to an agent that dies waits for the server's next start. *)
DecisionSettled ==
  \A s \in Sessions :
    snap[s].canceled /\ source[s] = "wrapped" ~> source[s] # "wrapped" \/ Failed(s) \/ Dropped(s)

(* No event comes back to the agents for ever: once the page is silent and *)
(* the faults are over, the queue drains.                                  *)
QueueDrains == <>[](up /\ queue = <<>>)

(* The agent of a generation, replying when the user has already decided. *)
LateReply(a, s) ==
  /\ agent[a].id = s /\ agent[a].type = "generate" /\ agent[a].at = "work"
  /\ agent'[a].at = "idle" /\ up' /\ faults' = faults /\ snap[s].canceled

(* What the server's comment says of the reply of a stale generation: its  *)
(* event has been retired, it finds no match, and no decision leaves the   *)
(* queue because of it.                                                    *)
LateReplyKeepsQueue ==
  [][\A a \in Agents, s \in Sessions, d \in Decisions :
       LateReply(a, s) /\ Queued(s, d) => Queued(s, d)']_vars
=============================================================================
