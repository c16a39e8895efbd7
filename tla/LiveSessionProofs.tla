------------------------- MODULE LiveSessionProofs -------------------------
(***************************************************************************)
(* Proofs about LiveSession: however polls, leases, replies, requests and  *)
(* stops interleave, the source of a session is decided at most once and a *)
(* receipt says what was decided, for any sessions and agents and any      *)
(* number of faults.                                                       *)
(*                                                                         *)
(* The argument needs nothing of the queue, the leases or the journal: it  *)
(* classifies the steps by what they do to the source, the receipts and    *)
(* the agents that are about to write one (Kinds). What it rests on is     *)
(* that EditSource is one step, because the file is read again and         *)
(* rewritten under the source lock.                                        *)
(*                                                                         *)
(* The last part has the lemmas about the operators on the queue that      *)
(* LiveQueueProofs rests on: what is in the queue once an entry is added,  *)
(* changed or removed, or once the generations of a session are taken out. *)
(***************************************************************************)
EXTENDS LiveSession, FiniteSums, SequenceTheorems, TLAPS

\* A source that a decision was made of.
Decided == {"accepted", "restored"}

\* A row of agent has the fields of IdleAgent, whatever they hold.
Row(r) ==
  r = [at |-> r.at, id |-> r.id, type |-> r.type, result |-> r.result,
       epoch |-> r.epoch, held |-> r.held]

\* No more of the types than the argument needs.
Shapes ==
  /\ source \in [Sessions -> {"plain", "wrapped", "accepted", "restored"}]
  /\ DOMAIN receipt = Sessions /\ receipt = [s \in Sessions |-> receipt[s]]
  /\ DOMAIN agent = Agents /\ agent = [a \in Agents |-> agent[a]]
  /\ \A a \in Agents : Row(agent[a])

\* What the source is once a result is recorded.
DecidedAs(result) == IF result = "discarded" THEN "restored" ELSE "accepted"

\* An agent about to write its receipt has just decided the source that way.
RecordHolds ==
  \A a \in Agents :
    agent[a].at = "record" /\ agent[a].id \in Sessions =>
      source[agent[a].id] = DecidedAs(agent[a].result)

ReceiptInv == Shapes /\ RecordHolds /\ ReceiptTellsTheTruth

\* A step at which the agents' records of what they decided do not grow.
Undecided ==
  /\ UNCHANGED receipt
  /\ DOMAIN agent' = Agents /\ agent' = [a \in Agents |-> agent'[a]]
  /\ \A a \in Agents :
       /\ Row(agent'[a])
       /\ agent'[a].at = "record" =>
            /\ agent[a].at = "record"
            /\ agent'[a].id = agent[a].id /\ agent'[a].result = agent[a].result

\* A row with one field changed, as the steps of an agent change it.
At(r, at) == [r EXCEPT !.at = at]
Held(r, held) == [r EXCEPT !.held = held]
Ending(r, result) == [r EXCEPT !.result = result]

ForSession(r, id) == [r EXCEPT !.id = id]
ForType(r, type) == [r EXCEPT !.type = type]
ForEpoch(r, start) == [r EXCEPT !.epoch = start]

LEMMA RowsOf ==
  ASSUME NEW r, Row(r), NEW x
  PROVE  /\ Row(At(r, x)) /\ At(r, x).at = x
         /\ At(r, x).id = r.id /\ At(r, x).result = r.result
         /\ Row(Held(r, x)) /\ Held(r, x).at = r.at
         /\ Held(r, x).id = r.id /\ Held(r, x).result = r.result
         /\ Row(Ending(r, x)) /\ Ending(r, x).at = r.at
         /\ Ending(r, x).id = r.id /\ Ending(r, x).result = x
  BY DEF Row, At, Held, Ending

LEMMA LeaseRowsOf ==
  ASSUME NEW r, Row(r), NEW x
  PROVE  /\ Row(ForSession(r, x)) /\ ForSession(r, x).at = r.at
         /\ Row(ForType(r, x)) /\ ForType(r, x).at = r.at
         /\ Row(ForEpoch(r, x)) /\ ForEpoch(r, x).at = r.at
  BY DEF Row, ForSession, ForType, ForEpoch

\* Leases that no longer count change nothing else of an agent.
LEMMA ReleasedRows ==
  ASSUME Shapes, NEW id, NEW types
  PROVE  /\ DOMAIN Released(id, types) = Agents
         /\ \A a \in Agents :
              /\ Row(Released(id, types)[a])
              /\ Released(id, types)[a].at = agent[a].at
              /\ Released(id, types)[a].id = agent[a].id
              /\ Released(id, types)[a].result = agent[a].result
<1>1. \A a \in Agents : \E x : Released(id, types)[a] = Held(agent[a], x)
  BY DEF Released, Held
<1>2. DOMAIN Released(id, types) = Agents
  BY DEF Released
<1>3. \A a \in Agents : Row(agent[a])
  BY DEF Shapes
<1> QED
  BY <1>1, <1>2, <1>3, RowsOf

LEMMA IdleRow == Row(IdleAgent) /\ IdleAgent.at = "idle"
  BY DEF Row, IdleAgent

\* One agent moves on, to anything but the writing of a receipt.
LEMMA OneMoves ==
  ASSUME Shapes, NEW a \in Agents, NEW rows, DOMAIN rows = Agents,
         \A b \in Agents : /\ Row(rows[b]) /\ rows[b].at = agent[b].at
                           /\ rows[b].id = agent[b].id /\ rows[b].result = agent[b].result,
         NEW next, Row(next), next.at # "record",
         agent' = [rows EXCEPT ![a] = next], UNCHANGED receipt
  PROVE  Undecided
<1>1. /\ DOMAIN agent' = Agents
      /\ \A b \in Agents : agent'[b] = IF b = a THEN next ELSE rows[b]
  OBVIOUS
<1>2. agent' = [b \in Agents |-> agent'[b]]
  OBVIOUS
<1> QED
  BY <1>1, <1>2 DEF Undecided

LEMMA ReplyMoves ==
  ASSUME Shapes, UNCHANGED receipt, NEW a \in Agents, NEW id, NEW kind, NEW type,
         NEW next, Row(next), next.at # "record", ServeReply(a, id, kind, type, next)
  PROVE  Undecided
<1>1. PICK acknowledged : agent' = [Released(id, {acknowledged}) EXCEPT ![a] = next]
  BY DEF ServeReply
<1> QED
  BY <1>1, ReleasedRows, OneMoves

LEMMA StepMoves ==
  ASSUME Shapes, UNCHANGED receipt, NEW a \in Agents, NEW at, at # "record", Step(a, at)
  PROVE  Undecided
<1>1. agent' = [agent EXCEPT ![a] = At(agent[a], at)]
  BY DEF Step, At
<1>2. Row(At(agent[a], at)) /\ At(agent[a], at).at # "record"
  BY RowsOf DEF Shapes
<1> QED
  BY <1>1, <1>2, OneMoves DEF Shapes

\* The row of an agent whose outcome is known.
OutcomeRow(a, at, result) == Ending(At(agent[a], at), result)

LEMMA OutcomeIs ==
  ASSUME Shapes, NEW a \in Agents, NEW at, NEW result, Outcome(a, at, result)
  PROVE  /\ agent' = [agent EXCEPT ![a] = OutcomeRow(a, at, result)]
         /\ Row(OutcomeRow(a, at, result))
         /\ OutcomeRow(a, at, result).at = at
         /\ OutcomeRow(a, at, result).id = agent[a].id
         /\ OutcomeRow(a, at, result).result = result
<1>1. agent' = [agent EXCEPT ![a] = OutcomeRow(a, at, result)]
  BY DEF Outcome, OutcomeRow, Shapes, At, Ending
<1>2. Row(At(agent[a], at)) /\ At(agent[a], at).at = at /\ At(agent[a], at).id = agent[a].id
  BY RowsOf DEF Shapes
<1> QED
  BY <1>1, <1>2, RowsOf DEF OutcomeRow

LEMMA OutcomeMoves ==
  ASSUME Shapes, UNCHANGED receipt, NEW a \in Agents, NEW result, Outcome(a, "report", result)
  PROVE  Undecided
  BY OutcomeIs, OneMoves DEF Shapes

-----------------------------------------------------------------------------
(* Every step is one of four kinds.                                        *)

\* The agent writes over an element that is not decided: its variants, or the merge that
\* was left to it.
ByHand(s) ==
  \/ source[s] = "plain" /\ source' = [source EXCEPT ![s] = "wrapped"]
  \/ source[s] = "wrapped" /\ source' = [source EXCEPT ![s] = "accepted"]
  \/ source[s] = "wrapped" /\ source' = [source EXCEPT ![s] = "restored"]

HandStep == Undecided /\ \E s : ByHand(s)

\* A decision is made of what the lock holder has found, and is to be recorded.
DecideStep(a) ==
  \E result \in {"complete", "carbonize", "discarded"} :
    /\ source[agent[a].id] = "wrapped"
    /\ source' = [source EXCEPT ![agent[a].id] = DecidedAs(result)]
    /\ agent' = [agent EXCEPT ![a] = OutcomeRow(a, "record", result)]
    /\ Outcome(a, "record", result)
    /\ UNCHANGED receipt

ReceiptStep(a) ==
  /\ agent[a].at = "record"
  /\ receipt' = [receipt EXCEPT ![agent[a].id] = agent[a].result]
  /\ Step(a, "report")
  /\ UNCHANGED source

Kinds ==
  \/ Undecided /\ UNCHANGED source
  \/ HandStep
  \/ \E a \in Agents : DecideStep(a) \/ ReceiptStep(a)

LEMMA StepKinds ==
  ASSUME Shapes, [Next]_vars
  PROVE  Kinds
<1> USE DEF disk, server, browser
<1>1. CASE UNCHANGED <<source, receipt, agent>>
  BY <1>1 DEF Kinds, Undecided, Shapes
<1>2. ASSUME NEW s \in Sessions, PageStep(s) PROVE Kinds
  BY <1>1, <1>2 DEF PageStep, Go, SendCheckpoint, Decide, ReportOrphan, Send
<1>3. ASSUME NEW id, NEW types, agent' = Released(id, types), UNCHANGED <<source, receipt>>
      PROVE  Kinds
  <2>1. agent' = [a \in Agents |-> agent'[a]]
    BY <1>3 DEF Released
  <2> QED
    BY <1>3, <2>1, ReleasedRows DEF Kinds, Undecided
<1>4. ASSUME NEW m \in wire, ServeBrowser(m) PROVE Kinds
  BY <1>1, <1>3, <1>4
  DEF ServeBrowser, CreateSession, RecordCheckpoint, RecordMountFailure, RecordDecision,
      DiscardOrphan
<1>5. ASSUME NEW q \in preflight, PreflightDone(q) PROVE Kinds
  <2>2. CASE agent' = agent
    BY <1>1, <1>5, <2>2 DEF PreflightDone
  <2>3. CASE Step(q.agent, "work")
    <3>1. CASE q.agent \in Agents
      BY <1>5, <2>3, <3>1, StepMoves DEF PreflightDone, Kinds
    <3>2. CASE q.agent \notin Agents
      <4>1. agent' = agent
        BY <2>3, <3>2 DEF Step, Shapes
      <4> QED
        BY <2>2, <4>1
    <3> QED
      BY <3>1, <3>2
  <2> QED
    BY <1>5, <2>2, <2>3 DEF PreflightDone
<1>6. ASSUME NEW i \in DOMAIN queue, Expire(i) PROVE Kinds
  BY <1>3, <1>6 DEF Expire
<1>7. ASSUME NEW a \in Agents, Poll(a) PROVE Kinds
  <2>1. PICK i \in DOMAIN queue, at \in {"apply", "work", "waiting"} : Lease(i, a, at)
    BY <1>7 DEF Poll
  <2> DEFINE r1 == ForSession(At(IdleAgent, at), queue[i].id)
             r2 == ForEpoch(ForType(r1, queue[i].type), epoch)
             next == Held(r2, TRUE)
  <2>2. agent' = [agent EXCEPT ![a] = next]
    BY <2>1 DEF Lease, At, ForSession, ForType, ForEpoch, Held
  <2>3. Row(next) /\ next.at = at
    <3>1. Row(At(IdleAgent, at)) /\ At(IdleAgent, at).at = at
      BY IdleRow, RowsOf
    <3>2. Row(r1) /\ r1.at = at
      BY <3>1, LeaseRowsOf
    <3> HIDE DEF r1
    <3>3. Row(r2) /\ r2.at = at
      BY <3>2, LeaseRowsOf
    <3> HIDE DEF r2
    <3> QED
      BY <3>3, RowsOf
  <2> HIDE DEF next
  <2> QED
    BY <1>7, <2>2, <2>3, OneMoves DEF Poll, Shapes, Kinds
<1>8. ASSUME NEW a \in Agents, WriteVariants(a) PROVE Kinds
  <2>1. Undecided
    BY <1>8 DEF WriteVariants, Undecided, Shapes
  <2>2. ByHand(agent[a].id)
    BY <1>8 DEF WriteVariants, ByHand
  <2> QED
    BY <2>1, <2>2 DEF HandStep, Kinds
<1>9. ASSUME NEW a \in Agents, Reply(a) PROVE Kinds
  BY <1>9, ReplyMoves, IdleRow DEF Reply, Kinds
<1>10. ASSUME NEW a \in Agents, ReadReceipt(a) \/ Lock(a) PROVE Kinds
  BY <1>10, StepMoves, OutcomeMoves DEF ReadReceipt, Lock, Kinds
<1>11. ASSUME NEW a \in Agents, EditSource(a) PROVE Kinds
  <2>0. UNCHANGED receipt
    BY <1>11 DEF EditSource
  <2>1. ASSUME NEW result \in {"complete", "carbonize", "discarded"}, source[agent[a].id] = "wrapped",
               source' = [source EXCEPT ![agent[a].id] = DecidedAs(result)], Outcome(a, "record", result)
        PROVE  Kinds
    <3>1. agent' = [agent EXCEPT ![a] = OutcomeRow(a, "record", result)]
      BY <2>1, OutcomeIs
    <3>2. DecideStep(a)
      BY <2>0, <2>1, <3>1, Zenon DEF DecideStep
    <3> QED
      BY <3>2 DEF Kinds
  <2>2. ASSUME NEW result, Outcome(a, "report", result), UNCHANGED source PROVE Kinds
    BY <2>0, <2>2, OutcomeMoves DEF Kinds
  <2> QED
    BY <1>11, <2>1, <2>2 DEF EditSource, DecidedAs
<1>12. ASSUME NEW a \in Agents, WriteReceipt(a) PROVE Kinds
  BY <1>12 DEF WriteReceipt, ReceiptStep, Kinds
<1>13. ASSUME NEW a \in Agents, PostResult(a) PROVE Kinds
  <2>1. PICK next :
          /\ next = IdleAgent \/ \E at \in {"cleanup", "merge"} : next = [agent[a] EXCEPT !.at = at, !.held = FALSE]
          /\ \/ ServeReply(a, agent[a].id, agent[a].result, agent[a].type, next)
             \/ agent' = [agent EXCEPT ![a] = next]
    BY <1>13 DEF PostResult, LeftTo
  <2>2. Row(next) /\ next.at # "record"
    <3>1. ASSUME NEW at \in {"cleanup", "merge"}, next = [agent[a] EXCEPT !.at = at, !.held = FALSE]
          PROVE  Row(next) /\ next.at = at
      <4>1. next = Held(At(agent[a], at), FALSE)
        BY <3>1 DEF At, Held
      <4>2. Row(At(agent[a], at)) /\ At(agent[a], at).at = at
        BY RowsOf DEF Shapes
      <4> QED
        BY <4>1, <4>2, RowsOf
    <3> QED
      BY <2>1, <3>1, IdleRow
  <2> QED
    BY <1>13, <2>1, <2>2, ReplyMoves, OneMoves DEF PostResult, Shapes, Kinds
<1>14. ASSUME NEW a \in Agents, Complete(a) PROVE Kinds
  <2>1. CASE agent' = [agent EXCEPT ![a] = IdleAgent]
    BY <1>14, <2>1, IdleRow, OneMoves DEF Complete, Shapes, Kinds
  <2>2. CASE ~(agent' = [agent EXCEPT ![a] = IdleAgent])
    BY <1>14, <2>2, IdleRow, ReplyMoves DEF Complete, Kinds
  <2> QED
    BY <2>1, <2>2
<1>15. ASSUME NEW a \in Agents, AgentStop(a) PROVE Kinds
  BY <1>15, IdleRow, OneMoves DEF AgentStop, Shapes, Kinds
<1>16. ASSUME NEW a \in Agents, AcceptFails(a) PROVE Kinds
  BY <1>16, OutcomeMoves DEF AcceptFails, Kinds
<1>17. ASSUME NEW a \in Agents, MergeByHand(a) PROVE Kinds
  <2>1. Undecided
    <3>1. CASE agent' = agent
      BY <1>17, <3>1 DEF MergeByHand, Undecided, Shapes
    <3>2. CASE agent' = [agent EXCEPT ![a] = IdleAgent]
      BY <1>17, <3>2, IdleRow, OneMoves DEF MergeByHand, Shapes
    <3> QED
      BY <1>17, <3>1, <3>2 DEF MergeByHand
  <2>2. CASE UNCHANGED source
    BY <2>1, <2>2 DEF Kinds
  <2>3. CASE ~UNCHANGED source
    <3>1. ByHand(agent[a].id)
      BY <1>17, <2>3 DEF MergeByHand, ByHand
    <3> QED
      BY <2>1, <3>1 DEF HandStep, Kinds
  <2> QED
    BY <2>2, <2>3
<1>18. CASE Crash
  <2>1. /\ DOMAIN agent' = Agents /\ agent' = [a \in Agents |-> agent'[a]]
        /\ \A a \in Agents :
             agent'[a] = IdleAgent \/ agent'[a] = Held(agent[a], FALSE)
    BY <1>18 DEF Crash, Held
  <2>2. \A a \in Agents :
          /\ Row(Held(agent[a], FALSE)) /\ Held(agent[a], FALSE).at = agent[a].at
          /\ Held(agent[a], FALSE).id = agent[a].id
          /\ Held(agent[a], FALSE).result = agent[a].result
    BY RowsOf DEF Shapes
  <2>3. Undecided
    BY <1>18, <2>1, <2>2, IdleRow DEF Crash, Undecided
  <2> QED
    BY <1>18, <2>3 DEF Crash, Kinds
<1>19. CASE Restart
  BY <1>1, <1>19 DEF Restart
<1>20. CASE UNCHANGED vars
  BY <1>1, <1>20 DEF vars
<1> QED
  BY <1>2, <1>4, <1>5, <1>6, <1>7, <1>8, <1>9, <1>10, <1>11, <1>12, <1>13, <1>14, <1>15, <1>16,
     <1>17, <1>18, <1>19, <1>20
  DEF Next, ServerStep, AgentStep, ExpireAbandoned, ExpireHeld

-----------------------------------------------------------------------------
(* What the kinds preserve.                                                *)

LEMMA ReceiptInit == Init => ReceiptInv
<1> SUFFICES ASSUME Init PROVE ReceiptInv
  OBVIOUS
<1>1. Shapes
  BY IdleRow DEF Init, Shapes
<1>2. RecordHolds /\ ReceiptTellsTheTruth
  BY IdleRow DEF Init, RecordHolds, ReceiptTellsTheTruth
<1> QED
  BY <1>1, <1>2 DEF ReceiptInv

\* A source that is decided stays as it is.
Frozen == \A s \in Sessions : source[s] \in Decided => source'[s] = source[s]

LEMMA UndecidedPreserves ==
  ASSUME ReceiptInv, Undecided, Frozen,
         source' \in [Sessions -> {"plain", "wrapped", "accepted", "restored"}]
  PROVE  ReceiptInv'
<1>1. Shapes'
  BY DEF ReceiptInv, Shapes, Undecided
<1>2. RecordHolds'
  <2> SUFFICES ASSUME NEW a \in Agents, agent'[a].at = "record", agent'[a].id \in Sessions
               PROVE  source'[agent'[a].id] = DecidedAs(agent'[a].result)
    BY DEF RecordHolds
  <2>1. source[agent'[a].id] = DecidedAs(agent'[a].result)
    BY DEF ReceiptInv, RecordHolds, Undecided
  <2> QED
    BY <2>1 DEF Frozen, Decided, DecidedAs
<1>3. ReceiptTellsTheTruth'
  BY DEF ReceiptInv, ReceiptTellsTheTruth, Undecided, Frozen, Decided
<1> QED
  BY <1>1, <1>2, <1>3 DEF ReceiptInv

LEMMA DecidePreserves ==
  ASSUME ReceiptInv, NEW a \in Agents, DecideStep(a)
  PROVE  ReceiptInv' /\ Frozen
<1>0. Shapes
  BY DEF ReceiptInv
<1>1. PICK result \in {"complete", "carbonize", "discarded"} :
        /\ source[agent[a].id] = "wrapped"
        /\ source' = [source EXCEPT ![agent[a].id] = DecidedAs(result)]
        /\ agent' = [agent EXCEPT ![a] = OutcomeRow(a, "record", result)]
        /\ Outcome(a, "record", result)
        /\ UNCHANGED receipt
  BY DEF DecideStep
<1> DEFINE row == OutcomeRow(a, "record", result)
<1>2. Row(row) /\ row.id = agent[a].id /\ row.result = result
  BY <1>0, <1>1, OutcomeIs
<1>3. agent' = [agent EXCEPT ![a] = row]
  BY <1>1
<1> HIDE DEF row
<1>4. /\ source' \in [Sessions -> {"plain", "wrapped", "accepted", "restored"}]
      /\ \A s \in Sessions :
           source'[s] = IF s = agent[a].id THEN DecidedAs(result) ELSE source[s]
  BY <1>0, <1>1 DEF Shapes, DecidedAs
<1>5. Frozen
  BY <1>1, <1>4 DEF Frozen, Decided
<1>6. /\ DOMAIN agent' = Agents /\ agent' = [b \in Agents |-> agent'[b]]
      /\ \A b \in Agents : agent'[b] = IF b = a THEN row ELSE agent[b]
  BY <1>0, <1>3 DEF Shapes
<1>7. Shapes'
  BY <1>0, <1>1, <1>2, <1>4, <1>6 DEF Shapes
<1>8. RecordHolds'
  <2> SUFFICES ASSUME NEW b \in Agents, agent'[b].at = "record", agent'[b].id \in Sessions
               PROVE  source'[agent'[b].id] = DecidedAs(agent'[b].result)
    BY DEF RecordHolds
  <2>1. CASE b = a
    BY <1>2, <1>4, <1>6, <2>1
  <2>2. CASE b # a
    <3>1. agent'[b] = agent[b] /\ source[agent[b].id] = DecidedAs(agent[b].result)
      BY <1>6, <2>2 DEF ReceiptInv, RecordHolds
    <3> QED
      BY <1>5, <3>1 DEF Frozen, Decided, DecidedAs
  <2> QED
    BY <2>1, <2>2
<1>9. ReceiptTellsTheTruth'
  BY <1>1, <1>5 DEF ReceiptInv, ReceiptTellsTheTruth, Frozen, Decided
<1> QED
  BY <1>5, <1>7, <1>8, <1>9 DEF ReceiptInv

LEMMA ReceiptPreserves ==
  ASSUME ReceiptInv, NEW a \in Agents, ReceiptStep(a)
  PROVE  ReceiptInv' /\ Frozen
<1>0. Shapes
  BY DEF ReceiptInv
<1>1. /\ agent' = [agent EXCEPT ![a] = At(agent[a], "report")]
      /\ UNCHANGED source
  BY DEF ReceiptStep, Step, At
<1>2. Row(At(agent[a], "report")) /\ At(agent[a], "report").at = "report"
  BY <1>0, RowsOf DEF Shapes
<1>3. /\ DOMAIN agent' = Agents /\ agent' = [b \in Agents |-> agent'[b]]
      /\ \A b \in Agents : agent'[b] = IF b = a THEN At(agent[a], "report") ELSE agent[b]
  BY <1>0, <1>1 DEF Shapes
<1>4. /\ DOMAIN receipt' = Sessions /\ receipt' = [s \in Sessions |-> receipt'[s]]
      /\ \A s \in Sessions :
           receipt'[s] = IF s = agent[a].id THEN agent[a].result ELSE receipt[s]
  BY <1>0 DEF Shapes, ReceiptStep
<1>5. Shapes'
  BY <1>0, <1>1, <1>2, <1>3, <1>4 DEF Shapes
<1>6. RecordHolds'
  BY <1>1, <1>2, <1>3 DEF ReceiptInv, RecordHolds
<1>7. ReceiptTellsTheTruth'
  BY <1>1, <1>4 DEF ReceiptInv, RecordHolds, ReceiptTellsTheTruth, ReceiptStep, DecidedAs
<1> QED
  BY <1>1, <1>5, <1>6, <1>7 DEF ReceiptInv, Frozen

LEMMA ReceiptInductive == ReceiptInv /\ [Next]_vars => ReceiptInv' /\ Frozen
<1> SUFFICES ASSUME ReceiptInv, [Next]_vars PROVE ReceiptInv' /\ Frozen
  OBVIOUS
<1>0. Shapes /\ Kinds
  BY StepKinds DEF ReceiptInv
<1>1. CASE Undecided /\ UNCHANGED source
  BY <1>0, <1>1, UndecidedPreserves DEF Shapes, Frozen
<1>2. CASE HandStep
  <2>1. /\ source' \in [Sessions -> {"plain", "wrapped", "accepted", "restored"}]
        /\ Frozen /\ Undecided
    BY <1>0, <1>2 DEF HandStep, ByHand, Shapes, Frozen, Decided
  <2> QED
    BY <2>1, UndecidedPreserves
<1> QED
  BY <1>0, <1>1, <1>2, DecidePreserves, ReceiptPreserves DEF Kinds

-----------------------------------------------------------------------------
(* Theorems.                                                               *)

\* The inductive invariant always holds: receipts are true, and so is what an agent
\* that has just decided a source is about to write.
THEOREM ReceiptInvariance == Spec => []ReceiptInv
<1>1. ReceiptInv /\ [Next]_vars => ReceiptInv'
  BY ReceiptInductive
<1> QED
  BY <1>1, ReceiptInit, PTL DEF Spec

\* A receipt that live-accept.mjs has left says what the source says, so that a
\* repeated decision that trusts it does no harm.
THEOREM ReceiptsAreTrue == Spec => []ReceiptTellsTheTruth
<1>1. ReceiptInv => ReceiptTellsTheTruth
  BY DEF ReceiptInv
<1> QED
  BY <1>1, ReceiptInvariance, PTL

\* handleAccept and handleDiscard rewrite the source of a session at most once,
\* however often the decision is delivered and whoever is killed on the way.
THEOREM SourceIsDecidedOnce == Spec => SourceDecidedOnce
<1>1. ReceiptInv /\ [Next]_vars =>
        [\A s \in Sessions : source[s] \in {"accepted", "restored"} => source'[s] = source[s]]_vars
  BY ReceiptInductive DEF Frozen, Decided
<1> QED
  BY <1>1, ReceiptInvariance, PTL DEF Spec, SourceDecidedOnce

-----------------------------------------------------------------------------
(* The queue, as the set of its entries.                                   *)

Entries(q) == {q[i] : i \in DOMAIN q}
IsGeneration(e, id) == e.id = id /\ e.type = "generate"
Distinct(q) == \A i, j \in DOMAIN q : q[i].id = q[j].id /\ q[i].type = q[j].type => i = j

\* The first of some positions of a sequence is one of them.
LEMMA FirstOf ==
  ASSUME NEW n \in Nat, NEW is \in SUBSET (1 .. n), is # {}
  PROVE  First(is) \in is
<1>1. is \in SUBSET Nat /\ IsFiniteSet(is)
  <2>1. 1 \in Int /\ n \in Int /\ 1 .. n \subseteq Nat
    OBVIOUS
  <2>2. IsFiniteSet(1 .. n)
    BY <2>1, FS_Interval
  <2> QED
    BY <2>1, <2>2, FS_Subset
<1>2. PICK m \in is : Below(is, m) = {}
  BY <1>1, LeastElement
<1>3. \A j \in is : m <= j
  BY <1>1, <1>2 DEF Below
<1> QED
  BY <1>3 DEF First

\* The first n entries without the generations of a session.
IsKept(k, q, id) ==
  k = [n \in 0 .. Len(q) |->
        IF n = 0 THEN <<>>
        ELSE IF q[n].id = id /\ q[n].type = "generate" THEN k[n - 1]
        ELSE Append(k[n - 1], q[n])]

KeptStep(k, q, id, n) ==
  IF n = 0 THEN <<>>
  ELSE IF q[n].id = id /\ q[n].type = "generate" THEN k[n - 1]
  ELSE Append(k[n - 1], q[n])

\* The function that keeps the other entries exists: at the least position for which it
\* did not, the function up to the position before would extend to it.
LEMMA KeptExists ==
  ASSUME NEW S, NEW q \in Seq(S), NEW id
  PROVE  \E k : IsKept(k, q, id)
<1> DEFINE N == Len(q)
           UpTo(k, n) == k = [m \in 0 .. n |-> KeptStep(k, q, id, m)]
           Missing == {n \in 0 .. N : ~ \E k : UpTo(k, n)}
<1>1. N \in Nat
  BY LenProperties
<1>2. Missing = {}
  <2> SUFFICES ASSUME Missing # {} PROVE FALSE
    OBVIOUS
  <2>1. IsFiniteSet(Missing) /\ Missing \in SUBSET Nat
    <3>1. 0 \in Int /\ N \in Int /\ 0 .. N \subseteq Nat
      BY <1>1
    <3>2. IsFiniteSet(0 .. N)
      BY <3>1, FS_Interval
    <3>3. Missing \subseteq 0 .. N
      OBVIOUS
    <3> QED
      BY <3>1, <3>2, <3>3, FS_Subset
  <2>2. PICK m \in Missing : Below(Missing, m) = {}
    BY <2>1, LeastElement
  <2>3. m \in 0 .. N /\ \A n \in 0 .. N : n < m => n \notin Missing
    BY <2>2 DEF Below
  <2>4. CASE m = 0
    <3> DEFINE k == [i \in 0 .. 0 |-> <<>>]
    <3>1. UpTo(k, 0)
      BY DEF KeptStep
    <3> QED
      BY <2>2, <2>4, <3>1
  <2>5. CASE m # 0
    <3>1. m - 1 \in 0 .. N /\ m - 1 < m
      BY <1>1, <2>3, <2>5
    <3>2. PICK k : UpTo(k, m - 1)
      BY <2>3, <3>1
    <3> DEFINE l == [i \in 0 .. m |-> IF i = m THEN KeptStep(k, q, id, m) ELSE k[i]]
    <3>3. \A i \in 0 .. (m - 1) : l[i] = k[i] /\ k[i] = KeptStep(k, q, id, i)
      <4>1. \A i \in 0 .. (m - 1) : i \in 0 .. m /\ i # m
        BY <1>1, <2>3
      <4>2. \A i \in 0 .. (m - 1) : k[i] = KeptStep(k, q, id, i)
        BY <3>2
      <4> QED
        BY <4>1, <4>2
    <3>4. ASSUME NEW i \in 0 .. m PROVE l[i] = KeptStep(l, q, id, i)
      <4>1. CASE i = 0
        <5>1. 0 \in 0 .. (m - 1)
          BY <1>1, <2>3, <2>5
        <5>2. l[0] = KeptStep(k, q, id, 0)
          BY <3>3, <5>1
        <5> QED
          BY <4>1, <5>2 DEF KeptStep
      <4>2. CASE i # 0
        <5>1. i - 1 \in 0 .. (m - 1)
          BY <1>1, <2>3, <3>4, <4>2
        <5>2. KeptStep(l, q, id, i) = KeptStep(k, q, id, i)
          BY <3>3, <4>2, <5>1 DEF KeptStep
        <5>3. l[i] = KeptStep(k, q, id, i)
          <6>1. CASE i = m
            BY <6>1, <3>4
          <6>2. CASE i # m
            <7>1. i \in 0 .. (m - 1)
              BY <1>1, <2>3, <3>4, <6>2
            <7> QED
              BY <3>3, <7>1
          <6> QED
            BY <6>1, <6>2
        <5> QED
          BY <5>2, <5>3
      <4> QED
        BY <4>1, <4>2
    <3>5. UpTo(l, m)
      <4>1. l = [i \in 0 .. m |-> l[i]]
        OBVIOUS
      <4> HIDE DEF l
      <4> QED
        BY <3>4, <4>1
    <3> QED
      BY <2>2, <3>5
  <2> QED
    BY <2>4, <2>5
<1>3. N \in 0 .. N
  BY <1>1
<1>4. PICK k : UpTo(k, N)
  BY <1>2, <1>3
<1>5. IsKept(k, q, id)
  BY <1>4 DEF IsKept, KeptStep
<1> QED
  BY <1>5

\* So the recursive definition means what it says.
LEMMA WithoutIsKept ==
  ASSUME NEW S, NEW q \in Seq(S), NEW id
  PROVE  \E k : IsKept(k, q, id) /\ WithoutGeneration(q, id) = k[Len(q)]
<1> DEFINE k == CHOOSE l : IsKept(l, q, id)
<1>1. IsKept(k, q, id)
  BY KeptExists
<1>2. WithoutGeneration(q, id) = k[Len(q)]
  BY DEF WithoutGeneration, IsKept
<1> QED
  BY <1>1, <1>2

\* An entry that is like none in the queue is added to it.
LEMMA Appended ==
  ASSUME NEW S, NEW q \in Seq(S), NEW e \in S
  PROVE  /\ Append(q, e) \in Seq(S)
         /\ Entries(Append(q, e)) = Entries(q) \cup {e}
         /\ Distinct(q) /\ ~(\E f \in Entries(q) : f.id = e.id /\ f.type = e.type) => Distinct(Append(q, e))
<1> DEFINE r == Append(q, e)
           n == Len(q)
<1>1. /\ r \in Seq(S) /\ Len(r) = n + 1 /\ r[n + 1] = e
      /\ \A i \in 1 .. n : r[i] = q[i]
  BY AppendProperties
<1>2. n \in Nat /\ DOMAIN q = 1 .. n /\ DOMAIN r = 1 .. (n + 1)
  BY <1>1, LenProperties
<1> HIDE DEF r, n
<1>3. DOMAIN r = DOMAIN q \cup {n + 1} /\ n + 1 \notin DOMAIN q
  BY <1>2
<1>4. Entries(r) = Entries(q) \cup {e}
  BY <1>1, <1>2, <1>3 DEF Entries
<1>5. ASSUME Distinct(q), ~(\E f \in Entries(q) : f.id = e.id /\ f.type = e.type)
      PROVE  Distinct(r)
  <2>1. \A i \in DOMAIN q : ~(q[i].id = e.id /\ q[i].type = e.type)
    BY <1>5 DEF Entries
  <2>2. ASSUME NEW i \in DOMAIN r, NEW j \in DOMAIN r, r[i].id = r[j].id, r[i].type = r[j].type
        PROVE  i = j
    BY <1>1, <1>2, <1>3, <1>5, <2>1, <2>2 DEF Distinct
  <2> QED
    BY <2>2 DEF Distinct
<1> QED
  BY <1>1, <1>4, <1>5 DEF r

\* Every generation of the session is gone, and nothing else.
LEMMA Retired ==
  ASSUME NEW S, NEW q \in Seq(S), NEW id
  PROVE  /\ WithoutGeneration(q, id) \in Seq(S)
         /\ Entries(WithoutGeneration(q, id)) = {e \in Entries(q) : ~IsGeneration(e, id)}
         /\ Distinct(q) => Distinct(WithoutGeneration(q, id))
<1> DEFINE N == Len(q)
           Stay(n) == {q[i] : i \in {j \in 1 .. n : ~IsGeneration(q[j], id)}}
<1>1. PICK k : IsKept(k, q, id) /\ WithoutGeneration(q, id) = k[N]
  BY WithoutIsKept
<1> DEFINE Good(n) == /\ k[n] \in Seq(S) /\ Entries(k[n]) = Stay(n)
                      /\ Distinct(q) => Distinct(k[n])
           Bad == {n \in 0 .. N : ~Good(n)}
<1>2. N \in Nat /\ DOMAIN q = 1 .. N /\ \A i \in 1 .. N : q[i] \in S
  BY LenProperties, ElementOfSeq
<1>3. Bad = {}
  <2> SUFFICES ASSUME Bad # {} PROVE FALSE
    OBVIOUS
  <2>1. IsFiniteSet(Bad) /\ Bad \in SUBSET Nat
    <3>1. 0 \in Int /\ N \in Int /\ 0 .. N \subseteq Nat
      BY <1>2
    <3>2. IsFiniteSet(0 .. N)
      BY <3>1, FS_Interval
    <3>3. Bad \subseteq 0 .. N
      OBVIOUS
    <3> QED
      BY <3>1, <3>2, <3>3, FS_Subset
  <2>2. PICK m \in Bad : Below(Bad, m) = {}
    BY <2>1, LeastElement
  <2>3. m \in 0 .. N /\ ~Good(m) /\ \A n \in 0 .. N : n < m => Good(n)
    BY <2>2 DEF Below
  <2>4. CASE m = 0
    <3>1. k[0] = <<>>
      BY <1>1, <1>2 DEF IsKept
    <3>2. <<>> \in Seq(S) /\ Entries(<<>>) = {} /\ Distinct(<<>>)
      BY DEF Entries, Distinct
    <3>3. Stay(0) = {}
      OBVIOUS
    <3> QED
      BY <2>3, <2>4, <3>1, <3>2, <3>3
  <2>5. CASE m # 0
    <3>1. m - 1 \in 0 .. N /\ m - 1 < m /\ m \in 1 .. N
      BY <1>2, <2>3, <2>5
    <3>2. Good(m - 1) /\ q[m] \in S
      BY <1>2, <2>3, <3>1
    <3>3. k[m] = IF IsGeneration(q[m], id) THEN k[m - 1] ELSE Append(k[m - 1], q[m])
      BY <1>1, <1>2, <2>3, <2>5 DEF IsKept, IsGeneration
    <3>4. 1 .. m = 1 .. (m - 1) \cup {m} /\ m \notin 1 .. (m - 1) /\ 1 .. (m - 1) \subseteq 1 .. N
      BY <1>2, <3>1
    <3>5. CASE IsGeneration(q[m], id)
      <4>1. Stay(m) = Stay(m - 1)
        BY <3>4, <3>5
      <4> QED
        BY <2>3, <3>2, <3>3, <3>5, <4>1
    <3>6. CASE ~IsGeneration(q[m], id)
      <4>1. Stay(m) = Stay(m - 1) \cup {q[m]}
        BY <3>4, <3>6
      <4>2. k[m] = Append(k[m - 1], q[m])
        BY <3>3, <3>6
      <4>3. Distinct(q) => ~(\E f \in Entries(k[m - 1]) : f.id = q[m].id /\ f.type = q[m].type)
        BY <1>2, <3>1, <3>2, <3>4 DEF Distinct
      <4>4. /\ k[m] \in Seq(S) /\ Entries(k[m]) = Entries(k[m - 1]) \cup {q[m]}
            /\ Distinct(q) => Distinct(k[m])
        BY <3>2, <4>2, <4>3, Appended
      <4> QED
        BY <2>3, <3>2, <4>1, <4>4
    <3> QED
      BY <3>5, <3>6
  <2> QED
    BY <2>4, <2>5
<1>4. Good(N)
  BY <1>2, <1>3
<1>5. Stay(N) = {e \in Entries(q) : ~IsGeneration(e, id)}
  BY <1>2 DEF Entries
<1> QED
  BY <1>1, <1>4, <1>5

\* One entry goes.
LEMMA Removed ==
  ASSUME NEW S, NEW q \in Seq(S), NEW i \in DOMAIN q, Distinct(q)
  PROVE  /\ RemoveAt(q, i) \in Seq(S)
         /\ Len(RemoveAt(q, i)) < Len(q)
         /\ Entries(RemoveAt(q, i)) = {e \in Entries(q) : ~(e.id = q[i].id /\ e.type = q[i].type)}
         /\ Distinct(RemoveAt(q, i))
<1> DEFINE r == RemoveAt(q, i)
           n == Len(q)
           front == SubSeq(q, 1, i - 1)
           rest == SubSeq(q, i + 1, n)
<1>1. n \in Nat /\ DOMAIN q = 1 .. n /\ i \in 1 .. n /\ \A j \in 1 .. n : q[j] \in S
  BY LenProperties, ElementOfSeq
<1>2. /\ front \in Seq(S) /\ Len(front) = i - 1
      /\ \A j \in 1 .. (i - 1) : front[j] = q[j]
  <2>1. 1 \in Int /\ i - 1 \in Int /\ \A j \in 1 .. (i - 1) : q[j] \in S
    BY <1>1
  <2>2. /\ front \in Seq(S) /\ Len(front) = IF 1 <= i - 1 THEN i - 1 - 1 + 1 ELSE 0
        /\ \A j \in 1 .. (i - 1 - 1 + 1) : front[j] = q[1 + j - 1]
    BY <2>1, SubSeqProperties
  <2> QED
    BY <1>1, <2>2
<1>3. /\ rest \in Seq(S) /\ Len(rest) = n - i
      /\ \A j \in 1 .. (n - i) : rest[j] = q[i + j]
  <2>1. i + 1 \in Int /\ n \in Int /\ \A j \in (i + 1) .. n : q[j] \in S
    BY <1>1
  <2>2. /\ rest \in Seq(S) /\ Len(rest) = IF i + 1 <= n THEN n - (i + 1) + 1 ELSE 0
        /\ \A j \in 1 .. (n - (i + 1) + 1) : rest[j] = q[i + 1 + j - 1]
    BY <2>1, SubSeqProperties
  <2> QED
    BY <1>1, <2>2
<1>4. r = front \o rest
  BY DEF RemoveAt
<1> HIDE DEF front, rest, r, n
<1>5. /\ r \in Seq(S) /\ Len(r) = Len(front) + Len(rest)
      /\ \A j \in 1 .. (Len(front) + Len(rest)) :
           r[j] = IF j <= Len(front) THEN front[j] ELSE rest[j - Len(front)]
  BY <1>2, <1>3, <1>4, ConcatProperties
<1>6. Len(r) = n - 1 /\ \A j \in 1 .. (n - 1) : r[j] = IF j < i THEN q[j] ELSE q[j + 1]
  <2>1. Len(front) + Len(rest) = n - 1 /\ Len(r) = n - 1
    BY <1>1, <1>2, <1>3, <1>5
  <2>2. ASSUME NEW j \in 1 .. (n - 1) PROVE r[j] = IF j < i THEN q[j] ELSE q[j + 1]
    <3>1. r[j] = IF j <= i - 1 THEN front[j] ELSE rest[j - (i - 1)]
      BY <1>2, <1>5, <2>1
    <3>2. CASE j < i
      <4>1. j \in 1 .. (i - 1) /\ j <= i - 1
        BY <1>1, <3>2
      <4> QED
        BY <1>2, <3>1, <3>2, <4>1
    <3>3. CASE ~(j < i)
      <4>1. ~(j <= i - 1) /\ j - (i - 1) \in 1 .. (n - i) /\ i + (j - (i - 1)) = j + 1
        BY <1>1, <3>3
      <4> QED
        BY <1>3, <3>1, <3>3, <4>1
    <3> QED
      BY <3>2, <3>3
  <2> QED
    BY <2>1, <2>2
<1>7. DOMAIN r = 1 .. (n - 1)
  BY <1>5, <1>6, LenProperties
<1> DEFINE at(j) == IF j < i THEN j ELSE j + 1
<1>8. \A j \in DOMAIN r : at(j) \in DOMAIN q /\ at(j) # i /\ r[j] = q[at(j)]
  BY <1>1, <1>6, <1>7
<1>9. \A j \in DOMAIN q : j # i => \E h \in DOMAIN r : at(h) = j
  <2> SUFFICES ASSUME NEW j \in DOMAIN q, j # i PROVE \E h \in DOMAIN r : at(h) = j
    OBVIOUS
  <2>1. CASE j < i
    <3>1. j \in DOMAIN r /\ at(j) = j
      BY <1>1, <1>7, <2>1
    <3> QED
      BY <3>1
  <2>2. CASE ~(j < i)
    <3>1. j - 1 \in DOMAIN r /\ at(j - 1) = j
      BY <1>1, <1>7, <2>2
    <3> QED
      BY <3>1
  <2> QED
    BY <2>1, <2>2
<1>10. \A g, h \in DOMAIN r : at(g) = at(h) => g = h
  BY <1>1, <1>7
<1> HIDE DEF at
<1>11. Entries(r) = {e \in Entries(q) : ~(e.id = q[i].id /\ e.type = q[i].type)}
  BY <1>1, <1>8, <1>9 DEF Entries, Distinct
<1>12. Distinct(r)
  BY <1>8, <1>10 DEF Distinct
<1> QED
  BY <1>1, <1>5, <1>6, <1>11, <1>12 DEF r, n

\* An entry changes, and stays the event it is.
LEMMA Changed ==
  ASSUME NEW S, NEW q \in Seq(S), NEW i \in DOMAIN q, NEW e \in S,
         e.id = q[i].id, e.type = q[i].type
  PROVE  /\ [q EXCEPT ![i] = e] \in Seq(S)
         /\ \A f \in Entries([q EXCEPT ![i] = e]) : f = e \/ \E g \in Entries(q) : f = g
         /\ e \in Entries([q EXCEPT ![i] = e])
         /\ \A g \in Entries(q) : g # q[i] => g \in Entries([q EXCEPT ![i] = e])
         /\ Distinct(q) => Distinct([q EXCEPT ![i] = e])
<1>1. i \in 1 .. Len(q) /\ DOMAIN q = 1 .. Len(q)
  BY LenProperties
<1>2. [q EXCEPT ![i] = e] \in Seq(S)
  BY <1>1, ExceptSeq
<1> QED
  BY <1>1, <1>2 DEF Entries, Distinct
=============================================================================
