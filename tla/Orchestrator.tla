----------------------------- MODULE Orchestrator -----------------------------
(***************************************************************************)
(* The analysis pipeline of app/agents/orchestrator.py: the LangGraph run  *)
(* by the Celery task agents.orchestrator, the sub-agent tasks it          *)
(* dispatches and waits for, and the Signal row and result key it leaves.  *)
(*                                                                         *)
(*   START --> research_node --+                                           *)
(*         \-> quant_node -----+--> risk_node --> [execution_node] -->     *)
(*                                  synthesize_node --> END                *)
(*                                                                         *)
(* A run is one delivery of a query's orchestrator message: task_acks_late *)
(* redelivers a message whose worker died or lost its broker connection,   *)
(* and the second run starts from an empty graph state while sub-agent     *)
(* tasks of the first may still be in flight.  Every node waits with a     *)
(* timeout, so a sub-agent task may outlive the wait for it.               *)
(*                                                                         *)
(* Orchestrator runs and sub-agent attempts share one pool of worker       *)
(* slots: the compose file starts a single worker for all five queues.     *)
(*                                                                         *)
(* Time is not modelled: a timeout may fire whenever its node waits.       *)
(***************************************************************************)
EXTENDS Integers, FiniteSets

CONSTANTS
  Query,          \* the query_ids (fresh uuid4 per request)
  Signals,        \* quant and final signals considered, with "BUY" and "HOLD"
  MaxQty,         \* bound on the quantities the risk agent suggests
  MaxRetries,     \* max_retries of the sub-agent tasks (3 in the code)
  MaxDeliveries,  \* bound on the deliveries of one orchestrator message
  Slots,          \* concurrency of the shared Celery worker
  Faults          \* the faults of the surroundings a run explores

ASSUME OrchestratorAssumption ==
  /\ {"BUY", "HOLD"} \subseteq Signals
  /\ Signals \subseteq {"BUY", "SELL", "HOLD"}
  /\ IsFiniteSet(Query)
  /\ MaxQty \in Nat \ {0}
  /\ MaxRetries \in Nat
  /\ MaxDeliveries \in Nat \ {0}
  /\ Slots \in Nat \ {0}
  /\ Faults \subseteq {"agent", "publish", "timeout", "worker", "process"}

Agent == {"research", "quant", "risk", "execution"}
Run == Query \X (1..MaxDeliveries)
QueryOf(r) == r[1]

-----------------------------------------------------------------------------
(***************************************************************************)
(* Values.  A sub-agent's result dict is abstracted to what routing and    *)
(* payloads read from it: the side of the 0.5 confidence threshold its     *)
(* sentiment_score clamps to, the quant_signal, the decision with its      *)
(* suggested_qty, or the order.  "error" is the {"error": ...} dict of a   *)
(* node whose sub-agent failed; "unset" is a graph field still None.       *)
(***************************************************************************)
Tag == {"unset", "error", "low", "high", "PASS", "BLOCK", "order"} \cup Signals
Result == [tag : Tag, qty : 0..MaxQty]
Value(tag) == [tag |-> tag, qty |-> 0]
Unset == Value("unset")

\* What a node stores when the wait for its sub-agent raises.
Fallback(a) == IF a = "risk" THEN Value("BLOCK") ELSE Value("error")

\* The payload fields that matter: signal is RiskInput.proposed_signal or
\* ExecutionInput.action.
Payload == [signal : Signals \cup {"none"}, confidence : {"low", "high", "none"},
            qty : 0..MaxQty]
NoPayload == [signal |-> "none", confidence |-> "none", qty |-> 0]

TaskState == {"none", "queued", "running", "success", "failure"}
Task == [st : TaskState, tries : 0..MaxRetries, arg : Payload, out : Result]
NoTask == [st |-> "none", tries |-> 0, arg |-> NoPayload, out |-> Unset]

Mode == {"signal_only", "full_analysis"}
Stage == {"absent", "queued", "gather", "assess", "trade", "synthesize",
          "commit", "cache", "done", "failed", "lost"}
InGraph == {"gather", "assess", "trade", "synthesize", "commit", "cache"}
Row == [signal : Signals \cup {"none"}, risk : Tag]
NoRow == [signal |-> "none", risk |-> "unset"]

VARIABLES
  mode,     \* mode[q]: the mode q was submitted with, or "none"
  pc,       \* pc[r]: where run r is in the graph
  held,     \* held[r][a]: the OrchestratorState field <a>_result of run r
  task,     \* task[r][a]: the Celery task run r dispatched to agent a
  draft,    \* draft[r]: the synthesis signal the LLM returned to run r
  row,      \* row[r]: the Signal row run r committed
  result    \* queries with a result:<query_id> key in Redis

vars == <<mode, pc, held, task, draft, row, result>>

TypeOK ==
  /\ mode \in [Query -> Mode \cup {"none"}]
  /\ pc \in [Run -> Stage]
  /\ held \in [Run -> [Agent -> Result]]
  /\ task \in [Run -> [Agent -> Task]]
  /\ draft \in [Run -> Signals \cup {"none"}]
  /\ row \in [Run -> Row]
  /\ result \subseteq Query

Init ==
  /\ mode = [q \in Query |-> "none"]
  /\ pc = [r \in Run |-> "absent"]
  /\ held = [r \in Run |-> [a \in Agent |-> Unset]]
  /\ task = [r \in Run |-> [a \in Agent |-> NoTask]]
  /\ draft = [r \in Run |-> "none"]
  /\ row = [r \in Run |-> NoRow]
  /\ result = {}

-----------------------------------------------------------------------------
(***************************************************************************)
(* Payloads and routing.                                                   *)
(***************************************************************************)

\* risk_node: a missing sentiment_score (research failed) counts as 0.7.
Confidence(research) == IF research.tag = "low" THEN "low" ELSE "high"

\* quant.get("quant_signal", default)
SignalOr(quant, default) ==
  IF quant.tag \in Signals THEN quant.tag ELSE default

\* An operator <definition>_<change> is a mutated form of the definition after
\* it, which no specification uses.
RiskPayload_DefaultsToBuy(h) ==
  [signal |-> SignalOr(h["quant"], "BUY"),
   confidence |-> Confidence(h["research"]), qty |-> 0]
RiskPayload(h) ==
  [signal |-> SignalOr(h["quant"], "HOLD"),
   confidence |-> Confidence(h["research"]), qty |-> 0]

ExecutionPayload(h) ==
  [signal |-> SignalOr(h["quant"], "BUY"),
   confidence |-> "none", qty |-> h["risk"].qty]

PayloadOf(a, h) ==
  CASE a = "risk" -> RiskPayload(h)
    [] a = "execution" -> ExecutionPayload(h)
    [] OTHER -> NoPayload

\* What a successful attempt of agent a may return for a payload.  For risk:
\* a signal other than BUY passes with quantity 0, low confidence blocks, and
\* the guardrails decide the rest (RiskAgent.tla).
RiskOutcome(arg) ==
  IF arg.signal # "BUY" THEN {Value("PASS")}
  ELSE IF arg.confidence = "low" THEN {Value("BLOCK")}
  ELSE {Value("BLOCK")} \cup [tag : {"PASS"}, qty : 1..MaxQty]

Outcome(a, arg) ==
  CASE a = "research" -> {Value("low"), Value("high")}
    [] a = "quant" -> {Value(s) : s \in Signals}
    [] a = "risk" -> RiskOutcome(arg)
    [] a = "execution" -> {Value("order")}

\* route_after_risk: TRUE sends the run straight to synthesize_node.
SkipExecution_ForgetsMode(r) ==
  \/ held[r]["risk"].tag = "BLOCK"
  \/ held[r]["risk"].qty = 0
SkipExecution(r) ==
  \/ held[r]["risk"].tag = "BLOCK"
  \/ mode[QueryOf(r)] = "signal_only"
  \/ held[r]["risk"].qty = 0

\* The nodes of run r that are executing.
ActiveNodes(r) ==
  CASE pc[r] = "gather" -> {"research", "quant"}
    [] pc[r] = "assess" -> {"risk"}
    [] pc[r] = "trade" -> {"execution"}
    [] OTHER -> {}

Waits(r, a) == a \in ActiveNodes(r) /\ held[r][a] = Unset

\* One worker process serves orchestrator runs and sub-agent attempts alike.
BusyRuns == {r \in Run : pc[r] \in InGraph}
BusyTasks == {t \in Run \X Agent : task[t[1]][t[2]].st = "running"}
FreeSlot_TasksOnly == Cardinality(BusyTasks) < Slots
FreeSlot == Cardinality(BusyRuns) + Cardinality(BusyTasks) < Slots

-----------------------------------------------------------------------------
(***************************************************************************)
(* A query and its orchestrator message.                                   *)
(***************************************************************************)

\* POST /analyze, or the daily watchlist task: publish the orchestrator
\* message of a fresh query_id.
Submit(q) ==
  /\ mode[q] = "none"
  /\ \E m \in Mode : mode' = [mode EXCEPT ![q] = m]
  /\ pc' = [pc EXCEPT ![<<q, 1>>] = "queued"]
  /\ UNCHANGED <<held, task, draft, row, result>>

\* A worker takes the message and invokes the compiled graph.
Begin(r) ==
  /\ pc[r] = "queued"
  /\ FreeSlot
  /\ pc' = [pc EXCEPT ![r] = "gather"]
  /\ UNCHANGED <<mode, held, task, draft, row, result>>

\* The message of a run in progress goes back to its queue (acks_late): the
\* worker died, or it lost its connection and carries on regardless.
Redeliver(r) ==
  /\ pc[r] \in InGraph
  /\ r[2] < MaxDeliveries
  /\ LET next == <<QueryOf(r), r[2] + 1>> IN
       /\ pc[next] = "absent"
       /\ \E here \in {"lost", pc[r]} :
            pc' = [pc EXCEPT ![r] = here, ![next] = "queued"]
  /\ UNCHANGED <<mode, held, task, draft, row, result>>

-----------------------------------------------------------------------------
(***************************************************************************)
(* Nodes: dispatch a sub-agent task and wait for it.                       *)
(***************************************************************************)

\* apply_async publishes the task with the node's payload ...
Dispatch(r, a) ==
  /\ Waits(r, a)
  /\ task[r][a].st = "none"
  /\ task' = [task EXCEPT ![r][a] =
                [NoTask EXCEPT !.st = "queued", !.arg = PayloadOf(a, held[r])]]
  /\ UNCHANGED <<mode, pc, held, draft, row, result>>

\* ... or raises, and the node's except clause takes over.
DispatchFails(r, a) ==
  /\ "publish" \in Faults
  /\ Waits(r, a)
  /\ task[r][a].st = "none"
  /\ held' = [held EXCEPT ![r][a] = Fallback(a)]
  /\ UNCHANGED <<mode, pc, task, draft, row, result>>

\* .get() returns the task's result.
Return(r, a) ==
  /\ Waits(r, a)
  /\ task[r][a].st = "success"
  /\ held' = [held EXCEPT ![r][a] = task[r][a].out]
  /\ UNCHANGED <<mode, pc, task, draft, row, result>>

\* .get() raises: the task failed for good, or the timeout fired, whatever
\* state the task is in by then.
GiveUp_OnFailureOnly(r, a) ==
  /\ Waits(r, a)
  /\ task[r][a].st = "failure"
  /\ held' = [held EXCEPT ![r][a] = Fallback(a)]
  /\ UNCHANGED <<mode, pc, task, draft, row, result>>
GiveUp_Again(r, a) ==
  /\ a \in ActiveNodes(r) /\ task[r][a].st # "none"
  /\ held' = [held EXCEPT ![r][a] = Fallback(a)]
  /\ UNCHANGED <<mode, pc, task, draft, row, result>>
GiveUp(r, a) ==
  /\ Waits(r, a)
  /\ task[r][a].st = "failure" \/ (task[r][a].st # "none" /\ "timeout" \in Faults)
  /\ held' = [held EXCEPT ![r][a] = Fallback(a)]
  /\ UNCHANGED <<mode, pc, task, draft, row, result>>

\* Both branches have written their field: the graph enters risk_node.
Join_OneBranch(r) ==
  /\ pc[r] = "gather"
  /\ \E a \in {"research", "quant"} : held[r][a] # Unset
  /\ pc' = [pc EXCEPT ![r] = "assess"]
  /\ UNCHANGED <<mode, held, task, draft, row, result>>
Join(r) ==
  /\ pc[r] = "gather"
  /\ \A a \in {"research", "quant"} : held[r][a] # Unset
  /\ pc' = [pc EXCEPT ![r] = "assess"]
  /\ UNCHANGED <<mode, held, task, draft, row, result>>

\* The conditional edge after risk_node.
Route(r) ==
  /\ pc[r] = "assess"
  /\ held[r]["risk"] # Unset
  /\ pc' = [pc EXCEPT ![r] = IF SkipExecution(r) THEN "synthesize" ELSE "trade"]
  /\ UNCHANGED <<mode, held, task, draft, row, result>>

\* The edge from execution_node to synthesize_node.
Traded(r) ==
  /\ pc[r] = "trade"
  /\ held[r]["execution"] # Unset
  /\ pc' = [pc EXCEPT ![r] = "synthesize"]
  /\ UNCHANGED <<mode, held, task, draft, row, result>>

-----------------------------------------------------------------------------
(***************************************************************************)
(* synthesize_node.                                                        *)
(***************************************************************************)

\* groq_synthesize_signal: the signal is the one the LLM chose, "HOLD" when
\* its answer does not parse.
Synthesize(r) ==
  /\ pc[r] = "synthesize"
  /\ \E s \in Signals : draft' = [draft EXCEPT ![r] = s]
  /\ pc' = [pc EXCEPT ![r] = "commit"]
  /\ UNCHANGED <<mode, held, task, row, result>>

\* db.add(signal_row); db.commit()
CommitSignal(r) ==
  /\ pc[r] = "commit"
  /\ row' = [row EXCEPT ![r] =
               [signal |-> draft[r], risk |-> held[r]["risk"].tag]]
  /\ pc' = [pc EXCEPT ![r] = "cache"]
  /\ UNCHANGED <<mode, held, task, draft, result>>

\* set_cache(result:<query_id>), which swallows a Redis error.  End of task.
Publish_BeforeCommit(r) ==
  /\ pc[r] \in {"commit", "cache"}
  /\ result' = result \cup {QueryOf(r)}
  /\ pc' = [pc EXCEPT ![r] = IF pc[r] = "cache" THEN "done" ELSE "commit"]
  /\ UNCHANGED <<mode, held, task, draft, row>>
Publish(r) ==
  /\ pc[r] = "cache"
  /\ result' \in {result, result \cup {QueryOf(r)}}
  /\ pc' = [pc EXCEPT ![r] = "done"]
  /\ UNCHANGED <<mode, held, task, draft, row>>

\* The LLM call, its answer or the commit raises, or the pool process dies:
\* the task has no retry and its message is acked.
RunFails(r) ==
  /\ \/ pc[r] \in {"synthesize", "commit"}
     \/ pc[r] \in InGraph /\ "process" \in Faults
  /\ pc' = [pc EXCEPT ![r] = "failed"]
  /\ UNCHANGED <<mode, held, task, draft, row, result>>

-----------------------------------------------------------------------------
(***************************************************************************)
(* Sub-agent attempts.                                                     *)
(***************************************************************************)
Start(r, a) ==
  /\ task[r][a].st = "queued"
  /\ FreeSlot
  /\ task' = [task EXCEPT ![r][a] = [@ EXCEPT !.st = "running"]]
  /\ UNCHANGED <<mode, pc, held, draft, row, result>>

Succeed(r, a) ==
  /\ task[r][a].st = "running"
  /\ \E out \in Outcome(a, task[r][a].arg) :
       task' = [task EXCEPT ![r][a] = [@ EXCEPT !.st = "success", !.out = out]]
  /\ UNCHANGED <<mode, pc, held, draft, row, result>>

\* The attempt raises: self.retry re-queues it, or max_retries is reached.
Raise(r, a) ==
  /\ "agent" \in Faults
  /\ task[r][a].st = "running"
  /\ task' = [task EXCEPT ![r][a] =
                IF @.tries < MaxRetries
                  THEN [@ EXCEPT !.st = "queued", !.tries = task[r][a].tries + 1]
                  ELSE [@ EXCEPT !.st = "failure"]]
  /\ UNCHANGED <<mode, pc, held, draft, row, result>>

\* The worker running the attempt is lost: the message is redelivered, or
\* the pool reports WorkerLostError and the task has failed.
LoseWorker(r, a) ==
  /\ "worker" \in Faults
  /\ task[r][a].st = "running"
  /\ \E st \in {"queued", "failure"} :
       task' = [task EXCEPT ![r][a] = [@ EXCEPT !.st = st]]
  /\ UNCHANGED <<mode, pc, held, draft, row, result>>

-----------------------------------------------------------------------------
NodeStep(r, a) ==
  Dispatch(r, a) \/ DispatchFails(r, a) \/ Return(r, a) \/ GiveUp(r, a)

GraphStep(r) ==
  \/ Join(r) \/ Route(r) \/ Traded(r)
  \/ Synthesize(r) \/ CommitSignal(r) \/ Publish(r)

TaskStep(r, a) == Start(r, a) \/ Succeed(r, a) \/ Raise(r, a) \/ LoseWorker(r, a)

RunStep(r) ==
  \/ Begin(r) \/ Redeliver(r) \/ RunFails(r) \/ GraphStep(r)
  \/ \E a \in Agent : NodeStep(r, a) \/ TaskStep(r, a)

Next == (\E q \in Query : Submit(q)) \/ (\E r \in Run : RunStep(r))

Spec == Init /\ [][Next]_vars

(***************************************************************************)
(* Fairness.  A run in the graph moves: apply_async returns or raises,     *)
(* every .get() has a timeout, the LLM client and the database driver      *)
(* answer or raise.  Nothing is assumed of the sub-agents' attempts, which *)
(* may hang or be redelivered for ever.                                    *)
(***************************************************************************)
RunFairness ==
  \A r \in Run :
    /\ WF_vars(GraphStep(r))
    /\ \A a \in Agent : WF_vars(NodeStep(r, a))

HangingSpec == Spec /\ RunFairness

(***************************************************************************)
(* That a queued run begins takes more: an attempt that holds a slot ends  *)
(* (its HTTP, LLM and broker clients time out; no task has a time limit),  *)
(* and a worker with a free slot eventually takes the orchestrator message *)
(* although other messages compete for the slot.                           *)
(***************************************************************************)
AttemptEnds(r, a) == Succeed(r, a) \/ Raise(r, a) \/ LoseWorker(r, a)

WorkerFairness ==
  \A r \in Run :
    /\ SF_vars(Begin(r))
    /\ \A a \in Agent : WF_vars(AttemptEnds(r, a))

FairSpec == Spec /\ RunFairness /\ WorkerFairness

-----------------------------------------------------------------------------
(***************************************************************************)
(* Properties.                                                             *)
(***************************************************************************)

\* An execution task is only ever dispatched with action BUY and the positive
\* quantity that the same run's risk task returned for a BUY proposal, in mode
\* full_analysis: execution_node's defaults ("BUY", quantity 1) are never what
\* is traded, however the sub-agents of the run failed or timed out.
TradeIsCleared ==
  \A r \in Run :
    LET exec == task[r]["execution"]
        risk == task[r]["risk"]
    IN exec.st # "none" =>
         /\ mode[QueryOf(r)] = "full_analysis"
         /\ exec.arg.signal = "BUY"
         /\ exec.arg.qty > 0
         /\ risk.st = "success"
         /\ risk.arg.signal = "BUY"
         /\ risk.out = [tag |-> "PASS", qty |-> exec.arg.qty]
         /\ task[r]["quant"].st = "success"
         /\ task[r]["quant"].out.tag = "BUY"

\* The risk agent judges what the run ends up holding: its payload is built
\* from both branches, and a result that arrives after the wait for it ended
\* changes neither the field nor the payload already sent.
RiskSeesBothBranches ==
  \A r \in Run :
    task[r]["risk"].st # "none" =>
      /\ held[r]["research"] # Unset
      /\ held[r]["quant"] # Unset
      /\ task[r]["risk"].arg = RiskPayload(held[r])

\* A result key is readable only when a Signal row of the query is committed.
VisibleIsRecorded ==
  \A q \in result : \E r \in Run : QueryOf(r) = q /\ row[r] # NoRow

\* Once a graph field is written it keeps its value: late answers and late
\* failures of a sub-agent are ignored by the run that stopped waiting.
LateAnswersIgnored ==
  [][\A r \in Run, a \in Agent :
       held[r][a] # Unset => held'[r][a] = held[r][a]]_vars

\* With one worker slot a run holds the slot its own sub-agents need: it gets
\* no result from any of them, and every row it writes records a BLOCK.
OneSlotStarves ==
  Slots = 1 =>
    \A r \in Run :
      /\ \A a \in Agent : held[r][a] \in {Unset, Fallback(a)}
      /\ row[r].risk \in {"unset", "BLOCK"}

\* A run that entered the graph leaves it, whatever its sub-agents do: each
\* node gives up in the end, also when every slot is held by a waiting run.
BegunRunsEnd ==
  \A r \in Run :
    (pc[r] \in InGraph) ~> (pc[r] \in {"done", "failed", "lost"})

\* Every accepted query gets a run that ends, with as little as one worker
\* slot for all runs and sub-agents, provided attempts do not hang.
EveryQueryEnds ==
  \A q \in Query :
    (mode[q] # "none") ~>
      (\E r \in Run : QueryOf(r) = q /\ pc[r] \in {"done", "failed"})

(***************************************************************************)
(* The design documents on the final signal: SYSTEM_DESIGN.md:298 "If      *)
(* BLOCK -> signal = HOLD, skip execution" (and its guardrail table:       *)
(* confidence below 0.5 forces HOLD).  The code skips execution but stores *)
(* whatever signal the LLM returned.                                       *)
(***************************************************************************)
BlockForcesHold ==
  \A r \in Run : row[r].risk = "BLOCK" => row[r].signal = "HOLD"

(***************************************************************************)
(* The promise this module implements.                                     *)
(***************************************************************************)
AcceptedQueries == {q \in Query : mode[q] # "none"}
TradableQueries == {q \in Query : mode[q] = "full_analysis"}
ClearedRuns ==
  {r \in Run : task[r]["risk"].out.tag = "PASS" /\ task[r]["risk"].out.qty > 0}
TradedRuns == {r \in Run : task[r]["execution"].st # "none"}
RecordedRuns == {r \in Run : row[r] # NoRow}
Queries(runs) == {QueryOf(r) : r \in runs}

P == INSTANCE AnalysisPromise WITH
       accepted <- AcceptedQueries, tradable <- TradableQueries,
       cleared <- Queries(ClearedRuns), traded <- Queries(TradedRuns),
       recorded <- Queries(RecordedRuns), visible <- result

\* The pipeline keeps its promise step by step.
ImplementsPromise == P!Promise
=============================================================================
