-------------------------- MODULE OrchestratorProofs --------------------------
(***************************************************************************)
(* Proofs about Orchestrator for every number of queries, retries,         *)
(* deliveries and worker slots, and every set of faults: type correctness, *)
(* the invariant behind the safety properties of the pipeline, and that    *)
(* the pipeline implements AnalysisPromise.                                *)
(***************************************************************************)
EXTENDS Orchestrator, FiniteSetTheorems, TLAPS

(***************************************************************************)
(* The inductive invariant.  TradeIsCleared is not inductive: that an      *)
(* execution task was dispatched for a cleared BUY follows from where each *)
(* field of the graph state came from.                                     *)
(***************************************************************************)

\* A run exists only for a submitted query, and works only once begun.
Origin(r) ==
  /\ pc[r] # "absent" => mode[QueryOf(r)] # "none"
  /\ pc[r] \in {"absent", "queued"} => \A a \in Agent : task[r][a].st = "none"

\* A field is unset, the fallback of its node, or the result of its task.
Provenance(r) ==
  \A a \in Agent :
    /\ \/ held[r][a] \in {Unset, Fallback(a)}
       \/ task[r][a].st = "success" /\ held[r][a] = task[r][a].out
    /\ task[r][a].st = "success" => task[r][a].out \in Outcome(a, task[r][a].arg)
    /\ task[r][a].st # "success" => task[r][a].out = Unset

\* Past the fan-out both branches are set, and the risk task's payload is
\* the one they determine.
Joined(r) ==
  (task[r]["risk"].st # "none" \/ pc[r] \in {"assess", "trade"}) =>
    held[r]["research"] # Unset /\ held[r]["quant"] # Unset
RiskArgument(r) ==
  task[r]["risk"].st # "none" => task[r]["risk"].arg = RiskPayload(held[r])

\* execution_node is reached, and its task sent, only past the gate.
Gated(r) ==
  (task[r]["execution"].st # "none" \/ pc[r] = "trade") =>
    held[r]["risk"] # Unset /\ ~SkipExecution(r)
ExecutionArgument(r) ==
  task[r]["execution"].st # "none" =>
    task[r]["execution"].arg = ExecutionPayload(held[r])

\* The row is committed before the result key is set.
Committed(r) ==
  /\ pc[r] = "commit" => draft[r] \in Signals
  /\ pc[r] \in {"cache", "done"} => row[r] # NoRow
  /\ row[r] # NoRow => pc[r] # "absent"

RunInv(r) ==
  /\ Origin(r)
  /\ Provenance(r)
  /\ Joined(r)
  /\ RiskArgument(r)
  /\ Gated(r)
  /\ ExecutionArgument(r)
  /\ Committed(r)

IInv ==
  /\ TypeOK
  /\ \A r \in Run : RunInv(r)
  /\ VisibleIsRecorded

-----------------------------------------------------------------------------
(***************************************************************************)
(* Lemmas about the data.                                                  *)
(***************************************************************************)

\* The values and payloads of the model are well typed.
LEMMA ValueTypes ==
  /\ Unset \in Result
  /\ NoTask \in Task
  /\ NoRow \in Row
  /\ \A a \in Agent : Fallback(a) \in Result /\ Fallback(a) # Unset
BY OrchestratorAssumption
   DEF Unset, NoTask, NoRow, Value, Result, Tag, Task, TaskState, NoPayload,
       Payload, Row, Fallback, Agent

\* Whatever the graph state, a node sends a well-typed payload.
LEMMA PayloadType ==
  ASSUME NEW h \in [Agent -> Result], NEW a \in Agent
  PROVE  PayloadOf(a, h) \in Payload
<1>1. h["research"] \in Result /\ h["quant"] \in Result /\ h["risk"] \in Result
  BY DEF Agent
<1>2. Confidence(h["research"]) \in {"low", "high"}
  BY DEF Confidence
<1>3. /\ SignalOr(h["quant"], "BUY") \in Signals
      /\ SignalOr(h["quant"], "HOLD") \in Signals
  BY OrchestratorAssumption DEF SignalOr
<1>4. NoPayload \in Payload
  BY OrchestratorAssumption DEF NoPayload, Payload
<1>5. RiskPayload(h) \in Payload
  BY <1>2, <1>3, OrchestratorAssumption DEF RiskPayload, Payload
<1>6. ExecutionPayload(h) \in Payload
  BY <1>1, <1>3 DEF ExecutionPayload, Payload, Result
<1>7. QED
  BY <1>4, <1>5, <1>6 DEF PayloadOf

\* An attempt returns a well-typed result, and never the unset value.
LEMMA OutcomeType ==
  ASSUME NEW a \in Agent, NEW arg \in Payload, NEW out \in Outcome(a, arg)
  PROVE  out \in Result /\ out # Unset
<1>1. CASE a = "research"
  BY <1>1, OrchestratorAssumption DEF Outcome, Value, Result, Tag, Unset
<1>2. CASE a = "quant"
  BY <1>2, OrchestratorAssumption DEF Outcome, Value, Result, Tag, Unset
<1>3. CASE a = "risk"
  BY <1>3, OrchestratorAssumption
     DEF Outcome, RiskOutcome, Value, Result, Tag, Unset
<1>4. CASE a = "execution"
  BY <1>4, OrchestratorAssumption DEF Outcome, Value, Result, Tag, Unset
<1>5. QED
  BY <1>1, <1>2, <1>3, <1>4 DEF Agent

\* An attempt's step replaces one task by a well-typed one, which keeps its
\* payload; only a success writes a result, one the agent may return.
LEMMA TaskStepUpdates ==
  ASSUME TypeOK, NEW r \in Run, NEW a \in Agent, TaskStep(r, a)
  PROVE  \E t \in Task :
           /\ task' = [task EXCEPT ![r][a] = t]
           /\ task[r][a].st \in {"queued", "running"}
           /\ t.st # "none"
           /\ t.arg = task[r][a].arg
           /\ \/ t.st # "success" /\ t.out = task[r][a].out
              \/ t.st = "success" /\ t.out \in Outcome(a, t.arg)
<1> DEFINE old == task[r][a]
<1>1. /\ old \in Task
      /\ task[r] \in [Agent -> Task]
      /\ task \in [Run -> [Agent -> Task]]
  BY DEF TypeOK
<1>2. CASE Start(r, a)
  <2> DEFINE t == [old EXCEPT !.st = "running"]
  <2>1. t \in Task /\ t.st = "running" /\ t.arg = old.arg /\ t.out = old.out
    BY <1>1 DEF Task, TaskState
  <2>2. task' = [task EXCEPT ![r][a] = t]
    BY <1>2 DEF Start
  <2>3. old.st \in {"queued", "running"}
    BY <1>2 DEF Start
  <2> HIDE DEF t
  <2>4. QED
    BY <2>1, <2>2, <2>3
<1>3. CASE Succeed(r, a)
  <2>1. PICK out \in Outcome(a, old.arg) :
          task' = [task EXCEPT ![r][a] = [@ EXCEPT !.st = "success", !.out = out]]
    BY <1>3 DEF Succeed
  <2>2. out \in Result
    BY <1>1, OutcomeType DEF Task
  <2> DEFINE t == [old EXCEPT !.st = "success", !.out = out]
  <2>3. t \in Task /\ t.st = "success" /\ t.arg = old.arg /\ t.out = out
    BY <1>1, <2>2 DEF Task, TaskState
  <2>4. task' = [task EXCEPT ![r][a] = t]
    BY <2>1
  <2>5. old.st \in {"queued", "running"}
    BY <1>3 DEF Succeed
  <2> HIDE DEF t
  <2>6. QED
    BY <2>3, <2>4, <2>5
<1>4. CASE Raise(r, a)
  <2> DEFINE t == IF old.tries < MaxRetries
                  THEN [old EXCEPT !.st = "queued", !.tries = old.tries + 1]
                  ELSE [old EXCEPT !.st = "failure"]
  <2>1. /\ t \in Task /\ t.st \in {"queued", "failure"}
        /\ t.arg = old.arg /\ t.out = old.out
    <3>1. CASE old.tries < MaxRetries
      <4>1. old.tries + 1 \in 0..MaxRetries
        BY <1>1, <3>1, OrchestratorAssumption DEF Task
      <4>2. QED
        BY <1>1, <3>1, <4>1 DEF Task, TaskState
    <3>2. CASE ~(old.tries < MaxRetries)
      BY <1>1, <3>2 DEF Task, TaskState
    <3>3. QED
      BY <3>1, <3>2
  <2>2. task' = [task EXCEPT ![r][a] = t]
    BY <1>4 DEF Raise
  <2>3. old.st \in {"queued", "running"}
    BY <1>4 DEF Raise
  <2> HIDE DEF t
  <2>4. QED
    BY <2>1, <2>2, <2>3
<1>5. CASE LoseWorker(r, a)
  <2>1. PICK st \in {"queued", "failure"} :
          task' = [task EXCEPT ![r][a] = [@ EXCEPT !.st = st]]
    BY <1>5 DEF LoseWorker
  <2> DEFINE t == [old EXCEPT !.st = st]
  <2>2. t \in Task /\ t.st = st /\ t.arg = old.arg /\ t.out = old.out
    BY <1>1 DEF Task, TaskState
  <2>3. task' = [task EXCEPT ![r][a] = t]
    BY <2>1
  <2>4. old.st \in {"queued", "running"}
    BY <1>5 DEF LoseWorker
  <2> HIDE DEF t
  <2>5. QED
    BY <2>2, <2>3, <2>4
<1>6. QED
  BY <1>2, <1>3, <1>4, <1>5 DEF TaskStep

-----------------------------------------------------------------------------
(***************************************************************************)
(* Type correctness.                                                       *)
(***************************************************************************)

\* Every step keeps every variable in its type.
LEMMA TypePreserved ==
  ASSUME TypeOK, [Next]_vars
  PROVE  TypeOK'
<1> USE DEF TypeOK
<1>1. ASSUME NEW q \in Query, Submit(q) PROVE TypeOK'
  BY <1>1, OrchestratorAssumption DEF Submit, Run, Stage
<1>2. ASSUME NEW r \in Run, Redeliver(r) PROVE TypeOK'
  <2>1. <<QueryOf(r), r[2] + 1>> \in Run
    BY <1>2, OrchestratorAssumption DEF Redeliver, Run, QueryOf
  <2>2. QED
    BY <1>2, <2>1 DEF Redeliver, Stage, InGraph
<1>3. ASSUME NEW r \in Run, Begin(r) \/ RunFails(r) \/ GraphStep(r)
      PROVE  TypeOK'
  <2>1. pc[r] \in Stage /\ QueryOf(r) \in Query
    BY DEF Run, QueryOf
  <2>2. CASE Begin(r)
    BY <2>2 DEF Begin, Stage
  <2>3. CASE RunFails(r)
    BY <2>3 DEF RunFails, Stage
  <2>4. CASE Join(r) \/ Route(r) \/ Traded(r)
    BY <2>4 DEF Join, Route, Traded, Stage
  <2>5. CASE Synthesize(r)
    BY <2>5 DEF Synthesize, Stage
  <2>6. CASE CommitSignal(r)
    <3>1. held[r]["risk"] \in Result
      BY DEF Agent
    <3>2. held[r]["risk"].tag \in Tag
      BY <3>1 DEF Result
    <3>3. [signal |-> draft[r], risk |-> held[r]["risk"].tag] \in Row
      BY <3>2 DEF Row
    <3>4. QED
      BY <2>6, <3>3 DEF CommitSignal, Stage
  <2>7. CASE Publish(r)
    BY <2>1, <2>7 DEF Publish, Stage
  <2>8. QED
    BY <1>3, <2>2, <2>3, <2>4, <2>5, <2>6, <2>7 DEF GraphStep
<1>4. ASSUME NEW r \in Run, NEW a \in Agent, Dispatch(r, a) PROVE TypeOK'
  <2>1. PayloadOf(a, held[r]) \in Payload
    BY PayloadType
  <2>2. [NoTask EXCEPT !.st = "queued", !.arg = PayloadOf(a, held[r])] \in Task
    BY <2>1, ValueTypes DEF Task, TaskState
  <2>3. QED
    BY <1>4, <2>2 DEF Dispatch
<1>5. ASSUME NEW r \in Run, NEW a \in Agent,
             DispatchFails(r, a) \/ Return(r, a) \/ GiveUp(r, a)
      PROVE  TypeOK'
  <2>1. Fallback(a) \in Result /\ task[r][a].out \in Result
    BY ValueTypes DEF Task
  <2>2. \E v \in Result : held' = [held EXCEPT ![r][a] = v]
    BY <1>5, <2>1 DEF DispatchFails, Return, GiveUp
  <2>3. UNCHANGED <<mode, pc, task, draft, row, result>>
    BY <1>5 DEF DispatchFails, Return, GiveUp
  <2>4. QED
    BY <2>2, <2>3
<1>6. ASSUME NEW r \in Run, NEW a \in Agent, TaskStep(r, a) PROVE TypeOK'
  <2>1. \E t \in Task : task' = [task EXCEPT ![r][a] = t]
    BY <1>6, TaskStepUpdates
  <2>2. UNCHANGED <<mode, pc, held, draft, row, result>>
    BY <1>6 DEF TaskStep, Start, Succeed, Raise, LoseWorker
  <2>3. QED
    BY <2>1, <2>2
<1>7. CASE UNCHANGED vars
  BY <1>7 DEF vars
<1>8. QED
  BY <1>1, <1>2, <1>3, <1>4, <1>5, <1>6, <1>7 DEF Next, RunStep, NodeStep

\* Every variable keeps its type in every reachable state.
THEOREM TypeCorrect == Spec => []TypeOK
<1>1. Init => TypeOK
  BY ValueTypes DEF Init, Stage, TypeOK
<1>2. TypeOK /\ [Next]_vars => TypeOK'
  BY TypePreserved
<1>3. QED
  BY <1>1, <1>2, PTL DEF Spec

-----------------------------------------------------------------------------
(***************************************************************************)
(* Every action preserves the invariant of the run that takes it.  The     *)
(* actions are grouped by what they write: only pc; one graph field; the   *)
(* task of one agent; the draft, the row and the result key.               *)
(***************************************************************************)

\* A run that changes nothing of its own keeps its invariant, also when its
\* message has just been put back in the queue.
LEMMA Frame ==
  ASSUME NEW r \in Run, RunInv(r),
         \/ pc'[r] = pc[r]
         \/ pc[r] = "absent" /\ pc'[r] = "queued" /\ mode[QueryOf(r)] # "none",
         mode'[QueryOf(r)] = mode[QueryOf(r)], held'[r] = held[r],
         task'[r] = task[r], draft'[r] = draft[r], row'[r] = row[r]
  PROVE  RunInv(r)'
<1>1. Origin(r)' /\ Provenance(r)'
  BY DEF RunInv, Origin, Provenance
<1>2. Joined(r)' /\ RiskArgument(r)' /\ ExecutionArgument(r)'
  BY DEF RunInv, Joined, RiskArgument, ExecutionArgument
<1>3. Gated(r)'
  BY DEF RunInv, Gated, SkipExecution
<1>4. Committed(r)'
  BY DEF RunInv, Committed
<1>5. QED
  BY <1>1, <1>2, <1>3, <1>4 DEF RunInv

\* Moves through the graph.
LEMMA MovePreserves ==
  ASSUME TypeOK, NEW r \in Run, RunInv(r),
         \/ Begin(r) \/ Redeliver(r) \/ RunFails(r)
         \/ Join(r) \/ Route(r) \/ Traded(r)
  PROVE  RunInv(r)'
<1>1. UNCHANGED <<mode, held, task, draft, row, result>>
  BY DEF Begin, Redeliver, RunFails, Join, Route, Traded
<1>2. /\ pc[r] \notin {"absent", "done", "failed", "lost"}
      /\ pc'[r] \notin {"absent", "done"}
      /\ pc'[r] \in {"queued", "cache", "commit"} => pc'[r] = pc[r]
  BY DEF TypeOK, Begin, Redeliver, RunFails, Join, Route, Traded, InGraph,
         Run, QueryOf
<1>3. Origin(r)' /\ Provenance(r)'
  BY <1>1, <1>2 DEF RunInv, Origin, Provenance
<1>4. RiskArgument(r)' /\ ExecutionArgument(r)' /\ Committed(r)'
  BY <1>1, <1>2 DEF RunInv, RiskArgument, ExecutionArgument, Committed
<1>5. pc'[r] \in {"assess", "trade"} =>
        \/ pc[r] \in {"assess", "trade"}
        \/ held[r]["research"] # Unset /\ held[r]["quant"] # Unset
  BY DEF TypeOK, Begin, Redeliver, RunFails, Join, Route, Traded
<1>6. pc'[r] = "trade" =>
        \/ pc[r] = "trade"
        \/ held[r]["risk"] # Unset /\ ~SkipExecution(r)
  BY DEF TypeOK, Begin, Redeliver, RunFails, Join, Route, Traded
<1>7. Joined(r)'
  BY <1>1, <1>5 DEF RunInv, Joined
<1>8. Gated(r)'
  BY <1>1, <1>6 DEF RunInv, Gated, SkipExecution
<1>9. QED
  BY <1>3, <1>4, <1>7, <1>8 DEF RunInv

\* A node writes its field: it was waiting for it, so no payload has been
\* built from that field yet.
LEMMA FieldPreserves ==
  ASSUME TypeOK, NEW r \in Run, NEW a \in Agent, RunInv(r),
         DispatchFails(r, a) \/ Return(r, a) \/ GiveUp(r, a)
  PROVE  RunInv(r)'
<1>1. /\ UNCHANGED <<mode, pc, task, draft, row, result>>
      /\ Waits(r, a)
      /\ \/ held' = [held EXCEPT ![r][a] = Fallback(a)]
         \/ /\ task[r][a].st = "success"
            /\ held' = [held EXCEPT ![r][a] = task[r][a].out]
  BY DEF DispatchFails, Return, GiveUp
<1>2. /\ held[r] \in [Agent -> Result]
      /\ \A b \in Agent : b # a => held'[r][b] = held[r][b]
      /\ \/ held'[r][a] = Fallback(a)
         \/ task[r][a].st = "success" /\ held'[r][a] = task[r][a].out
  BY <1>1 DEF TypeOK
<1>3. /\ a \in {"research", "quant"} => pc[r] = "gather"
      /\ a = "risk" => pc[r] = "assess"
      /\ held[r][a] = Unset
  BY <1>1 DEF Waits, ActiveNodes
<1>4. held'[r][a] # Unset
  <2>1. CASE held'[r][a] = Fallback(a)
    BY <2>1, ValueTypes
  <2>2. CASE task[r][a].st = "success" /\ held'[r][a] = task[r][a].out
    <3>1. task[r][a].arg \in Payload /\ task[r][a].out \in Outcome(a, task[r][a].arg)
      BY <2>2 DEF RunInv, Provenance, TypeOK, Task
    <3>2. QED
      BY <2>2, <3>1, OutcomeType
  <2>3. QED
    BY <1>2, <2>1, <2>2
<1>5. task[r]["risk"].st # "none" => a \notin {"research", "quant"}
  BY <1>3 DEF RunInv, Joined
<1>6. task[r]["execution"].st # "none" \/ pc[r] = "trade" =>
        a \notin {"research", "quant", "risk"}
  <2>1. ASSUME task[r]["execution"].st # "none"
        PROVE  task[r]["risk"].st # "none" /\ held[r]["risk"] # Unset
    <3>1. held[r]["risk"] # Unset /\ held[r]["risk"].tag # "BLOCK"
      BY <2>1 DEF RunInv, Gated, SkipExecution
    <3>2. held[r]["risk"] # Fallback("risk")
      BY <3>1 DEF Fallback, Value
    <3>3. QED
      BY <3>1, <3>2 DEF RunInv, Provenance, Agent
  <2>2. QED
    BY <1>3, <1>5, <2>1
<1>7. Origin(r)' /\ Committed(r)'
  BY <1>1 DEF RunInv, Origin, Committed
<1>8. Provenance(r)'
  BY <1>1, <1>2 DEF RunInv, Provenance
<1>9. Joined(r)'
  BY <1>1, <1>2, <1>4 DEF RunInv, Joined, Agent
<1>10. RiskArgument(r)'
  BY <1>1, <1>2, <1>5 DEF RunInv, RiskArgument, RiskPayload, Agent
<1>11. Gated(r)'
  BY <1>1, <1>2, <1>6 DEF RunInv, Gated, SkipExecution, Agent
<1>12. ExecutionArgument(r)'
  BY <1>1, <1>2, <1>6 DEF RunInv, ExecutionArgument, ExecutionPayload, Agent
<1>13. QED
  BY <1>7, <1>8, <1>9, <1>10, <1>11, <1>12 DEF RunInv

\* A node publishes the task of its agent.
LEMMA DispatchPreserves ==
  ASSUME TypeOK, NEW r \in Run, NEW a \in Agent, RunInv(r), Dispatch(r, a)
  PROVE  RunInv(r)'
<1> DEFINE t == [NoTask EXCEPT !.st = "queued", !.arg = PayloadOf(a, held[r])]
<1>1. /\ UNCHANGED <<mode, pc, held, draft, row, result>>
      /\ Waits(r, a)
      /\ task[r][a].st = "none"
      /\ task' = [task EXCEPT ![r][a] = t]
  BY DEF Dispatch
<1>2. t.st = "queued" /\ t.arg = PayloadOf(a, held[r]) /\ t.out = Unset
  BY DEF NoTask
<1> HIDE DEF t
<1>3. /\ task'[r][a] = t
      /\ \A b \in Agent : b # a => task'[r][b] = task[r][b]
  BY <1>1 DEF TypeOK
<1>4. /\ a \in {"research", "quant"} => pc[r] = "gather"
      /\ a = "risk" => pc[r] = "assess"
      /\ a = "execution" => pc[r] = "trade"
      /\ held[r][a] = Unset
  BY <1>1 DEF Waits, ActiveNodes, Agent
<1>5. Origin(r)'
  BY <1>1, <1>4 DEF RunInv, Origin, Agent
<1>6. Provenance(r)'
  BY <1>1, <1>2, <1>3, <1>4 DEF RunInv, Provenance
<1>7. Joined(r)'
  BY <1>1, <1>3, <1>4 DEF RunInv, Joined, Agent
<1>8. RiskArgument(r)'
  BY <1>1, <1>2, <1>3 DEF RunInv, RiskArgument, PayloadOf, Agent
<1>9. Gated(r)'
  BY <1>1, <1>3, <1>4 DEF RunInv, Gated, SkipExecution, Agent
<1>10. ExecutionArgument(r)'
  BY <1>1, <1>2, <1>3 DEF RunInv, ExecutionArgument, PayloadOf, Agent
<1>11. Committed(r)'
  BY <1>1 DEF RunInv, Committed
<1>12. QED
  BY <1>5, <1>6, <1>7, <1>8, <1>9, <1>10, <1>11 DEF RunInv

\* An attempt moves: payloads stay, and only a success brings a result.
LEMMA TaskPreserves ==
  ASSUME TypeOK, NEW r \in Run, NEW a \in Agent, RunInv(r), TaskStep(r, a)
  PROVE  RunInv(r)'
<1>1. UNCHANGED <<mode, pc, held, draft, row, result>>
  BY DEF TaskStep, Start, Succeed, Raise, LoseWorker
<1>2. PICK t \in Task :
        /\ task' = [task EXCEPT ![r][a] = t]
        /\ task[r][a].st \in {"queued", "running"}
        /\ t.st # "none"
        /\ t.arg = task[r][a].arg
        /\ \/ t.st # "success" /\ t.out = task[r][a].out
           \/ t.st = "success" /\ t.out \in Outcome(a, t.arg)
  BY TaskStepUpdates
<1>3. /\ task'[r][a] = t
      /\ \A b \in Agent : b # a => task'[r][b] = task[r][b]
  BY <1>2 DEF TypeOK
<1>4. \A b \in Agent :
        /\ task'[r][b].arg = task[r][b].arg
        /\ task'[r][b].st # "none" <=> task[r][b].st # "none"
  BY <1>2, <1>3
<1>5. Origin(r)'
  BY <1>1, <1>4 DEF RunInv, Origin
<1>6. Provenance(r)'
  BY <1>1, <1>2, <1>3 DEF RunInv, Provenance
<1>7. Joined(r)' /\ RiskArgument(r)' /\ ExecutionArgument(r)'
  BY <1>1, <1>4 DEF RunInv, Joined, RiskArgument, ExecutionArgument, Agent
<1>8. Gated(r)'
  BY <1>1, <1>4 DEF RunInv, Gated, SkipExecution, Agent
<1>9. Committed(r)'
  BY <1>1 DEF RunInv, Committed
<1>10. QED
  BY <1>5, <1>6, <1>7, <1>8, <1>9 DEF RunInv

\* synthesize_node: a signal is drafted, committed as a row, then published.
LEMMA SynthesisPreserves ==
  ASSUME TypeOK, NEW r \in Run, RunInv(r),
         Synthesize(r) \/ CommitSignal(r) \/ Publish(r)
  PROVE  RunInv(r)'
<1>1. /\ UNCHANGED <<mode, held, task>>
      /\ pc[r] \in {"synthesize", "commit", "cache"}
      /\ pc'[r] \in {"commit", "cache", "done"}
  BY DEF TypeOK, Synthesize, CommitSignal, Publish
<1>2. Origin(r)' /\ Provenance(r)'
  BY <1>1 DEF RunInv, Origin, Provenance
<1>3. Joined(r)' /\ RiskArgument(r)' /\ ExecutionArgument(r)'
  BY <1>1 DEF RunInv, Joined, RiskArgument, ExecutionArgument
<1>4. Gated(r)'
  BY <1>1 DEF RunInv, Gated, SkipExecution
<1>5. Committed(r)'
  <2>1. CASE Synthesize(r)
    BY <2>1 DEF TypeOK, RunInv, Committed, Synthesize
  <2>2. CASE CommitSignal(r)
    <3>1. draft[r] \in Signals /\ draft[r] # "none"
      BY <2>2, OrchestratorAssumption DEF RunInv, Committed, CommitSignal
    <3>2. row'[r] # NoRow /\ pc'[r] = "cache"
      BY <2>2, <3>1 DEF TypeOK, CommitSignal, NoRow
    <3>3. QED
      BY <3>2 DEF Committed
  <2>3. CASE Publish(r)
    BY <2>3 DEF TypeOK, RunInv, Committed, Publish
  <2>4. QED
    BY <2>1, <2>2, <2>3
<1>6. QED
  BY <1>2, <1>3, <1>4, <1>5 DEF RunInv

-----------------------------------------------------------------------------
(***************************************************************************)
(* The invariant is inductive, and implies the safety properties.          *)
(***************************************************************************)

\* A step of one run leaves the fields of every other run alone; at most it
\* puts the next delivery of its own query in the queue.
LEMMA OtherRuns ==
  ASSUME TypeOK, NEW r \in Run, RunInv(r), RunStep(r), NEW s \in Run, s # r
  PROVE  /\ \/ pc'[s] = pc[s]
            \/ pc[s] = "absent" /\ pc'[s] = "queued" /\ mode[QueryOf(s)] # "none"
         /\ UNCHANGED mode
         /\ held'[s] = held[s] /\ task'[s] = task[s]
         /\ draft'[s] = draft[s] /\ row'[s] = row[s]
<1>1. CASE Redeliver(r)
  <2>1. /\ mode[QueryOf(r)] # "none"
        /\ QueryOf(<<QueryOf(r), r[2] + 1>>) = QueryOf(r)
    BY <1>1 DEF Redeliver, InGraph, RunInv, Origin, QueryOf
  <2>2. QED
    BY <1>1, <2>1 DEF Redeliver, TypeOK
<1>2. CASE Begin(r) \/ RunFails(r)
  BY <1>2 DEF Begin, RunFails, TypeOK
<1>3. CASE GraphStep(r)
  BY <1>3 DEF GraphStep, Join, Route, Traded, Synthesize, CommitSignal, Publish,
              TypeOK
<1>4. ASSUME NEW a \in Agent, NodeStep(r, a)
      PROVE  /\ UNCHANGED <<mode, pc, draft, row>>
             /\ held'[s] = held[s] /\ task'[s] = task[s]
  BY <1>4 DEF NodeStep, Dispatch, DispatchFails, Return, GiveUp, TypeOK
<1>5. ASSUME NEW a \in Agent, TaskStep(r, a)
      PROVE  UNCHANGED <<mode, pc, held, draft, row>> /\ task'[s] = task[s]
  <2>1. PICK t \in Task : task' = [task EXCEPT ![r][a] = t]
    BY <1>5, TaskStepUpdates
  <2>2. task'[s] = task[s]
    BY <2>1 DEF TypeOK
  <2>3. QED
    BY <1>5, <2>2 DEF TaskStep, Start, Succeed, Raise, LoseWorker
<1>6. QED
  BY <1>1, <1>2, <1>3, <1>4, <1>5 DEF RunStep

\* The run that steps keeps its own invariant.
LEMMA ActingRun ==
  ASSUME TypeOK, NEW r \in Run, RunInv(r), RunStep(r)
  PROVE  RunInv(r)'
BY MovePreserves, FieldPreserves, DispatchPreserves, TaskPreserves,
   SynthesisPreserves
   DEF RunStep, GraphStep, NodeStep

\* A committed row stays, and a result is published by a run past its commit.
LEMMA VisiblePreserved ==
  ASSUME TypeOK, NEW r \in Run, RunInv(r), RunInv(r)', RunStep(r),
         VisibleIsRecorded
  PROVE  VisibleIsRecorded'
<1>1. row[r] # NoRow => row'[r] # NoRow
  <2>1. CASE CommitSignal(r)
    BY <2>1 DEF TypeOK, RunInv, Committed, CommitSignal
  <2>2. CASE ~CommitSignal(r)
    BY <2>2 DEF RunStep, GraphStep, NodeStep, TaskStep, Begin, Redeliver,
                RunFails, Join, Route, Traded, Synthesize, Publish, Dispatch,
                DispatchFails, Return, GiveUp, Start, Succeed, Raise, LoseWorker
  <2>3. QED
    BY <2>1, <2>2
<1>2. \A s \in Run : row[s] # NoRow => row'[s] # NoRow
  BY <1>1, OtherRuns
<1>3. CASE Publish(r)
  <2>1. row'[r] # NoRow
    BY <1>1, <1>3 DEF RunInv, Committed, Publish
  <2>2. result' \subseteq result \cup {QueryOf(r)}
    BY <1>3 DEF Publish
  <2>3. QED
    BY <1>2, <2>1, <2>2 DEF VisibleIsRecorded
<1>4. CASE ~Publish(r)
  <2>1. result' = result
    BY <1>4 DEF RunStep, GraphStep, NodeStep, TaskStep, Begin, Redeliver,
                RunFails, Join, Route, Traded, Synthesize, CommitSignal, Dispatch,
                DispatchFails, Return, GiveUp, Start, Succeed, Raise, LoseWorker
  <2>2. QED
    BY <1>2, <2>1 DEF VisibleIsRecorded
<1>5. QED
  BY <1>3, <1>4

\* The invariant holds of the initial state.
LEMMA InitInv == Init => IInv
<1> SUFFICES ASSUME Init PROVE IInv
  OBVIOUS
<1>1. TypeOK
  BY ValueTypes DEF Init, TypeOK, Stage
<1>2. VisibleIsRecorded
  BY DEF Init, VisibleIsRecorded
<1>3. ASSUME NEW r \in Run PROVE RunInv(r)
  <2>1. /\ pc[r] = "absent" /\ row[r] = NoRow
        /\ \A a \in Agent : held[r][a] = Unset /\ task[r][a] = NoTask
    BY DEF Init
  <2>2. NoTask.st = "none" /\ NoTask.out = Unset
    BY DEF NoTask
  <2>3. QED
    BY <2>1, <2>2 DEF RunInv, Origin, Provenance, Joined, RiskArgument, Gated,
                      ExecutionArgument, Committed, Agent
<1>4. QED
  BY <1>1, <1>2, <1>3 DEF IInv

\* Every step preserves the invariant.
LEMMA NextInv ==
  ASSUME IInv, [Next]_vars
  PROVE  IInv'
<1>1. TypeOK'
  BY TypePreserved DEF IInv
<1>2. ASSUME NEW q \in Query, Submit(q) PROVE IInv'
  <2>1. ASSUME NEW r \in Run PROVE RunInv(r)'
    <3>1. /\ RunInv(r)
          /\ UNCHANGED <<held, task, draft, row, result>>
      BY <1>2 DEF IInv, Submit
    <3>2. QueryOf(r) \in Query
      BY DEF Run, QueryOf
    <3>3. CASE QueryOf(r) # q
      <4>1. r # <<q, 1>>
        BY <3>3 DEF QueryOf
      <4>2. pc'[r] = pc[r] /\ mode'[QueryOf(r)] = mode[QueryOf(r)]
        BY <1>2, <3>2, <3>3, <4>1 DEF Submit, IInv, TypeOK
      <4>3. QED
        BY <3>1, <4>2, Frame
    <3>4. CASE QueryOf(r) = q
      <4>1. pc[r] = "absent" /\ \A a \in Agent : task[r][a].st = "none"
        BY <1>2, <3>1, <3>4 DEF Submit, RunInv, Origin
      <4>2. pc'[r] \in {"absent", "queued"} /\ mode'[QueryOf(r)] # "none"
        BY <1>2, <3>4, <4>1 DEF Submit, IInv, TypeOK, Mode
      <4>3. QED
        BY <3>1, <4>1, <4>2
           DEF RunInv, Origin, Provenance, Joined, RiskArgument, Gated,
               ExecutionArgument, Committed, Agent
    <3>5. QED
      BY <3>3, <3>4
  <2>2. VisibleIsRecorded'
    BY <1>2 DEF IInv, Submit, VisibleIsRecorded
  <2>3. QED
    BY <1>1, <2>1, <2>2 DEF IInv
<1>3. ASSUME NEW r \in Run, RunStep(r) PROVE IInv'
  <2>1. RunInv(r)'
    BY <1>3, ActingRun DEF IInv
  <2>2. ASSUME NEW s \in Run, s # r PROVE RunInv(s)'
    BY <1>3, <2>2, OtherRuns, Frame DEF IInv
  <2>3. VisibleIsRecorded'
    BY <1>3, <2>1, VisiblePreserved DEF IInv
  <2>4. QED
    BY <1>1, <2>1, <2>2, <2>3 DEF IInv
<1>4. CASE UNCHANGED vars
  <2>1. ASSUME NEW r \in Run PROVE RunInv(r)'
    BY <1>4, Frame DEF IInv, vars
  <2>2. VisibleIsRecorded'
    BY <1>4 DEF IInv, vars, VisibleIsRecorded
  <2>3. QED
    BY <1>1, <2>1, <2>2 DEF IInv
<1>5. QED
  BY <1>2, <1>3, <1>4 DEF Next

\* The invariant holds in every reachable state.
THEOREM Invariance == Spec => []IInv
<1>1. IInv /\ [Next]_vars => IInv'
  BY NextInv
<1>2. QED
  BY InitInv, <1>1, PTL DEF Spec

\* The invariant of a run implies what TradeIsCleared says of it.
LEMMA Clearance ==
  ASSUME TypeOK, NEW r \in Run, RunInv(r), task[r]["execution"].st # "none"
  PROVE  /\ mode[QueryOf(r)] = "full_analysis"
         /\ task[r]["execution"].arg.signal = "BUY"
         /\ task[r]["execution"].arg.qty > 0
         /\ task[r]["risk"].st = "success"
         /\ task[r]["risk"].arg.signal = "BUY"
         /\ task[r]["risk"].out =
              [tag |-> "PASS", qty |-> task[r]["execution"].arg.qty]
         /\ task[r]["quant"].st = "success"
         /\ task[r]["quant"].out.tag = "BUY"
<1> DEFINE risk == task[r]["risk"]
           quant == task[r]["quant"]
<1>1. /\ held[r]["risk"] # Unset
      /\ held[r]["risk"].tag # "BLOCK"
      /\ mode[QueryOf(r)] # "signal_only"
      /\ held[r]["risk"].qty # 0
  BY DEF RunInv, Gated, SkipExecution
<1>2. /\ risk \in Task
      /\ quant \in Task
      /\ held[r]["quant"] \in Result
  BY DEF TypeOK, Agent
<1>3. mode[QueryOf(r)] = "full_analysis"
  <2>1. pc[r] # "absent" /\ QueryOf(r) \in Query
    BY DEF RunInv, Origin, Agent, Run, QueryOf
  <2>2. mode[QueryOf(r)] # "none"
    BY <2>1 DEF RunInv, Origin
  <2>3. QED
    BY <1>1, <2>1, <2>2 DEF TypeOK, Mode
<1>4. /\ risk.st = "success"
      /\ held[r]["risk"] = risk.out
      /\ risk.out \in RiskOutcome(risk.arg)
  <2>1. held[r]["risk"] # Fallback("risk")
    BY <1>1 DEF Fallback, Value
  <2>2. QED
    BY <1>1, <2>1 DEF RunInv, Provenance, Outcome, Agent
<1>5. risk.arg.signal = "BUY" /\ risk.out = [tag |-> "PASS", qty |-> held[r]["risk"].qty]
  BY <1>1, <1>4 DEF RiskOutcome, Value
<1>6. risk.arg = RiskPayload(held[r])
  BY <1>4 DEF RunInv, RiskArgument
<1>7. held[r]["quant"].tag = "BUY"
  BY <1>5, <1>6 DEF RiskPayload, SignalOr
<1>8. quant.st = "success" /\ quant.out.tag = "BUY"
  <2>1. held[r]["quant"] \notin {Unset, Fallback("quant")}
    BY <1>7 DEF Fallback, Unset, Value
  <2>2. QED
    BY <1>7, <2>1 DEF RunInv, Provenance, Agent
<1>9. /\ task[r]["execution"].arg.signal = "BUY"
      /\ task[r]["execution"].arg.qty = held[r]["risk"].qty
  <2>1. "BUY" \in Signals
    BY OrchestratorAssumption
  <2>2. QED
    BY <1>7, <2>1 DEF RunInv, ExecutionArgument, ExecutionPayload, SignalOr
<1>10. held[r]["risk"].qty > 0
  <2>1. held[r]["risk"].qty \in 0..MaxQty
    BY DEF TypeOK, Result, Agent
  <2>2. QED
    BY <1>1, <2>1, OrchestratorAssumption
<1>11. QED
  BY <1>3, <1>4, <1>5, <1>8, <1>9, <1>10

\* The invariant implies that whatever is traded was cleared.
LEMMA ClearanceHolds == IInv => TradeIsCleared
BY Clearance DEF IInv, TradeIsCleared

\* The same of the state a step leads to.
LEMMA ClearanceNext == IInv' => TradeIsCleared'
BY ClearanceHolds, PTL

\* No execution task is ever dispatched but for the positive quantity the
\* run's own risk task granted a BUY that its own quant task proposed, in
\* mode full_analysis.
THEOREM TradesAreCleared == Spec => []TradeIsCleared
BY Invariance, ClearanceHolds, PTL

\* The risk task judges exactly the research and quant results the run
\* holds, however late others arrive.
THEOREM RiskJudgesWhatIsHeld == Spec => []RiskSeesBothBranches
<1>1. IInv => RiskSeesBothBranches
  BY DEF IInv, RunInv, Joined, RiskArgument, RiskSeesBothBranches
<1>2. QED
  BY Invariance, <1>1, PTL

\* A result key is never readable before a Signal row is committed.
THEOREM VisibleAfterCommit == Spec => []VisibleIsRecorded
<1>1. IInv => VisibleIsRecorded
  BY DEF IInv
<1>2. QED
  BY Invariance, <1>1, PTL

\* Whatever a sub-agent does after its node stopped waiting, the graph field
\* the node wrote is never overwritten.
THEOREM FieldsAreWriteOnce == Spec => LateAnswersIgnored
<1>1. ASSUME IInv, [Next]_vars, NEW r \in Run, NEW a \in Agent, held[r][a] # Unset
      PROVE  held'[r][a] = held[r][a]
  <2>1. CASE UNCHANGED held
    BY <2>1
  <2>2. ASSUME NEW s \in Run, NEW b \in Agent,
               DispatchFails(s, b) \/ Return(s, b) \/ GiveUp(s, b)
        PROVE  held'[r][a] = held[r][a]
    <3>1. held[s][b] = Unset /\ held \in [Run -> [Agent -> Result]]
      BY <1>1, <2>2 DEF DispatchFails, Return, GiveUp, Waits, IInv, TypeOK
    <3>2. \E v : held' = [held EXCEPT ![s][b] = v]
      BY <2>2 DEF DispatchFails, Return, GiveUp
    <3>3. <<r, a>> # <<s, b>>
      BY <1>1, <3>1
    <3>4. QED
      BY <3>1, <3>2, <3>3
  <2>3. CASE \E q \in Query : Submit(q)
    BY <2>1, <2>3 DEF Submit
  <2>4. ASSUME NEW s \in Run, Begin(s) \/ Redeliver(s) \/ RunFails(s) \/ GraphStep(s)
        PROVE  held'[r][a] = held[r][a]
    BY <2>1, <2>4 DEF Begin, Redeliver, RunFails, GraphStep, Join, Route, Traded,
                      Synthesize, CommitSignal, Publish
  <2>5. ASSUME NEW s \in Run, NEW b \in Agent, Dispatch(s, b) \/ TaskStep(s, b)
        PROVE  held'[r][a] = held[r][a]
    BY <2>1, <2>5 DEF Dispatch, TaskStep, Start, Succeed, Raise, LoseWorker
  <2>6. ASSUME NEW s \in Run, RunStep(s)
        PROVE  held'[r][a] = held[r][a]
    BY <2>2, <2>4, <2>5, <2>6 DEF RunStep, NodeStep
  <2>7. CASE UNCHANGED vars
    BY <2>1, <2>7 DEF vars
  <2>8. QED
    BY <1>1, <2>3, <2>6, <2>7 DEF Next
<1>2. IInv /\ [Next]_vars =>
        [\A r \in Run, a \in Agent :
           held[r][a] # Unset => held'[r][a] = held[r][a]]_vars
  BY <1>1
<1>3. QED
  BY Invariance, <1>2, PTL DEF Spec, LateAnswersIgnored

-----------------------------------------------------------------------------
(***************************************************************************)
(* The pipeline implements AnalysisPromise.                                *)
(***************************************************************************)

\* One more run adds at most its own query.
LEMMA QueriesGrow ==
  ASSUME NEW S, NEW r, NEW T \in {S, S \cup {r}}
  PROVE  Queries(T) \in {Queries(S), Queries(S) \cup {QueryOf(r)}}
<1>1. CASE T = S
  BY <1>1
<1>2. CASE T = S \cup {r}
  BY <1>2 DEF Queries
<1>3. QED
  BY <1>1, <1>2

\* The query of a run that exists is accepted.
LEMMA AcceptedRun ==
  ASSUME IInv, NEW r \in Run, pc[r] # "absent"
  PROVE  QueryOf(r) \in AcceptedQueries
BY DEF IInv, RunInv, Origin, AcceptedQueries, Run, QueryOf

\* A query accepted is one promised, and nothing else moves.
LEMMA SubmitPromise ==
  ASSUME TypeOK, NEW q \in Query, Submit(q)
  PROVE  P!PromiseNext
<1>1. UNCHANGED <<task, row, result>>
  BY DEF Submit
<1>2. UNCHANGED <<Queries(ClearedRuns), Queries(TradedRuns),
                  Queries(RecordedRuns), result>>
  BY <1>1 DEF ClearedRuns, TradedRuns, RecordedRuns, Queries
<1>3. PICK m \in Mode : mode' = [mode EXCEPT ![q] = m]
  BY DEF Submit
<1>4. /\ mode[q] = "none" /\ mode'[q] = m
      /\ \A p \in Query : p # q => mode'[p] = mode[p]
  BY <1>3 DEF Submit, TypeOK
<1>5. q \notin AcceptedQueries /\ AcceptedQueries' = AcceptedQueries \cup {q}
  BY <1>4 DEF AcceptedQueries, Mode
<1>6. TradableQueries' \in {TradableQueries, TradableQueries \cup {q}}
  <2>1. CASE m = "full_analysis"
    BY <1>4, <2>1 DEF TradableQueries
  <2>2. CASE m # "full_analysis"
    BY <1>4, <2>2 DEF TradableQueries
  <2>3. QED
    BY <2>1, <2>2
<1>7. QED
  BY <1>2, <1>5, <1>6 DEF P!PromiseNext, P!Accept

\* An attempt can only clear its own query, and only by succeeding.
LEMMA TaskPromise ==
  ASSUME IInv, NEW r \in Run, NEW a \in Agent, TaskStep(r, a)
  PROVE  P!PromiseNext \/ UNCHANGED P!promiseVars
<1>1. UNCHANGED <<mode, row, result>>
  BY DEF TaskStep, Start, Succeed, Raise, LoseWorker
<1>2. TypeOK /\ RunInv(r) /\ QueryOf(r) \in Query
  BY DEF IInv, Run, QueryOf
<1>3. PICK t \in Task :
        /\ task' = [task EXCEPT ![r][a] = t]
        /\ task[r][a].st \in {"queued", "running"}
        /\ t.st # "none"
        /\ t.arg = task[r][a].arg
        /\ \/ t.st # "success" /\ t.out = task[r][a].out
           \/ t.st = "success" /\ t.out \in Outcome(a, t.arg)
  BY <1>2, TaskStepUpdates
<1>4. /\ task'[r][a] = t
      /\ \A s \in Run, b \in Agent : <<s, b>> # <<r, a>> => task'[s][b] = task[s][b]
  BY <1>2, <1>3 DEF TypeOK
<1>5. UNCHANGED <<AcceptedQueries, TradableQueries, Queries(RecordedRuns), result>>
  BY <1>1 DEF AcceptedQueries, TradableQueries, RecordedRuns, Queries
<1>6. UNCHANGED Queries(TradedRuns)
  <2>1. TradedRuns' = TradedRuns
    BY <1>3, <1>4 DEF TradedRuns, Agent
  <2>2. QED
    BY <2>1 DEF Queries
<1>7. Queries(ClearedRuns)' \in
        {Queries(ClearedRuns), Queries(ClearedRuns) \cup {QueryOf(r)}}
  <2>1. task[r][a].out.tag # "PASS"
    BY <1>2, <1>3 DEF RunInv, Provenance, Unset, Value
  <2>2. ClearedRuns' \in {ClearedRuns, ClearedRuns \cup {r}}
    <3>1. \A s \in Run \ {r} : task'[s]["risk"] = task[s]["risk"]
      BY <1>4 DEF Agent
    <3>2. ClearedRuns' \ {r} = ClearedRuns \ {r}
      BY <3>1 DEF ClearedRuns
    <3>3. r \in ClearedRuns => r \in ClearedRuns'
      BY <1>4, <2>1 DEF ClearedRuns, Agent
    <3>4. QED
      BY <3>2, <3>3
  <2>3. Queries(ClearedRuns)' = Queries(ClearedRuns')
    BY DEF Queries
  <2>4. QED
    BY <2>2, <2>3, QueriesGrow
<1>8. QueryOf(r) \in AcceptedQueries
  BY <1>2, <1>3, AcceptedRun DEF RunInv, Origin
<1>9. QED
  BY <1>2, <1>5, <1>6, <1>7, <1>8 DEF P!PromiseNext, P!Clear, P!promiseVars

\* A node sends an execution task only for a query it may trade.
LEMMA DispatchPromise ==
  ASSUME IInv, IInv', NEW r \in Run, NEW a \in Agent, Dispatch(r, a)
  PROVE  P!PromiseNext \/ UNCHANGED P!promiseVars
<1> DEFINE t == [NoTask EXCEPT !.st = "queued", !.arg = PayloadOf(a, held[r])]
<1>1. UNCHANGED <<mode, pc, held, row, result>> /\ task[r][a].st = "none"
  BY DEF Dispatch
<1>2. TypeOK /\ RunInv(r) /\ QueryOf(r) \in Query
  BY DEF IInv, Run, QueryOf
<1>3. /\ task'[r][a] = t
      /\ \A s \in Run, b \in Agent : <<s, b>> # <<r, a>> => task'[s][b] = task[s][b]
  BY <1>2 DEF Dispatch, TypeOK
<1>4. t.st = "queued" /\ t.out = Unset /\ task[r][a].out = Unset
  BY <1>1, <1>2 DEF NoTask, RunInv, Provenance
<1> HIDE DEF t
<1>5. UNCHANGED <<AcceptedQueries, TradableQueries, Queries(RecordedRuns), result>>
  BY <1>1 DEF AcceptedQueries, TradableQueries, RecordedRuns, Queries
<1>6. UNCHANGED Queries(ClearedRuns)
  <2>1. ClearedRuns' = ClearedRuns
    BY <1>3, <1>4 DEF ClearedRuns, Agent
  <2>2. QED
    BY <2>1 DEF Queries
<1>7. CASE a # "execution"
  <2>1. TradedRuns' = TradedRuns
    BY <1>3, <1>7 DEF TradedRuns, Agent
  <2>2. QED
    BY <1>5, <1>6, <2>1 DEF P!promiseVars, Queries
<1>8. CASE a = "execution"
  <2>1. TradedRuns' = TradedRuns \cup {r}
    BY <1>3, <1>4, <1>8 DEF TradedRuns, Agent
  <2>2. Queries(TradedRuns)' = Queries(TradedRuns) \cup {QueryOf(r)}
    BY <2>1 DEF Queries
  <2>3. /\ mode'[QueryOf(r)] = "full_analysis"
        /\ task'[r]["risk"].out.tag = "PASS"
        /\ task'[r]["risk"].out.qty > 0
    <3>1. TradeIsCleared'
      BY ClearanceNext
    <3>2. task'[r]["execution"].st # "none"
      BY <1>3, <1>4, <1>8
    <3>3. /\ mode'[QueryOf(r)] = "full_analysis"
          /\ task'[r]["execution"].arg.qty > 0
          /\ task'[r]["risk"].out =
               [tag |-> "PASS", qty |-> task'[r]["execution"].arg.qty]
      BY <3>1, <3>2, Zenon DEF TradeIsCleared
    <3>4. QED
      BY <3>3
  <2>4. QueryOf(r) \in TradableQueries
    BY <1>1, <1>2, <2>3 DEF TradableQueries
  <2>5. QueryOf(r) \in Queries(ClearedRuns)
    BY <1>3, <1>8, <2>3 DEF ClearedRuns, Queries, Agent
  <2>6. QED
    BY <1>2, <1>5, <1>6, <2>2, <2>4, <2>5 DEF P!PromiseNext, P!Trade
<1>9. QED
  BY <1>7, <1>8

\* A commit records the query of the run, a publication shows it, and the
\* other moves of a run are invisible to the promise.
LEMMA GraphPromise ==
  ASSUME IInv, NEW r \in Run,
         \/ Begin(r) \/ Redeliver(r) \/ RunFails(r) \/ GraphStep(r)
         \/ \E a \in Agent : DispatchFails(r, a) \/ Return(r, a) \/ GiveUp(r, a)
  PROVE  P!PromiseNext \/ UNCHANGED P!promiseVars
<1>1. UNCHANGED <<mode, task>>
  BY DEF Begin, Redeliver, RunFails, GraphStep, Join, Route, Traded, Synthesize,
         CommitSignal, Publish, DispatchFails, Return, GiveUp
<1>2. TypeOK /\ RunInv(r) /\ QueryOf(r) \in Query
  BY DEF IInv, Run, QueryOf
<1>3. UNCHANGED <<AcceptedQueries, TradableQueries, Queries(ClearedRuns),
                  Queries(TradedRuns)>>
  BY <1>1 DEF AcceptedQueries, TradableQueries, ClearedRuns, TradedRuns, Queries
<1>4. CASE CommitSignal(r)
  <2>1. UNCHANGED result /\ pc[r] = "commit"
    BY <1>4 DEF CommitSignal
  <2>2. row'[r] # NoRow
    BY <1>2, <1>4, OrchestratorAssumption
       DEF TypeOK, RunInv, Committed, CommitSignal, NoRow
  <2>3. \A s \in Run : s # r => row'[s] = row[s]
    BY <1>2, <1>4 DEF TypeOK, CommitSignal
  <2>4. RecordedRuns' = RecordedRuns \cup {r}
    BY <2>2, <2>3 DEF RecordedRuns
  <2>5. Queries(RecordedRuns)' = Queries(RecordedRuns) \cup {QueryOf(r)}
    BY <2>4 DEF Queries
  <2>6. QueryOf(r) \in AcceptedQueries
    BY <2>1, AcceptedRun
  <2>7. QED
    BY <1>2, <1>3, <2>1, <2>5, <2>6 DEF P!PromiseNext, P!Record
<1>5. CASE Publish(r)
  <2>1. UNCHANGED row
    BY <1>5 DEF Publish
  <2>2. UNCHANGED Queries(RecordedRuns)
    BY <2>1 DEF RecordedRuns, Queries
  <2>3. QueryOf(r) \in Queries(RecordedRuns)
    BY <1>2, <1>5 DEF Publish, RunInv, Committed, RecordedRuns, Queries
  <2>4. result' \in {result, result \cup {QueryOf(r)}}
    BY <1>5 DEF Publish
  <2>5. QED
    BY <1>2, <1>3, <2>2, <2>3, <2>4 DEF P!PromiseNext, P!Show, P!promiseVars
<1>6. CASE ~CommitSignal(r) /\ ~Publish(r)
  <2>1. UNCHANGED <<row, result>>
    BY <1>6 DEF Begin, Redeliver, RunFails, GraphStep, Join, Route, Traded,
                Synthesize, DispatchFails, Return, GiveUp
  <2>2. QED
    BY <1>3, <2>1 DEF P!promiseVars, RecordedRuns, Queries
<1>7. QED
  BY <1>4, <1>5, <1>6

\* Every behaviour of the pipeline is one the promise allows, for any number
\* of queries, deliveries, retries and slots, and under every fault.
THEOREM PipelineKeepsPromise == Spec => ImplementsPromise
<1>1. Init => P!PromiseInit
  <2> SUFFICES ASSUME Init PROVE P!PromiseInit
    OBVIOUS
  <2>1. AcceptedQueries = {} /\ TradableQueries = {} /\ result = {}
    BY DEF Init, AcceptedQueries, TradableQueries
  <2>2. ClearedRuns = {} /\ TradedRuns = {} /\ RecordedRuns = {}
    BY DEF Init, ClearedRuns, TradedRuns, RecordedRuns, NoTask, Unset, Value, Agent
  <2>3. QED
    BY <2>1, <2>2 DEF P!PromiseInit, Queries
<1>2. IInv /\ IInv' /\ [Next]_vars => [P!PromiseNext]_(P!promiseVars)
  <2> SUFFICES ASSUME IInv, IInv', [Next]_vars
               PROVE  P!PromiseNext \/ UNCHANGED P!promiseVars
    OBVIOUS
  <2>1. ASSUME NEW q \in Query, Submit(q) PROVE P!PromiseNext
    BY <2>1, SubmitPromise DEF IInv
  <2>2. ASSUME NEW r \in Run, RunStep(r)
        PROVE  P!PromiseNext \/ UNCHANGED P!promiseVars
    BY <2>2, GraphPromise, DispatchPromise, TaskPromise DEF RunStep, NodeStep
  <2>3. CASE UNCHANGED vars
    BY <2>3 DEF vars, P!promiseVars, AcceptedQueries, TradableQueries,
                ClearedRuns, TradedRuns, RecordedRuns, Queries
  <2>4. QED
    BY <2>1, <2>2, <2>3 DEF Next
<1>3. QED
  BY <1>1, <1>2, Invariance, PTL DEF Spec, ImplementsPromise, P!Promise
-----------------------------------------------------------------------------
(***************************************************************************)
(* One worker slot.  OneSlotStarves is not inductive: that no answer comes *)
(* in time follows from who holds the slot.  A run that is in the graph    *)
(* keeps every attempt from starting, and it began before any of its own   *)
(* tasks was sent, so none of them has ended well.                         *)
(***************************************************************************)

\* While run r is in the graph no attempt of any run is running, and no task
\* of r has succeeded.
SlotHeld(r) ==
  pc[r] \in InGraph =>
    /\ \A s \in Run, a \in Agent : task[s][a].st # "running"
    /\ \A a \in Agent : task[r][a].st # "success"

\* Run r holds fallbacks only, and past risk_node that of the risk agent.
Starved(r) ==
  /\ \A a \in Agent : held[r][a] \in {Unset, Fallback(a)}
  /\ pc[r] \in {"synthesize", "commit"} => held[r]["risk"] # Unset
  /\ row[r].risk \in {"unset", "BLOCK"}

SlotInv == Slots = 1 => \A r \in Run : SlotHeld(r) /\ Starved(r)

\* With one slot, a free slot means that no run is in the graph and that no
\* attempt is running.
LEMMA OnlySlot ==
  ASSUME Slots = 1, FreeSlot
  PROVE  /\ \A r \in Run : pc[r] \notin InGraph
         /\ \A r \in Run, a \in Agent : task[r][a].st # "running"
<1>1. IsFiniteSet(Run)
  <2>1. IsFiniteSet(1..MaxDeliveries)
    BY OrchestratorAssumption, FS_Interval
  <2>2. QED
    BY <2>1, OrchestratorAssumption, FS_Product DEF Run
<1>2. IsFiniteSet(Agent)
  <2>1. /\ IsFiniteSet({"research"})
        /\ IsFiniteSet({"quant"})
        /\ IsFiniteSet({"risk"})
        /\ IsFiniteSet({"execution"})
    BY FS_Singleton
  <2>2. IsFiniteSet({"research"} \cup {"quant"})
    BY <2>1, FS_Union
  <2>3. IsFiniteSet({"risk"} \cup {"execution"})
    BY <2>1, FS_Union
  <2>4. IsFiniteSet(({"research"} \cup {"quant"}) \cup ({"risk"} \cup {"execution"}))
    BY <2>2, <2>3, FS_Union
  <2>5. Agent = ({"research"} \cup {"quant"}) \cup ({"risk"} \cup {"execution"})
    BY DEF Agent
  <2>6. QED
    BY <2>4, <2>5
<1>3. IsFiniteSet(Run \X Agent)
  BY <1>1, <1>2, FS_Product
<1>4. IsFiniteSet(BusyRuns) /\ Cardinality(BusyRuns) \in Nat
  <2>1. BusyRuns \in SUBSET Run
    BY DEF BusyRuns
  <2>2. QED
    BY <1>1, <2>1, FS_Subset, FS_CardinalityType
<1>5. IsFiniteSet(BusyTasks) /\ Cardinality(BusyTasks) \in Nat
  <2>1. BusyTasks \in SUBSET (Run \X Agent)
    BY DEF BusyTasks
  <2>2. QED
    BY <1>3, <2>1, FS_Subset, FS_CardinalityType
<1>6. Cardinality(BusyRuns) = 0 /\ Cardinality(BusyTasks) = 0
  BY <1>4, <1>5 DEF FreeSlot
<1>7. BusyRuns = {} /\ BusyTasks = {}
  BY <1>4, <1>5, <1>6, FS_EmptySet
<1>8. ASSUME NEW r \in Run, NEW a \in Agent PROVE task[r][a].st # "running"
  <2>1. <<r, a>> \notin BusyTasks
    BY <1>7
  <2>2. <<r, a>> \in Run \X Agent
    OBVIOUS
  <2>3. QED
    BY <2>1, <2>2 DEF BusyTasks
<1>9. QED
  BY <1>7, <1>8 DEF BusyRuns

\* A run that leaves its own part of the state alone, while nobody starts an
\* attempt, keeps its place in the slot's invariant.
LEMMA SlotFrame ==
  ASSUME NEW r \in Run, SlotHeld(r), Starved(r),
         pc'[r] = pc[r] \/ pc'[r] \notin InGraph,
         held'[r] = held[r], row'[r] = row[r],
         \A s \in Run, a \in Agent :
           task'[s][a].st \in {"running", "success"} =>
             task'[s][a].st = task[s][a].st
  PROVE  SlotHeld(r)' /\ Starved(r)'
<1>1. SlotHeld(r)'
  BY DEF SlotHeld
<1>2. Starved(r)'
  BY DEF Starved, InGraph
<1>3. QED
  BY <1>1, <1>2

\* A run that begins has sent no task yet, and takes the only slot while no
\* attempt is running.
LEMMA BeginSlot ==
  ASSUME IInv, Slots = 1, NEW r \in Run, Starved(r), Begin(r)
  PROVE  SlotHeld(r)' /\ Starved(r)'
<1>1. \A s \in Run, a \in Agent : task[s][a].st # "running"
  BY OnlySlot DEF Begin
<1>2. \A a \in Agent : task[r][a].st = "none"
  BY DEF IInv, RunInv, Origin, Begin
<1>3. UNCHANGED <<held, task, row>> /\ pc'[r] = "gather"
  BY DEF IInv, TypeOK, Begin
<1>4. SlotHeld(r)'
  BY <1>1, <1>2, <1>3 DEF SlotHeld
<1>5. Starved(r)'
  BY <1>3 DEF Starved
<1>6. QED
  BY <1>4, <1>5

\* The graph routes a run past risk_node only once the risk field is set, and
\* the row records that field.
LEMMA GraphSlot ==
  ASSUME IInv, NEW r \in Run, SlotHeld(r), Starved(r),
         RunFails(r) \/ GraphStep(r)
  PROVE  SlotHeld(r)' /\ Starved(r)'
<1>1. UNCHANGED <<held, task>> /\ pc[r] \in InGraph
  BY DEF RunFails, GraphStep, Join, Route, Traded, Synthesize, CommitSignal,
         Publish, InGraph
<1>2. SlotHeld(r)'
  BY <1>1 DEF SlotHeld
<1>3. pc'[r] \in {"synthesize", "commit"} => held[r]["risk"] # Unset
  <2>1. pc \in [Run -> Stage]
    BY DEF IInv, TypeOK
  <2>2. CASE Traded(r)
    BY <2>2 DEF IInv, RunInv, Gated, Traded
  <2>3. CASE Route(r)
    BY <2>3 DEF Route
  <2>4. CASE RunFails(r) \/ Join(r) \/ CommitSignal(r) \/ Publish(r)
    BY <2>1, <2>4 DEF RunFails, Join, CommitSignal, Publish
  <2>5. CASE Synthesize(r)
    BY <2>5 DEF Starved, Synthesize
  <2>6. QED
    BY <2>2, <2>3, <2>4, <2>5 DEF GraphStep
<1>4. row'[r].risk \in {"unset", "BLOCK"}
  <2>1. CASE CommitSignal(r)
    <3>1. held[r]["risk"] = Fallback("risk")
      BY <2>1 DEF Starved, CommitSignal, Agent
    <3>2. held[r]["risk"].tag = "BLOCK"
      BY <3>1 DEF Fallback, Value
    <3>3. row'[r] = [signal |-> draft[r], risk |-> held[r]["risk"].tag]
      BY <2>1 DEF CommitSignal, IInv, TypeOK
    <3>4. QED
      BY <3>2, <3>3
  <2>2. CASE ~CommitSignal(r)
    <3>1. UNCHANGED row
      BY <2>2 DEF RunFails, GraphStep, Join, Route, Traded, Synthesize, Publish
    <3>2. QED
      BY <3>1 DEF Starved
  <2>3. QED
    BY <2>1, <2>2
<1>5. Starved(r)'
  BY <1>1, <1>3, <1>4 DEF Starved
<1>6. QED
  BY <1>2, <1>5

\* A node that waits in the graph has no answer to return: what it writes is
\* its fallback.
LEMMA FieldSlot ==
  ASSUME IInv, NEW r \in Run, NEW a \in Agent, SlotHeld(r), Starved(r),
         DispatchFails(r, a) \/ Return(r, a) \/ GiveUp(r, a)
  PROVE  SlotHeld(r)' /\ Starved(r)'
<1>1. UNCHANGED <<pc, task, row>> /\ Waits(r, a)
  BY DEF DispatchFails, Return, GiveUp
<1>2. pc[r] \in {"gather", "assess", "trade"}
  BY <1>1 DEF Waits, ActiveNodes
<1>3. task[r][a].st # "success"
  BY <1>2 DEF SlotHeld, InGraph
<1>4. held' = [held EXCEPT ![r][a] = Fallback(a)]
  BY <1>3 DEF DispatchFails, Return, GiveUp
<1>5. SlotHeld(r)'
  BY <1>1 DEF SlotHeld
<1>6. \A b \in Agent : held'[r][b] \in {held[r][b], Fallback(b)}
  BY <1>4 DEF IInv, TypeOK
<1>7. Starved(r)'
  BY <1>1, <1>2, <1>6 DEF Starved
<1>8. QED
  BY <1>5, <1>7

\* An attempt starts only when no run is in the graph, and one that ends was
\* running while none was.
LEMMA TaskSlot ==
  ASSUME IInv, Slots = 1, \A s \in Run : SlotHeld(s) /\ Starved(s),
         NEW r \in Run, NEW a \in Agent, TaskStep(r, a)
  PROVE  \A s \in Run : SlotHeld(s)' /\ Starved(s)'
<1>1. UNCHANGED <<pc, held, row>>
  BY DEF TaskStep, Start, Succeed, Raise, LoseWorker
<1>2. CASE Start(r, a) \/ Succeed(r, a)
  <2>1. \A s \in Run : pc[s] \notin InGraph
    <3>1. CASE Start(r, a)
      BY <3>1, OnlySlot DEF Start
    <3>2. CASE Succeed(r, a)
      BY <3>2 DEF Succeed, SlotHeld
    <3>3. QED
      BY <1>2, <3>1, <3>2
  <2>2. \A s \in Run : SlotHeld(s)'
    BY <1>1, <2>1 DEF SlotHeld
  <2>3. \A s \in Run : Starved(s)'
    BY <1>1 DEF Starved
  <2>4. QED
    BY <2>2, <2>3
<1>3. CASE Raise(r, a) \/ LoseWorker(r, a)
  <2>1. /\ task'[r][a].st \notin {"running", "success"}
        /\ task' = [task EXCEPT ![r][a] = task'[r][a]]
    <3>1. task \in [Run -> [Agent -> Task]] /\ task[r][a] \in Task
      BY DEF IInv, TypeOK
    <3>2. CASE Raise(r, a)
      BY <3>1, <3>2 DEF Raise, Task
    <3>3. CASE LoseWorker(r, a)
      <4>1. PICK st \in {"queued", "failure"} :
              task' = [task EXCEPT ![r][a] = [@ EXCEPT !.st = st]]
        BY <3>3 DEF LoseWorker
      <4> DEFINE t == [task[r][a] EXCEPT !.st = st]
      <4>2. task' = [task EXCEPT ![r][a] = t]
        BY <4>1
      <4>3. t.st = st
        BY <3>1 DEF Task
      <4> HIDE DEF t
      <4>4. task'[r][a] = t
        BY <3>1, <4>2
      <4>5. QED
        BY <4>2, <4>3, <4>4
    <3>4. QED
      BY <1>3, <3>2, <3>3
  <2>2. \A s \in Run, b \in Agent :
          task'[s][b].st \in {"running", "success"} =>
            task'[s][b].st = task[s][b].st
    BY <2>1 DEF IInv, TypeOK
  <2>3. QED
    BY <1>1, <2>2, SlotFrame
<1>4. QED
  BY <1>2, <1>3 DEF TaskStep

\* Every step keeps the slot's invariant.
LEMMA SlotNext ==
  ASSUME IInv, SlotInv, [Next]_vars
  PROVE  SlotInv'
<1> SUFFICES ASSUME Slots = 1
             PROVE  \A s \in Run : SlotHeld(s)' /\ Starved(s)'
  BY DEF SlotInv
<1>1. \A s \in Run : SlotHeld(s) /\ Starved(s)
  BY DEF SlotInv
<1>2. CASE UNCHANGED vars
  BY <1>1, <1>2, SlotFrame DEF vars
<1>3. ASSUME NEW q \in Query, Submit(q)
      PROVE  \A s \in Run : SlotHeld(s)' /\ Starved(s)'
  <2>1. UNCHANGED <<held, task, row>> /\ pc' = [pc EXCEPT ![<<q, 1>>] = "queued"]
    BY <1>3 DEF Submit
  <2>2. \A s \in Run : pc'[s] = pc[s] \/ pc'[s] \notin InGraph
    BY <2>1 DEF IInv, TypeOK, InGraph
  <2>3. QED
    BY <1>1, <2>1, <2>2, SlotFrame
<1>4. ASSUME NEW r \in Run, Redeliver(r)
      PROVE  \A s \in Run : SlotHeld(s)' /\ Starved(s)'
  <2>1. UNCHANGED <<held, task, row>>
    BY <1>4 DEF Redeliver
  <2>2. \A s \in Run : pc'[s] = pc[s] \/ pc'[s] \notin InGraph
    BY <1>4 DEF IInv, TypeOK, Redeliver, InGraph
  <2>3. QED
    BY <1>1, <2>1, <2>2, SlotFrame
<1>5. ASSUME NEW r \in Run, Begin(r) \/ RunFails(r) \/ GraphStep(r)
      PROVE  \A s \in Run : SlotHeld(s)' /\ Starved(s)'
  <2>1. SlotHeld(r)' /\ Starved(r)'
    BY <1>1, <1>5, BeginSlot, GraphSlot
  <2>2. UNCHANGED <<held, task>>
    BY <1>5 DEF Begin, RunFails, GraphStep, Join, Route, Traded, Synthesize,
                CommitSignal, Publish
  <2>3. \A s \in Run : s # r => pc'[s] = pc[s] /\ row'[s] = row[s]
    BY <1>5 DEF IInv, TypeOK, Begin, RunFails, GraphStep, Join, Route, Traded,
                Synthesize, CommitSignal, Publish
  <2>4. QED
    BY <1>1, <2>1, <2>2, <2>3, SlotFrame
<1>6. ASSUME NEW r \in Run, NEW a \in Agent, NodeStep(r, a)
      PROVE  \A s \in Run : SlotHeld(s)' /\ Starved(s)'
  <2>1. CASE Dispatch(r, a)
    <3>1. UNCHANGED <<pc, held, row>>
      BY <2>1 DEF Dispatch
    <3>2. [NoTask EXCEPT !.st = "queued", !.arg = PayloadOf(a, held[r])].st = "queued"
      BY DEF NoTask
    <3>3. \A s \in Run, b \in Agent :
            task'[s][b].st \in {"running", "success"} =>
              task'[s][b].st = task[s][b].st
      BY <2>1, <3>2 DEF Dispatch, IInv, TypeOK
    <3>4. QED
      BY <1>1, <3>1, <3>3, SlotFrame
  <2>2. CASE DispatchFails(r, a) \/ Return(r, a) \/ GiveUp(r, a)
    <3>1. SlotHeld(r)' /\ Starved(r)'
      BY <1>1, <2>2, FieldSlot
    <3>2. UNCHANGED <<pc, task, row>>
      BY <2>2 DEF DispatchFails, Return, GiveUp
    <3>3. \A s \in Run : s # r => held'[s] = held[s]
      BY <2>2 DEF IInv, TypeOK, DispatchFails, Return, GiveUp
    <3>4. QED
      BY <1>1, <3>1, <3>2, <3>3, SlotFrame
  <2>3. QED
    BY <1>6, <2>1, <2>2 DEF NodeStep
<1>7. ASSUME NEW r \in Run, NEW a \in Agent, TaskStep(r, a)
      PROVE  \A s \in Run : SlotHeld(s)' /\ Starved(s)'
  BY <1>1, <1>7, TaskSlot
<1>8. QED
  BY <1>2, <1>3, <1>4, <1>5, <1>6, <1>7 DEF Next, RunStep

\* With one worker slot no run gets a result from a sub-agent and every row
\* records a BLOCK, whatever fails, for any number of queries and deliveries:
\* the orchestrator task holds the slot its sub-agents wait for.
THEOREM OneSlotIsStarvation == Spec => []OneSlotStarves
<1>1. Init => SlotInv
  <2> SUFFICES ASSUME Init, NEW r \in Run PROVE SlotHeld(r) /\ Starved(r)
    BY DEF SlotInv
  <2>1. SlotHeld(r)
    BY DEF Init, SlotHeld, InGraph
  <2>2. Starved(r)
    BY DEF Init, Starved, NoRow, Agent
  <2>3. QED
    BY <2>1, <2>2
<1>2. IInv /\ SlotInv /\ [Next]_vars => SlotInv'
  BY SlotNext
<1>3. SlotInv => OneSlotStarves
  BY DEF SlotInv, Starved, OneSlotStarves
<1>4. QED
  BY <1>1, <1>2, <1>3, Invariance, PTL DEF Spec

-----------------------------------------------------------------------------
(***************************************************************************)
(* A run only moves forward: what BegunRunsEnd rests on besides fairness,  *)
(* and why a redelivered message makes a second run and never a second     *)
(* pass of the first.                                                      *)
(***************************************************************************)

\* How far a run is when its stage is s.
Progress(s) ==
  CASE s = "absent" -> 0
    [] s = "queued" -> 1
    [] s = "gather" -> 2
    [] s = "assess" -> 3
    [] s = "trade" -> 4
    [] s = "synthesize" -> 5
    [] s = "commit" -> 6
    [] s = "cache" -> 7
    [] OTHER -> 8

\* No run enters a node twice, or works on after it has ended.
RunsMoveForward ==
  [][\A r \in Run : pc'[r] # pc[r] => Progress(pc'[r]) > Progress(pc[r])]_vars

\* The Signal row of a run is committed once and then stays as it is.
RowsAreFinal ==
  [][\A r \in Run : row[r] # NoRow => row'[r] = row[r]]_vars

\* A run with a row is past its commit.
RowIsLast == \A r \in Run : row[r] # NoRow => Progress(pc[r]) > Progress("commit")

\* Every step moves a run forward or leaves it where it is.
LEMMA Forward ==
  ASSUME IInv, [Next]_vars, NEW s \in Run, pc'[s] # pc[s]
  PROVE  Progress(pc'[s]) > Progress(pc[s])
<1>1. pc \in [Run -> Stage]
  BY DEF IInv, TypeOK
<1>2. ASSUME NEW q \in Query, Submit(q)
      PROVE  Progress(pc'[s]) > Progress(pc[s])
  <2>1. s = <<q, 1>> /\ pc'[s] = "queued"
    BY <1>1, <1>2 DEF Submit
  <2>2. QueryOf(s) = q
    BY <2>1 DEF QueryOf
  <2>3. pc[s] = "absent"
    BY <1>2, <2>2 DEF Submit, IInv, RunInv, Origin
  <2>4. QED
    BY <2>1, <2>3 DEF Progress
<1>3. ASSUME NEW r \in Run, Redeliver(r)
      PROVE  Progress(pc'[s]) > Progress(pc[s])
  <2> DEFINE next == <<QueryOf(r), r[2] + 1>>
  <2>1. PICK here \in {"lost", pc[r]} :
          pc' = [pc EXCEPT ![r] = here, ![next] = "queued"]
    BY <1>3 DEF Redeliver
  <2>2. pc[next] = "absent" /\ pc[r] \in InGraph
    BY <1>3 DEF Redeliver
  <2> HIDE DEF next
  <2>3. CASE s = next
    <3>1. pc'[s] = "queued"
      BY <1>1, <2>1, <2>3
    <3>2. QED
      BY <2>2, <2>3, <3>1 DEF Progress
  <2>4. CASE s # next
    <3>1. s = r /\ pc'[s] = "lost"
      BY <1>1, <2>1, <2>4
    <3>2. QED
      BY <2>2, <3>1 DEF Progress, InGraph
  <2>5. QED
    BY <2>3, <2>4
<1>4. ASSUME NEW r \in Run, Begin(r) \/ RunFails(r) \/ GraphStep(r)
      PROVE  Progress(pc'[s]) > Progress(pc[s])
  <2>1. s = r
    BY <1>1, <1>4 DEF Begin, RunFails, GraphStep, Join, Route, Traded, Synthesize,
                      CommitSignal, Publish
  <2>2. \/ pc[r] = "queued" /\ pc'[r] = "gather"
        \/ pc[r] = "gather" /\ pc'[r] = "assess"
        \/ pc[r] = "assess" /\ pc'[r] \in {"synthesize", "trade"}
        \/ pc[r] = "trade" /\ pc'[r] = "synthesize"
        \/ pc[r] = "synthesize" /\ pc'[r] = "commit"
        \/ pc[r] = "commit" /\ pc'[r] = "cache"
        \/ pc[r] = "cache" /\ pc'[r] = "done"
        \/ pc[r] \in InGraph /\ pc'[r] = "failed"
    BY <1>1, <1>4 DEF Begin, RunFails, GraphStep, Join, Route, Traded, Synthesize,
                      CommitSignal, Publish, InGraph
  <2>3. QED
    BY <2>1, <2>2 DEF Progress, InGraph
<1>5. CASE UNCHANGED pc
  BY <1>5
<1>6. ASSUME NEW r \in Run, NEW a \in Agent, NodeStep(r, a) \/ TaskStep(r, a)
      PROVE  UNCHANGED pc
  BY <1>6 DEF NodeStep, Dispatch, DispatchFails, Return, GiveUp,
              TaskStep, Start, Succeed, Raise, LoseWorker
<1>7. QED
  BY <1>2, <1>3, <1>4, <1>5, <1>6 DEF Next, RunStep, vars

\* Whatever is redelivered, fails or answers late, a run passes each node of
\* the graph once at most and never goes back to one.
THEOREM RunsAdvance == Spec => RunsMoveForward
<1>1. IInv /\ [Next]_vars =>
        [\A r \in Run : pc'[r] # pc[r] => Progress(pc'[r]) > Progress(pc[r])]_vars
  BY Forward
<1>2. QED
  BY Invariance, <1>1, PTL DEF Spec, RunsMoveForward

\* Only the commit of a run writes its row.
LEMMA OnlyCommitWrites ==
  ASSUME IInv, [Next]_vars, NEW s \in Run, row'[s] # row[s]
  PROVE  pc[s] = "commit" /\ pc'[s] = "cache"
<1>1. ASSUME NEW r \in Run, RunStep(r), ~CommitSignal(r)
      PROVE  UNCHANGED row
  <2>1. CASE Begin(r) \/ Redeliver(r) \/ RunFails(r) \/ GraphStep(r)
    BY <1>1, <2>1 DEF Begin, Redeliver, RunFails, GraphStep, Join, Route, Traded,
                      Synthesize, Publish
  <2>2. ASSUME NEW a \in Agent, NodeStep(r, a) \/ TaskStep(r, a)
        PROVE  UNCHANGED row
    BY <2>2 DEF NodeStep, Dispatch, DispatchFails, Return, GiveUp,
                TaskStep, Start, Succeed, Raise, LoseWorker
  <2>3. QED
    BY <1>1, <2>1, <2>2 DEF RunStep
<1>2. PICK r \in Run : CommitSignal(r)
  BY <1>1 DEF Next, Submit, vars
<1>3. QED
  BY <1>2 DEF CommitSignal, IInv, TypeOK

\* A run that has its row keeps it: it never commits a second one.
THEOREM RowsStay == Spec => RowsAreFinal
<1>1. Init => RowIsLast
  BY DEF Init, RowIsLast
<1>2. ASSUME IInv, RowIsLast, [Next]_vars PROVE RowIsLast'
  <2> SUFFICES ASSUME NEW s \in Run, row'[s] # NoRow
               PROVE  Progress(pc'[s]) > Progress("commit")
    BY DEF RowIsLast
  <2>1. CASE row'[s] = row[s]
    <3>1. Progress(pc[s]) > Progress("commit")
      BY <1>2, <2>1 DEF RowIsLast
    <3>2. pc'[s] = pc[s] \/ Progress(pc'[s]) > Progress(pc[s])
      BY <1>2, Forward
    <3>3. \A v : Progress(v) \in 0..8
      BY DEF Progress
    <3>4. Progress(pc[s]) \in Nat /\ Progress(pc'[s]) \in Nat /\ Progress("commit") \in Nat
      BY <3>3
    <3>5. QED
      BY <3>1, <3>2, <3>4
  <2>2. CASE row'[s] # row[s]
    BY <1>2, <2>2, OnlyCommitWrites DEF Progress
  <2>3. QED
    BY <2>1, <2>2
<1>3. ASSUME IInv, RowIsLast, [Next]_vars, NEW r \in Run, row[r] # NoRow
      PROVE  row'[r] = row[r]
  BY <1>3, OnlyCommitWrites DEF RowIsLast, Progress
<1>4. IInv /\ RowIsLast /\ [Next]_vars =>
        [\A r \in Run : row[r] # NoRow => row'[r] = row[r]]_vars
  BY <1>3
<1>5. QED
  BY Invariance, <1>1, <1>2, <1>4, PTL DEF Spec, RowsAreFinal
=============================================================================
