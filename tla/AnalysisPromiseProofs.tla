------------------------ MODULE AnalysisPromiseProofs ------------------------
(***************************************************************************)
(* What the promise of AnalysisPromise means for a user.                   *)
(***************************************************************************)
EXTENDS AnalysisPromise, TLAPS

\* What is traded was asked for and cleared, and what is shown was recorded
\* (app/agents/orchestrator.py: execution_node and the result key).
THEOREM PromiseIsKept == Promise => []PromiseKept
<1>1. PromiseInit => PromiseKept
  BY DEF PromiseInit, PromiseKept
<1>2. PromiseKept /\ [PromiseNext]_promiseVars => PromiseKept'
  <2> SUFFICES ASSUME PromiseKept, [PromiseNext]_promiseVars PROVE PromiseKept'
    OBVIOUS
  <2>1. ASSUME NEW q \in Query, Accept(q) PROVE PromiseKept'
    BY <2>1 DEF PromiseKept, Accept
  <2>2. ASSUME NEW q \in Query, Clear(q) \/ Trade(q) PROVE PromiseKept'
    BY <2>2 DEF PromiseKept, Clear, Trade
  <2>3. ASSUME NEW q \in Query, Record(q) \/ Show(q) PROVE PromiseKept'
    BY <2>3 DEF PromiseKept, Record, Show
  <2>4. CASE UNCHANGED promiseVars
    BY <2>4 DEF PromiseKept, promiseVars
  <2>5. QED
    BY <2>1, <2>2, <2>3, <2>4 DEF PromiseNext
<1>3. QED
  BY <1>1, <1>2, PTL DEF Promise
=============================================================================
