--------------------------- MODULE AnalysisPromise ---------------------------
(***************************************************************************)
(* What POST /analyze and the daily watchlist run promise for a query,     *)
(* whatever agents, retries and workers do behind them:                    *)
(*                                                                         *)
(*   - only an accepted query is worked on, and it is accepted once;       *)
(*   - a trade is attempted only for a query that asked for one (mode      *)
(*     full_analysis) and that the risk guardrails have cleared;           *)
(*   - a client is shown a result only once a Signal row of the query is   *)
(*     committed;                                                          *)
(*   - nothing that happened is taken back.                                *)
(*                                                                         *)
(* Orchestrator.tla implements this specification.                         *)
(***************************************************************************)
CONSTANT Query      \* the query_ids

VARIABLES
  accepted,         \* queries whose orchestrator message was published
  tradable,         \* those accepted in mode full_analysis
  cleared,          \* queries the risk agent passed with a positive quantity
  traded,           \* queries for which an execution task was dispatched
  recorded,         \* queries with a committed Signal row
  visible           \* queries whose result a client can read

promiseVars == <<accepted, tradable, cleared, traded, recorded, visible>>

PromiseInit ==
  /\ accepted = {}
  /\ tradable = {}
  /\ cleared = {}
  /\ traded = {}
  /\ recorded = {}
  /\ visible = {}

Accept(q) ==
  /\ q \notin accepted
  /\ accepted' = accepted \cup {q}
  /\ tradable' \in {tradable, tradable \cup {q}}
  /\ UNCHANGED <<cleared, traded, recorded, visible>>

Clear(q) ==
  /\ q \in accepted
  /\ cleared' = cleared \cup {q}
  /\ UNCHANGED <<accepted, tradable, traded, recorded, visible>>

Trade(q) ==
  /\ q \in tradable \cap cleared
  /\ traded' = traded \cup {q}
  /\ UNCHANGED <<accepted, tradable, cleared, recorded, visible>>

Record(q) ==
  /\ q \in accepted
  /\ recorded' = recorded \cup {q}
  /\ UNCHANGED <<accepted, tradable, cleared, traded, visible>>

Show(q) ==
  /\ q \in recorded
  /\ visible' = visible \cup {q}
  /\ UNCHANGED <<accepted, tradable, cleared, traded, recorded>>

PromiseNext ==
  \E q \in Query : Accept(q) \/ Clear(q) \/ Trade(q) \/ Record(q) \/ Show(q)

Promise == PromiseInit /\ [][PromiseNext]_promiseVars

-----------------------------------------------------------------------------
\* Whatever is traded was asked for and cleared, and whatever is shown was
\* recorded: the two consequences of the promise a user relies on.
PromiseKept ==
  /\ traded \subseteq tradable \cap cleared
  /\ visible \subseteq recorded
  /\ recorded \cup cleared \cup tradable \subseteq accepted
=============================================================================
