------------------------------ MODULE ManualTrade ------------------------------
(***************************************************************************)
(* POST /trade of app/api/routes/trades.py: it publishes the execution of  *)
(* an order under a query_id of its own and waits 30 seconds for the       *)
(* result.  The execution is the task of app/agents/execution_agent.py: an *)
(* attempt that raises is retried after a countdown of 10 seconds, three   *)
(* times.  ExecutionAgent.tla models what an attempt does; here it looks   *)
(* for a row of its query, places orders with the broker, one or more, and *)
(* records them.  Whoever sees an error may send the trade again, as a new *)
(* request.                                                                *)
(***************************************************************************)
EXTENDS Integers, FiniteSets

CONSTANTS
  Post,         \* requests for the same trade, one after the other
  Timeout,      \* seconds get() waits
  Countdown,    \* seconds a retry waits
  MaxRetries,   \* max_retries of the task
  MaxRedeliveries,  \* bound on the messages delivered again
  TradeFaults   \* the faults of the surroundings a run explores

ASSUME TradeAssumption ==
  /\ Timeout \in Nat \ {0}
  /\ Countdown \in Nat
  /\ MaxRetries \in Nat
  /\ MaxRedeliveries \in Nat
  /\ TradeFaults \subseteq {"publish", "process", "connection"}

\* A delivery of the message that a request published, and an attempt of it.
Delivery == Post \X (1..(1 + MaxRedeliveries))
Trying == Delivery \X (0..MaxRetries)

VARIABLES
  paper_mode,   \* PAPER_MODE of the settings
  http,         \* http[p]: "none", "waiting", then the status it was answered with
  task,         \* task[d]: how far a delivery is, and how often it was retried
  orders,       \* the attempts that had the broker accept an order
  rows          \* those that recorded it in the trades table

tradeVars == <<paper_mode, http, task, orders, rows>>

NoTask == [at |-> "none", tries |-> 0]

\* What an attempt at work has found: no row of the query, one, or several.
AtWork == {"missed", "found", "torn"}
Stages == AtWork \cup {"none", "queued", "countdown", "done", "failed", "lost", "gone"}

TradeTypeOK ==
  /\ paper_mode \in BOOLEAN
  /\ http \in [Post -> {"none", "waiting", "200", "403", "500"}]
  /\ task \in [Delivery -> [at : Stages, tries : 0..MaxRetries]]
  /\ orders \subseteq Trying
  /\ rows \subseteq orders

TradeInit ==
  /\ paper_mode \in BOOLEAN
  /\ http = [p \in Post |-> "none"]
  /\ task = [d \in Delivery |-> NoTask]
  /\ orders = {}
  /\ rows = {}

-----------------------------------------------------------------------------
(***************************************************************************)
(* The request.                                                            *)
(***************************************************************************)

\* An operator <definition>_<change> is a mutated form of the one after it.

Answers(p, status) == http' = [http EXCEPT ![p] = status]
Publishes(p) == task' = [task EXCEPT ![<<p, 1>>].at = "queued"]

\* The user sends the trade, again while no request of it was answered well.
MayPlace(p) ==
  /\ http[p] = "none"
  /\ \A q \in Post : http[q] \in {"none", "403", "500"}
  /\ UNCHANGED <<paper_mode, orders, rows>>

PlaceTrade(p) ==
  /\ MayPlace(p)
  /\ \/ ~paper_mode /\ Answers(p, "403") /\ UNCHANGED task
     \/ paper_mode /\ Answers(p, "waiting") /\ Publishes(p)

\* apply_async raises, before or after the message got out.
PlaceTradeFails(p) ==
  /\ "publish" \in TradeFaults
  /\ paper_mode
  /\ MayPlace(p)
  /\ Answers(p, "500")
  /\ UNCHANGED task \/ Publishes(p)

\* get() returns what the task returned, or raises the exception it failed
\* with, which no except clause but the last knows: AlpacaAPIError is no
\* BrokerAPIError, and the loss of a process is neither.
HttpAnswer(p) ==
  /\ http[p] = "waiting"
  /\ \E d \in Delivery :
       /\ d[1] = p
       /\ \/ task[d].at = "done" /\ Answers(p, "200")
          \/ task[d].at \in {"failed", "lost"} /\ Answers(p, "500")
  /\ UNCHANGED <<paper_mode, task, orders, rows>>

\* 30 seconds are over, by the countdowns, the queue or a slow attempt.
TimesOut_AsSuccess(p) ==
  /\ http[p] = "waiting"
  /\ Answers(p, "200")
  /\ UNCHANGED <<paper_mode, task, orders, rows>>
TimesOut(p) ==
  /\ http[p] = "waiting"
  /\ Answers(p, "500")
  /\ UNCHANGED <<paper_mode, task, orders, rows>>

-----------------------------------------------------------------------------
(***************************************************************************)
(* The task.                                                               *)
(***************************************************************************)
Becomes(d, at) == task' = [task EXCEPT ![d].at = at]
Now(d) == <<d, task[d].tries>>

\* The countdowns alone have used up the request's time.
TimeIsUp(d) == task[d].tries * Countdown >= Timeout

\* _get_existing_trade; scalar_one_or_none raises on several rows.
RecordedBy(p) == {o \in rows : o[1][1] = p}
Lookup(p) == IF RecordedBy(p) = {} THEN "missed"
             ELSE IF \E o \in rows : RecordedBy(p) = {o} THEN "found" ELSE "torn"

\* A worker takes the message and the attempt looks for a row of its query.
TakeTask_NoLookup(d) ==
  /\ task[d].at = "queued"
  /\ http[d[1]] = "waiting" => ~TimeIsUp(d)
  /\ Becomes(d, "missed")
  /\ UNCHANGED <<paper_mode, http, orders, rows>>
TakeTask(d) ==
  /\ task[d].at = "queued"
  /\ http[d[1]] = "waiting" => ~TimeIsUp(d)
  /\ Becomes(d, Lookup(d[1]))
  /\ UNCHANGED <<paper_mode, http, orders, rows>>

\* The attempt ends well: the order of the row, or a new one with its row.
Succeeds(d) ==
  /\ \/ task[d].at = "found" /\ UNCHANGED <<orders, rows>>
     \/ /\ task[d].at = "missed"
        /\ orders' = orders \cup {Now(d)}
        /\ rows' = rows \cup {Now(d)}
  /\ Becomes(d, "done")
  /\ UNCHANGED <<paper_mode, http>>

\* What an attempt that does not end well may have done: nothing, an order, or
\* an order and its row.
Leaves(d) ==
  /\ task[d].at \in AtWork
  /\ \/ UNCHANGED <<orders, rows>>
     \/ /\ task[d].at = "missed"
        /\ orders' = orders \cup {Now(d)}
        /\ rows' \in {rows, rows \cup {Now(d)}}
  /\ UNCHANGED <<paper_mode, http>>

\* It raises: self.retry, whose result is not ready to get().
Raises_OneTooMany(d) ==
  /\ Leaves(d)
  /\ task' = [task EXCEPT ![d] =
                IF @.tries <= MaxRetries THEN [at |-> "countdown", tries |-> @.tries + 1]
                ELSE [@ EXCEPT !.at = "failed"]]
Raises(d) ==
  /\ Leaves(d)
  /\ task' = [task EXCEPT ![d] =
                IF @.tries < MaxRetries THEN [at |-> "countdown", tries |-> @.tries + 1]
                ELSE [@ EXCEPT !.at = "failed"]]

CountdownEnds(d) ==
  /\ task[d].at = "countdown"
  /\ Becomes(d, "queued")
  /\ UNCHANGED <<paper_mode, http, orders, rows>>

\* The pool process of the attempt is lost, and the pool fails the task at once.
LoseProcess(d) ==
  /\ "process" \in TradeFaults
  /\ Leaves(d)
  /\ Becomes(d, "lost")

\* The message goes back to its queue (acks_late): the worker died, or it lost
\* its connection and carries on regardless.
Redeliver(d) ==
  /\ "connection" \in TradeFaults
  /\ task[d].at \in AtWork
  /\ Cardinality({e \in Delivery : e[2] > 1 /\ task[e].at # "none"}) < MaxRedeliveries
  /\ LET next == <<d[1], d[2] + 1>> IN
       /\ next \in Delivery /\ task[next].at = "none"
       /\ \/ /\ task' = [task EXCEPT ![next] = [at |-> "queued", tries |-> task[d].tries]]
             /\ UNCHANGED <<paper_mode, http, orders, rows>>
          \/ /\ task' = [task EXCEPT ![d].at = "gone",
                           ![next] = [at |-> "queued", tries |-> task[d].tries]]
             /\ Leaves(d)

Runs(d) ==
  TakeTask(d) \/ Succeeds(d) \/ Raises(d) \/ CountdownEnds(d) \/ LoseProcess(d) \/ Redeliver(d)

TradeNext ==
  \/ \E p \in Post : PlaceTrade(p) \/ PlaceTradeFails(p) \/ HttpAnswer(p) \/ TimesOut(p)
  \/ \E d \in Delivery : Runs(d)

TradeSpec == TradeInit /\ [][TradeNext]_tradeVars

-----------------------------------------------------------------------------
(***************************************************************************)
(* Properties.                                                             *)
(***************************************************************************)

\* Two attempts place an order for the trade only if the request of one of
\* them was answered with an error although it may have gone through, or the
\* message was delivered twice, or the first raised after its order and before
\* its row: a retry never repeats an order that has its row.
RepeatsHaveCauses ==
  \A x, y \in orders : x # y =>
    IF x[1][1] # y[1][1] THEN "500" \in {http[x[1][1]], http[y[1][1]]}
    ELSE x[1] # y[1] \/ ~({x, y} \subseteq rows)

\* A trade that is answered with its order has a row, and one that is refused
\* by the mode has no order: only the errors tell nothing of what was done.
AnswersAreTrue ==
  \A p \in Post :
    /\ http[p] = "200" => \E o \in rows : o[1][1] = p
    /\ http[p] = "403" => \A o \in orders : o[1][1] # p

\* With three countdowns of ten seconds and a wait of thirty, no request is
\* still waiting when its task has used up its retries: what get() raises
\* before its own timeout is the loss of a process.
FailuresComeLate ==
  MaxRetries * Countdown >= Timeout =>
    \A d \in Delivery : http[d[1]] = "waiting" => task[d].at # "failed"

\* What the answer of the route says of the orders.
TradesAreExplained == RepeatsHaveCauses /\ AnswersAreTrue /\ FailuresComeLate
===============================================================================
